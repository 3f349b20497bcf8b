------------------------- MODULE EstimateSessionProofs -------------------------
(****************************************************************************)
(* Proofs about EstimateSession for any uploads, confirmations, regions and *)
(* coefficients.                                                            *)
(****************************************************************************)
EXTENDS EstimateSession, TLAPS

USE SessionAssumption

Phases == {"idle", "assign", "take", "run", "saving", "reading", "copying", "replacing",
           "done"}
Job == [phase : Phases, token : Tokens \cup {Unset}, form : Forms \cup {Empty},
        used : ChoiceRecords, at : 1..3, alone : BOOLEAN, attached : BOOLEAN,
        torn : BOOLEAN, copy : Files]

(* What a field holds once a form was stored in it. *)
Typed(f) == CASE f = "coefficient" -> Coefficients
              [] f = "region" -> Regions \cup {Blank}
              [] f = "tkp" -> BOOLEAN

(* The fields a confirmation has stored, and those it has read back. *)
JobTyped(j, st) ==
  j.phase # "idle" =>
    /\ j.token \in Tokens /\ st[j.token] \in Records /\ j.form \in Forms
    /\ j.phase = "assign" => \A m \in 1..3 :
         m < j.at => st[j.token].choice[Fields[m]] \in Typed(Fields[m])
    /\ j.phase # "assign" => \A f \in FieldNames : st[j.token].choice[f] \in Typed(f)
    /\ j.phase = "take" => \A m \in 1..3 : m < j.at => j.used[Fields[m]] \in Typed(Fields[m])
    /\ j.phase \notin {"assign", "take"} => \A f \in FieldNames : j.used[f] \in Typed(f)

TypeInv == SessionTypeOK /\ \A w \in Workers : JobTyped(job[w], store)

(* What another confirmation may change of one: that it is alone, and what its *)
(* file handle still writes to.                                                *)
Kept(new, old) ==
  /\ new.phase = old.phase /\ new.token = old.token /\ new.form = old.form
  /\ new.used = old.used /\ new.at = old.at /\ new.copy = old.copy

(* A field that holds a form's value never loses it. *)
Grown(new, old) ==
  \A t \in Tokens : old[t] \in Records =>
    /\ new[t] \in Records
    /\ \A f \in FieldNames : old[t].choice[f] \in Typed(f) => new[t].choice[f] \in Typed(f)

--------------------------------------------------------------------------------
(* Forms and results                                                           *)

LEMMA FieldsAre ==
  /\ Len(Fields) = 3 /\ Fields[1] = "coefficient" /\ Fields[2] = "region" /\ Fields[3] = "tkp"
  /\ \A m \in 1..3 : Fields[m] \in FieldNames
  /\ \A f \in FieldNames : \E m \in 1..3 : Fields[m] = f
  /\ \A m, n \in 1..3 : Fields[m] = Fields[n] => m = n
  BY DEF Fields, FieldNames

LEMMA FormFields ==
  ASSUME NEW form \in Forms
  PROVE  \A f \in FieldNames : form[f] \in Typed(f)
  BY DEF Forms, FieldNames, Typed

LEMMA TypedValues ==
  ASSUME NEW f \in FieldNames
  PROVE  Typed(f) \subseteq Coefficients \cup Regions \cup {Blank, Unset} \cup BOOLEAN
  BY DEF FieldNames, Typed

LEMMA EffectiveIsResult ==
  ASSUME NEW used \in ChoiceRecords, \A f \in FieldNames : used[f] \in Typed(f)
  PROVE  Effective(used) \in Results
  <1>1. /\ used.coefficient \in Coefficients /\ used.region \in Regions \cup {Blank}
        /\ used.tkp \in BOOLEAN
    BY DEF FieldNames, Typed
  <1>2. used = [coefficient |-> used.coefficient, region |-> used.region, tkp |-> used.tkp]
    BY DEF ChoiceRecords, FieldNames
  <1>3. Effective(used) = [coefficient |-> used.coefficient,
           region |-> IF used.region = Blank THEN SheetRegion ELSE used.region,
           tkp |-> used.tkp]
    BY <1>2 DEF Effective
  <1> QED BY <1>1, <1>3 DEF Results

LEMMA EmptyIsChoice == Empty \in ChoiceRecords
  BY DEF Empty, ChoiceRecords

LEMMA RestingIsJob == Resting \in Job
  BY EmptyIsChoice DEF Resting, Job, Phases, Files

--------------------------------------------------------------------------------
(* The types                                                                   *)

LEMMA TypeParts ==
  ASSUME TypeInv
  PROVE  /\ store \in [Tokens -> {NoUpload} \cup Records] /\ out \in [Tokens -> Files]
         /\ job \in [Workers -> Job] /\ confirms \in 0..MaxConfirms
         /\ shown \in [Tokens -> SUBSET Results] /\ spoiled \in [Tokens -> BOOLEAN]
         /\ \A w \in Workers : JobTyped(job[w], store)
  BY FieldsAre DEF TypeInv, SessionTypeOK, Job, Phases

(* What a step of one confirmation has to show. *)
LEMMA TypeFromStep ==
  ASSUME TypeInv, NEW w \in Workers,
         job' \in [Workers -> Job], JobTyped(job'[w], store'),
         \A v \in Workers : v # w => Kept(job'[v], job[v]),
         store' \in [Tokens -> {NoUpload} \cup Records], Grown(store', store),
         out' \in [Tokens -> Files], confirms' \in 0..MaxConfirms,
         shown' \in [Tokens -> SUBSET Results], spoiled' \in [Tokens -> BOOLEAN]
  PROVE  TypeInv'
  <1>1. SessionTypeOK'
    BY FieldsAre DEF SessionTypeOK, Job, Phases
  <1>2. ASSUME NEW v \in Workers, v # w
        PROVE  JobTyped(job'[v], store')
    <2>1. Kept(job'[v], job[v]) /\ JobTyped(job[v], store) /\ job[v] \in Job
      BY <1>2, TypeParts
    <2>2. \A m \in 1..3 : Fields[m] \in FieldNames
      BY FieldsAre
    <2> QED BY <2>1, <2>2 DEF JobTyped, Kept, Grown
  <1> QED BY <1>1, <1>2 DEF TypeInv

LEMMA GrownIfSame == ASSUME store' = store PROVE Grown(store', store)
  BY DEF Grown

LEMMA TypeInit == SessionInit => TypeInv
  <1> SUFFICES ASSUME SessionInit PROVE TypeInv
    OBVIOUS
  <1>1. job \in [Workers -> Job] /\ \A w \in Workers : job[w] = Resting
    BY RestingIsJob DEF SessionInit
  <1>2. SessionTypeOK
    BY <1>1, FieldsAre DEF SessionInit, SessionTypeOK, Job, Phases, Files
  <1> QED BY <1>1, <1>2 DEF TypeInv, JobTyped, Resting

LEMMA TypeUpload ==
  ASSUME TypeInv, NEW t \in Tokens, Upload(t)
  PROVE  TypeInv'
  <1>1. PICK uploaded, named \in BOOLEAN :
          store' = [store EXCEPT ![t] =
            [choice |-> Empty, finished |-> FALSE,
             catalog |-> IF ~uploaded THEN "database"
                         ELSE IF named THEN "estimate" ELSE "upload"]]
    BY DEF Upload
  <1>2. UNCHANGED <<out, job, confirms, shown, spoiled>> /\ store[t] = NoUpload
    BY DEF Upload
  <1>3. store' \in [Tokens -> {NoUpload} \cup Records]
    BY <1>1, EmptyIsChoice, TypeParts DEF Records
  <1>4. SessionTypeOK'
    BY <1>2, <1>3, FieldsAre, TypeParts DEF SessionTypeOK, Job, Phases
  <1>5. ASSUME NEW w \in Workers PROVE JobTyped(job[w], store')
    <2>1. JobTyped(job[w], store) /\ job[w] \in Job
      BY TypeParts
    <2>2. CASE job[w].phase # "idle" /\ job[w].token = t
      <3>1. NoUpload \in Records
        BY <1>2, <2>1, <2>2 DEF JobTyped
      <3> QED BY <3>1, RecordAssumption
    <2>3. CASE job[w].phase = "idle" \/ job[w].token # t
      BY <1>1, <2>1, <2>3, TypeParts DEF JobTyped
    <2> QED BY <2>2, <2>3
  <1> QED BY <1>2, <1>4, <1>5 DEF TypeInv

LEMMA TypeConfirm ==
  ASSUME TypeInv, NEW w \in Workers, NEW t \in Tokens, Confirm(w, t)
  PROVE  TypeInv'
  <1>1. PICK form \in Forms : job' = [v \in Workers |->
         IF v = w THEN [Resting EXCEPT !.phase = "assign", !.token = t, !.form = form,
                                       !.alone = (Busy(t) = {})]
         ELSE IF v \in Busy(t) THEN [job[v] EXCEPT !.alone = FALSE] ELSE job[v]]
    BY DEF Confirm
  <1> DEFINE new == [Resting EXCEPT !.phase = "assign", !.token = t, !.form = form,
                                    !.alone = (Busy(t) = {})]
  <1>2. new \in Job /\ new.phase = "assign" /\ new.token = t /\ new.form = form /\ new.at = 1
    <2> DEFINE lone == Busy(t) = {}
    <2>1. lone \in BOOLEAN /\ Resting \in Job /\ Resting.at = 1
      BY RestingIsJob DEF Resting
    <2> HIDE DEF lone
    <2>2. [Resting EXCEPT !.phase = "assign", !.token = t, !.form = form, !.alone = lone] \in Job
      BY <2>1 DEF Job, Phases
    <2>3. new = [Resting EXCEPT !.phase = "assign", !.token = t, !.form = form, !.alone = lone]
      BY DEF lone
    <2> HIDE DEF new
    <2> QED BY <2>1, <2>2, <2>3 DEF Job
  <1>3. job'[w] = new
    BY <1>1
  <1>4. \A v \in Workers : v # w => job'[v] \in Job /\ Kept(job'[v], job[v])
    <2> SUFFICES ASSUME NEW v \in Workers, v # w
                 PROVE  job'[v] \in Job /\ Kept(job'[v], job[v])
      OBVIOUS
    <2>1. job[v] \in Job
      BY TypeParts
    <2> QED BY <1>1, <2>1 DEF Job, Kept
  <1> HIDE DEF new
  <1>5. job' \in [Workers -> Job]
    BY <1>1, <1>2, <1>3, <1>4
  <1>6. store' = store /\ out' = out /\ shown' = shown /\ spoiled' = spoiled
        /\ confirms' \in 0..MaxConfirms /\ store[t] # NoUpload
    <2>1. confirms' = confirms + 1 /\ confirms < MaxConfirms /\ confirms \in 0..MaxConfirms
      BY TypeParts DEF Confirm
    <2>2. confirms' \in 0..MaxConfirms
      BY <2>1
    <2> QED BY <2>2 DEF Confirm
  <1>7. JobTyped(job'[w], store')
    BY <1>2, <1>3, <1>6, TypeParts DEF JobTyped
  <1> QED BY <1>4, <1>5, <1>6, <1>7, GrownIfSame, TypeParts, TypeFromStep, SMTT(30)

(* A step that leaves the other jobs alone. *)
LEMMA OneJob ==
  ASSUME TypeInv, NEW w \in Workers, NEW new \in Job, job' = [job EXCEPT ![w] = new]
  PROVE  /\ job' \in [Workers -> Job] /\ job'[w] = new
         /\ \A v \in Workers : v # w => job'[v] = job[v] /\ Kept(job'[v], job[v])
  BY TypeParts, SMTT(30) DEF Kept

(* What a stored field makes of the record and of the job. *)
LEMMA AssignStep ==
  ASSUME TypeInv, NEW w \in Workers, Assign(w)
  PROVE  LET j == job[w]
             f == Fields[j.at]
             t == j.token IN
         /\ j \in Job /\ j.phase = "assign" /\ j.at \in 1..3 /\ f \in FieldNames
         /\ t \in Tokens /\ store[t] \in Records /\ j.form \in Forms
         /\ \A m \in 1..3 : m < j.at => store[t].choice[Fields[m]] \in Typed(Fields[m])
         /\ j.form[f] \in Typed(f)
         /\ UNCHANGED <<out, confirms, shown, spoiled>>
         /\ job'[w] \in Job /\ job'[w].token = t /\ job'[w].form = j.form
         /\ job'[w].alone = j.alone
         /\ job'[w].phase = (IF j.at < 3 THEN "assign" ELSE "take")
         /\ job'[w].at = (IF j.at < 3 THEN j.at + 1 ELSE 1)
         /\ job' \in [Workers -> Job]
         /\ \A v \in Workers : v # w => job'[v] = job[v] /\ Kept(job'[v], job[v])
         /\ \A u \in Tokens : u # t => store'[u] = store[u]
         /\ store' = [u \in Tokens |-> store'[u]]
         /\ store'[t] \in Records /\ store'[t].choice[f] = j.form[f]
         /\ store'[t].finished = store[t].finished
         /\ \A g \in FieldNames : g # f => store'[t].choice[g] = store[t].choice[g]
  <1> DEFINE j == job[w]
             f == Fields[j.at]
             t == j.token
             new == [j EXCEPT !.phase = IF j.at < 3 THEN "assign" ELSE "take",
                              !.at = IF j.at < 3 THEN j.at + 1 ELSE 1]
  <1>1. /\ j \in Job /\ j.phase = "assign" /\ j.at \in 1..3 /\ f \in FieldNames
        /\ t \in Tokens /\ store[t] \in Records /\ j.form \in Forms
        /\ \A m \in 1..3 : m < j.at => store[t].choice[Fields[m]] \in Typed(Fields[m])
    <2>1. j \in Job /\ JobTyped(j, store) /\ j.phase = "assign"
      BY TypeParts DEF Assign
    <2> QED BY <2>1, FieldsAre DEF JobTyped, Job
  <1>2. /\ store' = [store EXCEPT ![t].choice[f] = j.form[f]]
        /\ job' = [job EXCEPT ![w] = new]
        /\ UNCHANGED <<out, confirms, shown, spoiled>>
    <2>1. job' = [job EXCEPT ![w].phase = IF job[w].at < 3 THEN @ ELSE "take",
                             ![w].at = IF @ < 3 THEN @ + 1 ELSE 1]
      BY FieldsAre DEF Assign
    <2>2. job' = [job EXCEPT ![w] = new]
      BY <1>1, <2>1, TypeParts DEF Job
    <2> QED BY <2>2 DEF Assign, Assigned
  <1>3. new \in Job /\ new.token = t /\ new.form = j.form /\ new.alone = j.alone
        /\ new.phase = (IF j.at < 3 THEN "assign" ELSE "take")
        /\ new.at = (IF j.at < 3 THEN j.at + 1 ELSE 1)
    <2> DEFINE phase == IF j.at < 3 THEN "assign" ELSE "take"
               at == IF j.at < 3 THEN j.at + 1 ELSE 1
    <2>1. phase \in Phases /\ at \in 1..3 /\ new = [j EXCEPT !.phase = phase, !.at = at]
      BY <1>1 DEF Phases
    <2> HIDE DEF phase, at, new
    <2>2. /\ new \in Job /\ new.token = t /\ new.form = j.form /\ new.alone = j.alone
          /\ new.phase = phase /\ new.at = at
      BY <1>1, <2>1 DEF Job
    <2> QED BY <2>2 DEF phase, at
  <1>4. j.form[f] \in Typed(f)
    BY <1>1, FormFields
  <1>5. /\ store'[t] = [store[t] EXCEPT !.choice = [@ EXCEPT ![f] = j.form[f]]]
        /\ \A u \in Tokens : u # t => store'[u] = store[u]
        /\ DOMAIN store' = Tokens /\ store' = [u \in Tokens |-> store'[u]]
    BY <1>1, <1>2, TypeParts
  <1>6. /\ store'[t] \in Records /\ store'[t].choice[f] = j.form[f]
        /\ store'[t].finished = store[t].finished
        /\ \A g \in FieldNames : g # f => store'[t].choice[g] = store[t].choice[g]
    <2>1. store[t].choice \in ChoiceRecords
      BY <1>1 DEF Records
    <2>2. j.form[f] \in Coefficients \cup Regions \cup {Blank, Unset} \cup BOOLEAN
      BY <1>1, <1>4, TypedValues
    <2>3. [store[t].choice EXCEPT ![f] = j.form[f]] \in ChoiceRecords
      BY <2>1, <2>2 DEF ChoiceRecords
    <2>4. store'[t].choice = [store[t].choice EXCEPT ![f] = j.form[f]]
      BY <1>1, <1>5 DEF Records
    <2>5. store'[t] \in Records /\ store'[t].finished = store[t].finished
      BY <1>1, <1>5, <2>3 DEF Records
    <2> QED BY <1>1, <2>1, <2>4, <2>5 DEF ChoiceRecords
  <1> HIDE DEF new
  <1>7. /\ job' \in [Workers -> Job] /\ job'[w] = new
        /\ \A v \in Workers : v # w => job'[v] = job[v] /\ Kept(job'[v], job[v])
    BY <1>2, <1>3, OneJob
  <1>8. UNCHANGED <<out, confirms, shown, spoiled>>
    BY <1>2
  <1> QED BY <1>1, <1>3, <1>4, <1>5, <1>6, <1>7, <1>8

LEMMA TypeAssign ==
  ASSUME TypeInv, NEW w \in Workers, Assign(w)
  PROVE  TypeInv'
  <1> DEFINE j == job[w]
             f == Fields[j.at]
             t == j.token
             new == job'[w]
  <1>1. /\ j \in Job /\ j.phase = "assign" /\ j.at \in 1..3 /\ f \in FieldNames
        /\ t \in Tokens /\ store[t] \in Records /\ j.form \in Forms
        /\ \A m \in 1..3 : m < j.at => store[t].choice[Fields[m]] \in Typed(Fields[m])
    BY AssignStep
  <1>2. /\ out' = out /\ confirms' = confirms /\ shown' = shown /\ spoiled' = spoiled
        /\ job' \in [Workers -> Job]
        /\ \A v \in Workers : v # w => Kept(job'[v], job[v])
    BY AssignStep
  <1>3. new \in Job /\ new.token = t /\ new.form = j.form
        /\ new.phase = (IF j.at < 3 THEN "assign" ELSE "take")
        /\ new.at = (IF j.at < 3 THEN j.at + 1 ELSE 1)
    BY AssignStep
  <1>4. j.form[f] \in Typed(f)
    BY AssignStep
  <1>5. /\ \A u \in Tokens : u # t => store'[u] = store[u]
        /\ store' = [u \in Tokens |-> store'[u]]
    BY AssignStep
  <1>6. /\ store'[t] \in Records /\ store'[t].choice[f] = j.form[f]
        /\ \A g \in FieldNames : g # f => store'[t].choice[g] = store[t].choice[g]
    BY AssignStep
  <1>7. store' \in [Tokens -> {NoUpload} \cup Records]
    BY <1>5, <1>6, TypeParts
  <1>8. Grown(store', store)
    BY <1>1, <1>4, <1>5, <1>6 DEF Grown
  <1>9. JobTyped(new, store')
    <2>1. \A m \in 1..3 : m <= j.at => store'[t].choice[Fields[m]] \in Typed(Fields[m])
      BY <1>1, <1>4, <1>6, FieldsAre, SMTT(30)
    <2>2. CASE j.at < 3
      BY <1>1, <1>3, <1>6, <2>1, <2>2, SMTT(30) DEF JobTyped
    <2>3. CASE j.at = 3
      <3>1. \A g \in FieldNames : store'[t].choice[g] \in Typed(g)
        BY <2>1, <2>3, FieldsAre
      <3>2. new.at = 1 /\ new.phase = "take"
        BY <1>3, <2>3
      <3> HIDE DEF new
      <3> QED BY <1>1, <1>3, <1>6, <3>1, <3>2 DEF JobTyped
    <2> QED BY <1>1, <2>2, <2>3
  <1> HIDE DEF new
  <1>10. JobTyped(job'[w], store')
    BY <1>9 DEF new
  <1> QED BY <1>2, <1>7, <1>8, <1>10, TypeParts, TypeFromStep

(* What a field read back makes of the job. *)
LEMMA TakeStep ==
  ASSUME TypeInv, NEW w \in Workers, Take(w)
  PROVE  LET j == job[w]
             f == Fields[j.at]
             t == j.token
             used == job'[w].used IN
         /\ j \in Job /\ j.phase = "take" /\ j.at \in 1..3 /\ f \in FieldNames
         /\ t \in Tokens /\ store[t] \in Records /\ j.form \in Forms /\ j.used \in ChoiceRecords
         /\ \A g \in FieldNames : store[t].choice[g] \in Typed(g)
         /\ \A m \in 1..3 : m < j.at => j.used[Fields[m]] \in Typed(Fields[m])
         /\ UNCHANGED <<store, out, confirms, shown, spoiled>>
         /\ used \in ChoiceRecords /\ used[f] = store[t].choice[f]
         /\ \A g \in FieldNames : g # f => used[g] = j.used[g]
         /\ job'[w] \in Job /\ job'[w].token = t /\ job'[w].form = j.form
         /\ job'[w].alone = j.alone
         /\ job'[w].phase = (IF j.at < 3 THEN "take" ELSE "run")
         /\ job'[w].at = (IF j.at < 3 THEN j.at + 1 ELSE 1)
         /\ job' \in [Workers -> Job]
         /\ \A v \in Workers : v # w => job'[v] = job[v] /\ Kept(job'[v], job[v])
  <1> DEFINE j == job[w]
             f == Fields[j.at]
             t == j.token
             value == store[t].choice[f]
             phase == IF j.at < 3 THEN "take" ELSE "run"
             at == IF j.at < 3 THEN j.at + 1 ELSE 1
             used == [j.used EXCEPT ![f] = value]
             new == [j EXCEPT !.used = used, !.phase = phase, !.at = at]
  <1>1. /\ j \in Job /\ j.phase = "take" /\ j.at \in 1..3 /\ f \in FieldNames
        /\ t \in Tokens /\ store[t] \in Records /\ j.form \in Forms /\ j.used \in ChoiceRecords
        /\ \A g \in FieldNames : store[t].choice[g] \in Typed(g)
        /\ \A m \in 1..3 : m < j.at => j.used[Fields[m]] \in Typed(Fields[m])
    <2>1. j \in Job /\ JobTyped(j, store) /\ j.phase = "take"
      BY TypeParts, SMTT(30) DEF Take
    <2> QED BY <2>1, FieldsAre DEF JobTyped, Job
  <1>2. job' = [job EXCEPT ![w].used[f] = value,
                           ![w].phase = IF job[w].at < 3 THEN @ ELSE "run",
                           ![w].at = IF @ < 3 THEN @ + 1 ELSE 1]
        /\ UNCHANGED <<store, out, confirms, shown, spoiled>>
    BY FieldsAre DEF Take
  <1>3. job' = [job EXCEPT ![w] = new]
    BY <1>1, <1>2, TypeParts DEF Job
  <1>4. phase \in Phases /\ at \in 1..3
    BY <1>1 DEF Phases
  <1>5. /\ used \in ChoiceRecords /\ used[f] = value
        /\ \A g \in FieldNames : g # f => used[g] = j.used[g]
    <2>1. value \in Coefficients \cup Regions \cup {Blank, Unset} \cup BOOLEAN
      BY <1>1, TypedValues
    <2> HIDE DEF value
    <2> QED BY <1>1, <2>1 DEF ChoiceRecords
  <1> HIDE DEF used
  <1>6. /\ new \in Job /\ new.token = t /\ new.form = j.form /\ new.used = used
        /\ new.phase = phase /\ new.at = at /\ new.alone = j.alone
    <2> HIDE DEF phase, at
    <2> QED BY <1>1, <1>4, <1>5 DEF Job
  <1> HIDE DEF new
  <1>7. /\ job' \in [Workers -> Job] /\ job'[w] = new
        /\ \A v \in Workers : v # w => job'[v] = job[v] /\ Kept(job'[v], job[v])
    BY <1>3, <1>6, OneJob
  <1>8. UNCHANGED <<store, out, confirms, shown, spoiled>>
    BY <1>2
  <1> QED BY <1>1, <1>5, <1>6, <1>7, <1>8

LEMMA TypeTake ==
  ASSUME TypeInv, NEW w \in Workers, Take(w)
  PROVE  TypeInv'
  <1> DEFINE j == job[w]
             f == Fields[j.at]
             t == j.token
             new == job'[w]
             used == new.used
  <1>1. /\ j \in Job /\ j.at \in 1..3 /\ f \in FieldNames
        /\ t \in Tokens /\ store[t] \in Records /\ j.form \in Forms
        /\ \A g \in FieldNames : store[t].choice[g] \in Typed(g)
        /\ \A m \in 1..3 : m < j.at => j.used[Fields[m]] \in Typed(Fields[m])
    BY TakeStep
  <1>5. /\ used[f] \in Typed(f) /\ \A g \in FieldNames : g # f => used[g] = j.used[g]
    <2>1. used[f] = store[t].choice[f] /\ \A g \in FieldNames : g # f => used[g] = j.used[g]
      BY TakeStep
    <2> QED BY <1>1, <2>1
  <1>6. /\ new.token = t /\ new.form = j.form
        /\ new.phase = (IF j.at < 3 THEN "take" ELSE "run")
        /\ new.at = (IF j.at < 3 THEN j.at + 1 ELSE 1)
    BY TakeStep
  <1>7. JobTyped(new, store)
    <2>1. \A m \in 1..3 : m <= j.at => new.used[Fields[m]] \in Typed(Fields[m])
      BY <1>1, <1>5, FieldsAre
    <2>2. CASE j.at < 3
      <3>1. new.phase = "take" /\ new.at = j.at + 1
        BY <1>6, <2>2
      <3>2. \A m \in 1..3 : m < new.at => new.used[Fields[m]] \in Typed(Fields[m])
        BY <1>1, <1>6, <2>1, <3>1
      <3> HIDE DEF new
      <3> QED BY <1>1, <1>6, <3>1, <3>2 DEF JobTyped
    <2>3. CASE j.at = 3
      <3>1. new.phase = "run"
        BY <1>6, <2>3
      <3>2. \A g \in FieldNames : new.used[g] \in Typed(g)
        BY <1>6, <2>1, <2>3, FieldsAre
      <3> HIDE DEF new
      <3> QED BY <1>1, <1>6, <3>1, <3>2 DEF JobTyped
    <2> QED BY <1>1, <2>2, <2>3
  <1> HIDE DEF new
  <1>8. /\ store' = store /\ out' = out /\ confirms' = confirms /\ shown' = shown
        /\ spoiled' = spoiled
    BY TakeStep
  <1>9. /\ job' \in [Workers -> Job] /\ \A v \in Workers : v # w => Kept(job'[v], job[v])
    BY TakeStep
  <1>10. JobTyped(job'[w], store') /\ Grown(store', store)
    BY <1>7, <1>8, GrownIfSame DEF new
  <1> QED BY <1>8, <1>9, <1>10, TypeParts, TypeFromStep

LEMMA TypeEnd ==
  ASSUME TypeInv, NEW w \in Workers, FailRun(w) \/ FailWrite(w)
  PROVE  TypeInv'
  <1>1. /\ job' = [job EXCEPT ![w] = Resting] /\ UNCHANGED <<store, out, confirms, shown>>
        /\ spoiled' \in [Tokens -> BOOLEAN]
    BY TypeParts DEF FailRun, FailWrite
  <1>2. JobTyped(Resting, store)
    BY DEF JobTyped, Resting
  <1> QED BY <1>1, <1>2, RestingIsJob, OneJob, GrownIfSame, TypeParts, TypeFromStep

(* From the calculation on, a job knows its whole choice. *)
Running == Phases \ {"idle", "assign", "take"}

LEMMA RunningJob ==
  ASSUME TypeInv, NEW w \in Workers, job[w].phase \in Running
  PROVE  /\ job[w] \in Job /\ job[w].token \in Tokens /\ store[job[w].token] \in Records
         /\ job[w].used \in ChoiceRecords /\ job[w].form \in Forms
         /\ \A f \in FieldNames : job[w].used[f] \in Typed(f)
         /\ \A f \in FieldNames : store[job[w].token].choice[f] \in Typed(f)
         /\ Effective(job[w].used) \in Results
  <1>1. job[w] \in Job /\ JobTyped(job[w], store)
    BY TypeParts
  <1>2. /\ job[w].token \in Tokens /\ store[job[w].token] \in Records
        /\ job[w].used \in ChoiceRecords /\ job[w].form \in Forms
        /\ \A f \in FieldNames : job[w].used[f] \in Typed(f)
        /\ \A f \in FieldNames : store[job[w].token].choice[f] \in Typed(f)
    BY <1>1 DEF JobTyped, Job, Running
  <1> QED BY <1>1, <1>2, EffectiveIsResult

LEMMA RunningTyped ==
  ASSUME TypeInv, NEW w \in Workers, job[w].phase \in Running, NEW new, new.phase \in Running,
         new.token = job[w].token, new.form = job[w].form, new.used = job[w].used
  PROVE  JobTyped(new, store)
  BY RunningJob DEF JobTyped, Running

(* A step of a running job that leaves the uploads as they are: the handles of  *)
(* others may be disturbed.                                                     *)
LEMMA TypeRunning ==
  ASSUME TypeInv, NEW w \in Workers, job[w].phase \in Running, NEW new \in Job,
         new.phase \in Running, new.token = job[w].token, new.form = job[w].form,
         new.used = job[w].used, job' \in [Workers -> Job], job'[w] = new,
         \A v \in Workers : v # w => Kept(job'[v], job[v]),
         out' \in [Tokens -> Files], spoiled' \in [Tokens -> BOOLEAN],
         UNCHANGED <<store, confirms, shown>>
  PROVE  TypeInv'
  <1>1. JobTyped(new, store)
    BY RunningTyped
  <1>2. store' = store /\ confirms' = confirms /\ shown' = shown
    OBVIOUS
  <1> QED BY <1>1, <1>2, GrownIfSame, TypeParts, TypeFromStep

(* OpenOutput and Replace: what the step makes of the other savings of a file. *)
LEMMA JobsAround ==
  ASSUME TypeInv, NEW w \in Workers, NEW new \in Job, NEW S \in SUBSET Workers,
         \/ job' = [v \in Workers |-> IF v = w THEN new
                    ELSE IF v \in S THEN [job[v] EXCEPT !.torn = TRUE] ELSE job[v]]
         \/ job' = [v \in Workers |-> IF v = w THEN new
                    ELSE IF v \in S THEN [job[v] EXCEPT !.attached = FALSE] ELSE job[v]]
  PROVE  /\ job' \in [Workers -> Job] /\ job'[w] = new
         /\ \A v \in Workers : v # w => Kept(job'[v], job[v])
  <1>1. \A v \in Workers : job[v] \in Job
    BY TypeParts
  <1>2. \A v \in Workers : /\ [job[v] EXCEPT !.torn = TRUE] \in Job
                           /\ Kept([job[v] EXCEPT !.torn = TRUE], job[v])
                           /\ [job[v] EXCEPT !.attached = FALSE] \in Job
                           /\ Kept([job[v] EXCEPT !.attached = FALSE], job[v])
                           /\ Kept(job[v], job[v])
    BY <1>1 DEF Job, Kept
  <1> QED BY <1>1, <1>2

LEMMA FileValues ==
  /\ Torn \in Files /\ Absent \in Files
  /\ \A r \in Results : Package("plain", r) \in Files /\ Package("whole", r) \in Files
  /\ \A x \in Files : x # Torn /\ x # Absent => x.state \in {"plain", "whole"}
  BY SMTT(30) DEF Files, Torn, Absent, Package

LEMMA PackageParts ==
  ASSUME NEW state, NEW r
  PROVE  /\ Package(state, r).state = state
         /\ Package(state, r).sheet = r /\ Package(state, r).rest = r
  BY DEF Package

(* A readable file, and what Replace and CopyRest make of a copy of one.        *)
Readable(x) ==
  x \in [state : {"plain", "whole"}, sheet : Results, rest : Results]

LEMMA FileReadable ==
  ASSUME NEW x \in Files, x # Torn, x # Absent PROVE Readable(x)
  BY DEF Readable, Files

LEMMA ReadableFile ==
  ASSUME NEW x, Readable(x)
  PROVE  /\ x \in Files /\ x # Torn /\ x # Absent
         /\ x.state \in {"plain", "whole"} /\ x.rest \in Results
  <1>1. x.state \in {"plain", "whole"} /\ x.rest \in Results /\ x \in Files
    BY DEF Readable, Files
  <1>2. Torn.state = "torn" /\ Absent.state = "absent"
    BY DEF Torn, Absent
  <1> QED BY <1>1, <1>2

LEMMA ReadableWhole ==
  ASSUME NEW x, Readable(x), NEW y, y = [x EXCEPT !.state = "whole"]
  PROVE  Readable(y) /\ y.state = "whole" /\ y.sheet = x.sheet /\ y.rest = x.rest
  BY DEF Readable

LEMMA ReadableRest ==
  ASSUME NEW x, Readable(x), NEW r \in Results, NEW y, y = [x EXCEPT !.rest = r]
  PROVE  Readable(y) /\ y.sheet = x.sheet /\ y.rest = r
  BY DEF Readable

(* What the steps of a running job make of it and of the file. *)
LEMMA OpenOutputStep ==
  ASSUME TypeInv, NEW w \in Workers, OpenOutput(w)
  PROVE  LET t == job[w].token IN
         /\ job[w].phase = "run" /\ out' = [out EXCEPT ![t] = Torn]
         /\ job' \in [Workers -> Job]
         /\ \A v \in Workers : v # w => Kept(job'[v], job[v])
         /\ job'[w] = [job[w] EXCEPT !.phase = "saving", !.attached = TRUE,
                                    !.torn = (Saving(t) # {})]
         /\ job'[w].phase = "saving" /\ job'[w].attached = TRUE
         /\ job'[w].torn = (Saving(t) # {})
         /\ job'[w].token = t /\ job'[w].form = job[w].form /\ job'[w].used = job[w].used
         /\ job'[w].alone = job[w].alone
         /\ spoiled' = [spoiled EXCEPT ![t] = @ /\ Writing(t) # {}]
         /\ UNCHANGED <<store, confirms, shown>>
  <1> DEFINE t == job[w].token
             torn == Saving(t) # {}
             new == [job[w] EXCEPT !.phase = "saving", !.attached = TRUE, !.torn = torn]
  <1>1. /\ job[w].phase = "run" /\ out' = [out EXCEPT ![t] = Torn]
        /\ job' = [v \in Workers |-> IF v = w THEN new
                   ELSE IF v \in Saving(t) THEN [job[v] EXCEPT !.torn = TRUE] ELSE job[v]]
        /\ spoiled' = [spoiled EXCEPT ![t] = @ /\ Writing(t) # {}]
        /\ UNCHANGED <<store, confirms, shown>>
    BY DEF OpenOutput
  <1>2. job[w] \in Job /\ torn \in BOOLEAN
    BY TypeParts
  <1>3. new = [job[w] EXCEPT !.phase = "saving", !.attached = TRUE, !.torn = (Saving(t) # {})]
    OBVIOUS
  <1> HIDE DEF torn
  <1>4. /\ new \in Job /\ new.phase = "saving" /\ new.attached = TRUE /\ new.torn = torn
        /\ new.token = t /\ new.form = job[w].form /\ new.used = job[w].used
        /\ new.alone = job[w].alone
    BY <1>2 DEF Job, Phases
  <1> HIDE DEF new
  <1>5. Saving(t) \in SUBSET Workers
    BY DEF Saving, Busy
  <1>6. /\ job' \in [Workers -> Job] /\ job'[w] = new
        /\ \A v \in Workers : v # w => Kept(job'[v], job[v])
    BY <1>1, <1>4, <1>5, JobsAround
  <1> QED BY <1>1, <1>3, <1>4, <1>6 DEF torn

LEMMA FinishSaveStep ==
  ASSUME TypeInv, NEW w \in Workers, FinishSave(w)
  PROVE  LET t == job[w].token IN
         /\ job[w].phase = "saving" /\ job' \in [Workers -> Job]
         /\ out' = IF job[w].attached /\ ~job[w].torn
                   THEN [out EXCEPT ![t] = Package("plain", Effective(job[w].used))]
                   ELSE out
         /\ \A v \in Workers : v # w => job'[v] = job[v] /\ Kept(job'[v], job[v])
         /\ job'[w] = [job[w] EXCEPT !.phase = "reading"] /\ job'[w].phase = "reading"
         /\ job'[w].token = t /\ job'[w].form = job[w].form /\ job'[w].used = job[w].used
         /\ job'[w].alone = job[w].alone
         /\ UNCHANGED <<store, confirms, shown, spoiled>>
  <1> DEFINE new == [job[w] EXCEPT !.phase = "reading"]
  <1>1. job' = [job EXCEPT ![w] = new] /\ job[w].phase = "saving"
    BY DEF FinishSave
  <1>2. /\ new \in Job /\ new.phase = "reading" /\ new.token = job[w].token
        /\ new.form = job[w].form /\ new.used = job[w].used /\ new.alone = job[w].alone
    BY TypeParts DEF Job, Phases
  <1> HIDE DEF new
  <1>3. /\ job' \in [Workers -> Job] /\ job'[w] = new
        /\ \A v \in Workers : v # w => job'[v] = job[v] /\ Kept(job'[v], job[v])
    BY <1>1, <1>2, OneJob
  <1> QED BY <1>1, <1>2, <1>3 DEF FinishSave, new

LEMMA ReadBackStep ==
  ASSUME TypeInv, NEW w \in Workers, ReadBack(w)
  PROVE  LET t == job[w].token IN
         /\ job[w].phase = "reading" /\ out[t] # Torn /\ job' \in [Workers -> Job]
         /\ \A v \in Workers : v # w => job'[v] = job[v] /\ Kept(job'[v], job[v])
         /\ job'[w].phase = "copying" /\ job'[w].copy = out[t]
         /\ job'[w].token = t /\ job'[w].form = job[w].form /\ job'[w].used = job[w].used
         /\ job'[w].alone = job[w].alone
         /\ UNCHANGED <<store, out, confirms, shown, spoiled>>
  <1> DEFINE new == [job[w] EXCEPT !.phase = "copying", !.copy = out[job[w].token]]
  <1>1. job[w].phase = "reading" /\ out[job[w].token] # Torn
        /\ UNCHANGED <<store, out, confirms, shown, spoiled>>
    BY DEF ReadBack
  <1>2. job' = [job EXCEPT ![w] = new]
    BY DEF ReadBack
  <1>3. job[w].token \in Tokens /\ out[job[w].token] \in Files
    BY <1>1, RunningJob, TypeParts DEF Running, Phases
  <1>4. /\ new \in Job /\ new.phase = "copying" /\ new.token = job[w].token
        /\ new.form = job[w].form /\ new.used = job[w].used /\ new.alone = job[w].alone
        /\ new.copy = out[job[w].token]
    BY <1>3, TypeParts, ZenonT(30) DEF Job, Phases
  <1> HIDE DEF new
  <1>5. /\ job' \in [Workers -> Job] /\ job'[w] = new
        /\ \A v \in Workers : v # w => job'[v] = job[v] /\ Kept(job'[v], job[v])
    BY <1>2, <1>4, OneJob
  <1> QED BY <1>1, <1>4, <1>5

LEMMA CopyRestStep ==
  ASSUME TypeInv, NEW w \in Workers, CopyRest(w)
  PROVE  LET t == job[w].token
             x == job[w].copy IN
         /\ job[w].phase = "copying" /\ out[t] # Torn
         /\ job' = [job EXCEPT ![w] = job'[w]]
         /\ \A v \in Workers : v # w => job'[v] = job[v] /\ Kept(job'[v], job[v])
         /\ Readable(x) /\ out[t].rest \in Results => job' \in [Workers -> Job]
         /\ job'[w].phase = "replacing" /\ job'[w].copy = [x EXCEPT !.rest = out[t].rest]
         /\ job'[w].token = t /\ job'[w].form = job[w].form /\ job'[w].used = job[w].used
         /\ job'[w].alone = job[w].alone
         /\ UNCHANGED <<store, out, confirms, shown, spoiled>>
  <1> DEFINE t == job[w].token
             y == [job[w].copy EXCEPT !.rest = out[t].rest]
             new == [job[w] EXCEPT !.phase = "replacing", !.copy = y]
  <1>1. job[w].phase = "copying" /\ out[t] # Torn
        /\ UNCHANGED <<store, out, confirms, shown, spoiled>>
    BY DEF CopyRest
  <1>2. job' = [job EXCEPT ![w] = new]
    BY DEF CopyRest
  <1>3. Readable(job[w].copy) /\ out[t].rest \in Results => y \in Files
    BY ReadableRest, ReadableFile
  <1> HIDE DEF y
  <1>4. job[w] \in Job
    BY TypeParts
  <1>5. /\ y \in Files => new \in Job
        /\ new.phase = "replacing" /\ new.token = job[w].token
        /\ new.form = job[w].form /\ new.used = job[w].used /\ new.alone = job[w].alone
        /\ new.copy = y
    BY <1>4, ZenonT(30) DEF Job, Phases
  <1> HIDE DEF new
  <1>6. /\ job'[w] = new
        /\ \A v \in Workers : v # w => job'[v] = job[v] /\ Kept(job'[v], job[v])
    BY <1>2, TypeParts DEF Kept
  <1>7. y \in Files => job' \in [Workers -> Job]
    BY <1>2, <1>5, OneJob
  <1> QED BY <1>1, <1>2, <1>3, <1>5, <1>6, <1>7 DEF y

LEMMA ReplaceStep ==
  ASSUME TypeInv, NEW w \in Workers, Replace(w)
  PROVE  LET t == job[w].token IN
         /\ job[w].phase = "replacing" /\ job' \in [Workers -> Job]
         /\ out' = [out EXCEPT ![t] = [job[w].copy EXCEPT !.state = "whole"]]
         /\ \A v \in Workers : v # w => Kept(job'[v], job[v])
         /\ job'[w].phase = "done"
         /\ job'[w].token = t /\ job'[w].form = job[w].form /\ job'[w].used = job[w].used
         /\ job'[w].alone = job[w].alone
         /\ UNCHANGED <<store, confirms, shown, spoiled>>
  <1> DEFINE t == job[w].token
             new == [job[w] EXCEPT !.phase = "done"]
  <1>1. /\ job[w].phase = "replacing"
        /\ out' = [out EXCEPT ![t] = [job[w].copy EXCEPT !.state = "whole"]]
        /\ job' = [v \in Workers |-> IF v = w THEN new
                   ELSE IF v \in Saving(t) THEN [job[v] EXCEPT !.attached = FALSE] ELSE job[v]]
        /\ UNCHANGED <<store, confirms, shown, spoiled>>
    BY DEF Replace
  <1>2. /\ new \in Job /\ new.phase = "done" /\ new.token = t
        /\ new.form = job[w].form /\ new.used = job[w].used /\ new.alone = job[w].alone
    BY TypeParts DEF Job, Phases
  <1> HIDE DEF new
  <1>3. Saving(t) \in SUBSET Workers
    BY DEF Saving, Busy
  <1>4. /\ job' \in [Workers -> Job] /\ job'[w] = new
        /\ \A v \in Workers : v # w => Kept(job'[v], job[v])
    BY <1>1, <1>2, <1>3, JobsAround
  <1> QED BY <1>1, <1>2, <1>4

LEMMA FinishStep ==
  ASSUME TypeInv, NEW w \in Workers, Finish(w)
  PROVE  LET t == job[w].token IN
         /\ job[w].phase = "done" /\ job' \in [Workers -> Job] /\ job'[w] = Resting
         /\ \A v \in Workers : v # w => job'[v] = job[v] /\ Kept(job'[v], job[v])
         /\ store' \in [Tokens -> {NoUpload} \cup Records] /\ Grown(store', store)
         /\ \A u \in Tokens : u # t => store'[u] = store[u]
         /\ store'[t].choice = store[t].choice
         /\ shown' = [shown EXCEPT ![t] = @ \cup {Effective(job[w].used)}]
         /\ shown' \in [Tokens -> SUBSET Results]
         /\ UNCHANGED <<out, confirms, spoiled>>
  <1> DEFINE t == job[w].token
  <1>1. /\ job[w].phase = "done" /\ job' = [job EXCEPT ![w] = Resting]
        /\ store' = [store EXCEPT ![t].finished = TRUE]
        /\ shown' = [shown EXCEPT ![t] = @ \cup {Effective(job[w].used)}]
        /\ UNCHANGED <<out, confirms, spoiled>>
    BY DEF Finish
  <1>2. t \in Tokens /\ store[t] \in Records /\ Effective(job[w].used) \in Results
    BY <1>1, RunningJob DEF Running, Phases
  <1>3. /\ job' \in [Workers -> Job] /\ job'[w] = Resting
        /\ \A v \in Workers : v # w => job'[v] = job[v] /\ Kept(job'[v], job[v])
    BY <1>1, RestingIsJob, OneJob
  <1>4. /\ store'[t] = [store[t] EXCEPT !.finished = TRUE]
        /\ \A u \in Tokens : u # t => store'[u] = store[u]
        /\ store' = [u \in Tokens |-> store'[u]]
    BY <1>1, <1>2, TypeParts
  <1>5. store'[t] \in Records /\ store'[t].choice = store[t].choice
    BY <1>2, <1>4 DEF Records
  <1>6. store' \in [Tokens -> {NoUpload} \cup Records] /\ Grown(store', store)
    BY <1>4, <1>5, TypeParts DEF Grown
  <1>7. shown' \in [Tokens -> SUBSET Results]
    BY <1>1, <1>2, TypeParts
  <1> QED BY <1>1, <1>3, <1>4, <1>5, <1>6, <1>7

--------------------------------------------------------------------------------
(* What the file of an upload holds. A run that fails while it writes leaves    *)
(* anything behind, so most of it is said of unspoiled files only; and what is  *)
(* in the file was computed by a run that was shown or is still writing.        *)

Writer(v, t) ==
  job[v].token = t /\ job[v].phase \in {"saving", "reading", "copying", "replacing", "done"}

(* Who holds a copy of what was saved. *)
Copier(v, t) == Writer(v, t) /\ job[v].phase \in {"copying", "replacing"}

Known(t, r) == r \in shown[t] \/ \E v \in Workers : Writer(v, t) /\ Effective(job[v].used) = r

KnownParts(t, x) == Known(t, x.sheet) /\ Known(t, x.rest)

FileThere(t) ==
  /\ store[t] # NoUpload /\ store[t].finished => out[t] # Absent
  /\ \A v \in Workers : Writer(v, t) => out[t] # Absent
  /\ \A v \in Workers : Copier(v, t) => Readable(job[v].copy)

FileClean(t) ==
  /\ out[t].state \in {"torn", "plain"} =>
       \E v \in Workers : Writer(v, t) /\ job[v].phase # "done"
  /\ out[t].state \in {"plain", "whole"} => KnownParts(t, out[t])
  /\ \A v \in Workers : Copier(v, t) => KnownParts(t, job[v].copy)

FileSound(t) == ~spoiled[t] => FileClean(t)

FileInv == \A t \in Tokens : FileThere(t) /\ FileSound(t)

LEMMA TypeSteps ==
  ASSUME TypeInv, FileInv, NEW w \in Workers,
         \/ OpenOutput(w) \/ FinishSave(w) \/ ReadBack(w) \/ CopyRest(w) \/ Replace(w)
         \/ Finish(w)
  PROVE  TypeInv'
  <1> DEFINE t == job[w].token
  <1>1. CASE OpenOutput(w)
    <2>1. t \in Tokens /\ job[w].phase \in Running
      BY <1>1, RunningJob, OpenOutputStep DEF Running, Phases
    <2>2. out' \in [Tokens -> Files] /\ spoiled' \in [Tokens -> BOOLEAN]
      <3> DEFINE others == Writing(t) # {}
      <3>1. spoiled' = [spoiled EXCEPT ![t] = @ /\ others] /\ others \in BOOLEAN
        BY <1>1, OpenOutputStep
      <3> HIDE DEF others
      <3>2. spoiled' \in [Tokens -> BOOLEAN]
        BY <2>1, <3>1, TypeParts, SMTT(30)
      <3>3. out' = [out EXCEPT ![t] = Torn]
        BY <1>1, OpenOutputStep
      <3>4. out' \in [Tokens -> Files]
        BY <3>3, FileValues, TypeParts
      <3> QED BY <3>2, <3>4
    <2>3. job'[w] \in Job /\ job'[w].phase \in Running
      BY <1>1, OpenOutputStep DEF Running, Phases
    <2> QED BY <1>1, <2>1, <2>2, <2>3, OpenOutputStep, TypeRunning, ZenonT(30)
  <1>2. CASE FinishSave(w)
    <2>1. t \in Tokens /\ job[w].phase \in Running /\ Effective(job[w].used) \in Results
      BY <1>2, RunningJob, FinishSaveStep DEF Running, Phases
    <2>2. out' \in [Tokens -> Files] /\ spoiled' \in [Tokens -> BOOLEAN]
      <3> DEFINE r == Package("plain", Effective(job[w].used))
      <3>1. spoiled' = spoiled /\ (out' = [out EXCEPT ![t] = r] \/ out' = out)
        BY <1>2, FinishSaveStep
      <3>2. r \in Files
        BY <2>1, FileValues
      <3> HIDE DEF r
      <3> QED BY <3>1, <3>2, TypeParts
    <2>3. job'[w] \in Job /\ job'[w].phase \in Running
      BY <1>2, FinishSaveStep DEF Running, Phases
    <2>4. UNCHANGED <<store, confirms, shown>>
      BY <1>2, FinishSaveStep
    <2> QED BY <1>2, <2>1, <2>2, <2>3, <2>4, FinishSaveStep, TypeRunning
  <1>3. CASE ReadBack(w)
    <2>1. job[w].phase \in Running
      BY <1>3, ReadBackStep DEF Running, Phases
    <2>2. out' \in [Tokens -> Files] /\ spoiled' \in [Tokens -> BOOLEAN]
      BY <1>3, ReadBackStep, TypeParts
    <2>3. job'[w] \in Job /\ job'[w].phase \in Running
      BY <1>3, ReadBackStep DEF Running, Phases
    <2>4. UNCHANGED <<store, confirms, shown>>
      BY <1>3, ReadBackStep
    <2> QED BY <1>3, <2>1, <2>2, <2>3, <2>4, ReadBackStep, TypeRunning
  <1>4. CASE Replace(w)
    <2>1. t \in Tokens /\ job[w].phase \in Running /\ job[w] \in Job
      BY <1>4, RunningJob, ReplaceStep DEF Running, Phases
    <2>2. Readable(job[w].copy)
      BY <1>4, <2>1, ReplaceStep DEF FileInv, FileThere, Copier, Writer
    <2>3. out' \in [Tokens -> Files] /\ spoiled' \in [Tokens -> BOOLEAN]
      <3> DEFINE r == [job[w].copy EXCEPT !.state = "whole"]
      <3>1. spoiled' = spoiled /\ out' = [out EXCEPT ![t] = r]
        BY <1>4, ReplaceStep
      <3>2. r \in Files
        BY <2>2, ReadableWhole, ReadableFile
      <3> HIDE DEF r
      <3> QED BY <3>1, <3>2, TypeParts
    <2>4. job'[w] \in Job /\ job'[w].phase \in Running
      BY <1>4, ReplaceStep DEF Running, Phases
    <2>5. UNCHANGED <<store, confirms, shown>>
      BY <1>4, ReplaceStep
    <2> QED BY <1>4, <2>1, <2>3, <2>4, <2>5, ReplaceStep, TypeRunning
  <1>5. CASE Finish(w)
    <2>1. JobTyped(Resting, store')
      BY DEF JobTyped, Resting
    <2>2. out' = out /\ confirms' = confirms /\ spoiled' = spoiled
      BY <1>5, FinishStep
    <2> QED BY <1>5, <2>1, <2>2, FinishStep, TypeParts, TypeFromStep
  <1>6. CASE CopyRest(w)
    <2>1. job[w].phase \in Running /\ t \in Tokens
      BY <1>6, RunningJob, CopyRestStep DEF Running, Phases
    <2>2. Copier(w, t) /\ Writer(w, t)
      BY <1>6, CopyRestStep DEF Copier, Writer
    <2>3. Readable(job[w].copy) /\ out[t] # Absent
      BY <2>1, <2>2 DEF FileInv, FileThere
    <2>4. Readable(out[t])
      BY <1>6, <2>1, <2>3, TypeParts, CopyRestStep, FileReadable
    <2>5. job' \in [Workers -> Job]
      BY <1>6, <2>3, <2>4, ReadableFile, CopyRestStep
    <2>6. job'[w] \in Job /\ job'[w].phase \in Running
      BY <1>6, <2>5, CopyRestStep DEF Running, Phases
    <2>7. /\ UNCHANGED <<store, confirms, shown>>
          /\ out' \in [Tokens -> Files] /\ spoiled' \in [Tokens -> BOOLEAN]
      BY <1>6, CopyRestStep, TypeParts
    <2> QED BY <1>6, <2>1, <2>5, <2>6, <2>7, CopyRestStep, TypeRunning
  <1> QED BY <1>1, <1>2, <1>3, <1>4, <1>5, <1>6, SMTT(30)

(* Another step, seen from a file it does not write.                            *)
LEMMA FileOther ==
  ASSUME TypeInv, NEW w \in Workers, NEW t \in Tokens, FileThere(t), FileSound(t),
         out'[t] = out[t], spoiled'[t] = spoiled[t], shown'[t] = shown[t],
         \A v \in Workers : v # w => Kept(job'[v], job[v]),
         ~Writer(w, t), ~Writer(w, t)',
         store'[t] # NoUpload /\ store'[t].finished => store[t] # NoUpload /\ store[t].finished
  PROVE  FileThere(t)' /\ FileSound(t)'
  <1>1. \A v \in Workers : Writer(v, t)' =>
          /\ Writer(v, t) /\ job'[v].phase = job[v].phase /\ job'[v].copy = job[v].copy
          /\ Copier(v, t)' = Copier(v, t)
    BY DEF Copier, Writer, Kept
  <1>2. \A v \in Workers : Writer(v, t) =>
          /\ Writer(v, t)' /\ job'[v].phase = job[v].phase /\ job'[v].used = job[v].used
    BY DEF Writer, Kept
  <1>a. \A v \in Workers : Copier(v, t)' => Copier(v, t) /\ job'[v].copy = job[v].copy
    BY <1>1 DEF Copier
  <1>3. FileThere(t)'
    BY <1>1, <1>a DEF FileThere
  <1>4. \A r : Known(t, r) => Known(t, r)'
    BY <1>2 DEF Known
  <1>5. FileSound(t)'
    <2> SUFFICES ASSUME ~spoiled'[t] PROVE FileClean(t)'
      BY DEF FileSound
    <2>1. FileClean(t)
      BY spoiled'[t] = spoiled[t] DEF FileSound
    <2> QED BY <1>a, <1>2, <1>4, <2>1 DEF FileClean, KnownParts
  <1> QED BY <1>3, <1>5

(* A step of a job that goes on writing a file.                                 *)
LEMMA KnownKept ==
  ASSUME NEW w \in Workers, NEW t \in Tokens, shown'[t] = shown[t],
         \A v \in Workers : v # w => Kept(job'[v], job[v]),
         Writer(w, t)', job'[w].used = job[w].used
  PROVE  \A r : Known(t, r) => Known(t, r)'
  <1>1. \A v \in Workers : Writer(v, t) => Writer(v, t)' /\ job'[v].used = job[v].used
    BY DEF Writer, Kept
  <1> QED BY <1>1 DEF Known

LEMMA OthersKept ==
  ASSUME NEW w \in Workers, NEW t \in Tokens, \A v \in Workers : v # w => Kept(job'[v], job[v])
  PROVE  \A v \in Workers : v # w =>
           /\ Writer(v, t)' = Writer(v, t) /\ job'[v].phase = job[v].phase
           /\ Copier(v, t)' = Copier(v, t)
           /\ job'[v].copy = job[v].copy /\ job'[v].used = job[v].used
  BY DEF Copier, Writer, Kept

LEMMA WritersAre == \A v \in Workers, t \in Tokens : v \in Writing(t) <=> Writer(v, t)
  BY DEF Writing, Busy, Writer

LEMMA FileOpen ==
  ASSUME TypeInv, NEW w \in Workers, NEW t \in Tokens, t = job[w].token,
         FileThere(t), FileSound(t), OpenOutput(w)
  PROVE  FileThere(t)' /\ FileSound(t)'
  <1>1. /\ \A v \in Workers : v # w => Kept(job'[v], job[v])
        /\ job'[w].phase = "saving" /\ job'[w].token = t /\ job'[w].used = job[w].used
        /\ store' = store /\ shown' = shown
        /\ out' = [out EXCEPT ![t] = Torn]
    BY OpenOutputStep
  <1>2. spoiled'[t] = (spoiled[t] /\ Writing(t) # {})
    BY OpenOutputStep, TypeParts, ZenonT(30)
  <1>3. out'[t] = Torn /\ Torn # Absent /\ Torn.state = "torn"
    BY <1>1, TypeParts DEF Torn, Absent
  <1>4. Writer(w, t)'
    BY <1>1 DEF Writer
  <1>5. \A v \in Workers : v # w =>
           /\ Writer(v, t)' = Writer(v, t) /\ job'[v].phase = job[v].phase
           /\ Copier(v, t)' = Copier(v, t)
           /\ job'[v].copy = job[v].copy /\ job'[v].used = job[v].used
    BY <1>1, OthersKept
  <1>a. ~Copier(w, t)'
    BY <1>1 DEF Copier
  <1>6. FileThere(t)'
    BY <1>1, <1>3, <1>5, <1>a DEF FileThere
  <1>7. ASSUME ~spoiled'[t], NEW v \in Workers, Copier(v, t)'
        PROVE  KnownParts(t, job[v].copy)'
    <2>1. v # w
      BY <1>a, <1>7
    <2>2. Writer(v, t) /\ Copier(v, t) /\ job'[v].copy = job[v].copy
      BY <1>5, <1>7, <2>1 DEF Copier
    <2>3. Writing(t) # {}
      BY <2>2, WritersAre
    <2>4. FileClean(t)
      BY <1>2, <1>7, <2>3 DEF FileSound
    <2>5. KnownParts(t, job[v].copy)
      BY <2>2, <2>4 DEF FileClean
    <2> QED BY <1>1, <1>4, <2>2, <2>5, KnownKept DEF KnownParts
  <1>8. FileSound(t)'
    <2> SUFFICES ASSUME ~spoiled'[t] PROVE FileClean(t)'
      BY DEF FileSound
    <2>1. \E v \in Workers : Writer(v, t)' /\ job'[v].phase # "done"
      BY <1>1, <1>4
    <2> QED BY <1>3, <1>7, <2>1 DEF FileClean
  <1> QED BY <1>6, <1>8, SMTT(30)

LEMMA FileSave ==
  ASSUME TypeInv, NEW w \in Workers, NEW t \in Tokens, t = job[w].token,
         FileThere(t), FileSound(t), FinishSave(w)
  PROVE  FileThere(t)' /\ FileSound(t)'
  <1> DEFINE r == Effective(job[w].used)
             plain == Package("plain", r)
  <1>1. /\ \A v \in Workers : v # w => Kept(job'[v], job[v])
        /\ job[w].phase = "saving"
        /\ job'[w].phase = "reading" /\ job'[w].token = t /\ job'[w].used = job[w].used
        /\ store' = store /\ shown' = shown /\ spoiled' = spoiled
        /\ out' = [out EXCEPT ![t] = plain] \/ out' = out
    BY FinishSaveStep
  <1>2. /\ out'[t] = plain \/ out'[t] = out[t]
        /\ plain # Absent /\ plain.state = "plain" /\ plain.sheet = r /\ plain.rest = r
    BY <1>1, TypeParts, PackageParts DEF Absent
  <1> HIDE DEF plain
  <1>3. Writer(w, t) /\ Writer(w, t)' /\ ~Copier(w, t)' /\ Known(t, r)'
    BY <1>1 DEF Copier, Writer, Known
  <1>4. \A v \in Workers : v # w =>
           /\ Writer(v, t)' = Writer(v, t) /\ job'[v].phase = job[v].phase
           /\ Copier(v, t)' = Copier(v, t)
           /\ job'[v].copy = job[v].copy /\ job'[v].used = job[v].used
    BY <1>1, OthersKept
  <1>5. FileThere(t)'
    BY <1>1, <1>2, <1>3, <1>4 DEF FileThere
  <1>6. \A x : Known(t, x) => Known(t, x)'
    BY <1>1, <1>3, KnownKept
  <1>7. FileSound(t)'
    <2> SUFFICES ASSUME ~spoiled'[t] PROVE FileClean(t)'
      BY DEF FileSound
    <2>4. FileClean(t)
      BY <1>1 DEF FileSound
    <2>1. \E v \in Workers : Writer(v, t)' /\ job'[v].phase # "done"
      BY <1>1, <1>3
    <2>2. out'[t].state \in {"plain", "whole"} => KnownParts(t, out[t])'
      BY <1>1, <1>2, <1>3, <1>6, <2>4 DEF FileClean, KnownParts
    <2>3. \A v \in Workers : Copier(v, t)' => KnownParts(t, job[v].copy)'
      BY <1>3, <1>4, <1>6, <2>4 DEF FileClean, KnownParts
    <2> QED BY <2>1, <2>2, <2>3 DEF FileClean
  <1> QED BY <1>5, <1>7

LEMMA FileRead ==
  ASSUME TypeInv, NEW w \in Workers, NEW t \in Tokens, t = job[w].token,
         FileThere(t), FileSound(t), ReadBack(w)
  PROVE  FileThere(t)' /\ FileSound(t)'
  <1>1. /\ \A v \in Workers : v # w => Kept(job'[v], job[v])
        /\ job[w].phase = "reading" /\ out[t] # Torn
        /\ job'[w].phase = "copying" /\ job'[w].token = t /\ job'[w].used = job[w].used
        /\ job'[w].copy = out[t]
        /\ store' = store /\ shown' = shown /\ spoiled' = spoiled /\ out' = out
    BY ReadBackStep
  <1>2. Writer(w, t) /\ Writer(w, t)'
    BY <1>1 DEF Writer
  <1>3. Readable(out[t]) /\ out[t].state \in {"plain", "whole"}
    BY <1>1, <1>2, FileReadable, ReadableFile, TypeParts DEF FileThere
  <1>4. \A v \in Workers : v # w =>
           /\ Writer(v, t)' = Writer(v, t) /\ job'[v].phase = job[v].phase
           /\ Copier(v, t)' = Copier(v, t)
           /\ job'[v].copy = job[v].copy /\ job'[v].used = job[v].used
    BY <1>1, OthersKept
  <1>5. FileThere(t)'
    BY <1>1, <1>2, <1>3, <1>4 DEF FileThere
  <1>6. \A x : Known(t, x) => Known(t, x)'
    BY <1>1, <1>2, KnownKept
  <1>7. FileSound(t)'
    <2> SUFFICES ASSUME ~spoiled'[t] PROVE FileClean(t)'
      BY DEF FileSound
    <2>4. FileClean(t)
      BY <1>1 DEF FileSound
    <2>1. \E v \in Workers : Writer(v, t)' /\ job'[v].phase # "done"
      BY <1>1, <1>2
    <2>2. KnownParts(t, out[t])'
      BY <1>1, <1>3, <1>6, <2>4 DEF FileClean, KnownParts
    <2>3. \A v \in Workers : Copier(v, t)' => KnownParts(t, job[v].copy)'
      BY <1>1, <1>4, <1>6, <2>2, <2>4 DEF FileClean, KnownParts
    <2> QED BY <2>1, <2>2, <2>3 DEF FileClean
  <1> QED BY <1>5, <1>7

LEMMA FileCopy ==
  ASSUME TypeInv, NEW w \in Workers, NEW t \in Tokens, t = job[w].token,
         FileThere(t), FileSound(t), CopyRest(w)
  PROVE  FileThere(t)' /\ FileSound(t)'
  <1>1. /\ \A v \in Workers : v # w => Kept(job'[v], job[v])
        /\ job[w].phase = "copying" /\ out[t] # Torn
        /\ job'[w].phase = "replacing" /\ job'[w].token = t /\ job'[w].used = job[w].used
        /\ job'[w].copy = [job[w].copy EXCEPT !.rest = out[t].rest]
        /\ store' = store /\ shown' = shown /\ spoiled' = spoiled /\ out' = out
    BY CopyRestStep
  <1>2. Writer(w, t) /\ Writer(w, t)' /\ Copier(w, t)
    BY <1>1 DEF Copier, Writer
  <1>3. Readable(out[t]) /\ out[t].state \in {"plain", "whole"} /\ out[t].rest \in Results
    BY <1>1, <1>2, FileReadable, ReadableFile, TypeParts DEF FileThere
  <1>4. /\ Readable(job'[w].copy) /\ job'[w].copy.sheet = job[w].copy.sheet
        /\ job'[w].copy.rest = out[t].rest
    BY <1>1, <1>2, <1>3, ReadableRest DEF FileThere
  <1>5. \A v \in Workers : v # w =>
           /\ Writer(v, t)' = Writer(v, t) /\ job'[v].phase = job[v].phase
           /\ Copier(v, t)' = Copier(v, t)
           /\ job'[v].copy = job[v].copy /\ job'[v].used = job[v].used
    BY <1>1, OthersKept
  <1>6. FileThere(t)'
    BY <1>1, <1>2, <1>4, <1>5 DEF FileThere
  <1>7. \A x : Known(t, x) => Known(t, x)'
    BY <1>1, <1>2, KnownKept
  <1>8. FileSound(t)'
    <2> SUFFICES ASSUME ~spoiled'[t] PROVE FileClean(t)'
      BY DEF FileSound
    <2>1. FileClean(t)
      BY <1>1 DEF FileSound
    <2>2. \E v \in Workers : Writer(v, t)' /\ job'[v].phase # "done"
      BY <1>1, <1>2
    <2>3. KnownParts(t, out[t]) /\ KnownParts(t, job[w].copy)
      BY <1>2, <1>3, <2>1 DEF FileClean
    <2>4. KnownParts(t, out[t])' /\ KnownParts(t, job[w].copy)'
      BY <1>1, <1>4, <1>7, <2>3 DEF KnownParts
    <2>5. \A v \in Workers : Copier(v, t)' => KnownParts(t, job[v].copy)'
      BY <1>5, <1>7, <2>1, <2>4 DEF FileClean, KnownParts
    <2> QED BY <2>2, <2>4, <2>5 DEF FileClean
  <1> QED BY <1>6, <1>8

LEMMA FileReplace ==
  ASSUME TypeInv, NEW w \in Workers, NEW t \in Tokens, t = job[w].token,
         FileThere(t), FileSound(t), Replace(w)
  PROVE  FileThere(t)' /\ FileSound(t)'
  <1> DEFINE whole == [job[w].copy EXCEPT !.state = "whole"]
  <1>1. /\ \A v \in Workers : v # w => Kept(job'[v], job[v])
        /\ job[w].phase = "replacing"
        /\ job'[w].phase = "done" /\ job'[w].token = t /\ job'[w].used = job[w].used
        /\ store' = store /\ shown' = shown /\ spoiled' = spoiled
        /\ out' = [out EXCEPT ![t] = whole]
    BY ReplaceStep
  <1>a. Copier(w, t) /\ Readable(job[w].copy)
    BY <1>1 DEF FileThere, Copier, Writer
  <1>2. out'[t] = whole /\ whole # Absent /\ whole.state = "whole"
        /\ whole.sheet = job[w].copy.sheet /\ whole.rest = job[w].copy.rest
    BY <1>1, <1>a, TypeParts, ReadableWhole, ReadableFile
  <1> HIDE DEF whole
  <1>3. Writer(w, t) /\ Writer(w, t)' /\ ~Copier(w, t)'
    BY <1>1 DEF Copier, Writer
  <1>4. \A v \in Workers : v # w =>
           /\ Writer(v, t)' = Writer(v, t) /\ job'[v].phase = job[v].phase
           /\ Copier(v, t)' = Copier(v, t)
           /\ job'[v].copy = job[v].copy /\ job'[v].used = job[v].used
    BY <1>1, OthersKept
  <1>5. FileThere(t)'
    BY <1>1, <1>2, <1>3, <1>4 DEF FileThere
  <1>6. \A x : Known(t, x) => Known(t, x)'
    BY <1>1, <1>3, KnownKept
  <1>7. FileSound(t)'
    <2> SUFFICES ASSUME ~spoiled'[t] PROVE FileClean(t)'
      BY DEF FileSound
    <2>1. FileClean(t)
      BY <1>1 DEF FileSound
    <2>2. KnownParts(t, job[w].copy)
      BY <1>a, <2>1 DEF FileClean
    <2>3. KnownParts(t, out[t])'
      BY <1>2, <1>6, <2>2 DEF KnownParts
    <2>4. \A v \in Workers : Copier(v, t)' => KnownParts(t, job[v].copy)'
      BY <1>3, <1>4, <1>6, <2>1 DEF FileClean, KnownParts
    <2> QED BY <1>2, <2>3, <2>4 DEF FileClean
  <1> QED BY <1>5, <1>7

LEMMA FileFail ==
  ASSUME TypeInv, NEW w \in Workers, NEW t \in Tokens, t = job[w].token,
         FileThere(t), FileSound(t), FailWrite(w)
  PROVE  FileThere(t)' /\ FileSound(t)'
  <1>1. /\ \A v \in Workers : v # w => job'[v] = job[v] /\ Kept(job'[v], job[v])
        /\ job'[w] = Resting
        /\ store' = store /\ shown' = shown /\ out' = out /\ spoiled'[t] = TRUE
    BY RestingIsJob, OneJob, TypeParts DEF FailWrite
  <1>2. ~Writer(w, t)' /\ ~Copier(w, t)'
    BY <1>1 DEF Copier, Writer, Resting
  <1>3. \A v \in Workers : v # w =>
           /\ Writer(v, t)' = Writer(v, t) /\ job'[v].phase = job[v].phase
           /\ Copier(v, t)' = Copier(v, t)
           /\ job'[v].copy = job[v].copy /\ job'[v].used = job[v].used
    BY <1>1, OthersKept
  <1>4. FileThere(t)'
    BY <1>1, <1>2, <1>3 DEF FileThere
  <1> QED BY <1>1, <1>4 DEF FileSound

LEMMA FileFinish ==
  ASSUME TypeInv, NEW w \in Workers, NEW t \in Tokens, t = job[w].token,
         FileThere(t), FileSound(t), Finish(w)
  PROVE  FileThere(t)' /\ FileSound(t)'
  <1> DEFINE r == Effective(job[w].used)
  <1>1. /\ \A v \in Workers : v # w => Kept(job'[v], job[v])
        /\ job[w].phase = "done" /\ job'[w] = Resting
        /\ shown' = [shown EXCEPT ![t] = @ \cup {r}]
        /\ spoiled' = spoiled /\ out' = out
    BY FinishStep
  <1>2. ~Writer(w, t)' /\ ~Copier(w, t)' /\ Writer(w, t)
    BY <1>1 DEF Copier, Writer, Resting
  <1>3. \A v \in Workers : v # w =>
           /\ Writer(v, t)' = Writer(v, t) /\ job'[v].phase = job[v].phase
           /\ Copier(v, t)' = Copier(v, t)
           /\ job'[v].copy = job[v].copy /\ job'[v].used = job[v].used
    BY <1>1, OthersKept
  <1>4. FileThere(t)'
    BY <1>1, <1>2, <1>3 DEF FileThere
  <1>5. shown'[t] = shown[t] \cup {r}
    BY <1>1, TypeParts
  <1>6. \A x : Known(t, x) => Known(t, x)'
    <2> SUFFICES ASSUME NEW x, Known(t, x) PROVE Known(t, x)'
      OBVIOUS
    <2>1. CASE x \in shown[t] \/ x = r
      BY <1>5, <2>1 DEF Known
    <2>2. CASE x \notin shown[t] /\ x # r
      <3>1. PICK v \in Workers : Writer(v, t) /\ Effective(job[v].used) = x
        BY <2>2 DEF Known
      <3>2. v # w
        BY <2>2, <3>1
      <3>3. Writer(v, t)' /\ job'[v].used = job[v].used
        BY <1>3, <3>1, <3>2
      <3> QED BY <3>1, <3>3 DEF Known
    <2> QED BY <2>1, <2>2
  <1>7. FileSound(t)'
    <2> SUFFICES ASSUME ~spoiled'[t] PROVE FileClean(t)'
      BY DEF FileSound
    <2>1. FileClean(t)
      BY <1>1 DEF FileSound
    <2> QED BY <1>1, <1>2, <1>3, <1>6, <2>1 DEF FileClean, KnownParts
  <1> QED BY <1>4, <1>7

--------------------------------------------------------------------------------
(* The two together are inductive                                               *)

Inv == TypeInv /\ FileInv

LEMMA InvInit == SessionInit => Inv
  <1> SUFFICES ASSUME SessionInit PROVE Inv
    OBVIOUS
  <1>1. TypeInv
    BY TypeInit
  <1>2. FileInv
    <2> SUFFICES ASSUME NEW t \in Tokens PROVE FileThere(t) /\ FileSound(t)
      BY DEF FileInv
    <2>1. /\ store[t] = NoUpload /\ out[t] = Absent /\ \A v \in Workers : ~Writer(v, t) /\ ~Copier(v, t)
          /\ Absent.state = "absent"
      BY DEF SessionInit, Copier, Writer, Resting, Absent
    <2>2. FileThere(t)
      BY <2>1 DEF FileThere
    <2>3. FileClean(t)
      BY <2>1 DEF FileClean
    <2> QED BY <2>2, <2>3 DEF FileSound
  <1> QED BY <1>1, <1>2 DEF Inv

LEMMA InvUpload ==
  ASSUME Inv, NEW u \in Tokens, Upload(u)
  PROVE  Inv'
  <1>1. TypeInv /\ TypeInv'
    BY TypeUpload DEF Inv
  <1>2. /\ UNCHANGED <<out, job, shown, spoiled>>
        /\ \A t \in Tokens : t # u => store'[t] = store[t]
    BY DEF Upload
  <1>3. store'[u].finished = FALSE
    BY <1>1, TypeParts DEF Upload
  <1>4. ASSUME NEW t \in Tokens PROVE FileThere(t)' /\ FileSound(t)'
    <2>1. FileThere(t) /\ FileSound(t)
      BY DEF Inv, FileInv
    <2>2. store'[t] # NoUpload /\ store'[t].finished => store[t] # NoUpload /\ store[t].finished
      BY <1>2, <1>3
    <2>3. FileThere(t)'
      BY <1>2, <2>1, <2>2 DEF FileThere, Copier, Writer
    <2>4. FileClean(t)' = FileClean(t)
      BY <1>2 DEF FileClean, Copier, Writer, Known, KnownParts
    <2>5. spoiled' = spoiled
      BY <1>2
    <2> QED BY <2>1, <2>3, <2>4, <2>5 DEF FileSound
  <1> QED BY <1>1, <1>4 DEF Inv, FileInv

(* A step of a job that is not writing, before or after.                        *)
LEMMA InvBefore ==
  ASSUME Inv, TypeInv', NEW w \in Workers,
         UNCHANGED <<out, shown, spoiled>>,
         \A v \in Workers : v # w => Kept(job'[v], job[v]),
         \A t \in Tokens : ~Writer(w, t) /\ ~Writer(w, t)',
         \A t \in Tokens : store'[t] = store[t]
                           \/ (store[t] \in Records /\ store'[t].finished = store[t].finished)
  PROVE  Inv'
  <1> SUFFICES ASSUME NEW t \in Tokens PROVE FileThere(t)' /\ FileSound(t)'
    BY DEF Inv, FileInv
  <1>1. FileThere(t) /\ FileSound(t) /\ TypeInv
    BY DEF Inv, FileInv
  <1>2. store'[t] # NoUpload /\ store'[t].finished => store[t] # NoUpload /\ store[t].finished
    BY RecordAssumption
  <1> QED BY <1>1, <1>2, FileOther

LEMMA ConfirmStep ==
  ASSUME TypeInv, NEW w \in Workers, NEW u \in Tokens, Confirm(w, u)
  PROVE  /\ job[w].phase = "idle" /\ job'[w].phase = "assign" /\ job'[w].token = u
         /\ job'[w].at = 1
         /\ job'[w].alone = (Busy(u) = {})
         /\ \A v \in Workers : v # w => Kept(job'[v], job[v])
         /\ \A v \in Busy(u) : v # w => job'[v].alone = FALSE
         /\ \A v \in Workers : v # w /\ v \notin Busy(u) => job'[v] = job[v]
         /\ UNCHANGED <<store, out, shown, spoiled>>
  <1>1. PICK form \in Forms : job' = [v \in Workers |->
         IF v = w THEN [Resting EXCEPT !.phase = "assign", !.token = u, !.form = form,
                                       !.alone = (Busy(u) = {})]
         ELSE IF v \in Busy(u) THEN [job[v] EXCEPT !.alone = FALSE] ELSE job[v]]
    BY DEF Confirm
  <1>2. /\ job'[w].phase = "assign" /\ job'[w].token = u /\ job'[w].at = 1
        /\ job'[w].alone = (Busy(u) = {})
    BY <1>1 DEF Resting
  <1>3. \A v \in Workers : v # w =>
          /\ job[v] \in Job
          /\ job'[v] = IF v \in Busy(u) THEN [job[v] EXCEPT !.alone = FALSE] ELSE job[v]
    BY <1>1, TypeParts
  <1>4. ASSUME NEW v \in Workers, v # w
        PROVE  Kept(job'[v], job[v])
    <2>1. CASE v \in Busy(u)
      <3>1. job[v] \in Job /\ job'[v] = [job[v] EXCEPT !.alone = FALSE]
        BY <1>3, <1>4, <2>1
      <3> QED BY <3>1, SMTT(30) DEF Kept, Job
    <2>2. CASE v \notin Busy(u)
      <3>1. job'[v] = job[v]
        BY <1>3, <1>4, <2>2
      <3> QED BY <3>1 DEF Kept
    <2> QED BY <2>1, <2>2
  <1>5. \A v \in Busy(u) : v # w => job'[v].alone = FALSE
    BY <1>3 DEF Busy, Job
  <1> QED BY <1>2, <1>3, <1>4, <1>5 DEF Confirm

LEMMA InvForm ==
  ASSUME Inv, NEW w \in Workers,
         (\E u \in Tokens : Confirm(w, u)) \/ Assign(w) \/ Take(w) \/ FailRun(w)
  PROVE  Inv'
  <1>1. TypeInv /\ TypeInv'
    BY TypeConfirm, TypeAssign, TypeTake, TypeEnd DEF Inv
  <1>2. CASE \E u \in Tokens : Confirm(w, u)
    <2>1. PICK u \in Tokens : Confirm(w, u)
      BY <1>2
    <2>2. \A t \in Tokens : ~Writer(w, t) /\ ~Writer(w, t)'
      BY <1>1, <2>1, ConfirmStep DEF Writer
    <2>3. UNCHANGED <<store, out, shown, spoiled>>
      BY <1>1, <2>1, ConfirmStep
    <2> QED BY <1>1, <2>1, <2>2, <2>3, ConfirmStep, InvBefore
  <1>3. CASE Assign(w)
    <2>1. /\ job[w].phase = "assign" /\ job'[w].phase \in {"assign", "take"}
          /\ out' = out /\ shown' = shown /\ spoiled' = spoiled
          /\ \A v \in Workers : v # w => Kept(job'[v], job[v])
      BY <1>1, <1>3, AssignStep
    <2>2. \A t \in Tokens : ~Writer(w, t) /\ ~Writer(w, t)'
      BY <2>1 DEF Writer
    <2>3. \A t \in Tokens : store'[t] = store[t]
                           \/ (store[t] \in Records /\ store'[t].finished = store[t].finished)
      BY <1>1, <1>3, AssignStep
    <2> QED BY <1>1, <2>1, <2>2, <2>3, InvBefore
  <1>4. CASE Take(w)
    <2>1. /\ job[w].phase = "take" /\ job'[w].phase \in {"take", "run"}
          /\ store' = store /\ out' = out /\ shown' = shown /\ spoiled' = spoiled
          /\ \A v \in Workers : v # w => Kept(job'[v], job[v])
      BY <1>1, <1>4, TakeStep
    <2>2. \A t \in Tokens : ~Writer(w, t) /\ ~Writer(w, t)'
      BY <2>1 DEF Writer
    <2> QED BY <1>1, <2>1, <2>2, InvBefore
  <1>5. CASE FailRun(w)
    <2>1. /\ job[w].phase = "run" /\ job' = [job EXCEPT ![w] = Resting]
          /\ store' = store /\ out' = out /\ shown' = shown /\ spoiled' = spoiled
      BY <1>5 DEF FailRun
    <2>2. job'[w] = Resting /\ \A v \in Workers : v # w => Kept(job'[v], job[v])
      BY <1>1, <2>1, RestingIsJob, OneJob
    <2>3. \A t \in Tokens : ~Writer(w, t) /\ ~Writer(w, t)'
      BY <2>1, <2>2 DEF Writer, Resting
    <2> QED BY <1>1, <2>1, <2>2, <2>3, InvBefore
  <1> QED BY <1>2, <1>3, <1>4, <1>5

(* What a step of a running job leaves alone: the files and jobs of other       *)
(* uploads.                                                                     *)
LEMMA Elsewhere ==
  ASSUME TypeInv, NEW w \in Workers,
         \/ OpenOutput(w) \/ FinishSave(w) \/ ReadBack(w) \/ CopyRest(w) \/ Replace(w)
         \/ FailWrite(w) \/ Finish(w)
  PROVE  /\ job[w].phase \in Running /\ job[w].token \in Tokens
         /\ (job'[w].token = job[w].token \/ job'[w] = Resting)
         /\ \A v \in Workers : v # w =>
              /\ Kept(job'[v], job[v]) /\ job'[v].alone = job[v].alone
              /\ job[v].token # job[w].token => job'[v] = job[v]
         /\ \A t \in Tokens : t # job[w].token =>
              /\ out'[t] = out[t] /\ spoiled'[t] = spoiled[t] /\ shown'[t] = shown[t]
              /\ store'[t] = store[t]
  <1> DEFINE u == job[w].token
  <1>0. job[w].phase \in Running
    BY DEF OpenOutput, FinishSave, ReadBack, CopyRest, Replace, FailWrite, Finish, Running, Phases
  <1>1. u \in Tokens /\ \A v \in Workers : job[v] \in Job
    BY <1>0, RunningJob, TypeParts
  <1>2. \A v \in Saving(u) : job[v].token = u
    BY DEF Saving, Busy
  <1>3. ASSUME NEW v \in Workers, v # w
        PROVE  /\ Kept(job'[v], job[v]) /\ job'[v].alone = job[v].alone
               /\ job[v].token # u => job'[v] = job[v]
    <2>0. job[v] \in Job /\ Kept(job[v], job[v])
      BY <1>1 DEF Kept
    <2>a. \A b \in BOOLEAN :
            /\ Kept([job[v] EXCEPT !.torn = b], job[v])
            /\ [job[v] EXCEPT !.torn = b].alone = job[v].alone
            /\ Kept([job[v] EXCEPT !.attached = b], job[v])
            /\ [job[v] EXCEPT !.attached = b].alone = job[v].alone
      BY <2>0 DEF Job, Kept
    <2>1. CASE OpenOutput(w)
      <3>1. job'[v] = IF v \in Saving(u) THEN [job[v] EXCEPT !.torn = TRUE] ELSE job[v]
        BY <1>3, <2>1 DEF OpenOutput
      <3> QED BY <1>2, <2>0, <2>a, <3>1
    <2>2. CASE Replace(w)
      <3>1. job'[v] = IF v \in Saving(u) THEN [job[v] EXCEPT !.attached = FALSE] ELSE job[v]
        BY <1>3, <2>2 DEF Replace
      <3> QED BY <1>2, <2>0, <2>a, <3>1
    <2>3. CASE FinishSave(w) \/ ReadBack(w) \/ CopyRest(w) \/ FailWrite(w) \/ Finish(w)
      <3>1. job'[v] = job[v]
        BY <1>3, <2>3, TypeParts DEF FinishSave, ReadBack, CopyRest, FailWrite, Finish
      <3> QED BY <3>1 DEF Kept
    <2> QED BY <2>1, <2>2, <2>3
  <1>4. job'[w].token = job[w].token \/ job'[w] = Resting
    <2>1. CASE FailWrite(w)
      BY <2>1, TypeParts DEF FailWrite
    <2> QED BY <2>1, OpenOutputStep, FinishSaveStep, ReadBackStep, CopyRestStep, ReplaceStep,
               FinishStep
  <1>5. ASSUME NEW t \in Tokens, t # u
        PROVE  /\ out'[t] = out[t] /\ spoiled'[t] = spoiled[t] /\ shown'[t] = shown[t]
               /\ store'[t] = store[t]
    BY <1>1, <1>5, TypeParts
       DEF OpenOutput, FinishSave, ReadBack, CopyRest, Replace, FailWrite, Finish
  <1> QED BY <1>0, <1>1, <1>3, <1>4, <1>5, SMTT(30)

LEMMA InvWrite ==
  ASSUME Inv, NEW w \in Workers,
         \/ OpenOutput(w) \/ FinishSave(w) \/ ReadBack(w) \/ CopyRest(w) \/ Replace(w)
         \/ FailWrite(w) \/ Finish(w)
  PROVE  Inv'
  <1>1. TypeInv /\ FileInv /\ TypeInv'
    BY TypeSteps, TypeEnd DEF Inv
  <1> SUFFICES ASSUME NEW t \in Tokens PROVE FileThere(t)' /\ FileSound(t)'
    BY <1>1 DEF Inv, FileInv
  <1>2. FileThere(t) /\ FileSound(t)
    BY <1>1 DEF FileInv
  <1>3. CASE t = job[w].token
    BY <1>1, <1>2, <1>3, FileOpen, FileSave, FileRead, FileCopy, FileReplace, FileFail, FileFinish
  <1>4. CASE t # job[w].token
    <2>1. /\ out'[t] = out[t] /\ spoiled'[t] = spoiled[t] /\ shown'[t] = shown[t]
          /\ store'[t] = store[t]
          /\ \A v \in Workers : v # w => Kept(job'[v], job[v])
      BY <1>1, <1>4, Elsewhere
    <2>2. ~Writer(w, t)
      BY <1>4 DEF Writer
    <2>3. ~Writer(w, t)'
      BY <1>1, <1>4, Elsewhere DEF Writer, Resting
    <2> QED BY <1>1, <1>2, <2>1, <2>2, <2>3, FileOther
  <1> QED BY <1>3, <1>4

LEMMA InvStep == Inv /\ [SessionNext]_sessionVars => Inv'
  <1> SUFFICES ASSUME Inv, [SessionNext]_sessionVars PROVE Inv'
    OBVIOUS
  <1>1. CASE UNCHANGED sessionVars
    BY <1>1 DEF sessionVars, Inv, TypeInv, SessionTypeOK, FileInv, FileThere, FileSound, FileClean,
                Known, KnownParts, Copier, Writer
  <1>2. CASE SessionNext
    BY <1>2, InvUpload, InvForm, InvWrite DEF SessionNext
  <1> QED BY <1>1, <1>2

(* The shape of records, files and confirmations, whatever runs at once: what  *)
(* is written or shown always has a coefficient and a region (/confirm,         *)
(* run_and_write).                                                              *)
THEOREM SessionKeepsItsShape == SessionSpec => []SessionTypeOK
  <1>1. SessionSpec => []Inv
    BY InvInit, InvStep, PTL DEF SessionSpec
  <1>2. Inv => SessionTypeOK
    BY DEF Inv, TypeInv
  <1> QED BY <1>1, <1>2, PTL

(* A download that no writing overlaps and no broken writing preceded is a      *)
(* complete workbook whose sheet, and whose other parts, are of runs that were  *)
(* shown: while a file is torn or not yet rewritten one of its writers is still *)
(* running, and each part copied from it was computed by a run that ends in a   *)
(* page or spoils the file.                                                     *)
THEOREM QuietDownloads == SessionSpec => []QuietDownloadIsShown
  <1>1. Inv => QuietDownloadIsShown
    <2> SUFFICES ASSUME Inv, NEW t \in Tokens, store[t] # NoUpload, store[t].finished,
                        Writing(t) = {}, ~spoiled[t]
                 PROVE  out[t].state = "whole" /\ {out[t].sheet, out[t].rest} \subseteq shown[t]
      BY DEF QuietDownloadIsShown
    <2>1. TypeInv /\ FileThere(t) /\ FileSound(t)
      BY DEF Inv, FileInv
    <2>2. FileClean(t)
      BY <2>1 DEF FileSound
    <2>3. \A v \in Workers : ~Writer(v, t)
      BY WritersAre
    <2>4. out[t] # Absent /\ out[t] \in Files
      BY <2>1, TypeParts DEF FileThere
    <2>5. out[t] # Torn
      BY <2>2, <2>3 DEF FileClean, Torn
    <2>6. out[t].state \in {"plain", "whole"}
      BY <2>4, <2>5, FileValues
    <2> QED BY <2>2, <2>3, <2>6 DEF FileClean, KnownParts, Known
  <1>2. SessionSpec => []Inv
    BY InvInit, InvStep, PTL DEF SessionSpec
  <1> QED BY <1>1, <1>2, PTL

--------------------------------------------------------------------------------
(* A confirmation that is alone on its upload: what it has stored of its form,  *)
(* read back, and written.                                                      *)

LoneForm(j) ==
  LET t == j.token IN
  /\ j.phase = "assign" => \A m \in 1..3 :
       m < j.at => store[t].choice[Fields[m]] = j.form[Fields[m]]
  /\ j.phase = "take" => \A f \in FieldNames : store[t].choice[f] = j.form[f]
  /\ j.phase = "take" => \A m \in 1..3 : m < j.at => j.used[Fields[m]] = j.form[Fields[m]]
  /\ j.phase \in Running => \A f \in FieldNames : j.used[f] = j.form[f]

LoneFile(j) ==
  LET t == j.token IN
  /\ j.phase = "saving" => j.attached /\ ~j.torn
  /\ j.phase \in {"reading", "copying"} => out[t] = Package("plain", Effective(j.used))
  /\ j.phase \in {"copying", "replacing"} => j.copy = Package("plain", Effective(j.used))
  /\ j.phase = "done" => out[t] = Package("whole", Effective(j.used))

Lone(w) ==
  job[w].phase # "idle" /\ job[w].alone =>
    /\ \A v \in Workers : job[v].phase # "idle" /\ job[v].token = job[w].token => v = w
    /\ LoneForm(job[w]) /\ LoneFile(job[w])

LoneInv == \A w \in Workers : Lone(w)

(* A step of another confirmation, of another upload.                           *)
LEMMA LoneApart ==
  ASSUME TypeInv, NEW w \in Workers, NEW v \in Workers, w # v, Lone(w), job'[w] = job[w],
         job[w].phase # "idle" => /\ store'[job[w].token] = store[job[w].token]
                                  /\ out'[job[w].token] = out[job[w].token],
         \A x \in Workers : x # v => Kept(job'[x], job[x]),
         job'[v].phase = "idle" \/ job'[v].token # job[w].token
  PROVE  Lone(w)'
  <1> SUFFICES ASSUME job'[w].phase # "idle", job'[w].alone
               PROVE  /\ \A x \in Workers :
                           job'[x].phase # "idle" /\ job'[x].token = job'[w].token => x = w
                      /\ LoneForm(job[w])' /\ LoneFile(job[w])'
    BY DEF Lone
  <1>1. /\ \A x \in Workers : job[x].phase # "idle" /\ job[x].token = job[w].token => x = w
        /\ LoneForm(job[w]) /\ LoneFile(job[w])
    BY DEF Lone
  <1>2. \A x \in Workers :
          job'[x].phase # "idle" /\ job'[x].token = job'[w].token => x = w
    BY <1>1 DEF Kept
  <1>3. LoneForm(job[w])' /\ LoneFile(job[w])'
    BY <1>1 DEF LoneForm, LoneFile
  <1> QED BY <1>2, <1>3

(* A step of another confirmation of the same upload: none of them is alone.    *)
LEMMA LoneNot ==
  ASSUME NEW w \in Workers, NEW v \in Workers, w # v, Lone(w), job[w].token = job[v].token,
         job[v].phase # "idle", job'[w].alone = job[w].alone, Kept(job'[w], job[w])
  PROVE  Lone(w)'
  BY DEF Lone, Kept

LEMMA LoneOthers ==
  ASSUME Inv, LoneInv, NEW v \in Workers, NEW w \in Workers, w # v,
         \/ \E u \in Tokens : Confirm(v, u)
         \/ Assign(v) \/ Take(v) \/ FailRun(v) \/ OpenOutput(v) \/ FinishSave(v)
         \/ ReadBack(v) \/ CopyRest(v) \/ Replace(v) \/ FailWrite(v) \/ Finish(v)
  PROVE  Lone(w)'
  <1>1. TypeInv /\ Lone(w) /\ (job[w].phase # "idle" => job[w].token \in Tokens)
    <2>1. TypeInv /\ Lone(w)
      BY DEF Inv, LoneInv
    <2> QED BY <2>1, TypeParts DEF JobTyped
  <1>2. CASE \E u \in Tokens : Confirm(v, u)
    <2>1. PICK u \in Tokens : Confirm(v, u)
      BY <1>2
    <2>2. /\ job'[v].phase = "assign" /\ job'[v].token = u
          /\ \A x \in Workers : x # v => Kept(job'[x], job[x])
          /\ w \in Busy(u) => job'[w].alone = FALSE
          /\ w \notin Busy(u) => job'[w] = job[w]
          /\ store' = store /\ out' = out
      <3>1. /\ job'[v].phase = "assign" /\ job'[v].token = u
            /\ \A x \in Workers : x # v => Kept(job'[x], job[x])
            /\ \A x \in Busy(u) : x # v => job'[x].alone = FALSE
            /\ \A x \in Workers : x # v /\ x \notin Busy(u) => job'[x] = job[x]
        BY <1>1, <2>1, ConfirmStep
      <3>2. UNCHANGED <<store, out>>
        BY <2>1 DEF Confirm
      <3> QED BY <3>1, <3>2
    <2>3. CASE w \in Busy(u)
      BY <2>2, <2>3 DEF Lone
    <2>4. CASE w \notin Busy(u) /\ job[w].phase # "idle"
      <3>1. job[w].token # u
        BY <2>4 DEF Busy
      <3> QED BY <1>1, <2>2, <2>4, <3>1, LoneApart
    <2>5. CASE w \notin Busy(u) /\ job[w].phase = "idle"
      BY <2>2, <2>5 DEF Lone
    <2> QED BY <2>3, <2>4, <2>5
  <1>3. CASE ~\E u \in Tokens : Confirm(v, u)
    <2>1. /\ job[v].phase # "idle"
          /\ job'[v].token = job[v].token \/ job'[v].phase = "idle"
          /\ \A x \in Workers : x # v =>
               /\ Kept(job'[x], job[x]) /\ job'[x].alone = job[x].alone
               /\ job[x].token # job[v].token => job'[x] = job[x]
          /\ \A t \in Tokens : t # job[v].token => out'[t] = out[t] /\ store'[t] = store[t]
      <3>1. CASE Assign(v)
        BY <1>1, <3>1, AssignStep
      <3>2. CASE Take(v)
        BY <1>1, <3>2, TakeStep
      <3>3. CASE FailRun(v)
        <4>1. /\ job[v].phase = "run" /\ job' = [job EXCEPT ![v] = Resting]
              /\ store' = store /\ out' = out
          BY <3>3 DEF FailRun
        <4> QED BY <1>1, <4>1, RestingIsJob, OneJob DEF Resting
      <3>4. CASE \/ OpenOutput(v) \/ FinishSave(v) \/ ReadBack(v) \/ CopyRest(v) \/ Replace(v)
                 \/ FailWrite(v) \/ Finish(v)
        BY <1>1, <3>4, Elsewhere DEF Running, Resting
      <3> QED BY <1>3, <3>1, <3>2, <3>3, <3>4
    <2>2. CASE job[w].token = job[v].token
      BY <1>1, <2>1, <2>2, LoneNot
    <2>3. CASE job[w].token # job[v].token
      <3>1. job'[v].phase = "idle" \/ job'[v].token # job[w].token
        BY <2>1, <2>3
      <3>2. job'[w] = job[w]
        BY <2>1, <2>3
      <3>3. job[w].phase # "idle" => /\ store'[job[w].token] = store[job[w].token]
                                     /\ out'[job[w].token] = out[job[w].token]
        BY <1>1, <2>1, <2>3
      <3>4. \A x \in Workers : x # v => Kept(job'[x], job[x])
        BY <2>1
      <3> QED BY <1>1, <3>1, <3>2, <3>3, <3>4, LoneApart
    <2> QED BY <2>2, <2>3
  <1> QED BY <1>2, <1>3

(* Its own step.                                                                *)
LEMMA LoneStays ==
  ASSUME NEW w \in Workers, Lone(w), job[w].phase # "idle", job'[w].token = job[w].token,
         job'[w].alone = job[w].alone, \A v \in Workers : v # w => Kept(job'[v], job[v]),
         job[w].alone /\ LoneForm(job[w]) /\ LoneFile(job[w])
           => LoneForm(job[w])' /\ LoneFile(job[w])'
  PROVE  Lone(w)'
  <1> SUFFICES ASSUME job'[w].alone
               PROVE  /\ \A x \in Workers :
                           job'[x].phase # "idle" /\ job'[x].token = job'[w].token => x = w
                      /\ LoneForm(job[w])' /\ LoneFile(job[w])'
    BY DEF Lone
  <1>1. /\ \A x \in Workers : job[x].phase # "idle" /\ job[x].token = job[w].token => x = w
        /\ LoneForm(job[w]) /\ LoneFile(job[w]) /\ job[w].alone
    BY DEF Lone
  <1>2. \A x \in Workers :
          job'[x].phase # "idle" /\ job'[x].token = job'[w].token => x = w
    BY <1>1 DEF Kept
  <1> QED BY <1>1, <1>2

LEMMA LoneConfirm ==
  ASSUME TypeInv, NEW w \in Workers, NEW u \in Tokens, Confirm(w, u)
  PROVE  Lone(w)'
  <1> SUFFICES ASSUME job'[w].alone
               PROVE  /\ \A x \in Workers :
                           job'[x].phase # "idle" /\ job'[x].token = job'[w].token => x = w
                      /\ LoneForm(job[w])' /\ LoneFile(job[w])'
    BY DEF Lone
  <1>1. /\ job'[w].phase = "assign" /\ job'[w].token = u /\ job'[w].at = 1
        /\ \A v \in Workers : v # w => Kept(job'[v], job[v])
        /\ job'[w].alone = (Busy(u) = {})
    BY ConfirmStep
  <1>2. Busy(u) = {}
    BY <1>1
  <1>3. \A x \in Workers : job'[x].phase # "idle" /\ job'[x].token = job'[w].token => x = w
    BY <1>1, <1>2 DEF Busy, Kept
  <1>4. LoneForm(job[w])' /\ LoneFile(job[w])'
    BY <1>1 DEF LoneForm, LoneFile, Running, Phases
  <1> QED BY <1>3, <1>4

LEMMA LoneAssign ==
  ASSUME TypeInv, NEW w \in Workers, Lone(w), Assign(w)
  PROVE  Lone(w)'
  <1> DEFINE j == job[w]
             f == Fields[j.at]
             t == j.token
             new == job'[w]
  <1>1. /\ j.phase = "assign" /\ j.at \in 1..3 /\ f \in FieldNames
        /\ new.token = t /\ new.form = j.form /\ new.alone = j.alone
        /\ new.phase = (IF j.at < 3 THEN "assign" ELSE "take")
        /\ new.at = (IF j.at < 3 THEN j.at + 1 ELSE 1)
        /\ \A v \in Workers : v # w => Kept(job'[v], job[v])
        /\ store'[t].choice[f] = j.form[f]
        /\ \A g \in FieldNames : g # f => store'[t].choice[g] = store[t].choice[g]
    BY AssignStep
  <1>2. ASSUME LoneForm(j) PROVE LoneForm(job[w])' /\ LoneFile(job[w])'
    <2>1. \A m \in 1..3 : m <= j.at => store'[t].choice[Fields[m]] = j.form[Fields[m]]
      <3> SUFFICES ASSUME NEW m \in 1..3, m <= j.at
                   PROVE  store'[t].choice[Fields[m]] = j.form[Fields[m]]
        OBVIOUS
      <3>1. CASE m = j.at
        BY <1>1, <3>1
      <3>2. CASE m < j.at
        <4>1. Fields[m] # f /\ Fields[m] \in FieldNames
          BY <1>1, <3>2, FieldsAre
        <4>2. store[t].choice[Fields[m]] = j.form[Fields[m]]
          BY <1>1, <1>2, <3>2 DEF LoneForm
        <4> QED BY <1>1, <4>1, <4>2
      <3> QED BY <1>1, <3>1, <3>2
    <2>2. CASE j.at < 3
      <3>1. new.phase = "assign" /\ new.at = j.at + 1
        BY <1>1, <2>2
      <3>2. \A m \in 1..3 : m < new.at => store'[new.token].choice[Fields[m]] = new.form[Fields[m]]
        BY <1>1, <2>1, <3>1
      <3> QED BY <3>1, <3>2 DEF LoneForm, LoneFile, Running
    <2>3. CASE j.at = 3
      <3>1. new.phase = "take" /\ new.at = 1
        BY <1>1, <2>3
      <3>2. \A g \in FieldNames : store'[new.token].choice[g] = new.form[g]
        BY <1>1, <2>1, <2>3, FieldsAre
      <3> QED BY <3>1, <3>2 DEF LoneForm, LoneFile, Running
    <2> QED BY <1>1, <2>2, <2>3
  <1> HIDE DEF f
  <1>3. job[w].phase # "idle"
    BY <1>1
  <1> QED BY <1>1, <1>2, <1>3, LoneStays

LEMMA LoneTake ==
  ASSUME TypeInv, NEW w \in Workers, Lone(w), Take(w)
  PROVE  Lone(w)'
  <1> DEFINE j == job[w]
             f == Fields[j.at]
             t == j.token
             new == job'[w]
  <1>1. /\ j.phase = "take" /\ j.at \in 1..3 /\ f \in FieldNames
        /\ new.token = t /\ new.form = j.form /\ new.alone = j.alone
        /\ new.phase = (IF j.at < 3 THEN "take" ELSE "run")
        /\ new.at = (IF j.at < 3 THEN j.at + 1 ELSE 1)
        /\ \A v \in Workers : v # w => Kept(job'[v], job[v])
        /\ new.used[f] = store[t].choice[f]
        /\ \A g \in FieldNames : g # f => new.used[g] = j.used[g]
    BY TakeStep
  <1>2. store' = store
    BY DEF Take
  <1>3. ASSUME LoneForm(j) PROVE LoneForm(job[w])' /\ LoneFile(job[w])'
    <2>0. /\ \A g \in FieldNames : store[t].choice[g] = j.form[g]
          /\ \A m \in 1..3 : m < j.at => j.used[Fields[m]] = j.form[Fields[m]]
      BY <1>1, <1>3 DEF LoneForm
    <2>1. \A m \in 1..3 : m <= j.at => new.used[Fields[m]] = j.form[Fields[m]]
      <3> SUFFICES ASSUME NEW m \in 1..3, m <= j.at
                   PROVE  new.used[Fields[m]] = j.form[Fields[m]]
        OBVIOUS
      <3>1. CASE m = j.at
        BY <1>1, <2>0, <3>1
      <3>2. CASE m < j.at
        <4>1. Fields[m] # f /\ Fields[m] \in FieldNames
          BY <1>1, <3>2, FieldsAre
        <4> QED BY <1>1, <2>0, <3>2, <4>1
      <3> QED BY <1>1, <3>1, <3>2
    <2>2. CASE j.at < 3
      <3>1. new.phase = "take" /\ new.at = j.at + 1
        BY <1>1, <2>2
      <3>2. \A m \in 1..3 : m < new.at => new.used[Fields[m]] = new.form[Fields[m]]
        BY <1>1, <2>1, <3>1
      <3>3. \A g \in FieldNames : store'[new.token].choice[g] = new.form[g]
        BY <1>1, <1>2, <2>0
      <3> QED BY <3>1, <3>2, <3>3 DEF LoneForm, LoneFile, Running
    <2>3. CASE j.at = 3
      <3>1. new.phase = "run"
        BY <1>1, <2>3
      <3>2. \A g \in FieldNames : new.used[g] = new.form[g]
        BY <1>1, <2>1, <2>3, FieldsAre
      <3> QED BY <3>1, <3>2 DEF LoneForm, LoneFile, Running
    <2> QED BY <1>1, <2>2, <2>3
  <1> HIDE DEF f
  <1>4. job[w].phase # "idle"
    BY <1>1
  <1> QED BY <1>1, <1>3, <1>4, LoneStays

(* From the calculation on the choice no longer changes.                        *)
LEMMA FormKept ==
  ASSUME NEW w \in Workers, job[w].phase \in Running, LoneForm(job[w]),
         job'[w].phase \in Running, job'[w].form = job[w].form, job'[w].used = job[w].used
  PROVE  LoneForm(job[w])'
  BY DEF LoneForm, Running

LEMMA LoneWrite ==
  ASSUME TypeInv, NEW w \in Workers, Lone(w),
         OpenOutput(w) \/ FinishSave(w) \/ ReadBack(w) \/ CopyRest(w) \/ Replace(w)
  PROVE  Lone(w)'
  <1> DEFINE t == job[w].token
             r == Effective(job[w].used)
  <1>1. /\ job[w].phase \in Running /\ t \in Tokens
        /\ \A v \in Workers : v # w => Kept(job'[v], job[v])
    BY Elsewhere
  <1>2. job[w].phase # "idle"
    BY <1>1 DEF Running
  <1>3. CASE OpenOutput(w)
    <2>1. /\ job[w].phase = "run" /\ job'[w].phase = "saving" /\ job'[w].attached = TRUE
          /\ job'[w].torn = (Saving(t) # {})
          /\ job'[w].token = t /\ job'[w].form = job[w].form /\ job'[w].used = job[w].used
          /\ job'[w].alone = job[w].alone
      BY <1>3, OpenOutputStep
    <2>2. job[w].alone => Saving(t) = {}
      BY <1>2, <2>1 DEF Lone, Saving, Busy
    <2>3. job[w].alone => LoneFile(job[w])'
      BY <2>1, <2>2 DEF LoneFile
    <2>4. job'[w].phase \in Running
      BY <2>1 DEF Running, Phases
    <2> QED BY <1>1, <1>2, <2>1, <2>3, <2>4, FormKept, LoneStays, SMTT(30)
  <1>4. CASE FinishSave(w)
    <2> DEFINE plain == Package("plain", r)
    <2>1. /\ job[w].phase = "saving" /\ job'[w].phase = "reading"
          /\ out' = IF job[w].attached /\ ~job[w].torn
                    THEN [out EXCEPT ![t] = plain] ELSE out
          /\ job'[w].token = t /\ job'[w].form = job[w].form /\ job'[w].used = job[w].used
          /\ job'[w].alone = job[w].alone
      BY <1>4, FinishSaveStep
    <2>2. LoneFile(job[w]) => out'[t] = plain
      BY <1>1, <2>1, TypeParts DEF LoneFile
    <2>3. LoneFile(job[w]) => LoneFile(job[w])'
      BY <2>1, <2>2 DEF LoneFile
    <2>4. job'[w].phase \in Running
      BY <2>1 DEF Running, Phases
    <2> QED BY <1>1, <1>2, <2>1, <2>3, <2>4, FormKept, LoneStays
  <1>5. CASE ReadBack(w)
    <2>1. /\ job[w].phase = "reading" /\ job'[w].phase = "copying" /\ job'[w].copy = out[t]
          /\ out' = out
          /\ job'[w].token = t /\ job'[w].form = job[w].form /\ job'[w].used = job[w].used
          /\ job'[w].alone = job[w].alone
      BY <1>5, ReadBackStep
    <2>3. LoneFile(job[w]) => LoneFile(job[w])'
      BY <2>1 DEF LoneFile
    <2>4. job'[w].phase \in Running
      BY <2>1 DEF Running, Phases
    <2> QED BY <1>1, <1>2, <2>1, <2>3, <2>4, FormKept, LoneStays
  <1>6. CASE Replace(w)
    <2>1. /\ job[w].phase = "replacing" /\ job'[w].phase = "done"
          /\ out' = [out EXCEPT ![t] = [job[w].copy EXCEPT !.state = "whole"]]
          /\ job'[w].token = t /\ job'[w].form = job[w].form /\ job'[w].used = job[w].used
          /\ job'[w].alone = job[w].alone
      BY <1>6, ReplaceStep
    <2>2. out'[t] = [job[w].copy EXCEPT !.state = "whole"]
      BY <1>1, <2>1, TypeParts
    <2>3. LoneFile(job[w]) => LoneFile(job[w])'
      BY <2>1, <2>2 DEF LoneFile, Package
    <2>4. job'[w].phase \in Running
      BY <2>1 DEF Running, Phases
    <2> QED BY <1>1, <1>2, <2>1, <2>3, <2>4, FormKept, LoneStays
  <1>7. CASE CopyRest(w)
    <2>1. /\ job[w].phase = "copying" /\ job'[w].phase = "replacing" /\ out' = out
          /\ job'[w].copy = [job[w].copy EXCEPT !.rest = out[t].rest]
          /\ job'[w].token = t /\ job'[w].form = job[w].form /\ job'[w].used = job[w].used
          /\ job'[w].alone = job[w].alone
      BY <1>7, CopyRestStep
    <2>2. LoneFile(job[w]) => job'[w].copy = Package("plain", r)
      BY <2>1 DEF LoneFile, Package
    <2>3. LoneFile(job[w]) => LoneFile(job[w])'
      BY <2>1, <2>2 DEF LoneFile
    <2>4. job'[w].phase \in Running
      BY <2>1 DEF Running, Phases
    <2> QED BY <1>1, <1>2, <2>1, <2>3, <2>4, FormKept, LoneStays
  <1> QED BY <1>3, <1>4, <1>5, <1>6, <1>7

LEMMA LoneEnd ==
  ASSUME TypeInv, NEW w \in Workers, FailRun(w) \/ FailWrite(w) \/ Finish(w)
  PROVE  Lone(w)'
  <1>1. job' = [job EXCEPT ![w] = Resting]
    BY DEF FailRun, FailWrite, Finish
  <1>2. job'[w].phase = "idle"
    BY <1>1, TypeParts DEF Resting
  <1> QED BY <1>2 DEF Lone

LEMMA LoneUpload ==
  ASSUME TypeInv, LoneInv, NEW u \in Tokens, Upload(u)
  PROVE  LoneInv'
  <1> SUFFICES ASSUME NEW w \in Workers PROVE Lone(w)'
    BY DEF LoneInv
  <1>1. job' = job /\ out' = out /\ store[u] = NoUpload
        /\ \A t \in Tokens : t # u => store'[t] = store[t]
    BY DEF Upload
  <1>2. Lone(w)
    BY DEF LoneInv
  <1>3. job[w].phase # "idle" => store'[job[w].token] = store[job[w].token]
    BY <1>1, TypeParts, RecordAssumption DEF JobTyped
  <1> QED BY <1>1, <1>2, <1>3 DEF Lone, LoneForm, LoneFile

LEMMA LoneStep == Inv /\ LoneInv /\ [SessionNext]_sessionVars => LoneInv'
  <1> SUFFICES ASSUME Inv, LoneInv, [SessionNext]_sessionVars PROVE LoneInv'
    OBVIOUS
  <1>1. CASE UNCHANGED sessionVars
    BY <1>1 DEF sessionVars, LoneInv, Lone, LoneForm, LoneFile
  <1>2. ASSUME NEW u \in Tokens, Upload(u) PROVE LoneInv'
    BY <1>2, LoneUpload DEF Inv
  <1>3. ASSUME NEW v \in Workers, NEW w \in Workers,
               \/ \E u \in Tokens : Confirm(v, u)
               \/ Assign(v) \/ Take(v) \/ FailRun(v) \/ OpenOutput(v) \/ FinishSave(v)
               \/ ReadBack(v) \/ CopyRest(v) \/ Replace(v) \/ FailWrite(v) \/ Finish(v)
        PROVE  Lone(w)'
    <2>1. CASE w # v
      BY <1>3, <2>1, LoneOthers
    <2>2. CASE w = v
      BY <1>3, <2>2, LoneConfirm, LoneAssign, LoneTake, LoneWrite, LoneEnd DEF Inv, LoneInv
    <2> QED BY <2>1, <2>2
  <1> QED BY <1>1, <1>2, <1>3 DEF SessionNext, LoneInv

(* A confirmation that stays alone on its upload is written as its form, every  *)
(* field of it: what is left in the record is overwritten field by field before *)
(* it is read back, and nobody else touches the file (/confirm, _process).      *)
THEOREM LoneRuns == SessionSpec => LoneRunIsItsForm
  <1>1. SessionInit => LoneInv
    BY DEF SessionInit, LoneInv, Lone, Resting
  <1>2. Inv /\ LoneInv /\ [SessionNext]_sessionVars =>
          [\A w \in Workers : Finish(w) /\ job[w].alone =>
             out[job[w].token] = Package("whole", Effective(job[w].form))]_sessionVars
    <2> SUFFICES ASSUME Inv, LoneInv, NEW w \in Workers, Finish(w), job[w].alone
                 PROVE  out[job[w].token] = Package("whole", Effective(job[w].form))
      OBVIOUS
    <2>1. job[w].phase = "done" /\ TypeInv /\ Lone(w)
      BY DEF Finish, Inv, LoneInv
    <2>2. LoneForm(job[w]) /\ LoneFile(job[w])
      BY <2>1 DEF Lone
    <2>3. /\ out[job[w].token] = Package("whole", Effective(job[w].used))
          /\ \A f \in FieldNames : job[w].used[f] = job[w].form[f]
      BY <2>1, <2>2 DEF LoneForm, LoneFile, Running, Phases
    <2>4. job[w].used \in ChoiceRecords /\ job[w].form \in Forms
      BY <2>1, RunningJob DEF Running, Phases
    <2>5. job[w].used = job[w].form
      <3>1. job[w].form = [f \in FieldNames |-> job[w].form[f]]
        BY <2>4 DEF Forms, FieldNames
      <3>2. job[w].used = [f \in FieldNames |-> job[w].used[f]]
        BY <2>4 DEF ChoiceRecords
      <3> QED BY <2>3, <3>1, <3>2
    <2> QED BY <2>3, <2>5
  <1> QED BY <1>1, <1>2, LoneStep, InvInit, InvStep, PTL DEF SessionSpec, LoneRunIsItsForm
==============================================================================
