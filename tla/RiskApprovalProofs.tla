--------------------------- MODULE RiskApprovalProofs ---------------------------
(****************************************************************************)
(* Proofs about RiskApproval for any threads, prices, coefficients and      *)
(* bounds.                                                                  *)
(****************************************************************************)
EXTENDS RiskApproval, TLAPS

USE PriceAssumption, CoefAssumption, BoundAssumption, NoneAssumption

Approving == {"checking", "loading", "saving", "marking"}

(* A run holds risks to be logged, an approval one with a date. *)
Holding ==
  \A t \in Threads :
     /\ pc[t] \in {"logging", "upserting"} => todo[t] \in Seq(Shown)
     /\ pc[t] \in Approving => todo[t][1] \in Approved

TypeInv == TypeOK /\ Holding

--------------------------------------------------------------------------------
(* Operators                                                                   *)

LEMMA SnapshotType ==
  ASSUME NEW r \in Approved \cup {NoRange}, NEW c \in Coefs,
         NEW s \in Snapshots(r, c)
  PROVE  s \in Shown
  <1>1. PICK p \in Extremes(r) :
          s = [min |-> p[1].price * c, max |-> p[2].price * c]
    BY DEF Snapshots
  <1>2. p[1].price \in Nat /\ p[2].price \in Nat
    BY <1>1, PriceAssumption DEF Extremes, Entry
  <1>3. c \in Nat
    BY CoefAssumption
  <1>4. p[1].price * c \in Nat /\ p[2].price * c \in Nat
    BY <1>2, <1>3
  <1> QED BY <1>1, <1>4 DEF Shown

LEMMA WidenType ==
  ASSUME NEW r \in Approved \cup {NoRange}, NEW s \in Approved, NEW day \in Nat
  PROVE  Widen(r, s, day) \in Approved
  BY DEF Widen, Approved

(* Widening covers both the range and the risk, with bounds of one or the other. *)
LEMMA WidenCovers ==
  ASSUME NEW r \in Approved \cup {NoRange}, NEW s \in Approved, NEW day \in Nat
  PROVE  LET w == Widen(r, s, day) IN
         /\ w.min <= s.min /\ s.max <= w.max
         /\ r # NoRange => w.min <= r.min /\ r.max <= w.max
         /\ w.min = s.min \/ (r # NoRange /\ w.min = r.min)
         /\ w.max = s.max \/ (r # NoRange /\ w.max = r.max)
  BY DEF Widen, Approved

LEMMA ShownBounds ==
  ASSUME NEW s \in Shown \cup Approved
  PROVE  s.min \in Nat /\ s.max \in Nat
  BY DEF Shown, Approved

LEMMA FirstAndRest ==
  ASSUME NEW S, NEW s \in Seq(S), s # <<>>
  PROVE  /\ s[1] \in S /\ Tail(s) \in Seq(S)
         /\ \A i \in DOMAIN Tail(s) : i + 1 \in DOMAIN s /\ Tail(s)[i] = s[i + 1]
  OBVIOUS

LEMMA RowsType ==
  ASSUME NEW S, NEW T, S \subseteq T, NEW n \in Nat, NEW f \in [1 .. n -> S]
  PROVE  f \in Seq(T)
  OBVIOUS

--------------------------------------------------------------------------------
(* Types                                                                       *)

LEMMA TypeStart == Init => TypeInv
  BY DEF Init, TypeInv, TypeOK, Holding, Places, Approving

LEMMA TypeStep == TypeInv /\ [Next]_vars => TypeInv'
  <1> SUFFICES ASSUME TypeInv, [Next]_vars PROVE TypeInv'
    OBVIOUS
  <1> USE DEF TypeInv, TypeOK, Holding, Places, Approving, Go, Take, At
  <1>1. CASE NewDay
    BY <1>1 DEF NewDay
  <1>2. ASSUME NEW t \in Threads, HandlerEnds(t) PROVE TypeInv'
    BY <1>2 DEF HandlerEnds
  <1>3. ASSUME NEW t \in Threads, RunStart(t) PROVE TypeInv'
    BY <1>3 DEF RunStart
  <1>4. ASSUME NEW t \in Threads, RunMatch(t) PROVE TypeInv'
    <2>1. PICK c \in Coefs, n \in 0 .. MaxRows :
            \E risks \in [1 .. n -> Snapshots(range[t], c)] :
               todo' = [todo EXCEPT ![t] = risks]
      BY <1>4 DEF RunMatch
    <2>2. PICK risks \in [1 .. n -> Snapshots(range[t], c)] :
            todo' = [todo EXCEPT ![t] = risks]
      BY <2>1
    <2>3. Snapshots(range[t], c) \subseteq Shown
      BY SnapshotType
    <2>4. n \in Nat
      OBVIOUS
    <2>5. risks \in Seq(Shown) /\ risks \in Seq(Shown \cup Approved)
      BY <2>2, <2>3, <2>4, RowsType
    <2> QED BY <1>4, <2>2, <2>5 DEF RunMatch
  <1>5. ASSUME NEW t \in Threads, RunLook(t) PROVE TypeInv'
    BY <1>5 DEF RunLook
  <1>6. ASSUME NEW t \in Threads, RunUpsert(t) PROVE TypeInv'
    <2>1. /\ todo[t][1] \in Shown
          /\ Tail(todo[t]) \in Seq(Shown)
          /\ Tail(todo[t]) \in Seq(Shown \cup Approved)
      BY <1>6, FirstAndRest DEF RunUpsert
    <2>2. log' \in Risk
      BY <1>6, <2>1, ShownBounds DEF RunUpsert, Risk
    <2>3. logged' \subseteq Shown
      BY <1>6, <2>1 DEF RunUpsert
    <2>4. TypeOK'
      BY <1>6, <2>1, <2>2, <2>3 DEF RunUpsert
    <2>5. Holding'
      BY <1>6, <2>1 DEF RunUpsert
    <2> QED BY <2>4, <2>5
  <1>7. ASSUME NEW t \in Threads, ApproveRead(t) PROVE TypeInv'
    <2>1. [min |-> log.min, max |-> log.max, date |-> today] \in Approved
      BY <1>7 DEF ApproveRead, Risk, Approved
    <2> QED BY <1>7, <2>1 DEF ApproveRead
  <1>8. ASSUME NEW t \in Threads, ApproveCheck(t) PROVE TypeInv'
    BY <1>8 DEF ApproveCheck
  <1>9. ASSUME NEW t \in Threads, ApproveLoad(t) PROVE TypeInv'
    BY <1>9 DEF ApproveLoad
  <1>10. ASSUME NEW t \in Threads, ApproveSave(t) PROVE TypeInv'
    <2>1. todo[t][1] \in Approved /\ todo[t][1].date \in Nat
      BY <1>10 DEF ApproveSave, Approved
    <2>2. exc' \in Approved
      BY <1>10, <2>1, WidenType DEF ApproveSave
    <2> QED BY <1>10, <2>2 DEF ApproveSave
  <1>11. ASSUME NEW t \in Threads, ApproveMark(t) PROVE TypeInv'
    <2>1. log \in Risk
      BY <1>11 DEF ApproveMark
    <2>2. log' \in Risk /\ log' # NoRisk
      BY <1>11, <2>1 DEF ApproveMark, Risk
    <2>a. /\ range' = [range EXCEPT ![t] = NoRange]
          /\ todo' = [todo EXCEPT ![t] = <<>>]
          /\ pc' = [pc EXCEPT ![t] = "idle"]
          /\ UNCHANGED <<exc, today, found, logged>>
      BY <1>11 DEF ApproveMark
    <2>3. TypeOK'
      BY <2>2, <2>a
    <2>4. Holding'
      BY <1>11 DEF ApproveMark
    <2> QED BY <2>3, <2>4
  <1>12. CASE UNCHANGED vars
    BY <1>12 DEF vars
  <1> QED BY <1>1, <1>2, <1>3, <1>4, <1>5, <1>6, <1>7, <1>8, <1>9, <1>10, <1>11,
             <1>12 DEF Next, Run, Approve

(* The state keeps its types, and a handler that is about to write holds what
   it writes. *)
THEOREM TypeCorrect == Spec => []TypeOK
  <1>1. TypeInv => TypeOK
    BY DEF TypeInv
  <1> QED BY TypeStart, TypeStep, <1>1, PTL DEF Spec

--------------------------------------------------------------------------------
(* An approved risk has a range                                                *)

(* Between its two commits an approval has saved a range, and no step deletes one. *)
SavedInv ==
  /\ TypeInv
  /\ ApprovedHasRange
  /\ \A t \in Threads : pc[t] = "marking" => exc # NoRange

LEMMA SavedStart == Init => SavedInv
  BY TypeStart DEF Init, SavedInv, ApprovedHasRange

LEMMA SavedStep == SavedInv /\ [Next]_vars => SavedInv'
  <1> SUFFICES ASSUME SavedInv, [Next]_vars PROVE SavedInv'
    OBVIOUS
  <1>1. TypeInv /\ TypeInv'
    BY TypeStep DEF SavedInv
  <1> USE DEF SavedInv, ApprovedHasRange, Go, Take, At
  <1>2. pc \in [Threads -> Places]
    BY <1>1 DEF TypeInv, TypeOK
  <1>3. CASE NewDay
    BY <1>1, <1>3 DEF NewDay
  <1>4. ASSUME NEW t \in Threads, HandlerEnds(t) PROVE SavedInv'
    BY <1>1, <1>2, <1>4 DEF HandlerEnds
  <1>5. ASSUME NEW t \in Threads, RunStart(t) \/ RunMatch(t) \/ RunLook(t)
        PROVE SavedInv'
    BY <1>1, <1>2, <1>5 DEF RunStart, RunMatch, RunLook
  <1>6. ASSUME NEW t \in Threads, RunUpsert(t) PROVE SavedInv'
    BY <1>1, <1>2, <1>6 DEF RunUpsert
  <1>7. ASSUME NEW t \in Threads, ApproveRead(t) \/ ApproveCheck(t) \/ ApproveLoad(t)
        PROVE SavedInv'
    BY <1>1, <1>2, <1>7 DEF ApproveRead, ApproveCheck, ApproveLoad
  <1>8. ASSUME NEW t \in Threads, ApproveSave(t) PROVE SavedInv'
    <2>1. todo[t][1] \in Approved /\ todo[t][1].date \in Nat
      BY <1>1, <1>8 DEF ApproveSave, TypeInv, Holding, Approving, Approved
    <2>2. range[t] \in Approved \cup {NoRange}
      BY <1>1 DEF TypeInv, TypeOK
    <2>3. exc' \in Approved
      BY <1>8, <2>1, <2>2, WidenType DEF ApproveSave
    <2> QED BY <1>1, <1>2, <1>8, <2>3 DEF ApproveSave
  <1>9. ASSUME NEW t \in Threads, ApproveMark(t) PROVE SavedInv'
    BY <1>1, <1>2, <1>9 DEF ApproveMark
  <1>10. CASE UNCHANGED vars
    BY <1>1, <1>10 DEF vars
  <1> QED BY <1>3, <1>4, <1>5, <1>6, <1>7, <1>8, <1>9, <1>10 DEF Next, Run, Approve

(* No risk is marked approved without a saved range, wherever a handler stops
   and however runs and approvals interleave. *)
THEOREM ApprovalSaved == Spec => []ApprovedHasRange
  <1>1. SavedInv => ApprovedHasRange
    BY DEF SavedInv
  <1> QED BY SavedStart, SavedStep, <1>1, PTL DEF Spec

--------------------------------------------------------------------------------
(* Where a range comes from                                                    *)

Traced(x) == /\ \E s \in logged : s.min = x.min
             /\ \E s \in logged : s.max = x.max

(* Whatever the database or a handler holds has bounds that were logged. *)
TracedInv ==
  /\ TypeInv
  /\ log # NoRisk => Traced(log)
  /\ exc # NoRange => Traced(exc)
  /\ \A t \in Threads : range[t] # NoRange => Traced(range[t])
  /\ \A t \in Threads : pc[t] \in Approving => Traced(todo[t][1])

LEMMA TracedStart == Init => TracedInv
  BY TypeStart DEF Init, TracedInv, Approving

LEMMA WidenTraced ==
  ASSUME NEW r \in Approved \cup {NoRange}, NEW s \in Approved, NEW day \in Nat,
         r # NoRange => Traced(r), Traced(s)
  PROVE  Traced(Widen(r, s, day))
  <1> DEFINE w == Widen(r, s, day)
  <1>1. /\ w.min = s.min \/ (r # NoRange /\ w.min = r.min)
        /\ w.max = s.max \/ (r # NoRange /\ w.max = r.max)
    BY WidenCovers
  <1> HIDE DEF w
  <1>2. Traced(w)
    BY <1>1 DEF Traced
  <1> QED BY <1>2 DEF w

LEMMA TracedStep == TracedInv /\ [Next]_vars => TracedInv'
  <1> SUFFICES ASSUME TracedInv, [Next]_vars PROVE TracedInv'
    OBVIOUS
  <1>1. TypeInv /\ TypeInv'
    BY TypeStep DEF TracedInv
  <1> USE DEF TracedInv, Approving, Go, Take, At
  <1>2. /\ pc \in [Threads -> Places]
        /\ range \in [Threads -> Approved \cup {NoRange}]
        /\ DOMAIN todo = Threads
    BY <1>1 DEF TypeInv, TypeOK
  <1>3. CASE NewDay
    BY <1>1, <1>3 DEF NewDay, Traced
  <1>4. ASSUME NEW t \in Threads, HandlerEnds(t) PROVE TracedInv'
    BY <1>1, <1>2, <1>4 DEF HandlerEnds, Traced
  <1>5. ASSUME NEW t \in Threads, RunStart(t) PROVE TracedInv'
    BY <1>1, <1>2, <1>5 DEF RunStart, Traced
  <1>6. ASSUME NEW t \in Threads, RunMatch(t) PROVE TracedInv'
    <2>1. /\ pc' = [pc EXCEPT ![t] = "logging"]
          /\ \A u \in Threads : u # t => todo'[u] = todo[u]
          /\ UNCHANGED <<log, exc, today, range, found, logged>>
      BY <1>2, <1>6 DEF RunMatch
    <2> QED BY <1>1, <1>2, <2>1 DEF Traced
  <1>7. ASSUME NEW t \in Threads, RunLook(t) PROVE TracedInv'
    BY <1>1, <1>2, <1>7 DEF RunLook, Traced
  <1>8. ASSUME NEW t \in Threads, RunUpsert(t) PROVE TracedInv'
    <2>1. /\ log' = [status |-> "open", min |-> todo[t][1].min,
                     max |-> todo[t][1].max]
          /\ todo[t][1] \in logged' /\ logged \subseteq logged'
          /\ pc' = [pc EXCEPT ![t] = "logging"]
          /\ todo' = [todo EXCEPT ![t] = Tail(todo[t])]
          /\ UNCHANGED <<exc, range>>
      BY <1>8 DEF RunUpsert
    <2>2. Traced(log)'
      BY <2>1 DEF Traced
    <2>3. ASSUME NEW x, Traced(x) PROVE /\ \E s \in logged' : s.min = x.min
                                        /\ \E s \in logged' : s.max = x.max
      BY <2>1, <2>3 DEF Traced
    <2>4. (exc # NoRange => Traced(exc))'
      BY <2>1, <2>3 DEF Traced
    <2>5. \A u \in Threads : (range[u] # NoRange => Traced(range[u]))'
      BY <2>1, <2>3 DEF Traced
    <2>6. \A u \in Threads : (pc[u] \in Approving => Traced(todo[u][1]))'
      BY <1>2, <2>1, <2>3 DEF Traced
    <2> QED BY <1>1, <2>2, <2>4, <2>5, <2>6
  <1>9. ASSUME NEW t \in Threads, ApproveRead(t) PROVE TracedInv'
    BY <1>1, <1>2, <1>9 DEF ApproveRead, Traced
  <1>10. ASSUME NEW t \in Threads, ApproveCheck(t) PROVE TracedInv'
    BY <1>1, <1>2, <1>10 DEF ApproveCheck, Traced
  <1>11. ASSUME NEW t \in Threads, ApproveLoad(t) PROVE TracedInv'
    BY <1>1, <1>2, <1>11 DEF ApproveLoad, Traced
  <1>12. ASSUME NEW t \in Threads, ApproveSave(t) PROVE TracedInv'
    <2>1. /\ todo[t][1] \in Approved /\ todo[t][1].date \in Nat
          /\ Traced(todo[t][1])
      BY <1>1, <1>12 DEF ApproveSave, TypeInv, Holding, Approved
    <2>2. Traced(Widen(range[t], todo[t][1], todo[t][1].date))
      BY <1>2, <2>1, WidenTraced
    <2>3. /\ exc' = Widen(range[t], todo[t][1], todo[t][1].date)
          /\ pc' = [pc EXCEPT ![t] = "marking"] /\ pc[t] = "saving"
          /\ UNCHANGED <<log, range, todo, logged>>
      BY <1>12 DEF ApproveSave
    <2>4. Traced(exc)'
      BY <2>2, <2>3 DEF Traced
    <2> QED BY <1>1, <1>2, <2>3, <2>4 DEF Traced
  <1>13. ASSUME NEW t \in Threads, ApproveMark(t) PROVE TracedInv'
    <2>1. log \in Risk
      BY <1>1, <1>13 DEF ApproveMark, TypeInv, TypeOK
    <2>2. log'.min = log.min /\ log'.max = log.max /\ log # NoRisk
      BY <1>13, <2>1 DEF ApproveMark, Risk
    <2> QED BY <1>1, <1>2, <1>13, <2>2 DEF ApproveMark, Traced
  <1>14. CASE UNCHANGED vars
    BY <1>1, <1>14 DEF vars, Traced
  <1> QED BY <1>3, <1>4, <1>5, <1>6, <1>7, <1>8, <1>9, <1>10, <1>11, <1>12, <1>13,
             <1>14 DEF Next, Run, Approve

LEMMA RangeStep ==
  ASSUME TracedInv, [Next]_vars, exc' # exc
  PROVE  /\ \E s \in logged : s.min = exc'.min
         /\ \E s \in logged : s.max = exc'.max
         /\ \/ exc = NoRange
            \/ exc'.min <= exc.min /\ exc.max <= exc'.max
            \/ \E t \in Threads : /\ pc[t] = "saving" /\ pc'[t] = "marking"
                                  /\ range[t] # exc
  <1>1. PICK t \in Threads : ApproveSave(t)
    BY DEF Next, Run, Approve, NewDay, HandlerEnds, RunStart, RunMatch, RunLook,
           RunUpsert, ApproveRead, ApproveCheck, ApproveLoad, ApproveMark, vars
  <1>2. TypeInv
    BY DEF TracedInv
  <1>3. /\ pc[t] = "saving" /\ pc' = [pc EXCEPT ![t] = "marking"]
        /\ exc' = Widen(range[t], todo[t][1], todo[t][1].date)
    BY <1>1 DEF ApproveSave, At, Go
  <1>4. /\ todo[t][1] \in Approved /\ todo[t][1].date \in Nat
        /\ Traced(todo[t][1])
    BY <1>2, <1>3 DEF TracedInv, TypeInv, Holding, Approving, Approved
  <1>5. /\ range[t] \in Approved \cup {NoRange}
        /\ range[t] # NoRange => Traced(range[t])
        /\ pc'[t] = "marking"
    BY <1>2, <1>3 DEF TracedInv, TypeInv, TypeOK
  <1>6. Traced(exc')
    BY <1>3, <1>4, <1>5, WidenTraced
  <1>7. CASE range[t] # exc
    BY <1>3, <1>5, <1>6, <1>7 DEF Traced
  <1>8. CASE range[t] = exc
    <2>1. exc # NoRange => exc'.min <= exc.min /\ exc.max <= exc'.max
      BY <1>3, <1>4, <1>5, <1>8, WidenCovers
    <2> QED BY <1>6, <2>1 DEF Traced
  <1> QED BY <1>7, <1>8

(* A range has logged bounds, and narrows only when two approvals overlap. *)
THEOREM RangeWidens == Spec => RangeOnlyWidens
  <1>1. TracedInv /\ [Next]_vars =>
          [exc' # exc =>
             /\ \E s \in logged : s.min = exc'.min
             /\ \E s \in logged : s.max = exc'.max
             /\ \/ exc = NoRange
                \/ exc'.min <= exc.min /\ exc.max <= exc'.max
                \/ \E t \in Threads : /\ pc[t] = "saving" /\ pc'[t] = "marking"
                                      /\ range[t] # exc]_vars
    BY RangeStep
  <1> QED BY TracedStart, TracedStep, <1>1, PTL DEF Spec, RangeOnlyWidens

--------------------------------------------------------------------------------
(* Only outliers reopen a risk                                                 *)

Outlying(s, r) == BelowOrAbove(s.min, r) /\ BelowOrAbove(s.max, r)

(* What a run is about to log lies outside the range it has read. *)
OutlierInv ==
  /\ SavedInv
  /\ \A t \in Threads :
       pc[t] \in {"logging", "upserting"} /\ range[t] # NoRange =>
         \A i \in DOMAIN todo[t] : Outlying(todo[t][i], range[t])

LEMMA SnapshotOutlying ==
  ASSUME Coefs = {1}, NEW r \in Approved, NEW c \in Coefs,
         NEW s \in Snapshots(r, c)
  PROVE  Outlying(s, r)
  <1>1. PICK p \in Extremes(r) :
          s = [min |-> p[1].price * c, max |-> p[2].price * c]
    BY DEF Snapshots
  <1>2. BelowOrAbove(p[1].price, r) /\ BelowOrAbove(p[2].price, r)
    <2>1. Flagged({p[1], p[2]}, r) =
            {e \in {p[1], p[2]} : e.added > r.date /\ BelowOrAbove(e.price, r)}
      BY NoneAssumption DEF Flagged
    <2> QED BY <2>1, <1>1 DEF Extremes
  <1>3. p[1].price \in Nat /\ p[2].price \in Nat
    BY <1>1, PriceAssumption DEF Extremes, Entry
  <1>4. s.min = p[1].price /\ s.max = p[2].price
    BY <1>1, <1>3
  <1> QED BY <1>2, <1>4 DEF Outlying

LEMMA OutlierStart == Init => OutlierInv
  BY SavedStart DEF Init, OutlierInv

LEMMA OutlierStep ==
  ASSUME Coefs = {1}, OutlierInv, [Next]_vars PROVE OutlierInv'
  <1>1. SavedInv /\ SavedInv'
    BY SavedStep DEF OutlierInv
  <1>2. /\ pc \in [Threads -> Places]
        /\ range \in [Threads -> Approved \cup {NoRange}]
        /\ todo \in [Threads -> Seq(Shown \cup Approved)]
    BY <1>1 DEF SavedInv, TypeInv, TypeOK
  <1> USE DEF OutlierInv, Go, Take, At
  <1>3. ASSUME NEW t \in Threads,
               \A u \in Threads : u # t => /\ pc'[u] = pc[u] /\ range'[u] = range[u]
                                          /\ todo'[u] = todo[u],
               pc'[t] \in {"logging", "upserting"} /\ range'[t] # NoRange =>
                 \A i \in DOMAIN todo'[t] : Outlying(todo'[t][i], range'[t])
        PROVE  OutlierInv'
    BY <1>1, <1>3 DEF Outlying, BelowOrAbove
  <1>4. CASE NewDay \/ UNCHANGED vars
    BY <1>1, <1>4 DEF NewDay, vars, Outlying, BelowOrAbove
  <1>5. ASSUME NEW t \in Threads,
               \/ HandlerEnds(t) \/ RunStart(t) \/ ApproveRead(t) \/ ApproveCheck(t)
               \/ ApproveLoad(t) \/ ApproveSave(t) \/ ApproveMark(t)
        PROVE  OutlierInv'
    BY <1>2, <1>3, <1>5 DEF HandlerEnds, RunStart, ApproveRead, ApproveCheck,
                            ApproveLoad, ApproveSave, ApproveMark
  <1>6. ASSUME NEW t \in Threads, RunMatch(t) PROVE OutlierInv'
    <2>1. PICK c \in Coefs, n \in 0 .. MaxRows :
            \E risks \in [1 .. n -> Snapshots(range[t], c)] :
               todo' = [todo EXCEPT ![t] = risks]
      BY <1>6 DEF RunMatch
    <2>2. PICK risks \in [1 .. n -> Snapshots(range[t], c)] :
            todo' = [todo EXCEPT ![t] = risks]
      BY <2>1
    <2>3. ASSUME range[t] # NoRange, NEW i \in 1 .. n
          PROVE  Outlying(risks[i], range[t])
      BY <1>2, <2>2, <2>3, SnapshotOutlying
    <2>4. /\ range' = range /\ pc' = [pc EXCEPT ![t] = "logging"]
          /\ todo'[t] = risks /\ DOMAIN risks = 1 .. n
      BY <1>2, <1>6, <2>2 DEF RunMatch
    <2> QED BY <1>2, <1>3, <2>2, <2>3, <2>4
  <1>7. ASSUME NEW t \in Threads, RunLook(t) PROVE OutlierInv'
    BY <1>2, <1>3, <1>7 DEF RunLook
  <1>8. ASSUME NEW t \in Threads, RunUpsert(t) PROVE OutlierInv'
    <2>1. /\ todo[t] # <<>> /\ pc[t] = "upserting"
          /\ pc' = [pc EXCEPT ![t] = "logging"]
          /\ todo' = [todo EXCEPT ![t] = Tail(todo[t])] /\ range' = range
      BY <1>1, <1>8 DEF RunUpsert, SavedInv, TypeInv, TypeOK
    <2>2. \A i \in DOMAIN Tail(todo[t]) :
             i + 1 \in DOMAIN todo[t] /\ Tail(todo[t])[i] = todo[t][i + 1]
      BY <1>2, <2>1, FirstAndRest
    <2>3. range[t] # NoRange =>
            \A i \in DOMAIN Tail(todo[t]) : Outlying(Tail(todo[t])[i], range[t])
      BY <2>1, <2>2
    <2> QED BY <1>2, <1>3, <2>1, <2>3
  <1> QED BY <1>4, <1>5, <1>6, <1>7, <1>8 DEF Next, Run, Approve

LEMMA ReopenStep ==
  ASSUME OutlierInv, [Next]_vars, NEW t \in Threads,
         pc[t] = "upserting", pc'[t] = "logging",
         log # NoRisk, log.status = "approved", range[t] = exc
  PROVE  BelowOrAbove(log'.min, exc) /\ BelowOrAbove(log'.max, exc)
  <1>1. TypeInv
    BY DEF OutlierInv, SavedInv
  <1>2. pc \in [Threads -> Places]
    BY <1>1 DEF TypeInv, TypeOK
  <1>3. RunUpsert(t)
    BY <1>2 DEF Next, Run, Approve, NewDay, HandlerEnds, RunStart, RunMatch, RunLook,
                RunUpsert, ApproveRead, ApproveCheck, ApproveLoad, ApproveSave,
                ApproveMark, vars, At, Go
  <1>4. exc # NoRange
    BY DEF OutlierInv, SavedInv, ApprovedHasRange
  <1>5. todo[t] # <<>> /\ todo[t] \in Seq(Shown \cup Approved)
    BY <1>1 DEF TypeInv, TypeOK
  <1>6. 1 \in DOMAIN todo[t]
    BY <1>5
  <1>7. Outlying(todo[t][1], exc)
    BY <1>4, <1>6 DEF OutlierInv
  <1>8. log'.min = todo[t][1].min /\ log'.max = todo[t][1].max
    BY <1>3 DEF RunUpsert
  <1> QED BY <1>7, <1>8 DEF Outlying

(* Where estimates are priced without a regional coefficient, a run that knew
   the approved range reopens the risk only with prices outside that range. *)
THEOREM OnlyOutliersReopen ==
  ASSUME Coefs = {1} PROVE Spec => ReopenedForOutliers
  <1>1. OutlierInv /\ [Next]_vars => OutlierInv'
    BY OutlierStep
  <1>2. OutlierInv /\ [Next]_vars =>
          [\A t \in Threads :
             /\ pc[t] = "upserting" /\ pc'[t] = "logging"
             /\ log # NoRisk /\ log.status = "approved"
             /\ range[t] = exc
             => BelowOrAbove(log'.min, exc) /\ BelowOrAbove(log'.max, exc)]_vars
    BY ReopenStep
  <1> QED BY OutlierStart, <1>1, <1>2, PTL DEF Spec, ReopenedForOutliers

================================================================================
