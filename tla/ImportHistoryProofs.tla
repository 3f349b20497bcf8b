-------------------------- MODULE ImportHistoryProofs --------------------------
(****************************************************************************)
(* Proofs about ImportHistory for any files, regions, archives and threads. *)
(****************************************************************************)
EXTENDS ImportHistory, TLAPS

USE ThreadAssumption, KeyAssumption, PlaceAssumption, ListAssumption,
    RecordAssumption

(* A job that has decided what to do with a place has that place still before
   it, and the lock is held by a job. *)
JobsHold ==
  /\ \A t \in Threads :
       job[t].plan # "none" => job[t].todo # <<>> /\ job[t].mode # "none"
  /\ \A t \in Threads : writer = t => job[t].mode # "none"

TypeInv == TypeOK /\ JobsHold

--------------------------------------------------------------------------------
(* Operators                                                                   *)

LEMMA IdRecord ==
  ASSUME NEW d \in Database, NEW n \in Ids(d)
  PROVE  n \in DOMAIN d.files /\ n \in Nat /\ d.files[n] \in Record
  BY DEF Ids, Database

LEMMA NewFiles ==
  ASSUME NEW S, NEW s \in Seq(S), NEW f, f = [i \in DOMAIN s |-> f[i]],
         \A i \in DOMAIN s : f[i] \in S
  PROVE  f \in Seq(S) /\ DOMAIN f = DOMAIN s
  <1>1. DOMAIN s = 1 .. Len(s) /\ Len(s) \in Nat
    OBVIOUS
  <1>2. f \in [1 .. Len(s) -> S]
    BY <1>1
  <1> QED BY <1>1, <1>2

(* An upsert writes its own place, there or in a new record, and nothing else. *)
LEMMA UpsertEffect ==
  ASSUME NEW d \in Database, NEW src \in Sources, NEW p \in Place,
         NEW status \in Statuses
  PROVE  LET u == Upsert(d, src, p, status)
             r == [src |-> src, region |-> p.region, file |-> p.file,
                   status |-> status]
         IN  /\ u \in Database /\ u.rows = d.rows
             /\ DOMAIN d.files \subseteq DOMAIN u.files
             /\ \A n \in DOMAIN d.files :
                  u.files[n] = d.files[n]
                    \/ (n \in Ids(d) /\ d.files[n].file = p.file /\ u.files[n] = r)
  <1> DEFINE r == [src |-> src, region |-> p.region, file |-> p.file,
                   status |-> status]
             u == Upsert(d, src, p, status)
             S == Record \cup {NoRecord}
  <1>1. r \in S /\ r \in Record
    BY DEF Record, Place
  <1>2. d.files \in Seq(S) /\ d.rows \in SUBSET Spot
        /\ d = [files |-> d.files, rows |-> d.rows]
    BY DEF Database
  <1>3. CASE At(d, p) = {}
    <2>1. u = [d EXCEPT !.files = Append(@, r)]
      BY <1>3 DEF Upsert
    <2>2. u.files = Append(d.files, r) /\ u.rows = d.rows
      BY <1>2, <2>1
    <2>3. u = [files |-> u.files, rows |-> u.rows]
      BY <1>2, <2>1
    <2>4. /\ Append(d.files, r) \in Seq(S)
          /\ DOMAIN d.files \subseteq DOMAIN Append(d.files, r)
          /\ \A n \in DOMAIN d.files : Append(d.files, r)[n] = d.files[n]
      BY <1>1, <1>2
    <2>5. u \in Database
      BY <1>2, <2>2, <2>3, <2>4 DEF Database
    <2> QED BY <2>2, <2>4, <2>5
  <1>4. CASE At(d, p) # {}
    <2> DEFINE f == [n \in DOMAIN d.files |->
                       IF n \in At(d, p) THEN r ELSE d.files[n]]
    <2>1. u = [d EXCEPT !.files = f]
      BY <1>4 DEF Upsert
    <2>2. u.files = f /\ u.rows = d.rows
      BY <1>2, <2>1
    <2>3. u = [files |-> u.files, rows |-> u.rows]
      BY <1>2, <2>1
    <2>4. f \in Seq(S) /\ DOMAIN f = DOMAIN d.files
      <3>1. \A n \in DOMAIN d.files : f[n] \in S
        BY <1>1, <1>2
      <3> HIDE DEF S
      <3>2. f = [n \in DOMAIN d.files |-> f[n]]
        OBVIOUS
      <3> QED BY <1>2, <3>1, <3>2, NewFiles
    <2>5. u \in Database
      BY <1>2, <2>2, <2>3, <2>4 DEF Database
    <2>6. \A n \in At(d, p) : n \in Ids(d) /\ d.files[n].file = p.file
      BY DEF At
    <2> QED BY <2>2, <2>4, <2>5, <2>6
  <1> QED BY <1>3, <1>4

LEMMA RowsEffect ==
  ASSUME NEW d \in Database, NEW R \in SUBSET Spot
  PROVE  /\ [d EXCEPT !.rows = R] \in Database
         /\ [d EXCEPT !.rows = R].files = d.files
         /\ [d EXCEPT !.rows = R].rows = R
  BY DEF Database

LEMMA KeysTyped ==
  ASSUME NEW d \in Database
  PROVE  /\ FinalKeys(d) \subseteq Keys /\ RecordedKeys(d) \subseteq Keys
         /\ \A s \in d.rows : s \in Spot /\ KeyOf[s.file] \in FinalKeys(d)
  <1>1. \A n \in Ids(d) : KeyOf[d.files[n].file] \in Keys
    BY IdRecord DEF Record
  <1>2. \A s \in d.rows : s \in Spot /\ KeyOf[s.file] \in Keys
    BY DEF Database, Spot
  <1> QED BY <1>1, <1>2 DEF FinalKeys, ProcessedKeys, RecordedKeys

(* What loading the workbook of place p makes of d: one record is written and
   rows of that workbook are added or removed. *)
LEMMA OutcomeEffect ==
  ASSUME NEW d \in Database, NEW p \in Place, NEW u \in Outcomes(d, p)
  PROVE  /\ u \in Database
         /\ DOMAIN d.files \subseteq DOMAIN u.files
         /\ \A n \in DOMAIN d.files :
              u.files[n] = d.files[n]
                \/ /\ n \in Ids(d) /\ d.files[n].file = p.file
                   /\ u.files[n] \in Record /\ u.files[n].file = p.file
         /\ \E q \in Spot : /\ q.src = "zip" /\ q.file = p.file
                            /\ u.rows \subseteq d.rows \cup {q}
         /\ \A s \in d.rows : s.file # p.file => s \in u.rows
  <1> DEFINE found == {[p EXCEPT !.region = r] : r \in Regions}
  <1>1. PICK e \in Database, q \in Place, status \in {"success", "no_data", "failed"},
             s \in Spot :
          /\ u = Upsert(e, "zip", q, status) /\ q.file = p.file
          /\ e.files = d.files
          /\ s.src = "zip" /\ s.file = p.file
          /\ e.rows \subseteq d.rows \cup {s}
          /\ \A x \in d.rows : x.file # p.file => x \in e.rows
    <2>1. \A q \in found : q \in Place /\ q.file = p.file
      BY DEF Place
    <2>2. \A q \in found \cup {p} :
            /\ ZipSpot(q) \in Spot /\ ZipSpot(q).src = "zip" /\ ZipSpot(q).file = p.file
            /\ AddRows(d, q) \in Database /\ AddRows(d, q).files = d.files
            /\ AddRows(d, q).rows \subseteq d.rows \cup {ZipSpot(q)}
            /\ DropRows(d, q) \in Database /\ DropRows(d, q).files = d.files
            /\ DropRows(d, q).rows \subseteq d.rows \cup {ZipSpot(q)}
            /\ \A x \in d.rows : x.file # p.file =>
                 x \in AddRows(d, q).rows /\ x \in DropRows(d, q).rows
      <3> TAKE q \in found \cup {p}
      <3>1. q \in Place /\ q.file = p.file
        BY <2>1
      <3>2. ZipSpot(q) \in Spot /\ ZipSpot(q).src = "zip" /\ ZipSpot(q).file = p.file
        BY <3>1 DEF ZipSpot, Spot, Place, Sources
      <3>3. d.rows \cup {ZipSpot(q)} \in SUBSET Spot
            /\ d.rows \ {ZipSpot(q)} \in SUBSET Spot
        BY <3>2 DEF Database
      <3>4. AddRows(d, q) = [d EXCEPT !.rows = d.rows \cup {ZipSpot(q)}]
            /\ DropRows(d, q) = [d EXCEPT !.rows = d.rows \ {ZipSpot(q)}]
        BY DEF AddRows, DropRows
      <3> DEFINE A == d.rows \cup {ZipSpot(q)}
                 D == d.rows \ {ZipSpot(q)}
      <3> HIDE DEF A, D
      <3>5. /\ [d EXCEPT !.rows = A] \in Database
            /\ [d EXCEPT !.rows = A].files = d.files
            /\ [d EXCEPT !.rows = A].rows = A
        BY <3>3, RowsEffect DEF A
      <3>6. /\ [d EXCEPT !.rows = D] \in Database
            /\ [d EXCEPT !.rows = D].files = d.files
            /\ [d EXCEPT !.rows = D].rows = D
        BY <3>3, RowsEffect DEF D
      <3>7. A \subseteq d.rows \cup {ZipSpot(q)} /\ D \subseteq d.rows \cup {ZipSpot(q)}
        BY DEF A, D
      <3>9. \A x \in d.rows : x.file # p.file => x \in A /\ x \in D
        BY <3>2 DEF A, D
      <3>8. AddRows(d, q) = [d EXCEPT !.rows = A] /\ DropRows(d, q) = [d EXCEPT !.rows = D]
        BY <3>4 DEF A, D
      <3> QED BY <3>2, <3>5, <3>6, <3>7, <3>8, <3>9
    <2> HIDE DEF found
    <2>3. \/ \E q \in found : u = Upsert(AddRows(d, q), "zip", q, "success")
          \/ \E q \in found : u = Upsert(DropRows(d, q), "zip", q, "success")
          \/ \E q \in found : u = Upsert(d, "zip", q, "no_data")
          \/ u = Upsert(d, "zip", p, "failed")
          \/ \E q \in found : u = Upsert(AddRows(d, q), "zip", p, "failed")
      BY DEF Outcomes, found
    <2> QED BY <2>1, <2>2, <2>3
  <1>2. "zip" \in Sources /\ status \in Statuses
    BY DEF Sources, Statuses
  <1> DEFINE r == [src |-> "zip", region |-> q.region, file |-> q.file,
                   status |-> status]
  <1>3. r \in Record /\ r.file = p.file
    BY <1>1, <1>2 DEF Record, Place
  <1>4. /\ u \in Database /\ u.rows = e.rows
        /\ DOMAIN e.files \subseteq DOMAIN u.files
        /\ \A n \in DOMAIN e.files :
             u.files[n] = e.files[n]
               \/ (n \in Ids(e) /\ e.files[n].file = q.file /\ u.files[n] = r)
    BY <1>1, <1>2, UpsertEffect
  <1>5. Ids(e) = Ids(d)
    BY <1>1 DEF Ids
  <1> QED BY <1>1, <1>3, <1>4, <1>5

--------------------------------------------------------------------------------
(* Types                                                                       *)

LEMMA TypeStart == Init => TypeInv
  <1> SUFFICES ASSUME Init PROVE TypeInv
    OBVIOUS
  <1>1. [files |-> <<>>, rows |-> {}] \in Database
    BY DEF Database
  <1>2. NoJob \in Job
    BY DEF NoJob, Job, Modes, Plans
  <1>3. NoEdit \in Edit
    BY DEF NoEdit, Edit, Spot, Sources
  <1>4. TypeOK
    BY <1>1, <1>2, <1>3 DEF Init, TypeOK
  <1>5. \A t \in Threads : job[t].plan = "none"
    BY DEF Init, NoJob
  <1>6. \A t \in Threads : writer # t
    BY DEF Init
  <1> QED BY <1>4, <1>5, <1>6 DEF TypeInv, JobsHold

LEMMA SeenType ==
  ASSUME TypeOK, NEW t \in Threads PROVE Seen(t) \in Database
  BY DEF TypeOK, Seen

LEMMA JobType ==
  ASSUME TypeOK, NEW t \in Threads
  PROVE  /\ job[t] \in Job
         /\ job[t].todo # <<>> => /\ Head1(t) \in Place /\ Key1(t) \in Keys
                                 /\ Tail(job[t].todo) \in Seq(Place)
         /\ job[t] = [mode |-> job[t].mode, todo |-> job[t].todo,
                      known |-> job[t].known, seen |-> job[t].seen,
                      plan |-> job[t].plan]
  <1>1. job[t] \in Job
    BY DEF TypeOK
  <1>2. job[t].todo \in Seq(Place)
    BY <1>1 DEF Job
  <1>3. job[t].todo # <<>> => Head1(t) \in Place /\ Tail(job[t].todo) \in Seq(Place)
    BY <1>2 DEF Head1
  <1>4. job[t].todo # <<>> => Key1(t) \in Keys
    BY <1>3 DEF Key1, Place
  <1> QED BY <1>1, <1>3, <1>4 DEF Job

(* A look changes the looker's job only: it plans something for the first place
   of its list, or drops that place. *)
LEMMA LookEffect ==
  ASSUME TypeOK, NEW t \in Threads, Look(t)
  PROVE  \E j \in Job :
           /\ Run(t, j) /\ UNCHANGED <<db, tx, writer, edit>>
           /\ job[t].todo # <<>> /\ job[t].mode # "none"
           /\ j.mode = job[t].mode /\ j.known = job[t].known
           /\ j.seen = job[t].seen \cup {Key1(t)}
           /\ \/ j.plan = "none" /\ j.todo = Tail(job[t].todo)
              \/ /\ j.plan # "none" /\ j.todo = job[t].todo
                 /\ j.plan = "load" => j.mode = "import"
                 /\ j.plan \in {"load", "pending"} =>
                      /\ Key1(t) \notin job[t].known /\ j.mode \in {"import", "log"}
                      /\ j.plan = "load" => Key1(t) \notin job[t].seen
  <1> DEFINE Planned(plan) == [job[t] EXCEPT !.plan = plan, !.seen = @ \cup {Key1(t)}]
             Kept == [job[t] EXCEPT !.todo = Tail(@), !.seen = @ \cup {Key1(t)}]
  <1>1. job[t].todo # <<>> /\ job[t].plan = "none" /\ UNCHANGED <<db, tx, writer, edit>>
    BY DEF Look
  <1>2. job[t] \in Job /\ Key1(t) \in Keys /\ Tail(job[t].todo) \in Seq(Place)
    BY <1>1, JobType
  <1>3. ASSUME NEW plan \in Plans
        PROVE  /\ Planned(plan) \in Job /\ Planned(plan).plan = plan
               /\ Planned(plan).mode = job[t].mode /\ Planned(plan).known = job[t].known
               /\ Planned(plan).todo = job[t].todo
               /\ Planned(plan).seen = job[t].seen \cup {Key1(t)}
    BY <1>2 DEF Job
  <1>4. /\ Kept \in Job /\ Kept.plan = "none"
        /\ Kept.mode = job[t].mode /\ Kept.known = job[t].known
        /\ Kept.todo = Tail(job[t].todo)
        /\ Kept.seen = job[t].seen \cup {Key1(t)}
    BY <1>1, <1>2 DEF Job
  <1> HIDE DEF Planned, Kept
  <1>5. \/ job[t].mode # "none" /\ Run(t, Kept)
        \/ \E plan \in Plans \ {"none", "load", "pending"} :
              job[t].mode # "none" /\ Run(t, Planned(plan))
        \/ /\ job[t].mode = "import" /\ Run(t, Planned("load"))
           /\ Key1(t) \notin job[t].known /\ Key1(t) \notin job[t].seen
        \/ /\ job[t].mode = "log" /\ Run(t, Planned("pending"))
           /\ Key1(t) \notin job[t].known
    BY DEF Look, LookImport, LookLog, LookLegacy, LookSync, LookMain, Plan, Keep,
           Planned, Kept, Plans, Again, Known
  <1>6. CASE job[t].mode # "none" /\ Run(t, Kept)
    BY <1>1, <1>4, <1>6
  <1>7. CASE \E plan \in Plans \ {"none", "load", "pending"} :
               job[t].mode # "none" /\ Run(t, Planned(plan))
    BY <1>1, <1>3, <1>7
  <1>8. CASE /\ job[t].mode = "import" /\ Run(t, Planned("load"))
             /\ Key1(t) \notin job[t].known /\ Key1(t) \notin job[t].seen
    BY <1>1, <1>3, <1>8 DEF Plans
  <1>9. CASE /\ job[t].mode = "log" /\ Run(t, Planned("pending"))
             /\ Key1(t) \notin job[t].known
    BY <1>1, <1>3, <1>9 DEF Plans
  <1> QED BY <1>5, <1>6, <1>7, <1>8, <1>9

(* u differs from d by new records and by records of p's name with a status in S. *)
Touched(d, u, p, S) ==
  /\ DOMAIN d.files \subseteq DOMAIN u.files
  /\ \A n \in DOMAIN d.files :
       u.files[n] = d.files[n]
         \/ /\ n \in Ids(d) /\ d.files[n].file = p.file
            /\ u.files[n] \in Record /\ u.files[n].file = p.file
            /\ u.files[n].status \in S

Moved(t) == [job[t] EXCEPT !.todo = Tail(@), !.plan = "none"]

LEMMA MovedType ==
  ASSUME TypeOK, NEW t \in Threads, job[t].todo # <<>>
  PROVE  /\ Moved(t) \in Job /\ Moved(t).plan = "none"
         /\ Moved(t).mode = job[t].mode /\ Moved(t).known = job[t].known
         /\ Moved(t).seen = job[t].seen /\ Moved(t).todo = Tail(job[t].todo)
  <1>1. job[t] \in Job /\ Tail(job[t].todo) \in Seq(Place)
    BY JobType
  <1> QED BY <1>1 DEF Moved, Job, Plans

LEMMA RecordEffect ==
  ASSUME TypeInv, NEW t \in Threads, WriteRecord(t)
  PROVE  \E u \in Database :
           /\ Write(t, u) /\ UNCHANGED edit
           /\ job[t].todo # <<>> /\ job[t].mode # "none"
           /\ Run(t, Moved(t))
           /\ u.rows = Seen(t).rows
           /\ Touched(Seen(t), u, Head1(t), {job[t].plan})
  <1> DEFINE src == SourceOf(job[t].mode)
             r == [src |-> src, region |-> Head1(t).region, file |-> Head1(t).file,
                   status |-> job[t].plan]
             u == Upsert(Seen(t), src, Head1(t), job[t].plan)
  <1>1. /\ job[t].plan \notin {"none", "load"} /\ Write(t, u) /\ UNCHANGED edit
        /\ Run(t, Moved(t))
    BY DEF WriteRecord, Written, Moved
  <1>2. job[t].todo # <<>> /\ job[t].mode # "none"
    BY <1>1 DEF TypeInv, JobsHold
  <1>3. /\ job[t] \in Job /\ Head1(t) \in Place /\ Seen(t) \in Database
    BY <1>2, JobType, SeenType DEF TypeInv
  <1>4. job[t].plan \in Statuses /\ src \in Sources
    BY <1>1, <1>2, <1>3 DEF Job, Modes, Plans, Statuses, SourceOf, Sources
  <1> HIDE DEF src
  <1>5. r \in Record /\ r.file = Head1(t).file /\ r.status = job[t].plan
    BY <1>3, <1>4 DEF Record, Place
  <1>6. /\ u \in Database /\ u.rows = Seen(t).rows
        /\ DOMAIN Seen(t).files \subseteq DOMAIN u.files
        /\ \A n \in DOMAIN Seen(t).files :
             u.files[n] = Seen(t).files[n]
               \/ (n \in Ids(Seen(t)) /\ Seen(t).files[n].file = Head1(t).file
                   /\ u.files[n] = r)
    BY <1>3, <1>4, UpsertEffect
  <1> HIDE DEF u, r
  <1>7. Touched(Seen(t), u, Head1(t), {job[t].plan})
    BY <1>5, <1>6 DEF Touched
  <1> QED BY <1>1, <1>2, <1>6, <1>7

LEMMA LoadEffect ==
  ASSUME TypeInv, NEW t \in Threads, LoadWorkbook(t)
  PROVE  \E u \in Database, q \in Spot :
           /\ Write(t, u) /\ UNCHANGED edit
           /\ job[t].todo # <<>> /\ job[t].mode # "none" /\ job[t].plan = "load"
           /\ Run(t, Moved(t))
           /\ q.src = "zip" /\ q.file = Head1(t).file
           /\ u.rows \subseteq Seen(t).rows \cup {q}
           /\ \A s \in Seen(t).rows : s.file # Head1(t).file => s \in u.rows
           /\ Touched(Seen(t), u, Head1(t), Statuses)
  <1>1. /\ job[t].plan = "load" /\ UNCHANGED edit /\ Run(t, Moved(t))
    BY DEF LoadWorkbook, Written, Moved
  <1>2. job[t].todo # <<>> /\ job[t].mode # "none"
    BY <1>1 DEF TypeInv, JobsHold
  <1>3. Head1(t) \in Place /\ Seen(t) \in Database
    BY <1>2, JobType, SeenType DEF TypeInv
  <1>4. PICK u \in Outcomes(Seen(t), Head1(t)) : Write(t, u)
    BY DEF LoadWorkbook
  <1>5. /\ u \in Database
        /\ DOMAIN Seen(t).files \subseteq DOMAIN u.files
        /\ \A n \in DOMAIN Seen(t).files :
             u.files[n] = Seen(t).files[n]
               \/ /\ n \in Ids(Seen(t)) /\ Seen(t).files[n].file = Head1(t).file
                  /\ u.files[n] \in Record /\ u.files[n].file = Head1(t).file
        /\ \E q \in Spot : /\ q.src = "zip" /\ q.file = Head1(t).file
                           /\ u.rows \subseteq Seen(t).rows \cup {q}
        /\ \A s \in Seen(t).rows : s.file # Head1(t).file => s \in u.rows
    BY <1>3, <1>4, OutcomeEffect
  <1>6. \A x \in Record : x.status \in Statuses
    BY DEF Record
  <1>7. Touched(Seen(t), u, Head1(t), Statuses)
    BY <1>5, <1>6 DEF Touched
  <1> QED BY <1>1, <1>2, <1>4, <1>5, <1>7

(* Starting a job, whatever its kind. *)
LEMMA StartEffect ==
  ASSUME TypeOK, NEW t \in Threads, NEW mode \in Modes, NEW list \in Seq(Place),
         NEW known \in SUBSET Keys, Start(t, mode, list, known)
  PROVE  \E j \in Job :
           /\ Run(t, j) /\ job[t].mode = "none"
           /\ j.mode = mode /\ j.todo = list /\ j.known = known
           /\ j.seen = {} /\ j.plan = "none"
  <1> DEFINE j == [NoJob EXCEPT !.mode = mode, !.todo = list, !.known = known]
  <1>1. Run(t, j) /\ job[t].mode = "none"
    BY DEF Start, Idle
  <1>2. /\ j \in Job /\ j.mode = mode /\ j.todo = list /\ j.known = known
        /\ j.seen = {} /\ j.plan = "none"
    BY DEF NoJob, Job, Plans
  <1> QED BY <1>1, <1>2

LEMMA MainEffect ==
  ASSUME TypeOK, MainStart
  PROVE  \E u \in Database, j \in Job :
           /\ Write(Loop, u) /\ UNCHANGED edit
           /\ Run(Loop, j) /\ job[Loop].mode = "none"
           /\ j.mode = "main" /\ j.plan = "none"
           /\ DOMAIN u.files = DOMAIN db.files
           /\ \A n \in DOMAIN db.files :
                u.files[n] = db.files[n]
                  \/ (n \in Ids(db) /\ db.files[n].src = "main" /\ u.files[n] = NoRecord)
           /\ \A s \in u.rows : s.src = "main" \/ s \in db.rows
           /\ \A s \in db.rows : s.src # "main" => s \in u.rows
  <1> DEFINE f == [n \in DOMAIN db.files |->
                     IF n \in Ids(db) /\ db.files[n].src = "main"
                     THEN NoRecord ELSE db.files[n]]
             rows(list) ==
               {s \in db.rows : s.src # "main"} \cup
               {[src |-> "main", region |-> Root, file |-> list[n].file]
                  : n \in DOMAIN list}
  <1>1. PICK list \in Books :
          /\ Start(Loop, "main", list, {})
          /\ Write(Loop, [files |-> f, rows |-> rows(list)])
    BY DEF MainStart
  <1>2. Loop \in Threads /\ list \in Seq(Place) /\ "main" \in Modes
    BY DEF Threads, Modes
  <1>3. PICK j \in Job : /\ Run(Loop, j) /\ job[Loop].mode = "none"
                          /\ j.mode = "main" /\ j.plan = "none"
    BY <1>1, <1>2, StartEffect
  <1>4. db \in Database /\ db.files \in Seq(Record \cup {NoRecord})
        /\ db.rows \in SUBSET Spot
    BY DEF TypeOK, Database
  <1>5. f \in Seq(Record \cup {NoRecord}) /\ DOMAIN f = DOMAIN db.files
    <2> DEFINE S == Record \cup {NoRecord}
    <2>1. \A n \in DOMAIN db.files : f[n] \in S
      BY <1>4
    <2>2. f = [n \in DOMAIN db.files |-> f[n]]
      OBVIOUS
    <2> HIDE DEF f, S
    <2>3. f \in Seq(S) /\ DOMAIN f = DOMAIN db.files
      <3>1. db.files \in Seq(S)
        BY <1>4 DEF S
      <3> QED BY <2>1, <2>2, <3>1, NewFiles
    <2> QED BY <2>3 DEF S
  <1>6. rows(list) \in SUBSET Spot
    <2>1. \A n \in DOMAIN list : list[n] \in Place
      BY <1>2
    <2>2. \A n \in DOMAIN list :
            [src |-> "main", region |-> Root, file |-> list[n].file] \in Spot
      BY <2>1 DEF Spot, Place, Sources
    <2> QED BY <1>4, <2>2
  <1>7. /\ \A s \in rows(list) : s.src = "main" \/ s \in db.rows
        /\ \A s \in db.rows : s.src # "main" => s \in rows(list)
    OBVIOUS
  <1>8. \A n \in DOMAIN db.files :
          f[n] = db.files[n]
            \/ (n \in Ids(db) /\ db.files[n].src = "main" /\ f[n] = NoRecord)
    <2> TAKE n \in DOMAIN db.files
    <2>1. f[n] = IF n \in Ids(db) /\ db.files[n].src = "main"
                 THEN NoRecord ELSE db.files[n]
      OBVIOUS
    <2> HIDE DEF f
    <2> QED BY <2>1
  <1> HIDE DEF f, rows
  <1>9. [files |-> f, rows |-> rows(list)] \in Database
    BY <1>5, <1>6 DEF Database
  <1>10. UNCHANGED edit
    BY DEF MainStart
  <1> QED BY <1>1, <1>3, <1>5, <1>7, <1>8, <1>9, <1>10

(* A thread that writes a record, and goes on with its job j. *)
LEMMA WriterType ==
  ASSUME TypeInv, NEW t \in Threads, NEW u \in Database, NEW j \in Job,
         Write(t, u), Run(t, j), UNCHANGED edit, j.mode # "none",
         j.plan # "none" => j.todo # <<>>
  PROVE  TypeInv'
  <1>1. /\ writer' = t /\ tx' = u /\ db' = db /\ edit' = edit
        /\ job' = [job EXCEPT ![t] = j] /\ writer \in {NoThread, t}
    BY DEF Write, Run
  <1>2. t # NoThread
    OBVIOUS
  <1>3. TypeOK'
    BY <1>1, <1>2 DEF TypeInv, TypeOK
  <1>4. \A u1 \in Threads : job'[u1] = IF u1 = t THEN j ELSE job[u1]
    BY <1>1 DEF TypeInv, TypeOK
  <1>5. JobsHold'
    BY <1>1, <1>4 DEF TypeInv, JobsHold
  <1> QED BY <1>3, <1>5 DEF TypeInv

(* A thread that changes nothing but its job, to j. *)
LEMMA ReaderType ==
  ASSUME TypeInv, NEW t \in Threads, NEW j \in Job,
         Run(t, j), UNCHANGED <<db, tx, writer, edit>>, j.mode # "none",
         j.plan # "none" => j.todo # <<>>
  PROVE  TypeInv'
  <1>1. /\ job' = [job EXCEPT ![t] = j]
        /\ writer' = writer /\ tx' = tx /\ db' = db /\ edit' = edit
    BY DEF Run
  <1>2. TypeOK'
    BY <1>1 DEF TypeInv, TypeOK
  <1>3. \A u1 \in Threads : job'[u1] = IF u1 = t THEN j ELSE job[u1]
    BY <1>1 DEF TypeInv, TypeOK
  <1>4. JobsHold'
    BY <1>1, <1>3 DEF TypeInv, JobsHold
  <1> QED BY <1>2, <1>4 DEF TypeInv

(* A short handler commits d at once. *)
LEMMA AtOnceType ==
  ASSUME TypeInv, NEW d \in Database, WriteAtOnce(d), UNCHANGED job,
         edit' \in [Threads -> Edit]
  PROVE  TypeInv'
  <1>1. /\ db' = d /\ tx' = d /\ writer' = writer /\ job' = job
        /\ writer = NoThread
    BY DEF WriteAtOnce
  <1> QED BY <1>1 DEF TypeInv, TypeOK, JobsHold

LEMMA RetryType ==
  ASSUME TypeOK, NEW n \in Ids(db), NEW status \in Statuses
  PROVE  LET d == [db EXCEPT !.files[n].status = status] IN
         /\ d \in Database /\ d.rows = db.rows
         /\ DOMAIN d.files = DOMAIN db.files
         /\ d.files[n] = [db.files[n] EXCEPT !.status = status]
         /\ \A m \in DOMAIN db.files : m # n => d.files[m] = db.files[m]
  <1> DEFINE r == [db.files[n] EXCEPT !.status = status]
             d == [db EXCEPT !.files[n].status = status]
  <1>1. db \in Database
    BY DEF TypeOK
  <1>2. n \in DOMAIN db.files /\ db.files[n] \in Record
    BY <1>1, IdRecord
  <1>3. r \in Record
    BY <1>2 DEF Record
  <1>4. db.files \in Seq(Record \cup {NoRecord}) /\ db.rows \in SUBSET Spot
    BY <1>1 DEF Database
  <1>5. d = [db EXCEPT !.files = [db.files EXCEPT ![n] = r]]
    OBVIOUS
  <1> HIDE DEF r, d
  <1>6. [db.files EXCEPT ![n] = r] \in Seq(Record \cup {NoRecord})
    BY <1>2, <1>3, <1>4
  <1>7. d = [files |-> [db.files EXCEPT ![n] = r], rows |-> db.rows]
    BY <1>1, <1>5 DEF Database
  <1>8. d \in Database
    BY <1>4, <1>6, <1>7 DEF Database
  <1> QED BY <1>2, <1>7, <1>8 DEF r, d

LEMMA EditEffect ==
  ASSUME TypeOK, NEW t \in Threads, EditWrite(t)
  PROVE  \E d \in Database, n \in Ids(db), r \in Regions, old \in Spot :
           /\ WriteAtOnce(d) /\ UNCHANGED job
           /\ edit' = [edit EXCEPT ![t] = NoEdit]
           /\ DOMAIN d.files = DOMAIN db.files
           /\ d.files[n] = [db.files[n] EXCEPT !.region = r]
           /\ \A m \in DOMAIN db.files : m # n => d.files[m] = db.files[m]
           /\ d.rows = IF old \in db.rows
                       THEN (db.rows \ {old}) \cup {[old EXCEPT !.region = r]}
                       ELSE db.rows
  <1> DEFINE n == edit[t].id
             old == edit[t].old
             files(r) == [db.files EXCEPT ![n].region = r]
             rows(r) == IF old \in db.rows
                        THEN (db.rows \ {old}) \cup {[old EXCEPT !.region = r]}
                        ELSE db.rows
  <1>1. PICK r \in Regions :
          n \in Ids(db) /\ WriteAtOnce([files |-> files(r), rows |-> rows(r)])
    BY DEF EditWrite
  <1>2. UNCHANGED job /\ edit' = [edit EXCEPT ![t] = NoEdit]
    BY DEF EditWrite
  <1>3. db \in Database /\ old \in Spot
    BY DEF TypeOK, Edit
  <1>4. n \in DOMAIN db.files /\ db.files[n] \in Record
    BY <1>1, <1>3, IdRecord
  <1>5. db.files \in Seq(Record \cup {NoRecord}) /\ db.rows \in SUBSET Spot
    BY <1>3 DEF Database
  <1>6. [db.files[n] EXCEPT !.region = r] \in Record
    BY <1>4 DEF Record
  <1>7. files(r) = [db.files EXCEPT ![n] = [db.files[n] EXCEPT !.region = r]]
    OBVIOUS
  <1>8. files(r) \in Seq(Record \cup {NoRecord})
    BY <1>4, <1>5, <1>6, <1>7
  <1>9. [old EXCEPT !.region = r] \in Spot
    BY <1>3 DEF Spot
  <1>10. rows(r) \in SUBSET Spot
    BY <1>5, <1>9
  <1>11. [files |-> files(r), rows |-> rows(r)] \in Database
    BY <1>8, <1>10 DEF Database
  <1>12. /\ DOMAIN files(r) = DOMAIN db.files
         /\ files(r)[n] = [db.files[n] EXCEPT !.region = r]
         /\ \A m \in DOMAIN db.files : m # n => files(r)[m] = db.files[m]
    BY <1>4, <1>7
  <1>13. rows(r) = IF old \in db.rows
                   THEN (db.rows \ {old}) \cup {[old EXCEPT !.region = r]}
                   ELSE db.rows
    OBVIOUS
  <1> DEFINE d == [files |-> files(r), rows |-> rows(r)]
  <1>14. d.files = files(r) /\ d.rows = rows(r)
    OBVIOUS
  <1>15. d \in Database /\ WriteAtOnce(d)
    BY <1>1, <1>11
  <1> HIDE DEF d, files, rows, n, old
  <1>16. /\ DOMAIN d.files = DOMAIN db.files
         /\ d.files[n] = [db.files[n] EXCEPT !.region = r]
         /\ \A m \in DOMAIN db.files : m # n => d.files[m] = db.files[m]
         /\ d.rows = IF old \in db.rows
                     THEN (db.rows \ {old}) \cup {[old EXCEPT !.region = r]}
                     ELSE db.rows
    BY <1>12, <1>13, <1>14
  <1>17. n \in Ids(db) /\ old \in Spot
    BY <1>1, <1>3
  <1> QED BY <1>2, <1>15, <1>16, <1>17, Zenon

LEMMA TypeStep == TypeInv /\ [Next]_vars => TypeInv'
  <1> SUFFICES ASSUME TypeInv, [Next]_vars PROVE TypeInv'
    OBVIOUS
  <1>1. TypeOK /\ JobsHold /\ Loop \in Threads
    BY DEF TypeInv, Threads
  <1>2. db \in Database /\ NoJob \in Job /\ NoEdit \in Edit
    BY <1>1 DEF TypeOK, NoJob, Job, Modes, Plans, NoEdit, Edit, Spot, Sources
  <1>3. FinalKeys(db) \subseteq Keys /\ RecordedKeys(db) \subseteq Keys
    BY <1>2, KeysTyped
  <1>4. CASE Upload
    <2>1. PICK list \in Uploads, mode \in Modes \ {"none"}, known \in SUBSET Keys :
            Start(Loop, mode, list, known)
      BY <1>3, <1>4 DEF Upload, Modes
    <2>2. PICK j \in Job : Run(Loop, j) /\ j.mode = mode /\ j.plan = "none"
      BY <1>1, <2>1, StartEffect
    <2> QED BY <1>1, <1>4, <2>1, <2>2, ReaderType DEF Upload
  <1>5. CASE MainStart
    BY <1>1, <1>5, MainEffect, WriterType
  <1>6. CASE Clear
    <2>1. [db EXCEPT !.rows = {}] \in Database
      BY <1>2, RowsEffect
    <2> QED BY <1>1, <1>6, <2>1, AtOnceType DEF Clear, TypeOK
  <1>7. ASSUME NEW t \in Threads, SyncStart(t) PROVE TypeInv'
    <2>1. PICK j \in Job : Run(t, j) /\ j.mode = "sync" /\ j.plan = "none"
      BY <1>1, <1>3, <1>7, StartEffect DEF SyncStart, Modes
    <2> QED BY <1>7, <2>1, ReaderType DEF SyncStart
  <1>8. ASSUME NEW t \in Threads, Look(t) PROVE TypeInv'
    <2>1. PICK j \in Job :
            /\ Run(t, j) /\ UNCHANGED <<db, tx, writer, edit>>
            /\ job[t].todo # <<>> /\ job[t].mode # "none" /\ j.mode = job[t].mode
            /\ j.plan = "none" \/ j.todo = job[t].todo
      BY <1>1, <1>8, LookEffect
    <2> QED BY <2>1, ReaderType
  <1>9. ASSUME NEW t \in Threads, WriteRecord(t) PROVE TypeInv'
    <2>1. PICK u \in Database :
            /\ Write(t, u) /\ UNCHANGED edit /\ Run(t, Moved(t))
            /\ job[t].todo # <<>> /\ job[t].mode # "none"
      BY <1>9, RecordEffect
    <2> QED BY <1>1, <2>1, MovedType, WriterType
  <1>10. ASSUME NEW t \in Threads, LoadWorkbook(t) PROVE TypeInv'
    <2>1. PICK u \in Database :
            /\ Write(t, u) /\ UNCHANGED edit /\ Run(t, Moved(t))
            /\ job[t].todo # <<>> /\ job[t].mode # "none"
      BY <1>10, LoadEffect
    <2> QED BY <1>1, <2>1, MovedType, WriterType
  <1>11. ASSUME NEW t \in Threads, Commit(t) \/ GiveUp(t) PROVE TypeInv'
    <2>1. /\ job' = [job EXCEPT ![t] = NoJob] /\ edit' = edit
          /\ db' \in {db, tx} /\ tx' \in {db, tx}
          /\ writer' = IF writer = t THEN NoThread ELSE writer
          /\ writer = t => tx' = db'
          /\ writer # t => db' = db /\ tx' = tx
      BY <1>11 DEF Commit, GiveUp, Run, Seen
    <2>2. TypeOK'
      BY <1>1, <1>2, <2>1 DEF TypeOK
    <2>3. \A u \in Threads : job'[u] = IF u = t THEN NoJob ELSE job[u]
      BY <1>1, <2>1 DEF TypeOK
    <2>4. NoJob.plan = "none"
      BY DEF NoJob
    <2>5. JobsHold'
      BY <1>1, <2>1, <2>3, <2>4 DEF JobsHold
    <2> QED BY <2>2, <2>5 DEF TypeInv
  <1>12. ASSUME NEW t \in Pool, AllowRetry(t) PROVE TypeInv'
    <2>1. PICK n \in Ids(db) : WriteAtOnce([db EXCEPT !.files[n].status = "pending"])
      BY <1>12 DEF AllowRetry
    <2>2. "pending" \in Statuses
      BY DEF Statuses
    <2>3. [db EXCEPT !.files[n].status = "pending"] \in Database
      BY <1>1, <2>2, RetryType
    <2> QED BY <1>1, <1>12, <2>1, <2>3, AtOnceType DEF AllowRetry, TypeOK
  <1>13. ASSUME NEW t \in Pool, EditRead(t) PROVE TypeInv'
    <2>1. PICK n \in Ids(db) :
            edit' = [edit EXCEPT ![t] =
                       [id |-> n, old |-> [src    |-> db.files[n].src,
                                           region |-> db.files[n].region,
                                           file   |-> db.files[n].file]]]
      BY <1>13 DEF EditRead
    <2>2. n \in Nat /\ db.files[n] \in Record
      BY <1>2, IdRecord
    <2>3. [id |-> n, old |-> [src    |-> db.files[n].src,
                              region |-> db.files[n].region,
                              file   |-> db.files[n].file]] \in Edit
      BY <2>2 DEF Record, Spot, Edit
    <2>4. edit' \in [Threads -> Edit]
      BY <1>1, <2>1, <2>3 DEF TypeOK
    <2>5. UNCHANGED <<db, tx, writer, job>>
      BY <1>13 DEF EditRead
    <2> QED BY <1>1, <2>4, <2>5 DEF TypeInv, TypeOK, JobsHold
  <1>14. ASSUME NEW t \in Pool, EditWrite(t) PROVE TypeInv'
    <2>1. t \in Threads
      BY DEF Threads
    <2>2. PICK d \in Database :
            /\ WriteAtOnce(d) /\ UNCHANGED job
            /\ edit' = [edit EXCEPT ![t] = NoEdit]
      BY <1>1, <1>14, <2>1, EditEffect
    <2>3. edit' \in [Threads -> Edit]
      BY <1>1, <1>2, <2>2 DEF TypeOK
    <2> QED BY <2>2, <2>3, AtOnceType
  <1>15. ASSUME NEW t \in Pool, EditGiveUp(t) PROVE TypeInv'
    BY <1>1, <1>2, <1>15 DEF EditGiveUp, TypeInv, TypeOK, JobsHold
  <1>16. CASE UNCHANGED vars
    BY <1>16 DEF vars, TypeInv, TypeOK, JobsHold
  <1> QED BY <1>4, <1>5, <1>6, <1>7, <1>8, <1>9, <1>10, <1>11, <1>12, <1>13, <1>14,
             <1>15, <1>16 DEF Next

(* The database, the working copy of the running transaction, and what each
   handler holds keep their types, for any archives and any number of threads. *)
THEOREM TypeCorrect == Spec => []TypeOK
  <1>1. TypeInv => TypeOK
    BY DEF TypeInv
  <1> QED BY TypeStart, TypeStep, <1>1, PTL DEF Spec

--------------------------------------------------------------------------------
(* Only workbooks that are new to the catalog are loaded                        *)

RowKeys(R) == {KeyOf[s.file] : s \in R}

Once(R) ==
  \A s1, s2 \in R :
     s1.src = "zip" /\ s2.src = "zip" /\ KeyOf[s1.file] = KeyOf[s2.file] => s1 = s2

(* Only the loop imports, and only an import loads a workbook, after noting its key. *)
JobOk(t, j) ==
  /\ j.mode \in {"import", "log", "legacy", "main"} => t = Loop
  /\ j.plan = "load" => j.mode = "import" /\ KeyOf[j.todo[1].file] \in j.seen

(* With R the rows the loop sees, its import j knows or has met the keys of all
   of them, and is about to load a workbook of none of them. *)
View(j, R) ==
  /\ j.mode = "import" => RowKeys(R) \subseteq j.known \cup j.seen
  /\ j.plan = "load" => KeyOf[j.todo[1].file] \notin RowKeys(R)

OnceInv ==
  /\ TypeInv
  /\ \A t \in Threads : JobOk(t, job[t])
  /\ writer \in Pool => tx.rows = db.rows
  /\ Once(db.rows) /\ Once(tx.rows)
  /\ View(job[Loop], Seen(Loop).rows)

LEMMA OnceStart == Init => OnceInv
  BY TypeStart DEF Init, OnceInv, Once, JobOk, View, NoJob, Threads, Seen

LEMMA QuietJob ==
  ASSUME NEW j, j.mode \in {"none", "sync"}, j.plan = "none"
  PROVE  \A t, R : JobOk(t, j) /\ View(j, R)
  BY DEF JobOk, View

LEMMA FewerRows ==
  ASSUME NEW R, NEW Q, \A s \in Q : s.src = "main" \/ s \in R
  PROVE  Once(R) => Once(Q)
  BY DEF Once

LEMMA OneMore ==
  ASSUME NEW R, NEW Q, NEW q, Q \subseteq R \cup {q}, KeyOf[q.file] \notin RowKeys(R),
         Once(R)
  PROVE  Once(Q) /\ RowKeys(Q) \subseteq RowKeys(R) \cup {KeyOf[q.file]}
  BY DEF Once, RowKeys

LEMMA MovedRegion ==
  ASSUME NEW R \in SUBSET Spot, NEW old \in Spot, NEW r \in Regions, Once(R),
         NEW Q, Q = IF old \in R THEN (R \ {old}) \cup {[old EXCEPT !.region = r]}
                    ELSE R
  PROVE  Once(Q) /\ RowKeys(Q) \subseteq RowKeys(R)
  <1> DEFINE new == [old EXCEPT !.region = r]
  <1>1. new.src = old.src /\ new.file = old.file
    BY DEF Spot
  <1> HIDE DEF new
  <1>2. CASE old \in R
    <2>1. Q = (R \ {old}) \cup {new}
      BY <1>2 DEF new
    <2> QED BY <1>1, <1>2, <2>1 DEF Once, RowKeys
  <1>3. CASE old \notin R
    BY <1>3 DEF Once, RowKeys
  <1> QED BY <1>2, <1>3

(* The parts of the invariant after a step of thread t, whose job becomes j. *)
LEMMA OnceAfter ==
  ASSUME OnceInv, TypeInv', NEW t \in Threads, NEW j, Run(t, j),
         JobOk(t, j), t = Loop => View(j, Seen(Loop)'.rows),
         t # Loop => Seen(Loop)'.rows = Seen(Loop).rows,
         (writer \in Pool => tx.rows = db.rows)', Once(db'.rows), Once(tx'.rows)
  PROVE  OnceInv'
  <1>1. \A u \in Threads : job'[u] = IF u = t THEN j ELSE job[u]
    BY DEF Run, OnceInv, TypeInv, TypeOK
  <1>2. \A u \in Threads : JobOk(u, job'[u])
    BY <1>1 DEF OnceInv
  <1>3. View(job'[Loop], Seen(Loop)'.rows)
    BY <1>1 DEF OnceInv, Threads
  <1> QED BY <1>2, <1>3 DEF OnceInv, Once, JobOk, View, RowKeys

(* The same after a commit of d that changes no job. *)
LEMMA OnceAfterAtOnce ==
  ASSUME OnceInv, TypeInv', NEW d, WriteAtOnce(d), UNCHANGED job,
         Once(d.rows), RowKeys(d.rows) \subseteq RowKeys(db.rows)
  PROVE  OnceInv'
  <1>1. /\ writer = NoThread /\ writer' = NoThread /\ db' = d /\ tx' = d
        /\ job' = job
    BY DEF WriteAtOnce
  <1>2. Seen(Loop).rows = db.rows /\ Seen(Loop)'.rows = d.rows
    BY <1>1 DEF Seen, Threads
  <1>3. View(job[Loop], d.rows)
    BY <1>2 DEF OnceInv, View
  <1>4. NoThread \notin Pool
    BY DEF Threads
  <1> QED BY <1>1, <1>2, <1>3, <1>4 DEF OnceInv, Once, JobOk, View, RowKeys

LEMMA OnceStep == OnceInv /\ [Next]_vars => OnceInv'
  <1> SUFFICES ASSUME OnceInv, [Next]_vars PROVE OnceInv'
    OBVIOUS
  <1>1. TypeInv /\ TypeInv' /\ TypeOK /\ Loop \in Threads /\ NoThread \notin Pool
    BY TypeStep DEF OnceInv, TypeInv, Threads
  <1>2. db \in Database /\ db.rows \in SUBSET Spot
    BY <1>1 DEF TypeOK, Database
  <1>3. /\ FinalKeys(db) \subseteq Keys /\ RecordedKeys(db) \subseteq Keys
        /\ RowKeys(db.rows) \subseteq FinalKeys(db)
    BY <1>2, KeysTyped DEF RowKeys
  <1>4. job[Loop].mode = "none" => writer # Loop /\ Seen(Loop) = db
    BY <1>1 DEF TypeInv, JobsHold, Seen
  <1>5. CASE Upload
    <2>1. PICK list \in Uploads, mode \in Modes, known \in SUBSET Keys :
            /\ Start(Loop, mode, list, known)
            /\ mode = "import" => known = FinalKeys(db)
      BY <1>3, <1>5 DEF Upload, Modes
    <2>2. PICK j \in Job : /\ Run(Loop, j) /\ job[Loop].mode = "none"
                           /\ j.mode = mode /\ j.known = known /\ j.plan = "none"
      BY <1>1, <2>1, StartEffect
    <2>3. UNCHANGED <<db, tx, writer>> /\ Seen(Loop)' = db
      BY <1>4, <1>5, <2>2 DEF Upload, Seen
    <2>4. JobOk(Loop, j) /\ View(j, db.rows)
      BY <1>3, <2>1, <2>2 DEF JobOk, View
    <2> QED BY <1>1, <2>2, <2>3, <2>4, OnceAfter DEF OnceInv
  <1>6. CASE MainStart
    <2>1. PICK u \in Database, j \in Job :
            /\ Write(Loop, u) /\ Run(Loop, j)
            /\ j.mode = "main" /\ j.plan = "none"
            /\ \A s \in u.rows : s.src = "main" \/ s \in db.rows
      BY <1>1, <1>6, MainEffect
    <2>2. writer' = Loop /\ tx' = u /\ db' = db
      BY <2>1 DEF Write
    <2>3. Once(u.rows) /\ JobOk(Loop, j) /\ View(j, u.rows)
      BY <2>1, FewerRows DEF OnceInv, JobOk, View
    <2>4. Seen(Loop)'.rows = u.rows
      BY <2>2 DEF Seen
    <2> QED BY <1>1, <2>1, <2>2, <2>3, <2>4, OnceAfter DEF OnceInv
  <1>7. CASE Clear
    <2>1. [db EXCEPT !.rows = {}].rows = {}
      BY <1>2, RowsEffect
    <2>2. Once({}) /\ RowKeys({}) = {}
      BY DEF Once, RowKeys
    <2> QED BY <1>1, <1>7, <2>1, <2>2, OnceAfterAtOnce DEF Clear
  <1>8. ASSUME NEW t \in Threads, SyncStart(t) PROVE OnceInv'
    <2>1. PICK j \in Job : Run(t, j) /\ j.mode = "sync" /\ j.plan = "none"
      BY <1>1, <1>3, <1>8, StartEffect DEF SyncStart, Modes
    <2>2. UNCHANGED <<db, tx, writer>> /\ Seen(Loop)' = Seen(Loop)
      BY <1>8 DEF SyncStart, Seen
    <2>3. \A R : JobOk(t, j) /\ View(j, R)
      BY <2>1, QuietJob, SMTT(30)
    <2> QED BY <1>1, <2>1, <2>2, <2>3, OnceAfter DEF OnceInv
  <1>9. ASSUME NEW t \in Threads, Look(t) PROVE OnceInv'
    <2>1. PICK j \in Job :
            /\ Run(t, j) /\ UNCHANGED <<db, tx, writer, edit>>
            /\ job[t].todo # <<>> /\ job[t].mode # "none"
            /\ j.mode = job[t].mode /\ j.known = job[t].known
            /\ j.seen = job[t].seen \cup {Key1(t)}
            /\ \/ j.plan = "none" /\ j.todo = Tail(job[t].todo)
               \/ /\ j.plan # "none" /\ j.todo = job[t].todo
                  /\ j.plan = "load" => j.mode = "import"
                  /\ j.plan \in {"load", "pending"} =>
                       /\ Key1(t) \notin job[t].known /\ j.mode \in {"import", "log"}
                       /\ j.plan = "load" => Key1(t) \notin job[t].seen
      BY <1>1, <1>9, LookEffect
    <2>2. Seen(Loop)' = Seen(Loop)
      BY <2>1 DEF Seen
    <2>3. j.plan = "load" => KeyOf[j.todo[1].file] = Key1(t)
      BY <2>1 DEF Key1, Head1
    <2>4. JobOk(t, j)
      BY <2>1, <2>3 DEF OnceInv, JobOk
    <2>5. t = Loop => View(j, Seen(Loop).rows)
      BY <2>1, <2>3 DEF OnceInv, View
    <2> QED BY <1>1, <2>1, <2>2, <2>4, <2>5, OnceAfter DEF OnceInv
  <1>10. ASSUME NEW t \in Threads, WriteRecord(t) PROVE OnceInv'
    <2>1. PICK u \in Database :
            /\ Write(t, u) /\ job[t].todo # <<>> /\ Run(t, Moved(t))
            /\ u.rows = Seen(t).rows
      BY <1>1, <1>10, RecordEffect
    <2>2. writer' = t /\ tx' = u /\ db' = db /\ writer \in {NoThread, t}
      BY <2>1 DEF Write
    <2>3. /\ Moved(t).plan = "none" /\ Moved(t).mode = job[t].mode
          /\ Moved(t).known = job[t].known /\ Moved(t).seen = job[t].seen
      BY <1>1, <2>1, MovedType
    <2>4. JobOk(t, Moved(t))
      BY <2>3 DEF OnceInv, JobOk
    <2>5. Once(u.rows)
      BY <2>1 DEF OnceInv, Seen
    <2>6. CASE t = Loop
      <3>1. Seen(Loop)'.rows = Seen(Loop).rows
        BY <2>1, <2>2, <2>6 DEF Seen
      <3>2. View(Moved(t), Seen(Loop)'.rows)
        BY <2>3, <2>6, <3>1 DEF OnceInv, View
      <3>3. writer' \notin Pool
        BY <2>2, <2>6
      <3> QED BY <1>1, <2>1, <2>2, <2>4, <2>5, <2>6, <3>2, <3>3, OnceAfter DEF OnceInv
    <2>7. CASE t # Loop
      <3>1. Seen(Loop)' = Seen(Loop)
        BY <2>2, <2>7 DEF Seen, Threads
      <3>2. tx'.rows = db'.rows
        BY <2>1, <2>2, <2>7 DEF OnceInv, Seen, Threads
      <3> QED BY <1>1, <2>1, <2>2, <2>4, <2>5, <2>7, <3>1, <3>2, OnceAfter DEF OnceInv
    <2> QED BY <2>6, <2>7
  <1>11. ASSUME NEW t \in Threads, LoadWorkbook(t) PROVE OnceInv'
    <2>1. PICK u \in Database, q \in Spot :
            /\ Write(t, u) /\ job[t].todo # <<>> /\ job[t].plan = "load"
            /\ Run(t, Moved(t))
            /\ q.src = "zip" /\ q.file = Head1(t).file
            /\ u.rows \subseteq Seen(t).rows \cup {q}
      BY <1>1, <1>11, LoadEffect
    <2>2. writer' = t /\ tx' = u /\ db' = db
      BY <2>1 DEF Write
    <2>3. /\ Moved(t).plan = "none" /\ Moved(t).mode = job[t].mode
          /\ Moved(t).known = job[t].known /\ Moved(t).seen = job[t].seen
      BY <1>1, <2>1, MovedType
    <2>4. t = Loop /\ job[t].mode = "import" /\ Key1(t) \in job[t].seen
      BY <2>1 DEF OnceInv, JobOk, Key1, Head1
    <2>5. /\ KeyOf[q.file] = Key1(t) /\ Key1(t) \notin RowKeys(Seen(t).rows)
          /\ RowKeys(Seen(t).rows) \subseteq job[t].known \cup job[t].seen
      BY <2>1, <2>4 DEF OnceInv, View, Key1, Head1
    <2>6. Once(Seen(t).rows)
      BY DEF OnceInv, Seen
    <2>a. KeyOf[q.file] \notin RowKeys(Seen(t).rows)
      BY <2>5
    <2>b. /\ Once(u.rows)
          /\ RowKeys(u.rows) \subseteq RowKeys(Seen(t).rows) \cup {KeyOf[q.file]}
      BY <2>1, <2>6, <2>a, OneMore
    <2>7. Once(u.rows) /\ RowKeys(u.rows) \subseteq job[t].known \cup job[t].seen
      BY <2>4, <2>5, <2>b
    <2>8. JobOk(t, Moved(t)) /\ View(Moved(t), u.rows)
      BY <2>3, <2>4, <2>7 DEF JobOk, View
    <2>9. Seen(Loop)'.rows = u.rows /\ writer' \notin Pool
      BY <2>2, <2>4 DEF Seen
    <2> QED BY <1>1, <2>1, <2>2, <2>4, <2>7, <2>8, <2>9, OnceAfter DEF OnceInv
  <1>12. ASSUME NEW t \in Threads, Commit(t) \/ GiveUp(t) PROVE OnceInv'
    <2>1. /\ Run(t, NoJob) /\ db' \in {db, tx} /\ tx' \in {db, tx}
          /\ writer' = IF writer = t THEN NoThread ELSE writer
          /\ writer # t => db' = db /\ tx' = tx
          /\ writer = t => writer' = NoThread /\ tx' = db'
      BY <1>12 DEF Commit, GiveUp, Seen
    <2>2. \A R : JobOk(t, NoJob) /\ View(NoJob, R)
      BY QuietJob DEF NoJob
    <2>3. Once(db'.rows) /\ Once(tx'.rows)
      BY <2>1 DEF OnceInv
    <2>4. (writer \in Pool => tx.rows = db.rows)'
      BY <1>1, <2>1 DEF OnceInv
    <2>5. t # Loop => Seen(Loop)'.rows = Seen(Loop).rows
      <3> SUFFICES ASSUME t # Loop PROVE Seen(Loop)'.rows = Seen(Loop).rows
        OBVIOUS
      <3>1. CASE writer = t
        <4>1. tx.rows = db.rows /\ NoThread # Loop
          BY <3>1 DEF OnceInv, Threads
        <4>2. Seen(Loop).rows = db.rows /\ Seen(Loop)'.rows = db'.rows
          BY <2>1, <3>1, <4>1 DEF Seen
        <4> QED BY <2>1, <4>1, <4>2
      <3>2. CASE writer # t
        BY <2>1, <3>2 DEF Seen
      <3> QED BY <3>1, <3>2
    <2> QED BY <1>1, <2>1, <2>2, <2>3, <2>4, <2>5, OnceAfter
  <1>13. ASSUME NEW t \in Pool, AllowRetry(t) PROVE OnceInv'
    <2>1. PICK n \in Ids(db) : WriteAtOnce([db EXCEPT !.files[n].status = "pending"])
      BY <1>13 DEF AllowRetry
    <2>2. "pending" \in Statuses
      BY DEF Statuses
    <2>3. [db EXCEPT !.files[n].status = "pending"].rows = db.rows
      BY <1>1, <2>2, RetryType
    <2> QED BY <1>1, <1>13, <2>1, <2>3, OnceAfterAtOnce DEF AllowRetry, OnceInv
  <1>14. ASSUME NEW t \in Pool, EditWrite(t) PROVE OnceInv'
    <2>1. PICK d \in Database, r \in Regions, old \in Spot :
            /\ WriteAtOnce(d) /\ UNCHANGED job
            /\ d.rows = IF old \in db.rows
                        THEN (db.rows \ {old}) \cup {[old EXCEPT !.region = r]}
                        ELSE db.rows
      BY <1>1, <1>14, EditEffect DEF Threads
    <2>2. Once(d.rows) /\ RowKeys(d.rows) \subseteq RowKeys(db.rows)
      BY <1>2, <2>1, MovedRegion DEF OnceInv
    <2> QED BY <1>1, <2>1, <2>2, OnceAfterAtOnce
  <1>15. ASSUME UNCHANGED <<db, tx, writer, job>> PROVE OnceInv'
    BY <1>1, <1>15 DEF OnceInv, Once, JobOk, View, RowKeys, Seen
  <1>16. ASSUME NEW t \in Pool, EditRead(t) \/ EditGiveUp(t) PROVE OnceInv'
    BY <1>15, <1>16 DEF EditRead, EditGiveUp
  <1>17. CASE UNCHANGED vars
    BY <1>15, <1>17 DEF vars
  <1> QED BY <1>5, <1>6, <1>7, <1>8, <1>9, <1>10, <1>11, <1>12, <1>13, <1>14, <1>16,
             <1>17 DEF Next

(* What the writer has added from archives has no other rows beside it. *)
Fresh(old, R) ==
  \A s \in R : s.src = "zip" /\ s \notin old =>
    \A r \in R : KeyOf[r.file] = KeyOf[s.file] => r = s

FreshInv == OnceInv /\ Fresh(db.rows, tx.rows)

LEMMA FreshStart == Init => FreshInv
  BY OnceStart DEF Init, FreshInv, Fresh

LEMMA FreshSame == \A R : Fresh(R, R)
  BY DEF Fresh

LEMMA FreshOneMore ==
  ASSUME NEW old, NEW R, NEW Q, NEW q, Fresh(old, R), Q \subseteq R \cup {q},
         KeyOf[q.file] \notin RowKeys(R)
  PROVE  Fresh(old, Q)
  BY DEF Fresh, RowKeys

(* What a thread sees when it may write. *)
LEMMA FreshSeen ==
  ASSUME FreshInv, NEW t \in Threads PROVE Fresh(db.rows, Seen(t).rows)
  BY FreshSame DEF FreshInv, Seen

LEMMA FreshStep == FreshInv /\ [Next]_vars => FreshInv'
  <1> SUFFICES ASSUME FreshInv, [Next]_vars PROVE Fresh(db'.rows, tx'.rows)
    BY OnceStep DEF FreshInv, Fresh
  <1>1. OnceInv /\ TypeInv /\ TypeOK /\ Loop \in Threads /\ Pool \subseteq Threads
    BY DEF FreshInv, OnceInv, TypeInv, Threads
  <1>2. CASE MainStart
    <2>1. PICK u \in Database :
            Write(Loop, u) /\ \A s \in u.rows : s.src = "main" \/ s \in db.rows
      BY <1>1, <1>2, MainEffect
    <2>2. \A s \in u.rows : s.src = "zip" => s \in db.rows
      BY <2>1
    <2>3. db' = db /\ tx' = u
      BY <2>1 DEF Write
    <2> QED BY <2>2, <2>3 DEF Fresh
  <1>3. CASE Clear
    BY <1>3, FreshSame DEF Clear, WriteAtOnce
  <1>4. ASSUME NEW t \in Threads, WriteRecord(t) PROVE Fresh(db'.rows, tx'.rows)
    <2>1. PICK u \in Database : Write(t, u) /\ u.rows = Seen(t).rows
      BY <1>1, <1>4, RecordEffect
    <2>2. Fresh(db.rows, u.rows)
      BY <2>1, FreshSeen
    <2>3. db' = db /\ tx' = u
      BY <2>1 DEF Write
    <2> QED BY <2>2, <2>3
  <1>5. ASSUME NEW t \in Threads, LoadWorkbook(t) PROVE Fresh(db'.rows, tx'.rows)
    <2>1. PICK u \in Database, q \in Spot :
            /\ Write(t, u) /\ job[t].plan = "load"
            /\ q.file = Head1(t).file /\ u.rows \subseteq Seen(t).rows \cup {q}
      BY <1>1, <1>5, LoadEffect
    <2>2. t = Loop /\ KeyOf[Head1(t).file] \notin RowKeys(Seen(t).rows)
      BY <1>1, <2>1 DEF OnceInv, JobOk, View, Head1
    <2>3. KeyOf[q.file] \notin RowKeys(Seen(t).rows)
      BY <2>1, <2>2
    <2>4. Fresh(db.rows, u.rows)
      BY <2>1, <2>3, FreshSeen, FreshOneMore
    <2>5. db' = db /\ tx' = u
      BY <2>1 DEF Write
    <2> QED BY <2>4, <2>5
  <1>6. ASSUME NEW t \in Threads, Commit(t) \/ GiveUp(t) PROVE Fresh(db'.rows, tx'.rows)
    <2>1. UNCHANGED <<db, tx>> \/ tx' = db'
      BY <1>6 DEF Commit, GiveUp, Seen
    <2> QED BY <2>1, FreshSame DEF FreshInv
  <1>7. ASSUME NEW t \in Pool, AllowRetry(t) \/ EditWrite(t)
        PROVE  Fresh(db'.rows, tx'.rows)
    <2>1. PICK d : WriteAtOnce(d)
      BY <1>7 DEF AllowRetry, EditWrite
    <2>2. tx' = db'
      BY <2>1 DEF WriteAtOnce
    <2> QED BY <2>2, FreshSame
  <1>8. ASSUME UNCHANGED <<db, tx>> PROVE Fresh(db'.rows, tx'.rows)
    BY <1>8 DEF FreshInv
  <1>9. ASSUME NEW t \in Threads, SyncStart(t) \/ Look(t) PROVE UNCHANGED <<db, tx>>
    BY <1>9 DEF SyncStart, Look
  <1>10. ASSUME NEW t \in Pool, EditRead(t) \/ EditGiveUp(t) PROVE UNCHANGED <<db, tx>>
    BY <1>10 DEF EditRead, EditGiveUp
  <1>11. CASE Upload \/ UNCHANGED vars
    BY <1>8, <1>11 DEF Upload, vars
  <1> QED BY <1>2, <1>3, <1>4, <1>5, <1>6, <1>7, <1>8, <1>9, <1>10, <1>11 DEF Next

(* One row of an archive arrives by being moved, or as the only one of its
   workbook. *)
Arrives(s) ==
  \/ \E old \in db.rows \ db'.rows : s = [old EXCEPT !.region = s.region]
  \/ \A r \in db'.rows : KeyOf[r.file] = KeyOf[s.file] => r = s

LEMMA ArrivalStep ==
  ASSUME FreshInv, [Next]_vars, NEW s \in db'.rows \ db.rows, s.src = "zip"
  PROVE  Arrives(s)
  <1>1. OnceInv /\ TypeInv /\ TypeOK /\ Pool \subseteq Threads
    BY DEF FreshInv, OnceInv, TypeInv, Threads
  <1>2. db.rows \in SUBSET Spot /\ db \in Database
    BY <1>1 DEF TypeOK, Database
  <1>3. ASSUME NEW t \in Threads, Commit(t) PROVE Arrives(s)
    <2>1. db' = tx
      BY <1>3 DEF Commit, Seen
    <2> QED BY <2>1 DEF FreshInv, Fresh, Arrives
  <1>4. ASSUME NEW t \in Pool, EditWrite(t) PROVE Arrives(s)
    <2>1. PICK d \in Database, r \in Regions, old \in Spot :
            /\ WriteAtOnce(d)
            /\ d.rows = IF old \in db.rows
                        THEN (db.rows \ {old}) \cup {[old EXCEPT !.region = r]}
                        ELSE db.rows
      BY <1>1, <1>4, EditEffect
    <2>2. db'.rows = d.rows
      BY <2>1 DEF WriteAtOnce
    <2>3. old \in db.rows /\ s = [old EXCEPT !.region = r]
      BY <2>1, <2>2
    <2>4. s.region = r /\ s = [old EXCEPT !.region = s.region]
      BY <2>3 DEF Spot
    <2>5. old \notin db'.rows
      BY <2>1, <2>2, <2>3
    <2> QED BY <2>3, <2>4, <2>5 DEF Arrives
  <1>5. CASE Clear
    <2>1. db'.rows = {}
      BY <1>2, <1>5, RowsEffect DEF Clear, WriteAtOnce
    <2> QED BY <2>1
  <1>6. ASSUME NEW t \in Pool, AllowRetry(t) PROVE db'.rows = db.rows
    <2>1. PICK n \in Ids(db) : WriteAtOnce([db EXCEPT !.files[n].status = "pending"])
      BY <1>6 DEF AllowRetry
    <2>2. "pending" \in Statuses
      BY DEF Statuses
    <2> QED BY <1>2, <2>1, <2>2, RetryType DEF WriteAtOnce
  <1>7. \/ db' = db \/ Clear
        \/ \E t \in Threads : Commit(t)
        \/ \E t \in Pool : AllowRetry(t) \/ EditWrite(t)
    BY DEF Next, Upload, MainStart, SyncStart, Look, WriteRecord, LoadWorkbook, GiveUp,
           EditRead, EditGiveUp, Write, vars
  <1> QED BY <1>3, <1>4, <1>5, <1>6, <1>7

(* Whatever folders, spellings, retries, edits, lost records and half-done failures
   came before, the rows an import brings into the catalog are the only rows of
   their workbook there, the main catalog's included. *)
THEOREM OnlyNewLoaded == Spec => LoadedOnlyIfNew
  <1>1. FreshInv /\ [Next]_vars =>
          [\A s \in db'.rows \ db.rows :
             s.src = "zip" =>
               \/ \E old \in db.rows \ db'.rows : s = [old EXCEPT !.region = s.region]
               \/ \A r \in db'.rows : KeyOf[r.file] = KeyOf[s.file] => r = s]_vars
    BY ArrivalStep DEF Arrives
  <1> QED BY FreshStart, FreshStep, <1>1, PTL DEF Spec, LoadedOnlyIfNew

--------------------------------------------------------------------------------
(* Final records stay final                                                    *)

(* A key the job's reading of the history did not contain. *)
Excused(j, file) == j.mode \in {"import", "log"} /\ KeyOf[file] \notin j.known

(* What a transaction of job j may have made of record old. *)
Kept(old, new, j) ==
  /\ new # NoRecord => new \in Record /\ new.file = old.file
  /\ old.status \in FinalStatuses =>
       \/ new # NoRecord /\ new.status \in FinalStatuses
       \/ new = NoRecord /\ old.src = "main"
       \/ Excused(j, old.file)

AllKept(files, j) ==
  /\ DOMAIN db.files \subseteq DOMAIN files
  /\ \A n \in Ids(db) : Kept(db.files[n], files[n], j)

KeptInv ==
  /\ OnceInv
  /\ \A t \in Threads :
       job[t].plan \in {"load", "pending"} => Excused(job[t], Head1(t).file)
  /\ \A t \in Threads : writer = t => AllKept(tx.files, job[t])

LEMMA KeptStart == Init => KeptInv
  BY OnceStart DEF Init, KeptInv, NoJob

LEMMA KeptSame == ASSUME TypeOK, NEW j PROVE AllKept(db.files, j)
  <1>1. \A n \in Ids(db) : n \in DOMAIN db.files /\ db.files[n] \in Record
    BY IdRecord DEF TypeOK
  <1> QED BY <1>1 DEF AllKept, Kept, Record

(* A thread that changes nothing but its job keeps what its transaction holds. *)
LEMMA KeptReader ==
  ASSUME KeptInv, OnceInv', NEW t \in Threads, NEW j, Run(t, j),
         UNCHANGED <<db, tx, writer>>,
         job[t].mode # "none" => j.mode = job[t].mode /\ j.known = job[t].known,
         j.plan \in {"load", "pending"} => Excused(j, j.todo[1].file)
  PROVE  KeptInv'
  <1>1. \A u \in Threads : job'[u] = IF u = t THEN j ELSE job[u]
    BY DEF Run, KeptInv, OnceInv, TypeInv, TypeOK
  <1>2. \A u \in Threads : Head1(u)' = job'[u].todo[1]
    BY DEF Head1
  <1>3. \A u \in Threads :
          job'[u].plan \in {"load", "pending"} => Excused(job'[u], job'[u].todo[1].file)
    BY <1>1 DEF KeptInv, Head1
  <1>4. ASSUME NEW u \in Threads, writer = u PROVE AllKept(tx.files, job'[u])
    <2>1. job[u].mode # "none" /\ AllKept(tx.files, job[u])
      BY <1>4 DEF KeptInv, OnceInv, TypeInv, JobsHold
    <2>2. job'[u].mode = job[u].mode /\ job'[u].known = job[u].known
      BY <1>1, <2>1
    <2> QED BY <2>1, <2>2 DEF AllKept, Kept, Excused
  <1> QED BY <1>2, <1>3, <1>4 DEF KeptInv, AllKept, Kept, Excused, Ids

(* A thread that writes d keeps what it has to keep. *)
LEMMA KeptWriter ==
  ASSUME KeptInv, OnceInv', NEW t \in Threads, NEW j, NEW d, Run(t, j), Write(t, d),
         j.plan = "none", AllKept(d.files, j)
  PROVE  KeptInv'
  <1>1. \A u \in Threads : job'[u] = IF u = t THEN j ELSE job[u]
    BY DEF Run, KeptInv, OnceInv, TypeInv, TypeOK
  <1>2. writer' = t /\ tx' = d /\ db' = db
    BY DEF Write
  <1>3. \A u \in Threads : u # t => Head1(u)' = Head1(u)
    BY <1>1 DEF Head1
  <1> QED BY <1>1, <1>2, <1>3 DEF KeptInv, AllKept, Kept, Excused, Ids

(* A record overwritten with a status that its job may give it stays kept. *)
LEMMA TouchedKept ==
  ASSUME TypeOK, NEW d, NEW u, NEW p, NEW S, NEW j, AllKept(d.files, j),
         Touched(d, u, p, S), S \subseteq FinalStatuses \/ Excused(j, p.file)
  PROVE  AllKept(u.files, j)
  <1>1. DOMAIN db.files \subseteq DOMAIN u.files
    BY DEF AllKept, Touched
  <1>2. ASSUME NEW n \in Ids(db) PROVE Kept(db.files[n], u.files[n], j)
    <2>1. n \in DOMAIN d.files /\ Kept(db.files[n], d.files[n], j)
      BY <1>2 DEF AllKept, Ids
    <2>2. CASE u.files[n] = d.files[n]
      BY <2>1, <2>2
    <2>3. CASE /\ n \in Ids(d) /\ d.files[n].file = p.file
               /\ u.files[n] \in Record /\ u.files[n].file = p.file
               /\ u.files[n].status \in S
      <3>1. d.files[n] # NoRecord
        BY <2>3 DEF Ids
      <3>2. db.files[n].file = p.file
        BY <2>1, <2>3, <3>1 DEF Kept
      <3>3. u.files[n].status \in FinalStatuses \/ Excused(j, db.files[n].file)
        BY <2>3, <3>2
      <3> QED BY <2>3, <3>2, <3>3 DEF Kept
    <2> QED BY <2>1, <2>2, <2>3 DEF Touched
  <1> QED BY <1>1, <1>2 DEF AllKept

LEMMA SeenKept ==
  ASSUME KeptInv, NEW t \in Threads, writer \in {NoThread, t}
  PROVE  AllKept(Seen(t).files, job[t])
  <1>1. CASE writer = t
    BY <1>1 DEF KeptInv, Seen
  <1>2. CASE writer # t
    BY <1>2, KeptSame DEF Seen, KeptInv, OnceInv, TypeInv
  <1> QED BY <1>1, <1>2

LEMMA KeptStep == KeptInv /\ [Next]_vars => KeptInv'
  <1> SUFFICES ASSUME KeptInv, [Next]_vars PROVE KeptInv'
    OBVIOUS
  <1>1. /\ OnceInv /\ OnceInv' /\ TypeInv /\ TypeOK /\ JobsHold /\ Loop \in Threads
        /\ db \in Database
    BY OnceStep DEF KeptInv, OnceInv, TypeInv, TypeOK, Threads
  <1>2. FinalKeys(db) \subseteq Keys /\ RecordedKeys(db) \subseteq Keys
    BY <1>1, KeysTyped
  <1>3. CASE Upload
    <2>1. PICK list \in Uploads, mode \in Modes, known \in SUBSET Keys :
            Start(Loop, mode, list, known)
      BY <1>2, <1>3 DEF Upload, Modes
    <2>2. PICK j \in Job : Run(Loop, j) /\ job[Loop].mode = "none" /\ j.plan = "none"
      BY <1>1, <2>1, StartEffect
    <2> QED BY <1>1, <1>3, <2>2, KeptReader DEF Upload
  <1>4. CASE MainStart
    <2>1. PICK u \in Database, j \in Job :
            /\ Write(Loop, u) /\ Run(Loop, j) /\ j.plan = "none"
            /\ DOMAIN u.files = DOMAIN db.files
            /\ \A n \in DOMAIN db.files :
                 u.files[n] = db.files[n]
                   \/ (n \in Ids(db) /\ db.files[n].src = "main" /\ u.files[n] = NoRecord)
      BY <1>1, <1>4, MainEffect
    <2>2. AllKept(db.files, j)
      BY <1>1, KeptSame
    <2>3. AllKept(u.files, j)
      BY <2>1, <2>2 DEF AllKept, Kept, Ids
    <2> QED BY <1>1, <2>1, <2>3, KeptWriter
  <1>5. ASSUME NEW t \in Threads, SyncStart(t) PROVE KeptInv'
    <2>1. PICK j \in Job : Run(t, j) /\ job[t].mode = "none" /\ j.plan = "none"
      BY <1>1, <1>2, <1>5, StartEffect DEF SyncStart, Modes
    <2> QED BY <1>1, <1>5, <2>1, KeptReader DEF SyncStart
  <1>6. ASSUME NEW t \in Threads, Look(t) PROVE KeptInv'
    <2>1. PICK j \in Job :
            /\ Run(t, j) /\ UNCHANGED <<db, tx, writer, edit>>
            /\ j.mode = job[t].mode /\ j.known = job[t].known
            /\ \/ j.plan = "none"
               \/ /\ j.todo = job[t].todo
                  /\ j.plan \in {"load", "pending"} =>
                       Key1(t) \notin job[t].known /\ j.mode \in {"import", "log"}
      BY <1>1, <1>6, LookEffect
    <2>2. j.plan \in {"load", "pending"} => Excused(j, j.todo[1].file)
      BY <2>1 DEF Excused, Key1, Head1
    <2> QED BY <1>1, <2>1, <2>2, KeptReader
  <1>7. ASSUME NEW t \in Threads, NEW u \in Database, NEW S,
               Write(t, u), job[t].todo # <<>>, Run(t, Moved(t)),
               Touched(Seen(t), u, Head1(t), S),
               S \subseteq FinalStatuses \/ Excused(job[t], Head1(t).file)
        PROVE  KeptInv'
    <2>1. AllKept(Seen(t).files, job[t])
      BY <1>7, SeenKept DEF Write
    <2>2. AllKept(u.files, job[t])
      BY <1>1, <1>7, <2>1, TouchedKept
    <2>3. /\ Moved(t).plan = "none" /\ Moved(t).mode = job[t].mode
          /\ Moved(t).known = job[t].known
      BY <1>1, <1>7, MovedType
    <2>4. AllKept(u.files, Moved(t))
      BY <2>2, <2>3 DEF AllKept, Kept, Excused
    <2> QED BY <1>1, <1>7, <2>3, <2>4, KeptWriter
  <1>8. ASSUME NEW t \in Threads, WriteRecord(t) PROVE KeptInv'
    <2>1. PICK u \in Database :
            /\ Write(t, u) /\ job[t].todo # <<>> /\ Run(t, Moved(t))
            /\ Touched(Seen(t), u, Head1(t), {job[t].plan})
      BY <1>1, <1>8, RecordEffect
    <2>2. job[t].plan \in Plans \ {"none", "load"}
      BY <1>1, <1>8, JobType DEF WriteRecord, Job
    <2>3. {job[t].plan} \subseteq FinalStatuses \/ job[t].plan = "pending"
      BY <2>2 DEF Plans, FinalStatuses, Statuses
    <2>4. {job[t].plan} \subseteq FinalStatuses \/ Excused(job[t], Head1(t).file)
      BY <2>3 DEF KeptInv
    <2> QED BY <1>7, <2>1, <2>4
  <1>9. ASSUME NEW t \in Threads, LoadWorkbook(t) PROVE KeptInv'
    <2>1. PICK u \in Database :
            /\ Write(t, u) /\ job[t].todo # <<>> /\ Run(t, Moved(t))
            /\ job[t].plan = "load"
            /\ Touched(Seen(t), u, Head1(t), Statuses)
      BY <1>1, <1>9, LoadEffect
    <2>2. Excused(job[t], Head1(t).file)
      BY <2>1 DEF KeptInv
    <2> QED BY <1>7, <2>1, <2>2
  <1>10. ASSUME NEW t \in Threads, Commit(t) \/ GiveUp(t) PROVE KeptInv'
    <2>1. /\ job' = [job EXCEPT ![t] = NoJob]
          /\ writer' = IF writer = t THEN NoThread ELSE writer
          /\ writer # t => db' = db /\ tx' = tx
      BY <1>10 DEF Commit, GiveUp, Run, Seen
    <2>2. \A u \in Threads : job'[u] = IF u = t THEN NoJob ELSE job[u]
      BY <1>1, <2>1 DEF TypeOK
    <2>3. ASSUME NEW u \in Threads, job'[u].plan \in {"load", "pending"}
          PROVE  Excused(job[u], Head1(u).file) /\ job'[u] = job[u]
      BY <2>2, <2>3 DEF KeptInv, NoJob
    <2>4. \A u \in Threads :
            (job[u].plan \in {"load", "pending"} => Excused(job[u], Head1(u).file))'
      BY <2>3 DEF Head1, Excused
    <2>5. ASSUME NEW u \in Threads, writer' = u PROVE AllKept(tx.files, job[u])'
      <3>1. writer = u /\ u # t
        BY <2>1, <2>5
      <3> QED BY <2>1, <2>2, <3>1 DEF KeptInv, AllKept, Kept, Excused, Ids
    <2> QED BY <1>1, <2>4, <2>5 DEF KeptInv
  <1>11. ASSUME UNCHANGED job, writer' = NoThread PROVE KeptInv'
    BY <1>1, <1>11 DEF KeptInv, Head1, Excused
  <1>12. ASSUME UNCHANGED <<db, tx, writer, job>> PROVE KeptInv'
    BY <1>1, <1>12 DEF KeptInv, Head1, Excused, AllKept, Kept, Ids
  <1>13. ASSUME NEW t \in Pool, AllowRetry(t) \/ EditWrite(t) PROVE KeptInv'
    BY <1>11, <1>13 DEF AllowRetry, EditWrite, WriteAtOnce
  <1>14. CASE Clear
    BY <1>11, <1>14 DEF Clear, WriteAtOnce
  <1>15. ASSUME NEW t \in Pool, EditRead(t) \/ EditGiveUp(t) PROVE KeptInv'
    BY <1>12, <1>15 DEF EditRead, EditGiveUp
  <1>16. CASE UNCHANGED vars
    BY <1>12, <1>16 DEF vars
  <1> QED BY <1>3, <1>4, <1>5, <1>6, <1>8, <1>9, <1>10, <1>13, <1>14, <1>15, <1>16
             DEF Next

(* The two outcomes of a step for a final record. *)
MayBecome(old, new) ==
  \/ new # NoRecord /\ KeyOf[new.file] = KeyOf[old.file]
                    /\ new.status \in FinalStatuses
  \/ new # NoRecord /\ old.status = "no_data" /\ new.status = "pending"
  \/ new = NoRecord /\ old.src = "main"
  \/ /\ job[Loop].mode \in {"import", "log"}
     /\ KeyOf[old.file] \notin job[Loop].known

LEMMA FinalStep ==
  ASSUME KeptInv, [Next]_vars, NEW n \in Ids(db),
         db.files[n].status \in FinalStatuses
  PROVE  MayBecome(db.files[n], db'.files[n])
  <1>1. OnceInv /\ TypeOK /\ Loop \in Threads /\ db \in Database
    BY DEF KeptInv, OnceInv, TypeInv, TypeOK, Threads
  <1>2. n \in DOMAIN db.files /\ db.files[n] \in Record /\ db.files[n] # NoRecord
    BY <1>1, IdRecord DEF Ids
  <1>3. CASE db'.files[n] = db.files[n]
    BY <1>2, <1>3 DEF MayBecome
  <1>4. ASSUME NEW t \in Threads, Commit(t)
        PROVE  MayBecome(db.files[n], db'.files[n])
    <2>1. CASE writer # t
      BY <1>3, <1>4, <2>1 DEF Commit, Seen
    <2>2. CASE writer = t
      <3>1. db' = tx
        BY <1>4, <2>2 DEF Commit, Seen
      <3>2. Kept(db.files[n], tx.files[n], job[t])
        BY <2>2 DEF KeptInv, AllKept
      <3>3. Excused(job[t], db.files[n].file) => t = Loop
        BY <1>1 DEF Excused, OnceInv, JobOk
      <3> QED BY <3>1, <3>2, <3>3 DEF Kept, Excused, MayBecome
    <2> QED BY <2>1, <2>2
  <1>5. ASSUME NEW t \in Pool, AllowRetry(t)
        PROVE  MayBecome(db.files[n], db'.files[n])
    <2>1. PICK m \in Ids(db) :
            /\ db.files[m].status \in Retriable
            /\ WriteAtOnce([db EXCEPT !.files[m].status = "pending"])
      BY <1>5 DEF AllowRetry
    <2> DEFINE d == [db EXCEPT !.files[m].status = "pending"]
    <2>2. "pending" \in Statuses
      BY DEF Statuses
    <2>3. /\ d.files[m] = [db.files[m] EXCEPT !.status = "pending"]
          /\ \A k \in DOMAIN db.files : k # m => d.files[k] = db.files[k]
          /\ d \in Database
      BY <1>1, <2>2, RetryType
    <2>4. db' = d
      BY <2>1 DEF WriteAtOnce
    <2> HIDE DEF d
    <2>5. CASE m # n
      BY <1>2, <1>3, <2>3, <2>4, <2>5
    <2>6. CASE m = n
      <3>1. db.files[n].status = "no_data"
        BY <2>1, <2>6 DEF Retriable, FinalStatuses
      <3>2. db'.files[n] = [db.files[n] EXCEPT !.status = "pending"]
        BY <2>3, <2>4, <2>6
      <3>3. db'.files[n] \in Record /\ db'.files[n].status = "pending"
        BY <1>2, <3>2 DEF Record, Statuses
      <3> QED BY <3>1, <3>3 DEF MayBecome
    <2> QED BY <2>5, <2>6
  <1>6. ASSUME NEW t \in Pool, EditWrite(t)
        PROVE  MayBecome(db.files[n], db'.files[n])
    <2>a. t \in Threads
      BY DEF Threads
    <2>1. PICK d \in Database, m \in Ids(db), r \in Regions, old \in Spot :
            /\ WriteAtOnce(d) /\ UNCHANGED job
            /\ edit' = [edit EXCEPT ![t] = NoEdit]
            /\ DOMAIN d.files = DOMAIN db.files
            /\ d.files[m] = [db.files[m] EXCEPT !.region = r]
            /\ \A k \in DOMAIN db.files : k # m => d.files[k] = db.files[k]
            /\ d.rows = IF old \in db.rows
                        THEN (db.rows \ {old}) \cup {[old EXCEPT !.region = r]}
                        ELSE db.rows
      BY <1>1, <1>6, <2>a, EditEffect
    <2>2. db' = d
      BY <2>1 DEF WriteAtOnce
    <2>3. CASE m # n
      BY <1>2, <1>3, <2>1, <2>2, <2>3
    <2>4. CASE m = n
      <3>1. db'.files[n] = [db.files[n] EXCEPT !.region = r]
        BY <2>1, <2>2, <2>4
      <3>2. /\ db'.files[n] \in Record /\ db'.files[n].file = db.files[n].file
            /\ db'.files[n].status = db.files[n].status
        BY <1>2, <3>1 DEF Record
      <3> QED BY <3>2 DEF MayBecome
    <2> QED BY <2>3, <2>4
  <1>7. CASE Clear
    <2>1. [db EXCEPT !.rows = {}].files = db.files
      BY <1>1, RowsEffect
    <2> QED BY <1>3, <1>7, <2>1 DEF Clear, WriteAtOnce
  <1>8. CASE db' = db
    BY <1>3, <1>8
  <1>9. \/ db' = db \/ Clear
        \/ \E t \in Threads : Commit(t)
        \/ \E t \in Pool : AllowRetry(t) \/ EditWrite(t)
    BY DEF Next, Upload, MainStart, SyncStart, Look, WriteRecord, LoadWorkbook, GiveUp,
           EditRead, EditGiveUp, Write, vars
  <1> QED BY <1>4, <1>5, <1>6, <1>7, <1>8, <1>9

(* A final record stays final, except for what a retry, a new main catalog or a
   record younger than the running import's reading of the history allows. *)
THEOREM FinalStays == Spec => FinalKept
  <1>1. KeptInv /\ [Next]_vars =>
          [\A n \in Ids(db) :
             LET old == db.files[n]
                 new == db'.files[n]
             IN  old.status \in FinalStatuses =>
                   \/ new # NoRecord /\ KeyOf[new.file] = KeyOf[old.file]
                                     /\ new.status \in FinalStatuses
                   \/ new # NoRecord /\ old.status = "no_data" /\ new.status = "pending"
                   \/ new = NoRecord /\ old.src = "main"
                   \/ /\ job[Loop].mode \in {"import", "log"}
                      /\ KeyOf[old.file] \notin job[Loop].known]_vars
    BY FinalStep DEF MayBecome
  <1> QED BY KeptStart, KeptStep, <1>1, PTL DEF Spec, FinalKept

--------------------------------------------------------------------------------
(* The catalog is a shelf of workbooks                                         *)

(* A transaction that writes takes no workbook of an archive from the catalog. *)
Grows == \A s \in db.rows : s.src = "zip" => s \in tx.rows

ShelfInv == OnceInv /\ Grows

LEMMA ShelfStart == Init => ShelfInv
  BY OnceStart DEF Init, ShelfInv, Grows

(* What thread t sees grows with the transaction, whoever has the lock. *)
LEMMA SeenGrows ==
  ASSUME ShelfInv, NEW t \in Threads
  PROVE  \A s \in db.rows : s.src = "zip" => s \in Seen(t).rows
  BY DEF ShelfInv, Grows, Seen

LEMMA ShelfStep == ShelfInv /\ [Next]_vars => ShelfInv'
  <1> SUFFICES ASSUME ShelfInv, [Next]_vars PROVE Grows'
    BY OnceStep DEF ShelfInv
  <1>1. OnceInv /\ TypeInv /\ TypeOK /\ Loop \in Threads /\ Pool \subseteq Threads
    BY DEF ShelfInv, OnceInv, TypeInv, Threads
  <1>2. CASE MainStart
    <2>1. PICK u \in Database :
            Write(Loop, u) /\ \A s \in db.rows : s.src # "main" => s \in u.rows
      BY <1>1, <1>2, MainEffect
    <2> QED BY <2>1 DEF Write, Grows
  <1>3. CASE Clear
    BY <1>3 DEF Clear, WriteAtOnce, Grows
  <1>4. ASSUME NEW t \in Threads, WriteRecord(t) PROVE Grows'
    <2>1. PICK u \in Database : Write(t, u) /\ u.rows = Seen(t).rows
      BY <1>1, <1>4, RecordEffect
    <2> QED BY <2>1, SeenGrows DEF Write, Grows
  <1>5. ASSUME NEW t \in Threads, LoadWorkbook(t) PROVE Grows'
    <2>1. PICK u \in Database :
            /\ Write(t, u) /\ job[t].plan = "load"
            /\ \A s \in Seen(t).rows : s.file # Head1(t).file => s \in u.rows
      BY <1>1, <1>5, LoadEffect
    <2>2. t = Loop /\ KeyOf[Head1(t).file] \notin RowKeys(Seen(t).rows)
      BY <1>1, <2>1 DEF OnceInv, JobOk, View, Head1
    <2>3. \A s \in db.rows : s.src = "zip" => s \in u.rows
      BY <2>1, <2>2, SeenGrows DEF RowKeys
    <2> QED BY <2>1, <2>3 DEF Write, Grows
  <1>6. ASSUME NEW t \in Threads, Commit(t) \/ GiveUp(t) PROVE Grows'
    <2>1. \/ UNCHANGED <<db, tx>> \/ tx' = db' \/ (db' = db /\ writer # t)
      BY <1>6 DEF Commit, GiveUp, Seen
    <2>2. writer # t => UNCHANGED <<db, tx>>
      BY <1>6 DEF Commit, GiveUp, Seen
    <2> QED BY <2>1, <2>2 DEF ShelfInv, Grows
  <1>7. ASSUME NEW t \in Pool, AllowRetry(t) \/ EditWrite(t) PROVE Grows'
    BY <1>7 DEF AllowRetry, EditWrite, WriteAtOnce, Grows
  <1>8. ASSUME UNCHANGED <<db, tx>> PROVE Grows'
    BY <1>8 DEF ShelfInv, Grows
  <1>9. ASSUME NEW t \in Threads, SyncStart(t) \/ Look(t) PROVE UNCHANGED <<db, tx>>
    BY <1>9 DEF SyncStart, Look
  <1>10. ASSUME NEW t \in Pool, EditRead(t) \/ EditGiveUp(t) PROVE UNCHANGED <<db, tx>>
    BY <1>10 DEF EditRead, EditGiveUp
  <1>11. CASE Upload \/ UNCHANGED vars
    BY <1>8, <1>11 DEF Upload, vars
  <1> QED BY <1>2, <1>3, <1>4, <1>5, <1>6, <1>7, <1>8, <1>9, <1>10, <1>11 DEF Next

LEMMA ShelfTyped ==
  ASSUME NEW R \in SUBSET Spot PROVE ZipShelf(R) \subseteq Shelf!Workbook
  BY DEF ZipShelf, Spot, Shelf!Workbook

LEMMA OnceIsDistinct ==
  ASSUME NEW R \in SUBSET Spot, Once(R) PROVE Shelf!Distinct(ZipShelf(R))
  <1> SUFFICES ASSUME NEW b1 \in ZipShelf(R), NEW b2 \in ZipShelf(R),
                      KeyOf[b1.file] = KeyOf[b2.file]
               PROVE  b1 = b2
    BY DEF Shelf!Distinct
  <1>1. PICK s1 \in R : s1.src = "zip" /\ b1 = [region |-> s1.region, file |-> s1.file]
    BY DEF ZipShelf
  <1>2. PICK s2 \in R : s2.src = "zip" /\ b2 = [region |-> s2.region, file |-> s2.file]
    BY DEF ZipShelf
  <1>3. KeyOf[s1.file] = KeyOf[s2.file]
    BY <1>1, <1>2
  <1> QED BY <1>1, <1>2, <1>3 DEF Once

Relocated(S, x, r) == (S \ {x}) \cup {[x EXCEPT !.region = r]}

(* Moving the rows of a spot is moving its workbook, if an archive brought it. *)
LEMMA ShelfMoved ==
  ASSUME NEW R \in SUBSET Spot, NEW old \in R, NEW r \in Regions
  PROVE  \/ ZipShelf(Relocated(R, old, r)) = ZipShelf(R)
         \/ \E b \in ZipShelf(R) :
              ZipShelf(Relocated(R, old, r)) = Relocated(ZipShelf(R), b, r)
  <1> DEFINE new == [old EXCEPT !.region = r]
             b   == [region |-> old.region, file |-> old.file]
             c   == [region |-> r, file |-> old.file]
             Q   == Relocated(R, old, r)
  <1>1. new.src = old.src /\ new.file = old.file /\ new.region = r
    BY DEF Spot
  <1>2. c = [b EXCEPT !.region = r]
    OBVIOUS
  <1>3. Q = (R \ {old}) \cup {new}
    BY DEF Relocated
  <1>4. \A s \in R : s.src = "zip" /\ old.src = "zip" /\ s.region = old.region
                      /\ s.file = old.file => s = old
    BY DEF Spot
  <1> HIDE DEF new, Q
  <1>5. CASE old.src # "zip"
    <2>1. {q \in Q : q.src = "zip"} = {q \in R : q.src = "zip"}
      BY <1>1, <1>3, <1>5
    <2>2. ZipShelf(Q) = ZipShelf(R)
      BY <2>1 DEF ZipShelf
    <2> QED BY <2>2 DEF Q
  <1>6. CASE old.src = "zip"
    <2>1. {q \in Q : q.src = "zip"} = ({q \in R : q.src = "zip"} \ {old}) \cup {new}
      BY <1>1, <1>3, <1>6
    <2>2. b \in ZipShelf(R)
      BY <1>6 DEF ZipShelf
    <2>3. ASSUME NEW x PROVE x \in ZipShelf(Q) <=> x \in (ZipShelf(R) \ {b}) \cup {c}
      <3>1. x \in ZipShelf(Q) <=>
              \/ x = c
              \/ \E s \in R : /\ s.src = "zip" /\ s # old
                              /\ x = [region |-> s.region, file |-> s.file]
        BY <1>1, <2>1 DEF ZipShelf
      <3>2. x \in ZipShelf(R) /\ x # b <=>
              \E s \in R : /\ s.src = "zip" /\ s # old
                           /\ x = [region |-> s.region, file |-> s.file]
        BY <1>4, <1>6 DEF ZipShelf
      <3> QED BY <3>1, <3>2
    <2>4. ZipShelf(Q) = (ZipShelf(R) \ {b}) \cup {c}
      <3> HIDE DEF b, c
      <3> QED BY <2>3
    <2>5. ZipShelf(Q) = Relocated(ZipShelf(R), b, r)
      BY <1>2, <2>4 DEF Relocated
    <2> HIDE DEF b
    <2> QED BY <2>2, <2>5 DEF Q
  <1> QED BY <1>5, <1>6 DEF Q

LEMMA StepKeepsShelf ==
  ShelfInv /\ [Next]_vars => [Shelf!Next]_(ZipShelf(db.rows))
  <1> SUFFICES ASSUME ShelfInv, [Next]_vars
               PROVE  [Shelf!Next]_(ZipShelf(db.rows))
    OBVIOUS
  <1>1. OnceInv /\ TypeInv /\ TypeOK /\ Pool \subseteq Threads
    BY DEF ShelfInv, OnceInv, TypeInv, Threads
  <1>2. db.rows \in SUBSET Spot /\ tx.rows \in SUBSET Spot /\ db \in Database
    BY <1>1 DEF TypeOK, Database
  <1>3. CASE db'.rows = db.rows
    BY <1>3
  <1>4. ASSUME NEW t \in Threads, Commit(t)
        PROVE  [Shelf!Next]_(ZipShelf(db.rows))
    <2>1. CASE writer # t
      BY <1>3, <1>4, <2>1 DEF Commit, Seen
    <2>2. CASE writer = t
      <3>1. db' = tx
        BY <1>4, <2>2 DEF Commit, Seen
      <3>2. ZipShelf(db.rows) \subseteq ZipShelf(tx.rows)
        BY DEF ShelfInv, Grows, ZipShelf
      <3>3. Shelf!Distinct(ZipShelf(tx.rows)) /\ ZipShelf(tx.rows) \subseteq Shelf!Workbook
        BY <1>1, <1>2, OnceIsDistinct, ShelfTyped DEF OnceInv
      <3>4. Shelf!Receive
        BY <3>1, <3>2, <3>3 DEF Shelf!Receive, Shelf!Distinct
      <3> QED BY <3>4 DEF Shelf!Next
    <2> QED BY <2>1, <2>2
  <1>5. ASSUME NEW t \in Pool, EditWrite(t)
        PROVE  [Shelf!Next]_(ZipShelf(db.rows))
    <2>1. PICK d \in Database, r \in Regions, old \in Spot :
            /\ WriteAtOnce(d)
            /\ d.rows = IF old \in db.rows
                        THEN (db.rows \ {old}) \cup {[old EXCEPT !.region = r]}
                        ELSE db.rows
      BY <1>1, <1>5, EditEffect
    <2>2. db' = d
      BY <2>1 DEF WriteAtOnce
    <2>3. CASE old \notin db.rows
      BY <1>3, <2>1, <2>2, <2>3
    <2>4. CASE old \in db.rows
      <3>1. db'.rows = Relocated(db.rows, old, r)
        BY <2>1, <2>2, <2>4 DEF Relocated
      <3>2. \/ ZipShelf(db'.rows) = ZipShelf(db.rows)
            \/ \E b \in ZipShelf(db.rows) :
                 ZipShelf(db'.rows) = Relocated(ZipShelf(db.rows), b, r)
        BY <1>2, <2>4, <3>1, ShelfMoved
      <3> QED BY <3>2 DEF Shelf!Next, Shelf!Move, Relocated
    <2> QED BY <2>3, <2>4
  <1>6. CASE Clear
    <2>1. db'.rows = {}
      BY <1>2, <1>6, RowsEffect DEF Clear, WriteAtOnce
    <2>2. Shelf!Empty
      BY <2>1 DEF Shelf!Empty, ZipShelf
    <2> QED BY <2>2 DEF Shelf!Next
  <1>7. ASSUME NEW t \in Pool, AllowRetry(t) PROVE db'.rows = db.rows
    <2>1. PICK n \in Ids(db) : WriteAtOnce([db EXCEPT !.files[n].status = "pending"])
      BY <1>7 DEF AllowRetry
    <2>2. "pending" \in Statuses
      BY DEF Statuses
    <2> QED BY <1>2, <2>1, <2>2, RetryType DEF WriteAtOnce
  <1>8. \/ db' = db \/ Clear
        \/ \E t \in Threads : Commit(t)
        \/ \E t \in Pool : AllowRetry(t) \/ EditWrite(t)
    BY DEF Next, Upload, MainStart, SyncStart, Look, WriteRecord, LoadWorkbook, GiveUp,
           EditRead, EditGiveUp, Write, vars
  <1> QED BY <1>3, <1>4, <1>5, <1>6, <1>7, <1>8

(* The import history implements WorkbookShelf: whatever is interrupted, retried,
   edited, cleared or done half, an archive only ever adds workbooks, under
   identities that were free, and takes away, moves or replaces none. *)
THEOREM CatalogIsAShelf == Spec => ShelfKept
  <1>1. Init => Shelf!Init
    BY DEF Init, Shelf!Init, ZipShelf
  <1> QED BY ShelfStart, ShelfStep, StepKeepsShelf, <1>1, PTL
          DEF Spec, ShelfKept, Shelf!Spec

================================================================================
