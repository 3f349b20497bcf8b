--------------------------- MODULE CorrectionsProofs ---------------------------
(****************************************************************************)
(* Proofs about Corrections for every number of handlers, rows, requests    *)
(* and seeds: its types, then the audit log, the seeds and the order of     *)
(* corrections, that it implements ApprovedOverlay, and that a handler      *)
(* nobody disturbs goes on with every approved correction in the catalog.   *)
(****************************************************************************)
EXTENDS Corrections, SequenceTheorems, FiniteSetTheorems, TLAPS

(* What a handler holds on to between two steps refers to rows and requests
   that exist, and what it is about to reapply has been approved. *)
HandlesExist ==
  \A t \in Threads :
     /\ seedPos[t] \in 1 .. Len(SeedList) + 1
     /\ pc[t] = "seedwrite" => seedPos[t] <= Len(SeedList)
                               /\ held[t].item \in DOMAIN items
     /\ \A k \in todo[t] : k.req \in DOMAIN requests
     /\ pc[t] = "write" => /\ held[t].req \in DOMAIN requests
                           /\ held[t].item \in DOMAIN items
     /\ pc[t] \in {"approve", "reject"} => held[t].req \in DOMAIN requests

FilingExists ==
  /\ batch \subseteq DOMAIN items
  /\ pc[Loop] \in {"check", "create"} => draft.item \in DOMAIN items

TypeInv == TypeOK /\ HandlesExist /\ FilingExists

USE SourceAssumption

--------------------------------------------------------------------------------
(* Sequences and records                                                       *)

LEMMA LoopThread == Loop \in Threads
  BY DEF Threads

LEMMA SeqUpdate ==
  ASSUME NEW S, NEW s \in Seq(S), NEW i \in DOMAIN s, NEW x \in S
  PROVE  /\ [s EXCEPT ![i] = x] \in Seq(S)
         /\ Len([s EXCEPT ![i] = x]) = Len(s)
         /\ DOMAIN [s EXCEPT ![i] = x] = DOMAIN s
  OBVIOUS

LEMMA SeqAt ==
  ASSUME NEW S, NEW s \in Seq(S), NEW i \in 1 .. Len(s) PROVE s[i] \in S
  OBVIOUS

LEMMA FunctionSeq ==
  ASSUME NEW S, NEW n \in Nat, NEW f, f = [i \in 1 .. n |-> f[i]],
         \A i \in 1 .. n : f[i] \in S
  PROVE  f \in Seq(S) /\ Len(f) = n
  <1>1. f \in [1 .. n -> S]
    OBVIOUS
  <1> QED BY <1>1

LEMMA SeedCount == Len(SeedList) \in Nat
  <1>1. SeedList \in Seq([ident : Idents, val : Values])
    BY SeedAssumption
  <1> QED BY <1>1

LEMMA SeedsTyped ==
  ASSUME NEW k \in 1 .. Len(SeedList)
  PROVE  SeedList[k].ident \in Idents /\ SeedList[k].val \in Values
  <1>1. SeedList[k] \in [ident : Idents, val : Values]
    BY SeedAssumption, SeqAt
  <1> QED BY <1>1

LEMMA RequestsTyped ==
  ASSUME TypeOK, NEW r \in DOMAIN requests
  PROVE  /\ requests[r] \in Request
         /\ requests[r].change \in Change
         /\ requests[r].item \in Nat
         /\ r \in Nat
  <1>1. requests[r] \in Request /\ r \in Nat
    BY DEF TypeOK
  <1> QED BY <1>1 DEF Request

LEMMA Domains ==
  TypeOK => /\ DOMAIN requests = 1 .. Len(requests)
            /\ DOMAIN decisions = DOMAIN requests
            /\ DOMAIN items = 1 .. Len(items)
  BY DEF TypeOK

LEMMA AppliedRequest ==
  ASSUME NEW q \in Request, NEW i \in Nat
  PROVE  /\ [q EXCEPT !.item = i, !.applied = TRUE] \in Request
         /\ [q EXCEPT !.status = "approved"] \in Request
         /\ [q EXCEPT !.status = "rejected"] \in Request
         /\ [q EXCEPT !.status = "approved", !.item = i, !.applied = TRUE] \in Request
  BY DEF Request, Statuses

(* a request with its decisions is added at the end *)
LEMMA Added ==
  ASSUME TypeOK, NEW q \in Request, NEW d \in Seq({"approved", "rejected"}),
         requests' = Append(requests, q), decisions' = Append(decisions, d)
  PROVE  /\ requests' \in Seq(Request)
         /\ decisions' \in Seq(Seq({"approved", "rejected"}))
         /\ Len(requests') = Len(requests) + 1
         /\ Len(decisions') = Len(requests')
         /\ DOMAIN requests \subseteq DOMAIN requests'
         /\ DOMAIN requests' = DOMAIN requests \cup {Len(requests) + 1}
         /\ \A r \in DOMAIN requests :
              requests'[r] = requests[r] /\ decisions'[r] = decisions[r]
         /\ requests'[Len(requests) + 1] = q
         /\ decisions'[Len(requests) + 1] = d
  <1>1. /\ requests' \in Seq(Request)
        /\ Len(requests') = Len(requests) + 1
        /\ \A r \in 1 .. Len(requests) : requests'[r] = requests[r]
        /\ requests'[Len(requests) + 1] = q
    BY AppendProperties DEF TypeOK
  <1>2. /\ decisions' \in Seq(Seq({"approved", "rejected"}))
        /\ Len(decisions') = Len(decisions) + 1
        /\ \A r \in 1 .. Len(decisions) : decisions'[r] = decisions[r]
        /\ decisions'[Len(decisions) + 1] = d
    BY AppendProperties DEF TypeOK
  <1>3. Len(decisions) = Len(requests) /\ Len(requests) \in Nat
    BY DEF TypeOK
  <1>4. DOMAIN requests = 1 .. Len(requests) /\ DOMAIN requests' = 1 .. Len(requests')
    BY <1>1 DEF TypeOK
  <1> QED BY <1>1, <1>2, <1>3, <1>4

(* request r is replaced by q and d is logged on it *)
LEMMA Decided ==
  ASSUME TypeOK, NEW r \in DOMAIN requests, NEW q \in Request,
         NEW d \in {"approved", "rejected"},
         requests' = [requests EXCEPT ![r] = q], Decide(r, d)
  PROVE  /\ requests' \in Seq(Request)
         /\ decisions' \in Seq(Seq({"approved", "rejected"}))
         /\ Len(requests') = Len(requests)
         /\ Len(decisions') = Len(requests')
         /\ DOMAIN requests' = DOMAIN requests
         /\ \A r2 \in DOMAIN requests : r2 # r =>
              requests'[r2] = requests[r2] /\ decisions'[r2] = decisions[r2]
         /\ requests'[r] = q
         /\ decisions'[r] = Append(decisions[r], d)
  <1>1. r \in DOMAIN decisions /\ DOMAIN decisions = DOMAIN requests
    BY Domains
  <1>2. decisions[r] \in Seq({"approved", "rejected"})
    BY <1>1 DEF TypeOK
  <1>3. Append(decisions[r], d) \in Seq({"approved", "rejected"})
    BY <1>2
  <1>4. /\ decisions' \in Seq(Seq({"approved", "rejected"}))
        /\ Len(decisions') = Len(decisions)
    BY <1>1, <1>3, SeqUpdate DEF Decide, TypeOK
  <1>5. requests' \in Seq(Request) /\ Len(requests') = Len(requests)
    BY SeqUpdate DEF TypeOK
  <1> QED BY <1>1, <1>4, <1>5 DEF Decide, TypeOK

LEMMA NoHeldType == NoHeld \in Held /\ NoChange \in Change
  BY DEF NoHeld, Held, NoChange, Change

LEMMA NoDraftType == NoDraft \in Draft
  BY NoHeldType DEF NoDraft, Draft, Actions

LEMMA TargetInItems ==
  ASSUME NEW item, NEW q PROVE Target(item, q) \subseteq Live
  BY DEF Target, RowsAt, TheOnly, Live

LEMMA LiveRows ==
  ASSUME TypeOK PROVE \A i \in Live : i \in Nat /\ i \in DOMAIN items /\ items[i] \in Row
  BY DEF Live, TypeOK

LEMMA MissingType ==
  ASSUME NEW row \in Row, NEW c \in Change PROVE Missing(row, c) \in Change
  BY DEF Missing, Change, Row

LEMMA AmendType ==
  ASSUME NEW row \in Row, NEW c \in Change PROVE Amend(row, c) \in Row
  BY DEF Amend, Change, Row

LEMMA RewriteType ==
  ASSUME TypeOK, NEW i \in DOMAIN items, NEW q, NEW c \in Change
  PROVE  /\ Rewrite(i, q, c) \in Seq(Row \cup {NoRow})
         /\ DOMAIN Rewrite(i, q, c) = DOMAIN items
  <1>1. items[i] # NoRow => Amend(items[i], c) \in Row
    BY AmendType DEF TypeOK
  <1> QED BY <1>1 DEF Rewrite, TypeOK

LEMMA BatchType ==
  ASSUME NEW R, NEW new \in Batches(R) PROVE new \in Seq(R)
  <1>1. PICK n \in 0 .. MaxBatch : new \in [1 .. n -> R]
    BY DEF Batches
  <1>2. n \in Nat
    BY BoundAssumption
  <1> QED BY <1>1, <1>2

LEMMA InitTypeInv == Init => TypeInv
  <1> SUFFICES ASSUME Init PROVE TypeInv
    OBVIOUS
  <1>1. items \in Seq(Row \cup {NoRow})
    BY BatchType DEF Init
  <1> QED
    BY <1>1, NoHeldType, NoDraftType, SeedCount
    DEF Init, TypeInv, TypeOK, HandlesExist, FilingExists, Threads, Phases

LEMMA SeedSkipType ==
  ASSUME TypeInv, NEW t \in Threads, SeedSkip(t) PROVE TypeInv'
  BY SeedCount DEF SeedSkip, TypeInv, TypeOK, HandlesExist, FilingExists, db, filing

LEMMA SeedFindType ==
  ASSUME TypeInv, NEW t \in Threads, SeedFind(t) PROVE TypeInv'
  <1>1. PICK i \in Live :
          held' = [held EXCEPT ![t] = [NoHeld EXCEPT !.item = i, !.src = items[i].src]]
    BY DEF SeedFind, TheOnly, RowsAt
  <1>2. i \in Nat /\ i \in DOMAIN items /\ items[i] \in Row
    BY LiveRows DEF TypeInv
  <1>3. [NoHeld EXCEPT !.item = i, !.src = items[i].src] \in Held
    BY <1>2, NoHeldType DEF Held, Row
  <1>4. TypeOK'
    BY <1>1, <1>3 DEF SeedFind, TypeInv, TypeOK, db, filing, Goto, Phases
  <1>5. HandlesExist'
    BY <1>1, <1>2 DEF SeedFind, TypeInv, TypeOK, HandlesExist, db, filing, Goto, NoHeld
  <1>6. FilingExists'
    BY LoopThread DEF SeedFind, TypeInv, TypeOK, FilingExists, db, filing, Goto
  <1> QED BY <1>4, <1>5, <1>6 DEF TypeInv

LEMMA SeedWriteType ==
  ASSUME TypeInv, NEW t \in Threads, SeedWrite(t) PROVE TypeInv'
  <1> DEFINE k == seedPos[t]
             q == SeedRequest(k, held[t])
  <1>0. /\ pc[t] = "seedwrite"
        /\ seedPos' = [seedPos EXCEPT ![t] = k + 1]
        /\ held' = [held EXCEPT ![t] = NoHeld]
    BY DEF SeedWrite
  <1>1. k \in 1 .. Len(SeedList) /\ SeedList[k].ident \in Idents /\ SeedList[k].val \in Values
    <2>1. k \in 1 .. Len(SeedList)
      BY <1>0, SeedCount DEF TypeInv, TypeOK, HandlesExist
    <2> QED BY <2>1, SeedsTyped
  <1>2. q \in Request /\ q.change \in Change
    BY <1>1, SMTT(30) DEF SeedRequest, TypeInv, TypeOK, Held, Request, Actions, Statuses, Change
  <1>3. PICK q2 \in Request : requests' = Append(requests, q2)
    <2>1. CASE requests' = Append(requests, q)
      BY <2>1, <1>2
    <2>2. CASE \E i \in Target(q.item, q) :
                 requests' = Append(requests, [q EXCEPT !.item = i, !.applied = TRUE])
      <3>1. PICK i \in Target(q.item, q) :
              requests' = Append(requests, [q EXCEPT !.item = i, !.applied = TRUE])
        BY <2>2
      <3>2. i \in Nat
        BY TargetInItems, LiveRows DEF TypeInv
      <3> QED BY <3>1, <3>2, <1>2 DEF Request
    <2> QED BY <2>1, <2>2 DEF SeedWrite
  <1>4. items' \in Seq(Row \cup {NoRow}) /\ DOMAIN items' = DOMAIN items
    <2>1. CASE items' = items
      BY <2>1 DEF TypeInv, TypeOK
    <2>2. CASE \E i \in Target(q.item, q) : items' = Rewrite(i, q, q.change)
      <3>1. PICK i \in DOMAIN items : items' = Rewrite(i, q, q.change)
        BY <2>2, TargetInItems DEF Live
      <3> QED BY <3>1, <1>2, RewriteType DEF TypeInv
    <2> QED BY <2>1, <2>2 DEF SeedWrite
  <1>5. /\ DOMAIN requests \subseteq DOMAIN requests'
        /\ requests' \in Seq(Request)
        /\ decisions' \in Seq(Seq({"approved", "rejected"}))
        /\ Len(decisions') = Len(requests')
    <2>1. decisions' = Append(decisions, <<"approved">>)
      BY DEF SeedWrite
    <2>2. <<"approved">> \in Seq({"approved", "rejected"})
      OBVIOUS
    <2> QED BY <1>3, <2>1, <2>2, Added DEF TypeInv
  <1>6. TypeOK'
    <2>1. seedPos' \in [Threads -> Nat] /\ held' \in [Threads -> Held]
      BY <1>0, <1>1, NoHeldType DEF TypeInv, TypeOK
    <2> QED BY <2>1, <1>4, <1>5
        DEF SeedWrite, TypeInv, TypeOK, filing, Goto, Wrote, Phases
  <1>7. HandlesExist'
    <2>1. seedPos' = [seedPos EXCEPT ![t] = k + 1] /\ k + 1 \in 1 .. Len(SeedList) + 1
      BY <1>0, <1>1, SeedCount
    <2>2. pc' = [pc EXCEPT ![t] = "seed"] /\ todo' = todo
      BY DEF SeedWrite, Goto
    <2> HIDE DEF k, q
    <2> QED BY <2>1, <2>2, <1>0, <1>4, <1>5 DEF TypeInv, TypeOK, HandlesExist
  <1>8. FilingExists'
    BY LoopThread, <1>4 DEF SeedWrite, TypeInv, TypeOK, FilingExists, filing, Goto
  <1> QED BY <1>6, <1>7, <1>8 DEF TypeInv

LEMMA SeedConflictType ==
  ASSUME TypeInv, NEW t \in Threads, SeedConflict(t) PROVE TypeInv'
  BY NoHeldType, SeedCount
  DEF SeedConflict, TypeInv, TypeOK, HandlesExist, FilingExists, db, filing, Goto, Phases

LEMMA SyncListType ==
  ASSUME TypeInv, NEW t \in Threads, SyncList(t) PROVE TypeInv'
  <1> DEFINE listed == {[req |-> r, item |-> requests[r].item] : r \in Approved}
  <1>1. listed \in SUBSET Ticket
    BY RequestsTyped DEF TypeInv, Approved, Ticket
  <1>2. \A k \in listed : k.req \in DOMAIN requests
    BY DEF Approved
  <1>3. todo' = [todo EXCEPT ![t] = listed]
    BY DEF SyncList
  <1> HIDE DEF listed
  <1>4. TypeOK'
    BY <1>1, <1>3 DEF SyncList, TypeInv, TypeOK, db, filing, Goto, Phases
  <1>5. HandlesExist'
    BY <1>2, <1>3, SeedCount
    DEF SyncList, TypeInv, TypeOK, HandlesExist, db, filing, Goto
  <1>6. FilingExists'
    BY LoopThread DEF SyncList, TypeInv, TypeOK, FilingExists, db, filing, Goto
  <1> QED BY <1>4, <1>5, <1>6 DEF TypeInv

LEMMA SyncSkipType ==
  ASSUME TypeInv, NEW t \in Threads, SyncSkip(t) PROVE TypeInv'
  BY DEF SyncSkip, TypeInv, TypeOK, HandlesExist, FilingExists, db, filing

LEMMA SyncPlanType ==
  ASSUME TypeInv, NEW t \in Threads, SyncPlan(t) PROVE TypeInv'
  <1>1. PICK k \in todo[t], i \in Live :
          /\ held' = [held EXCEPT ![t] =
               [req |-> k.req, item |-> i, src |-> items[i].src,
                set |-> Missing(items[i], requests[k.req].change)]]
          /\ todo' = [todo EXCEPT ![t] = @ \ {k}]
    BY TargetInItems DEF SyncPlan, First
  <1>2. i \in Nat /\ i \in DOMAIN items /\ items[i] \in Row
    BY LiveRows DEF TypeInv
  <1>3. k.req \in DOMAIN requests /\ k.req \in Nat
    BY DEF TypeInv, TypeOK, HandlesExist
  <1>4. Missing(items[i], requests[k.req].change) \in Change
    BY <1>2, <1>3, MissingType, RequestsTyped DEF TypeInv
  <1> DEFINE h == [req |-> k.req, item |-> i, src |-> items[i].src,
                   set |-> Missing(items[i], requests[k.req].change)]
  <1>5. h \in Held /\ h.req = k.req /\ h.item = i
    BY <1>2, <1>3, <1>4 DEF Held, Row
  <1>6. held' = [held EXCEPT ![t] = h]
    BY <1>1
  <1> HIDE DEF h
  <1>7. TypeOK'
    BY <1>1, <1>5, <1>6 DEF SyncPlan, TypeInv, TypeOK, db, filing, Goto, Phases
  <1>8. HandlesExist'
    BY <1>1, <1>2, <1>3, <1>5, <1>6
    DEF SyncPlan, TypeInv, TypeOK, HandlesExist, db, filing, Goto
  <1>9. FilingExists'
    BY LoopThread DEF SyncPlan, TypeInv, TypeOK, FilingExists, db, filing, Goto
  <1> QED BY <1>7, <1>8, <1>9 DEF TypeInv

LEMMA SyncWriteType ==
  ASSUME TypeInv, NEW t \in Threads, SyncWrite(t) PROVE TypeInv'
  <1> DEFINE h == held[t]
             q == requests[h.req]
  <1>1. h \in Held /\ h.req \in DOMAIN requests /\ h.item \in DOMAIN items
    BY DEF SyncWrite, TypeInv, TypeOK, HandlesExist
  <1>2. items' \in Seq(Row \cup {NoRow}) /\ DOMAIN items' = DOMAIN items
    BY <1>1, RewriteType DEF SyncWrite, TypeInv, Held
  <1>3. requests' \in Seq(Request) /\ Len(requests') = Len(requests)
    <2>1. [q EXCEPT !.item = h.item, !.applied = TRUE] \in Request
      BY <1>1, RequestsTyped, AppliedRequest DEF TypeInv, Held
    <2>2. \/ requests' = requests
          \/ requests' = [requests EXCEPT ![h.req] =
                            [q EXCEPT !.item = h.item, !.applied = TRUE]]
      BY DEF SyncWrite
    <2>3. requests \in Seq(Request)
      BY DEF TypeInv, TypeOK
    <2> HIDE DEF h, q
    <2> QED BY <1>1, <2>1, <2>2, <2>3, SeqUpdate, SMTT(30)
  <1>4. TypeOK'
    BY <1>2, <1>3, NoHeldType
    DEF SyncWrite, TypeInv, TypeOK, filing, Goto, Phases, Wrote
  <1>5. HandlesExist'
    BY <1>2, <1>3 DEF SyncWrite, TypeInv, TypeOK, HandlesExist, filing, Goto
  <1>6. FilingExists'
    BY LoopThread, <1>2 DEF SyncWrite, TypeInv, TypeOK, FilingExists, filing, Goto
  <1> QED BY <1>4, <1>5, <1>6 DEF TypeInv

LEMMA SyncDoneType ==
  ASSUME TypeInv, NEW t \in Threads, SyncDone(t) PROVE TypeInv'
  <1>1. TypeOK'
    BY DEF SyncDone, TypeInv, TypeOK, db, filing, Goto, Phases
  <1>2. HandlesExist'
    BY DEF SyncDone, TypeInv, TypeOK, HandlesExist, db, filing, Goto
  <1>3. FilingExists'
    BY LoopThread DEF SyncDone, TypeInv, TypeOK, FilingExists, db, filing, Goto
  <1> QED BY <1>1, <1>2, <1>3 DEF TypeInv

LEMMA BeginType ==
  ASSUME TypeInv, NEW t \in Threads, Begin(t) PROVE TypeInv'
  <1>1. TypeOK'
    BY LoopThread DEF Begin, TypeInv, TypeOK, db, filing, Goto, Phases
  <1>2. HandlesExist'
    BY LoopThread DEF Begin, TypeInv, TypeOK, HandlesExist, db, filing, Goto
  <1>3. FilingExists'
    BY LoopThread DEF Begin, TypeInv, TypeOK, FilingExists, db, filing, Goto
  <1> QED BY <1>1, <1>2, <1>3 DEF TypeInv

LEMMA FinishType ==
  ASSUME TypeInv, NEW t \in Threads, Finish(t) PROVE TypeInv'
  <1>1. TypeOK'
    BY LoopThread DEF Finish, TypeInv, TypeOK, db, filing, Goto, Phases
  <1>2. HandlesExist'
    BY LoopThread DEF Finish, TypeInv, TypeOK, HandlesExist, db, filing, Goto
  <1>3. FilingExists'
    BY LoopThread DEF Finish, TypeInv, TypeOK, FilingExists, db, filing, Goto
  <1> QED BY <1>1, <1>2, <1>3 DEF TypeInv

LEMMA ReviewCheckType ==
  ASSUME TypeInv, NEW t \in Threads, NEW r \in DOMAIN requests,
         NEW decision \in {"approve", "reject"}, ReviewCheck(t, r, decision)
  PROVE  TypeInv'
  <1> DEFINE h == [NoHeld EXCEPT !.req = r, !.item = requests[r].item]
  <1>1. h \in Held /\ h.req = r
    BY RequestsTyped, NoHeldType DEF TypeInv, Held
  <1>2. held' = [held EXCEPT ![t] = h] /\ pc' = [pc EXCEPT ![t] = decision]
    BY DEF ReviewCheck, Goto
  <1>3. decision \in Phases /\ decision \notin {"seedwrite", "write", "check", "create"}
    BY DEF Phases
  <1> HIDE DEF h
  <1>4. TypeOK'
    BY <1>1, <1>2, <1>3 DEF ReviewCheck, TypeInv, TypeOK, db, filing
  <1>5. HandlesExist'
    BY <1>1, <1>2, <1>3 DEF ReviewCheck, TypeInv, TypeOK, HandlesExist, db, filing
  <1>6. FilingExists'
    BY LoopThread, <1>2, <1>3 DEF ReviewCheck, TypeInv, TypeOK, FilingExists, db, filing
  <1> QED BY <1>4, <1>5, <1>6 DEF TypeInv

LEMMA ApproveTxnType ==
  ASSUME TypeInv, NEW t \in Threads, ApproveTxn(t) PROVE TypeInv'
  <1> DEFINE r == held[t].req
             q == requests[r]
  <1>0. /\ pc[t] = "approve"
        /\ Decide(r, "approved")
        /\ held' = [held EXCEPT ![t] = NoHeld]
        /\ pc' = [pc EXCEPT ![t] = "idle"]
        /\ UNCHANGED <<writer, seedPos, todo, filing>> /\ Wrote(t)
    BY DEF ApproveTxn, Goto
  <1>1. r \in DOMAIN requests /\ q \in Request /\ q.change \in Change
    BY <1>0, RequestsTyped DEF TypeInv, HandlesExist
  <1>2. PICK i \in Live : items' = Rewrite(i, q, q.change)
          /\ \E q2 \in {[q EXCEPT !.status = "approved", !.item = i, !.applied = TRUE],
                         [q EXCEPT !.status = "approved"]} :
                requests' = [requests EXCEPT ![r] = q2]
    BY TargetInItems DEF ApproveTxn
  <1>3. i \in Nat /\ i \in DOMAIN items
    BY LiveRows DEF TypeInv
  <1>4. PICK q2 \in Request : requests' = [requests EXCEPT ![r] = q2]
    BY <1>1, <1>2, <1>3, AppliedRequest
  <1>5. items' \in Seq(Row \cup {NoRow}) /\ DOMAIN items' = DOMAIN items
    BY <1>1, <1>2, <1>3, RewriteType DEF TypeInv
  <1>6. /\ requests' \in Seq(Request)
        /\ decisions' \in Seq(Seq({"approved", "rejected"}))
        /\ Len(decisions') = Len(requests')
        /\ DOMAIN requests' = DOMAIN requests
    BY <1>0, <1>1, <1>4, Decided DEF TypeInv
  <1> HIDE DEF r, q
  <1>7. TypeOK'
    BY <1>0, <1>5, <1>6, NoHeldType DEF TypeInv, TypeOK, Wrote, filing, Phases
  <1>8. HandlesExist'
    BY <1>0, <1>5, <1>6 DEF TypeInv, TypeOK, HandlesExist
  <1>9. FilingExists'
    BY LoopThread, <1>0, <1>5 DEF TypeInv, TypeOK, FilingExists, filing
  <1> QED BY <1>7, <1>8, <1>9 DEF TypeInv

LEMMA ApproveRollbackType ==
  ASSUME TypeInv, NEW t \in Threads, ApproveRollback(t) PROVE TypeInv'
  <1>1. TypeOK'
    BY LoopThread, NoHeldType DEF ApproveRollback, TypeInv, TypeOK, db, filing, Goto, Phases
  <1>2. HandlesExist'
    BY LoopThread, NoHeldType DEF ApproveRollback, TypeInv, TypeOK, HandlesExist, db, filing, Goto
  <1>3. FilingExists'
    BY LoopThread, NoHeldType DEF ApproveRollback, TypeInv, TypeOK, FilingExists, db, filing, Goto
  <1> QED BY <1>1, <1>2, <1>3 DEF TypeInv

LEMMA RejectTxnType ==
  ASSUME TypeInv, NEW t \in Threads, RejectTxn(t) PROVE TypeInv'
  <1> DEFINE r == held[t].req
             q == [requests[r] EXCEPT !.status = "rejected"]
  <1>0. /\ pc[t] = "reject"
        /\ Decide(r, "rejected")
        /\ requests' = [requests EXCEPT ![r] = q]
        /\ held' = [held EXCEPT ![t] = NoHeld]
        /\ pc' = [pc EXCEPT ![t] = "idle"]
        /\ UNCHANGED <<items, writer, seedPos, todo, filing>> /\ Wrote(t)
    BY DEF RejectTxn, Goto
  <1>1. r \in DOMAIN requests /\ requests[r] \in Request
    BY <1>0, RequestsTyped, SMTT(30) DEF TypeInv, HandlesExist
  <1>2. q \in Request
    BY <1>1, AppliedRequest
  <1>3. /\ requests' \in Seq(Request)
        /\ decisions' \in Seq(Seq({"approved", "rejected"}))
        /\ Len(decisions') = Len(requests')
        /\ DOMAIN requests' = DOMAIN requests
    BY <1>0, <1>1, <1>2, Decided DEF TypeInv
  <1> HIDE DEF r, q
  <1>4. TypeOK'
    BY <1>0, <1>3, NoHeldType DEF TypeInv, TypeOK, Wrote, filing, Phases
  <1>5. HandlesExist'
    BY <1>0, <1>3 DEF TypeInv, TypeOK, HandlesExist
  <1>6. FilingExists'
    BY LoopThread, <1>0 DEF TypeInv, TypeOK, FilingExists, filing
  <1> QED BY <1>4, <1>5, <1>6 DEF TypeInv

(* the bookkeeping of the event loop's form handlers *)
FilingSteps(newDraft, newBatch, p) ==
  /\ draft' = newDraft /\ batch' = newBatch
  /\ pc' = [pc EXCEPT ![Loop] = p]
  /\ UNCHANGED <<db, writer, seedPos, todo, held, fresh, imported>>

LEMMA FilingStepType ==
  ASSUME TypeInv, NEW d \in Draft, NEW b \in SUBSET DOMAIN items,
         NEW p \in {"idle", "bulk", "check", "create"},
         p \in {"check", "create"} => d.item \in DOMAIN items,
         FilingSteps(d, b, p)
  PROVE  TypeInv'
  <1>1. TypeOK'
    BY LoopThread DEF FilingSteps, TypeInv, TypeOK, db, Phases
  <1>2. HandlesExist'
    BY LoopThread DEF FilingSteps, TypeInv, TypeOK, HandlesExist, db
  <1>3. FilingExists'
    BY LoopThread DEF FilingSteps, TypeInv, TypeOK, FilingExists, db
  <1> QED BY <1>1, <1>2, <1>3 DEF TypeInv

LEMMA DraftNow ==
  TypeOK => /\ draft \in Draft /\ draft.action \in Actions
            /\ draft.item \in Nat /\ draft.change \in Change
  BY DEF TypeOK, Draft

LEMMA SubmitOneType ==
  ASSUME TypeInv, NEW i \in DOMAIN items, NEW a \in Actions, NEW c \in Change,
         SubmitOne(i, a, c)
  PROVE  TypeInv'
  <1>1. i \in Nat
    BY Domains DEF TypeInv
  <1> DEFINE d == [NoDraft EXCEPT !.action = a, !.item = i, !.change = c]
  <1>2. d \in Draft /\ d.item = i
    BY <1>1, NoDraftType DEF Draft
  <1>3. FilingSteps(d, {i}, "check")
    BY DEF SubmitOne, FilingSteps, Goto
  <1> HIDE DEF d
  <1> QED BY <1>2, <1>3, FilingStepType

LEMMA SubmitBulkType ==
  ASSUME TypeInv, NEW S \in SUBSET DOMAIN items, NEW a \in Actions, SubmitBulk(S, a)
  PROVE  TypeInv'
  <1>1. [NoDraft EXCEPT !.action = a] \in Draft
    BY NoDraftType DEF Draft
  <1>2. FilingSteps([NoDraft EXCEPT !.action = a], S, "bulk")
    BY DEF SubmitBulk, FilingSteps, Goto
  <1> QED BY <1>1, <1>2, FilingStepType

LEMMA NextRowType ==
  ASSUME TypeInv, NEW i, NextRow(i),
         UNCHANGED <<db, writer, seedPos, todo, held, fresh, imported>>
  PROVE  TypeInv'
  <1>1. batch \ {i} \in SUBSET DOMAIN items
    BY DEF TypeInv, FilingExists
  <1>2. [NoDraft EXCEPT !.action = draft.action] \in Draft
    BY NoDraftType, DraftNow DEF Draft, TypeInv
  <1>3. \/ FilingSteps(NoDraft, batch \ {i}, "idle")
        \/ FilingSteps([NoDraft EXCEPT !.action = draft.action], batch \ {i}, "bulk")
    BY DEF NextRow, FilingSteps, Goto
  <1> QED BY <1>1, <1>2, <1>3, NoDraftType, FilingStepType

LEMMA BulkSkipType ==
  ASSUME TypeInv, NEW c \in Change, BulkSkip(c) PROVE TypeInv'
  BY NextRowType DEF BulkSkip

LEMMA BulkPickType ==
  ASSUME TypeInv, NEW c \in Change, BulkPick(c) PROVE TypeInv'
  <1>1. PICK i \in batch : draft' = [draft EXCEPT !.item = i, !.change = c]
    BY DEF BulkPick, Lowest
  <1>2. i \in DOMAIN items /\ i \in Nat /\ batch \in SUBSET DOMAIN items
    BY Domains DEF TypeInv, FilingExists
  <1> DEFINE d == [draft EXCEPT !.item = i, !.change = c]
  <1>3. d \in Draft /\ d.item = i
    BY <1>2, DraftNow DEF TypeInv, Draft
  <1>4. FilingSteps(d, batch, "check")
    BY <1>1 DEF BulkPick, FilingSteps, Goto
  <1> HIDE DEF d
  <1> QED BY <1>2, <1>3, <1>4, FilingStepType

LEMMA BulkAbortType ==
  ASSUME TypeInv, BulkAbort PROVE TypeInv'
  <1>1. FilingSteps(NoDraft, {}, "idle")
    BY DEF BulkAbort, FilingSteps, Goto
  <1> QED BY <1>1, NoDraftType, FilingStepType

LEMMA CreateCheckType ==
  ASSUME TypeInv, CreateCheck PROVE TypeInv'
  <1> DEFINE i == draft.item
             c == IF draft.action = "delete" THEN NoChange
                  ELSE Missing(items[i], draft.change)
             d == [draft EXCEPT !.src = items[i].src, !.ident = items[i].ident, !.change = c]
  <1>1. i \in DOMAIN items /\ items[i] \in Row
    BY LoopThread DEF CreateCheck, Fileable, TypeInv, TypeOK, FilingExists
  <1>2. c \in Change
    BY <1>1, DraftNow, MissingType, NoHeldType DEF TypeInv
  <1>3. items[i].src \in Sources /\ items[i].ident \in Idents
    BY <1>1 DEF Row
  <1> HIDE DEF c
  <1>4. d \in Draft /\ d.item = i
    BY <1>2, <1>3, DraftNow DEF TypeInv, Draft
  <1>5. FilingSteps(d, batch, "create")
    BY DEF CreateCheck, FilingSteps, Goto, c
  <1>6. batch \in SUBSET DOMAIN items
    BY DEF TypeInv, FilingExists
  <1> HIDE DEF d
  <1> QED BY <1>1, <1>4, <1>5, <1>6, FilingStepType

LEMMA CreateRefusedType ==
  ASSUME TypeInv, CreateRefused PROVE TypeInv'
  <1>1. CASE NextRow(draft.item)
    BY <1>1, NextRowType DEF CreateRefused
  <1>2. CASE batch' = {} /\ draft' = NoDraft /\ Goto(Loop, "idle")
    <2>1. FilingSteps(NoDraft, {}, "idle")
      BY <1>2 DEF CreateRefused, FilingSteps, Goto
    <2> QED BY <2>1, NoDraftType, FilingStepType
  <1> QED BY <1>1, <1>2 DEF CreateRefused

(* the request CreateTxn stores *)
Pending ==
  [action |-> draft.action, src |-> draft.src, ident |-> draft.ident,
   item |-> draft.item, change |-> draft.change, status |-> "pending",
   seed |-> 0, applied |-> FALSE]

LEMMA PendingType == TypeOK => Pending \in Request
  BY DEF Pending, TypeOK, Draft, Request, Statuses

LEMMA CreateTxnType ==
  ASSUME TypeInv, CreateTxn PROVE TypeInv'
  <1>0. /\ requests' = Append(requests, Pending)
        /\ decisions' = Append(decisions, <<>>)
        /\ NextRow(draft.item) /\ Wrote(Loop)
        /\ UNCHANGED <<items, writer, seedPos, todo, held, imported>>
    BY DEF CreateTxn, Pending
  <1>1. /\ DOMAIN requests \subseteq DOMAIN requests'
        /\ requests' \in Seq(Request)
        /\ decisions' \in Seq(Seq({"approved", "rejected"}))
        /\ Len(decisions') = Len(requests')
    <2>1. <<>> \in Seq({"approved", "rejected"})
      OBVIOUS
    <2> QED BY <1>0, <2>1, PendingType, Added DEF TypeInv
  <1>2. PICK d \in Draft, p \in {"idle", "bulk"} :
          draft' = d /\ pc' = [pc EXCEPT ![Loop] = p]
    <2>1. [NoDraft EXCEPT !.action = draft.action] \in Draft
      BY NoDraftType, DraftNow DEF Draft, TypeInv
    <2> QED BY <1>0, <2>1, NoDraftType DEF NextRow, Goto
  <1>3. batch' \subseteq DOMAIN items
    BY <1>0 DEF NextRow, TypeInv, FilingExists
  <1>4. TypeOK'
    BY <1>0, <1>1, <1>2, <1>3, LoopThread, Domains DEF TypeInv, TypeOK, Wrote, Phases
  <1>5. HandlesExist'
    BY <1>0, <1>1, <1>2, LoopThread DEF TypeInv, TypeOK, HandlesExist
  <1>6. FilingExists'
    BY <1>0, <1>2, <1>3, LoopThread DEF TypeInv, TypeOK, FilingExists
  <1> QED BY <1>4, <1>5, <1>6 DEF TypeInv

LEMMA ImportWriteType ==
  ASSUME TypeInv, NEW src \in Sources, NEW scope \in SUBSET Idents,
         NEW gone, NEW new \in Seq(Row), ImportWrite(src, scope, gone, new)
  PROVE  TypeInv'
  <1> DEFINE old == [i \in DOMAIN items |-> IF i \in gone THEN NoRow ELSE items[i]]
  <1>1. old \in Seq(Row \cup {NoRow}) /\ Len(old) = Len(items)
    <2>1. \A i \in DOMAIN items : old[i] \in Row \cup {NoRow}
      BY DEF TypeInv, TypeOK
    <2>2. DOMAIN old = 1 .. Len(items) /\ Len(items) \in Nat
      BY Domains DEF TypeInv, TypeOK
    <2>3. old = [i \in 1 .. Len(items) |-> old[i]]
      BY <2>2
    <2>4. \A i \in 1 .. Len(items) : old[i] \in Row \cup {NoRow}
      BY <2>1, <2>2
    <2> HIDE DEF old
    <2> QED BY <2>2, <2>3, <2>4, FunctionSeq
  <1>2. items' = old \o new
    BY DEF ImportWrite
  <1>3. new \in Seq(Row \cup {NoRow})
    OBVIOUS
  <1> HIDE DEF old
  <1>4. items' \in Seq(Row \cup {NoRow}) /\ DOMAIN items \subseteq DOMAIN items'
    BY <1>1, <1>2, <1>3, ConcatProperties, Domains DEF TypeInv
  <1>5. pc' = [pc EXCEPT ![Loop] = "seed"] /\ Wrote(Loop)
    BY DEF ImportWrite, Goto
  <1>6. UNCHANGED <<requests, decisions, seedPos, todo, held, draft, batch>>
    BY DEF ImportWrite
  <1>7. writer' = Loop /\ imported' = imported \cup scope
    BY DEF ImportWrite
  <1>8. TypeOK'
    BY <1>4, <1>5, <1>6, <1>7, LoopThread DEF TypeInv, TypeOK, Wrote, Phases
  <1>9. HandlesExist'
    BY <1>4, <1>5, <1>6, LoopThread DEF TypeInv, TypeOK, HandlesExist
  <1>10. FilingExists'
    BY <1>4, <1>5, <1>6, LoopThread DEF TypeInv, TypeOK, FilingExists
  <1> QED BY <1>8, <1>9, <1>10 DEF TypeInv

LEMMA ImportCommitType ==
  ASSUME TypeInv, ImportCommit PROVE TypeInv'
  <1>1. TypeOK'
    BY LoopThread DEF ImportCommit, TypeInv, TypeOK, db, Goto, Phases
  <1>2. HandlesExist'
    BY LoopThread DEF ImportCommit, TypeInv, TypeOK, HandlesExist, db, Goto
  <1>3. FilingExists'
    BY LoopThread DEF ImportCommit, TypeInv, TypeOK, FilingExists, db, Goto
  <1> QED BY <1>1, <1>2, <1>3 DEF TypeInv

LEMMA ClearType ==
  ASSUME TypeInv, Clear PROVE TypeInv'
  <1>1. items' \in Seq(Row \cup {NoRow}) /\ DOMAIN items' = DOMAIN items
    BY Domains DEF Clear, TypeInv, TypeOK
  <1>2. /\ pc' = [pc EXCEPT ![Loop] = "idle"] /\ Wrote(Loop)
        /\ UNCHANGED <<requests, decisions, writer, seedPos, todo, held, filing>>
    BY DEF Clear, Goto
  <1>3. TypeOK'
    BY <1>1, <1>2, LoopThread DEF TypeInv, TypeOK, Wrote, Phases, filing
  <1>4. HandlesExist'
    BY <1>1, <1>2, LoopThread DEF TypeInv, TypeOK, HandlesExist
  <1>5. FilingExists'
    BY <1>1, <1>2, LoopThread DEF TypeInv, TypeOK, FilingExists, filing
  <1> QED BY <1>3, <1>4, <1>5 DEF TypeInv

(* A metadata edit writes nothing but values, and only of rows of one source. *)
EditsValues(src) ==
  /\ DOMAIN items' = DOMAIN items
  /\ \A i \in DOMAIN items :
       \/ items'[i] = items[i]
       \/ /\ items[i] # NoRow /\ items[i].src = src
          /\ \E v \in Values : items'[i] = [items[i] EXCEPT !.val = v]

LEMMA EditFrame ==
  ASSUME NEW t, EditMetadata(t)
  PROVE  /\ pc[t] = "body" /\ pc' = [pc EXCEPT ![t] = "idle"] /\ Wrote(t)
         /\ UNCHANGED <<requests, decisions, writer, seedPos, todo, held, filing>>
  BY Zenon DEF EditMetadata, EditImport, Goto

LEMMA EditedRows ==
  ASSUME NEW t, EditMetadata(t)
  PROVE  \E src \in Sources : EditsValues(src)
  <1>1. PICK src \in Sources : \E S \in SUBSET RowsOf(src) : EditImport(t, S)
    BY DEF EditMetadata
  <1>4. PICK S \in SUBSET RowsOf(src) : EditImport(t, S)
    BY <1>1
  <1>2. PICK new \in [S -> Values] :
          items' = [i \in DOMAIN items |->
                      IF i \in S THEN [items[i] EXCEPT !.val = new[i]] ELSE items[i]]
    BY <1>4 DEF EditImport
  <1>3. \A i \in S : items[i] # NoRow /\ items[i].src = src /\ new[i] \in Values
    BY <1>2 DEF RowsOf, Live
  <1> QED BY <1>2, <1>3 DEF EditsValues

LEMMA EditedType ==
  ASSUME TypeOK, NEW src, EditsValues(src)
  PROVE  items' = [i \in 1 .. Len(items) |-> items'[i]] => items' \in Seq(Row \cup {NoRow})
  <1> SUFFICES ASSUME items' = [i \in 1 .. Len(items) |-> items'[i]]
               PROVE  items' \in Seq(Row \cup {NoRow})
    OBVIOUS
  <1>1. Len(items) \in Nat /\ DOMAIN items = 1 .. Len(items)
    BY DEF TypeOK
  <1>2. \A i \in 1 .. Len(items) : items'[i] \in Row \cup {NoRow}
    <2> SUFFICES ASSUME NEW i \in 1 .. Len(items) PROVE items'[i] \in Row \cup {NoRow}
      OBVIOUS
    <2>1. items[i] \in Row \cup {NoRow}
      BY DEF TypeOK
    <2>2. CASE items'[i] = items[i]
      BY <2>1, <2>2
    <2>3. ASSUME NEW v \in Values, items[i] # NoRow, items'[i] = [items[i] EXCEPT !.val = v]
          PROVE  items'[i] \in Row
      BY <2>1, <2>3 DEF Row
    <2> QED BY <1>1, <2>2, <2>3 DEF EditsValues
  <1> QED BY <1>1, <1>2, FunctionSeq

LEMMA EditMetadataType ==
  ASSUME TypeInv, NEW t \in Threads, EditMetadata(t) PROVE TypeInv'
  <1>0. PICK src \in Sources : EditsValues(src)
    BY EditedRows
  <1>1. DOMAIN items' = DOMAIN items
    BY <1>0 DEF EditsValues
  <1>2. items' = [i \in 1 .. Len(items) |-> items'[i]]
    <2>1. PICK S, new :
            items' = [i \in DOMAIN items |->
                        IF i \in S THEN [items[i] EXCEPT !.val = new[i]] ELSE items[i]]
      BY DEF EditMetadata, EditImport, RowsOf
    <2>2. DOMAIN items = 1 .. Len(items)
      BY DEF TypeInv, TypeOK
    <2> QED BY <2>1, <2>2
  <1>3. items' \in Seq(Row \cup {NoRow})
    BY <1>0, <1>2, EditedType DEF TypeInv
  <1>4. TypeOK'
    BY <1>3, EditFrame, LoopThread DEF TypeInv, TypeOK, Wrote, Phases, filing
  <1>5. HandlesExist'
    BY <1>1, EditFrame, LoopThread DEF TypeInv, TypeOK, HandlesExist
  <1>6. FilingExists'
    BY <1>1, EditFrame, LoopThread DEF TypeInv, TypeOK, FilingExists, filing
  <1> QED BY <1>4, <1>5, <1>6 DEF TypeInv

LEMMA LockTimeoutType ==
  ASSUME TypeInv, NEW t \in Threads, LockTimeout(t) PROVE TypeInv'
  <1>1. TypeOK'
    BY LoopThread, NoHeldType, NoDraftType
    DEF LockTimeout, TypeInv, TypeOK, db, Goto, Phases
  <1>2. HandlesExist'
    BY SeedCount, NoHeldType DEF LockTimeout, TypeInv, TypeOK, HandlesExist, db, Goto
  <1>3. FilingExists'
    BY LoopThread DEF LockTimeout, TypeInv, TypeOK, FilingExists, db, Goto
  <1> QED BY <1>1, <1>2, <1>3 DEF TypeInv

(* No step of any handler breaks the invariant: one case per action. *)
LEMMA NextTypeInv == TypeInv /\ [Next]_vars => TypeInv'
  <1> SUFFICES ASSUME TypeInv, [Next]_vars PROVE TypeInv'
    OBVIOUS
  <1>1. CASE UNCHANGED vars
    BY <1>1 DEF vars, TypeInv, TypeOK, HandlesExist, FilingExists
  <1>2. CASE Next
    <2>1. PICK t \in Threads : Begin(t) \/ Handle(t) \/ LockTimeout(t)
      BY <1>2 DEF Next
    <2>2. CASE Begin(t)
      BY <2>2, BeginType
    <2>3. CASE LockTimeout(t)
      BY <2>3, LockTimeoutType
    <2>4. CASE Synchronize(t)
      BY <2>4, SeedSkipType, SeedFindType, SeedWriteType, SeedConflictType, SyncListType,
         SyncSkipType, SyncPlanType, SyncWriteType, SyncDoneType DEF Synchronize
    <2>5. CASE Finish(t)
      BY <2>5, FinishType
    <2>6. CASE Review(t)
      <3>1. \A r \in DOMAIN requests :
              ReviewCheck(t, r, "approve") \/ ReviewCheck(t, r, "reject") => TypeInv'
        BY ReviewCheckType
      <3> QED BY <2>6, <3>1, ApproveTxnType, ApproveRollbackType, RejectTxnType DEF Review
    <2>7. CASE File
      <3>1. ASSUME NEW i \in DOMAIN items, NEW c \in Edits, SubmitOne(i, "update", c)
            PROVE TypeInv'
        BY <3>1, SubmitOneType, EditAssumption DEF Actions
      <3>2. ASSUME NEW i \in DOMAIN items, SubmitOne(i, "delete", NoChange) PROVE TypeInv'
        BY <3>2, SubmitOneType, NoHeldType DEF Actions
      <3>3. ASSUME NEW S \in SUBSET (DOMAIN items), NEW a \in Actions, SubmitBulk(S, a)
            PROVE TypeInv'
        BY <3>3, SubmitBulkType
      <3>4. ASSUME NEW c \in OneColumn, BulkSkip(c) \/ BulkPick(c) PROVE TypeInv'
        BY <3>4, BulkSkipType, BulkPickType, EditAssumption DEF OneColumn
      <3> QED BY <2>7, <3>1, <3>2, <3>3, <3>4, BulkAbortType, CreateCheckType,
                 CreateRefusedType, CreateTxnType DEF File
    <2>8. CASE Rebuild
      <3>1. ASSUME NEW src \in Sources, NEW scope \in Scopes,
                   NEW old \in SUBSET OldRows(src, scope), NEW new \in NewRows(src, scope),
                   ImportWrite(src, scope, old, new)
            PROVE TypeInv'
        <4>1. scope \in SUBSET Idents
          BY DEF Scopes
        <4>2. new \in Seq(Row)
          <5>1. new \in Seq({row \in Row : row.src = src /\ row.ident \in scope})
            BY BatchType DEF NewRows
          <5> QED BY <5>1
        <4> QED BY <3>1, <4>1, <4>2, ImportWriteType
      <3> QED BY <2>8, <3>1, ImportCommitType, ClearType DEF Rebuild
    <2>9. CASE EditMetadata(t)
      BY <2>9, EditMetadataType
    <2> QED BY <2>1, <2>2, <2>3, <2>4, <2>5, <2>6, <2>7, <2>8, <2>9 DEF Handle
  <1> QED BY <1>1, <1>2

(* Every reachable state is well typed, and no handler ever refers to a row or
   a request that does not exist, however many handlers interleave. *)
THEOREM TypeCorrect == Spec => []TypeOK
  <1>1. Spec => []TypeInv
    BY InitTypeInv, NextTypeInv, PTL DEF Spec
  <1> QED BY <1>1, PTL DEF TypeInv

--------------------------------------------------------------------------------
(* Safety: how a step may touch the correction tables                          *)

(* What a request is known by: all that no later step may alter. *)
Mark(q) == [action |-> q.action, ident |-> q.ident, change |-> q.change,
            seed |-> q.seed]

(* The four ways a step may touch the correction tables. *)
RequestsKept ==
  /\ DOMAIN requests' = DOMAIN requests
  /\ \A r \in DOMAIN requests : /\ Mark(requests'[r]) = Mark(requests[r])
                                /\ requests'[r].status = requests[r].status
  /\ decisions' = decisions

RequestAdded(q, d) ==
  requests' = Append(requests, q) /\ decisions' = Append(decisions, d)

RequestDecided(r, d) ==
  /\ DOMAIN requests' = DOMAIN requests
  /\ \A r2 \in DOMAIN requests \ {r} : requests'[r2] = requests[r2]
  /\ Mark(requests'[r]) = Mark(requests[r])
  /\ requests'[r].status = d
  /\ Decide(r, d)

RequestStep ==
  \/ RequestsKept
  \/ /\ pc[Loop] = "create" /\ pc'[Loop] # "create"
     /\ RequestAdded(Pending, <<>>)
  \/ \E q \in Request :
        /\ q.status = "approved" /\ q.seed # 0 /\ ~ SeedRequestExists(q.seed)
        /\ q.action = "update" /\ q.change.ident = Keep
        /\ RequestAdded(q, <<"approved">>)
  \/ \E r \in DOMAIN requests : \E d \in {"approved", "rejected"} :
        RequestDecided(r, d)

LEMMA UntouchedRequests ==
  UNCHANGED <<requests, decisions>> => RequestsKept
  BY DEF RequestsKept

LEMMA SyncWriteRequests ==
  ASSUME TypeInv, NEW t \in Threads, SyncWrite(t) PROVE RequestsKept
  <1> DEFINE h == held[t]
             r == h.req
  <1>1. r \in DOMAIN requests /\ requests[r] \in Request
    BY RequestsTyped DEF SyncWrite, TypeInv, HandlesExist
  <1>2. decisions' = decisions
    BY DEF SyncWrite
  <1>3. \/ requests' = requests
        \/ requests' = [requests EXCEPT ![r] =
              [requests[r] EXCEPT !.item = h.item, !.applied = TRUE]]
    BY DEF SyncWrite
  <1>4. /\ Mark([requests[r] EXCEPT !.item = h.item, !.applied = TRUE]) = Mark(requests[r])
        /\ [requests[r] EXCEPT !.item = h.item, !.applied = TRUE].status = requests[r].status
    BY <1>1 DEF Mark, Request
  <1> HIDE DEF h, r
  <1>5. CASE requests' = requests
    BY <1>2, <1>5, UntouchedRequests
  <1>6. CASE requests' = [requests EXCEPT ![r] =
              [requests[r] EXCEPT !.item = h.item, !.applied = TRUE]]
    <2>1. DOMAIN requests' = DOMAIN requests
      BY <1>6
    <2>2. \A r2 \in DOMAIN requests : /\ Mark(requests'[r2]) = Mark(requests[r2])
                                      /\ requests'[r2].status = requests[r2].status
      BY <1>1, <1>4, <1>6 DEF TypeInv, TypeOK
    <2> QED BY <1>2, <2>1, <2>2 DEF RequestsKept
  <1> QED BY <1>3, <1>5, <1>6

LEMMA SeedWriteAdds ==
  ASSUME TypeInv, NEW t \in Threads, SeedWrite(t)
  PROVE  /\ seedPos[t] # 0
         /\ \E q2 \in Request : /\ requests' = Append(requests, q2)
                               /\ q2.status = "approved" /\ q2.seed = seedPos[t]
                               /\ q2.action = "update" /\ q2.change.ident = Keep
  <1> DEFINE k == seedPos[t]
             q == SeedRequest(k, held[t])
  <1>0. pc[t] = "seedwrite"
    BY DEF SeedWrite
  <1>1. k \in 1 .. Len(SeedList) /\ SeedList[k].ident \in Idents /\ SeedList[k].val \in Values
    <2>1. k \in 1 .. Len(SeedList)
      BY <1>0, SeedCount DEF TypeInv, TypeOK, HandlesExist
    <2> QED BY <2>1, SeedsTyped
  <1>2. /\ q \in Request /\ q.status = "approved" /\ q.seed = k
        /\ q.action = "update" /\ q.change.ident = Keep
    BY <1>1, SeedCount, SMTT(30)
    DEF SeedRequest, TypeInv, TypeOK, Held, Request, Actions, Statuses, Change
  <1>3. \E q2 \in Request : /\ requests' = Append(requests, q2)
                           /\ q2.status = "approved" /\ q2.seed = k
                           /\ q2.action = "update" /\ q2.change.ident = Keep
    <2>1. CASE requests' = Append(requests, q)
      BY <2>1, <1>2
    <2>2. CASE \E i \in Target(q.item, q) :
                 requests' = Append(requests, [q EXCEPT !.item = i, !.applied = TRUE])
      <3>1. PICK i \in Target(q.item, q) :
              requests' = Append(requests, [q EXCEPT !.item = i, !.applied = TRUE])
        BY <2>2
      <3>2. i \in Nat
        BY TargetInItems, LiveRows DEF TypeInv
      <3>3. [q EXCEPT !.item = i, !.applied = TRUE] \in Request
        BY <3>2, <1>2, AppliedRequest
      <3>4. /\ [q EXCEPT !.item = i, !.applied = TRUE].status = "approved"
            /\ [q EXCEPT !.item = i, !.applied = TRUE].seed = k
            /\ [q EXCEPT !.item = i, !.applied = TRUE].action = "update"
            /\ [q EXCEPT !.item = i, !.applied = TRUE].change.ident = Keep
        BY <1>2 DEF Request
      <3> QED BY <3>1, <3>3, <3>4
    <2> QED BY <2>1, <2>2 DEF SeedWrite
  <1> QED BY <1>1, <1>3, SeedCount

LEMMA SeedWriteRequests ==
  ASSUME TypeInv, NEW t \in Threads, SeedWrite(t) PROVE RequestStep
  <1>1. PICK q \in Request : /\ requests' = Append(requests, q)
                             /\ q.status = "approved" /\ q.seed = seedPos[t]
                             /\ q.action = "update" /\ q.change.ident = Keep
    BY SeedWriteAdds
  <1>2. /\ decisions' = Append(decisions, <<"approved">>)
        /\ ~ SeedRequestExists(seedPos[t])
    BY DEF SeedWrite, SeedKeyTaken
  <1> QED BY <1>1, <1>2, SeedWriteAdds DEF RequestStep, RequestAdded

LEMMA CreateTxnRequests ==
  ASSUME TypeInv, CreateTxn PROVE RequestStep
  <1>1. pc[Loop] = "create" /\ NextRow(draft.item)
    BY DEF CreateTxn
  <1>2. pc'[Loop] # "create"
    BY <1>1, LoopThread DEF NextRow, Goto, TypeInv, TypeOK
  <1>3. RequestAdded(Pending, <<>>)
    BY DEF CreateTxn, Pending, RequestAdded
  <1> QED BY <1>1, <1>2, <1>3 DEF RequestStep

LEMMA DecidedRequests ==
  ASSUME TypeInv, NEW r \in DOMAIN requests, NEW q \in Request,
         NEW d \in {"approved", "rejected"},
         requests' = [requests EXCEPT ![r] = q], Decide(r, d),
         Mark(q) = Mark(requests[r]), q.status = d
  PROVE  RequestStep
  <1>1. RequestDecided(r, d)
    BY Decided DEF RequestDecided, TypeInv
  <1> QED BY <1>1 DEF RequestStep

LEMMA ApproveTxnRequests ==
  ASSUME TypeInv, NEW t \in Threads, ApproveTxn(t) PROVE RequestStep
  <1> DEFINE r == held[t].req
  <1>1. r \in DOMAIN requests /\ requests[r] \in Request
    BY RequestsTyped DEF ApproveTxn, TypeInv, HandlesExist
  <1>2. Decide(r, "approved")
    BY DEF ApproveTxn
  <1>3. PICK i \in Live :
          \E q2 \in {[requests[r] EXCEPT !.status = "approved", !.item = i, !.applied = TRUE],
                     [requests[r] EXCEPT !.status = "approved"]} :
                requests' = [requests EXCEPT ![r] = q2]
    BY TargetInItems DEF ApproveTxn
  <1> HIDE DEF r
  <1>4. i \in Nat
    BY LiveRows DEF TypeInv
  <1>5. PICK q2 \in {[requests[r] EXCEPT !.status = "approved", !.item = i, !.applied = TRUE],
                     [requests[r] EXCEPT !.status = "approved"]} :
                requests' = [requests EXCEPT ![r] = q2]
    BY <1>3
  <1>6. q2 \in Request
    BY <1>1, <1>4, <1>5, AppliedRequest
  <1>7. Mark(q2) = Mark(requests[r]) /\ q2.status = "approved"
    <2>1. CASE q2 = [requests[r] EXCEPT !.status = "approved"]
      BY <1>1, <2>1 DEF Mark, Request
    <2>2. CASE q2 = [requests[r] EXCEPT !.status = "approved", !.item = i, !.applied = TRUE]
      BY <1>1, <2>2 DEF Mark, Request
    <2> QED BY <1>5, <2>1, <2>2
  <1> QED BY <1>1, <1>2, <1>5, <1>6, <1>7, DecidedRequests

LEMMA RejectTxnRequests ==
  ASSUME TypeInv, NEW t \in Threads, RejectTxn(t) PROVE RequestStep
  <1> DEFINE r == held[t].req
             q == [requests[r] EXCEPT !.status = "rejected"]
  <1>1. r \in DOMAIN requests /\ requests[r] \in Request
    BY RequestsTyped DEF RejectTxn, TypeInv, HandlesExist
  <1>2. Decide(r, "rejected") /\ requests' = [requests EXCEPT ![r] = q]
    BY DEF RejectTxn
  <1>3. q \in Request
    BY <1>1, AppliedRequest
  <1>4. Mark(q) = Mark(requests[r]) /\ q.status = "rejected"
    BY <1>1 DEF Mark, Request
  <1> HIDE DEF r, q
  <1> QED BY <1>1, <1>2, <1>3, <1>4, DecidedRequests

(* Every step is one of the four. *)
LEMMA RequestSteps == TypeInv /\ [Next]_vars => RequestStep
  <1> SUFFICES ASSUME TypeInv, [Next]_vars PROVE RequestStep
    OBVIOUS
  <1>0. UNCHANGED <<requests, decisions>> => RequestStep
    BY UntouchedRequests DEF RequestStep
  <1>1. CASE UNCHANGED vars
    BY <1>0, <1>1 DEF vars
  <1>2. CASE Next
    <2>1. PICK t \in Threads : Begin(t) \/ Handle(t) \/ LockTimeout(t)
      BY <1>2 DEF Next
    <2>2. CASE Begin(t) \/ LockTimeout(t) \/ Finish(t)
      BY <1>0, <2>2 DEF Begin, LockTimeout, Finish, db
    <2>3. CASE Synchronize(t)
      <3>1. SyncWrite(t) => RequestStep
        BY SyncWriteRequests DEF RequestStep
      <3> QED BY <1>0, <2>3, <3>1, SeedWriteRequests
          DEF Synchronize, SeedSkip, SeedFind, SeedConflict, SyncList, SyncSkip,
              SyncPlan, SyncDone, db
    <2>4. CASE Review(t)
      BY <1>0, <2>4, ApproveTxnRequests, RejectTxnRequests
      DEF Review, ReviewCheck, ApproveRollback, db
    <2>5. CASE File
      BY <1>0, <2>5, CreateTxnRequests
      DEF File, SubmitOne, SubmitBulk, BulkSkip, BulkPick, BulkAbort, CreateCheck,
          CreateRefused, db
    <2>6. CASE Rebuild
      BY <1>0, <2>6 DEF Rebuild, ImportWrite, ImportCommit, Clear, db
    <2>7. CASE EditMetadata(t)
      BY <1>0, <2>7, EditFrame
    <2> QED BY <2>1, <2>2, <2>3, <2>4, <2>5, <2>6, <2>7 DEF Handle
  <1> QED BY <1>1, <1>2

--------------------------------------------------------------------------------
(* The audit log                                                               *)

LEMMA MarkFields ==
  ASSUME NEW p, NEW q, Mark(p) = Mark(q)
  PROVE  /\ p.action = q.action /\ p.ident = q.ident /\ p.change = q.change
         /\ p.seed = q.seed
  BY DEF Mark

LastDecision(log) == IF log = <<>> THEN "pending" ELSE log[Len(log)]

LEMMA LastAppended ==
  ASSUME NEW log \in Seq({"approved", "rejected"}), NEW d \in {"approved", "rejected"}
  PROVE  LastDecision(Append(log, d)) = d
  BY DEF LastDecision

LEMMA StatusStep ==
  TypeInv /\ RequestStep /\ StatusIsLastDecision => StatusIsLastDecision'
  <1> USE DEF StatusIsLastDecision
  <1> SUFFICES ASSUME TypeInv, RequestStep, StatusIsLastDecision,
                      NEW r \in DOMAIN requests'
               PROVE  requests'[r].status = LastDecision(decisions'[r])
    BY DEF LastDecision
  <1>0. \A r2 \in DOMAIN requests : requests[r2].status = LastDecision(decisions[r2])
    BY DEF LastDecision
  <1>1. CASE RequestsKept
    BY <1>0, <1>1, MarkFields DEF RequestsKept
  <1>2. ASSUME NEW q \in Request, NEW d \in Seq({"approved", "rejected"}),
               RequestAdded(q, d), q.status = LastDecision(d)
        PROVE  requests'[r].status = LastDecision(decisions'[r])
    <2>1. /\ DOMAIN requests' = DOMAIN requests \cup {Len(requests) + 1}
          /\ \A r2 \in DOMAIN requests :
               requests'[r2] = requests[r2] /\ decisions'[r2] = decisions[r2]
          /\ requests'[Len(requests) + 1] = q
          /\ decisions'[Len(requests) + 1] = d
      BY <1>2, Added DEF RequestAdded, TypeInv
    <2> QED BY <1>0, <1>2, <2>1
  <1>3. CASE RequestAdded(Pending, <<>>)
    <2>1. /\ Pending \in Request /\ Pending.status = LastDecision(<<>>)
          /\ <<>> \in Seq({"approved", "rejected"})
      BY PendingType DEF TypeInv, Pending, LastDecision
    <2> QED BY <1>2, <1>3, <2>1
  <1>4. CASE \E q \in Request : q.status = "approved" /\ RequestAdded(q, <<"approved">>)
    <2>1. LastDecision(<<"approved">>) = "approved"
      BY DEF LastDecision
    <2>2. <<"approved">> \in Seq({"approved", "rejected"})
      OBVIOUS
    <2> QED BY <1>2, <1>4, <2>1, <2>2
  <1>5. ASSUME NEW r2 \in DOMAIN requests, NEW d \in {"approved", "rejected"},
               RequestDecided(r2, d)
        PROVE  requests'[r].status = LastDecision(decisions'[r])
    <2>1. r2 \in DOMAIN decisions /\ decisions[r2] \in Seq({"approved", "rejected"})
      BY Domains DEF TypeInv, TypeOK
    <2>2. CASE r = r2
      BY <1>5, <2>1, <2>2, LastAppended, MarkFields DEF RequestDecided, Decide
    <2>3. CASE r # r2
      BY <1>0, <1>5, <2>3 DEF RequestDecided, Decide
    <2> QED BY <2>2, <2>3
  <1> QED BY <1>1, <1>3, <1>4, <1>5 DEF RequestStep

(* However many reviewers decide on the same correction at once, its status is
   the last decision in its audit log. *)
THEOREM StatusFollowsLog == Spec => []StatusIsLastDecision
  <1>1. Init => StatusIsLastDecision
    BY DEF Init, StatusIsLastDecision
  <1>2. UNCHANGED vars /\ StatusIsLastDecision => StatusIsLastDecision'
    BY DEF vars, StatusIsLastDecision
  <1>3. TypeInv /\ StatusIsLastDecision /\ [Next]_vars
          => TypeInv' /\ StatusIsLastDecision'
    BY NextTypeInv, RequestSteps, StatusStep
  <1> QED BY <1>1, <1>3, InitTypeInv, PTL DEF Spec

--------------------------------------------------------------------------------
(* Seeds and the order of corrections                                          *)

LEMMA SeedStep ==
  TypeInv /\ RequestStep /\ SeedOnce => SeedOnce'
  <1> SUFFICES ASSUME TypeInv, RequestStep, SeedOnce,
                      NEW r1 \in DOMAIN requests', NEW r2 \in DOMAIN requests',
                      requests'[r1].seed = requests'[r2].seed, requests'[r1].seed # 0
               PROVE  r1 = r2
    BY DEF SeedOnce
  <1>1. CASE RequestsKept
    BY <1>1, MarkFields DEF RequestsKept, SeedOnce
  <1>2. ASSUME NEW q \in Request, NEW d \in Seq({"approved", "rejected"}),
               RequestAdded(q, d), q.seed # 0 => ~ SeedRequestExists(q.seed)
        PROVE  r1 = r2
    <2>1. /\ DOMAIN requests' = DOMAIN requests \cup {Len(requests) + 1}
          /\ \A r \in DOMAIN requests : requests'[r] = requests[r]
          /\ requests'[Len(requests) + 1] = q
      BY <1>2, Added DEF RequestAdded, TypeInv
    <2> QED BY <1>2, <2>1 DEF SeedOnce, SeedRequestExists
  <1>3. CASE RequestAdded(Pending, <<>>)
    <2>1. Pending \in Request /\ Pending.seed = 0 /\ <<>> \in Seq({"approved", "rejected"})
      BY PendingType DEF TypeInv, Pending
    <2> QED BY <1>2, <1>3, <2>1
  <1>4. CASE \E q \in Request : /\ ~ SeedRequestExists(q.seed)
                                /\ RequestAdded(q, <<"approved">>)
    <2>1. <<"approved">> \in Seq({"approved", "rejected"})
      OBVIOUS
    <2> QED BY <1>2, <1>4, <2>1
  <1>5. CASE \E r \in DOMAIN requests : \E d \in {"approved", "rejected"} :
                RequestDecided(r, d)
    <2>1. PICK r \in DOMAIN requests, d \in {"approved", "rejected"} : RequestDecided(r, d)
      BY <1>5
    <2>2. \A r3 \in DOMAIN requests : requests'[r3].seed = requests[r3].seed
      BY <2>1, MarkFields DEF RequestDecided
    <2> QED BY <2>1, <2>2 DEF RequestDecided, SeedOnce
  <1> QED BY <1>1, <1>3, <1>4, <1>5 DEF RequestStep

(* Each expert correction is stored at most once, however many handlers find it
   unseeded at the same time. *)
THEOREM SeedsStoredOnce == Spec => []SeedOnce
  <1>1. Init => SeedOnce
    BY DEF Init, SeedOnce
  <1>2. TypeInv /\ SeedOnce /\ [Next]_vars => TypeInv' /\ SeedOnce'
    BY NextTypeInv, RequestSteps, SeedStep
  <1> QED BY <1>1, <1>2, InitTypeInv, PTL DEF Spec

(* The check for a pending correction still holds when the transaction it was
   made for runs. *)
NoRivalPending ==
  pc[Loop] = "create" => ~ PendingExists(draft.action, draft.ident)

OrderInv == LatestOnlyPending /\ NoRivalPending

(* Between the check and the transaction nobody else files. *)
LEMMA CreateReached ==
  TypeInv /\ [Next]_vars /\ pc'[Loop] = "create" =>
    \/ pc[Loop] = "create" /\ draft' = draft
    \/ CreateCheck
  <1> SUFFICES ASSUME TypeInv, [Next]_vars, pc'[Loop] = "create"
               PROVE  (pc[Loop] = "create" /\ draft' = draft) \/ CreateCheck
    OBVIOUS
  <1> USE LoopThread
  <1>0. pc \in [Threads -> Phases]
    BY DEF TypeInv, TypeOK
  <1>1. CASE UNCHANGED vars
    BY <1>1 DEF vars
  <1>2. CASE Next
    <2>1. PICK t \in Threads : Begin(t) \/ Handle(t) \/ LockTimeout(t)
      BY <1>2 DEF Next
    <2>2. CASE Begin(t) \/ LockTimeout(t) \/ Finish(t)
      BY <1>0, <2>2, SMTT(30) DEF Begin, LockTimeout, Finish, Goto, filing
    <2>3. CASE Synchronize(t)
      BY <1>0, <2>3
      DEF Synchronize, SeedSkip, SeedFind, SeedWrite, SeedConflict, SyncList, SyncSkip,
          SyncPlan, SyncWrite, SyncDone, Goto, filing
    <2>4. CASE Review(t)
      BY <1>0, <2>4
      DEF Review, ReviewCheck, ApproveTxn, ApproveRollback, RejectTxn, Goto, filing
    <2>5. CASE File
      BY <1>0, <2>5
      DEF File, SubmitOne, SubmitBulk, BulkSkip, BulkPick, BulkAbort, CreateRefused,
          CreateTxn, NextRow, Goto
    <2>6. CASE Rebuild
      BY <1>0, <2>6 DEF Rebuild, ImportWrite, ImportCommit, Clear, Goto
    <2>7. CASE EditMetadata(t)
      BY <1>0, <2>7, EditFrame DEF filing
    <2> QED BY <2>1, <2>2, <2>3, <2>4, <2>5, <2>6, <2>7 DEF Handle
  <1> QED BY <1>1, <1>2

LEMMA OrderStep == TypeInv /\ OrderInv /\ [Next]_vars => OrderInv'
  <1> SUFFICES ASSUME TypeInv, OrderInv, [Next]_vars PROVE OrderInv'
    OBVIOUS
  <1> DEFINE Same(r) == /\ requests'[r].action = requests[r].action
                        /\ requests'[r].ident = requests[r].ident
                        /\ requests'[r].seed = requests[r].seed
             Older == \A r \in DOMAIN requests :
                        /\ Same(r)
                        /\ requests'[r].status = "pending" => requests[r].status = "pending"
  <1>1. \/ DOMAIN requests' = DOMAIN requests /\ Older
        \/ \E q \in Request :
              /\ DOMAIN requests' = DOMAIN requests \cup {Len(requests) + 1}
              /\ Older
              /\ requests'[Len(requests) + 1] = q
              /\ \/ pc[Loop] = "create" /\ pc'[Loop] # "create" /\ q = Pending
                 \/ q.status = "approved" /\ q.seed # 0
    <2>1. RequestStep
      BY RequestSteps
    <2>2. CASE RequestsKept
      BY <2>2, MarkFields DEF RequestsKept
    <2>3. ASSUME NEW q \in Request, NEW d \in Seq({"approved", "rejected"}),
                 RequestAdded(q, d)
          PROVE  /\ DOMAIN requests' = DOMAIN requests \cup {Len(requests) + 1}
                 /\ Older
                 /\ requests'[Len(requests) + 1] = q
      BY <2>3, Added DEF RequestAdded, TypeInv
    <2>4. CASE RequestAdded(Pending, <<>>) /\ pc[Loop] = "create" /\ pc'[Loop] # "create"
      <3>1. Pending \in Request /\ <<>> \in Seq({"approved", "rejected"})
        BY PendingType DEF TypeInv
      <3> HIDE DEF Older
      <3> QED BY <2>3, <2>4, <3>1
    <2>5. CASE \E q \in Request : /\ q.status = "approved" /\ q.seed # 0
                                  /\ RequestAdded(q, <<"approved">>)
      <3>1. <<"approved">> \in Seq({"approved", "rejected"})
        OBVIOUS
      <3> HIDE DEF Older
      <3> QED BY <2>3, <2>5, <3>1
    <2>6. CASE \E r \in DOMAIN requests : \E d \in {"approved", "rejected"} :
                  RequestDecided(r, d)
      <3>1. PICK r \in DOMAIN requests, d \in {"approved", "rejected"} : RequestDecided(r, d)
        BY <2>6
      <3>2. Same(r) /\ requests'[r].status # "pending"
        BY <3>1, MarkFields DEF RequestDecided
      <3> QED BY <3>1, <3>2 DEF RequestDecided
    <2> HIDE DEF Older
    <2> QED BY <2>1, <2>2, <2>4, <2>5, <2>6 DEF RequestStep
  <1>2. \A r \in DOMAIN requests : r \in Nat /\ r < Len(requests) + 1
    BY DEF TypeInv, TypeOK
  <1>3. LatestOnlyPending'
    <2> SUFFICES ASSUME NEW r1 \in DOMAIN requests', NEW r2 \in DOMAIN requests', r1 < r2,
                        requests'[r1].action = requests'[r2].action,
                        requests'[r1].ident = requests'[r2].ident,
                        requests'[r2].seed = 0, requests'[r1].status = "pending"
                 PROVE  FALSE
      BY DEF LatestOnlyPending
    <2>1. CASE DOMAIN requests' = DOMAIN requests /\ Older
      BY <2>1 DEF OrderInv, LatestOnlyPending
    <2>2. ASSUME NEW q \in Request,
                 DOMAIN requests' = DOMAIN requests \cup {Len(requests) + 1}, Older,
                 requests'[Len(requests) + 1] = q,
                 \/ pc[Loop] = "create" /\ q = Pending
                 \/ q.status = "approved" /\ q.seed # 0
          PROVE  FALSE
      <3>1. CASE r2 \in DOMAIN requests
        <4>1. r1 \in DOMAIN requests
          BY <1>2, <2>2, <3>1 DEF TypeInv, TypeOK
        <4> QED BY <2>2, <3>1, <4>1 DEF OrderInv, LatestOnlyPending
      <3>2. CASE r2 = Len(requests) + 1 /\ r1 \in DOMAIN requests
        <4>1. q.seed = 0
          BY <2>2, <3>2
        <4>2. pc[Loop] = "create" /\ q = Pending
          BY <2>2, <4>1
        <4>3. requests[r1].action = draft.action /\ requests[r1].ident = draft.ident
          BY <2>2, <3>2, <4>2 DEF Pending
        <4>4. requests[r1].status = "pending"
          BY <2>2, <3>2
        <4> QED BY <3>2, <4>2, <4>3, <4>4 DEF OrderInv, NoRivalPending, PendingExists
      <3>3. r1 # Len(requests) + 1
        BY <1>2, <2>2 DEF TypeInv, TypeOK
      <3> QED BY <2>2, <3>1, <3>2, <3>3
    <2> HIDE DEF Older
    <2> QED BY <1>1, <2>1, <2>2
  <1>4. NoRivalPending'
    <2> SUFFICES ASSUME pc'[Loop] = "create" PROVE ~ PendingExists(draft.action, draft.ident)'
      BY DEF NoRivalPending
    <2>1. CASE pc[Loop] = "create" /\ draft' = draft
      <3>1. ~ PendingExists(draft.action, draft.ident)
        BY <2>1 DEF OrderInv, NoRivalPending
      <3>2. CASE DOMAIN requests' = DOMAIN requests /\ Older
        BY <2>1, <3>1, <3>2 DEF PendingExists
      <3>3. CASE /\ DOMAIN requests' = DOMAIN requests \cup {Len(requests) + 1}
                 /\ Older
                 /\ requests'[Len(requests) + 1].status = "approved"
        BY <2>1, <3>1, <3>3 DEF PendingExists
      <3> HIDE DEF Older
      <3> QED BY <1>1, <3>2, <3>3
    <2>2. CASE CreateCheck
      <3>1. requests' = requests
        BY <2>2 DEF CreateCheck, db
      <3>2. ~ PendingExists(draft.action, items[draft.item].ident)
        BY <2>2 DEF CreateCheck, Fileable
      <3>3. draft'.action = draft.action /\ draft'.ident = items[draft.item].ident
        BY <2>2 DEF CreateCheck, TypeInv, TypeOK, Draft
      <3> QED BY <3>1, <3>2, <3>3 DEF PendingExists
    <2> QED BY <2>1, <2>2, CreateReached
  <1> QED BY <1>3, <1>4 DEF OrderInv

(* A user's correction always comes after every decided rival and next to no
   pending one, so replaying approved corrections in id order replays them in
   the order in which they were asked for. *)
THEOREM RivalsDecidedFirst == Spec => []LatestOnlyPending
  <1>1. Init => OrderInv
    BY LoopThread DEF Init, OrderInv, LatestOnlyPending, NoRivalPending
  <1>2. TypeInv /\ OrderInv /\ [Next]_vars => TypeInv' /\ OrderInv'
    BY NextTypeInv, OrderStep
  <1>3. Spec => [](TypeInv /\ OrderInv)
    BY <1>1, <1>2, InitTypeInv, PTL DEF Spec
  <1> QED BY <1>3, PTL DEF OrderInv

--------------------------------------------------------------------------------
(* Every step of every handler is a step of ApprovedOverlay, or leaves it      *)
(* where it is.                                                                *)

Logged(r, log) == \E n \in DOMAIN log[r] : log[r][n] = "approved"

(* columns c are some of the columns change asks for *)
Part(c, change) ==
  c.ident \in {Keep, change.ident} /\ c.val \in {Keep, change.val}

(* What a handler is about to reapply was approved, though it may have been
   rejected since; and it writes nothing else. *)
ReapplyInv ==
  \A t \in Threads :
     /\ \A k \in todo[t] : Logged(k.req, decisions)
     /\ pc[t] = "write" => /\ Logged(held[t].req, decisions)
                           /\ Part(held[t].set, requests[held[t].req].change)

RefInv == TypeInv /\ StatusIsLastDecision /\ ReapplyInv

LEMMA ApprovedIsLogged ==
  ASSUME TypeInv, StatusIsLastDecision, NEW r \in Approved
  PROVE  r \in DOMAIN requests /\ Logged(r, decisions)
  <1>1. r \in DOMAIN requests /\ requests[r].status = "approved"
    BY DEF Approved
  <1>2. decisions[r] \in Seq({"approved", "rejected"})
    BY <1>1, Domains DEF TypeInv, TypeOK
  <1>3. decisions[r] # <<>> /\ decisions[r][Len(decisions[r])] = "approved"
    BY <1>1 DEF StatusIsLastDecision
  <1> QED BY <1>1, <1>2, <1>3 DEF Logged

LEMMA MissingPart ==
  ASSUME NEW row, NEW c PROVE Part(Missing(row, c), c)
  BY DEF Part, Missing

LEMMA LogGrows ==
  ASSUME TypeInv, RequestStep, NEW r \in DOMAIN requests
  PROVE  /\ r \in DOMAIN requests'
         /\ Logged(r, decisions) => Logged(r, decisions')
         /\ requests'[r].change = requests[r].change
  <1>1. CASE RequestsKept
    BY <1>1, MarkFields DEF RequestsKept, Logged
  <1>2. ASSUME NEW q \in Request, NEW d \in Seq({"approved", "rejected"}), RequestAdded(q, d)
        PROVE  r \in DOMAIN requests' /\ requests'[r] = requests[r]
               /\ decisions'[r] = decisions[r]
    BY <1>2, Added DEF RequestAdded, TypeInv
  <1>3. <<>> \in Seq({"approved", "rejected"}) /\ <<"approved">> \in Seq({"approved", "rejected"})
    OBVIOUS
  <1>4. Pending \in Request
    BY PendingType DEF TypeInv
  <1>5. CASE RequestAdded(Pending, <<>>)
    BY <1>2, <1>3, <1>4, <1>5 DEF Logged
  <1>6. CASE \E q \in Request : RequestAdded(q, <<"approved">>)
    BY <1>2, <1>3, <1>6 DEF Logged
  <1>7. ASSUME NEW r2 \in DOMAIN requests, NEW d \in {"approved", "rejected"},
               RequestDecided(r2, d)
        PROVE  r \in DOMAIN requests' /\ (Logged(r, decisions) => Logged(r, decisions'))
               /\ requests'[r].change = requests[r].change
    <2>1. decisions[r2] \in Seq({"approved", "rejected"}) /\ r2 \in DOMAIN decisions
      BY Domains DEF TypeInv, TypeOK
    <2>2. CASE r = r2
      <3>1. decisions'[r] = Append(decisions[r], d)
        BY <1>7, <2>1, <2>2 DEF RequestDecided, Decide
      <3>2. \A n \in DOMAIN decisions[r] :
               n \in DOMAIN decisions'[r] /\ decisions'[r][n] = decisions[r][n]
        BY <2>1, <2>2, <3>1
      <3> QED BY <1>7, <2>2, <3>2, MarkFields DEF RequestDecided, Logged
    <2>3. CASE r # r2
      BY <1>7, <2>3 DEF RequestDecided, Decide, Logged
    <2> QED BY <2>2, <2>3
  <1> QED BY <1>1, <1>5, <1>6, <1>7 DEF RequestStep

(* a handler's todo list only shrinks, save when it lists the approved ones;
   and it plans to write only what is on the list *)
LEMMA TodoStep ==
  ASSUME TypeInv, [Next]_vars, NEW u \in Threads
  PROVE  /\ \/ todo'[u] \subseteq todo[u]
            \/ todo'[u] = {[req |-> r, item |-> requests[r].item] : r \in Approved}
         /\ pc'[u] = "write" =>
              \/ pc[u] = "write" /\ held'[u] = held[u]
              \/ \E k \in todo[u] : \E i \in DOMAIN items :
                    /\ held'[u].req = k.req
                    /\ held'[u].set = Missing(items[i], requests[k.req].change)
  <1> DEFINE Shrinks == todo'[u] \subseteq todo[u]
             Waits   == pc'[u] = "write" => pc[u] = "write" /\ held'[u] = held[u]
  <1>0. /\ pc \in [Threads -> Phases] /\ todo \in [Threads -> SUBSET Ticket]
        /\ held \in [Threads -> Held] /\ Loop \in Threads
    BY LoopThread DEF TypeInv, TypeOK
  <1>1. CASE UNCHANGED vars
    BY <1>1 DEF vars
  <1>2. CASE Next
    <2>1. PICK t \in Threads : Begin(t) \/ Handle(t) \/ LockTimeout(t)
      BY <1>2 DEF Next
    <2>2. CASE Begin(t) \/ LockTimeout(t) \/ Finish(t)
      BY <1>0, <2>2 DEF Begin, LockTimeout, Finish, Goto
    <2>3. CASE SyncList(t)
      BY <1>0, <2>3 DEF SyncList, Goto
    <2>4. CASE SyncPlan(t)
      <3>1. PICK k \in todo[t], i \in Live :
              /\ held' = [held EXCEPT ![t] =
                   [req |-> k.req, item |-> i, src |-> items[i].src,
                    set |-> Missing(items[i], requests[k.req].change)]]
              /\ todo' = [todo EXCEPT ![t] = @ \ {k}]
              /\ pc' = [pc EXCEPT ![t] = "write"]
        BY <2>4, TargetInItems DEF SyncPlan, First, Goto
      <3>2. i \in DOMAIN items
        BY DEF Live
      <3>3. CASE u = t
        <4>1. /\ held'[u].req = k.req
              /\ held'[u].set = Missing(items[i], requests[k.req].change)
          BY <1>0, <3>1, <3>3
        <4> QED BY <1>0, <3>1, <3>2, <3>3, <4>1
      <3>4. CASE u # t
        BY <1>0, <3>1, <3>4, SMTT(30)
      <3> QED BY <3>3, <3>4
    <2>5. CASE SeedSkip(t) \/ SeedFind(t) \/ SeedWrite(t) \/ SeedConflict(t)
      BY <1>0, <2>5 DEF SeedSkip, SeedFind, SeedWrite, SeedConflict, Goto
    <2>6. CASE SyncSkip(t) \/ SyncWrite(t) \/ SyncDone(t)
      BY <1>0, <2>6 DEF SyncSkip, SyncWrite, SyncDone, Goto
    <2>7. CASE Review(t)
      BY <1>0, <2>7
      DEF Review, ReviewCheck, ApproveTxn, ApproveRollback, RejectTxn, Goto
    <2>8. CASE File
      BY <1>0, <2>8
      DEF File, SubmitOne, SubmitBulk, BulkSkip, BulkPick, BulkAbort, CreateCheck,
          CreateRefused, CreateTxn, NextRow, Goto
    <2>9. CASE Rebuild
      BY <1>0, <2>9 DEF Rebuild, ImportWrite, ImportCommit, Clear, Goto
    <2>10. CASE EditMetadata(t)
      BY <1>0, <2>10, EditFrame
    <2> QED BY <2>1, <2>2, <2>3, <2>4, <2>5, <2>6, <2>7, <2>8, <2>9, <2>10
        DEF Handle, Synchronize
  <1> QED BY <1>1, <1>2

LEMMA ReapplyStep == RefInv /\ [Next]_vars => ReapplyInv'
  <1> SUFFICES ASSUME RefInv, [Next]_vars, NEW t \in Threads
               PROVE  /\ \A k \in todo'[t] : Logged(k.req, decisions')
                      /\ pc'[t] = "write" =>
                           /\ Logged(held'[t].req, decisions')
                           /\ Part(held'[t].set, requests'[held'[t].req].change)
    BY DEF ReapplyInv, Part
  <1> USE DEF RefInv
  <1>1. \A r \in DOMAIN requests : Logged(r, decisions) => Logged(r, decisions')
    BY RequestSteps, LogGrows
  <1>2. \A r \in DOMAIN requests : requests'[r].change = requests[r].change
    BY RequestSteps, LogGrows
  <1>3. \A k \in todo[t] : k.req \in DOMAIN requests /\ Logged(k.req, decisions)
    BY DEF ReapplyInv, TypeInv, HandlesExist
  <1>4. \A k \in todo'[t] : Logged(k.req, decisions')
    <2>1. CASE todo'[t] \subseteq todo[t]
      BY <1>1, <1>3, <2>1
    <2>2. CASE todo'[t] = {[req |-> r, item |-> requests[r].item] : r \in Approved}
      BY <1>1, <2>2, ApprovedIsLogged
    <2> QED BY <2>1, <2>2, TodoStep
  <1>5. ASSUME pc'[t] = "write"
        PROVE  Logged(held'[t].req, decisions') /\ Part(held'[t].set, requests'[held'[t].req].change)
    <2>1. CASE pc[t] = "write" /\ held'[t] = held[t]
      <3>1. /\ held[t].req \in DOMAIN requests /\ Logged(held[t].req, decisions)
            /\ Part(held[t].set, requests[held[t].req].change)
        BY <2>1 DEF ReapplyInv, TypeInv, HandlesExist
      <3>2. Logged(held[t].req, decisions')
        BY <2>1, <3>1, <1>1
      <3> QED BY <1>1, <1>2, <2>1, <3>1 DEF Logged
    <2>2. CASE \E k \in todo[t] : \E i \in DOMAIN items :
                  /\ held'[t].req = k.req
                  /\ held'[t].set = Missing(items[i], requests[k.req].change)
      <3>1. PICK k \in todo[t], i \in DOMAIN items :
                  /\ held'[t].req = k.req
                  /\ held'[t].set = Missing(items[i], requests[k.req].change)
        BY <2>2
      <3> QED BY <1>1, <1>2, <1>3, <3>1, MissingPart DEF Logged
    <2> QED BY <1>5, <2>1, <2>2, TodoStep
  <1> QED BY <1>4, <1>5

LEMMA RefInvStep == RefInv /\ [Next]_vars => RefInv'
  BY NextTypeInv, RequestSteps, StatusStep, ReapplyStep DEF RefInv

LEMMA RefInvInit == Init => RefInv
  <1>1. Init => StatusIsLastDecision /\ ReapplyInv
    BY DEF Init, StatusIsLastDecision, ReapplyInv
  <1> QED BY <1>1, InitTypeInv DEF RefInv

--------------------------------------------------------------------------------
(* Each step under the refinement mapping                                      *)

OrderOf(q) == [action |-> q.action, change |-> q.change]
Orders == [r \in DOMAIN requests |-> OrderOf(requests[r])]

LEMMA OrderType ==
  ASSUME NEW q \in Request PROVE OrderOf(q) \in Promise!Order
  BY DEF OrderOf, Promise!Order, Request, Actions, Change

(* carrying out a request, or what is missing of it, on one row *)
LEMMA RewriteCarriesOut ==
  ASSUME TypeInv, NEW q \in Request, NEW i \in DOMAIN items, NEW c \in Change,
         Part(c, q.change), items' = Rewrite(i, q, c)
  PROVE  Promise!CarryOut(OrderOf(q))
  <1>1. items[i] \in Row \cup {NoRow}
    BY DEF TypeInv, TypeOK
  <1>2. CASE items[i] = NoRow
    BY <1>2 DEF Rewrite, Promise!CarryOut, TypeInv, TypeOK
  <1>3. CASE items[i] # NoRow /\ q.action = "delete"
    BY <1>3 DEF Rewrite, Promise!CarryOut, Promise!Effects, OrderOf
  <1>4. CASE items[i] # NoRow /\ q.action # "delete"
    <2>1. items' = [items EXCEPT ![i] = Amend(items[i], c)]
      BY <1>4 DEF Rewrite
    <2>2. items[i] \in Row
      BY <1>1, <1>4
    <2>3. Amend(items[i], c) \in
            [src : {items[i].src}, ident : Promise!Or(q.change.ident, items[i].ident),
             val : Promise!Or(q.change.val, items[i].val)]
      BY <2>2 DEF Amend, Part, Row, Promise!Or
    <2>4. Amend(items[i], c) \in Promise!Effects(OrderOf(q), items[i])
      BY <1>4, <2>3 DEF Promise!Effects, OrderOf
    <2> QED BY <1>4, <2>1, <2>4 DEF Promise!CarryOut
  <1> QED BY <1>2, <1>3, <1>4

LEMMA OrdersKept ==
  ASSUME DOMAIN requests' = DOMAIN requests,
         \A r \in DOMAIN requests : Mark(requests'[r]) = Mark(requests[r])
  PROVE  Orders' = Orders
  <1>1. \A r \in DOMAIN requests : OrderOf(requests'[r]) = OrderOf(requests[r])
    BY MarkFields DEF OrderOf
  <1> QED BY <1>1 DEF Orders

LEMMA OrdersTyped == TypeOK => Orders \in Seq(Promise!Order) /\ Len(Orders) = Len(requests)
  <1> SUFFICES ASSUME TypeOK
               PROVE  Orders \in Seq(Promise!Order) /\ Len(Orders) = Len(requests)
    OBVIOUS
  <1>1. /\ Len(requests) \in Nat /\ DOMAIN requests = 1 .. Len(requests)
        /\ \A r \in 1 .. Len(requests) : requests[r] \in Request
    BY DEF TypeOK
  <1>2. Orders = [r \in 1 .. Len(requests) |-> OrderOf(requests[r])]
    BY <1>1 DEF Orders
  <1>3. \A r \in 1 .. Len(requests) : OrderOf(requests[r]) \in Promise!Order
    BY <1>1, OrderType
  <1>4. Orders = [r \in 1 .. Len(requests) |-> Orders[r]]
        /\ \A r \in 1 .. Len(requests) : Orders[r] \in Promise!Order
    BY <1>2, <1>3
  <1> HIDE DEF Orders
  <1> QED BY <1>1, <1>4, FunctionSeq

LEMMA SeqFunction ==
  ASSUME NEW S, NEW s \in Seq(S) PROVE s = [i \in 1 .. Len(s) |-> s[i]]
  OBVIOUS

LEMMA OrdersAdded ==
  ASSUME TypeInv, NEW q \in Request, NEW d \in Seq({"approved", "rejected"}),
         RequestAdded(q, d)
  PROVE  Orders' = Append(Orders, OrderOf(q))
  <1>1. /\ DOMAIN requests' = DOMAIN requests \cup {Len(requests) + 1}
        /\ \A r \in DOMAIN requests : requests'[r] = requests[r]
        /\ requests'[Len(requests) + 1] = q
    BY Added DEF RequestAdded, TypeInv
  <1>2. /\ DOMAIN requests = 1 .. Len(requests) /\ Len(requests) \in Nat
    BY DEF TypeInv, TypeOK
  <1>3. Orders \in Seq(Promise!Order) /\ Len(Orders) = Len(requests)
    BY OrdersTyped DEF TypeInv
  <1>4. OrderOf(q) \in Promise!Order
    BY OrderType
  <1>5. /\ Append(Orders, OrderOf(q)) \in Seq(Promise!Order)
        /\ Len(Append(Orders, OrderOf(q))) = Len(requests) + 1
        /\ \A r \in 1 .. Len(requests) : Append(Orders, OrderOf(q))[r] = Orders[r]
        /\ Append(Orders, OrderOf(q))[Len(requests) + 1] = OrderOf(q)
    BY <1>3, <1>4, AppendProperties
  <1>6. Orders' = [r \in 1 .. Len(requests) + 1 |->
                     IF r = Len(requests) + 1 THEN OrderOf(q) ELSE Orders[r]]
    BY <1>1, <1>2 DEF Orders
  <1>7. Append(Orders, OrderOf(q)) =
          [r \in 1 .. Len(requests) + 1 |-> Append(Orders, OrderOf(q))[r]]
    <2> HIDE DEF Orders, OrderOf
    <2>1. Append(Orders, OrderOf(q)) \in Seq(Promise!Order)
      BY <1>5
    <2>2. Append(Orders, OrderOf(q)) =
            [r \in 1 .. Len(Append(Orders, OrderOf(q))) |-> Append(Orders, OrderOf(q))[r]]
      BY <2>1, SeqFunction
    <2> QED BY <1>5, <2>2
  <1> HIDE DEF Orders, OrderOf
  <1> QED BY <1>2, <1>5, <1>6, <1>7

(* The promise speaks of Orders where the mapping builds the same function. *)
LEMMA OrdersMapping ==
  /\ Orders = [r \in DOMAIN requests |->
                 [action |-> requests[r].action, change |-> requests[r].change]]
  /\ Orders' = [r \in DOMAIN requests' |->
                  [action |-> requests'[r].action, change |-> requests'[r].change]]
  BY DEF Orders, OrderOf

PromiseStep == Promise!Next \/ UNCHANGED Promise!vars

LEMMA StutterStep ==
  UNCHANGED db => PromiseStep
  BY DEF PromiseStep, Promise!vars, db

LEMMA SyncWriteStep ==
  ASSUME RefInv, NEW t \in Threads, SyncWrite(t) PROVE PromiseStep
  <1> DEFINE h == held[t]
             r == h.req
             q == requests[r]
  <1>1. pc[t] = "write" /\ items' = Rewrite(h.item, q, h.set)
    BY DEF SyncWrite
  <1>2. /\ r \in DOMAIN requests /\ q \in Request /\ h.item \in DOMAIN items
        /\ h.set \in Change /\ Logged(r, decisions) /\ Part(h.set, q.change)
    BY <1>1, RequestsTyped DEF RefInv, ReapplyInv, TypeInv, TypeOK, HandlesExist, Held
  <1>3. RequestsKept
    BY SyncWriteRequests DEF RefInv
  <1>4. Orders' = Orders /\ decisions' = decisions
    BY <1>3, OrdersKept DEF RequestsKept
  <1> HIDE DEF h, r, q
  <1>5. Promise!CarryOut(OrderOf(q))
    BY <1>1, <1>2, RewriteCarriesOut DEF RefInv
  <1>6. Orders[r] = OrderOf(q) /\ r \in DOMAIN Orders
    BY <1>2 DEF Orders, q
  <1>7. Promise!Reapply(r)
    BY <1>2, <1>4, <1>5, <1>6, OrdersMapping
    DEF Promise!Reapply, Promise!EverApproved, Logged
  <1> QED BY <1>6, <1>7, OrdersMapping DEF PromiseStep, Promise!Next

LEMMA SeedWriteStep ==
  ASSUME RefInv, NEW t \in Threads, SeedWrite(t) PROVE PromiseStep
  <1> USE DEF RefInv
  <1> DEFINE k == seedPos[t]
             q == SeedRequest(k, held[t])
  <1>0. pc[t] = "seedwrite"
    BY DEF SeedWrite
  <1>1. k \in 1 .. Len(SeedList) /\ SeedList[k].ident \in Idents /\ SeedList[k].val \in Values
    <2>1. k \in 1 .. Len(SeedList)
      BY <1>0, SeedCount DEF TypeInv, TypeOK, HandlesExist
    <2> QED BY <2>1, SeedsTyped
  <1>2. q \in Request /\ q.change \in Change
    BY <1>1, SMTT(30) DEF SeedRequest, TypeInv, TypeOK, Held, Request, Actions, Statuses, Change
  <1>3. Promise!CarryOut(OrderOf(q)) /\ \E q2 \in Request :
          OrderOf(q2) = OrderOf(q) /\ requests' = Append(requests, q2)
    <2>1. CASE requests' = Append(requests, q) /\ items' = items
      BY <1>2, <2>1 DEF Promise!CarryOut
    <2>2. ASSUME NEW i \in Target(q.item, q), items' = Rewrite(i, q, q.change),
                 requests' = Append(requests, [q EXCEPT !.item = i, !.applied = TRUE])
          PROVE  Promise!CarryOut(OrderOf(q)) /\ \E q2 \in Request :
                   OrderOf(q2) = OrderOf(q) /\ requests' = Append(requests, q2)
      <3>1. i \in Nat /\ i \in DOMAIN items
        BY TargetInItems, LiveRows DEF TypeInv
      <3> DEFINE q2 == [q EXCEPT !.item = i, !.applied = TRUE]
      <3>2. q2 \in Request /\ OrderOf(q2) = OrderOf(q)
        BY <1>2, <3>1, AppliedRequest DEF OrderOf, Request
      <3>3. Part(q.change, q.change)
        BY DEF Part
      <3>4. requests' = Append(requests, q2)
        BY <2>2
      <3> HIDE DEF q, q2
      <3> QED BY <1>2, <2>2, <3>1, <3>2, <3>3, <3>4, RewriteCarriesOut
    <2> QED BY <2>1, <2>2 DEF SeedWrite
  <1>4. PICK q2 \in Request : OrderOf(q2) = OrderOf(q) /\ requests' = Append(requests, q2)
    BY <1>3
  <1>5. decisions' = Append(decisions, <<"approved">>)
    BY DEF SeedWrite
  <1> HIDE DEF q, k
  <1>6. <<"approved">> \in Seq({"approved", "rejected"})
    OBVIOUS
  <1>7. Orders' = Append(Orders, OrderOf(q))
    BY <1>4, <1>5, <1>6, OrdersAdded DEF RequestAdded
  <1>8. Promise!Seed
    BY <1>2, <1>3, <1>5, <1>7, OrderType, OrdersMapping DEF Promise!Seed
  <1> QED BY <1>8 DEF PromiseStep, Promise!Next

LEMMA CreateTxnStep ==
  ASSUME RefInv, CreateTxn PROVE PromiseStep
  <1>1. Pending \in Request /\ <<>> \in Seq({"approved", "rejected"})
    BY PendingType DEF RefInv, TypeInv
  <1>2. RequestAdded(Pending, <<>>) /\ items' = items
    BY DEF CreateTxn, Pending, RequestAdded
  <1>3. Orders' = Append(Orders, OrderOf(Pending))
    BY <1>1, <1>2, OrdersAdded DEF RefInv
  <1>4. Promise!File
    BY <1>1, <1>2, <1>3, OrderType, OrdersMapping DEF Promise!File, RequestAdded
  <1> QED BY <1>4 DEF PromiseStep, Promise!Next

LEMMA ApproveTxnStep ==
  ASSUME RefInv, NEW t \in Threads, ApproveTxn(t) PROVE PromiseStep
  <1> USE DEF RefInv
  <1> DEFINE r == held[t].req
             q == requests[r]
  <1>0. pc[t] = "approve" /\ Decide(r, "approved")
    BY DEF ApproveTxn
  <1>1. r \in DOMAIN requests /\ q \in Request /\ q.change \in Change
    BY <1>0, RequestsTyped DEF TypeInv, HandlesExist
  <1>2. PICK i \in Live :
          /\ items' = Rewrite(i, q, q.change)
          /\ \E q2 \in {[q EXCEPT !.status = "approved", !.item = i, !.applied = TRUE],
                         [q EXCEPT !.status = "approved"]} :
                requests' = [requests EXCEPT ![r] = q2]
    BY TargetInItems DEF ApproveTxn
  <1>3. i \in DOMAIN items /\ i \in Nat
    BY LiveRows DEF TypeInv
  <1>4. PICK q2 : OrderOf(q2) = OrderOf(q) /\ requests' = [requests EXCEPT ![r] = q2]
    BY <1>1, <1>2 DEF OrderOf, Request
  <1>5. Part(q.change, q.change)
    BY DEF Part
  <1>6. Promise!CarryOut(OrderOf(q))
    BY <1>1, <1>2, <1>3, <1>5, RewriteCarriesOut
  <1> HIDE DEF r, q
  <1>7. Orders' = Orders
    BY <1>1, <1>4 DEF Orders, q, TypeInv, TypeOK
  <1>8. Orders[r] = OrderOf(q) /\ r \in DOMAIN Orders
    BY <1>1 DEF Orders, q
  <1>9. Promise!Approve(r)
    BY <1>0, <1>6, <1>7, <1>8, OrdersMapping DEF Promise!Approve, Decide
  <1> QED BY <1>8, <1>9, OrdersMapping DEF PromiseStep, Promise!Next

LEMMA RejectTxnStep ==
  ASSUME RefInv, NEW t \in Threads, RejectTxn(t) PROVE PromiseStep
  <1> USE DEF RefInv
  <1> DEFINE r == held[t].req
             q == [requests[r] EXCEPT !.status = "rejected"]
  <1>0. /\ pc[t] = "reject" /\ Decide(r, "rejected") /\ items' = items
        /\ requests' = [requests EXCEPT ![r] = q]
    BY DEF RejectTxn
  <1>1. r \in DOMAIN requests /\ requests[r] \in Request
    BY <1>0, RequestsTyped DEF TypeInv, HandlesExist
  <1>2. OrderOf(q) = OrderOf(requests[r])
    BY <1>1 DEF OrderOf, Request
  <1> HIDE DEF r, q
  <1>3. Orders' = Orders
    BY <1>0, <1>1, <1>2 DEF Orders, TypeInv, TypeOK
  <1>4. r \in DOMAIN Orders
    BY <1>1 DEF Orders
  <1>5. Promise!Reject(r)
    BY <1>0, <1>3, OrdersMapping DEF Promise!Reject, Decide
  <1> QED BY <1>4, <1>5, OrdersMapping DEF PromiseStep, Promise!Next

LEMMA ImportWriteStep ==
  ASSUME RefInv, NEW src \in Sources, NEW scope,
         NEW gone \in SUBSET OldRows(src, scope),
         NEW new \in Seq({row \in Row : row.src = src}),
         ImportWrite(src, scope, gone, new)
  PROVE  PromiseStep
  <1> DEFINE old == [i \in DOMAIN items |-> IF i \in gone THEN NoRow ELSE items[i]]
  <1>1. items' = old \o new /\ requests' = requests /\ decisions' = decisions
    BY DEF ImportWrite
  <1>2. DOMAIN items = 1 .. Len(items) /\ Len(items) \in Nat
    BY DEF RefInv, TypeInv, TypeOK
  <1>3. old \in Seq(Row \cup {NoRow}) /\ Len(old) = Len(items)
    <2>1. \A i \in DOMAIN items : old[i] \in Row \cup {NoRow}
      BY DEF RefInv, TypeInv, TypeOK
    <2>2. old = [i \in 1 .. Len(items) |-> old[i]]
      BY <1>2
    <2> HIDE DEF old
    <2> QED BY <1>2, <2>1, <2>2, FunctionSeq
  <1>4. \A i \in DOMAIN items :
          \/ old[i] = items[i]
          \/ items[i] # NoRow /\ items[i].src = src /\ old[i] = NoRow
    BY DEF Live, OldRows
  <1> HIDE DEF old
  <1>5. /\ Len(new) \in Nat /\ new \in Seq(Row \cup {NoRow})
        /\ \A j \in 1 .. Len(new) : new[j].src = src
    OBVIOUS
  <1>6. /\ Len(items') = Len(items) + Len(new)
        /\ DOMAIN items' = 1 .. Len(items) + Len(new)
        /\ \A i \in 1 .. Len(items) : items'[i] = old[i]
        /\ \A i \in Len(items) + 1 .. Len(items) + Len(new) :
              items'[i] = new[i - Len(items)]
    <2> DEFINE both == old \o new
    <2>1. /\ both \in Seq(Row \cup {NoRow})
          /\ Len(both) = Len(old) + Len(new)
          /\ \A i \in 1 .. Len(old) + Len(new) :
                both[i] = IF i <= Len(old) THEN old[i] ELSE new[i - Len(old)]
      BY <1>3, <1>5, ConcatProperties, ZenonT(30)
    <2>2. items' = both
      BY <1>1
    <2> HIDE DEF both
    <2>3. DOMAIN both = 1 .. Len(both)
      BY <2>1
    <2>4. PICK m, n \in Nat : m = Len(items) /\ n = Len(new)
      BY <1>2, <1>5
    <2>5. /\ Len(both) = m + n /\ DOMAIN both = 1 .. m + n
          /\ \A i \in 1 .. m + n : both[i] = IF i <= m THEN old[i] ELSE new[i - m]
      BY <1>3, <2>1, <2>3, <2>4
    <2>6. \A i \in 1 .. m : both[i] = old[i]
      BY <2>5
    <2>7. \A i \in m + 1 .. m + n : both[i] = new[i - m]
      BY <2>5
    <2> QED BY <2>2, <2>4, <2>5, <2>6, <2>7
  <1>7. \A i \in DOMAIN items' \ DOMAIN items : items'[i].src = src
    <2> SUFFICES ASSUME NEW i \in DOMAIN items' \ DOMAIN items PROVE items'[i].src = src
      OBVIOUS
    <2>1. i \in Len(items) + 1 .. Len(items) + Len(new)
      BY <1>2, <1>5, <1>6
    <2>2. i - Len(items) \in 1 .. Len(new)
      BY <1>2, <1>5, <2>1
    <2> QED BY <1>5, <1>6, <2>1, <2>2
  <1>8. Promise!Rebuild(src)
    BY <1>1, <1>2, <1>4, <1>5, <1>6, <1>7 DEF Promise!Rebuild
  <1> QED BY <1>8 DEF PromiseStep, Promise!Next

LEMMA ClearStep ==
  ASSUME Clear PROVE PromiseStep
  BY DEF Clear, PromiseStep, Promise!Next, Promise!Clear

LEMMA EditStep ==
  ASSUME RefInv, NEW t \in Threads, EditMetadata(t) PROVE PromiseStep
  <1>1. PICK src \in Sources : EditsValues(src)
    BY EditedRows
  <1>2. Len(items') = Len(items)
    <2>1. items \in Seq(Row \cup {NoRow}) /\ items' \in Seq(Row \cup {NoRow})
      BY EditMetadataType DEF RefInv, TypeInv, TypeOK
    <2> QED BY <1>1, <2>1 DEF EditsValues
  <1>3. UNCHANGED <<requests, decisions>>
    BY EditFrame
  <1>4. Promise!Revalue(src)
    BY <1>1, <1>2, <1>3 DEF Promise!Revalue, EditsValues
  <1> QED BY <1>4 DEF PromiseStep, Promise!Next

LEMMA NextImplementsPromise == RefInv /\ [Next]_vars => PromiseStep
  <1> SUFFICES ASSUME RefInv, [Next]_vars PROVE PromiseStep
    OBVIOUS
  <1>1. CASE UNCHANGED vars
    BY <1>1, StutterStep DEF vars, db
  <1>2. CASE Next
    <2>1. PICK t \in Threads : Begin(t) \/ Handle(t) \/ LockTimeout(t)
      BY <1>2 DEF Next
    <2>2. CASE Begin(t) \/ LockTimeout(t) \/ Finish(t)
      BY <2>2, StutterStep DEF Begin, LockTimeout, Finish
    <2>3. CASE Synchronize(t)
      BY <2>3, StutterStep, SyncWriteStep, SeedWriteStep
      DEF Synchronize, SeedSkip, SeedFind, SeedConflict, SyncList, SyncSkip, SyncPlan,
          SyncDone
    <2>4. CASE Review(t)
      BY <2>4, StutterStep, ApproveTxnStep, RejectTxnStep
      DEF Review, ReviewCheck, ApproveRollback
    <2>5. CASE File
      BY <2>5, StutterStep, CreateTxnStep
      DEF File, SubmitOne, SubmitBulk, BulkSkip, BulkPick, BulkAbort, CreateCheck,
          CreateRefused
    <2>6. CASE Rebuild
      <3>1. ASSUME NEW src \in Sources, NEW scope \in Scopes,
                   NEW old \in SUBSET OldRows(src, scope), NEW new \in NewRows(src, scope),
                   ImportWrite(src, scope, old, new)
            PROVE PromiseStep
        <4>1. PICK n \in 0 .. MaxBatch :
                new \in [1 .. n -> {row \in Row : row.src = src /\ row.ident \in scope}]
          BY DEF NewRows, Batches
        <4>2. n \in Nat
          BY BoundAssumption
        <4>3. new \in Seq({row \in Row : row.src = src})
          BY <4>1, <4>2
        <4> QED BY <3>1, <4>3, ImportWriteStep
      <3>2. ImportCommit => PromiseStep
        BY StutterStep DEF ImportCommit
      <3> QED BY <2>6, <3>1, <3>2, ClearStep DEF Rebuild
    <2>7. CASE EditMetadata(t)
      BY <2>7, EditStep
    <2> QED BY <2>1, <2>2, <2>3, <2>4, <2>5, <2>6, <2>7 DEF Handle
  <1> QED BY <1>1, <1>2

(* Whatever the handlers of any number of threads interleave, a catalog row
   changes only by a correction that has been approved, and only as far as that
   correction says, because an import rebuilt rows of its source, because the
   metadata of an import were edited, or because all rows were cleared. *)
THEOREM Implementation == Spec => ChangesAreApproved
  <1>1. ASSUME Init PROVE Promise!Init
    <2>1. items \in Seq(Row)
      BY <1>1, BatchType DEF Init
    <2> QED BY <1>1, <2>1 DEF Init, Promise!Init, Row
  <1>2. Spec => []RefInv
    BY RefInvInit, RefInvStep, PTL DEF Spec
  <1>3. RefInv /\ [Next]_vars => [Promise!Next]_(Promise!vars)
    BY NextImplementsPromise DEF PromiseStep
  <1> QED BY <1>1, <1>2, <1>3, PTL DEF Spec, ChangesAreApproved, Promise!Spec

--------------------------------------------------------------------------------
(* The overlay a handler goes on with                                          *)

(* Rows of one source, and edits that leave the identity columns alone: what
   the promise of a fresh overlay is made for. *)
OneSource  == \A s1, s2 \in Sources : s1 = s2
ValuesOnly == \A c \in Edits : c.ident = Keep

(* Row i of catalog c has that identity; i is the row request q is carried out
   on, which is Target when there is one source. *)
At(c, ident, i) == i \in DOMAIN c /\ c[i] # NoRow /\ c[i].ident = ident

Hit(c, q, i) ==
  /\ At(c, q.ident, i)
  /\ IF At(c, q.ident, q.item) THEN i = q.item
     ELSE \A j \in DOMAIN c : At(c, q.ident, j) => j = i

(* a later approved request of rs gives row i its value *)
Covered(c, rs, r, i) ==
  \E r2 \in DOMAIN rs : /\ rs[r2].status = "approved" /\ r2 > r
                        /\ Hit(c, rs[r2], i) /\ rs[r2].change.val # Keep

Shown(c, rs, r) ==
  \A i \in DOMAIN c : Hit(c, rs[r], i) =>
     /\ rs[r].action = "update"
     /\ rs[r].change.val \in {Keep, c[i].val} \/ Covered(c, rs, r, i)

IdentsStay ==
  /\ \A r \in DOMAIN requests : requests[r].change.ident = Keep
  /\ draft.change.ident = Keep

(* an approved deletion remembers a row that is gone *)
DeletedGone ==
  \A r \in Approved :
     requests[r].action = "delete" =>
        requests[r].item \in DOMAIN items /\ items[requests[r].item] = NoRow

Syncing(t) == fresh[t] /\ pc[t] \in {"sync", "write"}

(* the approved requests t has not carried out yet *)
Ahead(t, r) == (\E k \in todo[t] : r = k.req) \/ (pc[t] = "write" /\ r = held[t].req)

(* What a handler nobody disturbs has read is still so, and what it has gone
   through comes before the rest of its list and shows in the catalog. *)
ListHolds(t) == \A k \in todo[t] : /\ k.req \in Approved
                                   /\ k.item = requests[k.req].item
PlanHolds(t) ==
  pc[t] = "write" =>
    /\ held[t].req \in Approved
    /\ Hit(items, requests[held[t].req], held[t].item)
    /\ held[t].set = Missing(items[held[t].item], requests[held[t].req].change)
    /\ \A k \in todo[t] : held[t].req < k.req
DoneShows(t) ==
  \A r \in Approved :
     Ahead(t, r) \/ /\ Shown(items, requests, r)
                    /\ \A left \in Approved : Ahead(t, left) => r < left

SyncInv == \A t \in Threads :
              Syncing(t) => ListHolds(t) /\ PlanHolds(t) /\ DoneShows(t)

OverlayInv == TypeInv /\ IdentsStay /\ DeletedGone /\ SyncInv

LEMMA TargetHits ==
  ASSUME TypeOK, OneSource, NEW q \in Request, NEW i \in Target(q.item, q)
  PROVE  Hit(items, q, i)
  <1>1. \A j : j \in RowsAt(q.ident) <=> At(items, q.ident, j)
    BY DEF RowsAt, Live, At
  <1>2. \A j \in RowsAt(q.ident) : items[j].src = q.src
    BY LiveRows DEF RowsAt, OneSource, Row, Request
  <1> DEFINE rows == RowsAt(q.ident)
             mine == {j \in rows : items[j].src = q.src}
  <1>3. mine = rows
    BY <1>2
  <1>4. CASE q.item \in rows
    BY <1>1, <1>4 DEF Target, Hit
  <1>5. CASE q.item \notin rows
    <2>1. i \in TheOnly(rows)
      <3>1. i \in (IF TheOnly(rows) # {} THEN rows ELSE TheOnly(rows))
        BY <1>3, <1>5 DEF Target
      <3> QED BY <3>1 DEF TheOnly
    <2>2. i \in rows /\ \A j \in rows : j = i
      BY <2>1 DEF TheOnly
    <2> QED BY <1>1, <1>5, <2>2 DEF Hit
  <1> QED BY <1>4, <1>5

LEMMA HitsTarget ==
  ASSUME TypeOK, OneSource, NEW q \in Request, NEW i, Hit(items, q, i)
  PROVE  i \in Target(q.item, q)
  <1>1. \A j : j \in RowsAt(q.ident) <=> At(items, q.ident, j)
    BY DEF RowsAt, Live, At
  <1> DEFINE rows == RowsAt(q.ident)
  <1>2. CASE q.item \in rows
    BY <1>1, <1>2 DEF Target, Hit
  <1>3. CASE q.item \notin rows
    <2>1. rows = {i}
      BY <1>1, <1>3 DEF Hit, At
    <2>2. TheOnly(rows) # {}
      BY <2>1 DEF TheOnly
    <2> QED BY <1>3, <2>1, <2>2 DEF Target
  <1> QED BY <1>2, <1>3

LEMMA OneHit ==
  ASSUME NEW c, NEW q, NEW i, NEW j, Hit(c, q, i), Hit(c, q, j) PROVE i = j
  BY DEF Hit, At

(* Who moves between two states of a list nobody disturbs. *)
ListStands(t) ==
  /\ items' = items /\ requests' = requests
  /\ todo'[t] = todo[t] /\ held'[t] = held[t] /\ pc'[t] = pc[t] /\ fresh'[t] = fresh[t]

LEMMA OnlyItself ==
  ASSUME TypeInv, [Next]_vars, NEW u \in Threads, Syncing(u)'
  PROVE  ListStands(u) \/ SyncList(u) \/ SyncSkip(u) \/ SyncPlan(u) \/ SyncWrite(u)
  <1>0. /\ pc \in [Threads -> Phases] /\ todo \in [Threads -> SUBSET Ticket]
        /\ held \in [Threads -> Held] /\ fresh \in [Threads -> BOOLEAN]
        /\ Loop \in Threads
    BY LoopThread DEF TypeInv, TypeOK
  <1> USE DEF Syncing, ListStands
  <1>1. CASE UNCHANGED vars
    BY <1>1 DEF vars
  <1>2. CASE Next
    <2>1. PICK t \in Threads : Begin(t) \/ Handle(t) \/ LockTimeout(t)
      BY <1>2 DEF Next
    <2>2. CASE Begin(t) \/ LockTimeout(t) \/ Finish(t)
      BY <1>0, <2>2 DEF Begin, LockTimeout, Finish, Goto, db
    <2>3. CASE SeedSkip(t) \/ SeedFind(t) \/ SeedWrite(t) \/ SeedConflict(t)
      BY <1>0, <2>3 DEF SeedSkip, SeedFind, SeedWrite, SeedConflict, Goto, db, Wrote
    <2>4. CASE SyncList(t) \/ SyncSkip(t)
      BY <1>0, <2>4 DEF SyncList, SyncSkip, Goto, db
    <2>5. CASE SyncPlan(t)
      BY <1>0, <2>5 DEF SyncPlan, Goto, db
    <2>6. CASE SyncWrite(t)
      BY <1>0, <2>6 DEF SyncWrite, Goto, Wrote
    <2>7. CASE SyncDone(t)
      BY <1>0, <2>7 DEF SyncDone, Goto, db
    <2>8. CASE Review(t)
      BY <1>0, <2>8
      DEF Review, ReviewCheck, ApproveTxn, ApproveRollback, RejectTxn, Goto, db, Wrote
    <2>9. CASE File
      BY <1>0, <2>9
      DEF File, SubmitOne, SubmitBulk, BulkSkip, BulkPick, BulkAbort, CreateCheck,
          CreateRefused, CreateTxn, NextRow, Goto, db, Wrote
    <2>10. CASE Rebuild
      BY <1>0, <2>10 DEF Rebuild, ImportWrite, ImportCommit, Clear, Goto, db, Wrote
    <2>11. CASE EditMetadata(t)
      BY <1>0, <2>11, EditFrame DEF Wrote
    <2> QED BY <2>1, <2>2, <2>3, <2>4, <2>5, <2>6, <2>7, <2>8, <2>9, <2>10, <2>11
        DEF Handle, Synchronize
  <1> QED BY <1>1, <1>2

LEMMA StandsStep ==
  ASSUME NEW t \in Threads, Syncing(t)', ListStands(t), SyncInv
  PROVE  ListHolds(t)' /\ PlanHolds(t)' /\ DoneShows(t)'
  <1>1. Syncing(t) /\ Approved' = Approved
    BY DEF Syncing, ListStands, Approved
  <1>2. ListHolds(t) /\ PlanHolds(t) /\ DoneShows(t)
    BY <1>1 DEF SyncInv
  <1>3. ListHolds(t)'
    BY <1>1, <1>2 DEF ListHolds, ListStands
  <1>4. PlanHolds(t)'
    BY <1>1, <1>2 DEF PlanHolds, ListStands
  <1>5. DoneShows(t)'
    BY <1>1, <1>2 DEF DoneShows, ListStands, Ahead
  <1> QED BY <1>3, <1>4, <1>5

LEMMA SyncListStep ==
  ASSUME TypeInv, NEW t \in Threads, SyncList(t)
  PROVE  ListHolds(t)' /\ PlanHolds(t)' /\ DoneShows(t)'
  <1>0. todo \in [Threads -> SUBSET Ticket] /\ pc \in [Threads -> Phases]
    BY DEF TypeInv, TypeOK
  <1>1. /\ todo'[t] = {[req |-> r, item |-> requests[r].item] : r \in Approved}
        /\ pc'[t] = "sync" /\ requests' = requests
    BY <1>0 DEF SyncList, Goto, db
  <1>2. Approved' = Approved
    BY <1>1 DEF Approved
  <1>3. ListHolds(t)'
    BY <1>1, <1>2 DEF ListHolds
  <1>4. PlanHolds(t)'
    BY <1>1 DEF PlanHolds
  <1>5. \A r \in Approved : Ahead(t, r)'
    <2> SUFFICES ASSUME NEW r \in Approved PROVE \E k \in todo'[t] : r = k.req
      BY DEF Ahead
    <2>1. [req |-> r, item |-> requests[r].item] \in todo'[t]
      BY <1>1
    <2> QED BY <2>1
  <1>6. DoneShows(t)'
    BY <1>2, <1>5 DEF DoneShows
  <1> QED BY <1>3, <1>4, <1>6

LEMMA FirstIsFirst ==
  ASSUME TypeInv, NEW t \in Threads, ListHolds(t), NEW k \in First(t),
         NEW other \in todo[t] \ {k}
  PROVE  k.req < other.req
  <1>1. k \in Ticket /\ other \in Ticket /\ k \in todo[t]
    BY DEF First, TypeInv, TypeOK
  <1>2. k.req <= other.req
    BY DEF First
  <1>3. k.item = requests[k.req].item /\ other.item = requests[other.req].item
    BY <1>1 DEF ListHolds
  <1>4. k.req # other.req
    BY <1>1, <1>3 DEF Ticket
  <1> QED BY <1>1, <1>2, <1>4 DEF Ticket

LEMMA SyncSkipStep ==
  ASSUME TypeInv, SyncInv, OneSource, NEW t \in Threads, SyncSkip(t), Syncing(t)'
  PROVE  ListHolds(t)' /\ PlanHolds(t)' /\ DoneShows(t)'
  <1>0. todo \in [Threads -> SUBSET Ticket] /\ pc \in [Threads -> Phases]
    BY DEF TypeInv, TypeOK
  <1>1. PICK k \in First(t) :
          /\ \A i \in Target(k.item, requests[k.req]) : ~ Outdated(i, requests[k.req])
          /\ todo' = [todo EXCEPT ![t] = @ \ {k}]
    BY DEF SyncSkip
  <1>2. /\ todo'[t] = todo[t] \ {k} /\ k \in todo[t]
        /\ items' = items /\ requests' = requests /\ pc' = pc /\ pc[t] = "sync"
        /\ held' = held /\ fresh' = fresh
    BY <1>0, <1>1 DEF SyncSkip, db, First
  <1>3. Approved' = Approved /\ Syncing(t)
    BY <1>2 DEF Approved, Syncing
  <1>4. ListHolds(t) /\ DoneShows(t)
    BY <1>3 DEF SyncInv
  <1>5. ListHolds(t)' /\ PlanHolds(t)'
    BY <1>2, <1>3, <1>4 DEF ListHolds, PlanHolds
  <1>6. k.req \in Approved /\ k.req \in DOMAIN requests /\ requests[k.req] \in Request
        /\ k.item = requests[k.req].item
    BY <1>2, <1>4, RequestsTyped DEF ListHolds, Approved, TypeInv
  <1>7. \A left \in todo'[t] : k.req < left.req
    BY <1>1, <1>2, <1>4, FirstIsFirst
  <1>8. Shown(items, requests, k.req)
    <2> SUFFICES ASSUME NEW i \in DOMAIN items, Hit(items, requests[k.req], i)
                 PROVE  /\ requests[k.req].action = "update"
                        /\ requests[k.req].change.val \in {Keep, items[i].val}
      BY DEF Shown
    <2>1. ~ Outdated(i, requests[k.req])
      BY <1>1, <1>6, HitsTarget DEF TypeInv
    <2>2. /\ requests[k.req].action = "update"
          /\ Missing(items[i], requests[k.req].change) = NoChange
      BY <1>6, <2>1 DEF Outdated, Request, Actions
    <2> QED BY <2>2 DEF Missing, NoChange
  <1>9. ASSUME NEW r \in Approved
        PROVE  \/ Ahead(t, r)'
               \/ /\ Shown(items, requests, r)
                  /\ \A left \in todo'[t] : r < left.req
    <2>1. CASE Ahead(t, r)
      <3>1. PICK k2 \in todo[t] : r = k2.req
        BY <1>2, <2>1 DEF Ahead
      <3>2. CASE k2 = k
        BY <1>7, <1>8, <3>1, <3>2
      <3>3. CASE k2 # k
        BY <1>2, <3>1, <3>3 DEF Ahead
      <3> QED BY <3>2, <3>3
    <2>2. CASE ~ Ahead(t, r)
      <3>1. /\ Shown(items, requests, r)
            /\ \A left \in Approved : Ahead(t, left) => r < left
        BY <1>4, <2>2 DEF DoneShows
      <3> QED BY <1>2, <1>4, <3>1 DEF ListHolds, Ahead
    <2> QED BY <2>1, <2>2
  <1>10. DoneShows(t)'
    BY <1>2, <1>3, <1>9 DEF DoneShows, Ahead
  <1> QED BY <1>5, <1>10

LEMMA SyncPlanStep ==
  ASSUME TypeInv, SyncInv, OneSource, NEW t \in Threads, SyncPlan(t), Syncing(t)'
  PROVE  ListHolds(t)' /\ PlanHolds(t)' /\ DoneShows(t)'
  <1>0. /\ todo \in [Threads -> SUBSET Ticket] /\ pc \in [Threads -> Phases]
        /\ held \in [Threads -> Held]
    BY DEF TypeInv, TypeOK
  <1>1a. PICK k \in First(t) : \E i \in Target(k.item, requests[k.req]) :
          /\ held' = [held EXCEPT ![t] =
               [req |-> k.req, item |-> i, src |-> items[i].src,
                set |-> Missing(items[i], requests[k.req].change)]]
          /\ todo' = [todo EXCEPT ![t] = @ \ {k}]
    BY DEF SyncPlan
  <1>1. PICK i \in Target(k.item, requests[k.req]) :
          /\ held' = [held EXCEPT ![t] =
               [req |-> k.req, item |-> i, src |-> items[i].src,
                set |-> Missing(items[i], requests[k.req].change)]]
          /\ todo' = [todo EXCEPT ![t] = @ \ {k}]
    BY <1>1a
  <1>2. /\ todo'[t] = todo[t] \ {k} /\ k \in todo[t]
        /\ items' = items /\ requests' = requests /\ fresh' = fresh
        /\ pc[t] = "sync" /\ pc'[t] = "write"
        /\ held'[t].req = k.req /\ held'[t].item = i
        /\ held'[t].set = Missing(items[i], requests[k.req].change)
    BY <1>0, <1>1 DEF SyncPlan, db, First, Goto
  <1>3. Approved' = Approved /\ Syncing(t)
    BY <1>2 DEF Approved, Syncing
  <1>4. ListHolds(t) /\ DoneShows(t)
    BY <1>3 DEF SyncInv
  <1>5. ListHolds(t)'
    BY <1>2, <1>3, <1>4 DEF ListHolds
  <1>6. k.req \in Approved /\ k.req \in DOMAIN requests /\ requests[k.req] \in Request
        /\ k.item = requests[k.req].item
    BY <1>2, <1>4, RequestsTyped DEF ListHolds, Approved, TypeInv
  <1>7. \A left \in todo'[t] : k.req < left.req
    BY <1>2, <1>4, FirstIsFirst
  <1>8. Hit(items, requests[k.req], i)
    BY <1>1, <1>6, TargetHits DEF TypeInv
  <1>9. PlanHolds(t)'
    BY <1>2, <1>3, <1>6, <1>7, <1>8 DEF PlanHolds
  <1>10. \A r : Ahead(t, r)' <=> Ahead(t, r)
    BY <1>2 DEF Ahead
  <1>11. DoneShows(t)'
    BY <1>2, <1>3, <1>4, <1>10 DEF DoneShows
  <1> QED BY <1>5, <1>9, <1>11

(* What a write that nobody disturbed does: request r is marked as carried out
   on row i, and it is, on the only row with its identity if it is a deletion. *)
Marked(r, i) ==
  requests' = [requests EXCEPT ![r] = [requests[r] EXCEPT !.item = i, !.applied = TRUE]]

Carried(r, i) ==
  LET q == requests[r] IN
  /\ DOMAIN items' = DOMAIN items
  /\ \A j \in DOMAIN items \ {i} : items'[j] = items[j]
  /\ IF q.action = "delete"
     THEN items'[i] = NoRow /\ ~ At(items, q.ident, q.item)
     ELSE /\ items'[i] # NoRow /\ items'[i].ident = items[i].ident
          /\ items'[i].val = IF q.change.val = Keep THEN items[i].val ELSE q.change.val

LEMMA WriteCarries ==
  ASSUME TypeInv, IdentsStay, DeletedGone, NEW t \in Threads, SyncWrite(t), PlanHolds(t)
  PROVE  Marked(held[t].req, held[t].item) /\ Carried(held[t].req, held[t].item)
  <1> DEFINE h == held[t]
             q == requests[h.req]
  <1>1. /\ h.req \in Approved /\ h.req \in DOMAIN requests
        /\ Hit(items, q, h.item)
        /\ h.set = Missing(items[h.item], q.change)
    BY DEF PlanHolds, SyncWrite, Approved
  <1>2. q \in Request /\ q.change.ident = Keep /\ q.change \in Change
    BY <1>1, RequestsTyped DEF TypeInv, IdentsStay
  <1>3. h.item \in DOMAIN items /\ items[h.item] # NoRow /\ items[h.item].ident = q.ident
    BY <1>1 DEF Hit, At
  <1>4. items[h.item] \in Row /\ items \in Seq(Row \cup {NoRow})
    BY <1>3 DEF TypeInv, TypeOK
  <1>5. Marked(h.req, h.item)
    BY <1>3 DEF SyncWrite, Marked
  <1>6. items' = Rewrite(h.item, q, h.set)
    BY DEF SyncWrite
  <1>7. DOMAIN items' = DOMAIN items /\ \A j \in DOMAIN items \ {h.item} : items'[j] = items[j]
    BY <1>6 DEF Rewrite
  <1>8. ASSUME q.action = "delete" PROVE Carried(h.req, h.item)
    <2>1. items'[h.item] = NoRow
      BY <1>3, <1>4, <1>6, <1>8 DEF Rewrite
    <2>2. ~ At(items, q.ident, q.item)
      BY <1>1, <1>8 DEF DeletedGone, At
    <2> QED BY <1>7, <1>8, <2>1, <2>2 DEF Carried
  <1>9. ASSUME q.action # "delete" PROVE Carried(h.req, h.item)
    <2>1. items'[h.item] = Amend(items[h.item], h.set)
      BY <1>3, <1>4, <1>6, <1>9 DEF Rewrite
    <2>2. Amend(items[h.item], h.set) \in Row
      BY <1>1, <1>2, <1>4, MissingType, AmendType
    <2>3. /\ Amend(items[h.item], h.set).ident = items[h.item].ident
          /\ Amend(items[h.item], h.set).val
               = IF q.change.val = Keep THEN items[h.item].val ELSE q.change.val
      BY <1>1, <1>2, <1>4, SentinelAssumption DEF Amend, Missing, Row
    <2>4. items'[h.item] # NoRow
      BY <2>1, <2>2, SentinelAssumption
    <2> QED BY <1>7, <1>9, <2>1, <2>3, <2>4 DEF Carried
  <1> QED BY <1>5, <1>8, <1>9

LEMMA MarkedFields ==
  ASSUME TypeInv, NEW r \in DOMAIN requests, NEW i, Marked(r, i)
  PROVE  /\ DOMAIN requests' = DOMAIN requests
         /\ \A s \in DOMAIN requests :
              /\ requests'[s].status = requests[s].status
              /\ requests'[s].action = requests[s].action
              /\ requests'[s].ident = requests[s].ident
              /\ requests'[s].change = requests[s].change
              /\ requests'[s].item = IF s = r THEN i ELSE requests[s].item
  <1>1. requests \in Seq(Request) /\ requests[r] \in Request
    BY RequestsTyped DEF TypeInv, TypeOK
  <1>2. requests' = [requests EXCEPT ![r] = [requests[r] EXCEPT !.item = i, !.applied = TRUE]]
    BY DEF Marked
  <1> QED BY <1>1, <1>2 DEF Request

(* The rows other requests are carried out on stay what they were. *)
LEMMA UpdateHits ==
  ASSUME TypeInv, NEW r \in DOMAIN requests, NEW i, Hit(items, requests[r], i),
         Marked(r, i), Carried(r, i), requests[r].action # "delete",
         NEW s \in DOMAIN requests, NEW j
  PROVE  Hit(items', requests'[s], j) <=> Hit(items, requests[s], j)
  <1>1. \A ident, n : At(items', ident, n) <=> At(items, ident, n)
    BY DEF Carried, Hit, At
  <1>2. /\ DOMAIN items' = DOMAIN items
        /\ requests'[s].ident = requests[s].ident
        /\ requests'[s].item = IF s = r THEN i ELSE requests[s].item
    BY MarkedFields DEF Carried
  <1>3. CASE s # r
    BY <1>1, <1>2, <1>3 DEF Hit
  <1>4. CASE s = r
    <2>1. At(items, requests[r].ident, i) /\ \A n : Hit(items, requests[r], n) <=> n = i
      BY OneHit DEF Hit
    <2>2. Hit(items', requests'[s], j) <=> j = i
      BY <1>1, <1>2, <1>4, <2>1 DEF Hit
    <2> QED BY <1>4, <2>1, <2>2
  <1> QED BY <1>3, <1>4

LEMMA DeleteHits ==
  ASSUME TypeInv, NEW r \in DOMAIN requests, NEW i, Hit(items, requests[r], i),
         Marked(r, i), Carried(r, i), requests[r].action = "delete",
         NEW s \in DOMAIN requests, NEW j
  PROVE  Hit(items', requests'[s], j) <=>
            requests[s].ident # requests[r].ident /\ Hit(items, requests[s], j)
  <1>1. \A n : At(items, requests[r].ident, n) => n = i
    BY DEF Carried, Hit, At
  <1>2. At(items, requests[r].ident, i) /\ items'[i] = NoRow
    BY DEF Hit, Carried
  <1>3. \A n : ~ At(items', requests[r].ident, n)
    BY <1>1, <1>2 DEF Carried, At
  <1>4. \A ident, n : ident # requests[r].ident =>
           (At(items', ident, n) <=> At(items, ident, n))
    BY <1>2 DEF Carried, At
  <1>5. /\ DOMAIN items' = DOMAIN items
        /\ requests'[s].ident = requests[s].ident
        /\ requests'[s].item = IF s = r THEN i ELSE requests[s].item
    BY MarkedFields DEF Carried
  <1> QED BY <1>3, <1>4, <1>5 DEF Hit

LEMMA FreshWrite ==
  ASSUME TypeInv, IdentsStay, DeletedGone, SyncInv, NEW t \in Threads, SyncWrite(t),
         Syncing(t)'
  PROVE  ListHolds(t)' /\ PlanHolds(t)' /\ DoneShows(t)'
  <1>0. /\ pc \in [Threads -> Phases] /\ fresh \in [Threads -> BOOLEAN]
        /\ held \in [Threads -> Held] /\ todo \in [Threads -> SUBSET Ticket]
    BY DEF TypeInv, TypeOK
  <1>1. /\ pc[t] = "write" /\ pc'[t] = "sync" /\ todo' = todo /\ fresh'[t] = fresh[t]
    BY <1>0 DEF SyncWrite, Goto, Wrote
  <1>2. ListHolds(t) /\ PlanHolds(t) /\ DoneShows(t)
    BY <1>1 DEF SyncInv, Syncing
  <1> DEFINE r == held[t].req
             i == held[t].item
             q == requests[r]
  <1>3. Marked(r, i) /\ Carried(r, i)
    BY <1>2, WriteCarries
  <1>4. /\ r \in DOMAIN requests /\ r \in Approved /\ Hit(items, q, i)
        /\ \A k \in todo[t] : r < k.req
    BY <1>1, <1>2 DEF PlanHolds, Approved
  <1>5. DOMAIN requests \subseteq Nat /\ q \in Request
    BY <1>4, Domains, RequestsTyped DEF TypeInv, TypeOK
  <1>6. Approved \subseteq DOMAIN requests /\ \A s \in Approved : requests[s].status = "approved"
    BY DEF Approved
  <1> HIDE DEF r, i, q
  <1>7. \A s \in DOMAIN requests :
              /\ requests'[s].status = requests[s].status
              /\ requests'[s].action = requests[s].action
              /\ requests'[s].ident = requests[s].ident
              /\ requests'[s].change = requests[s].change
              /\ requests'[s].item = IF s = r THEN i ELSE requests[s].item
    BY <1>3, <1>4, MarkedFields
  <1>8. Approved' = Approved /\ DOMAIN requests' = DOMAIN requests
    BY <1>3, <1>4, <1>7, MarkedFields DEF Approved
  <1>9. ListHolds(t)'
    <2> SUFFICES ASSUME NEW k \in todo[t]
                 PROVE  k.req \in Approved /\ k.item = requests'[k.req].item
      BY <1>1, <1>8 DEF ListHolds
    <2>1. k.req \in Approved /\ k.item = requests[k.req].item /\ r < k.req
      BY <1>2, <1>4 DEF ListHolds
    <2>2. k.req # r
      BY <1>4, <1>5, <1>6, <2>1
    <2> QED BY <1>6, <1>7, <2>1, <2>2
  <1>10. PlanHolds(t)'
    BY <1>1 DEF PlanHolds
  <1>11. ASSUME NEW s \in DOMAIN requests, NEW j
         PROVE  /\ Hit(items', requests'[s], j) => Hit(items, requests[s], j)
                /\ Hit(items', requests'[s], j) /\ q.action = "delete" =>
                     requests[s].ident # q.ident
                /\ Hit(items, requests[s], j) =>
                     \/ Hit(items', requests'[s], j)
                     \/ q.action = "delete" /\ requests[s].ident = q.ident
    BY <1>3, <1>4, UpdateHits, DeleteHits DEF q
  <1>12. ASSUME NEW s \in Approved, ~ Ahead(t, s)'
         PROVE  /\ Shown(items', requests', s)
                /\ \A left \in Approved : Ahead(t, left)' => s < left
    <2>1. \A left \in Approved : Ahead(t, left)' => Ahead(t, left) /\ r < left
      BY <1>1, <1>4 DEF Ahead
    <2>2. CASE s = r
      <3> SUFFICES ASSUME NEW j, Hit(items', requests'[r], j)
                   PROVE  /\ requests'[r].action = "update"
                          /\ requests'[r].change.val \in {Keep, items'[j].val}
        BY <2>1, <2>2 DEF Shown
      <3>1. j = i /\ q.action # "delete"
        <4>1. Hit(items, requests[r], j) /\ (q.action = "delete" => requests[r].ident # q.ident)
          BY <1>4, <1>11
        <4> QED BY <1>4, <4>1, OneHit DEF q
      <3>2. q.action = "update"
        BY <1>5, <3>1 DEF Request, Actions
      <3>3. items'[i].val = IF q.change.val = Keep THEN items[i].val ELSE q.change.val
        BY <1>3, <3>1 DEF Carried, q
      <3> QED BY <1>4, <1>7, <3>1, <3>2, <3>3 DEF q
    <2>3. CASE s # r
      <3>1. ~ Ahead(t, s)
        BY <1>1, <1>12, <2>3 DEF Ahead, r
      <3>2. Shown(items, requests, s) /\ \A left \in Approved : Ahead(t, left) => s < left
        BY <1>2, <3>1 DEF DoneShows
      <3>3. s < r
        BY <1>1, <1>4, <3>2 DEF Ahead, r
      <3>4. ASSUME NEW j \in DOMAIN items', Hit(items', requests'[s], j)
            PROVE  /\ requests'[s].action = "update"
                   /\ \/ requests'[s].change.val \in {Keep, items'[j].val}
                      \/ Covered(items', requests', s, j)
        <4>1. /\ Hit(items, requests[s], j) /\ j \in DOMAIN items
              /\ q.action = "delete" => requests[s].ident # q.ident
          BY <1>6, <1>11, <3>4 DEF Hit, At
        <4>2. /\ requests[s].action = "update"
              /\ \/ requests[s].change.val \in {Keep, items[j].val}
                 \/ Covered(items, requests, s, j)
          BY <3>2, <4>1 DEF Shown
        <4>3. CASE Covered(items, requests, s, j)
          <5>1. PICK r2 \in DOMAIN requests :
                   /\ requests[r2].status = "approved" /\ r2 > s
                   /\ Hit(items, requests[r2], j) /\ requests[r2].change.val # Keep
            BY <4>3 DEF Covered
          <5>2. requests[r2].ident = requests[s].ident
            BY <4>1, <5>1 DEF Hit, At
          <5>3. Hit(items', requests'[r2], j)
            BY <1>11, <4>1, <5>1, <5>2
          <5>4. Covered(items', requests', s, j)
            BY <1>7, <1>8, <5>1, <5>3 DEF Covered
          <5> QED BY <1>6, <1>7, <4>2, <5>4
        <4>4. CASE requests[s].change.val \in {Keep, items[j].val}
          <5>1. CASE j # i
            <6>1. items'[j] = items[j]
              BY <1>3, <4>1, <5>1 DEF Carried
            <6> QED BY <1>6, <1>7, <4>2, <4>4, <6>1
          <5>2. CASE j = i
            <6>1. requests[s].ident = q.ident
              BY <1>4, <4>1, <5>2 DEF Hit, At
            <6>2. q.action # "delete"
              BY <4>1, <6>1
            <6>3. items'[i].val = IF q.change.val = Keep THEN items[i].val ELSE q.change.val
              BY <1>3, <6>2 DEF Carried, q
            <6>4. CASE q.change.val = Keep
              BY <1>6, <1>7, <4>2, <4>4, <5>2, <6>3, <6>4
            <6>5. CASE q.change.val # Keep
              <7>1. Hit(items', requests'[r], i)
                BY <1>4, <1>11, <6>2 DEF q
              <7>2. /\ r \in DOMAIN requests' /\ requests'[r].status = "approved" /\ r > s
                    /\ requests'[r].change.val # Keep
                BY <1>4, <1>5, <1>6, <1>7, <1>8, <3>3, <6>5 DEF q
              <7>3. Covered(items', requests', s, j)
                BY <5>2, <7>1, <7>2 DEF Covered
              <7> QED BY <1>6, <1>7, <4>2, <7>3
            <6> QED BY <6>4, <6>5
          <5> QED BY <5>1, <5>2
        <4> QED BY <4>2, <4>3, <4>4
      <3>5. Shown(items', requests', s)
        BY <3>4 DEF Shown
      <3> QED BY <2>1, <3>2, <3>5
    <2> QED BY <2>2, <2>3
  <1>13. DoneShows(t)'
    BY <1>8, <1>12 DEF DoneShows
  <1> QED BY <1>9, <1>10, <1>13

LEMMA SyncStep ==
  TypeInv /\ IdentsStay /\ DeletedGone /\ SyncInv /\ OneSource /\ [Next]_vars => SyncInv'
  <1> SUFFICES ASSUME TypeInv, IdentsStay, DeletedGone, SyncInv, OneSource, [Next]_vars,
                      NEW t \in Threads, Syncing(t)'
               PROVE  ListHolds(t)' /\ PlanHolds(t)' /\ DoneShows(t)'
    BY DEF SyncInv
  <1> QED BY OnlyItself, StandsStep, SyncListStep, SyncSkipStep, SyncPlanStep, FreshWrite

LEMMA IdentsStep == TypeInv /\ IdentsStay /\ ValuesOnly /\ [Next]_vars => IdentsStay'
  <1> SUFFICES ASSUME TypeInv, IdentsStay, ValuesOnly, [Next]_vars PROVE IdentsStay'
    OBVIOUS
  <1>1. \A r \in DOMAIN requests : requests'[r].change.ident = Keep
    BY RequestSteps, LogGrows DEF IdentsStay
  <1>2. ASSUME NEW q \in Request, NEW d \in Seq({"approved", "rejected"}),
               RequestAdded(q, d), q.change.ident = Keep, NEW r \in DOMAIN requests'
        PROVE  requests'[r].change.ident = Keep
    BY <1>1, <1>2, Added DEF RequestAdded, TypeInv
  <1>3. \A r \in DOMAIN requests' : requests'[r].change.ident = Keep
    <2>1. CASE RequestsKept
      BY <1>1, <2>1 DEF RequestsKept
    <2>2. CASE RequestAdded(Pending, <<>>)
      <3>1. Pending \in Request /\ Pending.change.ident = Keep
        BY PendingType DEF TypeInv, Pending, IdentsStay
      <3>2. <<>> \in Seq({"approved", "rejected"})
        OBVIOUS
      <3> QED BY <1>2, <2>2, <3>1, <3>2
    <2>3. CASE \E q \in Request : q.change.ident = Keep /\ RequestAdded(q, <<"approved">>)
      <3>1. <<"approved">> \in Seq({"approved", "rejected"})
        OBVIOUS
      <3> QED BY <1>2, <2>3, <3>1
    <2>4. CASE \E r \in DOMAIN requests : \E d \in {"approved", "rejected"} :
                 RequestDecided(r, d)
      BY <1>1, <2>4 DEF RequestDecided
    <2> QED BY <2>1, <2>2, <2>3, <2>4, RequestSteps DEF RequestStep
  <1>4. draft \in Draft /\ draft.change.ident = Keep /\ draft' \in Draft
    BY NextTypeInv DEF TypeInv, TypeOK, IdentsStay
  <1>5. NoDraft.change.ident = Keep /\ NoChange.ident = Keep
    BY DEF NoDraft, NoChange
  <1>6. draft'.change.ident = Keep
    <2>1. CASE draft' = draft
      BY <1>4, <2>1
    <2>2. ASSUME NEW i, NEW a, NEW c, SubmitOne(i, a, c), c.ident = Keep
          PROVE  draft'.change.ident = Keep
      BY <2>2 DEF SubmitOne, NoDraft
    <2>3. ASSUME NEW S, NEW a, SubmitBulk(S, a) PROVE draft'.change.ident = Keep
      BY <1>5, <2>3 DEF SubmitBulk, NoDraft
    <2>4. ASSUME NEW i, NextRow(i) PROVE draft'.change.ident = Keep
      <3>1. draft' = NoDraft \/ draft' = [NoDraft EXCEPT !.action = draft.action]
        BY <2>4 DEF NextRow
      <3> QED BY <1>5, <3>1 DEF NoDraft
    <2>5. ASSUME NEW c \in OneColumn, BulkPick(c) PROVE draft'.change.ident = Keep
      <3>1. c.ident = Keep
        BY DEF OneColumn, ValuesOnly
      <3>2. \E i : draft' = [draft EXCEPT !.item = i, !.change = c]
        BY <2>5 DEF BulkPick
      <3> QED BY <1>4, <3>1, <3>2 DEF Draft
    <2>6. ASSUME CreateCheck PROVE draft'.change.ident = Keep
      <3>1. PICK row : row = items[draft.item]
        OBVIOUS
      <3>2. draft' = [draft EXCEPT !.src = row.src, !.ident = row.ident,
                       !.change = IF draft.action = "delete" THEN NoChange
                                  ELSE Missing(row, draft.change)]
        BY <2>6, <3>1 DEF CreateCheck
      <3>3. draft'.change = IF draft.action = "delete" THEN NoChange
                            ELSE Missing(row, draft.change)
        BY <1>4, <3>2 DEF Draft
      <3> QED BY <1>4, <1>5, <3>3 DEF Missing
    <2>7. CASE draft' = NoDraft
      BY <1>5, <2>7
    <2>8. CASE UNCHANGED vars
      BY <2>1, <2>8 DEF vars
    <2>9. CASE Next
      <3>1. PICK t \in Threads : Begin(t) \/ Handle(t) \/ LockTimeout(t)
        BY <2>9 DEF Next
      <3>2. CASE Begin(t) \/ LockTimeout(t) \/ Finish(t)
        BY <2>1, <2>7, <3>2, SMTT(30) DEF Begin, LockTimeout, Finish, filing
      <3>3. CASE Synchronize(t)
        BY <2>1, <3>3
        DEF Synchronize, SeedSkip, SeedFind, SeedWrite, SeedConflict, SyncList, SyncSkip,
            SyncPlan, SyncWrite, SyncDone, filing
      <3>4. CASE Review(t)
        BY <2>1, <3>4
        DEF Review, ReviewCheck, ApproveTxn, ApproveRollback, RejectTxn, filing
      <3>5. CASE File
        <4>1. BulkAbort \/ CreateRefused \/ CreateTxn => draft'.change.ident = Keep
          BY <2>4, <2>7 DEF BulkAbort, CreateRefused, CreateTxn
        <4>2. \A c \in OneColumn : BulkSkip(c) => draft'.change.ident = Keep
          BY <2>4 DEF BulkSkip
        <4>3. \A c \in Edits : c.ident = Keep
          BY DEF ValuesOnly
        <4> QED BY <1>5, <2>2, <2>3, <2>5, <2>6, <3>5, <4>1, <4>2, <4>3 DEF File
      <3>6. CASE Rebuild
        BY <2>1, <3>6 DEF Rebuild, ImportWrite, ImportCommit, Clear, filing
      <3>7. CASE EditMetadata(t)
        BY <2>1, <3>7, EditFrame DEF filing
      <3> QED BY <3>1, <3>2, <3>3, <3>4, <3>5, <3>6, <3>7 DEF Handle
    <2> QED BY <2>8, <2>9
  <1> QED BY <1>3, <1>6 DEF IdentsStay

(* A row that is gone never comes back: ids are not used again. *)
GoneStays == \A i \in DOMAIN items :
                i \in DOMAIN items' /\ (items[i] = NoRow => items'[i] = NoRow)

LEMMA RewriteGone ==
  ASSUME NEW i, NEW q, NEW c, items' = Rewrite(i, q, c) PROVE GoneStays
  BY DEF Rewrite, GoneStays

LEMMA GoneStep == TypeInv /\ [Next]_vars => GoneStays
  <1> SUFFICES ASSUME TypeInv, [Next]_vars PROVE GoneStays
    OBVIOUS
  <1>0. items' = items => GoneStays
    BY DEF GoneStays
  <1>1. CASE UNCHANGED vars
    BY <1>0, <1>1 DEF vars
  <1>2. CASE Next
    <2>1. PICK t \in Threads : Begin(t) \/ Handle(t) \/ LockTimeout(t)
      BY <1>2 DEF Next
    <2>2. CASE Begin(t) \/ LockTimeout(t) \/ Finish(t)
      BY <1>0, <2>2 DEF Begin, LockTimeout, Finish, db
    <2>3. CASE Synchronize(t)
      <3>1. SeedWrite(t) => items' = items \/ \E i, q, c : items' = Rewrite(i, q, c)
        BY DEF SeedWrite
      <3>2. SyncWrite(t) => \E i, q, c : items' = Rewrite(i, q, c)
        BY DEF SyncWrite
      <3> QED BY <1>0, <2>3, <3>1, <3>2, RewriteGone
          DEF Synchronize, SeedSkip, SeedFind, SeedConflict, SyncList, SyncSkip,
              SyncPlan, SyncDone, db
    <2>4. CASE Review(t)
      <3>1. ApproveTxn(t) => \E i, q, c : items' = Rewrite(i, q, c)
        BY DEF ApproveTxn
      <3> QED BY <1>0, <2>4, <3>1, RewriteGone
          DEF Review, ReviewCheck, ApproveRollback, RejectTxn, db
    <2>5. CASE File
      BY <1>0, <2>5
      DEF File, SubmitOne, SubmitBulk, BulkSkip, BulkPick, BulkAbort, CreateCheck,
          CreateRefused, CreateTxn, db
    <2>6. CASE Rebuild
      <3>1. ASSUME NEW src \in Sources, NEW scope \in Scopes,
                   NEW old \in SUBSET OldRows(src, scope), NEW new \in NewRows(src, scope),
                   ImportWrite(src, scope, old, new)
            PROVE  GoneStays
        <4>1. PICK kept : kept = [i \in DOMAIN items |-> IF i \in old THEN NoRow ELSE items[i]]
          OBVIOUS
        <4>2. items' = kept \o new
          BY <3>1, <4>1 DEF ImportWrite
        <4>3. new \in Seq({row \in Row : row.src = src /\ row.ident \in scope})
          BY BatchType DEF NewRows
        <4>4. DOMAIN items = 1 .. Len(items) /\ Len(items) \in Nat
          BY DEF TypeInv, TypeOK
        <4>5. kept \in Seq(Row \cup {NoRow}) /\ Len(kept) = Len(items)
          <5>1. \A i \in 1 .. Len(items) : kept[i] \in Row \cup {NoRow}
            BY <4>1, <4>4 DEF TypeInv, TypeOK
          <5>2. kept = [i \in 1 .. Len(items) |-> kept[i]]
            BY <4>1, <4>4
          <5> QED BY <4>4, <5>1, <5>2, FunctionSeq
        <4>6. \A i \in 1 .. Len(items) : i \in DOMAIN items' /\ items'[i] = kept[i]
          BY <4>2, <4>3, <4>4, <4>5
        <4> QED BY <4>1, <4>4, <4>6 DEF GoneStays
      <3>2. Clear => GoneStays
        BY DEF Clear, GoneStays
      <3>3. ImportCommit => GoneStays
        BY <1>0 DEF ImportCommit, db
      <3> QED BY <2>6, <3>1, <3>2, <3>3 DEF Rebuild
    <2>7. CASE EditMetadata(t)
      BY <2>7, EditedRows DEF EditsValues, GoneStays
    <2> QED BY <2>1, <2>2, <2>3, <2>4, <2>5, <2>6, <2>7 DEF Handle
  <1> QED BY <1>1, <1>2

LEMMA DeletedStep == TypeInv /\ DeletedGone /\ [Next]_vars => DeletedGone'
  <1> SUFFICES ASSUME TypeInv, DeletedGone, [Next]_vars PROVE DeletedGone'
    OBVIOUS
  <1> DEFINE Gone(i) == i \in DOMAIN items' /\ items'[i] = NoRow
             Safe(r) == requests'[r].action = "delete" /\ requests'[r].status = "approved"
                           => Gone(requests'[r].item)
  <1>0. SUFFICES \A r \in DOMAIN requests' : Safe(r)
    BY DEF DeletedGone, Approved
  <1>1. GoneStays
    BY GoneStep
  <1>2. \A r \in DOMAIN requests :
           requests[r].status = "approved" /\ requests[r].action = "delete"
              => Gone(requests[r].item)
    BY <1>1 DEF DeletedGone, Approved, GoneStays
  <1>3. requests' = requests => \A r \in DOMAIN requests' : Safe(r)
    BY <1>2
  <1>4. ASSUME NEW q \in Request, NEW d \in Seq({"approved", "rejected"}),
               RequestAdded(q, d), q.status # "approved" \/ q.action = "update",
               NEW r \in DOMAIN requests'
        PROVE  Safe(r)
    BY <1>2, <1>4, Added DEF RequestAdded, TypeInv
  <1>5. ASSUME NEW t \in Threads, SyncWrite(t), NEW r \in DOMAIN requests'
        PROVE  Safe(r)
    <2> DEFINE h == held[t]
               on == [requests[h.req] EXCEPT !.item = h.item, !.applied = TRUE]
    <2>1. /\ h.req \in DOMAIN requests /\ h.item \in DOMAIN items
          /\ requests[h.req] \in Request
      BY <1>5, RequestsTyped DEF SyncWrite, TypeInv, HandlesExist
    <2>2. \/ requests' = requests
          \/ requests' = [requests EXCEPT ![h.req] = on]
      BY <1>5 DEF SyncWrite
    <2>3. requests[h.req].action = "delete" => Gone(h.item)
      BY <1>5, <2>1 DEF SyncWrite, Rewrite
    <2>4. on.action = requests[h.req].action /\ on.item = h.item
      BY <2>1 DEF Request
    <2> HIDE DEF h, on, Gone
    <2>5. CASE requests' = requests
      BY <1>3, <1>5, <2>5
    <2>6. CASE requests' = [requests EXCEPT ![h.req] = on]
      <3>1. CASE r = h.req
        BY <2>1, <2>3, <2>4, <2>6, <3>1
      <3>2. CASE r # h.req
        BY <1>2, <1>5, <2>6, <3>2
      <3> QED BY <3>1, <3>2
    <2> QED BY <2>2, <2>5, <2>6
  <1>6. ASSUME NEW t \in Threads, ApproveTxn(t), NEW r \in DOMAIN requests'
        PROVE  Safe(r)
    <2> DEFINE a == held[t].req
    <2>1. a \in DOMAIN requests /\ requests[a] \in Request
      BY <1>6, RequestsTyped DEF ApproveTxn, TypeInv, HandlesExist
    <2>2. PICK i \in Target(held[t].item, requests[a]) :
            /\ items' = Rewrite(i, requests[a], requests[a].change)
            /\ requests' = [requests EXCEPT ![a] =
                 IF Outdated(i, requests[a])
                 THEN [@ EXCEPT !.status = "approved", !.item = i, !.applied = TRUE]
                 ELSE [@ EXCEPT !.status = "approved"]]
      BY <1>6 DEF ApproveTxn
    <2>3. i \in DOMAIN items
      BY TargetInItems DEF Live
    <2>4. CASE requests[a].action = "delete"
      <3>1. Gone(i)
        BY <2>2, <2>3, <2>4 DEF Rewrite
      <3>2. PICK on : on = [requests[a] EXCEPT !.status = "approved", !.item = i, !.applied = TRUE]
        OBVIOUS
      <3>3. on.item = i
        BY <2>1, <3>2 DEF Request
      <3>4. requests' = [requests EXCEPT ![a] = on]
        BY <2>2, <2>4, <3>2 DEF Outdated
      <3> HIDE DEF a, Gone
      <3>5. CASE r = a
        BY <2>1, <3>1, <3>3, <3>4, <3>5
      <3>6. CASE r # a
        BY <1>2, <1>6, <3>4, <3>6
      <3> QED BY <3>5, <3>6
    <2>5. CASE requests[a].action # "delete"
      <3>1. PICK on : /\ requests' = [requests EXCEPT ![a] = on]
                      /\ on \in {[requests[a] EXCEPT !.status = "approved", !.item = i,
                                                    !.applied = TRUE],
                                 [requests[a] EXCEPT !.status = "approved"]}
        BY <2>2
      <3>2. on.action = requests[a].action
        BY <2>1, <3>1 DEF Request
      <3> HIDE DEF a, Gone
      <3>3. CASE r = a
        BY <2>1, <2>5, <3>1, <3>2, <3>3
      <3>4. CASE r # a
        BY <1>2, <1>6, <3>1, <3>4
      <3> QED BY <3>3, <3>4
    <2> QED BY <2>4, <2>5
  <1>7. ASSUME NEW t \in Threads, RejectTxn(t), NEW r \in DOMAIN requests'
        PROVE  Safe(r)
    <2> DEFINE a == held[t].req
    <2>1. PICK on : on = [requests[a] EXCEPT !.status = "rejected"]
      OBVIOUS
    <2>2. a \in DOMAIN requests /\ requests[a] \in Request
      BY <1>7, RequestsTyped DEF RejectTxn, TypeInv, HandlesExist
    <2>3. on.status = "rejected"
      BY <2>1, <2>2 DEF Request
    <2>4. requests' = [requests EXCEPT ![a] = on]
      BY <1>7, <2>1 DEF RejectTxn
    <2> HIDE DEF a, Gone
    <2>5. CASE r = a
      BY <2>2, <2>3, <2>4, <2>5
    <2>6. CASE r # a
      BY <1>2, <1>7, <2>4, <2>6
    <2> QED BY <2>5, <2>6
  <1>8. ASSUME CreateTxn, NEW r \in DOMAIN requests' PROVE Safe(r)
    <2>1. RequestAdded(Pending, <<>>)
      BY <1>8 DEF CreateTxn, Pending, RequestAdded
    <2>2. Pending \in Request /\ Pending.status # "approved"
      BY PendingType DEF TypeInv, Pending
    <2>3. <<>> \in Seq({"approved", "rejected"})
      OBVIOUS
    <2> QED BY <1>4, <1>8, <2>1, <2>2, <2>3
  <1>9. ASSUME NEW t \in Threads, SeedWrite(t), NEW r \in DOMAIN requests' PROVE Safe(r)
    <2>1. PICK q : /\ requests' = Append(requests, q) /\ q.action = "update"
                   /\ q \in Request
      BY <1>9, SeedWriteAdds
    <2>2. RequestAdded(q, <<"approved">>)
      BY <1>9, <2>1 DEF RequestAdded, SeedWrite
    <2>3. <<"approved">> \in Seq({"approved", "rejected"})
      OBVIOUS
    <2> QED BY <1>4, <1>9, <2>1, <2>2, <2>3
  <1> HIDE DEF Safe
  <1>10. CASE UNCHANGED vars
    BY <1>3, <1>10 DEF vars
  <1>11. CASE Next
    <2>1. PICK t \in Threads : Begin(t) \/ Handle(t) \/ LockTimeout(t)
      BY <1>11 DEF Next
    <2>2. CASE Begin(t) \/ LockTimeout(t) \/ Finish(t)
      BY <1>3, <2>2 DEF Begin, LockTimeout, Finish, db
    <2>3. CASE Synchronize(t)
      BY <1>3, <1>5, <1>9, <2>3
      DEF Synchronize, SeedSkip, SeedFind, SeedConflict, SyncList, SyncSkip, SyncPlan,
          SyncDone, db
    <2>4. CASE Review(t)
      BY <1>3, <1>6, <1>7, <2>4 DEF Review, ReviewCheck, ApproveRollback, db
    <2>5. CASE File
      BY <1>3, <1>8, <2>5
      DEF File, SubmitOne, SubmitBulk, BulkSkip, BulkPick, BulkAbort, CreateCheck,
          CreateRefused, db
    <2>6. CASE Rebuild
      BY <1>3, <2>6 DEF Rebuild, ImportWrite, ImportCommit, Clear, db
    <2>7. CASE EditMetadata(t)
      BY <1>3, <2>7, EditFrame
    <2> QED BY <2>1, <2>2, <2>3, <2>4, <2>5, <2>6, <2>7 DEF Handle
  <1> QED BY <1>10, <1>11

LEMMA OverlayInit == Init => OverlayInv
  <1>1. Init => IdentsStay /\ DeletedGone /\ SyncInv
    BY DEF Init, IdentsStay, DeletedGone, Approved, SyncInv, Syncing, NoDraft, NoChange
  <1> QED BY <1>1, InitTypeInv DEF OverlayInv

LEMMA OverlayStep ==
  ASSUME OneSource, ValuesOnly PROVE OverlayInv /\ [Next]_vars => OverlayInv'
  BY NextTypeInv, IdentsStep, DeletedStep, SyncStep DEF OverlayInv

LEMMA OverlayShown ==
  ASSUME OneSource, OverlayInv PROVE FreshSyncShowsOverlay
  <1> SUFFICES ASSUME NEW t \in Threads, pc[t] = "sync", todo[t] = {}, fresh[t],
                      NEW r \in Approved, NEW i \in Target(requests[r].item, requests[r])
               PROVE  /\ requests[r].action = "update"
                      /\ \/ requests[r].change.val \in {Keep, items[i].val}
                         \/ Overridden(r, i)
    BY DEF FreshSyncShowsOverlay, OverlayHolds
  <1>1. r \in DOMAIN requests /\ requests[r] \in Request /\ TypeOK
    BY RequestsTyped DEF OverlayInv, TypeInv, Approved
  <1>2. ~ Ahead(t, r)
    BY DEF Ahead
  <1>3. Shown(items, requests, r)
    BY <1>2 DEF OverlayInv, SyncInv, Syncing, DoneShows
  <1>4. Hit(items, requests[r], i)
    BY <1>1, TargetHits
  <1>5. /\ requests[r].action = "update"
        /\ requests[r].change.val \in {Keep, items[i].val} \/ Covered(items, requests, r, i)
    BY <1>3, <1>4 DEF Shown, Hit, At
  <1>6. Covered(items, requests, r, i) => Overridden(r, i)
    <2> SUFFICES ASSUME NEW r2 \in DOMAIN requests, requests[r2].status = "approved",
                        r2 > r, Hit(items, requests[r2], i), requests[r2].change.val # Keep
                 PROVE  Overridden(r, i)
      BY DEF Covered
    <2>1. requests[r2] \in Request
      BY <1>1, RequestsTyped
    <2>2. i \in Target(requests[r2].item, requests[r2])
      BY <1>1, <2>1, HitsTarget
    <2> QED BY <2>2 DEF Overridden, Approved
  <1> QED BY <1>5, <1>6

(* A handler that has gone through the approved corrections while nobody else
   wrote shows every one of them: deleted rows are gone and a column has the
   value of the latest approved correction, however many handlers, seeds and
   corrections there are and whatever was imported before.  For rows of one
   source (of several, a correction may land on another's row: the run
   corrections_sources) and edits of the columns that do not identify a row. *)
THEOREM OverlayIsShown ==
  ASSUME OneSource, ValuesOnly PROVE Spec => []FreshSyncShowsOverlay
  <1>1. OverlayInv /\ [Next]_vars => OverlayInv'
    BY OverlayStep
  <1>2. OverlayInv => FreshSyncShowsOverlay
    BY OverlayShown
  <1> QED BY <1>1, <1>2, OverlayInit, PTL DEF Spec

--------------------------------------------------------------------------------
(* Termination: every step is one handler's and brings it nearer its end       *)

(* The row being filed is one of those still to do. *)
RowInHand == pc[Loop] \in {"check", "create"} => draft.item \in batch

WorkInv == TypeInv /\ RowInHand

OwnStep(t) ==
  /\ Begins(t) \/ Ends(t) \/ (pc[t] # "idle" /\ Advances(t))
  /\ \A u \in Threads \ {t} : Undisturbed(u)

(* What a step of t alone may write to the variables handlers have each. *)
OnlyOf(t) ==
  /\ \E p : pc' = [pc EXCEPT ![t] = p]
  /\ \E k : seedPos' = [seedPos EXCEPT ![t] = k]
  /\ \E S : todo' = [todo EXCEPT ![t] = S]
  /\ \E h : held' = [held EXCEPT ![t] = h]
  /\ t # Loop => UNCHANGED filing

LEMMA Unwritten ==
  ASSUME NEW f, NEW D, NEW R, f \in [D -> R], NEW t
  PROVE  f = [f EXCEPT ![t] = f[t]]
  OBVIOUS

LEMMA OthersUndisturbed ==
  ASSUME TypeOK, NEW t \in Threads, OnlyOf(t)
  PROVE  \A u \in Threads \ {t} : Undisturbed(u)
  <1> SUFFICES ASSUME NEW u \in Threads, u # t PROVE Undisturbed(u)
    OBVIOUS
  <1>1. pc'[u] = pc[u] /\ seedPos'[u] = seedPos[u] /\ todo'[u] = todo[u] /\ held'[u] = held[u]
    BY DEF OnlyOf, TypeOK
  <1>2. u = Loop => UNCHANGED filing
    BY DEF OnlyOf
  <1> QED BY <1>1, <1>2 DEF Undisturbed

(* A step that leaves these variables alone, but for the phase of t. *)
LEMMA PhaseOnly ==
  ASSUME TypeOK, NEW t \in Threads, NEW p, pc' = [pc EXCEPT ![t] = p],
         UNCHANGED <<seedPos, todo, held>>, t # Loop => UNCHANGED filing
  PROVE  OnlyOf(t)
  <1>1. /\ seedPos = [seedPos EXCEPT ![t] = seedPos[t]]
        /\ todo = [todo EXCEPT ![t] = todo[t]]
        /\ held = [held EXCEPT ![t] = held[t]]
    BY Unwritten DEF TypeOK
  <1> QED BY <1>1 DEF OnlyOf

LEMMA PcNow ==
  ASSUME TypeOK, NEW t \in Threads, NEW p, pc' = [pc EXCEPT ![t] = p]
  PROVE  pc'[t] = p
  BY DEF TypeOK

LEMMA SeedSkipOwn ==
  ASSUME TypeInv, NEW t \in Threads, SeedSkip(t) PROVE OwnStep(t)
  <1>1. /\ pc[t] = "seed" /\ pc' = pc /\ todo' = todo /\ held' = held /\ UNCHANGED filing
        /\ seedPos' = [seedPos EXCEPT ![t] = seedPos[t] + 1] /\ seedPos[t] <= Len(SeedList)
    BY DEF SeedSkip
  <1>2. /\ pc = [pc EXCEPT ![t] = pc[t]] /\ todo = [todo EXCEPT ![t] = todo[t]]
        /\ held = [held EXCEPT ![t] = held[t]]
    BY Unwritten DEF TypeInv, TypeOK
  <1>3. OnlyOf(t)
    BY <1>1, <1>2 DEF OnlyOf
  <1>4. seedPos[t] \in Nat /\ seedPos'[t] = seedPos[t] + 1
    BY <1>1 DEF TypeInv, TypeOK
  <1>5. /\ Stage(pc[t]) = 4 /\ Stage(pc[t])' = 4
        /\ Left(t) = seedPos[t] .. Len(SeedList) /\ Left(t)' = (seedPos[t] + 1) .. Len(SeedList)
    BY <1>1, <1>4 DEF Stage, Left
  <1>6. Fewer(Left(t)', Left(t))
    BY <1>1, <1>4, <1>5, SeedCount DEF Fewer
  <1>7. Files(t)' = Files(t)
    BY <1>1 DEF Files, filing
  <1>8. Advances(t)
    BY <1>5, <1>6, <1>7 DEF Advances
  <1> QED BY <1>1, <1>3, <1>8, OthersUndisturbed DEF OwnStep, TypeInv

LEMMA SeedFindOwn ==
  ASSUME TypeInv, NEW t \in Threads, SeedFind(t) PROVE OwnStep(t)
  <1>1. /\ pc[t] = "seed" /\ pc' = [pc EXCEPT ![t] = "seedwrite"]
        /\ todo' = todo /\ seedPos' = seedPos /\ UNCHANGED filing
        /\ \E h : held' = [held EXCEPT ![t] = h]
    BY DEF SeedFind, Goto
  <1>2. todo = [todo EXCEPT ![t] = todo[t]] /\ seedPos = [seedPos EXCEPT ![t] = seedPos[t]]
    BY Unwritten DEF TypeInv, TypeOK
  <1>3. OnlyOf(t)
    BY <1>1, <1>2 DEF OnlyOf
  <1>4. pc'[t] = "seedwrite"
    BY <1>1, PcNow DEF TypeInv
  <1>5. /\ Stage(pc[t]) = 4 /\ Stage(pc[t])' = 4 /\ Left(t)' = Left(t)
        /\ StepsEach(pc[t])' < StepsEach(pc[t])
    BY <1>1, <1>4 DEF Stage, Left, StepsEach
  <1>6. Files(t)' = Files(t)
    BY <1>1 DEF Files, filing
  <1>7. Advances(t)
    BY <1>5, <1>6 DEF Advances
  <1> QED BY <1>1, <1>3, <1>7, OthersUndisturbed DEF OwnStep, TypeInv

LEMMA SeedWriteOwn ==
  ASSUME TypeInv, NEW t \in Threads, SeedWrite(t) PROVE OwnStep(t)
  <1>1. /\ pc[t] = "seedwrite" /\ pc' = [pc EXCEPT ![t] = "seed"]
        /\ todo' = todo /\ UNCHANGED filing
        /\ seedPos' = [seedPos EXCEPT ![t] = seedPos[t] + 1]
        /\ held' = [held EXCEPT ![t] = NoHeld]
    <2>1. pc[t] = "seedwrite" /\ seedPos' = [seedPos EXCEPT ![t] = seedPos[t] + 1]
      BY Zenon DEF SeedWrite
    <2>2. pc' = [pc EXCEPT ![t] = "seed"] /\ held' = [held EXCEPT ![t] = NoHeld]
      BY Zenon DEF SeedWrite, Goto
    <2>3. todo' = todo /\ UNCHANGED filing
      BY Zenon DEF SeedWrite
    <2> QED BY <2>1, <2>2, <2>3
  <1>2. todo = [todo EXCEPT ![t] = todo[t]]
    BY Unwritten DEF TypeInv, TypeOK
  <1>3. OnlyOf(t)
    BY <1>1, <1>2 DEF OnlyOf
  <1>4. /\ pc'[t] = "seed" /\ seedPos'[t] = seedPos[t] + 1
        /\ seedPos[t] \in Nat /\ seedPos[t] <= Len(SeedList)
    BY <1>1 DEF TypeInv, TypeOK, HandlesExist
  <1>5. /\ Stage(pc[t]) = 4 /\ Stage(pc[t])' = 4
        /\ Left(t) = seedPos[t] .. Len(SeedList) /\ Left(t)' = (seedPos[t] + 1) .. Len(SeedList)
    BY <1>1, <1>4 DEF Stage, Left
  <1>6. Fewer(Left(t)', Left(t))
    BY <1>4, <1>5, SeedCount DEF Fewer
  <1>7. Files(t)' = Files(t)
    BY <1>1 DEF Files, filing
  <1>8. Advances(t)
    BY <1>5, <1>6, <1>7 DEF Advances
  <1> QED BY <1>1, <1>3, <1>8, OthersUndisturbed DEF OwnStep, TypeInv

(* A step that leaves t idle, whatever it forgets. *)
LEMMA EndOwn ==
  ASSUME TypeInv, NEW t \in Threads, OnlyOf(t), pc[t] # "idle",
         pc' = [pc EXCEPT ![t] = "idle"]
  PROVE  OwnStep(t)
  <1>1. Ends(t)
    BY PcNow DEF Ends, TypeInv
  <1> QED BY <1>1, OthersUndisturbed DEF OwnStep, TypeInv

(* A step into a later part of the handler. *)
LEMMA PartOwn ==
  ASSUME TypeInv, NEW t \in Threads, OnlyOf(t), pc[t] # "idle", imported' = imported,
         NEW p, pc' = [pc EXCEPT ![t] = p], Stage(p) < Stage(pc[t])
  PROVE  OwnStep(t)
  <1>1. pc'[t] = p /\ Files(t)' = Files(t)
    BY PcNow DEF Files, TypeInv
  <1>2. Advances(t)
    BY <1>1 DEF Advances
  <1> QED BY <1>2, OthersUndisturbed DEF OwnStep, TypeInv

LEMMA SeedConflictOwn ==
  ASSUME TypeInv, NEW t \in Threads, SeedConflict(t) PROVE OwnStep(t)
  <1>1. todo = [todo EXCEPT ![t] = todo[t]]
    BY Unwritten DEF TypeInv, TypeOK
  <1>2. /\ OnlyOf(t) /\ pc[t] # "idle" /\ pc' = [pc EXCEPT ![t] = "idle"]
    BY <1>1 DEF SeedConflict, OnlyOf, Goto
  <1> QED BY <1>2, EndOwn

LEMMA SyncListOwn ==
  ASSUME TypeInv, NEW t \in Threads, SyncList(t) PROVE OwnStep(t)
  <1>1. held = [held EXCEPT ![t] = held[t]]
    BY Unwritten DEF TypeInv, TypeOK
  <1>2. OnlyOf(t)
    BY <1>1 DEF SyncList, OnlyOf, Goto
  <1>3. pc[t] = "seed" /\ pc' = [pc EXCEPT ![t] = "sync"] /\ imported' = imported
    BY DEF SyncList, Goto, filing
  <1>4. Stage("sync") < Stage(pc[t])
    BY <1>3 DEF Stage
  <1> QED BY <1>2, <1>3, <1>4, PartOwn

LEMMA SyncSkipOwn ==
  ASSUME TypeInv, NEW t \in Threads, SyncSkip(t) PROVE OwnStep(t)
  <1>1. PICK k \in todo[t] : todo' = [todo EXCEPT ![t] = @ \ {k}]
    BY DEF SyncSkip, First
  <1>2. pc[t] = "sync" /\ pc' = pc /\ seedPos' = seedPos /\ held' = held /\ UNCHANGED filing
    BY DEF SyncSkip
  <1>3. /\ pc = [pc EXCEPT ![t] = pc[t]] /\ seedPos = [seedPos EXCEPT ![t] = seedPos[t]]
        /\ held = [held EXCEPT ![t] = held[t]]
    BY Unwritten DEF TypeInv, TypeOK
  <1>4. OnlyOf(t)
    BY <1>1, <1>2, <1>3 DEF OnlyOf
  <1>5. todo'[t] = todo[t] \ {k}
    BY <1>1 DEF TypeInv, TypeOK
  <1>6. /\ Stage(pc[t]) = 3 /\ Stage(pc[t])' = 3 /\ Left(t) = todo[t] /\ Left(t)' = todo[t] \ {k}
    BY <1>2, <1>5 DEF Stage, Left
  <1>7. Fewer(Left(t)', Left(t))
    BY <1>6 DEF Fewer
  <1>8. Files(t)' = Files(t)
    BY <1>2 DEF Files, filing
  <1>9. Advances(t)
    BY <1>6, <1>7, <1>8 DEF Advances
  <1> QED BY <1>2, <1>4, <1>9, OthersUndisturbed DEF OwnStep, TypeInv

LEMMA SyncPlanOwn ==
  ASSUME TypeInv, NEW t \in Threads, SyncPlan(t) PROVE OwnStep(t)
  <1>1. PICK k \in todo[t] : /\ todo' = [todo EXCEPT ![t] = @ \ {k}]
                             /\ \E h : held' = [held EXCEPT ![t] = h]
    BY DEF SyncPlan, First
  <1>2. /\ pc[t] = "sync" /\ pc' = [pc EXCEPT ![t] = "write"]
        /\ seedPos' = seedPos /\ UNCHANGED filing
    BY DEF SyncPlan, Goto
  <1>3. seedPos = [seedPos EXCEPT ![t] = seedPos[t]]
    BY Unwritten DEF TypeInv, TypeOK
  <1>4. OnlyOf(t)
    BY <1>1, <1>2, <1>3 DEF OnlyOf
  <1>5. todo'[t] = todo[t] \ {k} /\ pc'[t] = "write"
    BY <1>1, <1>2 DEF TypeInv, TypeOK
  <1>6. /\ Stage(pc[t]) = 3 /\ Stage(pc[t])' = 3 /\ Left(t) = todo[t] /\ Left(t)' = todo[t] \ {k}
    BY <1>2, <1>5 DEF Stage, Left
  <1>7. Fewer(Left(t)', Left(t))
    BY <1>6 DEF Fewer
  <1>8. Files(t)' = Files(t)
    BY <1>2 DEF Files, filing
  <1>9. Advances(t)
    BY <1>6, <1>7, <1>8 DEF Advances
  <1> QED BY <1>2, <1>4, <1>9, OthersUndisturbed DEF OwnStep, TypeInv

LEMMA SyncWriteOwn ==
  ASSUME TypeInv, NEW t \in Threads, SyncWrite(t) PROVE OwnStep(t)
  <1>1. /\ pc[t] = "write" /\ pc' = [pc EXCEPT ![t] = "sync"]
        /\ todo' = todo /\ seedPos' = seedPos /\ UNCHANGED filing
        /\ held' = [held EXCEPT ![t] = NoHeld]
    BY DEF SyncWrite, Goto
  <1>2. todo = [todo EXCEPT ![t] = todo[t]] /\ seedPos = [seedPos EXCEPT ![t] = seedPos[t]]
    BY Unwritten DEF TypeInv, TypeOK
  <1>3. OnlyOf(t)
    BY <1>1, <1>2 DEF OnlyOf
  <1>4. pc'[t] = "sync"
    BY <1>1, PcNow DEF TypeInv
  <1>5. /\ Stage(pc[t]) = 3 /\ Stage(pc[t])' = 3 /\ Left(t)' = Left(t)
        /\ StepsEach(pc[t])' < StepsEach(pc[t])
    BY <1>1, <1>4 DEF Stage, Left, StepsEach
  <1>6. Files(t)' = Files(t)
    BY <1>1 DEF Files, filing
  <1>7. Advances(t)
    BY <1>5, <1>6 DEF Advances
  <1> QED BY <1>1, <1>3, <1>7, OthersUndisturbed DEF OwnStep, TypeInv

LEMMA SyncDoneOwn ==
  ASSUME TypeInv, NEW t \in Threads, SyncDone(t) PROVE OwnStep(t)
  <1>1. PICK p \in {"import", "body"} : pc' = [pc EXCEPT ![t] = p]
    BY DEF SyncDone, Goto
  <1>2. /\ pc[t] = "sync" /\ UNCHANGED <<seedPos, todo, held>> /\ UNCHANGED filing
    BY DEF SyncDone
  <1>3. OnlyOf(t)
    BY <1>1, <1>2, PhaseOnly DEF TypeInv
  <1>4. Stage(p) < Stage(pc[t])
    BY <1>1, <1>2 DEF Stage
  <1> QED BY <1>1, <1>2, <1>3, <1>4, PartOwn DEF filing

LEMMA ReviewOwn ==
  ASSUME TypeInv, NEW t \in Pool, Review(t) PROVE OwnStep(t)
  <1>1. t \in Threads /\ t # Loop
    BY ThreadAssumption DEF Threads
  <1>2. seedPos = [seedPos EXCEPT ![t] = seedPos[t]] /\ todo = [todo EXCEPT ![t] = todo[t]]
    BY <1>1, Unwritten DEF TypeInv, TypeOK
  <1>3. ASSUME NEW r, NEW p \in {"approve", "reject"}, ReviewCheck(t, r, p)
        PROVE  OwnStep(t)
    <2>1. /\ pc[t] = "body" /\ pc' = [pc EXCEPT ![t] = p] /\ imported' = imported
          /\ OnlyOf(t)
      BY <1>1, <1>2, <1>3 DEF ReviewCheck, OnlyOf, Goto, filing
    <2>2. Stage(p) < Stage(pc[t])
      BY <1>3, <2>1 DEF Stage
    <2> QED BY <1>1, <2>1, <2>2, PartOwn
  <1>4. CASE ApproveTxn(t)
    <2>1. pc[t] = "approve" /\ held' = [held EXCEPT ![t] = NoHeld]
      BY <1>4 DEF ApproveTxn
    <2>2. pc' = [pc EXCEPT ![t] = "idle"] /\ seedPos' = seedPos /\ todo' = todo
      BY <1>4 DEF ApproveTxn, Goto
    <2>3. OnlyOf(t)
      <3>1. UNCHANGED filing
        BY <1>4, Zenon DEF ApproveTxn
      <3> QED BY ONLY <1>2, <2>1, <2>2, <3>1 DEF OnlyOf
    <2> QED BY <1>1, <2>1, <2>2, <2>3, EndOwn
  <1>5. CASE ApproveRollback(t)
    BY <1>1, <1>2, <1>5, EndOwn DEF ApproveRollback, OnlyOf, Goto
  <1>6. CASE RejectTxn(t)
    BY <1>1, <1>2, <1>6, EndOwn DEF RejectTxn, OnlyOf, Goto
  <1> QED BY <1>3, <1>4, <1>5, <1>6 DEF Review

LEMMA LockTimeoutOwn ==
  ASSUME TypeInv, NEW t \in Threads, LockTimeout(t) PROVE OwnStep(t)
  <1>1. OnlyOf(t) /\ pc[t] # "idle" /\ pc' = [pc EXCEPT ![t] = "idle"]
    BY DEF LockTimeout, OnlyOf, Goto, filing
  <1> QED BY <1>1, EndOwn

LEMMA FinishOwn ==
  ASSUME TypeInv, NEW t \in Threads, Finish(t) PROVE OwnStep(t)
  <1>1. OnlyOf(t) /\ pc[t] # "idle" /\ pc' = [pc EXCEPT ![t] = "idle"]
    BY PhaseOnly DEF Finish, Goto, TypeInv
  <1> QED BY <1>1, EndOwn

LEMMA EditOwn ==
  ASSUME TypeInv, NEW t \in Threads, EditMetadata(t) PROVE OwnStep(t)
  <1>1. OnlyOf(t) /\ pc[t] # "idle" /\ pc' = [pc EXCEPT ![t] = "idle"]
    BY PhaseOnly, EditFrame DEF TypeInv
  <1> QED BY <1>1, EndOwn

LEMMA BeginOwn ==
  ASSUME TypeInv, NEW t \in Threads, Begin(t) PROVE OwnStep(t)
  <1>1. pc[t] = "idle" /\ pc' = [pc EXCEPT ![t] = "seed"] /\ OnlyOf(t)
    BY PhaseOnly DEF Begin, Goto, TypeInv
  <1>2. Begins(t)
    BY <1>1, PcNow DEF Begins, TypeInv
  <1> QED BY <1>1, <1>2, OthersUndisturbed DEF OwnStep, TypeInv

(* A step of the event loop that files corrections: the phase, and the rows
   still to do. *)
LEMMA FilingOwn ==
  ASSUME TypeInv, UNCHANGED <<seedPos, todo, held, imported>>, pc[Loop] # "idle",
         NEW p, pc' = [pc EXCEPT ![Loop] = p],
         \/ p = "idle"
         \/ Stage(p) < Stage(pc[Loop])
         \/ /\ Stage(pc[Loop]) = 1 /\ Stage(p) = 1
            /\ \/ Fewer(batch', batch)
               \/ batch' = batch /\ StepsEach(p) < StepsEach(pc[Loop])
  PROVE  OwnStep(Loop)
  <1>1. OnlyOf(Loop)
    BY LoopThread, PhaseOnly DEF TypeInv
  <1>2. pc'[Loop] = p /\ Files(Loop)' = Files(Loop)
    BY LoopThread, PcNow DEF Files, TypeInv
  <1>3. CASE p = "idle"
    BY <1>1, <1>3, LoopThread, EndOwn
  <1>4. CASE Stage(p) < Stage(pc[Loop])
    BY <1>1, <1>4, LoopThread, PartOwn
  <1>5. ASSUME Stage(pc[Loop]) = 1, Stage(p) = 1,
               \/ Fewer(batch', batch)
               \/ batch' = batch /\ StepsEach(p) < StepsEach(pc[Loop])
        PROVE  OwnStep(Loop)
    <2>1. Left(Loop) = batch /\ Left(Loop)' = batch'
      BY <1>2, <1>5 DEF Left
    <2>2. Advances(Loop)
      BY <1>2, <1>5, <2>1 DEF Advances
    <2> QED BY <1>1, <2>2, LoopThread, OthersUndisturbed DEF OwnStep, TypeInv
  <1> QED BY <1>3, <1>4, <1>5

(* A row dealt with leaves the batch, and the handler ends with the last. *)
LEMMA NextRowOwn ==
  ASSUME TypeInv, NEW i \in batch, NextRow(i), UNCHANGED <<seedPos, todo, held, imported>>,
         pc[Loop] \in {"bulk", "check", "create"}
  PROVE  OwnStep(Loop) /\ pc'[Loop] \in {"idle", "bulk"}
  <1>1. PICK p \in {"idle", "bulk"} : pc' = [pc EXCEPT ![Loop] = p]
    BY DEF NextRow, Goto
  <1>2. Fewer(batch', batch)
    BY DEF NextRow, Fewer
  <1>3. Stage(pc[Loop]) = 1 /\ Stage(p) = 1
    BY <1>1 DEF Stage
  <1>4. pc[Loop] # "idle"
    OBVIOUS
  <1>5. OwnStep(Loop)
    BY <1>1, <1>2, <1>3, <1>4, FilingOwn
  <1> QED BY <1>1, <1>5, LoopThread, PcNow DEF TypeInv

LEMMA FileOwn ==
  ASSUME WorkInv, File PROVE OwnStep(Loop) /\ RowInHand'
  <1>1. ASSUME NEW i, NEW a, NEW c, SubmitOne(i, a, c) PROVE OwnStep(Loop) /\ RowInHand'
    <2>1. /\ pc[Loop] = "body" /\ pc' = [pc EXCEPT ![Loop] = "check"]
          /\ UNCHANGED <<seedPos, todo, held, imported>>
      BY <1>1 DEF SubmitOne, Goto
    <2>2. Stage("check") < Stage(pc[Loop])
      BY <2>1 DEF Stage
    <2>3. OwnStep(Loop)
      BY <2>1, <2>2, FilingOwn DEF WorkInv
    <2>4. draft'.item = i /\ batch' = {i}
      BY <1>1 DEF SubmitOne, NoDraft
    <2> QED BY <2>3, <2>4 DEF RowInHand
  <1>2. ASSUME NEW S, NEW a, SubmitBulk(S, a) PROVE OwnStep(Loop) /\ RowInHand'
    <2>1. /\ pc[Loop] = "body" /\ pc' = [pc EXCEPT ![Loop] = "bulk"]
          /\ UNCHANGED <<seedPos, todo, held, imported>>
      BY <1>2 DEF SubmitBulk, Goto
    <2>2. Stage("bulk") < Stage(pc[Loop])
      BY <2>1 DEF Stage
    <2>3. OwnStep(Loop)
      BY <2>1, <2>2, FilingOwn DEF WorkInv
    <2>4. pc'[Loop] = "bulk"
      BY <2>1, LoopThread, PcNow DEF WorkInv, TypeInv
    <2> QED BY <2>3, <2>4 DEF RowInHand
  <1>3. ASSUME NEW c, BulkSkip(c) PROVE OwnStep(Loop) /\ RowInHand'
    <2>1. PICK i \in batch : NextRow(i)
      BY <1>3 DEF BulkSkip, Lowest
    <2>2. pc[Loop] = "bulk" /\ UNCHANGED <<seedPos, todo, held, imported>>
      BY <1>3 DEF BulkSkip
    <2> QED BY <2>1, <2>2, NextRowOwn DEF WorkInv, RowInHand
  <1>4. ASSUME NEW c, BulkPick(c) PROVE OwnStep(Loop) /\ RowInHand'
    <2>1. PICK i \in batch : draft' = [draft EXCEPT !.item = i, !.change = c]
      BY <1>4, Zenon DEF BulkPick, Lowest
    <2>2. /\ pc[Loop] = "bulk" /\ pc' = [pc EXCEPT ![Loop] = "check"] /\ batch' = batch
          /\ UNCHANGED <<seedPos, todo, held, imported>>
      BY <1>4 DEF BulkPick, Goto
    <2>3. Stage(pc[Loop]) = 1 /\ Stage("check") = 1 /\ StepsEach("check") < StepsEach(pc[Loop])
      BY <2>2 DEF Stage, StepsEach
    <2>4. OwnStep(Loop)
      BY <2>2, <2>3, FilingOwn DEF WorkInv
    <2>5. draft'.item = i
      BY <2>1 DEF WorkInv, TypeInv, TypeOK, Draft
    <2> QED BY <2>2, <2>4, <2>5 DEF RowInHand
  <1>5. CASE BulkAbort
    <2>1. /\ pc[Loop] = "bulk" /\ pc' = [pc EXCEPT ![Loop] = "idle"]
          /\ UNCHANGED <<seedPos, todo, held, imported>>
      BY <1>5 DEF BulkAbort, Goto
    <2>2. OwnStep(Loop)
      BY <2>1, FilingOwn DEF WorkInv
    <2>3. pc'[Loop] = "idle"
      BY <2>1, LoopThread, PcNow DEF WorkInv, TypeInv
    <2> QED BY <2>2, <2>3 DEF RowInHand
  <1>6. CASE CreateCheck
    <2>1. /\ pc[Loop] = "check" /\ pc' = [pc EXCEPT ![Loop] = "create"] /\ batch' = batch
          /\ UNCHANGED <<seedPos, todo, held, imported>>
      BY <1>6 DEF CreateCheck, Goto
    <2>2. Stage(pc[Loop]) = 1 /\ Stage("create") = 1 /\ StepsEach("create") < StepsEach(pc[Loop])
      BY <2>1 DEF Stage, StepsEach
    <2>3. OwnStep(Loop)
      BY <2>1, <2>2, FilingOwn DEF WorkInv
    <2>4. draft'.item = draft.item
      <3>1. draft \in Draft
        BY DEF WorkInv, TypeInv, TypeOK
      <3> QED BY ONLY CreateCheck, <1>6, <3>1 DEF CreateCheck, Draft
    <2> QED BY <2>1, <2>3, <2>4 DEF RowInHand, WorkInv
  <1>7. CASE CreateRefused
    <2>1. /\ pc[Loop] = "check" /\ UNCHANGED <<seedPos, todo, held, imported>>
          /\ NextRow(draft.item) \/ pc' = [pc EXCEPT ![Loop] = "idle"]
      BY <1>7 DEF CreateRefused, Goto
    <2>2. draft.item \in batch
      BY <2>1 DEF WorkInv, RowInHand
    <2>3. CASE NextRow(draft.item)
      BY <2>1, <2>2, <2>3, NextRowOwn DEF WorkInv, RowInHand
    <2>4. CASE pc' = [pc EXCEPT ![Loop] = "idle"]
      <3>1. OwnStep(Loop)
        BY <2>1, <2>4, FilingOwn DEF WorkInv
      <3>2. pc'[Loop] = "idle"
        BY <2>4, LoopThread, PcNow DEF WorkInv, TypeInv
      <3> QED BY <3>1, <3>2 DEF RowInHand
    <2> QED BY <2>1, <2>3, <2>4
  <1>8. CASE CreateTxn
    <2>1. /\ pc[Loop] = "create" /\ UNCHANGED <<seedPos, todo, held, imported>>
          /\ NextRow(draft.item)
      BY <1>8 DEF CreateTxn
    <2>2. draft.item \in batch
      BY <2>1 DEF WorkInv, RowInHand
    <2> QED BY <2>1, <2>2, NextRowOwn DEF WorkInv, RowInHand
  <1> QED BY <1>1, <1>2, <1>3, <1>4, <1>5, <1>6, <1>7, <1>8 DEF File

(* An import replaces the rows of files it has not replaced before. *)
LEMMA RebuildOwn ==
  ASSUME TypeInv, Rebuild PROVE OwnStep(Loop)
  <1>1. ASSUME NEW src \in Sources, NEW scope \in Scopes, NEW old, NEW new,
               ImportWrite(src, scope, old, new)
        PROVE  OwnStep(Loop)
    <2>1. /\ pc[Loop] \in {"body", "import"} /\ pc' = [pc EXCEPT ![Loop] = "seed"]
          /\ UNCHANGED <<seedPos, todo, held>>
          /\ scope \cap imported = {} /\ imported' = imported \cup scope
      BY <1>1 DEF ImportWrite, Goto
    <2>2. PICK i \in Idents : i \in scope
      BY DEF Scopes
    <2>3. Fewer(Files(Loop)', Files(Loop))
      BY <2>1, <2>2 DEF Fewer, Files
    <2>4. OnlyOf(Loop)
      BY <2>1, LoopThread, PhaseOnly DEF TypeInv
    <2>5. Advances(Loop)
      BY <2>3 DEF Advances
    <2> QED BY <2>1, <2>4, <2>5, LoopThread, OthersUndisturbed DEF OwnStep, TypeInv
  <1>2. CASE ImportCommit \/ Clear
    <2>1. /\ pc[Loop] # "idle" /\ pc' = [pc EXCEPT ![Loop] = "idle"]
          /\ UNCHANGED <<seedPos, todo, held>>
      BY <1>2 DEF ImportCommit, Clear, Goto
    <2>2. OnlyOf(Loop)
      BY <2>1, LoopThread, PhaseOnly DEF TypeInv
    <2> QED BY <2>1, <2>2, LoopThread, EndOwn
  <1> QED BY <1>1, <1>2 DEF Rebuild

(* Every step is one thread's own and brings it nearer its end. *)
LEMMA StepAdvances ==
  WorkInv /\ Next => RowInHand' /\ \E t \in Threads : OwnStep(t)
  <1> SUFFICES ASSUME WorkInv, Next PROVE RowInHand' /\ \E t \in Threads : OwnStep(t)
    OBVIOUS
  <1>1. PICK t \in Threads : Begin(t) \/ Handle(t) \/ LockTimeout(t)
    BY DEF Next
  <1>2. TypeInv
    BY DEF WorkInv
  <1>3. ASSUME OwnStep(t), t # Loop PROVE RowInHand'
    <2>1. Undisturbed(Loop)
      BY <1>3, LoopThread DEF OwnStep
    <2> QED BY <2>1 DEF Undisturbed, filing, RowInHand, WorkInv
  <1>4. ASSUME NEW p, p \notin {"check", "create"}, pc' = [pc EXCEPT ![t] = p], t = Loop
        PROVE  RowInHand'
    BY <1>2, <1>4, PcNow DEF RowInHand, TypeInv
  <1>5. CASE Begin(t)
    <2>1. OwnStep(t) /\ pc' = [pc EXCEPT ![t] = "seed"]
      BY <1>2, <1>5, BeginOwn DEF Begin, Goto
    <2> QED BY <1>3, <1>4, <2>1
  <1>6. CASE LockTimeout(t)
    <2>1. OwnStep(t) /\ pc' = [pc EXCEPT ![t] = "idle"]
      BY <1>2, <1>6, LockTimeoutOwn DEF LockTimeout, Goto
    <2> QED BY <1>3, <1>4, <2>1
  <1>7. CASE Finish(t)
    <2>1. OwnStep(t) /\ pc' = [pc EXCEPT ![t] = "idle"]
      BY <1>2, <1>7, FinishOwn DEF Finish, Goto
    <2> QED BY <1>3, <1>4, <2>1
  <1>8. CASE Synchronize(t)
    <2>1. OwnStep(t)
      BY <1>2, <1>8, SeedSkipOwn, SeedFindOwn, SeedWriteOwn, SeedConflictOwn, SyncListOwn,
         SyncSkipOwn, SyncPlanOwn, SyncWriteOwn, SyncDoneOwn DEF Synchronize
    <2>2. pc' = pc \/ \E p : p \notin {"check", "create"} /\ pc' = [pc EXCEPT ![t] = p]
      <3>1. CASE SeedSkip(t) \/ SyncSkip(t)
        BY <3>1, Zenon DEF SeedSkip, SyncSkip
      <3>2. CASE SeedWrite(t)
        BY <3>2, Zenon DEF SeedWrite, Goto
      <3>3. CASE SeedFind(t) \/ SeedConflict(t) \/ SyncList(t)
        BY <3>3 DEF SeedFind, SeedConflict, SyncList, Goto
      <3>4. CASE SyncPlan(t) \/ SyncWrite(t)
        BY <3>4, Zenon DEF SyncPlan, SyncWrite, Goto
      <3>5. CASE SyncDone(t)
        BY <3>5 DEF SyncDone, Goto
      <3> QED BY <1>8, <3>1, <3>2, <3>3, <3>4, <3>5 DEF Synchronize
    <2>3. CASE t # Loop
      BY <1>3, <2>1, <2>3
    <2>4. CASE t = Loop /\ pc' = pc
      <3>1. CASE SeedSkip(t) \/ SeedFind(t) \/ SeedWrite(t) \/ SeedConflict(t) \/ SyncList(t)
        <4>1. pc[t] \in {"seed", "seedwrite"}
          BY <3>1, Zenon DEF SeedSkip, SeedFind, SeedWrite, SeedConflict, SyncList
        <4> QED BY <2>1, <2>4, <4>1 DEF RowInHand
      <3>2. CASE SyncSkip(t) \/ SyncPlan(t) \/ SyncWrite(t) \/ SyncDone(t)
        <4>1. pc[t] \in {"sync", "write"}
          BY <3>2, Zenon DEF SyncSkip, SyncPlan, SyncWrite, SyncDone
        <4> QED BY <2>1, <2>4, <4>1 DEF RowInHand
      <3> QED BY <1>8, <3>1, <3>2 DEF Synchronize
    <2> QED BY <1>4, <2>1, <2>2, <2>3, <2>4
  <1>9. CASE t \in Pool /\ Review(t)
    <2>1. OwnStep(t) /\ t # Loop
      BY <1>2, <1>9, ReviewOwn, ThreadAssumption
    <2> QED BY <1>3, <2>1
  <1>10. CASE t = Loop /\ File
    BY <1>10, FileOwn
  <1>11. CASE t = Loop /\ Rebuild
    <2>1. OwnStep(t)
      BY <1>2, <1>11, RebuildOwn
    <2>2. \E p \in {"seed", "idle"} : pc' = [pc EXCEPT ![t] = p]
      BY <1>11, Zenon DEF Rebuild, ImportWrite, ImportCommit, Clear, Goto
    <2> QED BY <1>4, <1>11, <2>1, <2>2
  <1>12. CASE t \in Pool /\ EditMetadata(t)
    <2>1. OwnStep(t) /\ t # Loop
      BY <1>2, <1>12, EditOwn, ThreadAssumption
    <2> QED BY <1>3, <2>1
  <1> QED BY <1>1, <1>5, <1>6, <1>7, <1>8, <1>9, <1>10, <1>11, <1>12 DEF Handle

(* No handler goes round in circles: with any number of threads, seeds,
   requests and rows, every step of one leaves it less to do than it had, and
   no handler adds to what another has to do. *)
THEOREM HandlersGetOn == Spec => HandlersAdvance
  <1>1. Init => WorkInv
    BY InitTypeInv, LoopThread DEF Init, WorkInv, RowInHand
  <1>2. WorkInv /\ [Next]_vars => WorkInv'
    <2>1. CASE UNCHANGED vars
      BY <2>1, NextTypeInv DEF vars, WorkInv, RowInHand
    <2>2. CASE Next
      BY <2>2, NextTypeInv, StepAdvances DEF WorkInv
    <2> QED BY <2>1, <2>2
  <1>3. WorkInv /\ [Next]_vars =>
          [\E t \in Threads :
             /\ Begins(t) \/ Ends(t) \/ (pc[t] # "idle" /\ Advances(t))
             /\ \A u \in Threads \ {t} : Undisturbed(u)]_vars
    BY StepAdvances DEF OwnStep
  <1> QED BY <1>1, <1>2, <1>3, PTL DEF Spec, HandlersAdvance

(* The list a handler takes is finite, and so is what it has left of it. *)
TodoFinite == \A t \in Threads : IsFiniteSet(todo[t])

LEMMA ListFinite ==
  ASSUME TypeOK
  PROVE  IsFiniteSet({[req |-> r, item |-> requests[r].item] : r \in Approved})
  <1> DEFINE listed == {[req |-> r, item |-> requests[r].item] : r \in Approved}
             f == [r \in Approved |-> [req |-> r, item |-> requests[r].item]]
  <1>1. Len(requests) \in Nat /\ Approved \subseteq 1 .. Len(requests)
    BY DEF TypeOK, Approved
  <1>2. IsFiniteSet(1 .. Len(requests))
    BY <1>1, FS_Interval
  <1>3. IsFiniteSet(Approved)
    BY <1>1, <1>2, FS_Subset
  <1>4. f \in Surjection(Approved, listed)
    BY DEF Surjection
  <1> QED BY <1>3, <1>4, FS_Surjection

LEMMA TodoFiniteStep == TypeInv /\ TodoFinite /\ [Next]_vars => TodoFinite'
  <1> SUFFICES ASSUME TypeInv, TodoFinite, [Next]_vars, NEW u \in Threads
               PROVE  IsFiniteSet(todo'[u])
    BY DEF TodoFinite
  <1>1. \/ todo'[u] \subseteq todo[u]
        \/ todo'[u] = {[req |-> r, item |-> requests[r].item] : r \in Approved}
    BY TodoStep
  <1> QED BY <1>1, ListFinite, FS_Subset DEF TypeInv, TodoFinite

(* What a handler has left in the stage it is in is finite, so that it cannot
   have ever less of it: together with HandlersGetOn, every loop of a handler
   over seeds, requests or rows ends. *)
THEOREM WorkIsFinite == Spec => [](\A t \in Threads : IsFiniteSet(Left(t)))
  <1>1. Init => TodoFinite
    BY FS_EmptySet DEF Init, TodoFinite
  <1>2. TypeInv /\ TodoFinite => \A t \in Threads : IsFiniteSet(Left(t))
    <2> SUFFICES ASSUME TypeInv, TodoFinite, NEW t \in Threads PROVE IsFiniteSet(Left(t))
      OBVIOUS
    <2>1. IsFiniteSet(seedPos[t] .. Len(SeedList))
      BY SeedCount, FS_Interval DEF TypeInv, TypeOK
    <2>2. IsFiniteSet(batch)
      <3>1. batch \subseteq 1 .. Len(items) /\ Len(items) \in Nat
        BY Domains DEF TypeInv, TypeOK, FilingExists
      <3>2. IsFiniteSet(1 .. Len(items))
        BY <3>1, FS_Interval
      <3> QED BY <3>1, <3>2, FS_Subset
    <2> QED BY <2>1, <2>2, FS_EmptySet DEF Left, TodoFinite
  <1> QED BY <1>1, <1>2, TodoFiniteStep, InitTypeInv, NextTypeInv, PTL DEF Spec

--------------------------------------------------------------------------------
(* The write lock                                                              *)

(* A handler that has written keeps the lock only while it is still seeding,
   reapplying or importing: none goes on to its own work, or ends, with the
   transaction open and every other writer timing out.  What an import has
   replaced so far, it has replaced under that one lock. *)
LockHeldAtWork ==
  /\ writer # NoThread =>
       pc[writer] \in {"seed", "seedwrite", "sync", "write", "import"}
  /\ imported # {} => writer = Loop

(* The holder of the lock is at work, and the seed it is about to insert is not
   there: it looked while nobody else could write. *)
SeedStillMissing ==
  \A t \in Threads : writer = t /\ pc[t] = "seedwrite" => ~ SeedRequestExists(seedPos[t])

LockInv == LockHeldAtWork /\ SeedStillMissing

AtWork == {"seed", "seedwrite", "sync", "write", "import"}

(* A step of t outside the transaction of the lock holder: the lock is free
   before and after, and so is the import. *)
LEMMA LockFree ==
  ASSUME TypeInv, LockInv, writer' = NoThread, imported' = imported, writer # Loop
  PROVE  LockInv'
  <1>1. imported = {}
    BY DEF LockInv, LockHeldAtWork
  <1> QED BY <1>1, ThreadAssumption DEF LockInv, LockHeldAtWork, SeedStillMissing

(* A handler that is not at work does not hold the lock; a step of it that does
   not take the lock leaves it with nobody. *)
LEMMA LockOutside ==
  ASSUME TypeInv, LockInv, NEW t \in Threads, writer \in {NoThread, t},
         pc[t] \notin AtWork, writer' = writer, imported' = imported
  PROVE  LockInv'
  <1>1. writer = NoThread
    BY ThreadAssumption DEF LockInv, LockHeldAtWork, AtWork
  <1> QED BY <1>1, LockFree, ThreadAssumption, LoopThread

(* A step of t that keeps the lock as it was and goes on with p. *)
LEMMA LockKept ==
  ASSUME TypeInv, LockInv, NEW t \in Threads, writer \in {NoThread, t},
         writer' = writer, imported' = imported, NEW p \in AtWork \ {"seedwrite"},
         pc' = [pc EXCEPT ![t] = p]
  PROVE  LockInv'
  <1>1. CASE writer = NoThread
    BY <1>1, LockFree, ThreadAssumption, LoopThread
  <1>2. CASE writer = t
    <2>1. pc'[t] = p
      BY PcNow DEF TypeInv
    <2> QED BY <1>2, <2>1, ThreadAssumption
        DEF LockInv, LockHeldAtWork, SeedStillMissing, AtWork
  <1> QED BY <1>1, <1>2

(* A write by t: it takes the lock or has it. *)
LEMMA LockTaken ==
  ASSUME TypeInv, LockInv, NEW t \in Threads, writer \in {NoThread, t},
         writer' = t, imported' = imported \/ t = Loop,
         NEW p \in AtWork \ {"seedwrite"}, pc' = [pc EXCEPT ![t] = p]
  PROVE  LockInv'
  <1>1. pc'[t] = p
    BY PcNow DEF TypeInv
  <1>2. imported' # {} => t = Loop
    BY ThreadAssumption, LoopThread DEF LockInv, LockHeldAtWork
  <1> QED BY <1>1, <1>2, ThreadAssumption
      DEF LockInv, LockHeldAtWork, SeedStillMissing, AtWork

LEMMA SynchronizeLock ==
  ASSUME TypeInv, LockInv, NEW t \in Threads, writer \in {NoThread, t}, Synchronize(t)
  PROVE  LockInv'
  <1>1. CASE SeedSkip(t)
    <2>1. /\ pc[t] = "seed" /\ pc' = pc /\ writer' = writer /\ UNCHANGED filing
      BY <1>1 DEF SeedSkip
    <2>2. pc' = [pc EXCEPT ![t] = "seed"]
      BY <2>1, Unwritten DEF TypeInv, TypeOK
    <2> QED BY <2>1, <2>2, LockKept DEF AtWork, filing
  <1>2. CASE SeedFind(t)
    <2>1. /\ pc' = [pc EXCEPT ![t] = "seedwrite"] /\ writer' = writer /\ UNCHANGED filing
          /\ requests' = requests /\ seedPos' = seedPos /\ ~ SeedRequestExists(seedPos[t])
      BY <1>2, Zenon DEF SeedFind, Goto, db
    <2>2. CASE writer = NoThread
      BY <2>1, <2>2, LockFree, ThreadAssumption, LoopThread DEF filing
    <2>3. CASE writer = t
      <3>1. pc'[t] = "seedwrite"
        BY <2>1, PcNow DEF TypeInv
      <3>2. LockHeldAtWork'
        BY <2>1, <2>3, <3>1 DEF LockInv, LockHeldAtWork, filing
      <3>3. SeedStillMissing'
        BY <2>1, <2>3 DEF SeedStillMissing, SeedRequestExists
      <3> QED BY <3>2, <3>3 DEF LockInv
    <2> QED BY <2>2, <2>3
  <1>3. CASE SeedWrite(t)
    <2>1. writer' = t /\ pc' = [pc EXCEPT ![t] = "seed"] /\ UNCHANGED filing
      BY <1>3, Zenon DEF SeedWrite, Goto
    <2> QED BY <2>1, LockTaken DEF AtWork, filing
  <1>4. CASE SeedConflict(t)
    <2>1. /\ pc[t] = "seedwrite" /\ SeedRequestExists(seedPos[t])
          /\ writer' = writer /\ UNCHANGED filing
      BY <1>4 DEF SeedConflict, SeedKeyTaken
    <2>2. writer = NoThread
      BY <2>1 DEF LockInv, SeedStillMissing
    <2> QED BY <2>1, <2>2, LockFree, ThreadAssumption, LoopThread DEF filing
  <1>5. CASE SyncList(t)
    <2>1. pc' = [pc EXCEPT ![t] = "sync"] /\ writer' = writer /\ UNCHANGED filing
      BY <1>5, Zenon DEF SyncList, Goto
    <2> QED BY <2>1, LockKept DEF AtWork, filing
  <1>6. CASE SyncSkip(t)
    <2>1. /\ pc[t] = "sync" /\ pc' = pc /\ writer' = writer /\ UNCHANGED filing
      BY <1>6, Zenon DEF SyncSkip
    <2>2. pc' = [pc EXCEPT ![t] = "sync"]
      BY <2>1, Unwritten DEF TypeInv, TypeOK
    <2> QED BY <2>1, <2>2, LockKept DEF AtWork, filing
  <1>7. CASE SyncPlan(t)
    <2>1. pc' = [pc EXCEPT ![t] = "write"] /\ writer' = writer /\ UNCHANGED filing
      BY <1>7, Zenon DEF SyncPlan, Goto
    <2> QED BY <2>1, LockKept DEF AtWork, filing
  <1>8. CASE SyncWrite(t)
    <2>1. writer' = t /\ pc' = [pc EXCEPT ![t] = "sync"] /\ UNCHANGED filing
      BY <1>8, Zenon DEF SyncWrite, Goto
    <2> QED BY <2>1, LockTaken DEF AtWork, filing
  <1>9. CASE SyncDone(t)
    <2>1. UNCHANGED filing
      BY <1>9 DEF SyncDone
    <2>2. CASE t = Loop /\ imported # {}
      <3>1. pc' = [pc EXCEPT ![t] = "import"] /\ writer' = writer
        BY <1>9, <2>2 DEF SyncDone, Goto
      <3> QED BY <2>1, <3>1, LockKept DEF AtWork, filing
    <2>3. CASE ~ (t = Loop /\ imported # {})
      <3>1. writer' = NoThread
        BY <1>9, <2>3 DEF SyncDone
      <3>2. imported = {}
        BY <2>3, ThreadAssumption, LoopThread DEF LockInv, LockHeldAtWork
      <3> QED BY <2>1, <3>1, <3>2, ThreadAssumption
          DEF LockInv, LockHeldAtWork, SeedStillMissing, filing
    <2> QED BY <2>2, <2>3
  <1> QED BY <1>1, <1>2, <1>3, <1>4, <1>5, <1>6, <1>7, <1>8, <1>9 DEF Synchronize

(* A handler nobody holds the lock against does not lose it to the step of
   another: while one has it, the others only give up. *)
LEMMA LockTimeoutLock ==
  ASSUME TypeInv, LockInv, NEW t \in Threads, LockTimeout(t) PROVE LockInv'
  <1>1. /\ writer \notin {NoThread, t} /\ writer' = writer /\ imported' = imported
        /\ pc' = [pc EXCEPT ![t] = "idle"] /\ requests' = requests
        /\ seedPos' = [seedPos EXCEPT ![t] = 1]
    BY DEF LockTimeout, Goto, db
  <1>2. writer \in Threads /\ pc'[writer] = pc[writer] /\ seedPos'[writer] = seedPos[writer]
    BY <1>1 DEF TypeInv, TypeOK
  <1>3. LockHeldAtWork'
    BY <1>1, <1>2 DEF LockInv, LockHeldAtWork
  <1>4. SeedStillMissing'
    BY <1>1, <1>2 DEF LockInv, SeedStillMissing, SeedRequestExists
  <1> QED BY <1>3, <1>4 DEF LockInv

LEMMA LockStep == TypeInv /\ LockInv /\ [Next]_vars => LockInv'
  <1> SUFFICES ASSUME TypeInv, LockInv, [Next]_vars PROVE LockInv'
    OBVIOUS
  <1>1. CASE UNCHANGED vars
    BY <1>1 DEF vars, LockInv, LockHeldAtWork, SeedStillMissing, SeedRequestExists
  <1>2. CASE Next
    <2>1. PICK t \in Threads :
            \/ writer = NoThread /\ Begin(t)
            \/ Handle(t)
            \/ LockTimeout(t)
      BY <1>2 DEF Next
    <2>2. CASE writer = NoThread /\ Begin(t)
      BY <2>2, LockFree, ThreadAssumption, LoopThread DEF Begin, filing
    <2>3. CASE LockTimeout(t)
      BY <2>3, LockTimeoutLock
    <2>4. CASE Handle(t)
      <3>1. writer \in {NoThread, t}
        BY <2>4 DEF Handle
      <3>2. CASE Synchronize(t)
        BY <3>1, <3>2, SynchronizeLock
      <3>3. CASE Finish(t)
        <4>1. pc[t] \notin AtWork /\ writer' = writer /\ imported' = imported
          BY <3>3 DEF Finish, AtWork, filing
        <4> QED BY <3>1, <4>1, LockOutside
      <3>4. CASE Review(t)
        <4>1. pc[t] \in {"body", "approve", "reject"}
          BY <3>4, Zenon DEF Review, ReviewCheck, ApproveTxn, ApproveRollback, RejectTxn
        <4>2. writer' = writer /\ UNCHANGED filing
          BY <3>4, Zenon DEF Review, ReviewCheck, ApproveTxn, ApproveRollback, RejectTxn
        <4> QED BY <3>1, <4>1, <4>2, LockOutside DEF AtWork, filing
      <3>5. CASE t = Loop /\ File
        <4>1. pc[Loop] \in {"body", "bulk", "check", "create"}
          BY <3>5, Zenon
          DEF File, SubmitOne, SubmitBulk, BulkSkip, BulkPick, BulkAbort, CreateCheck,
              CreateRefused, CreateTxn
        <4>2. writer' = writer /\ imported' = imported
          BY <3>5, Zenon
          DEF File, SubmitOne, SubmitBulk, BulkSkip, BulkPick, BulkAbort, CreateCheck,
              CreateRefused, CreateTxn
        <4> QED BY <3>1, <3>5, <4>1, <4>2, LockOutside DEF AtWork
      <3>6. CASE t = Loop /\ Rebuild
        <4>1. ASSUME NEW src \in Sources, NEW scope \in Scopes, NEW old, NEW new,
                     ImportWrite(src, scope, old, new)
              PROVE  LockInv'
          <5>1. writer' = Loop /\ pc' = [pc EXCEPT ![Loop] = "seed"]
            BY <4>1 DEF ImportWrite, Goto
          <5> QED BY <3>1, <3>6, <5>1, LockTaken DEF AtWork
        <4>2. CASE ImportCommit
          BY <4>2, ThreadAssumption
          DEF ImportCommit, LockInv, LockHeldAtWork, SeedStillMissing
        <4>3. CASE Clear
          <5>1. pc[Loop] \notin AtWork /\ writer' = writer /\ imported' = imported
            BY <4>3 DEF Clear, AtWork, filing
          <5> QED BY <3>1, <3>6, <5>1, LockOutside
        <4> QED BY <3>6, <4>1, <4>2, <4>3 DEF Rebuild
      <3>7. CASE EditMetadata(t)
        <4>1. pc[t] \notin AtWork /\ writer' = writer /\ imported' = imported
          BY <3>7, EditFrame DEF AtWork, filing
        <4> QED BY <3>1, <4>1, LockOutside
      <3> QED BY <2>4, <3>2, <3>3, <3>4, <3>5, <3>6, <3>7 DEF Handle
    <2> QED BY <2>1, <2>2, <2>3, <2>4
  <1> QED BY <1>1, <1>2

(* No handler ever ends, or turns to its own work, with the write lock in hand,
   however many contend for it; and an import holds it from the first file it
   replaces to its commit. *)
THEOREM LockIsGivenBack == Spec => []LockHeldAtWork
  <1>1. Init => LockInv
    BY ThreadAssumption DEF Init, LockInv, LockHeldAtWork, SeedStillMissing
  <1>2. TypeInv /\ LockInv /\ [Next]_vars => TypeInv' /\ LockInv'
    BY NextTypeInv, LockStep
  <1> QED BY <1>1, <1>2, InitTypeInv, PTL DEF Spec, LockInv

================================================================================
