------------------------------ MODULE Corrections ------------------------------
(****************************************************************************)
(* The approval workflow of catalog corrections (core/storage/corrections.py *)
(* with the handlers of app/web/app.py that drive it).                       *)
(*                                                                           *)
(* A specialist files a correction of one catalog row; a senior approves or  *)
(* rejects it.  An approved correction is an overlay: every HTTP request     *)
(* first runs init_database, which reapplies all approved corrections, and   *)
(* every import does so again inside its own transaction.                    *)
(*                                                                           *)
(* Handlers written "def" run on the worker threads Pool and interleave;     *)
(* those written "async def" never await between connect and close, so they  *)
(* run one after another on the event loop, the thread Loop.  A handler's    *)
(* SELECTs run in autocommit until its first INSERT, UPDATE or DELETE takes  *)
(* SQLite's write lock, which it keeps until it commits: that is writer.     *)
(* Others still read the last committed state meanwhile, which is what they  *)
(* would have read just before the lock was taken; the model therefore lets  *)
(* only the lock holder step and keeps one copy of the database.             *)
(****************************************************************************)
EXTENDS Naturals, Sequences, FiniteSets

CONSTANTS
  Pool,          \* worker threads: approve, reject, metadata edits, pages
  Loop,          \* the event loop: submit, bulk, clear, imports
  NoThread,      \* nobody holds the write lock
  Sources,       \* catalog_sources.name
  Idents,        \* (source_filename, source_row_number) of a catalog row
  Values,        \* contents of the other editable columns
  Keep,          \* a column a change leaves alone
  NoRow,         \* a catalog_items id whose row is gone
  Edits,         \* the changes a user may type into the editor
  SeedList,      \* expert_corrections.json: <<[ident, val], ...>>
  MaxItems,      \* bound on catalog_items ids handed out
  MaxRequests,   \* bound on submitted requests
  MaxBatch       \* bound on the rows one import writes, and on the first catalog

Threads == Pool \cup {Loop}
Row     == [src : Sources, ident : Idents, val : Values]
Change  == [ident : Idents \cup {Keep}, val : Values \cup {Keep}]
NoChange == [ident |-> Keep, val |-> Keep]

ASSUME ThreadAssumption == Loop \notin Pool /\ NoThread \notin Threads
ASSUME SentinelAssumption ==
  Keep \notin Idents /\ Keep \notin Values /\ NoRow \notin Row
ASSUME EditAssumption == Edits \subseteq Change
ASSUME SeedAssumption == SeedList \in Seq([ident : Idents, val : Values])
ASSUME SourceAssumption == Sources # {} /\ Idents # {}
ASSUME BoundAssumption ==
  MaxItems \in Nat /\ MaxRequests \in Nat /\ MaxBatch \in Nat

VARIABLES
  items,         \* catalog_items: id |-> row, ids are never reused
  requests,      \* catalog_correction_requests with their changes
  decisions,     \* the "approved"/"rejected" events of each request, in order
  writer,        \* the thread inside a write transaction
  pc,            \* where each handler is
  seedPos,       \* the seed a synchronising handler looks at
  todo,          \* approved requests it has yet to reapply, as it read them
  held,          \* what it read before the transaction it is about to open
  fresh,         \* history: nothing was written by others since it read todo
  draft,         \* the correction the event loop is filing
  batch,         \* the rows of the bulk action still to be handled
  imported       \* the files (identities) the open import has replaced so far

db     == <<items, requests, decisions>>
filing == <<draft, batch, imported>>
vars   == <<items, requests, decisions, writer, pc, seedPos, todo, held,
            fresh, draft, batch, imported>>

Actions  == {"update", "delete"}
Statuses == {"pending", "approved", "rejected"}
Request  ==
  [action : Actions, src : Sources, ident : Idents, item : Nat,
   change : Change, status : Statuses, seed : Nat, applied : BOOLEAN]
Phases ==
  {"idle", "seed", "seedwrite", "sync", "write", "body", "approve",
   "reject", "bulk", "check", "create", "import"}
Ticket == [req : Nat, item : Nat]
Held   == [req : Nat, item : Nat, src : Sources, set : Change]
Draft  == [action : Actions, item : Nat, src : Sources, ident : Idents,
           change : Change]
NoHeld  == [req |-> 0, item |-> 0, src |-> CHOOSE s \in Sources : TRUE,
            set |-> NoChange]
NoDraft == [action |-> "update", item |-> 0,
            src |-> CHOOSE s \in Sources : TRUE,
            ident |-> CHOOSE i \in Idents : TRUE, change |-> NoChange]

--------------------------------------------------------------------------------
(* Reading the database                                                        *)

Live == {i \in DOMAIN items : items[i] # NoRow}
RowsAt(ident) == {i \in Live : items[i].ident = ident}
TheOnly(S) == {i \in S : S = {i}}

\* _resolve_request_target: the remembered id if it still has that identity,
\* else the only row with that identity, else the only one of that source.
Target(item, q) ==
  LET rows == RowsAt(q.ident)
      mine == {i \in rows : items[i].src = q.src}
  IN  IF item \in rows THEN {item}
      ELSE IF TheOnly(rows) # {} THEN rows
      ELSE TheOnly(mine)

\* mistake: every column written, those the change leaves alone too
AmendAll(row, c) == [row EXCEPT !.ident = c.ident, !.val = c.val]

Amend(row, c) ==
  [row EXCEPT !.ident = IF c.ident = Keep THEN @ ELSE c.ident,
              !.val   = IF c.val = Keep THEN @ ELSE c.val]

\* the columns of c that differ from the row's
Missing(row, c) ==
  [ident |-> IF c.ident = row.ident THEN Keep ELSE c.ident,
   val   |-> IF c.val = row.val THEN Keep ELSE c.val]

Outdated(i, q) == q.action = "delete" \/ Missing(items[i], q.change) # NoChange

\* mistake: only a pending deletion of the row stands in the way
PendingDeletionExists(action, ident) ==
  \E r \in DOMAIN requests :
     /\ requests[r].status = "pending" /\ requests[r].action = "delete"
     /\ requests[r].ident = ident

PendingExists(action, ident) ==
  \E r \in DOMAIN requests :
     /\ requests[r].status = "pending"
     /\ requests[r].action = action
     /\ requests[r].ident = ident

SeedRequestExists(k) == \E r \in DOMAIN requests : requests[r].seed = k

\* UNIQUE (seed_key): an INSERT of seed k would fail
\* mistake: the table has no such constraint
NeverTaken(k) == FALSE
SeedKeyTaken(k) == SeedRequestExists(k)

\* mistake: corrections nobody has decided on yet are reapplied too
NotRejected == {r \in DOMAIN requests : requests[r].status # "rejected"}

Approved == {r \in DOMAIN requests : requests[r].status = "approved"}

--------------------------------------------------------------------------------
(* Writing the database                                                        *)

\* catalog_items after request q is carried out on row i with columns c
Rewrite(i, q, c) ==
  [items EXCEPT ![i] = IF q.action = "delete" \/ @ = NoRow THEN NoRow
                       ELSE Amend(@, c)]

\* a write by t makes what the others read before it stale
Wrote(t) == fresh' = [u \in Threads |-> u = t /\ fresh[u]]

Goto(t, p) == pc' = [pc EXCEPT ![t] = p]

\* a batch of at most MaxBatch rows of R
Batches(R) == UNION {[1..n -> R] : n \in 0..MaxBatch}

\* an older version may have filled the catalog, there were no corrections then
Init ==
  /\ items \in Batches(Row)
  /\ requests = <<>>
  /\ decisions = <<>>
  /\ writer = NoThread
  /\ pc = [t \in Threads |-> "idle"]
  /\ seedPos = [t \in Threads |-> 1]
  /\ todo = [t \in Threads |-> {}]
  /\ held = [t \in Threads |-> NoHeld]
  /\ fresh = [t \in Threads |-> FALSE]
  /\ draft = NoDraft
  /\ batch = {}
  /\ imported = {}

--------------------------------------------------------------------------------
(* init_database: seed the expert corrections, then reapply the approved ones *)

Begin(t) ==
  /\ pc[t] = "idle"
  /\ Goto(t, "seed")
  /\ UNCHANGED <<db, writer, seedPos, todo, held, fresh, filing>>

SeedSkip(t) ==
  LET k == seedPos[t] IN
  /\ pc[t] = "seed" /\ k <= Len(SeedList)
  /\ SeedRequestExists(k) \/ TheOnly(RowsAt(SeedList[k].ident)) = {}
  /\ seedPos' = [seedPos EXCEPT ![t] = k + 1]
  /\ UNCHANGED <<db, writer, pc, todo, held, fresh, filing>>

SeedFind(t) ==
  LET k == seedPos[t] IN
  /\ pc[t] = "seed" /\ k <= Len(SeedList)
  /\ ~ SeedRequestExists(k)
  /\ \E i \in TheOnly(RowsAt(SeedList[k].ident)) :
       held' = [held EXCEPT ![t] =
                  [NoHeld EXCEPT !.item = i, !.src = items[i].src]]
  /\ Goto(t, "seedwrite")
  /\ UNCHANGED <<db, writer, seedPos, todo, fresh, filing>>

\* the approved request of seed k for the row found before
SeedRequest(k, h) ==
  [action |-> "update", src |-> h.src, ident |-> SeedList[k].ident,
   item |-> h.item, change |-> [ident |-> Keep, val |-> SeedList[k].val],
   status |-> "approved", seed |-> k, applied |-> FALSE]

SeedWrite(t) ==
  LET k == seedPos[t]
      q == SeedRequest(k, held[t])
  IN
  /\ pc[t] = "seedwrite"
  /\ ~ SeedKeyTaken(k)
  /\ writer' = t
  /\ \/ /\ Target(q.item, q) = {}
        /\ requests' = Append(requests, q)
        /\ items' = items
     \/ \E i \in Target(q.item, q) :
          /\ requests' = Append(requests,
                                [q EXCEPT !.item = i, !.applied = TRUE])
          /\ items' = Rewrite(i, q, q.change)
  /\ decisions' = Append(decisions, <<"approved">>)
  /\ seedPos' = [seedPos EXCEPT ![t] = k + 1]
  /\ held' = [held EXCEPT ![t] = NoHeld]
  /\ Goto(t, "seed") /\ Wrote(t)
  /\ UNCHANGED <<todo, filing>>

\* UNIQUE(seed_key): another handler seeded it first, this one fails
SeedConflict(t) ==
  /\ pc[t] = "seedwrite"
  /\ SeedKeyTaken(seedPos[t])
  /\ seedPos' = [seedPos EXCEPT ![t] = 1]
  /\ held' = [held EXCEPT ![t] = NoHeld]
  /\ Goto(t, "idle")
  /\ UNCHANGED <<db, writer, todo, fresh, filing>>

\* all seeds looked at: SELECT the approved requests in id order
SyncList(t) ==
  /\ pc[t] = "seed" /\ seedPos[t] > Len(SeedList)
  /\ todo' = [todo EXCEPT ![t] =
                {[req |-> r, item |-> requests[r].item] : r \in Approved}]
  /\ fresh' = [fresh EXCEPT ![t] = TRUE]
  /\ seedPos' = [seedPos EXCEPT ![t] = 1]
  /\ Goto(t, "sync")
  /\ UNCHANGED <<db, writer, held, filing>>

\* mistake: ORDER BY id DESC
Last(t) == {k \in todo[t] : \A other \in todo[t] : k.req >= other.req}

\* ORDER BY id
First(t) == {k \in todo[t] : \A other \in todo[t] : k.req <= other.req}

SyncSkip(t) ==
  /\ pc[t] = "sync"
  /\ \E k \in First(t) :
       /\ \A i \in Target(k.item, requests[k.req]) :
             ~ Outdated(i, requests[k.req])
       /\ todo' = [todo EXCEPT ![t] = @ \ {k}]
  /\ UNCHANGED <<db, writer, pc, seedPos, held, fresh, filing>>

SyncPlan(t) ==
  /\ pc[t] = "sync"
  /\ \E k \in First(t) : \E i \in Target(k.item, requests[k.req]) :
       /\ Outdated(i, requests[k.req])
       /\ held' = [held EXCEPT ![t] =
            [req |-> k.req, item |-> i, src |-> items[i].src,
             set |-> Missing(items[i], requests[k.req].change)]]
       /\ todo' = [todo EXCEPT ![t] = @ \ {k}]
  /\ Goto(t, "write")
  /\ UNCHANGED <<db, writer, seedPos, fresh, filing>>

SyncWrite(t) ==
  LET h == held[t]
      q == requests[h.req]
  IN
  /\ pc[t] = "write"
  /\ writer' = t
  /\ items' = Rewrite(h.item, q, h.set)
  /\ requests' =
       IF q.action = "delete" /\ items[h.item] = NoRow THEN requests
       ELSE [requests EXCEPT ![h.req] = [@ EXCEPT !.item = h.item, !.applied = TRUE]]
  /\ held' = [held EXCEPT ![t] = NoHeld]
  /\ Goto(t, "sync") /\ Wrote(t)
  /\ UNCHANGED <<decisions, seedPos, todo, filing>>

\* the handler's own work follows, or the import goes on in its transaction
SyncDone(t) ==
  /\ pc[t] = "sync" /\ todo[t] = {}
  /\ IF t = Loop /\ imported # {}
     THEN Goto(t, "import") /\ UNCHANGED writer
     ELSE Goto(t, "body") /\ writer' = NoThread
  /\ fresh' = [fresh EXCEPT ![t] = FALSE]
  /\ UNCHANGED <<db, seedPos, todo, held, filing>>

Synchronize(t) ==
  \/ SeedSkip(t) \/ SeedFind(t) \/ SeedWrite(t)
  \/ SeedConflict(t) \/ SyncList(t) \/ SyncSkip(t) \/ SyncPlan(t)
  \/ SyncWrite(t) \/ SyncDone(t)

--------------------------------------------------------------------------------
(* The reviewer's handlers: check the status, then decide in a transaction    *)

\* a page that only reads, and every handler that refuses its form
Finish(t) ==
  /\ pc[t] = "body"
  /\ Goto(t, "idle")
  /\ UNCHANGED <<db, writer, seedPos, todo, held, fresh, filing>>

ReviewCheck(t, r, decision) ==
  /\ pc[t] = "body"
  /\ requests[r].status = "pending"
  /\ held' = [held EXCEPT ![t] =
                [NoHeld EXCEPT !.req = r, !.item = requests[r].item]]
  /\ Goto(t, decision)
  /\ UNCHANGED <<db, writer, seedPos, todo, fresh, filing>>

\* mistake: only the first decision on a request is logged
DecideOnce(r, decision) ==
  decisions' = [decisions EXCEPT ![r] = IF @ = <<>> THEN <<decision>> ELSE @]

Decide(r, decision) ==
  decisions' = [decisions EXCEPT ![r] = Append(@, decision)]

ApproveTxn(t) ==
  LET r == held[t].req
      q == requests[r]
  IN
  /\ pc[t] = "approve"
  /\ \E i \in Target(held[t].item, q) :
       /\ items' = Rewrite(i, q, q.change)
       /\ requests' = [requests EXCEPT ![r] =
            IF Outdated(i, q)
            THEN [@ EXCEPT !.status = "approved", !.item = i, !.applied = TRUE]
            ELSE [@ EXCEPT !.status = "approved"]]
  /\ Decide(r, "approved")
  /\ held' = [held EXCEPT ![t] = NoHeld]
  /\ Goto(t, "idle") /\ Wrote(t)
  /\ UNCHANGED <<writer, seedPos, todo, filing>>

\* mistake: an approval whose row is gone is tried again
ApproveAgain(t) ==
  /\ pc[t] = "approve"
  /\ Target(held[t].item, requests[held[t].req]) = {}
  /\ UNCHANGED vars

\* the row is gone: ValueError rolls the approval back
ApproveRollback(t) ==
  /\ pc[t] = "approve"
  /\ Target(held[t].item, requests[held[t].req]) = {}
  /\ held' = [held EXCEPT ![t] = NoHeld]
  /\ Goto(t, "idle")
  /\ UNCHANGED <<db, writer, seedPos, todo, fresh, filing>>

RejectTxn(t) ==
  LET r == held[t].req IN
  /\ pc[t] = "reject"
  /\ requests' = [requests EXCEPT ![r].status = "rejected"]
  /\ Decide(r, "rejected")
  /\ held' = [held EXCEPT ![t] = NoHeld]
  /\ Goto(t, "idle") /\ Wrote(t)
  /\ UNCHANGED <<items, writer, seedPos, todo, filing>>

Review(t) ==
  \/ \E r \in DOMAIN requests :
        ReviewCheck(t, r, "approve") \/ ReviewCheck(t, r, "reject")
  \/ ApproveTxn(t) \/ ApproveRollback(t) \/ RejectTxn(t)

--------------------------------------------------------------------------------
(* The metadata of an import, edited on a worker thread                        *)

RowsOf(src) == {i \in Live : items[i].src = src}

\* update_imported_file_metadata: region, dates, coefficient and, with a
\* coefficient, the price of the rows S that carry the record's source, file and
\* region folder, the last of which is not part of a row here.
EditImport(t, S) ==
  /\ pc[t] = "body"
  /\ \E new \in [S -> Values] :
       items' = [i \in DOMAIN items |->
                   IF i \in S THEN [items[i] EXCEPT !.val = new[i]] ELSE items[i]]
  /\ Goto(t, "idle") /\ Wrote(t)
  /\ UNCHANGED <<requests, decisions, writer, seedPos, todo, held, filing>>

EditMetadata(t) ==
  \E src \in Sources : \E S \in SUBSET RowsOf(src) : EditImport(t, S)

--------------------------------------------------------------------------------
(* The event loop: filing corrections                                          *)

UserRequests == {r \in DOMAIN requests : requests[r].seed = 0}

\* the update-row and delete-row handlers: one row, one change
SubmitOne(i, action, c) ==
  /\ pc[Loop] = "body"
  /\ draft' = [NoDraft EXCEPT !.action = action, !.item = i, !.change = c]
  /\ batch' = {i}
  /\ Goto(Loop, "check")
  /\ UNCHANGED <<db, writer, seedPos, todo, held, fresh, imported>>

\* the bulk handler: several rows, one action
SubmitBulk(S, action) ==
  /\ pc[Loop] = "body"
  /\ draft' = [NoDraft EXCEPT !.action = action]
  /\ batch' = S
  /\ Goto(Loop, "bulk")
  /\ UNCHANGED <<db, writer, seedPos, todo, held, fresh, imported>>

\* a bulk action changes one column; the new value may depend on the row
OneColumn == {c \in Edits : c.ident = Keep \/ c.val = Keep}
Lowest == {i \in batch : \A j \in batch : i <= j}

\* mistake: the row that was dealt with is taken again
SameRow(i) ==
  /\ batch' = batch
  /\ draft' = [NoDraft EXCEPT !.action = draft.action] /\ Goto(Loop, "bulk")

\* the rows still to do once row i is dealt with; the handler ends after the last
NextRow(i) ==
  /\ batch' = batch \ {i}
  /\ IF batch \subseteq {i}
     THEN draft' = NoDraft /\ Goto(Loop, "idle")
     ELSE draft' = [NoDraft EXCEPT !.action = draft.action] /\ Goto(Loop, "bulk")

\* a bulk update passes over rows that are gone or already have the value
Passed(i, c) ==
  draft.action = "update" /\ (i \in Live => Missing(items[i], c) = NoChange)

BulkSkip(c) ==
  /\ pc[Loop] = "bulk"
  /\ \E i \in Lowest : Passed(i, c) /\ NextRow(i)
  /\ UNCHANGED <<db, writer, seedPos, todo, held, fresh, imported>>

BulkPick(c) ==
  /\ pc[Loop] = "bulk"
  /\ \E i \in Lowest :
       /\ ~ Passed(i, c)
       /\ draft' = [draft EXCEPT !.item = i, !.change = c]
  /\ Goto(Loop, "check")
  /\ UNCHANGED <<db, writer, seedPos, todo, held, fresh, batch, imported>>

\* a bulk result that is not a legal value ends the handler, rows filed before
\* it stay filed
BulkAbort ==
  /\ pc[Loop] = "bulk" /\ draft.action = "update"
  /\ draft' = NoDraft /\ batch' = {}
  /\ Goto(Loop, "idle")
  /\ UNCHANGED <<db, writer, seedPos, todo, held, fresh, imported>>

\* create_catalog_correction before its transaction: a pending request for
\* the row is passed over, a row gone or already so ends the whole handler
Fileable(i) ==
  /\ items[i] # NoRow
  /\ ~ PendingExists(draft.action, items[i].ident)
  /\ draft.action = "update" => Missing(items[i], draft.change) # NoChange

CreateCheck ==
  LET i == draft.item IN
  /\ pc[Loop] = "check"
  /\ Fileable(i)
  /\ Cardinality(UserRequests) < MaxRequests
  /\ draft' = [draft EXCEPT !.src = items[i].src, !.ident = items[i].ident,
                 !.change = IF draft.action = "delete" THEN NoChange
                            ELSE Missing(items[i], draft.change)]
  /\ Goto(Loop, "create")
  /\ UNCHANGED <<db, writer, seedPos, todo, held, fresh, batch, imported>>

CreateRefused ==
  LET i == draft.item IN
  /\ pc[Loop] = "check"
  /\ ~ Fileable(i) \/ Cardinality(UserRequests) >= MaxRequests
  /\ IF items[i] # NoRow /\ PendingExists(draft.action, items[i].ident)
     THEN NextRow(i)
     ELSE batch' = {} /\ draft' = NoDraft /\ Goto(Loop, "idle")
  /\ UNCHANGED <<db, writer, seedPos, todo, held, fresh, imported>>

CreateTxn ==
  /\ pc[Loop] = "create"
  /\ requests' = Append(requests,
       [action |-> draft.action, src |-> draft.src, ident |-> draft.ident,
        item |-> draft.item, change |-> draft.change, status |-> "pending",
        seed |-> 0, applied |-> FALSE])
  /\ decisions' = Append(decisions, <<>>)
  /\ NextRow(draft.item) /\ Wrote(Loop)
  /\ UNCHANGED <<items, writer, seedPos, todo, held, imported>>

File ==
  \/ \E i \in DOMAIN items : \E c \in Edits : SubmitOne(i, "update", c)
  \/ \E i \in DOMAIN items : SubmitOne(i, "delete", NoChange)
  \/ \E S \in SUBSET (DOMAIN items) \ {{}} : \E a \in Actions : SubmitBulk(S, a)
  \/ BulkAbort \/ CreateCheck \/ CreateRefused \/ CreateTxn
  \/ \E c \in OneColumn : BulkSkip(c) \/ BulkPick(c)

--------------------------------------------------------------------------------
(* The event loop: imports and clearing the catalog                            *)

\* Rows old of source src, with identities in scope, are replaced by the rows
\* new: the whole main catalog, or one file of a ZIP, whose old rows are those of
\* the region folder it is imported for.  The lock is held until ImportCommit and
\* synchronize runs before anything is committed.
ImportWrite(src, scope, old, new) ==
  /\ pc[Loop] \in {"body", "import"}
  /\ Len(items) + Len(new) <= MaxItems
  /\ items' = [i \in DOMAIN items |-> IF i \in old THEN NoRow ELSE items[i]] \o new
  /\ writer' = Loop
  /\ scope \cap imported = {}
  /\ imported' = imported \cup scope
  /\ Goto(Loop, "seed") /\ Wrote(Loop)
  /\ UNCHANGED <<requests, decisions, seedPos, todo, held, draft, batch>>

ImportCommit ==
  /\ pc[Loop] = "import"
  /\ writer' = NoThread
  /\ imported' = {}
  /\ Goto(Loop, "idle")
  /\ UNCHANGED <<db, seedPos, todo, held, fresh, draft, batch>>

Clear ==
  /\ pc[Loop] = "body"
  /\ items' = [i \in DOMAIN items |-> NoRow]
  /\ Goto(Loop, "idle") /\ Wrote(Loop)
  /\ UNCHANGED <<requests, decisions, writer, seedPos, todo, held, filing>>

Scopes == {{i} : i \in Idents} \cup {Idents}
OldRows(src, scope) ==
  {i \in Live : items[i].src = src /\ items[i].ident \in scope}
NewRows(src, scope) ==
  Batches({row \in Row : row.src = src /\ row.ident \in scope})

Rebuild ==
  \/ \E src \in Sources : \E scope \in Scopes :
        \E old \in SUBSET OldRows(src, scope) : \E new \in NewRows(src, scope) :
           ImportWrite(src, scope, old, new)
  \/ ImportCommit
  \/ Clear

--------------------------------------------------------------------------------

\* sqlite3's busy timeout: a handler that needs the lock gives up
LockTimeout(t) ==
  /\ writer \notin {NoThread, t}
  /\ pc[t] \in {"seedwrite", "write", "approve", "reject", "create"}
  /\ seedPos' = [seedPos EXCEPT ![t] = 1]
  /\ todo' = [todo EXCEPT ![t] = {}]
  /\ held' = [held EXCEPT ![t] = NoHeld]
  /\ fresh' = [fresh EXCEPT ![t] = FALSE]
  /\ IF t = Loop THEN draft' = NoDraft /\ batch' = {}
                 ELSE UNCHANGED <<draft, batch>>
  /\ Goto(t, "idle")
  /\ UNCHANGED <<db, writer, imported>>

Handle(t) ==
  /\ writer \in {NoThread, t}
  /\ \/ Synchronize(t)
     \/ Finish(t)
     \/ t \in Pool /\ (Review(t) \/ EditMetadata(t))
     \/ t = Loop /\ (File \/ Rebuild)

Next ==
  \E t \in Threads :
     \/ writer = NoThread /\ Begin(t)
     \/ Handle(t)
     \/ LockTimeout(t)

Spec == Init /\ [][Next]_vars

\* The server finishes the requests it has started; users owe nothing.  SQLite
\* lets a reader in between two writers and fails a writer after its timeout,
\* so a handler that is held up again and again still moves: strong fairness.
FairSpec == Spec /\ \A t \in Threads : SF_vars(Handle(t) \/ LockTimeout(t))

--------------------------------------------------------------------------------

(* Types of the database rows and of what each handler holds on to while it
   runs: ids of requests and rows, phases, and the correction being filed. *)
TypeOK ==
  /\ items \in Seq(Row \cup {NoRow})
  /\ requests \in Seq(Request)
  /\ decisions \in Seq(Seq({"approved", "rejected"}))
  /\ Len(decisions) = Len(requests)
  /\ writer \in Threads \cup {NoThread}
  /\ pc \in [Threads -> Phases]
  /\ seedPos \in [Threads -> Nat]
  /\ todo \in [Threads -> SUBSET Ticket]
  /\ held \in [Threads -> Held]
  /\ fresh \in [Threads -> BOOLEAN]
  /\ draft \in Draft
  /\ batch \subseteq Nat
  /\ imported \subseteq Idents

(* Approved corrections are reapplied ORDER BY id, so ids must say which of two
   corrections of the same row and kind came later: a correction is filed only
   once the earlier ones of that row and kind are decided.  The check for a
   pending one is made before the transaction; it holds because only the event
   loop files corrections. *)
LatestOnlyPending ==
  \A r1, r2 \in DOMAIN requests :
     /\ r1 < r2
     /\ requests[r1].action = requests[r2].action
     /\ requests[r1].ident = requests[r2].ident
     /\ requests[r2].seed = 0
     => requests[r1].status # "pending"

(* The status column and the audit log are written together: whatever the
   interleaving of two reviewers, the status is the last decision logged. *)
StatusIsLastDecision ==
  \A r \in DOMAIN requests :
     requests[r].status = IF decisions[r] = <<>> THEN "pending"
                          ELSE decisions[r][Len(decisions[r])]

(* Concurrent first requests after an import both see an expert correction
   unseeded; it is stored once all the same. *)
SeedOnce ==
  \A r1, r2 \in DOMAIN requests :
     requests[r1].seed = requests[r2].seed /\ requests[r1].seed # 0 => r1 = r2

Overridden(r, i) ==
  \E r2 \in Approved :
     /\ r2 > r
     /\ i \in Target(requests[r2].item, requests[r2])
     /\ requests[r2].change.val # Keep

OverlayHolds ==
  \A r \in Approved : \A i \in Target(requests[r].item, requests[r]) :
     /\ requests[r].action = "update"
     /\ requests[r].change.val \in {Keep, items[i].val} \/ Overridden(r, i)

(* When a handler has gone through its list and nobody wrote meanwhile, the
   catalog it goes on with shows every approved correction: deleted rows are
   gone, updated columns have the value of the latest approved correction.
   For edits that leave the identity columns alone and rows of one source. *)
FreshSyncShowsOverlay ==
  \A t \in Threads :
     pc[t] = "sync" /\ todo[t] = {} /\ fresh[t] => OverlayHolds

(* docs/DOMAIN_RULES.md 11.1: "Rejection never changes the catalog." *)
RejectedNeverApplied ==
  \A r \in DOMAIN requests :
     requests[r].status = "rejected" => ~ requests[r].applied

(* docs/DOMAIN_RULES.md 11.1: an approved update or deletion "is found by its
   stable source identity", which is "catalog source, source filename, and
   source row". *)
OverlaySameSource ==
  \A t \in Threads :
     pc[t] = "write" => held[t].src = requests[held[t].req].src

\* What the handler of t has before it, the weightiest first: files of its
\* import, its stages, the seeds, requests or rows of the stage it is in, and
\* the steps it makes for each of these.
Files(t) == IF t = Loop THEN Idents \ imported ELSE {}
Stage(p) ==
  CASE p \in {"seed", "seedwrite"} -> 4
    [] p \in {"sync", "write"}     -> 3
    [] p \in {"body", "import"}    -> 2
    [] OTHER                       -> 1
Left(t) ==
  CASE Stage(pc[t]) = 4 -> seedPos[t] .. Len(SeedList)
    [] Stage(pc[t]) = 3 -> todo[t]
    [] Stage(pc[t]) = 1 /\ t = Loop -> batch
    [] OTHER -> {}
StepsEach(p) ==
  CASE p \in {"seed", "write", "bulk"} -> 2
    [] p = "check" -> 1
    [] OTHER -> 0

Fewer(S, T) == S \subseteq T /\ S # T

Advances(t) ==
  \/ Fewer(Files(t)', Files(t))
  \/ /\ Files(t)' = Files(t)
     /\ \/ Stage(pc[t])' < Stage(pc[t])
        \/ /\ Stage(pc[t])' = Stage(pc[t])
           /\ \/ Fewer(Left(t)', Left(t))
              \/ Left(t)' = Left(t) /\ StepsEach(pc[t])' < StepsEach(pc[t])

Begins(t)    == pc[t] = "idle" /\ pc[t]' # "idle"
Ends(t)      == pc[t] # "idle" /\ pc[t]' = "idle"
Undisturbed(t) ==
  /\ UNCHANGED <<pc[t], seedPos[t], todo[t], held[t]>>
  /\ t = Loop => UNCHANGED filing

(* No handler goes round in circles and none adds to another's work: every step
   is one handler's, which begins, ends or has less before it than it had, and
   leaves what the others have before them as it was.  The loops over seeds,
   approved requests, rows of a bulk action and files of an import all end. *)
HandlersAdvance ==
  [][\E t \in Threads :
        /\ Begins(t) \/ Ends(t) \/ (pc[t] # "idle" /\ Advances(t))
        /\ \A u \in Threads \ {t} : Undisturbed(u)]_vars

(* Every request the server has begun ends: no handler waits for ever on the
   write lock, and none keeps it. *)
HandlersEnd == \A t \in Threads : pc[t] # "idle" ~> pc[t] = "idle"

(* The workflow keeps the promise of ApprovedOverlay: whatever the handlers
   interleave, a row changes only by a correction approved in the log, as far as
   that one says, by an import or a metadata edit of its source, or by clearing. *)
Promise == INSTANCE ApprovedOverlay WITH
  catalog <- items,
  filed   <- [r \in DOMAIN requests |->
                [action |-> requests[r].action, change |-> requests[r].change]],
  log     <- decisions

ChangesAreApproved == Promise!Spec
================================================================================
