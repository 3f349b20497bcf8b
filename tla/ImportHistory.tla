----------------------------- MODULE ImportHistory -----------------------------
(****************************************************************************)
(* imported_files, the record of every workbook the catalog was built from, *)
(* and the catalog rows each left behind (core/storage/catalog.py, with      *)
(* app/services/rnmc_zip.py and rnmc_excel.py).                              *)
(*                                                                           *)
(* A workbook is one thing to the skip rule, which asks for its normalised   *)
(* name (a key), and another to the table, whose records are per region      *)
(* folder and spelled name (a place).                                        *)
(*                                                                           *)
(* Six operations walk over a list of places in one transaction: a ZIP       *)
(* import, the ZIP log, a File_Log import, the restoring of the bundled      *)
(* File_Log by a page view, and the main catalog.  Each is a job: it reads   *)
(* the known keys, then looks at one place after another and writes its      *)
(* record.  The first write takes SQLite's lock; until the commit the job    *)
(* works on tx, and everybody else reads db.                                 *)
(****************************************************************************)
EXTENDS Naturals, Sequences, FiniteSets

CONSTANTS
  Pool,          \* worker threads: page views, retries, metadata edits
  Loop,          \* the event loop: uploads, clearing the catalog
  NoThread,      \* nobody holds the write lock
  Regions,       \* region folders
  Root,          \* the empty region folder
  Files,         \* file names as spelled
  Keys,          \* normalised file names
  KeyOf,         \* normalize_import_filename
  Uploads,       \* archives and File_Log workbooks a user may upload
  Bundled,       \* data/File_Log.xlsx
  Books,         \* prepared main catalogs: their source files, then their own
  NoRecord,      \* a deleted imported_files id
  MaxRecords     \* bound on imported_files ids handed out

Threads == Pool \cup {Loop}
Place   == [region : Regions, file : Files]
Sources == {"main", "zip", "legacy"}

ASSUME ThreadAssumption == Loop \notin Pool /\ NoThread \notin Threads
ASSUME KeyAssumption    == Files # {} /\ KeyOf \in [Files -> Keys]
ASSUME PlaceAssumption  == Root \in Regions
ASSUME ListAssumption   ==
  /\ Uploads \subseteq Seq(Place) /\ Bundled \in Seq(Place)
  /\ Books \subseteq Seq(Place) \ {<<>>}

Statuses ==
  {"legacy_imported", "success", "skipped", "no_data", "failed",
   "duplicate_name", "pending"}
Record == [src : Sources, region : Regions, file : Files, status : Statuses]
Spot   == [src : Sources, region : Regions, file : Files]

ASSUME RecordAssumption == NoRecord \notin Record

\* files: imported_files by id; rows: where the catalog rows come from
Database == [files : Seq(Record \cup {NoRecord}), rows : SUBSET Spot]

Modes == {"none", "import", "log", "legacy", "sync", "main"}
Plans == {"none", "load", "duplicate_name", "skipped", "pending",
          "legacy_imported", "success"}
Job   == [mode : Modes, todo : Seq(Place), known : SUBSET Keys,
          seen : SUBSET Keys, plan : Plans]
NoJob == [mode |-> "none", todo |-> <<>>, known |-> {}, seen |-> {},
          plan |-> "none"]

\* update_imported_file_metadata between its SELECT and its UPDATE
Edit   == [id : Nat, old : Spot]
NoEdit == [id |-> 0, old |-> [src |-> "zip", region |-> Root,
                              file |-> CHOOSE f \in Files : TRUE]]

VARIABLES db, tx, writer, job, edit

vars == <<db, tx, writer, job, edit>>

--------------------------------------------------------------------------------
(* Reading                                                                     *)

Seen(t) == IF writer = t THEN tx ELSE db
Ids(d)  == {n \in DOMAIN d.files : d.files[n] # NoRecord}
At(d, p) ==
  {n \in Ids(d) : d.files[n].region = p.region /\ d.files[n].file = p.file}

\* mistake: a skipped file is offered for a retry as well
RetriableAny == {"failed", "no_data", "skipped"}
Retriable == {"failed", "no_data"}

FinalStatuses == Statuses \ {"pending", "failed"}

RecordedKeys(d) == {KeyOf[d.files[n].file] : n \in Ids(d)}
ProcessedKeys(d) ==
  {KeyOf[d.files[n].file] : n \in {m \in Ids(d) : d.files[m].status \in FinalStatuses}}

\* mistake: only imported_files is asked
FinalRecords(d) == ProcessedKeys(d)

\* final_filename_keys_for_preview: the records, or failing them the rows
FinalKeys(d) == ProcessedKeys(d) \cup {KeyOf[s.file] : s \in d.rows}

--------------------------------------------------------------------------------
(* Writing                                                                     *)

\* INSERT ... ON CONFLICT (region_folder, filename) DO UPDATE
Upsert(d, src, p, status) ==
  LET r == [src |-> src, region |-> p.region, file |-> p.file, status |-> status]
  IN  IF At(d, p) = {} THEN [d EXCEPT !.files = Append(@, r)]
      ELSE [d EXCEPT !.files =
              [n \in DOMAIN @ |-> IF n \in At(d, p) THEN r ELSE @[n]]]

Room(d, p) == At(d, p) = {} => Len(d.files) < MaxRecords

\* t writes d inside its transaction, taking the lock if it has not got it
Write(t, d) ==
  /\ writer \in {NoThread, t}
  /\ writer' = t /\ tx' = d /\ UNCHANGED db

\* a transaction of one statement sequence, seen by nobody half done
WriteAtOnce(d) ==
  /\ writer = NoThread
  /\ db' = d /\ tx' = d /\ UNCHANGED writer

Run(t, j) == job' = [job EXCEPT ![t] = j]

Init ==
  /\ db = [files |-> <<>>, rows |-> {}]
  /\ tx = db
  /\ writer = NoThread
  /\ job = [t \in Threads |-> NoJob]
  /\ edit = [t \in Threads |-> NoEdit]

Idle(t) == job[t].mode = "none" /\ edit[t] = NoEdit

--------------------------------------------------------------------------------
(* Starting a job: what it knows of the history is read here, once             *)

Start(t, mode, list, known) ==
  /\ Idle(t)
  /\ Run(t, [NoJob EXCEPT !.mode = mode, !.todo = list, !.known = known])

Upload ==
  /\ \E list \in Uploads :
       \/ Start(Loop, "import", list, FinalKeys(db))
       \/ Start(Loop, "log", list, FinalKeys(db))
       \/ Start(Loop, "legacy", list, {})
  /\ UNCHANGED <<db, tx, writer, edit>>

\* _sync_bundled_file_log, by every view of the imports page
SyncStart(t) ==
  /\ db.rows # {}
  /\ Start(t, "sync", Bundled, RecordedKeys(db))
  /\ UNCHANGED <<db, tx, writer, edit>>

\* import_catalog_from_excel: what the last main catalog left goes first
MainStart ==
  /\ \E list \in Books :      \* each file listed has a row fit to store
       /\ Start(Loop, "main", list, {})
       /\ Write(Loop,
            [files |-> [n \in DOMAIN db.files |->
                          IF n \in Ids(db) /\ db.files[n].src = "main"
                          THEN NoRecord ELSE db.files[n]],
             rows  |-> {s \in db.rows : s.src # "main"} \cup
                       {[src |-> "main", region |-> Root, file |-> list[n].file]
                          : n \in DOMAIN list}])
  /\ UNCHANGED edit

--------------------------------------------------------------------------------
(* Looking at the next place                                                   *)

Head1(t) == job[t].todo[1]
Key1(t)  == KeyOf[Head1(t).file]
Again(t) == Key1(t) \in job[t].seen
Known(t) == Key1(t) \in job[t].known
Recorded(t) == At(Seen(t), Head1(t)) # {}

Plan(t, plan) ==
  Run(t, [job[t] EXCEPT !.plan = plan, !.seen = @ \cup {Key1(t)}])

\* nothing to write for this place
Keep(t) ==
  Run(t, [job[t] EXCEPT !.todo = Tail(@), !.seen = @ \cup {Key1(t)}])

\* mistake: a name met before in the same archive is loaded again
LookTwice(t) ==
  \/ Known(t) /\ Recorded(t) /\ Keep(t)
  \/ Known(t) /\ ~ Recorded(t) /\ Plan(t, "skipped")
  \/ ~ Known(t) /\ Plan(t, "load")

LookImport(t) ==
  \/ Again(t) /\ Plan(t, "duplicate_name")
  \/ ~ Again(t) /\ Known(t) /\ Recorded(t) /\ Keep(t)
  \/ ~ Again(t) /\ Known(t) /\ ~ Recorded(t) /\ Plan(t, "skipped")
  \/ ~ Again(t) /\ ~ Known(t) /\ Plan(t, "load")

LookLog(t) ==
  \/ Recorded(t) /\ Keep(t)
  \/ ~ Recorded(t) /\ Again(t) /\ Plan(t, "duplicate_name")
  \/ ~ Recorded(t) /\ ~ Again(t) /\ Known(t) /\ Plan(t, "skipped")
  \/ ~ Recorded(t) /\ ~ Again(t) /\ ~ Known(t) /\ Plan(t, "pending")

LookLegacy(t) ==
  \/ Again(t) /\ Plan(t, "duplicate_name")
  \/ ~ Again(t) /\ Plan(t, "legacy_imported")

LookSync(t) ==
  \/ (Again(t) \/ Known(t)) /\ Keep(t)
  \/ ~ Again(t) /\ ~ Known(t) /\ Plan(t, "legacy_imported")

\* the source files of the prepared catalog, then the catalog workbook itself
LookMain(t) ==
  Plan(t, IF Len(job[t].todo) = 1 THEN "success" ELSE "legacy_imported")

Look(t) ==
  /\ job[t].todo # <<>> /\ job[t].plan = "none"
  /\ \/ job[t].mode = "import" /\ LookImport(t)
     \/ job[t].mode = "log" /\ LookLog(t)
     \/ job[t].mode = "legacy" /\ LookLegacy(t)
     \/ job[t].mode = "sync" /\ LookSync(t)
     \/ job[t].mode = "main" /\ LookMain(t)
  /\ UNCHANGED <<db, tx, writer, edit>>

--------------------------------------------------------------------------------
(* Writing the record of the place                                             *)

Written(t) == Run(t, [job[t] EXCEPT !.todo = Tail(@), !.plan = "none"])

SourceOf(mode) ==
  [import |-> "zip", log |-> "zip", legacy |-> "legacy", sync |-> "legacy",
   main |-> "main"][mode]

WriteRecord(t) ==
  /\ job[t].plan \notin {"none", "load"}
  /\ Room(Seen(t), Head1(t))
  /\ Write(t, Upsert(Seen(t), SourceOf(job[t].mode), Head1(t), job[t].plan))
  /\ Written(t)
  /\ UNCHANGED edit

ZipSpot(p) == [src |-> "zip", region |-> p.region, file |-> p.file]
AddRows(d, p)  == [d EXCEPT !.rows = @ \cup {ZipSpot(p)}]
DropRows(d, p) == [d EXCEPT !.rows = @ \ {ZipSpot(p)}]

\* _import_workbook_bytes for place p, whose workbook may name another region
Outcomes(d, p) ==
  LET found == {[p EXCEPT !.region = r] : r \in Regions} IN
     {Upsert(AddRows(d, q), "zip", q, "success") : q \in found}
\cup {Upsert(DropRows(d, q), "zip", q, "success") : q \in found}
\cup {Upsert(d, "zip", q, "no_data") : q \in found}
\* an exception, before or after the rows were inserted, is recorded as failed
\cup {Upsert(d, "zip", p, "failed")}
\cup {Upsert(AddRows(d, q), "zip", p, "failed") : q \in found}

LoadWorkbook(t) ==
  /\ job[t].plan = "load"
  /\ Len(Seen(t).files) < MaxRecords
  /\ \E d \in Outcomes(Seen(t), Head1(t)) : Write(t, d)
  /\ Written(t)
  /\ UNCHANGED edit

Commit(t) ==
  /\ job[t].mode # "none" /\ job[t].todo = <<>>
  /\ db' = Seen(t)
  /\ writer' = IF writer = t THEN NoThread ELSE writer
  /\ Run(t, NoJob)
  /\ UNCHANGED <<tx, edit>>

\* mistake: the lock goes, what was written stays
GiveUpUndone(t) ==
  /\ job[t].mode # "none"
  /\ Run(t, NoJob)
  /\ writer' = IF writer = t THEN NoThread ELSE writer
  /\ UNCHANGED <<db, tx, edit>>

\* an unreadable workbook, a lock timeout, a crash: SQLite rolls back
GiveUp(t) ==
  /\ job[t].mode # "none"
  /\ Run(t, NoJob)
  /\ IF writer = t THEN writer' = NoThread /\ tx' = db
                   ELSE UNCHANGED <<writer, tx>>
  /\ UNCHANGED <<db, edit>>

--------------------------------------------------------------------------------
(* Short handlers                                                              *)

\* allow_import_retry
AllowRetry(t) ==
  /\ Idle(t)
  /\ \E n \in Ids(db) :
       /\ db.files[n].status \in Retriable
       /\ WriteAtOnce([db EXCEPT !.files[n].status = "pending"])
  /\ UNCHANGED <<job, edit>>

\* update_imported_file_metadata: the record as it is now
EditRead(t) ==
  /\ Idle(t)
  /\ \E n \in Ids(db) :
       edit' = [edit EXCEPT ![t] =
                  [id |-> n, old |-> [src    |-> db.files[n].src,
                                      region |-> db.files[n].region,
                                      file   |-> db.files[n].file]]]
  /\ UNCHANGED <<db, tx, writer, job>>

\* the record gets its new region, so do the rows it had when it was read
EditWrite(t) ==
  LET e == edit[t] IN
  /\ e # NoEdit
  /\ \E r \in Regions :
       /\ e.id \in Ids(db)
       /\ At(db, [region |-> r, file |-> db.files[e.id].file]) \subseteq {e.id}
       /\ WriteAtOnce(
            [files |-> [db.files EXCEPT ![e.id].region = r],
             rows  |-> IF e.old \in db.rows
                       THEN (db.rows \ {e.old}) \cup {[e.old EXCEPT !.region = r]}
                       ELSE db.rows])
  /\ edit' = [edit EXCEPT ![t] = NoEdit]
  /\ UNCHANGED job

\* the record is gone, the new place is taken, or the lock did not come
EditGiveUp(t) ==
  /\ edit[t] # NoEdit
  /\ edit' = [edit EXCEPT ![t] = NoEdit]
  /\ UNCHANGED <<db, tx, writer, job>>

\* clear_catalog_for_rebuild
Clear ==
  /\ Idle(Loop)
  /\ WriteAtOnce([db EXCEPT !.rows = {}])
  /\ UNCHANGED <<job, edit>>

Next ==
  \/ Upload \/ MainStart \/ Clear
  \/ \E t \in Threads :
        SyncStart(t) \/ Look(t) \/ WriteRecord(t) \/ LoadWorkbook(t)
        \/ Commit(t) \/ GiveUp(t)
  \/ \E t \in Pool : AllowRetry(t) \/ EditRead(t) \/ EditWrite(t) \/ EditGiveUp(t)

Spec == Init /\ [][Next]_vars

--------------------------------------------------------------------------------

(* Types of the committed and the working database, of the jobs and the edits;
   with nobody writing the working copy is the database. *)
TypeOK ==
  /\ db \in Database /\ tx \in Database
  /\ writer \in Threads \cup {NoThread}
  /\ job \in [Threads -> Job]
  /\ edit \in [Threads -> Edit]
  /\ writer = NoThread => tx = db

(* docs/RNMC_IMPORT.md, File identity: the normalised name is the identity of a
   workbook, whatever its region folder.  When an import brings the rows of an
   archive's workbook into the catalog, they are the only rows of that workbook
   there: neither another archive nor the main catalog had stored it, under any
   spelling or region, with a record or after its record was lost.  (An edit
   that moves rows brings none.  The main catalog asks nobody: imported after
   an archive it may store a workbook again, and this does not forbid it.) *)
LoadedOnlyIfNew ==
  [][\A s \in db'.rows \ db.rows :
       s.src = "zip" =>
         \/ \E old \in db.rows \ db'.rows : s = [old EXCEPT !.region = s.region]
         \/ \A r \in db'.rows : KeyOf[r.file] = KeyOf[s.file] => r = s]_vars

(* docs/RNMC_IMPORT.md, Statuses: final statuses block normal re-import.  A
   record stays final unless an administrator allows a retry of a file without
   data, the main catalog that wrote it is replaced, or it appeared only after
   the running ZIP import, or ZIP log, had read the history. *)
FinalKept ==
  [][\A n \in Ids(db) :
       LET old == db.files[n]
           new == db'.files[n]
       IN  old.status \in FinalStatuses =>
             \/ new # NoRecord /\ KeyOf[new.file] = KeyOf[old.file]
                               /\ new.status \in FinalStatuses
             \/ new # NoRecord /\ old.status = "no_data" /\ new.status = "pending"
             \/ new = NoRecord /\ old.src = "main"
             \/ /\ job[Loop].mode \in {"import", "log"}
                /\ KeyOf[old.file] \notin job[Loop].known
    ]_vars

\* the workbooks whose rows came from archives
ZipShelf(rows) ==
  {[region |-> s.region, file |-> s.file] : s \in {q \in rows : q.src = "zip"}}

Shelf == INSTANCE WorkbookShelf WITH shelf <- ZipShelf(db.rows)

(* WorkbookShelf: what a commit of an import shows is more workbooks than
   before and every earlier one where it was; only a metadata edit moves one,
   only a clearing removes any, and a transaction that is rolled back, a retry,
   a File_Log or a main catalog shows nothing of the kind. *)
ShelfKept == Shelf!Spec

(* docs/RNMC_IMPORT.md, Retry model: allowing a retry "changes the record to
   `pending`, so the same filename can be processed when the ZIP is uploaded
   again". *)
RetryIsEffective ==
  [][\A n \in Ids(db) :
       db.files[n].status \in Retriable /\ db'.files[n] # NoRecord
         /\ db'.files[n].status = "pending"
       => KeyOf[db.files[n].file] \notin FinalKeys(db')]_vars
================================================================================
