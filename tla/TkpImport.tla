------------------------------ MODULE TkpImport ------------------------------
(****************************************************************************)
(* The catalog of tender winners: core/storage/tkp.py and its two uploads   *)
(* in app/web/app.py, with the reading of the catalog by a calculation      *)
(* (app/services/write_result.py).                                          *)
(*                                                                          *)
(* A revision of a workbook is a content: equal contents are equal bytes.   *)
(* Lines says how many priced positions the parser finds in a content; it   *)
(* finds none in one it cannot read, which is stored all the same.          *)
(*                                                                          *)
(* Users upload any revisions of their workbooks, older ones too; a scan is *)
(* what one run of the CatalogBuilder macro saw in the watched folder.      *)
(*                                                                          *)
(* Both uploads are coroutines of the event loop: they capture the files,   *)
(* wait, and then store everything in one transaction without giving way.   *)
(* Calculations run on worker threads and read in between.                  *)
(****************************************************************************)
EXTENDS Integers, FiniteSets

CONSTANTS
  Paths,         \* workbooks on the users' disks
  FileNames,     \* base names
  NameOf,        \* base name of each path
  Contents,      \* revisions
  Lines,         \* positions found in a revision
  Oversized,     \* revisions above MAX_UPLOAD_BYTES
  Importers,     \* import requests
  Calculations,  \* calculations that use TKP analogs
  NoDate,        \* a source without a modification date
  NoTx,          \* no transaction is open
  Runs,          \* runs of the macro
  Scan,          \* the revisions each of them saw
  MaxUploads     \* bound on uploads accepted

ASSUME PathAssumption ==
  /\ NameOf \in [Paths -> FileNames]
ASSUME ContentAssumption ==
  /\ Contents \subseteq Nat /\ Lines \in [Contents -> Nat]
  /\ Oversized \subseteq Contents
  /\ NoDate \notin Contents
  /\ Runs \subseteq Nat /\ Scan \in [Runs -> [Paths -> Contents]]
  /\ MaxUploads \in Nat

VARIABLES
  upload,    \* what each import request holds
  accepted,  \* uploads accepted so far
  db,        \* tkp_sources and tkp_items as committed
  tx,        \* the same inside the open transaction
  calc       \* the reading of the catalog by each calculation

tkpVars == <<upload, accepted, db, tx, calc>>

--------------------------------------------------------------------------------
(* Stored rows                                                                 *)

\* _run_id of a direct upload, or the run of the macro
RunIds == [kind : {"bytes"}, n : Contents] \cup [kind : {"macro"}, n : Runs]

\* a parsed source file (TkpSourceFile)
File == [path : Paths, date : Contents \cup {NoDate}, run : RunIds, content : Contents]

Source == [id : Nat, path : Paths, date : Contents \cup {NoDate}, run : RunIds,
           content : Contents, details : {0, 1}]
Item   == [id : Nat, source : Nat, path : Paths, content : Contents, line : Nat]

\* tkp_sources and tkp_items with the last ids given (AUTOINCREMENT)
Tables == [sources : SUBSET Source, items : SUBSET Item, lastId : Nat, lastItem : Nat]

ASSUME TxAssumption == NoTx \notin Tables

Named(d, n) == {s \in d.sources : NameOf[s.path] = n}

\* the items a parse attaches to a file (import_tkp_parse_result, by file_path)
ItemsOf(d, f) ==
  {[id |-> d.lastItem + k, source |-> d.lastId + 1, path |-> f.path,
    content |-> f.content, line |-> k] : k \in 1..Lines[f.content]}

--------------------------------------------------------------------------------
(* The files of an upload                                                      *)

\* mistake: a direct upload has no run id
FolderFilesWithoutRun(seen) ==
  {[path |-> p, date |-> NoDate, content |-> seen[p], run |-> NoDate] : p \in DOMAIN seen}

\* parse_tkp_source_workbook: the fingerprint of the bytes, and no date
FolderFiles(seen) ==
  {[path |-> p, date |-> NoDate, content |-> seen[p],
    run |-> [kind |-> "bytes", n |-> seen[p]]] : p \in DOMAIN seen}

\* KL20_FileCatalog: the dates the macro saw
CatalogFiles(run) ==
  {[path |-> p, date |-> Scan[run][p], content |-> Scan[run][p],
    run |-> [kind |-> "macro", n |-> run]] : p \in Paths}

\* _include_sources_derived_from_items: sources of the rows, undated
DerivedFiles(run) ==
  {[path |-> p, date |-> NoDate, content |-> Scan[run][p],
    run |-> [kind |-> "macro", n |-> run]] : p \in {q \in Paths : Lines[Scan[run][q]] > 0}}

Idle == [phase |-> "idle", files |-> {}, todo |-> {}]
Received(files) == [phase |-> "received", files |-> files, todo |-> files]

Accept(i, files) ==
  /\ upload[i] = Idle
  /\ accepted < MaxUploads
  /\ upload' = [upload EXCEPT ![i] = Received(files)]
  /\ accepted' = accepted + 1
  /\ UNCHANGED <<db, tx, calc>>

NoTables == [sources |-> {}, items |-> {}, lastId |-> 0, lastItem |-> 0]

\* the row of a file, and its items
Stored(d, f, details) ==
  [sources |-> d.sources \cup
     {[id |-> d.lastId + 1, path |-> f.path, date |-> f.date, run |-> f.run,
       content |-> f.content, details |-> details]},
   items    |-> d.items \cup ItemsOf(d, f),
   lastId   |-> d.lastId + 1,
   lastItem |-> d.lastItem + Lines[f.content]]

\* empty, or with a row from before details_version existed
TkpInit ==
  /\ upload = [i \in Importers |-> Idle]
  /\ accepted = 0
  /\ \/ db = NoTables
     \/ \E run \in Runs : \E f \in CatalogFiles(run) : db = Stored(NoTables, f, 0)
  /\ tx = NoTx
  /\ calc = [w \in Calculations |-> [phase |-> "idle", limit |-> 0, index |-> {}]]

--------------------------------------------------------------------------------
(* The uploads                                                                 *)

Clash(S)       == \E p, q \in S : p # q /\ NameOf[p] = NameOf[q]
Readable(seen) == \A p \in DOMAIN seen : seen[p] \notin Oversized
Selections     == UNION {[S -> Contents] : S \in SUBSET Paths \ {{}}}

\* mistake: one name twice in a folder is let through
AnyFolders == {FolderFiles(seen) : seen \in {x \in Selections : Readable(x)}}

\* what the folder form is not refused for: an empty choice, a name that
\* occurs twice, a file that is too large
Folders ==
  {FolderFiles(seen) :
     seen \in {x \in Selections : Readable(x) /\ ~Clash(DOMAIN x)}}

Books == {CatalogFiles(run) : run \in Runs} \cup {DerivedFiles(run) : run \in Runs}

\* admin_tkp_import_folder and admin_tkp_import up to where they wait
ReceiveFolder(i)  == \E files \in Folders : Accept(i, files)
ReceiveCatalog(i) == \E files \in Books : Accept(i, files)

--------------------------------------------------------------------------------
(* import_tkp_parse_result, one file after the other, in the order in which    *)
(* the browser or the macro happened to list them                              *)

Storing(i) == tx # NoTx /\ upload[i].phase = "storing"

BeginStore(i) ==
  /\ upload[i].phase = "received"
  /\ tx = NoTx
  /\ tx' = db
  /\ upload' = [upload EXCEPT ![i].phase = "storing"]
  /\ UNCHANGED <<accepted, db, calc>>

\* mistake: an undated source is taken for the same revision
CurrentByName(f) ==
  \E s \in Named(tx, NameOf[f.path]) : s.date = f.date /\ s.details = 1

\* the row that lets a file be skipped
Current(f) ==
  \E s \in Named(tx, NameOf[f.path]) :
    /\ s.date = f.date
    /\ s.details = 1
    /\ f.date # NoDate \/ s.run = f.run

\* mistake: the items of a replaced source stay
WithoutSources(d, gone) == [d EXCEPT !.sources = @ \ gone]

\* DELETE FROM tkp_sources, the items going with their source
Without(d, gone) ==
  [d EXCEPT !.sources = @ \ gone,
            !.items = {x \in @ : \A s \in gone : s.id # x.source}]

\* mistake: only the row of the same date is replaced
ReplacedSameDate(f) == {s \in Named(tx, NameOf[f.path]) : s.date = f.date}

Replaced(f) == Named(tx, NameOf[f.path])

\* _upsert_source_file
UpsertFile(i) ==
  /\ Storing(i)
  /\ \E f \in upload[i].todo :
       /\ tx' = IF Current(f) THEN tx ELSE Stored(Without(tx, Replaced(f)), f, 1)
       /\ upload' = [upload EXCEPT ![i].todo = @ \ {f}]
  /\ UNCHANGED <<accepted, db, calc>>

CommitStore(i) ==
  /\ Storing(i)
  /\ upload[i].todo = {}
  /\ db' = tx
  /\ tx' = NoTx
  /\ upload' = [upload EXCEPT ![i] = Idle]
  /\ UNCHANGED <<accepted, calc>>

\* an exception, a locked database or the death of the server
Abort(i) ==
  /\ upload[i] # Idle
  /\ tx' = IF upload[i].phase = "storing" THEN NoTx ELSE tx
  /\ upload' = [upload EXCEPT ![i] = Idle]
  /\ UNCHANGED <<accepted, db, calc>>

--------------------------------------------------------------------------------
(* _load_tkp_catalog_index: two statements outside a transaction               *)

CountItems(w) ==
  /\ calc[w].phase = "idle"
  /\ calc' = [calc EXCEPT ![w] =
       [phase |-> IF db.items = {} THEN "loaded" ELSE "counted",
        limit |-> Cardinality(db.items), index |-> {}]]
  /\ UNCHANGED <<upload, accepted, db, tx>>

\* list_tkp_items: ORDER BY id LIMIT count
ListItems(w) ==
  /\ calc[w].phase = "counted"
  /\ calc' = [calc EXCEPT ![w].phase = "loaded",
       ![w].index = {x \in db.items :
           Cardinality({y \in db.items : y.id <= x.id}) <= calc[w].limit}]
  /\ UNCHANGED <<upload, accepted, db, tx>>

TkpNext ==
  \/ \E i \in Importers :
       \/ ReceiveFolder(i) \/ ReceiveCatalog(i) \/ BeginStore(i)
       \/ UpsertFile(i) \/ CommitStore(i) \/ Abort(i)
  \/ \E w \in Calculations : CountItems(w) \/ ListItems(w)

TkpSpec == TkpInit /\ [][TkpNext]_tkpVars
--------------------------------------------------------------------------------
(* Properties                                                                  *)

(* Every table, upload and reading keeps its shape.                            *)
TkpTypeOK ==
  /\ upload \in [Importers -> [phase : {"idle", "received", "storing"},
                               files : SUBSET File, todo : SUBSET File]]
  /\ accepted \in 0..MaxUploads
  /\ db \in Tables
  /\ tx \in Tables \cup {NoTx}
  /\ calc \in [Calculations -> [phase : {"idle", "counted", "loaded"},
                                limit : Nat, index : SUBSET Item]]

(* However direct uploads, aggregate workbooks with and without dates, rows    *)
(* of an older schema and failed imports follow on each other, the catalog     *)
(* never offers two revisions of one file name (_upsert_source_file replaces   *)
(* every source of the name, whatever its date and folder).                    *)
OneRevisionPerFile ==
  \A s, t \in db.sources : NameOf[s.path] = NameOf[t.path] => s = t

(* The positions stored with a source are exactly those of one parse of one    *)
(* revision, in their order, and no position outlives its source: stale items  *)
(* are never left mixed in with the refreshed ones (tkp.py, _upsert_source_file).*)
ItemsOfOneParse ==
  /\ \A x \in db.items : \E s \in db.sources :
       /\ x.source = s.id /\ x.path = s.path /\ x.content = s.content
       /\ x.line \in 1..Lines[s.content]
  /\ \A s \in db.sources : \A k \in 1..Lines[s.content] :
       \E x \in db.items : x.source = s.id /\ x.line = k
  /\ \A x, y \in db.items : x.source = y.source => (x.id < y.id <=> x.line < y.line)

(* What a calculation searches never holds positions of two revisions of one   *)
(* file, although it reads while imports commit (one SELECT, one snapshot).    *)
IndexOneRevision ==
  \A w \in Calculations : \A x, y \in calc[w].index :
    NameOf[x.path] = NameOf[y.path] => x.source = y.source

(* The catalog is a register by file name: an accepted upload publishes all    *)
(* its revisions or none, a skipped file holds what was uploaded, and the last *)
(* commit wins.                                                                *)
Register == INSTANCE TkpRegister WITH
  Names <- FileNames, Uploaders <- Importers, Absent <- NoDate,
  register <- [n \in FileNames |->
     IF Named(db, n) = {} THEN NoDate
     ELSE (CHOOSE s \in Named(db, n) : TRUE).content],
  pending <- [i \in Importers |-> [n \in FileNames |->
     {f.content : f \in {g \in upload[i].files : NameOf[g.path] = n}}]]
UploadsArePublished == Register!Spec

(* A direct upload loses no file to another: once it is committed, each of its *)
(* revisions is the one stored under its name (the handler refuses a folder in *)
(* which a name occurs twice).                                                 *)
FolderStoredWhole ==
  [][\A i \in Importers : CommitStore(i) =>
       \A f \in upload[i].files :
         f.run.kind = "bytes" =>
           \E s \in db'.sources : NameOf[s.path] = NameOf[f.path] /\ s.content = f.content
    ]_tkpVars
==============================================================================
