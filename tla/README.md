# A TLA+ model of estimate-ai

estimate-ai prices construction estimates.  A catalog of priced works is built
in SQLite from Excel files; an uploaded estimate is matched against it, its rows
are priced and the result is written back into a copy of the workbook.  The
program is one FastAPI process (`app/web/app.py`) with a command line beside it
(`app/cli`), a storage layer (`core/storage`) and pure algorithms (`core`).

This directory holds TLA+ modules that model the parts of it in which order,
interleaving or history matter, TLC configurations that check small instances,
and theorems about every instance with proofs checked by TLAPS.

## 1. How the program runs, and what the models take from it

* Handlers declared `def` run on a pool of worker threads and interleave.
  Handlers declared `async def` do not await between `connect` and `close`, so
  they run one after another on the event loop.
* `core/storage/connection.py` opens one SQLite connection per request, with the
  default rollback journal and the default busy timeout of five seconds.
* Python's `sqlite3` opens a transaction at the first INSERT, UPDATE or DELETE:
  a handler's SELECTs before that are separate reads, and what they returned may
  be stale when the handler writes.  From its first write to its commit the
  handler holds the write lock.  A reader in the meantime sees the last committed
  state, that is, the state in which the lock was taken, so letting only the lock
  holder step loses no behaviour: every read of another thread can be moved
  before the acquisition.  One copy of the database is therefore enough.
* A request that cannot get the lock in time fails and changes nothing.

## 2. Inventory

| component | state | operations | hard parts | module |
|---|---|---|---|---|
| Catalog corrections (`core/storage/corrections.py`) | requests, changes, events, `catalog_items` | file one, file many, approve, reject, seed, reapply | check before transaction, reapplication on every request, row ids that vanish on import | `Corrections` |
| Import history (`core/storage/catalog.py`, `app/services/rnmc_zip.py`, `rnmc_excel.py`) | `imported_files`, `import_row_log` | ZIP import, ZIP log, File_Log import, main import, retry, edit, clear | identity by filename against identity by region and filename, records overwritten, stolen or left pending | `ImportHistory`, `WorkbookShelf` |
| Price risks (`core/storage/risk_log.py`, `core/approval.py`, `core/risk.py`, `app/services/write_result.py`) | `price_risk_log`, `gesn_exceptions` | run, approve | run and approval race, two commits of one approval, scaled and unscaled prices | `RiskApproval` |
| TKP import (`core/storage/tkp.py`, `core/tkp_folder_ingest.py`, `core/tkp_ingest.py`) | `tkp_sources`, `tkp_items` | upload a folder, upload the macro's catalog, read the catalog | same file name in two folders, an older revision after a newer one, reading in two statements | `TkpImport`, `TkpRegister` |
| Rules (`core/storage/rules.py`, `core/exclusions.py`) | name exclusions, task colours, reasons | add, switch, import-rules, read colours | two administrators at once, an id that is gone, two reads of one run | `RuleTables` |
| Web session (`app/web/app.py`, `app/services/write_result.py`) | upload tokens, one record and one output file each | `/run`, `/confirm`, writing, `/download` | two confirmations share record and file, writing breaks off | `EstimateSession` |
| Matching and pricing (`core/catalog.py`, `matching.py`, `multiplicity.py`, `pricing.py`, `sections.py`, `normalize.py`, `app/services/run_matching.py`) | the groups of a catalog | build, deduplicate, match, average | what the 4 % rule swallows depends on the order | `EstimateMatching` |
| Row scan (`app/services/rnmc_excel.py`) | position in the sheet | metadata, header, preview, import | two copies of one loop with columns of different width, the rows that end a table | `RnmcScan` |
| Layout (`core/layout.py`, `read_estimate.py`, `core/excel_io.py`) | none (pure) | find header, columns, rows, sheet | detected columns against the template's | `EstimateSheet` |
| Result writer (`core/excel_writer.py`, `ooxml_preservation.py`) | the workbook | insert columns, write, calculate again | columns that move one another | `ResultWriter`; the saving in `EstimateSession` |
| Staged RNMC import (`app/web/app.py`) | tokens of previewed files | stage, commit | single use of a token | not modelled |
| Folder ingest (`core/ingest.py`) | none | list the files of a folder | none | not modelled |
| TKP matching (`core/tkp_matching.py`, `tkp_candidate_rules.py`, `app/services/tkp_shadow.py`) | none (pure) | best match, shadow comparison | ties of floating-point scores | not modelled |
| Rendering, templates, export, CLI, scripts, VBA reference, configuration | none | output only | none for a state model | not modelled |

### What makes each part correct

* Corrections: imports, metadata edits and clearing apart, the catalog changes
  only by what was approved; a rejected
  correction changes nothing; log and status agree; an approved correction
  survives every rebuild, on the row it was approved for; no handler hangs.
* Import history: an archive's workbook is loaded only if the catalog has none of
  its rows; a final record stays final; a retry
  granted by an administrator has effect; a record of what was done is not
  overwritten by a record of what was not; rows in the catalog have a record.
* Price risks: an approved range only widens; a key marked approved has a range
  that covers what its log row shows; no range is approved that nobody saw.
* TKP import: one revision per file name with exactly its items; an upload is
  stored whole or not at all; a calculation never mixes revisions.
* Rules: a reason has one row; an edit that comes late hits no other rule; a
  colour is painted with the reason it was given.
* Session: a confirmation that nobody disturbs is written as its form says; what
  is downloaded while nobody writes is complete and made of results that were shown.
* Matching: what is kept is apart; no analog of the row's own kind is lost; the
  reason told for a row without analogs is the true one.
* Row scan: what the administrator saw is what is written; no good row is lost
  above the gap that ends the table.
* Writer: outputs stand apart in order and overwrite nothing of the source;
  the sheet's formulas follow the columns of their own sheet; a second
  calculation finds what the first one wrote.

PROJECT.json lists the hazards behind these, each at its line.

## 3. Structure of the project

| module | models | extends | checked by | proved in |
|---|---|---|---|---|
| `Corrections`, abstract `ApprovedOverlay` | section 4 | | `MCCorrections` | `CorrectionsProofs` |
| `ImportHistory`, abstract `WorkbookShelf` | section 5 | | `MCImportHistory` | `ImportHistoryProofs` |
| `RiskApproval` | section 6 | | `MCRiskApproval` | `RiskApprovalProofs` |
| `TkpImport`, abstract `TkpRegister` | section 8 | | `MCCalculation` | `TkpImportProofs` |
| `RuleTables` | section 9 | | `MCCalculation` | `RuleTablesProofs` |
| `EstimateSession` | section 10 | | `MCCalculation` | `EstimateSessionProofs` |
| `EstimateMatching` | section 11 | | `MCCalculation` | `CalculationProofs` |
| `RnmcScan` | section 12 | | `MCCalculation` | `RnmcScanProofs` |
| `ResultWriter` | section 13 | `EstimateSheet` | `MCCalculation` | `CalculationProofs` |

The modules meet where the code meets.  The rows a scan writes are the rows
`ImportHistory` places and `Corrections` amends; a run that `EstimateSession`
starts is one run of `RiskApproval`, reads its colours as in `RuleTables` and its
TKP catalog as in `TkpImport`, matches as in `EstimateMatching` and writes as in
`ResultWriter`.  What passes between them is a value (a set of rows, a range, a
choice, a file), which the receiving module takes from a set of all that it may
be; the interleavings inside a part are all in its own module.

## 4. Corrections

`Corrections` models `core/storage/corrections.py`, `init_database`, and the
handlers of `app/web/app.py` that use them.  One thread per worker plus the event
loop; `pc` says where a handler is.

* Every handler begins with `init_database` (`Begin`): seeds one after another
  (`SeedSkip`, `SeedFind`, `SeedWrite`, `SeedConflict`), then the approved
  requests, read once (`SyncList`) and reapplied in id order (`SyncSkip`,
  `SyncPlan`, `SyncWrite`), then a commit (`SyncDone`).
* A reviewer's handler reads the status (`ReviewCheck`) and then decides in one
  transaction (`ApproveTxn`, `ApproveRollback`, `RejectTxn`).
* The event loop files one correction (`SubmitOne`) or many (`SubmitBulk`,
  `BulkSkip`, `BulkPick`, `BulkAbort`), each through `CreateCheck`,
  `CreateRefused` and `CreateTxn`; it imports (`ImportWrite` .. `ImportCommit`)
  and clears (`Clear`).
* A worker edits the metadata of an import (`EditMetadata`): in one transaction,
  region, dates, coefficient and the prices that depend on it are rewritten in
  the rows of the import's source, file and region folder.  A row here does not
  have its folder, so these may be any rows of one source.  The next request
  reapplies the approved corrections over them.
* `LockTimeout` is the handler that does not get the write lock.

Data is abstracted to what the properties tell apart: a row is a source, an
identity (filename and row number together) and one value standing for the other
columns; a change names the columns it touches.  `applied` records that a
correction was carried out, `decisions` keeps the two kinds of review events.
`fresh` is a history variable.  An import may replace any part of the old rows in
its scope by any new rows of its source, which covers the main catalog and one
file of a ZIP; imports from the command line run in the same way as those of the
event loop.

### Runs

| run | instance | shows | result |
|---|---|---|---|
| `corrections_handlers` | 2 workers and the loop, 1 row, 1 request, 1 seed | types, status against log, seeds once, every handler ends | holds, 19 990 states |
| `corrections_rows` | 1 worker and the loop, 2 identities, 2 values, 2 row ids, 1 request, 1 seed, edits of identity and value | `ApprovedOverlay` is implemented; no handler goes round in circles | holds, 1 036 274 states |
| `corrections_overlay` | 1 worker and the loop, 1 identity, 2 values, 2 row ids, 2 requests | rivals decided in order, an undisturbed synchronisation shows the overlay | holds, 699 626 states |
| `corrections_race` | 2 workers | "Rejection never changes the catalog" | violated |
| `corrections_sources` | 2 sources | the row is found by source, filename and row number | violated |

Why these bounds: the races are between two threads over one request, or between
one thread's list and one import; the order of reapplication needs two requests
of one row; a lost id needs one row rebuilt under a second id; a wrong target
needs two rows or two sources.  Two reviewers and two values are in separate runs
because no property needs both; the rows have two values where edits must show.

The two violations are real.  Approval and rejection test the status before
their transaction, so both of two simultaneous decisions are carried out.  And
the lookup of a vanished row does not compare sources when a single row has the
file name and row number.

`FreshSyncShowsOverlay` is stated for edits of other columns than the identity.
With identity edits it does not hold: two approved renames, of i1 to i2 and of
i2 to i1, move a row to and fro at each synchronisation.

### Fairness

`HandlersEnd` assumes strong fairness of each thread (`FairSpec`): the server
finishes the requests it has started, and nothing obliges a user to send one.
Strong, because a thread is enabled only while nobody else holds the lock, and
other requests may take it again and again.  The busy timeout bounds the wait of
a writer (`LockTimeout` counts as progress, since the handler ends), and SQLite
lets a reader in between two writers.

What fairness has to add is little.  `HandlersAdvance` says, without any, that
every step is one handler's and leaves it less to do: fewer files of its import,
or a later stage (`Stage`), or fewer seeds, requests or rows in this one (`Left`),
or a later step for the same one (`StepsEach`).  `LockHeldAtWork`, a
theorem of `CorrectionsProofs`, says that whoever holds the lock is in one of the
loops that lead to its release.  That a handler has a next step and takes it is
left to the run and to `FairSpec`.

### Proofs

From the named assumptions on the constants (the threads are distinct, `Keep` and
`NoRow` are not data, the seeds and edits are well formed, bounds are naturals)
and nothing on their size, `CorrectionsProofs` has:

* Types: `TypeCorrect`, `Spec => []TypeOK`.  `TypeOK` alone is not
  inductive: `SyncWrite` indexes `requests` and `items` with ids read earlier.
  `TypeInv` adds `HandlesExist` (those ids exist; neither table shrinks) and
  `FilingExists` (so do the rows of the correction being filed).
* Safety: `StatusFollowsLog`; `SeedsStoredOnce`; and
  `RivalsDecidedFirst` through `OrderInv`, which adds that a correction between
  its check and its INSERT has no pending rival.
* Refinement: `Implementation`, each step of `Corrections` is a step
  of `ApprovedOverlay` or leaves it unchanged.  What may change a row there is an
  approved correction, as far as it says; an import or a metadata edit of its
  source, which docs/RNMC_IMPORT.md:173 has on purpose; and clearing.  `ReapplyInv` is what the mapping
  needs: a request in a handler's list was approved at some time, so its late
  reapplication is allowed, and what the handler holds is part of its change.

* Overlay: `OverlayIsShown`, `Spec => []FreshSyncShowsOverlay`, for one source
  (`OneSource`) and edits of the value columns (`ValuesOnly`); the two
  hypotheses are what the property is stated for, and `corrections_overlay` is
  such an instance.  It is an argument about a loop, so `OverlayInv` says what
  holds in the middle of it, for a handler nobody has disturbed (`Syncing`): the
  requests on its list are approved and still remember the row it read
  (`ListHolds`); what it is about to write is the difference on the row the
  request is carried out on (`PlanHolds`); and every other approved request
  precedes the list and shows, or is covered by a later one (`DoneShows`).
  `DeletedGone` is the conjunct one does not expect: an approved deletion
  remembers a row that is gone.  Were that row still there, deleting it could
  leave a second row of the same identity, which the request would then be found
  to delete, although the handler is past it.

* Termination: `HandlersGetOn`, `Spec => HandlersAdvance`, one lemma per action
  (`SeedSkipOwn` .. `RebuildOwn`).  `WorkInv` adds to `TypeInv` that the row being
  filed is one of those still to do (`RowInHand`): otherwise dealing with it would
  not shorten the batch.  The order of `Advances` is lexicographic, and
  `WorkIsFinite` shows that what is left of a stage is a finite set (the approved
  requests a handler lists among them), so it cannot shrink for ever.  The files
  of an import are the elements of `Idents`, finite as any archive's are.
* The lock: `LockIsGivenBack`, `Spec => []LockHeldAtWork`.  `SeedConflict` ends a
  handler without a commit, which would leave its lock behind; `SeedStillMissing`
  shows that it never has one there: a holder looked for the seed while nobody
  else could write.

Only model-checked: `HandlersEnd` (liveness) and the two violations.

## 5. Import history

`ImportHistory` models `imported_files` and the places of catalog rows.  The
hazard is that a workbook has two identities: the skip rule asks for its
normalised name (`KeyOf`), the table keeps one record per region folder and
spelled name (`Place`), and catalog rows sit at a source, a region and a name
(`Spot`).

Six operations walk over a list of places in one transaction.  Each is a job of
one thread: it starts (`Upload`, `SyncStart`, `MainStart`), looks at the next
place (`Look`, one operator per operation: `LookImport`, `LookLog`,
`LookLegacy`, `LookSync`, `LookMain`), writes its record (`WriteRecord`) or
imports the workbook (`LoadWorkbook`), and commits or gives up (`Commit`,
`GiveUp`).  The first write takes the lock.  `tx` is what the holder sees; `db`
is what everybody else reads.

| code | model |
|---|---|
| `import_rnmc_zip_catalog_rows` | mode `import`: known names read before the archive is walked |
| `_import_workbook_bytes` | `Outcomes`: rows, no rows at all, no data, or an exception before or after the rows were inserted, in the folder's region or one the workbook names |
| `commit_rnmc_zip_import_log` | mode `log` |
| `import_legacy_file_log` | mode `legacy` |
| `_sync_bundled_file_log` | mode `sync`, started by any page view once there are rows |
| `import_catalog_from_excel` | mode `main`: deletes the rows and records of its source, then stores and records again |
| `allow_import_retry` | `AllowRetry` |
| `update_imported_file_metadata` | `EditRead`, then `EditWrite` or `EditGiveUp` |
| `clear_catalog_for_rebuild` | `Clear` |

Uploads come as lists of places, in any order and with names in two spellings or
two folders.  A job that needs `catalog_sources` to have its source first inserts
it, the first time, and so has the lock before it reads the known names; the
model always lets it read without the lock, which is what every later time does.
Left out: `import_row_log`, which is deleted and written with its record, and
corrections that rename a row.

| run | instance | shows | result |
|---|---|---|---|
| `imports_history` | 1 worker and the loop, 2 regions, 2 spellings of one name and the main workbook, 2 archives, 3 main catalogs, 3 records | types, an archive's rows are new to the catalog when they enter it, final records stay final, `WorkbookShelf` is implemented | holds, 4 980 818 states |
| `imports_retry` | an archive with one name in two folders | "the same filename can be processed when the ZIP is uploaded again" | violated |

Why these bounds: a conflict needs two places of one key (two folders, two
spellings) and one writer beside the loop; every list has at most two places,
since a third place repeats the relation of the second to the first; three
records are the two spellings and the main workbook.  Ids are handed out once
(AUTOINCREMENT), so `MaxRecords` bounds how often a record can be deleted and
made again.  The three main catalogs, one that lists the archive's file, one that
is itself called by its name and one without it, let a main catalog take over
the record of an archive, the next one delete it, and the archive come again
within three ids: with a skip rule that asks only the records (`FinalRecords`)
TLC finds the second loading, also when no import has failed half done.

`LoadedOnlyIfNew` is an action property: rows of an archive that appear in the
catalog are moved there by an edit, or are the only rows of their workbook,
whatever brought the others.  The catalog begins without any, so no two workbooks
of one identity that archives brought are ever there together.  It says nothing of rows of the main catalog that come later: the main
catalog does not ask for the history, so it stores a second time what it lists
and an archive had brought (section 14).

`WorkbookShelf` is the abstract promise about the rows: archives only add
workbooks, in one step per upload, under identities that are free; an
administrator may move one to another folder or empty the shelf.  It says what
`LoadedOnlyIfNew` does not: an import takes nothing away, replaces and moves
nothing, and an upload that is rolled back leaves no trace.  In the instance the archives bring one identity under two
spellings, so the shelf holds at most one workbook there; that larger shelves
behave alike is what the theorem adds.

`FinalKept` names the four ways in which a final record may cease to be final.
The last is a record that appeared after the running import had read the
history: the import may then record `failed` or `pending` over it.

The violation: `duplicate_name` is final, cannot be retried and blocks its name
in every folder, so the retry of the other record has no effect.

`ImportHistoryProofs`, for any files, keys, archives, books and threads:

* `TypeCorrect`.  `TypeInv` adds `JobsHold`: a job with a plan has a place left.
* `OnlyNewLoaded`.  `LoadedOnlyIfNew` is about a commit, and the writes it
  publishes were made before.  `OnceInv` says of the loop's import that it knew,
  or has met, the name of every row it sees, of whatever source, and is about to
  load no workbook of one of them.  No other thread adds names to the rows while
  it runs: uploads and main catalogs share the event loop and workers only move
  rows between regions.  `FreshInv` adds that what the writer has so far put into
  `tx` from archives has no other rows of its name beside it.
* `FinalStays`.  `FinalKept` compares `db` before and after a commit, and one
  commit publishes many writes.  `KeptInv` carries the comparison of `tx` with
  `db` through the transaction.

* `CatalogIsAShelf`, the refinement of `WorkbookShelf`.  The shelf is what `db`
  holds of archives (`ZipShelf(db.rows)`).  `ShelfInv` adds to `OnceInv` that a
  transaction that writes takes no workbook from the catalog: it holds because
  the loop's import loads a workbook only if no row of its name is in sight
  (`View`), so that the rows `replace_catalog_rows_for_file` deletes first are
  never there.  A commit is then `Receive`, with the distinctness from
  `OnceInv`; an edit is `Move`, or a stutter if the rows it means are not of
  an archive or have gone; clearing is `Empty`; every other step is a stutter.

Only model-checked: `RetryIsEffective`, which is violated.

## 6. Price risks

`RiskApproval` models one exception key; keys share no state.  A run reads the
approved range (`RunStart`), matches (`RunMatch`) and logs one risk per flagged
row, each with a SELECT (`RunLook`) and an INSERT or UPDATE (`RunUpsert`) that
commits.  An approval reads the open risk (`ApproveRead`), tests it again
(`ApproveCheck`), reads the range (`ApproveLoad`), saves the widened one
(`ApproveSave`) and marks the risk (`ApproveMark`).  Both are handlers of worker
threads.  `HandlerEnds` is their end at any point: done, an exception, a lock
timeout or a crash.  `NewDay` is midnight.

A catalog entry is its price and its date of addition, which is a column of the
imported workbook and so not tied to the day of import (0: none).  Between two
runs imports may change the catalog in any way, so a run matches any set of
entries.  Of these only the lowest and the highest flagged ones are logged, and
they are flagged by themselves too, so `Extremes` takes all pairs, and
`Snapshots` is what a row can be flagged with by `CheckPriceRisk` and
`_risk_min_max`.  Prices are whole numbers: the properties compare prices only.
`logged` is a history variable.

| run | instance | shows | result |
|---|---|---|---|
| `risk_approval` | 2 threads, prices 1, 2, 4, limit 2, 2 days, 2 flagged rows, coefficient 1 | types, approved risks have a range, ranges only widen, reopened for outliers only | holds, 258 340 states |
| `risk_scale` | 1 thread, coefficient 2 | "only re-flags genuinely new outliers" | violated |
| `risk_covered` | 2 threads | the range covers what was approved | violated |

Why these bounds: each race is between two handlers of one key; three prices
make ranges that nest, overlap and lie apart; two days tell an entry added before
an approval from one added after it; a second row of the key overwrites the
first.

What the properties exempt, and why: `RangeOnlyWidens` allows a narrower range
when another approval saved after this one had read, since nothing in the code
prevents that lost update.  `ReopenedForOutliers` speaks of runs that know the
present range: a run that began before an approval reopens the risk by what it
knew.  And it holds for a coefficient of 1 only; `risk_scale` shows the rest.

`RiskApprovalProofs`, for any threads, prices, limit and bounds: `TypeCorrect`
(`Holding`: who is about to write has something to write), `ApprovalSaved`
(`SavedInv`: an approval that marks has saved), `RangeWidens` (`TracedInv`: what
an approval has read, and what the range holds, was logged) and
`OnlyOutliersReopen` under `Coefs = {1}` (`OutlierInv`: what a run with a range
has left to log lies outside that range).

Only model-checked: the two violations.

## 7. The run `calculation`

`MCCalculation` instantiates the six modules below together.  They share no
variable, so the product of their behaviours would show nothing that each alone
does not: `part` chooses one of them and the others rest in an initial state.
The run is one model with six families of behaviours, 386 038 states in all.
Deadlock is not checked, because uploads, edits and rounds are bounded and a scan
or a matching ends.

| part | instance | why it is enough | states |
|---|---|---|---|
| `tkp` | 2 imports, 1 calculation, 3 workbooks, two of them of one name, 3 revisions (one with nothing in it, also too large), 2 runs of the macro, 2 uploads | a conflict is between two files of one name, of one upload or of two, or between one import and one reading | 105 806 |
| `rules` | 2 administrators, 1 calculation, import-rules once, 3 exclusions, one of them refused, 2 tasks, 2 reasons | each race is between two requests over one row | 55 475 |
| `session` | 1 upload, 2 confirmations, every field of the form, every failure | uploads have separate records and directories; a third run meets the file as the second did | 58 864 |
| `matching` | 3 catalog rows in any order out of prices 4 % apart, two kinds of work, 0, 2 or 3 layers, rows to be skipped | a chain of three shows what transitivity would hide | 40 646 |
| `scan` | 2 sheets, 4 rows below a heading of eight columns | three blank rows end a table, the fourth is the one that may be lost | 91 296 |
| `writer` | 17 columns, 3 rows, 2 calculations; every order of price, code and one more column, and some of seven and eight columns; books of two sheets | each of the three insertions with each column on either side of it | 33 951 |

## 8. TKP import

`TkpImport` has both uploads as coroutines: `ReceiveFolder` and `ReceiveCatalog`
run to where the handler waits, `BeginStore`, `UpsertFile` once per file and
`CommitStore` or `Abort` are its one transaction.  `tx` is what it sees, `db` what
is committed.  `UpsertFile` skips a file whose row is current (`Current`),
otherwise deletes every source of the name with its items (`Replaced`,
`Without`) and inserts anew (`Stored`).  A revision is a number standing for the
bytes; dates, fingerprints and run numbers are what the code makes of it.  A
database may start with a row of an older schema.  A calculation counts the items
(`CountItems`) and lists that many (`ListItems`), two statements between which
imports commit.

`TkpRegister` is the abstract promise: a register per file name; an upload
changes it in one step, at its commit, or never.  It says nothing of dates,
because the code orders revisions by commit only: an older revision uploaded
later replaces a newer one.

Proved in `TkpImportProofs` for any paths, names, revisions, macro runs, imports
and calculations: `TablesKeepTheirShape`, `OneRevisionStored`, `ItemsNeverMixed`,
`IndexNeverMixed`, `FoldersStoredWhole` and the refinement `ImportIsARegister`.
The inductive `ImportInv` holds `Sound` of `db` and of `tx`.  `Sound` adds to the
properties that ids are below the last one and finitely many, so that new items
come after old ones, and `TrueOf`: what a stored date, fingerprint or run number
says of the content is true, so a file that is skipped is there already.
`HalfStored` says of an open transaction that the names of the files it is done
with hold one of its revisions and all others are as committed; at its commit
this is a step of the register.

## 9. Rules

`RuleTables` has the three tables, and an edit as the statements it consists of:
`Ask`, `Find`, then `ReadSort` and `InsertNew`, or `UpdateFound`.  The import takes
rules over as they stand in the workbook; on one whose scope or mode it does not
know (`Refused`) the search of a later edit breaks off, also on the way to another
rule (`Raises`).
`SwitchReason` is one statement.  import-rules
replaces exclusions and colours in two commits and may stop in between
(`ReplaceNext`, `StopImportRules`).  A calculation reads colours and reasons one
after the other (`ReadTable`).

Proved in `RuleTablesProofs`: `RulesKeepTheirShape`, `OneRowOfAReason`,
`StaleEditsAreHarmless`, `OfferedReasonsAreRead`.  `RuleInv` adds `Tidy` (ids are unique and below the last
one given, sort numbers too) and `StillTrue`: what an edit remembers of an id
holds of whatever row has the id now, since ids are not given twice.
`OfferInv` follows a reason from the page that offered it: a colour that is asked
for, stored or read names a reason that has a row (or is entered by the
workbook), and a calculation that has read both tables has read that row.  No
statement takes a row of the reasons away, so what was there when the colours
were read is there when the reasons are.  A colour has a style of its own,
`Legacy`, beside the reasons: a reason may have any key.

`RulesTypeOK` includes the one key of the schema: a reason has one row
(`OneRowOfAReason`).  The other two tables have no UNIQUE key.  Two administrators who add one rule at
once leave two rows, and switching it off reaches the first of them only.  The
model has those states; there is no promise to state about them.

## 10. Sessions

`EstimateSession` has a record and an output file per upload and a job per
confirmation.  `Confirm` takes the form, `Assign` stores it field by field,
`Take` reads the record back field by field, as the attribute accesses of
`confirm` and `_process` do on their threads.  The calculation succeeds or fails
(`FailRun`).  Writing is `OpenOutput`, which truncates the file, `FinishSave`, the
rewriting of the saved package and `Replace` by a temporary file; each may fail
(`FailWrite`).  The rewriting opens the file twice: `ReadBack` takes the sheet that
was calculated, with what its relationships name (`ooxml_preservation.py:54`), and
`CopyRest` every other part (`:363`).  One opening sees one saved package: each
part is checked against the directory read at the opening, and a file truncated
meanwhile is an error, which is `FailWrite`.  A file that another run opens anew while it is saved is torn, and
a saving whose file was replaced goes on in a file without a name.  `alone` and
`spoiled` are history variables: no other confirmation of the upload overlapped;
a writing broke off since the file was last opened by a run on its own.

The two properties say what remains true of a design in which runs share a
record and a file: an undisturbed run writes its own form, and a download while
nobody writes, after no broken writing, is complete, its sheet and its other parts
each of a run that was shown.  `QuietDownloadIsShown` does not say of the same run:
when one saves between the two openings of another, the other's sheet is published
with the styles and tables of the first, and the model has such downloads.
Overlapping runs may also mix their choices, and a run may show a page for a result that another
one has overwritten; the model has those behaviours.

Proved in `EstimateSessionProofs` for any uploads and confirmations:
`SessionKeepsItsShape`, `QuietDownloads`, `LoneRuns`.  The first needs that a
field holds a value of a form from the time it is assigned and never loses it
(`JobTyped`, `Grown`).  It is inductive only together with `FileInv`: a file that
is torn or not yet rewritten has a writer that is still running, what is copied
out of it is a result, and both parts of an unspoiled file, and of every copy of
it, were shown or belong to a run still writing.  `LoneInv` follows a run that is alone through its fields
and the file.

## 11. Matching

`EstimateMatching` reads catalog rows in any order (`AddRow`), deduplicates every
group entry by entry (`Compare`), and matches a row (`MatchRow`).  A name enters
as what is read off it: excluded, demolition, its layer count (0: none).  The
boundary of 4 % is exact in whole numbers; the program's floating point may round
there.

`NoAnalogLost` states which analogs are never lost, and leaves out the ones that
are: an entry that states no layer count may be absorbed by one that states
another count than the row's.  Analogs are given by their places in the kept
lists; `Averaged` puts them in some order, as the sum does not depend on it.

Proved in `CalculationProofs` for any catalog, estimate, prices and tasks:
`GroupsAreTyped`, `KeptStayApart`, `AnalogsAreFound` and `ReasonIsTrue`.  The
inductive `MatchInv` says of every group what deduplication still owes it
(`GroupInv`): each entry read was absorbed by a kept one or is still to be looked
at, and nothing is kept that was not read.  `OutcomeInv` says of what is shown
that the code's own reason and analogs are in it.  When the last entry has been
looked at, every entry read is `Near` a kept one: of one kind, within 4 %, and
with counts of layers that agree or of which one is not stated.  That gives both
properties.
The arithmetic of 4 % enters through `Near` only.  The average itself
(`Recommended`) is a fold over the analogs and has no property.

## 12. Row scan

`RnmcScan` reads the sheets for metadata (`ReadSheet`), finds the table
(`OpenTable`, `PassSheet`), and then feeds every row to both loops of the program:
the preview's, with a limit and without a date column, and the import's.
`Columns` is the whole detection of columns, with its preferences: a key of
`header_map` is a place in the heading (column and line of its cell), and the
code's walk through the map is the earliest place that fits.  The import writes
what was not excluded.

Proved in `RnmcScanProofs` for any headings, tables, limits and readings of cells:
`ScanIsWellTyped`, `ApprovedIsWritten`, `GoodRowsAreKept`.  Both scans go row by
row, so the argument is an invariant of that step and needs no induction over the
sheet.  `ScanInv` has the two scans equal as long as the preview is not cut short
and no numbering row has told the widths apart (`Alike`): every column the
decision looks at lies within the narrower width.  `GapInv` says which rows the
count of blank rows stands for: one, two or three blank rows with nothing but
numbering rows between them, so a table that has ended shows the three.

## 13. Layout and writer

`EstimateSheet` has pages of columns of cells, a cell being what it is taken for:
text of some headings, a number, a code, or a formula with one of its references:
to a column of its own sheet, or (`"outside"`) to a cell of another sheet or to
nothing, as the `LOG10` of a function call, which looks the same to the code.
`Reading` finds header, columns and rows, by the headings or by the template;
`Chosen` the sheets that may be calculated.

`ResultWriter` plans and inserts the columns as the code does, from the right in
one numbering (`PlaceAverage`, `PlaceKrAndSection`), writes the block of analogs
(`WriteBlock`) and may get its own file back, with or without the values of its
formulas (`CalculateAgain`).  The sheet is bounded by `Width`: an insertion is
made where it pushes nothing over the edge (`Room`), and a block is written where
it fits.  `Repointed` is applied, as in the code, to every reference of every
formula of the sheet, so a reference to another sheet is moved as well.
`FormulasFollow` says what comes of that, on every layout: a reference to the own
sheet follows its column; one to another sheet keeps its column if that is left of
the insertions (`LeftOfInserts`); and those columns stay where they are, which is
what holds for references that are never rewritten.  `Tame` are the layouts the rules are made for: the header above the
rows, the code right of the price and of the average, and the section either
right of the code and labelled so or not at all, or left of a /KR column that is
there, or left of a free column that takes it.  Each round is judged by its own
reading (`last`), so a written file is one only because it was written so.

The run `writer_average` shows what happens on others.  When the code column is
left of the price, a column inserted for the /KR code moves the price, but the
average's column stays where it was planned: the formula is written over the
prices (`excel_writer.py:410`), where the docs say right of them.  Section 14 has
two more.

### Proofs

From the assumptions on the sheet, the analogs and the estimates, and for any
width, height, template, marks on the headings, analogs and number of rounds,
`CalculationProofs` has `WriterIsWellTyped`, `OutputsApart`,
`AverageIsOfThisRun`, `FormulasAreFollowed`, `AnalogsAreGrouped` and
`SecondRunFindsItsColumns`.

`WriterInv` follows the page from step to step:

* `PlacesInv`: what was read and planned so far fits together.  It rests on
  lemmas about the reading (`ReadingIs`): every column a field has is labelled
  for it (`Labelled`, kept by every `Claim`), and what the template adds is on
  the sheet.
* `CopyInv`: until it is written, the page is the source but for inserted columns
  and headings in blank cells (`CopyOf`), and a formula refers to the column it
  referred to (`FollowedBut`).  Apart from it, `StaysInv` has the columns and the
  references left of the insertions where they were (`StaysPut`), which rests on
  no column being the copy of another's (`Distinct`).  `Grown` bundles both with the room that is left;
  an insertion and a heading each keep it (`GrownInserted`, `GrownHeaded`), so the
  order in which columns are planned and inserted needs no argument of its own.
  This part holds on every layout, `Tame` or not.
* `TameInv`: on a tame layout, insertions stay right of the price, and the columns
  that outputs may take are new, labelled for it or not labelled (`AverageFree`,
  `KrFree`, `SectionFree`).  Neither the properties nor `CopyInv` is inductive
  without it: between two steps the section is known in one numbering and written
  in another (`SectionMoves`).

`AnalogsAreGrouped` is about an order: `Precedes` is total and strict on the tasks
that appear (`PrecedesIsTotal`, `PrecedesIsStrict`), so the set in front of a
column grows strictly and by one from a position to the next.

`SecondRunFindsItsColumns`, `WriterSpec => []SecondRunInsertsNothing`, is about
two rounds: what the first leaves for a reader to recognise, and what the second
makes of it.  `RepeatInv` has a conjunct for each:

* `LeftInv`: after the insertions of a tame round the /KR column is the one
  `_find_kr_column` would find and the section column is labelled so or not at all
  (`Recognised`); after the block is written, every calculated row has an average
  formula besides, if the run had an analog (`Aftermath`).  For the first, lemmas
  say what a row reads left of an inserted column, in it, and beside a cell that is
  headed (`InsertedLeft`, `InsertedAt`, `HeadedBeside`, `HeadedThere`); for the
  second, that writing the rows and clearing the block leave the header alone.
* `AgainInv`: when a file is opened again, `Aftermath` still holds of it
  (`ReopenedIs`: saving and reopening renumber the columns and may drop the values
  of formulas, which no heading depends on), so that a table found where it was is
  tame (`FoundIsTame`); and from then on the second round takes the places of the
  first, one step after the other (`SamePlaces`).
* `HeaderInv`: a table is calculated only below a header.

That the table is found where it was is a hypothesis of the property, `FoundAgain`:
header, rows, price and code as they were, and the section too, or left of the
/KR column as it was before.  It is not one of convenience: the writer can lose
its own section column (section 14).  The run has both cases.

Only model-checked: the violation.

## 14. What the properties do not say

Behaviour seen while modelling that no property covers; about most of it the
program's documents promise nothing:

* The name exclusions edited on the admin pages are not read by a calculation,
  which takes those of the macro workbook (`app.py:1931`, `write_result.py:252`);
  and the first task colour added there switches all of the workbook's off.
* An estimate uploaded under the name of the uploaded catalog file replaces it in
  the upload's directory (`app.py:1731`): `catalog` in a record says which of the
  two a run then reads.
* `/confirm` takes any number as a coefficient, zero, negative, nan and inf too.
* A run without any analog writes a plain reference as average; the next run
  does not know it as its own and inserts a second average column.
  `SecondRunInsertsNothing` speaks of runs that had an analog.
* A section column without a heading, taken because the template has it there,
  moves with an inserted average column and still gets no heading
  (`excel_writer.py:383-410` writes one only over a column it has chosen itself).
  The next run takes the template's column again, whatever is in it by then: it
  writes the section codes over that, and the layout need not be tame any more.
  `FoundAgain` leaves these files out.
* When the section is left of the code and the column right of the code is taken,
  the place of the section is tested in the numbering from before the insertion
  for /KR (`excel_writer.py:404`).  The insertion moves the taken column there,
  and the section codes of every calculated row are written over it, though the
  docstring has them "into their own column".  `Tame` leaves this layout out.
* The block of analogs begins right of the section whether the columns there are
  free or not (`excel_writer.py:417`), and clears what they hold in the table's
  rows; docs/OPEN_ITEMS.md:87 calls it "the first free column".
  `OutputsStandApart` speaks of the columns left of the block.
* `_shift_formula_columns` moves every reference of the form A1 in a formula of
  the sheet (`excel_writer.py:263-290`), those to other sheets too, though these
  were not changed, and the name of a function such as `LOG10` if its letters are
  a column at or right of the insertion; the comment above it has other sheets out
  of scope "since those don't move".  References to whole columns, array formulas
  and formulas of other sheets that refer to this one are not rewritten at all.
  Right of an inserted column all of these end at another column than before;
  `FormulasFollow` speaks of them left of it only.
* The main catalog is stored without a look at the history (`catalog.py:1475`): a
  workbook it lists after an archive brought it has its rows in the catalog from
  both sources.  The docs state the rule of the normalised name for archives
  (RNMC_IMPORT.md:23-34); `LoadedOnlyIfNew` covers the other order only.
* A newer TKP revision that cannot be read replaces a good one with nothing.
* Region and coefficient of an RNMC workbook may come from different sheets; the
  first sheet with a header decides what is scanned (`rnmc_excel.py:532`).
* The exception key has the full unit, matching the base unit: one analog may
  fall under two approved ranges.

## 15. What is proved and what is not

Every named assumption on the constants is evaluated by TLC in the runs.  The
theorems hold for every value of the constants that satisfies them, without any
bound on their size.  Out of the prover's reach and model-checked only:
`HandlersEnd` (liveness; what of it is safety, `HandlersAdvance` and
`LockHeldAtWork`, is proved).  Every other property of the passing runs is stated
by a theorem.  The six violations are counterexamples, each quoted against a line
of the repository in PROJECT.json.

## 16. Not modelled

* The staged RNMC import: after its form is parsed the commit runs without giving
  way on the event loop and removes its token at the end, so a second commit of
  one token finds none.  What it imports is in `ImportHistory` and `RnmcScan`.
* Parsing inside cells: names, units, dates, numbers, TKP positions and the choice
  of the winner in a TKP workbook.  The models take what they are read as.  So the
  overriding coefficient of an import is a positive number (nan and inf are parsed
  too), and a price column with the writer's own output in it has no price
  (`Working`), whatever number such a cell may hold.
* TKP matching and the shadow comparison: scores over texts in floating point.
* Colours, styles, the table's filter, and the parts of the package that are
  copied over when a result is saved.
* `core/ingest.py`: one function without a caller that stores its result.
* HTML rendering, templates, exports, the command line's parsing, the scripts, the
  VBA reference and the configuration keep no state of their own.
* Schema migrations run once, before any other operation.  Loss of power inside a
  SQLite transaction is SQLite's matter; a crash between two commits of a handler
  is modelled where a handler commits twice.
