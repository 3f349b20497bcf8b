--------------------------- MODULE EstimateSession ---------------------------
(****************************************************************************)
(* The calculation of an uploaded estimate (app/web/app.py: /run, /confirm, *)
(* /download; app/services/write_result.py; the saving of the result in     *)
(* core/excel_writer.py and core/ooxml_preservation.py).                    *)
(*                                                                          *)
(* An upload gets a token with one record and one directory. Every          *)
(* confirmation of it runs on a thread of its own, stores the form in that  *)
(* record field by field, reads it back field by field, and writes the      *)
(* result to one file of the directory: in place at first, then rewritten   *)
(* through a temporary file that takes its name.  What is rewritten is read *)
(* by opening the file twice, for the sheet that was calculated and for     *)
(* everything else; each opening sees one saved package or fails.           *)
(*                                                                          *)
(* The calculation itself, the risk log and the rules it reads are in the   *)
(* modules of those components; here it succeeds or fails.                  *)
(****************************************************************************)
EXTENDS Naturals, Sequences

CONSTANTS
  Tokens,        \* uploads
  Workers,       \* confirmations being answered
  Coefficients,  \* what _parse_coefficient makes of the form's text
  Regions,       \* regions typed into the form
  Blank,         \* the region field left empty
  SheetRegion,   \* the region the estimate itself states
  NoUpload,      \* the token is not in the store
  Unset,         \* a field of the record before the first confirmation
  MaxConfirms    \* bound on the confirmations sent

ASSUME SessionAssumption ==
  /\ Blank \notin Regions /\ MaxConfirms \in Nat
  /\ Unset \notin Coefficients \cup Regions \cup {Blank, SheetRegion}

VARIABLES
  store,     \* AppState.store
  out,       \* the result file of each upload
  job,       \* the confirmation on each thread
  confirms,  \* confirmations sent so far
  shown,     \* results whose page was rendered, by upload
  spoiled    \* a writing broke off since the file was last opened by a run on its own

sessionVars == <<store, out, job, confirms, shown, spoiled>>

--------------------------------------------------------------------------------

Fields == <<"coefficient", "region", "tkp">>
FieldNames == {"coefficient", "region", "tkp"}

Forms == [coefficient : Coefficients, region : Regions \cup {Blank}, tkp : BOOLEAN]

\* mistake: a region that was not given is not looked up
EffectiveAsGiven(choice) == choice

\* target_region if not None else the region found on the sheet
Effective(choice) ==
  [choice EXCEPT !.region = IF @ = Blank THEN SheetRegion ELSE @]

ChoiceRecords == [FieldNames -> Coefficients \cup Regions \cup {Blank, Unset} \cup BOOLEAN]
Records == [choice : ChoiceRecords, finished : BOOLEAN,
            catalog : {"database", "upload", "estimate"}]
ASSUME RecordAssumption == NoUpload \notin Records

Empty == [f \in FieldNames |-> Unset]
Absent == [state |-> "absent", sheet |-> Empty, rest |-> Empty]
Torn   == [state |-> "torn", sheet |-> Empty, rest |-> Empty]

Results == [coefficient : Coefficients, region : Regions \cup {SheetRegion}, tkp : BOOLEAN]

\* a package: the calculated sheet and its other parts, by the run they are of
Files   == [state : {"plain", "whole"}, sheet : Results, rest : Results] \cup {Absent, Torn}
Package(state, result) == [state |-> state, sheet |-> result, rest |-> result]

Resting == [phase |-> "idle", token |-> Unset, form |-> Empty, used |-> Empty,
            at |-> 1, alone |-> FALSE, attached |-> FALSE, torn |-> FALSE,
            copy |-> Absent]

Busy(t)  == {w \in Workers : job[w].phase # "idle" /\ job[w].token = t}
Saving(t) == {w \in Busy(t) : job[w].phase = "saving" /\ job[w].attached}

\* runs that have touched the file and have not ended
Writing(t) == {w \in Busy(t) :
                 job[w].phase \in {"saving", "reading", "copying", "replacing", "done"}}

SessionInit ==
  /\ store = [t \in Tokens |-> NoUpload]
  /\ out = [t \in Tokens |-> Absent]
  /\ job = [w \in Workers |-> Resting]
  /\ confirms = 0
  /\ shown = [t \in Tokens |-> {}]
  /\ spoiled = [t \in Tokens |-> FALSE]

\* /run: the estimate is saved after the catalog, under its own name
Upload(t) ==
  /\ store[t] = NoUpload
  /\ \E uploaded, named \in BOOLEAN :
       store' = [store EXCEPT ![t] =
         [choice |-> Empty, finished |-> FALSE,
          catalog |-> IF ~uploaded THEN "database"
                      ELSE IF named THEN "estimate" ELSE "upload"]]
  /\ UNCHANGED <<out, job, confirms, shown, spoiled>>

\* /confirm of a known token with a number as coefficient
Confirm(w, t) ==
  /\ job[w].phase = "idle" /\ store[t] # NoUpload /\ confirms < MaxConfirms
  /\ \E form \in Forms :
       job' = [v \in Workers |->
         IF v = w THEN [Resting EXCEPT !.phase = "assign", !.token = t, !.form = form,
                                       !.alone = (Busy(t) = {})]
         ELSE IF v \in Busy(t) THEN [job[v] EXCEPT !.alone = FALSE] ELSE job[v]]
  /\ confirms' = confirms + 1
  /\ UNCHANGED <<store, out, shown, spoiled>>

\* mistake: a field left empty keeps what the record holds
AssignedIfGiven(old, given) == IF given = Blank /\ old # Unset THEN old ELSE given

\* record.target_region = region.strip() or None, and the other two
Assigned(old, given) == given

Assign(w) ==
  /\ job[w].phase = "assign"
  /\ LET f == Fields[job[w].at]
     IN  store' = [store EXCEPT ![job[w].token].choice[f] = Assigned(@, job[w].form[f])]
  /\ job' = [job EXCEPT ![w].phase = IF job[w].at < Len(Fields) THEN @ ELSE "take",
                        ![w].at = IF @ < Len(Fields) THEN @ + 1 ELSE 1]
  /\ UNCHANGED <<out, confirms, shown, spoiled>>

\* the arguments of run_and_write
Take(w) ==
  /\ job[w].phase = "take"
  /\ LET f == Fields[job[w].at]
     IN  job' = [job EXCEPT ![w].used[f] = store[job[w].token].choice[f],
                            ![w].phase = IF job[w].at < Len(Fields) THEN @ ELSE "run",
                            ![w].at = IF @ < Len(Fields) THEN @ + 1 ELSE 1]
  /\ UNCHANGED <<store, out, confirms, shown, spoiled>>

\* the sheet, the catalog or the database cannot be read: an error page
FailRun(w) ==
  /\ job[w].phase = "run"
  /\ job' = [job EXCEPT ![w] = Resting]
  /\ UNCHANGED <<store, out, confirms, shown, spoiled>>

--------------------------------------------------------------------------------
(* write_run_result                                                            *)

\* workbook.save opens and truncates the file; who is writing it is disturbed
OpenOutput(w) ==
  /\ job[w].phase = "run"
  /\ LET t == job[w].token
     IN  /\ out' = [out EXCEPT ![t] = Torn]
         /\ job' = [v \in Workers |->
              IF v = w THEN [job[w] EXCEPT !.phase = "saving", !.attached = TRUE,
                                           !.torn = (Saving(t) # {})]
              ELSE IF v \in Saving(t) THEN [job[v] EXCEPT !.torn = TRUE] ELSE job[v]]
         /\ spoiled' = [spoiled EXCEPT ![t] = @ /\ Writing(t) # {}]
  /\ UNCHANGED <<store, confirms, shown>>

\* nothing changes at the path once another file has taken its name
FinishSave(w) ==
  /\ job[w].phase = "saving"
  /\ out' = IF job[w].attached /\ ~job[w].torn
            THEN [out EXCEPT ![job[w].token] = Package("plain", Effective(job[w].used))]
            ELSE out
  /\ job' = [job EXCEPT ![w].phase = "reading"]
  /\ UNCHANGED <<store, confirms, shown, spoiled>>

\* mistake: a package that cannot be opened is left as it is
ReadBackOrSkip(w) ==
  /\ job[w].phase = "reading"
  /\ job' = [job EXCEPT ![w].phase = IF out[job[w].token] = Torn THEN "done" ELSE "copying",
                        ![w].copy = out[job[w].token]]
  /\ UNCHANGED <<store, out, confirms, shown, spoiled>>

\* preserve_workbook_package_features opens the file and takes the sheet
ReadBack(w) ==
  /\ job[w].phase = "reading" /\ out[job[w].token] # Torn
  /\ job' = [job EXCEPT ![w].phase = "copying", ![w].copy = out[job[w].token]]
  /\ UNCHANGED <<store, out, confirms, shown, spoiled>>

\* _rewrite_archive opens it again and takes the other parts
CopyRest(w) ==
  /\ job[w].phase = "copying" /\ out[job[w].token] # Torn
  /\ job' = [job EXCEPT ![w].phase = "replacing",
                        ![w].copy = [@ EXCEPT !.rest = out[job[w].token].rest]]
  /\ UNCHANGED <<store, out, confirms, shown, spoiled>>

\* temporary_path.replace(output_path)
Replace(w) ==
  /\ job[w].phase = "replacing"
  /\ LET t == job[w].token
     IN  /\ out' = [out EXCEPT ![t] = [job[w].copy EXCEPT !.state = "whole"]]
         /\ job' = [v \in Workers |->
              IF v = w THEN [job[w] EXCEPT !.phase = "done"]
              ELSE IF v \in Saving(t) THEN [job[v] EXCEPT !.attached = FALSE] ELSE job[v]]
  /\ UNCHANGED <<store, confirms, shown, spoiled>>

\* a full disk, a torn package: the exception leaves the file as it is
FailWrite(w) ==
  /\ job[w].phase \in {"saving", "reading", "copying", "replacing"}
  /\ spoiled' = [spoiled EXCEPT ![job[w].token] = TRUE]
  /\ job' = [job EXCEPT ![w] = Resting]
  /\ UNCHANGED <<store, out, confirms, shown>>

\* the record learns of the output, the page shows the run's own choice
Finish(w) ==
  /\ job[w].phase = "done"
  /\ store' = [store EXCEPT ![job[w].token].finished = TRUE]
  /\ shown' = [shown EXCEPT ![job[w].token] = @ \cup {Effective(job[w].used)}]
  /\ job' = [job EXCEPT ![w] = Resting]
  /\ UNCHANGED <<out, confirms, spoiled>>

SessionNext ==
  \/ \E t \in Tokens : Upload(t)
  \/ \E w \in Workers :
       \/ \E t \in Tokens : Confirm(w, t)
       \/ Assign(w) \/ Take(w) \/ FailRun(w) \/ OpenOutput(w) \/ FinishSave(w)
       \/ ReadBack(w) \/ CopyRest(w) \/ Replace(w) \/ FailWrite(w) \/ Finish(w)

SessionSpec == SessionInit /\ [][SessionNext]_sessionVars
--------------------------------------------------------------------------------
(* Properties                                                                  *)

(* Every record, file and confirmation keeps its shape; a result that is       *)
(* written or shown has a region and a coefficient.                            *)
SessionTypeOK ==
  /\ store \in [Tokens -> {NoUpload} \cup Records]
  /\ out \in [Tokens -> Files]
  /\ job \in [Workers ->
        [phase : {"idle", "assign", "take", "run", "saving", "reading", "copying",
                  "replacing", "done"},
         token : Tokens \cup {Unset}, form : Forms \cup {Empty}, used : ChoiceRecords,
         at : 1..Len(Fields), alone : BOOLEAN, attached : BOOLEAN, torn : BOOLEAN,
         copy : Files]]
  /\ confirms \in 0..MaxConfirms
  /\ shown \in [Tokens -> SUBSET Results]
  /\ spoiled \in [Tokens -> BOOLEAN]

(* A confirmation that no other one of its upload overlaps leaves a complete   *)
(* result computed from exactly its own form, whatever earlier confirmations   *)
(* left in the shared record or on the disk (/confirm, _process).              *)
LoneRunIsItsForm ==
  [][\A w \in Workers : Finish(w) /\ job[w].alone =>
       out[job[w].token] = Package("whole", Effective(job[w].form))]_sessionVars

(* Once a page with a result was shown, nobody is writing and none of the last *)
(* overlapping writings broke off, the download is a complete workbook, and    *)
(* both its sheet and its other parts are of runs whose page was shown: a      *)
(* saved file is either replaced as a whole or its run fails.  The two may be  *)
(* different runs: when one saves between the two openings of another, the     *)
(* other's sheet is published with the styles and tables of the first          *)
(* (preserve_workbook_package_features, _rewrite_archive, /download).          *)
QuietDownloadIsShown ==
  \A t \in Tokens :
    /\ store[t] # NoUpload /\ store[t].finished
    /\ Writing(t) = {} /\ ~spoiled[t]
    => out[t].state = "whole" /\ {out[t].sheet, out[t].rest} \subseteq shown[t]
==============================================================================
