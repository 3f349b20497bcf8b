------------------------------ MODULE RuleTables ------------------------------
(****************************************************************************)
(* The rules an administrator keeps (core/storage/rules.py): name           *)
(* exclusions, task colours and the reasons a colour stands for, the pages  *)
(* that edit them (app/web/app.py), the import of the macro workbook and    *)
(* the reading of colours and reasons by a calculation.                     *)
(*                                                                          *)
(* Every page runs on a thread of its own with a connection of its own. An  *)
(* edit looks the row up, and then writes in a transaction of its own: what *)
(* others commit in between it does not see. Only the reasons have a UNIQUE *)
(* key. A rule is identified by its normalised key (scope, mode and pattern;*)
(* task number; reason key); its other columns are one value.               *)
(****************************************************************************)
EXTENDS Integers, Sequences, FiniteSets, FiniteSetsExt

CONSTANTS
  Patterns,     \* keys of name exclusions
  Refused,      \* those whose scope or mode is none the program knows
  Tasks,        \* keys of task colours
  Reasons,      \* keys of reasons
  Seeded,       \* the reasons every database starts with
  FreeText,     \* what the workbook holds instead of a reason key
  Plain,        \* the value of a row whose value is not looked at
  Workbook,     \* Name_Exclusions of the macro workbook
  Admins,       \* requests to the admin pages
  Painters,     \* calculations
  MaxEdits,     \* bound on the requests made
  MaxImports    \* bound on the runs of import-rules

RuleNames == {"exclusions", "colours", "reasons"}
KeysOf(t) == CASE t = "exclusions" -> Patterns
               [] t = "colours" -> Tasks
               [] t = "reasons" -> Reasons

ASSUME RuleAssumption ==
  /\ Refused \subseteq Patterns /\ Seeded \subseteq Reasons /\ IsFiniteSet(Seeded) /\ FreeText \notin Reasons
  /\ MaxEdits \in Nat /\ MaxImports \in Nat

VARIABLES
  rules,    \* the three tables
  edit,     \* what each admin request is doing
  edits,    \* requests made so far
  command,  \* import-rules: its next table
  imports,  \* its runs so far
  paint     \* colours and reasons as read by each calculation

ruleVars == <<rules, edit, edits, command, imports, paint>>

--------------------------------------------------------------------------------
(* The tables                                                                  *)

Values == Reasons \cup {FreeText, Plain}
RuleRow == [id : Nat, key : Patterns \cup Tasks \cup Reasons, value : Values,
            enabled : BOOLEAN, sort : Nat]
ASSUME WorkbookAssumption ==
  Workbook \in [{"exclusions", "colours"} ->
                  Seq([key : Patterns \cup Tasks, value : Values, enabled : BOOLEAN])]
RuleTable == [rows : SUBSET RuleRow, lastId : Nat]

\* ORDER BY sort_order, id
Before(r, q) == r.sort < q.sort \/ (r.sort = q.sort /\ r.id <= q.id)
First(S) == CHOOSE r \in S : \A q \in S : Before(r, q)
OfKey(S, k) == {r \in S : r.key = k}

NextSort(t) == IF rules[t].rows = {} THEN 0
               ELSE Max({r.sort : r \in rules[t].rows}) + 1

\* mistake: no UNIQUE key
InsertTwice(table, t, row) ==
  [rows |-> table.rows \cup {[row EXCEPT !.id = table.lastId + 1]},
   lastId |-> table.lastId + 1]

\* one INSERT; the key of a reason is UNIQUE
InsertRow(table, t, row) ==
  IF t = "reasons" /\ OfKey(table.rows, row.key) # {} THEN table
  ELSE [rows |-> table.rows \cup {[row EXCEPT !.id = table.lastId + 1]},
        lastId |-> table.lastId + 1]

\* mistake: ids are handed out anew (no AUTOINCREMENT)
ReplaceFromOne(table, found) ==
  [rows |-> {[id |-> i, key |-> found[i].key, value |-> found[i].value,
              enabled |-> found[i].enabled, sort |-> i - 1] : i \in DOMAIN found},
   lastId |-> Len(found)]

\* replace_name_exclusion_rules, replace_task_color_entries
ReplaceRows(table, found) ==
  [rows |-> {[id |-> table.lastId + i, key |-> found[i].key,
              value |-> found[i].value, enabled |-> found[i].enabled,
              sort |-> i - 1] : i \in DOMAIN found},
   lastId |-> table.lastId + Len(found)]

RulesInit ==
  /\ \E nth \in [Seeded -> 1..Cardinality(Seeded)] :
       /\ \A k, l \in Seeded : nth[k] = nth[l] => k = l
       /\ rules = [t \in RuleNames |->
            IF t # "reasons" THEN [rows |-> {}, lastId |-> 0]
            ELSE [rows |-> {[id |-> nth[k], key |-> k, value |-> Plain, enabled |-> TRUE,
                             sort |-> nth[k] - 1] : k \in Seeded},
                  lastId |-> Cardinality(Seeded)]]
  /\ edit = [a \in Admins |-> [phase |-> "none"]]
  /\ edits = 0
  /\ command = "done" /\ imports = 0
  /\ paint = [w \in Painters |->
       [step |-> 0, read |-> [t \in {"colours", "reasons"} |-> {}]]]

--------------------------------------------------------------------------------
(* The admin pages                                                             *)

\* a form of the page as it was rendered: only enabled reasons are offered
Ask(a) ==
  /\ edit[a].phase = "none" /\ edits < MaxEdits
  /\ \E t \in RuleNames : \E k \in KeysOf(t), wanted \in {"add", "on", "off"} :
       \E v \in IF t # "colours" THEN {Plain}
                ELSE {r.key : r \in {x \in rules["reasons"].rows : x.enabled}} :
         edit' = [edit EXCEPT ![a] =
                    [phase |-> "find", table |-> t, key |-> k, wanted |-> wanted,
                     value |-> v]]
  /\ edits' = edits + 1
  /\ UNCHANGED <<rules, command, imports, paint>>

\* ValueError from normalising the key of the form, or of a row the import left
\* that is gone through before the key's first row, or in search of it
Raises(t, k) ==
  /\ t = "exclusions"
  /\ \/ k \in Refused
     \/ \E r \in rules[t].rows :
          r.key \in Refused /\ \A q \in OfKey(rules[t].rows, k) : ~Before(q, r)

\* the SELECT of an upsert or of a toggle: the first row of the key
Find(a) ==
  /\ edit[a].phase = "find"
  /\ edit[a].table = "reasons" => edit[a].wanted = "add"
  /\ LET same == OfKey(rules[edit[a].table].rows, edit[a].key)
     IN  edit' = [edit EXCEPT ![a] =
           IF Raises(edit[a].table, edit[a].key) THEN [phase |-> "none"]
           ELSE IF same # {} THEN [phase |-> "update", id |-> First(same).id,
                                   of |-> edit[a]]
           ELSE IF edit[a].wanted = "add" THEN [phase |-> "sort", of |-> edit[a]]
           ELSE [phase |-> "none"]]
  /\ UNCHANGED <<rules, edits, command, imports, paint>>

\* COALESCE(MAX(sort_order), -1) + 1
ReadSort(a) ==
  /\ edit[a].phase = "sort"
  /\ edit' = [edit EXCEPT ![a] = [phase |-> "insert", of |-> edit[a].of,
                                  sort |-> NextSort(edit[a].of.table)]]
  /\ UNCHANGED <<rules, edits, command, imports, paint>>

Changed(row, form) ==
  IF form.wanted = "add" THEN [row EXCEPT !.value = form.value, !.enabled = TRUE]
  ELSE [row EXCEPT !.enabled = (form.wanted = "on")]

\* UPDATE ... WHERE id = ?: no row if a replacement has removed it
UpdateFound(a) ==
  /\ edit[a].phase = "update"
  /\ LET form == edit[a].of
     IN  rules' = [rules EXCEPT ![form.table].rows =
           {IF r.id = edit[a].id THEN Changed(r, form) ELSE r : r \in @}]
  /\ edit' = [edit EXCEPT ![a] = [phase |-> "none"]]
  /\ UNCHANGED <<edits, command, imports, paint>>

InsertNew(a) ==
  /\ edit[a].phase = "insert"
  /\ LET form == edit[a].of
     IN  rules' = [rules EXCEPT ![form.table] =
           InsertRow(@, form.table, [id |-> 0, key |-> form.key, value |-> form.value,
                                     enabled |-> TRUE, sort |-> edit[a].sort])]
  /\ edit' = [edit EXCEPT ![a] = [phase |-> "none"]]
  /\ UNCHANGED <<edits, command, imports, paint>>

\* set_task_highlight_reason_enabled: one UPDATE by key
SwitchReason(a) ==
  /\ edit[a].phase = "find"
  /\ edit[a].table = "reasons" /\ edit[a].wanted # "add"
  /\ rules' = [rules EXCEPT !["reasons"].rows =
       {IF r.key = edit[a].key THEN Changed(r, edit[a]) ELSE r : r \in @}]
  /\ edit' = [edit EXCEPT ![a] = [phase |-> "none"]]
  /\ UNCHANGED <<edits, command, imports, paint>>

--------------------------------------------------------------------------------
(* import_rules_from_workbook: one commit per table                            *)

StartImportRules ==
  /\ command = "done" /\ imports < MaxImports
  /\ command' = "exclusions" /\ imports' = imports + 1
  /\ UNCHANGED <<rules, edit, edits, paint>>

ReplaceNext ==
  /\ command \in {"exclusions", "colours"}
  /\ rules' = [rules EXCEPT ![command] = ReplaceRows(@, Workbook[command])]
  /\ command' = IF command = "exclusions" THEN "colours" ELSE "done"
  /\ UNCHANGED <<edit, edits, imports, paint>>

\* the process is stopped, or the database stays locked
StopImportRules ==
  /\ command # "done"
  /\ command' = "done"
  /\ UNCHANGED <<rules, edit, edits, imports, paint>>

--------------------------------------------------------------------------------
(* _process and _resolve_macro_settings                                        *)

BookRows(t) ==
  {r \in ReplaceRows([rows |-> {}, lastId |-> 0], Workbook[t]).rows : r.enabled}

\* mistake: the reasons are read first
ReasonsFirst == <<"reasons", "colours">>

\* list_task_color_entries, then list_task_highlight_reasons
ReadOrder == <<"colours", "reasons">>

ReadTable(w) ==
  /\ paint[w].step < Len(ReadOrder)
  /\ LET t == ReadOrder[paint[w].step + 1]
     IN  paint' = [paint EXCEPT ![w].step = @ + 1, ![w].read[t] = rules[t].rows]
  /\ UNCHANGED <<rules, edit, edits, command, imports>>

\* an empty list means the page was never used: the workbook's entries count
ColoursUsed(w) ==
  IF paint[w].read["colours"] = {} THEN BookRows("colours")
  ELSE paint[w].read["colours"]

Marks(w, task) == {r \in ColoursUsed(w) : r.enabled /\ r.key = task}

\* resolve_task_highlight: the reason a task is painted with, or none ({})
Highlight(w, task) ==
  LET known == {q \in paint[w].read["reasons"] :
                  q.enabled /\ q.key = First(Marks(w, task)).value}
  IN  IF Marks(w, task) = {} \/ known = {} THEN {} ELSE {First(known)}

\* is_task_marked, and no reason: the colour of legacy entries
Legacy(w, task) == Marks(w, task) # {} /\ Highlight(w, task) = {}

RulesNext ==
  \/ \E a \in Admins :
       \/ Ask(a) \/ Find(a) \/ ReadSort(a)
       \/ UpdateFound(a) \/ InsertNew(a) \/ SwitchReason(a)
  \/ StartImportRules \/ ReplaceNext \/ StopImportRules
  \/ \E w \in Painters : ReadTable(w)

RulesSpec == RulesInit /\ [][RulesNext]_ruleVars
--------------------------------------------------------------------------------
(* Properties                                                                  *)

\* every table, request and reading keeps its shape
RulesTyped ==
  /\ rules \in [RuleNames -> RuleTable]
  /\ \A a \in Admins :
       edit[a].phase \in {"none", "find", "sort", "update", "insert"}
  /\ edits \in 0..MaxEdits /\ imports \in 0..MaxImports
  /\ command \in {"exclusions", "colours", "done"}
  /\ paint \in [Painters -> [step : 0..2, read : [{"colours", "reasons"} -> SUBSET RuleRow]]]

\* the one key of the schema
ReasonsUnique ==
  \A r, q \in rules["reasons"].rows : r.key = q.key => r = q

(* Everything keeps its shape, and however many administrators add one reason  *)
(* at once, it has one row: the upsert's SELECT cannot see the other insert,   *)
(* the UNIQUE key stops it.  (The other two tables have no such key, see the   *)
(* README.)                                                                    *)
RulesTypeOK == RulesTyped /\ ReasonsUnique

(* An edit that found its row before import-rules replaced the table touches   *)
(* no other rule: ids are never reused (AUTOINCREMENT), so its UPDATE finds    *)
(* nothing rather than the row that now stands in that place.                  *)
StaleEditHitsNoOther ==
  [][\A a \in Admins : UpdateFound(a) =>
       \A r \in rules[edit[a].of.table].rows :
         r.key # edit[a].of.key => r \in rules'[edit[a].of.table].rows]_ruleVars

(* A calculation reads the colours before the reasons, and a reason is never   *)
(* deleted: a colour entered with a reason the page offered is painted with    *)
(* that reason or, once it is switched off, as a legacy one, and never because *)
(* the reason was registered too late to be read (_process).  Only what the    *)
(* workbook's colours are entered with is any text.                            *)
OfferedReasonIsRead ==
  \A w \in Painters, task \in Tasks :
    paint[w].step = Len(ReadOrder) /\ Legacy(w, task) =>
      LET mark == First(Marks(w, task))
      IN  \/ \E n \in DOMAIN Workbook["colours"] : mark.value = Workbook["colours"][n].value
          \/ \E q \in paint[w].read["reasons"] : q.key = mark.value /\ ~q.enabled
==============================================================================
