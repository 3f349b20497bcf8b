----------------------------- MODULE ResultWriter -----------------------------
(****************************************************************************)
(* Writing a result into a copy of the estimate (core/excel_writer.py):     *)
(* where the average price, the /KR code, the section and the analogs go,   *)
(* which columns are inserted for them, and what is cleared and written.    *)
(* A written file may be uploaded and calculated again.                     *)
(*                                                                          *)
(* The values of the result do not matter here, only which analogs a row    *)
(* has: each is a pair of a task and a price position.  Colours, fonts, the *)
(* filter of the table and the package are left out.                        *)
(****************************************************************************)
EXTENDS EstimateSheet

CONSTANTS
  Workbooks,      \* the estimates there are
  AnalogTasks,    \* tasks of the analogs
  RegionRank,     \* rank of a task's region in the alphabet, 0 for the own region
  AnalogRows,     \* what a row may have: sequences of pairs <<task, position>>
  MaxRounds       \* bound on the calculations of one file

ASSUME WriterAssumption ==
  /\ IsFiniteSet(AnalogTasks) /\ RegionRank \in [AnalogTasks -> Nat]
  /\ AnalogRows \subseteq Seq(AnalogTasks \X (1..Width))
  /\ MaxRounds \in Nat \ {0}

IsFormula(cell) == cell.is \in {"formula", "outside", "average"}
Taken(p, r, c)  == At(p, r, c).is # "blank"

RefersWithin(p, n) ==
  \A c \in 1..Width, r \in 1..Height :
    IsFormula(p[c].cells[r]) => p[c].cells[r].ref \in 1..n

ASSUME EstimatesAssumption ==
  \A book \in Workbooks :
    /\ book \in Seq([named : BOOLEAN, page : Page]) /\ book # <<>>
    /\ \A s \in DOMAIN book : /\ \A c \in 1..Width : book[s].page[c].from = c
                              /\ RefersWithin(book[s].page, Width)

VARIABLES
  step,     \* what the writer has done
  round,    \* the calculation of the file this is
  source,   \* the worksheet as it was opened
  page,     \* the worksheet being written
  plan,     \* what was read and where the output goes
  inserts,  \* columns inserted in this round
  last      \* the plan of the round before, and of which kind this round is

writerVars == <<step, round, source, page, plan, inserts, last>>

--------------------------------------------------------------------------------
(* Inserting a column                                                          *)

\* within the bound Width the sheet has room for another n columns
Room(p, n) ==
  /\ RefersWithin(p, Width - n)
  /\ \A c \in 1..Width, r \in 1..Height : p[c].cells[r] # NoText => c + n <= Width

EmptyColumn == [from |-> 0, cells |-> [r \in 1..Height |-> NoText]]

\* mistake: a reference to the very column that moves is left alone
RepointedBeyond(cell, at) ==
  IF IsFormula(cell) /\ cell.ref > at THEN [cell EXCEPT !.ref = @ + 1] ELSE cell

\* _shift_formula_columns: whatever sheet the reference is to
Repointed(cell, at) ==
  IF IsFormula(cell) /\ cell.ref >= at THEN [cell EXCEPT !.ref = @ + 1] ELSE cell

\* insert_cols with _shift_formulas_after_insert
Inserted(p, at) ==
  [c \in 1..Width |->
     IF c = at THEN EmptyColumn
     ELSE LET old == p[IF c < at THEN c ELSE c - 1]
          IN  [from |-> old.from, cells |-> [r \in 1..Height |-> Repointed(old.cells[r], at)]]]

\* a cell that is written
Put(p, r, c, cell) == [p EXCEPT ![c].cells[r] = cell]

\* _write_output_header: only into an empty cell
Headed(p, r, c, mark) ==
  IF At(p, r, c).is # "blank" THEN p
  ELSE Put(p, r, c, [is |-> "text", of |-> mark, ref |-> 0])

KrMark      == {"kr"}
SectionMark == {"section", "code"}

IsKr(p, r, c)      == "kr" \in At(p, r, c).of
IsSection(p, r, c) == "section" \in At(p, r, c).of

\* _find_kr_column
KrColumn(p, r, code) ==
  LET found == {c \in (code + 1)..(code + 3) : IsKr(p, r, c)}
  IN  IF found = {} THEN 0 ELSE LeastOf(found)

--------------------------------------------------------------------------------

NoPlan == [header |-> 0, rows |-> {}, price |-> 0, code |-> 0, average |-> 0, kr |-> 0,
           section |-> 0, start |-> 0, end |-> 0, found |-> <<>>]

\* the layouts the writer's rules are made for: the header above the rows, the
\* code right of the price and of the average; the section right of the code and
\* labelled so or not at all, unless a /KR column has its place and it moves, or
\* the column right of the code is free for both; and no other column labelled
\* as the section at the place of a new /KR column
Tame(reading, p) ==
  LET r == reading.header
      kr == KrColumn(p, r, reading.code)
  IN  /\ \A q \in reading.rows : r < q
      /\ reading.code > reading.price + 1
      /\ \/ reading.section \in 1..kr
         \/ reading.section \in 1..reading.code /\ ~Taken(p, r, reading.code + 1)
         \/ /\ reading.section > reading.code
            /\ IsSection(p, r, reading.section) \/ ~Taken(p, r, reading.section)
      /\ kr = 0 /\ IsSection(p, r, reading.code + 1) => reading.section = reading.code + 1

\* again: the file as the round before left it, which was a tame one
Calculated(p, reading, again) ==
  /\ source' = p /\ page' = p
  /\ plan' = [NoPlan EXCEPT !.header = reading.header, !.rows = reading.rows,
                            !.price = reading.price, !.code = reading.code,
                            !.average = reading.average, !.section = reading.section]
  /\ last' = [plan |-> plan, tame |-> Tame(reading, p), again |-> again]
  /\ inserts' = 0
  /\ step' = IF reading.rows = {} THEN "refused" ELSE "read"

WriterInit ==
  /\ step = "chosen" /\ round = 1
  /\ \E book \in Workbooks : \E s \in Chosen(book) : page = book[s].page
  /\ source = page
  /\ plan = NoPlan /\ inserts = 0
  /\ last = [plan |-> NoPlan, tame |-> FALSE, again |-> FALSE]

\* load_estimate; the first calculation of a file
Read ==
  /\ step = "chosen"
  /\ \E reading \in {Reading(page)} : Calculated(page, reading, FALSE)
  /\ UNCHANGED round

\* mistake: the formula of an earlier round is taken for data
AnyValue(cell) == cell.is # "blank"

\* not what _looks_like_average_formula accepts
Foreign(cell) == cell.is \notin {"blank", "average"}

\* resolve_average_placement by _plan_average_column: a labelled column is
\* used, and so is one that is empty or holds the formula of an earlier round
PlaceAverage ==
  /\ step = "read"
  /\ LET at == plan.price + 1
         occupied == /\ plan.average # at
                     /\ \E r \in plan.rows : Foreign(At(page, r, at))
         moved(c) == IF occupied /\ c >= at THEN c + 1 ELSE c
     IN  /\ {at, moved(plan.code), moved(plan.section)} \subseteq 1..Width
         /\ occupied => Room(page, 1)
         /\ page' = IF occupied THEN Inserted(page, at) ELSE page
         /\ plan' = [plan EXCEPT !.average = at, !.code = moved(@), !.section = moved(@)]
         /\ inserts' = inserts + IF occupied THEN 1 ELSE 0
  /\ step' = "average"
  /\ UNCHANGED <<round, source, last>>

\* mistake: the section column stays where it was
PassedByNone(section, kr, inserted) == section

\* the section column after an insertion for /KR
PassedBy(section, kr, inserted) ==
  IF inserted /\ section >= kr THEN section + 1 ELSE section

\* _ensure_kr_and_section_columns: insertions are done from the right, at the
\* places planned before any of them
PlaceKrAndSection ==
  /\ step = "average"
  /\ LET r == plan.header
         found == KrColumn(page, r, plan.code)
         kr == IF found # 0 THEN found ELSE plan.code + 1
         krInsert == /\ found = 0
                     /\ \/ plan.section = kr
                        \/ Taken(page, r, kr) /\ ~IsSection(page, r, kr)
         given == PassedBy(plan.section, kr, krInsert)
         open == given <= kr
         section == IF open THEN kr + 1 ELSE given
         sectionInsert == open /\ Taken(page, r, section) /\ ~IsSection(page, r, section)
         one == IF ~sectionInsert THEN page
                ELSE Headed(Inserted(page, section), r, section, SectionMark)
         two == IF ~krInsert THEN one ELSE Headed(Inserted(one, kr), r, kr, KrMark)
         three == IF found = 0 THEN Headed(two, r, kr, KrMark) ELSE two
         added == (IF krInsert THEN 1 ELSE 0) + IF sectionInsert THEN 1 ELSE 0
     IN  /\ section < Width /\ Room(page, added)
         /\ page' = IF open THEN Headed(three, r, section, SectionMark) ELSE three
         /\ plan' = [plan EXCEPT !.kr = kr, !.section = section, !.start = section + 1]
         /\ inserts' = inserts + added
  /\ step' = "placed"
  /\ UNCHANGED <<round, source, last>>

--------------------------------------------------------------------------------
(* The analog block                                                            *)

TasksOf(found) == {t \in AnalogTasks : \E r \in DOMAIN found :
                     \E n \in DOMAIN found[r] : found[r][n][1] = t}
Highest(found, t) ==
  Max({k \in 1..Width : \E r \in DOMAIN found : \E n \in DOMAIN found[r] :
         found[r][n] = <<t, k>>})

\* first appearance, in the order of the rows and of the analogs in them
AppearsBefore(found, t, u) ==
  \E r \in DOMAIN found : \E n \in DOMAIN found[r] :
    /\ found[r][n][1] = t
    /\ \A q \in DOMAIN found : \A m \in DOMAIN found[q] :
         found[q][m][1] = u => q > r \/ (q = r /\ m > n)

\* mistake: by appearance alone
PrecedesByAppearance(found, t, u) == t # u /\ AppearsBefore(found, t, u)

\* _order_tasks_by_region
Precedes(found, t, u) ==
  /\ t # u
  /\ \/ RegionRank[t] < RegionRank[u]
     \/ RegionRank[t] = RegionRank[u] /\ AppearsBefore(found, t, u)

\* _build_global_analog_plan: a column for every task and position, by_key
\* counts those in front of it from a first column
Slots(found) == UNION {{t} \X (1..Highest(found, t)) : t \in TasksOf(found)}

ColumnOf(found, first, t, k) ==
  first + Cardinality({s \in Slots(found) :
                         Precedes(found, s[1], t) \/ (s[1] = t /\ s[2] < k)})
BlockWidth(found) == Cardinality(Slots(found))

Output == [is |-> "output", of |-> {}, ref |-> round]
TkpHeads == <<{}, {"name"}, {}>>

\* mistake: what an earlier round left is not cleared
KeptBlock(p, first, end) == p

\* _clear_analog_block
Cleared(p, first, end) ==
  [c \in 1..Width |->
     IF c \notin first..end THEN p[c]
     ELSE [p[c] EXCEPT !.cells = [r \in 1..Height |->
             IF r \in plan.header..Max(plan.rows) THEN NoText ELSE @[r]]]]

\* _write_analog_headers, _write_tkp_headers
HeadingCell(r, n, tkp, cell) ==
  IF r = plan.header
  THEN [is |-> "text", of |-> IF tkp /\ n < 4 THEN TkpHeads[n] ELSE {}, ref |-> 0]
  ELSE IF r = plan.header + 1 /\ ~(tkp /\ n < 4) THEN Output ELSE cell

BlockHeaded(p, first, end, tkp) ==
  [c \in 1..Width |->
     IF c \notin first..end THEN p[c]
     ELSE [p[c] EXCEPT !.cells = [r \in 1..Height |-> HeadingCell(r, c - first + 1, tkp, @[r])]]]

\* _write_row: section code, average, /KR code (a calculated row has one), then
\* analogs and the TKP block: the last to write a column is what stays in it
RowCell(c, filled, coded, end, cell) ==
  IF c \in filled \/ c = plan.kr THEN Output
  ELSE IF c = plan.average
  THEN [is |-> IF end < plan.start THEN "formula" ELSE "average", of |-> {}, ref |-> plan.price]
  ELSE IF coded /\ c = plan.section THEN Output ELSE cell

RowsWritten(p, filled, coded, end) ==
  [c \in 1..Width |-> [p[c] EXCEPT !.cells = [r \in 1..Height |->
     IF r \in plan.rows THEN RowCell(c, filled[r], coded, end, @[r]) ELSE @[r]]]]

\* the rest of write_run_result
WriteBlock ==
  /\ step = "placed"
  /\ \E found \in [plan.rows -> AnalogRows], tkp \in BOOLEAN, coded \in BOOLEAN,
        offered \in SUBSET plan.rows :
       LET first == plan.start + IF tkp THEN 3 ELSE 0
           end == first + BlockWidth(found) - 1
           filled == [r \in plan.rows |->
                        {ColumnOf(found, first, found[r][n][1], found[r][n][2]) :
                           n \in DOMAIN found[r]}
                        \cup (IF tkp /\ r \in offered THEN plan.start..(plan.start + 2) ELSE {})]
           block == IF end < plan.start THEN page
                    ELSE BlockHeaded(Cleared(page, plan.start, end), plan.start, end, tkp)
       IN  /\ end <= Width
           /\ page' = RowsWritten(block, filled, coded, end)
           /\ plan' = [plan EXCEPT !.end = end, !.found = found]
  /\ step' = "written"
  /\ UNCHANGED <<round, source, inserts, last>>

\* the written file is uploaded; Excel may not have stored the values of its
\* formulas, which then read as blank
Seen(p, recalculated) ==
  IF recalculated THEN p
  ELSE [c \in 1..Width |-> [p[c] EXCEPT !.cells = [r \in 1..Height |->
          IF IsFormula(@[r]) THEN NoText ELSE @[r]]]]

CalculateAgain ==
  /\ step = "written" /\ round < MaxRounds
  /\ LET opened == [c \in 1..Width |-> [page[c] EXCEPT !.from = c]]
     IN  \E recalculated \in BOOLEAN : \E reading \in {Reading(Seen(opened, recalculated))} :
           Calculated(opened, reading, last.tame /\ recalculated)
  /\ round' = round + 1

WriterNext == Read \/ PlaceAverage \/ PlaceKrAndSection \/ WriteBlock \/ CalculateAgain

WriterSpec == WriterInit /\ [][WriterNext]_writerVars
--------------------------------------------------------------------------------
(* Properties                                                                  *)

(* The worksheets and the plan keep their shape.                               *)
WriterTypeOK ==
  /\ step \in {"chosen", "read", "refused", "average", "placed", "written"}
  /\ round \in 1..MaxRounds
  /\ source \in Page /\ page \in Page
  /\ \A p \in {plan, last.plan} :
       /\ p.header \in 0..Height /\ p.rows \subseteq 1..Height
       /\ {p.price, p.code, p.average, p.kr, p.section, p.start, p.end} \subseteq 0..Width
  /\ inserts \in 0..3 /\ last.tame \in BOOLEAN /\ last.again \in BOOLEAN

(* On the layouts the writer is made for, the outputs of a first and of a      *)
(* repeated calculation stand apart and in order, the price is where it was,   *)
(* and in the calculated rows no value of the source is overwritten left of    *)
(* the analogs but in columns labelled for it or not labelled at all,          *)
(* whichever columns had to be inserted (_ensure_kr_and_section_columns).      *)
OutputsStandApart ==
  step = "written" /\ last.tame =>
    /\ page[plan.price].from = plan.price
    /\ plan.price < plan.average /\ plan.average < plan.code /\ plan.code < plan.kr
    /\ plan.kr < plan.section /\ plan.section < plan.start
    /\ \A c \in 1..(plan.start - 1) : \A r \in plan.rows :
         LET k == page[c].from
         IN  k # 0 /\ Taken(source, r, k) /\ page[c].cells[r].is # source[k].cells[r].is
             => \/ c = plan.average /\ ("average" \in At(source, plan.header, k).of
                                          \/ source[k].cells[r].is = "average")
                \/ c = plan.kr /\ (IsKr(source, plan.header, k)
                                    \/ ~Taken(source, plan.header, k))
                \/ c = plan.section /\ (IsSection(source, plan.header, k)
                                         \/ ~Taken(source, plan.header, k))

\* left of every column that is inserted
LeftOfInserts(k) == k <= plan.price /\ k <= plan.code

(* After up to three insertions planned in one numbering and done in another,  *)
(* what a formula of the source names by a cell of its own sheet is in the     *)
(* column it named, on every layout.  What it names on another sheet, which    *)
(* does not move, is so only where the column is left of the insertions, and   *)
(* so is what references name that are never rewritten: those on other sheets, *)
(* to whole columns and in array formulas (_shift_formulas_after_insert).      *)
FormulasFollow ==
  /\ \A c \in 1..Width, r \in 1..Height :
       LET k   == page[c].from
           old == source[k].cells[r]
           new == page[c].cells[r]
       IN  k # 0 /\ c # plan.average /\ IsFormula(old) /\ new.is = old.is =>
             /\ old.is # "outside" => page[new.ref].from = old.ref
             /\ old.is = "outside" /\ LeftOfInserts(old.ref) => new.ref = old.ref
  /\ \A k \in 1..Width : LeftOfInserts(k) => page[k].from = k

(* On those layouts the range an average formula spans holds what this run     *)
(* wrote and nothing else: no value of the source and no analog of an earlier  *)
(* run enters the recommended price (_clear_analog_block, _average_formula).   *)
AverageOfThisRun ==
  step = "written" /\ last.tame => \A c \in plan.start..plan.end : \A r \in plan.rows :
    page[c].cells[r] \in {NoText, Output}

\* the second reading finds the table where the first run left it; a section
\* left of the /KR column is passed by, as it was
FoundAgain ==
  LET now == Reading(source)
      was == last.plan
  IN  /\ <<now.header, now.rows, now.price, now.code>> = <<was.header, was.rows, was.price, was.code>>
      /\ \/ now.section = was.section
         \/ now.section <= was.kr /\ was.section = was.kr + 1

(* A file the program has written, with the values of its formulas, is tame    *)
(* again where the reader finds the table and its columns again, and then, if  *)
(* the run had an analog, is calculated without another column: the average    *)
(* formulas, the /KR column and the section column of the first run are found  *)
(* and used (docs/DOMAIN_RULES.md, the 2026-07 change).                        *)
SecondRunInsertsNothing ==
  step = "written" /\ last.again /\ FoundAgain =>
    /\ last.tame
    /\ last.plan.end >= last.plan.start =>
         /\ inserts = 0
         /\ <<plan.average, plan.kr, plan.section, plan.start>>
              = <<last.plan.average, last.plan.kr, last.plan.section, last.plan.start>>

(* Every analog of the run has a column of its own, a task's positions lie     *)
(* side by side, and tasks of the own region come first, the others by region  *)
(* (_build_global_analog_plan, _order_tasks_by_region).                        *)
AnalogsGrouped ==
  step = "written" =>
    LET Col(t, k) == ColumnOf(plan.found, plan.end + 1 - BlockWidth(plan.found), t, k)
        tasks == TasksOf(plan.found)
    IN  \A t, u \in tasks :
          \A k \in 1..Highest(plan.found, t), j \in 1..Highest(plan.found, u) :
            /\ Col(t, k) = Col(u, j) => t = u /\ k = j
            /\ RegionRank[t] < RegionRank[u] => Col(t, k) < Col(u, j)
            /\ k > 1 => Col(t, k) = Col(t, k - 1) + 1

(* docs/DOMAIN_RULES.md on detected layouts: "the average price is written     *)
(* into the column immediately right of the detected base price".              *)
AverageRightOfPrice ==
  step = "written" => page[plan.average - 1].from = plan.price
==============================================================================
