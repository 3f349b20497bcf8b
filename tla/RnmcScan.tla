------------------------------- MODULE RnmcScan -------------------------------
(****************************************************************************)
(* Reading one RNMC workbook (app/services/rnmc_excel.py): what its sheets  *)
(* state about it, the header row and the columns it names, and the two     *)
(* scans of the rows below, the preview's and the import's, which are two   *)
(* copies of one loop in the program.                                       *)
(*                                                                          *)
(* A cell is a member of Cells: what matters of it is whether it is blank,  *)
(* no code or unit (a dot), a whole number of 1 to 40, or read as a number. *)
(* A heading is a sequence of keys per cell (its normalised text and its    *)
(* first line); Reads says which headings the program takes a key for.      *)
(* Rows are numbered from the header.  What becomes of the rows of an       *)
(* imported file is in ImportHistory and Corrections.                       *)
(****************************************************************************)
EXTENDS Integers, Sequences, FiniteSets, SequencesExt

CONSTANTS
  NoValue,       \* nothing found, an empty cell
  MetaFields,    \* what is looked for: quarter, dates, region, coefficient
  MetaValues,    \* values they may have
  Folder,        \* region folder of the archive
  TaskNumbers,   \* task numbers stated on a sheet
  Reads,         \* Reads[k]: the headings key k is taken for
  Headings,      \* rows that may be above a table
  Cells,         \* contents of cells below the header
  Count,         \* cells with a whole number of 1 to 40
  Void,          \* cells of which normalising a code or a unit leaves nothing
  Amount,        \* _parse_number of a cell, NoValue if it is none
  TableRows,     \* rows that may be below the header
  RowLimit,      \* max_preview_rows
  MaxSheets,     \* bound on the sheets of a workbook
  MaxRows        \* bound on the rows below the header

ASSUME ScanAssumption ==
  /\ Headings \subseteq Seq(Seq(DOMAIN Reads))
  /\ TableRows \subseteq Seq(Cells)
  /\ NoValue \in Cells /\ Count \subseteq Cells \ {NoValue} /\ Void \subseteq Cells
  /\ Amount \in [Cells -> Int \cup {NoValue}] /\ Amount[NoValue] = NoValue
  /\ NoValue # "preview-task"
  /\ RowLimit \in Nat \ {0} /\ MaxSheets \in Nat /\ MaxRows \in Nat

VARIABLES
  phase,    \* "meta", "sheets", "table" or "done"
  sheets,   \* number of sheets
  sheet,    \* sheets looked through so far in this phase
  meta,     \* what the sheets state, first come first taken
  task,     \* the task number
  columns,  \* columns of the table
  rows,     \* rows below the header read so far
  preview,  \* the preview's scan of them
  import,   \* the import's scan of them
  result    \* what the import did

scanVars == <<phase, sheets, sheet, meta, task, columns, rows, preview, import, result>>

--------------------------------------------------------------------------------
(* Headings                                                                    *)

CodePatterns == <<"list FER TER", "list FER GESN", "FER list", "list", "ground", "cipher">>
DatePatterns == <<"added date", "date", "date short">>
LaborRoles   == {"machine unit", "machine total", "labor unit", "labor total"}

\* where keys stand: a column and a place in its cell
Places(h)   == UNION {{i} \X DOMAIN h[i] : i \in DOMAIN h}
KeyAt(h, p) == h[p[1]][p[2]]
ReadsBefore(p, q) == p[1] < q[1] \/ (p[1] = q[1] /\ p[2] <= q[2])

\* header_map: a key counts where it stands first; it is gone through in
\* reading order
HeaderMap(h) ==
  {p \in Places(h) : \A q \in Places(h) : KeyAt(h, q) = KeyAt(h, p) => ReadsBefore(p, q)}
PlacesOf(h, role) == {p \in HeaderMap(h) : role \in Reads[KeyAt(h, p)]}
Earliest(places)  == CHOOSE p \in places : \A q \in places : ReadsBefore(p, q)
ColumnAt(places)  == IF places = {} THEN 0 ELSE Earliest(places)[1]

\* _find_pattern_col: by the first of the patterns that a key is taken for
PatternColumn(h, patterns, places) ==
  LET fit == {n \in DOMAIN patterns : places \cap PlacesOf(h, patterns[n]) # {}}
  IN  IF fit = {} THEN 0 ELSE ColumnAt(places \cap PlacesOf(h, patterns[Min(fit)]))

\* the name, unit and quantity columns: the last that match
LastColumn(h, role) ==
  LET fit == {i \in DOMAIN h : \E n \in DOMAIN h[i] : role \in Reads[h[i][n]]}
  IN  IF fit = {} THEN 0 ELSE Max(fit)

IsHeader(h) == \A role \in {"name", "unit", "quantity"} : LastColumn(h, role) # 0

\* _find_code_col: a specific heading, or a column without one before the
\* section code, or just "code"
CodeColumn(h) ==
  LET open == HeaderMap(h) \ PlacesOf(h, "section")
      specific == PatternColumn(h, CodePatterns, open)
      unlabelled == {p \in PlacesOf(h, "section") : p[1] > 1 /\ h[p[1] - 1] = <<>>}
  IN  IF specific # 0 THEN specific
      ELSE IF unlabelled # {} THEN ColumnAt(unlabelled) - 1
      ELSE ColumnAt(open \cap PlacesOf(h, "code"))

\* _detect_value_columns: a key goes to the first labour column it fits that is
\* still open, so each has the first key that no column before it has
LaborPlaces(h) ==
  LET Pick(places) == IF places = {} THEN {} ELSE {Earliest(places)}
      open == HeaderMap(h) \ PlacesOf(h, "average")
      mu   == Pick(open \cap PlacesOf(h, "machine unit"))
      mt   == Pick((open \ mu) \cap PlacesOf(h, "machine total"))
      lu   == Pick((open \ (mu \cup mt)) \cap PlacesOf(h, "labor unit"))
      lt   == Pick((open \ (mu \cup mt \cup lu)) \cap PlacesOf(h, "labor total"))
  IN  [r \in LaborRoles |-> CASE r = "machine unit" -> mu [] r = "machine total" -> mt
                               [] r = "labor unit" -> lu [] r = "labor total" -> lt]

\* what is left: keys of a unit price, and those of a total
ValuePlaces(h, role) ==
  {p \in PlacesOf(h, role) \ PlacesOf(h, "average") :
     /\ \A r \in LaborRoles : p \notin LaborPlaces(h)[r]
     /\ role = "total" => p \notin PlacesOf(h, "price")}

\* _prefer_without_vat: the first price without VAT, or the first
PreferWithoutVat(h, candidates) ==
  LET net == candidates \ PlacesOf(h, "vat")
  IN  ColumnAt(IF net # {} THEN net ELSE candidates)

ColumnNames == {"number", "name", "unit", "quantity", "code", "price", "total",
                "date", "labor unit", "labor total", "machine unit", "machine total"}

Columns(h) ==
  [c \in ColumnNames |->
    CASE c = "number" -> IF PlacesOf(h, "number") = {} THEN 1
                         ELSE ColumnAt(PlacesOf(h, "number"))
      [] c \in {"name", "unit", "quantity"} -> LastColumn(h, c)
      [] c = "code"  -> CodeColumn(h)
      [] c \in {"price", "total"} -> PreferWithoutVat(h, ValuePlaces(h, c))
      [] c = "date"  -> PatternColumn(h, DatePatterns, HeaderMap(h))
      [] c \in LaborRoles -> ColumnAt(LaborPlaces(h)[c])]

\* max_col: each scan reads the cells up to the last column it needs
WidthOf(names) == Max({columns[c] : c \in names})

\* mistake: the code and price columns are not counted in
PreviewWidthShort == WidthOf({"number", "name", "unit", "quantity"})

PreviewWidth == WidthOf(ColumnNames \ {"date"})
ImportWidth  == WidthOf(ColumnNames)

--------------------------------------------------------------------------------
(* Rows                                                                        *)

Cell(row, width, c) ==
  LET n == columns[c]
  IN  IF n = 0 \/ n > width \/ n > Len(row) THEN NoValue ELSE row[n]

AllBlank(row, width, names) == \A c \in names : Cell(row, width, c) = NoValue

\* NormCode or NormUnit is empty
Nameless(row, width, c) == Cell(row, width, c) \in Void \cup {NoValue}

\* _is_technical_numbering_row: four cells or more, all small whole numbers
Technical(row, width) ==
  LET filled == {n \in DOMAIN row : n <= width /\ row[n] # NoValue}
  IN  Cardinality(filled) >= 4 /\ \A n \in filled : row[n] \in Count

\* _is_non_catalog_section_row: only a name
SectionRow(row, width) ==
  /\ AllBlank(row, width, {"unit", "quantity"}) /\ Nameless(row, width, "code")
  /\ Amount[Cell(row, width, "price")] = NoValue
  /\ Amount[Cell(row, width, "total")] = NoValue
  /\ ~AllBlank(row, width, {"name"})

\* _catalog_row_issue; the preview has a task number of its own
Issue(row, width, number) ==
  IF AllBlank(row, width, {"unit", "quantity"}) THEN "no unit and quantity"
  ELSE IF number = NoValue THEN "no task"
  ELSE IF Nameless(row, width, "code") THEN "no code"
  ELSE IF Nameless(row, width, "unit") THEN "no unit"
  ELSE LET price == Amount[Cell(row, width, "price")]
       IN  IF price = NoValue \/ price <= 0 THEN "no price" ELSE "none"

EmptyScan == [started |-> FALSE, streak |-> 0, ended |-> FALSE, taken |-> {}, rejected |-> {}]

\* mistake: the second blank row in a run ends the table
StepEndsEarly(scan, row, n, width, number) ==
  LET on == [scan EXCEPT !.started = TRUE, !.streak = 0]
      issue == Issue(row, width, number)
  IN  IF scan.ended \/ Technical(row, width)
         \/ (~scan.started /\ AllBlank(row, width, {"number", "unit", "quantity"})) THEN scan
      ELSE IF AllBlank(row, width, {"number", "name", "unit", "quantity"}) THEN
        [scan EXCEPT !.started = TRUE, !.streak = @ + 1, !.ended = scan.streak = 1]
      ELSE IF SectionRow(row, width) THEN on
      ELSE IF issue = "none" THEN [on EXCEPT !.taken = @ \cup {n}]
      ELSE [on EXCEPT !.rejected = @ \cup {<<n, issue>>}]

\* mistake: a rejected row is taken all the same
StepRejectedToo(scan, row, n, width, number) ==
  LET on == [scan EXCEPT !.started = TRUE, !.streak = 0]
      issue == Issue(row, width, number)
  IN  IF scan.ended \/ Technical(row, width)
         \/ (~scan.started /\ AllBlank(row, width, {"number", "unit", "quantity"})) THEN scan
      ELSE IF AllBlank(row, width, {"number", "name", "unit", "quantity"}) THEN
        [scan EXCEPT !.started = TRUE, !.streak = @ + 1, !.ended = scan.streak = 2]
      ELSE IF SectionRow(row, width) THEN on
      ELSE [on EXCEPT !.taken = @ \cup {n},
                      !.rejected = IF issue = "none" THEN @ ELSE @ \cup {<<n, issue>>}]

\* one row of the loop; the third blank row in a run ends the table
Step(scan, row, n, width, number) ==
  LET on == [scan EXCEPT !.started = TRUE, !.streak = 0]
      issue == Issue(row, width, number)
  IN  IF scan.ended \/ Technical(row, width)
         \/ (~scan.started /\ AllBlank(row, width, {"number", "unit", "quantity"})) THEN scan
      ELSE IF AllBlank(row, width, {"number", "name", "unit", "quantity"}) THEN
        [scan EXCEPT !.started = TRUE, !.streak = @ + 1, !.ended = scan.streak = 2]
      ELSE IF SectionRow(row, width) THEN on
      ELSE IF issue = "none" THEN [on EXCEPT !.taken = @ \cup {n}]
      ELSE [on EXCEPT !.rejected = @ \cup {<<n, issue>>}]

Scanned(scan) == Cardinality(scan.taken) + Cardinality(scan.rejected)

\* the preview also ends at its limit
PreviewStep(scan, row, n) ==
  LET next == Step(scan, row, n, PreviewWidth, "preview-task")
  IN  [next EXCEPT !.ended = @ \/ Scanned(next) >= RowLimit]

--------------------------------------------------------------------------------
(* The workbook                                                                *)

NoColumns == [c \in ColumnNames |-> 0]
NoResult  == [status |-> "none", written |-> {}, excluded |-> {}, region |-> NoValue]

ScanInit ==
  /\ phase = "meta" /\ sheet = 0
  /\ sheets \in 1..MaxSheets
  /\ meta = [f \in MetaFields |-> NoValue] /\ task = NoValue
  /\ columns = NoColumns /\ rows = <<>>
  /\ preview = EmptyScan /\ import = EmptyScan
  /\ result = NoResult

\* _extract_workbook_metadata, _extract_task_number on the next sheet: a
\* labelled value, failing that one from the text around; the first is kept
ReadSheet ==
  /\ phase = "meta" /\ sheet < sheets
  /\ \E labelled, context \in [MetaFields -> MetaValues \cup {NoValue}],
        number \in TaskNumbers \cup {NoValue} :
       /\ meta' = [f \in MetaFields |->
            IF meta[f] # NoValue THEN meta[f]
            ELSE IF labelled[f] # NoValue THEN labelled[f] ELSE context[f]]
       /\ task' = IF task = NoValue THEN number ELSE task
  /\ sheet' = sheet + 1
  /\ UNCHANGED <<phase, sheets, columns, rows, preview, import, result>>

MetadataRead ==
  /\ phase = "meta" /\ sheet = sheets
  /\ phase' = "sheets" /\ sheet' = 0
  /\ UNCHANGED <<sheets, meta, task, columns, rows, preview, import, result>>

\* _find_header_row: the first row with the three headings, on the first
\* sheet that has one
OpenTable ==
  /\ phase = "sheets" /\ sheet < sheets
  /\ \E h \in Headings : IsHeader(h) /\ columns' = Columns(h)
  /\ phase' = "table" /\ sheet' = sheet + 1
  /\ UNCHANGED <<sheets, meta, task, rows, preview, import, result>>

PassSheet ==
  /\ phase = "sheets" /\ sheet < sheets
  /\ sheet' = sheet + 1
  /\ UNCHANGED <<phase, sheets, meta, task, columns, rows, preview, import, result>>

ReadRow ==
  /\ phase = "table" /\ Len(rows) < MaxRows
  /\ \E row \in TableRows :
       /\ rows' = Append(rows, row)
       /\ preview' = PreviewStep(preview, row, Len(rows) + 1)
       /\ import' = Step(import, row, Len(rows) + 1, ImportWidth, task)
  /\ UNCHANGED <<phase, sheets, sheet, meta, task, columns, result>>

\* _resolve_workbook_region, unless the user named a region for the archive
Region(manual) ==
  IF ~manual /\ "region" \in MetaFields /\ meta["region"] # NoValue
  THEN meta["region"] ELSE Folder

\* _import_workbook_bytes: the rows taken but those the user excluded replace
\* the file's rows, unless none was taken; all of them when the user excluded
\* the whole task
Import ==
  /\ phase = "table"
  /\ \E asked \in SUBSET preview.taken \cup {DOMAIN rows}, manual \in BOOLEAN :
       result' = [status |-> IF import.taken = {} THEN "no_data" ELSE "success",
                  written |-> import.taken \ asked, excluded |-> asked,
                  region |-> Region(manual)]
  /\ phase' = "done"
  /\ UNCHANGED <<sheets, sheet, meta, task, columns, rows, preview, import>>

NoHeader ==
  /\ phase = "sheets" /\ sheet = sheets
  /\ result' = [NoResult EXCEPT !.status = "no_data"]
  /\ phase' = "done"
  /\ UNCHANGED <<sheets, sheet, meta, task, columns, rows, preview, import>>

ScanNext ==
  ReadSheet \/ MetadataRead \/ OpenTable \/ PassSheet \/ ReadRow \/ Import \/ NoHeader

ScanSpec == ScanInit /\ [][ScanNext]_scanVars
--------------------------------------------------------------------------------
(* Properties                                                                  *)

Limited == Scanned(preview) >= RowLimit

(* Metadata, columns, scans and result keep their shape.                       *)
ScanTypeOK ==
  /\ phase \in {"meta", "sheets", "table", "done"}
  /\ sheets \in 1..MaxSheets /\ sheet \in 0..sheets
  /\ meta \in [MetaFields -> MetaValues \cup {NoValue}]
  /\ task \in TaskNumbers \cup {NoValue}
  /\ columns \in [ColumnNames -> Nat]
  /\ rows \in Seq(TableRows)
  /\ \A scan \in {preview, import} :
       /\ scan.taken \subseteq DOMAIN rows /\ scan.streak \in 0..3
       /\ {pair[1] : pair \in scan.rejected} \subseteq DOMAIN rows \ scan.taken
  /\ result.status \in {"none", "success", "no_data"}

(* What the admin approves is what is written: as long as the preview is not   *)
(* cut short and the file has a task number, the import writes exactly the     *)
(* rows the preview showed as good but for those excluded, and rejects those   *)
(* it showed with an issue.  The two scans read rows of different width when a *)
(* date column is the last; a numbering row that reads differently is set      *)
(* aside (_preview_table_rows, _extract_catalog_row_candidates).               *)
ImportIsWhatPreviewShowed ==
  /\ ~Limited /\ task # NoValue
  /\ \A n \in DOMAIN rows : Technical(rows[n], PreviewWidth) = Technical(rows[n], ImportWidth)
  => /\ import.rejected = preview.rejected
     /\ result.status = "success" => result.written = preview.taken \ result.excluded

(* A row with a code, a unit and a price is lost only below three rows without *)
(* number, name, unit and quantity, which only numbering rows come between:    *)
(* section titles and rejected rows in the gap keep the table open.            *)
NoGoodRowLost ==
  \A n \in DOMAIN rows :
    /\ task # NoValue /\ ~Technical(rows[n], ImportWidth)
    /\ ~AllBlank(rows[n], ImportWidth, {"unit"}) /\ Issue(rows[n], ImportWidth, task) = "none"
    /\ n \notin import.taken
    => \E i, j, k \in 1..n :
         /\ i < j /\ j < k
         /\ \A m \in i..k :
              \/ Technical(rows[m], ImportWidth)
              \/ AllBlank(rows[m], ImportWidth, {"number", "name", "unit", "quantity"})
         /\ \A m \in {i, j, k} : ~Technical(rows[m], ImportWidth)
==============================================================================
