---------------------------- MODULE EstimateSheet ----------------------------
(****************************************************************************)
(* Where the program finds things on an estimate: the header row and the    *)
(* columns it names (core/layout.py), the choice of the worksheet           *)
(* (app/services/read_estimate.py) and the rows that are calculated         *)
(* (core/excel_io.py).                                                      *)
(*                                                                          *)
(* A worksheet is a number of columns of cells.  What matters of a cell is  *)
(* what it is taken for: a text for the fields whose patterns it matches    *)
(* (data/config/layout.json) and whether it is a /KR, section or template   *)
(* marker heading; a formula for the column one of its references names, of *)
(* its own sheet, or of another sheet or none (Rates!B2, LOG10): "outside".  *)
(****************************************************************************)
EXTENDS Integers, Sequences, FiniteSets, SequencesExt, FiniteSetsExt

CONSTANTS
  Width,        \* bound on the columns of a worksheet
  Height,       \* its rows
  Template,     \* the columns of Settings
  MaxBlankRun   \* blank rows in a run that end a table

SheetFields == {"price", "average", "unit", "name", "section", "code"}

ASSUME SheetAssumption ==
  /\ Width \in Nat /\ Height \in Nat /\ MaxBlankRun \in Nat \ {0}
  /\ Template \in [{"price", "unit", "name", "section", "code"} -> 1..Width]

Kinds    == {"blank", "text", "number", "count", "code", "formula", "outside", "average",
             "output"}
HeadingMarks == SheetFields \cup {"kr", "marker"}
\* ref: the column a formula names, the calculation that wrote an output
SheetCell == [is : Kinds, of : SUBSET HeadingMarks, ref : Nat]

\* a column remembers which column of the source it is, 0 if of none
Column == [from : 0..Width, cells : [1..Height -> SheetCell]]
Page   == [1..Width -> Column]

NoText == [is |-> "blank", of |-> {}, ref |-> 0]
At(page, r, c) == IF r \in 1..Height /\ c \in 1..Width THEN page[c].cells[r] ELSE NoText

--------------------------------------------------------------------------------
(* resolve_layout                                                              *)

\* default_columns of read_estimate: the section has none
Defaults == {"name", "unit", "code", "price"}

LeastOf(S) == CHOOSE x \in S : \A y \in S : x <= y

\* _detect_columns_in_row for one field: a column is claimed once; of several
\* the template's own column is taken, or else the first
Claim(page, r, f, found) ==
  LET open == {c \in 1..Width : f \in At(page, r, c).of /\ \A g \in SheetFields : found[g] # c}
  IN  IF open = {} THEN found
      ELSE [found EXCEPT ![f] =
              IF Cardinality(open) > 1 /\ f \in Defaults /\ Template[f] \in open
              THEN Template[f] ELSE LeastOf(open)]

NoneClaimed == [f \in SheetFields |-> 0]

\* the fields claim in the order of field_priority
Detected(page, r) ==
  LET price   == Claim(page, r, "price", NoneClaimed)
      average == Claim(page, r, "average", price)
      unit    == Claim(page, r, "unit", average)
      name    == Claim(page, r, "name", unit)
      section == Claim(page, r, "section", name)
  IN  Claim(page, r, "code", section)

FieldCount(found) == Cardinality({f \in SheetFields : found[f] # 0})

FirstOfMost(count) ==
  CHOOSE r \in DOMAIN count : \A q \in DOMAIN count :
    count[q] < count[r] \/ (count[q] = count[r] /\ r <= q)

\* _detect_header_row: the first of the rows with the most fields, two at least
HeaderOf(count) ==
  IF \A r \in DOMAIN count : count[r] < 2 THEN 0 ELSE FirstOfMost(count)
HeaderRow(page) == HeaderOf([r \in 1..Height |-> FieldCount(Detected(page, r))])

\* the columns below a header row; a required field has no default
LayoutBelow(page, header) ==
  [header |-> header,
   column |-> [(IF header = 0 THEN NoneClaimed ELSE Detected(page, header))
                 EXCEPT !["name"] = IF @ = 0 THEN Template["name"] ELSE @]]

Layout(page) == LayoutBelow(page, HeaderRow(page))

Resolved(layout) == \A f \in {"code", "unit", "price"} : layout.column[f] # 0

--------------------------------------------------------------------------------
(* The rows that are calculated                                                *)

Filled(page, r, c) == At(page, r, c).is # "blank"

\* _is_working_estimate_row; a formula is read by the value stored with it
Working(page, r, code, unit, price) ==
  /\ Filled(page, r, code) /\ Filled(page, r, unit)
  /\ At(page, r, price).is \in {"number", "count", "formula", "outside", "average"}

\* data_row_numbers: up to the blank rows that end the table
InTable(page, first, key) ==
  {r \in first..Height :
     /\ \E c \in key : Filled(page, r, c)
     /\ ~\E q \in first..r : /\ q + MaxBlankRun - 1 < r
                             /\ \A b \in q..(q + MaxBlankRun - 1) : \A c \in key :
                                  ~Filled(page, b, c)}

\* read_estimate_rows_by_columns: without the row that numbers the columns
DetectedRows(page, header, at) ==
  {r \in InTable(page, header + 1, {at["code"], at["unit"], at["price"]}) :
     /\ Working(page, r, at["code"], at["unit"], at["price"])
     /\ At(page, r, at["code"]).is # "count"}

\* _detect_estimate_header_row
MarkerRow(page) ==
  LET marked == {r \in 1..Height : "marker" \in At(page, r, Template["code"]).of}
  IN  IF marked = {} THEN 0 ELSE LeastOf(marked)

\* _collect_estimate_rows
TemplateRows(page) ==
  IF MarkerRow(page) = 0 THEN {}
  ELSE {r \in (MarkerRow(page) + 2)..Height :
          Working(page, r, Template["code"], Template["unit"], Template["price"])}

\* mistake: the heading has four rows
HeaderFourAbove(rows) == LeastOf(rows) - 4

\* a table that only the template found
HeaderAbove(rows) == LeastOf(rows) - 2

NotFound == [method |-> "none", header |-> 0, rows |-> {}, code |-> 0, price |-> 0,
             average |-> 0, section |-> 0]

\* _writer_columns: detected first, then the template
ReadingFrom(layout, detected, template) ==
  LET at      == layout.column
      section == IF at["section"] # 0 THEN at["section"] ELSE Template["section"]
  IN  IF detected # {} THEN
        [method |-> "detected", header |-> layout.header, rows |-> detected,
         code |-> at["code"], price |-> at["price"],
         average |-> at["average"], section |-> section]
      ELSE IF template # {} THEN
        [method |-> "template",
         header |-> IF layout.header # 0 THEN layout.header ELSE HeaderAbove(template),
         rows |-> template,
         code |-> IF at["code"] # 0 THEN at["code"] ELSE Template["code"],
         price |-> Template["price"], average |-> at["average"], section |-> section]
      ELSE NotFound

\* load_estimate
ReadWith(page, layout) ==
  ReadingFrom(layout,
              IF Resolved(layout) THEN DetectedRows(page, layout.header, layout.column)
                                  ELSE {},
              TemplateRows(page))

Reading(page) == ReadWith(page, Layout(page))

--------------------------------------------------------------------------------
(* _choose_sheet                                                               *)

\* a set of one sheet is taken, one of more is put to the user, and of none the
\* first with the marker in its name, or the first
ChosenOf(book, named, ready) ==
  IF Cardinality(named) = 1 THEN named
  ELSE IF Len(book) = 1 THEN {1}
  ELSE IF ready # {} THEN ready
  ELSE {IF named = {} THEN 1 ELSE LeastOf(named)}

Chosen(book) ==
  ChosenOf(book, {s \in DOMAIN book : book[s].named},
           {s \in DOMAIN book : Resolved(Layout(book[s].page))})
==============================================================================
