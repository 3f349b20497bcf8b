---------------------------- MODULE MCCalculation ----------------------------
(* An instance for TLC of everything a calculation is made of: the catalog of *)
(* tender winners, the rules, the workbooks the catalog is imported from, the *)
(* matching, the writing of the result and the session around them.  They     *)
(* share no state but files and tables each module has for itself, so a       *)
(* behaviour is one of a single part, the others at rest.                     *)
EXTENDS TkpImport, RuleTables, EstimateSession, EstimateMatching, RnmcScan,
        ResultWriter, TLC

CONSTANTS
  here, there, other, kl, kl2,           \* workbooks with TKPs and their names
  pattern, fresh, odd, t1, t2, FOT, New, \* rules
  m2, hm2, g06, g46,                     \* units and codes
  west,                                  \* a region
  Parts                                  \* parts that run

VARIABLE part

--------------------------------------------------------------------------------
(* TKP: two workbooks of one name, one of another; nothing is found in          *)
(* revision 0, and the second run of the macro sees a namesake edited           *)

Naming == (here :> kl) @@ (there :> kl) @@ (other :> kl2)
Found  == (0 :> 0) @@ (1 :> 1) @@ (2 :> 2)
Scans  == (1 :> ((here :> 1) @@ (there :> 2) @@ (other :> 1)))
       @@ (2 :> ((here :> 2) @@ (there :> 2) @@ (other :> 0)))

--------------------------------------------------------------------------------
(* Rules: a workbook with two exclusions, one of a scope unknown to the         *)
(* program, and two colours                                                     *)

Book ==
  [exclusions |-> <<[key |-> pattern, value |-> Plain, enabled |-> TRUE],
                   [key |-> odd, value |-> Plain, enabled |-> TRUE]>>,
   colours |-> <<[key |-> t2, value |-> FreeText, enabled |-> FALSE],
                 [key |-> t1, value |-> FreeText, enabled |-> TRUE]>>]

--------------------------------------------------------------------------------
(* Matching: prices 4 % apart in a chain, assembly and demolition, unknown, two *)
(* and three layers, and rows that are not taken                                *)

Bases == [u \in Units |-> m2]
CatalogRow(t, u, p, d, l, x) ==
  [task |-> t, code |-> g06, unit |-> u, price |-> p, demolition |-> d, layers |-> l,
   excluded |-> x]
PricedRows ==
  {CatalogRow(t1, m2, p, FALSE, l, FALSE) : p \in {100, 104, 108}, l \in {0, 2, 3}}
  \cup {CatalogRow(t1, m2, 100, TRUE, l, FALSE) : l \in {0, 2}}
  \cup {CatalogRow(t2, hm2, 104, FALSE, 2, FALSE), CatalogRow(Missing, m2, 100, FALSE, 0, FALSE),
        CatalogRow(t1, m2, 0, FALSE, 0, FALSE), CatalogRow(t1, m2, 100, FALSE, 0, TRUE)}
RowsOfEstimate ==
  {CatalogRow(Missing, m2, 104, d, l, FALSE) : d \in BOOLEAN, l \in {0, 2, 3}}
  \cup {[CatalogRow(Missing, m2, 104, TRUE, 0, FALSE) EXCEPT !.code = g46],
        [CatalogRow(Missing, m2, 0, FALSE, 0, FALSE) EXCEPT !.code = g46],
        CatalogRow(Missing, m2, 104, FALSE, 0, TRUE)}
SectionByCode == [c \in Codes |-> IF c = g06 THEN "02" ELSE "08"]

--------------------------------------------------------------------------------
(* RNMC: two prices, the one with VAT first, a code column, and a date as the   *)
(* last column, which only the import reads                                     *)

KeyReads == [k \in {"no", "name", "unit", "quantity", "list", "price", "vat", "date"} |->
            IF k = "no" THEN {"number"} ELSE IF k = "vat" THEN {"price", "vat"} ELSE {k}]
HeadingRows ==
  {<<<<"name">>>>,
   <<<<"no">>, <<"name">>, <<"unit">>, <<"quantity">>, <<"vat">>, <<"list">>, <<"price">>,
     <<"date">>>>}
CellKinds == {NoValue, "one", "text", "dot", "ten"}
Amounts == [c \in CellKinds |-> CASE c = "one" -> 1 [] c = "ten" -> 10 [] OTHER -> NoValue]
BodyRows ==
  {<<"one", "text", "text", "ten", "ten", "text", "ten", "text">>,
   <<"one", "one", "one", "one", "one", "one", "one", "text">>,
   [n \in 1..8 |-> NoValue],
   [[n \in 1..8 |-> NoValue] EXCEPT ![2] = "text"],
   <<"one", "text", "text", "ten", "ten", "dot", "ten", NoValue>>,
   <<"one", "text", "text", "ten", "ten", NoValue, NoValue, NoValue>>}

--------------------------------------------------------------------------------
(* Writing: the unit first, then the price, the code and up to four more        *)
(* columns in any order, some with references, to this sheet or another; a row  *)
(* that numbers the columns and one of work; a table with nothing but the       *)
(* template's marker; books of two sheets                                       *)

Text(of)  == [is |-> "text", of |-> of, ref |-> 0]
Plainly(k) == [is |-> k, of |-> {}, ref |-> 0]
HeadCell(k) ==
  CASE k = "blank" -> NoText [] k \in {"other", "near", "far"} -> Text({})
    [] k = "section" -> Text({"section", "code"}) [] k = "code" -> Text({"code", "marker"})
    [] OTHER -> Text({k})
BodyCell(k, c) ==
  CASE k = "blank" -> NoText [] k = "price" -> Plainly("number") [] k = "code" -> Plainly("code")
    [] k = "other" -> [is |-> "formula", of |-> {}, ref |-> c + 1]
    [] k = "near" -> [is |-> "outside", of |-> {}, ref |-> 1]
    [] k = "far" -> [is |-> "outside", of |-> {}, ref |-> c] [] OTHER -> Plainly("text")
PageOf(ks) ==
  [c \in 1..Width |->
     LET k == IF c \in DOMAIN ks THEN ks[c] ELSE "blank"
     IN  [from |-> c,
          cells |-> <<HeadCell(k), IF k = "blank" THEN NoText ELSE Plainly("count"),
                      BodyCell(k, c)>>]]
Short ==
  {ks \in [1..3 -> {"price", "code", "blank", "other", "section", "kr", "average"}] :
     \A k \in {"price", "code"} : Cardinality({i \in 1..3 : ks[i] = k}) = 1}
Long ==
  {<<"price", a, "code", b, c, "other">> : a \in {"blank", "other", "average"},
     b \in {"blank", "other", "kr"}, c \in {"other", "section"}}
  \cup {<<"price", a, "section", "code", b, c>> :
           a \in {"blank", "other"}, b \in {"blank", "other"}, c \in {"blank", "other"}}
  \cup {<<"price", a, "code", "blank", b, "blank">> : a \in {"blank", "other"},
           b \in {"blank", "other"}}
  \cup {<<"price", a, "blank", "other", "code", b, "other">> : a \in {"blank", "other"},
           b \in {"blank", "other"}}
  \cup {<<"price", a, "code", b, "section", "near">> : a \in {"near", "far"}, b \in {"other", "far"}}
OnlyMarker ==
  [c \in 1..Width |-> [PageOf(<<"unit", "price", "blank", "code">>)[c] EXCEPT
     !.cells[1] = IF c = 4 THEN @ ELSE NoText, !.cells[2] = NoText]]
Sheet(n, p) == [named |-> n, page |-> p]
Estimates ==
  {<<Sheet(FALSE, PageOf(<<"unit">> \o ks))>> : ks \in Short \cup Long}
  \cup {<<Sheet(TRUE, OnlyMarker)>>,
        <<Sheet(FALSE, PageOf(<<"other">>)), Sheet(FALSE, PageOf(<<"unit", "price", "code">>))>>,
        <<Sheet(TRUE, PageOf(<<"other">>)), Sheet(FALSE, OnlyMarker)>>}
EstimateTemplate ==
  [f \in {"price", "unit", "name", "section", "code"} |->
     CASE f \in {"unit", "name"} -> 1 [] f = "price" -> 2 [] f = "code" -> 4 [] OTHER -> 7]
Ranks == (t1 :> 1) @@ (t2 :> 0)
RowAnalogs == {<<>>, <<<<t1, 1>>>>, <<<<t1, 1>>, <<t1, 2>>, <<t2, 1>>>>}

--------------------------------------------------------------------------------

Vars == <<tkpVars, ruleVars, sessionVars, matchVars, scanVars, writerVars, part>>

\* one initial state for every part that does not run, and an old row of one
\* workbook
Init ==
  /\ part \in Parts
  /\ TkpInit /\ RulesInit /\ SessionInit /\ MatchInit /\ ScanInit /\ WriterInit
  /\ IF part = "tkp" THEN \A s \in db.sources : s.path = here /\ s.content = 2
                     ELSE db.lastId = 0
  /\ part # "scan" => sheets = 1
  /\ part # "writer" => page = OnlyMarker

Next ==
  /\ \/ /\ part = "tkp" /\ TkpNext
        /\ UNCHANGED <<ruleVars, sessionVars, matchVars, scanVars, writerVars>>
     \/ /\ part = "rules" /\ RulesNext
        /\ UNCHANGED <<tkpVars, sessionVars, matchVars, scanVars, writerVars>>
     \/ /\ part = "session" /\ SessionNext
        /\ UNCHANGED <<tkpVars, ruleVars, matchVars, scanVars, writerVars>>
     \/ /\ part = "matching" /\ MatchNext
        /\ UNCHANGED <<tkpVars, ruleVars, sessionVars, scanVars, writerVars>>
     \/ /\ part = "scan" /\ ScanNext
        /\ UNCHANGED <<tkpVars, ruleVars, sessionVars, matchVars, writerVars>>
     \/ /\ part = "writer" /\ WriterNext
        /\ UNCHANGED <<tkpVars, ruleVars, sessionVars, matchVars, scanVars>>
  /\ UNCHANGED part

Spec == Init /\ [][Next]_Vars
==============================================================================
