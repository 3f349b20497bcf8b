--------------------------- MODULE EstimateMatching ---------------------------
(****************************************************************************)
(* One matching run: BuildCatalog (core/catalog.py), MatchEstimateRow       *)
(* (core/matching.py, core/multiplicity.py) and what run_matching           *)
(* (app/services/run_matching.py) makes of a matched row.  The price risk   *)
(* of a row is in RiskApproval.                                             *)
(*                                                                          *)
(* Catalog rows are read in any order, then every group of a key and a task *)
(* is deduplicated entry after entry, then estimate rows are matched.       *)
(* Prices are whole numbers: the program's 4 % of floating-point prices     *)
(* rounds where these do not.  A work name is what the run reads off it:    *)
(* whether a rule excludes it, demolition, and the layer count it states.   *)
(****************************************************************************)
EXTENDS Integers, Sequences, SequencesExt

CONSTANTS
  TaskIds,         \* task numbers of the catalog
  Codes,         \* normalised codes
  Units,         \* normalised units
  Base,          \* BaseUnit: the unit without its leading quantity
  Missing,       \* an empty cell
  CatalogRows,   \* the rows the catalog may hold
  EstimateRows,  \* the rows the estimate may hold
  RegionalCoefficients,  \* regional coefficients
  TkpPrices,     \* prices of TKP candidates; Missing if there is none
  Section,       \* section by GESN prefix, Missing if the table has none
  PriorityPrefixes,  \* DEMOLITION_PRIORITY_PREFIXES
  MaxRead        \* bound on the rows of the catalog

\* layers is 0 if the name states no count
Row == [task : TaskIds \cup {Missing}, code : Codes \cup {Missing},
        unit : Units \cup {Missing}, price : Int, demolition : BOOLEAN,
        layers : Nat, excluded : BOOLEAN]

ASSUME MatchingAssumption ==
  /\ CatalogRows \subseteq Row /\ EstimateRows \subseteq Row
  /\ Missing \notin TaskIds \cup Codes \cup Units
  /\ MaxRead \in Nat
  /\ Base \in [Units -> Units]

VARIABLES
  stage,    \* "build", "dedup", "match" or "matched"
  read,     \* catalog rows read
  raw,      \* the groups as built
  left,     \* entries of each group still to be compared
  kept,     \* entries kept of each group
  outcome   \* what became of an estimate row

matchVars == <<stage, read, raw, left, kept, outcome>>

--------------------------------------------------------------------------------

Keys   == {Base[u] : u \in Units} \X Codes
Groups == Keys \X TaskIds

\* mistake: a price of zero is a price
PricedFromZero(row) == row.price >= 0 /\ row.code # Missing /\ row.unit # Missing

Priced(row)    == row.price > 0 /\ row.code # Missing /\ row.unit # Missing
KeyOf(row)     == <<Base[row.unit], row.code>>
Positions(g)   == DOMAIN kept[g]
NoOutcome      == [reason |-> "none"]

MatchInit ==
  /\ stage = "build" /\ read = 0
  /\ raw = [g \in Groups |-> <<>>]
  /\ left = [g \in Groups |-> <<>>]
  /\ kept = [g \in Groups |-> <<>>]
  /\ outcome = NoOutcome

\* a row without task, price, code or unit is skipped, and so is an excluded one
AddRow ==
  /\ stage = "build" /\ read < MaxRead
  /\ \E row \in CatalogRows :
       raw' = IF row.task = Missing \/ ~Priced(row) \/ row.excluded THEN raw
              ELSE [raw EXCEPT ![<<KeyOf(row), row.task>>] = Append(@, row)]
  /\ read' = read + 1
  /\ UNCHANGED <<stage, left, kept, outcome>>

BuildDone ==
  /\ stage = "build"
  /\ stage' = "dedup" /\ left' = raw
  /\ UNCHANGED <<read, raw, kept, outcome>>

--------------------------------------------------------------------------------
(* _deduplicate_catalog                                                        *)

Distance(p, q) == IF p < q THEN q - p ELSE p - q

\* mistake: layers are not looked at
NearAnyLayers(k, e) ==
  k.demolition = e.demolition /\ 25 * Distance(e.price, k.price) <= k.price

\* a kept entry makes a later one superfluous: within DEDUP_PCT of its price
Near(k, e) ==
  /\ k.demolition = e.demolition
  /\ k.layers = 0 \/ e.layers = 0 \/ k.layers = e.layers
  /\ 25 * Distance(e.price, k.price) <= k.price

\* mistake: an entry is only compared with the last one kept
AbsorbedByLast(e, entries) == entries # <<>> /\ Near(Last(entries), e)

Absorbed(e, entries) == \E i \in DOMAIN entries : Near(entries[i], e)

Compare(g) ==
  /\ stage = "dedup" /\ left[g] # <<>>
  /\ LET e == Head(left[g])
     IN  kept' = IF Absorbed(e, kept[g]) THEN kept
                 ELSE [kept EXCEPT ![g] = Append(@, e)]
  /\ left' = [left EXCEPT ![g] = Tail(@)]
  /\ UNCHANGED <<stage, read, raw, outcome>>

DedupDone ==
  /\ stage = "dedup" /\ \A g \in Groups : left[g] = <<>>
  /\ stage' = "match"
  /\ UNCHANGED <<read, raw, left, kept, outcome>>

--------------------------------------------------------------------------------
(* MatchEstimateRow, _match_one_row                                            *)

\* multiplicity_is_compatible: only two stated counts can differ
Compatible(row, e) == row.layers = 0 \/ e.layers = 0 \/ row.layers = e.layers
SameKind(row, e)   == row.demolition = e.demolition

Fits(row, e, layered) == SameKind(row, e) /\ (layered => Compatible(row, e))

\* _build_analog_columns: by task, where the entries stand that pass the filter,
\* with or without that on layers; price_position numbers them in this order
Analogs(row, layered) ==
  [t \in TaskIds |-> LET g == <<KeyOf(row), t>>
                    IN  {i \in Positions(g) : Fits(row, kept[g][i], layered)}]
None(analogs) == \A t \in TaskIds : analogs[t] = {}

\* mistake: a key without kept entries is taken for one of another kind
ReasonUnordered(row) ==
  IF row.excluded THEN "excluded"
  ELSE IF ~Priced(row) THEN "invalid"
  ELSE IF ~None(Analogs(row, TRUE)) THEN "matched"
  ELSE IF None(Analogs(row, FALSE)) THEN "demolition" ELSE "multiplicity"

Reason(row) ==
  IF row.excluded THEN "excluded"
  ELSE IF ~Priced(row) THEN "invalid"
  ELSE IF \A t \in TaskIds : kept[<<KeyOf(row), t>>] = <<>> THEN "no match"
  ELSE IF ~None(Analogs(row, TRUE)) THEN "matched"
  ELSE IF None(Analogs(row, FALSE)) THEN "demolition" ELSE "multiplicity"

\* the values that enter AVERAGE: the base price as it is, analogs scaled,
\* the TKP price as it is
Averaged(row, analogs, c, tkp) ==
  LET found == SetToSeq(UNION {{t} \X analogs[t] : t \in TaskIds})
      Price(n) == kept[<<KeyOf(row), found[n][1]>>][found[n][2]].price
  IN  <<row.price>> \o [n \in DOMAIN found |-> Price(n) * c]
        \o IF tkp = Missing \/ tkp <= 0 THEN <<>> ELSE <<tkp>>

\* CalculateAveragePrice, in whole units
Recommended(values) ==
  LET average == FoldLeft(LAMBDA a, b : a + b, 0, values) \div Len(values)
  IN  IF values[1] > average THEN values[1] ELSE average

\* ResolveSectionCode: demolition comes first, and a priority prefix never
\* stays without a section
SectionOf(row) ==
  IF row.code = Missing THEN Missing
  ELSE IF row.code \notin PriorityPrefixes THEN Section[row.code]
  ELSE IF row.demolition \/ Section[row.code] = Missing THEN "08"
  ELSE Section[row.code]

\* the key under which a price range is approved has the full unit
ExceptionKey(row) ==
  IF row.code = Missing \/ row.unit = Missing THEN <<>>
  ELSE <<row.unit, row.code, row.demolition>>

NoAnalogs == [t \in TaskIds |-> {}]

MatchRow ==
  /\ stage = "match"
  /\ \E row \in EstimateRows, c \in RegionalCoefficients, tkp \in TkpPrices :
     \E reason \in {Reason(row)} :
     \E found \in {IF reason = "matched" THEN Analogs(row, TRUE) ELSE NoAnalogs} :
       outcome' = [row |-> row, reason |-> reason, analogs |-> found,
                   price |-> IF row.price <= 0 THEN Missing
                             ELSE Recommended(Averaged(row, found, c, tkp)),
                   section |-> SectionOf(row), key |-> ExceptionKey(row),
                   suffixed |-> ~None(found)]
  /\ stage' = "matched"
  /\ UNCHANGED <<read, raw, left, kept>>

MatchNext ==
  \/ AddRow \/ BuildDone \/ DedupDone \/ MatchRow
  \/ \E g \in Groups : Compare(g)

MatchSpec == MatchInit /\ [][MatchNext]_matchVars
--------------------------------------------------------------------------------
(* Properties                                                                  *)

(* The groups keep their shape, and none has an entry that is not to be taken. *)
MatchTypeOK ==
  /\ stage \in {"build", "dedup", "match", "matched"}
  /\ read \in 0..MaxRead
  /\ \A entries \in {raw, left, kept} :
       entries \in [Groups -> Seq({e \in CatalogRows : e.price > 0 /\ ~e.excluded})]

(* No entry that is kept absorbs a later kept one, however the rows were       *)
(* ordered and however chains of close prices overlap (_deduplicate_catalog).  *)
KeptAreApart ==
  \A g \in Groups : \A i, j \in Positions(g) :
    i < j => ~Near(kept[g][i], kept[g][j])

(* A catalog entry of the row's own kind that states the row's own number of   *)
(* layers, or any number if the row states none, is never lost to the row: its *)
(* task offers an analog within 4 % of it.  (An entry that states none may be: *)
(* one with another count can absorb it.)                                      *)
NoAnalogLost ==
  outcome # NoOutcome /\ outcome.reason \notin {"excluded", "invalid"} =>
    \A t \in TaskIds : \A n \in DOMAIN raw[<<KeyOf(outcome.row), t>>] :
      LET e == raw[<<KeyOf(outcome.row), t>>][n]
      IN  SameKind(outcome.row, e)
            /\ (outcome.row.layers = 0 \/ e.layers = outcome.row.layers)
          => \E i \in outcome.analogs[t] :
               LET k == kept[<<KeyOf(outcome.row), t>>][i]
               IN  25 * Distance(e.price, k.price) <= k.price

(* The reason shown for a row without analogs is true of the catalog as it was *)
(* read, not only of what deduplication left: no entry of the key, or none of  *)
(* the row's kind, or none that states a fitting number (MatchEstimateRow).    *)
ReasonTellsWhy ==
  outcome # NoOutcome /\ outcome.reason \notin {"excluded", "invalid"} =>
    LET entries == {e \in CatalogRows : \E t \in TaskIds :
                      \E n \in DOMAIN raw[<<KeyOf(outcome.row), t>>] :
                        raw[<<KeyOf(outcome.row), t>>][n] = e}
    IN  /\ outcome.reason = "no match" <=> entries = {}
        /\ outcome.reason = "demolition" <=>
             entries # {} /\ \A e \in entries : ~SameKind(outcome.row, e)
        /\ outcome.reason = "multiplicity" =>
             \A e \in entries : SameKind(outcome.row, e) => e.layers # outcome.row.layers
==============================================================================
