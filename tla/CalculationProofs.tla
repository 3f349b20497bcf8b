-------------------------- MODULE CalculationProofs --------------------------
(****************************************************************************)
(* Proofs about a calculation, for any catalog and estimate.  Of             *)
(* EstimateMatching: what deduplication keeps is apart, and what it drops     *)
(* costs no row its analogs or the true reason for having none.  Of           *)
(* ResultWriter: wherever its columns are put and whatever is inserted for    *)
(* them, the output is written apart from the source, and the formulas of     *)
(* the source follow.                                                         *)
(****************************************************************************)
EXTENDS EstimateMatching, ResultWriter, SequenceTheorems, FiniteSetTheorems,
        WellFoundedInduction, TLAPS

USE MatchingAssumption

Entry == {e \in CatalogRows : e.price > 0 /\ ~e.excluded}

(* Of every entry read, deduplication has kept one near it or has still to    *)
(* look at it; and it keeps nothing that was not read.                        *)
GroupInv(g) ==
  /\ \A i \in DOMAIN left[g] : \E n \in DOMAIN raw[g] : left[g][i] = raw[g][n]
  /\ \A i \in Positions(g) : \E n \in DOMAIN raw[g] : kept[g][i] = raw[g][n]
  /\ stage # "build" => \A n \in DOMAIN raw[g] :
       Absorbed(raw[g][n], kept[g]) \/ \E i \in DOMAIN left[g] : left[g][i] = raw[g][n]

OutcomeInv ==
  /\ stage # "matched" => outcome = NoOutcome
  /\ outcome # NoOutcome =>
       /\ outcome.row \in EstimateRows
       /\ outcome.reason = Reason(outcome.row)
       /\ outcome.analogs =
            IF outcome.reason = "matched" THEN Analogs(outcome.row, TRUE) ELSE NoAnalogs

MatchInv ==
  /\ MatchTypeOK /\ KeptAreApart
  /\ stage = "build" => \A g \in Groups : left[g] = <<>> /\ kept[g] = <<>>
  /\ stage \in {"match", "matched"} => \A g \in Groups : left[g] = <<>>
  /\ \A g \in Groups : GroupInv(g)
  /\ OutcomeInv

--------------------------------------------------------------------------------
(* Entries                                                                     *)

LEMMA GroupsTyped ==
  ASSUME MatchTypeOK
  PROVE  /\ raw \in [Groups -> Seq(Entry)] /\ left \in [Groups -> Seq(Entry)]
         /\ kept \in [Groups -> Seq(Entry)]
  BY DEF MatchTypeOK, Entry

(* A price is within 4 % of itself.                                           *)
LEMMA NearItself ==
  ASSUME NEW e \in Entry
  PROVE  Near(e, e)
  <1>1. e.price \in Int /\ e.price > 0
    BY DEF Entry, Row
  <1> QED BY <1>1 DEF Near, Distance

(* A priced row has a group for every task.                                   *)
LEMMA RowHasGroups ==
  ASSUME NEW row \in Row, Priced(row), NEW t \in TaskIds
  PROVE  <<KeyOf(row), t>> \in Groups
  BY DEF Row, Priced, KeyOf, Keys, Groups

--------------------------------------------------------------------------------
(* Steps                                                                       *)

LEMMA MatchInit_Inv ==
  ASSUME MatchInit
  PROVE  MatchInv
  <1>1. MatchTypeOK
    BY DEF MatchInit, MatchTypeOK
  <1> QED BY <1>1 DEF MatchInit, MatchInv, KeptAreApart, Positions, GroupInv, OutcomeInv

LEMMA AddRow_Inv ==
  ASSUME MatchInv, AddRow
  PROVE  MatchInv'
  <1>1. /\ stage = "build" /\ stage' = "build" /\ read \in 0..MaxRead /\ read < MaxRead
        /\ read' = read + 1 /\ left' = left /\ kept' = kept /\ outcome' = outcome
    BY DEF AddRow, MatchInv, MatchTypeOK
  <1>2. raw' \in [Groups -> Seq(Entry)]
    <2>1. PICK row \in CatalogRows :
            raw' = IF row.task = Missing \/ ~Priced(row) \/ row.excluded THEN raw
                   ELSE [raw EXCEPT ![<<KeyOf(row), row.task>>] = Append(@, row)]
      BY DEF AddRow
    <2>2. raw \in [Groups -> Seq(Entry)]
      BY GroupsTyped DEF MatchInv
    <2>3. CASE row.task = Missing \/ ~Priced(row) \/ row.excluded
      BY <2>1, <2>2, <2>3
    <2>4. CASE ~(row.task = Missing \/ ~Priced(row) \/ row.excluded)
      <3>1. row \in Entry /\ row \in Row /\ row.task \in TaskIds
        BY <2>4 DEF Entry, Priced, Row
      <3>2. PICK g : g = <<KeyOf(row), row.task>>
        OBVIOUS
      <3>3. g \in Groups
        BY <2>4, <3>1, <3>2, RowHasGroups
      <3>4. Append(raw[g], row) \in Seq(Entry)
        BY <2>2, <3>1, <3>3
      <3>5. raw' = [raw EXCEPT ![g] = Append(@, row)]
        BY <2>1, <2>4, <3>2
      <3> QED BY <2>2, <3>3, <3>4, <3>5
    <2> QED BY <2>3, <2>4
  <1>3. \A g \in Groups : left'[g] = <<>> /\ kept'[g] = <<>>
    BY <1>1 DEF MatchInv
  <1>4. MatchTypeOK'
    <2>1. read' \in 0..MaxRead
      BY <1>1
    <2> QED BY <1>1, <1>2, <2>1 DEF MatchInv, MatchTypeOK, Entry
  <1>5. \A g \in Groups : GroupInv(g)' /\ DOMAIN kept'[g] = {}
    BY <1>1, <1>3 DEF GroupInv, Positions
  <1>6. KeptAreApart'
    BY <1>5 DEF KeptAreApart, Positions
  <1>7. OutcomeInv'
    BY <1>1 DEF MatchInv, OutcomeInv
  <1> QED BY <1>1, <1>3, <1>4, <1>5, <1>6, <1>7 DEF MatchInv

LEMMA BuildDone_Inv ==
  ASSUME MatchInv, BuildDone
  PROVE  MatchInv'
  <1>1. /\ stage = "build" /\ stage' = "dedup" /\ left' = raw
        /\ UNCHANGED <<read, raw, kept, outcome>>
    BY DEF BuildDone
  <1>2. MatchTypeOK'
    BY <1>1 DEF MatchInv, MatchTypeOK
  <1>3. \A g \in Groups : GroupInv(g)'
    BY <1>1 DEF MatchInv, GroupInv, Positions
  <1>4. KeptAreApart' /\ OutcomeInv'
    BY <1>1 DEF MatchInv, KeptAreApart, Positions, OutcomeInv
  <1> QED BY <1>1, <1>2, <1>3, <1>4 DEF MatchInv

(* An entry is kept only if none kept before it is near.                      *)
LEMMA Compare_Inv ==
  ASSUME MatchInv, NEW g \in Groups, Compare(g)
  PROVE  MatchInv'
  <1> DEFINE e == Head(left[g])
  <1>1. /\ stage = "dedup" /\ stage' = "dedup" /\ left[g] # <<>>
        /\ UNCHANGED <<read, raw, outcome>>
        /\ left' = [left EXCEPT ![g] = Tail(@)]
        /\ kept' = IF Absorbed(e, kept[g]) THEN kept ELSE [kept EXCEPT ![g] = Append(@, e)]
    BY DEF Compare
  <1>2. /\ raw \in [Groups -> Seq(Entry)] /\ left \in [Groups -> Seq(Entry)]
        /\ kept \in [Groups -> Seq(Entry)]
    BY GroupsTyped DEF MatchInv
  <1>3. /\ e \in Entry /\ Len(left[g]) \in Nat /\ Len(left[g]) >= 1 /\ left[g][1] = e
        /\ Tail(left[g]) \in Seq(Entry) /\ Len(Tail(left[g])) = Len(left[g]) - 1
        /\ \A i \in 1..Len(Tail(left[g])) : Tail(left[g])[i] = left[g][i + 1]
        /\ DOMAIN left[g] = 1..Len(left[g]) /\ DOMAIN Tail(left[g]) = 1..Len(Tail(left[g]))
    BY <1>1, <1>2, HeadTailProperties
  <1>4. PICK n \in DOMAIN raw[g] : e = raw[g][n]
    BY <1>3 DEF MatchInv, GroupInv
  <1>5. \A h \in Groups \ {g} : left'[h] = left[h] /\ kept'[h] = kept[h]
    BY <1>1, <1>2
  <1>6. left'[g] = Tail(left[g]) /\ left' \in [Groups -> Seq(Entry)]
    BY <1>1, <1>2, <1>3
  <1>7. PICK m \in Nat : m = Len(kept[g]) /\ DOMAIN kept[g] = 1..m
    BY <1>2
  <1> HIDE DEF e
  <1>8. /\ kept' \in [Groups -> Seq(Entry)]
        /\ \A i \in 1..m : i \in DOMAIN kept'[g] /\ kept'[g][i] = kept[g][i]
        /\ \/ Absorbed(e, kept[g]) /\ DOMAIN kept'[g] = 1..m
           \/ /\ ~Absorbed(e, kept[g]) /\ DOMAIN kept'[g] = 1..(m + 1)
              /\ kept'[g][m + 1] = e
    <2>1. CASE Absorbed(e, kept[g])
      BY <1>1, <1>2, <1>7, <2>1
    <2>2. CASE ~Absorbed(e, kept[g])
      <3>1. kept' = [kept EXCEPT ![g] = Append(@, e)] /\ kept'[g] = Append(kept[g], e)
        BY <1>1, <1>2, <2>2
      <3>2. /\ Append(kept[g], e) \in Seq(Entry) /\ Len(Append(kept[g], e)) = m + 1
            /\ \A i \in 1..m : Append(kept[g], e)[i] = kept[g][i]
            /\ Append(kept[g], e)[m + 1] = e
            /\ DOMAIN Append(kept[g], e) = 1..(m + 1)
        BY <1>2, <1>3, <1>7, AppendProperties
      <3> QED BY <1>2, <2>2, <3>1, <3>2
    <2> QED BY <2>1, <2>2
  <1>9. ASSUME NEW x, Absorbed(x, kept[g]) PROVE Absorbed(x, kept'[g])
    BY <1>7, <1>8, <1>9 DEF Absorbed
  <1>10. Absorbed(e, kept'[g])
    <2>1. CASE Absorbed(e, kept[g])
      BY <1>9, <2>1
    <2>2. CASE ~Absorbed(e, kept[g])
      BY <1>3, <1>8, <2>2, NearItself DEF Absorbed
    <2> QED BY <2>1, <2>2
  <1>11. GroupInv(g)'
    <2>1. \A i \in DOMAIN left'[g] : \E j \in DOMAIN left[g] : left'[g][i] = left[g][j]
      <3>1. \A i \in 1..Len(Tail(left[g])) : i + 1 \in 1..Len(left[g])
        BY <1>3
      <3> QED BY <1>3, <1>6, <3>1
    <2>2. \A i \in DOMAIN left'[g] : \E k \in DOMAIN raw[g] : left'[g][i] = raw[g][k]
      BY <2>1 DEF MatchInv, GroupInv
    <2>3. \A i \in DOMAIN kept'[g] : \E k \in DOMAIN raw[g] : kept'[g][i] = raw[g][k]
      <3>1. \A i \in 1..m : \E k \in DOMAIN raw[g] : kept[g][i] = raw[g][k]
        BY <1>7 DEF MatchInv, GroupInv, Positions
      <3>2. \A i \in DOMAIN kept'[g] : i \in 1..m \/ kept'[g][i] = e
        BY <1>8
      <3> QED BY <1>4, <1>8, <3>1, <3>2
    <2>4. ASSUME NEW k \in DOMAIN raw[g]
          PROVE  Absorbed(raw[g][k], kept'[g])
                 \/ \E i \in DOMAIN left'[g] : left'[g][i] = raw[g][k]
      <3>1. CASE Absorbed(raw[g][k], kept[g])
        BY <1>9, <3>1
      <3>2. CASE ~Absorbed(raw[g][k], kept[g])
        <4>1. PICK i \in DOMAIN left[g] : left[g][i] = raw[g][k]
          BY <1>1, <3>2 DEF MatchInv, GroupInv
        <4>2. CASE i = 1
          BY <1>3, <1>10, <4>1, <4>2
        <4>3. CASE i # 1
          <5>1. i - 1 \in DOMAIN Tail(left[g]) /\ Tail(left[g])[i - 1] = left[g][i]
            BY <1>3, <4>3
          <5> QED BY <1>6, <4>1, <5>1
        <4> QED BY <4>2, <4>3
      <3> QED BY <3>1, <3>2
    <2> QED BY <1>1, <2>2, <2>3, <2>4 DEF GroupInv, Positions
  <1>12. \A h \in Groups : GroupInv(h)'
    <2> SUFFICES ASSUME NEW h \in Groups \ {g} PROVE GroupInv(h)'
      BY <1>11
    <2>1. GroupInv(h)
      BY DEF MatchInv
    <2> QED BY <1>1, <1>5, <2>1 DEF GroupInv, Positions
  <1>13. KeptAreApart'
    <2> SUFFICES ASSUME NEW h \in Groups, NEW i \in DOMAIN kept'[h], NEW j \in DOMAIN kept'[h],
                        i < j
                 PROVE  ~Near(kept'[h][i], kept'[h][j])
      BY DEF KeptAreApart, Positions
    <2>1. CASE h # g
      BY <1>5, <2>1 DEF MatchInv, KeptAreApart, Positions
    <2>2. CASE h = g /\ j \in 1..m
      <3>1. i \in 1..m
        BY <1>8, <2>2
      <3> QED BY <1>7, <1>8, <2>2, <3>1 DEF MatchInv, KeptAreApart, Positions
    <2>3. CASE h = g /\ j \notin 1..m
      <3>1. ~Absorbed(e, kept[g]) /\ j = m + 1 /\ kept'[g][j] = e /\ i \in 1..m
        BY <1>8, <2>3
      <3> QED BY <1>7, <1>8, <2>3, <3>1 DEF Absorbed
    <2> QED BY <2>1, <2>2, <2>3
  <1>14. MatchTypeOK'
    BY <1>1, <1>6, <1>8 DEF MatchInv, MatchTypeOK, Entry
  <1>15. OutcomeInv'
    BY <1>1 DEF MatchInv, OutcomeInv
  <1> QED BY <1>1, <1>12, <1>13, <1>14, <1>15 DEF MatchInv

LEMMA DedupDone_Inv ==
  ASSUME MatchInv, DedupDone
  PROVE  MatchInv'
  <1>1. /\ stage = "dedup" /\ stage' = "match" /\ UNCHANGED <<read, raw, left, kept, outcome>>
        /\ \A g \in Groups : left[g] = <<>>
    BY DEF DedupDone
  <1>2. MatchTypeOK' /\ KeptAreApart' /\ OutcomeInv'
    BY <1>1 DEF MatchInv, MatchTypeOK, KeptAreApart, Positions, OutcomeInv
  <1>3. \A g \in Groups : GroupInv(g)'
    BY <1>1 DEF MatchInv, GroupInv, Positions
  <1> QED BY <1>1, <1>2, <1>3 DEF MatchInv

LEMMA ReasonStays ==
  ASSUME NEW row, kept' = kept
  PROVE  Reason(row)' = Reason(row)
  <1>1. Analogs(row, TRUE)' = Analogs(row, TRUE) /\ Analogs(row, FALSE)' = Analogs(row, FALSE)
    BY DEF Analogs, Positions
  <1>2. /\ None(Analogs(row, TRUE))' = None(Analogs(row, TRUE))
        /\ None(Analogs(row, FALSE))' = None(Analogs(row, FALSE))
    BY <1>1 DEF None
  <1> QED BY <1>2 DEF Reason

LEMMA MatchRow_Inv ==
  ASSUME MatchInv, MatchRow
  PROVE  MatchInv'
  <1>1. /\ stage = "match" /\ stage' = "matched" /\ UNCHANGED <<read, raw, left, kept>>
    BY DEF MatchRow
  <1>2. MatchTypeOK' /\ KeptAreApart'
    BY <1>1 DEF MatchInv, MatchTypeOK, KeptAreApart, Positions
  <1>3. \A g \in Groups : GroupInv(g)' /\ left'[g] = <<>>
    BY <1>1 DEF MatchInv, GroupInv, Positions
  <1>4. PICK row \in EstimateRows :
          /\ outcome'.row = row /\ outcome'.reason = Reason(row)
          /\ outcome'.analogs = IF Reason(row) = "matched" THEN Analogs(row, TRUE) ELSE NoAnalogs
    <2>1. PICK row \in EstimateRows : \E found, price, section, key, suffixed :
            /\ found = IF Reason(row) = "matched" THEN Analogs(row, TRUE) ELSE NoAnalogs
            /\ outcome' = [row |-> row, reason |-> Reason(row), analogs |-> found,
                           price |-> price, section |-> section, key |-> key,
                           suffixed |-> suffixed]
      BY ZenonT(30) DEF MatchRow
    <2>2. PICK found, price, section, key, suffixed :
            /\ found = IF Reason(row) = "matched" THEN Analogs(row, TRUE) ELSE NoAnalogs
            /\ outcome' = [row |-> row, reason |-> Reason(row), analogs |-> found,
                           price |-> price, section |-> section, key |-> key,
                           suffixed |-> suffixed]
      BY <2>1
    <2>3. /\ outcome'.row = row /\ outcome'.reason = Reason(row)
          /\ outcome'.analogs = found
      BY <2>2
    <2> QED BY <2>2, <2>3
  <1>5. \A layered : Analogs(row, layered)' = Analogs(row, layered)
    BY <1>1 DEF Analogs, Positions
  <1>6. Reason(row)' = Reason(row)
    BY <1>1, ReasonStays
  <1>7. OutcomeInv'
    BY <1>1, <1>4, <1>5, <1>6 DEF OutcomeInv
  <1> QED BY <1>1, <1>2, <1>3, <1>7 DEF MatchInv

LEMMA MatchInvStep == MatchInv /\ [MatchNext]_matchVars => MatchInv'
  <1> SUFFICES ASSUME MatchInv, [MatchNext]_matchVars PROVE MatchInv'
    OBVIOUS
  <1>1. CASE AddRow
    BY <1>1, AddRow_Inv
  <1>2. CASE BuildDone
    BY <1>2, BuildDone_Inv
  <1>3. CASE DedupDone
    BY <1>3, DedupDone_Inv
  <1>4. CASE MatchRow
    BY <1>4, MatchRow_Inv
  <1>5. CASE \E g \in Groups : Compare(g)
    BY <1>5, Compare_Inv
  <1>6. CASE UNCHANGED matchVars
    <2>1. UNCHANGED <<stage, read, raw, left, kept, outcome>>
      BY <1>6 DEF matchVars
    <2>2. MatchTypeOK' /\ KeptAreApart'
      BY <2>1 DEF MatchInv, MatchTypeOK, KeptAreApart, Positions
    <2>3. \A g \in Groups : GroupInv(g)'
      BY <2>1 DEF MatchInv, GroupInv, Positions
    <2>4. \A row, layered : Analogs(row, layered)' = Analogs(row, layered)
      BY <2>1 DEF Analogs, Positions
    <2>5. Reason(outcome.row)' = Reason(outcome.row)
      BY <2>1, <2>4 DEF Reason, None
    <2>6. OutcomeInv'
      BY <2>1, <2>4, <2>5 DEF MatchInv, OutcomeInv
    <2> QED BY <2>1, <2>2, <2>3, <2>6 DEF MatchInv
  <1> QED BY <1>1, <1>2, <1>3, <1>4, <1>5, <1>6 DEF MatchNext

LEMMA MatchInvHolds == MatchSpec => []MatchInv
  BY MatchInit_Inv, MatchInvStep, PTL DEF MatchSpec

--------------------------------------------------------------------------------
(* What a row is told                                                          *)

(* An entry near what it was dropped for fits the rows that the dropped one    *)
(* fitted by its own number of layers.                                        *)
LEMMA NearFits ==
  ASSUME NEW row, NEW e, NEW k, Near(k, e), SameKind(row, e),
         row.layers = 0 \/ e.layers = row.layers
  PROVE  Fits(row, k, TRUE)
  BY DEF Near, SameKind, Fits, Compatible

(* What the outcome says, once the catalog is deduplicated.                   *)
LEMMA Told ==
  ASSUME MatchInv, outcome # NoOutcome, outcome.reason \notin {"excluded", "invalid"}
  PROVE  /\ stage = "matched" /\ outcome.row \in Row /\ Priced(outcome.row)
         /\ outcome.reason = IF \A t \in TaskIds : kept[<<KeyOf(outcome.row), t>>] = <<>>
                               THEN "no match"
                             ELSE IF ~None(Analogs(outcome.row, TRUE)) THEN "matched"
                             ELSE IF None(Analogs(outcome.row, FALSE)) THEN "demolition"
                             ELSE "multiplicity"
         /\ outcome.reason = "matched" => outcome.analogs = Analogs(outcome.row, TRUE)
         /\ \A t \in TaskIds : <<KeyOf(outcome.row), t>> \in Groups
  <1>1. /\ stage = "matched" /\ outcome.row \in EstimateRows
        /\ outcome.reason = Reason(outcome.row)
        /\ outcome.reason = "matched" => outcome.analogs = Analogs(outcome.row, TRUE)
    BY DEF MatchInv, OutcomeInv
  <1>2. outcome.row \in Row /\ Priced(outcome.row)
    BY <1>1 DEF Reason
  <1>3. \A t \in TaskIds : <<KeyOf(outcome.row), t>> \in Groups
    BY <1>2, RowHasGroups
  <1>4. ~outcome.row.excluded
    BY <1>1 DEF Reason
  <1> QED BY <1>1, <1>2, <1>3, <1>4 DEF Reason

(* Every entry read is near one kept, and every one kept was read.            *)
LEMMA ReadIsNearKept ==
  ASSUME MatchInv, stage = "matched", NEW g \in Groups
  PROVE  /\ \A n \in DOMAIN raw[g] : \E i \in Positions(g) : Near(kept[g][i], raw[g][n])
         /\ \A i \in Positions(g) : \E n \in DOMAIN raw[g] : kept[g][i] = raw[g][n]
  <1>1. left[g] = <<>> /\ GroupInv(g)
    BY DEF MatchInv
  <1> QED BY <1>1 DEF GroupInv, Absorbed, Positions

(* An entry that fits by its own number of layers leaves the row an analog.    *)
LEMMA AnalogLeft ==
  ASSUME MatchInv, outcome # NoOutcome, outcome.reason \notin {"excluded", "invalid"},
         NEW t \in TaskIds, NEW n \in DOMAIN raw[<<KeyOf(outcome.row), t>>], NEW e,
         e = raw[<<KeyOf(outcome.row), t>>][n], SameKind(outcome.row, e),
         outcome.row.layers = 0 \/ e.layers = outcome.row.layers
  PROVE  /\ outcome.reason = "matched"
         /\ \E i \in outcome.analogs[t] : Near(kept[<<KeyOf(outcome.row), t>>][i], e)
  <1>1. PICK g : g = <<KeyOf(outcome.row), t>>
    OBVIOUS
  <1>2. g \in Groups /\ stage = "matched"
    BY <1>1, Told
  <1>3. PICK i \in Positions(g) : Near(kept[g][i], e)
    BY <1>1, <1>2, ReadIsNearKept
  <1>4. Fits(outcome.row, kept[g][i], TRUE)
    BY <1>3, NearFits
  <1>5. i \in Analogs(outcome.row, TRUE)[t]
    BY <1>1, <1>3, <1>4 DEF Analogs
  <1>6. kept[g] # <<>> /\ ~None(Analogs(outcome.row, TRUE))
    <2>1. kept[g] \in Seq(Entry)
      BY <1>2, GroupsTyped DEF MatchInv
    <2>2. kept[g] # <<>>
      BY <1>3, <2>1 DEF Positions
    <2> QED BY <1>5, <2>2 DEF None
  <1>7. outcome.reason = "matched" /\ outcome.analogs = Analogs(outcome.row, TRUE)
    BY <1>1, <1>6, Told
  <1> QED BY <1>1, <1>3, <1>5, <1>7

(* The groups keep their shape, and none has an entry that is not to be taken. *)
THEOREM GroupsAreTyped == MatchSpec => []MatchTypeOK
  <1>1. MatchInv => MatchTypeOK
    BY DEF MatchInv
  <1> QED BY <1>1, MatchInvHolds, PTL

(* No kept entry absorbs a later kept one, whatever the order and the prices   *)
(* of the rows (_deduplicate_catalog).                                        *)
THEOREM KeptStayApart == MatchSpec => []KeptAreApart
  <1>1. MatchInv => KeptAreApart
    BY DEF MatchInv
  <1> QED BY <1>1, MatchInvHolds, PTL

(* Deduplication costs no row an entry of its kind and number of layers: its   *)
(* task keeps an analog within 4 % of it.                                     *)
THEOREM AnalogsAreFound == MatchSpec => []NoAnalogLost
  <1>1. MatchInv => NoAnalogLost
    <2> SUFFICES ASSUME MatchInv, outcome # NoOutcome,
                        outcome.reason \notin {"excluded", "invalid"}, NEW t \in TaskIds,
                        NEW n \in DOMAIN raw[<<KeyOf(outcome.row), t>>],
                        NEW e, e = raw[<<KeyOf(outcome.row), t>>][n],
                        SameKind(outcome.row, e),
                        outcome.row.layers = 0 \/ e.layers = outcome.row.layers
                 PROVE  \E i \in outcome.analogs[t] :
                          25 * Distance(e.price, kept[<<KeyOf(outcome.row), t>>][i].price)
                            <= kept[<<KeyOf(outcome.row), t>>][i].price
      BY DEF NoAnalogLost
    <2> QED BY AnalogLeft DEF Near
  <1> QED BY <1>1, MatchInvHolds, PTL

(* The reason a row is shown is true of the catalog as it was read.           *)
THEOREM ReasonIsTrue == MatchSpec => []ReasonTellsWhy
  <1>1. MatchInv => ReasonTellsWhy
    <2> SUFFICES ASSUME MatchInv, outcome # NoOutcome,
                        outcome.reason \notin {"excluded", "invalid"}
                 PROVE  ReasonTellsWhy
      BY DEF ReasonTellsWhy
    <2> DEFINE row == outcome.row
               G(t) == <<KeyOf(row), t>>
               entries == {e \in CatalogRows : \E t \in TaskIds :
                             \E n \in DOMAIN raw[G(t)] : raw[G(t)][n] = e}
    <2>1. \A t \in TaskIds : \A n \in DOMAIN raw[G(t)] : raw[G(t)][n] \in entries
      <3>1. \A t \in TaskIds : G(t) \in Groups
        BY Told
      <3>2. \A t \in TaskIds : raw[G(t)] \in Seq(Entry)
        BY <3>1, GroupsTyped DEF MatchInv
      <3>3. \A t \in TaskIds : \A n \in DOMAIN raw[G(t)] : raw[G(t)][n] \in Entry
        BY <3>2
      <3>4. \A t \in TaskIds : \A n \in DOMAIN raw[G(t)] : raw[G(t)][n] \in CatalogRows
        BY <3>3 DEF Entry
      <3> QED BY <3>4
    <2>2. \A e \in entries : \E t \in TaskIds : \E i \in Positions(G(t)) :
            Near(kept[G(t)][i], e)
      <3> TAKE e \in entries
      <3>1. PICK t \in TaskIds : \E n \in DOMAIN raw[G(t)] : raw[G(t)][n] = e
        OBVIOUS
      <3>2. PICK n \in DOMAIN raw[G(t)] : raw[G(t)][n] = e
        BY <3>1
      <3>3. G(t) \in Groups /\ stage = "matched"
        BY Told
      <3>4. \E i \in Positions(G(t)) : Near(kept[G(t)][i], raw[G(t)][n])
        BY <3>3, ReadIsNearKept
      <3> QED BY <3>2, <3>4
    <2>3. \A t \in TaskIds : \A i \in Positions(G(t)) : kept[G(t)][i] \in entries
      <3> TAKE t \in TaskIds
      <3> TAKE i \in Positions(G(t))
      <3>1. G(t) \in Groups /\ stage = "matched"
        BY Told
      <3>2. \E n \in DOMAIN raw[G(t)] : kept[G(t)][i] = raw[G(t)][n]
        BY <3>1, ReadIsNearKept
      <3> HIDE DEF entries
      <3> QED BY <2>1, <3>2
    <2>4. \A t \in TaskIds : kept[G(t)] = <<>> <=> Positions(G(t)) = {}
      <3> TAKE t \in TaskIds
      <3>1. kept[G(t)] \in Seq(Entry)
        BY Told, GroupsTyped DEF MatchInv
      <3>2. \A seq \in Seq(Entry) : seq = <<>> <=> DOMAIN seq = {}
        OBVIOUS
      <3> QED BY <3>1, <3>2 DEF Positions
    <2>5. None(Analogs(row, FALSE)) <=>
            \A t \in TaskIds : \A i \in Positions(G(t)) : ~SameKind(row, kept[G(t)][i])
      BY DEF None, Analogs, Fits
    <2>6. None(Analogs(row, FALSE)) => None(Analogs(row, TRUE))
      BY DEF None, Analogs, Fits
    <2>7. None(Analogs(row, FALSE)) <=> \A e \in entries : ~SameKind(row, e)
      <3>1. ASSUME None(Analogs(row, FALSE)), NEW e \in entries PROVE ~SameKind(row, e)
        <4>1. PICK t \in TaskIds : \E i \in Positions(G(t)) : Near(kept[G(t)][i], e)
          BY <2>2
        <4>2. PICK i \in Positions(G(t)) : Near(kept[G(t)][i], e)
          BY <4>1
        <4>3. ~SameKind(row, kept[G(t)][i])
          BY <2>5, <3>1
        <4> QED BY <4>2, <4>3 DEF Near, SameKind
      <3>2. ASSUME \A e \in entries : ~SameKind(row, e) PROVE None(Analogs(row, FALSE))
        BY <2>3, <2>5, <3>2
      <3> QED BY <3>1, <3>2
    <2>8. (\A t \in TaskIds : kept[G(t)] = <<>>) <=> entries = {}
      BY <2>2, <2>3, <2>4
    <2>9. ASSUME outcome.reason = "multiplicity", NEW e \in entries, SameKind(row, e),
                 e.layers = row.layers
          PROVE  FALSE
      BY <2>9, AnalogLeft
    <2>10. outcome.reason = IF entries = {} THEN "no match"
                            ELSE IF ~None(Analogs(row, TRUE)) THEN "matched"
                            ELSE IF None(Analogs(row, FALSE)) THEN "demolition"
                            ELSE "multiplicity"
      BY <2>8, Told
    <2> HIDE DEF entries, row
    <2>11. /\ outcome.reason = "no match" <=> entries = {}
           /\ outcome.reason = "demolition" <=>
                entries # {} /\ \A e \in entries : ~SameKind(row, e)
           /\ outcome.reason = "multiplicity" =>
                \A e \in entries : SameKind(row, e) => e.layers # row.layers
      BY <2>6, <2>7, <2>9, <2>10
    <2> QED BY <2>11 DEF ReasonTellsWhy, entries, row
  <1> QED BY <1>1, MatchInvHolds, PTL

HIDE MatchingAssumption
USE SheetAssumption, WriterAssumption

--------------------------------------------------------------------------------
(* Least and greatest                                                          *)

LEMMA LeastNat ==
  ASSUME NEW T \in SUBSET Nat, T # {}
  PROVE  \E x \in T : \A y \in T : x <= y
  <1> DEFINE R == OpToRel(<, Nat)
  <1>1. \E x \in T : \A y \in T : ~(<<y, x>> \in R)
    BY NatLessThanWellFounded, WFMin
  <1>2. \A x, y \in Nat : y < x => <<y, x>> \in R
    BY DEF OpToRel
  <1> HIDE DEF R
  <1>3. ASSUME NEW x \in T, NEW y \in T, ~(<<y, x>> \in R) PROVE x <= y
    BY <1>2, <1>3
  <1> QED BY <1>1, <1>3

LEMMA LeastOfIs ==
  ASSUME NEW T \in SUBSET Nat, T # {}
  PROVE  LeastOf(T) \in T /\ \A y \in T : LeastOf(T) <= y
  BY LeastNat DEF LeastOf

LEMMA GreatestIsMax ==
  ASSUME NEW T \in SUBSET Nat, T # {}, NEW n \in Nat, \A x \in T : x <= n
  PROVE  Max(T) \in T /\ \A x \in T : x <= Max(T)
  <1> DEFINE U == {b \in Nat : \A x \in T : x <= b}
  <1>1. PICK b \in U : \A c \in U : b <= c
    <2>1. n \in U
      OBVIOUS
    <2> QED BY <2>1, LeastNat
  <1>2. b \in T
    <2> SUFFICES ASSUME b \notin T PROVE FALSE
      OBVIOUS
    <2>1. PICK x \in T : TRUE
      OBVIOUS
    <2>2. b \in Nat /\ \A y \in T : y < b
      OBVIOUS
    <2>3. b - 1 \in U
      BY <2>1, <2>2
    <2> QED BY <1>1, <2>2, <2>3
  <1>3. \A x \in T : x <= b /\ x \in Nat
    OBVIOUS
  <1> QED BY <1>2, <1>3 DEF Max

--------------------------------------------------------------------------------
(* The order of the analogs' columns                                           *)

(* What may be found for the rows.                                            *)
AnalogsOK(found) ==
  \A r \in DOMAIN found :
    /\ r \in Nat
    /\ \A n \in DOMAIN found[r] : n \in Nat /\ found[r][n] \in AnalogTasks \X (1..Width)

LEMMA FoundIsOK ==
  ASSUME NEW R \in SUBSET (1..Height), NEW found \in [R -> AnalogRows]
  PROVE  AnalogsOK(found)
  <1>1. ASSUME NEW r \in R
        PROVE  r \in Nat /\ found[r] \in Seq(AnalogTasks \X (1..Width))
    BY <1>1
  <1>2. ASSUME NEW q \in Seq(AnalogTasks \X (1..Width)), NEW n \in DOMAIN q
        PROVE  n \in Nat /\ q[n] \in AnalogTasks \X (1..Width)
    BY <1>2, SMTT(30)
  <1> QED BY <1>1, <1>2 DEF AnalogsOK

LEMMA AnalogTyped ==
  ASSUME NEW found, AnalogsOK(found), NEW r \in DOMAIN found, NEW n \in DOMAIN found[r]
  PROVE  r \in Nat /\ n \in Nat /\ found[r][n] \in AnalogTasks \X (1..Width)
  BY DEF AnalogsOK

(* A task of the analogs has a first place.                                   *)
LEMMA FirstPlace ==
  ASSUME NEW found, AnalogsOK(found),
         NEW t \in TasksOf(found)
  PROVE  \E r \in DOMAIN found : \E n \in DOMAIN found[r] :
           /\ found[r][n][1] = t
           /\ \A q \in DOMAIN found : \A m \in DOMAIN found[q] :
                found[q][m][1] = t => q > r \/ (q = r /\ m >= n)
  <1> DEFINE Rows == {r \in DOMAIN found : \E n \in DOMAIN found[r] : found[r][n][1] = t}
  <1>1. Rows # {} /\ Rows \subseteq Nat
    <2>1. \E r \in DOMAIN found : \E n \in DOMAIN found[r] : found[r][n][1] = t
      BY DEF TasksOf
    <2>2. \A r \in DOMAIN found : r \in Nat
      BY DEF AnalogsOK
    <2> QED BY <2>1, <2>2
  <1>2. PICK r \in Rows : \A q \in Rows : r <= q
    BY <1>1, LeastNat
  <1> DEFINE Places == {n \in DOMAIN found[r] : found[r][n][1] = t}
  <1>3. Places # {} /\ Places \subseteq Nat
    BY AnalogTyped
  <1>4. PICK n \in Places : \A m \in Places : n <= m
    BY <1>3, LeastNat
  <1>5. ASSUME NEW q \in DOMAIN found, NEW m \in DOMAIN found[q], found[q][m][1] = t
        PROVE  q > r \/ (q = r /\ m >= n)
    <2>1. q \in Rows /\ r <= q /\ q \in Nat /\ r \in Nat
      BY <1>1, <1>2, <1>5
    <2>2. CASE q = r
      BY <1>4, <1>5, <2>2, AnalogTyped
    <2> QED BY <2>1, <2>2
  <1> QED BY <1>5

LEMMA HighestIs ==
  ASSUME NEW found, AnalogsOK(found),
         NEW t \in TasksOf(found)
  PROVE  Highest(found, t) \in 1..Width
  <1> DEFINE K == {k \in 1..Width : \E r \in DOMAIN found : \E n \in DOMAIN found[r] :
                     found[r][n] = <<t, k>>}
  <1>1. PICK r \in DOMAIN found : \E n \in DOMAIN found[r] : found[r][n][1] = t
    BY DEF TasksOf
  <1>2. PICK n \in DOMAIN found[r] : found[r][n][1] = t
    BY <1>1
  <1>3. found[r][n] \in AnalogTasks \X (1..Width)
    BY AnalogTyped
  <1>4. found[r][n][2] \in 1..Width /\ found[r][n] = <<t, found[r][n][2]>>
    BY <1>2, <1>3
  <1>5. K # {}
    BY <1>4
  <1>6. K \in SUBSET Nat /\ (\A k \in K : k <= Width) /\ Width \in Nat
    OBVIOUS
  <1>7. Max(K) \in K
    BY <1>5, <1>6, GreatestIsMax
  <1> QED BY <1>7 DEF Highest

(* Which task's columns come first is a strict order of the tasks.            *)
LEMMA PrecedesIsTotal ==
  ASSUME NEW found, AnalogsOK(found),
         NEW t \in TasksOf(found), NEW u \in TasksOf(found), t # u
  PROVE  Precedes(found, t, u) \/ Precedes(found, u, t)
  <1>1. PICK r \in DOMAIN found : \E n \in DOMAIN found[r] :
           /\ found[r][n][1] = t
           /\ \A q \in DOMAIN found : \A m \in DOMAIN found[q] :
                found[q][m][1] = t => q > r \/ (q = r /\ m >= n)
    BY FirstPlace
  <1>2. PICK n \in DOMAIN found[r] :
           /\ found[r][n][1] = t
           /\ \A q \in DOMAIN found : \A m \in DOMAIN found[q] :
                found[q][m][1] = t => q > r \/ (q = r /\ m >= n)
    BY <1>1
  <1>3. PICK s \in DOMAIN found : \E k \in DOMAIN found[s] :
           /\ found[s][k][1] = u
           /\ \A q \in DOMAIN found : \A m \in DOMAIN found[q] :
                found[q][m][1] = u => q > s \/ (q = s /\ m >= k)
    BY FirstPlace
  <1>4. PICK k \in DOMAIN found[s] :
           /\ found[s][k][1] = u
           /\ \A q \in DOMAIN found : \A m \in DOMAIN found[q] :
                found[q][m][1] = u => q > s \/ (q = s /\ m >= k)
    BY <1>3
  <1>5. r \in Nat /\ n \in Nat /\ s \in Nat /\ k \in Nat
    BY AnalogTyped
  <1>6. CASE r < s \/ (r = s /\ n < k)
    <2>1. ASSUME NEW q \in DOMAIN found, NEW m \in DOMAIN found[q], found[q][m][1] = u
          PROVE  q > r \/ (q = r /\ m > n)
      <3>1. q \in Nat /\ m \in Nat
        BY AnalogTyped
      <3>2. q > s \/ (q = s /\ m >= k)
        BY <1>4, <2>1
      <3> QED BY <1>5, <1>6, <3>1, <3>2
    <2>2. AppearsBefore(found, t, u)
      BY <1>2, <2>1 DEF AppearsBefore
    <2> QED BY <2>2 DEF Precedes, TasksOf
  <1>7. CASE s < r \/ (r = s /\ k < n)
    <2>1. ASSUME NEW q \in DOMAIN found, NEW m \in DOMAIN found[q], found[q][m][1] = t
          PROVE  q > s \/ (q = s /\ m > k)
      <3>1. q \in Nat /\ m \in Nat
        BY AnalogTyped
      <3>2. q > r \/ (q = r /\ m >= n)
        BY <1>2, <2>1
      <3> QED BY <1>5, <1>7, <3>1, <3>2
    <2>2. AppearsBefore(found, u, t)
      BY <1>4, <2>1 DEF AppearsBefore
    <2> QED BY <2>2 DEF Precedes, TasksOf
  <1>8. ~(r = s /\ k = n)
    BY <1>2, <1>4
  <1> QED BY <1>5, <1>6, <1>7, <1>8

LEMMA PrecedesIsStrict ==
  ASSUME NEW found, AnalogsOK(found),
         NEW t \in TasksOf(found), NEW u \in TasksOf(found), NEW v \in TasksOf(found),
         Precedes(found, t, u)
  PROVE  /\ ~Precedes(found, u, t)
         /\ Precedes(found, u, v) => Precedes(found, t, v)
  <1>1. RegionRank[t] \in Nat /\ RegionRank[u] \in Nat /\ RegionRank[v] \in Nat
    BY DEF TasksOf
  <1>2. ASSUME AppearsBefore(found, t, u), AppearsBefore(found, u, v)
        PROVE  AppearsBefore(found, t, v) /\ t # v
    <2>1. PICK r \in DOMAIN found : \E n \in DOMAIN found[r] :
            /\ found[r][n][1] = t
            /\ \A q \in DOMAIN found : \A m \in DOMAIN found[q] :
                 found[q][m][1] = u => q > r \/ (q = r /\ m > n)
      BY <1>2 DEF AppearsBefore
    <2>2. PICK n \in DOMAIN found[r] :
            /\ found[r][n][1] = t
            /\ \A q \in DOMAIN found : \A m \in DOMAIN found[q] :
                 found[q][m][1] = u => q > r \/ (q = r /\ m > n)
      BY <2>1
    <2>3. PICK s \in DOMAIN found : \E k \in DOMAIN found[s] :
            /\ found[s][k][1] = u
            /\ \A q \in DOMAIN found : \A m \in DOMAIN found[q] :
                 found[q][m][1] = v => q > s \/ (q = s /\ m > k)
      BY <1>2 DEF AppearsBefore
    <2>4. PICK k \in DOMAIN found[s] :
            /\ found[s][k][1] = u
            /\ \A q \in DOMAIN found : \A m \in DOMAIN found[q] :
                 found[q][m][1] = v => q > s \/ (q = s /\ m > k)
      BY <2>3
    <2>5. r \in Nat /\ n \in Nat /\ s \in Nat /\ k \in Nat
      BY AnalogTyped
    <2>6. s > r \/ (s = r /\ k > n)
      BY <2>2, <2>4
    <2>7. ASSUME NEW q \in DOMAIN found, NEW m \in DOMAIN found[q], found[q][m][1] = v
          PROVE  q > r \/ (q = r /\ m > n)
      <3>1. q \in Nat /\ m \in Nat
        BY AnalogTyped
      <3>2. q > s \/ (q = s /\ m > k)
        BY <2>4, <2>7
      <3> QED BY <2>5, <2>6, <3>1, <3>2
    <2>8. t # v
      BY <2>2, <2>5, <2>7
    <2> QED BY <2>2, <2>7, <2>8 DEF AppearsBefore
  <1>3. ~(AppearsBefore(found, t, u) /\ AppearsBefore(found, u, t))
    <2> SUFFICES ASSUME AppearsBefore(found, t, u), AppearsBefore(found, u, t)
                 PROVE  FALSE
      OBVIOUS
    <2>1. PICK r \in DOMAIN found : \E n \in DOMAIN found[r] :
            /\ found[r][n][1] = t
            /\ \A q \in DOMAIN found : \A m \in DOMAIN found[q] :
                 found[q][m][1] = u => q > r \/ (q = r /\ m > n)
      BY DEF AppearsBefore
    <2>2. PICK n \in DOMAIN found[r] :
            /\ found[r][n][1] = t
            /\ \A q \in DOMAIN found : \A m \in DOMAIN found[q] :
                 found[q][m][1] = u => q > r \/ (q = r /\ m > n)
      BY <2>1
    <2>3. PICK s \in DOMAIN found : \E k \in DOMAIN found[s] :
            /\ found[s][k][1] = u
            /\ \A q \in DOMAIN found : \A m \in DOMAIN found[q] :
                 found[q][m][1] = t => q > s \/ (q = s /\ m > k)
      BY DEF AppearsBefore
    <2>4. PICK k \in DOMAIN found[s] :
            /\ found[s][k][1] = u
            /\ \A q \in DOMAIN found : \A m \in DOMAIN found[q] :
                 found[q][m][1] = t => q > s \/ (q = s /\ m > k)
      BY <2>3
    <2>5. r \in Nat /\ n \in Nat /\ s \in Nat /\ k \in Nat
      BY AnalogTyped
    <2> QED BY <2>2, <2>4, <2>5
  <1>4. ~Precedes(found, u, t)
    BY <1>1, <1>3 DEF Precedes
  <1>5. ASSUME Precedes(found, u, v) PROVE Precedes(found, t, v)
    <2>1. t # v
      BY <1>4, <1>5
    <2> QED BY <1>1, <1>2, <1>5, <2>1 DEF Precedes
  <1> QED BY <1>4, <1>5

LEMMA SlotsAre ==
  ASSUME NEW found, AnalogsOK(found)
  PROVE  /\ IsFiniteSet(Slots(found)) /\ BlockWidth(found) \in Nat
         /\ \A t \in TasksOf(found) : \A k \in 1..Highest(found, t) :
              <<t, k>> \in Slots(found)
         /\ \A s \in Slots(found) :
              s[1] \in TasksOf(found) /\ s[2] \in 1..Highest(found, s[1]) /\ s = <<s[1], s[2]>>
  <1>1. \A s \in Slots(found) :
          s[1] \in TasksOf(found) /\ s[2] \in 1..Highest(found, s[1]) /\ s = <<s[1], s[2]>>
    BY DEF Slots
  <1>2. ASSUME NEW s \in Slots(found)
        PROVE  s \in AnalogTasks \X (1..Width)
    <2>1. s[1] \in AnalogTasks
      BY <1>1 DEF TasksOf
    <2>2. Highest(found, s[1]) \in 1..Width
      BY <1>1, HighestIs
    <2>3. s[2] \in 1..Width
      BY <1>1, <2>2
    <2>4. s = <<s[1], s[2]>>
      BY <1>1
    <2> QED BY <2>1, <2>3, <2>4
  <1>3. IsFiniteSet(AnalogTasks \X (1..Width))
    <2>1. IsFiniteSet(1..Width)
      BY FS_Interval
    <2> HIDE SheetAssumption
    <2> QED BY <2>1, FS_Product
  <1>4. IsFiniteSet(Slots(found))
    BY <1>2, <1>3, FS_Subset
  <1>5. BlockWidth(found) \in Nat
    BY <1>4, FS_CardinalityType DEF BlockWidth
  <1>6. \A t \in TasksOf(found) : \A k \in 1..Highest(found, t) : <<t, k>> \in Slots(found)
    BY DEF Slots
  <1> QED BY <1>1, <1>4, <1>5, <1>6

(* The columns in front of one.                                               *)
InFront(found, t, k) ==
  {s \in Slots(found) : Precedes(found, s[1], t) \/ (s[1] = t /\ s[2] < k)}

LEMMA FrontIsFinite ==
  ASSUME NEW found, AnalogsOK(found), NEW t, NEW k
  PROVE  IsFiniteSet(InFront(found, t, k)) /\ Cardinality(InFront(found, t, k)) \in Nat
  BY SlotsAre, FS_Subset, FS_CardinalityType DEF InFront

(* A column that comes before another has fewer in front of it.               *)
LEMMA FrontGrows ==
  ASSUME NEW found, AnalogsOK(found),
         NEW t \in TasksOf(found), NEW k \in 1..Highest(found, t),
         NEW u \in TasksOf(found), NEW j \in 1..Highest(found, u),
         Precedes(found, t, u) \/ (t = u /\ k < j)
  PROVE  Cardinality(InFront(found, t, k)) < Cardinality(InFront(found, u, j))
  <1>1. Highest(found, t) \in Nat /\ Highest(found, u) \in Nat
    BY HighestIs
  <1>2. k \in Nat /\ j \in Nat
    BY <1>1
  <1>3. ASSUME NEW s \in InFront(found, t, k)
        PROVE  s \in InFront(found, u, j)
    <2>1. /\ s \in Slots(found) /\ s[1] \in TasksOf(found) /\ s[2] \in Nat
          /\ Precedes(found, s[1], t) \/ (s[1] = t /\ s[2] < k)
      BY SlotsAre, HighestIs, SMTT(30) DEF InFront
    <2>2. CASE Precedes(found, t, u)
      <3>1. Precedes(found, s[1], u)
        BY <2>1, <2>2, PrecedesIsStrict
      <3> QED BY <2>1, <3>1 DEF InFront
    <2>3. CASE t = u /\ k < j
      BY <1>2, <2>1, <2>3 DEF InFront
    <2> QED BY <2>2, <2>3
  <1>4. <<t, k>> \in InFront(found, u, j)
    BY SlotsAre DEF InFront
  <1>5. <<t, k>> \notin InFront(found, t, k)
    BY <1>2 DEF InFront, Precedes
  <1>6. /\ IsFiniteSet(InFront(found, u, j)) /\ Cardinality(InFront(found, u, j)) \in Nat
        /\ Cardinality(InFront(found, t, k)) \in Nat
    BY FrontIsFinite
  <1>7. /\ Cardinality(InFront(found, t, k)) <= Cardinality(InFront(found, u, j))
        /\ Cardinality(InFront(found, t, k)) # Cardinality(InFront(found, u, j))
    BY <1>3, <1>4, <1>5, <1>6, FS_Subset
  <1> QED BY <1>6, <1>7

LEMMA FrontOfNext ==
  ASSUME NEW found, AnalogsOK(found),
         NEW t \in TasksOf(found), NEW k \in 1..Highest(found, t), k > 1
  PROVE  Cardinality(InFront(found, t, k)) = Cardinality(InFront(found, t, k - 1)) + 1
  <1>1. Highest(found, t) \in Nat /\ k \in Nat
    BY HighestIs
  <1>2. <<t, k - 1>> \in Slots(found)
    BY <1>1, SlotsAre, SMTT(30)
  <1>3. <<t, k - 1>> \notin InFront(found, t, k - 1)
    BY <1>1 DEF InFront, Precedes
  <1>4. ASSUME NEW s \in Slots(found)
        PROVE  s \in InFront(found, t, k) <=> s \in InFront(found, t, k - 1) \/ s = <<t, k - 1>>
    <2>1. s[2] \in Nat /\ s = <<s[1], s[2]>>
      BY SlotsAre, HighestIs, SMTT(30)
    <2> QED BY <1>1, <2>1, SMTT(30) DEF InFront
  <1>5. InFront(found, t, k) = InFront(found, t, k - 1) \cup {<<t, k - 1>>}
    <2>1. InFront(found, t, k) \subseteq Slots(found) /\ InFront(found, t, k - 1) \subseteq Slots(found)
      BY DEF InFront
    <2> QED BY <1>2, <1>4, <2>1
  <1>6. IsFiniteSet(InFront(found, t, k - 1))
    BY FrontIsFinite
  <1> QED BY <1>3, <1>5, <1>6, FS_AddElement

LEMMA Grouped ==
  ASSUME NEW found, AnalogsOK(found), NEW first \in Int,
         NEW t \in TasksOf(found), NEW k \in 1..Highest(found, t),
         NEW u \in TasksOf(found), NEW j \in 1..Highest(found, u)
  PROVE  /\ ColumnOf(found, first, t, k) = ColumnOf(found, first, u, j) => t = u /\ k = j
         /\ RegionRank[t] < RegionRank[u]
              => ColumnOf(found, first, t, k) < ColumnOf(found, first, u, j)
         /\ k > 1 => ColumnOf(found, first, t, k) = ColumnOf(found, first, t, k - 1) + 1
  <1>1. ASSUME NEW v, NEW n
        PROVE  /\ ColumnOf(found, first, v, n) = first + Cardinality(InFront(found, v, n))
               /\ Cardinality(InFront(found, v, n)) \in Nat
    <2>1. ColumnOf(found, first, v, n) = first + Cardinality(InFront(found, v, n))
      BY DEF ColumnOf, InFront
    <2> QED BY <2>1, FrontIsFinite
  <1>2. k \in Nat /\ j \in Nat
    BY HighestIs
  <1>3. ASSUME t # u \/ k # j
        PROVE  ColumnOf(found, first, t, k) # ColumnOf(found, first, u, j)
    <2>1. CASE Precedes(found, t, u) \/ (t = u /\ k < j)
      BY <1>1, <2>1, FrontGrows
    <2>2. CASE Precedes(found, u, t) \/ (u = t /\ j < k)
      BY <1>1, <2>2, FrontGrows
    <2> QED BY <1>2, <1>3, <2>1, <2>2, PrecedesIsTotal
  <1>4. ASSUME RegionRank[t] < RegionRank[u]
        PROVE  ColumnOf(found, first, t, k) < ColumnOf(found, first, u, j)
    <2>1. RegionRank[t] \in Nat /\ RegionRank[u] \in Nat
      BY DEF TasksOf
    <2>2. Precedes(found, t, u)
      BY <1>4, <2>1 DEF Precedes
    <2> QED BY <1>1, <2>2, FrontGrows
  <1>5. ASSUME k > 1
        PROVE  ColumnOf(found, first, t, k) = ColumnOf(found, first, t, k - 1) + 1
    BY <1>1, <1>5, FrontOfNext, SMTT(30)
  <1> QED BY <1>3, <1>4, <1>5

--------------------------------------------------------------------------------
(* Cells                                                                       *)

LEMMA PageIs ==
  ASSUME NEW p \in Page, NEW c \in 1..Width
  PROVE  /\ p[c] \in Column /\ p[c].from \in 0..Width
         /\ p[c].cells \in [1..Height -> SheetCell]
         /\ p[c] = [from |-> p[c].from, cells |-> p[c].cells]
         /\ \A r \in 1..Height : p[c].cells[r] \in SheetCell
  <1>1. p[c] \in Column
    BY DEF Page
  <1> QED BY <1>1 DEF Column

LEMMA CellIs ==
  ASSUME NEW cell \in SheetCell
  PROVE  /\ cell.is \in Kinds /\ cell.of \subseteq HeadingMarks /\ cell.ref \in Nat
         /\ cell = [is |-> cell.is, of |-> cell.of, ref |-> cell.ref]
  BY DEF SheetCell

LEMMA NoTextIs ==
  /\ NoText \in SheetCell /\ NoText.is = "blank" /\ NoText.of = {} /\ NoText.ref = 0
  /\ ~IsFormula(NoText)
  BY DEF NoText, SheetCell, Kinds, IsFormula

LEMMA EmptyIs ==
  /\ EmptyColumn \in Column /\ EmptyColumn.from = 0
  /\ \A r \in 1..Height : EmptyColumn.cells[r] = NoText
  BY NoTextIs DEF EmptyColumn, Column

(* Moving its reference leaves everything else of a cell as it was.            *)
LEMMA RepointedIs ==
  ASSUME NEW cell \in SheetCell, NEW at \in Int
  PROVE  /\ Repointed(cell, at) \in SheetCell
         /\ Repointed(cell, at).is = cell.is /\ Repointed(cell, at).of = cell.of
         /\ Repointed(cell, at).ref = IF IsFormula(cell) /\ cell.ref >= at THEN cell.ref + 1
                                      ELSE cell.ref
         /\ ~IsFormula(cell) => Repointed(cell, at) = cell
  BY SMTT(30) DEF Repointed, SheetCell

(* The column that a column was before one was inserted.                       *)
Before(c, at) == IF c < at THEN c ELSE c - 1

(* What an inserted column moves keeps everything but its references.           *)
LEMMA InsertedColumn ==
  ASSUME NEW p \in Page, NEW at \in 1..Width, NEW c \in 1..Width, c # at
  PROVE  /\ Before(c, at) \in 1..Width
         /\ Inserted(p, at)[c] =
              [from |-> p[Before(c, at)].from,
               cells |-> [r \in 1..Height |-> Repointed(p[Before(c, at)].cells[r], at)]]
  <1>1. Before(c, at) \in 1..Width
    BY DEF Before
  <1> QED BY <1>1 DEF Inserted, Before

LEMMA InsertedFrom ==
  ASSUME NEW p \in Page, NEW at \in 1..Width, NEW c \in 1..Width, c # at
  PROVE  Inserted(p, at)[c].from = p[Before(c, at)].from
  <1>1. Before(c, at) \in 1..Width
    BY DEF Before
  <1> QED BY <1>1 DEF Inserted, Before

LEMMA InsertedIs ==
  ASSUME NEW p \in Page, NEW at \in 1..Width
  PROVE  /\ Inserted(p, at) \in Page
         /\ Inserted(p, at)[at] = EmptyColumn
  <1>1. ASSUME NEW c \in 1..Width
        PROVE  Inserted(p, at)[c] \in Column
    <2>1. CASE c = at
      BY <2>1, EmptyIs DEF Inserted
    <2>2. CASE c # at
      <3> DEFINE b == Before(c, at)
                 cells == [r \in 1..Height |-> Repointed(p[b].cells[r], at)]
      <3>1. b \in 1..Width /\ Inserted(p, at)[c] = [from |-> p[b].from, cells |-> cells]
        BY <2>2, InsertedColumn
      <3> HIDE DEF b
      <3>2. p[b].from \in 0..Width /\ \A r \in 1..Height : p[b].cells[r] \in SheetCell
        BY <3>1, PageIs
      <3>3. \A r \in 1..Height : Repointed(p[b].cells[r], at) \in SheetCell
        BY <3>2, RepointedIs
      <3>4. cells \in [1..Height -> SheetCell]
        BY <3>3
      <3> HIDE DEF cells
      <3> QED BY <3>1, <3>2, <3>4 DEF Column
    <2> QED BY <2>1, <2>2
  <1>2. Inserted(p, at) = [c \in 1..Width |-> Inserted(p, at)[c]]
    BY DEF Inserted
  <1>3. Inserted(p, at) \in Page
    BY <1>1, <1>2 DEF Page
  <1> QED BY <1>3 DEF Inserted

LEMMA InsertedCells ==
  ASSUME NEW p \in Page, NEW at \in 1..Width, NEW c \in 1..Width, c # at, NEW r \in 1..Height
  PROVE  LET old == p[Before(c, at)].cells[r]
             new == Inserted(p, at)[c].cells[r]
         IN  /\ Before(c, at) \in 1..Width
             /\ Inserted(p, at)[c].from = p[Before(c, at)].from
             /\ new.is = old.is /\ new.of = old.of
             /\ new.ref = IF IsFormula(old) /\ old.ref >= at THEN old.ref + 1 ELSE old.ref
             /\ ~IsFormula(old) => new = old
  <1> DEFINE b == Before(c, at)
             cells == [q \in 1..Height |-> Repointed(p[b].cells[q], at)]
  <1>1. b \in 1..Width /\ Inserted(p, at)[c] = [from |-> p[b].from, cells |-> cells]
    BY InsertedColumn
  <1>2. cells[r] = Repointed(p[b].cells[r], at)
    OBVIOUS
  <1> HIDE DEF b, cells
  <1>3. p[b].cells[r] \in SheetCell
    BY <1>1, PageIs
  <1>4. /\ Inserted(p, at)[c].from = p[b].from
        /\ Inserted(p, at)[c].cells[r] = Repointed(p[b].cells[r], at)
    BY <1>1, <1>2
  <1>5. ASSUME NEW old, old = p[b].cells[r]
        PROVE  LET new == Repointed(old, at)
               IN  /\ new.is = old.is /\ new.of = old.of
                   /\ new.ref = IF IsFormula(old) /\ old.ref >= at THEN old.ref + 1 ELSE old.ref
                   /\ ~IsFormula(old) => new = old
    <2>1. old \in SheetCell /\ at \in Int
      BY <1>3, <1>5
    <2> QED BY <2>1, RepointedIs
  <1> QED BY <1>1, <1>4, <1>5 DEF b

(* A heading goes into one cell, if that is blank.                             *)
LEMMA HeadedIs ==
  ASSUME NEW p \in Page, NEW r, NEW c, NEW mark \in SUBSET HeadingMarks
  PROVE  /\ Headed(p, r, c, mark) \in Page
         /\ \A b \in 1..Width :
              /\ Headed(p, r, c, mark)[b].from = p[b].from
              /\ \A q \in 1..Height :
                   \/ Headed(p, r, c, mark)[b].cells[q] = p[b].cells[q]
                   \/ /\ b = c /\ q = r /\ p[b].cells[q].is = "blank"
                      /\ Headed(p, r, c, mark)[b].cells[q]
                           = [is |-> "text", of |-> mark, ref |-> 0]
  <1> DEFINE text == [is |-> "text", of |-> mark, ref |-> 0]
  <1>1. text \in SheetCell
    BY DEF SheetCell, Kinds
  <1>2. CASE At(p, r, c).is # "blank"
    BY <1>2 DEF Headed
  <1>3. CASE At(p, r, c).is = "blank"
    <2>1. Headed(p, r, c, mark) = [p EXCEPT ![c].cells[r] = text]
      BY ONLY <1>3, SMTT(30) DEF Headed, Put
    <2> HIDE DEF text
    <2> DEFINE h == [p EXCEPT ![c].cells[r] = text]
    <2>a. h = [b \in 1..Width |-> h[b]]
      BY DEF Page
    <2>b. ASSUME NEW b \in 1..Width
          PROVE  /\ b # c => h[b] = p[b]
                 /\ b = c => h[b] = [from |-> p[b].from, cells |-> [p[b].cells EXCEPT ![r] = text]]
      <3>1. p[b] = [from |-> p[b].from, cells |-> p[b].cells]
        BY PageIs
      <3>2. CASE b = c
        <4>1. h[b] = [p[b] EXCEPT !.cells[r] = text]
          BY <3>2 DEF Page
        <4>2. h[b] = [from |-> p[b].from, cells |-> [p[b].cells EXCEPT ![r] = text]]
          BY <3>1, <4>1
        <4> QED BY <3>2, <4>2
      <3>3. CASE b # c
        BY <3>3 DEF Page
      <3> QED BY <3>2, <3>3
    <2>c. Headed(p, r, c, mark) = h
      BY <2>1
    <2> HIDE DEF h
    <2>2. ASSUME NEW b \in 1..Width
          PROVE  /\ h[b] \in Column /\ h[b].from = p[b].from
                 /\ \A q \in 1..Height :
                      h[b].cells[q] = IF b = c /\ q = r THEN text ELSE p[b].cells[q]
      <3>1. /\ p[b] \in Column /\ p[b].from \in 0..Width
            /\ p[b].cells \in [1..Height -> SheetCell]
        BY PageIs
      <3>2. CASE b = c
        <4> DEFINE cells == [p[b].cells EXCEPT ![r] = text]
        <4>1. /\ cells \in [1..Height -> SheetCell]
              /\ \A q \in 1..Height : cells[q] = IF q = r THEN text ELSE p[b].cells[q]
          BY <1>1, <3>1
        <4>2. h[b] = [from |-> p[b].from, cells |-> cells]
          BY <2>b, <3>2
        <4> HIDE DEF cells
        <4> QED BY <3>1, <3>2, <4>1, <4>2 DEF Column
      <3>3. CASE b # c
        BY <2>b, <3>1, <3>3
      <3> QED BY <3>2, <3>3
    <2>3. h \in Page
      BY <2>a, <2>2 DEF Page
    <2>4. \A b \in 1..Width, q \in 1..Height : b = c /\ q = r => p[b].cells[q].is = "blank"
      BY <1>3 DEF At
    <2> QED BY <2>c, <2>2, <2>3, <2>4, SMTT(30) DEF text
  <1> QED BY <1>2, <1>3

LEMMA HeadedCells ==
  ASSUME NEW p \in Page, NEW r, NEW c, NEW mark \in SUBSET HeadingMarks,
         NEW b \in 1..Width, NEW q \in 1..Height
  PROVE  LET new == Headed(p, r, c, mark)[b].cells[q]
         IN  /\ Headed(p, r, c, mark)[b].from = p[b].from
             /\ \/ new = p[b].cells[q]
                \/ /\ b = c /\ q = r /\ p[b].cells[q].is = "blank"
                   /\ new = [is |-> "text", of |-> mark, ref |-> 0]
  <1> DEFINE h == Headed(p, r, c, mark)
  <1>1. \A d \in 1..Width :
          /\ h[d].from = p[d].from
          /\ \A k \in 1..Height :
               \/ h[d].cells[k] = p[d].cells[k]
               \/ /\ d = c /\ k = r /\ p[d].cells[k].is = "blank"
                  /\ h[d].cells[k] = [is |-> "text", of |-> mark, ref |-> 0]
    BY HeadedIs
  <1> HIDE DEF h
  <1> QED BY <1>1 DEF h

--------------------------------------------------------------------------------
(* What a page keeps while columns are inserted and headed                     *)

(* Every formula but those of one column refers to the column it referred to.  *)
FollowedBut(p, s, a) ==
  \A c \in 1..Width, r \in 1..Height :
    p[c].from # 0 /\ c # a /\ IsFormula(p[c].cells[r])
    => p[p[c].cells[r].ref].from = s[p[c].from].cells[r].ref

(* A cell is what it was, but for headings in blank cells of the row h.        *)
CopyOf(p, s, h) ==
  \A c \in 1..Width, r \in 1..Height :
    p[c].from # 0 =>
      LET old == s[p[c].from].cells[r]
      IN  \/ p[c].cells[r].is = old.is /\ p[c].cells[r].of = old.of
          \/ r = h /\ old.is = "blank"

Grown(p, s, n, h) ==
  /\ p \in Page
  /\ RefersWithin(p, n)
  /\ FollowedBut(p, s, 0)
  /\ CopyOf(p, s, h)

LEMMA GrownWider ==
  ASSUME NEW p, NEW s, NEW n \in Nat, NEW m \in Nat, NEW h \in Nat, n <= m,
         Grown(p, s, n, 0)
  PROVE  Grown(p, s, m, h)
  <1>1. ASSUME NEW c \in 1..Width, NEW r \in 1..Height, IsFormula(p[c].cells[r])
        PROVE  p[c].cells[r].ref \in 1..m
    <2>1. p[c].cells[r].ref \in 1..n
      BY <1>1 DEF Grown, RefersWithin
    <2>2. \A k \in 1..n : k \in 1..m
      <3> HIDE SheetAssumption, WriterAssumption
      <3> QED OBVIOUS
    <2> QED BY ONLY <2>1, <2>2
  <1>2. CopyOf(p, s, h)
    BY SMTT(30) DEF Grown, CopyOf
  <1>3. RefersWithin(p, m)
    BY <1>1 DEF RefersWithin
  <1> QED BY <1>2, <1>3 DEF Grown

LEMMA GrownInserted ==
  ASSUME NEW p, NEW s, NEW n \in Nat, NEW h, NEW at \in 1..Width, n < Width,
         Grown(p, s, n, h)
  PROVE  Grown(Inserted(p, at), s, n + 1, h)
  <1> DEFINE q == Inserted(p, at)
  <1>1. p \in Page /\ RefersWithin(p, n) /\ FollowedBut(p, s, 0) /\ CopyOf(p, s, h)
    BY DEF Grown
  <1>2. q \in Page /\ q[at].from = 0 /\ \A r \in 1..Height : ~IsFormula(q[at].cells[r])
    BY <1>1, InsertedIs, EmptyIs, NoTextIs
  <1>3. ASSUME NEW c \in 1..Width, NEW r \in 1..Height, c # at
        PROVE  LET old == p[Before(c, at)].cells[r]
                   new == q[c].cells[r]
               IN  /\ Before(c, at) \in 1..Width
                   /\ q[c].from = p[Before(c, at)].from
                   /\ new.is = old.is /\ new.of = old.of
                   /\ new.ref = IF IsFormula(old) /\ old.ref >= at THEN old.ref + 1 ELSE old.ref
    BY <1>1, <1>3, InsertedCells, SMTT(30)
  <1> HIDE DEF q
  <1>4. ASSUME NEW c \in 1..Width, NEW r \in 1..Height, IsFormula(q[c].cells[r])
        PROVE  LET b   == Before(c, at)
                   old == p[b].cells[r].ref
                   new == q[c].cells[r].ref
               IN  /\ c # at /\ b \in 1..Width /\ IsFormula(p[b].cells[r])
                   /\ q[c].from = p[b].from
                   /\ old \in 1..n /\ new \in 1..(n + 1)
                   /\ new # at /\ Before(new, at) = old
    <2>1. c # at
      BY <1>2, <1>4
    <2> DEFINE b == Before(c, at)
    <2>2. /\ b \in 1..Width /\ q[c].from = p[b].from
          /\ q[c].cells[r].is = p[b].cells[r].is
          /\ q[c].cells[r].ref = IF IsFormula(p[b].cells[r]) /\ p[b].cells[r].ref >= at
                                 THEN p[b].cells[r].ref + 1 ELSE p[b].cells[r].ref
      BY <1>3, <2>1
    <2> HIDE DEF b
    <2>3. IsFormula(p[b].cells[r])
      BY <1>4, <2>2 DEF IsFormula
    <2>4. p[b].cells[r].ref \in 1..n
      BY <1>1, <2>2, <2>3 DEF RefersWithin
    <2>5. ASSUME NEW old, old = p[b].cells[r].ref, NEW new, new = q[c].cells[r].ref
          PROVE  new \in 1..(n + 1) /\ new # at /\ Before(new, at) = old
      <3>1. old \in 1..n /\ new = IF old >= at THEN old + 1 ELSE old
        BY <2>2, <2>3, <2>4, <2>5
      <3> QED BY <3>1 DEF Before
    <2> QED BY <2>1, <2>2, <2>3, <2>4, <2>5 DEF b
  <1>5. RefersWithin(q, n + 1)
    BY <1>4 DEF RefersWithin
  <1>6. ASSUME NEW c \in 1..Width, NEW r \in 1..Height, q[c].from # 0, IsFormula(q[c].cells[r])
        PROVE  q[q[c].cells[r].ref].from = s[q[c].from].cells[r].ref
    <2> DEFINE b == Before(c, at)
    <2>1. PICK old : old = p[b].cells[r].ref
      OBVIOUS
    <2>2. PICK new : new = q[c].cells[r].ref
      OBVIOUS
    <2>3. /\ b \in 1..Width /\ IsFormula(p[b].cells[r]) /\ q[c].from = p[b].from
          /\ old \in 1..n /\ new \in 1..(n + 1) /\ new # at /\ Before(new, at) = old
      BY <1>4, <1>6, <2>1, <2>2
    <2> HIDE DEF b
    <2>4. new \in 1..Width
      BY <2>3
    <2>5. q[new].from = p[old].from
      BY <1>3, <1>6, <2>3, <2>4
    <2>6. p[old].from = s[p[b].from].cells[r].ref
      BY ONLY <1>1, <1>6, <2>1, <2>3, SheetAssumption DEF FollowedBut
    <2> QED BY <2>2, <2>3, <2>5, <2>6
  <1>7. FollowedBut(q, s, 0)
    BY <1>6 DEF FollowedBut
  <1>8. ASSUME NEW c \in 1..Width, NEW r \in 1..Height, q[c].from # 0
        PROVE  \/ /\ q[c].cells[r].is = s[q[c].from].cells[r].is
                  /\ q[c].cells[r].of = s[q[c].from].cells[r].of
               \/ r = h /\ s[q[c].from].cells[r].is = "blank"
    <2> DEFINE b == Before(c, at)
    <2>1. /\ b \in 1..Width /\ q[c].from = p[b].from
          /\ q[c].cells[r].is = p[b].cells[r].is /\ q[c].cells[r].of = p[b].cells[r].of
      BY <1>2, <1>3, <1>8, SMTT(30)
    <2> HIDE DEF b
    <2>2. p[b].from # 0 =>
            \/ /\ p[b].cells[r].is = s[p[b].from].cells[r].is
               /\ p[b].cells[r].of = s[p[b].from].cells[r].of
            \/ r = h /\ s[p[b].from].cells[r].is = "blank"
      BY <1>1, <2>1 DEF CopyOf
    <2> QED BY ONLY <1>8, <2>1, <2>2
  <1>9. CopyOf(q, s, h)
    BY <1>8 DEF CopyOf
  <1> QED BY <1>2, <1>5, <1>7, <1>9 DEF Grown, q

LEMMA GrownHeaded ==
  ASSUME NEW p, NEW s, NEW n \in Nat, NEW h, NEW c, NEW mark \in SUBSET HeadingMarks,
         n <= Width, Grown(p, s, n, h)
  PROVE  Grown(Headed(p, h, c, mark), s, n, h)
  <1> DEFINE q == Headed(p, h, c, mark)
  <1>1. p \in Page /\ RefersWithin(p, n) /\ FollowedBut(p, s, 0) /\ CopyOf(p, s, h)
    BY DEF Grown
  <1>2. q \in Page
    BY <1>1, HeadedIs
  <1>3. ASSUME NEW b \in 1..Width, NEW r \in 1..Height
        PROVE  /\ q[b].from = p[b].from
               /\ \/ q[b].cells[r] = p[b].cells[r]
                  \/ r = h /\ p[b].cells[r].is = "blank" /\ q[b].cells[r].is = "text"
    <2>1. /\ q[b].from = p[b].from
          /\ \/ q[b].cells[r] = p[b].cells[r]
             \/ /\ b = c /\ r = h /\ p[b].cells[r].is = "blank"
                /\ q[b].cells[r] = [is |-> "text", of |-> mark, ref |-> 0]
      BY <1>1, HeadedCells
    <2> HIDE DEF q
    <2> QED BY <2>1
  <1> HIDE DEF q
  <1>4. ASSUME NEW b \in 1..Width, NEW r \in 1..Height, IsFormula(q[b].cells[r])
        PROVE  q[b].cells[r] = p[b].cells[r] /\ q[b].cells[r].ref \in 1..n
    <2>1. q[b].cells[r] = p[b].cells[r]
      BY <1>3, <1>4 DEF IsFormula
    <2> QED BY <1>1, <1>4, <2>1 DEF RefersWithin
  <1>5. RefersWithin(q, n)
    BY <1>4 DEF RefersWithin
  <1>6. ASSUME NEW b \in 1..Width, NEW r \in 1..Height, q[b].from # 0, IsFormula(q[b].cells[r])
        PROVE  q[q[b].cells[r].ref].from = s[q[b].from].cells[r].ref
    <2>1. PICK k : k = q[b].cells[r].ref
      OBVIOUS
    <2>2. k \in 1..Width /\ q[b].cells[r] = p[b].cells[r] /\ q[b].from = p[b].from
      <3>1. q[b].cells[r] = p[b].cells[r] /\ q[b].cells[r].ref \in 1..n
        BY <1>4, <1>6
      <3>2. q[b].from = p[b].from
        BY <1>3
      <3>3. \A j \in 1..n : j \in 1..Width
        OBVIOUS
      <3> QED BY ONLY <2>1, <3>1, <3>2, <3>3
    <2>3. q[k].from = p[k].from
      BY <1>3, <1>6, <2>2
    <2>4. IsFormula(p[b].cells[r]) /\ p[b].from # 0 /\ k = p[b].cells[r].ref /\ b # 0
      BY <1>6, <2>1, <2>2
    <2>5. p[p[b].cells[r].ref].from = s[p[b].from].cells[r].ref
      BY <1>1, <2>4 DEF FollowedBut
    <2> QED BY <2>1, <2>2, <2>3, <2>4, <2>5
  <1>7. FollowedBut(q, s, 0)
    BY <1>6 DEF FollowedBut
  <1>8. ASSUME NEW b \in 1..Width, NEW r \in 1..Height, q[b].from # 0
        PROVE  \/ /\ q[b].cells[r].is = s[q[b].from].cells[r].is
                  /\ q[b].cells[r].of = s[q[b].from].cells[r].of
               \/ r = h /\ s[q[b].from].cells[r].is = "blank"
    <2>1. PICK old : old = s[p[b].from].cells[r]
      OBVIOUS
    <2>2. q[b].from = p[b].from
      BY <1>3
    <2>3. \/ p[b].cells[r].is = old.is /\ p[b].cells[r].of = old.of
          \/ r = h /\ old.is = "blank"
      BY <1>1, <1>8, <2>1, <2>2 DEF CopyOf
    <2>4. \/ q[b].cells[r] = p[b].cells[r]
          \/ r = h /\ p[b].cells[r].is = "blank"
      BY <1>3, SMTT(30)
    <2> QED BY <2>1, <2>2, <2>3, <2>4
  <1>9. CopyOf(q, s, h)
    BY <1>8 DEF CopyOf
  <1> QED BY <1>2, <1>5, <1>7, <1>9 DEF Grown, q

(* No column of the source is there twice.                                     *)
Distinct(p) ==
  \A b, c \in 1..Width : p[b].from # 0 /\ p[b].from = p[c].from => b = c

(* Those up to the price and to the code are where they were.                  *)
StaysPut(p, pl) ==
  /\ Distinct(p)
  /\ \A k \in 1..Width : k <= pl.price /\ k <= pl.code => p[k].from = k

LEMMA DistinctInserted ==
  ASSUME NEW p \in Page, NEW at \in 1..Width, Distinct(p)
  PROVE  Distinct(Inserted(p, at))
  <1>1. PICK q : q = Inserted(p, at)
    OBVIOUS
  <1>2. q[at].from = 0
    BY <1>1, InsertedIs, EmptyIs
  <1>3. ASSUME NEW c \in 1..Width, c # at
        PROVE  Before(c, at) \in 1..Width /\ q[c].from = p[Before(c, at)].from
    BY <1>1, <1>3, InsertedColumn, InsertedFrom
  <1>4. ASSUME NEW b \in 1..Width, NEW c \in 1..Width, q[b].from # 0, q[b].from = q[c].from
        PROVE  b = c
    <2>1. b # at /\ c # at
      BY <1>2, <1>4
    <2>2. Before(b, at) = Before(c, at)
      BY <1>3, <1>4, <2>1 DEF Distinct
    <2> QED BY <2>1, <2>2 DEF Before
  <1> QED BY <1>1, <1>4 DEF Distinct

LEMMA DistinctKept ==
  ASSUME NEW p, NEW q, Distinct(p), \A c \in 1..Width : q[c].from = p[c].from
  PROVE  Distinct(q)
  BY DEF Distinct

LEMMA OpenedStays ==
  ASSUME NEW p, NEW pl, \A c \in 1..Width : p[c].from = c
  PROVE  StaysPut(p, pl)
  BY DEF StaysPut, Distinct

--------------------------------------------------------------------------------
(* What is read                                                                *)

(* Every column a field has is labelled for it.                               *)
Labelled(p, r, found) ==
  /\ found \in [SheetFields -> 0..Width]
  /\ \A f \in SheetFields : found[f] # 0 => f \in At(p, r, found[f]).of

LEMMA ClaimLabelled ==
  ASSUME NEW p, NEW r, NEW f \in SheetFields, NEW found, Labelled(p, r, found)
  PROVE  Labelled(p, r, Claim(p, r, f, found))
  <1>1. found \in [SheetFields -> 0..Width]
        /\ \A g \in SheetFields : found[g] # 0 => g \in At(p, r, found[g]).of
    BY SMTT(30) DEF Labelled
  <1> DEFINE open == {c \in 1..Width : f \in At(p, r, c).of /\ \A g \in SheetFields : found[g] # c}
             col  == IF Cardinality(open) > 1 /\ f \in Defaults /\ Template[f] \in open
                     THEN Template[f] ELSE LeastOf(open)
  <1>2. Claim(p, r, f, found) = IF open = {} THEN found ELSE [found EXCEPT ![f] = col]
    BY ONLY SMTT(30) DEF Claim
  <1>3. open \subseteq 1..Width /\ \A c \in open : f \in At(p, r, c).of
    OBVIOUS
  <1> HIDE DEF open
  <1>4. CASE open = {}
    BY <1>4, <1>2
  <1>5. CASE open # {}
    <2>1. open \subseteq 1..Width /\ \A c \in open : f \in At(p, r, c).of
      BY ONLY <1>3
    <2>2. Claim(p, r, f, found) = [found EXCEPT ![f] = col]
      <3> HIDE DEF col
      <3> QED BY ONLY <1>5, <1>2
    <2>3. LeastOf(open) \in open
      <3>1. open \in SUBSET Nat
        BY <2>1
      <3> QED BY <1>5, <3>1, LeastOfIs
    <2>4. col \in open
      BY <2>3
    <2> HIDE DEF col
    <2>5. [found EXCEPT ![f] = col] \in [SheetFields -> 0..Width]
      BY <1>1, <2>1, <2>4
    <2>6. ASSUME NEW g \in SheetFields
          PROVE  [found EXCEPT ![f] = col][g] # 0 =>
                   g \in At(p, r, [found EXCEPT ![f] = col][g]).of
      <3>1. CASE g = f
        BY <1>1, <2>1, <2>4, <3>1
      <3>2. CASE g # f
        <4>1. [found EXCEPT ![f] = col][g] = found[g]
          BY <1>1, <3>2
        <4> QED BY <1>1, <4>1
      <3> QED BY <3>1, <3>2
    <2> QED BY <2>2, <2>5, <2>6 DEF Labelled
  <1> QED BY <1>4, <1>5

LEMMA NoneClaimedLabelled ==
  ASSUME NEW p, NEW r
  PROVE  Labelled(p, r, NoneClaimed)
  BY DEF Labelled, NoneClaimed

LEMMA DetectedLabelled ==
  ASSUME NEW p, NEW r
  PROVE  Labelled(p, r, Detected(p, r))
  <1>1. {"price", "average", "unit", "name", "section", "code"} \subseteq SheetFields
    BY DEF SheetFields
  <1>2. PICK price : price = Claim(p, r, "price", NoneClaimed)
    OBVIOUS
  <1>3. PICK average : average = Claim(p, r, "average", price)
    OBVIOUS
  <1>4. PICK unit : unit = Claim(p, r, "unit", average)
    OBVIOUS
  <1>5. PICK name : name = Claim(p, r, "name", unit)
    OBVIOUS
  <1>6. PICK section : section = Claim(p, r, "section", name)
    OBVIOUS
  <1>7. Labelled(p, r, price)
    BY <1>1, <1>2, NoneClaimedLabelled, ClaimLabelled
  <1>8. Labelled(p, r, average)
    BY <1>1, <1>3, <1>7, ClaimLabelled
  <1>9. Labelled(p, r, unit)
    BY <1>1, <1>4, <1>8, ClaimLabelled
  <1>10. Labelled(p, r, name)
    BY <1>1, <1>5, <1>9, ClaimLabelled
  <1>11. Labelled(p, r, section)
    BY <1>1, <1>6, <1>10, ClaimLabelled
  <1>12. Labelled(p, r, Claim(p, r, "code", section))
    BY <1>1, <1>11, ClaimLabelled
  <1>13. Detected(p, r) = Claim(p, r, "code", section)
    BY <1>2, <1>3, <1>4, <1>5, <1>6 DEF Detected
  <1> QED BY <1>12, <1>13

(* Of some counts, the first of the greatest is there.                         *)
LEMMA FirstOfMostIs ==
  ASSUME NEW n \in Nat, NEW count \in [1..Height -> 0..n], Height # 0
  PROVE  FirstOfMost(count) \in 1..Height
  <1> DEFINE Counts == {count[r] : r \in 1..Height}
  <1>1. Counts \in SUBSET Nat /\ (\A k \in Counts : k <= n) /\ Counts # {}
    <2>1. 1 \in 1..Height
      OBVIOUS
    <2> QED BY <2>1
  <1>2. PICK most \in Counts : \A k \in Counts : k <= most
    BY <1>1, GreatestIsMax
  <1> DEFINE Rows == {r \in 1..Height : count[r] = most}
  <1>3. Rows \in SUBSET Nat /\ Rows # {}
    BY SMTT(30)
  <1>4. PICK r \in Rows : \A q \in Rows : r <= q
    BY <1>3, LeastNat
  <1>5. r \in 1..Height /\ count[r] = most
    OBVIOUS
  <1>6. ASSUME NEW q \in 1..Height
        PROVE  count[q] < count[r] \/ (count[q] = count[r] /\ r <= q)
    <2>1. count[q] <= most /\ count[q] \in Int /\ most \in Int
      BY <1>1, <1>2, SMTT(30)
    <2>2. count[q] = most => r <= q
      BY <1>4
    <2> QED BY ONLY <1>5, <2>1, <2>2, SMTT(30)
  <1>7. DOMAIN count = 1..Height
    OBVIOUS
  <1>8. \E q \in DOMAIN count : \A k \in DOMAIN count :
          count[k] < count[q] \/ (count[k] = count[q] /\ q <= k)
    BY <1>5, <1>6, <1>7
  <1>9. FirstOfMost(count) \in DOMAIN count
    BY <1>8 DEF FirstOfMost
  <1> QED BY <1>7, <1>9

LEMMA HeaderRowIs ==
  ASSUME NEW p
  PROVE  HeaderRow(p) \in 0..Height
  <1> DEFINE n == Cardinality(SheetFields)
             count == [r \in 1..Height |-> FieldCount(Detected(p, r))]
  <1>1. IsFiniteSet(SheetFields)
    <2>1. SheetFields = ((((({} \cup {"price"}) \cup {"average"}) \cup {"unit"}) \cup {"name"})
                          \cup {"section"}) \cup {"code"}
      BY DEF SheetFields
    <2>2. IsFiniteSet({} \cup {"price"})
      BY FS_EmptySet, FS_AddElement
    <2>3. IsFiniteSet(({} \cup {"price"}) \cup {"average"})
      BY <2>2, FS_AddElement
    <2>4. IsFiniteSet((({} \cup {"price"}) \cup {"average"}) \cup {"unit"})
      BY <2>3, FS_AddElement
    <2>5. IsFiniteSet(((({} \cup {"price"}) \cup {"average"}) \cup {"unit"}) \cup {"name"})
      BY <2>4, FS_AddElement
    <2>6. IsFiniteSet((((({} \cup {"price"}) \cup {"average"}) \cup {"unit"}) \cup {"name"})
                       \cup {"section"})
      BY <2>5, FS_AddElement
    <2> QED BY <2>1, <2>6, FS_AddElement
  <1>2. n \in Nat
    BY <1>1, FS_CardinalityType
  <1>3. ASSUME NEW r \in 1..Height
        PROVE  FieldCount(Detected(p, r)) \in 0..n
    <2> DEFINE has == {f \in SheetFields : Detected(p, r)[f] # 0}
    <2>1. has \in SUBSET SheetFields
      OBVIOUS
    <2> HIDE DEF has
    <2>2. IsFiniteSet(has) /\ Cardinality(has) <= n
      BY <1>1, <2>1, FS_Subset
    <2>3. Cardinality(has) \in Nat
      BY <2>2, FS_CardinalityType
    <2> HIDE DEF n
    <2>4. Cardinality(has) \in 0..n
      BY <1>2, <2>2, <2>3
    <2> QED BY <2>4 DEF FieldCount, has
  <1> HIDE DEF n
  <1>4. count \in [1..Height -> 0..n]
    BY <1>3
  <1>5. HeaderRow(p) = HeaderOf(count)
    BY DEF HeaderRow
  <1> HIDE DEF count
  <1>6. CASE \A r \in DOMAIN count : count[r] < 2
    BY <1>5, <1>6 DEF HeaderOf
  <1>7. CASE ~\A r \in DOMAIN count : count[r] < 2
    <2>1. Height # 0
      BY <1>4, <1>7
    <2>2. FirstOfMost(count) \in 1..Height
      BY <1>2, <1>4, <2>1, FirstOfMostIs
    <2> QED BY <1>5, <1>7, <2>2 DEF HeaderOf
  <1> QED BY <1>6, <1>7

LEMMA LayoutIs ==
  ASSUME NEW p
  PROVE  LET layout == Layout(p)
         IN  /\ layout.header \in 0..Height
             /\ layout.column \in [SheetFields -> 0..Width]
             /\ layout.column["average"] # 0 =>
                  /\ layout.header # 0
                  /\ "average" \in At(p, layout.header, layout.column["average"]).of
  <1> DEFINE h == HeaderRow(p)
             found == IF h = 0 THEN NoneClaimed ELSE Detected(p, h)
             column == [found EXCEPT !["name"] = IF @ = 0 THEN Template["name"] ELSE @]
  <1>1. h \in 0..Height
    BY HeaderRowIs
  <1>2. Layout(p) = [header |-> h, column |-> column]
    BY DEF Layout, LayoutBelow
  <1> HIDE DEF h
  <1>3. Labelled(p, h, found) /\ (h = 0 => found["average"] = 0)
    BY NoneClaimedLabelled, DetectedLabelled DEF NoneClaimed, SheetFields
  <1> HIDE DEF found
  <1>4. found \in [SheetFields -> 0..Width]
    BY <1>3 DEF Labelled
  <1>5. found["average"] # 0 => "average" \in At(p, h, found["average"]).of
    BY <1>3 DEF Labelled, SheetFields
  <1>6. column \in [SheetFields -> 0..Width] /\ column["average"] = found["average"]
    <2>1. Template["name"] \in 1..Width
      OBVIOUS
    <2> QED BY <1>4, <2>1 DEF SheetFields
  <1> HIDE DEF column
  <1> QED BY <1>1, <1>2, <1>3, <1>5, <1>6

(* What a reading of a page says of it.                                        *)
ReadingOK(reading, p) ==
  /\ reading.header \in 0..Height /\ reading.rows \subseteq 1..Height
  /\ {reading.price, reading.code, reading.average, reading.section} \subseteq 0..Width
  /\ reading.rows # {} => reading.price # 0 /\ reading.section # 0
  /\ reading.average # 0 => "average" \in At(p, reading.header, reading.average).of

LEMMA TemplateRowsAre ==
  ASSUME NEW p, TemplateRows(p) # {}
  PROVE  TemplateRows(p) \subseteq 1..Height /\ HeaderAbove(TemplateRows(p)) \in 1..Height
  <1> DEFINE marked == {r \in 1..Height : "marker" \in At(p, r, Template["code"]).of}
  <1>1. MarkerRow(p) = IF marked = {} THEN 0 ELSE LeastOf(marked)
    BY DEF MarkerRow
  <1>2. MarkerRow(p) # 0
    BY DEF TemplateRows
  <1>3. marked \in SUBSET Nat /\ marked \subseteq 1..Height
    OBVIOUS
  <1> HIDE DEF marked
  <1>4. MarkerRow(p) \in 1..Height
    <2>1. marked # {} /\ MarkerRow(p) = LeastOf(marked)
      BY <1>1, <1>2
    <2>2. LeastOf(marked) \in marked
      BY <1>3, <2>1, LeastOfIs
    <2> QED BY <1>3, <2>1, <2>2
  <1>5. \A r \in TemplateRows(p) : r \in (MarkerRow(p) + 2)..Height
    BY <1>2 DEF TemplateRows
  <1>6. TemplateRows(p) \in SUBSET Nat /\ TemplateRows(p) \subseteq 1..Height
    BY <1>4, <1>5
  <1>7. LeastOf(TemplateRows(p)) \in (MarkerRow(p) + 2)..Height
    BY <1>5, <1>6, LeastOfIs
  <1> QED BY <1>4, <1>6, <1>7, SMTT(30) DEF HeaderAbove

LEMMA DetectedRowsAre ==
  ASSUME NEW p, NEW header \in 0..Height, NEW at
  PROVE  DetectedRows(p, header, at) \subseteq 1..Height
  <1>1. \A r \in DetectedRows(p, header, at) : r \in (header + 1)..Height
    BY DEF DetectedRows, InTable
  <1> QED BY <1>1

LEMMA ReadingIs ==
  ASSUME NEW p
  PROVE  ReadingOK(Reading(p), p)
  <1> DEFINE layout == Layout(p)
             at == layout.column
             section == IF at["section"] # 0 THEN at["section"] ELSE Template["section"]
             detected == IF Resolved(layout) THEN DetectedRows(p, layout.header, at) ELSE {}
             template == TemplateRows(p)
             code == IF at["code"] # 0 THEN at["code"] ELSE Template["code"]
             header == IF layout.header # 0 THEN layout.header ELSE HeaderAbove(template)
  <1>1. /\ layout.header \in 0..Height /\ at \in [SheetFields -> 0..Width]
        /\ at["average"] # 0 =>
             layout.header # 0 /\ "average" \in At(p, layout.header, at["average"]).of
    BY LayoutIs
  <1>2. detected # {} => /\ at["price"] # 0
                         /\ detected = DetectedRows(p, layout.header, at)
    BY DEF Resolved
  <1>3. Reading(p) =
          IF detected # {} THEN
            [method |-> "detected", header |-> layout.header, rows |-> detected,
             code |-> at["code"], price |-> at["price"],
             average |-> at["average"], section |-> section]
          ELSE IF template # {} THEN
            [method |-> "template", header |-> header, rows |-> template, code |-> code,
             price |-> Template["price"], average |-> at["average"], section |-> section]
          ELSE NotFound
    BY DEF Reading, ReadWith, ReadingFrom
  <1>4. template # {} => template \subseteq 1..Height /\ HeaderAbove(template) \in 0..Height
    BY TemplateRowsAre
  <1>5. detected \subseteq 1..Height
    BY <1>1, <1>2, DetectedRowsAre
  <1> HIDE DEF layout, detected, template
  <1>6. /\ at["code"] \in 0..Width /\ at["price"] \in 0..Width /\ at["average"] \in 0..Width
        /\ at["section"] \in 0..Width
    BY <1>1 DEF SheetFields
  <1>7. section \in 1..Width /\ code \in 0..Width /\ Template["price"] \in 1..Width
    BY <1>6
  <1> HIDE DEF at, section, code
  <1>8. CASE detected # {}
    BY <1>1, <1>2, <1>3, <1>5, <1>6, <1>7, <1>8, SMTT(30) DEF ReadingOK
  <1>9. CASE detected = {} /\ template # {}
    <2>1. header \in 0..Height /\ (at["average"] # 0 => header = layout.header)
      BY <1>1, <1>4, <1>9
    <2> HIDE DEF header
    <2>2. template \subseteq 1..Height
      BY <1>4, <1>9
    <2>3. Template["price"] \in 0..Width /\ Template["price"] # 0 /\ section \in 0..Width
      BY <1>7
    <2>4. at["average"] # 0 => "average" \in At(p, header, at["average"]).of
      BY <1>1, <2>1
    <2>5. Reading(p) = [method |-> "template", header |-> header, rows |-> template,
                        code |-> code, price |-> Template["price"],
                        average |-> at["average"], section |-> section]
      BY <1>3, <1>9
    <2>6. section # 0
      BY <1>7
    <2> QED BY <1>6, <1>7, <2>1, <2>2, <2>3, <2>4, <2>5, <2>6 DEF ReadingOK
  <1>10. CASE detected = {} /\ template = {}
    BY <1>3, <1>10 DEF ReadingOK, NotFound
  <1> QED BY <1>8, <1>9, <1>10

(* A table that is read has its header on the sheet.                           *)
LEMMA ReadingHeader ==
  ASSUME NEW p, Reading(p).rows # {}
  PROVE  Reading(p).header \in 1..Height
  <1> DEFINE layout == Layout(p)
             detected == IF Resolved(layout) THEN DetectedRows(p, layout.header, layout.column) ELSE {}
             template == TemplateRows(p)
  <1>1. /\ layout.header \in 0..Height
        /\ layout.header = 0 => layout.column["code"] = 0
    <2>1. layout = LayoutBelow(p, HeaderRow(p)) /\ HeaderRow(p) \in 0..Height
      BY HeaderRowIs DEF Layout
    <2>2. layout.header = HeaderRow(p)
      BY <2>1 DEF LayoutBelow
    <2>3. HeaderRow(p) = 0 => layout.column["code"] = 0
      BY <2>1 DEF LayoutBelow, NoneClaimed, SheetFields
    <2> QED BY <2>1, <2>2, <2>3
  <1>2. /\ detected # {} => Reading(p).header = layout.header
        /\ detected = {} /\ template # {} =>
             Reading(p).header = IF layout.header # 0 THEN layout.header ELSE HeaderAbove(template)
        /\ detected = {} /\ template = {} => Reading(p).rows = {}
    BY DEF Reading, ReadWith, ReadingFrom, NotFound
  <1>3. detected # {} => layout.header # 0
    BY <1>1 DEF Resolved
  <1>4. template # {} => HeaderAbove(template) \in 1..Height
    BY TemplateRowsAre
  <1> HIDE DEF layout, detected, template
  <1> QED BY <1>1, <1>2, <1>3, <1>4

--------------------------------------------------------------------------------
(* The invariant                                                               *)

Founds == {<<>>} \cup UNION {[R -> AnalogRows] : R \in SUBSET (1..Height)}
PlanRecord ==
  [header : 0..Height, rows : SUBSET (1..Height), price : 0..Width, code : 0..Width,
   average : 0..Width, kr : 0..Width, section : 0..Width, start : 0..Width,
   end : 0..Width, found : Founds]
LastRecord == [plan : PlanRecord, tame : BOOLEAN, again : BOOLEAN]

ShapeInv ==
  /\ step \in {"chosen", "read", "refused", "average", "placed", "written"}
  /\ source \in Page /\ page \in Page
  /\ plan \in PlanRecord /\ last \in LastRecord
  /\ inserts \in 0..3
  /\ step \in {"chosen", "read", "refused"} => inserts = 0
  /\ step = "average" => inserts <= 1

(* What is read and planned so far fits together.                              *)
PlacesInv ==
  /\ step \in {"read", "average", "placed", "written"} =>
       plan.rows # {} /\ plan.price # 0 /\ plan.section # 0
  /\ step = "read" /\ plan.average # 0 => "average" \in At(source, plan.header, plan.average).of
  /\ step \in {"average", "placed", "written"} => plan.average = plan.price + 1
  /\ step \in {"placed", "written"} =>
       plan.code < plan.kr /\ plan.kr < plan.section /\ plan.start = plan.section + 1
  /\ step = "written" => plan.found \in [plan.rows -> AnalogRows]

(* Until it is written, the page is the source but for inserted columns and    *)
(* headings; a formula of the source refers to the same column as long as it   *)
(* is there.                                                                   *)
CopyInv ==
  /\ RefersWithin(page, Width)
  /\ step \in {"chosen", "read"} => page = source /\ \A c \in 1..Width : page[c].from = c
  /\ FollowedBut(page, source, IF step = "written" THEN plan.average ELSE 0)
  /\ step = "average" => CopyOf(page, source, 0)
  /\ step = "placed" => CopyOf(page, source, plan.header)

(* What Tame says of the section, in whatever numbering of the columns.        *)
SectionTame(p, r, code, section) ==
  LET kr == KrColumn(p, r, code)
  IN  /\ \/ section \in 1..kr
         \/ section \in 1..code /\ ~Taken(p, r, code + 1)
         \/ section > code /\ (IsSection(p, r, section) \/ ~Taken(p, r, section))
      /\ kr = 0 /\ IsSection(p, r, code + 1) => section = code + 1

(* An output may take the place of these columns.                              *)
AverageFree(p, s, pl) ==
  \A r \in pl.rows :
    p[pl.average].from # 0 /\ Taken(s, r, p[pl.average].from)
    => \/ "average" \in At(s, pl.header, p[pl.average].from).of
       \/ s[p[pl.average].from].cells[r].is = "average"
KrFree(p, s, pl) ==
  p[pl.kr].from # 0 => \/ IsKr(s, pl.header, p[pl.kr].from)
                       \/ ~Taken(s, pl.header, p[pl.kr].from)
SectionFree(p, s, pl) ==
  p[pl.section].from # 0 => \/ IsSection(s, pl.header, p[pl.section].from)
                            \/ ~Taken(s, pl.header, p[pl.section].from)

(* On a tame layout the insertions are right of the price, and what is still   *)
(* to be written has a place of its own.                                       *)
TameInv ==
  last.tame =>
    /\ step \in {"read", "average", "placed"} => \A q \in plan.rows : plan.header < q
    /\ step = "read" => plan.code > plan.price + 1
    /\ step \in {"average", "placed"} =>
         /\ plan.code > plan.average
         /\ \A c \in 1..plan.price : page[c].from = c
         /\ AverageFree(page, source, plan)
    /\ step \in {"read", "average"} =>
         SectionTame(page, plan.header, plan.code, plan.section)
    /\ step = "placed" => KrFree(page, source, plan) /\ SectionFree(page, source, plan)

WriterInv ==
  /\ round \in 1..MaxRounds
  /\ ShapeInv /\ PlacesInv /\ CopyInv /\ TameInv
  /\ OutputsStandApart /\ AverageOfThisRun

LEMMA NoPlanIs == NoPlan \in PlanRecord
  BY DEF NoPlan, PlanRecord, Founds

(* The formulas of a page as it is opened.                                     *)
LEMMA OpenedFollows ==
  ASSUME NEW p \in Page, \A c \in 1..Width : p[c].from = c, RefersWithin(p, Width)
  PROVE  FollowedBut(p, p, 0)
  <1>1. ASSUME NEW c \in 1..Width, NEW r \in 1..Height, IsFormula(p[c].cells[r])
        PROVE  p[p[c].cells[r].ref].from = p[p[c].from].cells[r].ref
    <2>1. p[c].cells[r].ref \in 1..Width
      BY <1>1 DEF RefersWithin
    <2> QED BY <2>1
  <1> QED BY <1>1 DEF FollowedBut

LEMMA CalculatedKeeps ==
  ASSUME NEW p \in Page, \A c \in 1..Width : p[c].from = c, RefersWithin(p, Width),
         NEW q, NEW reading, ReadingOK(reading, q),
         \A r, c : "average" \in At(q, r, c).of => "average" \in At(p, r, c).of,
         NEW again \in BOOLEAN, plan \in PlanRecord,
         Calculated(p, reading, again)
  PROVE  (ShapeInv /\ PlacesInv /\ CopyInv /\ TameInv /\ OutputsStandApart /\ AverageOfThisRun)'
  <1>1. /\ source' = p /\ page' = p /\ inserts' = 0
        /\ plan' = [header |-> reading.header, rows |-> reading.rows, price |-> reading.price,
                    code |-> reading.code, average |-> reading.average, kr |-> 0,
                    section |-> reading.section, start |-> 0, end |-> 0, found |-> <<>>]
        /\ last' = [plan |-> plan, tame |-> Tame(reading, p), again |-> again]
        /\ step' = IF reading.rows = {} THEN "refused" ELSE "read"
    BY DEF Calculated, NoPlan
  <1>2. plan' \in PlanRecord
    BY <1>1, SMTT(30) DEF ReadingOK, PlanRecord, Founds
  <1>3. Tame(reading, p) \in BOOLEAN
    BY DEF Tame
  <1>4. last' \in LastRecord /\ last'.tame = Tame(reading, p)
    BY <1>1, <1>3 DEF LastRecord
  <1>5. /\ plan'.header = reading.header /\ plan'.rows = reading.rows
        /\ plan'.price = reading.price /\ plan'.code = reading.code
        /\ plan'.average = reading.average /\ plan'.section = reading.section
    BY <1>1
  <1>6. step' \in {"read", "refused"} /\ (step' = "read" <=> reading.rows # {})
    BY <1>1
  <1>7. ShapeInv'
    BY <1>1, <1>2, <1>4, <1>6 DEF ShapeInv
  <1>8. PlacesInv'
    BY <1>1, <1>5, <1>6 DEF PlacesInv, ReadingOK
  <1>9. FollowedBut(p, p, 0)
    BY OpenedFollows
  <1>10. CopyInv'
    BY <1>1, <1>6, <1>9 DEF CopyInv
  <1>11. Tame(reading, p) =>
           /\ \A r \in reading.rows : reading.header < r
           /\ reading.code > reading.price + 1
           /\ SectionTame(p, reading.header, reading.code, reading.section)
    BY DEF Tame, SectionTame
  <1>12. TameInv'
    BY <1>1, <1>4, <1>5, <1>6, <1>11 DEF TameInv
  <1>13. OutputsStandApart' /\ AverageOfThisRun'
    BY <1>6 DEF OutputsStandApart, AverageOfThisRun
  <1> QED BY <1>7, <1>8, <1>10, <1>12, <1>13

LEMMA ChosenIs ==
  ASSUME NEW book \in Workbooks, NEW s \in Chosen(book)
  PROVE  /\ book[s].page \in Page /\ RefersWithin(book[s].page, Width)
         /\ \A c \in 1..Width : book[s].page[c].from = c
  <1> DEFINE named == {k \in DOMAIN book : book[k].named}
             ready == {k \in DOMAIN book : Resolved(Layout(book[k].page))}
  <1>1. book \in Seq([named : BOOLEAN, page : Page]) /\ book # <<>>
    BY EstimatesAssumption
  <1>2. 1 \in DOMAIN book /\ DOMAIN book \subseteq Nat
    BY <1>1
  <1>3. named # {} => LeastOf(named) \in named
    BY <1>2, LeastOfIs
  <1>4. named \subseteq DOMAIN book /\ ready \subseteq DOMAIN book
    OBVIOUS
  <1>5. Chosen(book) = ChosenOf(book, named, ready)
    BY DEF Chosen
  <1> HIDE DEF named, ready
  <1>6. s \in DOMAIN book
    <2>1. s \in named \/ s \in ready \/ s = 1 \/ (named # {} /\ s = LeastOf(named))
      BY <1>5 DEF ChosenOf
    <2> QED BY <1>2, <1>3, <1>4, <2>1
  <1>7. book[s].page \in Page
    <2>1. s \in 1..Len(book)
      BY <1>1, <1>6
    <2> DEFINE Sheets == [named : BOOLEAN, page : Page]
    <2>2. book \in Seq(Sheets)
      BY <1>1
    <2>3. \A x \in Sheets : x.page \in Page
      OBVIOUS
    <2> HIDE DEF Sheets
    <2>4. book[s] \in Sheets
      BY <2>1, <2>2, ElementOfSeq
    <2> QED BY <2>3, <2>4
  <1> QED BY <1>6, <1>7, EstimatesAssumption

LEMMA WriterInit_Inv == WriterInit => WriterInv
  <1> SUFFICES ASSUME WriterInit PROVE WriterInv
    OBVIOUS
  <1>1. /\ step = "chosen" /\ round = 1 /\ source = page /\ plan = NoPlan /\ inserts = 0
        /\ last = [plan |-> NoPlan, tame |-> FALSE, again |-> FALSE]
    BY DEF WriterInit
  <1>2. page \in Page /\ RefersWithin(page, Width) /\ \A c \in 1..Width : page[c].from = c
    BY ChosenIs DEF WriterInit
  <1>3. last \in LastRecord /\ last.tame = FALSE
    BY <1>1, NoPlanIs DEF LastRecord
  <1>4. ShapeInv
    BY <1>1, <1>2, <1>3, NoPlanIs DEF ShapeInv
  <1>5. PlacesInv /\ OutputsStandApart /\ AverageOfThisRun /\ TameInv
    BY <1>1, <1>3 DEF PlacesInv, OutputsStandApart, AverageOfThisRun, TameInv
  <1>6. FollowedBut(page, page, 0)
    BY <1>2, OpenedFollows
  <1>7. CopyInv
    BY <1>1, <1>2, <1>6 DEF CopyInv
  <1>8. round \in 1..MaxRounds
    BY <1>1
  <1> QED BY <1>4, <1>5, <1>7, <1>8 DEF WriterInv

LEMMA Read_Inv == WriterInv /\ Read => WriterInv'
  <1> SUFFICES ASSUME WriterInv, Read PROVE WriterInv'
    OBVIOUS
  <1>1. page \in Page /\ plan \in PlanRecord /\ RefersWithin(page, Width)
        /\ \A c \in 1..Width : page[c].from = c
    BY DEF WriterInv, ShapeInv, CopyInv, Read
  <1>2. Calculated(page, Reading(page), FALSE)
    BY DEF Read
  <1>3. ReadingOK(Reading(page), page)
    BY ReadingIs
  <1>4. (ShapeInv /\ PlacesInv /\ CopyInv /\ TameInv /\ OutputsStandApart /\ AverageOfThisRun)'
    BY <1>1, <1>2, <1>3, CalculatedKeeps
  <1>5. (round \in 1..MaxRounds)'
    BY DEF WriterInv, Read
  <1> QED BY <1>4, <1>5 DEF WriterInv

(* A heading that is seen in a file without values is there.                   *)
LEMMA SeenLabels ==
  ASSUME NEW p \in Page, NEW recalculated \in BOOLEAN, NEW r, NEW c,
         "average" \in At(Seen(p, recalculated), r, c).of
  PROVE  "average" \in At(p, r, c).of
  <1>1. CASE recalculated
    BY <1>1 DEF Seen
  <1>2. CASE ~recalculated
    <2>1. r \in 1..Height /\ c \in 1..Width
      BY NoTextIs DEF At
    <2>2. Seen(p, recalculated)[c].cells[r] =
            IF IsFormula(p[c].cells[r]) THEN NoText ELSE p[c].cells[r]
      <3>1. p[c] = [from |-> p[c].from, cells |-> p[c].cells]
        BY <2>1, PageIs
      <3>2. Seen(p, recalculated)[c] = [p[c] EXCEPT !.cells = [q \in 1..Height |->
                IF IsFormula(p[c].cells[q]) THEN NoText ELSE p[c].cells[q]]]
        BY <1>2, <2>1 DEF Seen
      <3>3. Seen(p, recalculated)[c] = [from |-> p[c].from, cells |-> [q \in 1..Height |->
                IF IsFormula(p[c].cells[q]) THEN NoText ELSE p[c].cells[q]]]
        BY <3>1, <3>2
      <3> QED BY <2>1, <3>3
    <2> QED BY <2>1, <2>2, NoTextIs DEF At
  <1> QED BY <1>1, <1>2

(* A page as it is opened again: its columns are numbered anew.                *)
Reopened(q) == [c \in 1..Width |-> [q[c] EXCEPT !.from = c]]

LEMMA ReopenedIs ==
  ASSUME NEW q \in Page
  PROVE  /\ Reopened(q) \in Page
         /\ \A c \in 1..Width : Reopened(q)[c].from = c /\ Reopened(q)[c].cells = q[c].cells
         /\ \A r, c : At(Reopened(q), r, c) = At(q, r, c)
  <1> DEFINE p == Reopened(q)
  <1>1. ASSUME NEW c \in 1..Width
        PROVE  p[c] = [from |-> c, cells |-> q[c].cells]
    <2>1. q[c] = [from |-> q[c].from, cells |-> q[c].cells]
      BY PageIs
    <2> QED BY <2>1 DEF Reopened
  <1>2. p = [c \in 1..Width |-> p[c]]
    BY DEF Reopened
  <1> HIDE DEF p
  <1>3. p \in Page
    <2>1. ASSUME NEW c \in 1..Width PROVE p[c] \in Column
      <3>1. q[c].cells \in [1..Height -> SheetCell]
        BY PageIs
      <3>2. c \in 0..Width
        OBVIOUS
      <3>3. p[c] = [from |-> c, cells |-> q[c].cells]
        BY <1>1
      <3> QED BY <3>1, <3>2, <3>3 DEF Column
    <2> QED BY <1>2, <2>1 DEF Page
  <1>4. ASSUME NEW c \in 1..Width
        PROVE  p[c].from = c /\ p[c].cells = q[c].cells
    <2>1. p[c] = [from |-> c, cells |-> q[c].cells]
      BY <1>1
    <2> QED BY <2>1
  <1>5. \A r, c : At(p, r, c) = At(q, r, c)
    BY <1>4 DEF At
  <1> QED BY <1>3, <1>4, <1>5 DEF p

LEMMA CalculateAgain_Inv == WriterInv /\ CalculateAgain => WriterInv'
  <1> SUFFICES ASSUME WriterInv, CalculateAgain PROVE WriterInv'
    OBVIOUS
  <1>1. page \in Page /\ plan \in PlanRecord /\ last \in LastRecord /\ RefersWithin(page, Width)
    BY DEF WriterInv, ShapeInv, CopyInv
  <1>2. PICK p : p = Reopened(page)
    OBVIOUS
  <1>3. PICK recalculated \in BOOLEAN :
          Calculated(p, Reading(Seen(p, recalculated)), last.tame /\ recalculated)
    BY <1>2 DEF CalculateAgain, Reopened
  <1>4. p \in Page /\ \A c \in 1..Width : p[c].from = c /\ p[c].cells = page[c].cells
    BY <1>1, <1>2, ReopenedIs
  <1>6. RefersWithin(p, Width)
    BY <1>1, <1>4 DEF RefersWithin
  <1>7. last.tame \in BOOLEAN
    BY <1>1 DEF LastRecord
  <1>8. ASSUME NEW r, NEW c, "average" \in At(Seen(p, recalculated), r, c).of
        PROVE  "average" \in At(p, r, c).of
    BY <1>4, <1>8, SeenLabels
  <1>9. ReadingOK(Reading(Seen(p, recalculated)), Seen(p, recalculated))
    BY ReadingIs
  <1>10. (ShapeInv /\ PlacesInv /\ CopyInv /\ TameInv /\ OutputsStandApart /\ AverageOfThisRun)'
    <2>1. (last.tame /\ recalculated) \in BOOLEAN
      BY <1>7
    <2> QED BY <1>1, <1>3, <1>4, <1>6, <1>8, <1>9, <2>1, CalculatedKeeps
  <1>11. (round \in 1..MaxRounds)'
    BY DEF WriterInv, CalculateAgain
  <1> QED BY <1>10, <1>11 DEF WriterInv

--------------------------------------------------------------------------------
(* The average column                                                          *)

LEMMA KrColumnIs ==
  ASSUME NEW p, NEW r, NEW code \in Nat
  PROVE  LET k == KrColumn(p, r, code)
         IN  /\ k \in Nat
             /\ k = 0 => \A c \in (code + 1)..(code + 3) : ~IsKr(p, r, c)
             /\ k # 0 => /\ k \in (code + 1)..(code + 3) /\ IsKr(p, r, k)
                         /\ \A c \in (code + 1)..(code + 3) : IsKr(p, r, c) => k <= c
  <1> DEFINE found == {c \in (code + 1)..(code + 3) : IsKr(p, r, c)}
  <1>1. KrColumn(p, r, code) = IF found = {} THEN 0 ELSE LeastOf(found)
    BY DEF KrColumn
  <1>2. found \in SUBSET Nat
    OBVIOUS
  <1>3. CASE found = {}
    BY <1>1, <1>3
  <1>4. CASE found # {}
    <2>1. LeastOf(found) \in found /\ \A c \in found : LeastOf(found) <= c
      BY <1>2, <1>4, LeastOfIs
    <2>2. PICK k : k = LeastOf(found)
      OBVIOUS
    <2>3. /\ k \in (code + 1)..(code + 3) /\ IsKr(p, r, k)
          /\ \A c \in (code + 1)..(code + 3) : IsKr(p, r, c) => k <= c
      BY <2>1, <2>2
    <2>4. KrColumn(p, r, code) = k /\ k \in Nat /\ k # 0
      BY <1>1, <1>4, <2>2, <2>3, SMTT(30)
    <2> QED BY <2>3, <2>4
  <1> QED BY <1>3, <1>4

LEMMA KrInPage ==
  ASSUME NEW p, NEW r, NEW c, IsKr(p, r, c)
  PROVE  r \in 1..Height /\ c \in 1..Width
  BY NoTextIs DEF IsKr, At

(* Right of an inserted column a row reads as before, one further.             *)
LEMMA InsertedRow ==
  ASSUME NEW p \in Page, NEW at \in 1..Width, NEW r, NEW c \in Nat, c >= at,
         \A b \in 1..Width, k \in 1..Height : p[b].cells[k] # NoText => b + 1 <= Width
  PROVE  /\ At(Inserted(p, at), r, c + 1).of = At(p, r, c).of
         /\ At(Inserted(p, at), r, c + 1).is = At(p, r, c).is
  <1>1. CASE r \in 1..Height /\ c < Width
    <2>1. PICK d : d = c + 1
      OBVIOUS
    <2>2. d \in 1..Width /\ c \in 1..Width /\ d # at /\ Before(d, at) = c
      BY <1>1, <2>1 DEF Before
    <2>3. LET old == p[Before(d, at)].cells[r]
              new == Inserted(p, at)[d].cells[r]
          IN  /\ Before(d, at) \in 1..Width
              /\ Inserted(p, at)[d].from = p[Before(d, at)].from
              /\ new.is = old.is /\ new.of = old.of
              /\ new.ref = IF IsFormula(old) /\ old.ref >= at THEN old.ref + 1 ELSE old.ref
              /\ ~IsFormula(old) => new = old
      <3>1. d \in 1..Width /\ d # at /\ r \in 1..Height
        BY <1>1, <2>2
      <3> QED BY <3>1, InsertedCells
    <2>4. /\ Inserted(p, at)[d].cells[r].is = p[c].cells[r].is
          /\ Inserted(p, at)[d].cells[r].of = p[c].cells[r].of
      BY <2>2, <2>3
    <2> QED BY <1>1, <2>1, <2>2, <2>4 DEF At
  <1>2. CASE r \in 1..Height /\ c = Width
    <2>1. p[c].cells[r] = NoText
      BY <1>2
    <2>2. c + 1 \notin 1..Width
      BY <1>2
    <2> QED BY <1>2, <2>1, <2>2 DEF At
  <1>3. CASE r \notin 1..Height \/ c > Width
    <2>1. r \notin 1..Height \/ (c \notin 1..Width /\ c + 1 \notin 1..Width)
      BY <1>3
    <2> QED BY <2>1 DEF At
  <1> QED BY <1>1, <1>2, <1>3

LEMMA SectionMoves ==
  ASSUME NEW p \in Page, NEW at \in 1..Width, NEW r, NEW code \in Nat, code >= at,
         NEW section \in Nat, SectionTame(p, r, code, section),
         \A b \in 1..Width, k \in 1..Height : p[b].cells[k] # NoText => b + 1 <= Width
  PROVE  SectionTame(Inserted(p, at), r, code + 1, IF section >= at THEN section + 1 ELSE section)
  <1>1. PICK q : q = Inserted(p, at)
    OBVIOUS
  <1>2. PICK k : k = KrColumn(p, r, code)
    OBVIOUS
  <1>3. PICK m : m = KrColumn(q, r, code + 1)
    OBVIOUS
  <1>4. PICK moved : moved = IF section >= at THEN section + 1 ELSE section
    OBVIOUS
  <1>5. ASSUME NEW c \in Nat, c >= at
        PROVE  /\ IsKr(q, r, c + 1) <=> IsKr(p, r, c)
               /\ IsSection(q, r, c + 1) <=> IsSection(p, r, c)
               /\ Taken(q, r, c + 1) <=> Taken(p, r, c)
    BY <1>1, <1>5, InsertedRow, SMTT(30) DEF IsKr, IsSection, Taken
  <1>6. /\ \/ section \in 1..k
           \/ section \in 1..code /\ ~Taken(p, r, code + 1)
           \/ section > code /\ (IsSection(p, r, section) \/ ~Taken(p, r, section))
        /\ k = 0 /\ IsSection(p, r, code + 1) => section = code + 1
    BY <1>2 DEF SectionTame
  <1>7. /\ k \in Nat
        /\ k # 0 => k \in (code + 1)..(code + 3) /\ IsKr(p, r, k)
        /\ \A c \in (code + 1)..(code + 3) : IsKr(p, r, c) => k # 0 /\ k <= c
    <2>1. /\ k \in Nat
          /\ k = 0 => \A c \in (code + 1)..(code + 3) : ~IsKr(p, r, c)
          /\ k # 0 => /\ k \in (code + 1)..(code + 3) /\ IsKr(p, r, k)
                      /\ \A c \in (code + 1)..(code + 3) : IsKr(p, r, c) => k <= c
      BY <1>2, KrColumnIs
    <2> QED BY <2>1
  <1>8. /\ m \in Nat
        /\ m # 0 => m \in (code + 2)..(code + 4) /\ IsKr(q, r, m)
        /\ \A c \in (code + 2)..(code + 4) : IsKr(q, r, c) => m # 0
    <2>1. PICK d \in Nat : d = code + 1
      OBVIOUS
    <2>2. /\ m \in Nat
          /\ m = 0 => \A c \in (d + 1)..(d + 3) : ~IsKr(q, r, c)
          /\ m # 0 => m \in (d + 1)..(d + 3) /\ IsKr(q, r, m)
      BY <1>3, <2>1, KrColumnIs
    <2> QED BY <2>1, <2>2
  <1>9. k # 0 => m >= k + 1
    <2> SUFFICES ASSUME k # 0 PROVE m >= k + 1
      OBVIOUS
    <2>1. IsKr(q, r, k + 1) /\ k + 1 \in (code + 2)..(code + 4)
      <3>1. k \in (code + 1)..(code + 3) /\ IsKr(p, r, k)
        BY <1>7
      <3>2. k \in Nat /\ k >= at
        BY <1>7, <3>1
      <3>3. IsKr(q, r, k + 1)
        BY <1>5, <3>1, <3>2
      <3> QED BY <3>1, <3>3
    <2>2. m \in (code + 2)..(code + 4) /\ IsKr(q, r, m)
      BY <1>8, <2>1
    <2>3. PICK c \in (code + 1)..(code + 3) : m = c + 1
      <3>1. m - 1 \in (code + 1)..(code + 3) /\ m = (m - 1) + 1
        BY ONLY <2>2, SheetAssumption
      <3> QED BY <3>1
    <2>4. IsKr(p, r, c)
      BY <1>5, <2>2, <2>3
    <2> QED BY <1>7, <2>3, <2>4
  <1>10. \/ moved \in 1..m
         \/ moved \in 1..(code + 1) /\ ~Taken(q, r, code + 1 + 1)
         \/ moved > code + 1 /\ (IsSection(q, r, moved) \/ ~Taken(q, r, moved))
    <2>1. CASE section \in 1..k
      BY ONLY <1>4, <1>7, <1>8, <1>9, <2>1, SheetAssumption
    <2>2. CASE section > code /\ (IsSection(p, r, section) \/ ~Taken(p, r, section))
      <3>1. section >= at /\ moved = section + 1
        BY <1>4, <2>2
      <3> QED BY <1>5, <2>2, <3>1, SMTT(30)
    <2>3. CASE section \in 1..code /\ ~Taken(p, r, code + 1)
      <3>1. moved \in 1..(code + 1)
        BY <1>4, <2>3
      <3>2. PICK d \in Nat : d = code + 1
        OBVIOUS
      <3>3. ~Taken(q, r, d + 1)
        BY <1>5, <2>3, <3>2, SMTT(30)
      <3> QED BY <3>1, <3>2, <3>3
    <2> QED BY <1>6, <2>1, <2>2, <2>3
  <1>11. m = 0 /\ IsSection(q, r, code + 1 + 1) => moved = code + 1 + 1
    <2> SUFFICES ASSUME m = 0, IsSection(q, r, code + 1 + 1) PROVE moved = code + 1 + 1
      OBVIOUS
    <2>1. k = 0
      BY <1>7, <1>8, <1>9
    <2>2. IsSection(p, r, code + 1)
      BY <1>5, SMTT(30)
    <2> QED BY <1>4, <1>6, <2>1, <2>2
  <1> QED BY <1>1, <1>3, <1>4, <1>10, <1>11 DEF SectionTame

AveragePlan(pl, a, code, section) ==
  [pl EXCEPT !.average = a, !.code = code, !.section = section]

LEMMA AveragePlanned ==
  ASSUME NEW pl \in PlanRecord,
         NEW a \in 0..Width, NEW code \in 0..Width, NEW section \in 0..Width
  PROVE  LET new == AveragePlan(pl, a, code, section)
         IN  /\ new \in PlanRecord
             /\ new.average = a /\ new.code = code /\ new.section = section
             /\ new.price = pl.price /\ new.rows = pl.rows /\ new.header = pl.header
  BY DEF AveragePlan, PlanRecord

LEMMA PlaceAverage_Inv == WriterInv /\ PlaceAverage => WriterInv'
  <1> SUFFICES ASSUME WriterInv, PlaceAverage PROVE WriterInv'
    OBVIOUS
  <1> DEFINE at == plan.price + 1
             occupied == /\ plan.average # at
                         /\ \E r \in plan.rows : Foreign(At(page, r, at))
             moved(c) == IF occupied /\ c >= at THEN c + 1 ELSE c
  <1>1. /\ step = "read" /\ step' = "average"
        /\ round' = round /\ source' = source /\ last' = last
        /\ {at, moved(plan.code), moved(plan.section)} \subseteq 1..Width
        /\ occupied => Room(page, 1)
        /\ page' = IF occupied THEN Inserted(page, at) ELSE page
        /\ plan' = AveragePlan(plan, at, moved(plan.code), moved(plan.section))
        /\ inserts' = inserts + IF occupied THEN 1 ELSE 0
    BY DEF PlaceAverage, AveragePlan
  <1>2. /\ page \in Page /\ source \in Page /\ plan \in PlanRecord /\ last \in LastRecord
        /\ inserts = 0
        /\ plan.rows # {} /\ plan.price # 0 /\ plan.section # 0
        /\ plan.average # 0 => "average" \in At(source, plan.header, plan.average).of
        /\ page = source /\ (\A c \in 1..Width : page[c].from = c)
        /\ RefersWithin(page, Width)
    BY <1>1 DEF WriterInv, ShapeInv, PlacesInv, CopyInv
  <1>3. /\ plan.header \in 0..Height /\ plan.rows \subseteq 1..Height
        /\ plan.price \in 0..Width /\ plan.code \in 0..Width /\ plan.section \in 0..Width
        /\ plan.average \in 0..Width
    BY <1>2 DEF PlanRecord
  <1>4. occupied \in BOOLEAN
    OBVIOUS
  <1>5. PICK occ \in BOOLEAN : occ = occupied
    BY <1>4
  <1>6. PICK code : code = moved(plan.code)
    OBVIOUS
  <1>7. PICK section : section = moved(plan.section)
    OBVIOUS
  <1>8. PICK a : a = at
    OBVIOUS
  <1>9. ~occ => \/ plan.average = a
                \/ \A r \in plan.rows : At(page, r, a).is \in {"blank", "average"}
    BY <1>5, <1>8 DEF Foreign
  <1>10. /\ occ => Room(page, 1)
         /\ page' = IF occ THEN Inserted(page, a) ELSE page
         /\ plan' = AveragePlan(plan, a, code, section)
         /\ inserts' = inserts + IF occ THEN 1 ELSE 0
         /\ a = plan.price + 1
         /\ a \in 1..Width /\ code \in 1..Width /\ section \in 1..Width
         /\ code = IF occ /\ plan.code >= a THEN plan.code + 1 ELSE plan.code
         /\ section = IF occ /\ plan.section >= a THEN plan.section + 1 ELSE plan.section
    BY <1>1, <1>5, <1>6, <1>7, <1>8
  <1> HIDE DEF at, occupied, moved
  <1>11. a \in 0..Width /\ code \in 0..Width /\ section \in 0..Width
    BY ONLY <1>10, SheetAssumption
  <1>12. /\ plan' \in PlanRecord
         /\ plan'.average = a /\ plan'.code = code /\ plan'.section = section
         /\ plan'.price = plan.price /\ plan'.rows = plan.rows /\ plan'.header = plan.header
    <2>1. plan \in PlanRecord /\ plan' = AveragePlan(plan, a, code, section)
      BY <1>2, <1>10
    <2>2. LET new == AveragePlan(plan, a, code, section)
          IN  /\ new \in PlanRecord
              /\ new.average = a /\ new.code = code /\ new.section = section
              /\ new.price = plan.price /\ new.rows = plan.rows /\ new.header = plan.header
      <3>1. a \in 0..Width
        BY <1>11
      <3>2. code \in 0..Width
        BY <1>11
      <3>3. section \in 0..Width
        BY <1>11
      <3>4. plan \in PlanRecord
        BY <2>1
      <3> HIDE SheetAssumption, WriterAssumption
      <3> QED BY <3>1, <3>2, <3>3, <3>4, AveragePlanned
    <2> QED BY <2>1, <2>2
  <1>13. Grown(page', source, Width, 0)
    <2>1. FollowedBut(page, source, 0)
      BY <1>2, OpenedFollows
    <2>2. CopyOf(page, source, 0)
      BY <1>2 DEF CopyOf
    <2>3. CASE occ
      <3>1. Width - 1 \in Nat /\ Width - 1 < Width /\ (Width - 1) + 1 = Width
        BY <1>10
      <3>2. Grown(page, source, Width - 1, 0)
        BY <1>2, <1>10, <2>1, <2>2, <2>3 DEF Grown, Room
      <3>3. Grown(Inserted(page, a), source, (Width - 1) + 1, 0)
        BY <1>10, <3>1, <3>2, GrownInserted
      <3> QED BY <1>10, <2>3, <3>1, <3>3
    <2>4. CASE ~occ
      BY <1>2, <1>10, <2>1, <2>2, <2>4 DEF Grown
    <2> QED BY <2>3, <2>4
  <1>14. ShapeInv'
    BY <1>1, <1>2, <1>10, <1>12, <1>13 DEF ShapeInv, Grown
  <1>15. PlacesInv'
    <2>1. plan'.rows # {} /\ plan'.price # 0 /\ plan'.section # 0
      <3>1. plan'.section \in 1..Width
        BY <1>10, <1>12
      <3>2. plan'.section # 0
        BY <3>1
      <3> QED BY <1>2, <1>12, <3>2
    <2>2. plan'.average = plan'.price + 1
      BY <1>10, <1>12
    <2> QED BY ONLY <1>1, <2>1, <2>2 DEF PlacesInv
  <1>16. CopyInv'
    BY <1>1, <1>13 DEF CopyInv, Grown
  <1>17. ASSUME last.tame
         PROVE  /\ \A q \in plan.rows : plan.header < q
                /\ plan.code > plan.price + 1
                /\ SectionTame(page, plan.header, plan.code, plan.section)
    BY <1>1, <1>17 DEF WriterInv, TameInv
  <1>18. ASSUME NEW c \in 1..plan.price
         PROVE  page'[c].from = c
    <2>1. c \in 1..Width /\ c < a
      BY ONLY <1>3, <1>10, SheetAssumption
    <2>2. CASE occ
      <3>1. c # a /\ Before(c, a) = c
        BY <2>1 DEF Before
      <3>2. c \in 1..Width /\ a \in 1..Width /\ page \in Page
        BY <1>2, <1>10, <2>1
      <3>3. Inserted(page, a)[c].from = page[Before(c, a)].from
        BY <3>1, <3>2, InsertedFrom
      <3> QED BY <1>2, <1>10, <2>1, <2>2, <3>1, <3>3
    <2>3. CASE ~occ
      BY <1>2, <1>10, <2>1, <2>3
    <2> QED BY <2>2, <2>3
  <1>19. AverageFree(page', source, plan')
    <2>1. CASE occ
      <3>1. page'[a].from = 0
        BY <1>2, <1>10, <2>1, InsertedIs, EmptyIs
      <3> QED BY <1>12, <3>1 DEF AverageFree
    <2>2. CASE ~occ
      <3>1. page'[a].from = a
        BY <1>2, <1>10, <2>2
      <3>2. ASSUME NEW r \in plan.rows, Taken(source, r, a)
            PROVE  \/ "average" \in At(source, plan.header, a).of
                   \/ source[a].cells[r].is = "average"
        <4>1. CASE plan.average = a
          BY <1>2, <1>10, <4>1
        <4>2. CASE At(page, r, a).is \in {"blank", "average"}
          <5>1. r \in 1..Height /\ a \in 1..Width
            BY <1>3, <1>10
          <5> QED BY <1>2, <3>2, <4>2, <5>1 DEF Taken, At
        <4> QED BY <1>9, <2>2, <4>1, <4>2
      <3> QED BY <1>12, <3>1, <3>2 DEF AverageFree
    <2> QED BY <2>1, <2>2
  <1>20. ASSUME last.tame
         PROVE  SectionTame(page', plan.header, code, section)
    <2>1. CASE occ
      <3>1. \A b \in 1..Width, k \in 1..Height : page[b].cells[k] # NoText => b + 1 <= Width
        BY <1>10, <2>1 DEF Room
      <3>2. plan.code \in Nat /\ plan.code >= a /\ plan.section \in Nat
        <4>1. plan.code \in 0..Width /\ plan.section \in 0..Width /\ plan.price \in 0..Width
          BY <1>3
        <4>2. a = plan.price + 1 /\ plan.code > plan.price + 1
          BY <1>10, <1>17, <1>20
        <4> QED BY ONLY <4>1, <4>2, SheetAssumption
      <3>3. code = plan.code + 1
            /\ section = IF plan.section >= a THEN plan.section + 1 ELSE plan.section
        BY <1>10, <2>1, <3>2
      <3>4. SectionTame(Inserted(page, a), plan.header, plan.code + 1,
                        IF plan.section >= a THEN plan.section + 1 ELSE plan.section)
        BY <1>2, <1>10, <1>17, <1>20, <3>1, <3>2, SectionMoves
      <3> QED BY <1>10, <2>1, <3>3, <3>4
    <2>2. CASE ~occ
      BY <1>10, <1>17, <1>20, <2>2
    <2> QED BY <2>1, <2>2
  <1>21. TameInv'
    <2> SUFFICES ASSUME last.tame PROVE TameInv'
      BY <1>1 DEF TameInv
    <2>1. code > a
      BY <1>3, <1>10, <1>17, SMTT(30)
    <2>2. \A q \in plan.rows : plan.header < q
      BY <1>17
    <2>3. SectionTame(page', plan.header, code, section)
      BY <1>20
    <2>4. \A c \in 1..plan.price : page'[c].from = c
      BY <1>18
    <2> QED BY <1>1, <1>12, <1>19, <2>1, <2>2, <2>3, <2>4 DEF TameInv
  <1>22. OutputsStandApart' /\ AverageOfThisRun'
    BY <1>1 DEF OutputsStandApart, AverageOfThisRun
  <1>23. (round \in 1..MaxRounds)'
    BY <1>1 DEF WriterInv
  <1> QED BY <1>14, <1>15, <1>16, <1>21, <1>22, <1>23 DEF WriterInv

--------------------------------------------------------------------------------
(* The /KR and the section column                                              *)

LEMMA HeadedFrom ==
  ASSUME NEW p \in Page, NEW r, NEW c, NEW mark \in SUBSET HeadingMarks, NEW b \in 1..Width
  PROVE  Headed(p, r, c, mark)[b].from = p[b].from
  <1> DEFINE h == Headed(p, r, c, mark)
  <1>1. h \in Page /\ \A d \in 1..Width : /\ h[d].from = p[d].from
                                         /\ \A q \in 1..Height :
               \/ h[d].cells[q] = p[d].cells[q]
               \/ /\ d = c /\ q = r /\ p[d].cells[q].is = "blank"
                  /\ h[d].cells[q] = [is |-> "text", of |-> mark, ref |-> 0]
    BY HeadedIs
  <1> HIDE DEF h
  <1> QED BY <1>1 DEF h

(* A copied column is labelled as its source is.                               *)
LEMMA CopiedLabels ==
  ASSUME NEW p \in Page, NEW s, CopyOf(p, s, 0), NEW r, NEW c \in 1..Width, p[c].from # 0
  PROVE  /\ At(s, r, p[c].from).of = At(p, r, c).of
         /\ At(s, r, p[c].from).is = At(p, r, c).is
  <1>1. PICK k : k = p[c].from
    OBVIOUS
  <1>2. k \in 1..Width
    <2>1. k \in 0..Width
      BY <1>1, PageIs
    <2> QED BY <1>1, <2>1
  <1>3. CASE r \in 1..Height
    <2>1. p[c].cells[r].is = s[k].cells[r].is /\ p[c].cells[r].of = s[k].cells[r].of
      BY <1>1, <1>3, SMTT(30) DEF CopyOf
    <2> QED BY <1>1, <1>2, <1>3, <2>1 DEF At
  <1>4. CASE r \notin 1..Height
    BY <1>4 DEF At
  <1> QED BY <1>3, <1>4

KrPlan(pl, kr, section) == [pl EXCEPT !.kr = kr, !.section = section, !.start = section + 1]

LEMMA KrPlanned ==
  ASSUME NEW pl \in PlanRecord, NEW kr \in 0..Width, NEW section \in 0..Width, section < Width
  PROVE  LET new == KrPlan(pl, kr, section)
         IN  /\ new \in PlanRecord
             /\ new.kr = kr /\ new.section = section /\ new.start = section + 1
             /\ new.price = pl.price /\ new.rows = pl.rows /\ new.header = pl.header
             /\ new.average = pl.average /\ new.code = pl.code
  <1>1. section + 1 \in 0..Width
    OBVIOUS
  <1> QED BY <1>1 DEF KrPlan, PlanRecord

(* What a row reads left of an inserted column and in it, and beside and in a  *)
(* cell that is headed.                                                        *)
LEMMA InsertedLeft ==
  ASSUME NEW p \in Page, NEW at \in 1..Width, NEW r, NEW c \in Nat, c < at
  PROVE  /\ At(Inserted(p, at), r, c).of = At(p, r, c).of
         /\ At(Inserted(p, at), r, c).is = At(p, r, c).is
  <1>1. CASE r \in 1..Height /\ c # 0
    <2>1. c \in 1..Width /\ c # at /\ Before(c, at) = c
      BY <1>1 DEF Before
    <2>2. LET old == p[Before(c, at)].cells[r]
              new == Inserted(p, at)[c].cells[r]
          IN  /\ Before(c, at) \in 1..Width
              /\ Inserted(p, at)[c].from = p[Before(c, at)].from
              /\ new.is = old.is /\ new.of = old.of
              /\ new.ref = IF IsFormula(old) /\ old.ref >= at THEN old.ref + 1 ELSE old.ref
              /\ ~IsFormula(old) => new = old
      <3>1. /\ c \in 1..Width /\ c # at /\ r \in 1..Height
            /\ p \in Page /\ at \in 1..Width
        BY <1>1, <2>1
      <3> QED BY ONLY <3>1, InsertedCells
    <2> QED BY <1>1, <2>1, <2>2 DEF At
  <1>2. CASE ~(r \in 1..Height /\ c # 0)
    <2>1. ~(r \in 1..Height /\ c \in 1..Width)
      BY <1>2
    <2> QED BY <2>1 DEF At
  <1> QED BY <1>1, <1>2

LEMMA InsertedAt ==
  ASSUME NEW p \in Page, NEW at \in 1..Width, NEW r
  PROVE  At(Inserted(p, at), r, at) = NoText
  <1>1. Inserted(p, at)[at] = EmptyColumn
    BY InsertedIs
  <1> QED BY <1>1, EmptyIs DEF At

LEMMA HeadedBeside ==
  ASSUME NEW p \in Page, NEW r, NEW c, NEW mark \in SUBSET HeadingMarks, NEW k, NEW b, b # c
  PROVE  At(Headed(p, r, c, mark), k, b) = At(p, k, b)
  <1>1. CASE k \in 1..Height /\ b \in 1..Width
    <2>1. LET new == Headed(p, r, c, mark)[b].cells[k]
          IN  /\ Headed(p, r, c, mark)[b].from = p[b].from
              /\ \/ new = p[b].cells[k]
                 \/ /\ b = c /\ k = r /\ p[b].cells[k].is = "blank"
                    /\ new = [is |-> "text", of |-> mark, ref |-> 0]
      BY <1>1, HeadedCells
    <2> QED BY <1>1, <2>1 DEF At
  <1>2. CASE ~(k \in 1..Height /\ b \in 1..Width)
    BY <1>2 DEF At
  <1> QED BY <1>1, <1>2

LEMMA HeadedThere ==
  ASSUME NEW p \in Page, NEW r \in 1..Height, NEW c \in 1..Width, NEW mark
  PROVE  /\ At(p, r, c).is # "blank" => Headed(p, r, c, mark) = p
         /\ At(p, r, c).is = "blank" =>
              At(Headed(p, r, c, mark), r, c) = [is |-> "text", of |-> mark, ref |-> 0]
  <1> DEFINE text == [is |-> "text", of |-> mark, ref |-> 0]
  <1>1. SUFFICES ASSUME At(p, r, c).is = "blank" PROVE At(Headed(p, r, c, mark), r, c) = text
    BY DEF Headed
  <1>2. Headed(p, r, c, mark) = [p EXCEPT ![c].cells[r] = text]
    BY ONLY <1>1, SMTT(30) DEF Headed, Put
  <1> HIDE DEF text
  <1>3. /\ p[c] = [from |-> p[c].from, cells |-> p[c].cells]
        /\ p[c].cells \in [1..Height -> SheetCell]
    BY PageIs
  <1>4. [p EXCEPT ![c].cells[r] = text][c] = [p[c] EXCEPT !.cells[r] = text]
    BY DEF Page
  <1>5. [p[c] EXCEPT !.cells[r] = text].cells[r] = text
    BY <1>3
  <1> QED BY <1>2, <1>4, <1>5 DEF At

(* The /KR and the section column are those a reader finds, or free.           *)
Recognised(p, pl) ==
  /\ KrColumn(p, pl.header, pl.code) = pl.kr
  /\ IsSection(p, pl.header, pl.section) \/ ~Taken(p, pl.header, pl.section)

LEMMA KrColumnFound ==
  ASSUME NEW p, NEW r, NEW code \in Nat, NEW kr \in (code + 1)..(code + 3), IsKr(p, r, kr),
         \A c \in (code + 1)..(code + 3) : c < kr => ~IsKr(p, r, c)
  PROVE  KrColumn(p, r, code) = kr
  <1>1. PICK k : k = KrColumn(p, r, code)
    OBVIOUS
  <1>2. /\ k \in Nat
        /\ k = 0 => \A c \in (code + 1)..(code + 3) : ~IsKr(p, r, c)
        /\ k # 0 => /\ k \in (code + 1)..(code + 3) /\ IsKr(p, r, k)
                    /\ \A c \in (code + 1)..(code + 3) : IsKr(p, r, c) => k <= c
    BY <1>1, KrColumnIs
  <1>3. k # 0 /\ k \in (code + 1)..(code + 3) /\ k <= kr
    BY <1>2
  <1>4. ~(k < kr)
    BY <1>2, <1>3
  <1>5. k \in Nat /\ kr \in Nat
    BY <1>2
  <1> QED BY ONLY <1>1, <1>3, <1>4, <1>5

LEMMA PlaceKrAndSection_Inv ==
  WriterInv /\ PlaceKrAndSection =>
    /\ WriterInv'
    /\ last.tame /\ plan.header # 0 => Recognised(page', plan')
    /\ StaysPut(page, plan) => StaysPut(page', plan')
  <1> SUFFICES ASSUME WriterInv, PlaceKrAndSection
               PROVE  /\ WriterInv'
                      /\ last.tame /\ plan.header # 0 => Recognised(page', plan')
                      /\ StaysPut(page, plan) => StaysPut(page', plan')
    BY Zenon
  <1> DEFINE rD == plan.header
             foundD == KrColumn(page, rD, plan.code)
             krD == IF foundD # 0 THEN foundD ELSE plan.code + 1
             krInsertD == /\ foundD = 0
                          /\ \/ plan.section = krD
                             \/ Taken(page, rD, krD) /\ ~IsSection(page, rD, krD)
             givenD == PassedBy(plan.section, krD, krInsertD)
             openD == givenD <= krD
             sectionD == IF openD THEN krD + 1 ELSE givenD
             sectionInsertD == openD /\ Taken(page, rD, sectionD) /\ ~IsSection(page, rD, sectionD)
             oneD == IF ~sectionInsertD THEN page
                     ELSE Headed(Inserted(page, sectionD), rD, sectionD, SectionMark)
             twoD == IF ~krInsertD THEN oneD ELSE Headed(Inserted(oneD, krD), rD, krD, KrMark)
             threeD == IF foundD = 0 THEN Headed(twoD, rD, krD, KrMark) ELSE twoD
             addedD == (IF krInsertD THEN 1 ELSE 0) + IF sectionInsertD THEN 1 ELSE 0
  <1>1. /\ step = "average" /\ step' = "placed"
        /\ round' = round /\ source' = source /\ last' = last
        /\ sectionD < Width /\ Room(page, addedD)
        /\ page' = IF openD THEN Headed(threeD, rD, sectionD, SectionMark) ELSE threeD
        /\ plan' = KrPlan(plan, krD, sectionD)
        /\ inserts' = inserts + addedD
    BY DEF PlaceKrAndSection, KrPlan
  <1>2. PICK r : r = rD
    OBVIOUS
  <1>3. PICK found : found = foundD
    OBVIOUS
  <1>4. PICK kr : kr = krD
    OBVIOUS
  <1>5. PICK krInsert \in BOOLEAN : krInsert = krInsertD
    OBVIOUS
  <1>6. PICK given : given = givenD
    OBVIOUS
  <1>7. PICK open \in BOOLEAN : open <=> openD
    OBVIOUS
  <1>8. PICK section : section = sectionD
    OBVIOUS
  <1>9. PICK sectionInsert \in BOOLEAN : sectionInsert = sectionInsertD
    OBVIOUS
  <1>10. PICK one : one = oneD
    OBVIOUS
  <1>11. PICK two : two = twoD
    OBVIOUS
  <1>12. PICK three : three = threeD
    OBVIOUS
  <1>13. PICK added : added = addedD
    OBVIOUS
  <1>14. /\ r = plan.header
         /\ found = KrColumn(page, r, plan.code)
         /\ kr = IF found # 0 THEN found ELSE plan.code + 1
         /\ krInsert <=> /\ found = 0
                         /\ \/ plan.section = kr
                            \/ Taken(page, r, kr) /\ ~IsSection(page, r, kr)
         /\ given = PassedBy(plan.section, kr, krInsert)
         /\ open <=> given <= kr
    BY <1>2, <1>3, <1>4, <1>5, <1>6, <1>7
  <1>15. /\ section = IF open THEN kr + 1 ELSE given
         /\ sectionInsert <=> open /\ Taken(page, r, section) /\ ~IsSection(page, r, section)
    BY <1>2, <1>4, <1>6, <1>7, <1>8, <1>9
  <1>16. /\ one = IF ~sectionInsert THEN page
                  ELSE Headed(Inserted(page, section), r, section, SectionMark)
         /\ two = IF ~krInsert THEN one ELSE Headed(Inserted(one, kr), r, kr, KrMark)
         /\ three = IF found = 0 THEN Headed(two, r, kr, KrMark) ELSE two
    BY ONLY <1>2, <1>3, <1>4, <1>5, <1>8, <1>9, <1>10, <1>11, <1>12, ZenonT(30)
  <1>17. /\ added = (IF krInsert THEN 1 ELSE 0) + IF sectionInsert THEN 1 ELSE 0
         /\ section < Width /\ Room(page, added)
         /\ page' = IF open THEN Headed(three, r, section, SectionMark) ELSE three
         /\ plan' = KrPlan(plan, kr, section)
         /\ inserts' = inserts + added
    BY <1>1, <1>2, <1>4, <1>5, <1>7, <1>8, <1>9, <1>12, <1>13
  <1> HIDE DEF rD, foundD, krD, krInsertD, givenD, openD, sectionD, sectionInsertD, oneD, twoD,
               threeD, addedD
  <1>18. /\ page \in Page /\ source \in Page /\ plan \in PlanRecord /\ last \in LastRecord
         /\ inserts \in 0..1
         /\ plan.rows # {} /\ plan.price # 0 /\ plan.section # 0
         /\ plan.average = plan.price + 1
         /\ RefersWithin(page, Width) /\ CopyOf(page, source, 0)
         /\ FollowedBut(page, source, 0)
    BY <1>1 DEF WriterInv, ShapeInv, PlacesInv, CopyInv
  <1>19. /\ plan.header \in 0..Height /\ plan.rows \subseteq 1..Height
         /\ plan.price \in 0..Width /\ plan.code \in 0..Width /\ plan.section \in 0..Width
         /\ plan.average \in 0..Width
    BY <1>18 DEF PlanRecord
  <1>20. /\ found \in Nat
         /\ found # 0 => found \in (plan.code + 1)..(plan.code + 3) /\ IsKr(page, r, found)
    <2>1. plan.code \in Nat
      BY <1>19
    <2> QED BY <1>14, <2>1, KrColumnIs
  <1>21. /\ kr \in 1..Width /\ section \in 1..Width /\ plan.code < kr /\ kr < section
         /\ given = IF krInsert /\ plan.section >= kr THEN plan.section + 1 ELSE plan.section
         /\ added \in 0..2
    <2>1. kr \in Nat /\ plan.code < kr
      BY ONLY <1>14, <1>19, <1>20, SheetAssumption
    <2>2. given = IF krInsert /\ plan.section >= kr THEN plan.section + 1 ELSE plan.section
      BY <1>14 DEF PassedBy
    <2>3. given \in Nat
      BY ONLY <1>19, <2>2, SheetAssumption
    <2>4. open <=> given <= kr
      BY <1>14
    <2>5. section = IF open THEN kr + 1 ELSE given
      BY <1>15
    <2>6. section \in Nat /\ kr < section
      BY <2>1, <2>3, <2>4, <2>5
    <2>7. section < Width /\ added = (IF krInsert THEN 1 ELSE 0) + IF sectionInsert THEN 1 ELSE 0
      BY <1>17
    <2>8. plan.code \in Nat
      BY <1>19
    <2>9. kr \in 1..Width /\ section \in 1..Width
      BY <2>1, <2>6, <2>7, <2>8
    <2>10. added \in 0..2
      BY <2>7
    <2> QED BY <2>1, <2>2, <2>6, <2>9, <2>10
  <1>22. /\ plan' \in PlanRecord
         /\ plan'.kr = kr /\ plan'.section = section /\ plan'.start = section + 1
         /\ plan'.price = plan.price /\ plan'.rows = plan.rows /\ plan'.header = plan.header
         /\ plan'.average = plan.average /\ plan'.code = plan.code
    <2>1. plan' = KrPlan(plan, kr, section)
      BY <1>17
    <2>2. LET new == KrPlan(plan, kr, section)
          IN  /\ new \in PlanRecord
              /\ new.kr = kr /\ new.section = section /\ new.start = section + 1
              /\ new.price = plan.price /\ new.rows = plan.rows /\ new.header = plan.header
              /\ new.average = plan.average /\ new.code = plan.code
      <3>1. kr \in 0..Width
        BY <1>21
      <3>2. section \in 0..Width /\ section < Width
        BY <1>17, <1>21
      <3>3. plan \in PlanRecord
        BY <1>18
      <3> HIDE SheetAssumption, WriterAssumption
      <3> QED BY <3>1, <3>2, <3>3, KrPlanned
    <2> QED BY <2>1, <2>2
  <1>23. KrMark \in SUBSET HeadingMarks /\ SectionMark \in SUBSET HeadingMarks
    BY DEF KrMark, SectionMark, HeadingMarks, SheetFields
  <1>24. PICK n \in Nat : n = Width - added
    <2>1. kr \in 1..Width /\ section \in 1..Width /\ kr < section /\ section < Width /\ added \in 0..2
      BY <1>17, <1>21
    <2>2. Width - added \in Nat
      BY <2>1
    <2> QED BY <2>2
  <1>25. PICK m \in Nat : m = Width - IF krInsert THEN 1 ELSE 0
    BY <1>21
  <1>26. Grown(page, source, n, r)
    <2>1. RefersWithin(page, n)
      BY <1>17, <1>24 DEF Room
    <2>2. Grown(page, source, n, 0)
      BY <1>18, <2>1 DEF Grown
    <2>3. r \in Nat
      BY <1>14, <1>19
    <2> QED BY <2>2, <2>3, GrownWider
  <1>27. Grown(one, source, m, r)
    <2>1. CASE sectionInsert
      <3>1. n < Width /\ n + 1 = m /\ m <= Width
        BY <1>17, <1>21, <1>24, <1>25, <2>1
      <3>2. Grown(Inserted(page, section), source, n + 1, r)
        BY <1>21, <1>26, <3>1, GrownInserted
      <3>3. Grown(Headed(Inserted(page, section), r, section, SectionMark), source, m, r)
        BY <1>23, <3>1, <3>2, GrownHeaded
      <3> QED BY <1>16, <2>1, <3>3
    <2>2. CASE ~sectionInsert
      <3>1. n = m
        BY <1>17, <1>21, <1>24, <1>25, <2>2
      <3> QED BY <1>16, <1>26, <2>2, <3>1
    <2> QED BY <2>1, <2>2
  <1>28. Grown(two, source, Width, r)
    <2>1. CASE krInsert
      <3>1. m < Width /\ m + 1 = Width /\ Width <= Width
        BY <1>25, <2>1
      <3>2. Grown(Inserted(one, kr), source, m + 1, r)
        BY <1>21, <1>27, <3>1, GrownInserted
      <3>3. Grown(Headed(Inserted(one, kr), r, kr, KrMark), source, Width, r)
        BY <1>23, <3>1, <3>2, GrownHeaded
      <3> QED BY <1>16, <2>1, <3>3
    <2>2. CASE ~krInsert
      <3>1. m = Width
        BY <1>25, <2>2
      <3> QED BY <1>16, <1>27, <2>2, <3>1
    <2> QED BY <2>1, <2>2
  <1>29. Grown(three, source, Width, r)
    <2>1. Width <= Width /\ Width \in Nat
      OBVIOUS
    <2> QED BY <1>16, <1>23, <1>28, <2>1, GrownHeaded
  <1>30. Grown(page', source, Width, r)
    <2>1. Width <= Width /\ Width \in Nat
      OBVIOUS
    <2> QED BY <1>17, <1>23, <1>29, <2>1, GrownHeaded
  <1>31. /\ page \in Page /\ one \in Page /\ two \in Page /\ three \in Page /\ page' \in Page
    BY <1>18, <1>27, <1>28, <1>29, <1>30 DEF Grown
  <1>32. ASSUME NEW c \in 1..Width
         PROVE  /\ page'[c].from = two[c].from
                /\ ~krInsert => two[c].from = one[c].from
                /\ krInsert => two[c].from = Inserted(one, kr)[c].from
                /\ ~sectionInsert => one = page
                /\ sectionInsert => one[c].from = Inserted(page, section)[c].from
    <2>1. three[c].from = two[c].from
      BY <1>16, <1>23, <1>31, HeadedFrom
    <2>2. page'[c].from = three[c].from
      BY <1>17, <1>23, <1>31, HeadedFrom
    <2>3. krInsert => two[c].from = Inserted(one, kr)[c].from
      <3>1. Inserted(one, kr) \in Page
        BY <1>21, <1>31, InsertedIs
      <3> QED BY <1>16, <1>23, <3>1, HeadedFrom
    <2>4. sectionInsert => one[c].from = Inserted(page, section)[c].from
      <3>1. Inserted(page, section) \in Page
        BY <1>21, <1>31, InsertedIs
      <3> QED BY <1>16, <1>23, <3>1, HeadedFrom
    <2> QED BY <1>16, <2>1, <2>2, <2>3, <2>4
  <1>33. ASSUME NEW c \in 1..Width, c < kr
         PROVE  page'[c].from = page[c].from
    <2>1. c # kr /\ c # section /\ Before(c, kr) = c /\ Before(c, section) = c
      BY <1>21, <1>33 DEF Before
    <2>2. Inserted(one, kr)[c].from = one[c].from
      BY <1>21, <1>31, <2>1, InsertedFrom
    <2>3. Inserted(page, section)[c].from = page[c].from
      BY <1>21, <1>31, <2>1, InsertedFrom
    <2> QED BY <1>32, <2>2, <2>3
  <1>34. ASSUME last.tame
         PROVE  /\ \A q \in plan.rows : plan.header < q
                /\ plan.code > plan.average
                /\ \A c \in 1..plan.price : page[c].from = c
                /\ AverageFree(page, source, plan)
                /\ SectionTame(page, plan.header, plan.code, plan.section)
    BY <1>1, <1>34 DEF WriterInv, TameInv
  <1>35. ASSUME last.tame
         PROVE  /\ \/ plan.section \in 1..found
                   \/ plan.section \in 1..plan.code /\ ~Taken(page, r, plan.code + 1)
                   \/ /\ plan.section > plan.code
                      /\ IsSection(page, r, plan.section) \/ ~Taken(page, r, plan.section)
                /\ found = 0 /\ IsSection(page, r, plan.code + 1) => plan.section = plan.code + 1
    BY <1>14, <1>34, <1>35 DEF SectionTame
  <1>36. ASSUME NEW c \in 1..Width, page[c].from # 0
         PROVE  /\ IsKr(page, r, c) => IsKr(source, r, page[c].from)
                /\ IsSection(page, r, c) => IsSection(source, r, page[c].from)
                /\ ~Taken(page, r, c) => ~Taken(source, r, page[c].from)
    BY <1>18, <1>36, CopiedLabels DEF IsKr, IsSection, Taken
  <1>37. ASSUME last.tame
         PROVE  KrFree(page', source, plan')
    <2>1. CASE krInsert
      <3>1. Inserted(one, kr)[kr].from = 0
        BY <1>21, <1>31, InsertedIs, EmptyIs
      <3>2. page'[kr].from = 0
        BY <1>21, <1>32, <2>1, <3>1
      <3> QED BY <1>22, <3>2 DEF KrFree
    <2>2. CASE ~krInsert
      <3>1. page'[kr].from = page[kr].from
        <4>1. kr # section /\ Before(kr, section) = kr
          BY <1>21 DEF Before
        <4>2. Inserted(page, section)[kr].from = page[kr].from
          BY <1>21, <1>31, <4>1, InsertedFrom
        <4> QED BY <1>21, <1>32, <2>2, <4>2
      <3>2. IsKr(page, r, kr) \/ ~Taken(page, r, kr)
        <4>1. CASE found # 0
          BY <1>14, <1>20, <4>1
        <4>2. CASE found = 0
          <5>1. kr = plan.code + 1 /\ plan.section # kr
            BY <1>14, <2>2, <4>2
          <5>2. ~IsSection(page, r, kr)
            BY <1>35, <1>37, <4>2, <5>1
          <5> QED BY <1>14, <2>2, <4>2, <5>2
        <4> QED BY <4>1, <4>2
      <3>3. page[kr].from # 0 =>
              IsKr(source, r, page[kr].from) \/ ~Taken(source, r, page[kr].from)
        BY <1>21, <1>36, <3>2
      <3> QED BY <1>14, <1>22, <3>1, <3>3 DEF KrFree
    <2> QED BY <2>1, <2>2
  <1>37a. ASSUME last.tame, krInsert
          PROVE  plan.section >= kr /\ ~open /\ section = plan.section + 1
    <2>1. found = 0 /\ kr = plan.code + 1
      BY <1>14, <1>37a
    <2>2. plan.section > plan.code
      <3>1. plan.section = kr \/ Taken(page, r, kr)
        BY <1>14, <1>37a
      <3>2. plan.section \in 1..plan.code /\ ~Taken(page, r, plan.code + 1) => FALSE
        BY <1>19, <2>1, <3>1
      <3> QED BY <1>35, <1>37a, <2>1, <3>2
    <2>3. plan.section >= kr
      BY <1>19, <2>1, <2>2
    <2>4. given = plan.section + 1
      BY <1>21, <1>37a, <2>3
    <2>5. ~(given <= kr)
      BY <1>19, <1>21, <2>3, <2>4
    <2>6. ~open
      BY <1>14, <2>5
    <2>7. section = given
      BY <1>15, <2>6
    <2> QED BY <2>3, <2>4, <2>6, <2>7
  <1>37b. ASSUME last.tame, ~open
          PROVE  IsSection(page, r, plan.section) \/ ~Taken(page, r, plan.section)
    <2>1. plan.section \notin 1..found
      <3> SUFFICES ASSUME plan.section \in 1..found PROVE FALSE
        OBVIOUS
      <3>1. found # 0 /\ plan.section <= found
        BY <1>20
      <3>2. kr = found /\ ~krInsert
        BY <1>14, <3>1
      <3>3. given = plan.section
        BY <1>21, <3>2
      <3> QED BY <1>14, <1>37b, <3>1, <3>2, <3>3
    <2>2. plan.section \notin 1..plan.code
      <3> SUFFICES ASSUME plan.section \in 1..plan.code PROVE FALSE
        OBVIOUS
      <3>1. plan.section < kr /\ plan.section \in Int /\ kr \in Int
        BY <1>19, <1>21, SMTT(30)
      <3>2. given = plan.section
        BY <1>21, <3>1
      <3> QED BY <1>14, <1>37b, <3>1, <3>2
    <2> QED BY <1>35, <1>37b, <2>1, <2>2
  <1>38. ASSUME last.tame
         PROVE  SectionFree(page', source, plan')
    <2>1. krInsert => plan.section >= kr /\ ~open /\ section = plan.section + 1
      BY <1>37a, <1>38
    <2>2. CASE sectionInsert
      <3>1. ~krInsert
        BY <1>15, <2>1, <2>2
      <3>2. Inserted(page, section)[section].from = 0
        BY <1>21, <1>31, InsertedIs, EmptyIs
      <3>3. page'[section].from = 0
        BY <1>21, <1>32, <2>2, <3>1, <3>2
      <3> QED BY <1>22, <3>3 DEF SectionFree
    <2>3. CASE ~sectionInsert /\ open
      <3>1. ~krInsert
        BY <2>1, <2>3
      <3>2. page'[section].from = page[section].from
        BY <1>21, <1>32, <2>3, <3>1
      <3>3. IsSection(page, r, section) \/ ~Taken(page, r, section)
        BY <1>15, <2>3
      <3>4. page[section].from # 0 =>
              IsSection(source, r, page[section].from) \/ ~Taken(source, r, page[section].from)
        BY <1>21, <1>36, <3>3
      <3> QED BY <1>14, <1>22, <3>2, <3>4 DEF SectionFree
    <2>4. CASE ~open
      <3>1. ~sectionInsert
        BY <1>15, <2>4
      <3>2. plan.section \in 1..Width
        BY <1>18, <1>19
      <3>3. page'[section].from = page[plan.section].from
        <4>1. CASE krInsert
          <5>1. section # kr /\ Before(section, kr) = plan.section
            <6>1. plan.section \in Int /\ kr \in Int /\ plan.section >= kr
              BY <1>19, <1>21, <2>1, <4>1
            <6>2. section = plan.section + 1
              BY <2>1, <4>1
            <6> QED BY <6>1, <6>2 DEF Before
          <5>2. Inserted(page, kr)[section].from = page[plan.section].from
            BY <1>21, <1>31, <5>1, InsertedFrom
          <5> QED BY <1>21, <1>32, <3>1, <4>1, <5>2
        <4>2. CASE ~krInsert
          <5>1. section = plan.section
            BY <1>15, <1>21, <2>4, <4>2
          <5> QED BY <1>21, <1>32, <3>1, <4>2, <5>1
        <4> QED BY <4>1, <4>2
      <3>4. IsSection(page, r, plan.section) \/ ~Taken(page, r, plan.section)
        BY <1>37b, <1>38, <2>4
      <3>5. page[plan.section].from # 0 =>
              \/ IsSection(source, r, page[plan.section].from)
              \/ ~Taken(source, r, page[plan.section].from)
        BY <1>36, <3>2, <3>4
      <3> QED BY <1>14, <1>22, <3>3, <3>5 DEF SectionFree
    <2> QED BY <2>2, <2>3, <2>4
  <1>39. ShapeInv'
    <2>1. inserts' \in 0..3
      BY <1>17, <1>18, <1>21
    <2> QED BY <1>1, <1>18, <1>22, <1>31, <2>1 DEF ShapeInv
  <1>40. PlacesInv'
    <2>1. section # 0
      BY <1>21
    <2> QED BY <1>1, <1>18, <1>21, <1>22, <2>1 DEF PlacesInv
  <1>41. CopyInv'
    BY <1>1, <1>14, <1>22, <1>30 DEF CopyInv, Grown
  <1>42. TameInv'
    <2> SUFFICES ASSUME last.tame PROVE TameInv'
      BY <1>1 DEF TameInv
    <2>1. /\ \A q \in plan.rows : plan.header < q
          /\ plan.code > plan.average
      BY <1>34
    <2>2. ASSUME NEW c \in 1..plan.price
          PROVE  page'[c].from = c
      <3>1. c \in 1..Width /\ c < kr
        BY ONLY <1>18, <1>19, <1>21, <2>1, SheetAssumption
      <3>2. page[c].from = c
        BY <1>34, SMTT(30)
      <3> QED BY <1>33, <3>1, <3>2
    <2>3. AverageFree(page', source, plan')
      <3>1. plan.average \in 1..Width /\ plan.average < kr
        BY ONLY <1>18, <1>19, <1>21, <2>1, SheetAssumption
      <3>2. page'[plan.average].from = page[plan.average].from
        BY <1>33, <3>1
      <3>3. AverageFree(page, source, plan)
        BY <1>34
      <3> QED BY <1>22, <3>2, <3>3, SMTT(30) DEF AverageFree
    <2>4. KrFree(page', source, plan') /\ SectionFree(page', source, plan')
      BY <1>37, <1>38
    <2> QED BY <1>1, <1>22, <2>1, <2>2, <2>3, <2>4 DEF TameInv
  <1>43. OutputsStandApart' /\ AverageOfThisRun'
    BY <1>1 DEF OutputsStandApart, AverageOfThisRun
  <1>44. (round \in 1..MaxRounds)'
    BY <1>1 DEF WriterInv
  <1>45. ASSUME last.tame, plan.header # 0
         PROVE  Recognised(page', plan')
    <2>1. r \in 1..Height /\ plan.code \in Nat /\ kr \in Nat /\ kr # section
      BY ONLY <1>14, <1>18, <1>19, <1>21, <1>45, SheetAssumption
    <2>2. /\ Inserted(page, section) \in Page /\ Inserted(one, kr) \in Page
      BY <1>21, <1>31, InsertedIs
    <2>3. ASSUME NEW c \in Nat, c < section
          PROVE  At(one, r, c).is = At(page, r, c).is /\ At(one, r, c).of = At(page, r, c).of
      <3>1. At(Headed(Inserted(page, section), r, section, SectionMark), r, c)
              = At(Inserted(page, section), r, c)
        BY <1>21, <1>23, <2>2, <2>3, HeadedBeside
      <3>2. /\ At(Inserted(page, section), r, c).is = At(page, r, c).is
            /\ At(Inserted(page, section), r, c).of = At(page, r, c).of
        BY <1>21, <1>31, <2>3, InsertedLeft
      <3> QED BY <1>16, <3>1, <3>2
    <2>4. ASSUME NEW c, c # kr
          PROVE  /\ krInsert => At(two, r, c) = At(Inserted(one, kr), r, c)
                 /\ ~krInsert => At(two, r, c) = At(one, r, c)
                 /\ At(three, r, c) = At(two, r, c)
      <3>1. At(Headed(Inserted(one, kr), r, kr, KrMark), r, c) = At(Inserted(one, kr), r, c)
        BY <1>23, <2>2, <2>4, HeadedBeside
      <3>2. At(Headed(two, r, kr, KrMark), r, c) = At(two, r, c)
        BY <1>23, <1>31, <2>4, HeadedBeside
      <3> QED BY <1>16, <3>1, <3>2
    <2>5. ASSUME NEW c, c # section
          PROVE  At(page', r, c) = At(three, r, c)
      <3>1. At(Headed(three, r, section, SectionMark), r, c) = At(three, r, c)
        BY <1>23, <1>31, <2>5, HeadedBeside
      <3> QED BY <1>17, <3>1
    <2>6. ASSUME NEW c \in Nat, c < kr
          PROVE  At(page', r, c).of = At(page, r, c).of
      <3>1. c < section /\ c # section /\ c # kr
        BY <1>21, <2>6
      <3>2. At(Inserted(one, kr), r, c).of = At(one, r, c).of
        BY <1>21, <1>31, <2>6, InsertedLeft
      <3> QED BY <2>3, <2>4, <2>5, <3>1, <3>2
    <2>7. IsKr(page', r, kr)
      <3>1. At(page', r, kr) = At(three, r, kr)
        BY <2>1, <2>5
      <3>2. At(one, r, kr).is = At(page, r, kr).is /\ At(one, r, kr).of = At(page, r, kr).of
        BY <1>21, <2>1, <2>3
      <3>3. CASE found # 0
        <4>1. three = one /\ kr = found
          BY <1>14, <1>16, <3>3
        <4> QED BY <1>20, <3>1, <3>2, <3>3, <4>1 DEF IsKr
      <3>4. "kr" \in KrMark
        BY DEF KrMark
      <3>5. ASSUME found = 0, At(two, r, kr).is = "blank"
            PROVE  IsKr(page', r, kr)
        <4>1. At(three, r, kr) = [is |-> "text", of |-> KrMark, ref |-> 0]
          BY <1>16, <1>21, <1>31, <2>1, <3>5, HeadedThere
        <4> QED BY <3>1, <3>4, <4>1 DEF IsKr
      <3>6. CASE found = 0 /\ krInsert
        <4>1. At(Inserted(one, kr), r, kr).is = "blank"
          BY <1>21, <1>31, InsertedAt, NoTextIs
        <4>2. At(two, r, kr) = [is |-> "text", of |-> KrMark, ref |-> 0]
          BY <1>16, <1>21, <2>1, <2>2, <3>6, <4>1, HeadedThere
        <4>3. three = two
          BY <1>16, <1>21, <1>31, <2>1, <3>6, <4>2, HeadedThere
        <4> QED BY <3>1, <3>4, <4>2, <4>3 DEF IsKr
      <3>7. CASE found = 0 /\ ~krInsert
        <4>1. kr = plan.code + 1 /\ plan.section # kr
          BY <1>14, <3>7
        <4>2. ~IsSection(page, r, kr)
          BY <1>35, <1>45, <3>7, <4>1
        <4>3. ~Taken(page, r, kr)
          BY <1>14, <3>7, <4>2
        <4>4. At(two, r, kr).is = "blank"
          BY <1>16, <3>2, <3>7, <4>3 DEF Taken
        <4> QED BY <3>5, <3>7, <4>4
      <3> QED BY <3>3, <3>6, <3>7
    <2>8. KrColumn(page', r, plan.code) = kr
      <3>1. kr \in (plan.code + 1)..(plan.code + 3)
        <4>1. CASE found # 0
          BY <1>14, <1>20, <4>1
        <4>2. CASE found = 0
          <5>1. kr = plan.code + 1
            BY <1>14, <4>2
          <5> QED BY <2>1, <5>1
        <4> QED BY <4>1, <4>2
      <3>2. ASSUME NEW c \in (plan.code + 1)..(plan.code + 3), c < kr
            PROVE  ~IsKr(page', r, c)
        <4>1. c \in Nat
          BY <2>1
        <4>2. found # 0 /\ kr = found
          <5>1. found = 0 => kr = plan.code + 1
            BY <1>14
          <5>2. plan.code + 1 <= c
            OBVIOUS
          <5>3. ~(kr <= c)
            BY <2>1, <3>2, <4>1
          <5> QED BY <1>14, <5>1, <5>2, <5>3
        <4>3. IsKr(page, r, c) => found <= c
          BY <1>14, <2>1, <4>2, KrColumnIs
        <4>4. ~IsKr(page, r, c)
          BY <2>1, <3>2, <4>1, <4>2, <4>3
        <4>5. At(page', r, c).of = At(page, r, c).of
          BY <2>6, <3>2, <4>1
        <4> QED BY <4>4, <4>5 DEF IsKr
      <3> QED BY <2>1, <2>7, <3>1, <3>2, KrColumnFound
    <2>9. IsSection(page', r, section) \/ ~Taken(page', r, section)
      <3>1. CASE open
        <4>1. ~krInsert
          BY <1>37a, <1>45, <3>1
        <4>2. At(three, r, section) = At(one, r, section)
          BY <2>1, <2>4, <4>1
        <4>3. page' = Headed(three, r, section, SectionMark)
          BY <1>17, <3>1
        <4>4. SectionMark = {"section", "code"}
          BY DEF SectionMark
        <4>5. CASE At(three, r, section).is = "blank"
          <5>1. At(page', r, section) = [is |-> "text", of |-> SectionMark, ref |-> 0]
            BY <1>21, <1>31, <2>1, <4>3, <4>5, HeadedThere
          <5> QED BY <4>4, <5>1 DEF IsSection
        <4>6. CASE At(three, r, section).is # "blank"
          <5>1. page' = three
            BY <1>21, <1>31, <2>1, <4>3, <4>6, HeadedThere
          <5>2. CASE sectionInsert
            <6>1. At(Inserted(page, section), r, section).is = "blank"
              BY <1>21, <1>31, InsertedAt, NoTextIs
            <6>2. At(one, r, section) = [is |-> "text", of |-> SectionMark, ref |-> 0]
              BY <1>16, <1>21, <2>1, <2>2, <5>2, <6>1, HeadedThere
            <6> QED BY <4>2, <4>4, <5>1, <6>2 DEF IsSection
          <5>3. CASE ~sectionInsert
            <6>1. IsSection(page, r, section) \/ ~Taken(page, r, section)
              BY <1>15, <3>1, <5>3
            <6>2. one = page
              BY <1>16, <5>3
            <6> QED BY <4>2, <5>1, <6>1, <6>2 DEF IsSection, Taken
          <5> QED BY <5>2, <5>3
        <4> QED BY <4>5, <4>6
      <3>2. CASE ~open
        <4>1. ~sectionInsert /\ one = page /\ page' = three
          BY <1>15, <1>16, <1>17, <3>2
        <4>2. /\ At(page', r, section).is = At(page, r, plan.section).is
              /\ At(page', r, section).of = At(page, r, plan.section).of
          <5>1. CASE krInsert
            <6>1. plan.section >= kr /\ section = plan.section + 1
              BY <1>37a, <1>45, <5>1
            <6>2. At(page', r, section) = At(Inserted(page, kr), r, section)
              BY <2>1, <2>4, <4>1, <5>1
            <6>3. \A b \in 1..Width, k \in 1..Height : page[b].cells[k] # NoText => b + 1 <= Width
              <7>1. added = 1
                BY <1>17, <4>1, <5>1
              <7> QED BY <1>17, <7>1 DEF Room
            <6>4. plan.section \in Nat
              BY <1>19
            <6> QED BY ONLY <1>21, <1>31, <6>1, <6>2, <6>3, <6>4, InsertedRow
          <5>2. CASE ~krInsert
            <6>1. section = plan.section
              BY <1>15, <1>21, <3>2, <5>2
            <6>2. At(page', r, section) = At(page, r, section)
              BY <2>1, <2>4, <4>1, <5>2
            <6> QED BY <6>1, <6>2
          <5> QED BY <5>1, <5>2
        <4>3. IsSection(page, r, plan.section) \/ ~Taken(page, r, plan.section)
          BY <1>37b, <1>45, <3>2
        <4> QED BY <4>2, <4>3 DEF IsSection, Taken
      <3> QED BY <3>1, <3>2
    <2> QED BY <1>14, <1>22, <2>8, <2>9 DEF Recognised
  <1>46. ASSUME StaysPut(page, plan)
         PROVE  StaysPut(page', plan')
    <2>1. Distinct(one)
      <3>1. sectionInsert => Distinct(Inserted(page, section))
        BY <1>21, <1>31, <1>46, DistinctInserted DEF StaysPut
      <3>2. sectionInsert => \A c \in 1..Width : one[c].from = Inserted(page, section)[c].from
        BY <1>32
      <3>3. ~sectionInsert => one = page
        BY <1>16
      <3> QED BY <1>46, <3>1, <3>2, <3>3, DistinctKept DEF StaysPut
    <2>2. Distinct(two)
      <3>1. Distinct(Inserted(one, kr))
        BY <1>21, <1>31, <2>1, DistinctInserted
      <3>2. /\ krInsert => \A c \in 1..Width : two[c].from = Inserted(one, kr)[c].from
            /\ ~krInsert => \A c \in 1..Width : two[c].from = one[c].from
        BY <1>32
      <3> QED BY <2>1, <3>1, <3>2, DistinctKept
    <2>3. Distinct(page')
      <3>1. \A c \in 1..Width : page'[c].from = two[c].from
        BY <1>32
      <3> QED BY <2>2, <3>1, DistinctKept
    <2>4. ASSUME NEW k \in 1..Width, k <= plan.price, k <= plan.code
          PROVE  page'[k].from = k
      <3>1. k < kr
        BY ONLY <1>19, <1>21, <2>4, SheetAssumption
      <3>2. page[k].from = k
        BY <1>46, <2>4 DEF StaysPut
      <3> QED BY <1>33, <3>1, <3>2
    <2> QED BY <1>22, <2>3, <2>4 DEF StaysPut
  <1> QED BY <1>39, <1>40, <1>41, <1>42, <1>43, <1>44, <1>45, <1>46 DEF WriterInv

--------------------------------------------------------------------------------
(* The analog block                                                            *)

(* A column whose cells are written anew.                                      *)
LEMMA RewrittenColumn ==
  ASSUME NEW col \in Column, NEW new \in [1..Height -> SheetCell]
  PROVE  LET out == [col EXCEPT !.cells = new]
         IN  out \in Column /\ out.from = col.from /\ out.cells = new
  BY DEF Column

LEMMA OutputIs ==
  ASSUME round \in Nat
  PROVE  /\ Output \in SheetCell /\ Output.is = "output" /\ ~IsFormula(Output)
  BY DEF Output, SheetCell, Kinds, IsFormula

LEMMA ClearedIs ==
  ASSUME NEW p \in Page, NEW first, NEW end
  PROVE  /\ Cleared(p, first, end) \in Page
         /\ \A c \in 1..Width :
              /\ Cleared(p, first, end)[c].from = p[c].from
              /\ \A r \in 1..Height :
                   Cleared(p, first, end)[c].cells[r] =
                     IF c \in first..end /\ r \in plan.header..Max(plan.rows) THEN NoText
                     ELSE p[c].cells[r]
  <1> DEFINE q == Cleared(p, first, end)
  <1>1. ASSUME NEW c \in 1..Width
        PROVE  /\ q[c] \in Column /\ q[c].from = p[c].from
               /\ \A r \in 1..Height :
                    q[c].cells[r] = IF c \in first..end /\ r \in plan.header..Max(plan.rows)
                                    THEN NoText ELSE p[c].cells[r]
    <2> DEFINE new == [r \in 1..Height |-> IF r \in plan.header..Max(plan.rows) THEN NoText
                                           ELSE p[c].cells[r]]
    <2>1. p[c] \in Column /\ \A r \in 1..Height : p[c].cells[r] \in SheetCell
      BY PageIs
    <2>2. new \in [1..Height -> SheetCell]
      BY <2>1, NoTextIs
    <2>3. q[c] = IF c \notin first..end THEN p[c] ELSE [p[c] EXCEPT !.cells = new]
      BY DEF Cleared
    <2>4. \A r \in 1..Height : new[r] = IF r \in plan.header..Max(plan.rows) THEN NoText
                                        ELSE p[c].cells[r]
      OBVIOUS
    <2> HIDE DEF q, new
    <2>5. LET out == [p[c] EXCEPT !.cells = new]
          IN  out \in Column /\ out.from = p[c].from /\ out.cells = new
      BY <2>1, <2>2, RewrittenColumn
    <2> QED BY <2>1, <2>3, <2>4, <2>5
  <1>2. q = [c \in 1..Width |-> q[c]]
    BY DEF Cleared
  <1> HIDE DEF q
  <1>3. q \in Page
    BY <1>1, <1>2 DEF Page
  <1> QED BY <1>1, <1>3 DEF q

LEMMA HeadingCellIs ==
  ASSUME round \in Nat, NEW r, NEW n \in Nat \ {0}, NEW tkp \in BOOLEAN, NEW cell \in SheetCell
  PROVE  /\ HeadingCell(r, n, tkp, cell) \in SheetCell
         /\ \/ HeadingCell(r, n, tkp, cell) \in {cell, Output}
            \/ r = plan.header /\ HeadingCell(r, n, tkp, cell).is = "text"
  <1> DEFINE of == IF tkp /\ n < 4 THEN TkpHeads[n] ELSE {}
             text == [is |-> "text", of |-> of, ref |-> 0]
  <1>1. of \in SUBSET HeadingMarks
    <2>1. CASE tkp /\ n < 4
      <3>1. n = 1 \/ n = 2 \/ n = 3
        BY <2>1
      <3>2. TkpHeads[n] \in {{}, {"name"}}
        BY <3>1 DEF TkpHeads
      <3> QED BY <2>1, <3>2 DEF HeadingMarks, SheetFields
    <2> QED BY <2>1
  <1> HIDE DEF of
  <1>2. text \in SheetCell /\ text.is = "text"
    BY <1>1 DEF SheetCell, Kinds
  <1>3. HeadingCell(r, n, tkp, cell) =
          IF r = plan.header THEN text
          ELSE IF r = plan.header + 1 /\ ~(tkp /\ n < 4) THEN Output ELSE cell
    BY DEF HeadingCell, of
  <1> HIDE DEF text
  <1> QED BY <1>2, <1>3, OutputIs

LEMMA BlockHeadedIs ==
  ASSUME round \in Nat, NEW p \in Page, NEW first \in Int, NEW end \in Int, NEW tkp \in BOOLEAN
  PROVE  /\ BlockHeaded(p, first, end, tkp) \in Page
         /\ \A c \in 1..Width :
              /\ BlockHeaded(p, first, end, tkp)[c].from = p[c].from
              /\ \A r \in 1..Height :
                   LET new == BlockHeaded(p, first, end, tkp)[c].cells[r]
                   IN  \/ new = p[c].cells[r]
                       \/ c \in first..end /\ new = Output
                       \/ c \in first..end /\ r = plan.header /\ new.is = "text"
  <1> DEFINE q == BlockHeaded(p, first, end, tkp)
  <1>1. ASSUME NEW c \in 1..Width
        PROVE  /\ q[c] \in Column /\ q[c].from = p[c].from
               /\ \A r \in 1..Height :
                    \/ q[c].cells[r] = p[c].cells[r]
                    \/ c \in first..end /\ q[c].cells[r] = Output
                    \/ c \in first..end /\ r = plan.header /\ q[c].cells[r].is = "text"
    <2> DEFINE new == [r \in 1..Height |-> HeadingCell(r, c - first + 1, tkp, p[c].cells[r])]
    <2>1. p[c] \in Column /\ \A r \in 1..Height : p[c].cells[r] \in SheetCell
      BY PageIs
    <2>2. q[c] = IF c \notin first..end THEN p[c] ELSE [p[c] EXCEPT !.cells = new]
      BY DEF BlockHeaded
    <2>3. CASE c \notin first..end
      BY <2>1, <2>2, <2>3
    <2>4. CASE c \in first..end
      <3>1. PICK n \in Nat \ {0} : n = c - first + 1
        BY <2>4
      <3>2. ASSUME NEW r \in 1..Height
            PROVE  /\ new[r] \in SheetCell
                   /\ \/ new[r] \in {p[c].cells[r], Output}
                      \/ r = plan.header /\ new[r].is = "text"
        <4>1. p[c].cells[r] \in SheetCell
          BY <2>1
        <4>2. new[r] = HeadingCell(r, n, tkp, p[c].cells[r])
          BY <3>1
        <4> HIDE DEF new
        <4> HIDE SheetAssumption, WriterAssumption
        <4> QED BY <4>1, <4>2, HeadingCellIs
      <3>3. new \in [1..Height -> SheetCell]
        BY <3>2
      <3> HIDE DEF q, new
      <3>4. LET out == [p[c] EXCEPT !.cells = new]
            IN  out \in Column /\ out.from = p[c].from /\ out.cells = new
        BY <2>1, <3>3, RewrittenColumn
      <3> QED BY <2>2, <2>4, <3>2, <3>4
    <2> QED BY <2>3, <2>4
  <1>2. q = [c \in 1..Width |-> q[c]]
    BY DEF BlockHeaded
  <1> HIDE DEF q
  <1>3. q \in Page
    BY <1>1, <1>2 DEF Page
  <1> QED BY <1>1, <1>3 DEF q

(* What a cell of a calculated row becomes.                                    *)
LEMMA RowCellIs ==
  ASSUME round \in Nat, plan.price \in Nat,
         NEW c, NEW filled, NEW coded, NEW end, NEW cell \in SheetCell
  PROVE  LET new == RowCell(c, filled, coded, end, cell)
         IN  /\ new \in SheetCell
             /\ \/ new = cell \/ new = Output
                \/ c = plan.average /\ new.ref = plan.price
             /\ new = cell \/ c \in filled \/ c \in {plan.kr, plan.section, plan.average}
  <1> DEFINE formula == [is |-> IF end < plan.start THEN "formula" ELSE "average",
                         of |-> {}, ref |-> plan.price]
  <1>1. formula \in SheetCell /\ formula.ref = plan.price
    BY DEF SheetCell, Kinds
  <1>2. RowCell(c, filled, coded, end, cell) =
          IF c \in filled \/ c = plan.kr THEN Output
          ELSE IF c = plan.average THEN formula
          ELSE IF coded /\ c = plan.section THEN Output ELSE cell
    BY DEF RowCell
  <1> HIDE DEF formula
  <1> QED BY <1>1, <1>2, OutputIs

LEMMA RowsWrittenIs ==
  ASSUME round \in Nat, plan.price \in Nat,
         NEW p \in Page, NEW filled, NEW coded, NEW end
  PROVE  /\ RowsWritten(p, filled, coded, end) \in Page
         /\ \A c \in 1..Width :
              /\ RowsWritten(p, filled, coded, end)[c].from = p[c].from
              /\ \A r \in 1..Height :
                   RowsWritten(p, filled, coded, end)[c].cells[r] =
                     IF r \in plan.rows THEN RowCell(c, filled[r], coded, end, p[c].cells[r])
                     ELSE p[c].cells[r]
  <1> DEFINE q == RowsWritten(p, filled, coded, end)
  <1>1. ASSUME NEW c \in 1..Width
        PROVE  /\ q[c] \in Column /\ q[c].from = p[c].from
               /\ \A r \in 1..Height :
                    q[c].cells[r] = IF r \in plan.rows
                                    THEN RowCell(c, filled[r], coded, end, p[c].cells[r])
                                    ELSE p[c].cells[r]
    <2> DEFINE new == [r \in 1..Height |->
                         IF r \in plan.rows
                         THEN RowCell(c, filled[r], coded, end, p[c].cells[r])
                         ELSE p[c].cells[r]]
    <2>1. p[c] \in Column /\ \A r \in 1..Height : p[c].cells[r] \in SheetCell
      BY PageIs
    <2>2. ASSUME NEW r \in 1..Height
          PROVE  new[r] \in SheetCell
      <3>1. RowCell(c, filled[r], coded, end, p[c].cells[r]) \in SheetCell
        BY <2>1, RowCellIs
      <3> QED BY <2>1, <3>1
    <2>3. q[c] = [p[c] EXCEPT !.cells = new]
      BY DEF RowsWritten
    <2>4. \A r \in 1..Height :
            new[r] = IF r \in plan.rows
                     THEN RowCell(c, filled[r], coded, end, p[c].cells[r])
                     ELSE p[c].cells[r]
      OBVIOUS
    <2>5. new \in [1..Height -> SheetCell]
      BY <2>2
    <2> HIDE DEF q, new
    <2>6. LET out == [p[c] EXCEPT !.cells = new]
          IN  out \in Column /\ out.from = p[c].from /\ out.cells = new
      BY <2>1, <2>5, RewrittenColumn
    <2> QED BY <2>3, <2>4, <2>6
  <1>2. q = [c \in 1..Width |-> q[c]]
    BY DEF RowsWritten
  <1> HIDE DEF q
  <1>3. q \in Page
    BY <1>1, <1>2 DEF Page
  <1> QED BY <1>1, <1>3 DEF q

LEMMA RowWrittenIs ==
  ASSUME round \in Nat, plan.price \in Nat,
         NEW p \in Page, NEW filled, NEW coded, NEW end,
         NEW c \in 1..Width, NEW r \in 1..Height
  PROVE  LET q == RowsWritten(p, filled, coded, end)
         IN  /\ q[c].from = p[c].from
             /\ q[c].cells[r] = IF r \in plan.rows
                                THEN RowCell(c, filled[r], coded, end, p[c].cells[r])
                                ELSE p[c].cells[r]
  <1> DEFINE q == RowsWritten(p, filled, coded, end)
  <1>1. \A b \in 1..Width :
          /\ q[b].from = p[b].from
          /\ \A k \in 1..Height :
               q[b].cells[k] = IF k \in plan.rows
                               THEN RowCell(b, filled[k], coded, end, p[b].cells[k])
                               ELSE p[b].cells[k]
    BY RowsWrittenIs
  <1> HIDE DEF q
  <1> QED BY <1>1 DEF q

(* The columns of the analogs begin at the first.                              *)
LEMMA ColumnFromFirst ==
  ASSUME NEW found, AnalogsOK(found), NEW first \in Int, NEW t, NEW k
  PROVE  ColumnOf(found, first, t, k) \in Int /\ ColumnOf(found, first, t, k) >= first
  <1>1. ColumnOf(found, first, t, k) = first + Cardinality(InFront(found, t, k))
    BY DEF ColumnOf, InFront
  <1>2. Cardinality(InFront(found, t, k)) \in Nat
    BY FrontIsFinite
  <1> QED BY <1>1, <1>2

WrittenPlan(pl, end, found) == [pl EXCEPT !.end = end, !.found = found]

LEMMA WrittenPlanned ==
  ASSUME NEW pl \in PlanRecord, NEW end \in 0..Width, NEW found \in Founds
  PROVE  LET new == WrittenPlan(pl, end, found)
         IN  /\ new \in PlanRecord
             /\ new.end = end /\ new.found = found
             /\ new.price = pl.price /\ new.rows = pl.rows /\ new.header = pl.header
             /\ new.average = pl.average /\ new.code = pl.code /\ new.kr = pl.kr
             /\ new.section = pl.section /\ new.start = pl.start
  BY DEF WrittenPlan, PlanRecord

(* The block alone: where it is, its rows are empty but for results.           *)
LEMMA BlockIs ==
  ASSUME round \in Nat, NEW p \in Page, NEW start \in Int, NEW end \in Int, NEW tkp \in BOOLEAN,
         NEW c \in 1..Width, NEW r \in 1..Height
  PROVE  LET q   == BlockHeaded(Cleared(p, start, end), start, end, tkp)
             new == q[c].cells[r]
         IN  /\ q \in Page /\ q[c].from = p[c].from
             /\ c \notin start..end => new = p[c].cells[r]
             /\ new = p[c].cells[r] \/ ~IsFormula(new)
             /\ c \in start..end /\ r # plan.header /\ r \in plan.header..Max(plan.rows)
                  => new \in {NoText, Output}
  <1> DEFINE one == Cleared(p, start, end)
             q   == BlockHeaded(one, start, end, tkp)
  <1>1. /\ one \in Page /\ one[c].from = p[c].from
        /\ one[c].cells[r] = IF c \in start..end /\ r \in plan.header..Max(plan.rows) THEN NoText
                             ELSE p[c].cells[r]
    <2>1. one \in Page /\ \A b \in 1..Width :
            /\ one[b].from = p[b].from
            /\ \A k \in 1..Height :
                 one[b].cells[k] = IF b \in start..end /\ k \in plan.header..Max(plan.rows)
                                   THEN NoText ELSE p[b].cells[k]
      BY ClearedIs
    <2> HIDE DEF one
    <2> QED BY <2>1
  <1> HIDE DEF one
  <1>2. /\ q \in Page /\ q[c].from = one[c].from
        /\ \/ q[c].cells[r] = one[c].cells[r]
           \/ c \in start..end /\ q[c].cells[r] = Output
           \/ c \in start..end /\ r = plan.header /\ q[c].cells[r].is = "text"
    <2>1. q \in Page /\ \A b \in 1..Width :
            /\ q[b].from = one[b].from
            /\ \A k \in 1..Height :
                 \/ q[b].cells[k] = one[b].cells[k]
                 \/ b \in start..end /\ q[b].cells[k] = Output
                 \/ b \in start..end /\ k = plan.header /\ q[b].cells[k].is = "text"
      BY <1>1, BlockHeadedIs
    <2> HIDE DEF q
    <2> QED BY <2>1
  <1> HIDE DEF q
  <1>3. q[c].cells[r].is = "text" => ~IsFormula(q[c].cells[r])
    BY DEF IsFormula
  <1>4. q[c].cells[r] = p[c].cells[r] \/ ~IsFormula(q[c].cells[r])
    BY <1>1, <1>2, <1>3, OutputIs, NoTextIs
  <1> QED BY <1>1, <1>2, <1>4 DEF one, q

(* What a calculation of a tame layout leaves behind for the next one.         *)
Aftermath(p, pl) ==
  /\ pl.header # 0 /\ pl.rows # {} /\ \A q \in pl.rows : pl.header < q
  /\ pl.average = pl.price + 1 /\ pl.average < pl.code
  /\ pl.code < pl.kr /\ pl.kr < pl.section /\ pl.start = pl.section + 1
  /\ Recognised(p, pl)
  /\ pl.end >= pl.start => \A r \in pl.rows : At(p, r, pl.average).is = "average"

LEMMA WriteBlock_Inv ==
  WriterInv /\ WriteBlock =>
    /\ WriterInv'
    /\ last.tame /\ plan.header # 0 /\ Recognised(page, plan) => Aftermath(page', plan')
    /\ StaysPut(page, plan) => StaysPut(page', plan')
  <1> SUFFICES ASSUME WriterInv, WriteBlock
               PROVE  /\ WriterInv'
                      /\ last.tame /\ plan.header # 0 /\ Recognised(page, plan)
                           => Aftermath(page', plan')
                      /\ StaysPut(page, plan) => StaysPut(page', plan')
    OBVIOUS
  <1>1. PICK found \in [plan.rows -> AnalogRows], tkp \in BOOLEAN, coded \in BOOLEAN,
             offered \in SUBSET plan.rows :
          LET first == plan.start + IF tkp THEN 3 ELSE 0
              end == first + BlockWidth(found) - 1
              filled == [r \in plan.rows |->
                           {ColumnOf(found, first, found[r][n][1], found[r][n][2]) :
                              n \in DOMAIN found[r]}
                           \cup (IF tkp /\ r \in offered
                                 THEN plan.start..(plan.start + 2) ELSE {})]
              block == IF end < plan.start THEN page
                       ELSE BlockHeaded(Cleared(page, plan.start, end), plan.start, end, tkp)
          IN  /\ end <= Width
              /\ page' = RowsWritten(block, filled, coded, end)
              /\ plan' = [plan EXCEPT !.end = end, !.found = found]
    BY DEF WriteBlock
  <1>2. PICK first : first = plan.start + IF tkp THEN 3 ELSE 0
    OBVIOUS
  <1>3. PICK end : end = first + BlockWidth(found) - 1
    OBVIOUS
  <1>4. PICK filled :
          filled = [r \in plan.rows |->
                      {ColumnOf(found, first, found[r][n][1], found[r][n][2]) :
                         n \in DOMAIN found[r]}
                      \cup (IF tkp /\ r \in offered THEN plan.start..(plan.start + 2) ELSE {})]
    OBVIOUS
  <1>5. PICK block :
          block = IF end < plan.start THEN page
                  ELSE BlockHeaded(Cleared(page, plan.start, end), plan.start, end, tkp)
    OBVIOUS
  <1>6. /\ end <= Width
        /\ page' = RowsWritten(block, filled, coded, end)
        /\ plan' = WrittenPlan(plan, end, found)
    BY <1>1, <1>2, <1>3, <1>4, <1>5 DEF WrittenPlan
  <1>7. /\ step = "placed" /\ step' = "written"
        /\ round' = round /\ source' = source /\ inserts' = inserts /\ last' = last
    BY DEF WriteBlock
  <1>8. /\ page \in Page /\ source \in Page /\ plan \in PlanRecord /\ last \in LastRecord
        /\ inserts \in 0..3
        /\ plan.rows # {} /\ plan.price # 0 /\ plan.section # 0
        /\ plan.average = plan.price + 1
        /\ plan.code < plan.kr /\ plan.kr < plan.section /\ plan.start = plan.section + 1
        /\ RefersWithin(page, Width) /\ CopyOf(page, source, plan.header)
        /\ FollowedBut(page, source, 0)
    BY <1>7 DEF WriterInv, ShapeInv, PlacesInv, CopyInv
  <1>9. /\ plan.header \in 0..Height /\ plan.rows \in SUBSET (1..Height)
        /\ plan.price \in 1..Width /\ plan.code \in 0..Width /\ plan.average \in 0..Width
        /\ plan.kr \in 0..Width /\ plan.section \in 0..Width /\ plan.start \in 1..Width
    <2>1. /\ plan.header \in 0..Height /\ plan.rows \in SUBSET (1..Height)
          /\ plan.price \in 0..Width /\ plan.code \in 0..Width /\ plan.average \in 0..Width
          /\ plan.kr \in 0..Width /\ plan.section \in 0..Width /\ plan.start \in 0..Width
      <3>1. plan \in PlanRecord
        BY <1>8
      <3> QED BY ONLY <3>1 DEF PlanRecord
    <2>2. plan.price # 0 /\ plan.start = plan.section + 1
      BY <1>8
    <2>3. plan.price \in 1..Width /\ plan.start \in 1..Width
      BY ONLY <2>1, <2>2, SheetAssumption
    <2> QED BY ONLY <2>1, <2>3
  <1>10. round \in 1..MaxRounds /\ round \in Nat
    BY DEF WriterInv
  <1>11. AnalogsOK(found)
    BY <1>9, FoundIsOK
  <1>12. BlockWidth(found) \in Nat
    BY <1>11, SlotsAre
  <1>13. first \in Int /\ first >= plan.start /\ end \in Int /\ end \in 0..Width
    <2>1. plan.start \in Int /\ plan.start >= 1
      BY <1>9
    <2>2. first \in Int /\ first >= plan.start
      BY <1>2, <2>1, SMTT(30)
    <2>3. PICK n \in Nat : n = BlockWidth(found)
      BY <1>12
    <2>4. end = first + n - 1 /\ end <= Width
      BY <1>3, <1>6, <2>3
    <2>5. end \in Int /\ end \in 0..Width
      BY <2>1, <2>2, <2>4
    <2> QED BY <2>2, <2>5
  <1>14. found \in Founds
    BY <1>9 DEF Founds
  <1>15. /\ plan' \in PlanRecord
         /\ plan'.end = end /\ plan'.found = found
         /\ plan'.price = plan.price /\ plan'.rows = plan.rows /\ plan'.header = plan.header
         /\ plan'.average = plan.average /\ plan'.code = plan.code /\ plan'.kr = plan.kr
         /\ plan'.section = plan.section /\ plan'.start = plan.start
    <2>1. plan' = WrittenPlan(plan, end, found)
      BY <1>6
    <2>2. plan \in PlanRecord /\ end \in 0..Width /\ found \in Founds
      BY <1>8, <1>13, <1>14
    <2> HIDE SheetAssumption, WriterAssumption
    <2> QED BY <2>1, <2>2, WrittenPlanned
  <1> HIDE DEF FollowedBut
  <1>16. ASSUME NEW c \in 1..Width, NEW r \in 1..Height
         PROVE  /\ block \in Page /\ block[c].from = page[c].from
                /\ c < plan.start => block[c].cells[r] = page[c].cells[r]
                /\ block[c].cells[r] = page[c].cells[r] \/ ~IsFormula(block[c].cells[r])
                /\ c \in plan.start..end /\ r # plan.header /\ r \in plan.header..Max(plan.rows)
                     => block[c].cells[r] \in {NoText, Output}
    <2>1. CASE end < plan.start
      <3>1. block = page /\ c \notin plan.start..end
        BY <1>5, <1>9, <1>13, <2>1
      <3> QED BY <1>8, <3>1
    <2>2. CASE ~(end < plan.start)
      <3>1. PICK start \in Int : start = plan.start
        BY <1>9, SMTT(30)
      <3>2. block = BlockHeaded(Cleared(page, start, end), start, end, tkp)
        BY <1>5, <2>2, <3>1
      <3>3. LET q   == BlockHeaded(Cleared(page, start, end), start, end, tkp)
                new == q[c].cells[r]
            IN  /\ q \in Page /\ q[c].from = page[c].from
                /\ c \notin start..end => new = page[c].cells[r]
                /\ new = page[c].cells[r] \/ ~IsFormula(new)
                /\ c \in start..end /\ r # plan.header /\ r \in plan.header..Max(plan.rows)
                     => new \in {NoText, Output}
        BY <1>8, <1>10, <1>13, BlockIs
      <3>4. c < start => c \notin start..end
        BY <1>13
      <3> QED BY <3>1, <3>2, <3>3, <3>4
    <2> QED BY <2>1, <2>2
  <1>17. ASSUME NEW r \in plan.rows, NEW c \in 1..Width, c < plan.start
         PROVE  c \notin filled[r]
    <2>1. ASSUME NEW n \in DOMAIN found[r]
          PROVE  ColumnOf(found, first, found[r][n][1], found[r][n][2]) # c
      <3>1. PICK col : col = ColumnOf(found, first, found[r][n][1], found[r][n][2])
        OBVIOUS
      <3>2. col \in Int /\ col >= first
        BY <1>11, <1>13, <3>1, ColumnFromFirst
      <3> QED BY <1>9, <1>13, <1>17, <3>1, <3>2
    <2>2. c \notin plan.start..(plan.start + 2)
      BY <1>9, <1>17
    <2> QED BY <1>4, <2>1, <2>2
  <1>18. block \in Page
    <2>1. CASE end < plan.start
      BY <1>5, <1>8, <2>1
    <2>2. CASE ~(end < plan.start)
      <3>1. Cleared(page, plan.start, end) \in Page
        BY <1>8, ClearedIs
      <3>2. plan.start \in Int /\ end \in Int
        BY <1>9, <1>13
      <3>3. BlockHeaded(Cleared(page, plan.start, end), plan.start, end, tkp) \in Page
        <4> HIDE SheetAssumption, WriterAssumption
        <4> QED BY <1>10, <3>1, <3>2, BlockHeadedIs
      <3> QED BY <1>5, <2>2, <3>3
    <2> QED BY <2>1, <2>2
  <1>19. plan.price \in Nat /\ page' \in Page
    <2>1. plan.price \in Nat
      BY <1>9
    <2>2. RowsWritten(block, filled, coded, end) \in Page
      BY <1>10, <1>18, <2>1, RowsWrittenIs
    <2> QED BY <1>6, <2>1, <2>2
  <1>20. ASSUME NEW c \in 1..Width, NEW r \in 1..Height
         PROVE  LET new == page'[c].cells[r]
                    old == block[c].cells[r]
                IN  /\ page'[c].from = page[c].from
                    /\ r \notin plan.rows => new = old
                    /\ \/ new = old \/ new = Output
                       \/ c = plan.average /\ new.ref = plan.price
                    /\ r \in plan.rows /\ c < plan.start /\ new # old
                         => c \in {plan.kr, plan.section, plan.average}
    <2>1. PICK old : old = block[c].cells[r]
      OBVIOUS
    <2>2. old \in SheetCell
      BY <1>18, <2>1, PageIs
    <2>3. PICK new : new = page'[c].cells[r]
      OBVIOUS
    <2>4. /\ page'[c].from = block[c].from
          /\ new = IF r \in plan.rows THEN RowCell(c, filled[r], coded, end, old) ELSE old
      <3>1. LET q == RowsWritten(block, filled, coded, end)
            IN  /\ q[c].from = block[c].from
                /\ q[c].cells[r] = IF r \in plan.rows
                                   THEN RowCell(c, filled[r], coded, end, block[c].cells[r])
                                   ELSE block[c].cells[r]
        BY <1>10, <1>18, <1>19, RowWrittenIs
      <3> QED BY <1>6, <2>1, <2>3, <3>1
    <2>5. page'[c].from = page[c].from
      BY <1>16, <2>4
    <2>6. CASE r \in plan.rows
      <3>1. /\ \/ new = old \/ new = Output
               \/ c = plan.average /\ new.ref = plan.price
            /\ new = old \/ c \in filled[r] \/ c \in {plan.kr, plan.section, plan.average}
        <4>1. plan.price \in Nat
          BY <1>9
        <4> QED BY <1>10, <2>2, <2>4, <2>6, <4>1, RowCellIs
      <3>2. c < plan.start => c \notin filled[r]
        BY <1>17, <2>6
      <3> QED BY <2>1, <2>3, <2>5, <2>6, <3>1, <3>2
    <2>7. CASE r \notin plan.rows
      BY <2>1, <2>3, <2>4, <2>5, <2>7
    <2> QED BY <2>6, <2>7
  <1>21. ASSUME NEW c \in 1..Width, NEW r \in 1..Height, IsFormula(page'[c].cells[r])
         PROVE  \/ page'[c].cells[r] = page[c].cells[r]
                \/ c = plan.average /\ page'[c].cells[r].ref = plan.price
    <2>1. PICK new : new = page'[c].cells[r]
      OBVIOUS
    <2>2. PICK old : old = block[c].cells[r]
      OBVIOUS
    <2>3. IsFormula(new) /\ ~IsFormula(Output)
      BY <1>10, <1>21, <2>1, OutputIs
    <2>4. \/ new = old \/ new = Output
          \/ c = plan.average /\ new.ref = plan.price
      BY <1>20, <2>1, <2>2
    <2>5. old = page[c].cells[r] \/ ~IsFormula(old)
      BY <1>16, <2>2
    <2> QED BY <2>1, <2>3, <2>4, <2>5
  <1>22. RefersWithin(page', Width)
    <2> SUFFICES ASSUME NEW c \in 1..Width, NEW r \in 1..Height, IsFormula(page'[c].cells[r])
                 PROVE  page'[c].cells[r].ref \in 1..Width
      BY DEF RefersWithin
    <2>1. CASE page'[c].cells[r] = page[c].cells[r]
      BY <1>8, <2>1 DEF RefersWithin
    <2>2. CASE page'[c].cells[r].ref = plan.price
      BY <1>9, <2>2
    <2> QED BY <1>21, <2>1, <2>2
  <1>23. FollowedBut(page', source, plan.average)
    <2> SUFFICES ASSUME NEW c \in 1..Width, NEW r \in 1..Height,
                        page'[c].from # 0, c # plan.average, IsFormula(page'[c].cells[r])
                 PROVE  page'[page'[c].cells[r].ref].from
                          = source[page'[c].from].cells[r].ref
      BY DEF FollowedBut
    <2>1. PICK k : k = page'[c].cells[r].ref
      OBVIOUS
    <2>2. page'[c].cells[r] = page[c].cells[r] /\ page'[c].from = page[c].from
      BY <1>20, <1>21
    <2>3. k \in 1..Width
      BY <1>22, <2>1 DEF RefersWithin
    <2>4. page'[k].from = page[k].from \/ Height = 0
      <3>1. CASE Height = 0
        BY <3>1
      <3>2. CASE Height # 0
        <4>1. 1 \in 1..Height
          BY <3>2
        <4> QED BY <1>20, <2>3, <4>1
      <3> QED BY <3>1, <3>2
    <2>5. Height # 0
      OBVIOUS
    <2>6. page[page[c].cells[r].ref].from = source[page[c].from].cells[r].ref
      <3>1. IsFormula(page[c].cells[r]) /\ page[c].from # 0 /\ c # 0
        BY <2>2
      <3> QED BY <1>8, <3>1 DEF FollowedBut
    <2> QED BY <2>1, <2>2, <2>4, <2>5, <2>6
  <1>24. ShapeInv'
    BY <1>7, <1>8, <1>15, <1>19 DEF ShapeInv
  <1>25. PlacesInv'
    BY <1>7, <1>8, <1>15 DEF PlacesInv
  <1>26. CopyInv'
    BY <1>7, <1>15, <1>22, <1>23 DEF CopyInv
  <1>27. TameInv'
    BY <1>7 DEF TameInv
  <1>28. ASSUME last.tame
         PROVE  /\ \A q \in plan.rows : plan.header < q
                /\ plan.code > plan.average
                /\ \A c \in 1..plan.price : page[c].from = c
                /\ AverageFree(page, source, plan)
                /\ KrFree(page, source, plan) /\ SectionFree(page, source, plan)
    BY <1>7, <1>28 DEF WriterInv, TameInv
  <1>29. AverageOfThisRun'
    <2> SUFFICES ASSUME last.tame, NEW c \in plan.start..end, NEW r \in plan.rows
                 PROVE  page'[c].cells[r] \in {NoText, Output}
      BY <1>7, <1>15 DEF AverageOfThisRun, Output
    <2>1. c \in 1..Width /\ r \in 1..Height
      BY ONLY <1>9, <1>13, SheetAssumption
    <2>2. r # plan.header /\ r \in plan.header..Max(plan.rows)
      <3>1. plan.header < r
        BY <1>28
      <3>2. plan.rows \in SUBSET Nat /\ \A q \in plan.rows : q <= Height
        <4>1. \A q \in plan.rows : q \in 1..Height
          BY <1>9
        <4> QED BY <4>1
      <3>3. Max(plan.rows) \in plan.rows /\ r <= Max(plan.rows)
        BY <1>8, <3>2, GreatestIsMax
      <3>4. plan.header \in Int
        BY ONLY <1>9, SheetAssumption
      <3>5. Max(plan.rows) \in Nat
        BY ONLY <3>2, <3>3
      <3>6. r \in Int
        BY <2>1
      <3> QED BY ONLY <3>1, <3>3, <3>4, <3>5, <3>6
    <2>3. block[c].cells[r] \in {NoText, Output}
      BY <1>16, <2>1, <2>2
    <2>4. c # plan.average
      <3>1. c >= plan.start /\ plan.start \in Int
        BY <1>9, <1>13
      <3>2. /\ plan.average < plan.code /\ plan.code < plan.kr /\ plan.kr < plan.section
            /\ plan.start = plan.section + 1
        BY <1>8, <1>28
      <3>3. /\ plan.average \in Int /\ plan.code \in Int /\ plan.kr \in Int
            /\ plan.section \in Int
        BY ONLY <1>9, SheetAssumption
      <3> QED BY <2>1, <3>1, <3>2, <3>3, SMTT(30)
    <2> QED BY <1>20, <2>1, <2>3, <2>4
  <1>30. OutputsStandApart'
    <2> SUFFICES ASSUME last.tame PROVE OutputsStandApart'
      BY <1>7 DEF OutputsStandApart
    <2>1. page'[plan.price].from = plan.price
      <3>1. plan.rows # {} /\ plan.price \in 1..plan.price /\ plan.price \in 1..Width
        BY ONLY <1>8, <1>9, SheetAssumption
      <3>2. PICK r \in 1..Height : r \in plan.rows
        BY <1>9, <3>1
      <3>3. page'[plan.price].from = page[plan.price].from
        BY <1>20, <3>1, <3>2
      <3> QED BY <1>28, <3>1, <3>3
    <2>2. /\ plan.price < plan.average /\ plan.average < plan.code /\ plan.code < plan.kr
          /\ plan.kr < plan.section /\ plan.section < plan.start
      BY <1>8, <1>9, <1>28, SMTT(30)
    <2>3. ASSUME NEW c \in 1..(plan.start - 1), NEW r \in plan.rows, NEW k, k = page'[c].from,
                 k # 0, Taken(source, r, k), page'[c].cells[r].is # source[k].cells[r].is
          PROVE  \/ c = plan.average /\ ("average" \in At(source, plan.header, k).of
                                           \/ source[k].cells[r].is = "average")
                 \/ c = plan.kr /\ (IsKr(source, plan.header, k)
                                     \/ ~Taken(source, plan.header, k))
                 \/ c = plan.section /\ (IsSection(source, plan.header, k)
                                          \/ ~Taken(source, plan.header, k))
      <3>1. c \in 1..Width /\ c < plan.start /\ r \in 1..Height
        <4>1. PICK start \in 1..Width : start = plan.start
          BY <1>9
        <4>2. c \in 1..(start - 1)
          BY <4>1
        <4>3. c \in 1..Width /\ c < start
          BY <4>2
        <4>4. r \in 1..Height
          BY <1>9
        <4> QED BY <4>1, <4>3, <4>4
      <3>2. k = page[c].from
        BY <1>20, <2>3, <3>1
      <3>3. block[c].cells[r] = page[c].cells[r]
        BY <1>16, <3>1, SMTT(30)
      <3>4. page[c].cells[r].is = source[k].cells[r].is
        <4>1. plan.header < r
          BY <1>28
        <4>2. plan.header \in Int /\ r \in Int
          BY ONLY <1>9, <3>1, SheetAssumption
        <4>3. r # plan.header
          BY ONLY <4>1, <4>2
        <4> QED BY <1>8, <2>3, <3>1, <3>2, <4>3, SMTT(30) DEF CopyOf
      <3>5. c \in {plan.kr, plan.section, plan.average}
        BY <1>20, <2>3, <3>1, <3>3, <3>4
      <3>6. CASE c = plan.kr
        BY <1>28, <2>3, <3>2, <3>6, SMTT(30) DEF KrFree
      <3>7. CASE c = plan.section
        BY <1>28, <2>3, <3>2, <3>7, SMTT(30) DEF SectionFree
      <3>8. CASE c = plan.average
        BY <1>28, <2>3, <3>2, <3>8, SMTT(30) DEF AverageFree
      <3> QED BY <3>5, <3>6, <3>7, <3>8
    <2> QED BY <1>7, <1>15, <2>1, <2>2, <2>3, SMTT(30) DEF OutputsStandApart
  <1>31. (round \in 1..MaxRounds)'
    BY <1>7, <1>10
  <1>32. ASSUME last.tame, plan.header # 0, Recognised(page, plan)
         PROVE  Aftermath(page', plan')
    <2>1. PICK h \in 1..Height : h = plan.header
      BY <1>9, <1>32
    <2>2. h \notin plan.rows /\ \A q \in plan.rows : h < q
      <3>1. \A q \in plan.rows : h < q
        BY <1>28, <1>32, <2>1
      <3> QED BY <3>1
    <2>3. /\ plan.code \in Nat /\ plan.kr \in Nat /\ plan.section \in Nat /\ plan.start \in Int
          /\ plan.average \in 1..Width /\ plan.average < plan.code
      <3>1. plan.average < plan.code
        BY <1>9, <1>28, <1>32
      <3> QED BY ONLY <1>8, <1>9, <3>1, SheetAssumption
    <2>4. ASSUME NEW c \in Nat, c < plan.start
          PROVE  At(page', h, c) = At(page, h, c)
      <3>1. CASE c \in 1..Width
        <4>1. page'[c].cells[h] = block[c].cells[h]
          BY <1>20, <2>2, <3>1
        <4>2. block[c].cells[h] = page[c].cells[h]
          BY <1>16, <2>4, <3>1
        <4> QED BY <3>1, <4>1, <4>2 DEF At
      <3>2. CASE c \notin 1..Width
        BY <3>2 DEF At
      <3> QED BY <3>1, <3>2
    <2>5. /\ KrColumn(page, h, plan.code) = plan.kr
          /\ IsSection(page, h, plan.section) \/ ~Taken(page, h, plan.section)
      BY <1>32, <2>1 DEF Recognised
    <2>6. KrColumn(page', h, plan.code) = plan.kr
      <3>1. PICK code \in Nat : code = plan.code
        BY <2>3
      <3>2. PICK kr \in Nat : kr = plan.kr
        BY <2>3
      <3>3. kr # 0 /\ kr < plan.start /\ plan.start \in Int
        BY ONLY <1>8, <2>3, <3>1, <3>2
      <3>4. /\ kr \in (code + 1)..(code + 3) /\ IsKr(page, h, kr)
            /\ \A c \in (code + 1)..(code + 3) : IsKr(page, h, c) => kr <= c
        <4>1. KrColumn(page, h, code) = kr
          BY <2>5, <3>1, <3>2
        <4> QED BY <3>3, <4>1, KrColumnIs
      <3>5. IsKr(page', h, kr)
        BY <2>4, <3>3, <3>4 DEF IsKr
      <3>6. ASSUME NEW c \in (code + 1)..(code + 3), c < kr
            PROVE  ~IsKr(page', h, c)
        <4>1. c \in Nat /\ c < plan.start /\ ~(kr <= c)
          BY ONLY <3>1, <3>2, <3>3, <3>6
        <4>2. ~IsKr(page, h, c)
          BY <3>4, <4>1
        <4> QED BY <2>4, <4>1, <4>2 DEF IsKr
      <3> QED BY <3>1, <3>2, <3>4, <3>5, <3>6, KrColumnFound
    <2>7. IsSection(page', h, plan.section) \/ ~Taken(page', h, plan.section)
      <3>1. plan.section < plan.start
        BY <1>8, <2>3
      <3> QED BY <2>3, <2>4, <2>5, <3>1 DEF IsSection, Taken
    <2>8. ASSUME end >= plan.start, NEW r \in plan.rows
          PROVE  At(page', r, plan.average).is = "average"
      <3>1. r \in 1..Height
        BY <1>9
      <3>2. /\ plan.average # plan.kr /\ plan.average # plan.section
            /\ plan.average < plan.start
        BY ONLY <1>8, <2>3
      <3>3. plan.average \notin filled[r]
        BY <1>17, <2>3, <3>2
      <3>4. page'[plan.average].cells[r]
              = RowCell(plan.average, filled[r], coded, end, block[plan.average].cells[r])
        <4>1. PICK a \in 1..Width : a = plan.average
          BY <2>3
        <4>2. LET q == RowsWritten(block, filled, coded, end)
              IN  /\ q[a].from = block[a].from
                  /\ q[a].cells[r] = IF r \in plan.rows
                                     THEN RowCell(a, filled[r], coded, end, block[a].cells[r])
                                     ELSE block[a].cells[r]
          BY <1>10, <1>18, <1>19, <3>1, RowWrittenIs
        <4> QED BY <1>6, <4>1, <4>2
      <3>5. ~(end < plan.start)
        BY <1>13, <2>3, <2>8
      <3>6. RowCell(plan.average, filled[r], coded, end, block[plan.average].cells[r]).is
              = "average"
        BY <3>2, <3>3, <3>5 DEF RowCell
      <3> QED BY <1>6, <2>3, <3>1, <3>4, <3>6 DEF At
    <2> QED BY <1>8, <1>15, <1>32, <2>1, <2>2, <2>3, <2>6, <2>7, <2>8 DEF Aftermath, Recognised
  <1>33. ASSUME StaysPut(page, plan)
         PROVE  StaysPut(page', plan')
    <2>1. ASSUME NEW c \in 1..Width
          PROVE  page'[c].from = page[c].from
      <3>1. PICK r \in 1..Height : r \in plan.rows
        BY <1>8, <1>9
      <3> QED BY <1>20
    <2>2. Distinct(page')
      BY <1>33, <2>1, DistinctKept DEF StaysPut
    <2>3. ASSUME NEW k \in 1..Width, k <= plan.price, k <= plan.code
          PROVE  page'[k].from = k
      BY <1>33, <2>1, <2>3 DEF StaysPut
    <2> QED BY <1>15, <2>2, <2>3 DEF StaysPut
  <1> QED BY <1>24, <1>25, <1>26, <1>27, <1>29, <1>30, <1>31, <1>32, <1>33 DEF WriterInv

--------------------------------------------------------------------------------
(* The theorems                                                                *)

LEMMA WriterInvStep == WriterInv /\ [WriterNext]_writerVars => WriterInv'
  <1> SUFFICES ASSUME WriterInv, [WriterNext]_writerVars PROVE WriterInv'
    OBVIOUS
  <1>1. CASE Read
    BY <1>1, Read_Inv
  <1>2. CASE PlaceAverage
    BY <1>2, PlaceAverage_Inv
  <1>3. CASE PlaceKrAndSection
    BY <1>3, PlaceKrAndSection_Inv
  <1>4. CASE WriteBlock
    BY <1>4, WriteBlock_Inv
  <1>5. CASE CalculateAgain
    BY <1>5, CalculateAgain_Inv
  <1>6. CASE UNCHANGED writerVars
    <2>1. /\ step' = step /\ round' = round /\ source' = source /\ page' = page
          /\ plan' = plan /\ inserts' = inserts /\ last' = last
      BY <1>6 DEF writerVars
    <2>2. ShapeInv'
      BY <2>1 DEF WriterInv, ShapeInv
    <2>3. PlacesInv'
      BY <2>1 DEF WriterInv, PlacesInv
    <2>4. CopyInv'
      BY <2>1 DEF WriterInv, CopyInv
    <2>5. TameInv'
      BY <2>1, SMTT(30) DEF WriterInv, TameInv
    <2>6. OutputsStandApart' /\ AverageOfThisRun'
      BY <2>1 DEF WriterInv, OutputsStandApart, AverageOfThisRun, Output
    <2>7. (round \in 1..MaxRounds)'
      BY <2>1 DEF WriterInv
    <2> QED BY <2>2, <2>3, <2>4, <2>5, <2>6, <2>7 DEF WriterInv
  <1> QED BY <1>1, <1>2, <1>3, <1>4, <1>5, <1>6 DEF WriterNext

LEMMA WriterInvHolds == WriterSpec => []WriterInv
  <1>1. WriterInit => WriterInv
    BY WriterInit_Inv
  <1> QED BY <1>1, WriterInvStep, PTL DEF WriterSpec

--------------------------------------------------------------------------------
(* A file that is calculated again                                             *)

HeaderInv == step \in {"read", "average", "placed", "written"} => plan.header # 0

LeftInv ==
  last.tame => /\ step = "placed" => Recognised(page, plan)
               /\ step = "written" => Aftermath(page, plan)

(* The second round takes the places of the first, one step after the other.   *)
SamePlaces ==
  LET now == Reading(source)
      was == last.plan
  IN  /\ step = "read" =>
           /\ plan.header = now.header /\ plan.rows = now.rows /\ plan.price = now.price
           /\ plan.code = now.code /\ plan.section = now.section
      /\ step = "average" =>
           /\ inserts = 0 /\ page = source
           /\ plan.header = was.header /\ plan.average = was.average /\ plan.code = was.code
           /\ plan.section = now.section
      /\ step \in {"placed", "written"} =>
           /\ inserts = 0
           /\ plan.average = was.average /\ plan.kr = was.kr
           /\ plan.section = was.section /\ plan.start = was.start

AgainInv ==
  step \in {"read", "average", "placed", "written"} /\ last.again =>
    /\ Aftermath(source, last.plan)
    /\ FoundAgain => /\ last.tame
                     /\ last.plan.end >= last.plan.start => SamePlaces

RepeatInv == HeaderInv /\ LeftInv /\ AgainInv

LEMMA WriterInit_Repeat == WriterInit => RepeatInv
  BY DEF WriterInit, RepeatInv, HeaderInv, LeftInv, AgainInv

(* A table that is found where the first round left it is tame.                *)
LEMMA FoundIsTame ==
  ASSUME NEW p, NEW pl \in PlanRecord, Aftermath(p, pl), NEW reading, ReadingOK(reading, p),
         reading.header = pl.header, reading.rows = pl.rows, reading.price = pl.price,
         reading.code = pl.code,
         \/ reading.section = pl.section
         \/ reading.section <= pl.kr /\ pl.section = pl.kr + 1
  PROVE  Tame(reading, p)
  <1>1. /\ pl.rows # {} /\ \A q \in pl.rows : pl.header < q
        /\ pl.average = pl.price + 1 /\ pl.average < pl.code
        /\ pl.code < pl.kr /\ pl.kr < pl.section
        /\ KrColumn(p, pl.header, pl.code) = pl.kr
        /\ IsSection(p, pl.header, pl.section) \/ ~Taken(p, pl.header, pl.section)
    BY DEF Aftermath, Recognised
  <1>2. /\ pl.price \in Nat /\ pl.code \in Nat /\ pl.kr \in Nat /\ pl.section \in Nat
        /\ reading.section \in Nat /\ reading.section # 0
    <2>1. /\ pl.price \in 0..Width /\ pl.code \in 0..Width /\ pl.kr \in 0..Width
          /\ pl.section \in 0..Width
      BY DEF PlanRecord
    <2>2. reading.section \in Nat /\ reading.section # 0
      BY <1>1 DEF ReadingOK
    <2> QED BY ONLY <2>1, <2>2, SheetAssumption
  <1>3. \/ reading.section \in 1..pl.kr
        \/ /\ reading.section > pl.code
           /\ \/ IsSection(p, pl.header, reading.section)
              \/ ~Taken(p, pl.header, reading.section)
    <2>1. CASE reading.section = pl.section
      BY <1>1, <1>2, <2>1
    <2>2. CASE reading.section <= pl.kr
      BY <1>2, <2>2
    <2> QED BY <2>1, <2>2
  <1>4. pl.code > pl.price + 1 /\ pl.kr # 0
    BY <1>1, <1>2
  <1> QED BY <1>1, <1>3, <1>4 DEF Tame

LEMMA CalculatedRepeats ==
  ASSUME plan \in PlanRecord, NEW p \in Page, NEW reading, NEW again \in BOOLEAN,
         Calculated(p, reading, again),
         reading.rows # {} => reading.header # 0,
         again => reading = Reading(p) /\ Aftermath(p, plan)
  PROVE  RepeatInv'
  <1>1. /\ source' = p
        /\ plan'.header = reading.header /\ plan'.rows = reading.rows
        /\ plan'.price = reading.price /\ plan'.code = reading.code
        /\ plan'.section = reading.section
        /\ last'.plan = plan /\ last'.tame = Tame(reading, p) /\ last'.again = again
        /\ step' = IF reading.rows = {} THEN "refused" ELSE "read"
    BY DEF Calculated, NoPlan
  <1>2. HeaderInv' /\ LeftInv'
    BY <1>1 DEF HeaderInv, LeftInv
  <1>3. ASSUME again
        PROVE  /\ Aftermath(source', last'.plan)
               /\ FoundAgain' => last'.tame /\ SamePlaces'
    <2>1. reading = Reading(source') /\ Aftermath(source', last'.plan)
      BY <1>1, <1>3
    <2>2. ASSUME FoundAgain'
          PROVE  last'.tame /\ SamePlaces'
      <3>1. /\ reading.header = plan.header /\ reading.rows = plan.rows
            /\ reading.price = plan.price /\ reading.code = plan.code
            /\ \/ reading.section = plan.section
               \/ reading.section <= plan.kr /\ plan.section = plan.kr + 1
        BY <1>1, <2>1, <2>2 DEF FoundAgain
      <3>2. ReadingOK(reading, p)
        BY <1>1, <2>1, ReadingIs
      <3>3. Tame(reading, p)
        BY <1>3, <3>1, <3>2, FoundIsTame
      <3>4. SamePlaces'
        BY <1>1, <2>1 DEF SamePlaces
      <3> QED BY <1>1, <3>3, <3>4
    <2> QED BY <2>1, <2>2
  <1>4. AgainInv'
    BY <1>1, <1>3 DEF AgainInv
  <1> QED BY <1>2, <1>4 DEF RepeatInv

LEMMA Read_Repeat == WriterInv /\ Read => RepeatInv'
  <1> SUFFICES ASSUME WriterInv, Read PROVE RepeatInv'
    OBVIOUS
  <1>1. page \in Page /\ plan \in PlanRecord
    BY DEF WriterInv, ShapeInv
  <1>2. Calculated(page, Reading(page), FALSE)
    BY DEF Read
  <1>3. Reading(page).rows # {} => Reading(page).header # 0
    BY ReadingHeader
  <1> QED BY <1>1, <1>2, <1>3, CalculatedRepeats

LEMMA CalculateAgain_Repeat == WriterInv /\ RepeatInv /\ CalculateAgain => RepeatInv'
  <1> SUFFICES ASSUME WriterInv, RepeatInv, CalculateAgain PROVE RepeatInv'
    OBVIOUS
  <1>1. page \in Page /\ plan \in PlanRecord /\ last \in LastRecord /\ step = "written"
    BY DEF WriterInv, ShapeInv, CalculateAgain
  <1>2. PICK p : p = Reopened(page)
    OBVIOUS
  <1>3. PICK recalculated \in BOOLEAN :
          Calculated(p, Reading(Seen(p, recalculated)), last.tame /\ recalculated)
    BY <1>2 DEF CalculateAgain, Reopened
  <1>4. p \in Page /\ \A r, c : At(p, r, c) = At(page, r, c)
    BY <1>1, <1>2, ReopenedIs
  <1>5. PICK reading : reading = Reading(Seen(p, recalculated))
    OBVIOUS
  <1>6. reading.rows # {} => reading.header # 0
    BY <1>5, ReadingHeader
  <1>7. ASSUME last.tame, recalculated
        PROVE  reading = Reading(p) /\ Aftermath(p, plan)
    <2>1. reading = Reading(p)
      BY <1>5, <1>7 DEF Seen
    <2>2. Aftermath(page, plan)
      BY <1>1, <1>7 DEF RepeatInv, LeftInv
    <2>3. KrColumn(p, plan.header, plan.code) = KrColumn(page, plan.header, plan.code)
      <3>1. \A c : IsKr(p, plan.header, c) <=> IsKr(page, plan.header, c)
        BY <1>4 DEF IsKr
      <3> QED BY <3>1 DEF KrColumn
    <2>4. Recognised(p, plan)
      BY <1>4, <2>2, <2>3 DEF Aftermath, Recognised, IsSection, Taken
    <2> QED BY <1>4, <2>1, <2>2, <2>4 DEF Aftermath
  <1>8. PICK again \in BOOLEAN : again <=> last.tame /\ recalculated
    OBVIOUS
  <1>9. Calculated(p, reading, again)
    <2>1. last.tame \in BOOLEAN
      BY <1>1 DEF LastRecord
    <2>2. again = (last.tame /\ recalculated)
      BY <1>8, <2>1
    <2> QED BY <1>3, <1>5, <2>2
  <1> QED BY <1>1, <1>4, <1>6, <1>7, <1>8, <1>9, CalculatedRepeats

LEMMA PlaceAverage_Repeat == WriterInv /\ RepeatInv /\ PlaceAverage => RepeatInv'
  <1> SUFFICES ASSUME WriterInv, RepeatInv, PlaceAverage PROVE RepeatInv'
    OBVIOUS
  <1> DEFINE at == plan.price + 1
             occupied == /\ plan.average # at
                         /\ \E r \in plan.rows : Foreign(At(page, r, at))
             moved(c) == IF occupied /\ c >= at THEN c + 1 ELSE c
  <1>1. /\ step = "read" /\ step' = "average" /\ source' = source /\ last' = last
        /\ page' = IF occupied THEN Inserted(page, at) ELSE page
        /\ plan' = AveragePlan(plan, at, moved(plan.code), moved(plan.section))
        /\ inserts' = inserts + IF occupied THEN 1 ELSE 0
    BY DEF PlaceAverage, AveragePlan
  <1>2. plan \in PlanRecord /\ inserts = 0 /\ page = source
    BY <1>1 DEF WriterInv, ShapeInv, CopyInv
  <1>3. plan'.header = plan.header
    BY <1>1, <1>2 DEF AveragePlan, PlanRecord
  <1>4. HeaderInv' /\ LeftInv'
    BY <1>1, <1>3 DEF RepeatInv, HeaderInv, LeftInv
  <1>5. ASSUME last.again
        PROVE  /\ Aftermath(source, last.plan)
               /\ FoundAgain => /\ last.tame
                                /\ last.plan.end >= last.plan.start => SamePlaces
    BY ONLY <1>1, <1>5, RepeatInv, Zenon DEF RepeatInv, AgainInv
  <1>6. ASSUME last.again, FoundAgain, last.plan.end >= last.plan.start
        PROVE  SamePlaces'
    <2>1. PICK now : now = Reading(source)
      OBVIOUS
    <2>2. PICK was : was = last.plan
      OBVIOUS
    <2>3. /\ plan.header = now.header /\ plan.rows = now.rows /\ plan.price = now.price
          /\ plan.code = now.code /\ plan.section = now.section
      BY <1>1, <1>5, <1>6, <2>1 DEF SamePlaces
    <2>4. /\ now.header = was.header /\ now.rows = was.rows /\ now.price = was.price
          /\ now.code = was.code
      BY <1>6, <2>1, <2>2 DEF FoundAgain
    <2>5. /\ was.average = was.price + 1
          /\ \A r \in was.rows : At(source, r, was.average).is = "average"
      BY <1>5, <1>6, <2>2 DEF Aftermath
    <2>6. ~occupied
      BY <1>2, <2>3, <2>4, <2>5 DEF Foreign
    <2>7. /\ page' = page /\ inserts' = 0
          /\ plan' = AveragePlan(plan, at, plan.code, plan.section)
      BY <1>1, <1>2, <2>6
    <2>8. /\ plan'.average = plan.price + 1 /\ plan'.code = plan.code
          /\ plan'.section = plan.section
      BY <1>2, <2>7 DEF AveragePlan, PlanRecord
    <2>9. /\ inserts' = 0 /\ page' = source
          /\ plan'.header = was.header /\ plan'.average = was.average /\ plan'.code = was.code
          /\ plan'.section = now.section
      BY <1>2, <1>3, <2>3, <2>4, <2>5, <2>7, <2>8
    <2> QED BY <1>1, <2>1, <2>2, <2>9 DEF SamePlaces
  <1>7. FoundAgain' <=> FoundAgain
    BY <1>1 DEF FoundAgain
  <1>8. AgainInv'
    BY <1>1, <1>5, <1>6, <1>7 DEF AgainInv
  <1> QED BY <1>4, <1>8 DEF RepeatInv

LEMMA PlaceKrAndSection_Repeat == WriterInv /\ RepeatInv /\ PlaceKrAndSection => RepeatInv'
  <1> SUFFICES ASSUME WriterInv, RepeatInv, PlaceKrAndSection PROVE RepeatInv'
    BY Zenon
  <1>1. /\ step = "average" /\ step' = "placed" /\ source' = source /\ last' = last
    BY ONLY PlaceKrAndSection, Zenon DEF PlaceKrAndSection
  <1>2. plan \in PlanRecord /\ last \in LastRecord /\ inserts \in 0..1
    <2>1. ShapeInv
      BY ONLY WriterInv, Zenon DEF WriterInv
    <2>2. plan \in PlanRecord /\ last \in LastRecord
      BY ONLY <2>1, Zenon DEF ShapeInv
    <2>3. inserts \in 0..3 /\ (step = "average" => inserts <= 1)
      BY ONLY <2>1, Zenon DEF ShapeInv
    <2>4. inserts \in 0..3 /\ inserts <= 1
      BY ONLY <1>1, <2>3, Zenon
    <2>5. inserts \in 0..1
      BY ONLY <2>4
    <2> QED BY ONLY <2>2, <2>5
  <1>3. plan'.header = plan.header /\ plan'.average = plan.average
    BY <1>2, Zenon DEF PlaceKrAndSection, PlanRecord
  <1>4. HeaderInv'
    BY <1>1, <1>3 DEF RepeatInv, HeaderInv
  <1>5. LeftInv'
    BY <1>1, PlaceKrAndSection_Inv DEF RepeatInv, HeaderInv, LeftInv
  <1>6. ASSUME last.again
        PROVE  /\ Aftermath(source, last.plan)
               /\ FoundAgain => /\ last.tame
                                /\ last.plan.end >= last.plan.start => SamePlaces
    BY <1>1, <1>6 DEF RepeatInv, AgainInv
  <1>7. ASSUME last.again, FoundAgain, last.plan.end >= last.plan.start
        PROVE  SamePlaces'
    <2>1. PICK now : now = Reading(source)
      OBVIOUS
    <2>2. PICK was : was = last.plan
      OBVIOUS
    <2>3. /\ inserts = 0 /\ page = source
          /\ plan.header = was.header /\ plan.average = was.average /\ plan.code = was.code
          /\ plan.section = now.section
      BY <1>1, <1>6, <1>7, <2>1, <2>2 DEF SamePlaces
    <2>4. \/ now.section = was.section
          \/ now.section <= was.kr /\ was.section = was.kr + 1
      BY <1>7, <2>1, <2>2 DEF FoundAgain
    <2>5. /\ was.code < was.kr /\ was.kr < was.section /\ was.start = was.section + 1
          /\ KrColumn(source, was.header, was.code) = was.kr
          /\ \/ IsSection(source, was.header, was.section)
             \/ ~Taken(source, was.header, was.section)
      BY <1>6, <1>7, <2>2 DEF Aftermath, Recognised
    <2>6. /\ was.code \in Nat /\ was.kr \in Nat /\ was.section \in Nat /\ plan.section \in Nat
      <3>1. was \in PlanRecord
        BY ONLY <1>2, <2>2 DEF LastRecord
      <3>2. /\ was.code \in 0..Width /\ was.kr \in 0..Width /\ was.section \in 0..Width
            /\ plan.section \in 0..Width
        BY ONLY <1>2, <3>1 DEF PlanRecord
      <3> QED BY ONLY <3>2, SheetAssumption
    <2>7. PICK r : r = plan.header
      OBVIOUS
    <2>8. PICK kr : kr = was.kr
      OBVIOUS
    <2>9. KrColumn(page, r, plan.code) = kr /\ kr # 0
      BY <2>3, <2>5, <2>6, <2>7, <2>8
    <2>10. PICK section : section = IF plan.section <= kr THEN kr + 1 ELSE plan.section
      OBVIOUS
    <2>11. section = was.section
      BY <2>3, <2>4, <2>5, <2>6, <2>8, <2>10
    <2>12. ~(Taken(page, r, section) /\ ~IsSection(page, r, section))
      BY ONLY <2>3, <2>5, <2>7, <2>11, Zenon
    <2>13. /\ plan' = [plan EXCEPT !.kr = kr, !.section = section, !.start = section + 1]
           /\ inserts' = inserts
      BY <1>2, <2>7, <2>9, <2>10, <2>12, SMTT(60) DEF PlaceKrAndSection, PassedBy
    <2>14. plan'.kr = kr /\ plan'.section = section /\ plan'.start = section + 1
      BY <1>2, <2>13 DEF PlanRecord
    <2>15. /\ inserts' = 0 /\ plan'.average = was.average /\ plan'.kr = was.kr
           /\ plan'.section = was.section /\ plan'.start = was.start
      BY <1>3, <2>3, <2>5, <2>8, <2>11, <2>13, <2>14
    <2> QED BY <1>1, <2>2, <2>15 DEF SamePlaces
  <1>8. FoundAgain' <=> FoundAgain
    BY <1>1 DEF FoundAgain
  <1>9. AgainInv'
    BY <1>1, <1>6, <1>7, <1>8 DEF AgainInv
  <1> QED BY ONLY <1>4, <1>5, <1>9, Zenon DEF RepeatInv

LEMMA WriteBlock_Repeat == WriterInv /\ RepeatInv /\ WriteBlock => RepeatInv'
  <1> SUFFICES ASSUME WriterInv, RepeatInv, WriteBlock PROVE RepeatInv'
    OBVIOUS
  <1>1. /\ step = "placed" /\ step' = "written"
        /\ source' = source /\ last' = last /\ inserts' = inserts
    BY DEF WriteBlock
  <1>2. plan \in PlanRecord
    BY DEF WriterInv, ShapeInv
  <1>3. /\ plan'.header = plan.header /\ plan'.average = plan.average /\ plan'.kr = plan.kr
        /\ plan'.section = plan.section /\ plan'.start = plan.start
    BY <1>2 DEF WriteBlock, PlanRecord
  <1>4. HeaderInv'
    BY <1>1, <1>3 DEF RepeatInv, HeaderInv
  <1>5. LeftInv'
    BY <1>1, WriteBlock_Inv DEF RepeatInv, HeaderInv, LeftInv
  <1>6. SamePlaces => SamePlaces'
    BY <1>1, <1>3 DEF SamePlaces
  <1>7. FoundAgain' <=> FoundAgain
    BY <1>1 DEF FoundAgain
  <1>8. AgainInv'
    BY <1>1, <1>6, <1>7 DEF RepeatInv, AgainInv
  <1> QED BY <1>4, <1>5, <1>8 DEF RepeatInv

LEMMA RepeatInvStep == WriterInv /\ RepeatInv /\ [WriterNext]_writerVars => RepeatInv'
  <1> SUFFICES ASSUME WriterInv, RepeatInv, [WriterNext]_writerVars PROVE RepeatInv'
    OBVIOUS
  <1>1. CASE Read
    BY <1>1, Read_Repeat
  <1>2. CASE PlaceAverage
    BY <1>2, PlaceAverage_Repeat
  <1>3. CASE PlaceKrAndSection
    BY <1>3, PlaceKrAndSection_Repeat
  <1>4. CASE WriteBlock
    BY <1>4, WriteBlock_Repeat
  <1>5. CASE CalculateAgain
    BY <1>5, CalculateAgain_Repeat
  <1>6. CASE UNCHANGED writerVars
    BY <1>6 DEF writerVars, RepeatInv, HeaderInv, LeftInv, AgainInv, FoundAgain, SamePlaces
  <1> QED BY <1>1, <1>2, <1>3, <1>4, <1>5, <1>6 DEF WriterNext

(* Whatever estimates and analogs there are, the worksheets and the plan keep  *)
(* their shape: every column the writer names is one of the sheet.             *)
THEOREM WriterIsWellTyped == WriterSpec => []WriterTypeOK
  <1>1. WriterInv => WriterTypeOK
    <2> SUFFICES ASSUME WriterInv PROVE WriterTypeOK
      OBVIOUS
    <2>1. /\ step \in {"chosen", "read", "refused", "average", "placed", "written"}
          /\ round \in 1..MaxRounds
          /\ source \in Page /\ page \in Page /\ inserts \in 0..3
          /\ plan \in PlanRecord /\ last \in LastRecord
      BY DEF WriterInv, ShapeInv
    <2>2. last.plan \in PlanRecord /\ last.tame \in BOOLEAN /\ last.again \in BOOLEAN
      BY <2>1 DEF LastRecord
    <2>3. ASSUME NEW p \in PlanRecord
          PROVE  /\ p.header \in 0..Height /\ p.rows \subseteq 1..Height
                 /\ {p.price, p.code, p.average, p.kr, p.section, p.start, p.end} \subseteq 0..Width
      BY DEF PlanRecord
    <2> QED BY <2>1, <2>2, <2>3 DEF WriterTypeOK
  <1> QED BY <1>1, WriterInvHolds, PTL

(* On the layouts the writer is made for, of whatever width, whichever columns *)
(* have to be inserted and in every repeated calculation, the outputs stand    *)
(* apart and in order, the price stays where it was, and no value of the       *)
(* source is overwritten but in the columns meant for the outputs.             *)
THEOREM OutputsApart == WriterSpec => []OutputsStandApart
  <1>1. WriterInv => OutputsStandApart
    BY DEF WriterInv
  <1> QED BY <1>1, WriterInvHolds, PTL

(* On those layouts an average formula spans what its own run has written.     *)
THEOREM AverageIsOfThisRun == WriterSpec => []AverageOfThisRun
  <1>1. WriterInv => AverageOfThisRun
    BY ONLY ZenonT(30) DEF WriterInv
  <1> QED BY <1>1, WriterInvHolds, PTL

(* The columns left of the insertions stay where they are.                     *)
StaysInv == StaysPut(page, plan) /\ RefersWithin(source, Width)

LEMMA PlaceAverage_Stays == WriterInv /\ PlaceAverage => StaysPut(page', plan')
  <1> SUFFICES ASSUME WriterInv, PlaceAverage PROVE StaysPut(page', plan')
    OBVIOUS
  <1>1. /\ page \in Page /\ plan \in PlanRecord
        /\ \A c \in 1..Width : page[c].from = c
    BY DEF WriterInv, ShapeInv, CopyInv, PlaceAverage
  <1>2. PICK at : at = plan.price + 1
    OBVIOUS
  <1>3. plan.price \in Nat /\ at \in 1..Width /\ page' \in {page, Inserted(page, at)}
    <2>1. plan.price \in 0..Width
      BY <1>1 DEF PlanRecord
    <2> QED BY <1>2, <2>1, SMTT(30) DEF PlaceAverage
  <1>4. plan'.price = plan.price
    BY <1>1, Zenon DEF PlaceAverage, PlanRecord
  <1>5. Distinct(page')
    <2>1. Distinct(page)
      BY <1>1 DEF Distinct
    <2> QED BY <1>1, <1>3, <2>1, DistinctInserted
  <1>6. ASSUME NEW k \in 1..Width, k <= plan.price
        PROVE  page'[k].from = k
    <2>1. k # at /\ Before(k, at) = k
      BY <1>2, <1>3, <1>6 DEF Before
    <2>2. Inserted(page, at)[k].from = page[k].from
      BY <1>1, <1>3, <2>1, InsertedFrom
    <2> QED BY <1>1, <1>3, <2>2
  <1> QED BY <1>4, <1>5, <1>6 DEF StaysPut

LEMMA StaysInvStep == WriterInv /\ StaysInv /\ [WriterNext]_writerVars => StaysInv'
  <1> SUFFICES ASSUME WriterInv, StaysInv, [WriterNext]_writerVars PROVE StaysInv'
    OBVIOUS
  <1>1. CASE Read
    <2>1. /\ page' = page /\ source' = page'
          /\ \A c \in 1..Width : page[c].from = c
      BY <1>1 DEF WriterInv, CopyInv, Read, Calculated
    <2>2. RefersWithin(page', Width)
      BY <1>1, Read_Inv DEF WriterInv, CopyInv
    <2> QED BY <2>1, <2>2, OpenedStays DEF StaysInv
  <1>2. CASE PlaceAverage
    <2>1. source' = source
      BY <1>2 DEF PlaceAverage
    <2> QED BY <1>2, <2>1, PlaceAverage_Stays DEF StaysInv
  <1>3. CASE PlaceKrAndSection
    <2>1. source' = source
      BY <1>3 DEF PlaceKrAndSection
    <2> QED BY <1>3, <2>1, PlaceKrAndSection_Inv DEF StaysInv
  <1>4. CASE WriteBlock
    <2>1. source' = source
      BY <1>4 DEF WriteBlock
    <2> QED BY <1>4, <2>1, WriteBlock_Inv DEF StaysInv
  <1>5. CASE CalculateAgain
    <2>1. page \in Page
      BY DEF WriterInv, ShapeInv
    <2>2. page' = Reopened(page) /\ source' = page'
      BY <1>5 DEF CalculateAgain, Calculated, Reopened
    <2>3. \A c \in 1..Width : page'[c].from = c
      BY <2>1, <2>2, ReopenedIs
    <2>4. RefersWithin(page', Width)
      BY <1>5, CalculateAgain_Inv DEF WriterInv, CopyInv
    <2> QED BY <2>2, <2>3, <2>4, OpenedStays DEF StaysInv
  <1>6. CASE UNCHANGED writerVars
    BY <1>6 DEF writerVars, StaysInv
  <1> QED BY <1>1, <1>2, <1>3, <1>4, <1>5, <1>6 DEF WriterNext

(* On every layout, through all the insertions of a calculation, a reference   *)
(* to a cell of the sheet itself follows that cell; one to another sheet is    *)
(* left alone where its column is left of the insertions, and there every      *)
(* column is where it was, for the references that are never rewritten.        *)
THEOREM FormulasAreFollowed == WriterSpec => []FormulasFollow
  <1>1. WriterInit => WriterInv /\ StaysInv
    <2> SUFFICES ASSUME WriterInit PROVE WriterInv /\ StaysInv
      OBVIOUS
    <2>1. source = page /\ RefersWithin(page, Width) /\ \A c \in 1..Width : page[c].from = c
      BY ChosenIs DEF WriterInit
    <2> QED BY <2>1, WriterInit_Inv, OpenedStays DEF StaysInv
  <1>2. WriterInv /\ StaysInv /\ [WriterNext]_writerVars => WriterInv' /\ StaysInv'
    BY WriterInvStep, StaysInvStep
  <1>3. WriterInv /\ StaysInv => FormulasFollow
    <2> SUFFICES ASSUME WriterInv, StaysInv PROVE FormulasFollow
      OBVIOUS
    <2>1. PICK a \in {0, plan.average} : FollowedBut(page, source, a)
      BY DEF WriterInv, CopyInv
    <2>2. /\ page \in Page /\ RefersWithin(page, Width) /\ Distinct(page)
          /\ RefersWithin(source, Width)
      BY DEF WriterInv, ShapeInv, CopyInv, StaysInv, StaysPut
    <2>3. \A k \in 1..Width : LeftOfInserts(k) => page[k].from = k
      BY DEF StaysInv, StaysPut, LeftOfInserts
    <2>4. ASSUME NEW c \in 1..Width, NEW r \in 1..Height,
                 page[c].from # 0, c # plan.average, IsFormula(source[page[c].from].cells[r]),
                 page[c].cells[r].is = source[page[c].from].cells[r].is
          PROVE  /\ page[page[c].cells[r].ref].from = source[page[c].from].cells[r].ref
                 /\ LeftOfInserts(source[page[c].from].cells[r].ref)
                      => page[c].cells[r].ref = source[page[c].from].cells[r].ref
      <3> DEFINE k == page[c].from
                 old == source[k].cells[r]
                 new == page[c].cells[r]
      <3>1. c # a \/ a = 0
        BY <2>1, <2>4
      <3>2. IsFormula(new)
        BY <2>4 DEF IsFormula
      <3>3. page[new.ref].from = old.ref
        BY ONLY <2>1, <2>4, <3>1, <3>2, SheetAssumption, SMTT(30) DEF FollowedBut
      <3>4. new.ref \in 1..Width
        BY <2>2, <2>4, <3>2 DEF RefersWithin
      <3>5. ASSUME LeftOfInserts(old.ref) PROVE new.ref = old.ref
        <4>1. k \in 1..Width
          <5>1. k \in 0..Width
            BY <2>2, <2>4, PageIs
          <5> QED BY <2>4, <5>1
        <4>2. old.ref \in 1..Width
          BY <2>2, <2>4, <4>1 DEF RefersWithin
        <4>3. page[old.ref].from = old.ref /\ old.ref # 0
          BY <2>3, <3>5, <4>2
        <4> QED BY <2>2, <3>3, <3>4, <4>2, <4>3 DEF Distinct
      <3> QED BY <3>3, <3>5
    <2> QED BY ONLY <2>3, <2>4, SMTT(30) DEF FormulasFollow
  <1> QED BY <1>1, <1>2, <1>3, PTL DEF WriterSpec

(* A written file that is calculated again, its table found where the first    *)
(* run left it, is tame again, and after a run with an analog the average, the *)
(* /KR code, the section and the analogs take the columns of that run and      *)
(* nothing is inserted, on any sheet and however often it is repeated.         *)
THEOREM SecondRunFindsItsColumns == WriterSpec => []SecondRunInsertsNothing
  <1>1. WriterInit => WriterInv /\ RepeatInv
    BY WriterInit_Inv, WriterInit_Repeat
  <1>2. WriterInv /\ RepeatInv /\ [WriterNext]_writerVars => WriterInv' /\ RepeatInv'
    BY WriterInvStep, RepeatInvStep
  <1>3. RepeatInv => SecondRunInsertsNothing
    <2> SUFFICES ASSUME RepeatInv, step = "written", last.again, FoundAgain
                 PROVE  /\ last.tame
                        /\ last.plan.end >= last.plan.start =>
                             /\ inserts = 0
                             /\ <<plan.average, plan.kr, plan.section, plan.start>>
                                  = <<last.plan.average, last.plan.kr, last.plan.section,
                                      last.plan.start>>
      BY DEF SecondRunInsertsNothing
    <2>1. last.tame /\ (last.plan.end >= last.plan.start => SamePlaces)
      BY DEF RepeatInv, AgainInv
    <2> QED BY <2>1 DEF SamePlaces
  <1> QED BY <1>1, <1>2, <1>3, PTL DEF WriterSpec


(* Whatever analogs a run has, each has a column of its own, the positions of  *)
(* a task lie side by side, and tasks are in the order of their regions.       *)
THEOREM AnalogsAreGrouped == WriterSpec => []AnalogsGrouped
  <1>1. WriterInv => AnalogsGrouped
    <2> SUFFICES ASSUME WriterInv, step = "written" PROVE AnalogsGrouped
      BY DEF AnalogsGrouped
    <2>1. plan \in PlanRecord /\ plan.found \in [plan.rows -> AnalogRows]
      BY DEF WriterInv, ShapeInv, PlacesInv
    <2>2. plan.rows \in SUBSET (1..Height) /\ plan.end \in Int
      BY <2>1 DEF PlanRecord
    <2>3. AnalogsOK(plan.found)
      BY <2>1, <2>2, FoundIsOK
    <2>4. PICK first \in Int : first = plan.end + 1 - BlockWidth(plan.found)
      <3>1. BlockWidth(plan.found) \in Nat
        BY <2>3, SlotsAre
      <3> QED BY <2>2, <3>1
    <2>5. ASSUME NEW t \in TasksOf(plan.found), NEW k \in 1..Highest(plan.found, t),
                 NEW u \in TasksOf(plan.found), NEW j \in 1..Highest(plan.found, u)
          PROVE  /\ ColumnOf(plan.found, first, t, k) = ColumnOf(plan.found, first, u, j)
                      => t = u /\ k = j
                 /\ RegionRank[t] < RegionRank[u]
                      => ColumnOf(plan.found, first, t, k) < ColumnOf(plan.found, first, u, j)
                 /\ k > 1 => ColumnOf(plan.found, first, t, k)
                               = ColumnOf(plan.found, first, t, k - 1) + 1
      BY <2>3, Grouped
    <2> QED BY <2>4, <2>5 DEF AnalogsGrouped
  <1> QED BY <1>1, WriterInvHolds, PTL
==============================================================================
