----------------------------- MODULE RnmcScanProofs -----------------------------
(****************************************************************************)
(* Proofs about RnmcScan for any headings, rows and limits: what the admin  *)
(* approved in the preview is what the import writes, and only a gap of     *)
(* three blank rows loses a row.                                            *)
(****************************************************************************)
EXTENDS RnmcScan, FiniteSetTheorems, WellFoundedInduction, TLAPS

USE ScanAssumption

Tech(n)  == Technical(rows[n], ImportWidth)
Blank(n) == AllBlank(rows[n], ImportWidth, {"number", "name", "unit", "quantity"})
Good(n)  ==
  /\ ~Tech(n) /\ ~AllBlank(rows[n], ImportWidth, {"unit"})
  /\ Issue(rows[n], ImportWidth, task) = "none"

(* From row i to row k there are but blank rows and rows that number columns. *)
Gap(i, k) == \A m \in i..k : Tech(m) \/ Blank(m)

One(n) == \E i \in 1..n : ~Tech(i) /\ Gap(i, n)
Two(n) == \E i, j \in 1..n : i < j /\ ~Tech(i) /\ ~Tech(j) /\ Gap(i, n)
Three(n) == \E i, j, k \in 1..n :
  /\ i < j /\ j < k
  /\ ~Tech(i) /\ ~Tech(j) /\ ~Tech(k) /\ Gap(i, k)

IssueNames ==
  {"none", "no unit and quantity", "no task", "no code", "no unit", "no price"}

(* A scan that goes on has seen less than three blank rows in a run.           *)
ScanOK(scan) ==
  /\ scan \in [started : BOOLEAN, streak : 0..3, ended : BOOLEAN,
               taken : SUBSET Nat, rejected : SUBSET (Nat \X IssueNames)]
  /\ scan.streak = 3 => scan.ended
  /\ ~scan.started => scan.streak = 0

(* What the import's scan has seen: its streak is a run of blank rows that     *)
(* reaches to the last row, and a good row that was not taken is below three.  *)
GapInv ==
  /\ rows \in Seq(TableRows)
  /\ phase \in {"meta", "sheets"} => rows = <<>> /\ import = EmptyScan
  /\ ScanOK(import)
  /\ ~import.ended =>
       /\ import.streak = 1 => One(Len(rows))
       /\ import.streak = 2 => Two(Len(rows))
  /\ import.ended => Three(Len(rows))
  /\ \A n \in 1..Len(rows) : Good(n) /\ n \notin import.taken => import.ended /\ Three(n)

--------------------------------------------------------------------------------
(* The next row changes nothing about those before it.                        *)
LEMMA RowsStay ==
  ASSUME NEW row \in TableRows, rows \in Seq(TableRows), NEW n, n = Len(rows) + 1,
         rows' = Append(rows, row), columns' = columns, task' = task
  PROVE  /\ rows' \in Seq(TableRows) /\ Len(rows') = n /\ Len(rows) \in Nat
         /\ \A m \in 1..Len(rows) : /\ Tech(m)' = Tech(m) /\ Blank(m)' = Blank(m)
                                    /\ Good(m)' = Good(m)
         /\ Tech(n)' = Technical(row, ImportWidth)
         /\ Blank(n)' =
              AllBlank(row, ImportWidth, {"number", "name", "unit", "quantity"})
         /\ Good(n)' =
              ( /\ ~Technical(row, ImportWidth) /\ ~AllBlank(row, ImportWidth, {"unit"})
                /\ Issue(row, ImportWidth, task) = "none" )
  <1>1. /\ rows' \in Seq(TableRows) /\ Len(rows') = n /\ Len(rows) \in Nat
        /\ \A m \in 1..Len(rows) : rows'[m] = rows[m]
        /\ rows'[n] = row
    OBVIOUS
  <1>2. ImportWidth' = ImportWidth
    BY DEF ImportWidth, WidthOf
  <1>3. ASSUME NEW m \in 1..Len(rows)
        PROVE  Tech(m)' = Tech(m) /\ Blank(m)' = Blank(m) /\ Good(m)' = Good(m)
    BY <1>1, <1>2, <1>3 DEF Tech, Blank, Good, Technical, AllBlank, Nameless, Issue, Cell
  <1>4. /\ Tech(n)' = Technical(row, ImportWidth)
        /\ Blank(n)' =
              AllBlank(row, ImportWidth, {"number", "name", "unit", "quantity"})
    BY <1>1, <1>2 DEF Tech, Blank, Technical, AllBlank, Cell
  <1>5. Good(n)' =
              ( /\ ~Technical(row, ImportWidth) /\ ~AllBlank(row, ImportWidth, {"unit"})
                /\ Issue(row, ImportWidth, task) = "none" )
    BY <1>1, <1>2 DEF Good, Tech, Technical, AllBlank, Nameless, Issue, Cell
  <1> QED BY <1>1, <1>3, <1>4, <1>5

(* The outcomes of one row: passed over, a blank one, any other.              *)
Outcome(scan, row, n, width, number, next) ==
  \/ /\ next = scan
     /\ scan.ended \/ Technical(row, width)
        \/ (~scan.started /\ AllBlank(row, width, {"number", "unit", "quantity"}))
  \/ /\ ~scan.ended /\ ~Technical(row, width)
     /\ AllBlank(row, width, {"number", "name", "unit", "quantity"})
     /\ next.streak = scan.streak + 1 /\ next.ended = (scan.streak = 2)
     /\ next.taken = scan.taken /\ next.rejected = scan.rejected
  \/ /\ ~scan.ended /\ next.streak = 0 /\ ~next.ended
     /\ \/ /\ SectionRow(row, width)
           /\ next.taken = scan.taken /\ next.rejected = scan.rejected
        \/ /\ Issue(row, width, number) = "none"
           /\ next.taken = scan.taken \cup {n} /\ next.rejected = scan.rejected
        \/ /\ Issue(row, width, number) # "none"
           /\ next.taken = scan.taken
           /\ next.rejected = scan.rejected \cup {<<n, Issue(row, width, number)>>}

LEMMA StepCases ==
  ASSUME NEW scan, ScanOK(scan), NEW row, NEW n \in Nat, NEW width, NEW number,
         NEW next, next = Step(scan, row, n, width, number)
  PROVE  /\ ScanOK(next)
         /\ Outcome(scan, row, n, width, number, next)
  <1> USE DEF Outcome
  <1> DEFINE issue == Issue(row, width, number)
             on == [scan EXCEPT !.started = TRUE, !.streak = 0]
  <1>1. issue \in IssueNames
    BY DEF Issue, IssueNames
  <1> HIDE DEF issue
  <1>2. /\ scan = [started |-> scan.started, streak |-> scan.streak, ended |-> scan.ended,
                   taken |-> scan.taken, rejected |-> scan.rejected]
        /\ scan.started \in BOOLEAN /\ scan.streak \in 0..3 /\ scan.ended \in BOOLEAN
        /\ scan.taken \in SUBSET Nat /\ scan.rejected \in SUBSET (Nat \X IssueNames)
        /\ ~scan.ended => scan.streak \in 0..2
    BY DEF ScanOK
  <1>3. CASE scan.ended \/ Technical(row, width)
             \/ (~scan.started /\ AllBlank(row, width, {"number", "unit", "quantity"}))
    BY <1>3 DEF Step
  <1>4. CASE /\ ~scan.ended /\ ~Technical(row, width)
             /\ ~(~scan.started /\ AllBlank(row, width, {"number", "unit", "quantity"}))
             /\ AllBlank(row, width, {"number", "name", "unit", "quantity"})
    <2>1. next = [scan EXCEPT !.started = TRUE, !.streak = @ + 1, !.ended = scan.streak = 2]
      BY <1>4 DEF Step
    <2>2. /\ next.started = TRUE /\ next.streak = scan.streak + 1
          /\ next.ended = (scan.streak = 2) /\ next.taken = scan.taken
          /\ next.rejected = scan.rejected
          /\ next = [started |-> TRUE, streak |-> scan.streak + 1,
                     ended |-> (scan.streak = 2), taken |-> scan.taken,
                     rejected |-> scan.rejected]
      BY <1>2, <2>1
    <2>3. ScanOK(next)
      <3>1. scan.streak + 1 \in 0..3 /\ (scan.streak + 1 = 3 => scan.streak = 2)
        BY <1>2, <1>4
      <3>2. (scan.streak = 2) \in BOOLEAN
        OBVIOUS
      <3> QED BY <1>2, <2>2, <3>1, <3>2 DEF ScanOK
    <2> QED BY <1>4, <2>2, <2>3
  <1>5. CASE /\ ~scan.ended /\ ~Technical(row, width)
             /\ ~(~scan.started /\ AllBlank(row, width, {"number", "unit", "quantity"}))
             /\ ~AllBlank(row, width, {"number", "name", "unit", "quantity"})
    <2>1. /\ on.started = TRUE /\ on.streak = 0 /\ on.ended = FALSE
          /\ on.taken = scan.taken /\ on.rejected = scan.rejected
          /\ on = [started |-> TRUE, streak |-> 0, ended |-> FALSE, taken |-> scan.taken,
                   rejected |-> scan.rejected]
      <3>1. scan.ended = FALSE
        BY <1>2, <1>5
      <3>2. on = [started |-> TRUE, streak |-> 0, ended |-> scan.ended, taken |-> scan.taken,
                  rejected |-> scan.rejected]
        <4>1. PICK begun : begun = on
          OBVIOUS
        <4> HIDE DEF on
        <4>2. begun = [scan EXCEPT !.started = TRUE, !.streak = 0]
          BY <4>1 DEF on
        <4>3. begun = [started |-> TRUE, streak |-> 0, ended |-> scan.ended,
                       taken |-> scan.taken, rejected |-> scan.rejected]
          BY <1>2, <4>2
        <4> QED BY <4>1, <4>3
      <3> QED BY <3>1, <3>2
    <2>2. next = IF SectionRow(row, width) THEN on
                 ELSE IF issue = "none" THEN [on EXCEPT !.taken = @ \cup {n}]
                 ELSE [on EXCEPT !.rejected = @ \cup {<<n, issue>>}]
      BY <1>5 DEF Step, issue
    <2> HIDE DEF on
    <2>3. CASE SectionRow(row, width)
      <3>1. next = on
        BY <2>2, <2>3
      <3>2. ScanOK(next)
        BY <1>2, <2>1, <3>1 DEF ScanOK
      <3> QED BY <1>5, <2>1, <2>3, <3>1, <3>2
    <2>4. CASE ~SectionRow(row, width) /\ issue = "none"
      <3>1. /\ next = [started |-> TRUE, streak |-> 0, ended |-> FALSE,
                       taken |-> scan.taken \cup {n}, rejected |-> scan.rejected]
            /\ next.streak = 0 /\ ~next.ended /\ next.taken = scan.taken \cup {n}
            /\ next.rejected = scan.rejected
        BY <2>1, <2>2, <2>4
      <3>2. ScanOK(next)
        BY <1>2, <3>1 DEF ScanOK
      <3> QED BY <1>5, <2>4, <3>1, <3>2 DEF issue
    <2>5. CASE ~SectionRow(row, width) /\ issue # "none"
      <3>1. /\ next = [started |-> TRUE, streak |-> 0, ended |-> FALSE, taken |-> scan.taken,
                       rejected |-> scan.rejected \cup {<<n, issue>>}]
            /\ next.streak = 0 /\ ~next.ended /\ next.taken = scan.taken
            /\ next.rejected = scan.rejected \cup {<<n, issue>>}
        BY <2>1, <2>2, <2>5
      <3>2. scan.rejected \cup {<<n, issue>>} \in SUBSET (Nat \X IssueNames)
        BY <1>1, <1>2
      <3>3. ScanOK(next)
        BY <1>2, <3>1, <3>2 DEF ScanOK
      <3> QED BY <1>5, <2>5, <3>1, <3>3 DEF issue
    <2> QED BY <2>3, <2>4, <2>5
  <1> QED BY <1>2, <1>3, <1>4, <1>5

(* A row with a unit is neither blank nor a section title.                    *)
LEMMA UnitIsThere ==
  ASSUME NEW row, NEW width, ~AllBlank(row, width, {"unit"})
  PROVE  /\ ~AllBlank(row, width, {"number", "unit", "quantity"})
         /\ ~AllBlank(row, width, {"number", "name", "unit", "quantity"})
         /\ ~SectionRow(row, width)
  <1>1. Cell(row, width, "unit") # NoValue
    BY DEF AllBlank
  <1> QED BY <1>1 DEF AllBlank, SectionRow

--------------------------------------------------------------------------------
(* No good row is lost                                                         *)

LEMMA EmptyScanOK == ScanOK(EmptyScan) /\ ~EmptyScan.ended /\ EmptyScan.streak = 0
  BY DEF EmptyScan, ScanOK

(* Before the table is open there is nothing to lose.                         *)
LEMMA NothingLostYet ==
  ASSUME rows' = <<>>, import' = EmptyScan
  PROVE  GapInv'
  <1>1. rows' \in Seq(TableRows) /\ Len(rows') = 0 /\ 1..Len(rows') = {}
    OBVIOUS
  <1>2. ScanOK(import') /\ ~import'.ended /\ import'.streak = 0
    BY EmptyScanOK
  <1> QED BY <1>1, <1>2 DEF GapInv

LEMMA NothingChanged ==
  ASSUME GapInv, phase' = "done" \/ phase' = phase, rows' = rows, import' = import,
         columns' = columns, task' = task
  PROVE  GapInv'
  <1>1. ImportWidth' = ImportWidth
    BY DEF ImportWidth, WidthOf
  <1>2. \A m \in 1..Len(rows) : Tech(m)' = Tech(m) /\ Blank(m)' = Blank(m) /\ Good(m)' = Good(m)
    BY <1>1 DEF Tech, Blank, Good, Technical, AllBlank, Nameless, Issue, Cell
  <1>3. Len(rows) \in Nat /\ Len(rows') = Len(rows)
    BY DEF GapInv
  <1>4. \A i, m \in 1..Len(rows) : Gap(i, m) => Gap(i, m)'
    BY <1>2, <1>3 DEF Gap
  <1>5. ASSUME NEW m \in 1..Len(rows), Three(m) PROVE Three(m)'
    BY <1>2, <1>3, <1>4, <1>5 DEF Three
  <1>6. One(Len(rows)) => One(Len(rows))'
    BY <1>2, <1>3, <1>4 DEF One
  <1>7. Two(Len(rows)) => Two(Len(rows))'
    BY <1>2, <1>3, <1>4 DEF Two
  <1>8. Three(Len(rows)) => Three(Len(rows))'
    BY <1>3, <1>5 DEF Three
  <1> QED BY <1>2, <1>3, <1>5, <1>6, <1>7, <1>8 DEF GapInv

LEMMA ReadRowGap ==
  ASSUME GapInv, ReadRow
  PROVE  GapInv'
  <1> DEFINE n == Len(rows) + 1
  <1>1. PICK row \in TableRows :
          /\ rows' = Append(rows, row)
          /\ import' = Step(import, row, n, ImportWidth, task)
    BY DEF ReadRow
  <1>2. columns' = columns /\ task' = task /\ phase = "table" /\ phase' = "table"
    BY DEF ReadRow
  <1>3. PICK k : k = n
    OBVIOUS
  <1>4. Len(rows) \in Nat /\ k = Len(rows) + 1 /\ k \in Nat
    BY <1>3 DEF GapInv
  <1>5. rows \in Seq(TableRows) /\ ScanOK(import)
    BY DEF GapInv
  <1> HIDE DEF n
  <1>6. /\ rows' \in Seq(TableRows) /\ Len(rows') = k
        /\ \A m \in 1..Len(rows) : /\ Tech(m)' = Tech(m) /\ Blank(m)' = Blank(m)
                                   /\ Good(m)' = Good(m)
        /\ Tech(k)' = Technical(row, ImportWidth)
        /\ Blank(k)' = AllBlank(row, ImportWidth, {"number", "name", "unit", "quantity"})
        /\ Good(k)' =
             ( /\ ~Technical(row, ImportWidth) /\ ~AllBlank(row, ImportWidth, {"unit"})
               /\ Issue(row, ImportWidth, task) = "none" )
    BY <1>1, <1>2, <1>4, <1>5, RowsStay
  <1>7. PICK next : next = import'
    OBVIOUS
  <1>8. next = Step(import, row, k, ImportWidth, task)
    BY <1>1, <1>3, <1>7
  <1>9. ASSUME NEW i \in 1..Len(rows), NEW m \in 1..Len(rows), Gap(i, m)
        PROVE  Gap(i, m)'
    <2> SUFFICES ASSUME NEW o \in i..m PROVE Tech(o)' \/ Blank(o)'
      BY DEF Gap
    <2>1. o \in 1..Len(rows)
      BY <1>4
    <2> QED BY <1>6, <1>9, <2>1 DEF Gap
  <1>10. ASSUME NEW i \in 1..Len(rows), Gap(i, Len(rows)), Tech(k)' \/ Blank(k)'
         PROVE  \A m \in i..k : Tech(m)' \/ Blank(m)'
    <2> SUFFICES ASSUME NEW m \in i..k PROVE Tech(m)' \/ Blank(m)'
      OBVIOUS
    <2>1. m = k \/ (m \in i..Len(rows) /\ m \in 1..Len(rows))
      BY <1>4
    <2> QED BY <1>6, <1>10, <2>1 DEF Gap
  <1>11. ASSUME NEW m \in 1..Len(rows), Three(m)
         PROVE  Three(m)' /\ \E i, j, l \in 1..k : i < j /\ j < l /\ ~Tech(i)' /\ ~Tech(j)'
                                                 /\ ~Tech(l)' /\ Gap(i, l)'
    <2>1. PICK i, j, l \in 1..m : /\ i < j /\ j < l /\ ~Tech(i) /\ ~Tech(j) /\ ~Tech(l)
                                 /\ Gap(i, l)
      BY <1>11 DEF Three
    <2>2. /\ i \in 1..Len(rows) /\ j \in 1..Len(rows) /\ l \in 1..Len(rows)
          /\ i \in 1..k /\ j \in 1..k /\ l \in 1..k
      BY <1>4
    <2>3. ~Tech(i)' /\ ~Tech(j)' /\ ~Tech(l)' /\ Gap(i, l)'
      BY <1>6, <1>9, <2>1, <2>2
    <2> QED BY <2>1, <2>2, <2>3 DEF Three
  <1> DEFINE One1 == \E i \in 1..k : ~Tech(i)' /\ \A m \in i..k : Tech(m)' \/ Blank(m)'
             Two1 == \E i, j \in 1..k : /\ i < j /\ ~Tech(i)' /\ ~Tech(j)'
                                       /\ \A m \in i..k : Tech(m)' \/ Blank(m)'
             Three1 == \E i, j, l \in 1..k : i < j /\ j < l /\ ~Tech(i)' /\ ~Tech(j)'
                                            /\ ~Tech(l)' /\ Gap(i, l)'
  <1>12. /\ One(Len(rows))' <=> One1
         /\ Two(Len(rows))' <=> Two1
         /\ Three(Len(rows))' <=> Three1
    BY <1>6 DEF One, Two, Three, Gap
  <1>13. Three1 => Three(k)'
    BY DEF Three
  <1> HIDE DEF One1, Two1, Three1
  <1>14. ScanOK(next)
    BY <1>4, <1>5, <1>8, StepCases
  <1>15. SUFFICES /\ ~next.ended => (next.streak = 1 => One1) /\ (next.streak = 2 => Two1)
                  /\ next.ended => Three1
                  /\ Good(k)' /\ k \notin next.taken => next.ended
                  /\ \A m \in 1..Len(rows) : Good(m)' /\ m \notin next.taken =>
                       next.ended /\ Three(m)'
    <2>1. \A m \in 1..Len(rows') : m = k \/ m \in 1..Len(rows)
      BY <1>4, <1>6
    <2> QED BY <1>2, <1>6, <1>7, <1>12, <1>13, <1>14, <1>15, <2>1 DEF GapInv
  <1>16. \A m \in 1..Len(rows) : Good(m)' /\ m \notin import.taken => import.ended /\ Three(m)'
    BY <1>6, <1>11 DEF GapInv
  <1>17. /\ ~import.ended /\ import.streak = 1 => One(Len(rows))
         /\ ~import.ended /\ import.streak = 2 => Two(Len(rows))
         /\ import.ended => Three(Len(rows))
    BY DEF GapInv
  <1>18. Good(k)' => /\ ~Technical(row, ImportWidth)
                     /\ ~AllBlank(row, ImportWidth, {"number", "unit", "quantity"})
                     /\ ~AllBlank(row, ImportWidth, {"number", "name", "unit", "quantity"})
                     /\ ~SectionRow(row, ImportWidth)
                     /\ Issue(row, ImportWidth, task) = "none"
    BY <1>6, UnitIsThere
  <1>19. CASE /\ next = import
              /\ import.ended \/ Technical(row, ImportWidth)
                 \/ (~import.started /\ AllBlank(row, ImportWidth, {"number", "unit", "quantity"}))
    <2>1. import.ended => Three1
      <3>1. import.ended => Len(rows) \in 1..Len(rows)
        BY <1>4, <1>17 DEF Three
      <3> QED BY <1>11, <1>17, <3>1 DEF Three1
    <2>2. ~import.ended /\ import.streak = 1 => One1
      <3> SUFFICES ASSUME ~import.ended, import.streak = 1 PROVE One1
        OBVIOUS
      <3>1. Tech(k)'
        BY <1>6, <1>14, <1>19 DEF ScanOK
      <3>2. PICK i \in 1..Len(rows) : ~Tech(i) /\ Gap(i, Len(rows))
        BY <1>17 DEF One
      <3>3. i \in 1..k /\ ~Tech(i)' /\ \A m \in i..k : Tech(m)' \/ Blank(m)'
        BY <1>4, <1>6, <1>10, <3>1, <3>2
      <3> QED BY <3>3 DEF One1
    <2>3. ~import.ended /\ import.streak = 2 => Two1
      <3> SUFFICES ASSUME ~import.ended, import.streak = 2 PROVE Two1
        OBVIOUS
      <3>1. Tech(k)'
        BY <1>6, <1>14, <1>19 DEF ScanOK
      <3>2. PICK i, j \in 1..Len(rows) : i < j /\ ~Tech(i) /\ ~Tech(j) /\ Gap(i, Len(rows))
        BY <1>17 DEF Two
      <3>3. /\ i \in 1..k /\ j \in 1..k /\ ~Tech(i)' /\ ~Tech(j)'
            /\ \A m \in i..k : Tech(m)' \/ Blank(m)'
        BY <1>4, <1>6, <1>10, <3>1, <3>2
      <3> QED BY <3>2, <3>3 DEF Two1
    <2> QED BY <1>16, <1>18, <1>19, <2>1, <2>2, <2>3
  <1>20. CASE /\ ~import.ended /\ ~Technical(row, ImportWidth)
              /\ AllBlank(row, ImportWidth, {"number", "name", "unit", "quantity"})
              /\ next.streak = import.streak + 1 /\ next.ended = (import.streak = 2)
              /\ next.taken = import.taken /\ next.rejected = import.rejected
    <2>1. k \in 1..k /\ Blank(k)' /\ ~Tech(k)' /\ (\A m \in k..k : m = k)
      <3>1. Blank(k)' /\ ~Tech(k)'
        BY <1>6, <1>20
      <3>2. k \in 1..k /\ (\A m \in k..k : m = k)
        BY <1>4
      <3> QED BY <3>1, <3>2
    <2>2. One1
      BY <2>1 DEF One1
    <2>3. import.streak = 1 => Two1
      <3> SUFFICES ASSUME import.streak = 1 PROVE Two1
        OBVIOUS
      <3>1. PICK i \in 1..Len(rows) : ~Tech(i) /\ Gap(i, Len(rows))
        BY <1>17, <1>20 DEF One
      <3>2. i \in 1..k /\ i < k /\ ~Tech(i)' /\ \A m \in i..k : Tech(m)' \/ Blank(m)'
        BY <1>4, <1>6, <1>10, <2>1, <3>1
      <3> QED BY <2>1, <3>2 DEF Two1
    <2>4. import.streak = 2 => Three1
      <3> SUFFICES ASSUME import.streak = 2 PROVE Three1
        OBVIOUS
      <3>1. PICK i, j \in 1..Len(rows) : i < j /\ ~Tech(i) /\ ~Tech(j) /\ Gap(i, Len(rows))
        BY <1>17, <1>20 DEF Two
      <3>2. /\ i \in 1..k /\ j \in 1..k /\ j < k /\ ~Tech(i)' /\ ~Tech(j)'
            /\ \A m \in i..k : Tech(m)' \/ Blank(m)'
        BY <1>4, <1>6, <1>10, <2>1, <3>1, SMTT(30)
      <3>3. Gap(i, k)'
        BY <3>2 DEF Gap
      <3> QED BY <2>1, <3>1, <3>2, <3>3 DEF Three1
    <2>5. import.streak \in 0..2
      BY <1>5, <1>20 DEF ScanOK
    <2>6. next.ended <=> import.streak = 2
      BY <1>20
    <2>7. next.streak = import.streak + 1
      BY <1>20
    <2>8. (next.streak = 1 => One1) /\ (next.streak = 2 => Two1)
      BY <2>2, <2>3, <2>5, <2>7
    <2>9. next.ended => Three1
      BY <2>4, <2>6
    <2>10. ~Good(k)'
      BY <1>18, <1>20
    <2>11. \A m \in 1..Len(rows) : Good(m)' /\ m \notin next.taken => next.ended /\ Three(m)'
      BY <1>16, <1>20
    <2> QED BY <2>8, <2>9, <2>10, <2>11
  <1>21. CASE /\ ~import.ended /\ next.streak = 0 /\ ~next.ended
              /\ \/ /\ SectionRow(row, ImportWidth)
                    /\ next.taken = import.taken /\ next.rejected = import.rejected
                 \/ /\ Issue(row, ImportWidth, task) = "none"
                    /\ next.taken = import.taken \cup {k} /\ next.rejected = import.rejected
                 \/ /\ Issue(row, ImportWidth, task) # "none"
                    /\ next.taken = import.taken
                    /\ next.rejected =
                         import.rejected \cup {<<k, Issue(row, ImportWidth, task)>>}
    BY <1>16, <1>18, <1>21
  <1>22. /\ ScanOK(import) /\ k \in Nat
    BY <1>4, <1>5
  <1>23. Outcome(import, row, k, ImportWidth, task, next)
    BY <1>4, <1>5, <1>8, StepCases
  <1> QED BY <1>19, <1>20, <1>21, <1>22, <1>23 DEF Outcome

LEMMA GapStep == GapInv /\ [ScanNext]_scanVars => GapInv'
  <1> SUFFICES ASSUME GapInv, [ScanNext]_scanVars PROVE GapInv'
    OBVIOUS
  <1>1. CASE ReadRow
    BY <1>1, ReadRowGap
  <1>2. CASE ReadSheet \/ MetadataRead \/ OpenTable \/ PassSheet
    <2>1. rows' = <<>> /\ import' = EmptyScan
      BY <1>2 DEF GapInv, ReadSheet, MetadataRead, OpenTable, PassSheet
    <2> QED BY <2>1, NothingLostYet
  <1>3. CASE Import \/ NoHeader \/ UNCHANGED scanVars
    <2>1. /\ phase' = "done" \/ phase' = phase
          /\ rows' = rows /\ import' = import /\ columns' = columns /\ task' = task
      BY <1>3 DEF Import, NoHeader, scanVars
    <2> QED BY <2>1, NothingChanged
  <1> QED BY <1>1, <1>2, <1>3 DEF ScanNext

(* However blank rows, section titles, numbering rows and rejected rows are     *)
(* mixed below a header, a good row is lost only below three blank rows in a    *)
(* run (_extract_catalog_row_candidates).                                       *)
THEOREM GoodRowsAreKept == ScanSpec => []NoGoodRowLost
  <1>1. ScanInit => GapInv
    <2> SUFFICES ASSUME ScanInit PROVE GapInv
      OBVIOUS
    <2>1. rows = <<>> /\ import = EmptyScan /\ rows \in Seq(TableRows) /\ 1..Len(rows) = {}
      BY DEF ScanInit
    <2> QED BY <2>1, EmptyScanOK DEF GapInv
  <1>2. GapInv => NoGoodRowLost
    <2> SUFFICES ASSUME GapInv, NEW n \in DOMAIN rows, Good(n), n \notin import.taken
                 PROVE  Three(n)
      BY DEF NoGoodRowLost, Three, Gap, Good, Tech, Blank
    <2>1. n \in 1..Len(rows)
      BY DEF GapInv
    <2> QED BY <2>1 DEF GapInv
  <1> QED BY <1>1, <1>2, GapStep, PTL DEF ScanSpec

--------------------------------------------------------------------------------
(* Columns                                                                     *)

LEMMA LeastNat ==
  ASSUME NEW T \in SUBSET Nat, T # {}
  PROVE  \E x \in T : \A y \in T : x <= y
  <1> DEFINE R == OpToRel(<, Nat)
  <1>1. \E x \in T : \A y \in T : ~(<<y, x>> \in R)
    BY NatLessThanWellFounded, WFMin
  <1>2. \A x, y \in Nat : y < x => <<y, x>> \in R
    BY DEF OpToRel
  <1> HIDE DEF R
  <1>3. ASSUME NEW x \in T, NEW y \in T, ~(<<y, x>> \in R) PROVE x <= y
    BY <1>2, <1>3
  <1> QED BY <1>1, <1>3

LEMMA LeastIsMin ==
  ASSUME NEW T \in SUBSET Nat, T # {}
  PROVE  Min(T) \in T
  BY LeastNat DEF Min

LEMMA GreatestIsMax ==
  ASSUME NEW T \in SUBSET Nat, T # {}, NEW n \in Nat, \A x \in T : x <= n
  PROVE  Max(T) \in T /\ \A x \in T : x <= Max(T)
  <1> DEFINE U == {b \in Nat : \A x \in T : x <= b}
  <1>1. PICK b \in U : \A c \in U : b <= c
    <2>1. n \in U
      OBVIOUS
    <2> QED BY <2>1, LeastNat
  <1>2. b \in Nat /\ \A x \in T : x \in Nat /\ x <= b
    BY <1>1
  <1>3. b \in T
    <2> SUFFICES ASSUME b \notin T PROVE FALSE
      OBVIOUS
    <2>1. \A x \in T : x < b
      BY <1>2
    <2>2. b - 1 \in Nat
      <3>1. PICK x \in T : TRUE
        OBVIOUS
      <3> QED BY <1>2, <2>1, <3>1
    <2>3. b - 1 \in U
      BY <1>2, <2>1, <2>2
    <2> QED BY <1>1, <1>2, <2>3
  <1>4. \A x \in T : b >= x
    BY <1>2
  <1> QED BY <1>2, <1>3, <1>4 DEF Max

(* The place a set of keys is read first.                                     *)
LEMMA EarliestIsThere ==
  ASSUME NEW P \in SUBSET (Nat \X Nat), P # {}
  PROVE  Earliest(P) \in P
  <1> DEFINE C == {p[1] : p \in P}
  <1>1. C \in SUBSET Nat /\ C # {}
    OBVIOUS
  <1>2. PICK c \in C : \A y \in C : c <= y
    BY <1>1, LeastNat
  <1> DEFINE N == {p[2] : p \in {q \in P : q[1] = c}}
  <1>3. N \in SUBSET Nat /\ N # {}
    BY <1>2
  <1>4. PICK n \in N : \A y \in N : n <= y
    BY <1>3, LeastNat
  <1>5. PICK p \in P : p[1] = c /\ p[2] = n
    BY <1>4
  <1>6. ASSUME NEW q \in P PROVE ReadsBefore(p, q)
    <2>1. /\ q[1] \in C /\ q[1] \in Nat /\ c \in Nat /\ n \in Nat /\ q[2] \in Nat
          /\ q[1] = c => q[2] \in N
      BY <1>1, <1>3
    <2> HIDE DEF C, N
    <2>2. CASE q[1] = c
      BY <2>1, <2>2, <1>4, <1>5 DEF ReadsBefore
    <2>3. CASE q[1] # c
      BY <2>1, <2>3, <1>2, <1>5 DEF ReadsBefore
    <2> QED BY <2>2, <2>3
  <1> QED BY <1>6 DEF Earliest

LEMMA ColumnIsNat ==
  ASSUME NEW P \in SUBSET ((Nat \ {0}) \X Nat)
  PROVE  ColumnAt(P) \in Nat /\ (P # {} => ColumnAt(P) # 0)
  <1>1. P \in SUBSET (Nat \X Nat)
    OBVIOUS
  <1> QED BY <1>1, EarliestIsThere DEF ColumnAt

LEMMA HeadingPlaces ==
  ASSUME NEW h \in Headings
  PROVE  /\ HeaderMap(h) \in SUBSET ((Nat \ {0}) \X Nat)
         /\ \A role : PlacesOf(h, role) \subseteq HeaderMap(h)
         /\ Len(h) \in Nat /\ DOMAIN h = 1..Len(h)
  <1>1. h \in Seq(Seq(DOMAIN Reads))
    OBVIOUS
  <1>2. /\ Len(h) \in Nat /\ DOMAIN h = 1..Len(h)
        /\ \A i \in DOMAIN h : h[i] \in Seq(DOMAIN Reads)
    BY <1>1
  <1>3. \A i \in DOMAIN h : i \in Nat \ {0} /\ DOMAIN h[i] \subseteq Nat
    <2> TAKE i \in DOMAIN h
    <2>1. DOMAIN h[i] = 1..Len(h[i]) /\ Len(h[i]) \in Nat
      BY <1>2
    <2> QED BY <1>2, <2>1
  <1>4. Places(h) \in SUBSET ((Nat \ {0}) \X Nat)
    BY <1>3 DEF Places
  <1> QED BY <1>2, <1>4 DEF HeaderMap, PlacesOf

LEMMA PatternIsNat ==
  ASSUME NEW h \in Headings, NEW patterns \in {CodePatterns, DatePatterns},
         NEW places \in SUBSET HeaderMap(h)
  PROVE  PatternColumn(h, patterns, places) \in Nat
  <1> DEFINE fit == {n \in DOMAIN patterns : places \cap PlacesOf(h, patterns[n]) # {}}
  <1>1. \A p : ColumnAt(places \cap p) \in Nat
    <2> TAKE p
    <2>1. places \cap p \in SUBSET ((Nat \ {0}) \X Nat)
      BY HeadingPlaces
    <2> QED BY <2>1, ColumnIsNat
  <1> QED BY <1>1 DEF PatternColumn

LEMMA LastIsNat ==
  ASSUME NEW h \in Headings, NEW role
  PROVE  LastColumn(h, role) \in Nat
  <1> DEFINE fit == {i \in DOMAIN h : \E n \in DOMAIN h[i] : role \in Reads[h[i][n]]}
  <1>1. fit \in SUBSET Nat /\ Len(h) \in Nat /\ \A x \in fit : x <= Len(h)
    BY HeadingPlaces
  <1>2. fit # {} => Max(fit) \in Nat
    BY <1>1, GreatestIsMax
  <1> QED BY <1>2 DEF LastColumn

LEMMA CodeIsNat ==
  ASSUME NEW h \in Headings
  PROVE  CodeColumn(h) \in Nat
  <1> DEFINE open == HeaderMap(h) \ PlacesOf(h, "section")
             specific == PatternColumn(h, CodePatterns, open)
             unlabelled == {p \in PlacesOf(h, "section") : p[1] > 1 /\ h[p[1] - 1] = <<>>}
  <1>1. specific \in Nat
    BY PatternIsNat
  <1>2. ColumnAt(open \cap PlacesOf(h, "code")) \in Nat
    <2>1. open \cap PlacesOf(h, "code") \in SUBSET ((Nat \ {0}) \X Nat)
      BY HeadingPlaces
    <2> QED BY <2>1, ColumnIsNat
  <1>3. unlabelled # {} => ColumnAt(unlabelled) - 1 \in Nat
    <2>1. unlabelled \in SUBSET (Nat \X Nat) /\ \A p \in unlabelled : p[1] \in Nat /\ p[1] > 1
      BY HeadingPlaces
    <2> HIDE DEF unlabelled
    <2>2. unlabelled # {} => Earliest(unlabelled) \in unlabelled
      BY <2>1, EarliestIsThere
    <2> QED BY <2>1, <2>2 DEF ColumnAt
  <1> HIDE DEF open, specific, unlabelled
  <1>4. CodeColumn(h) = IF specific # 0 THEN specific
                        ELSE IF unlabelled # {} THEN ColumnAt(unlabelled) - 1
                        ELSE ColumnAt(open \cap PlacesOf(h, "code"))
    BY DEF CodeColumn, open, specific, unlabelled
  <1> QED BY <1>1, <1>2, <1>3, <1>4

LEMMA LaborIsPlaces ==
  ASSUME NEW h \in Headings, NEW r \in LaborRoles
  PROVE  LaborPlaces(h)[r] \in SUBSET HeaderMap(h)
  <1> DEFINE Pick(places) == IF places = {} THEN {} ELSE {Earliest(places)}
             open == HeaderMap(h) \ PlacesOf(h, "average")
             mu   == Pick(open \cap PlacesOf(h, "machine unit"))
             mt   == Pick((open \ mu) \cap PlacesOf(h, "machine total"))
             lu   == Pick((open \ (mu \cup mt)) \cap PlacesOf(h, "labor unit"))
             lt   == Pick((open \ (mu \cup mt \cup lu)) \cap PlacesOf(h, "labor total"))
  <1>1. ASSUME NEW places \in SUBSET HeaderMap(h) PROVE Pick(places) \in SUBSET HeaderMap(h)
    <2>1. places \in SUBSET (Nat \X Nat)
      BY HeadingPlaces
    <2> QED BY <2>1, EarliestIsThere
  <1>2. LaborPlaces(h)[r] \in {mu, mt, lu, lt}
    <2> HIDE DEF mu, mt, lu, lt
    <2>1. LaborPlaces(h) = [q \in LaborRoles |->
             CASE q = "machine unit" -> mu [] q = "machine total" -> mt
               [] q = "labor unit" -> lu [] q = "labor total" -> lt]
      BY DEF LaborPlaces, mu, mt, lu, lt, Pick, open
    <2>2. LaborPlaces(h)[r] = CASE r = "machine unit" -> mu [] r = "machine total" -> mt
                                [] r = "labor unit" -> lu [] r = "labor total" -> lt
      BY <2>1
    <2>3. r \in {"machine unit", "machine total", "labor unit", "labor total"}
      BY DEF LaborRoles
    <2> QED BY <2>2, <2>3
  <1>3. \A P, Q : (open \ P) \cap Q \in SUBSET HeaderMap(h) /\ open \cap Q \in SUBSET HeaderMap(h)
    OBVIOUS
  <1> HIDE DEF Pick, open
  <1>4. mu \in SUBSET HeaderMap(h) /\ mt \in SUBSET HeaderMap(h)
    BY <1>1, <1>3
  <1>5. lu \in SUBSET HeaderMap(h)
    BY <1>1, <1>3, ZenonT(30)
  <1>6. lt \in SUBSET HeaderMap(h)
    BY <1>1, <1>3, ZenonT(30)
  <1> QED BY <1>2, <1>4, <1>5, <1>6

LEMMA ColumnsAreNat ==
  ASSUME NEW h \in Headings
  PROVE  Columns(h) \in [ColumnNames -> Nat]
  <1>1. \A P \in SUBSET HeaderMap(h) : ColumnAt(P) \in Nat
    <2> TAKE P \in SUBSET HeaderMap(h)
    <2>1. P \in SUBSET ((Nat \ {0}) \X Nat)
      BY HeadingPlaces
    <2> QED BY <2>1, ColumnIsNat
  <1>2. \A role : PlacesOf(h, role) \in SUBSET HeaderMap(h)
    BY HeadingPlaces
  <1>3. \A role : PreferWithoutVat(h, ValuePlaces(h, role)) \in Nat
    <2> TAKE role
    <2>1. ValuePlaces(h, role) \in SUBSET HeaderMap(h)
      BY <1>2 DEF ValuePlaces
    <2> QED BY <1>1, <2>1 DEF PreferWithoutVat
  <1>4. PatternColumn(h, DatePatterns, HeaderMap(h)) \in Nat
    BY PatternIsNat
  <1>5. \A r \in LaborRoles : ColumnAt(LaborPlaces(h)[r]) \in Nat
    BY <1>1, LaborIsPlaces
  <1>6. SUFFICES ASSUME NEW c \in ColumnNames PROVE Columns(h)[c] \in Nat
    BY DEF Columns
  <1> DEFINE number == IF PlacesOf(h, "number") = {} THEN 1 ELSE ColumnAt(PlacesOf(h, "number"))
             last == LastColumn(h, c)
             code == CodeColumn(h)
             value == PreferWithoutVat(h, ValuePlaces(h, c))
             date == PatternColumn(h, DatePatterns, HeaderMap(h))
             labor == ColumnAt(LaborPlaces(h)[c])
  <1>7. Columns(h)[c] =
          CASE c = "number" -> number
            [] c \in {"name", "unit", "quantity"} -> last
            [] c = "code"  -> code
            [] c \in {"price", "total"} -> value
            [] c = "date"  -> date
            [] c \in LaborRoles -> labor
    BY DEF Columns
  <1>8. /\ number \in Nat /\ last \in Nat /\ code \in Nat /\ value \in Nat /\ date \in Nat
        /\ c \in LaborRoles => labor \in Nat
    BY <1>1, <1>2, <1>3, <1>4, <1>5, LastIsNat, CodeIsNat
  <1> HIDE DEF number, last, code, value, date, labor
  <1> QED BY <1>7, <1>8 DEF ColumnNames, LaborRoles

LEMMA FourNaturals ==
  ASSUME NEW a \in Nat, NEW b \in Nat, NEW c \in Nat, NEW d \in Nat
  PROVE  \E n \in Nat : a <= n /\ b <= n /\ c <= n /\ d <= n
  <1> WITNESS a + b + c + d \in Nat
  <1> QED OBVIOUS

LEMMA ColumnsBounded ==
  ASSUME columns \in [ColumnNames -> Nat]
  PROVE  \E n \in Nat : \A d \in ColumnNames : columns[d] <= n
  <1>1. \E n \in Nat : /\ columns["number"] <= n /\ columns["name"] <= n
                      /\ columns["unit"] <= n /\ columns["quantity"] <= n
    BY FourNaturals DEF ColumnNames
  <1>2. \E n \in Nat : /\ columns["code"] <= n /\ columns["price"] <= n
                      /\ columns["total"] <= n /\ columns["date"] <= n
    BY FourNaturals DEF ColumnNames
  <1>3. \E n \in Nat : /\ columns["labor unit"] <= n /\ columns["labor total"] <= n
                      /\ columns["machine unit"] <= n /\ columns["machine total"] <= n
    BY FourNaturals DEF ColumnNames
  <1>4. PICK x \in Nat : /\ columns["number"] <= x /\ columns["name"] <= x
                        /\ columns["unit"] <= x /\ columns["quantity"] <= x
    BY <1>1
  <1>5. PICK y \in Nat : /\ columns["code"] <= y /\ columns["price"] <= y
                        /\ columns["total"] <= y /\ columns["date"] <= y
    BY <1>2
  <1>6. PICK z \in Nat : /\ columns["labor unit"] <= z /\ columns["labor total"] <= z
                        /\ columns["machine unit"] <= z /\ columns["machine total"] <= z
    BY <1>3
  <1>7. PICK n \in Nat : x <= n /\ y <= n /\ z <= n
    BY FourNaturals
  <1>8. \A d \in ColumnNames : columns[d] <= n
    <2> TAKE d \in ColumnNames
    <2>1. columns[d] \in Nat /\ (columns[d] <= x \/ columns[d] <= y \/ columns[d] <= z)
      BY <1>4, <1>5, <1>6 DEF ColumnNames
    <2> QED BY <1>7, <2>1
  <1> QED BY <1>7, <1>8

(* Both scans read as far as the columns they use.                            *)
LEMMA WidthReaches ==
  ASSUME columns \in [ColumnNames -> Nat], NEW names \in SUBSET ColumnNames, NEW c \in names
  PROVE  columns[c] <= WidthOf(names)
  <1> DEFINE T == {columns[d] : d \in names}
  <1>0. \A d \in ColumnNames : columns[d] \in Nat
    OBVIOUS
  <1>1. PICK n \in Nat : \A d \in ColumnNames : columns[d] <= n
    BY ColumnsBounded
  <1>2. T \in SUBSET Nat /\ T # {} /\ columns[c] \in T /\ \A x \in T : x <= n
    BY <1>0, <1>1
  <1>3. \A x \in T : x <= Max(T)
    BY <1>1, <1>2, GreatestIsMax
  <1> QED BY <1>2, <1>3 DEF WidthOf

(* The last of them is a column number.                                       *)
LEMMA WidthIsNat ==
  ASSUME columns \in [ColumnNames -> Nat]
  PROVE  PreviewWidth \in Nat /\ ImportWidth \in Nat
  <1>1. ASSUME NEW names \in SUBSET ColumnNames, "name" \in names
        PROVE  WidthOf(names) \in Nat
    <2> DEFINE T == {columns[d] : d \in names}
    <2>1. T \in SUBSET Nat /\ columns["name"] \in T
      BY <1>1
    <2>2. PICK n \in Nat : \A d \in ColumnNames : columns[d] <= n
      BY ColumnsBounded
    <2>3. \A x \in T : x <= n
      BY <1>1, <2>2
    <2>4. Max(T) \in T
      BY <2>1, <2>3, GreatestIsMax
    <2> QED BY <2>1, <2>4 DEF WidthOf
  <1>2. "name" \in ColumnNames \ {"date"}
    BY DEF ColumnNames
  <1> QED BY <1>1, <1>2 DEF PreviewWidth, ImportWidth

(* A cell but the date is the same to both scans.                             *)
LEMMA SameCell ==
  ASSUME columns \in [ColumnNames -> Nat], NEW row, NEW c \in ColumnNames \ {"date"}
  PROVE  Cell(row, PreviewWidth, c) = Cell(row, ImportWidth, c)
  <1>1. columns[c] \in Nat /\ PreviewWidth \in Nat /\ ImportWidth \in Nat
    BY WidthIsNat
  <1>2. columns[c] <= PreviewWidth
    BY WidthReaches DEF PreviewWidth
  <1>3. columns[c] <= ImportWidth
    BY WidthReaches DEF ImportWidth
  <1> QED BY <1>1, <1>2, <1>3 DEF Cell

--------------------------------------------------------------------------------
(* The preview shows what the import writes                                    *)

(* What a scan of k rows has decided about them.                              *)
ScanShape(scan, k) ==
  /\ ScanOK(scan)
  /\ scan.taken \subseteq 1..k
  /\ \A pair \in scan.rejected : pair[1] \in (1..k) \ scan.taken

(* The scans read alike: the preview was not cut short, both have a task       *)
(* number, and take the same rows for those that number the columns.           *)
Alike ==
  /\ ~Limited /\ task # NoValue
  /\ \A n \in 1..Len(rows) : Technical(rows[n], PreviewWidth) = Technical(rows[n], ImportWidth)

(* As long as they do, they are in the same state.                             *)
ScanInv ==
  /\ ScanTypeOK
  /\ ScanShape(preview, Len(rows)) /\ ScanShape(import, Len(rows))
  /\ phase \in {"meta", "sheets"} => rows = <<>> /\ preview = EmptyScan /\ import = EmptyScan
  /\ Alike => preview = import
  /\ phase # "done" => result = NoResult
  /\ result.status = "success" => result.written = import.taken \ result.excluded

(* A scan only adds to what it decided, and only the row it reads.            *)
LEMMA StepDecides ==
  ASSUME NEW scan, ScanOK(scan), NEW row, NEW width, NEW number, NEW n \in Nat,
         NEW next, next = Step(scan, row, n, width, number)
  PROVE  \/ next = scan
         \/ next.taken = scan.taken /\ next.rejected = scan.rejected
         \/ next.taken = scan.taken \cup {n} /\ next.rejected = scan.rejected
         \/ /\ next.taken = scan.taken
            /\ next.rejected = scan.rejected \cup {<<n, Issue(row, width, number)>>}
  <1>1. Outcome(scan, row, n, width, number, next)
    BY StepCases
  <1> QED BY <1>1 DEF Outcome

LEMMA StepKeepsShape ==
  ASSUME NEW k \in Nat, NEW scan, ScanShape(scan, k), NEW row, NEW width, NEW number,
         NEW n \in Nat, n = k + 1, NEW next, next = Step(scan, row, n, width, number)
  PROVE  /\ ScanShape(next, n)
         /\ scan.taken \subseteq next.taken /\ scan.rejected \subseteq next.rejected
  <1>1. ScanOK(scan) /\ scan.taken \subseteq 1..k
        /\ \A pair \in scan.rejected : pair[1] \in (1..k) \ scan.taken
    BY DEF ScanShape
  <1>2. ScanOK(next)
    BY <1>1, StepCases
  <1>3. \/ next = scan
        \/ next.taken = scan.taken /\ next.rejected = scan.rejected
        \/ next.taken = scan.taken \cup {n} /\ next.rejected = scan.rejected
        \/ /\ next.taken = scan.taken
           /\ next.rejected = scan.rejected \cup {<<n, Issue(row, width, number)>>}
    BY <1>1, StepDecides
  <1>4. 1..k \subseteq 1..n /\ n \in 1..n /\ n \notin 1..k
    OBVIOUS
  <1>5. /\ scan.taken \subseteq next.taken /\ scan.rejected \subseteq next.rejected
        /\ next.taken \subseteq 1..n
        /\ \A pair \in next.rejected : pair[1] \in (1..n) \ next.taken
    BY <1>1, <1>3, <1>4
  <1> QED BY <1>2, <1>5 DEF ScanShape

(* Ending a scan keeps its shape.                                             *)
LEMMA EndKeepsShape ==
  ASSUME NEW k \in Nat, NEW scan, ScanShape(scan, k), NEW stop \in BOOLEAN,
         NEW next, next = [scan EXCEPT !.ended = @ \/ stop]
  PROVE  /\ ScanShape(next, k) /\ next.taken = scan.taken /\ next.rejected = scan.rejected
         /\ ~stop => next = scan
  <1>1. /\ scan = [started |-> scan.started, streak |-> scan.streak, ended |-> scan.ended,
                   taken |-> scan.taken, rejected |-> scan.rejected]
        /\ scan.started \in BOOLEAN /\ scan.streak \in 0..3 /\ scan.ended \in BOOLEAN
        /\ scan.taken \in SUBSET Nat /\ scan.rejected \in SUBSET (Nat \X IssueNames)
        /\ scan.streak = 3 => scan.ended
        /\ ~scan.started => scan.streak = 0
    BY DEF ScanShape, ScanOK
  <1>2. next = [started |-> scan.started, streak |-> scan.streak,
                ended |-> scan.ended \/ stop, taken |-> scan.taken, rejected |-> scan.rejected]
    BY <1>1
  <1>3. (scan.ended \/ stop) \in BOOLEAN /\ (~stop => (scan.ended \/ stop) = scan.ended)
    BY <1>1
  <1> DEFINE ended == scan.ended \/ stop
  <1> HIDE DEF ended
  <1>4. /\ next = [started |-> scan.started, streak |-> scan.streak,
                   ended |-> ended, taken |-> scan.taken, rejected |-> scan.rejected]
        /\ ended \in BOOLEAN /\ (~stop => ended = scan.ended) /\ (scan.ended => ended)
    BY <1>1, <1>2, <1>3 DEF ended
  <1>5. ScanOK(next)
    BY <1>1, <1>4 DEF ScanOK
  <1>6. next.taken = scan.taken /\ next.rejected = scan.rejected
    BY <1>4
  <1>7. ~stop => next = scan
    BY <1>1, <1>4
  <1> QED BY <1>5, <1>6, <1>7 DEF ScanShape

(* What a scan decided is finite, so that its limit stays passed once it was.  *)
LEMMA LimitStays ==
  ASSUME NEW k \in Nat, NEW n \in Nat, NEW scan, ScanShape(scan, k), NEW next,
         ScanShape(next, n), scan.taken \subseteq next.taken, scan.rejected \subseteq next.rejected
  PROVE  Scanned(scan) \in Nat /\ Scanned(next) \in Nat /\ Scanned(scan) <= Scanned(next)
  <1>1. IsFiniteSet(1..n) /\ IsFiniteSet(IssueNames)
    <2>1. IsFiniteSet({"none", "no unit and quantity"}) /\ IsFiniteSet({"no task", "no code"})
          /\ IsFiniteSet({"no unit", "no price"})
      <3>1. \A x, y : {x, y} = {x} \cup {y}
        OBVIOUS
      <3>2. \A x, y : IsFiniteSet({x} \cup {y})
        BY FS_Singleton, FS_Union
      <3>3. \A x, y : IsFiniteSet({x, y})
        BY <3>1, <3>2
      <3> QED BY <3>3
    <2>2. IssueNames = ({"none", "no unit and quantity"} \cup {"no task", "no code"})
                         \cup {"no unit", "no price"}
      BY DEF IssueNames
    <2>3. IsFiniteSet({"none", "no unit and quantity"} \cup {"no task", "no code"})
      BY <2>1, FS_Union
    <2>4. IsFiniteSet(IssueNames)
      BY <2>1, <2>2, <2>3, FS_Union
    <2>5. IsFiniteSet(1..n)
      BY FS_Interval
    <2> QED BY <2>4, <2>5
  <1>2. IsFiniteSet((1..n) \X IssueNames)
    BY <1>1, FS_Product
  <1>3. next.taken \in SUBSET (1..n) /\ next.rejected \in SUBSET ((1..n) \X IssueNames)
    <2>1. next.rejected \in SUBSET (Nat \X IssueNames)
          /\ \A pair \in next.rejected : pair[1] \in 1..n
      BY DEF ScanShape, ScanOK
    <2> QED BY <2>1 DEF ScanShape
  <1>4. IsFiniteSet(next.taken) /\ IsFiniteSet(next.rejected)
    BY <1>1, <1>2, <1>3, FS_Subset
  <1>5. /\ IsFiniteSet(scan.taken) /\ Cardinality(scan.taken) <= Cardinality(next.taken)
        /\ IsFiniteSet(scan.rejected)
        /\ Cardinality(scan.rejected) <= Cardinality(next.rejected)
    BY <1>4, FS_Subset
  <1>6. /\ Cardinality(scan.taken) \in Nat /\ Cardinality(next.taken) \in Nat
        /\ Cardinality(scan.rejected) \in Nat /\ Cardinality(next.rejected) \in Nat
    BY <1>4, <1>5, FS_CardinalityType
  <1> QED BY <1>5, <1>6 DEF Scanned

(* A row both scans take for an ordinary one, or both for one that numbers the *)
(* columns, means the same to them.                                           *)
LEMMA SameStep ==
  ASSUME columns \in [ColumnNames -> Nat], NEW scan, NEW row, NEW n, task # NoValue,
         Technical(row, PreviewWidth) = Technical(row, ImportWidth)
  PROVE  Step(scan, row, n, PreviewWidth, "preview-task") = Step(scan, row, n, ImportWidth, task)
  <1>1. \A c \in ColumnNames \ {"date"} :
          Cell(row, PreviewWidth, c) = Cell(row, ImportWidth, c)
    BY SameCell
  <1>2. \A names \in SUBSET (ColumnNames \ {"date"}) :
          AllBlank(row, PreviewWidth, names) = AllBlank(row, ImportWidth, names)
    BY <1>1 DEF AllBlank
  <1>3. {"number", "name", "unit", "quantity", "code", "price", "total"}
          \subseteq ColumnNames \ {"date"}
    BY DEF ColumnNames
  <1>4. /\ Cell(row, PreviewWidth, "price") = Cell(row, ImportWidth, "price")
        /\ Cell(row, PreviewWidth, "total") = Cell(row, ImportWidth, "total")
    BY <1>1, <1>3
  <1>5. /\ AllBlank(row, PreviewWidth, {"number", "unit", "quantity"})
           = AllBlank(row, ImportWidth, {"number", "unit", "quantity"})
        /\ AllBlank(row, PreviewWidth, {"number", "name", "unit", "quantity"})
           = AllBlank(row, ImportWidth, {"number", "name", "unit", "quantity"})
        /\ AllBlank(row, PreviewWidth, {"unit", "quantity"})
           = AllBlank(row, ImportWidth, {"unit", "quantity"})
        /\ AllBlank(row, PreviewWidth, {"name"}) = AllBlank(row, ImportWidth, {"name"})
    BY <1>2, <1>3
  <1>6. \A c \in {"code", "unit"} :
          Nameless(row, PreviewWidth, c) = Nameless(row, ImportWidth, c)
    BY <1>1, <1>3 DEF Nameless
  <1>7. Issue(row, PreviewWidth, "preview-task") = Issue(row, ImportWidth, task)
    BY <1>4, <1>5, <1>6 DEF Issue
  <1>8. SectionRow(row, PreviewWidth) = SectionRow(row, ImportWidth)
    BY <1>4, <1>5, <1>6 DEF SectionRow
  <1> QED BY <1>5, <1>7, <1>8 DEF Step

LEMMA ReadRowShows ==
  ASSUME ScanInv, ReadRow
  PROVE  ScanInv'
  <1>1. PICK row \in TableRows :
          /\ rows' = Append(rows, row)
          /\ preview' = PreviewStep(preview, row, Len(rows) + 1)
          /\ import' = Step(import, row, Len(rows) + 1, ImportWidth, task)
    BY DEF ReadRow
  <1>2. /\ phase = "table" /\ phase' = "table" /\ columns' = columns /\ task' = task
        /\ sheets' = sheets /\ sheet' = sheet /\ meta' = meta /\ result' = result
    BY DEF ReadRow
  <1>3. rows \in Seq(TableRows) /\ columns \in [ColumnNames -> Nat]
    BY DEF ScanInv, ScanTypeOK
  <1>4. PICK k \in Nat : k = Len(rows)
    BY <1>3
  <1> DEFINE rank == Len(rows) + 1
  <1>5a. PICK n : n = rank
    OBVIOUS
  <1>5. n \in Nat /\ n = k + 1
    BY <1>4, <1>5a
  <1>6. /\ rows' \in Seq(TableRows) /\ Len(rows') = n /\ DOMAIN rows' = 1..n
        /\ \A m \in 1..k : rows'[m] = rows[m]
        /\ rows'[n] = row
    BY <1>1, <1>3, <1>4, <1>5
  <1>7. PreviewWidth' = PreviewWidth /\ ImportWidth' = ImportWidth
    BY <1>2 DEF PreviewWidth, ImportWidth, WidthOf
  <1>8. ScanShape(preview, k) /\ ScanShape(import, k)
    BY <1>4 DEF ScanInv
  <1> DEFINE seen == Step(preview, row, n, PreviewWidth, "preview-task")
  <1> HIDE DEF rank
  <1>1a. /\ preview' = PreviewStep(preview, row, n)
         /\ import' = Step(import, row, n, ImportWidth, task)
    BY <1>1, <1>5a DEF rank
  <1>9. PICK next : next = seen
    OBVIOUS
  <1>10. PICK shown : shown = preview'
    OBVIOUS
  <1>11. PICK kept : kept = import'
    OBVIOUS
  <1>12. /\ ScanShape(next, n)
         /\ preview.taken \subseteq next.taken /\ preview.rejected \subseteq next.rejected
    BY <1>5, <1>8, <1>9, StepKeepsShape
  <1>13. kept = Step(import, row, n, ImportWidth, task)
    BY <1>1a, <1>11
  <1>14. ScanShape(kept, n)
    BY <1>5, <1>8, <1>13, StepKeepsShape
  <1>15. shown = [next EXCEPT !.ended = @ \/ Scanned(next) >= RowLimit]
    BY <1>1a, <1>9, <1>10 DEF PreviewStep
  <1>16. /\ ScanShape(shown, n) /\ shown.taken = next.taken /\ shown.rejected = next.rejected
         /\ ~(Scanned(next) >= RowLimit) => shown = next
    <2>0. Scanned(next) \in Nat
      BY <1>5, <1>12, LimitStays
    <2>1. PICK cut \in BOOLEAN : cut <=> Scanned(next) >= RowLimit
      BY <2>0
    <2>2. shown = [next EXCEPT !.ended = @ \/ cut]
      BY <1>15, <2>1
    <2>3. ScanShape(shown, n) /\ shown.taken = next.taken /\ shown.rejected = next.rejected
      BY <1>5, <1>12, <2>2, EndKeepsShape
    <2>4. ~cut => shown = next
      BY <1>5, <1>12, <2>2, EndKeepsShape
    <2> QED BY <2>1, <2>3, <2>4
  <1>17. Limited' <=> Scanned(next) >= RowLimit
    BY <1>10, <1>16 DEF Limited, Scanned
  <1>18. Limited => Limited'
    <2>1. Scanned(preview) \in Nat /\ Scanned(next) \in Nat /\ Scanned(preview) <= Scanned(next)
      BY <1>4, <1>5, <1>8, <1>12, LimitStays
    <2> QED BY <1>17, <2>1 DEF Limited
  <1>19. ASSUME Alike' PROVE kept = shown
    <2>1. /\ ~Limited' /\ task # NoValue
          /\ \A m \in 1..n : Technical(rows[m], PreviewWidth)' = Technical(rows[m], ImportWidth)'
      BY <1>2, <1>6, <1>19 DEF Alike
    <2>2. \A m \in 1..n : Technical(rows'[m], PreviewWidth) = Technical(rows'[m], ImportWidth)
      BY <1>7, <2>1 DEF Technical
    <2>3. \A m \in 1..k : Technical(rows[m], PreviewWidth) = Technical(rows[m], ImportWidth)
      <3>1. \A m \in 1..k : m \in 1..n
        BY <1>5
      <3> QED BY <1>6, <2>2, <3>1
    <2>4. preview = import
      BY <1>4, <1>18, <2>1, <2>3 DEF Alike, ScanInv
    <2>5. Technical(row, PreviewWidth) = Technical(row, ImportWidth)
      <3>1. n \in 1..n
        BY <1>5
      <3> QED BY <1>6, <2>2, <3>1
    <2>6. next = kept
      BY <1>3, <1>9, <1>13, <2>1, <2>4, <2>5, SameStep
    <2> QED BY <1>16, <1>17, <2>1, <2>6
  <1>20. result = NoResult
    BY <1>2 DEF ScanInv
  <1>21. ScanTypeOK'
    <2>1. \A scan \in {preview', import'} :
            /\ scan.taken \subseteq 1..n /\ scan.streak \in 0..3
            /\ {pair[1] : pair \in scan.rejected} \subseteq (1..n) \ scan.taken
      BY <1>10, <1>11, <1>14, <1>16 DEF ScanShape, ScanOK
    <2> QED BY <1>2, <1>6, <2>1 DEF ScanInv, ScanTypeOK
  <1>22. result.status # "success"
    BY <1>20 DEF NoResult
  <1> QED BY <1>2, <1>6, <1>10, <1>11, <1>14, <1>16, <1>19, <1>20, <1>21, <1>22 DEF ScanInv

LEMMA EmptyShape ==
  ASSUME NEW k \in Nat
  PROVE  ScanShape(EmptyScan, k)
  BY EmptyScanOK DEF ScanShape, EmptyScan

(* The steps before the table is open.                                        *)
LEMMA BeforeTableShows ==
  ASSUME ScanInv, ReadSheet \/ MetadataRead \/ OpenTable \/ PassSheet
  PROVE  ScanInv'
  <1>1. /\ rows = <<>> /\ preview = EmptyScan /\ import = EmptyScan /\ result = NoResult
        /\ UNCHANGED <<rows, preview, import, result, sheets>>
        /\ phase' \in {"meta", "sheets", "table"}
    BY DEF ReadSheet, MetadataRead, OpenTable, PassSheet, ScanInv
  <1>2. sheets \in 1..MaxSheets /\ sheet \in 0..sheets /\ sheets \in Nat /\ sheet \in Nat
    BY DEF ScanInv, ScanTypeOK
  <1>3. sheet' \in 0..sheets
    BY <1>2 DEF ReadSheet, MetadataRead, OpenTable, PassSheet
  <1>4. meta' \in [MetaFields -> MetaValues \cup {NoValue}]
    <2>1. meta \in [MetaFields -> MetaValues \cup {NoValue}]
      BY DEF ScanInv, ScanTypeOK
    <2>2. CASE ReadSheet
      <3>1. PICK labelled, context \in [MetaFields -> MetaValues \cup {NoValue}] :
              meta' = [f \in MetaFields |->
                IF meta[f] # NoValue THEN meta[f]
                ELSE IF labelled[f] # NoValue THEN labelled[f] ELSE context[f]]
        BY <2>2 DEF ReadSheet
      <3> QED BY <2>1, <3>1
    <2> QED BY <2>1, <2>2 DEF MetadataRead, OpenTable, PassSheet
  <1>5. task' \in TaskNumbers \cup {NoValue}
    BY DEF ReadSheet, MetadataRead, OpenTable, PassSheet, ScanInv, ScanTypeOK
  <1>6. columns' \in [ColumnNames -> Nat]
    BY ColumnsAreNat DEF ReadSheet, MetadataRead, OpenTable, PassSheet, ScanInv, ScanTypeOK
  <1>7. /\ rows' \in Seq(TableRows) /\ Len(rows') = 0
        /\ result'.status = "none"
        /\ EmptyScan.taken = {} /\ EmptyScan.rejected = {} /\ EmptyScan.streak = 0
    BY <1>1 DEF EmptyScan, NoResult
  <1>8. ScanTypeOK'
    BY <1>1, <1>2, <1>3, <1>4, <1>5, <1>6, <1>7 DEF ScanTypeOK
  <1>9. ScanShape(preview', Len(rows')) /\ ScanShape(import', Len(rows'))
    BY <1>1, <1>7, EmptyShape
  <1> QED BY <1>1, <1>7, <1>8, <1>9 DEF ScanInv

LEMMA AlikeStays ==
  ASSUME UNCHANGED <<columns, rows, preview, task>>, Alike'
  PROVE  Alike
  <1>1. PreviewWidth' = PreviewWidth /\ ImportWidth' = ImportWidth
    BY DEF PreviewWidth, ImportWidth, WidthOf
  <1>2. Limited' = Limited
    BY DEF Limited, Scanned
  <1>3. /\ ~Limited' /\ task # NoValue
        /\ \A n \in 1..Len(rows) : Technical(rows[n], PreviewWidth)' = Technical(rows[n], ImportWidth)'
    BY DEF Alike
  <1>4. \A n \in 1..Len(rows) : /\ Technical(rows[n], PreviewWidth)' = Technical(rows[n], PreviewWidth)
                               /\ Technical(rows[n], ImportWidth)' = Technical(rows[n], ImportWidth)
    BY <1>1 DEF Technical
  <1> QED BY <1>2, <1>3, <1>4 DEF Alike

LEMMA EndShows ==
  ASSUME ScanInv, Import \/ NoHeader
  PROVE  ScanInv'
  <1>1. /\ UNCHANGED <<sheets, sheet, meta, task, columns, rows, preview, import>>
        /\ phase' = "done"
    BY DEF Import, NoHeader
  <1>2. /\ result'.status \in {"success", "no_data"}
        /\ result'.status = "success" => result'.written = import.taken \ result'.excluded
    BY DEF Import, NoHeader, NoResult
  <1>3. Alike' => Alike
    BY <1>1, AlikeStays
  <1>4. ScanTypeOK'
    BY <1>1, <1>2 DEF ScanInv, ScanTypeOK
  <1> QED BY <1>1, <1>2, <1>3, <1>4 DEF ScanInv

LEMMA ScanInvStep == ScanInv /\ [ScanNext]_scanVars => ScanInv'
  <1> SUFFICES ASSUME ScanInv, [ScanNext]_scanVars PROVE ScanInv'
    OBVIOUS
  <1>1. CASE ReadSheet \/ MetadataRead \/ OpenTable \/ PassSheet
    BY <1>1, BeforeTableShows
  <1>2. CASE ReadRow
    BY <1>2, ReadRowShows
  <1>3. CASE Import \/ NoHeader
    BY <1>3, EndShows
  <1>4. CASE UNCHANGED scanVars
    <2>1. Alike' => Alike
      BY <1>4, AlikeStays DEF scanVars
    <2>2. ScanTypeOK'
      BY <1>4 DEF scanVars, ScanInv, ScanTypeOK
    <2> QED BY <1>4, <2>1, <2>2 DEF scanVars, ScanInv
  <1> QED BY <1>1, <1>2, <1>3, <1>4 DEF ScanNext

LEMMA ScanInvInit == ScanInit => ScanInv
  <1> SUFFICES ASSUME ScanInit PROVE ScanInv
    OBVIOUS
  <1>1. /\ rows \in Seq(TableRows) /\ Len(rows) = 0 /\ rows = <<>>
        /\ preview = EmptyScan /\ import = EmptyScan /\ result.status = "none"
        /\ result = NoResult /\ phase = "meta"
    BY DEF ScanInit, NoResult
  <1>2. ScanShape(preview, Len(rows)) /\ ScanShape(import, Len(rows))
    BY <1>1, EmptyShape
  <1>3. ScanTypeOK
    BY <1>1 DEF ScanInit, ScanTypeOK, EmptyScan, NoColumns
  <1> QED BY <1>1, <1>2, <1>3 DEF ScanInv

LEMMA ScanInvHolds == ScanSpec => []ScanInv
  BY ScanInvInit, ScanInvStep, PTL DEF ScanSpec

(* Metadata, columns, scans and result keep their shape, whatever the heading: *)
(* a column is always a number, and what a scan decided is about rows it read. *)
THEOREM ScanIsWellTyped == ScanSpec => []ScanTypeOK
  <1>1. ScanInv => ScanTypeOK
    BY DEF ScanInv
  <1> QED BY <1>1, ScanInvHolds, PTL

(* What the admin approves is what is written: the two copies of the loop,     *)
(* _preview_table_rows and _extract_catalog_row_candidates, decide alike about *)
(* every row of every table, whatever columns its heading names.               *)
THEOREM ApprovedIsWritten == ScanSpec => []ImportIsWhatPreviewShowed
  <1>1. ScanInv => ImportIsWhatPreviewShowed
    <2> SUFFICES ASSUME ScanInv, ~Limited, task # NoValue,
                        \A n \in DOMAIN rows :
                          Technical(rows[n], PreviewWidth) = Technical(rows[n], ImportWidth)
                 PROVE  /\ import.rejected = preview.rejected
                        /\ result.status = "success" =>
                             result.written = preview.taken \ result.excluded
      BY DEF ImportIsWhatPreviewShowed
    <2>1. DOMAIN rows = 1..Len(rows)
      BY DEF ScanInv, ScanTypeOK
    <2>2. preview = import
      BY <2>1 DEF ScanInv, Alike
    <2> QED BY <2>2 DEF ScanInv
  <1> QED BY <1>1, ScanInvHolds, PTL
================================================================================
