--------------------------- MODULE RuleTablesProofs ---------------------------
(****************************************************************************)
(* Proofs about RuleTables for any rules, workbooks, administrators and     *)
(* calculations.                                                            *)
(****************************************************************************)
EXTENDS RuleTables, FiniteSetTheorems, WellFoundedInduction, TLAPS

USE RuleAssumption

AnyKey == Patterns \cup Tasks \cup Reasons
Form == {f \in [phase : {"find"}, table : RuleNames, key : AnyKey,
                wanted : {"add", "on", "off"}, value : Values] :
           f.table = "reasons" => f.key \in Reasons}
Edit == [phase : {"none"}] \cup Form
          \cup [phase : {"update"}, id : Nat, of : Form]
          \cup [phase : {"sort"}, of : Form]
          \cup [phase : {"insert"}, of : Form, sort : Nat]

(* Ids are unique, and ids and sort numbers are below the last id given: there *)
(* are never more numbers than there were rows.                                *)
Tidy(t) ==
  /\ t \in RuleTable
  /\ \A r \in t.rows : r.id <= t.lastId /\ r.sort < t.lastId
  /\ \A r, q \in t.rows : r.id = q.id => r = q

(* The rows of the table of reasons: one of a key. *)
Distinct(rows) ==
  /\ \A r, q \in rows : r.key = q.key => r = q
  /\ \A r \in rows : r.key \in Reasons

(* A later state of a table: an id keeps its key for ever. *)
Follows(new, old) ==
  /\ new.lastId >= old.lastId
  /\ \A r \in new.rows :
       r.id > old.lastId \/ \E q \in old.rows : q.id = r.id /\ q.key = r.key

(* What an edit remembers is still true of its table, as far as it is there.   *)
StillTrue(e) ==
  /\ e.phase = "update" =>
       /\ e.id <= rules[e.of.table].lastId
       /\ \A r \in rules[e.of.table].rows : r.id = e.id => r.key = e.of.key
  /\ e.phase = "insert" => e.sort <= rules[e.of.table].lastId

RuleInv ==
  /\ RulesTyped
  /\ \A t \in RuleNames : Tidy(rules[t])
  /\ Distinct(rules["reasons"].rows)
  /\ edit \in [Admins -> Edit]
  /\ \A a \in Admins : StillTrue(edit[a])

--------------------------------------------------------------------------------
(* Least and greatest numbers                                                  *)

LEMMA LeastNat ==
  ASSUME NEW T \in SUBSET Nat, T # {}
  PROVE  \E x \in T : \A y \in T : x <= y
  <1> DEFINE R == OpToRel(<, Nat)
  <1>1. IsWellFoundedOn(R, Nat)
    BY NatLessThanWellFounded
  <1>2. \E x \in T : \A y \in T : ~(<<y, x>> \in R)
    BY <1>1, WFMin
  <1>3. \A x, y \in Nat : y < x => <<y, x>> \in R
    BY DEF OpToRel
  <1> HIDE DEF R
  <1>4. ASSUME NEW x \in T, NEW y \in T, ~(<<y, x>> \in R) PROVE x <= y
    BY <1>3, <1>4
  <1> QED BY <1>2, <1>4

LEMMA GreatestNat ==
  ASSUME NEW T \in SUBSET Nat, T # {}, NEW n \in Nat, \A x \in T : x < n
  PROVE  Max(T) \in T /\ \A x \in T : x <= Max(T)
  <1> DEFINE U == {b \in Nat : \A x \in T : x <= b}
  <1>1. n \in U
    OBVIOUS
  <1>2. PICK b \in U : \A c \in U : b <= c
    BY <1>1, LeastNat
  <1>3. b \in T
    <2> SUFFICES ASSUME b \notin T PROVE FALSE
      OBVIOUS
    <2>1. b \in Nat /\ \A x \in T : x \in Nat /\ x < b
      BY <1>2
    <2>2. b - 1 \in Nat
      <3>1. PICK x \in T : TRUE
        OBVIOUS
      <3> QED BY <2>1, <3>1
    <2>3. b - 1 \in U
      BY <2>1, <2>2
    <2> QED BY <1>2, <2>3
  <1>4. b \in T /\ \A x \in T : b >= x
    BY <1>2, <1>3
  <1> QED BY <1>4 DEF Max

(* The first row of a list, by sort number and id. *)
LEMMA FirstIsThere ==
  ASSUME NEW S \in SUBSET RuleRow, S # {}
  PROVE  First(S) \in S
  <1> DEFINE sorts == {r.sort : r \in S}
  <1>1. sorts \in SUBSET Nat /\ sorts # {}
    BY DEF RuleRow
  <1>2. PICK s \in sorts : \A y \in sorts : s <= y
    BY <1>1, LeastNat
  <1> DEFINE ids == {r.id : r \in {x \in S : x.sort = s}}
  <1>3. ids \in SUBSET Nat /\ ids # {}
    BY <1>2 DEF RuleRow
  <1>4. PICK i \in ids : \A y \in ids : i <= y
    BY <1>3, LeastNat
  <1>5. PICK r \in S : r.sort = s /\ r.id = i
    BY <1>4
  <1>6. ASSUME NEW q \in S PROVE Before(r, q)
    <2>1. q.sort \in sorts /\ q.sort \in Nat /\ r.sort \in Nat /\ q.id \in Nat
      BY DEF RuleRow
    <2>2. CASE q.sort = s
      <3>1. q.id \in ids
        BY <2>2
      <3> QED BY <2>2, <3>1, <1>4, <1>5 DEF Before
    <2>3. CASE q.sort # s
      BY <2>1, <2>3, <1>2, <1>5 DEF Before
    <2> QED BY <2>2, <2>3
  <1> QED BY <1>6 DEF First

--------------------------------------------------------------------------------
(* The tables                                                                  *)

LEMMA NextSortIsFree ==
  ASSUME NEW t \in RuleNames, Tidy(rules[t])
  PROVE  NextSort(t) \in Nat /\ NextSort(t) <= rules[t].lastId
  <1> DEFINE sorts == {r.sort : r \in rules[t].rows}
  <1>1. /\ rules[t].lastId \in Nat /\ sorts \in SUBSET Nat
        /\ \A x \in sorts : x < rules[t].lastId
    BY DEF Tidy, RuleTable, RuleRow
  <1>2. CASE rules[t].rows = {}
    BY <1>1, <1>2 DEF NextSort
  <1>3. CASE rules[t].rows # {}
    <2>1. Max(sorts) \in sorts
      BY <1>1, <1>3, GreatestNat
    <2>2. NextSort(t) = Max(sorts) + 1
      BY <1>3 DEF NextSort
    <2> HIDE DEF sorts
    <2>3. Max(sorts) \in Nat /\ Max(sorts) < rules[t].lastId
      BY <1>1, <2>1
    <2> QED BY <1>1, <2>2, <2>3
  <1> QED BY <1>2, <1>3

LEMMA InsertedRow ==
  ASSUME NEW old, Tidy(old), NEW t \in RuleNames, NEW row \in RuleRow,
         row.sort <= old.lastId
  PROVE  /\ Tidy(InsertRow(old, t, row)) /\ Follows(InsertRow(old, t, row), old)
         /\ t = "reasons" /\ row.key \in Reasons /\ Distinct(old.rows) =>
              Distinct(InsertRow(old, t, row).rows)
  <1> DEFINE new == InsertRow(old, t, row)
             r1 == [row EXCEPT !.id = old.lastId + 1]
  <1>1. /\ old.lastId \in Nat /\ old.rows \subseteq RuleRow
        /\ \A r \in old.rows : r.id \in Nat /\ r.sort \in Nat
    BY DEF Tidy, RuleTable, RuleRow
  <1>2. CASE new = old
    <2>1. Follows(old, old)
      BY <1>1 DEF Follows
    <2> QED BY <1>2, <2>1
  <1>3. CASE new # old
    <2>1. /\ new.rows = old.rows \cup {r1} /\ new.lastId = old.lastId + 1
          /\ new = [rows |-> old.rows \cup {r1}, lastId |-> old.lastId + 1]
          /\ t = "reasons" => OfKey(old.rows, row.key) = {}
      BY <1>3 DEF InsertRow
    <2>2. /\ r1 \in RuleRow /\ r1.id = old.lastId + 1 /\ r1.key = row.key
          /\ r1.sort = row.sort /\ r1.sort \in Nat
      BY <1>1 DEF RuleRow
    <2> HIDE DEF r1, new
    <2>3. Tidy(new)
      <3>1. new \in RuleTable
        BY <1>1, <2>1, <2>2 DEF RuleTable
      <3>2. \A r \in new.rows : r.id <= new.lastId /\ r.sort < new.lastId
        BY <1>1, <2>1, <2>2 DEF Tidy
      <3>3. \A r, q \in new.rows : r.id = q.id => r = q
        BY <1>1, <2>1, <2>2 DEF Tidy
      <3> QED BY <3>1, <3>2, <3>3 DEF Tidy
    <2>4. Follows(new, old)
      BY <1>1, <2>1, <2>2 DEF Follows
    <2>5. t = "reasons" => \A r \in old.rows : r.key # r1.key
      BY <2>1, <2>2 DEF OfKey
    <2>6. t = "reasons" /\ row.key \in Reasons /\ Distinct(old.rows) => Distinct(new.rows)
      BY <2>1, <2>2, <2>5 DEF Distinct
    <2> QED BY <2>3, <2>4, <2>6 DEF new
  <1> QED BY <1>2, <1>3

LEMMA WorkbookRows ==
  ASSUME NEW t \in {"exclusions", "colours"}
  PROVE  /\ Len(Workbook[t]) \in Nat /\ DOMAIN Workbook[t] = 1..Len(Workbook[t])
         /\ \A i \in 1..Len(Workbook[t]) : Workbook[t][i] \in
              [key : Patterns \cup Tasks, value : Values, enabled : BOOLEAN]
  <1> DEFINE S == [key : Patterns \cup Tasks, value : Values, enabled : BOOLEAN]
  <1>1. Workbook[t] \in Seq(S)
    BY WorkbookAssumption
  <1> HIDE DEF S
  <1>2. \A s \in Seq(S) : Len(s) \in Nat /\ DOMAIN s = 1..Len(s)
                          /\ \A i \in 1..Len(s) : s[i] \in S
    OBVIOUS
  <1> QED BY <1>1, <1>2 DEF S

LEMMA ReplacedRows ==
  ASSUME NEW old, Tidy(old), NEW t \in {"exclusions", "colours"}
  PROVE  Tidy(ReplaceRows(old, Workbook[t])) /\ Follows(ReplaceRows(old, Workbook[t]), old)
  <1> DEFINE found == Workbook[t]
             new == ReplaceRows(old, found)
             row(i) == [id |-> old.lastId + i, key |-> found[i].key,
                        value |-> found[i].value, enabled |-> found[i].enabled,
                        sort |-> i - 1]
  <1>1. old.lastId \in Nat
    BY DEF Tidy, RuleTable
  <1>2. /\ Len(found) \in Nat /\ DOMAIN found = 1..Len(found)
        /\ \A i \in 1..Len(found) :
             found[i] \in [key : Patterns \cup Tasks, value : Values, enabled : BOOLEAN]
    BY WorkbookRows
  <1>3. /\ new.rows = {row(i) : i \in 1..Len(found)}
        /\ new.lastId = old.lastId + Len(found)
        /\ new = [rows |-> new.rows, lastId |-> new.lastId]
    BY <1>2 DEF ReplaceRows
  <1>4. \A i \in 1..Len(found) : row(i) \in RuleRow
    BY <1>1, <1>2 DEF RuleRow
  <1>5. Tidy(new)
    <2>1. new.rows \subseteq RuleRow /\ new.lastId \in Nat
      BY <1>1, <1>2, <1>3, <1>4
    <2>2. new \in RuleTable
      BY <1>3, <2>1 DEF RuleTable
    <2>3. \A r \in new.rows : r.id <= new.lastId /\ r.sort < new.lastId
      BY <1>1, <1>2, <1>3
    <2>4. \A r, q \in new.rows : r.id = q.id => r = q
      BY <1>1, <1>2, <1>3, SMTT(30)
    <2> QED BY <2>2, <2>3, <2>4 DEF Tidy
  <1>6. Follows(new, old)
    BY <1>1, <1>2, <1>3 DEF Follows
  <1> QED BY <1>5, <1>6

(* An UPDATE of the rows of one id, or of one key, changes no id and no key. *)
LEMMA ChangedRows ==
  ASSUME NEW old, Tidy(old), NEW P \in SUBSET old.rows, NEW form \in Form, NEW new,
         new = [rows |-> {IF r \in P THEN Changed(r, form) ELSE r : r \in old.rows},
                lastId |-> old.lastId]
  PROVE  /\ Tidy(new) /\ Follows(new, old)
         /\ Distinct(old.rows) => Distinct(new.rows)
  <1> DEFINE after(r) == IF r \in P THEN Changed(r, form) ELSE r
  <1>1. /\ old = [rows |-> old.rows, lastId |-> old.lastId]
        /\ old.lastId \in Nat /\ old.rows \subseteq RuleRow
    BY DEF Tidy, RuleTable
  <1>2. /\ new.rows = {after(r) : r \in old.rows} /\ new.lastId = old.lastId
        /\ new = [rows |-> new.rows, lastId |-> new.lastId]
    BY <1>1
  <1>3. ASSUME NEW r \in old.rows
        PROVE  /\ after(r) \in RuleRow
               /\ after(r).id = r.id /\ after(r).key = r.key /\ after(r).sort = r.sort
    <2>1. r \in RuleRow
      BY <1>1
    <2> QED BY <2>1 DEF Changed, RuleRow, Form
  <1> HIDE DEF after
  <1>4. Tidy(new)
    <2>1. new \in RuleTable
      BY <1>1, <1>2, <1>3 DEF RuleTable
    <2>2. \A r \in new.rows : r.id <= new.lastId /\ r.sort < new.lastId
      BY <1>2, <1>3 DEF Tidy
    <2>3. \A r, q \in new.rows : r.id = q.id => r = q
      BY <1>2, <1>3 DEF Tidy
    <2> QED BY <2>1, <2>2, <2>3 DEF Tidy
  <1>5. Follows(new, old)
    BY <1>1, <1>2, <1>3 DEF Follows
  <1>6. ASSUME Distinct(old.rows) PROVE Distinct(new.rows)
    <2>1. ASSUME NEW r \in new.rows, NEW q \in new.rows, r.key = q.key
          PROVE  r = q
      <3>1. PICK x \in old.rows : r = after(x)
        BY <1>2
      <3>2. PICK y \in old.rows : q = after(y)
        BY <1>2
      <3>3. x.key = y.key
        BY ONLY <1>3, <2>1, <3>1, <3>2
      <3>4. x = y
        BY <1>6, <3>3 DEF Distinct
      <3> QED BY ONLY <3>1, <3>2, <3>4
    <2>2. \A r \in new.rows : r.key \in Reasons
      BY <1>2, <1>3, <1>6 DEF Distinct
    <2> QED BY <2>1, <2>2 DEF Distinct
  <1> QED BY <1>4, <1>5, <1>6

(* What edits remember outlives every change of the tables. *)
LEMMA EditsStayTrue ==
  ASSUME \A t \in RuleNames : Tidy(rules[t]) /\ Tidy(rules'[t]) /\ Follows(rules'[t], rules[t]),
         NEW e \in Edit, StillTrue(e), NEW f, f = e, NEW g, g = rules'
  PROVE  /\ f.phase = "update" =>
              /\ f.id <= g[f.of.table].lastId
              /\ \A r \in g[f.of.table].rows : r.id = f.id => r.key = f.of.key
         /\ f.phase = "insert" => f.sort <= g[f.of.table].lastId
  <1>1. CASE f.phase = "update"
    <2>1. f \in [phase : {"update"}, id : Nat, of : Form]
      BY <1>1 DEF Edit, Form
    <2>2. f.id \in Nat /\ f.of.table \in RuleNames
      BY <2>1 DEF Form
    <2> DEFINE old == rules[f.of.table]
               new == rules'[f.of.table]
    <2>3. old.lastId \in Nat /\ new.lastId \in Nat /\ new.rows \subseteq RuleRow
      BY <2>2 DEF Tidy, RuleTable
    <2>4. /\ new.lastId >= old.lastId
          /\ \A r \in new.rows :
               r.id > old.lastId \/ \E q \in old.rows : q.id = r.id /\ q.key = r.key
      BY <2>2 DEF Follows
    <2>5. f.id <= old.lastId /\ \A r \in old.rows : r.id = f.id => r.key = f.of.key
      BY <1>1 DEF StillTrue
    <2>6. \A r \in new.rows : r.id \in Nat
      BY <2>3 DEF RuleRow
    <2> HIDE DEF old
    <2>7. f.id <= new.lastId /\ \A r \in new.rows : r.id = f.id => r.key = f.of.key
      BY <2>2, <2>3, <2>4, <2>5, <2>6
    <2> QED BY <1>1, <2>7
  <1>2. CASE f.phase = "insert"
    <2>1. f \in [phase : {"insert"}, of : Form, sort : Nat]
      BY <1>2 DEF Edit, Form
    <2>2. f.sort \in Nat /\ f.of.table \in RuleNames
      BY <2>1 DEF Form
    <2>3. /\ f.sort <= rules[f.of.table].lastId
          /\ rules'[f.of.table].lastId >= rules[f.of.table].lastId
          /\ rules[f.of.table].lastId \in Nat /\ rules'[f.of.table].lastId \in Nat
      BY <1>2, <2>2 DEF StillTrue, Follows, Tidy, RuleTable
    <2> QED BY <1>2, <2>2, <2>3
  <1> QED BY <1>1, <1>2

--------------------------------------------------------------------------------
(* The invariant                                                               *)

ReadingsOK ==
  paint \in [Painters -> [step : 0..2, read : [{"colours", "reasons"} -> SUBSET RuleRow]]]

(* What a step has to show: the tables stay tidy and their ids keep their keys, *)
(* and the one edit it moves on remembers something true.                       *)
LEMMA InvFromTables ==
  ASSUME RuleInv,
         DOMAIN rules' = RuleNames, rules' = [t \in RuleNames |-> rules'[t]],
         \A t \in RuleNames : Tidy(rules'[t]) /\ Follows(rules'[t], rules[t]),
         Distinct(rules'["reasons"].rows), edit' \in [Admins -> Edit],
         \A a \in Admins : edit'[a] = edit[a] \/ StillTrue(edit[a])',
         edits' \in 0..MaxEdits, imports' \in 0..MaxImports,
         command' \in {"exclusions", "colours", "done"}, ReadingsOK'
  PROVE  RuleInv'
  <1>1. rules' \in [RuleNames -> RuleTable]
    BY DEF Tidy
  <1>2. \A e \in Edit : e.phase \in {"none", "find", "sort", "update", "insert"}
    BY DEF Edit, Form
  <1>3. RulesTyped'
    BY <1>1, <1>2 DEF RulesTyped, ReadingsOK
  <1>4. ASSUME NEW a \in Admins, edit'[a] = edit[a]
        PROVE  StillTrue(edit[a])'
    <2>1. edit[a] \in Edit /\ StillTrue(edit[a]) /\ \A t \in RuleNames : Tidy(rules[t])
      BY DEF RuleInv
    <2> QED BY <1>4, <2>1, EditsStayTrue DEF StillTrue
  <1> QED BY <1>3, <1>4 DEF RuleInv

LEMMA TablesStay ==
  ASSUME RuleInv, rules' = rules
  PROVE  /\ DOMAIN rules' = RuleNames /\ rules' = [t \in RuleNames |-> rules'[t]]
         /\ \A t \in RuleNames : Tidy(rules'[t]) /\ Follows(rules'[t], rules[t])
         /\ Distinct(rules'["reasons"].rows)
  <1>1. rules \in [RuleNames -> RuleTable]
    BY DEF RuleInv, RulesTyped
  <1>2. \A t \in RuleNames : Tidy(rules[t]) /\ rules[t].lastId \in Nat
    BY DEF RuleInv, Tidy, RuleTable
  <1>3. \A t \in RuleNames : Follows(rules[t], rules[t])
    BY <1>2 DEF Follows
  <1> QED BY <1>1, <1>2, <1>3 DEF RuleInv

(* One table replaced by a tidy one that follows it. *)
LEMMA OneTable ==
  ASSUME RuleInv, NEW t \in RuleNames, NEW new, Tidy(new), Follows(new, rules[t]),
         rules' = [rules EXCEPT ![t] = new],
         t = "reasons" => Distinct(new.rows)
  PROVE  /\ DOMAIN rules' = RuleNames /\ rules' = [u \in RuleNames |-> rules'[u]]
         /\ \A u \in RuleNames : Tidy(rules'[u]) /\ Follows(rules'[u], rules[u])
         /\ Distinct(rules'["reasons"].rows)
  <1>1. rules \in [RuleNames -> RuleTable]
    BY DEF RuleInv, RulesTyped
  <1>2. \A u \in RuleNames : Tidy(rules[u]) /\ rules[u].lastId \in Nat
    BY DEF RuleInv, Tidy, RuleTable
  <1>3. \A u \in RuleNames : Follows(rules[u], rules[u])
    BY <1>2 DEF Follows
  <1>4. rules'[t] = new /\ \A u \in RuleNames : u # t => rules'[u] = rules[u]
    BY <1>1
  <1>5. "reasons" \in RuleNames
    BY DEF RuleNames
  <1>6. Distinct(rules'["reasons"].rows)
    BY <1>4, <1>5 DEF RuleInv
  <1> QED BY <1>1, <1>2, <1>3, <1>4, <1>6

LEMMA InvTypes ==
  ASSUME RuleInv
  PROVE  /\ edit \in [Admins -> Edit] /\ edits \in 0..MaxEdits /\ imports \in 0..MaxImports
         /\ command \in {"exclusions", "colours", "done"} /\ ReadingsOK
         /\ \A t \in RuleNames : Tidy(rules[t]) /\ rules[t].rows \subseteq RuleRow
         /\ rules \in [RuleNames -> RuleTable]
  BY DEF RuleInv, RulesTyped, ReadingsOK, Tidy, RuleTable

LEMMA AskInv ==
  ASSUME RuleInv, NEW a \in Admins, Ask(a)
  PROVE  RuleInv'
  <1> DEFINE Asked(t, k, wanted, v) ==
               edit' = [edit EXCEPT ![a] = [phase |-> "find", table |-> t, key |-> k,
                                            wanted |-> wanted, value |-> v]]
             Offers(t) == IF t # "colours" THEN {Plain}
                          ELSE {r.key : r \in {x \in rules["reasons"].rows : x.enabled}}
  <1>a. PICK t \in RuleNames : \E k \in KeysOf(t), wanted \in {"add", "on", "off"} :
          \E v \in Offers(t) : Asked(t, k, wanted, v)
    BY DEF Ask
  <1>b. PICK k \in KeysOf(t), wanted \in {"add", "on", "off"} :
          \E v \in Offers(t) : Asked(t, k, wanted, v)
    BY <1>a
  <1>1. PICK v \in Offers(t) : Asked(t, k, wanted, v)
    BY <1>b
  <1> DEFINE e == [phase |-> "find", table |-> t, key |-> k, wanted |-> wanted, value |-> v]
  <1>2. KeysOf(t) \subseteq AnyKey /\ (t = "reasons" => KeysOf(t) = Reasons)
    BY DEF KeysOf, AnyKey, RuleNames
  <1>3. v \in Values
    <2>1. CASE t # "colours"
      BY <2>1 DEF Values
    <2>2. CASE t = "colours"
      <3>1. PICK r \in rules["reasons"].rows : v = r.key
        BY <2>2
      <3>2. r.key \in Values
        BY DEF RuleInv, Distinct, Values
      <3> QED BY <3>1, <3>2
    <2> QED BY <2>1, <2>2
  <1>4. e \in Form
    BY <1>2, <1>3 DEF Form
  <1>5. edit' \in [Admins -> Edit] /\ edit'[a] = e
        /\ \A b \in Admins : b # a => edit'[b] = edit[b]
    BY <1>1, <1>4, InvTypes DEF Edit
  <1>6. StillTrue(edit[a])'
    BY <1>5 DEF StillTrue
  <1>7. rules' = rules /\ edits' \in 0..MaxEdits /\ imports' = imports
        /\ command' = command /\ paint' = paint
    BY InvTypes DEF Ask
  <1> QED BY <1>5, <1>6, <1>7, TablesStay, InvTypes, InvFromTables DEF ReadingsOK

LEMMA FindInv ==
  ASSUME RuleInv, NEW a \in Admins, Find(a)
  PROVE  RuleInv'
  <1> DEFINE e == edit[a]
             rows == rules[e.table].rows
             same == OfKey(rows, e.key)
  <1>1. e \in Form /\ e.table \in RuleNames
    BY InvTypes DEF Find, Edit, Form
  <1>2. rows \subseteq RuleRow /\ rules[e.table].lastId \in Nat /\ Tidy(rules[e.table])
    BY <1>1, InvTypes DEF Tidy, RuleTable
  <1>3. /\ rules' = rules /\ edits' = edits /\ imports' = imports
        /\ command' = command /\ paint' = paint
    BY DEF Find
  <1> DEFINE next == IF Raises(e.table, e.key) THEN [phase |-> "none"]
                     ELSE IF same # {} THEN [phase |-> "update", id |-> First(same).id, of |-> e]
                     ELSE IF e.wanted = "add" THEN [phase |-> "sort", of |-> e]
                     ELSE [phase |-> "none"]
  <1>4. edit' = [edit EXCEPT ![a] = next]
    BY DEF Find
  <1>5. CASE same # {} /\ ~Raises(e.table, e.key)
    <2>1. First(same) \in same
      BY <1>2, <1>5, FirstIsThere DEF OfKey
    <2>2. First(same) \in rows /\ First(same).key = e.key
      BY <2>1 DEF OfKey
    <2>3. First(same).id \in Nat /\ First(same).id <= rules[e.table].lastId
      BY <1>2, <2>2 DEF Tidy, RuleRow
    <2>4. \A r \in rows : r.id = First(same).id => r.key = e.key
      BY <1>2, <2>2 DEF Tidy
    <2>5. next = [phase |-> "update", id |-> First(same).id, of |-> e]
      BY <1>5
    <2> HIDE DEF next
    <2>6. next \in Edit
      BY <1>1, <2>3, <2>5 DEF Edit
    <2>7. edit' \in [Admins -> Edit] /\ edit'[a] = next
          /\ \A b \in Admins : b # a => edit'[b] = edit[b]
      BY <1>4, <2>6, InvTypes
    <2>8. StillTrue(edit[a])'
      BY <1>3, <2>3, <2>4, <2>5, <2>7 DEF StillTrue
    <2> QED BY <1>3, <2>7, <2>8, TablesStay, InvTypes, InvFromTables DEF ReadingsOK
  <1>6. CASE same = {} \/ Raises(e.table, e.key)
    <2>1. next \in {[phase |-> "sort", of |-> e], [phase |-> "none"]}
      BY <1>6
    <2> HIDE DEF next
    <2>2. next \in Edit /\ next.phase # "update" /\ next.phase # "insert"
      BY <1>1, <2>1 DEF Edit
    <2>3. edit' \in [Admins -> Edit] /\ edit'[a] = next
          /\ \A b \in Admins : b # a => edit'[b] = edit[b]
      BY <1>4, <2>2, InvTypes
    <2>4. StillTrue(edit[a])'
      BY <2>2, <2>3 DEF StillTrue
    <2> QED BY <1>3, <2>3, <2>4, TablesStay, InvTypes, InvFromTables DEF ReadingsOK
  <1> QED BY <1>5, <1>6

LEMMA ReadSortInv ==
  ASSUME RuleInv, NEW a \in Admins, ReadSort(a)
  PROVE  RuleInv'
  <1> DEFINE f == edit[a].of
             next == [phase |-> "insert", of |-> f, sort |-> NextSort(f.table)]
  <1>1. f \in Form /\ f.table \in RuleNames
    BY InvTypes DEF ReadSort, Edit, Form
  <1>2. NextSort(f.table) \in Nat /\ NextSort(f.table) <= rules[f.table].lastId
    BY <1>1, InvTypes, NextSortIsFree
  <1>3. /\ rules' = rules /\ edits' = edits /\ imports' = imports
        /\ command' = command /\ paint' = paint /\ edit' = [edit EXCEPT ![a] = next]
    BY DEF ReadSort
  <1>4. next \in Edit
    BY <1>1, <1>2 DEF Edit
  <1>5. edit' \in [Admins -> Edit] /\ edit'[a] = next
        /\ \A b \in Admins : b # a => edit'[b] = edit[b]
    BY <1>3, <1>4, InvTypes
  <1>6. StillTrue(edit[a])'
    BY <1>2, <1>3, <1>5 DEF StillTrue
  <1> QED BY <1>3, <1>5, <1>6, TablesStay, InvTypes, InvFromTables DEF ReadingsOK

(* The edit is over, and one table follows its old state. *)
LEMMA EditDoneInv ==
  ASSUME RuleInv, NEW a \in Admins, NEW t \in RuleNames, NEW new,
         Tidy(new), Follows(new, rules[t]), t = "reasons" => Distinct(new.rows),
         rules' = [rules EXCEPT ![t] = new],
         edit' = [edit EXCEPT ![a] = [phase |-> "none"]],
         UNCHANGED <<edits, command, imports, paint>>
  PROVE  RuleInv'
  <1>1. [phase |-> "none"] \in Edit
    BY DEF Edit
  <1>2. edit' \in [Admins -> Edit] /\ edit'[a] = [phase |-> "none"]
        /\ \A b \in Admins : b # a => edit'[b] = edit[b]
    BY <1>1, InvTypes
  <1>3. StillTrue(edit[a])'
    BY <1>2 DEF StillTrue
  <1> QED BY <1>2, <1>3, OneTable, InvTypes, InvFromTables DEF ReadingsOK

LEMMA UpdateInv ==
  ASSUME RuleInv, NEW a \in Admins, UpdateFound(a)
  PROVE  RuleInv'
  <1> DEFINE f == edit[a].of
             old == rules[f.table]
             after == {IF r.id = edit[a].id THEN Changed(r, f) ELSE r : r \in old.rows}
             P == {r \in old.rows : r.id = edit[a].id}
             new == [rows |-> after, lastId |-> old.lastId]
  <1>1. f \in Form /\ f.table \in RuleNames /\ Tidy(old)
    BY InvTypes DEF UpdateFound, Edit, Form
  <1>2. /\ rules' = [rules EXCEPT ![f.table].rows = after]
        /\ edit' = [edit EXCEPT ![a] = [phase |-> "none"]]
        /\ UNCHANGED <<edits, command, imports, paint>>
    BY DEF UpdateFound
  <1>3. after = {IF r \in P THEN Changed(r, f) ELSE r : r \in old.rows}
    OBVIOUS
  <1> HIDE DEF after
  <1>4. rules' = [rules EXCEPT ![f.table] = new]
    <2>1. old = [rows |-> old.rows, lastId |-> old.lastId]
      BY <1>1 DEF Tidy, RuleTable
    <2>2. [old EXCEPT !.rows = after] = new
      BY <2>1
    <2>3. rules' = [rules EXCEPT ![f.table] = [old EXCEPT !.rows = after]]
      BY <1>2
    <2> QED BY <2>2, <2>3
  <1>5. Tidy(new) /\ Follows(new, old) /\ (Distinct(old.rows) => Distinct(new.rows))
    <2>1. P \in SUBSET old.rows
      OBVIOUS
    <2> HIDE DEF P, old, f
    <2> QED BY <1>1, <1>3, <2>1, ChangedRows
  <1>6. f.table = "reasons" => Distinct(new.rows)
    BY <1>5 DEF RuleInv
  <1> QED BY <1>1, <1>2, <1>4, <1>5, <1>6, EditDoneInv

LEMMA SwitchInv ==
  ASSUME RuleInv, NEW a \in Admins, SwitchReason(a)
  PROVE  RuleInv'
  <1> DEFINE f == edit[a]
             old == rules["reasons"]
             after == {IF r.key = edit[a].key THEN Changed(r, f) ELSE r : r \in old.rows}
             P == {r \in old.rows : r.key = edit[a].key}
             new == [rows |-> after, lastId |-> old.lastId]
  <1>1. f \in Form /\ "reasons" \in RuleNames /\ Tidy(old)
    BY InvTypes DEF SwitchReason, Edit, RuleNames
  <1>2. /\ rules' = [rules EXCEPT !["reasons"].rows = after]
        /\ edit' = [edit EXCEPT ![a] = [phase |-> "none"]]
        /\ UNCHANGED <<edits, command, imports, paint>>
    BY DEF SwitchReason
  <1>3. after = {IF r \in P THEN Changed(r, f) ELSE r : r \in old.rows}
    OBVIOUS
  <1> HIDE DEF after
  <1>4. rules' = [rules EXCEPT !["reasons"] = new]
    <2>1. old = [rows |-> old.rows, lastId |-> old.lastId]
      BY <1>1 DEF Tidy, RuleTable
    <2>2. [old EXCEPT !.rows = after] = new
      BY <2>1
    <2>3. rules' = [rules EXCEPT !["reasons"] = [old EXCEPT !.rows = after]]
      BY <1>2
    <2> QED BY <2>2, <2>3
  <1>5. Tidy(new) /\ Follows(new, old) /\ (Distinct(old.rows) => Distinct(new.rows))
    <2>1. P \in SUBSET old.rows
      OBVIOUS
    <2> HIDE DEF P, old, f
    <2> QED BY <1>1, <1>3, <2>1, ChangedRows, SMTT(30)
  <1>6. Distinct(new.rows)
    BY <1>5 DEF RuleInv
  <1> QED BY <1>1, <1>2, <1>4, <1>5, <1>6, EditDoneInv

LEMMA InsertInv ==
  ASSUME RuleInv, NEW a \in Admins, InsertNew(a)
  PROVE  RuleInv'
  <1> DEFINE f == edit[a].of
             old == rules[f.table]
             row == [id |-> 0, key |-> f.key, value |-> f.value, enabled |-> TRUE,
                     sort |-> edit[a].sort]
             new == InsertRow(old, f.table, row)
  <1>1. edit[a] \in [phase : {"insert"}, of : Form, sort : Nat]
    BY InvTypes DEF InsertNew, Edit, Form
  <1>2. f \in Form /\ f.table \in RuleNames /\ Tidy(old) /\ edit[a].sort <= old.lastId
        /\ row \in RuleRow /\ (f.table = "reasons" => row.key \in Reasons)
    BY <1>1, InvTypes DEF RuleInv, StillTrue, Form, RuleRow, AnyKey
  <1>3. /\ rules' = [rules EXCEPT ![f.table] = new]
        /\ edit' = [edit EXCEPT ![a] = [phase |-> "none"]]
        /\ UNCHANGED <<edits, command, imports, paint>>
    BY DEF InsertNew
  <1> HIDE DEF row
  <1>4. /\ Tidy(new) /\ Follows(new, old)
        /\ f.table = "reasons" /\ row.key \in Reasons /\ Distinct(old.rows) => Distinct(new.rows)
    BY <1>2, InsertedRow DEF row
  <1>5. f.table = "reasons" => Distinct(new.rows)
    BY <1>2, <1>4 DEF RuleInv
  <1> QED BY <1>2, <1>3, <1>4, <1>5, EditDoneInv

LEMMA CommandInv ==
  ASSUME RuleInv, StartImportRules \/ ReplaceNext \/ StopImportRules
  PROVE  RuleInv'
  <1>1. CASE StartImportRules \/ StopImportRules
    <2>1. /\ rules' = rules /\ edit' = edit /\ edits' = edits /\ paint' = paint
          /\ imports' \in 0..MaxImports /\ command' \in {"exclusions", "colours", "done"}
      BY <1>1, InvTypes DEF StartImportRules, StopImportRules
    <2> QED BY <2>1, TablesStay, InvTypes, InvFromTables DEF ReadingsOK
  <1>2. CASE ReplaceNext
    <2>1. /\ rules' = [rules EXCEPT ![command] = ReplaceRows(rules[command], Workbook[command])]
          /\ command \in {"exclusions", "colours"} /\ command \in RuleNames
          /\ command' \in {"exclusions", "colours", "done"}
          /\ edit' = edit /\ edits' = edits /\ imports' = imports /\ paint' = paint
      BY <1>2, InvTypes DEF ReplaceNext, RuleNames
    <2> DEFINE new == ReplaceRows(rules[command], Workbook[command])
    <2>2. Tidy(new) /\ Follows(new, rules[command])
      BY <2>1, InvTypes, ReplacedRows
    <2>3. command # "reasons"
      BY <2>1
    <2> HIDE DEF new
    <2>4. rules' = [rules EXCEPT ![command] = new]
      BY <2>1 DEF new
    <2> QED BY <2>1, <2>2, <2>3, <2>4, OneTable, InvTypes, InvFromTables DEF ReadingsOK
  <1> QED BY <1>1, <1>2

LEMMA ReadTableInv ==
  ASSUME RuleInv, NEW w \in Painters, ReadTable(w)
  PROVE  RuleInv'
  <1>1. ReadOrder = <<"colours", "reasons">> /\ Len(ReadOrder) = 2
    BY DEF ReadOrder
  <1>2. paint[w] \in [step : 0..2, read : [{"colours", "reasons"} -> SUBSET RuleRow]]
    BY InvTypes DEF ReadingsOK
  <1>3. paint[w].step \in {0, 1}
    BY <1>1, <1>2 DEF ReadTable
  <1> DEFINE t == ReadOrder[paint[w].step + 1]
  <1>4. t \in {"colours", "reasons"} /\ t \in RuleNames
    BY <1>1, <1>3 DEF RuleNames
  <1>5. rules[t].rows \in SUBSET RuleRow
    BY <1>4, InvTypes
  <1>6. /\ rules' = rules /\ edit' = edit /\ edits' = edits /\ imports' = imports
        /\ command' = command
        /\ paint' = [paint EXCEPT ![w].step = @ + 1, ![w].read[t] = rules[t].rows]
    BY DEF ReadTable
  <1> HIDE DEF t
  <1>7. ReadingsOK'
    <2> DEFINE Shelf == [{"colours", "reasons"} -> SUBSET RuleRow]
               mine == [step |-> paint[w].step + 1,
                        read |-> [paint[w].read EXCEPT ![t] = rules[t].rows]]
    <2>1. paint[w] = [step |-> paint[w].step, read |-> paint[w].read] /\ paint[w].read \in Shelf
      BY <1>2
    <2>2. /\ paint'[w] = mine
          /\ \A v \in Painters : v # w => paint'[v] = paint[v]
          /\ paint' = [v \in Painters |-> paint'[v]]
      <3> DEFINE one == [paint EXCEPT ![w].step = @ + 1]
      <3>1. /\ one[w] = [step |-> paint[w].step + 1, read |-> paint[w].read]
            /\ \A v \in Painters : v # w => one[v] = paint[v]
            /\ one = [v \in Painters |-> one[v]]
        BY <2>1, InvTypes DEF ReadingsOK
      <3>2. paint' = [one EXCEPT ![w].read[t] = rules[t].rows]
        BY <1>6
      <3> HIDE DEF one
      <3> QED BY <3>1, <3>2
    <2>3. [paint[w].read EXCEPT ![t] = rules[t].rows] \in Shelf
      BY <1>4, <1>5, <2>1
    <2> HIDE DEF Shelf
    <2>4. mine \in [step : 0..2, read : Shelf]
      BY <1>3, <2>3
    <2> HIDE DEF mine
    <2>5. paint' \in [Painters -> [step : 0..2, read : Shelf]]
      BY <2>2, <2>4, InvTypes DEF ReadingsOK, Shelf
    <2> QED BY <2>5 DEF ReadingsOK, Shelf
  <1> QED BY <1>6, <1>7, TablesStay, InvTypes, InvFromTables

LEMMA RulesInitInv == RulesInit => RuleInv
  <1> SUFFICES ASSUME RulesInit PROVE RuleInv
    OBVIOUS
  <1> DEFINE n == Cardinality(Seeded)
  <1>1. n \in Nat
    BY FS_CardinalityType
  <1>2. PICK nth \in [Seeded -> 1..n] :
          /\ \A k, l \in Seeded : nth[k] = nth[l] => k = l
          /\ rules = [t \in RuleNames |->
               IF t # "reasons" THEN [rows |-> {}, lastId |-> 0]
               ELSE [rows |-> {[id |-> nth[k], key |-> k, value |-> Plain, enabled |-> TRUE,
                                sort |-> nth[k] - 1] : k \in Seeded},
                     lastId |-> n]]
    BY DEF RulesInit
  <1> HIDE DEF n
  <1> DEFINE row(k) == [id |-> nth[k], key |-> k, value |-> Plain, enabled |-> TRUE,
                        sort |-> nth[k] - 1]
             seeds == {row(k) : k \in Seeded}
  <1>3. /\ rules["reasons"] = [rows |-> seeds, lastId |-> n]
        /\ \A t \in RuleNames : t # "reasons" => rules[t] = [rows |-> {}, lastId |-> 0]
        /\ DOMAIN rules = RuleNames /\ rules = [t \in RuleNames |-> rules[t]]
    BY <1>2 DEF RuleNames
  <1>4. ASSUME NEW k \in Seeded
        PROVE  /\ row(k).id = nth[k] /\ row(k).key = k /\ row(k).sort = nth[k] - 1
               /\ nth[k] \in Nat /\ nth[k] <= n /\ nth[k] - 1 < n /\ row(k) \in RuleRow
    <2>1. nth[k] \in Nat /\ nth[k] - 1 \in Nat /\ nth[k] <= n /\ nth[k] - 1 < n
      BY <1>1, <1>2
    <2>2. k \in Reasons /\ Plain \in Values
      BY DEF Values
    <2> QED BY <2>1, <2>2 DEF RuleRow
  <1> HIDE DEF row
  <1>5. seeds \subseteq RuleRow
    BY <1>4
  <1>6. Tidy([rows |-> seeds, lastId |-> n])
    <2>1. \A r \in seeds : r.id <= n /\ r.sort < n
      BY <1>4
    <2>2. \A r, q \in seeds : r.id = q.id => r = q
      BY <1>2, <1>4
    <2>3. [rows |-> seeds, lastId |-> n] \in RuleTable
      BY <1>1, <1>5 DEF RuleTable
    <2> HIDE DEF seeds
    <2> QED BY <2>1, <2>2, <2>3 DEF Tidy
  <1>7. Tidy([rows |-> {}, lastId |-> 0])
    BY DEF Tidy, RuleTable
  <1>8. \A t \in RuleNames : Tidy(rules[t])
    BY <1>3, <1>6, <1>7
  <1>9. Distinct(seeds)
    BY <1>4 DEF Distinct
  <1>10. /\ edit = [a \in Admins |-> [phase |-> "none"]]
         /\ edits = 0 /\ command = "done" /\ imports = 0
         /\ paint = [w \in Painters |->
               [step |-> 0, read |-> [t \in {"colours", "reasons"} |-> {}]]]
    BY DEF RulesInit
  <1>11. rules \in [RuleNames -> RuleTable]
    BY <1>3, <1>8 DEF Tidy
  <1>12. RulesTyped
    BY <1>10, <1>11 DEF RulesTyped
  <1>13. edit \in [Admins -> Edit] /\ \A a \in Admins : StillTrue(edit[a])
    BY <1>10 DEF Edit, StillTrue
  <1> QED BY <1>3, <1>8, <1>9, <1>12, <1>13 DEF RuleInv

LEMMA RulesStepInv == RuleInv /\ [RulesNext]_ruleVars => RuleInv'
  <1> SUFFICES ASSUME RuleInv, [RulesNext]_ruleVars PROVE RuleInv'
    OBVIOUS
  <1>1. CASE UNCHANGED ruleVars
    <2>1. /\ rules' = rules /\ edit' = edit /\ edits' = edits /\ imports' = imports
          /\ command' = command /\ paint' = paint
      BY <1>1 DEF ruleVars
    <2> QED BY <2>1, TablesStay, InvTypes, InvFromTables DEF ReadingsOK
  <1> QED BY <1>1, AskInv, FindInv, ReadSortInv, UpdateInv, InsertInv, SwitchInv,
             CommandInv, ReadTableInv DEF RulesNext

(* The inductive invariant holds of every reachable state: ids are handed out   *)
(* once and never move to another key, and reasons have a row each (rules.py).  *)
THEOREM RuleInvariance == RulesSpec => []RuleInv
  <1> QED BY RulesInitInv, RulesStepInv, PTL DEF RulesSpec

--------------------------------------------------------------------------------
(* Reasons are never deleted                                                   *)

Entered(v) == \E n \in DOMAIN Workbook["colours"] : v = Workbook["colours"][n].value
HasKey(rows, v) == \E q \in rows : q.key = v
FormOf(e) == IF e.phase = "find" THEN e ELSE e.of

(* A form for a colour asks for a reason there is. *)
Registered(e, reasons) ==
  e.phase # "none" /\ FormOf(e).table = "colours" => HasKey(reasons, FormOf(e).value)

(* Every colour, asked for, stored or read, is entered by the workbook or has a *)
(* reason there is; a calculation that has read the reasons too has read it.    *)
OfferInv ==
  /\ \A r \in rules["colours"].rows :
       Entered(r.value) \/ HasKey(rules["reasons"].rows, r.value)
  /\ \A a \in Admins : Registered(edit[a], rules["reasons"].rows)
  /\ \A w \in Painters : \A r \in paint[w].read["colours"] :
       \/ Entered(r.value)
       \/ /\ HasKey(rules["reasons"].rows, r.value)
          /\ paint[w].step = 2 => HasKey(paint[w].read["reasons"], r.value)

(* What a step of an administrator or of the import has to show. *)
LEMMA OfferFromTables ==
  ASSUME OfferInv,
         \A v : HasKey(rules["reasons"].rows, v) => HasKey(rules'["reasons"].rows, v),
         \A r \in rules'["colours"].rows :
           Entered(r.value) \/ HasKey(rules["reasons"].rows, r.value),
         \A a \in Admins : \/ edit'[a] = edit[a]
                           \/ Registered(edit'[a], rules["reasons"].rows),
         paint' = paint
  PROVE  OfferInv'
  <1>1. \A r \in rules'["colours"].rows :
          Entered(r.value) \/ HasKey(rules'["reasons"].rows, r.value)
    OBVIOUS
  <1>2. \A a \in Admins : Registered(edit'[a], rules'["reasons"].rows)
    BY DEF OfferInv, Registered
  <1>3. \A w \in Painters : \A r \in paint'[w].read["colours"] :
          \/ Entered(r.value)
          \/ /\ HasKey(rules'["reasons"].rows, r.value)
             /\ paint'[w].step = 2 => HasKey(paint'[w].read["reasons"], r.value)
    BY DEF OfferInv
  <1> HIDE DEF Registered, HasKey
  <1> QED BY <1>1, <1>2, <1>3 DEF OfferInv, Registered, HasKey, FormOf

(* The requests that change no table. *)
LEMMA LookedUpOffer ==
  ASSUME RuleInv, OfferInv, NEW a \in Admins, Ask(a) \/ Find(a) \/ ReadSort(a)
  PROVE  OfferInv'
  <1>1. rules' = rules /\ paint' = paint
    BY DEF Ask, Find, ReadSort
  <1>2. edit \in [Admins -> Edit]
    BY InvTypes
  <1>3. (\A b \in Admins : b # a => edit'[b] = edit[b])
        /\ Registered(edit'[a], rules["reasons"].rows)
    <2>1. CASE Ask(a)
      <3>1. PICK t \in RuleNames, k \in UNION {Patterns, Tasks, Reasons},
                 wanted \in {"add", "on", "off"} :
              \E v \in IF t # "colours" THEN {Plain}
                       ELSE {r.key : r \in {x \in rules["reasons"].rows : x.enabled}} :
                edit' = [edit EXCEPT ![a] = [phase |-> "find", table |-> t, key |-> k,
                                             wanted |-> wanted, value |-> v]]
        BY <2>1 DEF Ask, KeysOf, RuleNames
      <3>2. PICK v \in IF t # "colours" THEN {Plain}
                       ELSE {r.key : r \in {x \in rules["reasons"].rows : x.enabled}} :
                edit' = [edit EXCEPT ![a] = [phase |-> "find", table |-> t, key |-> k,
                                             wanted |-> wanted, value |-> v]]
        BY <3>1
      <3>3. edit'[a] = [phase |-> "find", table |-> t, key |-> k,
                        wanted |-> wanted, value |-> v]
            /\ \A b \in Admins : b # a => edit'[b] = edit[b]
        BY <1>2, <3>2
      <3>4. t = "colours" => HasKey(rules["reasons"].rows, v)
        BY <3>2 DEF HasKey
      <3> QED BY <3>3, <3>4 DEF Registered, FormOf
    <2>2. CASE Find(a)
      <3>1. \/ edit'[a].phase = "none"
            \/ edit'[a].phase \in {"update", "sort"} /\ edit'[a].of = edit[a]
        BY <1>2, <2>2 DEF Find
      <3>2. \A b \in Admins : b # a => edit'[b] = edit[b]
        BY <1>2, <2>2 DEF Find
      <3>3. Registered(edit[a], rules["reasons"].rows) /\ edit[a].phase = "find"
        BY <2>2 DEF OfferInv, Find
      <3> QED BY <3>1, <3>2, <3>3 DEF Registered, FormOf
    <2>3. CASE ReadSort(a)
      <3>1. edit'[a].phase = "insert" /\ edit'[a].of = edit[a].of
        BY <1>2, <2>3 DEF ReadSort
      <3>2. \A b \in Admins : b # a => edit'[b] = edit[b]
        BY <1>2, <2>3 DEF ReadSort
      <3>3. Registered(edit[a], rules["reasons"].rows) /\ edit[a].phase = "sort"
        BY <2>3 DEF OfferInv, ReadSort
      <3> QED BY <3>1, <3>2, <3>3 DEF Registered, FormOf
    <2> QED BY <2>1, <2>2, <2>3
  <1>4. \A r \in rules'["colours"].rows :
          Entered(r.value) \/ HasKey(rules["reasons"].rows, r.value)
    BY <1>1 DEF OfferInv
  <1> QED BY <1>1, <1>3, <1>4, OfferFromTables

(* The requests that write a row: an update keeps its key, an insert adds one. *)
LEMMA EditedOffer ==
  ASSUME RuleInv, OfferInv, NEW a \in Admins, NEW f \in Form, NEW after,
         rules' = [rules EXCEPT ![f.table] = after],
         f.table = "colours" => HasKey(rules["reasons"].rows, f.value),
         f.table = "reasons" =>
           \A v : HasKey(rules["reasons"].rows, v) => HasKey(after.rows, v),
         \A r \in after.rows : r.value = f.value
                               \/ \E q \in rules[f.table].rows : q.value = r.value,
         edit' = [edit EXCEPT ![a] = [phase |-> "none"]], paint' = paint
  PROVE  OfferInv'
  <1>1. /\ rules \in [RuleNames -> RuleTable] /\ edit \in [Admins -> Edit]
        /\ f.table \in RuleNames /\ "colours" \in RuleNames /\ "reasons" \in RuleNames
    BY InvTypes DEF Form, RuleNames
  <1>2. rules'[f.table] = after /\ \A t \in RuleNames : t # f.table => rules'[t] = rules[t]
    BY <1>1
  <1>3. \A v : HasKey(rules["reasons"].rows, v) => HasKey(rules'["reasons"].rows, v)
    BY <1>1, <1>2
  <1>4. ASSUME NEW r \in rules'["colours"].rows
        PROVE  Entered(r.value) \/ HasKey(rules["reasons"].rows, r.value)
    <2>1. \A q \in rules["colours"].rows :
            Entered(q.value) \/ HasKey(rules["reasons"].rows, q.value)
      BY DEF OfferInv
    <2>2. CASE f.table = "colours"
      <3>1. r \in after.rows
        BY <1>2, <2>2
      <3>2. CASE r.value = f.value
        BY <2>2, <3>2
      <3>3. CASE \E q \in rules[f.table].rows : q.value = r.value
        <4>1. PICK q \in rules["colours"].rows : q.value = r.value
          BY <2>2, <3>3
        <4> QED BY <2>1, <4>1
      <3> QED BY <3>1, <3>2, <3>3
    <2>3. CASE f.table # "colours"
      BY <1>1, <1>2, <2>1, <2>3
    <2> QED BY <2>2, <2>3
  <1>5. \A b \in Admins : \/ edit'[b] = edit[b]
                          \/ Registered(edit'[b], rules["reasons"].rows)
    BY <1>1 DEF Registered
  <1> QED BY <1>3, <1>4, <1>5, OfferFromTables

(* An UPDATE keeps the key of a row, and its value stays or is the form's. *)
LEMMA ChangedRow ==
  ASSUME NEW r \in RuleRow, NEW f
  PROVE  Changed(r, f).key = r.key /\ Changed(r, f).value \in {f.value, r.value}
  BY DEF Changed, RuleRow

LEMMA UpdateOffer ==
  ASSUME RuleInv, OfferInv, NEW a \in Admins, UpdateFound(a)
  PROVE  OfferInv'
  <1> DEFINE f == edit[a].of
             old == rules[f.table]
             rows == {IF r.id = edit[a].id THEN Changed(r, f) ELSE r : r \in old.rows}
             new == [rows |-> rows, lastId |-> old.lastId]
  <1>1. f \in Form /\ f.table \in RuleNames
    BY InvTypes DEF UpdateFound, Edit, Form
  <1>2. old.rows \subseteq RuleRow /\ Tidy(old)
    BY <1>1, InvTypes
  <1>3. /\ rules' = [rules EXCEPT ![f.table].rows = rows]
        /\ edit' = [edit EXCEPT ![a] = [phase |-> "none"]] /\ paint' = paint
    BY DEF UpdateFound
  <1>4. /\ \A v : HasKey(old.rows, v) => HasKey(rows, v)
        /\ \A r \in rows : r.value = f.value \/ \E q \in old.rows : q.value = r.value
    BY <1>2, ChangedRow DEF HasKey
  <1>5. f.table = "colours" => HasKey(rules["reasons"].rows, f.value)
    BY DEF OfferInv, Registered, FormOf, UpdateFound
  <1> HIDE DEF rows
  <1>6. rules' = [rules EXCEPT ![f.table] = new]
    <2>1. old = [rows |-> old.rows, lastId |-> old.lastId]
      BY <1>2 DEF Tidy, RuleTable
    <2>2. [old EXCEPT !.rows = rows] = new
      BY <2>1
    <2>3. rules' = [rules EXCEPT ![f.table] = [old EXCEPT !.rows = rows]]
      BY <1>3
    <2> QED BY <2>2, <2>3
  <1>7. /\ \A v : HasKey(old.rows, v) => HasKey(new.rows, v)
        /\ \A r \in new.rows : r.value = f.value \/ \E q \in old.rows : q.value = r.value
    BY <1>4
  <1>8. f.table = "reasons" => \A v : HasKey(rules["reasons"].rows, v) => HasKey(new.rows, v)
    BY <1>7
  <1> HIDE DEF new
  <1> QED BY <1>1, <1>3, <1>5, <1>6, <1>7, <1>8, EditedOffer

LEMMA SwitchOffer ==
  ASSUME RuleInv, OfferInv, NEW a \in Admins, SwitchReason(a)
  PROVE  OfferInv'
  <1> DEFINE f == edit[a]
             old == rules["reasons"]
             rows == {IF r.key = edit[a].key THEN Changed(r, f) ELSE r : r \in old.rows}
             new == [rows |-> rows, lastId |-> old.lastId]
  <1>1. f \in Form /\ f.table = "reasons" /\ "reasons" \in RuleNames
    BY InvTypes DEF SwitchReason, Edit, RuleNames
  <1>2. old.rows \subseteq RuleRow /\ Tidy(old)
    BY <1>1, InvTypes
  <1>3. /\ rules' = [rules EXCEPT !["reasons"].rows = rows]
        /\ edit' = [edit EXCEPT ![a] = [phase |-> "none"]] /\ paint' = paint
    BY DEF SwitchReason
  <1>4. /\ \A v : HasKey(old.rows, v) => HasKey(rows, v)
        /\ \A r \in rows : r.value = f.value \/ \E q \in old.rows : q.value = r.value
    BY <1>2, ChangedRow DEF HasKey
  <1> HIDE DEF rows
  <1>5. rules' = [rules EXCEPT ![f.table] = new]
    <2>1. old = [rows |-> old.rows, lastId |-> old.lastId]
      BY <1>2 DEF Tidy, RuleTable
    <2>2. [old EXCEPT !.rows = rows] = new
      BY <2>1
    <2>3. rules' = [rules EXCEPT !["reasons"] = [old EXCEPT !.rows = rows]]
      BY <1>3
    <2> QED BY <1>1, <2>2, <2>3
  <1>6. /\ \A v : HasKey(old.rows, v) => HasKey(new.rows, v)
        /\ \A r \in new.rows : r.value = f.value \/ \E q \in old.rows : q.value = r.value
    BY <1>4
  <1>7. \A r \in new.rows : r.value = f.value \/ \E q \in rules[f.table].rows : q.value = r.value
    BY <1>1, <1>6
  <1>8. f.table = "colours" => HasKey(rules["reasons"].rows, f.value)
    BY <1>1
  <1>9. f.table = "reasons" => \A v : HasKey(rules["reasons"].rows, v) => HasKey(new.rows, v)
    BY <1>6
  <1> HIDE DEF new, old, f
  <1>10. edit' = [edit EXCEPT ![a] = [phase |-> "none"]] /\ paint' = paint
    BY <1>3
  <1> QED BY <1>1, <1>5, <1>7, <1>8, <1>9, <1>10, EditedOffer

LEMMA InsertOffer ==
  ASSUME RuleInv, OfferInv, NEW a \in Admins, InsertNew(a)
  PROVE  OfferInv'
  <1> DEFINE f == edit[a].of
             old == rules[f.table]
             row == [id |-> 0, key |-> f.key, value |-> f.value, enabled |-> TRUE,
                     sort |-> edit[a].sort]
             new == InsertRow(old, f.table, row)
  <1>1. f \in Form /\ f.table \in RuleNames
    BY InvTypes DEF InsertNew, Edit, Form
  <1>2. /\ rules' = [rules EXCEPT ![f.table] = new]
        /\ edit' = [edit EXCEPT ![a] = [phase |-> "none"]] /\ paint' = paint
    BY DEF InsertNew
  <1>3. f.table = "colours" => HasKey(rules["reasons"].rows, f.value)
    BY DEF OfferInv, Registered, FormOf, InsertNew
  <1>4. old.rows \subseteq new.rows
        /\ \A r \in new.rows : r.value = f.value \/ \E q \in old.rows : q.value = r.value
    <2> DEFINE stored == [row EXCEPT !.id = old.lastId + 1]
    <2>1. stored.value = f.value
      OBVIOUS
    <2>2. new = old \/ new.rows = old.rows \cup {stored}
      BY DEF InsertRow
    <2> HIDE DEF new, stored
    <2> QED BY <2>1, <2>2
  <1> HIDE DEF new
  <1>5. f.table = "reasons" => \A v : HasKey(rules["reasons"].rows, v) => HasKey(new.rows, v)
    BY <1>4 DEF HasKey
  <1> QED BY <1>1, <1>2, <1>3, <1>4, <1>5, EditedOffer

LEMMA CommandOffer ==
  ASSUME RuleInv, OfferInv, StartImportRules \/ ReplaceNext \/ StopImportRules
  PROVE  OfferInv'
  <1>1. edit' = edit /\ paint' = paint
    BY DEF StartImportRules, ReplaceNext, StopImportRules
  <1>2. CASE rules' = rules
    BY <1>1, <1>2, OfferFromTables DEF OfferInv
  <1>3. CASE ReplaceNext
    <2>1. /\ rules' = [rules EXCEPT ![command] = ReplaceRows(rules[command], Workbook[command])]
          /\ command \in {"exclusions", "colours"}
      BY <1>3 DEF ReplaceNext
    <2>2. /\ rules \in [RuleNames -> RuleTable]
          /\ "colours" \in RuleNames /\ "reasons" \in RuleNames
      BY InvTypes DEF RuleNames
    <2>3. rules'["reasons"] = rules["reasons"]
      BY <2>1, <2>2
    <2>4. ASSUME NEW r \in rules'["colours"].rows
          PROVE  Entered(r.value) \/ HasKey(rules["reasons"].rows, r.value)
      <3>1. CASE command = "colours"
        <4>1. rules'["colours"] = ReplaceRows(rules["colours"], Workbook["colours"])
          BY <2>1, <2>2, <3>1
        <4>2. r \in ReplaceRows(rules["colours"], Workbook["colours"]).rows
          BY <4>1
        <4>3. PICK i \in DOMAIN Workbook["colours"] : r.value = Workbook["colours"][i].value
          BY <4>2 DEF ReplaceRows
        <4> QED BY <4>3 DEF Entered
      <3>2. CASE command # "colours"
        <4>1. rules'["colours"] = rules["colours"]
          BY <2>1, <2>2, <3>2
        <4> QED BY <4>1 DEF OfferInv
      <3> QED BY <3>1, <3>2
    <2> QED BY <1>1, <2>3, <2>4, OfferFromTables
  <1> QED BY <1>2, <1>3 DEF StartImportRules, StopImportRules

(* The colours are read first: what they ask for is there to be read after them. *)
LEMMA ReadTableOffer ==
  ASSUME RuleInv, OfferInv, NEW w \in Painters, ReadTable(w)
  PROVE  OfferInv'
  <1>1. ReadOrder = <<"colours", "reasons">> /\ Len(ReadOrder) = 2
    BY DEF ReadOrder
  <1>2. /\ paint[w] \in [step : 0..2, read : [{"colours", "reasons"} -> SUBSET RuleRow]]
        /\ DOMAIN paint = Painters
    BY InvTypes DEF ReadingsOK
  <1>3. paint[w].step \in {0, 1}
    BY <1>1, <1>2 DEF ReadTable
  <1> DEFINE t == ReadOrder[paint[w].step + 1]
  <1>4. \/ paint[w].step = 0 /\ t = "colours"
        \/ paint[w].step = 1 /\ t = "reasons"
    BY <1>1, <1>3
  <1>5. /\ rules' = rules /\ edit' = edit
        /\ paint' = [paint EXCEPT ![w].step = @ + 1, ![w].read[t] = rules[t].rows]
    BY DEF ReadTable
  <1> HIDE DEF t
  <1>6. /\ paint'[w].step = paint[w].step + 1
        /\ paint'[w].read = [paint[w].read EXCEPT ![t] = rules[t].rows]
        /\ \A v \in Painters : v # w => paint'[v] = paint[v]
    <2> DEFINE one == [paint EXCEPT ![w].step = @ + 1]
    <2>1. /\ one[w].step = paint[w].step + 1 /\ one[w].read = paint[w].read
          /\ DOMAIN one = Painters
          /\ one[w] = [step |-> paint[w].step + 1, read |-> paint[w].read]
          /\ \A v \in Painters : v # w => one[v] = paint[v]
      BY <1>2
    <2>2. paint' = [one EXCEPT ![w].read[t] = rules[t].rows]
      BY <1>5
    <2> HIDE DEF one
    <2> QED BY <2>1, <2>2
  <1>7. DOMAIN paint[w].read = {"colours", "reasons"}
    BY <1>2
  <1>8. ASSUME NEW r \in paint'[w].read["colours"]
        PROVE  \/ Entered(r.value)
               \/ /\ HasKey(rules["reasons"].rows, r.value)
                  /\ paint'[w].step = 2 => HasKey(paint'[w].read["reasons"], r.value)
    <2>1. CASE paint[w].step = 0 /\ t = "colours"
      <3>1. r \in rules["colours"].rows /\ paint'[w].step = 1
        BY <1>6, <1>7, <1>8, <2>1
      <3> QED BY <3>1 DEF OfferInv
    <2>2. CASE paint[w].step = 1 /\ t = "reasons"
      <3>1. r \in paint[w].read["colours"]
            /\ paint'[w].read["reasons"] = rules["reasons"].rows
        BY <1>6, <1>7, <1>8, <2>2
      <3> QED BY <3>1 DEF OfferInv
    <2> QED BY <1>4, <2>1, <2>2
  <1>9. ASSUME NEW v \in Painters, v # w, NEW r \in paint'[v].read["colours"]
        PROVE  \/ Entered(r.value)
               \/ /\ HasKey(rules["reasons"].rows, r.value)
                  /\ paint'[v].step = 2 => HasKey(paint'[v].read["reasons"], r.value)
    BY <1>6, <1>9 DEF OfferInv
  <1>10. /\ \A r \in rules'["colours"].rows :
              Entered(r.value) \/ HasKey(rules'["reasons"].rows, r.value)
         /\ \A a \in Admins : Registered(edit'[a], rules'["reasons"].rows)
    BY <1>5 DEF OfferInv
  <1>11. \A v \in Painters : \A r \in paint'[v].read["colours"] :
           \/ Entered(r.value)
           \/ /\ HasKey(rules'["reasons"].rows, r.value)
              /\ paint'[v].step = 2 => HasKey(paint'[v].read["reasons"], r.value)
    BY <1>5, <1>8, <1>9
  <1> HIDE DEF Registered, HasKey
  <1> QED BY <1>10, <1>11 DEF OfferInv, Registered, HasKey, FormOf

LEMMA InitOffer == RulesInit => OfferInv
  <1> SUFFICES ASSUME RulesInit PROVE OfferInv
    OBVIOUS
  <1>1. /\ edit = [a \in Admins |-> [phase |-> "none"]]
        /\ paint = [w \in Painters |->
             [step |-> 0, read |-> [t \in {"colours", "reasons"} |-> {}]]]
    BY DEF RulesInit
  <1>2. rules["colours"].rows = {}
    BY DEF RulesInit, RuleNames
  <1> QED BY <1>1, <1>2 DEF OfferInv, Registered

LEMMA StepOffer == RuleInv /\ OfferInv /\ [RulesNext]_ruleVars => OfferInv'
  <1> SUFFICES ASSUME RuleInv, OfferInv, [RulesNext]_ruleVars PROVE OfferInv'
    OBVIOUS
  <1>1. CASE UNCHANGED ruleVars
    <2>1. rules' = rules /\ edit' = edit /\ paint' = paint
      BY <1>1 DEF ruleVars
    <2> QED BY <2>1, OfferFromTables DEF OfferInv
  <1> QED BY <1>1, LookedUpOffer, UpdateOffer, InsertOffer, SwitchOffer,
             CommandOffer, ReadTableOffer DEF RulesNext

THEOREM OfferInvariance == RulesSpec => []OfferInv
  <1> QED BY RuleInvariance, InitOffer, StepOffer, PTL DEF RulesSpec


--------------------------------------------------------------------------------
(* What follows from it                                                        *)

(* The tables keep their shape, keys included; a sort number given to a new row is never more  *)
(* than the rows there have been (upsert_name_exclusion_rule, and the import).  *)
THEOREM RulesKeepTheirShape == RulesSpec => []RulesTypeOK
  <1>1. RuleInv => RulesTypeOK
    BY DEF RuleInv, Distinct, RulesTypeOK, ReasonsUnique
  <1> QED BY <1>1, RuleInvariance, PTL

(* One row of a reason, however many administrators add it at once              *)
(* (upsert_task_highlight_reason).                                              *)
THEOREM OneRowOfAReason == RulesSpec => []ReasonsUnique
  <1>1. RuleInv => ReasonsUnique
    BY DEF RuleInv, Distinct, ReasonsUnique
  <1> QED BY <1>1, RuleInvariance, PTL

(* An edit whose row was replaced under it changes no row of another key        *)
(* (upsert_name_exclusion_rule, replace_name_exclusion_rules and the others).   *)
THEOREM StaleEditsAreHarmless == RulesSpec => StaleEditHitsNoOther
  <1> DEFINE Harmless == \A a \in Admins : UpdateFound(a) =>
       \A r \in rules[edit[a].of.table].rows :
         r.key # edit[a].of.key => r \in rules'[edit[a].of.table].rows
  <1>1. RuleInv => [Harmless]_ruleVars
    <2> SUFFICES ASSUME RuleInv, NEW a \in Admins, UpdateFound(a),
                        NEW r \in rules[edit[a].of.table].rows, r.key # edit[a].of.key
                 PROVE  r \in rules'[edit[a].of.table].rows
      OBVIOUS
    <2> DEFINE f == edit[a].of
               after == {IF q.id = edit[a].id THEN Changed(q, f) ELSE q : q \in rules[f.table].rows}
    <2>1. edit[a].phase = "update" /\ rules' = [rules EXCEPT ![f.table].rows = after]
      BY DEF UpdateFound
    <2>2. f.table \in RuleNames
      BY <2>1, InvTypes DEF Edit, Form
    <2>3. r.id # edit[a].id
      BY <2>1 DEF RuleInv, StillTrue
    <2>4. r \in after
      BY <2>3
    <2> HIDE DEF after
    <2>5. rules[f.table] = [rows |-> rules[f.table].rows, lastId |-> rules[f.table].lastId]
      BY <2>2, InvTypes DEF Tidy, RuleTable
    <2>6. rules'[f.table] = [rules[f.table] EXCEPT !.rows = after]
      BY <2>1, <2>2, InvTypes
    <2> QED BY <2>4, <2>5, <2>6
  <1> QED BY <1>1, RuleInvariance, PTL DEF StaleEditHitsNoOther

(* A colour of a reason the page offered is painted with it, or as a legacy one *)
(* because it is switched off: its row is read whatever the administrators and  *)
(* the import do in between (_process, list_task_highlight_reasons).            *)
THEOREM OfferedReasonsAreRead == RulesSpec => []OfferedReasonIsRead
  <1>1. RuleInv /\ OfferInv => OfferedReasonIsRead
    <2> SUFFICES ASSUME RuleInv, OfferInv, NEW w \in Painters, NEW task \in Tasks,
                        paint[w].step = Len(ReadOrder), Legacy(w, task)
                 PROVE  \/ Entered(First(Marks(w, task)).value)
                        \/ \E q \in paint[w].read["reasons"] :
                             q.key = First(Marks(w, task)).value /\ ~q.enabled
      BY DEF OfferedReasonIsRead, Entered
    <2> DEFINE mark == First(Marks(w, task))
               known == {q \in paint[w].read["reasons"] : q.enabled /\ q.key = mark.value}
    <2>1. paint[w].step = 2
      BY DEF ReadOrder
    <2>2. /\ paint[w].read["colours"] \subseteq RuleRow
          /\ paint[w].read["reasons"] \subseteq RuleRow
      BY InvTypes DEF ReadingsOK
    <2> DEFINE fresh == [rows |-> {}, lastId |-> 0]
    <2>3. BookRows("colours") \subseteq ReplaceRows(fresh, Workbook["colours"]).rows
      BY DEF BookRows
    <2>4. Tidy(fresh)
      BY DEF Tidy, RuleTable
    <2>5. ReplaceRows(fresh, Workbook["colours"]).rows \subseteq RuleRow
      BY <2>4, ReplacedRows DEF Tidy, RuleTable
    <2>6. Marks(w, task) \subseteq ColoursUsed(w) /\ Marks(w, task) \in SUBSET RuleRow
      BY <2>2, <2>3, <2>5 DEF Marks, ColoursUsed
    <2>7. Marks(w, task) # {} /\ known = {}
      BY DEF Highlight, Legacy
    <2>8. mark \in ColoursUsed(w)
      BY <2>6, <2>7, FirstIsThere
    <2>9. CASE paint[w].read["colours"] = {}
      <3>1. mark \in ReplaceRows(fresh, Workbook["colours"]).rows
        BY <2>3, <2>8, <2>9 DEF ColoursUsed
      <3>2. PICK i \in DOMAIN Workbook["colours"] : mark.value = Workbook["colours"][i].value
        BY <3>1 DEF ReplaceRows
      <3> QED BY <3>2 DEF Entered
    <2>10. CASE paint[w].read["colours"] # {}
      <3>1. mark \in paint[w].read["colours"]
        BY <2>8, <2>10 DEF ColoursUsed
      <3>2. Entered(mark.value) \/ HasKey(paint[w].read["reasons"], mark.value)
        BY <2>1, <3>1 DEF OfferInv
      <3>3. ASSUME NEW q \in paint[w].read["reasons"], q.key = mark.value
            PROVE  q.enabled = FALSE
        <4>1. q \in RuleRow /\ ~q.enabled
          BY <2>2, <2>7, <3>3
        <4> QED BY <4>1 DEF RuleRow
      <3> QED BY <3>2, <3>3 DEF HasKey
    <2> QED BY <2>9, <2>10
  <1> QED BY <1>1, RuleInvariance, OfferInvariance, PTL
==============================================================================
