--------------------------- MODULE ApprovedOverlay ---------------------------
(****************************************************************************)
(* What the correction workflow promises the people who use it: a catalog   *)
(* row changes only because a correction of it was approved, as far as that *)
(* correction says and no further, because an import rebuilt rows of its    *)
(* source or the metadata of an import were edited, or because all rows     *)
(* were cleared.  A row keeps its source, only an approved correction gives *)
(* it another identity, a row that is gone stays gone, filing and rejecting *)
(* leave the catalog alone, and nothing in the log is taken back.           *)
(*                                                                          *)
(* It does not promise that a decision is the last one, nor which row of a  *)
(* shared identity an approved correction reaches: the code does neither    *)
(* (see RejectedNeverApplied and OverlaySameSource of Corrections).         *)
(****************************************************************************)
EXTENDS Naturals, Sequences

CONSTANTS Sources, Idents, Values, Keep, NoRow

VARIABLES
  catalog,   \* id |-> row
  filed,     \* what each correction asks for
  log        \* the decisions taken on each correction, in order

vars == <<catalog, filed, log>>

Order == [action : {"update", "delete"},
          change : [ident : Idents \cup {Keep}, val : Values \cup {Keep}]]

Or(new, old) == IF new = Keep THEN {old} ELSE {new, old}

\* what carrying out q, in whole or in the part still missing, makes of a row
Effects(q, row) ==
  IF q.action = "delete" THEN {NoRow}
  ELSE [src : {row.src}, ident : Or(q.change.ident, row.ident),
        val : Or(q.change.val, row.val)]

CarryOut(q) ==
  \/ UNCHANGED catalog
  \/ \E i \in DOMAIN catalog :
       /\ catalog[i] # NoRow
       /\ \E new \in Effects(q, catalog[i]) :
             catalog' = [catalog EXCEPT ![i] = new]

EverApproved(r) == \E n \in DOMAIN log[r] : log[r][n] = "approved"

Init ==
  /\ catalog \in Seq([src : Sources, ident : Idents, val : Values])
  /\ filed = <<>>
  /\ log = <<>>

File ==
  /\ \E q \in Order : filed' = Append(filed, q)
  /\ log' = Append(log, <<>>)
  /\ UNCHANGED catalog

\* a correction that arrives approved
Seed ==
  /\ \E q \in Order : filed' = Append(filed, q) /\ CarryOut(q)
  /\ log' = Append(log, <<"approved">>)

Approve(r) ==
  /\ log' = [log EXCEPT ![r] = Append(@, "approved")]
  /\ CarryOut(filed[r])
  /\ UNCHANGED filed

Reject(r) ==
  /\ log' = [log EXCEPT ![r] = Append(@, "rejected")]
  /\ UNCHANGED <<catalog, filed>>

Reapply(r) ==
  /\ EverApproved(r)
  /\ CarryOut(filed[r])
  /\ UNCHANGED <<filed, log>>

\* old rows of one source go, new rows of it come under new ids
Rebuild(src) ==
  /\ Len(catalog') >= Len(catalog)
  /\ \A i \in DOMAIN catalog :
       \/ catalog'[i] = catalog[i]
       \/ catalog[i] # NoRow /\ catalog[i].src = src /\ catalog'[i] = NoRow
  /\ \A i \in DOMAIN catalog' \ DOMAIN catalog : catalog'[i].src = src
  /\ UNCHANGED <<filed, log>>

\* some rows of one source get other values; none comes, goes or is renumbered
Revalue(src) ==
  /\ Len(catalog') = Len(catalog)
  /\ \A i \in DOMAIN catalog :
       \/ catalog'[i] = catalog[i]
       \/ /\ catalog[i] # NoRow /\ catalog[i].src = src
          /\ \E v \in Values : catalog'[i] = [catalog[i] EXCEPT !.val = v]
  /\ UNCHANGED <<filed, log>>

Clear ==
  /\ catalog' = [i \in DOMAIN catalog |-> NoRow]
  /\ UNCHANGED <<filed, log>>

Next ==
  \/ File \/ Seed \/ Clear
  \/ \E r \in DOMAIN filed : Approve(r) \/ Reject(r) \/ Reapply(r)
  \/ \E src \in Sources : Rebuild(src) \/ Revalue(src)

Spec == Init /\ [][Next]_vars

==============================================================================
