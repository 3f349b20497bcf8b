---------------------------- MODULE WorkbookShelf ----------------------------
(****************************************************************************)
(* What the import history promises of the workbooks that archives bring.   *)
(* The catalog keeps them like a shelf: an import puts new ones there, all  *)
(* at once, and neither takes away, moves nor replaces one that is there;   *)
(* no two of them have one identity; an administrator may move one to       *)
(* another folder, or empty the shelf.  Nothing else happens to it: not by  *)
(* a failed import, a retry, a File_Log, a page view or a main catalog.     *)
(****************************************************************************)
CONSTANTS Regions, Files, Keys, KeyOf

Workbook == [region : Regions, file : Files]

VARIABLE shelf

Distinct(books) ==
  \A b1, b2 \in books : KeyOf[b1.file] = KeyOf[b2.file] => b1 = b2

Init == shelf = {}

Receive ==
  /\ shelf \subseteq shelf' /\ shelf' \subseteq Workbook
  /\ Distinct(shelf')

Move ==
  \E b \in shelf, r \in Regions :
     shelf' = (shelf \ {b}) \cup {[b EXCEPT !.region = r]}

Empty == shelf' = {}

Next == Receive \/ Move \/ Empty

Spec == Init /\ [][Next]_shelf
==============================================================================
