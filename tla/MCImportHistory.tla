---------------------------- MODULE MCImportHistory ----------------------------
(* Instances of ImportHistory for TLC. *)
EXTENDS ImportHistory, TLC

CONSTANTS root, north, f, F, book, k, kb

\* two spellings of one name, and the workbook of the main catalog
Spellings == (f :> k) @@ (F :> k) @@ (book :> kb)

At2(region, file) == [region |-> region, file |-> file]

\* one file alone; two spellings of its name in another folder
Archives == {<<At2(root, f)>>, <<At2(north, F), At2(north, f)>>}
\* one name in two folders
TwoFolders == {<<At2(root, f), At2(north, f)>>}
FileLog  == <<At2(north, f)>>
\* a main catalog that lists the file, and one that does not
Catalogs == {<<At2(north, f), At2(root, book)>>, <<At2(root, f)>>, <<At2(root, book)>>}
================================================================================
