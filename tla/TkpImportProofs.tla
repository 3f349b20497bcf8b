--------------------------- MODULE TkpImportProofs ---------------------------
(****************************************************************************)
(* Proofs about TkpImport for any workbooks, revisions, runs of the macro,  *)
(* import requests and calculations.                                        *)
(****************************************************************************)
EXTENDS TkpImport, FiniteSetTheorems, TLAPS

USE PathAssumption, ContentAssumption

(* What a date, a fingerprint and a run number say about a stored revision:    *)
(* this is why a row that lets a file be skipped holds what the upload brings. *)
TrueOf(f) ==
  /\ f.date # NoDate => f.date = f.content
  /\ f.run.kind \in {"bytes", "macro"}
  /\ f.run.kind = "bytes" => f.date = NoDate /\ f.run.n = f.content
  /\ f.run.kind = "macro" => f.run.n \in Runs
  /\ f.run.kind = "macro" /\ f.date = NoDate =>
       f.content = Scan[f.run.n][f.path] /\ Lines[f.content] > 0

(* One source of a name, one name of an id, and ids below the last one. *)
OneEach(d) ==
  /\ \A s, t \in d.sources : NameOf[s.path] = NameOf[t.path] => s = t
  /\ \A s, t \in d.sources : s.id = t.id => s = t
  /\ \A s \in d.sources : s.id <= d.lastId

(* The items of every source are those of one parse. *)
Parsed(d) ==
  /\ \A x \in d.items : x.id <= d.lastItem
  /\ \A x \in d.items : \E s \in d.sources :
       /\ x.source = s.id /\ x.path = s.path /\ x.content = s.content
       /\ x.line \in 1..Lines[s.content]
  /\ \A s \in d.sources : \A k \in 1..Lines[s.content] :
       \E x \in d.items : x.source = s.id /\ x.line = k
  /\ \A x, y \in d.items : x.source = y.source => (x.id < y.id <=> x.line < y.line)

Sound(d) ==
  /\ d \in Tables /\ IsFiniteSet(d.items)
  /\ OneEach(d) /\ Parsed(d)
  /\ \A s \in d.sources : TrueOf(s)

(* The files of one upload: a direct one has no two of a name, and an undated  *)
(* one of the macro has every workbook of its run with a position in it.       *)
Together(files) ==
  /\ \A f \in files : TrueOf(f)
  /\ \A f, g \in files : f.run.kind = "bytes" /\ NameOf[f.path] = NameOf[g.path] => f = g
  /\ \A f \in files : \A p \in Paths :
       f.run.kind = "macro" /\ f.date = NoDate /\ Lines[Scan[f.run.n][p]] > 0 =>
         \E g \in files : g.path = p /\ g.content = Scan[f.run.n][p]

Brought(files, n) == {f.content : f \in {g \in files : NameOf[g.path] = n}}

(* What the open transaction of an upload has done so far. *)
HalfStored(u) ==
  /\ u.todo \subseteq u.files
  /\ \A f \in u.files \ u.todo : \E s \in tx.sources :
       NameOf[s.path] = NameOf[f.path] /\ s.content \in Brought(u.files, NameOf[f.path])
  /\ \A n \in FileNames :
       (\A f \in u.files \ u.todo : NameOf[f.path] # n) => Named(tx, n) = Named(db, n)

IndexSound(c) ==
  \A x, y \in c.index : NameOf[x.path] = NameOf[y.path] => x.source = y.source

ImportInv ==
  /\ TkpTypeOK
  /\ Sound(db)
  /\ tx # NoTx => Sound(tx)
  /\ \A i \in Importers :
       /\ upload[i].phase = "idle" => upload[i] = Idle
       /\ upload[i].phase = "received" => upload[i].todo = upload[i].files
       /\ upload[i].phase = "storing" => tx # NoTx /\ HalfStored(upload[i])
       /\ Together(upload[i].files)
  /\ \A i, j \in Importers :
       upload[i].phase = "storing" /\ upload[j].phase = "storing" => i = j
  /\ \A w \in Calculations : IndexSound(calc[w])

--------------------------------------------------------------------------------
(* The tables                                                                  *)

LEMMA ItemsAreFinite ==
  ASSUME NEW d \in Tables, NEW f \in File
  PROVE  IsFiniteSet(ItemsOf(d, f))
  <1> DEFINE n == Lines[f.content]
             g == [k \in 1..n |-> [id |-> d.lastItem + k, source |-> d.lastId + 1,
                                   path |-> f.path, content |-> f.content, line |-> k]]
  <1>1. n \in Nat
    BY DEF File
  <1>2. IsFiniteSet(1..n)
    BY <1>1, FS_Interval
  <1>3. g \in Surjection(1..n, ItemsOf(d, f))
    BY Zenon DEF Surjection, ItemsOf
  <1> QED BY <1>2, <1>3, FS_Surjection

LEMMA StoredParts ==
  ASSUME NEW d \in Tables, NEW f \in File, NEW details \in {0, 1}
  PROVE  LET e == Stored(d, f, details)
             r == [id |-> d.lastId + 1, path |-> f.path, date |-> f.date, run |-> f.run,
                   content |-> f.content, details |-> details]
         IN  /\ e.sources = d.sources \cup {r} /\ r \in Source
             /\ e.items = d.items \cup ItemsOf(d, f) /\ ItemsOf(d, f) \subseteq Item
             /\ e.lastId = d.lastId + 1 /\ e.lastItem = d.lastItem + Lines[f.content]
             /\ e \in Tables
             /\ d.lastId \in Nat /\ d.lastItem \in Nat /\ Lines[f.content] \in Nat
             /\ d.sources \subseteq Source /\ d.items \subseteq Item
  <1> DEFINE e == Stored(d, f, details)
             r == [id |-> d.lastId + 1, path |-> f.path, date |-> f.date, run |-> f.run,
                   content |-> f.content, details |-> details]
  <1>1. /\ d.lastId \in Nat /\ d.lastItem \in Nat
        /\ d.sources \subseteq Source /\ d.items \subseteq Item
    BY DEF Tables
  <1>2. Lines[f.content] \in Nat /\ f.content \in Contents /\ f.path \in Paths
        /\ f.date \in Contents \cup {NoDate} /\ f.run \in RunIds
    BY DEF File
  <1>3. r \in Source
    BY <1>1, <1>2 DEF Source
  <1>4. ItemsOf(d, f) \subseteq Item
    BY <1>1, <1>2 DEF ItemsOf, Item
  <1>5. /\ e.sources = d.sources \cup {r} /\ e.items = d.items \cup ItemsOf(d, f)
        /\ e.lastId = d.lastId + 1 /\ e.lastItem = d.lastItem + Lines[f.content]
    BY DEF Stored
  <1>6. e \in Tables
    <2>1. /\ d.sources \cup {r} \in SUBSET Source
          /\ d.items \cup ItemsOf(d, f) \in SUBSET Item
          /\ d.lastId + 1 \in Nat /\ d.lastItem + Lines[f.content] \in Nat
      BY <1>1, <1>2, <1>3, <1>4
    <2> QED BY <2>1 DEF Stored, Tables
  <1> QED BY <1>1, <1>2, <1>3, <1>4, <1>5, <1>6

(* A row stored under a name that has none leaves the tables sound. *)
LEMMA StoringIsSound ==
  ASSUME NEW d, Sound(d), NEW f \in File, TrueOf(f), NEW details \in {0, 1},
         Named(d, NameOf[f.path]) = {}
  PROVE  Sound(Stored(d, f, details))
  <1> DEFINE e == Stored(d, f, details)
             r == [id |-> d.lastId + 1, path |-> f.path, date |-> f.date, run |-> f.run,
                   content |-> f.content, details |-> details]
             new == ItemsOf(d, f)
  <1>1. d \in Tables /\ IsFiniteSet(d.items) /\ OneEach(d) /\ Parsed(d)
        /\ \A s \in d.sources : TrueOf(s)
    BY DEF Sound
  <1>2. /\ e.sources = d.sources \cup {r} /\ r \in Source
        /\ e.items = d.items \cup new /\ new \subseteq Item
        /\ e.lastId = d.lastId + 1 /\ e.lastItem = d.lastItem + Lines[f.content]
        /\ e \in Tables
        /\ d.lastId \in Nat /\ d.lastItem \in Nat /\ Lines[f.content] \in Nat
        /\ d.sources \subseteq Source /\ d.items \subseteq Item
    BY <1>1, StoredParts
  <1>3. IsFiniteSet(e.items)
    <2>1. IsFiniteSet(new)
      BY <1>1, ItemsAreFinite
    <2>2. IsFiniteSet(d.items \cup new)
      BY <1>1, <2>1, FS_Union
    <2> QED BY <1>2, <2>2
  <1>4. \A s \in d.sources : s.id \in Nat /\ s.id <= d.lastId
    BY <1>1, <1>2 DEF OneEach, Source
  <1>5. OneEach(e)
    <2>1. \A s \in d.sources : NameOf[s.path] # NameOf[r.path]
      BY DEF Named
    <2>2. \A s \in d.sources : s.id # r.id
      BY <1>2, <1>4
    <2> QED BY <1>1, <1>2, <1>4, <2>1, <2>2 DEF OneEach
  <1>6. \A x \in new : /\ x.source = r.id /\ x.path = r.path /\ x.content = r.content
                       /\ x.line \in 1..Lines[r.content] /\ x.id = d.lastItem + x.line
    BY DEF ItemsOf
  <1>7. \A x \in d.items : /\ x.source # r.id /\ x.id <= d.lastItem /\ x.id \in Nat
                           /\ x.line \in Nat
    BY <1>1, <1>2, <1>4 DEF Parsed, Item
  <1>8. Parsed(e)
    <2>1. \A x \in e.items : x.id <= e.lastItem
      BY <1>2, <1>6, <1>7
    <2>2. \A x \in e.items : \E s \in e.sources :
            /\ x.source = s.id /\ x.path = s.path /\ x.content = s.content
            /\ x.line \in 1..Lines[s.content]
      <3> TAKE x \in e.items
      <3>1. CASE x \in new
        BY <3>1, <1>2, <1>6
      <3>2. CASE x \in d.items
        BY <3>2, <1>1, <1>2 DEF Parsed
      <3> QED BY <3>1, <3>2, <1>2
    <2>3. \A s \in e.sources : \A k \in 1..Lines[s.content] :
            \E x \in e.items : x.source = s.id /\ x.line = k
      <3> TAKE s \in e.sources
      <3> TAKE k \in 1..Lines[s.content]
      <3>1. CASE s \in d.sources
        BY <3>1, <1>1, <1>2 DEF Parsed
      <3>2. CASE s = r
        <4> DEFINE x == [id |-> d.lastItem + k, source |-> d.lastId + 1, path |-> f.path,
                         content |-> f.content, line |-> k]
        <4>1. x \in new
          BY <3>2 DEF ItemsOf
        <4> QED BY <3>2, <4>1, <1>2
      <3> QED BY <3>1, <3>2, <1>2
    <2>4. \A x, y \in e.items : x.source = y.source => (x.id < y.id <=> x.line < y.line)
      <3> TAKE x, y \in e.items
      <3>1. CASE x \in d.items /\ y \in d.items
        BY <3>1, <1>1 DEF Parsed
      <3>2. CASE x \in new /\ y \in new
        BY <3>2, <1>2, <1>6
      <3>3. CASE x \in new /\ y \in d.items
        BY <3>3, <1>6, <1>7
      <3>4. CASE x \in d.items /\ y \in new
        BY <3>4, <1>6, <1>7
      <3> QED BY <3>1, <3>2, <3>3, <3>4, <1>2
    <2> QED BY <2>1, <2>2, <2>3, <2>4 DEF Parsed
  <1>9. TrueOf(r)
    BY DEF TrueOf
  <1> QED BY <1>1, <1>2, <1>3, <1>5, <1>8, <1>9 DEF Sound

(* Deleting sources takes their items along and nothing else. *)
LEMMA DeletingIsSound ==
  ASSUME NEW d, Sound(d), NEW gone \in SUBSET d.sources
  PROVE  Sound(Without(d, gone))
  <1> DEFINE e == Without(d, gone)
  <1>1. d \in Tables /\ IsFiniteSet(d.items) /\ OneEach(d) /\ Parsed(d)
        /\ \A s \in d.sources : TrueOf(s)
    BY DEF Sound
  <1>2. /\ d.lastId \in Nat /\ d.lastItem \in Nat
        /\ d.sources \subseteq Source /\ d.items \subseteq Item
        /\ d = [sources |-> d.sources, items |-> d.items, lastId |-> d.lastId,
                lastItem |-> d.lastItem]
    BY <1>1 DEF Tables
  <1>3. /\ e.sources = d.sources \ gone
        /\ e.items = {x \in d.items : \A s \in gone : s.id # x.source}
        /\ e.lastId = d.lastId /\ e.lastItem = d.lastItem
    BY <1>2 DEF Without
  <1>4. e \in Tables
    BY <1>2 DEF Without, Tables
  <1>5. IsFiniteSet(e.items)
    BY <1>1, <1>3, FS_Subset
  <1>6. OneEach(e)
    BY <1>1, <1>3 DEF OneEach
  <1>7. \A s \in e.sources : \A g \in gone : g.id # s.id
    BY <1>1, <1>3 DEF OneEach
  <1>8. Parsed(e)
    <2>1. \A x \in e.items : x \in d.items /\ \A s \in gone : s.id # x.source
      BY <1>3
    <2>2. \A x \in e.items : \E s \in e.sources :
            /\ x.source = s.id /\ x.path = s.path /\ x.content = s.content
            /\ x.line \in 1..Lines[s.content]
      BY <1>1, <1>3, <2>1 DEF Parsed
    <2>3. \A s \in e.sources : \A k \in 1..Lines[s.content] :
            \E x \in e.items : x.source = s.id /\ x.line = k
      <3> TAKE s \in e.sources
      <3> TAKE k \in 1..Lines[s.content]
      <3>1. PICK x \in d.items : x.source = s.id /\ x.line = k
        BY <1>1, <1>3 DEF Parsed
      <3> QED BY <3>1, <1>3, <1>7
    <2> QED BY <1>1, <1>3, <2>1, <2>2, <2>3 DEF Parsed
  <1> QED BY <1>1, <1>3, <1>4, <1>5, <1>6, <1>8 DEF Sound

LEMMA NothingIsSound == Sound(NoTables)
  BY FS_EmptySet DEF Sound, NoTables, Tables, OneEach, Parsed

LEMMA SoundTypes ==
  ASSUME NEW d, Sound(d)
  PROVE  /\ d \in Tables /\ d.sources \subseteq Source /\ d.items \subseteq Item
         /\ Cardinality(d.items) \in Nat
  BY FS_CardinalityType DEF Sound, Tables

(* A row of the upload's file, or one that lets it be skipped, holds a revision *)
(* the upload brings under that name.                                           *)
LEMMA CurrentIsBrought ==
  ASSUME NEW files \in SUBSET File, Together(files), NEW f \in files,
         Sound(tx), Current(f)
  PROVE  \E s \in tx.sources :
           NameOf[s.path] = NameOf[f.path] /\ s.content \in Brought(files, NameOf[f.path])
  <1>1. PICK s \in Named(tx, NameOf[f.path]) :
          s.date = f.date /\ s.details = 1 /\ (f.date # NoDate \/ s.run = f.run)
    BY DEF Current
  <1>2. s \in tx.sources /\ NameOf[s.path] = NameOf[f.path] /\ TrueOf(s)
        /\ s \in Source
    BY <1>1, SoundTypes DEF Named, Sound
  <1>3. TrueOf(f) /\ f \in File
    BY DEF Together
  <1>4. SUFFICES \E g \in files : NameOf[g.path] = NameOf[f.path] /\ g.content = s.content
    BY <1>2 DEF Brought
  <1>5. CASE f.date # NoDate
    BY <1>1, <1>2, <1>3, <1>5 DEF TrueOf
  <1>6. CASE f.date = NoDate /\ f.run.kind = "bytes"
    BY <1>1, <1>2, <1>3, <1>6 DEF TrueOf
  <1>7. CASE f.date = NoDate /\ f.run.kind = "macro"
    <2>1. s.content = Scan[f.run.n][s.path] /\ Lines[s.content] > 0 /\ s.path \in Paths
      BY <1>1, <1>2, <1>7 DEF TrueOf, Source
    <2>2. PICK g \in files : g.path = s.path /\ g.content = Scan[f.run.n][s.path]
      BY <2>1, <1>7 DEF Together
    <2> QED BY <2>1, <2>2, <1>2
  <1> QED BY <1>3, <1>5, <1>6, <1>7 DEF TrueOf

--------------------------------------------------------------------------------
(* What the browser and the macro bring                                        *)

LEMMA FoldersAreTogether ==
  ASSUME NEW files \in Folders
  PROVE  files \in SUBSET File /\ Together(files)
  <1>1. PICK seen \in Selections : ~Clash(DOMAIN seen) /\ files = FolderFiles(seen)
    BY DEF Folders
  <1>2. PICK S \in SUBSET Paths : seen \in [S -> Contents]
    BY DEF Selections
  <1>3. \A f \in files : \E p \in S :
          f = [path |-> p, date |-> NoDate, content |-> seen[p],
               run |-> [kind |-> "bytes", n |-> seen[p]]]
    BY <1>1, <1>2 DEF FolderFiles
  <1>4. files \in SUBSET File
    <2>1. \A p \in S : p \in Paths /\ seen[p] \in Contents
                       /\ [kind |-> "bytes", n |-> seen[p]] \in RunIds
      BY <1>2 DEF RunIds
    <2> QED BY <1>3, <2>1 DEF File
  <1>5. \A f \in files : TrueOf(f) /\ f.run.kind = "bytes"
    BY <1>3 DEF TrueOf
  <1>6. ASSUME NEW f \in files, NEW g \in files, NameOf[f.path] = NameOf[g.path]
        PROVE  f = g
    <2>1. PICK p \in S : f = [path |-> p, date |-> NoDate, content |-> seen[p],
                             run |-> [kind |-> "bytes", n |-> seen[p]]]
      BY <1>3
    <2>2. PICK q \in S : g = [path |-> q, date |-> NoDate, content |-> seen[q],
                             run |-> [kind |-> "bytes", n |-> seen[q]]]
      BY <1>3
    <2>3. p = q
      BY <2>1, <2>2, <1>1, <1>2, <1>6 DEF Clash
    <2> QED BY <2>1, <2>2, <2>3
  <1> QED BY <1>4, <1>5, <1>6 DEF Together

LEMMA BooksAreTogether ==
  ASSUME NEW files \in Books
  PROVE  files \in SUBSET File /\ Together(files)
  <1>1. PICK run \in Runs : files = CatalogFiles(run) \/ files = DerivedFiles(run)
    BY DEF Books
  <1>2. \A p \in Paths : Scan[run][p] \in Contents
    BY <1>1
  <1>3. [kind |-> "macro", n |-> run] \in RunIds
    BY DEF RunIds
  <1>4. CASE files = CatalogFiles(run)
    <2>1. \A f \in files : \E p \in Paths :
            f = [path |-> p, date |-> Scan[run][p], content |-> Scan[run][p],
                 run |-> [kind |-> "macro", n |-> run]]
      BY <1>4 DEF CatalogFiles
    <2>2. files \in SUBSET File
      BY <2>1, <1>2, <1>3 DEF File
    <2>3. \A f \in files : TrueOf(f) /\ f.run.kind = "macro" /\ f.date # NoDate
      BY <2>1, <1>2 DEF TrueOf
    <2> QED BY <2>2, <2>3 DEF Together
  <1>5. CASE files = DerivedFiles(run)
    <2>1. \A f \in files : \E p \in Paths :
            /\ f = [path |-> p, date |-> NoDate, content |-> Scan[run][p],
                    run |-> [kind |-> "macro", n |-> run]]
            /\ Lines[Scan[run][p]] > 0
      BY <1>5 DEF DerivedFiles
    <2>2. files \in SUBSET File
      BY <2>1, <1>2, <1>3 DEF File
    <2>3. \A f \in files : TrueOf(f) /\ f.run = [kind |-> "macro", n |-> run]
      BY <2>1, <1>2 DEF TrueOf
    <2>4. ASSUME NEW p \in Paths, Lines[Scan[run][p]] > 0
          PROVE  \E g \in files : g.path = p /\ g.content = Scan[run][p]
      <3> DEFINE g == [path |-> p, date |-> NoDate, content |-> Scan[run][p],
                       run |-> [kind |-> "macro", n |-> run]]
      <3>1. g \in files
        BY <1>5, <2>4 DEF DerivedFiles
      <3> QED BY <3>1
    <2> QED BY <2>2, <2>3, <2>4 DEF Together
  <1> QED BY <1>1, <1>4, <1>5

--------------------------------------------------------------------------------
(* The invariant                                                               *)

LEMMA InitInv == TkpInit => ImportInv
  <1> SUFFICES ASSUME TkpInit PROVE ImportInv
    OBVIOUS
  <1>1. Sound(db)
    <2>1. CASE db = NoTables
      BY <2>1, NothingIsSound
    <2>2. CASE \E run \in Runs : \E f \in CatalogFiles(run) : db = Stored(NoTables, f, 0)
      <3>1. PICK run \in Runs : \E f \in CatalogFiles(run) : db = Stored(NoTables, f, 0)
        BY <2>2
      <3>2. PICK f \in CatalogFiles(run) : db = Stored(NoTables, f, 0)
        BY <3>1
      <3>3. f \in File /\ TrueOf(f)
        <4>1. CatalogFiles(run) \in Books
          BY DEF Books
        <4> QED BY <4>1, BooksAreTogether DEF Together
      <3>4. Named(NoTables, NameOf[f.path]) = {}
        BY DEF Named, NoTables
      <3> QED BY <3>2, <3>3, <3>4, NothingIsSound, StoringIsSound
    <2> QED BY <2>1, <2>2 DEF TkpInit
  <1>2. TkpTypeOK
    <2>1. db \in Tables
      BY <1>1 DEF Sound
    <2>2. upload \in [Importers -> [phase : {"idle", "received", "storing"},
                               files : SUBSET File, todo : SUBSET File]]
      BY DEF TkpInit, Idle
    <2>3. calc \in [Calculations -> [phase : {"idle", "counted", "loaded"},
                                limit : Nat, index : SUBSET Item]]
      BY DEF TkpInit
    <2>4. accepted \in 0..MaxUploads /\ tx = NoTx
      BY DEF TkpInit
    <2> QED BY <2>1, <2>2, <2>3, <2>4 DEF TkpTypeOK
  <1>3. tx = NoTx /\ \A i \in Importers : upload[i] = Idle
    BY DEF TkpInit
  <1>4. \A w \in Calculations : IndexSound(calc[w])
    BY DEF TkpInit, IndexSound
  <1>5. Together({})
    BY DEF Together
  <1> QED BY <1>1, <1>2, <1>3, <1>4, <1>5 DEF ImportInv, Idle

(* An upload the handler accepts. *)
LEMMA AcceptInv ==
  ASSUME ImportInv, NEW i \in Importers, NEW files \in SUBSET File, Together(files),
         Accept(i, files)
  PROVE  ImportInv'
  <1>1. upload' = [upload EXCEPT ![i] = Received(files)] /\ upload[i] = Idle
        /\ db' = db /\ tx' = tx /\ calc' = calc
    BY DEF Accept
  <1>2. upload \in [Importers -> [phase : {"idle", "received", "storing"},
                                 files : SUBSET File, todo : SUBSET File]]
    BY DEF ImportInv, TkpTypeOK
  <1>3. TkpTypeOK'
    <2>1. accepted' \in 0..MaxUploads
      BY DEF Accept, ImportInv, TkpTypeOK
    <2>2. upload' \in [Importers -> [phase : {"idle", "received", "storing"},
                               files : SUBSET File, todo : SUBSET File]]
      BY <1>1, <1>2 DEF Received
    <2> QED BY <1>1, <2>1, <2>2 DEF ImportInv, TkpTypeOK
  <1>4. upload'[i] = Received(files) /\ \A j \in Importers : j # i => upload'[j] = upload[j]
    BY <1>1, <1>2
  <1>5. \A j \in Importers :
          /\ upload'[j].phase = "idle" => upload'[j] = Idle
          /\ upload'[j].phase = "received" => upload'[j].todo = upload'[j].files
          /\ upload'[j].phase = "storing" => tx' # NoTx /\ HalfStored(upload[j])'
          /\ Together(upload'[j].files)
    BY <1>1, <1>4 DEF ImportInv, Received, HalfStored, Named
  <1>6. \A j, k \in Importers :
          upload'[j].phase = "storing" /\ upload'[k].phase = "storing" => j = k
    BY <1>4 DEF ImportInv, Received
  <1> QED BY <1>1, <1>3, <1>5, <1>6 DEF ImportInv, Sound, IndexSound

LEMMA BeginInv ==
  ASSUME ImportInv, NEW i \in Importers, BeginStore(i)
  PROVE  ImportInv'
  <1>1. /\ upload' = [upload EXCEPT ![i].phase = "storing"] /\ upload[i].phase = "received"
        /\ tx = NoTx /\ tx' = db /\ db' = db /\ calc' = calc /\ accepted' = accepted
    BY DEF BeginStore
  <1>2. upload \in [Importers -> [phase : {"idle", "received", "storing"},
                                 files : SUBSET File, todo : SUBSET File]]
        /\ db \in Tables
    BY DEF ImportInv, TkpTypeOK
  <1>3. /\ upload'[i] = [upload[i] EXCEPT !.phase = "storing"]
        /\ \A j \in Importers : j # i => upload'[j] = upload[j]
    BY <1>1, <1>2
  <1>4. upload'[i].phase = "storing" /\ upload'[i].files = upload[i].files
        /\ upload'[i].todo = upload[i].files
    BY <1>1, <1>2, <1>3 DEF ImportInv
  <1>5. TkpTypeOK'
    <2>1. upload' \in [Importers -> [phase : {"idle", "received", "storing"},
                               files : SUBSET File, todo : SUBSET File]]
      BY <1>1, <1>2
    <2> QED BY <1>1, <1>2, <2>1 DEF ImportInv, TkpTypeOK
  <1>6. tx' # NoTx
    BY <1>1, <1>2, TxAssumption
  <1>7. HalfStored(upload[i])'
    BY <1>1, <1>4 DEF HalfStored, Named
  <1>8. \A j \in Importers : upload[j].phase # "storing"
    BY <1>1 DEF ImportInv
  <1>9. \A j \in Importers :
          /\ upload'[j].phase = "idle" => upload'[j] = Idle
          /\ upload'[j].phase = "received" => upload'[j].todo = upload'[j].files
          /\ upload'[j].phase = "storing" => tx' # NoTx /\ HalfStored(upload[j])'
          /\ Together(upload'[j].files)
    <2> TAKE j \in Importers
    <2>1. CASE j = i
      BY <2>1, <1>4, <1>6, <1>7 DEF ImportInv
    <2>2. CASE j # i
      BY <2>2, <1>3, <1>8 DEF ImportInv
    <2> QED BY <2>1, <2>2
  <1>10. \A j, k \in Importers :
          upload'[j].phase = "storing" /\ upload'[k].phase = "storing" => j = k
    BY <1>3, <1>8
  <1> QED BY <1>1, <1>5, <1>9, <1>10 DEF ImportInv, Sound, IndexSound

(* One file: skipped because it is there, or stored in place of every source of *)
(* its name.                                                                    *)
LEMMA UpsertInv ==
  ASSUME ImportInv, NEW i \in Importers, UpsertFile(i)
  PROVE  ImportInv'
  <1>1. PICK f \in upload[i].todo :
          /\ tx' = IF Current(f) THEN tx ELSE Stored(Without(tx, Replaced(f)), f, 1)
          /\ upload' = [upload EXCEPT ![i].todo = @ \ {f}]
    BY DEF UpsertFile
  <1>2. /\ tx # NoTx /\ upload[i].phase = "storing"
        /\ db' = db /\ calc' = calc /\ accepted' = accepted
    BY DEF UpsertFile, Storing
  <1>3. upload \in [Importers -> [phase : {"idle", "received", "storing"},
                                 files : SUBSET File, todo : SUBSET File]]
    BY DEF ImportInv, TkpTypeOK
  <1>4. /\ Sound(tx) /\ HalfStored(upload[i]) /\ Together(upload[i].files)
        /\ f \in upload[i].files /\ f \in File /\ TrueOf(f)
    BY <1>2, <1>3 DEF ImportInv, HalfStored, Together
  <1>5. /\ upload'[i] = [upload[i] EXCEPT !.todo = @ \ {f}]
        /\ \A j \in Importers : j # i => upload'[j] = upload[j]
        /\ upload' \in [Importers -> [phase : {"idle", "received", "storing"},
                                 files : SUBSET File, todo : SUBSET File]]
    BY <1>1, <1>3
  <1>6. /\ upload'[i].phase = "storing" /\ upload'[i].files = upload[i].files
        /\ upload'[i].todo = upload[i].todo \ {f}
    BY <1>2, <1>3, <1>5
  <1> DEFINE n == NameOf[f.path]
             clean == Without(tx, Replaced(f))
             r == [id |-> clean.lastId + 1, path |-> f.path, date |-> f.date,
                   run |-> f.run, content |-> f.content, details |-> 1]
  <1>7. n \in FileNames
    BY <1>4 DEF File
  <1>8. ASSUME ~Current(f)
        PROVE  Sound(tx') /\ tx'.sources = (tx.sources \ Named(tx, n)) \cup {r}
    <2>1. Replaced(f) \in SUBSET tx.sources
      BY DEF Replaced, Named
    <2>2. Sound(clean)
      BY <1>4, <2>1, DeletingIsSound
    <2>3. clean.sources = tx.sources \ Named(tx, n)
      BY <1>4 DEF Without, Replaced, Sound, Tables
    <2>4. Named(clean, n) = {}
      BY <2>3 DEF Named
    <2>5. Sound(Stored(clean, f, 1))
      BY <1>4, <2>2, <2>4, StoringIsSound
    <2>6. Stored(clean, f, 1).sources = clean.sources \cup {r}
      BY DEF Stored
    <2> QED BY <1>1, <1>8, <2>3, <2>5, <2>6
  <1>9. Sound(tx')
    BY <1>1, <1>4, <1>8
  <1>10. \A m \in FileNames : m # n => Named(tx', m) = Named(tx, m)
    <2>1. CASE Current(f)
      BY <2>1, <1>1
    <2>2. CASE ~Current(f)
      BY <2>2, <1>8 DEF Named
    <2> QED BY <2>1, <2>2
  <1>11. \E s \in tx'.sources : NameOf[s.path] = n /\ s.content \in Brought(upload[i].files, n)
    <2>1. CASE Current(f)
      BY <2>1, <1>1, <1>3, <1>4, CurrentIsBrought
    <2>2. CASE ~Current(f)
      <3>1. r \in tx'.sources /\ NameOf[r.path] = n /\ r.content = f.content
        BY <2>2, <1>8
      <3>2. f.content \in Brought(upload[i].files, n)
        BY <1>4 DEF Brought
      <3> QED BY <3>1, <3>2
    <2> QED BY <2>1, <2>2
  <1>12. HalfStored(upload[i])'
    <2>1. upload'[i].todo \subseteq upload'[i].files
      BY <1>4, <1>6 DEF HalfStored
    <2>2. ASSUME NEW g \in upload'[i].files \ upload'[i].todo
          PROVE  \E s \in tx'.sources : NameOf[s.path] = NameOf[g.path]
                   /\ s.content \in Brought(upload'[i].files, NameOf[g.path])
      <3>1. CASE NameOf[g.path] = n
        BY <3>1, <1>6, <1>11
      <3>2. CASE NameOf[g.path] # n
        <4>1. g \in upload[i].files \ upload[i].todo
          BY <3>2, <2>2, <1>6
        <4>2. PICK s \in tx.sources : NameOf[s.path] = NameOf[g.path]
                   /\ s.content \in Brought(upload[i].files, NameOf[g.path])
          BY <4>1, <1>4 DEF HalfStored
        <4>3. NameOf[g.path] \in FileNames
          BY <4>1, <1>3 DEF File
        <4>4. s \in Named(tx', NameOf[g.path])
          BY <3>2, <4>2, <4>3, <1>10 DEF Named
        <4> QED BY <4>2, <4>4, <1>6 DEF Named
      <3> QED BY <3>1, <3>2
    <2>3. ASSUME NEW m \in FileNames,
                 \A g \in upload'[i].files \ upload'[i].todo : NameOf[g.path] # m
          PROVE  Named(tx', m) = Named(db', m)
      <3>1. m # n
        BY <2>3, <1>4, <1>6
      <3>2. \A g \in upload[i].files \ upload[i].todo : NameOf[g.path] # m
        BY <2>3, <1>6
      <3>3. Named(tx, m) = Named(db, m)
        BY <3>2, <1>4 DEF HalfStored
      <3> QED BY <3>1, <3>3, <1>2, <1>10
    <2> QED BY <2>1, <2>2, <2>3 DEF HalfStored, Named
  <1>13. TkpTypeOK'
    <2>1. tx' \in Tables
      BY <1>9 DEF Sound
    <2> QED BY <1>2, <1>5, <2>1 DEF ImportInv, TkpTypeOK
  <1>14. tx' # NoTx
    BY <1>9, TxAssumption DEF Sound
  <1>15. \A j \in Importers :
          /\ upload'[j].phase = "idle" => upload'[j] = Idle
          /\ upload'[j].phase = "received" => upload'[j].todo = upload'[j].files
          /\ upload'[j].phase = "storing" => tx' # NoTx /\ HalfStored(upload[j])'
          /\ Together(upload'[j].files)
    <2> TAKE j \in Importers
    <2>1. CASE j = i
      BY <2>1, <1>4, <1>6, <1>12, <1>14
    <2>2. CASE j # i
      BY <2>2, <1>2, <1>5 DEF ImportInv
    <2> QED BY <2>1, <2>2
  <1>16. \A j, k \in Importers :
          upload'[j].phase = "storing" /\ upload'[k].phase = "storing" => j = k
    BY <1>2, <1>5, <1>6 DEF ImportInv
  <1> QED BY <1>2, <1>9, <1>13, <1>15, <1>16 DEF ImportInv, Sound, IndexSound

LEMMA EndInv ==
  ASSUME ImportInv, NEW i \in Importers, CommitStore(i) \/ Abort(i)
  PROVE  ImportInv'
  <1>1. /\ upload' = [upload EXCEPT ![i] = Idle] /\ calc' = calc /\ accepted' = accepted
        /\ db' = db \/ (tx # NoTx /\ db' = tx)
        /\ tx' = tx \/ tx' = NoTx
        /\ upload[i].phase = "storing" => tx' = NoTx
        /\ upload[i].phase # "storing" => tx' = tx /\ db' = db
    BY DEF CommitStore, Abort, Storing
  <1>2. upload \in [Importers -> [phase : {"idle", "received", "storing"},
                                 files : SUBSET File, todo : SUBSET File]]
        /\ db \in Tables /\ tx \in Tables \cup {NoTx}
    BY DEF ImportInv, TkpTypeOK
  <1>3. /\ upload'[i] = Idle /\ \A j \in Importers : j # i => upload'[j] = upload[j]
        /\ upload' \in [Importers -> [phase : {"idle", "received", "storing"},
                                 files : SUBSET File, todo : SUBSET File]]
    BY <1>1, <1>2 DEF Idle
  <1>4. TkpTypeOK'
    <2>1. db' \in Tables /\ tx' \in Tables \cup {NoTx}
      BY <1>1, <1>2
    <2> QED BY <1>1, <1>3, <2>1 DEF ImportInv, TkpTypeOK
  <1>5. Sound(db') /\ (tx' # NoTx => Sound(tx'))
    BY <1>1 DEF ImportInv
  <1>6. \A j \in Importers :
          /\ upload'[j].phase = "idle" => upload'[j] = Idle
          /\ upload'[j].phase = "received" => upload'[j].todo = upload'[j].files
          /\ upload'[j].phase = "storing" => tx' # NoTx /\ HalfStored(upload[j])'
          /\ Together(upload'[j].files)
    <2> TAKE j \in Importers
    <2>1. CASE j = i
      BY <2>1, <1>3 DEF Idle, Together
    <2>2. CASE j # i
      <3>1. upload'[j] = upload[j]
        BY <2>2, <1>3
      <3>2. upload[j].phase = "storing" => upload[i].phase # "storing"
        BY <2>2 DEF ImportInv
      <3>3. upload[j].phase = "storing" => HalfStored(upload[j])' /\ tx' # NoTx
        BY <3>1, <3>2, <1>1 DEF ImportInv, HalfStored, Named
      <3> QED BY <3>1, <3>3 DEF ImportInv
    <2> QED BY <2>1, <2>2
  <1>7. \A j, k \in Importers :
          upload'[j].phase = "storing" /\ upload'[k].phase = "storing" => j = k
    BY <1>3 DEF ImportInv, Idle
  <1> QED BY <1>1, <1>4, <1>5, <1>6, <1>7 DEF ImportInv, Sound, IndexSound

(* What a calculation reads is one snapshot of sound tables. *)
LEMMA ReadInv ==
  ASSUME ImportInv, NEW w \in Calculations, CountItems(w) \/ ListItems(w)
  PROVE  ImportInv'
  <1>1. /\ upload' = upload /\ accepted' = accepted /\ db' = db /\ tx' = tx
    BY DEF CountItems, ListItems
  <1>2. calc \in [Calculations -> [phase : {"idle", "counted", "loaded"},
                                 limit : Nat, index : SUBSET Item]]
        /\ Sound(db)
    BY DEF ImportInv, TkpTypeOK
  <1>3. db.items \subseteq Item /\ Cardinality(db.items) \in Nat
    BY <1>2, SoundTypes
  <1>4. calc' \in [Calculations -> [phase : {"idle", "counted", "loaded"},
                                 limit : Nat, index : SUBSET Item]]
    <2>1. CASE CountItems(w)
      BY <2>1, <1>2, <1>3 DEF CountItems
    <2>2. CASE ListItems(w)
      BY <2>2, <1>2, <1>3, ZenonT(30) DEF ListItems
    <2> QED BY <2>1, <2>2
  <1>5. \A v \in Calculations : v # w => calc'[v] = calc[v]
    BY <1>2 DEF CountItems, ListItems
  <1>6. calc'[w].index \subseteq db.items
    <2>1. CASE CountItems(w)
      BY <2>1, <1>2 DEF CountItems
    <2>2. CASE ListItems(w)
      BY <2>2, <1>2 DEF ListItems
    <2> QED BY <2>1, <2>2
  <1>7. \A x, y \in db.items : NameOf[x.path] = NameOf[y.path] => x.source = y.source
    BY <1>2 DEF Sound, Parsed, OneEach
  <1>8. \A v \in Calculations : IndexSound(calc'[v])
    <2> TAKE v \in Calculations
    <2>1. CASE v = w
      BY <2>1, <1>6, <1>7 DEF IndexSound
    <2>2. CASE v # w
      BY <2>2, <1>5 DEF ImportInv
    <2> QED BY <2>1, <2>2
  <1>9. TkpTypeOK'
    BY <1>1, <1>4 DEF ImportInv, TkpTypeOK
  <1>10. \A i \in Importers : HalfStored(upload[i]) => HalfStored(upload[i])'
    BY <1>1 DEF HalfStored, Named
  <1> QED BY <1>1, <1>8, <1>9, <1>10 DEF ImportInv, Sound, IndexSound

LEMMA StepInv == ImportInv /\ [TkpNext]_tkpVars => ImportInv'
  <1> SUFFICES ASSUME ImportInv, [TkpNext]_tkpVars PROVE ImportInv'
    OBVIOUS
  <1>1. ASSUME NEW i \in Importers, ReceiveFolder(i) PROVE ImportInv'
    BY <1>1, FoldersAreTogether, AcceptInv DEF ReceiveFolder
  <1>2. ASSUME NEW i \in Importers, ReceiveCatalog(i) PROVE ImportInv'
    BY <1>2, BooksAreTogether, AcceptInv DEF ReceiveCatalog
  <1>3. CASE UNCHANGED tkpVars
    <2>1. /\ upload' = upload /\ accepted' = accepted /\ db' = db /\ tx' = tx /\ calc' = calc
      BY <1>3 DEF tkpVars
    <2>2. \A i \in Importers : HalfStored(upload[i]) => HalfStored(upload[i])'
      BY <2>1 DEF HalfStored, Named
    <2>3. TkpTypeOK'
      BY <2>1 DEF ImportInv, TkpTypeOK
    <2> QED BY <2>1, <2>2, <2>3 DEF ImportInv, Sound, IndexSound
  <1> QED BY <1>1, <1>2, <1>3, BeginInv, UpsertInv, EndInv, ReadInv DEF TkpNext

(* The inductive invariant holds of every reachable state: what is committed,   *)
(* what the importer in its transaction sees, and what a calculation has read   *)
(* are each made of whole revisions (import_tkp_parse_result).                  *)
THEOREM ImportInvariance == TkpSpec => []ImportInv
  <1> QED BY InitInv, StepInv, PTL DEF TkpSpec

--------------------------------------------------------------------------------
(* What follows from it                                                        *)

(* The tables, the uploads and the readings keep their shape, whatever is       *)
(* uploaded and however the transactions end (import_tkp_parse_result).         *)
THEOREM TablesKeepTheirShape == TkpSpec => []TkpTypeOK
  <1>1. ImportInv => TkpTypeOK
    BY DEF ImportInv
  <1> QED BY <1>1, ImportInvariance, PTL

(* The catalog never offers two revisions of one file name, for any workbooks,  *)
(* any folders and any runs of the macro (_upsert_source_file).                 *)
THEOREM OneRevisionStored == TkpSpec => []OneRevisionPerFile
  <1>1. ImportInv => OneRevisionPerFile
    BY DEF ImportInv, Sound, OneEach, OneRevisionPerFile
  <1> QED BY <1>1, ImportInvariance, PTL

(* Every source holds the positions of one parse, in order, and no position is  *)
(* without its source, however many revisions were replaced (_upsert_source_file).*)
THEOREM ItemsNeverMixed == TkpSpec => []ItemsOfOneParse
  <1>1. ImportInv => ItemsOfOneParse
    BY DEF ImportInv, Sound, Parsed, ItemsOfOneParse
  <1> QED BY <1>1, ImportInvariance, PTL

(* What a calculation searches holds one revision of a file, whenever imports   *)
(* commit while it reads (_load_tkp_catalog_index).                             *)
THEOREM IndexNeverMixed == TkpSpec => []IndexOneRevision
  <1>1. ImportInv => IndexOneRevision
    BY DEF ImportInv, IndexSound, IndexOneRevision
  <1> QED BY <1>1, ImportInvariance, PTL

(* A direct upload that is committed has stored each of its revisions under its *)
(* name: none was replaced by another of the same folder, none was skipped for  *)
(* a row that holds something else (admin_tkp_import_folder).                   *)
THEOREM FoldersStoredWhole == TkpSpec => FolderStoredWhole
  <1> DEFINE Whole == \A i \in Importers : CommitStore(i) =>
       \A f \in upload[i].files :
         f.run.kind = "bytes" =>
           \E s \in db'.sources : NameOf[s.path] = NameOf[f.path] /\ s.content = f.content
  <1>1. ImportInv => [Whole]_tkpVars
    <2> SUFFICES ASSUME ImportInv, NEW i \in Importers, CommitStore(i),
                        NEW f \in upload[i].files, f.run.kind = "bytes"
                 PROVE  \E s \in db'.sources :
                          NameOf[s.path] = NameOf[f.path] /\ s.content = f.content
      OBVIOUS
    <2>1. db' = tx /\ upload[i].todo = {} /\ HalfStored(upload[i]) /\ Together(upload[i].files)
      BY DEF CommitStore, Storing, ImportInv
    <2>2. PICK s \in tx.sources : NameOf[s.path] = NameOf[f.path]
             /\ s.content \in Brought(upload[i].files, NameOf[f.path])
      BY <2>1 DEF HalfStored
    <2>3. PICK g \in upload[i].files : NameOf[g.path] = NameOf[f.path] /\ g.content = s.content
      BY <2>2 DEF Brought
    <2>4. g = f
      BY <2>1, <2>3 DEF Together
    <2> QED BY <2>1, <2>2, <2>3, <2>4
  <1> QED BY <1>1, ImportInvariance, PTL DEF FolderStoredWhole

--------------------------------------------------------------------------------
(* The register                                                                *)

Held(d) == [n \in FileNames |->
     IF Named(d, n) = {} THEN NoDate
     ELSE (CHOOSE s \in Named(d, n) : TRUE).content]
Offered(up) == [i \in Importers |-> [n \in FileNames |-> Brought(up[i].files, n)]]
Nowhere == [n \in FileNames |-> {}]

LEMMA HeldIsStored ==
  ASSUME NEW d, Sound(d), NEW s \in d.sources
  PROVE  Held(d)[NameOf[s.path]] = s.content /\ NameOf[s.path] \in FileNames
  <1>1. NameOf[s.path] \in FileNames
    BY SoundTypes DEF Source
  <1>2. s \in Named(d, NameOf[s.path])
    BY DEF Named
  <1>3. \A t \in Named(d, NameOf[s.path]) : t = s
    BY DEF Sound, OneEach, Named
  <1> QED BY <1>1, <1>2, <1>3 DEF Held

LEMMA HeldType ==
  ASSUME NEW d, Sound(d)
  PROVE  Held(d) \in [FileNames -> Contents \cup {NoDate}]
  <1> SUFFICES ASSUME NEW n \in FileNames PROVE Held(d)[n] \in Contents \cup {NoDate}
    BY DEF Held
  <1>1. CASE Named(d, n) = {}
    BY <1>1 DEF Held
  <1>2. ASSUME NEW s \in Named(d, n) PROVE Held(d)[n] \in Contents
    BY <1>2, HeldIsStored, SoundTypes DEF Named, Source
  <1> QED BY <1>1, <1>2

LEMMA OfferedAfter ==
  ASSUME NEW i \in Importers, NEW up, NEW up1, up1[i].files = {},
         \A j \in Importers : j # i => up1[j] = up[j]
  PROVE  Offered(up1) = [Offered(up) EXCEPT ![i] = Nowhere]
  <1>1. \A n \in FileNames : Brought({}, n) = {}
    BY DEF Brought
  <1>2. Offered(up1)[i] = Nowhere
    BY <1>1 DEF Offered, Nowhere
  <1>3. \A j \in Importers : j # i => Offered(up1)[j] = Offered(up)[j]
    BY DEF Offered
  <1> QED BY <1>2, <1>3 DEF Offered

(* Accepting an upload is the arrival of its revisions. *)
LEMMA AcceptArrives ==
  ASSUME ImportInv, NEW i \in Importers, NEW files \in SUBSET File, Accept(i, files)
  PROVE  /\ Offered(upload)[i] = Nowhere
         /\ Offered(upload')[i] \in [FileNames -> SUBSET Contents]
         /\ Offered(upload') = [Offered(upload) EXCEPT ![i] = Offered(upload')[i]]
         /\ Held(db') = Held(db)
  <1>1. upload' = [upload EXCEPT ![i] = Received(files)] /\ upload[i] = Idle /\ db' = db
    BY DEF Accept
  <1>2. upload'[i].files = files /\ \A j \in Importers : j # i => upload'[j] = upload[j]
    BY <1>1 DEF ImportInv, TkpTypeOK, Received
  <1>3. Offered(upload)[i] = Nowhere
    BY <1>1 DEF Offered, Nowhere, Brought, Idle
  <1>4. Offered(upload')[i] \in [FileNames -> SUBSET Contents]
    BY <1>2 DEF Offered, Brought, File
  <1>5. \A j \in Importers : j # i => Offered(upload')[j] = Offered(upload)[j]
    BY <1>2 DEF Offered
  <1>6. Offered(upload') = [Offered(upload) EXCEPT ![i] = Offered(upload')[i]]
    BY <1>5 DEF Offered
  <1> QED BY <1>1, <1>3, <1>4, <1>6

(* A commit publishes one of the revisions brought under every name there is,   *)
(* and leaves the other names as they were.                                     *)
LEMMA CommitPublishes ==
  ASSUME ImportInv, NEW i \in Importers, CommitStore(i)
  PROVE  /\ \A n \in FileNames :
              IF Offered(upload)[i][n] = {} THEN Held(db')[n] = Held(db)[n]
                                            ELSE Held(db')[n] \in Offered(upload)[i][n]
         /\ Offered(upload') = [Offered(upload) EXCEPT ![i] = Nowhere]
  <1>1. /\ db' = tx /\ upload[i].todo = {} /\ upload' = [upload EXCEPT ![i] = Idle]
        /\ Sound(tx) /\ HalfStored(upload[i])
    BY DEF CommitStore, Storing, ImportInv
  <1>2. upload'[i].files = {} /\ \A j \in Importers : j # i => upload'[j] = upload[j]
    BY <1>1 DEF ImportInv, TkpTypeOK, Idle
  <1>3. ASSUME NEW n \in FileNames, Brought(upload[i].files, n) = {}
        PROVE  Held(db')[n] = Held(db)[n]
    <2>1. \A f \in upload[i].files : NameOf[f.path] # n
      BY <1>3 DEF Brought
    <2>2. Named(tx, n) = Named(db, n)
      BY <1>1, <2>1 DEF HalfStored
    <2> QED BY <1>1, <2>2 DEF Held
  <1>4. ASSUME NEW n \in FileNames, Brought(upload[i].files, n) # {}
        PROVE  Held(db')[n] \in Brought(upload[i].files, n)
    <2>1. PICK f \in upload[i].files : NameOf[f.path] = n
      BY <1>4 DEF Brought
    <2>2. PICK s \in tx.sources : NameOf[s.path] = n /\ s.content \in Brought(upload[i].files, n)
      BY <1>1, <2>1 DEF HalfStored
    <2> QED BY <1>1, <2>2, HeldIsStored
  <1>5. Offered(upload') = [Offered(upload) EXCEPT ![i] = Nowhere]
    BY <1>2, OfferedAfter
  <1>6. \A n \in FileNames : Offered(upload)[i][n] = Brought(upload[i].files, n)
    BY DEF Offered
  <1> QED BY <1>3, <1>4, <1>5, <1>6

LEMMA AbortDrops ==
  ASSUME ImportInv, NEW i \in Importers, Abort(i)
  PROVE  Offered(upload') = [Offered(upload) EXCEPT ![i] = Nowhere] /\ Held(db') = Held(db)
  <1>1. upload' = [upload EXCEPT ![i] = Idle] /\ db' = db
    BY DEF Abort
  <1>2. upload'[i].files = {} /\ \A j \in Importers : j # i => upload'[j] = upload[j]
    BY <1>1 DEF ImportInv, TkpTypeOK, Idle
  <1> QED BY <1>1, <1>2, OfferedAfter

(* The steps in between change neither. *)
LEMMA OthersStutter ==
  ASSUME ImportInv, NEW i \in Importers, BeginStore(i) \/ UpsertFile(i)
  PROVE  Offered(upload') = Offered(upload) /\ Held(db') = Held(db)
  <1>1. db' = db
    BY DEF BeginStore, UpsertFile
  <1>2. \A j \in Importers : upload'[j].files = upload[j].files
    BY DEF BeginStore, UpsertFile, ImportInv, TkpTypeOK
  <1> QED BY <1>1, <1>2 DEF Offered

LEMMA StepImplementsRegister ==
  ImportInv /\ [TkpNext]_tkpVars => [Register!Next]_(Register!vars)
  <1> SUFFICES ASSUME ImportInv, [TkpNext]_tkpVars PROVE [Register!Next]_(Register!vars)
    OBVIOUS
  <1>1. ASSUME NEW i \in Importers, NEW files \in SUBSET File, Accept(i, files)
        PROVE  Register!Arrive(i)
    BY <1>1, AcceptArrives
       DEF Register!Arrive, Register!Nothing, Held, Offered, Nowhere, Brought
  <1>2. ASSUME NEW i \in Importers, CommitStore(i) PROVE Register!Publish(i)
    BY <1>2, CommitPublishes
       DEF Register!Publish, Register!Nothing, Held, Offered, Nowhere, Brought
  <1>3. ASSUME NEW i \in Importers, Abort(i) PROVE Register!Drop(i)
    BY <1>3, AbortDrops
       DEF Register!Drop, Register!Nothing, Held, Offered, Nowhere, Brought
  <1>4. ASSUME NEW i \in Importers, BeginStore(i) \/ UpsertFile(i)
        PROVE  UNCHANGED Register!vars
    BY <1>4, OthersStutter DEF Register!vars, Held, Offered, Brought
  <1>5. ASSUME NEW w \in Calculations, CountItems(w) \/ ListItems(w)
        PROVE  UNCHANGED Register!vars
    <2>1. upload' = upload /\ db' = db
      BY <1>5 DEF CountItems, ListItems
    <2> QED BY <2>1 DEF Register!vars, Named
  <1>6. CASE UNCHANGED tkpVars
    BY <1>6 DEF tkpVars, Register!vars, Named
  <1>7. ASSUME NEW i \in Importers, ReceiveFolder(i) \/ ReceiveCatalog(i)
        PROVE  Register!Arrive(i)
    <2>1. PICK files \in SUBSET File : Accept(i, files)
      BY <1>7, FoldersAreTogether, BooksAreTogether DEF ReceiveFolder, ReceiveCatalog
    <2> QED BY <2>1, <1>1
  <1> QED BY <1>2, <1>3, <1>4, <1>5, <1>6, <1>7 DEF TkpNext, Register!Next

(* The catalog is a register by file name: whatever is uploaded, skipped,       *)
(* replaced, rolled back or read, an upload publishes all its revisions or none *)
(* (import_tkp_parse_result, admin_tkp_import, admin_tkp_import_folder).        *)
THEOREM ImportIsARegister == TkpSpec => UploadsArePublished
  <1>1. ASSUME TkpInit PROVE Register!Init
    <2>1. Sound(db) /\ \A i \in Importers : upload[i] = Idle
      BY <1>1, InitInv DEF ImportInv, TkpInit
    <2>2. Held(db) \in [FileNames -> Contents \cup {NoDate}]
      BY <2>1, HeldType
    <2>3. Offered(upload) = [i \in Importers |-> Nowhere]
      BY <2>1 DEF Offered, Nowhere, Brought, Idle
    <2> QED BY <2>2, <2>3
        DEF Register!Init, Register!Nothing, Held, Offered, Nowhere, Brought
  <1> QED BY <1>1, StepImplementsRegister, ImportInvariance, PTL
      DEF TkpSpec, UploadsArePublished, Register!Spec
==============================================================================
