---------------------------- MODULE LibraryProofs ----------------------------
(***************************************************************************)
(* Theorems about Library: of requests that do not overlap, then of any.   *)
(***************************************************************************)
EXTENDS Library, FiniteSetTheorems, TLAPS

(***************************************************************************)
(* Between two requests rows and files agree.  While one runs, what it has *)
(* read is still so, and what it has written is at a path, or under an id, *)
(* that no document has.                                                   *)
(***************************************************************************)
Path(i) == <<docs[i].owner, docs[i].slot>>
NoOnesPath(p) == \A i \in Documents : Path(i) # p

StoreTypes ==
    /\ docs \in [Ids -> Doc \cup {NoDoc}]
    /\ files \in [Paths -> Stored]
    /\ covers \in [Readers \X Ids -> Works \cup {0}]
    /\ members \in [Ids -> Works \cup {0}]
    /\ shares \in [ShareIds -> Share \cup {NoShare}]
    /\ uploads \in Nat

LibraryTypes == StoreTypes /\ threads \in [Threads -> LibraryRequest \cup {Idle}]

RowsAndFiles ==
    /\ \A i, j \in Documents : Path(i) = Path(j) => i = j
    /\ \A i \in Documents : files[Path(i)].work = docs[i].work
    /\ \A i \in Documents : covers[<<docs[i].owner, i>>] = docs[i].work
    /\ \A i \in Ids : members[i] # 0 => i \in Documents /\ docs[i].work = members[i]

(* Whose rows are behind its file.                                         *)
Current(i) == files[Path(i)].edition = docs[i].edition
Replaces(r, i) == r.op = "replace" /\ r.id = i
EditionsAgree ==
    ~spilled => \A i \in Documents : Current(i) \/ \E t \in Threads : Replaces(threads[t], i)

(* What a request knows.                                                   *)
Recalls(r) ==
    /\ r.op \in {"import", "insert"} => r.path[1] = r.user
    /\ r.op \in {"insert", "copy", "accept", "unlink"} => NoOnesPath(r.path)
    /\ r.op \in {"insert", "accept"} => files[r.path].work = r.work
    /\ r.op = "insert" => files[r.path].edition = 0
    /\ r.op = "accept" => files[r.path].edition = r.stored
    /\ r.op \in {"copy", "accept"} /\ ~spilled => r.edition = r.stored
    /\ r.op \in {"reimport", "replace", "delete"} => r.id \in Documents /\ r.path = Path(r.id)
    /\ r.op \in {"reimport", "replace"} => files[r.path].work = r.work
    /\ r.op = "replace" => files[r.path].edition = r.edition
    /\ r.op = "delete" => r.member \/ members[r.id] = 0
    /\ r.op = "unlink" => r.id \notin Documents
    /\ r.op = "collect" => r.id \in Documents /\ docs[r.id].work = r.work
    /\ r.op = "reset" => Documents = {}
    /\ r.op \in {"copy", "accept"} => shares[r.share].status # "none"

OneThread == \A c, d \in Threads : threads[c] # Idle /\ threads[d] # Idle => c = d

(* Whose file has no row (yet, or any more).                               *)
Keeps(r, p) == r.op \in {"insert", "accept", "unlink"} /\ r.path = p

FilesAccounted ==
    ~spilled => \A p \in Paths : Holds(p) =>
        \/ ~NoOnesPath(p)
        \/ \E t \in Threads : Keeps(threads[t], p) \/ threads[t].op = "reset"

TurnInv == /\ LibraryTypes /\ RowsAndFiles /\ OneThread
           /\ \A t \in Threads : Recalls(threads[t])
           /\ FilesAccounted /\ EditionsAgree

LibraryInv == inTurn => TurnInv

\* Rows and requests are none of the missing ones; their fields by kind.
LEMMA LibraryFields ==
    /\ \A x \in Doc : /\ x # NoDoc /\ x.owner \in Readers /\ x.slot \in Slots
                      /\ x.work \in Works /\ <<x.owner, x.slot>> \in Paths
                      /\ x.edition \in Editions /\ x.inbox \in BOOLEAN
    /\ 0 \notin Works /\ 0 \in Editions
    /\ Absent \in Stored /\ Absent.work = 0
    /\ Idle.op = "none"
<1>1. 0 \notin Works /\ 0 \in Editions
  BY LibraryAssumption DEF Works, Editions
<1>2. \A x \in Doc : /\ x.owner \in Readers /\ x.slot \in Slots
                     /\ x.work \in Works /\ <<x.owner, x.slot>> \in Paths
                     /\ x.edition \in Editions /\ x.inbox \in BOOLEAN
  BY DEF Doc, Paths
<1>3. \A x \in Doc : x # NoDoc
  <2>1. NoDoc.work = 0
    BY DEF NoDoc
  <2> QED BY <1>1, <1>2, <2>1
<1>4. Absent \in Stored /\ Absent.work = 0 /\ Idle.op = "none"
  BY <1>1 DEF Absent, Stored, Idle
<1> QED BY <1>1, <1>2, <1>3, <1>4

\* What a request is, by its kind.
LEMMA RequestKinds ==
    ASSUME NEW r \in LibraryRequest
    PROVE  /\ r # Idle /\ r.op # "none"
           /\ r.op \in {"import", "insert"} => r \in [op: {"import", "insert"}, user: Readers, path: Paths, work: Works]
           /\ r.op \in {"reimport", "replace"} =>
                r \in [op: {"reimport", "replace"}, path: Paths, id: Ids, work: Works, edition: Editions,
                       copied: BOOLEAN, moved: BOOLEAN]
           /\ r.op \in {"delete", "unlink"} => r \in [op: {"delete", "unlink"}, path: Paths, id: Ids, member: BOOLEAN]
           /\ r.op = "reset" => r \in [op: {"reset"}, path: {<< >>}]
           /\ r.op = "collect" => r \in [op: {"collect"}, path: {<< >>}, id: Ids, work: Works]
           /\ r.op \in {"copy", "accept"} =>
                r \in [op: {"copy", "accept"}, path: Paths, share: ShareIds, work: Works,
                       edition: Editions, stored: Editions]
<1>1. r.op # "none"
  BY DEF LibraryRequest
<1>2. r.op \in {"import", "insert"} => r \in [op: {"import", "insert"}, user: Readers, path: Paths, work: Works]
  BY DEF LibraryRequest
<1>3. r.op \in {"reimport", "replace"} =>
        r \in [op: {"reimport", "replace"}, path: Paths, id: Ids, work: Works, edition: Editions,
               copied: BOOLEAN, moved: BOOLEAN]
  BY DEF LibraryRequest
<1>4. r.op \in {"delete", "unlink"} => r \in [op: {"delete", "unlink"}, path: Paths, id: Ids, member: BOOLEAN]
  BY DEF LibraryRequest
<1>5. r.op = "reset" => r \in [op: {"reset"}, path: {<< >>}]
  BY DEF LibraryRequest
<1>6. r.op = "collect" => r \in [op: {"collect"}, path: {<< >>}, id: Ids, work: Works]
  BY DEF LibraryRequest
<1>7. r.op \in {"copy", "accept"} =>
        r \in [op: {"copy", "accept"}, path: Paths, share: ShareIds, work: Works,
               edition: Editions, stored: Editions]
  BY DEF LibraryRequest
<1> QED BY <1>1, <1>2, <1>3, <1>4, <1>5, <1>6, <1>7, LibraryFields

\* There is nothing at first.
LEMMA LibraryInitially == InitLibrary => LibraryInv
<1> SUFFICES ASSUME InitLibrary PROVE TurnInv
  BY DEF LibraryInv
<1>1. Documents = {} /\ \A p \in Paths : ~Holds(p)
  BY LibraryFields DEF InitLibrary, Documents, Holds
<1>2. LibraryTypes
  BY LibraryFields DEF InitLibrary, LibraryTypes, StoreTypes
<1>3. OneThread /\ \A t \in Threads : Recalls(threads[t])
  BY LibraryFields DEF InitLibrary, OneThread, Recalls
<1>4. RowsAndFiles /\ FilesAccounted /\ EditionsAgree
  BY <1>1 DEF InitLibrary, RowsAndFiles, FilesAccounted, EditionsAgree
<1> QED BY <1>2, <1>3, <1>4 DEF TurnInv

\* A request that begins: no other runs, and only the thread changes.
LEMMA BeginKeeps ==
    ASSUME TurnInv, inTurn, NEW t \in Threads, NEW r \in LibraryRequest, Begins(t, r), Recalls(r),
           UNCHANGED <<docs, files, covers, members, shares, spilled>>, uploads' \in Nat
    PROVE  TurnInv'
<1>1. threads' = [threads EXCEPT ![t] = r] /\ \A d \in Threads : threads[d] = Idle
  BY DEF Begins
<1>2. /\ threads' \in [Threads -> LibraryRequest \cup {Idle}] /\ threads'[t] = r
      /\ \A d \in Threads \ {t} : threads'[d] = Idle
  BY <1>1 DEF TurnInv, LibraryTypes
<1>3. LibraryTypes'
  BY <1>2 DEF TurnInv, LibraryTypes, StoreTypes, Ids, Paths, Slots, Works, Editions, ShareIds, Doc, Share, Stored, LibraryRequest
<1>4. RowsAndFiles'
  BY DEF TurnInv, RowsAndFiles, Documents, Path
<1>5. OneThread'
  BY <1>2 DEF OneThread
<1>6. \A d \in Threads : Recalls(threads[d])'
  <2>1. \A d \in Threads : threads'[d] = r \/ threads'[d] = Idle
    BY <1>2
  <2>2. Recalls(Idle)
    BY LibraryFields DEF Recalls
  <2> QED BY <2>1, <2>2 DEF Recalls, NoOnesPath, Path, Documents
<1>7. FilesAccounted'
  <2>1. \A d \in Threads, p \in Paths : ~Keeps(threads[d], p) /\ threads[d].op # "reset"
    BY <1>1, LibraryFields DEF Keeps
  <2> QED BY <2>1 DEF TurnInv, FilesAccounted, NoOnesPath, Path, Documents, Holds
<1>8. EditionsAgree'
  <2>1. \A d \in Threads, i \in Documents : ~Replaces(threads[d], i)
    BY <1>1, LibraryFields DEF Replaces
  <2> QED BY <2>1 DEF TurnInv, EditionsAgree, Current, Path, Documents
<1> QED BY <1>3, <1>4, <1>5, <1>6, <1>7, <1>8 DEF TurnInv

\* A request that goes on, or ends: no other runs, before or after.
LEMMA RunningStep ==
    ASSUME TurnInv, NEW t \in Threads, threads[t] # Idle, NEW r \in LibraryRequest \cup {Idle},
           threads' = [threads EXCEPT ![t] = r]
    PROVE  /\ threads' \in [Threads -> LibraryRequest \cup {Idle}]
           /\ threads'[t] = r
           /\ \A d \in Threads \ {t} : threads[d] = Idle /\ threads'[d] = Idle
           /\ OneThread'
<1>1. threads' \in [Threads -> LibraryRequest \cup {Idle}] /\ threads'[t] = r
  BY DEF TurnInv, LibraryTypes
<1>2. \A d \in Threads \ {t} : threads[d] = Idle /\ threads'[d] = Idle
  BY DEF TurnInv, LibraryTypes, OneThread
<1> QED BY <1>1, <1>2 DEF OneThread

\* What a request that goes on has to keep.
LEMMA GoneOn ==
    ASSUME TurnInv, NEW t \in Threads, threads[t] # Idle, NEW r \in LibraryRequest,
           threads' = [threads EXCEPT ![t] = r],
           StoreTypes', RowsAndFiles', Recalls(r)',
           ~spilled' => \A p \in Paths : Holds(p)' => ~NoOnesPath(p)' \/ Keeps(r, p),
           ~spilled' => \A i \in Documents' : Current(i)' \/ Replaces(r, i)
    PROVE  TurnInv'
<1>1. /\ threads' \in [Threads -> LibraryRequest \cup {Idle}] /\ threads'[t] = r /\ OneThread'
      /\ \A d \in Threads : threads'[d] = r \/ threads'[d] = Idle
  BY RunningStep
<1>2. LibraryTypes'
  BY <1>1 DEF LibraryTypes
<1>3. \A d \in Threads : Recalls(threads[d])'
  <2>1. Recalls(Idle)'
    BY LibraryFields DEF Recalls
  <2> QED BY <1>1, <2>1 DEF Recalls
<1>4. FilesAccounted'
  <2>1. SUFFICES ASSUME ~spilled', NEW p \in Paths, Holds(p)', NoOnesPath(p)'
                 PROVE  Keeps(threads[t], p)'
    BY DEF FilesAccounted
  <2> QED BY <1>1, <2>1 DEF Keeps
<1>5. EditionsAgree'
  BY <1>1 DEF EditionsAgree, Replaces
<1> QED BY <1>1, <1>2, <1>3, <1>4, <1>5 DEF TurnInv

\* What a request that ends has to keep: every file then has its row.
LEMMA Ended ==
    ASSUME TurnInv, NEW t \in Threads, threads[t] # Idle, Finishes(t),
           StoreTypes', RowsAndFiles',
           ~spilled' => \A p \in Paths : Holds(p)' => ~NoOnesPath(p)',
           ~spilled' => \A i \in Documents' : Current(i)'
    PROVE  TurnInv'
<1>1. threads' \in [Threads -> LibraryRequest \cup {Idle}] /\ OneThread' /\ \A d \in Threads : threads'[d] = Idle
  BY RunningStep DEF Finishes
<1>2. LibraryTypes'
  BY <1>1 DEF LibraryTypes
<1>3. \A d \in Threads : Recalls(threads[d])'
  BY <1>1, LibraryFields DEF Recalls
<1>4. FilesAccounted' /\ EditionsAgree'
  BY DEF FilesAccounted, EditionsAgree
<1> QED BY <1>1, <1>2, <1>3, <1>4 DEF TurnInv

\* Documents, while one request runs.
LEMMA DocumentFields ==
    ASSUME TurnInv, NEW i \in Documents
    PROVE  /\ i \in Ids /\ docs[i] \in Doc /\ Path(i) \in Paths /\ Holds(Path(i))
           /\ docs[i].owner \in Readers /\ docs[i].work \in Works
           /\ files[Path(i)].work = docs[i].work /\ files[Path(i)] \in Stored
<1>1. i \in Ids /\ docs[i] \in Doc
  BY DEF TurnInv, LibraryTypes, StoreTypes, Documents
<1>2. Path(i) \in Paths /\ docs[i].owner \in Readers /\ docs[i].work \in Works
  BY <1>1, LibraryFields DEF Path
<1>3. files[Path(i)].work = docs[i].work /\ files[Path(i)] \in Stored
  BY <1>2 DEF TurnInv, RowsAndFiles, LibraryTypes, StoreTypes
<1> QED BY <1>1, <1>2, <1>3, LibraryFields DEF Holds

\* While a request runs that writes no row over, rows are as their files.
LEMMA RowsAreCurrent ==
    ASSUME TurnInv, ~spilled, NEW t \in Threads, threads[t] # Idle, threads[t].op # "replace",
           NEW i \in Documents
    PROVE  Current(i)
<1>1. \A d \in Threads : ~Replaces(threads[d], i)
  BY LibraryFields DEF TurnInv, OneThread, Replaces
<1> QED BY <1>1 DEF TurnInv, EditionsAgree

\* The name a file is written under belongs to no document.
LEMMA DestinationsAreFree ==
    ASSUME TurnInv, NEW u \in Readers, NEW p \in Destinations(u)
    PROVE  p \in Paths /\ p[1] = u /\ NoOnesPath(p)
<1>1. CASE ~Holds(<<u, 0>>)
  <2>1. p = <<u, 0>>
    BY <1>1 DEF Destinations
  <2>2. p \in Paths /\ p[1] = u
    BY <2>1, LibraryAssumption DEF Paths, Slots
  <2> QED BY <1>1, <2>1, <2>2, DocumentFields DEF NoOnesPath
<1>2. CASE Holds(<<u, 0>>)
  <2>1. PICK s \in Unused(u) : p = <<u, s>>
    BY <1>2 DEF Destinations
  <2>2. s \in Slots /\ \A i \in Documents : <<docs[i].owner, docs[i].slot>> # <<u, s>>
    BY <2>1 DEF Unused
  <2> QED BY <2>1, <2>2 DEF NoOnesPath, Path, Paths
<1> QED BY <1>1, <1>2

\* An id that a row can get is no document's, and nothing hangs on it.
LEMMA NewIdsAreFree ==
    ASSUME TurnInv, NEW i \in Ids, IsNewId(i)
    PROVE  i \notin Documents /\ members[i] = 0
<1>1. i \notin Documents
  BY DEF IsNewId, Ids
<1> QED BY <1>1 DEF TurnInv, RowsAndFiles

\* A begun request changes nothing that TurnInv speaks of: the requests
\* that read first (_import_document_from_bytes, reimport_document,
\* delete_document, add_collection_documents, respond_to_share).
LEMMA ReadsKeep ==
    ASSUME TurnInv, inTurn, NEW t \in Threads,
           \/ \E u \in Readers : ImportCheck(t, u)
           \/ \E i \in Ids : ReimportRead(t, i) \/ DeleteRead(t, i) \/ CollectRead(t, i)
           \/ \E s \in ShareIds : AcceptRead(t, s)
    PROVE  TurnInv'
<1>1. ASSUME NEW u \in Readers, ImportCheck(t, u) PROVE TurnInv'
  <2> DEFINE r == [op |-> "import", user |-> u, path |-> <<u, 0>>, work |-> uploads + 1]
  <2>1. Begins(t, r) /\ UNCHANGED <<docs, files, covers, members, shares, spilled>>
    BY <1>1 DEF ImportCheck
  <2>2. uploads \in Nat /\ uploads' \in Nat /\ uploads + 1 \in Works
    BY <1>1, LibraryAssumption DEF ImportCheck, TurnInv, LibraryTypes, StoreTypes, Works
  <2>3. r \in LibraryRequest
    BY <2>2, LibraryAssumption DEF LibraryRequest, Paths, Slots
  <2>4. Recalls(r)
    BY DEF Recalls
  <2> HIDE DEF r
  <2> QED BY <2>1, <2>2, <2>3, <2>4, BeginKeeps
<1>2. ASSUME NEW i \in Ids, ReimportRead(t, i) PROVE TurnInv'
  <2>1. /\ i \in Documents /\ uploads' \in Nat
        /\ UNCHANGED <<docs, files, covers, members, shares, spilled>>
    BY <1>2 DEF ReimportRead, TurnInv, LibraryTypes, StoreTypes
  <2>2. PICK e \in Editions, moved \in BOOLEAN :
          Begins(t, [op |-> "reimport", path |-> Path(i), id |-> i, work |-> docs[i].work, edition |-> e,
                     copied |-> files[Path(i)].copied \/ ~Holds(Path(i)), moved |-> moved])
    <3>1. files[Path(i)].work = docs[i].work /\ files[Path(i)].edition \in Editions
      BY <2>1, DocumentFields DEF Stored
    <3>2. docs[i].inbox \in BOOLEAN
      BY <2>1, DocumentFields, LibraryFields
    <3>3. (docs[i].inbox \/ docs[i].via # 0) \in BOOLEAN /\ FALSE \in BOOLEAN
      OBVIOUS
    <3> QED BY <1>2, <3>1, <3>3 DEF ReimportRead, Path
  <2> DEFINE copied == files[Path(i)].copied \/ ~Holds(Path(i))
             r == [op |-> "reimport", path |-> Path(i), id |-> i, work |-> docs[i].work, edition |-> e,
                   copied |-> copied, moved |-> moved]
  <2>3. copied \in BOOLEAN /\ Begins(t, r)
    BY <2>2
  <2> HIDE DEF copied
  <2>4. r \in LibraryRequest
    BY <2>1, <2>3, DocumentFields DEF LibraryRequest
  <2>5. Recalls(r)
    BY <2>1, DocumentFields DEF Recalls
  <2> HIDE DEF r
  <2> QED BY <2>1, <2>3, <2>4, <2>5, BeginKeeps
<1>3. ASSUME NEW i \in Ids, DeleteRead(t, i) PROVE TurnInv'
  <2> DEFINE r == [op |-> "delete", path |-> <<docs[i].owner, docs[i].slot>>, id |-> i,
                   member |-> members[i] # 0]
  <2>1. /\ Begins(t, r) /\ UNCHANGED <<docs, files, covers, members, shares, spilled>>
        /\ i \in Documents /\ uploads' \in Nat
    BY <1>3 DEF DeleteRead, TurnInv, LibraryTypes, StoreTypes
  <2>2. Path(i) \in Paths
    BY <2>1, DocumentFields
  <2>3. r \in LibraryRequest
    BY <2>2 DEF LibraryRequest, Path
  <2>4. Recalls(r)
    <3>1. r.op = "delete" /\ r.id = i /\ r.path = Path(i)
      BY DEF Path
    <3>2. r.member \/ members[r.id] = 0
      BY Zenon
    <3> HIDE DEF r
    <3> QED BY <2>1, <3>1, <3>2 DEF Recalls
  <2> HIDE DEF r
  <2> QED BY <2>1, <2>3, <2>4, BeginKeeps
<1>4. ASSUME NEW i \in Ids, CollectRead(t, i) PROVE TurnInv'
  <2> DEFINE r == [op |-> "collect", path |-> << >>, id |-> i, work |-> docs[i].work]
  <2>1. /\ Begins(t, r) /\ UNCHANGED <<docs, files, covers, members, shares, spilled>>
        /\ i \in Documents /\ uploads' \in Nat
    BY <1>4 DEF CollectRead, TurnInv, LibraryTypes, StoreTypes
  <2>2. docs[i].work \in Works
    BY <2>1, DocumentFields
  <2>3. r \in LibraryRequest
    BY <2>2 DEF LibraryRequest
  <2>4. Recalls(r)
    BY <2>1 DEF Recalls
  <2> HIDE DEF r
  <2> QED BY <2>1, <2>3, <2>4, BeginKeeps
<1>5. ASSUME NEW s \in ShareIds, AcceptRead(t, s) PROVE TurnInv'
  <2>1. /\ shares[s].status = "pending" /\ shares[s].id \in Documents
        /\ UNCHANGED <<docs, files, covers, members, shares, spilled>> /\ uploads' \in Nat
    BY <1>5 DEF AcceptRead, TurnInv, LibraryTypes, StoreTypes
  <2>2. shares[s].to \in Readers
    BY <2>1 DEF TurnInv, LibraryTypes, StoreTypes, Share, NoShare
  <2> DEFINE i == shares[s].id
             w == files[Path(i)].work
             e == docs[i].edition
             f == files[Path(i)].edition
  <2>3. PICK p \in Destinations(shares[s].to) :
          Begins(t, [op |-> "copy", path |-> p, share |-> s, work |-> w, edition |-> e, stored |-> f])
    BY <1>5 DEF AcceptRead, Path
  <2>4. w \in Works /\ e \in Editions /\ f \in Editions
    <3>1. i \in Documents
      BY <2>1
    <3> QED BY <3>1, DocumentFields, LibraryFields DEF Stored
  <2>5. p \in Paths /\ NoOnesPath(p)
    BY <2>2, DestinationsAreFree
  <2>6. ~spilled => e = f
    <3>1. \A d \in Threads : ~Replaces(threads[d], i)
      BY <2>3, LibraryFields DEF Begins, Replaces
    <3> QED BY <2>1, <3>1 DEF TurnInv, EditionsAgree, Current
  <2> DEFINE r == [op |-> "copy", path |-> p, share |-> s, work |-> w, edition |-> e, stored |-> f]
  <2> HIDE DEF w, e, f
  <2>7. r \in LibraryRequest
    BY <2>4, <2>5 DEF LibraryRequest
  <2>8. Recalls(r)
    BY <2>1, <2>5, <2>6 DEF Recalls
  <2>9. Begins(t, r)
    BY <2>3
  <2> HIDE DEF r
  <2> QED BY <2>1, <2>7, <2>8, <2>9, BeginKeeps
<1> QED BY <1>1, <1>2, <1>3, <1>4, <1>5

\* The row, and the cover, of an import or an accepted share.
LEMMA RowInserted ==
    ASSUME TurnInv, NEW t \in Threads, threads[t].op \in {"insert", "accept"},
           NEW i \in Ids, IsNewId(i), NEW via \in ShareIds \cup {0},
           NEW e \in Editions, NEW inbox \in BOOLEAN, ~spilled => e = files[threads[t].path].edition,
           docs' = Inserted(i, threads[t].path, threads[t].work, e, inbox, via),
           covers' = WithCover(threads[t].path[1], i, threads[t].work),
           shares' \in [ShareIds -> Share \cup {NoShare}],
           Finishes(t), UNCHANGED <<files, members, uploads, spilled>>
    PROVE  TurnInv'
<1> DEFINE p == threads[t].path
           w == threads[t].work
           x == [owner |-> p[1], slot |-> p[2], work |-> w, via |-> via, edition |-> e, inbox |-> inbox]
<1>1. threads[t] \in LibraryRequest /\ threads[t] # Idle
  BY LibraryFields DEF TurnInv, LibraryTypes
<1>2. p \in Paths /\ w \in Works
  BY <1>1, RequestKinds
<1>3. NoOnesPath(p) /\ files[p].work = w
  BY DEF TurnInv, Recalls
<1>4. docs' = [docs EXCEPT ![i] = x] /\ covers' = [covers EXCEPT ![<<p[1], i>>] = w]
  BY DEF Inserted, WithCover
<1>5. p[1] \in Readers /\ p[2] \in Slots /\ p = <<p[1], p[2]>>
  BY <1>2 DEF Paths
<1>6. x \in Doc /\ x.owner = p[1] /\ x.slot = p[2] /\ x.work = w /\ x.edition = e
  BY <1>2, <1>5 DEF Doc
<1> HIDE DEF p, w, x
<1>7. i \notin Documents /\ members[i] = 0
  BY NewIdsAreFree
<1>8. docs \in [Ids -> Doc \cup {NoDoc}] /\ covers \in [Readers \X Ids -> Works \cup {0}]
  BY DEF TurnInv, LibraryTypes, StoreTypes
<1>9. StoreTypes'
  BY <1>2, <1>4, <1>5, <1>6, <1>8 DEF TurnInv, LibraryTypes, StoreTypes, Ids, Paths, Slots, Works, Editions, ShareIds, Doc, Share, Stored
<1>10. docs'[i] = x /\ \A j \in Ids \ {i} : docs'[j] = docs[j]
  BY <1>4, <1>8
<1>11. Documents' = Documents \cup {i}
  <2>1. x # NoDoc
    BY <1>6, LibraryFields
  <2> QED BY <1>10, <2>1 DEF Documents, Ids
<1>12. Path(i)' = p /\ \A j \in Documents : Path(j)' = Path(j) /\ Path(j) # p
  BY <1>3, <1>5, <1>6, <1>7, <1>10 DEF Path, NoOnesPath, Documents
<1>13. covers'[<<p[1], i>>] = w /\ \A j \in Documents : covers'[<<docs[j].owner, j>>] = covers[<<docs[j].owner, j>>]
  <2>1. \A j \in Documents : <<docs[j].owner, j>> \in Readers \X Ids /\ <<docs[j].owner, j>> # <<p[1], i>>
    BY <1>7, DocumentFields
  <2>2. <<p[1], i>> \in Readers \X Ids
    BY <1>5
  <2> QED BY <1>4, <1>8, <2>1, <2>2
<1>14. RowsAndFiles'
  <2>1. \A j, k \in Documents' : Path(j)' = Path(k)' => j = k
    BY <1>11, <1>12 DEF TurnInv, RowsAndFiles
  <2>2. \A j \in Documents' : files'[Path(j)'].work = docs'[j].work
    BY <1>3, <1>6, <1>7, <1>10, <1>11, <1>12, DocumentFields DEF TurnInv, RowsAndFiles
  <2>3. \A j \in Documents' : covers'[<<docs'[j].owner, j>>] = docs'[j].work
    BY <1>6, <1>7, <1>10, <1>11, <1>13, DocumentFields DEF TurnInv, RowsAndFiles
  <2>4. \A j \in Ids : members'[j] # 0 => j \in Documents' /\ docs'[j].work = members'[j]
    BY <1>7, <1>10, <1>11 DEF TurnInv, RowsAndFiles
  <2> QED BY <2>1, <2>2, <2>3, <2>4 DEF RowsAndFiles, Ids
<1>15. ASSUME ~spilled', NEW q \in Paths, Holds(q)' PROVE ~NoOnesPath(q)'
  <2>1. Holds(q) /\ ~spilled
    BY <1>15 DEF Holds
  <2>2. ~NoOnesPath(q) \/ \E d \in Threads : Keeps(threads[d], q) \/ threads[d].op = "reset"
    BY <2>1 DEF TurnInv, FilesAccounted
  <2>3. CASE NoOnesPath(q)
    <3>1. PICK d \in Threads : Keeps(threads[d], q) \/ threads[d].op = "reset"
      BY <2>2, <2>3
    <3>2. d = t
      BY <1>1, <3>1, LibraryFields DEF TurnInv, OneThread, Keeps
    <3>3. q = p
      BY <3>1, <3>2 DEF Keeps, p
    <3> QED BY <3>3, <1>11, <1>12 DEF NoOnesPath
  <2>4. CASE ~NoOnesPath(q)
    BY <2>4, <1>11, <1>12 DEF NoOnesPath
  <2> QED BY <2>3, <2>4
<1>16. ASSUME ~spilled', NEW j \in Documents' PROVE Current(j)'
  <2>1. CASE j = i
    BY <1>6, <1>10, <1>12, <1>16, <2>1 DEF Current, p
  <2>2. CASE j # i
    <3>1. j \in Documents /\ Current(j)
      BY <1>1, <1>11, <1>16, <2>2, RowsAreCurrent
    <3> QED BY <1>10, <1>12, <2>2, <3>1 DEF Current, Documents
  <2> QED BY <2>1, <2>2
<1> QED BY <1>1, <1>9, <1>14, <1>15, <1>16, Ended

\* A cover written before a commit that fails is under no document's id, or
\* is the document's.
LEMMA FailedCoversAreFree ==
    ASSUME TurnInv, NEW t \in Threads, CoverIfFailed(t)
    PROVE  /\ covers' \in [Readers \X Ids -> Works \cup {0}]
           /\ \A j \in Documents : covers'[<<docs[j].owner, j>>] = covers[<<docs[j].owner, j>>]
<1>1. covers \in [Readers \X Ids -> Works \cup {0}]
  BY DEF TurnInv, LibraryTypes, StoreTypes
<1>2. ASSUME threads[t].op \in {"insert", "accept"}, NEW i \in Ids, IsNewId(i),
             covers' = WithCover(threads[t].path[1], i, threads[t].work)
      PROVE  /\ covers' \in [Readers \X Ids -> Works \cup {0}]
             /\ \A j \in Documents : covers'[<<docs[j].owner, j>>] = covers[<<docs[j].owner, j>>]
  <2>1. threads[t] \in LibraryRequest
    BY <1>2, LibraryFields DEF TurnInv, LibraryTypes
  <2>2. threads[t].path \in Paths /\ threads[t].work \in Works
    BY <2>1, <1>2, RequestKinds
  <2>3. <<threads[t].path[1], i>> \in Readers \X Ids
    BY <2>2 DEF Paths
  <2>4. \A j \in Documents : <<docs[j].owner, j>> \in Readers \X Ids /\ <<docs[j].owner, j>> # <<threads[t].path[1], i>>
    BY <1>2, NewIdsAreFree, DocumentFields
  <2> DEFINE w == threads[t].work
             u == threads[t].path[1]
  <2>5. covers' = [covers EXCEPT ![<<u, i>>] = w]
    BY <1>2 DEF WithCover
  <2> QED BY <1>1, <2>2, <2>3, <2>4, <2>5
<1>3. ASSUME threads[t].op = "replace", covers' = WithCover(threads[t].path[1], threads[t].id, threads[t].work)
      PROVE  covers' = covers
  <2>1. Recalls(threads[t])
    BY DEF TurnInv
  <2>2. /\ threads[t].id \in Documents /\ threads[t].path = Path(threads[t].id)
        /\ files[threads[t].path].work = threads[t].work
    BY <1>3, <2>1 DEF Recalls
  <2>3. /\ threads[t].path[1] = docs[threads[t].id].owner
        /\ covers[<<docs[threads[t].id].owner, threads[t].id>>] = threads[t].work
    BY <2>2, DocumentFields DEF Path, TurnInv, RowsAndFiles
  <2> QED BY <1>1, <1>3, <2>3 DEF WithCover
<1> QED BY <1>1, <1>2, <1>3 DEF CoverIfFailed

\* An import, from its file to its row, or to neither
\* (_import_document_from_bytes).
LEMMA ImportKeeps ==
    ASSUME TurnInv, NEW t \in Threads, ImportWrite(t) \/ ImportCommit(t) \/ ImportFails(t)
    PROVE  TurnInv'
<1>1. threads[t] \in LibraryRequest /\ threads[t] # Idle
  BY LibraryFields DEF ImportWrite, ImportCommit, ImportFails, TurnInv, LibraryTypes
<1>2. CASE ImportWrite(t)
  <2> DEFINE r == threads[t]
  <2>1. r.op = "import" /\ r.user \in Readers /\ r.work \in Works
    BY <1>1, <1>2, RequestKinds DEF ImportWrite
  <2>2. PICK p \in Destinations(r.user) :
          /\ files' = [files EXCEPT ![p] = [work |-> r.work, edition |-> 0, copied |-> FALSE]]
          /\ threads' = [threads EXCEPT ![t] = [r EXCEPT !.op = "insert", !.path = p]]
    BY <1>2 DEF ImportWrite
  <2>3. p \in Paths /\ p[1] = r.user /\ NoOnesPath(p)
    BY <2>1, DestinationsAreFree
  <2>4. UNCHANGED <<docs, covers, members, shares, uploads, spilled>>
    BY <1>2 DEF ImportWrite
  <2> DEFINE f == [work |-> r.work, edition |-> 0, copied |-> FALSE]
  <2>5. r \in [op: {"import", "insert"}, user: Readers, path: Paths, work: Works]
    BY <1>1, <2>1, RequestKinds
  <2>6. PICK n \in LibraryRequest : n = [r EXCEPT !.op = "insert", !.path = p]
    <3>1. [r EXCEPT !.op = "insert", !.path = p] \in LibraryRequest
      BY <2>3, <2>5 DEF LibraryRequest
    <3> QED BY <3>1
  <2>7. n.op = "insert" /\ n.user = r.user /\ n.path = p /\ n.work = r.work
    BY <2>5, <2>6
  <2>8. f \in Stored /\ f.work = r.work /\ f.edition = 0
    BY <2>1, LibraryFields DEF Stored
  <2>9. threads' = [threads EXCEPT ![t] = n] /\ files' = [files EXCEPT ![p] = f]
    BY <2>2, <2>6
  <2> HIDE DEF f
  <2>10. /\ files' \in [Paths -> Stored] /\ files'[p].work = r.work /\ files'[p].edition = 0
         /\ \A q \in Paths : q # p => files'[q] = files[q]
    BY <2>3, <2>8, <2>9 DEF TurnInv, LibraryTypes, StoreTypes
  <2>11. StoreTypes'
    BY <2>4, <2>10 DEF TurnInv, LibraryTypes, StoreTypes, Ids, Paths, Slots, Works, Editions, ShareIds, Doc, Share, Stored
  <2>12. RowsAndFiles'
    <3>1. \A i \in Documents : files'[Path(i)] = files[Path(i)]
      BY <2>3, <2>10, DocumentFields DEF NoOnesPath
    <3> QED BY <2>4, <3>1 DEF TurnInv, RowsAndFiles, Documents, Path
  <2>13. Recalls(n)'
    BY <2>3, <2>4, <2>7, <2>10 DEF Recalls, NoOnesPath, Documents, Path
  <2>14. ASSUME ~spilled', NEW q \in Paths, Holds(q)' PROVE ~NoOnesPath(q)' \/ Keeps(n, q)
    <3>1. CASE q = p
      BY <3>1, <2>7 DEF Keeps
    <3>2. CASE q # p
      <4>1. Holds(q) /\ ~spilled
        BY <2>4, <2>10, <2>14, <3>2 DEF Holds
      <4>2. \A d \in Threads : ~Keeps(threads[d], q) /\ threads[d].op # "reset"
        BY <1>1, <2>1, LibraryFields DEF TurnInv, OneThread, Keeps
      <4> QED BY <2>4, <4>1, <4>2 DEF TurnInv, FilesAccounted, NoOnesPath, Documents, Path
    <3> QED BY <3>1, <3>2
  <2>15. ASSUME ~spilled', NEW i \in Documents' PROVE Current(i)'
    <3>1. i \in Documents /\ Current(i)
      BY <1>1, <2>1, <2>4, <2>15, RowsAreCurrent DEF Documents
    <3>2. files'[Path(i)] = files[Path(i)]
      BY <2>3, <2>10, <3>1, DocumentFields DEF NoOnesPath
    <3> QED BY <2>4, <3>1, <3>2 DEF Current, Path
  <2> QED BY <1>1, <2>6, <2>9, <2>11, <2>12, <2>13, <2>14, <2>15, GoneOn
<1>3. CASE ImportCommit(t)
  <2>1. threads[t].op = "insert"
    BY <1>3 DEF ImportCommit
  <2>2. threads[t].path[1] = threads[t].user
    BY <2>1 DEF TurnInv, Recalls
  <2>3. PICK i \in Ids : /\ IsNewId(i)
                         /\ docs' = Inserted(i, threads[t].path, threads[t].work, 0, threads[t].work \in Inbox, 0)
                         /\ covers' = WithCover(threads[t].user, i, threads[t].work)
    BY <1>3 DEF ImportCommit
  <2>4. Finishes(t) /\ UNCHANGED <<files, members, uploads, spilled>> /\ shares' = shares
    BY <1>3 DEF ImportCommit
  <2>5. shares' \in [ShareIds -> Share \cup {NoShare}]
    BY <2>4 DEF TurnInv, LibraryTypes, StoreTypes
  <2>6. (threads[t].work \in Inbox) \in BOOLEAN
    OBVIOUS
  <2>7. 0 \in Editions /\ files[threads[t].path].edition = 0
    BY <2>1, LibraryFields DEF TurnInv, Recalls
  <2> QED BY <2>1, <2>2, <2>3, <2>4, <2>5, <2>6, <2>7, RowInserted
<1>4. CASE ImportFails(t)
  <2>1. /\ threads[t].op = "insert" /\ files' = [files EXCEPT ![threads[t].path] = Absent]
        /\ CoverIfFailed(t) /\ Finishes(t) /\ UNCHANGED <<docs, members, shares, uploads, spilled>>
    BY <1>4 DEF ImportFails
  <2> DEFINE p == threads[t].path
  <2>2. p \in Paths /\ NoOnesPath(p)
    BY <1>1, <2>1, RequestKinds DEF TurnInv, Recalls
  <2>3. files' \in [Paths -> Stored] /\ files'[p] = Absent /\ \A q \in Paths : q # p => files'[q] = files[q]
    BY <2>1, <2>2, LibraryFields DEF TurnInv, LibraryTypes, StoreTypes
  <2>4. StoreTypes'
    BY <2>1, <2>3, FailedCoversAreFree DEF TurnInv, LibraryTypes, StoreTypes, Ids, Paths, Slots, Works, Editions, ShareIds, Doc, Share, Stored
  <2>5. RowsAndFiles'
    <3>1. \A i \in Documents : files'[Path(i)] = files[Path(i)]
      BY <2>2, <2>3, DocumentFields DEF NoOnesPath
    <3> QED BY <2>1, <3>1, FailedCoversAreFree DEF TurnInv, RowsAndFiles, Documents, Path
  <2>6. ASSUME ~spilled', NEW q \in Paths, Holds(q)' PROVE ~NoOnesPath(q)'
    <3>1. q # p /\ Holds(q) /\ ~spilled
      BY <2>1, <2>3, <2>6, LibraryFields DEF Holds
    <3>2. \A d \in Threads : ~Keeps(threads[d], q) /\ threads[d].op # "reset"
      BY <1>1, <2>1, <3>1, LibraryFields DEF TurnInv, OneThread, Keeps
    <3> QED BY <2>1, <3>1, <3>2 DEF TurnInv, FilesAccounted, NoOnesPath, Documents, Path
  <2>7. ASSUME ~spilled', NEW i \in Documents' PROVE Current(i)'
    <3>1. i \in Documents /\ Current(i)
      BY <1>1, <2>1, <2>7, RowsAreCurrent DEF Documents
    <3>2. files'[Path(i)] = files[Path(i)]
      BY <2>2, <2>3, <3>1, DocumentFields DEF NoOnesPath
    <3> QED BY <2>1, <3>1, <3>2 DEF Current, Path
  <2> QED BY <1>1, <2>1, <2>4, <2>5, <2>6, <2>7, Ended
<1> QED BY <1>2, <1>3, <1>4

\* A file is written over in an edition, the rows follow it
\* (reimport_document, _sync_document_source_copy).
LEMMA ReimportWrites ==
    ASSUME TurnInv, NEW t \in Threads, ReimportWrite(t)
    PROVE  TurnInv'
<1> DEFINE r == threads[t]
           f == [work |-> r.work, edition |-> r.edition, copied |-> r.copied]
<1>1. /\ r.op = "reimport" /\ files' = [files EXCEPT ![r.path] = f] /\ GoesOn(t, "replace")
      /\ UNCHANGED <<docs, covers, members, shares, uploads, spilled>>
  BY DEF ReimportWrite
<1>2. r # Idle /\ r \in LibraryRequest
  BY <1>1, LibraryFields DEF TurnInv, LibraryTypes
<1>3. r \in [op: {"reimport", "replace"}, path: Paths, id: Ids, work: Works, edition: Editions,
             copied: BOOLEAN, moved: BOOLEAN]
  BY <1>1, <1>2, RequestKinds
<1>4. r.id \in Documents /\ r.path = Path(r.id) /\ files[r.path].work = r.work
  BY <1>1 DEF TurnInv, Recalls
<1>5. f \in Stored /\ f.work = r.work /\ f.edition = r.edition
  BY <1>3 DEF Stored
<1> HIDE DEF f
<1>6. /\ files' \in [Paths -> Stored] /\ files'[r.path].work = r.work /\ files'[r.path].edition = r.edition
      /\ \A q \in Paths : q # r.path => files'[q] = files[q]
  BY <1>1, <1>3, <1>5 DEF TurnInv, LibraryTypes, StoreTypes
<1>7. PICK n \in LibraryRequest : n = [r EXCEPT !.op = "replace"]
  <2>1. [r EXCEPT !.op = "replace"] \in LibraryRequest
    BY <1>3 DEF LibraryRequest
  <2> QED BY <2>1
<1>8. /\ n.op = "replace" /\ n.path = r.path /\ n.id = r.id /\ n.work = r.work /\ n.edition = r.edition
      /\ threads' = [threads EXCEPT ![t] = n]
  BY <1>1, <1>3, <1>7 DEF GoesOn
<1>9. StoreTypes'
  BY <1>1, <1>6 DEF TurnInv, LibraryTypes, StoreTypes, Ids, Paths, Slots, Works, Editions, ShareIds, Doc, Share, Stored
<1>10. \A q \in Paths : files'[q].work = files[q].work
  BY <1>4, <1>6
<1>11. RowsAndFiles'
  <2>1. \A i \in Documents : Path(i) \in Paths
    BY DocumentFields
  <2> QED BY <1>1, <1>10, <2>1 DEF TurnInv, RowsAndFiles, Documents, Path
<1>12. Recalls(n)'
  <2>1. n.id \in Documents' /\ n.path = Path(n.id)'
    BY <1>1, <1>4, <1>8 DEF Documents, Path
  <2> QED BY <1>6, <1>8, <2>1 DEF Recalls
<1>13. ASSUME ~spilled', NEW q \in Paths, Holds(q)' PROVE ~NoOnesPath(q)'
  <2>1. Holds(q) /\ ~spilled
    BY <1>1, <1>10, <1>13 DEF Holds
  <2>2. \A d \in Threads : ~Keeps(threads[d], q) /\ threads[d].op # "reset"
    BY <1>1, <1>2, LibraryFields DEF TurnInv, OneThread, Keeps
  <2> QED BY <1>1, <2>1, <2>2 DEF TurnInv, FilesAccounted, NoOnesPath, Documents, Path
<1>14. ASSUME ~spilled', NEW i \in Documents' PROVE Current(i)' \/ Replaces(n, i)
  <2>1. CASE i = r.id
    BY <1>8, <2>1 DEF Replaces
  <2>2. CASE i # r.id
    <3>1. i \in Documents /\ Current(i)
      BY <1>1, <1>2, <1>14, RowsAreCurrent DEF Documents
    <3>2. Path(i) \in Paths /\ Path(i) # r.path
      BY <1>4, <2>2, <3>1, DocumentFields DEF TurnInv, RowsAndFiles
    <3> QED BY <1>1, <1>6, <3>1, <3>2 DEF Current, Path
  <2> QED BY <2>1, <2>2
<1> QED BY <1>2, <1>8, <1>9, <1>11, <1>12, <1>13, <1>14, GoneOn

LEMMA ReimportCommits ==
    ASSUME TurnInv, NEW t \in Threads, ReimportCommit(t)
    PROVE  TurnInv'
<1> DEFINE r == threads[t]
           x == [docs[r.id] EXCEPT !.work = r.work, !.edition = r.edition, !.inbox = docs[r.id].inbox /\ ~r.moved]
<1>1. /\ r.op = "replace" /\ docs' = [docs EXCEPT ![r.id] = x] /\ covers' = WithCover(r.path[1], r.id, r.work)
      /\ Finishes(t) /\ UNCHANGED <<files, members, shares, uploads, spilled>>
  BY DEF ReimportCommit
<1>2. r # Idle /\ r \in LibraryRequest
  BY <1>1, LibraryFields DEF TurnInv, LibraryTypes
<1>3. r \in [op: {"reimport", "replace"}, path: Paths, id: Ids, work: Works, edition: Editions,
             copied: BOOLEAN, moved: BOOLEAN]
  BY <1>1, <1>2, RequestKinds
<1>4. /\ r.id \in Documents /\ r.path = Path(r.id)
      /\ files[r.path].work = r.work /\ files[r.path].edition = r.edition
  BY <1>1 DEF TurnInv, Recalls
<1>5. docs[r.id] \in Doc /\ r.path[1] = docs[r.id].owner /\ docs[r.id].work = r.work
  BY <1>4, DocumentFields DEF Path
<1>6. /\ x \in Doc /\ x.owner = docs[r.id].owner /\ x.slot = docs[r.id].slot
      /\ x.work = docs[r.id].work /\ x.edition = r.edition
  <2> DEFINE b == docs[r.id].inbox /\ ~r.moved
  <2>1. b \in BOOLEAN
    BY <1>3, <1>5 DEF Doc
  <2>2. x = [docs[r.id] EXCEPT !.work = r.work, !.edition = r.edition, !.inbox = b]
    OBVIOUS
  <2> HIDE DEF b
  <2> QED BY <1>3, <1>5, <2>1, <2>2 DEF Doc
<1> HIDE DEF x
<1>7. docs' \in [Ids -> Doc \cup {NoDoc}] /\ docs'[r.id] = x /\ \A j \in Ids : j # r.id => docs'[j] = docs[j]
  BY <1>1, <1>3, <1>6 DEF TurnInv, LibraryTypes, StoreTypes
<1>8. Documents' = Documents
  BY <1>4, <1>6, <1>7, LibraryFields DEF Documents, Ids
<1>9. \A j \in Ids : /\ docs'[j] # NoDoc => /\ docs'[j].owner = docs[j].owner /\ docs'[j].slot = docs[j].slot
                                             /\ docs'[j].work = docs[j].work
                    /\ docs'[j].work = docs[j].work
  BY <1>6, <1>7
<1>10. covers' = covers
  BY <1>1, <1>4, <1>5 DEF WithCover, TurnInv, LibraryTypes, StoreTypes, RowsAndFiles
<1>11. StoreTypes'
  BY <1>1, <1>7, <1>10 DEF TurnInv, LibraryTypes, StoreTypes, Ids, Paths, Slots, Works, Editions, ShareIds, Doc, Share, Stored
<1>12. \A j \in Documents : Path(j)' = Path(j) /\ docs'[j].owner = docs[j].owner
  BY <1>8, <1>9 DEF Path, Documents
<1>13. RowsAndFiles'
  BY <1>1, <1>8, <1>9, <1>10, <1>12 DEF TurnInv, RowsAndFiles, Documents, Ids
<1>14. ASSUME ~spilled', NEW q \in Paths, Holds(q)' PROVE ~NoOnesPath(q)'
  <2>1. Holds(q) /\ ~spilled
    BY <1>1, <1>14 DEF Holds
  <2>2. \A d \in Threads : ~Keeps(threads[d], q) /\ threads[d].op # "reset"
    BY <1>1, <1>2, LibraryFields DEF TurnInv, OneThread, Keeps
  <2> QED BY <1>8, <1>12, <2>1, <2>2 DEF TurnInv, FilesAccounted, NoOnesPath
<1>15. ASSUME ~spilled', NEW i \in Documents' PROVE Current(i)'
  <2>1. CASE i = r.id
    BY <1>1, <1>4, <1>6, <1>7, <1>12, <2>1 DEF Current
  <2>2. CASE i # r.id
    <3>1. \A d \in Threads : ~Replaces(threads[d], i)
      BY <1>2, <2>2, LibraryFields DEF TurnInv, OneThread, Replaces
    <3>2. i \in Documents /\ Current(i)
      BY <1>1, <1>8, <1>15, <3>1 DEF TurnInv, EditionsAgree
    <3>3. docs'[i] = docs[i]
      BY <1>7, <2>2, <3>2 DEF Documents
    <3> QED BY <1>1, <1>12, <3>2, <3>3 DEF Current
  <2> QED BY <2>1, <2>2
<1> QED BY <1>1, <1>2, <1>11, <1>13, <1>14, <1>15, Ended

\* Deleting a document: its row with its membership, then its file and its
\* cover, which are no other document's (delete_document).
LEMMA DeleteKeeps ==
    ASSUME TurnInv, NEW t \in Threads, DeleteCommit(t) \/ DeleteUnlink(t)
    PROVE  TurnInv'
<1> DEFINE r == threads[t]
<1>1. r \in LibraryRequest /\ r # Idle /\ r.op \in {"delete", "unlink"}
  BY LibraryFields DEF DeleteCommit, DeleteUnlink, TurnInv, LibraryTypes
<1>2. r \in [op: {"delete", "unlink"}, path: Paths, id: Ids, member: BOOLEAN]
  BY <1>1, RequestKinds
<1>3. \A d \in Threads : threads[d].op # "reset" /\ \A q \in Paths : Keeps(threads[d], q) => d = t
  BY <1>1, LibraryFields DEF TurnInv, OneThread, Keeps
<1>4. CASE DeleteCommit(t)
  <2>1. /\ r.op = "delete" /\ docs' = [docs EXCEPT ![r.id] = NoDoc]
        /\ members' = [members EXCEPT ![r.id] = IF r.member THEN 0 ELSE @] /\ GoesOn(t, "unlink")
        /\ UNCHANGED <<files, covers, shares, uploads, spilled>>
    BY <1>4 DEF DeleteCommit
  <2>2. r.id \in Documents /\ r.path = Path(r.id) /\ (r.member \/ members[r.id] = 0)
    BY <2>1 DEF TurnInv, Recalls
  <2>3. PICK n \in LibraryRequest : n = [r EXCEPT !.op = "unlink"]
    BY <1>2 DEF LibraryRequest
  <2>4. n.op = "unlink" /\ n.path = r.path /\ n.id = r.id
    BY <1>2, <2>3
  <2>5. threads' = [threads EXCEPT ![t] = n]
    BY <2>1, <2>3 DEF GoesOn
  <2>6. docs'[r.id] = NoDoc /\ \A j \in Ids : j # r.id => docs'[j] = docs[j]
    BY <1>2, <2>1 DEF TurnInv, LibraryTypes, StoreTypes
  <2>7. Documents' = Documents \ {r.id}
    BY <2>6 DEF Documents, Ids
  <2>8. /\ members' \in [Ids -> Works \cup {0}] /\ members'[r.id] = 0
        /\ \A j \in Ids : j # r.id => members'[j] = members[j]
    <3>1. members \in [Ids -> Works \cup {0}]
      BY DEF TurnInv, LibraryTypes, StoreTypes
    <3>2. members' = [members EXCEPT ![r.id] = 0]
      <4>1. CASE r.member
        BY <2>1, <4>1, Zenon
      <4>2. CASE members[r.id] = 0
        <5>1. members' = [members EXCEPT ![r.id] = 0] \/ members' = [members EXCEPT ![r.id] = members[r.id]]
          BY <2>1, Zenon
        <5> QED BY <4>2, <5>1, Zenon
      <4> QED BY <2>2, <4>1, <4>2
    <3> QED BY <1>2, <3>1, <3>2
  <2>9. StoreTypes'
    <3>1. docs' \in [Ids -> Doc \cup {NoDoc}]
      BY <2>1 DEF TurnInv, LibraryTypes, StoreTypes
    <3> QED BY <2>1, <2>8, <3>1 DEF TurnInv, LibraryTypes, StoreTypes, Ids, Paths, Slots, Works, Editions, ShareIds, Doc, Share, Stored
  <2>10. \A j \in Documents' : j \in Documents /\ j # r.id /\ docs'[j] = docs[j] /\ Path(j)' = Path(j)
    BY <2>6, <2>7, DocumentFields DEF Path
  <2>11. RowsAndFiles'
    <3>1. \A j, k \in Documents' : Path(j)' = Path(k)' => j = k
      BY <2>10 DEF TurnInv, RowsAndFiles
    <3>2. \A j \in Documents' : files'[Path(j)'].work = docs'[j].work
      BY <2>1, <2>10 DEF TurnInv, RowsAndFiles
    <3>3. \A j \in Documents' : covers'[<<docs'[j].owner, j>>] = docs'[j].work
      BY <2>1, <2>10 DEF TurnInv, RowsAndFiles
    <3>4. \A j \in Ids : members'[j] # 0 => j \in Documents' /\ docs'[j].work = members'[j]
      BY <2>6, <2>7, <2>8 DEF TurnInv, RowsAndFiles
    <3> QED BY <3>1, <3>2, <3>3, <3>4 DEF RowsAndFiles, Ids
  <2>12. Recalls(n)'
    <3>1. n.path = Path(r.id) /\ n.op = "unlink" /\ n.id \notin Documents'
      BY <2>2, <2>4, <2>7
    <3>2. \A j \in Documents' : Path(j)' # n.path
      BY <2>2, <2>10, <3>1 DEF TurnInv, RowsAndFiles
    <3> QED BY <3>1, <3>2 DEF Recalls, NoOnesPath
  <2>13. ASSUME ~spilled', NEW q \in Paths, Holds(q)' PROVE ~NoOnesPath(q)' \/ Keeps(n, q)
    <3>1. ~spilled /\ Holds(q)
      BY <2>1, <2>13 DEF Holds
    <3>2. \A d \in Threads : ~Keeps(threads[d], q)
      BY <1>3, <2>1 DEF Keeps
    <3>3. PICK j \in Documents : Path(j) = q
      BY <1>3, <3>1, <3>2 DEF TurnInv, FilesAccounted, NoOnesPath
    <3>4. CASE j = r.id
      BY <2>2, <2>4, <3>3, <3>4 DEF Keeps
    <3>5. CASE j # r.id
      BY <2>7, <2>10, <3>3, <3>5 DEF NoOnesPath
    <3> QED BY <3>4, <3>5
  <2>14. ASSUME ~spilled', NEW j \in Documents' PROVE Current(j)'
    <3>1. j \in Documents /\ Current(j)
      BY <1>1, <2>1, <2>10, <2>14, RowsAreCurrent
    <3> QED BY <2>1, <2>10, <2>14, <3>1 DEF Current
  <2> QED BY <1>1, <2>5, <2>9, <2>11, <2>12, <2>13, <2>14, GoneOn
<1>5. CASE DeleteUnlink(t)
  <2>1. /\ r.op = "unlink" /\ files' = [files EXCEPT ![r.path] = Absent]
        /\ covers' = [covers EXCEPT ![<<r.path[1], r.id>>] = 0] /\ Finishes(t)
        /\ UNCHANGED <<docs, members, shares, uploads, spilled>>
    BY <1>5 DEF DeleteUnlink
  <2>2. NoOnesPath(r.path) /\ r.id \notin Documents
    BY <2>1 DEF TurnInv, Recalls
  <2>3. /\ files' \in [Paths -> Stored] /\ files'[r.path] = Absent
        /\ \A q \in Paths : q # r.path => files'[q] = files[q]
    BY <1>2, <2>1, LibraryFields DEF TurnInv, LibraryTypes, StoreTypes
  <2>4. /\ covers' \in [Readers \X Ids -> Works \cup {0}]
        /\ \A j \in Documents : covers'[<<docs[j].owner, j>>] = covers[<<docs[j].owner, j>>]
    <3>1. covers \in [Readers \X Ids -> Works \cup {0}]
      BY DEF TurnInv, LibraryTypes, StoreTypes
    <3>2. \A j \in Documents : <<docs[j].owner, j>> \in Readers \X Ids /\ <<docs[j].owner, j>> # <<r.path[1], r.id>>
      BY <2>2, DocumentFields
    <3>3. <<r.path[1], r.id>> \in Readers \X Ids
      BY <1>2 DEF Paths
    <3> QED BY <2>1, <3>1, <3>2, <3>3
  <2>5. StoreTypes'
    BY <2>1, <2>3, <2>4 DEF TurnInv, LibraryTypes, StoreTypes, Ids, Paths, Slots, Works, Editions, ShareIds, Doc, Share, Stored
  <2>6. RowsAndFiles'
    <3>1. \A i \in Documents : files'[Path(i)] = files[Path(i)]
      BY <2>2, <2>3, DocumentFields DEF NoOnesPath
    <3> QED BY <2>1, <2>4, <3>1 DEF TurnInv, RowsAndFiles, Documents, Path
  <2>7. ASSUME ~spilled', NEW q \in Paths, Holds(q)' PROVE ~NoOnesPath(q)'
    <3>1. q # r.path /\ Holds(q) /\ ~spilled
      BY <2>1, <2>3, <2>7, LibraryFields DEF Holds
    <3>2. \A d \in Threads : ~Keeps(threads[d], q)
      BY <1>3, <3>1 DEF Keeps
    <3> QED BY <1>3, <2>1, <3>1, <3>2 DEF TurnInv, FilesAccounted, NoOnesPath, Documents, Path
  <2>8. ASSUME ~spilled', NEW i \in Documents' PROVE Current(i)'
    <3>1. i \in Documents /\ Current(i)
      BY <1>1, <2>1, <2>8, RowsAreCurrent DEF Documents
    <3>2. files'[Path(i)] = files[Path(i)]
      BY <2>2, <2>3, <3>1, DocumentFields DEF NoOnesPath
    <3> QED BY <2>1, <3>1, <3>2 DEF Current, Path
  <2> QED BY <1>1, <2>1, <2>5, <2>6, <2>7, <2>8, Ended
<1> QED BY <1>4, <1>5

\* reset_library: all rows, then all files.
LEMMA ResetKeeps ==
    ASSUME TurnInv, inTurn, NEW t \in Threads, ResetRows(t) \/ ResetFiles(t)
    PROVE  TurnInv'
<1>1. CASE ResetRows(t)
  <2> DEFINE r == [op |-> "reset", path |-> << >>]
  <2>1. r \in LibraryRequest /\ r.op = "reset"
    BY DEF LibraryRequest
  <2>2. threads' = [threads EXCEPT ![t] = r] /\ \A d \in Threads : threads[d] = Idle
    BY <1>1 DEF ResetRows, Begins
  <2> HIDE DEF r
  <2>3. /\ threads' \in [Threads -> LibraryRequest \cup {Idle}] /\ threads'[t] = r
        /\ \A d \in Threads : d # t => threads'[d] = Idle
    BY <2>1, <2>2 DEF TurnInv, LibraryTypes
  <2>4. /\ docs' = [i \in Ids |-> NoDoc] /\ members' = [i \in Ids |-> 0]
        /\ UNCHANGED <<files, covers, shares, uploads, spilled>>
    BY <1>1 DEF ResetRows
  <2>5. Documents' = {}
    BY <2>4 DEF Documents, Ids
  <2>6. LibraryTypes'
    <3>1. docs' \in [Ids -> Doc \cup {NoDoc}] /\ members' \in [Ids -> Works \cup {0}]
      BY <2>4
    <3> QED BY <2>3, <2>4, <3>1 DEF TurnInv, LibraryTypes, StoreTypes, Ids, Paths, Slots, Works, Editions, ShareIds, Doc, Share, Stored
  <2>7. RowsAndFiles'
    BY <2>4, <2>5 DEF RowsAndFiles, Ids
  <2>8. \A d \in Threads : Recalls(threads[d])'
    BY <2>1, <2>3, <2>5, LibraryFields DEF Recalls
  <2>9. OneThread'
    BY <2>3 DEF OneThread
  <2>10. FilesAccounted' /\ EditionsAgree'
    BY <2>1, <2>3, <2>5 DEF FilesAccounted, EditionsAgree
  <2> QED BY <2>6, <2>7, <2>8, <2>9, <2>10 DEF TurnInv
<1>2. CASE ResetFiles(t)
  <2>1. /\ threads[t].op = "reset" /\ files' = [p \in Paths |-> Absent] /\ covers' = [p \in Readers \X Ids |-> 0]
        /\ Finishes(t) /\ UNCHANGED <<docs, members, shares, uploads, spilled>>
    BY <1>2 DEF ResetFiles
  <2>2. threads[t] # Idle /\ Documents = {}
    BY <2>1, LibraryFields DEF TurnInv, Recalls
  <2>3. StoreTypes'
    <3>1. files' \in [Paths -> Stored] /\ covers' \in [Readers \X Ids -> Works \cup {0}]
      BY <2>1, LibraryFields
    <3> QED BY <2>1, <3>1 DEF TurnInv, LibraryTypes, StoreTypes, Ids, Paths, Slots, Works, Editions, ShareIds, Doc, Share, Stored
  <2>4. RowsAndFiles'
    BY <2>1, <2>2 DEF TurnInv, RowsAndFiles, Documents, Path
  <2>5. \A p \in Paths : ~Holds(p)'
    BY <2>1, LibraryFields DEF Holds
  <2>6. Documents' = {}
    BY <2>1, <2>2 DEF Documents
  <2> QED BY <2>1, <2>2, <2>3, <2>4, <2>5, <2>6, Ended
<1> QED BY <1>1, <1>2

\* Putting a document into the collection (add_collection_documents).
LEMMA CollectKeeps ==
    ASSUME TurnInv, NEW t \in Threads, CollectCommit(t)
    PROVE  TurnInv'
<1> DEFINE r == threads[t]
<1>1. /\ r.op = "collect" /\ members' = [members EXCEPT ![r.id] = r.work] /\ Finishes(t)
      /\ UNCHANGED <<docs, files, covers, shares, uploads, spilled>>
  BY DEF CollectCommit
<1>2. r # Idle /\ r.id \in Documents /\ docs[r.id].work = r.work
  BY <1>1, LibraryFields DEF TurnInv, Recalls
<1>3. r.id \in Ids /\ r.work \in Works
  BY <1>2, DocumentFields
<1>4. members' \in [Ids -> Works \cup {0}] /\ members'[r.id] = r.work /\ \A j \in Ids : j # r.id => members'[j] = members[j]
  BY <1>1, <1>3 DEF TurnInv, LibraryTypes, StoreTypes
<1>5. StoreTypes'
  BY <1>1, <1>4 DEF TurnInv, LibraryTypes, StoreTypes, Ids, Paths, Slots, Works, Editions, ShareIds, Doc, Share, Stored
<1>6. RowsAndFiles'
  <2>1. \A j \in Ids : members'[j] # 0 => j \in Documents /\ docs[j].work = members'[j]
    BY <1>2, <1>4 DEF TurnInv, RowsAndFiles
  <2> QED BY <1>1, <2>1 DEF TurnInv, RowsAndFiles, Documents, Path, Ids
<1>7. ASSUME ~spilled', NEW q \in Paths, Holds(q)' PROVE ~NoOnesPath(q)'
  <2>1. Holds(q) /\ ~spilled
    BY <1>1, <1>7 DEF Holds
  <2>2. \A d \in Threads : ~Keeps(threads[d], q) /\ threads[d].op # "reset"
    BY <1>1, <1>2, LibraryFields DEF TurnInv, OneThread, Keeps
  <2> QED BY <1>1, <2>1, <2>2 DEF TurnInv, FilesAccounted, NoOnesPath, Documents, Path
<1>8. ASSUME ~spilled', NEW i \in Documents' PROVE Current(i)'
  <2>1. i \in Documents /\ Current(i)
    BY <1>1, <1>2, <1>8, RowsAreCurrent DEF Documents
  <2> QED BY <1>1, <2>1 DEF Current, Path
<1> QED BY <1>1, <1>2, <1>5, <1>6, <1>7, <1>8, Ended

\* What changes while a request runs: memberships end, shares are made and
\* declined (delete_collection_document, create_share, respond_to_share).
LEMMA StoresKeep ==
    ASSUME TurnInv, \/ \E i \in Ids : Uncollect(i) \/ \E v \in Readers : ShareItem(i, v)
                    \/ \E s \in ShareIds : Decline(s)
    PROVE  TurnInv'
<1>1. UNCHANGED <<docs, files, covers, threads, uploads, spilled>>
  BY DEF Uncollect, ShareItem, Decline
<1>2. /\ members' \in [Ids -> Works \cup {0}]
      /\ \A j \in Ids : members'[j] = 0 \/ members'[j] = members[j]
  BY DEF Uncollect, ShareItem, Decline, TurnInv, LibraryTypes, StoreTypes
<1>3. shares' \in [ShareIds -> Share \cup {NoShare}]
  <2>1. CASE \E i \in Ids : Uncollect(i)
    BY <2>1 DEF Uncollect, TurnInv, LibraryTypes, StoreTypes
  <2>2. ASSUME NEW i \in Ids, NEW v \in Readers, ShareItem(i, v)
        PROVE  shares' \in [ShareIds -> Share \cup {NoShare}]
    <3>1. PICK new \in ShareIds : shares' =
            [shares EXCEPT ![new] = [from |-> docs[i].owner, to |-> v, id |-> i,
                                     work |-> docs[i].work, status |-> "pending"]]
      BY <2>2 DEF ShareItem
    <3>2. i \in Documents
      BY <2>2 DEF ShareItem
    <3>3. [from |-> docs[i].owner, to |-> v, id |-> i, work |-> docs[i].work, status |-> "pending"] \in Share
      BY <3>2, DocumentFields DEF Share
    <3> QED BY <3>1, <3>3 DEF TurnInv, LibraryTypes, StoreTypes
  <2>3. ASSUME NEW s \in ShareIds, Decline(s)
        PROVE  shares' \in [ShareIds -> Share \cup {NoShare}]
    <3>1. shares[s].status = "pending" /\ shares' = [shares EXCEPT ![s].status = "declined"]
      BY <2>3 DEF Decline
    <3>2. shares[s] \in Share
      BY <3>1 DEF TurnInv, LibraryTypes, StoreTypes, NoShare
    <3>3. [shares[s] EXCEPT !.status = "declined"] \in Share
      BY <3>2 DEF Share
    <3> QED BY <3>1, <3>3 DEF TurnInv, LibraryTypes, StoreTypes
  <2> QED BY <2>1, <2>2, <2>3
<1>8. \A s \in ShareIds : shares[s].status # "none" => shares'[s].status # "none"
  <2>1. SUFFICES ASSUME NEW s \in ShareIds, shares[s].status # "none" PROVE shares'[s].status # "none"
    OBVIOUS
  <2>2. shares \in [ShareIds -> Share \cup {NoShare}]
    BY DEF TurnInv, LibraryTypes, StoreTypes
  <2>3. CASE shares' = shares
    BY <2>1, <2>3
  <2>4. ASSUME NEW i \in Ids, NEW v \in Readers, ShareItem(i, v) PROVE shares'[s].status # "none"
    <3>1. PICK new \in ShareIds : shares' =
            [shares EXCEPT ![new] = [from |-> docs[i].owner, to |-> v, id |-> i,
                                     work |-> docs[i].work, status |-> "pending"]]
      BY <2>4 DEF ShareItem
    <3> QED BY <2>1, <2>2, <3>1
  <2>5. ASSUME NEW d \in ShareIds, Decline(d) PROVE shares'[s].status # "none"
    <3>1. shares[d].status = "pending" /\ shares' = [shares EXCEPT ![d].status = "declined"]
      BY <2>5 DEF Decline
    <3>2. shares[d] \in Share
      BY <2>2, <3>1 DEF NoShare
    <3>3. [shares[d] EXCEPT !.status = "declined"].status = "declined"
      BY <3>2 DEF Share
    <3> QED BY <2>1, <2>2, <3>1, <3>3
  <2> QED BY <2>3, <2>4, <2>5 DEF Uncollect
<1>4. LibraryTypes'
  BY <1>1, <1>2, <1>3 DEF TurnInv, LibraryTypes, StoreTypes, Ids, Paths, Slots, Works, Editions, Doc, Stored, LibraryRequest, ShareIds
<1>5. RowsAndFiles'
  <2>1. \A j \in Ids : members'[j] # 0 => j \in Documents /\ docs[j].work = members'[j]
    BY <1>2 DEF TurnInv, RowsAndFiles
  <2> QED BY <1>1, <2>1 DEF TurnInv, RowsAndFiles, Documents, Path, Ids
<1>6. OneThread' /\ FilesAccounted' /\ EditionsAgree'
  <2>1. OneThread' /\ FilesAccounted'
    BY <1>1 DEF TurnInv, OneThread, FilesAccounted, Holds, NoOnesPath, Keeps, Documents, Path
  <2>2. EditionsAgree'
    BY <1>1 DEF TurnInv, EditionsAgree, Current, Replaces, Documents, Path
  <2> QED BY <2>1, <2>2
<1>7. \A d \in Threads : Recalls(threads[d])'
  <2>1. SUFFICES ASSUME NEW d \in Threads PROVE Recalls(threads[d])'
    OBVIOUS
  <2>2. Recalls(threads[d])
    BY DEF TurnInv
  <2>3. threads[d].op = "delete" => threads[d].member \/ members'[threads[d].id] = 0
    <3>1. SUFFICES ASSUME threads[d].op = "delete", ~threads[d].member PROVE members'[threads[d].id] = 0
      OBVIOUS
    <3>2. members[threads[d].id] = 0 /\ threads[d].id \in Ids
      BY <2>2, <3>1 DEF Recalls, Documents
    <3> QED BY <1>2, <3>2
  <2>4. threads[d].op \in {"copy", "accept"} => shares'[threads[d].share].status # "none"
    <3>1. SUFFICES ASSUME threads[d].op \in {"copy", "accept"} PROVE shares'[threads[d].share].status # "none"
      OBVIOUS
    <3>2. threads[d] \in LibraryRequest
      BY <3>1, LibraryFields DEF TurnInv, LibraryTypes
    <3>3. threads[d].share \in ShareIds
      BY <3>1, <3>2, RequestKinds
    <3> QED BY <2>2, <3>1, <3>3, <1>8 DEF Recalls
  <2> QED BY <1>1, <2>2, <2>3, <2>4 DEF Recalls, NoOnesPath, Documents, Path
<1> QED BY <1>4, <1>5, <1>6, <1>7 DEF TurnInv

\* An accepted share, from its file to its row (respond_to_share,
\* _copy_document_to_user).
LEMMA AcceptKeeps ==
    ASSUME TurnInv, NEW t \in Threads, AcceptCopy(t) \/ AcceptCommit(t)
    PROVE  TurnInv'
<1> DEFINE r == threads[t]
<1>1. r \in LibraryRequest /\ r # Idle /\ r.op \in {"copy", "accept"}
  BY LibraryFields DEF AcceptCopy, AcceptCommit, TurnInv, LibraryTypes
<1>2. r \in [op: {"copy", "accept"}, path: Paths, share: ShareIds, work: Works,
             edition: Editions, stored: Editions]
  BY <1>1, RequestKinds
<1>3. CASE AcceptCopy(t)
  <2> DEFINE f == [work |-> r.work, edition |-> r.stored, copied |-> TRUE]
  <2>1. /\ r.op = "copy" /\ files' = [files EXCEPT ![r.path] = f] /\ GoesOn(t, "accept")
        /\ UNCHANGED <<docs, covers, members, shares, uploads, spilled>>
    BY <1>3 DEF AcceptCopy
  <2>2. f \in Stored /\ f.work = r.work /\ f.edition = r.stored
    BY <1>2 DEF Stored
  <2> HIDE DEF f
  <2>3. PICK n \in LibraryRequest : n = [r EXCEPT !.op = "accept"]
    BY <1>2 DEF LibraryRequest
  <2>4. /\ n.op = "accept" /\ n.path = r.path /\ n.work = r.work /\ n.share = r.share
        /\ n.edition = r.edition /\ n.stored = r.stored
    BY <1>2, <2>3
  <2>5. threads' = [threads EXCEPT ![t] = n]
    BY <2>1, <2>3 DEF GoesOn
  <2>6. NoOnesPath(r.path) /\ shares[r.share].status # "none" /\ (~spilled => r.edition = r.stored)
    BY <2>1 DEF TurnInv, Recalls
  <2>7. /\ files' \in [Paths -> Stored] /\ files'[r.path].work = r.work
        /\ files'[r.path].edition = r.stored
        /\ \A q \in Paths : q # r.path => files'[q] = files[q]
    BY <1>2, <2>1, <2>2 DEF TurnInv, LibraryTypes, StoreTypes
  <2>8. StoreTypes'
    BY <2>1, <2>7 DEF TurnInv, LibraryTypes, StoreTypes, Ids, Paths, Slots, Works, Editions, ShareIds, Doc, Share, Stored
  <2>9. RowsAndFiles'
    <3>1. \A i \in Documents : files'[Path(i)] = files[Path(i)]
      BY <2>6, <2>7, DocumentFields DEF NoOnesPath
    <3> QED BY <2>1, <3>1 DEF TurnInv, RowsAndFiles, Documents, Path
  <2>10. Recalls(n)'
    BY <2>1, <2>4, <2>6, <2>7 DEF Recalls, NoOnesPath, Documents, Path
  <2>11. ASSUME ~spilled', NEW q \in Paths, Holds(q)' PROVE ~NoOnesPath(q)' \/ Keeps(n, q)
    <3>1. CASE q = r.path
      BY <3>1, <2>4 DEF Keeps
    <3>2. CASE q # r.path
      <4>1. Holds(q) /\ ~spilled
        BY <2>1, <2>7, <2>11, <3>2 DEF Holds
      <4>2. \A d \in Threads : ~Keeps(threads[d], q) /\ threads[d].op # "reset"
        BY <1>1, <2>1, LibraryFields DEF TurnInv, OneThread, Keeps
      <4> QED BY <2>1, <4>1, <4>2 DEF TurnInv, FilesAccounted, NoOnesPath, Documents, Path
    <3> QED BY <3>1, <3>2
  <2>12. ASSUME ~spilled', NEW i \in Documents' PROVE Current(i)'
    <3>1. i \in Documents /\ Current(i)
      BY <1>1, <2>1, <2>12, RowsAreCurrent DEF Documents
    <3>2. files'[Path(i)] = files[Path(i)]
      BY <2>6, <2>7, <3>1, DocumentFields DEF NoOnesPath
    <3> QED BY <2>1, <3>1, <3>2 DEF Current, Path
  <2> QED BY <1>1, <2>5, <2>8, <2>9, <2>10, <2>11, <2>12, GoneOn
<1>4. CASE AcceptCommit(t)
  <2>1. r.op = "accept" /\ Finishes(t) /\ UNCHANGED <<files, members, uploads, spilled>>
    BY <1>4 DEF AcceptCommit
  <2>2. PICK i \in Ids : /\ IsNewId(i)
                         /\ docs' = Inserted(i, r.path, r.work, r.edition, FALSE, r.share)
                         /\ covers' = WithCover(r.path[1], i, r.work)
    BY <1>4 DEF AcceptCommit
  <2>3. shares' \in [ShareIds -> Share \cup {NoShare}]
    <3>1. shares' = [shares EXCEPT ![r.share].status = "accepted"]
      BY <1>4 DEF AcceptCommit
    <3>2. r.share \in ShareIds /\ shares[r.share].status # "none"
      BY <1>2, <2>1 DEF TurnInv, Recalls
    <3>3. shares[r.share] \in Share
      BY <3>2 DEF TurnInv, LibraryTypes, StoreTypes, NoShare
    <3>4. [shares[r.share] EXCEPT !.status = "accepted"] \in Share
      BY <3>3 DEF Share
    <3> QED BY <3>1, <3>2, <3>4 DEF TurnInv, LibraryTypes, StoreTypes
  <2>4. r.edition \in Editions /\ (~spilled => r.edition = files[r.path].edition)
    BY <1>2, <2>1 DEF TurnInv, Recalls
  <2> QED BY <1>2, <2>1, <2>2, <2>3, <2>4, RowInserted
<1> QED BY <1>3, <1>4

\* A request that fails, or a server that ends, in between: what is left is
\* accounted for by spilled.
LEMMA BreaksKeep ==
    ASSUME TurnInv, NEW t \in Threads, Breaks(t)
    PROVE  TurnInv'
<1>1. /\ threads[t].op # "none" /\ CoverIfFailed(t) /\ Finishes(t)
      /\ spilled' = (spilled \/ threads[t].op \in {"insert", "accept", "unlink", "reset", "replace"})
      /\ UNCHANGED <<docs, files, members, shares, uploads>>
  BY DEF Breaks
<1>2. threads[t] # Idle
  BY <1>1, LibraryFields
<1>3. /\ covers' \in [Readers \X Ids -> Works \cup {0}]
      /\ \A j \in Documents : covers'[<<docs[j].owner, j>>] = covers[<<docs[j].owner, j>>]
  BY <1>1, FailedCoversAreFree
<1>4. StoreTypes'
  BY <1>1, <1>3 DEF TurnInv, LibraryTypes, StoreTypes, Ids, Paths, Slots, Works, Editions, ShareIds, Doc, Share, Stored
<1>5. RowsAndFiles'
  BY <1>1, <1>3 DEF TurnInv, RowsAndFiles, Documents, Path, Ids
<1>6. ASSUME ~spilled', NEW q \in Paths, Holds(q)' PROVE ~NoOnesPath(q)'
  <2>1. Holds(q) /\ ~spilled /\ threads[t].op \notin {"insert", "accept", "unlink", "reset", "replace"}
    BY <1>1, <1>6 DEF Holds
  <2>2. \A d \in Threads : ~Keeps(threads[d], q) /\ threads[d].op # "reset"
    BY <1>2, <2>1, LibraryFields DEF TurnInv, OneThread, Keeps
  <2> QED BY <1>1, <2>1, <2>2 DEF TurnInv, FilesAccounted, NoOnesPath, Documents, Path
<1>7. ASSUME ~spilled', NEW i \in Documents' PROVE Current(i)'
  <2>1. i \in Documents /\ Current(i)
    BY <1>1, <1>2, <1>7, RowsAreCurrent DEF Documents
  <2> QED BY <1>1, <2>1 DEF Current, Path
<1> QED BY <1>1, <1>2, <1>4, <1>5, <1>6, <1>7, Ended

\* Every step keeps it.
LEMMA LibraryPreserved == LibraryInv /\ [NextLibrary]_libraryVars => LibraryInv'
<1> SUFFICES ASSUME LibraryInv, [NextLibrary]_libraryVars, inTurn' PROVE TurnInv'
  BY DEF LibraryInv
<1>1. inTurn' = inTurn
  BY DEF NextLibrary, libraryVars, ImportCheck, ImportWrite, ImportCommit, ImportFails, ReimportRead,
         DeleteRead, CollectRead, ReimportWrite, ReimportCommit, DeleteCommit, DeleteUnlink, CollectCommit, ResetRows,
         ResetFiles, AcceptRead, AcceptCopy, AcceptCommit, Breaks, Uncollect, ShareItem, Decline
<1>2. TurnInv /\ inTurn
  BY <1>1 DEF LibraryInv
<1>3. CASE UNCHANGED libraryVars
  <2>1. UNCHANGED <<docs, files, covers, members, shares, threads, uploads, spilled>>
    BY <1>3 DEF libraryVars
  <2>2. LibraryTypes'
    BY <1>2, <2>1 DEF TurnInv, LibraryTypes, StoreTypes, Ids, Paths, Slots, Works, Editions, ShareIds, Doc, Share, Stored, LibraryRequest
  <2>3. RowsAndFiles' /\ OneThread' /\ FilesAccounted' /\ EditionsAgree'
    <3>1. RowsAndFiles' /\ OneThread'
      BY <1>2, <2>1 DEF TurnInv, RowsAndFiles, OneThread, Documents, Path, Ids
    <3>2. FilesAccounted'
      BY <1>2, <2>1 DEF TurnInv, FilesAccounted, Holds, NoOnesPath, Keeps, Documents, Path
    <3>3. EditionsAgree'
      BY <1>2, <2>1 DEF TurnInv, EditionsAgree, Current, Replaces, Documents, Path
    <3> QED BY <3>1, <3>2, <3>3
  <2>4. \A d \in Threads : Recalls(threads[d])'
    BY <1>2, <2>1 DEF TurnInv, Recalls, NoOnesPath, Documents, Path
  <2> QED BY <2>2, <2>3, <2>4 DEF TurnInv
<1>4. ASSUME NEW t \in Threads,
             \/ \E u \in Readers : ImportCheck(t, u)
             \/ ImportWrite(t) \/ ImportCommit(t) \/ ImportFails(t)
             \/ \E i \in Ids : ReimportRead(t, i) \/ DeleteRead(t, i) \/ CollectRead(t, i)
             \/ ReimportWrite(t) \/ ReimportCommit(t) \/ DeleteCommit(t) \/ DeleteUnlink(t) \/ CollectCommit(t)
             \/ ResetRows(t) \/ ResetFiles(t)
             \/ \E s \in ShareIds : AcceptRead(t, s)
             \/ AcceptCopy(t) \/ AcceptCommit(t)
             \/ Breaks(t)
      PROVE  TurnInv'
  BY <1>2, <1>4, ReadsKeep, ImportKeeps, ReimportWrites, ReimportCommits, DeleteKeeps, ResetKeeps, CollectKeeps, AcceptKeeps, BreaksKeep
<1>5. CASE NextLibrary
  BY <1>2, <1>4, <1>5, StoresKeep DEF NextLibrary
<1> QED BY <1>3, <1>5

\* The invariant of requests that do not overlap.
LEMMA LibraryInvariant == SpecLibrary => []LibraryInv
BY LibraryInitially, LibraryPreserved, PTL DEF SpecLibrary

\* Every document has its own file and its own cover (delete_document,
\* _build_storage_path, _copy_document_to_user).
THEOREM RowsAndFilesAgree == SpecLibrary => []DocumentsKeepTheirFiles
<1>1. LibraryInv => DocumentsKeepTheirFiles
  <2>1. SUFFICES ASSUME TurnInv, NEW i \in Documents
                 PROVE  /\ Named(Path(i)) = {i}
                        /\ files[Path(i)].work = docs[i].work /\ covers[<<docs[i].owner, i>>] = docs[i].work
                        /\ Current(i) \/ spilled \/ \E t \in Threads : Replaces(threads[t], i)
    BY DEF LibraryInv, DocumentsKeepTheirFiles, Path, Current, Replaces
  <2>2. Named(Path(i)) = {i}
    BY <2>1 DEF TurnInv, RowsAndFiles, Named, Path
  <2> QED BY <2>1, <2>2 DEF TurnInv, RowsAndFiles, EditionsAgree
<1> QED BY <1>1, LibraryInvariant, PTL

\* A collection shows what was put there (delete_document,
\* add_collection_documents).
THEOREM MembershipsAreMeant == SpecLibrary => []CollectionsHoldWhatWasPut
<1>1. LibraryInv => CollectionsHoldWhatWasPut
  BY DEF LibraryInv, TurnInv, RowsAndFiles, CollectionsHoldWhatWasPut
<1> QED BY <1>1, LibraryInvariant, PTL

\* Only a request that was cut short leaves a file
\* (_import_document_from_bytes, delete_document, _copy_into_directory).
THEOREM FilesHaveTheirDocument == SpecLibrary => []NoFileIsLeftBehind
<1>1. LibraryInv => NoFileIsLeftBehind
  <2>1. SUFFICES ASSUME TurnInv, ~spilled, NEW p \in Paths, Holds(p)
                 PROVE  \/ Named(p) # {}
                        \/ \E t \in Threads : threads[t].op \notin {"none", "reset"} /\ threads[t].path = p
                        \/ \E t \in Threads : threads[t].op = "reset"
    BY DEF LibraryInv, NoFileIsLeftBehind
  <2>2. ~NoOnesPath(p) \/ \E t \in Threads : Keeps(threads[t], p) \/ threads[t].op = "reset"
    BY <2>1 DEF TurnInv, FilesAccounted
  <2>3. ~NoOnesPath(p) => Named(p) # {}
    BY DEF NoOnesPath, Named, Path
  <2>4. ASSUME NEW t \in Threads, Keeps(threads[t], p)
        PROVE  threads[t].op \notin {"none", "reset"} /\ threads[t].path = p
    BY <2>4 DEF Keeps
  <2> QED BY <2>2, <2>3, <2>4
<1> QED BY <1>1, LibraryInvariant, PTL

(***************************************************************************)
(* Requests that overlap.  Of a share, the documents it has made and the   *)
(* requests that are copying it are never more than may overlap: one       *)
(* starts only while the share is pending, which it is no more once a copy *)
(* has its row.  What a reader has uploaded, with the imports that have    *)
(* passed the check, is at most one less than may overlap beyond the limit.*)
(***************************************************************************)
Overlap == IF inTurn THEN 1 ELSE Cardinality(Threads)

Copies(s) == {i \in Documents : docs[i].via = s}
Accepting(s) == {t \in Threads : threads[t].op \in {"copy", "accept"} /\ threads[t].share = s}
Used == {s \in ShareIds : shares[s] # NoShare}
Waiting(s) == shares[s].status \in {"none", "pending"}

(* A reimport writes a file again that may be gone by then.                *)
Uploaded(p) == Holds(p) /\ ~files[p].copied
Rewrites(r, p) == r.op = "reimport" /\ ~r.copied /\ r.path = p
Owned(p) == Uploaded(p) \/ \E t \in Threads : Rewrites(threads[t], p)
Own(u) == {s \in Slots : Owned(<<u, s>>)}
Importing(u) == {t \in Threads : threads[t].op = "import" /\ threads[t].user = u}

SharesInOrder == \E k \in 0 .. MaxShares : Used = 1 .. k
SharesKnown == \A t \in Threads : threads[t].op \in {"copy", "accept"} => threads[t].share \in Used
ThreadsInTurn == inTurn => OneThread
NotYetCopied == \A s \in ShareIds : Waiting(s) => Copies(s) = {}
CopiedAtMostOnce == \A s \in ShareIds :
    Cardinality(Copies(s)) + Cardinality(Accepting(s)) <= Overlap
WithinTheLimit == \A u \in Readers :
    Cardinality(Own(u)) + Cardinality(Importing(u)) <= StorageLimit + Overlap - 1

StoreInv == /\ LibraryTypeOK /\ ThreadsInTurn
            /\ SharesInOrder /\ SharesKnown
            /\ NotYetCopied /\ CopiedAtMostOnce /\ WithinTheLimit

\* A set of which no two members differ has one at most.
LEMMA OneMember ==
    ASSUME NEW S, IsFiniteSet(S), \A x, y \in S : x = y
    PROVE  Cardinality(S) <= 1
<1>1. CASE S = {}
  BY <1>1, FS_EmptySet
<1>2. CASE S # {}
  <2>1. PICK x \in S : TRUE
    BY <1>2
  <2>2. S = {x}
    BY <2>1
  <2> QED BY <2>2, FS_Singleton
<1> QED BY <1>1, <1>2

\* Threads that serve a request are no more than may overlap.
LEMMA OverlapIsBounded ==
    ASSUME NEW S \in SUBSET Threads, inTurn \in BOOLEAN, inTurn => \A c, d \in S : c = d
    PROVE  /\ IsFiniteSet(S) /\ Cardinality(S) \in Nat
           /\ Overlap \in Nat /\ 1 <= Overlap /\ Cardinality(S) <= Overlap
<1>1. /\ IsFiniteSet(S) /\ Cardinality(S) <= Cardinality(Threads)
  BY ThreadsAssumption, FS_Subset
<1>2. Cardinality(S) \in Nat /\ Cardinality(Threads) \in Nat
  BY <1>1, ThreadsAssumption, FS_CardinalityType
<1>3. Cardinality(Threads) # 0
  BY ThreadsAssumption, FS_EmptySet
<1>4. CASE inTurn
  <2>1. Cardinality(S) <= 1
    BY <1>1, <1>4, OneMember
  <2> QED BY <1>1, <1>2, <1>4, <2>1 DEF Overlap
<1>5. CASE ~inTurn
  BY <1>1, <1>2, <1>3, <1>5 DEF Overlap
<1> QED BY <1>4, <1>5

\* At least one may run.
LEMMA OverlapType == Overlap \in Nat /\ 1 <= Overlap
<1>1. Cardinality(Threads) \in Nat /\ Cardinality(Threads) # 0
  BY ThreadsAssumption, FS_CardinalityType, FS_EmptySet
<1> QED BY <1>1 DEF Overlap

\* The sets that are counted are finite.
LEMMA CountedAreFinite ==
    /\ \A s : IsFiniteSet(Copies(s)) /\ Cardinality(Copies(s)) \in Nat
    /\ \A s : IsFiniteSet(Accepting(s)) /\ Cardinality(Accepting(s)) \in Nat
    /\ \A u : IsFiniteSet(Own(u)) /\ Cardinality(Own(u)) \in Nat
    /\ \A u : IsFiniteSet(Importing(u)) /\ Cardinality(Importing(u)) \in Nat
<1>1. IsFiniteSet(Ids) /\ IsFiniteSet(Slots) /\ IsFiniteSet(Threads)
  BY LibraryAssumption, ThreadsAssumption, FS_Interval DEF Ids, Slots
<1>2. \A s : /\ Copies(s) \in SUBSET Ids /\ Accepting(s) \in SUBSET Threads
             /\ Own(s) \in SUBSET Slots /\ Importing(s) \in SUBSET Threads
  BY DEF Copies, Accepting, Own, Importing, Documents
<1>3. \A S, T : IsFiniteSet(S) /\ T \in SUBSET S => IsFiniteSet(T) /\ Cardinality(T) \in Nat
  BY FS_Subset, FS_CardinalityType
<1> QED BY <1>1, <1>2, <1>3

\* And stay so.
LEMMA CountedStayFinite ==
    /\ \A s : IsFiniteSet(Copies(s)') /\ Cardinality(Copies(s)') \in Nat
    /\ \A s : IsFiniteSet(Accepting(s)') /\ Cardinality(Accepting(s)') \in Nat
    /\ \A u : IsFiniteSet(Own(u)') /\ Cardinality(Own(u)') \in Nat
    /\ \A u : IsFiniteSet(Importing(u)') /\ Cardinality(Importing(u)') \in Nat
<1>1. IsFiniteSet(Ids) /\ IsFiniteSet(Slots) /\ IsFiniteSet(Threads)
  BY LibraryAssumption, ThreadsAssumption, FS_Interval DEF Ids, Slots
<1>2. \A s : /\ Copies(s)' \in SUBSET Ids /\ Accepting(s)' \in SUBSET Threads
             /\ Own(s)' \in SUBSET Slots /\ Importing(s)' \in SUBSET Threads
  BY DEF Copies, Accepting, Own, Importing, Documents, Ids, Slots
<1>3. \A S, T : IsFiniteSet(S) /\ T \in SUBSET S => IsFiniteSet(T) /\ Cardinality(T) \in Nat
  BY FS_Subset, FS_CardinalityType
<1> QED BY <1>1, <1>2, <1>3

\* There is nothing at first.
LEMMA StoreInitially == InitLibrary => StoreInv
<1> SUFFICES ASSUME InitLibrary PROVE StoreInv
  OBVIOUS
<1>1. /\ Documents = {} /\ Used = {}
      /\ \A p \in Paths : ~Holds(p)
      /\ \A t \in Threads : threads[t] = Idle /\ threads[t].op = "none"
      /\ inTurn \in BOOLEAN
  BY LibraryFields DEF InitLibrary, Documents, Used, Holds
<1>2. LibraryTypeOK
  <2>1. 0 \in 0 .. MaxUploads /\ 0 \in 0 .. MaxOverlapping
    BY LibraryAssumption
  <2> QED BY <2>1, LibraryFields DEF InitLibrary, LibraryTypeOK
<1>3. ThreadsInTurn /\ SharesKnown
  BY <1>1 DEF ThreadsInTurn, OneThread, SharesKnown
<1>4. SharesInOrder
  <2>1. 1 .. 0 = {} /\ 0 \in 0 .. MaxShares
    BY LibraryAssumption
  <2> QED BY <1>1, <2>1 DEF SharesInOrder
<1>5. /\ \A s : Copies(s) = {} /\ Accepting(s) = {}
      /\ \A u \in Readers : Own(u) = {} /\ Importing(u) = {}
  BY <1>1 DEF Copies, Accepting, Own, Owned, Importing, Uploaded, Rewrites, Paths
<1>6. Overlap \in Nat /\ 1 <= Overlap
  BY OverlapType
<1>7. Cardinality({}) = 0
  BY FS_EmptySet
<1>8. NotYetCopied
  BY <1>5 DEF NotYetCopied
<1>9. CopiedAtMostOnce
  BY <1>5, <1>6, <1>7 DEF CopiedAtMostOnce
<1>10. WithinTheLimit
  BY <1>5, <1>6, <1>7, LibraryAssumption DEF WithinTheLimit
<1> QED BY <1>2, <1>3, <1>4, <1>8, <1>9, <1>10 DEF StoreInv

\* A step after which no share has more copies, or requests that copy it.
LEMMA CopiesQuiet ==
    ASSUME StoreInv, UNCHANGED inTurn,
           \A i \in Ids : docs'[i] # NoDoc /\ docs'[i].via # 0 => docs[i] # NoDoc /\ docs[i].via = docs'[i].via,
           \A t \in Threads : threads'[t].op \in {"copy", "accept"} =>
               threads[t].op \in {"copy", "accept"} /\ threads[t].share = threads'[t].share,
           \A s \in ShareIds : Waiting(s)' => Waiting(s)
    PROVE  NotYetCopied' /\ CopiedAtMostOnce'
<1>1. \A s \in ShareIds : s # 0
  BY LibraryAssumption DEF ShareIds
<1>2. \A s \in ShareIds : Copies(s)' \subseteq Copies(s) /\ Accepting(s)' \subseteq Accepting(s)
  BY <1>1 DEF Copies, Accepting, Documents, Ids
<1>3. NotYetCopied'
  BY <1>2 DEF StoreInv, NotYetCopied, ShareIds
<1>4. ASSUME NEW s \in ShareIds
      PROVE  Cardinality(Copies(s)') + Cardinality(Accepting(s)') <= Overlap
  <2>1. Cardinality(Copies(s)) + Cardinality(Accepting(s)) <= Overlap
    BY DEF StoreInv, CopiedAtMostOnce
  <2>2. /\ IsFiniteSet(Copies(s)) /\ Cardinality(Copies(s)) \in Nat
        /\ IsFiniteSet(Accepting(s)) /\ Cardinality(Accepting(s)) \in Nat
    BY CountedAreFinite
  <2>3. Copies(s)' \in SUBSET Copies(s) /\ Accepting(s)' \in SUBSET Accepting(s)
    BY <1>2
  <2>4. Cardinality(Copies(s)') <= Cardinality(Copies(s)) /\ Cardinality(Accepting(s)') <= Cardinality(Accepting(s))
    BY <2>2, <2>3, FS_Subset
  <2>5. Cardinality(Copies(s)') \in Nat /\ Cardinality(Accepting(s)') \in Nat
    BY CountedStayFinite
  <2>6. Overlap \in Nat
    BY OverlapType
  <2> QED BY <2>1, <2>2, <2>4, <2>5, <2>6
<1>5. Overlap' = Overlap
  BY DEF Overlap
<1> QED BY <1>3, <1>4, <1>5 DEF CopiedAtMostOnce, ShareIds

\* A step after which no reader has uploaded, or is about to upload, more.
LEMMA OwnQuietFor ==
    ASSUME StoreInv, UNCHANGED inTurn, NEW u \in Readers,
           \A s \in Slots : Owned(<<u, s>>)' => Owned(<<u, s>>),
           \A t \in Threads : threads'[t].op = "import" /\ threads'[t].user = u =>
               threads[t].op = "import" /\ threads[t].user = u
    PROVE  Cardinality(Own(u)') + Cardinality(Importing(u)') <= StorageLimit + Overlap - 1
<1>1. Own(u)' \in SUBSET Own(u) /\ Importing(u)' \in SUBSET Importing(u)
  BY DEF Own, Importing, Slots
<1>2. Cardinality(Own(u)) + Cardinality(Importing(u)) <= StorageLimit + Overlap - 1
  BY DEF StoreInv, WithinTheLimit
<1>3. /\ IsFiniteSet(Own(u)) /\ Cardinality(Own(u)) \in Nat
      /\ IsFiniteSet(Importing(u)) /\ Cardinality(Importing(u)) \in Nat
  BY CountedAreFinite
<1>4. Cardinality(Own(u)') <= Cardinality(Own(u)) /\ Cardinality(Importing(u)') <= Cardinality(Importing(u))
  BY <1>1, <1>3, FS_Subset
<1>5. Cardinality(Own(u)') \in Nat /\ Cardinality(Importing(u)') \in Nat
  BY CountedStayFinite
<1>6. Overlap \in Nat /\ StorageLimit \in Nat
  BY OverlapType, LibraryAssumption
<1> QED BY <1>2, <1>3, <1>4, <1>5, <1>6

\* And so for all readers.
LEMMA OwnQuiet ==
    ASSUME StoreInv, UNCHANGED inTurn,
           \A p \in Paths : Owned(p)' => Owned(p),
           \A t \in Threads : threads'[t].op = "import" =>
               threads[t].op = "import" /\ threads[t].user = threads'[t].user
    PROVE  WithinTheLimit'
<1>1. ASSUME NEW u \in Readers
      PROVE  Cardinality(Own(u)') + Cardinality(Importing(u)') <= StorageLimit + Overlap - 1
  <2>1. \A s \in Slots : Owned(<<u, s>>)' => Owned(<<u, s>>)
    <3>1. \A s \in Slots : <<u, s>> \in Paths
      BY DEF Paths
    <3> QED BY <3>1
  <2> QED BY <2>1, OwnQuietFor
<1>2. Overlap' = Overlap
  BY DEF Overlap
<1> QED BY <1>1, <1>2 DEF WithinTheLimit

\* A thread that serves its next request, goes on with one or ends it.
LEMMA ThreadMoves ==
    ASSUME StoreInv, NEW t \in Threads, NEW r \in LibraryRequest \cup {Idle},
           threads' = [threads EXCEPT ![t] = r], UNCHANGED inTurn,
           threads[t] # Idle \/ (inTurn => \A d \in Threads : threads[d] = Idle)
    PROVE  /\ threads' \in [Threads -> LibraryRequest \cup {Idle}]
           /\ threads'[t] = r /\ \A d \in Threads : d # t => threads'[d] = threads[d]
           /\ ThreadsInTurn'
<1>1. threads' \in [Threads -> LibraryRequest \cup {Idle}]
  BY DEF StoreInv, LibraryTypeOK
<1>2. threads'[t] = r /\ \A d \in Threads : d # t => threads'[d] = threads[d]
  BY DEF StoreInv, LibraryTypeOK
<1>3. ThreadsInTurn'
  BY <1>2 DEF StoreInv, ThreadsInTurn, OneThread
<1> QED BY <1>1, <1>2, <1>3

\* The types of what is stored, and of the requests.
LEMMA TypesKept ==
    ASSUME StoreTypes', threads' \in [Threads -> LibraryRequest \cup {Idle}],
           uploads' \in 0 .. MaxUploads, begun' \in 0 .. MaxOverlapping,
           spilled' \in BOOLEAN, inTurn' \in BOOLEAN
    PROVE  LibraryTypeOK'
BY DEF LibraryTypeOK, StoreTypes, LibraryRequest, Ids, Paths, Slots, Works, Editions, ShareIds, Doc, Share, Stored

\* A step of one thread that copies no share, and uploads nothing, that was
\* not copied or uploaded before it.
LEMMA QuietMove ==
    ASSUME StoreInv, NEW t \in Threads, NEW r \in LibraryRequest \cup {Idle},
           threads' = [threads EXCEPT ![t] = r], UNCHANGED <<shares, inTurn>>,
           threads[t] # Idle \/ (inTurn => \A d \in Threads : threads[d] = Idle),
           StoreTypes', uploads' \in 0 .. MaxUploads, begun' \in 0 .. MaxOverlapping, spilled' \in BOOLEAN,
           \A i \in Ids : docs'[i] # NoDoc /\ docs'[i].via # 0 => docs[i] # NoDoc /\ docs[i].via = docs'[i].via,
           r.op \in {"copy", "accept"} => threads[t].op \in {"copy", "accept"} /\ threads[t].share = r.share,
           \A p \in Paths : Uploaded(p)' \/ Rewrites(r, p) => Owned(p),
           r.op # "import"
    PROVE  StoreInv'
<1>1. /\ threads' \in [Threads -> LibraryRequest \cup {Idle}]
      /\ threads'[t] = r /\ \A d \in Threads : d # t => threads'[d] = threads[d]
      /\ ThreadsInTurn'
  BY ThreadMoves
<1>2. LibraryTypeOK'
  BY <1>1, TypesKept DEF StoreInv, LibraryTypeOK
<1>3. \A d \in Threads : threads'[d].op \in {"copy", "accept"} =>
         threads[d].op \in {"copy", "accept"} /\ threads[d].share = threads'[d].share
  BY <1>1
<1>4. NotYetCopied' /\ CopiedAtMostOnce'
  <2>1. \A s \in ShareIds : Waiting(s)' => Waiting(s)
    BY DEF Waiting
  <2> QED BY <1>3, <2>1, CopiesQuiet
<1>5. SharesInOrder' /\ SharesKnown'
  BY <1>3 DEF StoreInv, SharesInOrder, SharesKnown, Used, ShareIds
<1>6. WithinTheLimit'
  <2>1. \A p \in Paths : Owned(p)' => Owned(p)
    <3>1. SUFFICES ASSUME NEW p \in Paths, Owned(p)' PROVE Owned(p)
      OBVIOUS
    <3>2. CASE Uploaded(p)'
      BY <3>2
    <3>3. ASSUME NEW d \in Threads, Rewrites(threads'[d], p) PROVE Owned(p)
      BY <1>1, <3>3 DEF Owned
    <3> QED BY <3>1, <3>2, <3>3 DEF Owned, Rewrites
  <2>2. \A d \in Threads : threads'[d].op = "import" =>
            threads[d].op = "import" /\ threads[d].user = threads'[d].user
    BY <1>1
  <2> QED BY <2>1, <2>2, OwnQuiet
<1> QED BY <1>1, <1>2, <1>4, <1>5, <1>6 DEF StoreInv

\* What is stored has its types.
LEMMA StoreTyped == ASSUME StoreInv PROVE StoreTypes
<1>1. 0 .. MaxUploads \subseteq Nat
  BY LibraryAssumption
<1> QED BY <1>1 DEF StoreInv, LibraryTypeOK, StoreTypes

\* What does not change keeps its types.
LEMMA StoreStays ==
    ASSUME StoreInv, UNCHANGED <<docs, files, covers, members, shares, uploads>>
    PROVE  StoreTypes'
BY StoreTyped DEF StoreTypes, Ids, Paths, Slots, Works, Editions, ShareIds, Doc, Share, Stored

\* A request that begins by reading, and copies or uploads nothing.
LEMMA BeginsQuietly ==
    ASSUME StoreInv, NEW t \in Threads, NEW r \in LibraryRequest, Begins(t, r),
           UNCHANGED <<files, shares, uploads, spilled, inTurn>>, StoreTypes',
           \A i \in Ids : docs'[i] # NoDoc => docs'[i] = docs[i],
           r.op \notin {"copy", "accept", "import"},
           \A p \in Paths : Rewrites(r, p) => Owned(p)
    PROVE  StoreInv'
<1>1. /\ threads[t] = Idle /\ threads' = [threads EXCEPT ![t] = r]
      /\ inTurn => \A d \in Threads : threads[d] = Idle
  BY DEF Begins
<1>2. begun' \in 0 .. MaxOverlapping
  BY LibraryAssumption DEF Begins, StoreInv, LibraryTypeOK
<1>3. uploads' \in 0 .. MaxUploads /\ spilled' \in BOOLEAN
  BY DEF StoreInv, LibraryTypeOK
<1>4. \A p \in Paths : Uploaded(p)' \/ Rewrites(r, p) => Owned(p)
  BY DEF Uploaded, Holds, Owned
<1>5. UNCHANGED <<shares, inTurn>>
  OBVIOUS
<1>6. \A i \in Ids : docs'[i] # NoDoc /\ docs'[i].via # 0 => docs[i] # NoDoc /\ docs[i].via = docs'[i].via
  OBVIOUS
<1> QED BY <1>1, <1>2, <1>3, <1>4, <1>5, <1>6, QuietMove

\* A request that ends, and has copied or uploaded nothing that was not there.
LEMMA EndsQuietly ==
    ASSUME StoreInv, NEW t \in Threads, threads[t] # Idle, Finishes(t),
           UNCHANGED <<shares, uploads, begun, inTurn>>, StoreTypes', spilled' \in BOOLEAN,
           \A i \in Ids : docs'[i] # NoDoc /\ docs'[i].via # 0 => docs[i] # NoDoc /\ docs[i].via = docs'[i].via,
           \A p \in Paths : Uploaded(p)' => Owned(p)
    PROVE  StoreInv'
<1>1. threads' = [threads EXCEPT ![t] = Idle]
  BY DEF Finishes
<1>2. uploads' \in 0 .. MaxUploads /\ begun' \in 0 .. MaxOverlapping
  BY DEF StoreInv, LibraryTypeOK
<1>3. \A p \in Paths : Uploaded(p)' \/ Rewrites(Idle, p) => Owned(p)
  BY LibraryFields DEF Rewrites
<1>4. UNCHANGED <<shares, inTurn>>
  OBVIOUS
<1>5. Idle.op \notin {"copy", "accept", "import"}
  BY LibraryFields
<1> QED BY <1>1, <1>2, <1>3, <1>4, <1>5, QuietMove

\* Requests that only read at first (reimport_document, delete_document,
\* add_collection_documents), and the script that deletes at once.
LEMMA ReadsQuiet ==
    ASSUME StoreInv, NEW t \in Threads,
           \/ \E i \in Ids : ReimportRead(t, i) \/ DeleteRead(t, i) \/ CollectRead(t, i)
           \/ ResetRows(t)
    PROVE  StoreInv'
<1>1. ASSUME NEW i \in Ids, i \in Documents
      PROVE  /\ docs[i] \in Doc /\ <<docs[i].owner, docs[i].slot>> \in Paths /\ docs[i].work \in Works
  <2>1. docs[i] \in Doc
    BY <1>1 DEF StoreInv, LibraryTypeOK, Documents
  <2> QED BY <2>1, LibraryFields
<1>2. ASSUME NEW i \in Ids, ReimportRead(t, i) PROVE StoreInv'
  <2> DEFINE p == <<docs[i].owner, docs[i].slot>>
             copied == files[p].copied \/ ~Holds(p)
             R(w, e, moved) == [op |-> "reimport", path |-> p, id |-> i, work |-> w, edition |-> e,
                                copied |-> copied, moved |-> moved]
  <2>1. /\ i \in Documents
        /\ UNCHANGED <<docs, files, covers, members, shares, uploads, spilled, inTurn>>
    BY <1>2 DEF ReimportRead
  <2>2. p \in Paths /\ docs[i].work \in Works /\ files[p] \in Stored
    BY <1>1, <2>1 DEF StoreInv, LibraryTypeOK
  <2>3. PICK w \in Works, e \in Editions, moved \in BOOLEAN : Begins(t, R(w, e, moved))
    <3>1. Holds(p) => files[p].work \in Works
      BY <2>2 DEF Holds, Stored
    <3>2. files[p].edition \in Editions
      BY <2>2 DEF Stored
    <3>3. docs[i].inbox \in BOOLEAN
      BY <1>1, <2>1, LibraryFields
    <3>4. (docs[i].inbox \/ docs[i].via # 0) \in BOOLEAN /\ FALSE \in BOOLEAN
      OBVIOUS
    <3>5. \/ \E e \in Editions : Begins(t, R(docs[i].work, e, FALSE))
          \/ Holds(p) /\ Begins(t, R(files[p].work, files[p].edition, docs[i].inbox \/ docs[i].via # 0))
      BY <1>2 DEF ReimportRead
    <3> HIDE DEF R
    <3> QED BY <2>2, <3>1, <3>2, <3>4, <3>5
  <2> DEFINE r == R(w, e, moved)
  <2>4. copied \in BOOLEAN /\ (~copied => Uploaded(p))
    BY DEF Uploaded
  <2> HIDE DEF copied
  <2>5. r \in LibraryRequest
    BY <2>1, <2>2, <2>4 DEF LibraryRequest
  <2>6. \A q \in Paths : Rewrites(r, q) => Owned(q)
    BY <2>4 DEF Rewrites, Owned
  <2>7. r.op = "reimport"
    OBVIOUS
  <2>8. StoreTypes' /\ \A j \in Ids : docs'[j] = docs[j]
    BY <2>1, StoreStays
  <2>9. Begins(t, r)
    BY <2>3
  <2> HIDE DEF r
  <2> QED BY <2>1, <2>5, <2>6, <2>7, <2>8, <2>9, BeginsQuietly
<1>3. ASSUME NEW i \in Ids, DeleteRead(t, i) PROVE StoreInv'
  <2> DEFINE r == [op |-> "delete", path |-> <<docs[i].owner, docs[i].slot>>, id |-> i,
                   member |-> members[i] # 0]
  <2>1. /\ Begins(t, r) /\ i \in Documents
        /\ UNCHANGED <<docs, files, covers, members, shares, uploads, spilled, inTurn>>
    BY <1>3 DEF DeleteRead
  <2>2. r \in LibraryRequest
    BY <1>1, <2>1 DEF LibraryRequest
  <2>3. r.op = "delete" /\ \A q \in Paths : ~Rewrites(r, q)
    BY DEF Rewrites
  <2>4. StoreTypes' /\ \A j \in Ids : docs'[j] = docs[j]
    BY <2>1, StoreStays
  <2> HIDE DEF r
  <2> QED BY <2>1, <2>2, <2>3, <2>4, BeginsQuietly
<1>4. ASSUME NEW i \in Ids, CollectRead(t, i) PROVE StoreInv'
  <2> DEFINE r == [op |-> "collect", path |-> << >>, id |-> i, work |-> docs[i].work]
  <2>1. /\ Begins(t, r) /\ i \in Documents
        /\ UNCHANGED <<docs, files, covers, members, shares, uploads, spilled, inTurn>>
    BY <1>4 DEF CollectRead
  <2>2. r \in LibraryRequest
    BY <1>1, <2>1 DEF LibraryRequest
  <2>3. r.op = "collect" /\ \A q \in Paths : ~Rewrites(r, q)
    BY DEF Rewrites
  <2>4. StoreTypes' /\ \A j \in Ids : docs'[j] = docs[j]
    BY <2>1, StoreStays
  <2> HIDE DEF r
  <2> QED BY <2>1, <2>2, <2>3, <2>4, BeginsQuietly
<1>5. CASE ResetRows(t)
  <2> DEFINE r == [op |-> "reset", path |-> << >>]
  <2>1. /\ Begins(t, r) /\ docs' = [i \in Ids |-> NoDoc] /\ members' = [i \in Ids |-> 0]
        /\ UNCHANGED <<files, covers, shares, uploads, spilled, inTurn>>
    BY <1>5 DEF ResetRows
  <2>2. r \in LibraryRequest
    BY DEF LibraryRequest
  <2>3. r.op = "reset" /\ \A q \in Paths : ~Rewrites(r, q)
    BY DEF Rewrites
  <2>4. StoreTypes' /\ \A j \in Ids : docs'[j] = NoDoc
    BY <2>1, StoreTyped DEF StoreTypes, Ids, Paths, Slots, Works, Editions, ShareIds, Doc, Share, Stored
  <2> HIDE DEF r
  <2> QED BY <2>1, <2>2, <2>3, <2>4, BeginsQuietly
<1> QED BY <1>2, <1>3, <1>4, <1>5

\* What a request that runs is.
LEMMA RunningRequest ==
    ASSUME StoreInv, NEW t \in Threads, threads[t].op # "none"
    PROVE  threads[t] \in LibraryRequest /\ threads[t] # Idle
BY LibraryFields DEF StoreInv, LibraryTypeOK

\* The row a request inserts, with its cover.
LEMMA InsertedTypes ==
    ASSUME StoreInv, NEW i \in Ids, NEW p \in Paths, NEW w \in Works, NEW v \in ShareIds \cup {0},
           NEW e \in Editions, NEW inbox \in BOOLEAN, docs' = Inserted(i, p, w, e, inbox, v)
    PROVE  /\ docs' \in [Ids -> Doc \cup {NoDoc}]
           /\ docs'[i] \in Doc /\ docs'[i].via = v
           /\ \A j \in Ids : j # i => docs'[j] = docs[j]
<1> DEFINE d == [owner |-> p[1], slot |-> p[2], work |-> w, via |-> v, edition |-> e, inbox |-> inbox]
<1>1. d \in Doc /\ d.via = v
  BY DEF Doc, Paths
<1>2. docs' = [docs EXCEPT ![i] = d] /\ docs \in [Ids -> Doc \cup {NoDoc}]
  BY DEF Inserted, StoreInv, LibraryTypeOK
<1> HIDE DEF d
<1> QED BY <1>1, <1>2

\* A cover under a document's id.
LEMMA CoverTypes ==
    ASSUME StoreInv, NEW i \in Ids, NEW u \in Readers, NEW w \in Works \cup {0}
    PROVE  WithCover(u, i, w) \in [Readers \X Ids -> Works \cup {0}]
<1>1. <<u, i>> \in Readers \X Ids /\ covers \in [Readers \X Ids -> Works \cup {0}]
  BY DEF StoreInv, LibraryTypeOK
<1> QED BY <1>1 DEF WithCover

\* Covers after a request that failed.
LEMMA FailedCoverTypes ==
    ASSUME StoreInv, NEW t \in Threads, CoverIfFailed(t)
    PROVE  covers' \in [Readers \X Ids -> Works \cup {0}]
<1>1. CASE UNCHANGED covers
  BY <1>1 DEF StoreInv, LibraryTypeOK
<1>2. ASSUME threads[t].op \in {"insert", "accept"}, NEW i \in Ids,
             covers' = WithCover(threads[t].path[1], i, threads[t].work)
      PROVE  covers' \in [Readers \X Ids -> Works \cup {0}]
  <2>1. threads[t].path \in Paths /\ threads[t].work \in Works
    BY <1>2, RunningRequest, RequestKinds
  <2>2. threads[t].path[1] \in Readers
    BY <2>1 DEF Paths
  <2> QED BY <1>2, <2>1, <2>2, CoverTypes
<1>3. ASSUME threads[t].op = "replace", covers' = WithCover(threads[t].path[1], threads[t].id, threads[t].work)
      PROVE  covers' \in [Readers \X Ids -> Works \cup {0}]
  <2>1. threads[t].path \in Paths /\ threads[t].id \in Ids /\ threads[t].work \in Works
    BY <1>3, RunningRequest, RequestKinds
  <2>2. threads[t].path[1] \in Readers
    BY <2>1 DEF Paths
  <2> QED BY <1>3, <2>1, <2>2, CoverTypes
<1> QED BY <1>1, <1>2, <1>3 DEF CoverIfFailed

\* A file that goes, or that is written.
LEMMA FileWritten ==
    ASSUME StoreInv, NEW p \in Paths, NEW f \in Stored, files' = [files EXCEPT ![p] = f]
    PROVE  /\ files' \in [Paths -> Stored]
           /\ files'[p] = f
           /\ \A q \in Paths : q # p => files'[q] = files[q] /\ (Uploaded(q)' <=> Uploaded(q))
<1>1. files' \in [Paths -> Stored] /\ files'[p] = f
  BY DEF StoreInv, LibraryTypeOK
<1>2. \A q \in Paths : q # p => files'[q] = files[q]
  BY DEF StoreInv, LibraryTypeOK
<1> QED BY <1>1, <1>2 DEF Uploaded, Holds

\* The end of an import (_import_document_from_bytes).
LEMMA ImportEnds ==
    ASSUME StoreInv, NEW t \in Threads, ImportCommit(t) \/ ImportFails(t)
    PROVE  StoreInv'
<1> DEFINE r == threads[t]
<1>1. r.op = "insert"
  BY DEF ImportCommit, ImportFails
<1>2. r # Idle /\ r.user \in Readers /\ r.path \in Paths /\ r.work \in Works
  BY <1>1, RunningRequest, RequestKinds
<1>3. CASE ImportCommit(t)
  <2>1. PICK i \in Ids : /\ docs' = Inserted(i, r.path, r.work, 0, r.work \in Inbox, 0)
                        /\ covers' = WithCover(r.user, i, r.work)
    BY <1>3 DEF ImportCommit
  <2>2. Finishes(t) /\ UNCHANGED <<files, members, shares, uploads, begun, spilled, inTurn>>
    BY <1>3 DEF ImportCommit
  <2>3. /\ docs' \in [Ids -> Doc \cup {NoDoc}]
        /\ docs'[i].via = 0 /\ \A j \in Ids : j # i => docs'[j] = docs[j]
    <3>1. (r.work \in Inbox) \in BOOLEAN /\ 0 \in Editions
      BY LibraryFields
    <3> QED BY <1>2, <2>1, <3>1, InsertedTypes
  <2>4. covers' \in [Readers \X Ids -> Works \cup {0}]
    BY <1>2, <2>1, CoverTypes
  <2>5. StoreTypes'
    BY <2>2, <2>3, <2>4, StoreTyped DEF StoreTypes, Ids, Paths, Slots, Works, Editions, ShareIds, Doc, Share, Stored
  <2>6. spilled' \in BOOLEAN
    BY <2>2 DEF StoreInv, LibraryTypeOK
  <2>7. \A p \in Paths : Uploaded(p)' => Owned(p)
    BY <2>2 DEF Uploaded, Owned, Holds
  <2> QED BY <1>2, <2>2, <2>3, <2>5, <2>6, <2>7, EndsQuietly
<1>4. CASE ImportFails(t)
  <2>1. /\ files' = [files EXCEPT ![r.path] = Absent] /\ CoverIfFailed(t) /\ Finishes(t)
        /\ UNCHANGED <<docs, members, shares, uploads, begun, spilled, inTurn>>
    BY <1>4 DEF ImportFails
  <2>2. /\ files' \in [Paths -> Stored] /\ files'[r.path] = Absent
        /\ \A q \in Paths : q # r.path => (Uploaded(q)' <=> Uploaded(q))
    BY <1>2, <2>1, LibraryFields, FileWritten
  <2>3. covers' \in [Readers \X Ids -> Works \cup {0}]
    BY <2>1, FailedCoverTypes
  <2>4. StoreTypes'
    BY <2>1, <2>2, <2>3, StoreTyped DEF StoreTypes, Ids, Paths, Slots, Works, Editions, ShareIds, Doc, Share, Stored
  <2>5. spilled' \in BOOLEAN /\ \A i \in Ids : docs'[i] = docs[i]
    BY <2>1 DEF StoreInv, LibraryTypeOK
  <2>6. \A p \in Paths : Uploaded(p)' => Owned(p)
    BY <2>2, LibraryFields DEF Uploaded, Owned, Holds
  <2> QED BY <1>2, <2>1, <2>4, <2>5, <2>6, EndsQuietly
<1> QED BY <1>3, <1>4

\* A reimport writes over a file that was there when it read, or a file
\* that does not count, and then the rows (reimport_document).
LEMMA ReimportQuiet ==
    ASSUME StoreInv, NEW t \in Threads, ReimportWrite(t) \/ ReimportCommit(t)
    PROVE  StoreInv'
<1> DEFINE r == threads[t]
<1>1. r.op \in {"reimport", "replace"}
  BY DEF ReimportWrite, ReimportCommit
<1>2. r # Idle /\ r \in [op: {"reimport", "replace"}, path: Paths, id: Ids, work: Works, edition: Editions,
                         copied: BOOLEAN, moved: BOOLEAN]
  BY <1>1, RunningRequest, RequestKinds
<1>3. CASE ReimportWrite(t)
  <2> DEFINE f == [work |-> r.work, edition |-> r.edition, copied |-> r.copied]
  <2>1. /\ r.op = "reimport" /\ files' = [files EXCEPT ![r.path] = f] /\ GoesOn(t, "replace")
        /\ UNCHANGED <<docs, covers, members, shares, uploads, begun, spilled, inTurn>>
    BY <1>3 DEF ReimportWrite
  <2>2. f \in Stored /\ f.copied = r.copied
    BY <1>2 DEF Stored
  <2> HIDE DEF f
  <2>3. /\ files' \in [Paths -> Stored] /\ files'[r.path] = f
        /\ \A q \in Paths : q # r.path => (Uploaded(q)' <=> Uploaded(q))
    BY <1>2, <2>1, <2>2, FileWritten
  <2>4. PICK n \in LibraryRequest : n = [r EXCEPT !.op = "replace"]
    <3>1. [r EXCEPT !.op = "replace"] \in LibraryRequest
      BY <1>2 DEF LibraryRequest
    <3> QED BY <3>1
  <2>5. n.op = "replace" /\ threads' = [threads EXCEPT ![t] = n]
    BY <1>2, <2>1, <2>4 DEF GoesOn
  <2>6. StoreTypes'
    BY <2>1, <2>3, StoreTyped DEF StoreTypes, Ids, Paths, Slots, Works, Editions, ShareIds, Doc, Share, Stored
  <2>7. ASSUME NEW p \in Paths, Uploaded(p)' \/ Rewrites(n, p) PROVE Owned(p)
    <3>1. Uploaded(p)'
      BY <2>5, <2>7 DEF Rewrites
    <3>2. CASE p = r.path
      <4>1. ~r.copied
        BY <2>2, <2>3, <3>1, <3>2 DEF Uploaded
      <4> QED BY <2>1, <3>2, <4>1 DEF Owned, Rewrites
    <3>3. CASE p # r.path
      BY <2>3, <3>1, <3>3 DEF Owned
    <3> QED BY <3>2, <3>3
  <2>8. /\ uploads' \in 0 .. MaxUploads /\ begun' \in 0 .. MaxOverlapping /\ spilled' \in BOOLEAN
        /\ UNCHANGED <<shares, inTurn>>
    BY <2>1 DEF StoreInv, LibraryTypeOK
  <2>9. \A i \in Ids : docs'[i] # NoDoc /\ docs'[i].via # 0 => docs[i] # NoDoc /\ docs[i].via = docs'[i].via
    BY <2>1
  <2>10. n.op \notin {"copy", "accept", "import"}
    BY <2>5
  <2> QED BY <1>2, <2>5, <2>6, <2>7, <2>8, <2>9, <2>10, QuietMove
<1>4. CASE ReimportCommit(t)
  <2> DEFINE x == [docs[r.id] EXCEPT !.work = r.work, !.edition = r.edition, !.inbox = docs[r.id].inbox /\ ~r.moved]
  <2>1. /\ r.id \in Documents /\ docs' = [docs EXCEPT ![r.id] = x] /\ Finishes(t)
        /\ covers' = WithCover(r.path[1], r.id, r.work)
        /\ UNCHANGED <<files, members, shares, uploads, begun, spilled, inTurn>>
    BY <1>4 DEF ReimportCommit
  <2>2. docs \in [Ids -> Doc \cup {NoDoc}] /\ docs[r.id] \in Doc /\ docs[r.id] # NoDoc
    BY <2>1 DEF StoreInv, LibraryTypeOK, Documents
  <2>3. x \in Doc /\ x.via = docs[r.id].via
    <3> DEFINE b == docs[r.id].inbox /\ ~r.moved
    <3>1. b \in BOOLEAN
      BY <1>2, <2>2 DEF Doc
    <3>2. x = [docs[r.id] EXCEPT !.work = r.work, !.edition = r.edition, !.inbox = b]
      OBVIOUS
    <3> HIDE DEF b
    <3> QED BY <1>2, <2>2, <3>1, <3>2 DEF Doc
  <2> HIDE DEF x
  <2>4. /\ docs' \in [Ids -> Doc \cup {NoDoc}]
        /\ \A i \in Ids : docs'[i] # NoDoc => docs[i] # NoDoc /\ docs[i].via = docs'[i].via
    BY <1>2, <2>1, <2>2, <2>3
  <2>5. covers' \in [Readers \X Ids -> Works \cup {0}]
    <3>1. r.path[1] \in Readers
      BY <1>2 DEF Paths
    <3> QED BY <1>2, <2>1, <3>1, CoverTypes
  <2>6. StoreTypes'
    BY <2>1, <2>4, <2>5, StoreTyped DEF StoreTypes, Ids, Paths, Slots, Works, Editions, ShareIds, Doc, Share, Stored
  <2>7. spilled' \in BOOLEAN /\ \A p \in Paths : Uploaded(p)' => Owned(p)
    BY <2>1 DEF StoreInv, LibraryTypeOK, Uploaded, Holds, Owned
  <2> QED BY <1>2, <2>1, <2>4, <2>6, <2>7, EndsQuietly
<1> QED BY <1>3, <1>4

\* Deleting a document: its row, then its file (delete_document).
LEMMA DeleteQuiet ==
    ASSUME StoreInv, NEW t \in Threads, DeleteCommit(t) \/ DeleteUnlink(t)
    PROVE  StoreInv'
<1> DEFINE r == threads[t]
<1>1. r.op \in {"delete", "unlink"}
  BY DEF DeleteCommit, DeleteUnlink
<1>2. r # Idle /\ r \in [op: {"delete", "unlink"}, path: Paths, id: Ids, member: BOOLEAN]
  BY <1>1, RunningRequest, RequestKinds
<1>3. r.path \in Paths /\ r.id \in Ids
  BY <1>2
<1>4. CASE DeleteCommit(t)
  <2>1. /\ docs' = [docs EXCEPT ![r.id] = NoDoc] /\ GoesOn(t, "unlink")
        /\ members' = [members EXCEPT ![r.id] = IF r.member THEN 0 ELSE @]
        /\ UNCHANGED <<files, covers, shares, uploads, begun, spilled, inTurn>>
    BY <1>4 DEF DeleteCommit
  <2>2. PICK n \in LibraryRequest : n = [r EXCEPT !.op = "unlink"]
    <3>1. [r EXCEPT !.op = "unlink"] \in LibraryRequest
      BY <1>2 DEF LibraryRequest
    <3> QED BY <3>1
  <2>3. n.op = "unlink" /\ threads' = [threads EXCEPT ![t] = n]
    BY <1>2, <2>1, <2>2 DEF GoesOn
  <2>4. /\ docs' \in [Ids -> Doc \cup {NoDoc}] /\ members' \in [Ids -> Works \cup {0}]
        /\ \A i \in Ids : docs'[i] # NoDoc => docs'[i] = docs[i]
    BY <1>3, <2>1 DEF StoreInv, LibraryTypeOK
  <2>5. StoreTypes'
    BY <2>1, <2>4, StoreTyped DEF StoreTypes, Ids, Paths, Slots, Works, Editions, ShareIds, Doc, Share, Stored
  <2>6. \A p \in Paths : Uploaded(p)' \/ Rewrites(n, p) => Owned(p)
    BY <2>1, <2>3 DEF Uploaded, Owned, Holds, Rewrites
  <2>7. /\ uploads' \in 0 .. MaxUploads /\ begun' \in 0 .. MaxOverlapping /\ spilled' \in BOOLEAN
        /\ UNCHANGED <<shares, inTurn>>
    BY <2>1 DEF StoreInv, LibraryTypeOK
  <2>8. \A i \in Ids : docs'[i] # NoDoc /\ docs'[i].via # 0 => docs[i] # NoDoc /\ docs[i].via = docs'[i].via
    BY <2>4
  <2> QED BY <1>2, <2>3, <2>5, <2>6, <2>7, <2>8, QuietMove
<1>5. CASE DeleteUnlink(t)
  <2>1. /\ files' = [files EXCEPT ![r.path] = Absent] /\ Finishes(t)
        /\ covers' = WithCover(r.path[1], r.id, 0)
        /\ UNCHANGED <<docs, members, shares, uploads, begun, spilled, inTurn>>
    BY <1>5 DEF DeleteUnlink, WithCover
  <2>2. /\ files' \in [Paths -> Stored] /\ files'[r.path] = Absent
        /\ \A q \in Paths : q # r.path => (Uploaded(q)' <=> Uploaded(q))
    BY <1>3, <2>1, LibraryFields, FileWritten
  <2>3. covers' \in [Readers \X Ids -> Works \cup {0}]
    <3>1. r.path[1] \in Readers
      BY <1>3 DEF Paths
    <3> QED BY <1>3, <2>1, <3>1, CoverTypes
  <2>4. StoreTypes'
    BY <2>1, <2>2, <2>3, StoreTyped DEF StoreTypes, Ids, Paths, Slots, Works, Editions, ShareIds, Doc, Share, Stored
  <2>5. spilled' \in BOOLEAN /\ \A i \in Ids : docs'[i] = docs[i]
    BY <2>1 DEF StoreInv, LibraryTypeOK
  <2>6. \A p \in Paths : Uploaded(p)' => Owned(p)
    BY <2>2, LibraryFields DEF Uploaded, Owned, Holds
  <2> QED BY <1>2, <2>1, <2>4, <2>5, <2>6, EndsQuietly
<1> QED BY <1>4, <1>5

\* The other ends: of the script's (reset_library), of a membership's
\* (add_collection_documents), and of any request that is cut short.
LEMMA OthersEnd ==
    ASSUME StoreInv, NEW t \in Threads, ResetFiles(t) \/ CollectCommit(t) \/ Breaks(t)
    PROVE  StoreInv'
<1>1. threads[t] # Idle
  BY LibraryFields DEF ResetFiles, CollectCommit, Breaks
<1>2. Finishes(t) /\ UNCHANGED <<docs, shares, uploads, begun, inTurn>> /\ \A i \in Ids : docs'[i] = docs[i]
  BY DEF ResetFiles, CollectCommit, Breaks
<1>3. spilled' \in BOOLEAN
  BY DEF ResetFiles, CollectCommit, Breaks, StoreInv, LibraryTypeOK
<1>4. \A p \in Paths : Uploaded(p)' => Owned(p)
  <2>1. CASE ResetFiles(t)
    BY <2>1, LibraryFields DEF ResetFiles, Uploaded, Holds, Paths, Slots
  <2>2. CASE UNCHANGED files
    BY <2>2 DEF Uploaded, Owned, Holds
  <2> QED BY <2>1, <2>2 DEF CollectCommit, Breaks
<1>5. StoreTypes'
  <2>1. CASE ResetFiles(t)
    BY <1>2, <2>1, StoreTyped, LibraryFields DEF ResetFiles, StoreTypes, Ids, Paths, Slots, Works, Editions, ShareIds, Doc, Share, Stored
  <2>2. CASE CollectCommit(t)
    <3>1. threads[t].op = "collect" /\ members' = [members EXCEPT ![threads[t].id] = threads[t].work]
      BY <2>2 DEF CollectCommit
    <3>2. threads[t].work \in Works
      BY <3>1, RunningRequest, RequestKinds
    <3>3. members' \in [Ids -> Works \cup {0}]
      BY <3>1, <3>2 DEF StoreInv, LibraryTypeOK
    <3>4. UNCHANGED <<files, covers>>
      BY <2>2 DEF CollectCommit
    <3> QED BY <1>2, <3>3, <3>4, StoreTyped DEF StoreTypes, Ids, Paths, Slots, Works, Editions, ShareIds, Doc, Share, Stored
  <2>3. CASE Breaks(t)
    <3>1. UNCHANGED <<files, members>> /\ covers' \in [Readers \X Ids -> Works \cup {0}]
      BY <2>3, FailedCoverTypes DEF Breaks
    <3> QED BY <1>2, <3>1, StoreTyped DEF StoreTypes, Ids, Paths, Slots, Works, Editions, ShareIds, Doc, Share, Stored
  <2> QED BY <2>1, <2>2, <2>3
<1> QED BY <1>1, <1>2, <1>3, <1>4, <1>5, EndsQuietly

\* The name a file is written under.
LEMMA DestinationTypes ==
    ASSUME NEW u \in Readers, NEW p \in Destinations(u)
    PROVE  \E s \in Slots : p = <<u, s>>
<1>1. CASE ~Holds(<<u, 0>>)
  BY <1>1, LibraryAssumption DEF Destinations, Slots
<1>2. CASE Holds(<<u, 0>>)
  BY <1>2 DEF Destinations, Unused
<1> QED BY <1>1, <1>2

\* A share is accepted: a request more copies it, while it is pending and so
\* has no copy (respond_to_share).
LEMMA AcceptBegins ==
    ASSUME StoreInv, NEW t \in Threads, NEW s \in ShareIds, AcceptRead(t, s)
    PROVE  StoreInv'
<1>1. /\ shares[s].status = "pending"
      /\ UNCHANGED <<docs, files, covers, members, shares, uploads, spilled, inTurn>>
  BY DEF AcceptRead
<1>2. PICK p \in Destinations(shares[s].to), i \in Documents :
        /\ docs[i].owner = shares[s].from /\ Holds(<<docs[i].owner, docs[i].slot>>)
        /\ Begins(t, [op |-> "copy", path |-> p, share |-> s,
                      work |-> files[<<docs[i].owner, docs[i].slot>>].work, edition |-> docs[i].edition,
                      stored |-> files[<<docs[i].owner, docs[i].slot>>].edition])
  BY DEF AcceptRead
<1> DEFINE w == files[<<docs[i].owner, docs[i].slot>>].work
           e == docs[i].edition
           f == files[<<docs[i].owner, docs[i].slot>>].edition
           r == [op |-> "copy", path |-> p, share |-> s, work |-> w, edition |-> e, stored |-> f]
<1>3. shares[s] \in Share /\ shares[s].to \in Readers /\ s \in Used
  <2>1. shares[s] \in Share /\ shares[s] # NoShare
    BY <1>1 DEF StoreInv, LibraryTypeOK, NoShare
  <2> QED BY <2>1 DEF Share, Used
<1>4. p \in Paths
  <2>1. PICK slot \in Slots : p = <<shares[s].to, slot>>
    BY <1>2, <1>3, DestinationTypes
  <2> QED BY <1>3, <2>1 DEF Paths
<1>5. w \in Works /\ e \in Editions /\ f \in Editions
  <2>1. docs[i] \in Doc
    BY <1>2 DEF StoreInv, LibraryTypeOK, Documents
  <2>2. files[<<docs[i].owner, docs[i].slot>>] \in Stored
    BY <2>1, LibraryFields DEF StoreInv, LibraryTypeOK
  <2> QED BY <1>2, <2>1, <2>2, LibraryFields DEF Holds, Stored
<1>6. r \in LibraryRequest
  BY <1>4, <1>5 DEF LibraryRequest
<1>7. r.op = "copy" /\ r.share = s /\ Begins(t, r)
  BY <1>2
<1> HIDE DEF r
<1>8. /\ threads[t] = Idle /\ threads' = [threads EXCEPT ![t] = r]
      /\ inTurn => \A d \in Threads : threads[d] = Idle
      /\ begun' \in 0 .. MaxOverlapping
  BY <1>7, LibraryAssumption DEF Begins, StoreInv, LibraryTypeOK
<1>9. /\ threads' \in [Threads -> LibraryRequest \cup {Idle}]
      /\ threads'[t] = r /\ \A d \in Threads : d # t => threads'[d] = threads[d]
      /\ ThreadsInTurn'
  BY <1>1, <1>6, <1>8, ThreadMoves
<1>10. LibraryTypeOK'
  BY <1>1, <1>8, <1>9, StoreStays, TypesKept DEF StoreInv, LibraryTypeOK
<1>11. SharesInOrder' /\ SharesKnown'
  BY <1>1, <1>3, <1>7, <1>9 DEF StoreInv, SharesInOrder, SharesKnown, Used, ShareIds
<1>12. \A v : Copies(v)' = Copies(v)
  BY <1>1 DEF Copies, Documents, Ids
<1>13. NotYetCopied'
  BY <1>1, <1>12 DEF StoreInv, NotYetCopied, Waiting, ShareIds
<1>14. CopiedAtMostOnce'
  <2>1. ASSUME NEW v \in ShareIds
        PROVE  Cardinality(Copies(v)') + Cardinality(Accepting(v)') <= Overlap
    <3>1. CASE v = s
      <4>1. Copies(v)' = {}
        BY <1>1, <1>12, <3>1 DEF StoreInv, NotYetCopied, Waiting
      <4>2. Accepting(v)' \in SUBSET Threads
        BY DEF Accepting
      <4>3. inTurn => \A c, d \in Accepting(v)' : c = d
        BY <1>1, <1>9, LibraryFields DEF ThreadsInTurn, OneThread, Accepting
      <4>4. inTurn \in BOOLEAN
        BY DEF StoreInv, LibraryTypeOK
      <4>5. Cardinality(Accepting(v)') \in Nat /\ Cardinality(Accepting(v)') <= Overlap
        BY <4>2, <4>3, <4>4, OverlapIsBounded
      <4> QED BY <4>1, <4>5, FS_EmptySet, OverlapType
    <3>2. CASE v # s
      <4>1. Accepting(v)' = Accepting(v)
        BY <1>7, <1>8, <1>9, <3>2, LibraryFields DEF Accepting
      <4> QED BY <1>12, <4>1 DEF StoreInv, CopiedAtMostOnce
    <3> QED BY <3>1, <3>2
  <2>2. Overlap' = Overlap
    BY <1>1 DEF Overlap
  <2> QED BY <2>1, <2>2 DEF CopiedAtMostOnce, ShareIds
<1>15. WithinTheLimit'
  <2>1. ASSUME NEW q \in Paths, Owned(q)' PROVE Owned(q)
    <3>1. Uploaded(q)' => Uploaded(q)
      BY <1>1 DEF Uploaded, Holds
    <3>2. \A d \in Threads : Rewrites(threads'[d], q) => Rewrites(threads[d], q)
      BY <1>7, <1>9 DEF Rewrites
    <3> QED BY <2>1, <3>1, <3>2 DEF Owned, Rewrites
  <2>2. \A d \in Threads : threads'[d].op = "import" =>
            threads[d].op = "import" /\ threads[d].user = threads'[d].user
    BY <1>7, <1>9
  <2> QED BY <1>1, <2>1, <2>2, OwnQuiet
<1> QED BY <1>9, <1>10, <1>11, <1>13, <1>14, <1>15 DEF StoreInv

\* The file of a copy is no upload (_copy_document_to_user).
LEMMA CopyQuiet ==
    ASSUME StoreInv, NEW t \in Threads, AcceptCopy(t)
    PROVE  StoreInv'
<1> DEFINE r == threads[t]
           f == [work |-> r.work, edition |-> r.stored, copied |-> TRUE]
<1>1. /\ r.op = "copy" /\ files' = [files EXCEPT ![r.path] = f] /\ GoesOn(t, "accept")
      /\ UNCHANGED <<docs, covers, members, shares, uploads, begun, spilled, inTurn>>
  BY DEF AcceptCopy
<1>2. r # Idle /\ r \in [op: {"copy", "accept"}, path: Paths, share: ShareIds, work: Works,
                         edition: Editions, stored: Editions]
  BY <1>1, RunningRequest, RequestKinds
<1>3. f \in Stored /\ f.copied
  BY <1>2 DEF Stored
<1> HIDE DEF f
<1>4. r.path \in Paths
  BY <1>2
<1>5. /\ files' \in [Paths -> Stored] /\ files'[r.path] = f
      /\ \A q \in Paths : q # r.path => (Uploaded(q)' <=> Uploaded(q))
  BY <1>1, <1>3, <1>4, FileWritten
<1>6. PICK n \in LibraryRequest : n = [r EXCEPT !.op = "accept"]
  <2>1. [r EXCEPT !.op = "accept"] \in LibraryRequest
    BY <1>2 DEF LibraryRequest
  <2> QED BY <2>1
<1>7. n.op = "accept" /\ n.share = r.share /\ threads' = [threads EXCEPT ![t] = n]
  BY <1>1, <1>2, <1>6 DEF GoesOn
<1>8. StoreTypes'
  BY <1>1, <1>5, StoreTyped DEF StoreTypes, Ids, Paths, Slots, Works, Editions, ShareIds, Doc, Share, Stored
<1>9. ASSUME NEW q \in Paths, Uploaded(q)' \/ Rewrites(n, q) PROVE Owned(q)
  <2>1. Uploaded(q)'
    BY <1>7, <1>9 DEF Rewrites
  <2>2. q # r.path
    BY <1>3, <1>5, <2>1 DEF Uploaded
  <2> QED BY <1>5, <2>1, <2>2 DEF Owned
<1>10. /\ uploads' \in 0 .. MaxUploads /\ begun' \in 0 .. MaxOverlapping /\ spilled' \in BOOLEAN
       /\ UNCHANGED <<shares, inTurn>>
  BY <1>1 DEF StoreInv, LibraryTypeOK
<1>11. \A i \in Ids : docs'[i] # NoDoc /\ docs'[i].via # 0 => docs[i] # NoDoc /\ docs[i].via = docs'[i].via
  BY <1>1
<1>12. n.op \in {"copy", "accept"} => threads[t].op \in {"copy", "accept"} /\ threads[t].share = n.share
  BY <1>1, <1>7
<1>13. n.op # "import"
  BY <1>7
<1> QED BY <1>2, <1>7, <1>8, <1>9, <1>10, <1>11, <1>12, <1>13, QuietMove

\* The copy gets its row: a request less copies the share, which is accepted
\* (respond_to_share).
LEMMA AcceptEnds ==
    ASSUME StoreInv, NEW t \in Threads, AcceptCommit(t)
    PROVE  StoreInv'
<1> DEFINE r == threads[t]
<1>1. /\ r.op = "accept" /\ Finishes(t)
      /\ UNCHANGED <<files, members, uploads, begun, spilled, inTurn>>
  BY DEF AcceptCommit
<1>2. PICK i \in Ids : /\ IsNewId(i)
                       /\ docs' = Inserted(i, r.path, r.work, r.edition, FALSE, r.share)
                       /\ covers' = WithCover(r.path[1], i, r.work)
  BY DEF AcceptCommit
<1>3. /\ r # Idle /\ r \in [op: {"copy", "accept"}, path: Paths, share: ShareIds, work: Works,
                         edition: Editions, stored: Editions]
      /\ r.share \in Used
  <2>1. r.share \in Used
    BY <1>1 DEF StoreInv, SharesKnown
  <2> QED BY <1>1, <2>1, RunningRequest, RequestKinds
<1>4. PICK s \in ShareIds : s = r.share
  BY <1>3
<1>5. r.path \in Paths /\ r.work \in Works /\ r.path[1] \in Readers /\ r.edition \in Editions
  BY <1>3 DEF Paths
<1>6. /\ docs' \in [Ids -> Doc \cup {NoDoc}] /\ docs'[i] \in Doc /\ docs'[i].via = s
      /\ \A j \in Ids : j # i => docs'[j] = docs[j]
  <2>1. docs' = Inserted(i, r.path, r.work, r.edition, FALSE, s)
    BY <1>2, <1>4
  <2> HIDE DEF r
  <2>2. FALSE \in BOOLEAN
    OBVIOUS
  <2> QED BY <1>5, <2>1, <2>2, InsertedTypes
<1>7. covers' \in [Readers \X Ids -> Works \cup {0}]
  BY <1>2, <1>5, CoverTypes
<1>8. shares[s] \in Share /\ shares' = [shares EXCEPT ![s].status = "accepted"]
  BY <1>3, <1>4 DEF AcceptCommit, StoreInv, LibraryTypeOK, Used
<1> DEFINE a == [shares[s] EXCEPT !.status = "accepted"]
<1>9. a \in Share /\ a.status = "accepted" /\ a # NoShare
  BY <1>8 DEF Share, NoShare
<1>10. shares' = [shares EXCEPT ![s] = a]
  BY <1>8
<1> HIDE DEF a
<1>11. /\ shares' \in [ShareIds -> Share \cup {NoShare}] /\ shares'[s] = a
       /\ \A v \in ShareIds : v # s => shares'[v] = shares[v]
  BY <1>9, <1>10 DEF StoreInv, LibraryTypeOK
<1>12. StoreTypes'
  BY <1>1, <1>6, <1>7, <1>11, StoreTyped DEF StoreTypes, Ids, Paths, Slots, Works, Editions, ShareIds, Doc, Share, Stored
<1>13. /\ threads' \in [Threads -> LibraryRequest \cup {Idle}]
       /\ threads'[t] = Idle /\ \A d \in Threads : d # t => threads'[d] = threads[d]
       /\ ThreadsInTurn'
  BY <1>1, <1>3, ThreadMoves DEF Finishes
<1>14. LibraryTypeOK'
  BY <1>1, <1>12, <1>13, TypesKept DEF StoreInv, LibraryTypeOK
<1>15. SharesInOrder' /\ SharesKnown'
  <2>1. Used' = Used
    BY <1>3, <1>4, <1>9, <1>11 DEF Used, ShareIds
  <2>2. SharesInOrder'
    BY <2>1 DEF StoreInv, SharesInOrder
  <2>3. SharesKnown'
    BY <2>1, <1>13, LibraryFields DEF StoreInv, SharesKnown
  <2> QED BY <2>2, <2>3
<1>16. i \notin Documents
  BY <1>2 DEF IsNewId, Ids
<1>17. ASSUME NEW v \in ShareIds
       PROVE  /\ v = s => Copies(v)' = Copies(v) \cup {i} /\ Accepting(v)' = Accepting(v) \ {t}
              /\ v # s => Copies(v)' = Copies(v) /\ Accepting(v)' = Accepting(v)
  <2>1. Documents' = Documents \cup {i}
    BY <1>6, LibraryFields DEF Documents, Ids
  <2>2. \A j \in Documents : docs'[j] = docs[j]
    BY <1>6, <1>16 DEF Documents
  <2>3. /\ v = s => Copies(v)' = Copies(v) \cup {i}
        /\ v # s => Copies(v)' = Copies(v)
    BY <1>6, <2>1, <2>2 DEF Copies
  <2>4. /\ v = s => Accepting(v)' = Accepting(v) \ {t}
        /\ v # s => Accepting(v)' = Accepting(v)
    BY <1>4, <1>13, LibraryFields DEF Accepting
  <2> QED BY <2>3, <2>4
<1>18. NotYetCopied'
  <2>1. \A v \in ShareIds : Waiting(v)' => v # s /\ Waiting(v)
    BY <1>9, <1>11 DEF Waiting
  <2> QED BY <1>17, <2>1 DEF StoreInv, NotYetCopied, ShareIds
<1>19. CopiedAtMostOnce'
  <2>1. ASSUME NEW v \in ShareIds
        PROVE  Cardinality(Copies(v)') + Cardinality(Accepting(v)') <= Overlap
    <3>1. Cardinality(Copies(v)) + Cardinality(Accepting(v)) <= Overlap
      BY DEF StoreInv, CopiedAtMostOnce
    <3>2. CASE v = s
      <4>1. t \in Accepting(v) /\ i \notin Copies(v)
        BY <1>1, <1>4, <1>16, <3>2 DEF Accepting, Copies
      <4>2. /\ IsFiniteSet(Copies(v)) /\ Cardinality(Copies(v)) \in Nat
            /\ IsFiniteSet(Accepting(v)) /\ Cardinality(Accepting(v)) \in Nat
        BY CountedAreFinite
      <4>3. Cardinality(Copies(v) \cup {i}) = Cardinality(Copies(v)) + 1
        BY <4>1, <4>2, FS_AddElement
      <4>4. Cardinality(Accepting(v) \ {t}) = Cardinality(Accepting(v)) - 1
        BY <4>1, <4>2, FS_RemoveElement
      <4>5. Copies(v)' = Copies(v) \cup {i} /\ Accepting(v)' = Accepting(v) \ {t}
        BY <1>17, <3>2
      <4> QED BY <3>1, <4>2, <4>3, <4>4, <4>5, OverlapType
    <3>3. CASE v # s
      BY <1>17, <3>1, <3>3
    <3> QED BY <3>2, <3>3
  <2>2. Overlap' = Overlap
    BY <1>1 DEF Overlap
  <2> QED BY <2>1, <2>2 DEF CopiedAtMostOnce, ShareIds
<1>20. WithinTheLimit'
  <2>1. ASSUME NEW q \in Paths, Owned(q)' PROVE Owned(q)
    <3>1. Uploaded(q)' => Uploaded(q)
      BY <1>1 DEF Uploaded, Holds
    <3>2. \A d \in Threads : Rewrites(threads'[d], q) => Rewrites(threads[d], q)
      BY <1>13, LibraryFields DEF Rewrites
    <3> QED BY <2>1, <3>1, <3>2 DEF Owned, Rewrites
  <2>2. \A d \in Threads : threads'[d].op = "import" =>
            threads[d].op = "import" /\ threads[d].user = threads'[d].user
    BY <1>13, LibraryFields
  <2> QED BY <1>1, <2>1, <2>2, OwnQuiet
<1> QED BY <1>13, <1>14, <1>15, <1>18, <1>19, <1>20 DEF StoreInv

\* What a reader has uploaded is in the directory, or is being written again:
\* no more than the directory holds and the requests that rewrite.
LEMMA OwnIsBounded ==
    ASSUME StoreInv, NEW u \in Readers
    PROVE  \E W \in SUBSET {t \in Threads : threads[t].op = "reimport"} :
               /\ IsFiniteSet(W) /\ Cardinality(W) \in Nat /\ Usage(u) \in Nat
               /\ Cardinality(Own(u)) <= Usage(u) + Cardinality(W)
<1> DEFINE H == {s \in Slots : Holds(<<u, s>>)}
           R == {s \in Own(u) : ~Holds(<<u, s>>)}
           writer == [s \in R |-> CHOOSE t \in Threads : Rewrites(threads[t], <<u, s>>)]
           W == {writer[s] : s \in R}
<1>1. Own(u) \subseteq H \cup R /\ IsFiniteSet(Own(u))
  BY CountedAreFinite DEF Own
<1>2. \A s \in R : writer[s] \in Threads /\ Rewrites(threads[writer[s]], <<u, s>>)
  BY DEF Own, Owned, Uploaded
<1>3. W \in SUBSET {t \in Threads : threads[t].op = "reimport"}
  BY <1>2 DEF Rewrites
<1>4. \A s, v \in R : writer[s] = writer[v] => s = v
  BY <1>2 DEF Rewrites
<1> HIDE DEF writer
<1>5. IsFiniteSet(W) /\ IsFiniteSet(R)
  <2>1. W \in SUBSET Threads
    BY <1>3
  <2> QED BY <1>1, <2>1, ThreadsAssumption, FS_Subset
<1>6. Cardinality(R) <= Cardinality(W)
  <2> DEFINE slot == [w \in W |-> CHOOSE s \in R : writer[s] = w]
  <2>1. \A s \in R : writer[s] \in W /\ slot[writer[s]] = s
    BY <1>4
  <2>2. slot \in [W -> R]
    OBVIOUS
  <2> HIDE DEF slot, W, R
  <2>3. slot \in Surjection(W, R)
    BY <2>1, <2>2 DEF Surjection
  <2> QED BY <1>5, <2>3, FS_Surjection
<1>7. IsFiniteSet(H) /\ Usage(u) = Cardinality(H)
  <2>1. IsFiniteSet(Slots) /\ H \in SUBSET Slots
    BY LibraryAssumption, FS_Interval DEF Slots
  <2> QED BY <2>1, FS_Subset DEF Usage
<1> HIDE DEF H, R, W
<1>8. IsFiniteSet(H \cup R) /\ Cardinality(H \cup R) = Cardinality(H) + Cardinality(R) - Cardinality(H \cap R)
  BY <1>5, <1>7, FS_Union
<1>9. Cardinality(Own(u)) <= Cardinality(H \cup R)
  BY <1>1, <1>8, FS_Subset
<1>10. IsFiniteSet(H \cap R)
  <2>1. H \cap R \in SUBSET H
    OBVIOUS
  <2> QED BY <1>7, <2>1, FS_Subset
<1>11. /\ Cardinality(H) \in Nat /\ Cardinality(R) \in Nat /\ Cardinality(W) \in Nat
       /\ Cardinality(H \cap R) \in Nat /\ Cardinality(Own(u)) \in Nat
  BY <1>1, <1>5, <1>7, <1>10, FS_CardinalityType
<1>12. Cardinality(Own(u)) <= Usage(u) + Cardinality(W)
  BY <1>6, <1>7, <1>8, <1>9, <1>11
<1> QED BY <1>3, <1>5, <1>7, <1>11, <1>12

\* An upload that passes the check: the directory holds less than the limit,
\* and what else the reader is getting there are requests that run with it
\* (ensure_user_storage_capacity).
LEMMA ImportBegins ==
    ASSUME StoreInv, NEW t \in Threads, NEW u \in Readers, ImportCheck(t, u)
    PROVE  StoreInv'
<1> DEFINE r == [op |-> "import", user |-> u, path |-> <<u, 0>>, work |-> uploads + 1]
<1>1. /\ uploads < MaxUploads /\ uploads' = uploads + 1 /\ Usage(u) + 1 <= StorageLimit
      /\ Begins(t, r) /\ UNCHANGED <<docs, files, covers, members, shares, spilled, inTurn>>
  BY DEF ImportCheck
<1>2. uploads' \in 0 .. MaxUploads /\ uploads + 1 \in Works
  BY <1>1, LibraryAssumption DEF StoreInv, LibraryTypeOK, Works
<1>3. r \in LibraryRequest
  BY <1>2, LibraryAssumption DEF LibraryRequest, Paths, Slots
<1>4. r.op = "import" /\ r.user = u
  OBVIOUS
<1> HIDE DEF r
<1>5. /\ threads[t] = Idle /\ threads' = [threads EXCEPT ![t] = r]
      /\ inTurn => \A d \in Threads : threads[d] = Idle
      /\ begun' \in 0 .. MaxOverlapping
  BY <1>1, LibraryAssumption DEF Begins, StoreInv, LibraryTypeOK
<1>6. /\ threads' \in [Threads -> LibraryRequest \cup {Idle}]
      /\ threads'[t] = r /\ \A d \in Threads : d # t => threads'[d] = threads[d]
      /\ ThreadsInTurn'
  BY <1>1, <1>3, <1>5, ThreadMoves
<1>7. LibraryTypeOK'
  <2>1. StoreTypes'
    BY <1>1, <1>2, StoreTyped, LibraryAssumption DEF StoreTypes, Ids, Paths, Slots, Works, Editions, ShareIds, Doc, Share, Stored
  <2> QED BY <1>1, <1>2, <1>5, <1>6, <2>1, TypesKept DEF StoreInv, LibraryTypeOK
<1>8. \A d \in Threads : threads'[d].op \in {"copy", "accept"} =>
         threads[d].op \in {"copy", "accept"} /\ threads[d].share = threads'[d].share
  BY <1>4, <1>6
<1>9. NotYetCopied' /\ CopiedAtMostOnce'
  <2>1. \A s \in ShareIds : Waiting(s)' => Waiting(s)
    BY <1>1 DEF Waiting
  <2>2. \A i \in Ids : docs'[i] # NoDoc /\ docs'[i].via # 0 => docs[i] # NoDoc /\ docs[i].via = docs'[i].via
    BY <1>1
  <2> QED BY <1>1, <1>8, <2>1, <2>2, CopiesQuiet
<1>10. SharesInOrder' /\ SharesKnown'
  BY <1>1, <1>8 DEF StoreInv, SharesInOrder, SharesKnown, Used, ShareIds
<1>11. ASSUME NEW q \in Paths, Owned(q)' PROVE Owned(q)
  <2>1. Uploaded(q)' => Uploaded(q)
    BY <1>1 DEF Uploaded, Holds
  <2>2. \A d \in Threads : Rewrites(threads'[d], q) => Rewrites(threads[d], q)
    BY <1>4, <1>6 DEF Rewrites
  <2> QED BY <1>11, <2>1, <2>2 DEF Owned, Rewrites
<1>12. ASSUME NEW v \in Readers
       PROVE  Cardinality(Own(v)') + Cardinality(Importing(v)') <= StorageLimit + Overlap - 1
  <2>1. \A s \in Slots : Owned(<<v, s>>)' => Owned(<<v, s>>)
    <3>1. \A s \in Slots : <<v, s>> \in Paths
      BY DEF Paths
    <3> QED BY <1>11, <3>1
  <2>2. CASE v # u
    <3>1. \A d \in Threads : threads'[d].op = "import" /\ threads'[d].user = v =>
             threads[d].op = "import" /\ threads[d].user = v
      BY <1>4, <1>6, <2>2
    <3> QED BY <1>1, <2>1, <3>1, OwnQuietFor
  <2>3. CASE v = u
    <3>1. PICK W \in SUBSET {d \in Threads : threads[d].op = "reimport"} :
            /\ IsFiniteSet(W) /\ Cardinality(W) \in Nat /\ Usage(u) \in Nat
            /\ Cardinality(Own(u)) <= Usage(u) + Cardinality(W)
      BY OwnIsBounded
    <3> DEFINE I == Importing(v)'
    <3>2. IsFiniteSet(I) /\ Cardinality(I) \in Nat /\ Cardinality(Own(v)') \in Nat /\ Cardinality(Own(u)) \in Nat
      BY CountedAreFinite, CountedStayFinite
    <3>3. \A d \in I : d \in Threads /\ threads'[d].op = "import"
      BY DEF Importing
    <3>4. Own(v)' \in SUBSET Own(u) /\ IsFiniteSet(Own(u))
      BY <2>1, <2>3, CountedAreFinite DEF Own, Slots
    <3>5. Cardinality(Own(v)') <= Cardinality(Own(u))
      BY <3>4, FS_Subset
    <3> HIDE DEF I
    <3>6. \A d \in W : d \in Threads /\ threads'[d].op = "reimport"
      BY <1>5, <1>6, <3>1, LibraryFields
    <3>7. W \cap I = {}
      BY <3>3, <3>6
    <3>8. inTurn => \A c, d \in W \cup I : c = d
      <4>1. \A d \in W \cup I : d \in Threads /\ threads'[d] # Idle
        BY <3>3, <3>6, LibraryFields
      <4> QED BY <1>1, <1>6, <4>1 DEF ThreadsInTurn, OneThread
    <3>9. Cardinality(W \cup I) <= Overlap
      <4>1. W \cup I \in SUBSET Threads /\ inTurn \in BOOLEAN
        BY <3>3, <3>6 DEF StoreInv, LibraryTypeOK
      <4> QED BY <3>8, <4>1, OverlapIsBounded
    <3>10. Cardinality(W \cup I) = Cardinality(W) + Cardinality(I)
      <4>1. Cardinality(W \cup I) = Cardinality(W) + Cardinality(I) - Cardinality(W \cap I)
        BY <3>1, <3>2, FS_Union
      <4>2. Cardinality(W \cap I) = 0
        BY <3>7, FS_EmptySet
      <4> QED BY <3>1, <3>2, <4>1, <4>2
    <3>11. Cardinality(I) + Cardinality(Own(v)') <= StorageLimit + Overlap - 1
      BY <1>1, <3>1, <3>2, <3>5, <3>9, <3>10, OverlapType, LibraryAssumption
    <3> QED BY <3>2, <3>11 DEF I
  <2> QED BY <2>2, <2>3
<1>13. WithinTheLimit'
  <2>1. Overlap' = Overlap
    BY <1>1 DEF Overlap
  <2> QED BY <1>12, <2>1 DEF WithinTheLimit
<1> QED BY <1>6, <1>7, <1>9, <1>10, <1>13 DEF StoreInv

\* The file of an upload: one is uploaded more, and one less is on its way
\* (_build_storage_path).
LEMMA ImportWrites ==
    ASSUME StoreInv, NEW t \in Threads, ImportWrite(t)
    PROVE  StoreInv'
<1> DEFINE r == threads[t]
           f == [work |-> r.work, edition |-> 0, copied |-> FALSE]
<1>1. r.op = "import" /\ UNCHANGED <<docs, covers, members, shares, uploads, begun, spilled, inTurn>>
  BY DEF ImportWrite
<1>2. /\ r # Idle /\ r \in [op: {"import", "insert"}, user: Readers, path: Paths, work: Works]
  BY <1>1, RunningRequest, RequestKinds
<1>3. PICK p \in Destinations(r.user) :
        /\ files' = [files EXCEPT ![p] = f]
        /\ threads' = [threads EXCEPT ![t] = [r EXCEPT !.op = "insert", !.path = p]]
  BY DEF ImportWrite
<1>4. PICK u \in Readers : u = r.user
  BY <1>2
<1>5. PICK slot \in Slots : p = <<u, slot>>
  BY <1>3, <1>4, DestinationTypes
<1>6. p \in Paths /\ f \in Stored
  BY <1>2, <1>5, LibraryFields DEF Paths, Stored
<1> HIDE DEF f
<1>7. /\ files' \in [Paths -> Stored]
      /\ \A q \in Paths : q # p => (Uploaded(q)' <=> Uploaded(q))
  BY <1>3, <1>6, FileWritten
<1>8. PICK n \in LibraryRequest : n = [r EXCEPT !.op = "insert", !.path = p]
  <2>1. [r EXCEPT !.op = "insert", !.path = p] \in LibraryRequest
    BY <1>2, <1>6 DEF LibraryRequest
  <2> QED BY <2>1
<1>9. n.op = "insert" /\ threads' = [threads EXCEPT ![t] = n]
  BY <1>2, <1>3, <1>8
<1>10. /\ threads' \in [Threads -> LibraryRequest \cup {Idle}]
       /\ threads'[t] = n /\ \A d \in Threads : d # t => threads'[d] = threads[d]
       /\ ThreadsInTurn'
  BY <1>1, <1>2, <1>9, ThreadMoves
<1>11. LibraryTypeOK'
  <2>1. StoreTypes'
    BY <1>1, <1>7, StoreTyped DEF StoreTypes, Ids, Paths, Slots, Works, Editions, ShareIds, Doc, Share, Stored
  <2> QED BY <1>1, <1>10, <2>1, TypesKept DEF StoreInv, LibraryTypeOK
<1>12. \A d \in Threads : threads'[d].op \in {"copy", "accept"} =>
         threads[d].op \in {"copy", "accept"} /\ threads[d].share = threads'[d].share
  BY <1>9, <1>10
<1>13. NotYetCopied' /\ CopiedAtMostOnce'
  <2>1. \A s \in ShareIds : Waiting(s)' => Waiting(s)
    BY <1>1 DEF Waiting
  <2>2. \A i \in Ids : docs'[i] # NoDoc /\ docs'[i].via # 0 => docs[i] # NoDoc /\ docs[i].via = docs'[i].via
    BY <1>1
  <2> QED BY <1>1, <1>12, <2>1, <2>2, CopiesQuiet
<1>14. SharesInOrder' /\ SharesKnown'
  BY <1>1, <1>12 DEF StoreInv, SharesInOrder, SharesKnown, Used, ShareIds
<1>15. ASSUME NEW q \in Paths, q # p, Owned(q)' PROVE Owned(q)
  <2>1. \A d \in Threads : Rewrites(threads'[d], q) => Rewrites(threads[d], q)
    BY <1>9, <1>10 DEF Rewrites
  <2> QED BY <1>7, <1>15, <2>1 DEF Owned, Rewrites
<1>16. ASSUME NEW v \in Readers
       PROVE  Cardinality(Own(v)') + Cardinality(Importing(v)') <= StorageLimit + Overlap - 1
  <2>1. CASE v # u
    <3>1. \A s \in Slots : Owned(<<v, s>>)' => Owned(<<v, s>>)
      <4>1. \A s \in Slots : <<v, s>> \in Paths /\ <<v, s>> # p
        BY <1>5, <2>1 DEF Paths
      <4> QED BY <1>15, <4>1
    <3>2. \A d \in Threads : threads'[d].op = "import" /\ threads'[d].user = v =>
             threads[d].op = "import" /\ threads[d].user = v
      BY <1>9, <1>10
    <3> QED BY <1>1, <3>1, <3>2, OwnQuietFor
  <2>2. CASE v = u
    <3>1. Own(v)' \in SUBSET (Own(v) \cup {slot})
      <4>1. ASSUME NEW s \in Slots, s # slot, Owned(<<v, s>>)' PROVE Owned(<<v, s>>)
        <5>1. <<v, s>> \in Paths /\ <<v, s>> # p
          BY <1>5, <4>1 DEF Paths
        <5> QED BY <1>15, <4>1, <5>1
      <4> QED BY <4>1 DEF Own, Slots
    <3>2. Importing(v)' = Importing(v) \ {t} /\ t \in Importing(v)
      BY <1>1, <1>4, <1>9, <1>10, <2>2 DEF Importing
    <3>3. /\ IsFiniteSet(Own(v)) /\ Cardinality(Own(v)) \in Nat /\ Cardinality(Own(v)') \in Nat
          /\ IsFiniteSet(Importing(v)) /\ Cardinality(Importing(v)) \in Nat
      BY CountedAreFinite, CountedStayFinite
    <3>4. IsFiniteSet(Own(v) \cup {slot}) /\ Cardinality(Own(v) \cup {slot}) <= Cardinality(Own(v)) + 1
      <4>1. /\ IsFiniteSet(Own(v) \cup {slot})
            /\ Cardinality(Own(v) \cup {slot}) = IF slot \in Own(v) THEN Cardinality(Own(v)) ELSE Cardinality(Own(v)) + 1
        BY <3>3, FS_AddElement
      <4> QED BY <3>3, <4>1
    <3>5. Cardinality(Own(v)') <= Cardinality(Own(v) \cup {slot})
      BY <3>1, <3>4, FS_Subset
    <3>6. Cardinality(Importing(v)') = Cardinality(Importing(v)) - 1
      BY <3>2, <3>3, FS_RemoveElement
    <3>7. Cardinality(Own(v)) + Cardinality(Importing(v)) <= StorageLimit + Overlap - 1
      BY DEF StoreInv, WithinTheLimit
    <3>8. Cardinality(Own(v) \cup {slot}) \in Nat
      BY <3>4, FS_CardinalityType
    <3> QED BY <3>3, <3>4, <3>5, <3>6, <3>7, <3>8, OverlapType, LibraryAssumption
  <2> QED BY <2>1, <2>2
<1>17. WithinTheLimit'
  <2>1. Overlap' = Overlap
    BY <1>1 DEF Overlap
  <2> QED BY <1>16, <2>1 DEF WithinTheLimit
<1> QED BY <1>10, <1>11, <1>13, <1>14, <1>17 DEF StoreInv

\* Shares that are offered or declined are those in order, and the new one
\* had no copy (create_share, respond_to_share).
LEMMA SharesQuiet ==
    ASSUME StoreInv, NEW s \in ShareIds, NEW x \in Share,
           shares' = [shares EXCEPT ![s] = x],
           UNCHANGED <<docs, files, covers, members, threads, uploads, begun, spilled, inTurn>>,
           Waiting(s), SharesInOrder'
    PROVE  StoreInv'
<1>1. x # NoShare
  BY DEF Share, NoShare
<1>2. /\ shares' \in [ShareIds -> Share \cup {NoShare}] /\ shares'[s] = x
      /\ \A v \in ShareIds : v # s => shares'[v] = shares[v]
  BY DEF StoreInv, LibraryTypeOK
<1>3. StoreTypes'
  BY <1>2, StoreTyped DEF StoreTypes, Ids, Paths, Slots, Works, Editions, ShareIds, Doc, Share, Stored
<1>4. LibraryTypeOK'
  BY <1>3, TypesKept DEF StoreInv, LibraryTypeOK
<1>5. ThreadsInTurn'
  BY DEF StoreInv, ThreadsInTurn, OneThread
<1>6. SharesKnown'
  <2>1. \A v \in Used : v \in Used'
    BY <1>1, <1>2 DEF Used, ShareIds
  <2> QED BY <2>1 DEF StoreInv, SharesKnown
<1>7. NotYetCopied' /\ CopiedAtMostOnce'
  <2>1. \A v \in ShareIds : Waiting(v)' => Waiting(v)
    BY <1>2 DEF Waiting
  <2>2. /\ \A i \in Ids : docs'[i] # NoDoc /\ docs'[i].via # 0 => docs[i] # NoDoc /\ docs[i].via = docs'[i].via
        /\ \A t \in Threads : threads'[t].op \in {"copy", "accept"} =>
               threads[t].op \in {"copy", "accept"} /\ threads[t].share = threads'[t].share
    OBVIOUS
  <2> QED BY <2>1, <2>2, CopiesQuiet
<1>8. WithinTheLimit'
  <2>1. \A p \in Paths : Owned(p)' => Owned(p)
    BY DEF Owned, Uploaded, Holds, Rewrites
  <2> QED BY <2>1, OwnQuiet
<1> QED BY <1>4, <1>5, <1>6, <1>7, <1>8 DEF StoreInv

\* The steps that no request is needed for (remove_collection_document,
\* create_share, respond_to_share).
LEMMA RestQuiet ==
    ASSUME StoreInv,
           \/ \E i \in Ids : Uncollect(i) \/ \E v \in Readers : ShareItem(i, v)
           \/ \E s \in ShareIds : Decline(s)
    PROVE  StoreInv'
<1>1. ASSUME NEW i \in Ids, Uncollect(i) PROVE StoreInv'
  <2>1. /\ members' = [members EXCEPT ![i] = 0]
        /\ UNCHANGED <<docs, files, covers, shares, threads, uploads, begun, spilled, inTurn>>
    BY <1>1 DEF Uncollect
  <2>2. LibraryTypeOK'
    BY <2>1 DEF StoreInv, LibraryTypeOK, LibraryRequest, Ids, Paths, Slots, Works, Editions, ShareIds, Doc, Share, Stored
  <2>3. ThreadsInTurn' /\ SharesInOrder' /\ SharesKnown'
    BY <2>1 DEF StoreInv, ThreadsInTurn, OneThread, SharesInOrder, SharesKnown, Used, ShareIds
  <2>4. NotYetCopied' /\ CopiedAtMostOnce'
    <3>1. \A v \in ShareIds : Waiting(v)' => Waiting(v)
      BY <2>1 DEF Waiting
    <3>2. /\ \A j \in Ids : docs'[j] # NoDoc /\ docs'[j].via # 0 => docs[j] # NoDoc /\ docs[j].via = docs'[j].via
          /\ \A t \in Threads : threads'[t].op \in {"copy", "accept"} =>
                 threads[t].op \in {"copy", "accept"} /\ threads[t].share = threads'[t].share
      BY <2>1
    <3> QED BY <2>1, <3>1, <3>2, CopiesQuiet
  <2>5. WithinTheLimit'
    <3>1. \A p \in Paths : Owned(p)' => Owned(p)
      BY <2>1 DEF Owned, Uploaded, Holds, Rewrites
    <3>2. \A t \in Threads : threads'[t].op = "import" =>
              threads[t].op = "import" /\ threads[t].user = threads'[t].user
      BY <2>1
    <3> QED BY <2>1, <3>1, <3>2, OwnQuiet
  <2> QED BY <2>2, <2>3, <2>4, <2>5 DEF StoreInv
<1>2. ASSUME NEW i \in Ids, NEW v \in Readers, ShareItem(i, v) PROVE StoreInv'
  <2> DEFINE new == Cardinality(Used) + 1
             x == [from |-> docs[i].owner, to |-> v, id |-> i, work |-> docs[i].work, status |-> "pending"]
  <2>1. /\ i \in Documents /\ new \in ShareIds /\ shares' = [shares EXCEPT ![new] = x]
        /\ UNCHANGED <<docs, files, covers, members, threads, uploads, begun, spilled, inTurn>>
    BY <1>2 DEF ShareItem, Used
  <2>2. x \in Share /\ x # NoShare
    <3>1. docs[i] \in Doc
      BY <2>1 DEF StoreInv, LibraryTypeOK, Documents
    <3>2. docs[i].owner \in Readers /\ docs[i].work \in Works
      BY <3>1, LibraryFields
    <3> QED BY <3>2 DEF Share, NoShare
  <2> HIDE DEF x
  <2>3. PICK k \in 0 .. MaxShares : Used = 1 .. k
    BY DEF StoreInv, SharesInOrder
  <2>4. Cardinality(Used) = k /\ k \in Nat
    <3>1. k \in Nat /\ 1 \in Int /\ k \in Int
      BY <2>3, LibraryAssumption
    <3>2. Cardinality(1 .. k) = IF 1 > k THEN 0 ELSE k - 1 + 1
      BY <3>1, FS_Interval
    <3> QED BY <2>3, <3>1, <3>2
  <2>5. k + 1 \in 0 .. MaxShares /\ k + 1 \in ShareIds /\ shares' = [shares EXCEPT ![k + 1] = x]
    BY <2>1, <2>4, LibraryAssumption DEF ShareIds
  <2>6. k + 1 \notin Used
    BY <2>3, <2>4
  <2>7. Waiting(k + 1)
    BY <2>5, <2>6 DEF Used, Waiting, NoShare
  <2>8. SharesInOrder'
    <3>1. shares \in [ShareIds -> Share \cup {NoShare}]
      BY DEF StoreInv, LibraryTypeOK
    <3>2. Used' = Used \cup {k + 1}
      BY <2>2, <2>5, <3>1 DEF Used, ShareIds
    <3>3. 1 .. (k + 1) = (1 .. k) \cup {k + 1}
      BY <2>4
    <3>4. Used' = 1 .. (k + 1)
      BY <2>3, <3>2, <3>3
    <3> QED BY <2>5, <3>4 DEF SharesInOrder
  <2> QED BY <2>1, <2>2, <2>5, <2>7, <2>8, SharesQuiet
<1>3. ASSUME NEW s \in ShareIds, Decline(s) PROVE StoreInv'
  <2> DEFINE x == [shares[s] EXCEPT !.status = "declined"]
  <2>1. /\ shares[s].status = "pending" /\ shares' = [shares EXCEPT ![s] = x]
        /\ UNCHANGED <<docs, files, covers, members, threads, uploads, begun, spilled, inTurn>>
    BY <1>3 DEF Decline
  <2>2. shares[s] \in Share /\ s \in Used
    BY <2>1 DEF StoreInv, LibraryTypeOK, NoShare, Used
  <2>3. x \in Share /\ x # NoShare
    BY <2>2 DEF Share, NoShare
  <2> HIDE DEF x
  <2>4. Used' = Used
    BY <2>1, <2>2, <2>3 DEF StoreInv, LibraryTypeOK, Used, ShareIds
  <2>5. SharesInOrder'
    BY <2>4 DEF StoreInv, SharesInOrder
  <2>6. Waiting(s)
    BY <2>1 DEF Waiting
  <2> QED BY <2>1, <2>3, <2>5, <2>6, SharesQuiet
<1> QED BY <1>1, <1>2, <1>3

\* Every step keeps it.
LEMMA StorePreserved == StoreInv /\ [NextLibrary]_libraryVars => StoreInv'
<1> SUFFICES ASSUME StoreInv, [NextLibrary]_libraryVars PROVE StoreInv'
  OBVIOUS
<1>1. CASE UNCHANGED libraryVars
  <2>1. UNCHANGED <<docs, files, covers, members, shares, threads, uploads, begun, spilled, inTurn>>
    BY <1>1 DEF libraryVars
  <2>2. LibraryTypeOK'
    BY <2>1 DEF StoreInv, LibraryTypeOK, LibraryRequest, Ids, Paths, Slots, Works, Editions, ShareIds, Doc, Share, Stored
  <2>3. ThreadsInTurn' /\ SharesInOrder' /\ SharesKnown'
    BY <2>1 DEF StoreInv, ThreadsInTurn, OneThread, SharesInOrder, SharesKnown, Used, ShareIds
  <2>4. NotYetCopied' /\ CopiedAtMostOnce'
    BY <2>1 DEF StoreInv, NotYetCopied, CopiedAtMostOnce, Copies, Accepting, Waiting, Overlap, Documents, ShareIds, Ids
  <2>5. WithinTheLimit'
    BY <2>1 DEF StoreInv, WithinTheLimit, Own, Owned, Uploaded, Holds, Rewrites, Importing, Overlap, Slots
  <2> QED BY <2>2, <2>3, <2>4, <2>5 DEF StoreInv
<1>2. ASSUME NEW t \in Threads,
             \/ \E u \in Readers : ImportCheck(t, u)
             \/ ImportWrite(t) \/ ImportCommit(t) \/ ImportFails(t)
             \/ \E i \in Ids : ReimportRead(t, i) \/ DeleteRead(t, i) \/ CollectRead(t, i)
             \/ ReimportWrite(t) \/ ReimportCommit(t) \/ DeleteCommit(t) \/ DeleteUnlink(t) \/ CollectCommit(t)
             \/ ResetRows(t) \/ ResetFiles(t)
             \/ \E s \in ShareIds : AcceptRead(t, s)
             \/ AcceptCopy(t) \/ AcceptCommit(t)
             \/ Breaks(t)
      PROVE  StoreInv'
  BY <1>2, ReadsQuiet, ImportBegins, ImportWrites, ImportEnds, ReimportQuiet, DeleteQuiet, OthersEnd,
     AcceptBegins, CopyQuiet, AcceptEnds
<1>3. CASE NextLibrary
  BY <1>2, <1>3, RestQuiet DEF NextLibrary
<1> QED BY <1>1, <1>3

\* The invariant of requests that may overlap.
LEMMA StoreCorrect == SpecLibrary => []StoreInv
BY StoreInitially, StorePreserved, PTL DEF SpecLibrary

\* A share makes one copy, or one for each of the requests that accept it at
\* the same time (respond_to_share).
THEOREM SharesMakeOneCopy == SpecLibrary => []ShareIsCopiedOnce
<1>1. StoreInv => ShareIsCopiedOnce
  <2> SUFFICES ASSUME StoreInv, NEW s \in ShareIds
               PROVE  Cardinality(Copies(s)) <= Overlap
    BY DEF ShareIsCopiedOnce, Copies, Overlap
  <2>1. Cardinality(Copies(s)) + Cardinality(Accepting(s)) <= Overlap
    BY DEF StoreInv, CopiedAtMostOnce
  <2> QED BY <2>1, CountedAreFinite, OverlapType
<1> QED BY <1>1, StoreCorrect, PTL

\* What a reader uploads stays within the limit, or beyond it by one upload
\* less than requests may overlap (ensure_user_storage_capacity).
THEOREM UploadsAreLimited == SpecLibrary => []UploadsStayWithinTheLimit
<1>1. StoreInv => UploadsStayWithinTheLimit
  <2> SUFFICES ASSUME StoreInv, NEW u \in Readers
               PROVE  Cardinality({s \in Slots : Holds(<<u, s>>) /\ ~files[<<u, s>>].copied})
                        <= StorageLimit + IF inTurn THEN 0 ELSE Cardinality(Threads) - 1
    BY DEF UploadsStayWithinTheLimit
  <2> DEFINE F == {s \in Slots : Holds(<<u, s>>) /\ ~files[<<u, s>>].copied}
  <2>1. F \in SUBSET Own(u)
    BY Zenon DEF Own, Owned, Uploaded
  <2>2. IsFiniteSet(F) /\ Cardinality(F) <= Cardinality(Own(u))
    BY <2>1, CountedAreFinite, FS_Subset
  <2>3. Cardinality(F) \in Nat
    BY <2>2, FS_CardinalityType
  <2>4. Cardinality(Own(u)) + Cardinality(Importing(u)) <= StorageLimit + Overlap - 1
    BY DEF StoreInv, WithinTheLimit
  <2>5. Overlap - 1 = IF inTurn THEN 0 ELSE Cardinality(Threads) - 1
    BY DEF Overlap
  <2> HIDE DEF F
  <2>6. Cardinality(F) <= StorageLimit + (Overlap - 1)
    BY <2>2, <2>3, <2>4, CountedAreFinite, OverlapType, LibraryAssumption
  <2> QED BY <2>5, <2>6 DEF F
<1> QED BY <1>1, StoreCorrect, PTL
=============================================================================
