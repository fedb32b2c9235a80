------------------------------- MODULE Library -------------------------------
(***************************************************************************)
(* Documents, the files beside their rows, collections and shares          *)
(* (services/documents.py, library_view.py, collections.py, shares.py,     *)
(* library_admin.py, user_storage.py).  A request reads, then changes      *)
(* files and rows in steps of its own; its end may come after any of them. *)
(* inTurn is to it what serial is to Accounts.  Every document is uploaded *)
(* under one name and takes one unit of its owner's storage.               *)
(***************************************************************************)
EXTENDS Naturals, FiniteSets

CONSTANTS Readers, Threads,
          MaxDocuments,   \* ids that can be in use at once
          MaxSlots,       \* files a reader can have under other names than the uploaded one
          MaxUploads,     \* bound: uploads in a behaviour
          MaxOverlapping, \* bound: requests in a behaviour whose requests overlap
          MaxShares,
          StorageLimit,   \* user_storage_max_bytes
          Inbox,          \* which uploads are imports of a file of the inbox, their origin_path
          MaxEditions     \* bound: how often the host changes a file of the inbox

ASSUME LibraryAssumption == /\ MaxDocuments \in Nat /\ MaxSlots \in Nat /\ MaxUploads \in Nat
                            /\ MaxOverlapping \in Nat /\ MaxShares \in Nat /\ StorageLimit \in Nat
                            /\ MaxEditions \in Nat
ASSUME ThreadsAssumption == IsFiniteSet(Threads) /\ Threads # {}

VARIABLES docs,      \* documents with their profiles: rows by id
          files,     \* what the source directory of each reader holds
          covers,    \* what the covers directory holds under each document's id
          members,   \* collection_documents of each reader's one collection
          shares,    \* shared_items, in the order of their ids
          threads,   \* the request each thread serves, and what it has read
          uploads,   \* how many uploads there were
          begun,     \* how many requests there were, when they overlap
          spilled,   \* ghost: some request ended between a file and its row
          inTurn

libraryVars == <<docs, files, covers, members, shares, threads, uploads, begun, spilled, inTurn>>

Ids == 1 .. MaxDocuments
Works == 1 .. MaxUploads       \* ghost: which upload a text comes from
Slots == 0 .. MaxSlots         \* 0: the name of the upload
Paths == Readers \X Slots
ShareIds == 1 .. MaxShares
Editions == 0 .. MaxEditions   \* of a work, as its file in the inbox changes

\* inbox: origin_path is a file of the inbox, and not source_path.
Doc == [owner: Readers, slot: Slots, work: Works, via: ShareIds \cup {0},
        edition: Editions, inbox: BOOLEAN]
NoDoc == [work |-> 0]
\* copied: written without a look at the storage limit.
Stored == [work: Works \cup {0}, edition: Editions, copied: BOOLEAN]
Absent == [work |-> 0, edition |-> 0, copied |-> FALSE]
Share == [from: Readers, to: Readers, id: Ids, work: Works,
          status: {"pending", "accepted", "declined"}]
NoShare == [status |-> "none"]
Idle == [op |-> "none"]
LibraryRequest == [op: {"import", "insert"}, user: Readers, path: Paths, work: Works]
             \cup [op: {"reimport", "replace"}, path: Paths, id: Ids, work: Works, edition: Editions,
                   copied: BOOLEAN, moved: BOOLEAN]
             \cup [op: {"delete", "unlink"}, path: Paths, id: Ids, member: BOOLEAN]
             \cup [op: {"reset"}, path: {<< >>}]
             \cup [op: {"collect"}, path: {<< >>}, id: Ids, work: Works]
             \cup [op: {"copy", "accept"}, path: Paths, share: ShareIds, work: Works,
                   edition: Editions, stored: Editions]

LibraryTypeOK ==
    /\ docs \in [Ids -> Doc \cup {NoDoc}]
    /\ files \in [Paths -> Stored]
    /\ covers \in [Readers \X Ids -> Works \cup {0}]
    /\ members \in [Ids -> Works \cup {0}]
    /\ shares \in [ShareIds -> Share \cup {NoShare}]
    /\ threads \in [Threads -> LibraryRequest \cup {Idle}]
    /\ uploads \in 0 .. MaxUploads /\ begun \in 0 .. MaxOverlapping
    /\ spilled \in BOOLEAN /\ inTurn \in BOOLEAN

InitLibrary ==
    /\ docs = [i \in Ids |-> NoDoc]
    /\ files = [p \in Paths |-> Absent]
    /\ covers = [p \in Readers \X Ids |-> 0]
    /\ members = [i \in Ids |-> 0]
    /\ shares = [s \in ShareIds |-> NoShare]
    /\ threads = [t \in Threads |-> Idle]
    /\ uploads = 0 /\ begun = 0 /\ spilled = FALSE /\ inTurn \in BOOLEAN

-----------------------------------------------------------------------------
Documents == {i \in Ids : docs[i] # NoDoc}

(* The row an INSERT gets: ids of deleted rows at the end come again.      *)
IsNewId(i) == /\ \A j \in Documents : j < i
              /\ i = 1 \/ i - 1 \in Documents

Holds(p) == files[p].work # 0
Usage(u) == Cardinality({s \in Slots : Holds(<<u, s>>)})

(* A name with a uuid: no file, row or request has it.                     *)
Unused(u) == {s \in Slots \ {0} :
                 /\ ~Holds(<<u, s>>)
                 /\ \A i \in Documents : <<docs[i].owner, docs[i].slot>> # <<u, s>>
                 /\ \A t \in Threads : threads[t].op # "none" => threads[t].path # <<u, s>>}

\* Mutant: always the name itself.
DestinationsByName(u) == {<<u, 0>>}

(* _build_storage_path and _copy_into_directory: the name itself if it is  *)
(* free, else one of a kind.                                               *)
Destinations(u) == IF ~Holds(<<u, 0>>) THEN {<<u, 0>>}
                   ELSE {<<u, s>> : s \in {s \in Unused(u) : \A r \in Unused(u) : s <= r}}

(* The row of document i with its profile, and a cover under its id        *)
(* (upsert_document_profile, write_cover_asset).                           *)
Inserted(i, path, work, edition, inbox, via) ==
    [docs EXCEPT ![i] = [owner |-> path[1], slot |-> path[2], work |-> work, via |-> via,
                         edition |-> edition, inbox |-> inbox]]
WithCover(u, i, work) == [covers EXCEPT ![<<u, i>>] = work]

(* A cover is written before the commit, and stays when that fails.        *)
CoverIfFailed(t) ==
    \/ UNCHANGED covers
    \/ /\ threads[t].op \in {"insert", "accept"}
       /\ \E i \in Ids : IsNewId(i) /\ covers' = WithCover(threads[t].path[1], i, threads[t].work)
    \/ /\ threads[t].op = "replace"
       /\ covers' = WithCover(threads[t].path[1], threads[t].id, threads[t].work)

Begins(t, request) == /\ threads[t] = Idle
                      /\ IF inTurn THEN /\ \A d \in Threads : threads[d] = Idle
                                        /\ UNCHANGED begun
                         ELSE begun < MaxOverlapping /\ begun' = begun + 1
                      /\ threads' = [threads EXCEPT ![t] = request]

Finishes(t) == threads' = [threads EXCEPT ![t] = Idle]
GoesOn(t, op) == threads' = [threads EXCEPT ![t].op = op]

-----------------------------------------------------------------------------
\* Mutant: the storage limit is not asked.
ImportUnchecked(t, u) ==
    /\ uploads < MaxUploads
    /\ Begins(t, [op |-> "import", user |-> u, path |-> <<u, 0>>, work |-> uploads + 1])
    /\ uploads' = uploads + 1
    /\ UNCHANGED <<docs, files, covers, members, shares, spilled, inTurn>>

(* Importing (_import_document_from_bytes): the storage limit, the file    *)
(* under a name that is free, the parser, the rows and the cover.          *)
ImportCheck(t, u) ==
    /\ uploads < MaxUploads
    /\ Usage(u) + 1 <= StorageLimit
    /\ Begins(t, [op |-> "import", user |-> u, path |-> <<u, 0>>, work |-> uploads + 1])
    /\ uploads' = uploads + 1
    /\ UNCHANGED <<docs, files, covers, members, shares, spilled, inTurn>>

ImportWrite(t) ==
    LET r == threads[t] IN
    /\ r.op = "import"
    /\ \E p \in Destinations(r.user) :
         /\ files' = [files EXCEPT ![p] = [work |-> r.work, edition |-> 0, copied |-> FALSE]]
         /\ threads' = [threads EXCEPT ![t] = [r EXCEPT !.op = "insert", !.path = p]]
    /\ UNCHANGED <<docs, covers, members, shares, uploads, begun, spilled, inTurn>>

ImportCommit(t) ==
    LET r == threads[t] IN
    /\ r.op = "insert"
    /\ \E i \in Ids : /\ IsNewId(i)
                     /\ docs' = Inserted(i, r.path, r.work, 0, r.work \in Inbox, 0)
                     /\ covers' = WithCover(r.user, i, r.work)
    /\ Finishes(t)
    /\ UNCHANGED <<files, members, shares, uploads, begun, spilled, inTurn>>

\* Mutant: the file of a failed import stays.
ImportFailsKeepingFile(t) ==
    /\ threads[t].op = "insert"
    /\ CoverIfFailed(t)
    /\ Finishes(t)
    /\ UNCHANGED <<docs, files, members, shares, uploads, begun, spilled, inTurn>>

(* The text cannot be parsed, or the insert fails: the file goes again,    *)
(* a cover does not.                                                       *)
ImportFails(t) ==
    /\ threads[t].op = "insert"
    /\ files' = [files EXCEPT ![threads[t].path] = Absent]
    /\ CoverIfFailed(t)
    /\ Finishes(t)
    /\ UNCHANGED <<docs, members, shares, uploads, begun, spilled, inTurn>>

(* reimport_document: the source is the file of the inbox, in whatever     *)
(* edition, or when that is gone the document's own, which then becomes    *)
(* its origin; it is written to the document's own path, and then come     *)
(* cover and rows.  Where no row is left the end of the request fails.     *)
ReimportRead(t, i) ==
    LET p == <<docs[i].owner, docs[i].slot>>
        BeginsWith(w, e, moved) ==
            Begins(t, [op |-> "reimport", path |-> p, id |-> i, work |-> w, edition |-> e,
                       copied |-> files[p].copied \/ ~Holds(p), moved |-> moved])
    IN
    /\ i \in Documents
    /\ \/ docs[i].inbox /\ \E e \in Editions : BeginsWith(docs[i].work, e, FALSE)
       \/ Holds(p) /\ BeginsWith(files[p].work, files[p].edition, docs[i].inbox \/ docs[i].via # 0)
    /\ UNCHANGED <<docs, files, covers, members, shares, uploads, spilled, inTurn>>

ReimportWrite(t) ==
    LET r == threads[t] IN
    /\ r.op = "reimport"
    /\ files' = [files EXCEPT ![r.path] = [work |-> r.work, edition |-> r.edition, copied |-> r.copied]]
    /\ GoesOn(t, "replace")
    /\ UNCHANGED <<docs, covers, members, shares, uploads, begun, spilled, inTurn>>

ReimportCommit(t) ==
    LET r == threads[t] IN
    /\ r.op = "replace" /\ r.id \in Documents
    /\ docs' = [docs EXCEPT ![r.id] = [@ EXCEPT !.work = r.work, !.edition = r.edition,
                                               !.inbox = docs[r.id].inbox /\ ~r.moved]]
    /\ covers' = WithCover(r.path[1], r.id, r.work)
    /\ Finishes(t)
    /\ UNCHANGED <<files, members, shares, uploads, begun, spilled, inTurn>>

-----------------------------------------------------------------------------
(* delete_document: what hangs on the row is selected, deleted with it,    *)
(* and after the commit its files are unlinked.                            *)
DeleteRead(t, i) ==
    /\ i \in Documents
    /\ Begins(t, [op |-> "delete", path |-> <<docs[i].owner, docs[i].slot>>, id |-> i,
                  member |-> members[i] # 0])
    /\ UNCHANGED <<docs, files, covers, members, shares, uploads, spilled, inTurn>>

\* Mutant: the collection keeps the id.
DeleteCommitKeepingMembers(t) ==
    /\ threads[t].op = "delete"
    /\ docs' = [docs EXCEPT ![threads[t].id] = NoDoc]
    /\ GoesOn(t, "unlink")
    /\ UNCHANGED <<files, covers, members, shares, uploads, begun, spilled, inTurn>>

DeleteCommit(t) ==
    LET r == threads[t] IN
    /\ r.op = "delete"
    /\ docs' = [docs EXCEPT ![r.id] = NoDoc]
    /\ members' = [members EXCEPT ![r.id] = IF r.member THEN 0 ELSE @]
    /\ GoesOn(t, "unlink")
    /\ UNCHANGED <<files, covers, shares, uploads, begun, spilled, inTurn>>

DeleteUnlink(t) ==
    LET r == threads[t] IN
    /\ r.op = "unlink"
    /\ files' = [files EXCEPT ![r.path] = Absent]
    /\ covers' = [covers EXCEPT ![<<r.path[1], r.id>>] = 0]
    /\ Finishes(t)
    /\ UNCHANGED <<docs, members, shares, uploads, begun, spilled, inTurn>>

(* reset_library, a script: all rows but those of shared_items, then all   *)
(* files.                                                                  *)
ResetRows(t) ==
    /\ Begins(t, [op |-> "reset", path |-> << >>])
    /\ Documents # {}
    /\ docs' = [i \in Ids |-> NoDoc]
    /\ members' = [i \in Ids |-> 0]
    /\ UNCHANGED <<files, covers, shares, uploads, spilled, inTurn>>

ResetFiles(t) ==
    /\ threads[t].op = "reset"
    /\ files' = [p \in Paths |-> Absent]
    /\ covers' = [p \in Readers \X Ids |-> 0]
    /\ Finishes(t)
    /\ UNCHANGED <<docs, members, shares, uploads, begun, spilled, inTurn>>

-----------------------------------------------------------------------------
(* A document is put into the collection, and taken out of it.             *)
CollectRead(t, i) ==
    /\ i \in Documents /\ members[i] = 0
    /\ Begins(t, [op |-> "collect", path |-> << >>, id |-> i, work |-> docs[i].work])
    /\ UNCHANGED <<docs, files, covers, members, shares, uploads, spilled, inTurn>>

CollectCommit(t) ==
    /\ threads[t].op = "collect" /\ members[threads[t].id] = 0
    /\ members' = [members EXCEPT ![threads[t].id] = threads[t].work]
    /\ Finishes(t)
    /\ UNCHANGED <<docs, files, covers, shares, uploads, begun, spilled, inTurn>>

Uncollect(i) ==
    /\ members[i] # 0
    /\ members' = [members EXCEPT ![i] = 0]
    /\ UNCHANGED <<docs, files, covers, shares, threads, uploads, begun, spilled, inTurn>>

-----------------------------------------------------------------------------
(* create_share.  Whether the two are friends is Friends' matter.          *)
ShareItem(i, v) ==
    LET new == Cardinality({s \in ShareIds : shares[s] # NoShare}) + 1 IN
    /\ i \in Documents /\ v # docs[i].owner /\ new \in ShareIds
    /\ \A s \in ShareIds : ~(/\ shares[s].status = "pending" /\ shares[s].id = i
                             /\ shares[s].from = docs[i].owner /\ shares[s].to = v)
    /\ shares' = [shares EXCEPT ![new] = [from |-> docs[i].owner, to |-> v, id |-> i,
                                          work |-> docs[i].work, status |-> "pending"]]
    /\ UNCHANGED <<docs, files, covers, members, threads, uploads, begun, spilled, inTurn>>

Decline(s) ==
    /\ shares[s].status = "pending"
    /\ shares' = [shares EXCEPT ![s].status = "declined"]
    /\ UNCHANGED <<docs, files, covers, members, threads, uploads, begun, spilled, inTurn>>

(* respond_to_share with accept: the row the share names must still be the *)
(* sender's and have its file; a name for the copy is chosen, the file     *)
(* copied to it, then the rows are inserted and the share updated.         *)
AcceptRead(t, s) ==
    /\ shares[s].status = "pending"
    /\ LET i == shares[s].id
           source == <<docs[i].owner, docs[i].slot>>
       IN
         /\ i \in Documents /\ docs[i].owner = shares[s].from /\ Holds(source)
         /\ \E p \in Destinations(shares[s].to) :
              Begins(t, [op |-> "copy", path |-> p, share |-> s, work |-> files[source].work,
                         edition |-> docs[i].edition, stored |-> files[source].edition])
    /\ UNCHANGED <<docs, files, covers, members, shares, uploads, spilled, inTurn>>

AcceptCopy(t) ==
    /\ threads[t].op = "copy"
    /\ files' = [files EXCEPT ![threads[t].path] =
                    [work |-> threads[t].work, edition |-> threads[t].stored, copied |-> TRUE]]
    /\ GoesOn(t, "accept")
    /\ UNCHANGED <<docs, covers, members, shares, uploads, begun, spilled, inTurn>>

\* Mutant: the share stays pending.
AcceptCommitPending(t) ==
    LET r == threads[t] IN
    /\ r.op = "accept"
    /\ \E i \in Ids : /\ IsNewId(i)
                     /\ docs' = Inserted(i, r.path, r.work, r.edition, FALSE, r.share)
                     /\ covers' = WithCover(r.path[1], i, r.work)
    /\ Finishes(t)
    /\ UNCHANGED <<files, members, shares, uploads, begun, spilled, inTurn>>

AcceptCommit(t) ==
    LET r == threads[t] IN
    /\ r.op = "accept"
    /\ \E i \in Ids : /\ IsNewId(i)
                     /\ docs' = Inserted(i, r.path, r.work, r.edition, FALSE, r.share)
                     /\ covers' = WithCover(r.path[1], i, r.work)
    /\ shares' = [shares EXCEPT ![r.share].status = "accepted"]
    /\ Finishes(t)
    /\ UNCHANGED <<files, members, uploads, begun, spilled, inTurn>>

(* The request fails, or the server ends: no row is written any more, and  *)
(* no file that is already written or not yet unlinked is looked after.    *)
Breaks(t) ==
    /\ threads[t].op # "none"
    /\ spilled' = (spilled \/ threads[t].op \in {"insert", "accept", "unlink", "reset", "replace"})
    /\ CoverIfFailed(t)
    /\ Finishes(t)
    /\ UNCHANGED <<docs, files, members, shares, uploads, begun, inTurn>>

NextLibrary ==
    \/ \E t \in Threads :
         \/ \E u \in Readers : ImportCheck(t, u)
         \/ ImportWrite(t) \/ ImportCommit(t) \/ ImportFails(t)
         \/ \E i \in Ids : ReimportRead(t, i) \/ DeleteRead(t, i) \/ CollectRead(t, i)
         \/ ReimportWrite(t) \/ ReimportCommit(t) \/ DeleteCommit(t) \/ DeleteUnlink(t) \/ CollectCommit(t)
         \/ ResetRows(t) \/ ResetFiles(t)
         \/ \E s \in ShareIds : AcceptRead(t, s)
         \/ AcceptCopy(t) \/ AcceptCommit(t)
         \/ Breaks(t)
    \/ \E i \in Ids : Uncollect(i) \/ \E v \in Readers : ShareItem(i, v)
    \/ \E s \in ShareIds : Decline(s)

SpecLibrary == InitLibrary /\ [][NextLibrary]_libraryVars

-----------------------------------------------------------------------------
Named(p) == {i \in Documents : <<docs[i].owner, docs[i].slot>> = p}

(* When requests do not overlap, every document has its own file and its   *)
(* own cover, whatever request was cut short before: deleting one takes    *)
(* nothing from another, also where ids or names are used again.  Its text *)
(* is the edition its file has, but while a reimport writes it or when one *)
(* was cut short (delete_document, reimport_document,                      *)
(* _copy_document_to_user).                                                *)
DocumentsKeepTheirFiles ==
    inTurn => \A i \in Documents : LET p == <<docs[i].owner, docs[i].slot>> IN
        /\ Named(p) = {i}
        /\ files[p].work = docs[i].work
        /\ covers[<<docs[i].owner, i>>] = docs[i].work
        /\ \/ files[p].edition = docs[i].edition
           \/ spilled
           \/ \E t \in Threads : threads[t].op = "replace" /\ threads[t].id = i

(* A file without a document is left only by a request that failed or was  *)
(* cut short between the two (delete_document, _copy_into_directory).      *)
NoFileIsLeftBehind ==
    inTurn /\ ~spilled => \A p \in Paths : Holds(p) =>
        \/ Named(p) # {}
        \/ \E t \in Threads : threads[t].op \notin {"none", "reset"} /\ threads[t].path = p
        \/ \E t \in Threads : threads[t].op = "reset"

(* When requests do not overlap, a collection shows a document only if it  *)
(* was put there: nothing keeps an id that the next document gets.         *)
CollectionsHoldWhatWasPut ==
    inTurn => \A i \in Ids : members[i] # 0 => i \in Documents /\ docs[i].work = members[i]

(* What a reader uploads stays within the limit, beyond it by one upload   *)
(* for each request that passed the check at the same time.  Copies of     *)
(* shared documents are not counted, and no file that a reimport from the  *)
(* inbox brings back after it was lost (ensure_user_storage_capacity).     *)
UploadsStayWithinTheLimit ==
    \A u \in Readers :
        Cardinality({s \in Slots : Holds(<<u, s>>) /\ ~files[<<u, s>>].copied})
            <= StorageLimit + IF inTurn THEN 0 ELSE Cardinality(Threads) - 1

(* A share makes one copy, or one for each of the requests that accept it  *)
(* at the same time (respond_to_share).                                    *)
ShareIsCopiedOnce ==
    \A s \in ShareIds :
        Cardinality({i \in Documents : docs[i].via = s}) <= IF inTurn THEN 1 ELSE Cardinality(Threads)

(* "The shared document is no longer available from the sender": what an   *)
(* accepted share copies is the document that was shared (shares.py:189).  *)
CopyIsWhatWasShared ==
    \A i \in Documents : docs[i].via # 0 => docs[i].work = shares[docs[i].via].work
=============================================================================
