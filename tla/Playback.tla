------------------------------ MODULE Playback ------------------------------
(***************************************************************************)
(* Playback sessions and reading progress: services/playback.py and the     *)
(* bookmark part of services/library_view.py, with the import, reimport and *)
(* deletion of the documents they point into.                              *)
(*                                                                         *)
(* Opening a session or moving it synthesises speech, which takes seconds,  *)
(* between what the handler reads and what it writes: a step each.  So are  *)
(* the read and the flush of a row of reading progress, where no lock is    *)
(* held between them.  Importing, reimporting and deleting are one step.    *)
(* Every section here is one chunk long.                                   *)
(***************************************************************************)
EXTENDS Naturals

CONSTANTS
    Clients,      \* senders of requests, each waiting for one reply at a time
    Setters,      \* handlers that reset, switch or finish, at the same time
    Voices,       \* live-reading voices
    Texts,        \* what a source file may contain
    Nothing,      \* the voice and the text of a row that does not exist
    MaxDocs,      \* bound: document ids 1..MaxDocs
    MaxChunkRows, \* bound: chunk ids 1..MaxChunkRows
    MaxSessions   \* bound: session ids 1..MaxSessions

ASSUME PlaybackAssumption ==
    /\ Nothing \notin Voices \cup Texts
    /\ MaxDocs \in Nat
    /\ MaxChunkRows \in Nat \ {0}
    /\ MaxSessions \in Nat

VARIABLES
    docs,      \* ids of the documents
    chunks,    \* chunk id -> row, NoChunk when there is no such row
    sessions,  \* session id -> row, NoSession when there is no such row
    progress,  \* document id -> its reading progress
    request,   \* client -> what its handler has read and not yet written
    setting,   \* setter -> what it has read and will write
    crossed    \* document id -> whether its row of progress was written over a
               \* state its writer had not read; history, no part of the code

vars == <<docs, chunks, sessions, progress, request, setting, crossed>>

DocIds     == 1 .. MaxDocs
ChunkIds   == 1 .. MaxChunkRows
SessionIds == 1 .. MaxSessions
Indices    == 0 .. MaxChunkRows - 1
Counts     == 0 .. MaxChunkRows

ChunkRow == [doc : DocIds \cup {0}, index : Indices, text : Texts \cup {Nothing}]
NoChunk  == [doc |-> 0, index |-> 0, text |-> Nothing]

\* The path of an audio file names the chunk's id and document, a digest of its
\* text, and the voice.
Audio == [chunk : ChunkIds \cup {0}, row : ChunkRow, voice : Voices \cup {Nothing}]

AudioOf(k, row, v) == [chunk |-> k, row |-> row, voice |-> v]

Session == [doc : DocIds \cup {0}, chunk : ChunkIds \cup {0}, index : Indices,
            voice : Voices \cup {Nothing}, audio : Audio]
NoSession == [doc |-> 0, chunk |-> 0, index |-> 0, voice |-> Nothing,
              audio |-> AudioOf(0, NoChunk, Nothing)]

\* "kept" says that there is a row.
Progress   == [kept : BOOLEAN, index : Indices, enabled : BOOLEAN,
               bookmarked : BOOLEAN, finished : BOOLEAN]
NoProgress == [kept |-> FALSE, index |-> 0, enabled |-> TRUE,
               bookmarked |-> FALSE, finished |-> FALSE]

\* A row of progress as it was read and as its columns were set then; "writes"
\* says that the flush has a statement for it.
Change   == [doc : DocIds \cup {0}, was : Progress, new : Progress, writes : BOOLEAN]
NoChange == [doc |-> 0, was |-> NoProgress, new |-> NoProgress, writes |-> FALSE]

\* "loaded" and "new" are the session's row as it was read and as it will be
\* written, "row" the chunk that is synthesised, "change" the progress that an
\* update has read after that, when it is about to "store".
Request == {r \in [op : {"idle", "create", "update", "store"},
                   session : SessionIds \cup {0}, loaded : Session,
                   new : Session, row : ChunkRow, change : Change] :
              r.op # "idle" => r.new.doc # 0}
Idle    == [op |-> "idle", session |-> 0, loaded |-> NoSession,
            new |-> NoSession, row |-> NoChunk, change |-> NoChange]

Init ==
    /\ docs = {}
    /\ chunks = [k \in ChunkIds |-> NoChunk]
    /\ sessions = [s \in SessionIds |-> NoSession]
    /\ progress = [d \in DocIds |-> NoProgress]
    /\ request = [c \in Clients |-> Idle]
    /\ setting = [m \in Setters |-> NoChange]
    /\ crossed = [d \in DocIds |-> FALSE]

SessionOpen(s) == sessions[s].doc # 0
ChunksInUse    == {k \in ChunkIds : chunks[k].doc # 0}
ChunksOf(d)    == {k \in ChunkIds : chunks[k].doc = d}
SessionsOf(d)  == {s \in SessionIds : sessions[s].doc = d}

\* SQLite gives out the id after the largest one in use.
IsLastId(last, ids) ==
    /\ last = 0 \/ last \in ids
    /\ \A k \in ids : k <= last

\* The rows of n new chunks of document d, after those that "rows" leaves.
StoredContent(rows, d, last, n, t) ==
    [k \in ChunkIds |-> IF k \in last + 1 .. last + n
                          THEN [doc |-> d, index |-> k - last - 1, text |-> t]
                          ELSE rows[k]]

ImportDocument(n, t) ==
    /\ \E d \in DocIds, last \in Counts :
         /\ IsLastId(d - 1, docs)
         /\ IsLastId(last, ChunksInUse)
         /\ last + n <= MaxChunkRows
         /\ docs' = docs \cup {d}
         /\ chunks' = StoredContent(chunks, d, last, n, t)
    /\ UNCHANGED <<sessions, progress, request, setting, crossed>>

WithoutChunksOf(d) ==
    [k \in ChunkIds |-> IF chunks[k].doc = d THEN NoChunk ELSE chunks[k]]

CloseSessionsOf(d) ==
    sessions' = [s \in SessionIds |-> IF sessions[s].doc = d THEN NoSession
                                                             ELSE sessions[s]]

ForgetProgressOf(d) ==
    /\ progress' = [progress EXCEPT ![d] = NoProgress]
    /\ crossed' = [crossed EXCEPT ![d] = FALSE]

ReplaceContent(d, n, t) ==
    \E last \in Counts :
        /\ IsLastId(last, ChunksInUse \ ChunksOf(d))
        /\ last + n <= MaxChunkRows
        /\ chunks' = StoredContent(WithoutChunksOf(d), d, last, n, t)

\* Mutants: the reimport forgets one of the two kinds of rows that point into
\* the text.
ReimportKeepingSessions(c, d, n, t) ==
    /\ request[c] = Idle
    /\ d \in docs
    /\ ReplaceContent(d, n, t)
    /\ ForgetProgressOf(d)
    /\ UNCHANGED <<docs, sessions, request, setting>>

ReimportKeepingProgress(c, d, n, t) ==
    /\ request[c] = Idle
    /\ d \in docs
    /\ ReplaceContent(d, n, t)
    /\ CloseSessionsOf(d)
    /\ UNCHANGED <<docs, progress, request, setting, crossed>>

ReimportDocument(c, d, n, t) ==
    /\ request[c] = Idle
    /\ d \in docs
    /\ ReplaceContent(d, n, t)
    /\ CloseSessionsOf(d)
    /\ ForgetProgressOf(d)
    /\ UNCHANGED <<docs, request, setting>>

DeleteDocument(c, d) ==
    /\ request[c] = Idle
    /\ d \in docs
    /\ docs' = docs \ {d}
    /\ chunks' = WithoutChunksOf(d)
    /\ CloseSessionsOf(d)
    /\ ForgetProgressOf(d)
    /\ UNCHANGED <<request, setting>>

-----------------------------------------------------------------------------

\* A row that one of the following creates has the defaults of its columns.
ProgressRow(d) == [progress[d] EXCEPT !.kept = TRUE]

\* "touched": a column that is not modelled changes in any case.
ChangeOf(d, new, touched) ==
    [doc |-> d, was |-> progress[d], new |-> new,
     writes |-> touched \/ new # progress[d]]

\* An UPDATE writes the columns that the handler has changed.
Flushed(stored, loaded, new) == IF new = loaded THEN stored ELSE new

FlushedProgress(stored, change) ==
    IF ~change.was.kept THEN change.new
    ELSE [stored EXCEPT
            !.index      = Flushed(@, change.was.index, change.new.index),
            !.enabled    = Flushed(@, change.was.enabled, change.new.enabled),
            !.bookmarked = Flushed(@, change.was.bookmarked, change.new.bookmarked),
            !.finished   = Flushed(@, change.was.finished, change.new.finished)]

\* An UPDATE of a row that is gone fails, and an INSERT of one that is there.
FlushSucceeds(change) ==
    change.writes => progress[change.doc].kept = change.was.kept

OutOfDate(change) ==
    change.doc \notin docs \/ progress[change.doc] # change.was

Flush(change) ==
    IF change.writes
      THEN /\ progress' = [progress EXCEPT ![change.doc] = FlushedProgress(@, change)]
           /\ crossed' = [crossed EXCEPT ![change.doc] = @ \/ OutOfDate(change)]
      ELSE UNCHANGED <<progress, crossed>>

BeginSetting(m, d, new, touched) ==
    /\ setting[m] = NoChange
    /\ d \in docs
    /\ setting' = [setting EXCEPT ![m] = ChangeOf(d, new, touched)]
    /\ UNCHANGED <<docs, chunks, sessions, progress, request, crossed>>

ResetDocumentBookmark(m, d) ==
    BeginSetting(m, d, [ProgressRow(d) EXCEPT !.index = 0, !.bookmarked = FALSE],
                 FALSE)

SetDocumentBookmarkEnabled(m, d, enabled) ==
    BeginSetting(m, d, [ProgressRow(d) EXCEPT
                          !.enabled = enabled,
                          !.index = IF enabled THEN @ ELSE 0,
                          !.bookmarked = IF enabled THEN @ ELSE FALSE],
                 FALSE)

\* The time of finishing is set anew.
SetDocumentFinished(m, d, finished) ==
    BeginSetting(m, d, [ProgressRow(d) EXCEPT
                          !.finished = finished,
                          !.index = IF finished THEN 0 ELSE @,
                          !.bookmarked = IF finished THEN FALSE ELSE @],
                 finished)

\* The flush and the commit of the three.
FlushSetting(m) ==
    /\ setting[m] # NoChange
    /\ IF FlushSucceeds(setting[m]) THEN Flush(setting[m])
                                    ELSE UNCHANGED <<progress, crossed>>
    /\ setting' = [setting EXCEPT ![m] = NoChange]
    /\ UNCHANGED <<docs, chunks, sessions, request>>

ResumeChunkIndex(d) ==
    LET p == progress[d]
    IN  IF p.enabled /\ p.bookmarked /\ ~p.finished THEN p.index ELSE 0

\* Mutant: the position is kept although the reader has switched that off.
UpsertedRegardless(p, i) ==
    [p EXCEPT !.kept = TRUE, !.index = i, !.bookmarked = TRUE, !.finished = FALSE]

\* A row that has just been created has no bookmark_enabled yet, its default
\* comes with the INSERT: such a row is stored without the position.
UpsertedProgress(p, i) ==
    IF ~p.kept THEN [NoProgress EXCEPT !.kept = TRUE]
    ELSE IF p.enabled
      THEN [p EXCEPT !.index = i, !.bookmarked = TRUE, !.finished = FALSE]
      ELSE p

\* Where the position is stored, so is the time.
UpsertDocumentProgress(d, i) ==
    ChangeOf(d, UpsertedProgress(progress[d], i), progress[d].enabled)

-----------------------------------------------------------------------------

NewSession(d, k, v) ==
    [doc |-> d, chunk |-> k, index |-> chunks[k].index, voice |-> v,
     audio |-> AudioOf(k, chunks[k], v)]

\* Without a section and a voice of its own, the request gets the document's
\* latest session when that is at the place to resume at.
ResumesExisting(d, i, v) ==
    \E s \in SessionsOf(d) :
        /\ \A r \in SessionsOf(d) : r <= s
        /\ sessions[s].index = i
        /\ sessions[s].voice = v

Opening(d, k, v) ==
    [Idle EXCEPT !.op = "create", !.row = chunks[k], !.new = NewSession(d, k, v)]

\* A session at the beginning of the section that was asked for.
ReadForSection(c, d, k, v) ==
    /\ request[c] = Idle
    /\ d \in docs
    /\ chunks[k].doc = d
    /\ request' = [request EXCEPT ![c] = Opening(d, k, v)]
    /\ UNCHANGED <<docs, chunks, sessions, progress, setting, crossed>>

\* A session where the reader stopped, in a voice that was asked for or, with
\* byDefault, in the default one.
ReadForResume(c, d, k, v, byDefault) ==
    /\ request[c] = Idle
    /\ d \in docs
    /\ chunks[k].doc = d
    /\ chunks[k].index = ResumeChunkIndex(d)
    /\ byDefault => ~ResumesExisting(d, chunks[k].index, v)
    /\ request' = [request EXCEPT ![c] = Opening(d, k, v)]
    /\ UNCHANGED <<docs, chunks, sessions, progress, setting, crossed>>

Respond(c) == request' = [request EXCEPT ![c] = Idle]

\* The INSERT of the session is flushed first, and with it SQLite's write lock is
\* held: the progress is read and flushed in the same step.  The reply looks the
\* chunk's section up and, when it is gone, the transaction is rolled back.  The
\* document is not looked up again, nor the chunk.
WriteCreate(c) ==
    /\ request[c].op = "create"
    /\ LET new == request[c].new
       IN  IF new.chunk \in ChunksInUse
             THEN \E s \in SessionIds :
                    /\ IsLastId(s - 1, {r \in SessionIds : SessionOpen(r)})
                    /\ sessions' = [sessions EXCEPT ![s] = new]
                    /\ Flush(UpsertDocumentProgress(new.doc, new.index))
             ELSE UNCHANGED <<sessions, progress, crossed>>
    /\ Respond(c)
    /\ UNCHANGED <<docs, chunks, setting>>

\* Mutant: the index is taken as it comes.
ReadForUpdateUnchecked(c, s, i, v) ==
    /\ request[c] = Idle
    /\ SessionOpen(s)
    /\ request' = [request EXCEPT
                     ![c] = [Idle EXCEPT
                               !.op = "update", !.session = s,
                               !.loaded = sessions[s],
                               !.new = [sessions[s] EXCEPT !.index = i,
                                                           !.voice = v]]]
    /\ UNCHANGED <<docs, chunks, sessions, progress, setting, crossed>>

\* The request names an index or a voice; what it leaves out is the session's.
ReadForUpdate(c, s, i, v) ==
    /\ request[c] = Idle
    /\ SessionOpen(s)
    /\ \E k \in ChunksOf(sessions[s].doc) :
         /\ chunks[k].index = i
         /\ request' = [request EXCEPT
                          ![c] = [Idle EXCEPT
                                    !.op = "update", !.session = s,
                                    !.loaded = sessions[s],
                                    !.new = NewSession(sessions[s].doc, k, v),
                                    !.row = chunks[k]]]
    /\ UNCHANGED <<docs, chunks, sessions, progress, setting, crossed>>

\* With the audio there, the progress is read; nothing has been written so far,
\* and no lock is held.
ReadForStore(c) ==
    /\ request[c].op = "update"
    /\ request' = [request EXCEPT
                     ![c].op = "store",
                     ![c].change = UpsertDocumentProgress(request[c].new.doc,
                                                          request[c].new.index)]
    /\ UNCHANGED <<docs, chunks, sessions, progress, setting, crossed>>

UpdatedSession(stored, loaded, new) ==
    [stored EXCEPT !.chunk = Flushed(@, loaded.chunk, new.chunk),
                   !.index = Flushed(@, loaded.index, new.index),
                   !.voice = Flushed(@, loaded.voice, new.voice),
                   !.audio = Flushed(@, loaded.audio, new.audio)]

\* An UPDATE of a row that is gone fails; the reply needs the document and the
\* chunk's section.  Any failure rolls the whole transaction back.
UpdateSucceeds(r) ==
    /\ r.new # r.loaded => SessionOpen(r.session)
    /\ FlushSucceeds(r.change)
    /\ r.loaded.doc \in docs
    /\ r.new.chunk \in ChunksInUse

WriteUpdate(c) ==
    /\ request[c].op = "store"
    /\ LET r == request[c]
       IN  IF UpdateSucceeds(r)
             THEN /\ sessions' = IF r.new = r.loaded THEN sessions
                                 ELSE [sessions EXCEPT ![r.session] =
                                         UpdatedSession(@, r.loaded, r.new)]
                  /\ Flush(r.change)
             ELSE UNCHANGED <<sessions, progress, crossed>>
    /\ Respond(c)
    /\ UNCHANGED <<docs, chunks, setting>>

\* The voice cannot generate the audio, and nothing is written.
FailSynthesis(c) ==
    /\ request[c].op \in {"create", "update"}
    /\ Respond(c)
    /\ UNCHANGED <<docs, chunks, sessions, progress, setting, crossed>>

-----------------------------------------------------------------------------

Next ==
    \/ \E n \in Counts, t \in Texts : ImportDocument(n, t)
    \/ \E c \in Clients, d \in DocIds, n \in Counts, t \in Texts :
         ReimportDocument(c, d, n, t)
    \/ \E c \in Clients, d \in DocIds : DeleteDocument(c, d)
    \/ \E m \in Setters, d \in DocIds : ResetDocumentBookmark(m, d)
    \/ \E m \in Setters, d \in DocIds, b \in BOOLEAN :
         SetDocumentBookmarkEnabled(m, d, b)
    \/ \E m \in Setters, d \in DocIds, b \in BOOLEAN :
         SetDocumentFinished(m, d, b)
    \/ \E m \in Setters : FlushSetting(m)
    \/ \E c \in Clients, d \in DocIds, k \in ChunkIds, v \in Voices :
         ReadForSection(c, d, k, v)
    \/ \E c \in Clients, d \in DocIds, k \in ChunkIds, v \in Voices, b \in BOOLEAN :
         ReadForResume(c, d, k, v, b)
    \/ \E c \in Clients : WriteCreate(c)
    \/ \E c \in Clients, s \in SessionIds, i \in Counts, v \in Voices :
         ReadForUpdate(c, s, i, v)
    \/ \E c \in Clients : ReadForStore(c)
    \/ \E c \in Clients : WriteUpdate(c)
    \/ \E c \in Clients : FailSynthesis(c)

Spec == Init /\ [][Next]_vars

-----------------------------------------------------------------------------

\* The types of the tables and of what the handlers remember.
TypeOK ==
    /\ docs \in SUBSET DocIds
    /\ chunks \in [ChunkIds -> ChunkRow]
    /\ sessions \in [SessionIds -> Session]
    /\ progress \in [DocIds -> Progress]
    /\ request \in [Clients -> Request]
    /\ setting \in [Setters -> Change]
    /\ crossed \in [DocIds -> BOOLEAN]

PlaysItsText(r) ==
    /\ r.doc \in docs
    /\ r.chunk \in ChunksOf(r.doc)
    /\ chunks[r.chunk].index = r.index
    /\ r.audio = AudioOf(r.chunk, chunks[r.chunk], r.voice)

\* When requests come one at a time, every session is at a chunk of its
\* document's present text and holds the audio of just that chunk in its voice,
\* however documents are imported again, deleted and replaced under the ids of
\* old chunks and sessions.
SessionsPlayTheirText ==
    \A s \in SessionIds : SessionOpen(s) => PlaysItsText(sessions[s])

\* When requests for sessions, reimports and deletions come one at a time, a
\* bookmark is at a chunk of its document, so that resuming finds one: progress
\* never outlives the text it was made in.  Unless a row was written by a handler
\* that had read another state of it, the document is there and the bookmark is
\* the place of one of its sessions.
BookmarksArePlaces ==
    \A d \in DocIds :
        /\ progress[d].bookmarked =>
             \E k \in ChunksOf(d) : chunks[k].index = progress[d].index
        /\ ~crossed[d] =>
             /\ progress[d].kept => d \in docs
             /\ progress[d].bookmarked =>
                  \E s \in SessionsOf(d) : sessions[s].index = progress[d].index

\* A title whose bookmark is switched off or that is marked finished has no
\* bookmark, whatever is in flight: a chunk that is still being synthesised when
\* the reader says so does not bring the old position back.  Only a handler that
\* writes over a state it has not read, because another one's commit fell between
\* its read and its flush of the row, leaves one.
ForgottenIsForgotten ==
    \A d \in DocIds :
        /\ ~crossed[d]
        /\ ~progress[d].enabled \/ progress[d].finished
        => ~progress[d].bookmarked
=============================================================================
