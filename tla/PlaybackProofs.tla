---------------------------- MODULE PlaybackProofs ----------------------------
(***************************************************************************)
(* Theorems about Playback for every set of clients, voices and texts and   *)
(* every value of the bounds.                                              *)
(***************************************************************************)
EXTENDS Playback, TLAPS

(***************************************************************************)
(* The operators.                                                          *)
(***************************************************************************)

\* The records that stand for no row are typed like rows.
LEMMA NullRowTypes ==
    /\ NoChunk \in ChunkRow
    /\ NoSession \in Session
    /\ NoProgress \in Progress
    /\ NoChange \in Change
    /\ Idle \in Request
<1> USE PlaybackAssumption
<1>1. 0 \in Indices /\ NoChunk \in ChunkRow /\ NoProgress \in Progress
  BY DEF NoChunk, ChunkRow, NoProgress, Progress, Indices
<1>2. NoSession \in Session
  BY <1>1 DEF NoSession, Session, Audio, AudioOf
<1>3. NoChange \in Change
  BY <1>1 DEF NoChange, Change
<1>4. Idle \in Request
  BY <1>1, <1>2, <1>3 DEF Idle, Request
<1> QED BY <1>1, <1>2, <1>3, <1>4

\* New content has the types of the rows and leaves the others alone.
LEMMA StoredContentType ==
    ASSUME NEW rows \in [ChunkIds -> ChunkRow], NEW d \in DocIds,
           NEW last \in Counts, NEW n \in Counts, NEW t \in Texts,
           last + n <= MaxChunkRows
    PROVE  StoredContent(rows, d, last, n, t) \in [ChunkIds -> ChunkRow]
<1> SUFFICES ASSUME NEW k \in ChunkIds, k \in last + 1 .. last + n
             PROVE  [doc |-> d, index |-> k - last - 1, text |-> t] \in ChunkRow
  BY DEF StoredContent
<1>1. k - last - 1 \in Indices
  BY PlaybackAssumption DEF Indices, Counts, ChunkIds
<1> QED BY <1>1 DEF ChunkRow

\* A new session of a document at one of the chunks is a session.
LEMMA NewSessionType ==
    ASSUME chunks \in [ChunkIds -> ChunkRow], NEW d \in DocIds,
           NEW k \in ChunkIds, NEW v \in Voices
    PROVE  NewSession(d, k, v) \in Session
<1>1. chunks[k] \in ChunkRow
  OBVIOUS
<1> QED BY <1>1 DEF NewSession, Session, Audio, AudioOf, ChunkRow

\* The columns an UPDATE writes keep the types of the row.
LEMMA UpdatedSessionType ==
    ASSUME NEW stored \in Session, NEW loaded \in Session, NEW new \in Session
    PROVE  /\ UpdatedSession(stored, loaded, new) \in Session
           /\ UpdatedSession(stored, loaded, new).doc = stored.doc
<1>1. /\ Flushed(stored.chunk, loaded.chunk, new.chunk) \in ChunkIds \cup {0}
      /\ Flushed(stored.index, loaded.index, new.index) \in Indices
      /\ Flushed(stored.voice, loaded.voice, new.voice) \in Voices \cup {Nothing}
      /\ Flushed(stored.audio, loaded.audio, new.audio) \in Audio
  BY DEF Flushed, Session
<1> QED BY <1>1 DEF UpdatedSession, Session

\* An UPDATE of a row that nobody else has changed leaves the new row.
LEMMA UpdateOfLoadedRow ==
    ASSUME NEW loaded \in Session, NEW new \in Session, new.doc = loaded.doc
    PROVE  UpdatedSession(loaded, loaded, new) = new
<1>1. /\ Flushed(loaded.chunk, loaded.chunk, new.chunk) = new.chunk
      /\ Flushed(loaded.index, loaded.index, new.index) = new.index
      /\ Flushed(loaded.voice, loaded.voice, new.voice) = new.voice
      /\ Flushed(loaded.audio, loaded.audio, new.audio) = new.audio
  BY DEF Flushed
<1> QED BY <1>1 DEF UpdatedSession, Session

\* Progress stays progress, and is bookmarked only if that is allowed.
LEMMA UpsertedProgressFacts ==
    ASSUME NEW p \in Progress, NEW i \in Indices
    PROVE  LET q == UpsertedProgress(p, i)
           IN  /\ q \in Progress
               /\ q.kept
               /\ p.enabled \/ ~p.kept => q.enabled /\ ~q.finished
               /\ p.kept /\ ~p.enabled => q = p
               /\ q.bookmarked = (p.kept /\ (p.enabled \/ p.bookmarked))
<1> USE NullRowTypes
<1>1. CASE ~p.kept
  BY <1>1 DEF UpsertedProgress, Progress, NoProgress
<1>2. CASE p.kept /\ p.enabled
  BY <1>2 DEF UpsertedProgress, Progress
<1>3. CASE p.kept /\ ~p.enabled
  BY <1>3 DEF UpsertedProgress, Progress
<1> QED BY <1>1, <1>2, <1>3

\* What a handler remembers of a row of progress.
LEMMA ChangeOfFacts ==
    ASSUME progress \in [DocIds -> Progress], NEW d \in DocIds,
           NEW new \in Progress, NEW touched \in BOOLEAN
    PROVE  /\ ChangeOf(d, new, touched) \in Change
           /\ ChangeOf(d, new, touched).doc = d
           /\ ChangeOf(d, new, touched).was = progress[d]
           /\ ChangeOf(d, new, touched).new = new
           /\ touched => ChangeOf(d, new, touched).writes
           /\ ~ChangeOf(d, new, touched).writes => new = progress[d]
BY DEF ChangeOf, Change

\* The columns that a flush writes keep the types of the row, and each is either
\* the one that is stored or the one that the handler has set.
LEMMA FlushedProgressFacts ==
    ASSUME NEW p \in Progress, NEW change \in Change
    PROVE  LET q == FlushedProgress(p, change)
           IN  /\ q \in Progress
               /\ ~change.was.kept => q = change.new
               /\ change.was.kept =>
                    /\ q.kept = p.kept
                    /\ q.index \in {p.index, change.new.index}
                    /\ q.bookmarked = IF change.new.bookmarked = change.was.bookmarked
                                        THEN p.bookmarked ELSE change.new.bookmarked
                    /\ q.index = IF change.new.index = change.was.index
                                   THEN p.index ELSE change.new.index
<1> DEFINE w == change.was
           n == change.new
<1>1. w \in Progress /\ n \in Progress
  BY DEF Change
<1>2. /\ Flushed(p.index, w.index, n.index) \in Indices
      /\ Flushed(p.enabled, w.enabled, n.enabled) \in BOOLEAN
      /\ Flushed(p.bookmarked, w.bookmarked, n.bookmarked) \in BOOLEAN
      /\ Flushed(p.finished, w.finished, n.finished) \in BOOLEAN
  BY <1>1 DEF Flushed, Progress
<1>3. CASE ~w.kept
  BY <1>1, <1>3 DEF FlushedProgress
<1>4. CASE w.kept
  <2>1. FlushedProgress(p, change) =
          [p EXCEPT !.index      = Flushed(@, w.index, n.index),
                    !.enabled    = Flushed(@, w.enabled, n.enabled),
                    !.bookmarked = Flushed(@, w.bookmarked, n.bookmarked),
                    !.finished   = Flushed(@, w.finished, n.finished)]
    BY <1>4 DEF FlushedProgress
  <2> QED BY <1>2, <1>4, <2>1 DEF Progress, Flushed
<1> QED BY <1>3, <1>4

\* Over the row that the handler has read, a flush leaves the row as it set it.
LEMMA FlushOfReadRow ==
    ASSUME NEW change \in Change, change.new.kept
    PROVE  FlushedProgress(change.was, change) = change.new
<1> DEFINE w == change.was
           n == change.new
<1>1. w \in Progress /\ n \in Progress
  BY DEF Change
<1>2. CASE ~w.kept
  BY <1>2 DEF FlushedProgress
<1>3. CASE w.kept
  <2>1. /\ Flushed(w.index, w.index, n.index) = n.index
        /\ Flushed(w.enabled, w.enabled, n.enabled) = n.enabled
        /\ Flushed(w.bookmarked, w.bookmarked, n.bookmarked) = n.bookmarked
        /\ Flushed(w.finished, w.finished, n.finished) = n.finished
    BY DEF Flushed
  <2>2. FlushedProgress(w, change) =
          [w EXCEPT !.index = n.index, !.enabled = n.enabled,
                    !.bookmarked = n.bookmarked, !.finished = n.finished]
    BY <1>3, <2>1 DEF FlushedProgress
  <2>3. w.kept = n.kept
    BY <1>1, <1>3 DEF Progress
  <2> QED BY <1>1, <2>2, <2>3 DEF Progress
<1> QED BY <1>2, <1>3

\* A flush keeps the types and changes no more than the row of its document.
LEMMA FlushFacts ==
    ASSUME progress \in [DocIds -> Progress], crossed \in [DocIds -> BOOLEAN],
           NEW change \in Change, Flush(change)
    PROVE  /\ progress' \in [DocIds -> Progress]
           /\ crossed' \in [DocIds -> BOOLEAN]
           /\ \A e \in DocIds :
                \/ /\ e # change.doc \/ ~change.writes
                   /\ progress'[e] = progress[e] /\ crossed'[e] = crossed[e]
                \/ /\ e = change.doc /\ change.writes
                   /\ progress'[e] = FlushedProgress(progress[e], change)
                   /\ ~crossed'[e] => ~crossed[e] /\ ~OutOfDate(change)
<1>1. CASE ~change.writes
  BY <1>1 DEF Flush
<1>2. CASE change.writes
  <2>1. /\ progress' = [progress EXCEPT ![change.doc] = FlushedProgress(@, change)]
        /\ crossed' = [crossed EXCEPT ![change.doc] = @ \/ OutOfDate(change)]
    BY <1>2 DEF Flush
  <2>2. progress' \in [DocIds -> Progress]
    BY <2>1, FlushedProgressFacts
  <2>3. OutOfDate(change) \in BOOLEAN
    BY DEF OutOfDate
  <2>4. crossed' \in [DocIds -> BOOLEAN]
    BY <2>1, <2>3
  <2>5. ASSUME NEW e \in DocIds, e # change.doc
        PROVE  progress'[e] = progress[e] /\ crossed'[e] = crossed[e]
    BY <2>1, <2>5
  <2>6. ASSUME NEW e \in DocIds, e = change.doc
        PROVE  /\ progress'[e] = FlushedProgress(progress[e], change)
               /\ crossed'[e] = (crossed[e] \/ OutOfDate(change))
    BY <2>1, <2>6
  <2> QED BY <1>2, <2>2, <2>4, <2>5, <2>6
<1> QED BY <1>1, <1>2

(***************************************************************************)
(* Type correctness.                                                       *)
(***************************************************************************)

\* Importing, reimporting and deleting documents keep the types.
LEMMA ContentStepsKeepTypes ==
    ASSUME TypeOK,
           \/ \E n \in Counts, t \in Texts : ImportDocument(n, t)
           \/ \E c \in Clients, d \in DocIds, n \in Counts, t \in Texts :
                ReimportDocument(c, d, n, t)
           \/ \E c \in Clients, d \in DocIds : DeleteDocument(c, d)
    PROVE  TypeOK'
<1> USE NullRowTypes DEF TypeOK
<1>1. CASE \E n \in Counts, t \in Texts : ImportDocument(n, t)
  BY <1>1, StoredContentType DEF ImportDocument
<1>2. ASSUME NEW d \in DocIds
      PROVE  WithoutChunksOf(d) \in [ChunkIds -> ChunkRow]
  BY DEF WithoutChunksOf
<1>3. ASSUME NEW d \in DocIds, CloseSessionsOf(d), ForgetProgressOf(d)
      PROVE  /\ sessions' \in [SessionIds -> Session]
             /\ progress' \in [DocIds -> Progress]
             /\ crossed' \in [DocIds -> BOOLEAN]
  BY <1>3 DEF CloseSessionsOf, ForgetProgressOf
<1>4. ASSUME NEW c \in Clients, NEW d \in DocIds, NEW n \in Counts,
             NEW t \in Texts, ReimportDocument(c, d, n, t)
      PROVE  TypeOK'
  <2>1. chunks' \in [ChunkIds -> ChunkRow]
    BY <1>2, <1>4, StoredContentType DEF ReimportDocument, ReplaceContent
  <2> QED BY <2>1, <1>3, <1>4 DEF ReimportDocument
<1>5. ASSUME NEW c \in Clients, NEW d \in DocIds, DeleteDocument(c, d)
      PROVE  TypeOK'
  BY <1>2, <1>3, <1>5 DEF DeleteDocument
<1> QED BY <1>1, <1>4, <1>5

\* A row whose bookmark is given up when its owner has said so.
ForgottenRow(p) == (~p.enabled \/ p.finished) => ~p.bookmarked

\* Remembering a place keeps a row that is given up without a bookmark.
LEMMA RowStaysForgotten ==
    ASSUME NEW p \in Progress, NEW i \in Indices, ForgottenRow(p)
    PROVE  ForgottenRow(UpsertedProgress(p, i))
<1>1. UpsertedProgress(p, i) \in Progress
  BY UpsertedProgressFacts
<1> QED BY <1>1, UpsertedProgressFacts DEF ForgottenRow, Progress

\* What is remembered when a place is to be stored.
LEMMA UpsertChangeFacts ==
    ASSUME progress \in [DocIds -> Progress], NEW d \in DocIds,
           NEW i \in Indices
    PROVE  LET ch == UpsertDocumentProgress(d, i)
           IN  /\ ch \in Change
               /\ ch.doc = d
               /\ ch.was = progress[d]
               /\ ch.new = UpsertedProgress(progress[d], i)
               /\ ch.new.kept
               /\ ~ch.writes => ~progress[d].enabled
               /\ ForgottenRow(ch.was) => ForgottenRow(ch.new)
<1> DEFINE p == progress[d]
           q == UpsertedProgress(p, i)
<1>1. p \in Progress /\ p.enabled \in BOOLEAN
  BY DEF Progress
<1>2. q \in Progress /\ q.kept
  BY <1>1, UpsertedProgressFacts
<1>3. ForgottenRow(p) => ForgottenRow(q)
  BY <1>1, RowStaysForgotten
<1>4. UpsertDocumentProgress(d, i) = ChangeOf(d, q, p.enabled)
  BY DEF UpsertDocumentProgress
<1> HIDE DEF p, q
<1>5. /\ ChangeOf(d, q, p.enabled) \in Change
      /\ ChangeOf(d, q, p.enabled).doc = d
      /\ ChangeOf(d, q, p.enabled).was = progress[d]
      /\ ChangeOf(d, q, p.enabled).new = q
      /\ p.enabled => ChangeOf(d, q, p.enabled).writes
  BY <1>1, <1>2, ChangeOfFacts
<1> QED BY <1>2, <1>3, <1>4, <1>5 DEF p, q

\* A reset, or switching or finishing with the answer b, turns the row p into q.
SetBy(b, p, q) ==
    \/ q = [p EXCEPT !.index = 0, !.bookmarked = FALSE]
    \/ q = [p EXCEPT !.enabled = b,
                     !.index = IF b THEN @ ELSE 0,
                     !.bookmarked = IF b THEN @ ELSE FALSE]
    \/ q = [p EXCEPT !.finished = b,
                     !.index = IF b THEN 0 ELSE @,
                     !.bookmarked = IF b THEN FALSE ELSE @]

\* The row as a setter leaves it: it is forgotten, or its place is the old one.
LEMMA SetRows ==
    ASSUME NEW p \in Progress, NEW b \in BOOLEAN, NEW q,
           SetBy(b, p, q)
    PROVE  /\ q \in Progress
           /\ q.kept = p.kept
           /\ q.index \in {p.index, 0}
           /\ q.bookmarked => p.bookmarked /\ q.index = p.index
           /\ ForgottenRow(p) => ForgottenRow(q)
<1>1. 0 \in Indices
  BY PlaybackAssumption DEF Indices
<1>2. CASE q = [p EXCEPT !.index = 0, !.bookmarked = FALSE]
  BY <1>1, <1>2 DEF Progress, ForgottenRow
<1>3. CASE q = [p EXCEPT !.enabled = b,
                         !.index = IF b THEN @ ELSE 0,
                         !.bookmarked = IF b THEN @ ELSE FALSE]
  <2>1. CASE b = TRUE
    BY <1>3, <2>1 DEF Progress, ForgottenRow
  <2>2. CASE b = FALSE
    BY <1>1, <1>3, <2>2 DEF Progress, ForgottenRow
  <2> QED BY <2>1, <2>2
<1>4. CASE q = [p EXCEPT !.finished = b,
                         !.index = IF b THEN 0 ELSE @,
                         !.bookmarked = IF b THEN FALSE ELSE @]
  <2>1. CASE b = TRUE
    BY <1>1, <1>4, <2>1 DEF Progress, ForgottenRow
  <2>2. CASE b = FALSE
    BY <1>4, <2>2 DEF Progress, ForgottenRow
  <2> QED BY <2>1, <2>2
<1> QED BY <1>2, <1>3, <1>4 DEF SetBy

\* What a setter remembers.
SetFrom(p, q) ==
    /\ q.kept
    /\ q.index \in {p.index, 0}
    /\ q.bookmarked => p.bookmarked /\ q.index = p.index
    /\ ForgottenRow(p) => ForgottenRow(q)

\* A setter's first step remembers the row and what it makes of it.
LEMMA SettersRemember ==
    ASSUME TypeOK, NEW m \in Setters, NEW d \in DocIds, NEW b \in BOOLEAN,
           \/ ResetDocumentBookmark(m, d)
           \/ SetDocumentBookmarkEnabled(m, d, b)
           \/ SetDocumentFinished(m, d, b)
    PROVE  \E q \in Progress, touched \in BOOLEAN :
             /\ SetFrom(progress[d], q)
             /\ d \in docs
             /\ setting' = [setting EXCEPT ![m] = ChangeOf(d, q, touched)]
             /\ UNCHANGED <<docs, chunks, sessions, progress, request, crossed>>
<1> DEFINE p == ProgressRow(d)
<1>1. /\ p \in Progress /\ p.kept
      /\ p.index = progress[d].index
      /\ p.bookmarked = progress[d].bookmarked
      /\ ForgottenRow(progress[d]) => ForgottenRow(p)
  BY DEF TypeOK, ProgressRow, Progress, ForgottenRow
<1>2. ASSUME NEW q, NEW touched \in BOOLEAN, BeginSetting(m, d, q, touched),
             SetBy(b, p, q)
      PROVE  /\ q \in Progress
             /\ SetFrom(progress[d], q)
             /\ d \in docs
             /\ setting' = [setting EXCEPT ![m] = ChangeOf(d, q, touched)]
             /\ UNCHANGED <<docs, chunks, sessions, progress, request, crossed>>
  <2> HIDE DEF p
  <2>1. /\ q \in Progress
        /\ q.kept = p.kept
        /\ q.index \in {p.index, 0}
        /\ q.bookmarked => p.bookmarked /\ q.index = p.index
        /\ ForgottenRow(p) => ForgottenRow(q)
    BY <1>1, <1>2, SetRows
  <2>2. SetFrom(progress[d], q)
    BY <1>1, <2>1 DEF SetFrom
  <2> QED BY <1>2, <2>1, <2>2 DEF BeginSetting
<1>3. CASE ResetDocumentBookmark(m, d)
  BY <1>2, <1>3 DEF ResetDocumentBookmark, SetBy
<1>4. CASE SetDocumentBookmarkEnabled(m, d, b)
  BY <1>2, <1>4 DEF SetDocumentBookmarkEnabled, SetBy
<1>5. CASE SetDocumentFinished(m, d, b)
  BY <1>2, <1>5 DEF SetDocumentFinished, SetBy
<1> QED BY <1>3, <1>4, <1>5

\* Resetting, switching and finishing keep the types.
LEMMA SettingStepsKeepTypes ==
    ASSUME TypeOK, NEW m \in Setters,
           \/ \E d \in DocIds : ResetDocumentBookmark(m, d)
           \/ \E d \in DocIds, b \in BOOLEAN : SetDocumentBookmarkEnabled(m, d, b)
           \/ \E d \in DocIds, b \in BOOLEAN : SetDocumentFinished(m, d, b)
           \/ FlushSetting(m)
    PROVE  TypeOK'
<1> USE NullRowTypes
<1>1. ASSUME NEW d \in DocIds, NEW b \in BOOLEAN,
             \/ ResetDocumentBookmark(m, d)
             \/ SetDocumentBookmarkEnabled(m, d, b)
             \/ SetDocumentFinished(m, d, b)
      PROVE  TypeOK'
  <2>1. PICK q \in Progress, touched \in BOOLEAN :
          /\ setting' = [setting EXCEPT ![m] = ChangeOf(d, q, touched)]
          /\ UNCHANGED <<docs, chunks, sessions, progress, request, crossed>>
    BY <1>1, SettersRemember
  <2>2. ChangeOf(d, q, touched) \in Change
    BY ChangeOfFacts DEF TypeOK
  <2> QED BY <2>1, <2>2 DEF TypeOK
<1>2. CASE FlushSetting(m)
  <2>1. setting[m] \in Change
    BY DEF TypeOK
  <2>2. progress' \in [DocIds -> Progress] /\ crossed' \in [DocIds -> BOOLEAN]
    BY <1>2, <2>1, FlushFacts DEF FlushSetting, TypeOK
  <2> QED BY <1>2, <2>2 DEF FlushSetting, TypeOK
<1>3. TRUE \in BOOLEAN
  OBVIOUS
<1> QED BY <1>1, <1>2, <1>3

\* What a handler remembers has its type.
LEMMA ReadStepsKeepTypes ==
    ASSUME TypeOK, NEW c \in Clients,
           \/ \E d \in DocIds, k \in ChunkIds, v \in Voices :
                ReadForSection(c, d, k, v)
           \/ \E d \in DocIds, k \in ChunkIds, v \in Voices, b \in BOOLEAN :
                ReadForResume(c, d, k, v, b)
           \/ \E s \in SessionIds, i \in Counts, v \in Voices :
                ReadForUpdate(c, s, i, v)
           \/ ReadForStore(c)
           \/ FailSynthesis(c)
    PROVE  TypeOK'
<1> USE NullRowTypes DEF TypeOK
<1>1. ASSUME NEW d \in DocIds, NEW k \in ChunkIds, NEW v \in Voices
      PROVE  Opening(d, k, v) \in Request
  <2>1. NewSession(d, k, v) \in Session /\ chunks[k] \in ChunkRow
    BY NewSessionType
  <2>2. NewSession(d, k, v).doc # 0
    BY PlaybackAssumption DEF NewSession, DocIds
  <2> QED BY <2>1, <2>2 DEF Opening, Idle, Request
<1>2. CASE \E d \in DocIds, k \in ChunkIds, v \in Voices :
             ReadForSection(c, d, k, v)
  BY <1>1, <1>2 DEF ReadForSection
<1>3. CASE \E d \in DocIds, k \in ChunkIds, v \in Voices, b \in BOOLEAN :
             ReadForResume(c, d, k, v, b)
  BY <1>1, <1>3 DEF ReadForResume
<1>4. ASSUME NEW s \in SessionIds, NEW i \in Counts, NEW v \in Voices,
             ReadForUpdate(c, s, i, v)
      PROVE  TypeOK'
  <2>1. PICK k \in ChunksOf(sessions[s].doc) :
          request' = [request EXCEPT
                        ![c] = [Idle EXCEPT
                                  !.op = "update", !.session = s,
                                  !.loaded = sessions[s],
                                  !.new = NewSession(sessions[s].doc, k, v),
                                  !.row = chunks[k]]]
    BY <1>4 DEF ReadForUpdate
  <2>2. sessions[s] \in Session /\ sessions[s].doc \in DocIds
    BY <1>4 DEF ReadForUpdate, SessionOpen, Session
  <2>3. k \in ChunkIds /\ chunks[k] \in ChunkRow
    BY DEF ChunksOf
  <2>4. NewSession(sessions[s].doc, k, v) \in Session
    BY <2>2, <2>3, NewSessionType
  <2>5. NewSession(sessions[s].doc, k, v).doc # 0
    BY <1>4 DEF NewSession, ReadForUpdate, SessionOpen
  <2> QED BY <1>4, <2>1, <2>2, <2>3, <2>4, <2>5 DEF ReadForUpdate, Request, Idle
<1>5. CASE FailSynthesis(c)
  BY <1>5 DEF FailSynthesis, Respond
<1>6. CASE ReadForStore(c)
  <2> DEFINE d == request[c].new.doc
             ch == UpsertDocumentProgress(d, request[c].new.index)
  <2>1. /\ request' = [request EXCEPT ![c].op = "store", ![c].change = ch]
        /\ request[c] \in Request
        /\ UNCHANGED <<docs, chunks, sessions, progress, setting, crossed>>
    BY <1>6 DEF ReadForStore
  <2>2. d \in DocIds /\ request[c].new.index \in Indices
    BY <1>6, <2>1 DEF ReadForStore, Request, Session
  <2>3. ch \in Change
    BY <2>2, UpsertChangeFacts
  <2> HIDE DEF d, ch
  <2>4. [request[c] EXCEPT !.op = "store", !.change = ch] \in Request
    BY <1>6, <2>1, <2>3 DEF ReadForStore, Request
  <2> QED BY <2>1, <2>4
<1> QED BY <1>2, <1>3, <1>4, <1>5, <1>6

\* The transaction that ends a handler keeps the types.
LEMMA WriteStepsKeepTypes ==
    ASSUME TypeOK, NEW c \in Clients, WriteCreate(c) \/ WriteUpdate(c)
    PROVE  TypeOK'
<1> USE NullRowTypes DEF TypeOK
<1>1. request' \in [Clients -> Request]
  BY DEF WriteCreate, WriteUpdate, Respond
<1>2. /\ request[c].new \in Session
      /\ request[c].loaded \in Session
      /\ request[c].change \in Change
  BY DEF Request
<1>3. ASSUME NEW change \in Change, Flush(change)
      PROVE  progress' \in [DocIds -> Progress] /\ crossed' \in [DocIds -> BOOLEAN]
  BY <1>3, FlushFacts
<1>4. CASE WriteCreate(c)
  <2> DEFINE new == request[c].new
  <2>1. new.doc \in DocIds /\ new.index \in Indices
    BY <1>4 DEF WriteCreate, Request, Session
  <2>2. UpsertDocumentProgress(new.doc, new.index) \in Change
    BY <2>1, UpsertChangeFacts
  <2> QED BY <1>1, <1>2, <1>3, <1>4, <2>2 DEF WriteCreate
<1>5. CASE WriteUpdate(c)
  <2>1. progress' \in [DocIds -> Progress] /\ crossed' \in [DocIds -> BOOLEAN]
    BY <1>2, <1>3, <1>5 DEF WriteUpdate
  <2>2. sessions' \in [SessionIds -> Session]
    BY <1>2, <1>5, UpdatedSessionType DEF WriteUpdate
  <2> QED BY <1>1, <1>5, <2>1, <2>2 DEF WriteUpdate
<1> QED BY <1>4, <1>5

\* The rows and what the handlers remember keep their types.
THEOREM PlaybackTypes == Spec => []TypeOK
<1>1. Init => TypeOK
  BY NullRowTypes DEF Init, TypeOK
<1>2. TypeOK /\ [Next]_vars => TypeOK'
  <2> SUFFICES ASSUME TypeOK, Next PROVE TypeOK'
    BY DEF TypeOK, vars
  <2> QED BY ContentStepsKeepTypes, SettingStepsKeepTypes, ReadStepsKeepTypes,
             WriteStepsKeepTypes DEF Next
<1> QED BY <1>1, <1>2, PTL DEF Spec

(***************************************************************************)
(* A bookmark that was given up stays given up.                            *)
(***************************************************************************)

\* A change in hand gives up what the row that was read had given up.
KeepsForgotten(change) ==
    change.writes => /\ change.new.kept
                     /\ ForgottenRow(change.was) => ForgottenRow(change.new)

ForgetInv ==
    /\ TypeOK
    /\ ForgottenIsForgotten
    /\ \A m \in Setters : KeepsForgotten(setting[m])
    /\ \A c \in Clients : KeepsForgotten(request[c].change)

\* A flush over the row that was read forgets; one over another state marks it.
LEMMA FlushForgets ==
    ASSUME TypeOK, ForgottenIsForgotten, NEW change \in Change,
           KeepsForgotten(change), Flush(change)
    PROVE  ForgottenIsForgotten'
<1> SUFFICES ASSUME NEW e \in DocIds, ~crossed'[e] PROVE ForgottenRow(progress'[e])
  BY DEF ForgottenIsForgotten, ForgottenRow
<1>1. ~crossed[e] => ForgottenRow(progress[e])
  BY DEF ForgottenIsForgotten, ForgottenRow
<1>2. \/ progress'[e] = progress[e] /\ crossed'[e] = crossed[e]
      \/ /\ e = change.doc /\ change.writes
         /\ progress'[e] = FlushedProgress(progress[e], change)
         /\ ~crossed[e] /\ ~OutOfDate(change)
  BY FlushFacts DEF TypeOK
<1>3. CASE progress'[e] = progress[e] /\ crossed'[e] = crossed[e]
  BY <1>1, <1>3
<1>4. CASE /\ e = change.doc /\ change.writes
           /\ progress'[e] = FlushedProgress(progress[e], change)
           /\ ~crossed[e] /\ ~OutOfDate(change)
  <2>1. progress[e] = change.was
    BY <1>4 DEF OutOfDate
  <2>2. change.new.kept /\ ForgottenRow(change.new)
    BY <1>1, <1>4, <2>1 DEF KeepsForgotten
  <2>3. progress'[e] = change.new
    BY <1>4, <2>1, <2>2, FlushOfReadRow
  <2> QED BY <2>2, <2>3
<1> QED BY <1>2, <1>3, <1>4

\* Every step keeps it so, whatever is in flight.
LEMMA StepsForget ==
    ASSUME ForgetInv, Next
    PROVE  ForgetInv'
<1> USE DEF ForgetInv
<1>0. TypeOK'
  BY ContentStepsKeepTypes, SettingStepsKeepTypes, ReadStepsKeepTypes,
     WriteStepsKeepTypes DEF Next
<1>1. KeepsForgotten(NoChange) /\ KeepsForgotten(Idle.change)
  BY DEF KeepsForgotten, NoChange, Idle
<1>2. ASSUME UNCHANGED <<progress, crossed>> PROVE ForgottenIsForgotten'
  BY <1>2 DEF ForgottenIsForgotten
<1>3. ASSUME NEW d \in DocIds, ForgetProgressOf(d)
      PROVE  ForgottenIsForgotten'
  <2>1. ASSUME NEW e \in DocIds
        PROVE  \/ progress'[e] = NoProgress
               \/ progress'[e] = progress[e] /\ crossed'[e] = crossed[e]
    BY <1>3 DEF ForgetProgressOf, TypeOK
  <2> QED BY <2>1 DEF ForgottenIsForgotten, NoProgress
<1>4. ASSUME UNCHANGED setting PROVE \A m \in Setters : KeepsForgotten(setting'[m])
  BY <1>4
<1>5. ASSUME UNCHANGED request
      PROVE  \A c \in Clients : KeepsForgotten(request'[c].change)
  BY <1>5
<1>6. ASSUME NEW c \in Clients, NEW q, q.change = NoChange,
             request' = [request EXCEPT ![c] = q]
      PROVE  \A b \in Clients : KeepsForgotten(request'[b].change)
  BY <1>1, <1>6 DEF TypeOK
<1>7. ASSUME NEW n \in Counts, NEW t \in Texts, ImportDocument(n, t)
      PROVE  ForgetInv'
  BY <1>0, <1>2, <1>4, <1>5, <1>7 DEF ImportDocument
<1>8. ASSUME NEW c \in Clients, NEW d \in DocIds, NEW n \in Counts,
             NEW t \in Texts, ReimportDocument(c, d, n, t)
      PROVE  ForgetInv'
  BY <1>0, <1>3, <1>4, <1>5, <1>8 DEF ReimportDocument
<1>9. ASSUME NEW c \in Clients, NEW d \in DocIds, DeleteDocument(c, d)
      PROVE  ForgetInv'
  BY <1>0, <1>3, <1>4, <1>5, <1>9 DEF DeleteDocument
<1>10. ASSUME NEW m \in Setters, NEW d \in DocIds, NEW b \in BOOLEAN,
              \/ ResetDocumentBookmark(m, d)
              \/ SetDocumentBookmarkEnabled(m, d, b)
              \/ SetDocumentFinished(m, d, b)
       PROVE  ForgetInv'
  <2>1. PICK q \in Progress, touched \in BOOLEAN :
          /\ SetFrom(progress[d], q)
          /\ setting' = [setting EXCEPT ![m] = ChangeOf(d, q, touched)]
          /\ UNCHANGED <<docs, chunks, sessions, progress, request, crossed>>
    BY <1>10, SettersRemember
  <2>2. /\ ChangeOf(d, q, touched).was = progress[d]
        /\ ChangeOf(d, q, touched).new = q
    BY ChangeOfFacts DEF TypeOK
  <2>3. KeepsForgotten(ChangeOf(d, q, touched))
    BY <2>1, <2>2 DEF KeepsForgotten, SetFrom
  <2>4. \A x \in Setters : KeepsForgotten(setting'[x])
    BY <2>1, <2>3 DEF TypeOK
  <2> QED BY <1>0, <1>2, <1>5, <2>1, <2>4
<1>11. ASSUME NEW m \in Setters, FlushSetting(m) PROVE ForgetInv'
  <2>1. setting[m] \in Change /\ KeepsForgotten(setting[m])
    BY DEF TypeOK
  <2>2. ForgottenIsForgotten'
    BY <1>2, <1>11, <2>1, FlushForgets DEF FlushSetting
  <2>3. \A x \in Setters : KeepsForgotten(setting'[x])
    BY <1>1, <1>11 DEF FlushSetting, TypeOK
  <2>4. UNCHANGED request
    BY <1>11 DEF FlushSetting
  <2> QED BY <1>0, <1>5, <2>2, <2>3, <2>4
<1>12. ASSUME NEW c \in Clients, NEW d \in DocIds, NEW k \in ChunkIds,
              NEW v \in Voices, request' = [request EXCEPT ![c] = Opening(d, k, v)],
              UNCHANGED <<docs, chunks, sessions, progress, setting, crossed>>
       PROVE  ForgetInv'
  <2>1. Opening(d, k, v).change = NoChange
    BY DEF Opening, Idle
  <2> QED BY <1>0, <1>2, <1>4, <1>6, <1>12, <2>1
<1>13. ASSUME NEW c \in Clients, NEW s \in SessionIds, NEW i \in Counts,
              NEW v \in Voices, ReadForUpdate(c, s, i, v)
       PROVE  ForgetInv'
  <2>1. \E q : q.change = NoChange /\ request' = [request EXCEPT ![c] = q]
    BY <1>13 DEF ReadForUpdate, Idle
  <2> QED BY <1>0, <1>2, <1>4, <1>6, <1>13, <2>1 DEF ReadForUpdate
<1>14. ASSUME NEW c \in Clients, ReadForStore(c) PROVE ForgetInv'
  <2> DEFINE r == request[c]
             change == UpsertDocumentProgress(r.new.doc, r.new.index)
  <2>1. r.new.doc \in DocIds /\ r.new.index \in Indices
    BY <1>14 DEF ReadForStore, TypeOK, Request, Session
  <2>2. KeepsForgotten(change)
    BY <2>1, UpsertChangeFacts DEF KeepsForgotten, TypeOK
  <2> HIDE DEF change
  <2>3. request' = [request EXCEPT ![c].op = "store", ![c].change = change]
    BY <1>14 DEF ReadForStore, change
  <2>4. request[c] \in Request
    BY DEF TypeOK
  <2>5. request'[c].change = change
    BY <2>3, <2>4 DEF TypeOK, Request
  <2>6. \A b \in Clients : KeepsForgotten(request'[b].change)
    BY <2>2, <2>3, <2>5 DEF TypeOK
  <2> QED BY <1>0, <1>2, <1>4, <1>14, <2>6 DEF ReadForStore
<1>15. Idle.change = NoChange
  BY DEF Idle
<1>16. ASSUME NEW c \in Clients, WriteCreate(c) PROVE ForgetInv'
  <2> DEFINE new == request[c].new
             change == UpsertDocumentProgress(new.doc, new.index)
  <2>1. new.doc \in DocIds /\ new.index \in Indices
    BY <1>16 DEF WriteCreate, TypeOK, Request, Session
  <2>2. change \in Change /\ KeepsForgotten(change)
    BY <2>1, UpsertChangeFacts DEF KeepsForgotten, TypeOK
  <2>3. Flush(change) \/ UNCHANGED <<progress, crossed>>
    BY <1>16 DEF WriteCreate
  <2> HIDE DEF change
  <2>4. ForgottenIsForgotten'
    BY <1>2, <2>2, <2>3, FlushForgets
  <2> QED BY <1>0, <1>4, <1>6, <1>15, <1>16, <2>4 DEF WriteCreate, Respond
<1>17. ASSUME NEW c \in Clients, WriteUpdate(c) PROVE ForgetInv'
  <2>1. request[c].change \in Change /\ KeepsForgotten(request[c].change)
    BY DEF TypeOK, Request
  <2>2. Flush(request[c].change) \/ UNCHANGED <<progress, crossed>>
    BY <1>17 DEF WriteUpdate
  <2>3. ForgottenIsForgotten'
    BY <1>2, <2>1, <2>2, FlushForgets
  <2> QED BY <1>0, <1>4, <1>6, <1>15, <1>17, <2>3 DEF WriteUpdate, Respond
<1>18. ASSUME NEW c \in Clients, FailSynthesis(c) PROVE ForgetInv'
  BY <1>0, <1>2, <1>4, <1>6, <1>15, <1>18 DEF FailSynthesis, Respond
<1>19. ASSUME NEW m \in Setters, NEW d \in DocIds, ResetDocumentBookmark(m, d)
       PROVE  ForgetInv'
  <2>1. TRUE \in BOOLEAN
    OBVIOUS
  <2> QED BY <1>10, <1>19, <2>1
<1>20. ASSUME NEW c \in Clients, NEW d \in DocIds, NEW k \in ChunkIds,
              NEW v \in Voices, NEW b \in BOOLEAN,
              ReadForSection(c, d, k, v) \/ ReadForResume(c, d, k, v, b)
       PROVE  ForgetInv'
  BY <1>12, <1>20 DEF ReadForSection, ReadForResume
<1>21. ASSUME NEW c \in Clients, NEW d \in DocIds, NEW k \in ChunkIds,
              NEW v \in Voices, ReadForSection(c, d, k, v)
       PROVE  ForgetInv'
  BY <1>12, <1>21 DEF ReadForSection
<1> HIDE DEF ForgetInv
<1> QED
  BY <1>7, <1>8, <1>9, <1>10, <1>11, <1>13, <1>14, <1>16, <1>17, <1>18, <1>19,
     <1>20, <1>21 DEF Next

\* At the start nothing is bookmarked and nothing in hand.
LEMMA InitForgets == Init => ForgetInv
<1> SUFFICES ASSUME Init PROVE ForgetInv
  OBVIOUS
<1>1. TypeOK
  BY NullRowTypes DEF Init, TypeOK
<1>2. ForgottenIsForgotten
  BY DEF Init, ForgottenIsForgotten, NoProgress
<1>3. /\ \A m \in Setters : KeepsForgotten(setting[m])
      /\ \A c \in Clients : KeepsForgotten(request[c].change)
  BY DEF Init, KeepsForgotten, NoChange, Idle
<1> QED BY <1>1, <1>2, <1>3 DEF ForgetInv

\* A title whose bookmark is switched off or that is finished has no bookmark,
\* for any number of clients and setters and whatever they have in flight, unless
\* its row was written over a state that the writer had not read.
THEOREM BookmarksStayForgotten == Spec => []ForgottenIsForgotten
<1>1. ForgetInv /\ [Next]_vars => ForgetInv'
  <2>1. ForgetInv /\ UNCHANGED vars => ForgetInv'
    BY DEF ForgetInv, TypeOK, ForgottenIsForgotten, vars
  <2> QED BY <2>1, StepsForget
<1>2. ForgetInv => ForgottenIsForgotten
  BY DEF ForgetInv
<1> QED BY <1>1, <1>2, InitForgets, PTL DEF Spec

-----------------------------------------------------------------------------

(***************************************************************************)
(* What Playback guarantees when requests for sessions, reimports and       *)
(* deletions come one at a time.                                           *)
(***************************************************************************)

SingleClient == \E c : Clients = {c}

AtAChunk(d, i) == \E k \in ChunksOf(d) : chunks[k].index = i

\* What a handler has in flight is at its text, and an update's session is still
\* the one that was read.  An update that has read a row it does not write, since
\* that is switched off, need not move a bookmark.
InFlight(c) ==
    LET r == request[c]
    IN  /\ r.op # "idle" => PlaysItsText(r.new)
        /\ r.op \in {"update", "store"} => /\ r.session \in SessionIds
                                          /\ sessions[r.session] = r.loaded
                                          /\ r.new.doc = r.loaded.doc
        /\ r.op = "store" =>
             /\ r.change.doc = r.new.doc
             /\ r.change.new = UpsertedProgress(r.change.was, r.new.index)
             /\ r.change.writes \/ crossed[r.new.doc] \/ ~progress[r.new.doc].bookmarked

\* A row that does not exist has no values.
AbsentProgress(p) == ~p.kept => p = NoProgress

\* What a setter has in hand: the old place or none.
InHand(change) ==
    change.writes => /\ AbsentProgress(change.was)
                     /\ SetFrom(change.was, change.new)

\* A text that has chunks has a first one.
TextsBegin == \A d \in DocIds : ChunksOf(d) # {} => AtAChunk(d, 0)

PlacesInText ==
    \A d \in DocIds :
        progress[d].bookmarked \/ progress[d].index # 0 => AtAChunk(d, progress[d].index)

PlacesOfSessions ==
    \A d \in DocIds :
        ~crossed[d] => /\ progress[d].kept => d \in docs
                       /\ progress[d].bookmarked =>
                            \E s \in SessionsOf(d) :
                              sessions[s].index = progress[d].index

OneClientInv ==
    /\ ForgetInv
    /\ SessionsPlayTheirText
    /\ TextsBegin
    /\ PlacesInText
    /\ PlacesOfSessions
    /\ \A d \in DocIds : AbsentProgress(progress[d])
    /\ \A c \in Clients : InFlight(c)
    /\ \A m \in Setters : InHand(setting[m])

(***************************************************************************)
(* Flushes of progress.                                                    *)
(***************************************************************************)

\* Where there is a chunk, there is the first one.
LEMMA FirstChunk ==
    ASSUME TextsBegin, NEW d \in DocIds, NEW i, AtAChunk(d, i)
    PROVE  AtAChunk(d, 0)
BY DEF AtAChunk, TextsBegin

\* A change goes back to the beginning, stays where it was, or goes to a chunk.
Placed(change) ==
    change.writes =>
        /\ change.new.kept
        /\ ~change.was.kept => change.new.index = 0 /\ ~change.new.bookmarked
        /\ \/ AtAChunk(change.doc, change.new.index)
           \/ /\ change.new.index \in {0, change.was.index}
              /\ change.new.bookmarked => change.was.bookmarked

\* Whatever the row has become since it was read, the flush of such a change
\* leaves a place in the text.
LEMMA FlushStaysInText ==
    ASSUME TypeOK, TextsBegin, PlacesInText, NEW change \in Change,
           \A d \in DocIds : AbsentProgress(progress[d]),
           FlushSucceeds(change), Flush(change), Placed(change), UNCHANGED chunks
    PROVE  /\ PlacesInText'
           /\ \A d \in DocIds : AbsentProgress(progress'[d])
<1> SUFFICES ASSUME NEW e \in DocIds
             PROVE  /\ progress'[e].bookmarked \/ progress'[e].index # 0
                         => AtAChunk(e, progress'[e].index)
                    /\ AbsentProgress(progress'[e])
  BY DEF PlacesInText, AtAChunk, ChunksOf
<1> DEFINE p == progress[e]
           q == FlushedProgress(p, change)
<1>1. p \in Progress /\ AbsentProgress(p)
  BY DEF TypeOK
<1>2. p.bookmarked \/ p.index # 0 => AtAChunk(e, p.index)
  BY DEF PlacesInText
<1>3. CASE progress'[e] = p
  BY <1>1, <1>2, <1>3
<1>4. CASE e = change.doc /\ change.writes /\ progress'[e] = q
  <2>1. p.kept = change.was.kept
    BY <1>4 DEF FlushSucceeds
  <2>2. CASE ~change.was.kept
    <3>1. q = change.new
      BY <1>1, <2>2, FlushedProgressFacts
    <3> QED BY <1>4, <2>2, <3>1 DEF Placed, AbsentProgress
  <2>3. CASE change.was.kept
    <3>1. /\ q.kept
          /\ q.index \in {p.index, change.new.index}
          /\ q.bookmarked = IF change.new.bookmarked = change.was.bookmarked
                              THEN p.bookmarked ELSE change.new.bookmarked
          /\ q.index = IF change.new.index = change.was.index
                         THEN p.index ELSE change.new.index
      BY <1>1, <2>1, <2>3, FlushedProgressFacts
    <3>2. AtAChunk(e, p.index) => AtAChunk(e, 0)
      BY FirstChunk
    <3> HIDE DEF p, q
    <3>3. CASE AtAChunk(e, change.new.index)
      <4>1. AtAChunk(e, 0)
        BY <3>3, FirstChunk
      <4> QED BY <1>2, <1>4, <3>1, <3>3, <4>1 DEF AbsentProgress
    <3>4. CASE /\ change.new.index \in {0, change.was.index}
               /\ change.new.bookmarked => change.was.bookmarked
      <4>1. q.index \in {p.index, 0}
        BY <3>1, <3>4
      <4>2. q.bookmarked => p.bookmarked
        <5>1. change.new.bookmarked \in BOOLEAN /\ change.was.bookmarked \in BOOLEAN
          BY DEF Change, Progress
        <5> QED BY <3>1, <3>4, <5>1
      <4> QED BY <1>2, <1>4, <3>1, <3>2, <4>1, <4>2 DEF AbsentProgress
    <3> QED BY <1>4, <3>3, <3>4 DEF Placed
  <2> QED BY <2>2, <2>3
<1> QED BY <1>3, <1>4, FlushFacts DEF TypeOK

(***************************************************************************)
(* Steps that change what the sessions point into.                         *)
(***************************************************************************)

\* A session whose document and chunk stay still plays its text.
LEMMA TextStays ==
    ASSUME NEW r, PlaysItsText(r), r.doc \in docs',
           chunks'[r.chunk] = chunks[r.chunk]
    PROVE  PlaysItsText(r)'
BY DEF PlaysItsText, ChunksOf, AudioOf

\* New content leaves the rows before it alone.
LEMMA EarlierRowsStay ==
    ASSUME NEW rows, NEW d, NEW last \in Counts, NEW n \in Counts, NEW t,
           NEW k \in ChunkIds, k <= last
    PROVE  StoredContent(rows, d, last, n, t)[k] = rows[k]
<1>1. k \notin last + 1 .. last + n
  BY PlaybackAssumption DEF Counts, ChunkIds
<1> QED BY <1>1 DEF StoredContent

\* What plays its text is at a chunk in use, of a document.
LEMMA PlayedChunk ==
    ASSUME TypeOK, NEW r, PlaysItsText(r)
    PROVE  /\ r.doc \in docs /\ r.doc \in DocIds /\ r.doc # 0
           /\ r.chunk \in ChunksInUse /\ r.chunk \in ChunkIds
           /\ chunks[r.chunk].doc = r.doc
<1>1. r.doc \in docs /\ r.doc \in DocIds
  BY DEF PlaysItsText, TypeOK
<1>2. r.doc # 0
  BY <1>1, PlaybackAssumption DEF DocIds
<1>3. r.chunk \in ChunkIds /\ chunks[r.chunk].doc = r.doc
  BY DEF PlaysItsText, ChunksOf
<1> QED BY <1>1, <1>2, <1>3 DEF ChunksInUse

\* New content begins with a first chunk.
LEMMA NewTextBegins ==
    ASSUME chunks' \in [ChunkIds -> ChunkRow], NEW rows, NEW d \in DocIds,
           NEW last \in Counts, NEW n \in Counts, NEW t,
           last + n <= MaxChunkRows, chunks' = StoredContent(rows, d, last, n, t),
           NEW k \in last + 1 .. last + n
    PROVE  /\ k \in ChunkIds
           /\ chunks'[k].doc = d
           /\ AtAChunk(d, 0)'
<1> USE PlaybackAssumption DEF Counts, ChunkIds
<1>1. k \in ChunkIds /\ last + 1 \in ChunkIds /\ last + 1 \in last + 1 .. last + n
  OBVIOUS
<1>2. chunks'[last + 1] = [doc |-> d, index |-> last + 1 - last - 1, text |-> t]
  BY <1>1 DEF StoredContent
<1>3. chunks'[k] = [doc |-> d, index |-> k - last - 1, text |-> t]
  BY <1>1 DEF StoredContent
<1>4. last + 1 - last - 1 = 0
  OBVIOUS
<1> QED BY <1>1, <1>2, <1>3, <1>4 DEF AtAChunk, ChunksOf

\* An import adds a document and chunks after those in use.
LEMMA ImportKeepsOneClientInv ==
    ASSUME OneClientInv, NEW n \in Counts, NEW t \in Texts, ImportDocument(n, t)
    PROVE  OneClientInv'
<1> USE DEF OneClientInv
<1>0. TypeOK
  BY DEF ForgetInv
<1>1. ForgetInv'
  BY StepsForget DEF Next
<1>2. PICK d \in DocIds, last \in Counts :
        /\ IsLastId(last, ChunksInUse)
        /\ last + n <= MaxChunkRows
        /\ docs' = docs \cup {d}
        /\ chunks' = StoredContent(chunks, d, last, n, t)
  BY DEF ImportDocument
<1>3. ASSUME NEW r, PlaysItsText(r) PROVE PlaysItsText(r)'
  <2>1. /\ r.doc \in docs
        /\ r.chunk \in ChunkIds
        /\ r.chunk <= last
    BY <1>0, <1>2, <1>3, PlayedChunk DEF IsLastId
  <2>2. chunks'[r.chunk] = chunks[r.chunk]
    BY <1>2, <2>1, EarlierRowsStay
  <2> QED BY <1>2, <1>3, <2>1, <2>2, TextStays
<1>4. UNCHANGED <<sessions, progress, request, setting, crossed>>
  BY DEF ImportDocument
<1>5. SessionsPlayTheirText'
  BY <1>3, <1>4 DEF SessionsPlayTheirText, SessionOpen
<1>6. PlacesOfSessions'
  BY <1>2, <1>4 DEF PlacesOfSessions, SessionsOf
<1>7. \A c \in Clients : InFlight(c)'
  BY <1>3, <1>4 DEF InFlight
<1>8. ASSUME NEW k \in ChunksInUse PROVE chunks'[k] = chunks[k]
  BY <1>2, EarlierRowsStay DEF IsLastId, ChunksInUse
<1>9. ASSUME NEW e \in DocIds, NEW i, AtAChunk(e, i) PROVE AtAChunk(e, i)'
  <2>1. PICK k \in ChunksOf(e) : chunks[k].index = i
    BY <1>9 DEF AtAChunk
  <2>2. k \in ChunksInUse
    BY PlaybackAssumption DEF ChunksOf, ChunksInUse, DocIds
  <2> QED BY <1>8, <2>1, <2>2 DEF AtAChunk, ChunksOf
<1>10. TextsBegin'
  <2> SUFFICES ASSUME NEW e \in DocIds, NEW k \in ChunkIds, chunks'[k].doc = e
               PROVE  AtAChunk(e, 0)'
    BY DEF TextsBegin, ChunksOf
  <2>1. CASE k \in last + 1 .. last + n
    <3>1. chunks' \in [ChunkIds -> ChunkRow]
      BY <1>1 DEF ForgetInv, TypeOK
    <3>2. chunks'[k].doc = d /\ AtAChunk(d, 0)'
      BY <1>2, <2>1, <3>1, NewTextBegins
    <3> QED BY <3>2
  <2>2. CASE k \notin last + 1 .. last + n
    <3>1. k \in ChunksOf(e)
      BY <1>2, <2>2 DEF StoredContent, ChunksOf
    <3> QED BY <1>9, <3>1 DEF TextsBegin
  <2> QED BY <2>1, <2>2
<1>11. PlacesInText'
  BY <1>4, <1>9 DEF PlacesInText
<1> QED BY <1>1, <1>4, <1>5, <1>6, <1>7, <1>10, <1>11

\* When nothing is in flight, taking a document's sessions and progress away with
\* its chunks leaves nothing that points into them.
LEMMA ContentTakenAway ==
    ASSUME SingleClient, OneClientInv, NEW c \in Clients, request[c] = Idle,
           UNCHANGED <<request, setting>>, NEW d \in DocIds,
           CloseSessionsOf(d), ForgetProgressOf(d),
           docs \ {d} \subseteq docs',
           \A k \in ChunksInUse \ ChunksOf(d) : chunks'[k] = chunks[k],
           ForgetInv', TextsBegin'
    PROVE  OneClientInv'
<1> USE DEF OneClientInv
<1>0. TypeOK
  BY DEF ForgetInv
<1>1. ASSUME NEW s \in SessionIds, SessionOpen(s)'
      PROVE  PlaysItsText(sessions[s])' /\ sessions[s].doc # d
  <2>1. sessions' = [x \in SessionIds |-> IF sessions[x].doc = d THEN NoSession
                                                                ELSE sessions[x]]
    BY DEF CloseSessionsOf
  <2>2. sessions'[s].doc # 0
    BY <1>1 DEF SessionOpen
  <2>3. sessions[s].doc # d /\ sessions'[s] = sessions[s]
    BY <2>1, <2>2 DEF NoSession
  <2>4. PlaysItsText(sessions[s])
    BY <2>2, <2>3 DEF SessionsPlayTheirText, SessionOpen
  <2>5. /\ sessions[s].doc \in docs'
        /\ sessions[s].chunk \in ChunksInUse \ ChunksOf(d)
    BY <1>0, <2>3, <2>4, PlayedChunk DEF ChunksOf
  <2>6. chunks'[sessions[s].chunk] = chunks[sessions[s].chunk]
    BY <2>5
  <2> DEFINE r == sessions[s]
  <2>7. PlaysItsText(r) /\ r.doc \in docs' /\ chunks'[r.chunk] = chunks[r.chunk]
    BY <2>4, <2>5, <2>6
  <2>8. sessions'[s].doc \in docs' /\ sessions'[s].chunk \in ChunkIds
    BY <1>0, <2>3, <2>4, <2>5, PlayedChunk
  <2> QED BY <2>3, <2>6, <2>7, <2>8 DEF PlaysItsText, ChunksOf, AudioOf
<1>2. SessionsPlayTheirText'
  BY <1>1 DEF SessionsPlayTheirText
<1>3. ASSUME NEW e \in DocIds, e # d
      PROVE  /\ progress'[e] = progress[e]
             /\ crossed'[e] = crossed[e]
             /\ SessionsOf(e)' = SessionsOf(e)
             /\ \A s \in SessionsOf(e) : sessions'[s] = sessions[s]
  <2>1. progress'[e] = progress[e] /\ crossed'[e] = crossed[e]
    BY <1>0, <1>3 DEF ForgetProgressOf, TypeOK
  <2>2. ASSUME NEW s \in SessionIds
        PROVE  sessions'[s] = IF sessions[s].doc = d THEN NoSession ELSE sessions[s]
    BY DEF CloseSessionsOf
  <2>3. NoSession.doc # e
    BY DEF NoSession, DocIds
  <2> QED BY <1>3, <2>1, <2>2, <2>3 DEF SessionsOf
<1>4. progress'[d] = NoProgress
  BY <1>0 DEF ForgetProgressOf, TypeOK
<1>5. PlacesOfSessions'
  <2> SUFFICES ASSUME NEW e \in DocIds, ~crossed'[e]
               PROVE  /\ progress'[e].kept => e \in docs'
                      /\ progress'[e].bookmarked =>
                           \E s \in SessionsOf(e)' :
                             sessions'[s].index = progress'[e].index
    BY DEF PlacesOfSessions
  <2>1. CASE e = d
    BY <1>4, <2>1 DEF NoProgress
  <2>2. CASE e # d
    BY <1>3, <2>2 DEF PlacesOfSessions
  <2> QED BY <2>1, <2>2
<1>6. \A b \in Clients : InFlight(b)'
  BY DEF SingleClient, InFlight, Idle
<1>7. PlacesInText'
  <2> SUFFICES ASSUME NEW e \in DocIds,
                      progress'[e].bookmarked \/ progress'[e].index # 0
               PROVE  \E k \in ChunksOf(e)' : chunks'[k].index = progress'[e].index
    BY DEF PlacesInText, AtAChunk
  <2>1. e # d
    BY <1>4 DEF NoProgress
  <2>2. PICK k \in ChunksOf(e) : chunks[k].index = progress[e].index
    BY <1>3, <2>1 DEF PlacesInText, AtAChunk
  <2>3. k \in ChunksInUse \ ChunksOf(d)
    BY <2>1, PlaybackAssumption DEF ChunksOf, ChunksInUse, DocIds
  <2> QED BY <1>3, <2>1, <2>2, <2>3 DEF ChunksOf
<1>8. \A e \in DocIds : AbsentProgress(progress'[e])
  BY <1>3, <1>4 DEF AbsentProgress
<1> QED BY <1>2, <1>5, <1>6, <1>7, <1>8

\* Reimporting and deleting a document.
LEMMA ReplacingKeepsOneClientInv ==
    ASSUME SingleClient, OneClientInv, NEW c \in Clients, NEW d \in DocIds,
           \/ \E n \in Counts, t \in Texts : ReimportDocument(c, d, n, t)
           \/ DeleteDocument(c, d)
    PROVE  OneClientInv'
<1>0. TypeOK /\ ForgetInv /\ TextsBegin
  BY DEF OneClientInv, ForgetInv
<1>1. ForgetInv'
  BY <1>0, StepsForget DEF Next
<1>2. chunks' \in [ChunkIds -> ChunkRow]
  BY <1>1 DEF ForgetInv, TypeOK
<1>3. ASSUME NEW k \in ChunksInUse \ ChunksOf(d)
      PROVE  WithoutChunksOf(d)[k] = chunks[k]
  BY DEF WithoutChunksOf, ChunksInUse, ChunksOf
<1>4. ASSUME \A k \in ChunksInUse \ ChunksOf(d) : chunks'[k] = chunks[k],
             NEW e \in DocIds, e # d, ChunksOf(e) # {}
      PROVE  AtAChunk(e, 0)'
  <2>1. PICK k \in ChunksOf(e) : chunks[k].index = 0
    BY <1>0, <1>4 DEF TextsBegin, AtAChunk
  <2>2. k \in ChunksInUse \ ChunksOf(d)
    BY <1>4, PlaybackAssumption DEF ChunksOf, ChunksInUse, DocIds
  <2> QED BY <1>4, <2>1, <2>2 DEF ChunksOf, AtAChunk
<1>5. CASE DeleteDocument(c, d)
  <2>1. \A k \in ChunksInUse \ ChunksOf(d) : chunks'[k] = chunks[k]
    BY <1>3, <1>5 DEF DeleteDocument
  <2>2. ASSUME NEW e \in DocIds, ChunksOf(e)' # {}
        PROVE  e # d /\ ChunksOf(e) # {}
    <3>1. PICK k \in ChunkIds : chunks'[k].doc = e
      BY <2>2 DEF ChunksOf
    <3>2. chunks'[k] = IF chunks[k].doc = d THEN NoChunk ELSE chunks[k]
      BY <1>5 DEF DeleteDocument, WithoutChunksOf
    <3>3. NoChunk.doc # e
      BY PlaybackAssumption DEF NoChunk, DocIds
    <3> QED BY <3>1, <3>2, <3>3 DEF ChunksOf
  <2>3. TextsBegin'
    BY <1>4, <2>1, <2>2 DEF TextsBegin
  <2> QED BY <1>1, <1>5, <2>1, <2>3, ContentTakenAway DEF DeleteDocument
<1>6. ASSUME NEW n \in Counts, NEW t \in Texts, ReimportDocument(c, d, n, t)
      PROVE  OneClientInv'
  <2>1. PICK last \in Counts :
          /\ IsLastId(last, ChunksInUse \ ChunksOf(d))
          /\ last + n <= MaxChunkRows
          /\ chunks' = StoredContent(WithoutChunksOf(d), d, last, n, t)
    BY <1>6 DEF ReimportDocument, ReplaceContent
  <2>2. ASSUME NEW k \in ChunksInUse \ ChunksOf(d)
        PROVE  chunks'[k] = chunks[k]
    <3>1. k \in ChunkIds /\ k <= last
      BY <2>1 DEF IsLastId, ChunksInUse
    <3> QED BY <1>3, <2>1, <3>1, EarlierRowsStay
  <2>3. ASSUME NEW e \in DocIds, NEW k \in ChunkIds, chunks'[k].doc = e
        PROVE  AtAChunk(e, 0)'
    <3>1. CASE k \in last + 1 .. last + n
      <4>1. chunks'[k].doc = d /\ AtAChunk(d, 0)'
        BY <1>2, <2>1, <3>1, NewTextBegins
      <4> QED BY <2>3, <4>1
    <3>2. CASE k \notin last + 1 .. last + n
      <4>1. chunks'[k] = IF chunks[k].doc = d THEN NoChunk ELSE chunks[k]
        BY <2>1, <3>2 DEF StoredContent, WithoutChunksOf
      <4>2. NoChunk.doc # e
        BY PlaybackAssumption DEF NoChunk, DocIds
      <4>3. e # d /\ k \in ChunksOf(e)
        BY <2>3, <4>1, <4>2 DEF ChunksOf
      <4> QED BY <1>4, <2>2, <4>3
    <3> QED BY <3>1, <3>2
  <2>4. TextsBegin'
    BY <2>3 DEF TextsBegin, ChunksOf
  <2> QED BY <1>1, <1>6, <2>2, <2>4, ContentTakenAway DEF ReimportDocument
<1> QED BY <1>5, <1>6

(***************************************************************************)
(* The reader's steps.                                                     *)
(***************************************************************************)

\* What a setter reads is in hand, and puts nothing anywhere.
LEMMA SettersKeepOneClientInv ==
    ASSUME OneClientInv, NEW m \in Setters, NEW d \in DocIds, NEW b \in BOOLEAN,
           \/ ResetDocumentBookmark(m, d)
           \/ SetDocumentBookmarkEnabled(m, d, b)
           \/ SetDocumentFinished(m, d, b)
    PROVE  OneClientInv'
<1>0. OneClientInv /\ TypeOK
  BY DEF OneClientInv, ForgetInv
<1>1. TRUE \in BOOLEAN
  OBVIOUS
<1>2. ForgetInv'
  BY <1>0, <1>1, StepsForget DEF Next, OneClientInv
<1>3. PICK q \in Progress, touched \in BOOLEAN :
        /\ SetFrom(progress[d], q)
        /\ setting' = [setting EXCEPT ![m] = ChangeOf(d, q, touched)]
        /\ UNCHANGED <<docs, chunks, sessions, progress, request, crossed>>
  BY <1>0, SettersRemember
<1>4. /\ ChangeOf(d, q, touched).was = progress[d]
      /\ ChangeOf(d, q, touched).new = q
  BY <1>0, ChangeOfFacts DEF TypeOK
<1>5. InHand(ChangeOf(d, q, touched))
  BY <1>0, <1>3, <1>4 DEF InHand, OneClientInv
<1>6. \A x \in Setters : InHand(setting'[x])
  BY <1>0, <1>3, <1>5 DEF TypeOK, OneClientInv
<1>7. \A d1 \in DocIds : AbsentProgress(progress'[d1])
  BY <1>0, <1>3 DEF OneClientInv
<1>8. SessionsPlayTheirText' /\ TextsBegin'
  BY <1>0, <1>3 DEF OneClientInv, SessionsPlayTheirText, SessionOpen, PlaysItsText,
     ChunksOf, TextsBegin, AtAChunk
<1>9. PlacesInText' /\ PlacesOfSessions'
  BY <1>0, <1>3 DEF OneClientInv, PlacesInText, AtAChunk, ChunksOf, PlacesOfSessions,
     SessionsOf
<1>10. \A c \in Clients : InFlight(c)'
  BY <1>0, <1>3 DEF OneClientInv, InFlight, PlaysItsText, ChunksOf
<1> QED BY <1>2, <1>6, <1>7, <1>8, <1>9, <1>10 DEF OneClientInv

\* A setter's flush gives the bookmark up, leaves it at the place of its session,
\* or marks the row.
LEMMA FlushSettingKeepsOneClientInv ==
    ASSUME OneClientInv, NEW m \in Setters, FlushSetting(m)
    PROVE  OneClientInv'
<1> DEFINE ch == setting[m]
<1>0. OneClientInv /\ TypeOK /\ ForgetInv
  BY DEF OneClientInv, ForgetInv
<1>1. ForgetInv'
  BY <1>0, StepsForget DEF Next
<1>2. UNCHANGED <<docs, chunks, sessions, request>>
  BY DEF FlushSetting
<1>3. ch \in Change /\ InHand(ch)
  BY <1>0 DEF TypeOK, OneClientInv
<1>4. InHand(NoChange)
  BY DEF InHand, NoChange
<1>5. \A x \in Setters : InHand(setting'[x])
  BY <1>0, <1>4 DEF FlushSetting, TypeOK, OneClientInv
<1>6. SessionsPlayTheirText' /\ TextsBegin'
  BY <1>0, <1>2 DEF OneClientInv, SessionsPlayTheirText, SessionOpen, PlaysItsText,
     ChunksOf, TextsBegin, AtAChunk
<1>7. CASE UNCHANGED <<progress, crossed>>
  <2>1. PlacesInText' /\ PlacesOfSessions'
    BY <1>0, <1>2, <1>7 DEF OneClientInv, PlacesInText, AtAChunk, ChunksOf,
       PlacesOfSessions, SessionsOf
  <2>2. \A d \in DocIds : AbsentProgress(progress'[d])
    BY <1>0, <1>7 DEF OneClientInv
  <2>3. \A c \in Clients : InFlight(c)'
    BY <1>0, <1>2, <1>7 DEF OneClientInv, InFlight, PlaysItsText, ChunksOf
  <2> QED BY <1>1, <1>5, <1>6, <2>1, <2>2, <2>3 DEF OneClientInv
<1>8. CASE FlushSucceeds(ch) /\ Flush(ch)
  <2> HIDE DEF ch
  <2>1. Placed(ch)
    BY <1>3 DEF InHand, SetFrom, Placed, AbsentProgress, NoProgress
  <2>2. PlacesInText' /\ \A d \in DocIds : AbsentProgress(progress'[d])
    BY <1>0, <1>2, <1>3, <1>8, <2>1, FlushStaysInText DEF OneClientInv
  <2>3. ASSUME NEW e \in DocIds, ~crossed'[e]
        PROVE  /\ ~crossed[e]
               /\ progress'[e].kept => progress[e].kept \/ e \in docs
               /\ progress'[e].bookmarked => /\ progress[e].bookmarked
                                             /\ progress'[e].index = progress[e].index
    <3>1. CASE progress'[e] = progress[e] /\ crossed'[e] = crossed[e]
      BY <2>3, <3>1
    <3>2. CASE /\ e = ch.doc /\ ch.writes
               /\ progress'[e] = FlushedProgress(progress[e], ch)
               /\ ~crossed[e] /\ ~OutOfDate(ch)
      <4>1. progress[e] = ch.was /\ e \in docs
        BY <3>2 DEF OutOfDate
      <4>2. SetFrom(ch.was, ch.new)
        BY <1>3, <3>2 DEF InHand
      <4>3. progress'[e] = ch.new
        BY <1>3, <3>2, <4>1, <4>2, FlushOfReadRow DEF SetFrom
      <4> QED BY <3>2, <4>1, <4>2, <4>3 DEF SetFrom
    <3> QED BY <1>0, <1>3, <1>8, <2>3, <3>1, <3>2, FlushFacts DEF TypeOK
  <2>4. PlacesOfSessions'
    BY <1>0, <1>2, <2>3 DEF OneClientInv, PlacesOfSessions, SessionsOf
  <2>5. ASSUME NEW c \in Clients PROVE InFlight(c)'
    <3> DEFINE r == request[c]
    <3>1. InFlight(c) /\ r \in Request
      BY <1>0 DEF OneClientInv, TypeOK
    <3>2. r.op = "store" => r.new.doc \in DocIds
      BY <3>1 DEF Request, Session
    <3>3. r.op = "store" =>
            r.change.writes \/ crossed'[r.new.doc] \/ ~progress'[r.new.doc].bookmarked
      BY <2>3, <3>1, <3>2 DEF InFlight
    <3> QED BY <1>2, <3>1, <3>3 DEF InFlight, PlaysItsText, ChunksOf
  <2> QED BY <1>1, <1>5, <1>6, <2>2, <2>4, <2>5 DEF OneClientInv
<1> QED BY <1>7, <1>8 DEF FlushSetting

\* A new session plays the text of its chunk.
LEMMA NewSessionPlays ==
    ASSUME NEW d \in docs, NEW k \in ChunksOf(d), NEW v
    PROVE  PlaysItsText(NewSession(d, k, v))
BY DEF PlaysItsText, NewSession

\* What a handler reads is at its text.
LEMMA ReadStepsKeepOneClientInv ==
    ASSUME SingleClient, OneClientInv, NEW c \in Clients,
           \/ \E d \in DocIds, k \in ChunkIds, v \in Voices :
                ReadForSection(c, d, k, v)
           \/ \E d \in DocIds, k \in ChunkIds, v \in Voices, b \in BOOLEAN :
                ReadForResume(c, d, k, v, b)
           \/ \E s \in SessionIds, i \in Counts, v \in Voices :
                ReadForUpdate(c, s, i, v)
           \/ ReadForStore(c)
           \/ FailSynthesis(c)
    PROVE  OneClientInv'
<1>0. OneClientInv /\ TypeOK /\ ForgottenIsForgotten
  BY DEF OneClientInv, ForgetInv
<1>1. ForgetInv'
  BY StepsForget DEF Next, OneClientInv
<1> USE DEF OneClientInv
<1>2. UNCHANGED <<docs, chunks, sessions, progress, setting, crossed>>
  BY DEF ReadForSection, ReadForResume, ReadForUpdate, ReadForStore, FailSynthesis
<1>3. /\ SessionsPlayTheirText'
      /\ TextsBegin'
      /\ PlacesInText'
      /\ PlacesOfSessions'
      /\ \A d \in DocIds : AbsentProgress(progress'[d])
      /\ \A m \in Setters : InHand(setting'[m])
  BY <1>2 DEF SessionsPlayTheirText, SessionOpen, PlaysItsText, ChunksOf, TextsBegin,
              AtAChunk, PlacesInText, PlacesOfSessions, SessionsOf
<1>4. ASSUME NEW r, PlaysItsText(r) PROVE PlaysItsText(r)'
  BY <1>2, <1>4 DEF PlaysItsText, ChunksOf
<1>5. SUFFICES InFlight(c)'
  BY <1>1, <1>3 DEF SingleClient
<1>6. ASSUME NEW d \in DocIds, NEW k \in ChunkIds, NEW v \in Voices,
             d \in docs, chunks[k].doc = d,
             request' = [request EXCEPT ![c] = Opening(d, k, v)]
      PROVE  InFlight(c)'
  <2>1. request'[c] = Opening(d, k, v)
    BY <1>0, <1>6 DEF TypeOK
  <2>2. request'[c].op = "create" /\ request'[c].new = NewSession(d, k, v)
    BY <2>1 DEF Opening, Idle
  <2>3. PlaysItsText(NewSession(d, k, v))
    BY <1>6, NewSessionPlays DEF ChunksOf
  <2>4. PlaysItsText(request'[c].new)
    BY <2>2, <2>3
  <2> QED BY <1>2, <2>2, <2>4 DEF InFlight, PlaysItsText, ChunksOf, AudioOf
<1>7. ASSUME NEW s \in SessionIds, NEW i \in Counts, NEW v \in Voices,
             ReadForUpdate(c, s, i, v)
      PROVE  InFlight(c)'
  <2>1. PICK k \in ChunksOf(sessions[s].doc) :
          request' = [request EXCEPT
                        ![c] = [Idle EXCEPT
                                  !.op = "update", !.session = s,
                                  !.loaded = sessions[s],
                                  !.new = NewSession(sessions[s].doc, k, v),
                                  !.row = chunks[k]]]
    BY <1>7 DEF ReadForUpdate
  <2>2. /\ request'[c].op = "update"
        /\ request'[c].session = s
        /\ request'[c].loaded = sessions[s]
        /\ request'[c].new = NewSession(sessions[s].doc, k, v)
    BY <1>0, <2>1 DEF TypeOK, Idle
  <2>3. sessions[s].doc \in docs
    BY <1>0, <1>7, PlayedChunk DEF ReadForUpdate, SessionsPlayTheirText
  <2>4. PlaysItsText(request'[c].new)
    BY <2>1, <2>2, <2>3, NewSessionPlays
  <2>5. request'[c].new.doc = request'[c].loaded.doc
    BY <2>2 DEF NewSession
  <2> QED BY <1>2, <2>2, <2>4, <2>5 DEF InFlight, PlaysItsText, ChunksOf, AudioOf
<1>8. CASE FailSynthesis(c)
  BY <1>0, <1>8 DEF FailSynthesis, Respond, InFlight, Idle, TypeOK
<1>9. CASE ReadForStore(c)
  <2> DEFINE r == request[c]
             d == r.new.doc
             ch == UpsertDocumentProgress(d, r.new.index)
  <2>1. r \in Request /\ r.op = "update" /\ InFlight(c)
    BY <1>0, <1>9 DEF TypeOK, ReadForStore
  <2>2. d \in DocIds /\ r.new.index \in Indices
    BY <2>1 DEF Request, Session
  <2>3. /\ ch.doc = d
        /\ ch.was = progress[d]
        /\ ch.new = UpsertedProgress(progress[d], r.new.index)
        /\ ~ch.writes => ~progress[d].enabled
    BY <1>0, <2>2, UpsertChangeFacts DEF TypeOK
  <2>4. ch.writes \/ crossed[d] \/ ~progress[d].bookmarked
    BY <1>0, <2>2, <2>3 DEF ForgottenIsForgotten
  <2>5. request' = [request EXCEPT ![c].op = "store", ![c].change = ch]
    BY <1>9 DEF ReadForStore
  <2> HIDE DEF ch
  <2>6. /\ request'[c].op = "store"
        /\ request'[c].change = ch
        /\ request'[c].new = r.new
        /\ request'[c].loaded = r.loaded
        /\ request'[c].session = r.session
    BY <1>0, <2>1, <2>5 DEF TypeOK, Request
  <2>7. PlaysItsText(r.new)
    BY <2>1 DEF InFlight
  <2>8. /\ r.session \in SessionIds
        /\ sessions[r.session] = r.loaded
        /\ r.new.doc = r.loaded.doc
    BY <2>1 DEF InFlight
  <2> QED BY <1>2, <2>3, <2>4, <2>6, <2>7, <2>8 DEF InFlight, PlaysItsText, ChunksOf
<1> QED BY <1>6, <1>7, <1>8, <1>9 DEF ReadForSection, ReadForResume

\* The end of a handler: one session is at one place, which is where the
\* progress of its document is put.
LEMMA OneSessionStep ==
    ASSUME SingleClient, OneClientInv, NEW c \in Clients, Respond(c),
           UNCHANGED <<docs, chunks, setting>>, ForgetInv',
           NEW s \in SessionIds, NEW new \in Session, PlaysItsText(new),
           SessionOpen(s) => sessions[s].doc = new.doc,
           sessions' = [sessions EXCEPT ![s] = new],
           NEW change \in Change, change.doc = new.doc,
           change.new = UpsertedProgress(change.was, new.index),
           change.writes \/ crossed[new.doc] \/ ~progress[new.doc].bookmarked,
           FlushSucceeds(change), Flush(change)
    PROVE  OneClientInv'
<1>0. OneClientInv /\ TypeOK /\ ForgottenIsForgotten
  BY DEF OneClientInv, ForgetInv
<1> USE DEF OneClientInv
<1>1. /\ sessions'[s] = new
      /\ \A x \in SessionIds \ {s} : sessions'[x] = sessions[x]
  BY <1>0 DEF TypeOK
<1>2. ASSUME NEW r, PlaysItsText(r) PROVE PlaysItsText(r)'
  BY <1>2 DEF PlaysItsText, ChunksOf
<1>3. SessionsPlayTheirText'
  <2> SUFFICES ASSUME NEW x \in SessionIds, sessions'[x].doc # 0
               PROVE  PlaysItsText(sessions'[x])
    BY DEF SessionsPlayTheirText, SessionOpen, PlaysItsText, ChunksOf, AudioOf
  <2> QED BY <1>1 DEF SessionsPlayTheirText, SessionOpen
<1>4. new.doc \in docs /\ new.doc \in DocIds /\ new.doc # 0
      /\ new.index \in Indices
  BY <1>0, PlayedChunk DEF Session
<1>5. s \in SessionsOf(new.doc)' /\ sessions'[s].index = new.index
  BY <1>1 DEF SessionsOf
<1>6. ASSUME NEW e \in DocIds, e # new.doc
      PROVE  /\ progress'[e] = progress[e] /\ crossed'[e] = crossed[e]
             /\ \A x \in SessionsOf(e) : x \in SessionsOf(e)'
                                        /\ sessions'[x] = sessions[x]
  <2>1. progress'[e] = progress[e] /\ crossed'[e] = crossed[e]
    BY <1>0, <1>6, FlushFacts DEF TypeOK
  <2>2. s \notin SessionsOf(e)
    BY <1>6 DEF SessionsOf, SessionOpen, DocIds
  <2> QED BY <1>1, <2>1, <2>2 DEF SessionsOf
<1>7. ASSUME ~crossed'[new.doc], progress'[new.doc].bookmarked
      PROVE  progress'[new.doc].index = new.index
  <2> DEFINE p == progress[new.doc]
  <2>1. p \in Progress
    BY <1>0, <1>4 DEF TypeOK
  <2>2. /\ change.writes /\ ~crossed[new.doc] /\ ~OutOfDate(change)
        /\ progress'[new.doc] = FlushedProgress(p, change)
    BY <1>0, <1>4, <1>7, FlushFacts DEF TypeOK
  <2>3. p = change.was
    BY <2>2 DEF OutOfDate
  <2>4. ~p.enabled => ~p.bookmarked
    BY <1>0, <1>4, <2>2 DEF ForgottenIsForgotten
  <2> HIDE DEF p
  <2>5. change.new.kept
    BY <1>4, <2>1, <2>3, UpsertedProgressFacts
  <2>6. progress'[new.doc] = UpsertedProgress(p, new.index)
    BY <2>2, <2>3, <2>5, FlushOfReadRow
  <2>7. CASE ~p.kept
    BY <1>7, <2>6, <2>7 DEF UpsertedProgress, NoProgress
  <2>8. CASE p.kept /\ p.enabled
    BY <2>1, <2>6, <2>8 DEF UpsertedProgress, Progress
  <2>9. CASE p.kept /\ ~p.enabled
    BY <1>7, <2>4, <2>6, <2>9 DEF UpsertedProgress
  <2> QED BY <2>7, <2>8, <2>9
<1>8. PlacesOfSessions'
  <2> SUFFICES ASSUME NEW e \in DocIds, ~crossed'[e]
               PROVE  /\ progress'[e].kept => e \in docs'
                      /\ progress'[e].bookmarked =>
                           \E x \in SessionsOf(e)' :
                             sessions'[x].index = progress'[e].index
    BY DEF PlacesOfSessions
  <2>1. CASE e = new.doc
    BY <1>4, <1>5, <1>7, <2>1
  <2>2. CASE e # new.doc
    BY <1>6, <2>2 DEF PlacesOfSessions
  <2> QED BY <2>1, <2>2
<1>9. \A b \in Clients : InFlight(b)'
  BY <1>0 DEF SingleClient, Respond, TypeOK, InFlight, Idle
<1>10. Placed(change)
  <2> DEFINE w == change.was
  <2>1. w \in Progress
    BY DEF Change
  <2>2. AtAChunk(new.doc, new.index)
    BY DEF PlaysItsText, AtAChunk
  <2>3. CASE ~w.kept
    BY <2>3 DEF Placed, UpsertedProgress, NoProgress
  <2>4. CASE w.kept /\ w.enabled
    BY <2>1, <2>2, <2>4 DEF Placed, UpsertedProgress, Progress
  <2>5. CASE w.kept /\ ~w.enabled
    BY <2>5 DEF Placed, UpsertedProgress
  <2> QED BY <2>3, <2>4, <2>5
<1>11. PlacesInText' /\ \A d \in DocIds : AbsentProgress(progress'[d])
  BY <1>0, <1>10, FlushStaysInText
<1>12. TextsBegin' /\ \A m \in Setters : InHand(setting'[m])
  BY <1>0 DEF TextsBegin, AtAChunk, ChunksOf
<1> QED BY <1>3, <1>8, <1>9, <1>11, <1>12

\* The transaction that ends a handler writes a new session, the loaded row with
\* what was read for it, the progress alone, or nothing.
LEMMA WriteStepsKeepOneClientInv ==
    ASSUME SingleClient, OneClientInv, NEW c \in Clients,
           WriteCreate(c) \/ WriteUpdate(c)
    PROVE  OneClientInv'
<1>0. OneClientInv /\ TypeOK /\ ForgottenIsForgotten
  BY DEF OneClientInv, ForgetInv
<1> USE DEF OneClientInv
<1> DEFINE r == request[c]
<1>1. ForgetInv'
  BY StepsForget DEF Next
<1>2. /\ PlaysItsText(r.new)
      /\ r \in Request /\ r.new \in Session /\ r.loaded \in Session
      /\ r.new.doc \in DocIds /\ r.new.index \in Indices
      /\ Respond(c) /\ UNCHANGED <<docs, chunks, setting>>
  BY <1>0 DEF WriteCreate, WriteUpdate, InFlight, TypeOK, Request, Session
<1>3. CASE UNCHANGED <<sessions, progress, crossed>>
  <2>1. SessionsPlayTheirText' /\ TextsBegin'
    BY <1>2, <1>3 DEF SessionsPlayTheirText, SessionOpen, PlaysItsText, ChunksOf,
                      TextsBegin, AtAChunk
  <2>2. PlacesInText' /\ PlacesOfSessions'
    BY <1>2, <1>3 DEF PlacesInText, AtAChunk, ChunksOf, PlacesOfSessions, SessionsOf
  <2>3. \A b \in Clients : InFlight(b)'
    BY <1>0, <1>2 DEF SingleClient, Respond, TypeOK, InFlight, Idle
  <2>4. /\ \A d \in DocIds : AbsentProgress(progress'[d])
        /\ \A m \in Setters : InHand(setting'[m])
    BY <1>2, <1>3
  <2> QED BY <1>1, <2>1, <2>2, <2>3, <2>4
<1>4. ASSUME WriteCreate(c), ~UNCHANGED <<sessions, progress, crossed>>
      PROVE  OneClientInv'
  <2> DEFINE change == UpsertDocumentProgress(r.new.doc, r.new.index)
  <2>1. PICK s \in SessionIds :
          /\ IsLastId(s - 1, {x \in SessionIds : SessionOpen(x)})
          /\ sessions' = [sessions EXCEPT ![s] = r.new]
          /\ Flush(change)
    BY <1>4 DEF WriteCreate
  <2>2. ~SessionOpen(s)
    BY <2>1 DEF IsLastId, SessionIds
  <2>3. /\ change \in Change
        /\ change.doc = r.new.doc
        /\ change.was = progress[r.new.doc]
        /\ change.new = UpsertedProgress(change.was, r.new.index)
        /\ ~change.writes => ~progress[r.new.doc].enabled
    BY <1>0, <1>2, UpsertChangeFacts DEF TypeOK
  <2>4. change.writes \/ crossed[r.new.doc] \/ ~progress[r.new.doc].bookmarked
    BY <1>0, <1>2, <2>3 DEF ForgottenIsForgotten
  <2>5. FlushSucceeds(change)
    BY <2>3 DEF FlushSucceeds
  <2> HIDE DEF r, change, OneClientInv
  <2> QED BY <1>0, <1>1, <1>2, <2>1, <2>2, <2>3, <2>4, <2>5, OneSessionStep
<1>5. ASSUME WriteUpdate(c), ~UNCHANGED <<sessions, progress, crossed>>
      PROVE  OneClientInv'
  <2>1. /\ r.session \in SessionIds
        /\ sessions[r.session] = r.loaded
        /\ r.new.doc = r.loaded.doc
        /\ r.change.doc = r.new.doc
        /\ r.change.new = UpsertedProgress(r.change.was, r.new.index)
        /\ r.change.writes \/ crossed[r.new.doc] \/ ~progress[r.new.doc].bookmarked
    BY <1>5 DEF WriteUpdate, InFlight
  <2>2. /\ FlushSucceeds(r.change) /\ Flush(r.change)
        /\ sessions' = IF r.new = r.loaded THEN sessions
                       ELSE [sessions EXCEPT ![r.session] =
                               UpdatedSession(@, r.loaded, r.new)]
    BY <1>5 DEF WriteUpdate, UpdateSucceeds
  <2>3. UpdatedSession(r.loaded, r.loaded, r.new) = r.new
    BY <1>2, <2>1, UpdateOfLoadedRow
  <2>4. sessions' = [sessions EXCEPT ![r.session] = r.new]
    <3>1. CASE r.new = r.loaded
      BY <1>0, <2>1, <2>2, <3>1 DEF TypeOK
    <3>2. CASE r.new # r.loaded
      BY <2>1, <2>2, <2>3, <3>2
    <3> QED BY <3>1, <3>2
  <2>5. r.change \in Change
    BY <1>2 DEF Request
  <2> HIDE DEF r, OneClientInv
  <2> QED BY <1>0, <1>1, <1>2, <2>1, <2>2, <2>4, <2>5, OneSessionStep
<1> QED BY <1>3, <1>4, <1>5

(***************************************************************************)
(* The theorems.                                                           *)
(***************************************************************************)

\* At the start there is nothing that could point anywhere.
LEMMA InitOneClientInv == Init => OneClientInv
<1> SUFFICES ASSUME Init PROVE OneClientInv OBVIOUS
<1>1. ForgetInv
  BY InitForgets
<1>2. SessionsPlayTheirText
  BY DEF Init, SessionsPlayTheirText, SessionOpen, NoSession
<1>3. TextsBegin
  BY PlaybackAssumption DEF Init, TextsBegin, ChunksOf, NoChunk, DocIds
<1>4. PlacesInText /\ PlacesOfSessions
  BY DEF Init, PlacesInText, PlacesOfSessions, NoProgress
<1>5. /\ \A d \in DocIds : AbsentProgress(progress[d])
      /\ \A c \in Clients : InFlight(c)
      /\ \A m \in Setters : InHand(setting[m])
  BY DEF Init, AbsentProgress, InFlight, Idle, InHand, NoChange
<1> QED BY <1>1, <1>2, <1>3, <1>4, <1>5 DEF OneClientInv

\* A step that changes nothing.
LEMMA StutterKeepsOneClientInv ==
    ASSUME OneClientInv, UNCHANGED vars
    PROVE  OneClientInv'
<1> USE DEF OneClientInv, vars
<1>1. ForgetInv'
  BY DEF ForgetInv, TypeOK, ForgottenIsForgotten
<1>2. SessionsPlayTheirText' /\ TextsBegin'
  BY DEF SessionsPlayTheirText, SessionOpen, PlaysItsText, ChunksOf, TextsBegin,
     AtAChunk
<1>3. PlacesInText' /\ PlacesOfSessions'
  BY DEF PlacesInText, AtAChunk, ChunksOf, PlacesOfSessions, SessionsOf
<1>4. \A c \in Clients : InFlight(c)'
  BY DEF InFlight, PlaysItsText, ChunksOf
<1> QED BY <1>1, <1>2, <1>3, <1>4

\* With one client, every step keeps the invariant.
LEMMA NextOneClientInv ==
    ASSUME SingleClient, OneClientInv, [Next]_vars
    PROVE  OneClientInv'
<1>1. CASE UNCHANGED vars
  BY <1>1, StutterKeepsOneClientInv
<1>2. ASSUME NEW m \in Setters, NEW d \in DocIds, ResetDocumentBookmark(m, d)
      PROVE  OneClientInv'
  <2>1. TRUE \in BOOLEAN
    OBVIOUS
  <2> QED BY <1>2, <2>1, SettersKeepOneClientInv
<1>3. CASE Next
  BY <1>2, <1>3, ImportKeepsOneClientInv, ReplacingKeepsOneClientInv,
     SettersKeepOneClientInv, FlushSettingKeepsOneClientInv,
     ReadStepsKeepOneClientInv, WriteStepsKeepOneClientInv DEF Next
<1> QED BY <1>1, <1>3

\* With one client, every session plays the present text of its document, in its
\* voice, whatever is imported again, deleted or put under old ids, and whatever
\* setters run beside it.
THEOREM SessionsStayWithTheirText == SingleClient => (Spec => []SessionsPlayTheirText)
<1> SUFFICES ASSUME SingleClient PROVE Spec => []SessionsPlayTheirText
  OBVIOUS
<1>1. OneClientInv /\ [Next]_vars => OneClientInv'
  BY NextOneClientInv
<1>2. OneClientInv => SessionsPlayTheirText
  BY DEF OneClientInv
<1> QED BY <1>1, <1>2, InitOneClientInv, PTL DEF Spec

\* With one client and any number of setters, every bookmark is at a chunk of the
\* text, so that resuming finds one, and at the place of a session unless the row
\* was written over a state that the writer had not read.
THEOREM BookmarksStayPlaces == SingleClient => (Spec => []BookmarksArePlaces)
<1> SUFFICES ASSUME SingleClient PROVE Spec => []BookmarksArePlaces
  OBVIOUS
<1>1. OneClientInv /\ [Next]_vars => OneClientInv'
  BY NextOneClientInv
<1>2. OneClientInv => BookmarksArePlaces
  BY DEF OneClientInv, PlacesInText, PlacesOfSessions, AtAChunk, BookmarksArePlaces
<1> QED BY <1>1, <1>2, InitOneClientInv, PTL DEF Spec
=============================================================================
