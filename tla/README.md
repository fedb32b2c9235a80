# Open Choice Reader: a verification project

TLA+ models of Open Choice Reader, the TLC configurations that check them on
small instances, and theorems about them that TLAPS proves for every value of
the constants. Paths below are relative to the repository's root; in
`PROJECT.json` they start with `src/`.

- [The system](#the-system): its parts, their state, what is hard about them
- [The export queue](#the-export-queue), [playback](#playback),
  [what users own](#what-users-own) and [services](#services): the models, and how
  they follow the code
- [What is checked](#what-is-checked), [what is proved](#what-is-proved)
- [What the code does and the documentation does not say](#findings)
- [What is left out](#abstractions-and-limits) and [the plan](#plan)

## The system

Open Choice Reader keeps a library of documents and reads them aloud. It is one
host: a FastAPI backend whose handlers run in a pool of threads, a browser
application, a SQLite database, files below a data directory, and a worker
process that renders whole documents into audio files. `scripts/start.sh` starts
the backend and, for the worker, a shell loop that runs
`app.worker.runner.run_once` every five seconds.

Everything is shared through the database and the files. `db.session_scope`
wraps each handler: its reads see what is committed when they run, its first
write opens a transaction, and SQLAlchemy writes only the columns that changed.
There is no version column and no lock: what a handler read may be out of date
when it writes.

| Part | State it keeps | Operations | What is hard | What makes it correct |
|---|---|---|---|---|
| Export queue, `services/jobs.py` | rows of `jobs`: status, heartbeat, failure, artifact | enqueue, cancel, retry, claim, reclaim | two processes and many threads write one row; ids are used again | every job ends; what it says of itself is true; it keeps its document |
| Export worker, `worker/`, `scripts/start.sh` | the job it holds, the row as it was loaded, the audio files | one iteration of `run_once` | dies anywhere, is replaced while alive, writes minutes after it read | its row stays its own; cancellation is honoured |
| Documents, `services/documents.py` | `documents`, `sections`, `text_chunks`, source files, covers | import, reimport, delete | files and rows are not one transaction; others use the rows | nothing active loses its document; no file without a row |
| Playback, `services/playback.py`, `library_view.py` | `playback_sessions`, `document_progress` | create, update, prebuffer, serve audio, bookmarks | speech is synthesised between a read and a write; progress is read and flushed apart | a session points at a chunk of its document; the bookmark is what was last read |
| Browser player, `usePlayer.ts` | active session, request counter, audio element | advance, seek, select, change speed | replies in any order, events during an await | plays the session last selected; does not stop between chunks |
| Accounts, `services/auth.py`, `api/auth.py` | `users`, `user_invites`, `auth_sessions` | bootstrap, invite, claim, sign in, change a password, administer | count-then-insert, check-then-write, passwords hashed in between | one bootstrap, one user per invite, an administrator remains, sessions prove the password |
| Login throttle, `login_throttle.py` | failures by client and name, in memory | ask, record, clear | asked before and told after the password is checked; a table of limited size | attempts stay limited, lockouts end |
| Friends, `services/friends.py` | `friendships` | ask, answer, unfriend | the same pair from both sides; nothing makes its row unique | friends have both agreed |
| Library, `services/documents.py`, `library_view.py`, `collections.py`, `shares.py`, `user_storage.py`, `library_admin.py` | documents, their files and covers, collections, `shared_items` | upload, reimport, delete, collect, share, accept, reset | files and rows are not one transaction; ids and names are used again | each document has its own files; nothing is left behind |
| Themes, `services/themes.py`, `settings.py` | themes, the active one | create, delete, apply, read | each look is a transaction | what is shown exists |
| Voices, `services/settings.py`, `voice_presets.py`, `tts/registry.py` | presets, three chosen voices | choose, create, read | engines and reference files go and come | what is shown can be saved |
| Audio cache, `audio_cache.py`, `cache_eviction.py` | cached audio by age and size | populate, evict, delete | eviction goes by age, exports do not touch what they find; a deletion looks, commits, and then removes | exports find their audio |
| Chunking, `services/chunking.py` | none | sentences to chunks | boundaries | no word lost, chunks bounded |
| Schema, `db.py`, `backend/alembic/versions` | tables, columns, revision | upgrade, start | every statement commits by itself | starts complete it; upgrades succeed |
| Ownership, `ownership_backfill.py` | files and the rows that name them | adopt | files move while a transaction runs; paths are looked up by name | files keep apart; a row follows its file |

The other parts (the browser application and its job list, catalogues, parsers,
the speech engines themselves, the HTTP application, the extension, scripts) are
listed in `PROJECT.json` with the reason they are not modelled: see
[Not modelled](#not-modelled).

Handlers meet in these places, and the hazards in `PROJECT.json` are all there:

- the worker and the job handlers write the same row of `jobs`;
- deleting a document removes the rows and the files of its jobs, its sessions
  and its progress;
- `start.sh` replaces the shell loop but not the python process it waits for;
- handlers of one table read, and write what they decided on after another's commit;
- uploads, accepted shares and deletions change files outside of their transactions;
- a row that is deleted gives its id to the next one, and what still names it means
  that one from then on: memberships, covers, shares, answers to friendships;
- eviction and exports use the same files, one after the other in each round;
- the browser sends an update while an earlier one is still being synthesised.

## The export queue

The queue and its worker are the part of the system where most goes on at once.

```
ExportJobs          the rows of "jobs" and what each operation makes of a row
   |
ExportWorker        one iteration of the worker, the shell loop, time, imports
   |        \
ExportQueue  ExportRaces
   |   requests as one step / requests as a read and a write
   |
JobLifecycle        what a client may see of a job   (ExportQueue implements it)
```

| Module | Models |
|---|---|
| `ExportJobs` | status sets of `services/jobs.py:19-21` and `documents.py:42`; the row; one operator per update (`QueuedRow`, `ClaimedRow`, `CancelledRow`, `RetriedRow`, `ReclaimedRow`, `HeartbeatRow`, `OutcomeRow`); `OrmFlush`, which columns an UPDATE writes; `IsNextId`, which id SQLite gives out |
| `ExportWorker` | the variables; `run_once` as one action per transaction or file (`ReclaimStaleJobs`, `ClaimNextQueuedJob`, `FindNothingToClaim`, `LoadJob`, `PrepareExport`, `RaiseIfCancelRequested`, `SynthesizeChunk`, `UpdateJobProgress`, `WriteCombinedWav`, `FinishExport`); `WorkerDies`, `RestartWorkerLoop`; `ImportDocument`, `HeartbeatExpires` |
| `ExportQueue` | `EnqueueExportJob`, `CancelJob`, `RetryJob`, `DeleteDocument`, each as one step; the properties of the queue |
| `ExportRaces` | the same requests, and the worker's reclaim and claim, as `Read...` and `Write...` steps; the deletion of the files as a third |
| `JobLifecycle` | the abstract specification: statuses and offered audio of each job, no worker and no file |
| `MCExportQueue`, `MCExportRaces` | instances for TLC, and three statements that the code does not keep (`MCPlayback` has two more) |
| `ExportWorkerProofs`, `ExportQueueProofs`, `ExportOneWorkerProofs`, `ExportRacesProofs` | theorems and proofs: what the worker keeps, the queue for any workers, the queue and its refinement for one worker, the races |

How the state corresponds to the code:

| Variable | Code |
|---|---|
| `docs` | `documents.owner_user_id` by id; `NoUser` where there is no row |
| `jobs` | the row: `status`, `user_id`, `document_id`, `split_chapters`, whether `heartbeat_at` is recent (`fresh`), `failure_detail` (`failure`), `artifact_path` and `artifact_manifest` (`artifact`) |
| `disk` | export directories that hold a finished audio file |
| `worker` | where the process is in `run_once`, the id it claimed, the row `process_export_job` loaded, the chunks left, the outcome it is about to write |
| `loop` | the worker process the shell loop runs, and its readiness file |
| `request`, `view` (`ExportRaces`) | the local variables of a handler between its reads and its first write |

Three points of the code shape the models.

*The last transaction is blind.* `process_export_job` loads the row, renders
the document for minutes, and then writes status, artifact and failure without
looking at the status again. `FinishExport` therefore computes the new row from
`worker[w].loaded`, and `OrmFlush` writes what differs from it over the row as
it is by then.

*Only the heartbeat says that a worker is alive.* `reclaim_stale_jobs` ends
every job whose heartbeat is older than `worker_stale_job_minutes`. With one
worker this cannot hit a running export, because it is the worker itself that
reclaims before it claims. `start.sh` can bring a second worker: it restarts the
loop when the readiness file is missing, which is so during the first iteration
and after a failed one, and kills the wrapper alone.

*Ids return.* SQLite gives the largest id plus one, so a job created after the
deletion of the last one gets the same id, and the same export directory.

## Playback

`Playback` models the rows a reader's place is kept in: `playback_sessions`
(`services/playback.py`) and `document_progress` (`library_view.py`), and the rows of
documents and chunks they point at, with every operation that changes any of
them.

| Variable | Code |
|---|---|
| `docs` | ids of `documents` |
| `chunks` | `text_chunks` by id: document, place in the document, text |
| `sessions` | `playback_sessions` by id: `document_id`, `chunk_id`, `current_chunk_index`, `voice_option_id`, and what `audio_path` was made from |
| `progress` | `document_progress` by document; `kept` says whether there is a row |
| `request` | the local variables of `create_playback_session` or `update_playback_session` while it synthesises, and of an update the progress it has read (`change`) |
| `setting` | the row a handler of `library_view.py` has read and changed, and not flushed yet |
| `crossed` | not in the code: the row was written over a state its writer had not read |

| Action | Code |
|---|---|
| `ReadForSection`, `ReadForResume`, `WriteCreate` | `create_playback_session` up to the synthesis, with and without `start_section_id`, and after it |
| `ReadForUpdate`, `ReadForStore`, `WriteUpdate` | `update_playback_session` up to the synthesis, its read of the progress after it, and its flush |
| `FailSynthesis` | `PlaybackSynthesisError` |
| `ResetDocumentBookmark`, `SetDocumentBookmarkEnabled`, `SetDocumentFinished`, `FlushSetting` | the functions of these names up to what they read and set, and their flush and commit |
| `ImportDocument`, `ReimportDocument`, `DeleteDocument` | their part in these rows |

Four points of the code shape it.

*Synthesis takes seconds and holds no lock.* The handlers read, synthesise, and
only then write; an UPDATE carries the columns that changed (`UpdatedSession`),
and what the reply needs is looked up last: the section of the chunk, and for an
update the document. When one is gone the transaction is rolled back, so a session
of a deleted chunk is not written, unless its id belongs to new text by then.

*Progress is read and flushed apart.* `upsert_document_progress` asks for
`bookmark_enabled` and flushes ten lines later; so do the three setters. No lock is
held in between, and the flush is an INSERT where there was no row, or an UPDATE of
the columns that the handler has changed (`ChangeOf`, `Flush`). A title that
is switched off or finished between the read and the flush of an advance gets its bookmark
back, one that is advanced between those of a setter keeps it, and a
row of progress may be inserted for a document that was deleted meanwhile. The code does
all that, and resuming bears it (`library_view.py:424` ignores a bookmark that is switched
off). The history variable `crossed` marks the rows it has happened to, and what
the properties promise of the others they promise of all interleavings. Opening a
session is one step after the synthesis: the INSERT of the session is flushed first, and
with it SQLite's write lock is held.

*Nothing but code keeps the references.* SQLite is not asked to check foreign
keys, so reimport and deletion must remove by hand what points into the text
they remove, and ids are used again.

*A new row has no defaults yet.* `UpsertedProgress` reads `bookmark_enabled` of a
row before it is inserted (see [Findings](#findings)).

## What users own

Five modules, each of a part of its own: `Accounts`, `OwnershipBackfill`,
`Friends`, `Library` and `Themes`. They share no variable, as the code shares no
row between them that one decides on and another writes. `MCAccounts` checks them
in one run as a *sum*: `part` says which of them a behaviour is about, and the
others stay where they start. The states are added up, not multiplied, and every
property is of one of them.

A request of these modules is two steps or three: what it reads, then what it
writes, and where files are involved those in between. SQLite's write lock is
taken with the first write, so that another request may commit before it. Some
promises survive that and some do not. Each module therefore has a flag that is
chosen at the start and never changes: `serial` (Accounts), `alone` (Friends),
`inTurn` (Library) and `apart` (Themes). With it a request begins only when no other one is under
way (in Themes: of the same user). Properties that need it say so in their first
word; the others hold for both, sometimes with a weaker bound.

| Module | Variable | Code |
|---|---|---|
| `Accounts` | `users`, `invites` | rows; a user is its name, since neither is ever changed or deleted |
| | `sessions` | rows of `auth_sessions` that are live; of the password only whether the one shown to open it is still the user's (`current`) |
| | `requests` | what a handler has read: the user, the invite, the sessions it will revoke, the acting administrator |
| `OwnershipBackfill` | `place`, `paths` | where each file is, and where its row says it is |
| | `Candidates`, `NameOf`, `RenamedAs` (constants) | the files a row's path may mean, in the order `_resolve_legacy_path` tries them; the name of each file, and that name with its modification time |
| | `adopted`, `next` | the transaction, and the row it has come to |
| `Friends` | `friendships` | rows by id, ids being given out again |
| | `answers` | the operation a handler has decided on and the row it has read |
| | `wishes` | not in the code: the last word of each person about each other one |
| `Library` | `docs`, `members`, `shares` | rows of documents (owner, file name, text), of one collection per reader, of `shared_items` |
| | `files`, `covers` | the readers' directories |
| | `threads` | how far each request has come, and what it has read |
| | `spilled` | not in the code: a request was cut short between a file and its row |
| `Themes` | `themes`, `stored` | the owner of each theme's id, the setting `active_theme_id` |
| | `calls` | between which two transactions a handler is |

The actions carry the names of the handlers, with `Read` or `Commit` for the half
of them they are: `ClaimRead` and `ClaimCommit` are `claim_invite`, `ImportCheck`,
`ImportWrite`, `ImportCommit` and `ImportFails` are `_import_document_from_bytes`.
`ReimportRead`, `ReimportWrite` and `ReimportCommit` are `reimport_document`: the source
is the document's `origin_path` where that is a file of the inbox, in whatever
edition the host has put there by then, and its own file where that is gone; the bytes are
written over its own file before the rows commit.
Every one of these requests may fail or be ended with the server at any point
(`Fails`, `Breaks`, `Refused`, `Interrupt`): the transaction is gone, files stay.

A text is the number of the upload it comes from (`work`), so that a document, its
file, its cover and its membership can be compared: they belong together when
their numbers are equal. A file of the inbox has editions besides, as the host changes it.

A row of `OwnershipBackfill` may mean several files: a relative path is tried below the
legacy root's parents, and then by its name alone, where another row's file
may be. The first that is there is moved (`Resolved`). A destination that is taken is
replaced by the name with the modification time, which is not looked up: what has that
name is overwritten (`Destination`), and both files then have one `place`.

## Services

`LoginThrottle`, `Schema`, `AudioCache`, `Chunking` and `VoiceSettings`, checked
by `MCServices` as a sum in the same way.

| Module | Variable | Code |
|---|---|---|
| `LoginThrottle` | `attempts`, `order` | `_attempts`: the ages of each key's failures, and the keys in the order of insertion, which eviction goes by |
| | `visits` | threads in `login_route`: verifying a password, or waiting for the limiter's lock with a clock reading that grows old (`lag`) |
| `Schema` | `tables`, `columns`, `seeded`, `revision` | the database; tables that all statements treat alike are kept once |
| | `starts` | how far each `alembic upgrade head` and `init_database` has come, and the statements it has decided on |
| | `history` | not in the code: which disturbances there were |
| `AudioCache` | `cached`, `scraps`, `marker` | files of the shared cache by age, left-over temporary files, the marker of the last eviction |
| | `round` | the worker: listing, evicting, exporting, and how the job of its export came to be |
| | `waiting` | the jobs of each book that are queued, or processing without a worker |
| | `deletions` | how many deletions have looked at a book's jobs and not removed its directories yet |
| `Chunking` | `chunks`, `current` | the finished chunks and `current_parts`, in words |
| `VoiceSettings` | `presetOf`, `intact`, `ready` | presets, those with their reference file, engines that are available |
| | `installed` | the `.onnx` files of Piper, each a voice that is available on its own |
| | `saved` | the three voices in `user_settings` |

`LockedOut` and `Record` follow `_prune`, which drops expired failures from the
front only: a failure that was recorded late, with an older clock, may stand behind
a younger one. `Schema` decides what a step has to do in one look and then
executes one statement at a time, because SQLite commits each; two of six migrations do not look
(`guarded`). `Selected` (`Selections`) is the list comprehension that keeps the keys with
failures, and of a migration the statements that are left. `Overflows` in `Chunking` is the condition of `chunking.py:49`: a
short chunk takes a sentence in that makes it too long.

`BeginDeletion` of `AudioCache` is `delete_document`'s look at the jobs
(`documents.py:191`), `RemoveDirectories` the removal after the commit (`:251`). In
between a job may be queued for the document, or for a new one that gets its id, and be
claimed: such a job is `overtaken`. A cancel or a retry that had read a job before its
claim and writes after it (`WriteCrossesClaim`, see `ExportRaces`) makes the
row of a running export say something else, so that a deletion does not see it: it is
`crossed`.

## What is checked

| Run | Instance | Properties | Shows |
|---|---|---|---|
| `ExportQueueOneWorker` | 1 user, 2 documents, 2 jobs, 2 chunks, 1 worker, 1 mishap, limit 1 | `TypeOK`, `RowsTellTheTruth`, `WorkerKeepsItsRow`, `ActiveExportsHaveTheirDocument`, `ImplementsLifecycle`, `EveryJobSettles`, `CancelInTimeIsHonoured` | what the queue promises as it is meant to run |
| `ExportQueueTwoWorkers` | 1 user, 1 document, 1 job, 1 chunk, 2 workers, 2 mishaps | `ActiveExportsHaveTheirDocument`, `EveryJobSettles` | what remains when the loop is replaced under an export |
| `ExportRaces` | 1 user, 1 document, 1 job, 1 chunk, 2 request threads, 1 worker, 1 mishap, chapters not split | `TypeOK`, `RowsStayReadable`, `EveryJobSettles` | what remains when handlers interleave between their reads and writes |
| `ExportQueueRetryLimit` | 3 jobs, limit 1 | `ActiveExportsWithinLimit` | violated, see below |
| `ExportQueueZombie` | 2 workers, 1 mishap | `CompletedHasNoFailure` | violated, see below |
| `ExportRacesCancel` | 1 request thread | `CompletedJobsAreNotCanceled` | violated, see below |
| `Playback` | 1 client, 1 setter, 1 voice, 2 texts, 2 documents, 2 chunks, 2 sessions | `TypeOK`, `SessionsPlayTheirText`, `BookmarksArePlaces`, `ForgottenIsForgotten` | that a reader's place goes with the text it was made in |
| `PlaybackOverlap` | 2 clients, 1 document, 2 chunks, 1 session | `AudioFollowsTheChunk` | violated, see below |
| `PlaybackFirstOpening` | 1 client, 1 document, 1 session | `OpeningIsRemembered` | violated, see below |
| `Accounts` | `Accounts`: 3 names, 2 tokens, 1 invite, 2 threads. `OwnershipBackfill`: 8 rows, 6 files of 2 names, three of which clash when renamed, one row outside. `Friends`: 3 people, 2 rows, 2 handlers. `Library`: 2 readers, 2 threads, 3 ids, 3 uploads, one of them from the inbox with 2 editions, limit 1. `Themes`: 2 users, 1 name, 2 threads | `TypeOK`, `UsersAreMadeOnce`, `SessionsProveThePassword`, `AdministratorRemains`, `FilesKeepApart`, `FirstRowFollowsItsFile`, `FriendsBothAgreed`, `OneFriendshipPerPair`, `DocumentsKeepTheirFiles`, `NoFileIsLeftBehind`, `CollectionsHoldWhatWasPut`, `UploadsStayWithinTheLimit`, `ShareIsCopiedOnce`, `OthersBreakNoTheme` | what users own, with requests one at a time and two at a time, each cut short anywhere |
| `Services` | limiter: 2 threads, 2 keys, 2 attempts, window 2, table of 1. Schema: 2 starts. Cache: books of 2 and 1 chunks, room for 2, 2 deletions of a book at a time. Chunking: limits 2, 3, 4, 5, three sentences of up to 10 words. Voices: 2 readers of whom one saves, 1 preset, 2 files of Piper | `TypeOK`, `LimiterStaysBounded`, `ChunksStayBounded`, `NoWordIsLost`, `UpgradesFailOnlyWhenDisturbed`, `ExportsFindTheirAudio`, `ShownSettingsCanBeSaved`, `LockoutsEnd`, `SchemaIsCompleted` | each service against overlapping calls, kills and what time does |
| `CopiedShare` | 2 readers, 1 thread, 2 uploads | `CopyIsWhatWasShared` | violated, see below |

The properties, in words:

- `RowsTellTheTruth`: a failed row and only a failed row has a failure; a
  completed row and only a completed row records audio, and the audio is on disk
  and was rendered from the document of the job.
- `WorkerKeepsItsRow`: from the claim to the last transaction the row is
  processing or being canceled and is the one that was loaded: it was not
  reclaimed, deleted or replaced by a job with the same id.
- `ActiveExportsHaveTheirDocument`: a queued or running job has its document.
- `ImplementsLifecycle`: a client that polls sees the moves of `JobLifecycle`
  and no others, and audio exactly when the job is completed.
- `EveryJobSettles`: every active job ends.
- `CancelInTimeIsHonoured`: a cancellation requested before the last chunk is
  reported leads to a canceled or failed job.
- `RowsStayReadable`: however requests and worker interleave, a completed row
  has audio, a failed one a failure, and none has both.
- `SessionsPlayTheirText`: a session is at a chunk of its document's present text,
  at that chunk's index, and has the audio of that chunk in its voice.
- `BookmarksArePlaces`: a bookmark is at a chunk of its document, so that resuming
  finds one; and where no handler wrote over what it had not read (`crossed`), it is where
  a session of the document is, and progress is kept of documents only.
- `ForgottenIsForgotten`: a title that is finished, or whose bookmark is switched
  off, has no bookmark, whatever is being synthesised when the reader says so, unless a
  handler wrote its row over a state it had not read.

- `UsersAreMadeOnce`: an invite makes one user, and the empty table one first
  administrator; requests that overlap make one each and no later one does.
- `SessionsProveThePassword` (`serial`): a live session is of an active user, and
  was opened with the password the user has now.
- `AdministratorRemains` (`serial`): once there is a user, an active administrator
  is left. Two administrators whose requests overlap may demote each other.
- `FilesKeepApart`: two files end in one place only where the name with the modification
  time that one of them was given is a name of the other, however often the
  adoption is interrupted; and where no names clash so, a row that has a new path names a file that is
  there, and no other row does.
- `FirstRowFollowsItsFile`: where nothing was interrupted, a row that means a
  file before any other row may names where it was moved, although rows take each
  other's files by name. After an interruption, and for a second row of
  a file, this fails: `_adopt_path` returns before it asks its table of moved files.
- `FriendsBothAgreed` (`alone`): the last word of two friends about each other was
  yes. `OneFriendshipPerPair`: a pair has one row, or one for each handler.
- `DocumentsKeepTheirFiles` (`inTurn`): no two documents have one file; file and
  cover of a document are its own, also when ids and names were used again. Unless a
  request was cut short, the file is of the edition the rows were made from.
- `NoFileIsLeftBehind` (`inTurn`): a file without a document is left only by a
  request that was cut short.
- `CollectionsHoldWhatWasPut` (`inTurn`): a collection shows no document that was
  not put there. With overlapping requests a membership inserted under a
  deletion stays, and shows the next document with the id.
- `UploadsStayWithinTheLimit`, `ShareIsCopiedOnce`: the limit, and the one copy, or
  one more for each request that passed the check at the same time.
- `OthersBreakNoTheme` (`apart`): a user who waits for each answer never meets a
  theme that is gone between two looks, and deletes only themes of their own.
- `LimiterStaysBounded`: the failures kept of a key are at most `max_attempts` - 1
  and one per thread, and the table and its order agree and stay within `max_keys`.
  `LockoutsEnd`: whoever is locked out is let in again, whatever is tried meanwhile.
- `SchemaIsCompleted`: of the starts that run at one time, one brings the database to its
  whole schema, unless it is interrupted or upgrades what `init_database` has made.
  `UpgradesFailOnlyWhenDisturbed`: an upgrade fails only after an interruption,
  beside another start, or after such an `init_database`.
- `ExportsFindTheirAudio`: audio that an export has passed is there when it is
  combined: neither eviction nor a deletion takes it, unless the job was queued behind
  a deletion's look, or a cancel or a retry crossed its claim. Those exports do lose their audio.
- `ChunksStayBounded`: no chunk has more than (minimum - 1) + (hard maximum - 1)
  words, which is more than `HARD_MAX_CHUNK_WORDS`. `NoWordIsLost`: every word is in a
  chunk or waits for one, and at the end none waits.
- `ShownSettingsCanBeSaved`: some settings are shown, and all that are shown would
  be accepted if they were sent back.

`ImplementsLifecycle`, `RowsTellTheTruth` and `WorkerKeepsItsRow` are stated of
one worker because they are false of two: the first worker's row is reclaimed
under it. `ActiveExportsHaveTheirDocument` is false of split handlers, for a
document may be deleted after `enqueue_export_job` has found it.
`SessionsPlayTheirText` and `BookmarksArePlaces` are stated of one client (a request
for a session, a reimport or a deletion waits for the one before it; the setters
and imports do not), because they are false of two: see
`PlaybackOverlap`. `ForgottenIsForgotten` holds of any number of both, for
rows that were not written over.

Bounds. Every bound is a constant: `MaxDocs`, `MaxJobs`, `MaxChunks`,
`MaxMishaps` (deaths and restarts), `MaxActiveExports` (the setting
`user_max_active_export_jobs`, 10 by default). Two documents and two jobs are
enough for a job to outlive another, for an id to be used again by a job of
another document, and for the worker to hold one job while a client acts on the
next; two chunks have a first and a last, and a split export of two chapters.
Properties that compare two users are not stated; a user is only looked up. One
job suffices for the races: they are about one row, and its id is used again
after a deletion; with one chunk a split export differs from a whole one only in
not looking for its file again, so `Splits` leaves it out there. Two mishaps allow a loop to be replaced twice, or replaced
and then killed. In `Playback`, `MaxDocs`, `MaxChunkRows` and `MaxSessions` bound the ids: two
documents of one chunk each, or one of two, can be reimported and deleted in any order, so
that a chunk id goes from one document to the other and to another text; two
sessions have a latest and an earlier one. One setter meets the flush of the client's
update, and the deletion and reimport of the document, between its read and its flush; one voice
suffices where requests come one at a time. The two texts are symmetric, for they are only
compared. What the bounds leave open for the
safety properties is closed by the proofs.

In `Accounts`, three names are what it takes for two claims of one invite to
overlap beside the administrator who made it; two tokens let one session be
revoked while another is opened; `MaxSignedIn` bounds live sessions only where requests
overlap. Three people make three pairs, and with two rows a pair can get the id of
another. In `Library` a limit of one upload is passed by the second of two checks;
three ids hold a shared document, its copy and a third, which would be a second
copy; `MaxOverlapping`, 4, bounds how many requests a behaviour has when they
overlap, while `inTurn` leaves their number open; two editions (`MaxEditions`) differ. Every file counts one unit and
every upload has one name, the case in which names collide most. In
`OwnershipBackfill` row 3 names the file of row 1 and, when that is gone, finds row 5's by
its name; three files have one name and one modification time, so that the third is
moved over the second; rows 7 and 8 name one file, of which row 7's path lies outside the
legacy root. In `AudioCache` a first deletion of a book may still have to remove its directories
when a second one begins (`MaxDeletions`); of left-over temporary files there is
one (`MaxScraps`), and one job of a kind waits for a book. In `Chunking` a sentence of 10 words
is cut in three pieces of at most 4, one of 5 stays whole, one of 4 joins a chunk of
1; three sentences fill a chunk, overflow it, and start the next. Two starts of the server are one and somebody else's.
In `VoiceSettings` only one reader (`Saver`) saves settings, while both have presets.
What these bounds leave open is closed by the proofs for every
safety property of `Accounts` and `Services`.

Fairness. A worker process takes its next step (`WF` of `WorkerStep`): the shell
loop runs `run_once` again and again, and a process that runs is scheduled. A
step of the worker is weakly fair as a whole, not action by action, since the
process has one program counter. Time passes (`WF` of `HeartbeatExpires`). In
`ExportRaces` a handler that has read finishes (`WF` of `ClientStep`); it is a
thread of the backend that blocks on nothing but the database. No client must
send anything, no process must die, and no restart is assumed to happen. A
worker that starves on one job (its heartbeat expires while it works) is
covered, since `HeartbeatExpires` may happen at any time.

In `Services`, time passes (`Tick`) and a thread that waits for the limiter's lock
gets it (`Record`): the lock is held for a few operations on a list. A start of the
server goes on by itself (`Proceed`), and none is assumed to be made anew. Nobody
must try to sign in.

`Playback` and `Accounts` state no liveness and have no fairness. `CHECK_DEADLOCK` is
left on for the queue and playback: an idle worker always has a next iteration, and
documents and bookmarks can always be changed. It is off in `Accounts`, `Services`
and `CopiedShare`: a used invite with nobody signed in, and a section that has
ended, are ends and no faults.

## What is proved

Every invariant that a passing run checks, and the refinement, is a theorem of the
specification the run is about, for any values of the constants: any sets of users, workers,
threads, voices, rows and files, any numbers of ids and any limits, under the named
assumptions of the modules, which TLC evaluates in the runs. They say that

- numbers are numbers, and rows are numbered from 1 (`BackfillAssumption`);
- "no value" (`NoUser`, `Nothing`, `None`, `Nobody`, `Unset`, `NoVoice`) is not one of the values;
- the threads of the server are finitely many (`ClientsAreFinite`, `HandlersAreFinite`,
  `ThreadsAssumption`, `LimiterAssumption`), since its pool of threads is: the
  bounds of what overlapping requests do count them;
- the limits of `Chunking` are in their order (`WordsAssumption`); every book has a
  chunk, and the eviction target lies below the limit (`CacheAssumption`).

`SingleWorker` says that any two workers are the same, `SingleClient` the same of clients; of
setters there may be any number.

| Theorem | Statement |
|---|---|
| `ExportQueueProofs!TypeCorrect` | `Spec => []TypeOK` |
| `ExportQueueProofs!DocumentsOutliveTheirExports` | `Spec => []ActiveExportsHaveTheirDocument` |
| `ExportQueueProofs!CancellationsAreNotOverrun` | `Spec => CancelingEndsUncompleted` |
| `ExportOneWorkerProofs!RowsAreTruthful` | `SingleWorker => (Spec => []RowsTellTheTruth)` |
| `ExportOneWorkerProofs!ExportsKeepTheirRow` | `SingleWorker => (Spec => []WorkerKeepsItsRow)` |
| `ExportOneWorkerProofs!QueueImplementsLifecycle` | `SingleWorker => (Spec => ImplementsLifecycle)` |
| `ExportRacesProofs!RacesTypes` | `Spec => []TypeOK` |
| `ExportRacesProofs!RacingRowsStayReadable` | `Spec => []RowsStayReadable` |
| `PlaybackProofs!PlaybackTypes` | `Spec => []TypeOK` |
| `PlaybackProofs!BookmarksStayForgotten` | `Spec => []ForgottenIsForgotten` |
| `PlaybackProofs!SessionsStayWithTheirText` | `SingleClient => (Spec => []SessionsPlayTheirText)` |
| `PlaybackProofs!BookmarksStayPlaces` | `SingleClient => (Spec => []BookmarksArePlaces)` |
| `AccountsProofs!AccountsTypes` | `Spec => []TypeOK` (of `MCAccounts`) |
| `AccountsProofs!AnAdministratorRemains` | `SpecAccounts => []AdministratorRemains` |
| `AccountsProofs!SignedInUsersShowedThePassword` | `SpecAccounts => []SessionsProveThePassword` |
| `AccountsProofs!InvitesMakeOneUser` | `SpecAccounts => []UsersAreMadeOnce` |
| `AccountsProofs!FriendsAgree` | `SpecFriends => []FriendsBothAgreed` |
| `AccountsProofs!PairsHaveOneRow` | `SpecFriends => []OneFriendshipPerPair` |
| `AccountsProofs!OthersLeaveThemes` | `SpecThemes => []OthersBreakNoTheme` |
| `AccountsProofs!AdoptedFilesKeepApart` | `SpecBackfill => []FilesKeepApart` |
| `AccountsProofs!FirstRowsFollow` | `SpecBackfill => []FirstRowFollowsItsFile` |
| `LibraryProofs!RowsAndFilesAgree` | `SpecLibrary => []DocumentsKeepTheirFiles` |
| `LibraryProofs!MembershipsAreMeant` | `SpecLibrary => []CollectionsHoldWhatWasPut` |
| `LibraryProofs!FilesHaveTheirDocument` | `SpecLibrary => []NoFileIsLeftBehind` |
| `LibraryProofs!SharesMakeOneCopy` | `SpecLibrary => []ShareIsCopiedOnce` |
| `LibraryProofs!UploadsAreLimited` | `SpecLibrary => []UploadsStayWithinTheLimit` |
| `ServicesProofs!ServicesTypes` | `Spec => []TypeOK` (of `MCServices`) |
| `ServicesProofs!LimiterIsBounded` | `SpecThrottle => []LimiterStaysBounded` |
| `ServicesProofs!UndisturbedUpgradesSucceed` | `SpecSchema => []UpgradesFailOnlyWhenDisturbed` |
| `ServicesProofs!AudioStaysUnderExports` | `SpecCache => []ExportsFindTheirAudio` |
| `ServicesProofs!ChunksAreBounded` | `SpecChunking => []ChunksStayBounded` |
| `ServicesProofs!WordsAreKept` | `SpecChunking => []NoWordIsLost` |
| `ServicesProofs!SettingsCanBeSavedBack` | `SpecVoices => []ShownSettingsCanBeSaved` |

### The queue, any number of workers

`ExportWorkerProofs` proves once, for `ExportQueue` and `ExportRaces`, what the steps of
the worker keep. `TypeOK` alone is not inductive: a process that exports must hold
a job that exists as an id, and the loaded row must name a user and a document;
`TypeInv` adds that, with one lemma for each action.
`DocumentsOutliveTheirExports` adds that a retryable row, although its job has
ended, has its document too, because the deletion of a document deletes the rows
of its jobs; this is why `retry_job` may go without the check that
`enqueue_export_job` makes.

`CancelingEndsUncompleted` is the part of `CancelInTimeIsHonoured` that no fairness is
needed for, and holds of any number of workers: a job is `Canceling` when a
cancellation is requested and no process that has it is past its last look at the row, and
from there it stays so or ends canceled or failed. It survives the restart of the loop: whoever
writes the row next has looked, and `reclaim_stale_jobs` cancels. Lemma
`InTimeIsCanceling` (`ExportOneWorkerProofs`) says that with one worker this is what
`CancelInTimeIsHonoured` calls in time; that the job ends at all stays with TLC.

### The queue, one worker

These properties rest on `OneWorkerInv`:
the row a worker exports is processing or being canceled and agrees with the
loaded row in user, document, failure and artifact; the audio it has combined is
on disk; every other row already tells the truth. It is inductive because
deletion refuses while a job is active, so that the row cannot vanish and its id
cannot be used again, and because the one worker reclaims only when it holds no
job. The refinement follows step by step: each action changes what a client sees
of a job by one move of `JobLifecycle` or not at all, and it needs `OneWorkerInv`
for the last transaction, which would otherwise bring back a row from any status.

### The races

With the handlers split, statuses are overwritten at will, and `OneWorkerInv` fails.
`ReadableInv` (`ExportRacesProofs`) says why the columns beside the status can be trusted: a stale
value reaches `failure_detail` or the artifact only while those are empty or
nobody has written them since. `SoleWriter` is the part that took finding: of a
row the worker holds, neither failure nor audio is set and its status is no end, even if
it was deleted and its id used again; and a row it is about to reclaim has not been ended since it
was read, because the worker that would have ended it is the one that reclaims.

### Playback

`ForgetInv` proves `ForgottenIsForgotten`, for any clients and setters: what any of them has in
hand gives up what the row it was read from had given up (`KeepsForgotten`), so that a
flush over just that row forgets, and a flush over any other state marks it. The properties of one
client rest on `OneClientInv`, which adds `InFlight`: what a handler
has read is at the present text, and the session an update has loaded is still as it was
loaded, so that its UPDATE leaves the row it computed. An update that does not write
the progress, since it read a row that is switched off, needs that there is no bookmark
to be left behind, or that the row is marked. `InHand` says of a setter that it
keeps the place it read, which its UPDATE then does not write, or goes back to the first chunk; together
with `TextsBegin` (a text that has chunks has a first one) this is why a bookmark is at a
chunk of the present text even where rows are written over.
Steps that take text away find no request in flight; imports find their chunks after those in
use.

### Requests that do not overlap

None of the properties that need the flag is inductive, for a state between the two halves of a request
depends on what the request has read. Each proof has an invariant of one form: the
facts about the tables, that at most one request is under way, and that what it
has read is still so. In `SerialInv` (Accounts) a request that disables somebody
knows another active administrator, the one who asked, and the sessions it has
selected are all there are. In `AloneInv` (Friends) the row a handler is about to
write is still the pair's, and pending when it is to be answered; this is what an id that is
used again destroys when handlers overlap. In `LibraryInv` the path a file is written to is no document's, an
id that a row can get hangs on nothing, every file has its row or is in the hands of the request, and
its edition is the row's but while a reimport has written it and not committed;
failing requests keep all but the last two, which `spilled` excuses. `ThemesInv` says that a theme between
two looks is still its user's, since others can neither take a taken id nor delete it.

`BackfillInv` says that a file is where it was, under its own name, or under the one with the
modification time, and that a place is taken by a second file only in the last case; this
survives any interruption. `AttemptFollows` describes an attempt that none was interrupted before: a file
was moved only by a row it has passed that may mean it; so a row that is the first for its file finds it.

### Requests that overlap

The properties that count rows hold for overlapping requests too, with the number of
threads in the bound. Each invariant counts what is there together with what is about to be, and a
request joins the second only while the first is empty, or below the limit, so that once
the first of them has committed no other joins any more:

| Invariant | What it counts | At most |
|---|---|---|
| `OnceInv` (`AccountsProofs`) | users an invite has made, requests that are about to make one with it | the threads |
| `PairsInv` (`AccountsProofs`) | rows a pair has or a handler is about to turn to it, handlers that are about to insert one | the handlers |
| `StoreInv` (`LibraryProofs`) | copies of a share, requests that copy it | the threads |
| | files a reader has uploaded or a reimport is about to write, imports that have passed the check | the limit, and the threads less one |
| `LimiterInv` (`ServicesProofs`) | failures kept of a key, requests that were let in with it | the limit less one, and the threads |

With the flag, each bound is that of one thread. A row that is turned needs its place in `PairsInv`: the
handler names its id, and by the time it writes the row may be another pair's. A reimport counts in
`StoreInv` although it adds no document: it writes the file again when the
document, and the file, are gone.

### Services

`ShownSettingsCanBeSaved` follows because a saved
voice is always the reader's own, which `VoicesInv` carries along: a preset
keeps its owner. `CacheInv` needs that a round which evicts exports nothing, and
that no deletion of a book is under way while a job of it that is neither overtaken nor
crossed waits or is exported: a deletion refuses where there is one, and one
that is queued after the look is overtaken. `ChunkingInv` needs a bound of what
waits for its chunk, and that no piece of a sentence that is cut is empty.

`LimiterInv` also says that `order` lists each key with failures once and no other, and
no more than `max_keys` of them: pruning and eviction take keys out of both or of none.

`SchemaInv` says of every start that is not disturbed: it is alone, the
revision it has read is the database's, of its migration what is left to do is not
there yet, and the tables that `init_database` could have made come only with the migrations. So a
statement that fails finds what somebody else has made.

`WordsInv` says that chunks and what waits add up to the words read. `NoWordIsLost` adds
up by `RunningTotal`, a recursive function. The provers cannot show by induction what it is, nor that it is at
all. The invariant therefore says that *some* function of running totals exists, which every
step extends by one value, and a least number at which two of them differ
(`LeastNumber`, from the library's well-founded minimum) shows that there is one only.

### Sums

`AccountsTypes` and `ServicesTypes` are of the composed specifications that the
runs check: a step of the sum is a step of one component that leaves the variables
of the others alone (`WholeStep`, `ServicesStep`), so that what each keeps the sum keeps.

### Only model-checked

- Liveness, which is out of the prover's reach: `EveryJobSettles`, `LockoutsEnd`,
  `SchemaIsCompleted`, and of `CancelInTimeIsHonoured` that the job ends.
- The statements that the code does not keep (see [Findings](#findings)); the proofs neither use nor contradict them.
- `SelectSeq` and folds are recursive operators of the library, which the provers cannot
  unfold; `Selected` and `RunningTotal` say the same in a form they can.

## Findings

- *Retries are not counted* (`ExportQueueRetryLimit`). `docs/configuration.md:13`
  and `ARCHITECTURE.md:37` say that active exports are limited. A user who
  cancels a queued job, submits another and retries the first has one more.
- *A completed export may carry a failure* (`ExportQueueZombie`).
  `tests/test_worker_runner.py:95` asserts that there is none. After the
  loop is restarted under a slow export and the new worker has reclaimed the job,
  the old process completes it; it sets `failure_detail` to the `None` it had
  loaded, SQLAlchemy sees no change, and the text of the reclaim stays.
- *A completed export may be canceled* (`ExportRacesCancel`). `cancel_job`
  refuses a completed job, on the status it read. If the worker's last
  transaction commits before the write, the completed job becomes one that is
  being canceled, is reclaimed some minutes later, and loses its audio.

- *An advance loses its audio to a change of the voice* (`PlaybackOverlap`).
  `tests/test_playback_api.py:307` asserts that an advance moves the chunk and the
  audio. An update that names only a voice, read before the advance and written
  after it, finds chunk and index as it wants them and writes the audio of the old
  chunk over that of the new one.
- *The first opening is not remembered* (`PlaybackFirstOpening`).
  `frontend/src/routes/BookPage.tsx:506` says "Open the title and progress will be
  remembered automatically once bookmark tracking is enabled", which it is by
  default. The first session of a title, also one that starts at a late chapter,
  leaves a row of progress without a bookmark.
- *A share may copy another document* (`CopiedShare`). `shares.py:191` says "The
  shared document is no longer available from the sender" when it was deleted. If the sender
  has uploaded another document since, that one has the id, and is copied.

## Abstractions and limits

- A voice, a format, a name or a percentage is left out: no decision of the queue
  depends on them once a request has been accepted. Refused requests change
  nothing and are not steps.
- A document without chunks, a missing voice, the storage quota, an engine that
  fails and unequal formats are one nondeterministic failure where they occur
  (`PrepareExport`, `SynthesizeChunk`, `WriteCombinedWav`).
- The two checks for cancellation in front of a chapter and of its first chunk
  follow each other without a change of state and are one.
- The chunk files of a voice clone live in a temporary directory and are not
  modelled; `disk` holds finished files, by export directory.
- Minutes are not counted: a heartbeat is recent or not, and may stop being so at
  any time.
- SQLite serialises writers and its "database is locked" is taken not to
  occur; a handler's write phase is one step.
- Users are never deleted by the code, nor here.
- In `Playback` a section is one chunk long, so that a chunk stands for its section
  too; the two are inserted and deleted together. Opening at a section opens at
  its first chunk.
- In `Playback` there is one reader: a document has one owner, who alone may open
  it. The speed, the narration pace and the engine are left out; an update of the
  speed alone touches neither progress nor place. Prebuffering changes no row.
- Reimport and deletion are one step in `Playback`, and wait for the client's
  reply, not for the setters; a deletion that an active export refuses is no step.
- What a handler leaves behind that writes over progress it has not read is allowed (`crossed`) and
  not bounded: a bookmark of a title that is switched off or finished, a row of
  a deleted document, which the next document with its id has from the start.

- In `OwnershipBackfill` the rows of one table stand for those of several, and their
  destinations for one directory. Of two files in one place the model keeps both names; on the disk
  only the second is left. A file is legacy or adopted; that a candidate lies in the user's own directories
  is left out.
- In `Library` a reimport remembers whether the document it found was a copy, since the
  file it writes may be gone by then. An edition tells the text apart and has no cover of
  its own. `origin_path` is a file of the inbox or the document's own; that it
  may become another file where a name is used again is left out. A file that a reimport from the inbox brings
  back after it was lost is not counted in the limit. A reader has one collection, a cover has no extension, and a uuid
  names a file that nobody had. `Friends` is not composed with it: whether two may share
  is assumed. Friends and owners stay; the code deletes no user.
- In `Themes` a name gets its suffix once; what a theme looks like is data.
- In `AudioCache` every file has the size 1 and is protected or old; there is one
  worker, as `start.sh` means it. With a second one an eviction could run beside an
  export. What becomes of an export that was queued behind a deletion's look, or whose
  claim a cancel or a retry crossed, is modelled and promised nothing: it may find its audio
  gone and fail. The other models of the worker treat a missing file as a failure of
  `WriteCombinedWav`. Readers' own caches, which nothing evicts, are left out.
- In `Schema` a statement succeeds or finds what it would add; a table is created
  with all its columns.
- In `Chunking` a section is its sentences' numbers of words; where a sentence ends
  is a matter of regular expressions.
- In `VoiceSettings` the order of the list of voices is left open: any of the voices that
  might come first may be shown. Piper can always run, by `sys.executable` if nothing else, so that its voices depend
  on their files only; Kokoro's voices are a table and its engine is there or not.

### Not modelled

- The browser application: the player, the job list and the other views are a client
  of their own. Their requests are here, in any order (`Playback`, `ExportRaces`); what
  they do with replies is not, and `PROJECT.json` lists its hazards without a property.
- Catalogues, book metadata and parsers: conversions of remote answers and file
  formats without state of their own.
- The speech engines: subprocesses and libraries. A synthesis succeeds or fails.
- The HTTP application, configuration, the browser extension, and scripts other
  than `start.sh`.

## Plan

1. *Done*: the export queue, playback, what users own, services (above).
   Every invariant they check is proved, for any values of the constants.
2. The promise of `SessionsPlayTheirText` that survives overlapping requests, as a
   weaker invariant of two clients, and of `DocumentsKeepTheirFiles` likewise, each with its proof;
   the safety half of `SchemaIsCompleted`: a start that ends undisturbed has the whole schema.
3. `PlayerClient`: the browser player against a backend that answers in any order.
   The session shown is the one last selected; a chunk that ended is followed by the
   next one. With `Playback` as its backend: what is played is what is bookmarked.
4. `AudioCache` composed with `ExportWorker`, for a second worker that evicts.
5. `Friends` composed with `Library`: sharing ends with the friendship.
