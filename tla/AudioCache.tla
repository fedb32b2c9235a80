------------------------------ MODULE AudioCache -----------------------------
(***************************************************************************)
(* The shared audio cache (services/audio_cache.py, cache_eviction.py):    *)
(* exports with the default voice keep the audio of their chunks there     *)
(* until it is evicted or the document deleted.  start.sh runs one worker, *)
(* whose rounds evict first and export then (worker/runner.py).  Every     *)
(* file has the size 1.  Readers' own caches are never evicted.            *)
(* A deletion first looks whether the document is being exported, then     *)
(* commits, and only then removes its directories: a job may be queued,    *)
(* and claimed, in between.                                                *)
(***************************************************************************)
EXTENDS Naturals, FiniteSets

CONSTANTS Books,
          Length,     \* how many chunks each book has
          CapSize,    \* audio_cache_max_gb
          Target,     \* EVICTION_TARGET_RATIO of it
          MaxScraps,  \* bound: files of interrupted syntheses
          MaxDeletions  \* bound: deletions of one document at a time

ASSUME CacheAssumption == /\ IsFiniteSet(Books) /\ Length \in [Books -> Nat \ {0}]
                          /\ CapSize \in Nat /\ Target \in 0 .. CapSize /\ MaxScraps \in Nat
                          /\ MaxDeletions \in Nat

VARIABLES cached,  \* the age of each chunk's audio: none, fresh (protected) or old
          scraps,  \* how many files interrupted syntheses have left, by age
          marker,  \* the age of the marker: old when the interval is over
          round,   \* what the worker is doing
          waiting, \* jobs queued, or left processing by a worker that died
          deletions  \* how many deletions of each book have looked at its
                     \* jobs and not removed its directories yet

jobVars == <<waiting, deletions>>
cacheVars == <<cached, scraps, marker, round, jobVars>>

Audio == UNION {{b} \X (1 .. Length[b]) : b \in Books}
Ages == {"fresh", "old"}
Resting == [at |-> "resting"]

(* A job, by its book and what became of it: overtaken if it was queued    *)
(* while a deletion was under way, crossed if a cancel or a retry that had *)
(* read it before the claim was written after it (ExportRaces), so that    *)
(* its row may say canceled while it runs.                                 *)
Kinds == {"queued", "overtaken"}
Exporting == round.at \in {"look", "synthesize"}

CacheTypeOK ==
    /\ cached \in [Audio -> Ages \cup {"none"}]
    /\ scraps \in [Ages -> 0 .. MaxScraps]
    /\ marker \in Ages
    /\ round.at \in {"resting", "list", "evict", "claim", "look", "synthesize"}
    /\ waiting \subseteq Books \X Kinds
    /\ deletions \in [Books -> 0 .. MaxDeletions]

InitCache == /\ cached = [a \in Audio |-> "none"]
             /\ scraps = [g \in Ages |-> 0]
             /\ marker = "old" /\ round = Resting
             /\ waiting = {} /\ deletions = [b \in Books |-> 0]

-----------------------------------------------------------------------------
AudioOfAge(g) == {a \in Audio : cached[a] = g}
Size == Cardinality(AudioOfAge("fresh")) + Cardinality(AudioOfAge("old"))
            + scraps["fresh"] + scraps["old"]

(* maybe_evict_stale_cached_audio: not before the interval is over; the    *)
(* marker is touched before the eviction, whatever becomes of that.        *)
BeginRound ==
    /\ round = Resting
    /\ round' = [at |-> IF marker = "old" THEN "list" ELSE "claim"]
    /\ marker' = "fresh"
    /\ UNCHANGED <<cached, scraps, jobVars>>

(* evict_stale_cached_audio: one look at all files; nothing to do while    *)
(* they fit.                                                               *)
ListFiles ==
    /\ round.at = "list"
    /\ round' = IF Size <= CapSize THEN [at |-> "claim"]
                ELSE [at |-> "evict", files |-> AudioOfAge("old"), scraps |-> scraps["old"],
                      total |-> Size]
    /\ UNCHANGED <<cached, scraps, marker, jobVars>>

(* The listed old files go until the target is reached.  Unlinking what a  *)
(* deleted document has taken with it frees nothing.                       *)
EvictAudio(a) ==
    /\ round.at = "evict" /\ round.total > Target /\ a \in round.files
    /\ cached' = [cached EXCEPT ![a] = "none"]
    /\ round' = [round EXCEPT !.files = @ \ {a},
                              !.total = IF cached[a] = "none" THEN @ ELSE @ - 1]
    /\ UNCHANGED <<scraps, marker, jobVars>>

\* Mutant: it is not looked which files there were.
EvictScrapUnseen ==
    /\ round.at = "evict" /\ round.total > Target
    /\ scraps' = [scraps EXCEPT !["old"] = @ - 1]
    /\ round' = [round EXCEPT !.total = @ - 1]
    /\ UNCHANGED <<cached, marker, jobVars>>

EvictScrap ==
    /\ round.at = "evict" /\ round.total > Target /\ round.scraps > 0
    /\ scraps' = [scraps EXCEPT !["old"] = @ - 1]
    /\ round' = [round EXCEPT !.scraps = @ - 1, !.total = @ - 1]
    /\ UNCHANGED <<cached, marker, jobVars>>

EndEviction ==
    /\ round.at = "evict"
    /\ round.total <= Target \/ (round.files = {} /\ round.scraps = 0)
    /\ round' = [at |-> "claim"]
    /\ UNCHANGED <<cached, scraps, marker, jobVars>>

-----------------------------------------------------------------------------
(* enqueue_export_job, or a retry: the document is there, before the       *)
(* deletion commits or as a new one that gets its id.  One job of a kind   *)
(* waits for a book.                                                       *)
Enqueue(b) ==
    /\ waiting' = waiting \cup {<<b, IF deletions[b] = 0 THEN "queued" ELSE "overtaken">>}
    /\ UNCHANGED <<cached, scraps, marker, round, deletions>>

(* A waiting job is canceled, or reclaimed for the last time.              *)
Withdraw(job) ==
    /\ job \in waiting
    /\ waiting' = waiting \ {job}
    /\ UNCHANGED <<cached, scraps, marker, round, deletions>>

(* The job of this round, if there is one.                                 *)
Claim(job) ==
    /\ round.at = "claim" /\ job \in waiting
    /\ round' = [at |-> "look", book |-> job[1], chunk |-> 1, job |-> job[2]]
    /\ waiting' = waiting \ {job}
    /\ UNCHANGED <<cached, scraps, marker, deletions>>

(* A cancel, or a second retry, read the job before the claim and is       *)
(* written after it (jobs.py:229-282).                                     *)
WriteCrossesClaim ==
    /\ Exporting
    /\ round' = [round EXCEPT !.job = "crossed"]
    /\ UNCHANGED <<cached, scraps, marker, jobVars>>

(* populate_cached_audio: audio that exists is taken, without touching it; *)
(* other audio is synthesized into a temporary file.                       *)
Look ==
    /\ round.at = "look" /\ round.chunk <= Length[round.book]
    /\ round' = IF cached[<<round.book, round.chunk>>] # "none"
                THEN [round EXCEPT !.chunk = @ + 1] ELSE [round EXCEPT !.at = "synthesize"]
    /\ UNCHANGED <<cached, scraps, marker, jobVars>>

(* os.replace.                                                             *)
Replace ==
    /\ round.at = "synthesize"
    /\ cached' = [cached EXCEPT ![<<round.book, round.chunk>>] = "fresh"]
    /\ round' = [round EXCEPT !.at = "look", !.chunk = @ + 1]
    /\ UNCHANGED <<scraps, marker, jobVars>>

(* _write_combined_wav reads them all, and the round ends; so it does when *)
(* there is no job, the job is canceled, or synthesis fails and removes    *)
(* its temporary file.                                                     *)
EndRound ==
    /\ round.at \in {"claim", "look", "synthesize"}
    /\ round' = Resting
    /\ UNCHANGED <<cached, scraps, marker, jobVars>>

(* The process is killed, anywhere; its job's row still says processing    *)
(* until it is reclaimed.                                                  *)
Killed ==
    /\ round # Resting
    /\ round' = Resting
    /\ waiting' = IF Exporting /\ round.job \in Kinds
                  THEN waiting \cup {<<round.book, round.job>>} ELSE waiting
    /\ scraps' = IF round.at = "synthesize" THEN [scraps EXCEPT !["fresh"] = @ + 1] ELSE scraps
    /\ scraps'["fresh"] + scraps["old"] <= MaxScraps
    /\ UNCHANGED <<cached, marker, deletions>>

-----------------------------------------------------------------------------
(* PROTECTED_FILE_AGE_SECONDS and the interval pass.  An export may take   *)
(* longer than either.                                                     *)
AudioAges(a) ==
    /\ cached[a] = "fresh"
    /\ cached' = [cached EXCEPT ![a] = "old"]
    /\ UNCHANGED <<scraps, marker, round, jobVars>>

ScrapAges ==
    /\ scraps["fresh"] > 0
    /\ scraps' = [fresh |-> scraps["fresh"] - 1, old |-> scraps["old"] + 1]
    /\ UNCHANGED <<cached, marker, round, jobVars>>

MarkerAges ==
    /\ marker' = "old"
    /\ UNCHANGED <<cached, scraps, round, jobVars>>

\* Mutant: what is being exported does not count.
ActiveWaiting(b) == \E kind \in Kinds : <<b, kind>> \in waiting

(* ACTIVE_EXPORT_JOB_STATUSES among the jobs of the document.              *)
ActiveExport(b) ==
    \/ \E kind \in Kinds : <<b, kind>> \in waiting
    \/ Exporting /\ round.book = b /\ round.job \in Kinds

(* delete_document looks at the jobs.                                      *)
BeginDeletion(b) ==
    /\ ~ActiveExport(b) /\ deletions[b] < MaxDeletions
    /\ deletions' = [deletions EXCEPT ![b] = @ + 1]
    /\ UNCHANGED <<cached, scraps, marker, round, waiting>>

(* _remove_document_files, after the commit.  An export they are taken     *)
(* from fails when it next writes, or when it combines (EndRound).         *)
RemoveDirectories(b) ==
    /\ deletions[b] > 0
    /\ deletions' = [deletions EXCEPT ![b] = @ - 1]
    /\ cached' = [a \in Audio |-> IF a[1] = b THEN "none" ELSE cached[a]]
    /\ UNCHANGED <<scraps, marker, round, waiting>>

(* The deletion is rolled back, the process is killed, or there was no     *)
(* directory when it looked.                                               *)
DeletionRemovesNothing(b) ==
    /\ deletions[b] > 0
    /\ deletions' = [deletions EXCEPT ![b] = @ - 1]
    /\ UNCHANGED <<cached, scraps, marker, round, waiting>>

NextCache ==
    \/ BeginRound \/ ListFiles \/ EvictScrap \/ EndEviction
    \/ Look \/ Replace \/ EndRound \/ Killed \/ WriteCrossesClaim
    \/ ScrapAges \/ MarkerAges
    \/ \E b \in Books : \/ Enqueue(b) \/ BeginDeletion(b)
                         \/ RemoveDirectories(b) \/ DeletionRemovesNothing(b)
    \/ \E job \in Books \X Kinds : Claim(job) \/ Withdraw(job)
    \/ \E a \in Audio : EvictAudio(a) \/ AudioAges(a)

SpecCache == InitCache /\ [][NextCache]_cacheVars

-----------------------------------------------------------------------------
(* What an export has passed is there when it combines the audio, however  *)
(* long it took and however old what it found already was: nothing is      *)
(* evicted under it (_synthesize_default_chunk_audio keeps the paths only),*)
(* and a deletion takes nothing from it, whatever the worker and the       *)
(* deletions do between their steps, unless the job was queued behind a    *)
(* deletion's back or another request's write crossed its claim.           *)
ExportsFindTheirAudio ==
    Exporting /\ round.job = "queued" =>
        \A i \in 1 .. round.chunk - 1 : cached[<<round.book, i>>] # "none"
=============================================================================
