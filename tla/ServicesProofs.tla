---------------------------- MODULE ServicesProofs ----------------------------
(***************************************************************************)
(* Theorems about VoiceSettings, AudioCache, Chunking, LoginThrottle and   *)
(* Schema for every number of readers, voices, documents, words, threads,  *)
(* usernames and starts, and last about MCServices, where they are one.    *)
(***************************************************************************)
EXTENDS MCServices, FiniteSetTheorems, SequenceTheorems, WellFoundedInduction, TLAPS

(***************************************************************************)
(* VoiceSettings.  What is saved is looked up among everybody's voices;    *)
(* that it is nevertheless the reader's own is what must be carried along: *)
(* a preset keeps its owner.                                               *)
(***************************************************************************)
OwnVoices(u) == Kokoro \cup Piper \cup {p \in Presets : presetOf[p] = u} \cup {Unset}

VoicesInv ==
    /\ presetOf \in [Presets -> Listeners \cup {Unset}]
    /\ intact \subseteq Presets
    /\ ready \subseteq Engines /\ installed \subseteq Piper
    /\ saved \in [Listeners -> Saved]
    /\ \A p \in intact : presetOf[p] # Unset
    /\ \A u \in Listeners : /\ saved[u].live \in OwnVoices(u)
                            /\ saved[u].export \in OwnVoices(u)
                            /\ saved[u].fallback \in OwnVoices(u) \cup {NoVoice}

\* Nothing is saved at first.
LEMMA VoicesInitially == InitVoices => VoicesInv
<1> SUFFICES ASSUME InitVoices PROVE VoicesInv
  OBVIOUS
<1>1. \A u \in Listeners : saved[u] = [live |-> Unset, export |-> Unset, fallback |-> Unset]
  BY DEF InitVoices
<1>2. saved \in [Listeners -> Saved]
  BY DEF InitVoices, Saved, VoiceIds
<1> QED BY <1>1, <1>2 DEF InitVoices, VoicesInv, OwnVoices

\* What is accepted is the reader's own.
LEMMA VoicesPreserved == VoicesInv /\ [NextVoices]_voicesVars => VoicesInv'
<1> SUFFICES ASSUME VoicesInv, [NextVoices]_voicesVars PROVE VoicesInv'
  OBVIOUS
<1> USE VoicesAssumption
<1>0. BuiltIn \subseteq Kokoro \cup Piper
  BY DEF BuiltIn, PiperListed, VoicesInv
<1>1. CASE UNCHANGED voicesVars
  BY <1>1 DEF voicesVars, VoicesInv, OwnVoices
<1>2. ASSUME NEW u \in Listeners, NEW live \in Options(u), NEW export \in Options(u),
             NEW fallback \in Options(u) \cup {NoVoice}, UpdateSettings(u, live, export, fallback)
      PROVE  VoicesInv'
  <2> DEFINE new == [live |-> live, export |-> export, fallback |-> fallback]
  <2>1. /\ live \in OwnVoices(u) /\ export \in OwnVoices(u)
        /\ fallback \in OwnVoices(u) \cup {NoVoice}
    BY <1>0 DEF Options, OwnVoices
  <2>2. new \in Saved
    BY <1>0 DEF Options, Saved, VoiceIds
  <2>3. saved' = [saved EXCEPT ![u] = new]
    BY <1>2 DEF UpdateSettings, Upserted
  <2>4. saved' \in [Listeners -> Saved]
    BY <2>2, <2>3 DEF VoicesInv
  <2>5. \A v \in Listeners : saved'[v] = IF v = u THEN new ELSE saved[v]
    BY <2>3 DEF VoicesInv
  <2>6. UNCHANGED <<presetOf, intact, ready, installed>>
    BY <1>2 DEF UpdateSettings
  <2>7. \A v \in Listeners : OwnVoices(v)' = OwnVoices(v)
    BY <2>6 DEF OwnVoices
  <2>8. \A v \in Listeners : /\ saved'[v].live \in OwnVoices(v)'
                             /\ saved'[v].export \in OwnVoices(v)'
                             /\ saved'[v].fallback \in OwnVoices(v)' \cup {NoVoice}
    BY <2>1, <2>5, <2>7 DEF VoicesInv
  <2> QED BY <2>4, <2>6, <2>8 DEF VoicesInv
<1>3. ASSUME NEW u \in Listeners, NEW p \in Presets, CreatePreset(u, p)
      PROVE  VoicesInv'
  <2>1. presetOf' \in [Presets -> Listeners \cup {Unset}]
    BY <1>3 DEF CreatePreset, VoicesInv
  <2>2. \A q \in Presets : presetOf'[q] = IF q = p THEN u ELSE presetOf[q]
    BY <1>3 DEF CreatePreset, VoicesInv
  <2>3. \A v \in Listeners : OwnVoices(v) \subseteq OwnVoices(v)'
    BY <1>3, <2>2 DEF CreatePreset, OwnVoices
  <2> QED BY <1>3, <2>1, <2>2, <2>3 DEF CreatePreset, VoicesInv
<1>4. ASSUME NEW p \in Presets, ReferenceLost(p) \/ ReferenceFound(p)
      PROVE  VoicesInv'
  BY <1>4 DEF ReferenceLost, ReferenceFound, VoicesInv, OwnVoices
<1>5. ASSUME NEW e \in Engines, EngineChanges(e)
      PROVE  VoicesInv'
  BY <1>5 DEF EngineChanges, VoicesInv, OwnVoices
<1>6. ASSUME NEW v \in Piper, VoiceFileChanges(v)
      PROVE  VoicesInv'
  BY <1>6 DEF VoiceFileChanges, VoicesInv, OwnVoices
<1> QED BY <1>1, <1>2, <1>3, <1>4, <1>5, <1>6 DEF NextVoices

\* What is shown is the reader's own and can do what it is chosen for.
LEMMA ShownAreAccepted == VoicesInv => ShownSettingsCanBeSaved
<1> SUFFICES ASSUME VoicesInv, NEW u \in Listeners
             PROVE  /\ Shown(u) # {}
                    /\ \A shown \in Shown(u) : Accepted(u, shown.live, shown.export, shown.fallback)
  BY DEF ShownSettingsCanBeSaved
<1> USE VoicesAssumption
<1>0. BuiltIn \subseteq Kokoro \cup Piper
  BY DEF BuiltIn, PiperListed, VoicesInv
<1>1. Existing \cap OwnVoices(u) \subseteq Options(u)
  BY <1>0 DEF Existing, OwnVoices, Options, VoicesInv
<1>2. PICK k \in Kokoro : k \in Options(u) /\ Supported(k)
  BY DEF Options, Supported, BuiltIn
<1>3. BuiltIn \subseteq {v \in Options(u) : Supported(v)} /\ PiperListed \subseteq BuiltIn
  BY DEF Options, Supported, BuiltIn
<1>4. LiveShown(u) # {} /\ LiveShown(u) \subseteq {v \in Options(u) : Supported(v)}
  <2>1. {v \in Existing \cap {saved[u].live} : Supported(v) /\ Available(v)}
            \subseteq {v \in Options(u) : Supported(v)}
    BY <1>1 DEF VoicesInv
  <2> QED BY <1>2, <1>3, <2>1 DEF LiveShown, OrElse
<1>5. ExportShown(u) # {} /\ ExportShown(u) \subseteq {v \in Options(u) : Supported(v)}
  <2>1. {v \in Existing \cap {saved[u].export} : Supported(v)}
            \subseteq {v \in Options(u) : Supported(v)}
    BY <1>1 DEF VoicesInv
  <2> QED BY <1>2, <1>3, <2>1 DEF ExportShown, OrElse
<1>6. FallbackShown(u) # {} /\ FallbackShown(u) \subseteq Options(u) \cup {NoVoice}
  <2>1. CASE saved[u].fallback = NoVoice
    BY <2>1 DEF FallbackShown
  <2>2. CASE saved[u].fallback # NoVoice
    <3>1. {v \in Existing \cap {saved[u].fallback} : Available(v)} \subseteq Options(u)
      BY <1>1, <2>2 DEF VoicesInv
    <3> QED BY <1>3, <2>2, <3>1 DEF FallbackShown, OrElse
  <2> QED BY <2>1, <2>2
<1> HIDE VoicesAssumption
<1>7. Shown(u) # {}
  <2>1. PICK l \in LiveShown(u), x \in ExportShown(u), f \in FallbackShown(u) : TRUE
    BY <1>4, <1>5, <1>6
  <2>2. [live |-> l, export |-> x, fallback |-> f] \in Shown(u)
    BY DEF Shown
  <2> QED BY <2>2
<1>8. ASSUME NEW shown \in Shown(u)
      PROVE  Accepted(u, shown.live, shown.export, shown.fallback)
  <2>1. shown.live \in LiveShown(u) /\ shown.export \in ExportShown(u) /\ shown.fallback \in FallbackShown(u)
    BY DEF Shown
  <2> QED BY <1>4, <1>5, <1>6, <2>1 DEF Accepted
<1> QED BY <1>7, <1>8

\* A reader can save what the settings show, for any readers, voices and
\* presets, whatever was lost or installed since (get_voice_settings,
\* update_voice_settings).
THEOREM SettingsCanBeSavedBack == SpecVoices => []ShownSettingsCanBeSaved
<1>1. SpecVoices => []VoicesInv
  BY VoicesInitially, VoicesPreserved, PTL DEF SpecVoices
<1> QED BY <1>1, ShownAreAccepted, PTL

(***************************************************************************)
(* AudioCache.  The audio an export has passed stays because the same      *)
(* worker evicts, and only before it claims, and because a deletion looks  *)
(* at the jobs first.                                                      *)
(***************************************************************************)
JobStates == Kinds \cup {"crossed"}
Rounds == [at: {"resting", "list", "claim"}]
              \cup [at: {"evict"}, files: SUBSET Audio, scraps: Nat, total: Nat]
              \cup [at: {"look", "synthesize"}, book: Books, chunk: Nat \ {0}, job: JobStates]

(* Nothing deletes the document of a job that was queued when nothing did, *)
(* while the job's row shows it.                                           *)
NoDeletionUnderWay ==
    /\ \A b \in Books : <<b, "queued">> \in waiting => deletions[b] = 0
    /\ Exporting /\ round.job = "queued" => deletions[round.book] = 0

CacheInv ==
    /\ cached \in [Audio -> Ages \cup {"none"}]
    /\ scraps \in [Ages -> Nat] /\ scraps["fresh"] + scraps["old"] <= MaxScraps
    /\ marker \in Ages
    /\ round \in Rounds
    /\ round.at = "evict" => round.scraps <= scraps["old"]
    /\ round.at = "synthesize" => round.chunk <= Length[round.book]
    /\ round.at = "look" => round.chunk <= Length[round.book] + 1
    /\ waiting \subseteq Books \X Kinds /\ deletions \in [Books -> 0 .. MaxDeletions]
    /\ NoDeletionUnderWay
    /\ ExportsFindTheirAudio

\* There is a number of files.
LEMMA SizeType == scraps \in [Ages -> Nat] => Size \in Nat
<1> SUFFICES ASSUME scraps \in [Ages -> Nat] PROVE Size \in Nat
  OBVIOUS
<1> DEFINE AudioOf(b) == {b} \X (1 .. Length[b])
           all == [b \in Books |-> AudioOf(b)]
           sets == {AudioOf(b) : b \in Books}
<1>1. IsFiniteSet(sets)
  <2>1. all \in Surjection(Books, sets)
    BY DEF Surjection
  <2> QED BY <2>1, CacheAssumption, FS_Surjection
<1>2. ASSUME NEW b \in Books PROVE IsFiniteSet(AudioOf(b))
  <2>1. Length[b] \in Int /\ 1 \in Int
    BY CacheAssumption
  <2>2. IsFiniteSet(1 .. Length[b])
    BY <2>1, FS_Interval
  <2>3. IsFiniteSet({b})
    BY FS_Singleton
  <2> QED BY <2>2, <2>3, FS_Product
<1>3. IsFiniteSet(Audio)
  <2>1. \A T \in sets : IsFiniteSet(T)
    BY <1>2
  <2>2. IsFiniteSet(UNION sets)
    BY <1>1, <2>1, FS_UNION
  <2> QED BY <2>2 DEF Audio
<1>4. ASSUME NEW g \in Ages PROVE Cardinality(AudioOfAge(g)) \in Nat
  <2>1. AudioOfAge(g) \in SUBSET Audio
    BY DEF AudioOfAge
  <2> QED BY <1>3, <2>1, FS_Subset, FS_CardinalityType
<1> QED BY <1>4 DEF Size, Ages

\* Nothing is cached and no round runs at first.
LEMMA CacheInitially == InitCache => CacheInv
<1> SUFFICES ASSUME InitCache PROVE CacheInv
  OBVIOUS
<1>1. /\ cached \in [Audio -> Ages \cup {"none"}] /\ scraps \in [Ages -> Nat]
      /\ scraps["fresh"] = 0 /\ scraps["old"] = 0 /\ marker \in Ages
  BY DEF InitCache, Ages
<1>2. round \in Rounds /\ round.at = "resting"
  BY DEF InitCache, Resting, Rounds
<1>3. /\ waiting = {} /\ deletions \in [Books -> 0 .. MaxDeletions]
      /\ \A b \in Books : <<b, "queued">> \in waiting => deletions[b] = 0
  BY CacheAssumption DEF InitCache
<1> QED BY <1>1, <1>2, <1>3, CacheAssumption
        DEF CacheInv, ExportsFindTheirAudio, NoDeletionUnderWay, Exporting

\* The rounds by what they do.
LEMMA RoundKinds ==
    ASSUME round \in Rounds
    PROVE  /\ round.at \in {"resting", "list", "evict", "claim", "look", "synthesize"}
           /\ round.at = "evict" => round \in [at: {"evict"}, files: SUBSET Audio, scraps: Nat, total: Nat]
           /\ round.at \in {"look", "synthesize"} =>
                  round \in [at: {"look", "synthesize"}, book: Books, chunk: Nat \ {0}, job: JobStates]
<1>1. CASE round \in [at: {"resting", "list", "claim"}]
  BY <1>1
<1>2. CASE round \in [at: {"evict"}, files: SUBSET Audio, scraps: Nat, total: Nat]
  BY <1>2
<1>3. CASE round \in [at: {"look", "synthesize"}, book: Books, chunk: Nat \ {0}, job: JobStates]
  BY <1>3
<1> QED BY <1>1, <1>2, <1>3 DEF Rounds

\* A round that has not claimed a book keeps what is asked of it.
LEMMA IdleRound ==
    ASSUME cached' \in [Audio -> Ages \cup {"none"}],
           scraps' \in [Ages -> Nat], scraps'["fresh"] + scraps'["old"] <= MaxScraps,
           marker' \in Ages, round' \in [at: {"resting", "list", "claim"}],
           waiting' \subseteq Books \X Kinds, deletions' \in [Books -> 0 .. MaxDeletions],
           \A b \in Books : <<b, "queued">> \in waiting' => deletions'[b] = 0
    PROVE  CacheInv'
BY DEF CacheInv, Rounds, ExportsFindTheirAudio, NoDeletionUnderWay, Exporting

\* Steps that leave the jobs and the deletions alone.
LEMMA JobsUnchanged ==
    ASSUME CacheInv, UNCHANGED jobVars
    PROVE  /\ waiting' \subseteq Books \X Kinds /\ deletions' \in [Books -> 0 .. MaxDeletions]
           /\ \A b \in Books : <<b, "queued">> \in waiting' => deletions'[b] = 0
BY DEF CacheInv, jobVars, NoDeletionUnderWay

\* The steps of an eviction.
LEMMA EvictionPreserves ==
    ASSUME CacheInv,
           ListFiles \/ (\E a \in Audio : EvictAudio(a)) \/ EvictScrap \/ EndEviction
    PROVE  CacheInv'
<1> USE CacheAssumption
<1>1. "fresh" \in Ages /\ "old" \in Ages /\ "fresh" # "old"
  BY DEF Ages
<1>2. /\ cached \in [Audio -> Ages \cup {"none"}]
      /\ scraps \in [Ages -> Nat] /\ scraps["fresh"] \in Nat /\ scraps["old"] \in Nat
      /\ scraps["fresh"] + scraps["old"] <= MaxScraps /\ marker \in Ages
  BY <1>1 DEF CacheInv
<1> DEFINE Jobs == /\ waiting' \subseteq Books \X Kinds /\ deletions' \in [Books -> 0 .. MaxDeletions]
                   /\ \A b \in Books : <<b, "queued">> \in waiting' => deletions'[b] = 0
<1>j. Jobs
  BY JobsUnchanged DEF ListFiles, EvictAudio, EvictScrap, EndEviction
<1>3. CASE ListFiles
  <2>1. UNCHANGED <<cached, scraps, marker>>
    BY <1>3 DEF ListFiles
  <2>2. CASE round' = [at |-> "claim"]
    BY <1>2, <1>j, <2>1, <2>2, IdleRound
  <2>3. CASE round' = [at |-> "evict", files |-> AudioOfAge("old"), scraps |-> scraps["old"],
                       total |-> Size]
    <3>1. AudioOfAge("old") \subseteq Audio
      BY DEF AudioOfAge
    <3>2. Size \in Nat
      BY <1>2, SizeType
    <3>3. round' \in [at: {"evict"}, files: SUBSET Audio, scraps: Nat, total: Nat]
      BY <1>2, <2>3, <3>1, <3>2
    <3>4. round'.at = "evict" /\ round'.scraps = scraps'["old"]
      BY <2>1, <2>3
    <3> QED BY <1>2, <1>j, <2>1, <3>3, <3>4
            DEF CacheInv, Rounds, ExportsFindTheirAudio, NoDeletionUnderWay, Exporting
  <2> QED BY <1>3, <2>2, <2>3 DEF ListFiles
<1>4. ASSUME NEW a \in Audio, EvictAudio(a) PROVE CacheInv'
  <2>1. round.at = "evict" /\ round.total > Target
    BY <1>4 DEF EvictAudio
  <2>2. round \in [at: {"evict"}, files: SUBSET Audio, scraps: Nat, total: Nat]
    BY <2>1, RoundKinds DEF CacheInv
  <2>3. /\ round' \in [at: {"evict"}, files: SUBSET Audio, scraps: Nat, total: Nat]
        /\ round'.at = "evict" /\ round'.scraps = round.scraps
    <3> DEFINE left == IF cached[a] = "none" THEN round.total ELSE round.total - 1
    <3>1. left \in Nat /\ round.files \ {a} \in SUBSET Audio
      BY <2>1, <2>2
    <3>2. round' = [round EXCEPT !.files = round.files \ {a}, !.total = left]
      BY <1>4, <2>2 DEF EvictAudio
    <3> HIDE DEF left
    <3> QED BY <2>1, <2>2, <3>1, <3>2
  <2>4. cached' \in [Audio -> Ages \cup {"none"}] /\ UNCHANGED <<scraps, marker>>
    BY <1>2, <1>4 DEF EvictAudio
  <2> QED BY <1>2, <1>j, <2>1, <2>3, <2>4
          DEF CacheInv, Rounds, ExportsFindTheirAudio, NoDeletionUnderWay, Exporting
<1>5. CASE EvictScrap
  <2>1. round.at = "evict" /\ round.total > Target /\ round.scraps > 0
    BY <1>5 DEF EvictScrap
  <2>2. round \in [at: {"evict"}, files: SUBSET Audio, scraps: Nat, total: Nat]
    BY <2>1, RoundKinds DEF CacheInv
  <2>3. /\ round' \in [at: {"evict"}, files: SUBSET Audio, scraps: Nat, total: Nat]
        /\ round'.at = "evict" /\ round'.scraps = round.scraps - 1
    <3> DEFINE left == round.total - 1
               rest == round.scraps - 1
    <3>1. left \in Nat /\ rest \in Nat
      BY <2>1, <2>2
    <3>2. round' = [round EXCEPT !.scraps = rest, !.total = left]
      BY <1>5, <2>2 DEF EvictScrap
    <3> HIDE DEF left, rest
    <3>3. round' \in [at: {"evict"}, files: SUBSET Audio, scraps: Nat, total: Nat] /\ round'.scraps = rest
      BY <2>2, <3>1, <3>2
    <3> QED BY <2>1, <2>2, <3>2, <3>3 DEF rest
  <2>4. round.scraps <= scraps["old"]
    BY <2>1 DEF CacheInv
  <2>5. /\ scraps' \in [Ages -> Nat]
        /\ scraps'["fresh"] = scraps["fresh"] /\ scraps'["old"] = scraps["old"] - 1
    BY <1>1, <1>2, <1>5, <2>1, <2>2, <2>4 DEF EvictScrap
  <2>6. UNCHANGED <<cached, marker>>
    BY <1>5 DEF EvictScrap
  <2> QED BY <1>2, <1>j, <2>2, <2>3, <2>4, <2>5, <2>6
          DEF CacheInv, Rounds, ExportsFindTheirAudio, NoDeletionUnderWay, Exporting
<1>6. CASE EndEviction
  BY <1>2, <1>j, <1>6, IdleRound DEF EndEviction
<1> QED BY <1>3, <1>4, <1>5, <1>6

\* What is carried along besides the round.
CacheAround ==
    /\ cached \in [Audio -> Ages \cup {"none"}]
    /\ scraps \in [Ages -> Nat] /\ scraps["fresh"] + scraps["old"] <= MaxScraps
    /\ marker \in Ages
    /\ waiting \subseteq Books \X Kinds /\ deletions \in [Books -> 0 .. MaxDeletions]
    /\ \A b \in Books : <<b, "queued">> \in waiting => deletions[b] = 0

\* A round that exports a book keeps what is asked of it.
LEMMA ExportRound ==
    ASSUME CacheAround',
           round' \in [at: {"look", "synthesize"}, book: Books, chunk: Nat \ {0}, job: JobStates],
           round'.at = "synthesize" => round'.chunk <= Length[round'.book],
           round'.at = "look" => round'.chunk <= Length[round'.book] + 1,
           round'.job = "queued" =>
               /\ deletions'[round'.book] = 0
               /\ \A i \in 1 .. round'.chunk - 1 : cached'[<<round'.book, i>>] # "none"
    PROVE  CacheInv'
BY DEF CacheInv, CacheAround, Rounds, ExportsFindTheirAudio, NoDeletionUnderWay, Exporting

\* What is known of an export before its step.
LEMMA ExportKnown ==
    ASSUME CacheInv, Exporting
    PROVE  /\ CacheAround
           /\ round \in [at: {"look", "synthesize"}, book: Books, chunk: Nat \ {0}, job: JobStates]
           /\ round.at = "synthesize" => round.chunk <= Length[round.book]
           /\ round.at = "look" => round.chunk <= Length[round.book] + 1
           /\ round.job = "queued" =>
                  /\ deletions[round.book] = 0
                  /\ \A i \in 1 .. round.chunk - 1 : cached[<<round.book, i>>] # "none"
<1>1. round \in [at: {"look", "synthesize"}, book: Books, chunk: Nat \ {0}, job: JobStates]
  BY RoundKinds DEF CacheInv, Exporting
<1> QED BY <1>1 DEF CacheInv, CacheAround, ExportsFindTheirAudio, NoDeletionUnderWay, Exporting

\* The steps of an export: what it passes is there when it passes it.
LEMMA ExportPreserves ==
    ASSUME CacheInv,
           \/ \E job \in Books \X Kinds : Claim(job)
           \/ Look \/ Replace \/ EndRound \/ WriteCrossesClaim
    PROVE  CacheInv'
<1> USE CacheAssumption
<1>1. CacheAround
  BY DEF CacheInv, CacheAround, NoDeletionUnderWay
<1>2. ASSUME NEW job \in Books \X Kinds, Claim(job) PROVE CacheInv'
  <2>1. /\ round' = [at |-> "look", book |-> job[1], chunk |-> 1, job |-> job[2]]
        /\ job \in waiting /\ waiting' = waiting \ {job}
        /\ UNCHANGED <<cached, scraps, marker, deletions>>
    BY <1>2 DEF Claim
  <2>2. PICK b \in Books, k \in Kinds : job = <<b, k>>
    OBVIOUS
  <2>3. /\ round' \in [at: {"look", "synthesize"}, book: Books, chunk: Nat \ {0}, job: JobStates]
        /\ round'.at = "look" /\ round'.book = b /\ round'.chunk = 1 /\ round'.job = k
    BY <2>1, <2>2 DEF JobStates
  <2>4. Length[b] \in Nat \ {0}
    OBVIOUS
  <2>5. CacheAround'
    BY <1>1, <2>1 DEF CacheAround
  <2>6. round'.job = "queued" => deletions'[round'.book] = 0
    BY <1>1, <2>1, <2>2, <2>3 DEF CacheAround
  <2> QED BY <2>3, <2>4, <2>5, <2>6, ExportRound
<1>3. CASE Look
  <2>1. /\ round.at = "look" /\ round.chunk <= Length[round.book]
        /\ UNCHANGED <<cached, scraps, marker, waiting, deletions>>
    BY <1>3 DEF Look, jobVars
  <2>2. /\ round \in [at: {"look", "synthesize"}, book: Books, chunk: Nat \ {0}, job: JobStates]
        /\ round.job = "queued" =>
               /\ deletions[round.book] = 0
               /\ \A i \in 1 .. round.chunk - 1 : cached[<<round.book, i>>] # "none"
    BY <2>1, ExportKnown DEF Exporting
  <2>3. CacheAround'
    BY <1>1, <2>1 DEF CacheAround
  <2>4. CASE cached[<<round.book, round.chunk>>] # "none"
    <3>1. round' = [round EXCEPT !.chunk = @ + 1]
      BY <1>3, <2>4 DEF Look
    <3>2. /\ round' \in [at: {"look", "synthesize"}, book: Books, chunk: Nat \ {0}, job: JobStates]
          /\ round'.at = "look" /\ round'.book = round.book /\ round'.chunk = round.chunk + 1
          /\ round'.job = round.job
      BY <2>1, <2>2, <3>1
    <3>3. ASSUME round.job = "queued", NEW i \in 1 .. round'.chunk - 1
          PROVE  cached'[<<round'.book, i>>] # "none"
      <4>1. i \in 1 .. round.chunk - 1 \/ i = round.chunk
        BY <2>2, <3>2
      <4> QED BY <2>1, <2>2, <2>4, <3>2, <3>3, <4>1
    <3>4. round'.chunk <= Length[round'.book] + 1
      BY <2>1, <2>2, <3>2
    <3> QED BY <2>1, <2>2, <2>3, <3>2, <3>3, <3>4, ExportRound
  <2>5. CASE cached[<<round.book, round.chunk>>] = "none"
    <3>1. round' = [round EXCEPT !.at = "synthesize"]
      BY <1>3, <2>5 DEF Look
    <3>2. /\ round' \in [at: {"look", "synthesize"}, book: Books, chunk: Nat \ {0}, job: JobStates]
          /\ round'.at = "synthesize" /\ round'.book = round.book /\ round'.chunk = round.chunk
          /\ round'.job = round.job
      BY <2>1, <2>2, <3>1
    <3> QED BY <2>1, <2>2, <2>3, <3>2, ExportRound
  <2> QED BY <2>4, <2>5
<1>4. CASE Replace
  <2>1. round.at = "synthesize" /\ UNCHANGED <<scraps, marker, waiting, deletions>>
    BY <1>4 DEF Replace, jobVars
  <2>2. /\ round \in [at: {"look", "synthesize"}, book: Books, chunk: Nat \ {0}, job: JobStates]
        /\ round.chunk <= Length[round.book]
        /\ round.job = "queued" =>
               /\ deletions[round.book] = 0
               /\ \A i \in 1 .. round.chunk - 1 : cached[<<round.book, i>>] # "none"
    BY <2>1, ExportKnown DEF Exporting
  <2> DEFINE a == <<round.book, round.chunk>>
  <2>4. a \in Audio
    BY <2>2 DEF Audio
  <2>5. cached' = [cached EXCEPT ![a] = "fresh"] /\ round' = [round EXCEPT !.at = "look", !.chunk = @ + 1]
    BY <1>4 DEF Replace
  <2>6. cached' \in [Audio -> Ages \cup {"none"}]
    BY <1>1, <2>5 DEF Ages, CacheAround
  <2>7. /\ round' \in [at: {"look", "synthesize"}, book: Books, chunk: Nat \ {0}, job: JobStates]
        /\ round'.at = "look" /\ round'.book = round.book /\ round'.chunk = round.chunk + 1
        /\ round'.job = round.job
    <3> DEFINE n == round.chunk + 1
    <3>1. n \in Nat \ {0}
      BY <2>2
    <3>2. round' = [round EXCEPT !.at = "look", !.chunk = n]
      BY <2>2, <2>5
    <3> HIDE DEF n
    <3>3. /\ round' \in [at: {"look", "synthesize"}, book: Books, chunk: Nat \ {0}, job: JobStates]
          /\ round'.job = round.job
      BY <2>2, <3>1, <3>2
    <3> QED BY <2>2, <3>2, <3>3 DEF n
  <2>8. ASSUME round.job = "queued", NEW i \in 1 .. round'.chunk - 1
        PROVE  cached'[<<round'.book, i>>] # "none"
    <3>1. i \in 1 .. round.chunk - 1 \/ i = round.chunk
      BY <2>2, <2>7
    <3>2. <<round.book, i>> \in Audio
      BY <2>2, <3>1 DEF Audio
    <3> QED BY <1>1, <2>2, <2>4, <2>5, <2>7, <2>8, <3>1, <3>2 DEF CacheAround
  <2>9. CacheAround' /\ round'.chunk <= Length[round'.book] + 1
    BY <1>1, <2>1, <2>2, <2>6, <2>7 DEF CacheAround
  <2> QED BY <2>1, <2>2, <2>7, <2>8, <2>9, ExportRound
<1>5. CASE EndRound
  <2>1. round' \in [at: {"resting", "list", "claim"}]
    BY <1>5 DEF EndRound, Resting
  <2> QED BY <1>1, <1>5, <2>1, IdleRound DEF EndRound, jobVars, CacheAround
<1>6. CASE WriteCrossesClaim
  <2>1. Exporting /\ round' = [round EXCEPT !.job = "crossed"]
        /\ UNCHANGED <<cached, scraps, marker, waiting, deletions>>
    BY <1>6 DEF WriteCrossesClaim, jobVars
  <2>2. /\ round \in [at: {"look", "synthesize"}, book: Books, chunk: Nat \ {0}, job: JobStates]
        /\ round.at = "synthesize" => round.chunk <= Length[round.book]
        /\ round.at = "look" => round.chunk <= Length[round.book] + 1
    BY <2>1, ExportKnown
  <2>3. /\ round' \in [at: {"look", "synthesize"}, book: Books, chunk: Nat \ {0}, job: JobStates]
        /\ round'.at = round.at /\ round'.book = round.book /\ round'.chunk = round.chunk
        /\ round'.job = "crossed"
    BY <2>1, <2>2 DEF JobStates
  <2>4. CacheAround'
    BY <1>1, <2>1 DEF CacheAround
  <2> QED BY <2>2, <2>3, <2>4, ExportRound
<1> QED BY <1>2, <1>3, <1>4, <1>5, <1>6

\* Jobs come and go, and so do deletions: one begins only while no row shows
\* a job of its document, and a job is queued as overtaken while one is under
\* way.
LEMMA JobsPreserve ==
    ASSUME CacheInv,
           \/ \E b \in Books : \/ Enqueue(b) \/ BeginDeletion(b)
                               \/ RemoveDirectories(b) \/ DeletionRemovesNothing(b)
           \/ \E job \in Books \X Kinds : Withdraw(job)
    PROVE  CacheInv'
<1> USE CacheAssumption
<1>1. /\ cached \in [Audio -> Ages \cup {"none"}] /\ round \in Rounds
      /\ scraps \in [Ages -> Nat]
      /\ scraps["fresh"] + scraps["old"] <= MaxScraps /\ marker \in Ages
      /\ round.at = "evict" => round.scraps <= scraps["old"]
      /\ round.at = "synthesize" => round.chunk <= Length[round.book]
      /\ round.at = "look" => round.chunk <= Length[round.book] + 1
      /\ waiting \subseteq Books \X Kinds /\ deletions \in [Books -> 0 .. MaxDeletions]
      /\ NoDeletionUnderWay /\ ExportsFindTheirAudio
  BY DEF CacheInv
<1>2. Exporting => /\ round.book \in Books /\ round.job \in JobStates /\ round.chunk \in Nat \ {0}
                   /\ round.chunk <= Length[round.book] + 1
  <2>1. Exporting => round \in [at: {"look", "synthesize"}, book: Books, chunk: Nat \ {0}, job: JobStates]
    BY <1>1, RoundKinds DEF Exporting
  <2> QED BY <1>1, <2>1 DEF Exporting
<1>3. ASSUME NEW b \in Books, Enqueue(b) PROVE CacheInv'
  <2> DEFINE kind == IF deletions[b] = 0 THEN "queued" ELSE "overtaken"
  <2>1. waiting' = waiting \cup {<<b, kind>>} /\ UNCHANGED <<cached, scraps, marker, round, deletions>>
    BY <1>3 DEF Enqueue
  <2>2. kind \in Kinds /\ (kind = "queued" => deletions[b] = 0)
    BY DEF Kinds
  <2> HIDE DEF kind
  <2>3. waiting' \subseteq Books \X Kinds
    BY <1>1, <2>1, <2>2
  <2>4. NoDeletionUnderWay'
    BY <1>1, <2>1, <2>2 DEF NoDeletionUnderWay, Exporting
  <2>5. ExportsFindTheirAudio'
    BY <1>1, <2>1 DEF ExportsFindTheirAudio, Exporting
  <2> QED BY <1>1, <2>1, <2>3, <2>4, <2>5 DEF CacheInv
<1>4. ASSUME NEW b \in Books, BeginDeletion(b) PROVE CacheInv'
  <2>1. /\ ~ActiveExport(b) /\ deletions[b] < MaxDeletions
        /\ deletions' = [deletions EXCEPT ![b] = @ + 1]
        /\ UNCHANGED <<cached, scraps, marker, round, waiting>>
    BY <1>4 DEF BeginDeletion
  <2>2. deletions' \in [Books -> 0 .. MaxDeletions] /\ \A c \in Books : c # b => deletions'[c] = deletions[c]
    <3>1. deletions[b] \in 0 .. MaxDeletions /\ deletions[b] + 1 \in 0 .. MaxDeletions
      BY <1>1, <2>1
    <3> QED BY <1>1, <2>1, <3>1
  <2>3. /\ <<b, "queued">> \notin waiting
        /\ ~(Exporting /\ round.book = b /\ round.job = "queued")
    BY <2>1 DEF ActiveExport, Kinds
  <2>4. NoDeletionUnderWay'
    BY <1>1, <1>2, <2>1, <2>2, <2>3 DEF NoDeletionUnderWay, Exporting
  <2>5. ExportsFindTheirAudio'
    BY <1>1, <2>1 DEF ExportsFindTheirAudio, Exporting
  <2> QED BY <1>1, <2>1, <2>2, <2>4, <2>5 DEF CacheInv
<1>5. ASSUME NEW b \in Books, RemoveDirectories(b) \/ DeletionRemovesNothing(b) PROVE CacheInv'
  <2>1. /\ deletions[b] > 0
        /\ deletions' = [deletions EXCEPT ![b] = @ - 1]
        /\ UNCHANGED <<scraps, marker, round, waiting>>
        /\ \/ cached' = [a \in Audio |-> IF a[1] = b THEN "none" ELSE cached[a]]
           \/ cached' = cached
    BY <1>5 DEF RemoveDirectories, DeletionRemovesNothing
  <2>2. /\ deletions' \in [Books -> 0 .. MaxDeletions]
        /\ \A c \in Books : deletions[c] = 0 => deletions'[c] = 0
    <3>1. deletions[b] \in 0 .. MaxDeletions /\ deletions[b] - 1 \in 0 .. MaxDeletions
      BY <1>1, <2>1
    <3> QED BY <1>1, <2>1, <3>1
  <2>3. cached' \in [Audio -> Ages \cup {"none"}]
    BY <1>1, <2>1
  <2>4. NoDeletionUnderWay'
    BY <1>1, <1>2, <2>1, <2>2 DEF NoDeletionUnderWay, Exporting
  <2>5. ASSUME Exporting, round.job = "queued", NEW i \in 1 .. round.chunk - 1
        PROVE  cached'[<<round.book, i>>] # "none"
    <3>1. cached[<<round.book, i>>] # "none" /\ deletions[round.book] = 0
      BY <1>1, <2>5 DEF ExportsFindTheirAudio, NoDeletionUnderWay
    <3>2. round.book # b
      BY <2>1, <3>1
    <3>3. <<round.book, i>> \in Audio
      <4>1. i \in 1 .. Length[round.book]
        BY <1>2, <2>5
      <4> QED BY <1>2, <2>5, <4>1 DEF Audio
    <3> QED BY <2>1, <3>1, <3>2, <3>3
  <2>6. ExportsFindTheirAudio'
    BY <2>1, <2>5 DEF ExportsFindTheirAudio, Exporting
  <2> QED BY <1>1, <2>1, <2>2, <2>3, <2>4, <2>6 DEF CacheInv
<1>6. ASSUME NEW job \in Books \X Kinds, Withdraw(job) PROVE CacheInv'
  <2>1. waiting' = waiting \ {job} /\ UNCHANGED <<cached, scraps, marker, round, deletions>>
    BY <1>6 DEF Withdraw
  <2>2. NoDeletionUnderWay' /\ ExportsFindTheirAudio'
    BY <1>1, <2>1 DEF NoDeletionUnderWay, ExportsFindTheirAudio, Exporting
  <2> QED BY <1>1, <2>1, <2>2 DEF CacheInv
<1> QED BY <1>3, <1>4, <1>5, <1>6

\* What happens beside a round: files age.
LEMMA AgingPreserves ==
    ASSUME CacheInv, (\E a \in Audio : AudioAges(a)) \/ ScrapAges \/ MarkerAges
    PROVE  CacheInv'
<1>1. /\ cached \in [Audio -> Ages \cup {"none"}] /\ round \in Rounds
      /\ scraps \in [Ages -> Nat] /\ scraps["fresh"] \in Nat /\ scraps["old"] \in Nat
      /\ scraps["fresh"] + scraps["old"] <= MaxScraps /\ marker \in Ages
      /\ round.at = "evict" => round.scraps <= scraps["old"]
      /\ round.at = "synthesize" => round.chunk <= Length[round.book]
      /\ round.at = "look" => round.chunk <= Length[round.book] + 1
      /\ waiting \subseteq Books \X Kinds /\ deletions \in [Books -> 0 .. MaxDeletions]
      /\ NoDeletionUnderWay /\ ExportsFindTheirAudio
  BY DEF CacheInv, Ages
<1>2. UNCHANGED <<round, waiting, deletions>>
  BY DEF AudioAges, ScrapAges, MarkerAges, jobVars
<1>3. NoDeletionUnderWay'
  BY <1>1, <1>2 DEF NoDeletionUnderWay, Exporting
<1>4. ASSUME NEW a \in Audio, AudioAges(a) PROVE CacheInv'
  <2>1. cached' = [cached EXCEPT ![a] = "old"] /\ UNCHANGED <<scraps, marker>>
    BY <1>4 DEF AudioAges
  <2>2. /\ cached' \in [Audio -> Ages \cup {"none"}]
        /\ \A x \in Audio : cached[x] # "none" => cached'[x] # "none"
    BY <1>1, <2>1 DEF Ages
  <2>3. ExportsFindTheirAudio'
    <3> SUFFICES ASSUME Exporting, round.job = "queued", NEW i \in 1 .. round.chunk - 1
                 PROVE  cached'[<<round.book, i>>] # "none"
      BY <1>2 DEF ExportsFindTheirAudio, Exporting
    <3>1. cached[<<round.book, i>>] # "none"
      BY <1>1 DEF ExportsFindTheirAudio
    <3> QED BY <1>1, <2>1, <3>1
  <2> QED BY <1>1, <1>2, <1>3, <2>1, <2>2, <2>3 DEF CacheInv
<1>5. CASE ScrapAges
  <2>1. scraps' = [fresh |-> scraps["fresh"] - 1, old |-> scraps["old"] + 1] /\ scraps["fresh"] > 0
    BY <1>5 DEF ScrapAges
  <2>2. UNCHANGED <<cached, marker>>
    BY <1>5 DEF ScrapAges
  <2>3. /\ scraps' \in [Ages -> Nat]
        /\ scraps'["fresh"] = scraps["fresh"] - 1 /\ scraps'["old"] = scraps["old"] + 1
    BY <1>1, <2>1 DEF Ages
  <2>4. round.at = "evict" => round.scraps \in Nat
    BY <1>1, RoundKinds
  <2>5. ExportsFindTheirAudio'
    BY <1>1, <1>2, <2>2 DEF ExportsFindTheirAudio, Exporting
  <2> QED BY <1>1, <1>2, <1>3, <2>2, <2>3, <2>4, <2>5, CacheAssumption DEF CacheInv
<1>6. CASE MarkerAges
  <2>1. UNCHANGED <<cached, scraps>> /\ marker' \in Ages
    BY <1>6 DEF MarkerAges, Ages
  <2>2. ExportsFindTheirAudio'
    BY <1>1, <1>2, <2>1 DEF ExportsFindTheirAudio, Exporting
  <2> QED BY <1>1, <1>2, <1>3, <2>1, <2>2 DEF CacheInv
<1> QED BY <1>4, <1>5, <1>6

\* Every step keeps what the export has passed.
LEMMA CachePreserved == CacheInv /\ [NextCache]_cacheVars => CacheInv'
<1> SUFFICES ASSUME CacheInv, [NextCache]_cacheVars PROVE CacheInv'
  OBVIOUS
<1>0. CacheAround
  BY DEF CacheInv, CacheAround, NoDeletionUnderWay
<1>1. CASE UNCHANGED cacheVars
  BY <1>1 DEF cacheVars, jobVars, CacheInv, ExportsFindTheirAudio, NoDeletionUnderWay, Exporting
<1>2. CASE BeginRound
  <2>1. marker' \in Ages /\ round' \in [at: {"resting", "list", "claim"}]
    BY <1>2 DEF BeginRound, Ages
  <2> QED BY <1>0, <1>2, <2>1, IdleRound DEF CacheAround, BeginRound, jobVars
<1>3. CASE Killed
  <2>1. round' \in [at: {"resting", "list", "claim"}] /\ UNCHANGED <<cached, marker, deletions>>
    BY <1>3 DEF Killed, Resting
  <2>2. scraps["fresh"] \in Nat /\ scraps["old"] \in Nat /\ scraps \in [Ages -> Nat]
    BY DEF CacheInv, Ages
  <2>3. scraps' \in [Ages -> Nat] /\ scraps'["old"] = scraps["old"]
    BY <1>3, <2>2 DEF Killed, Ages
  <2>4. scraps'["fresh"] + scraps'["old"] <= MaxScraps
    BY <1>3, <2>3 DEF Killed
  <2>5. /\ waiting' \subseteq Books \X Kinds
        /\ \A b \in Books : <<b, "queued">> \in waiting' => deletions'[b] = 0
    <3>1. CASE Exporting /\ round.job \in Kinds
      <4>1. waiting' = waiting \cup {<<round.book, round.job>>}
        BY <1>3, <3>1 DEF Killed
      <4>2. round.book \in Books /\ (round.job = "queued" => deletions[round.book] = 0)
        BY <3>1, ExportKnown
      <4> QED BY <1>0, <2>1, <3>1, <4>1, <4>2 DEF CacheAround
    <3>2. CASE ~(Exporting /\ round.job \in Kinds)
      BY <1>0, <1>3, <2>1, <3>2 DEF Killed, CacheAround
    <3> QED BY <3>1, <3>2
  <2> QED BY <1>0, <2>1, <2>3, <2>4, <2>5, IdleRound DEF CacheAround
<1>4. CASE ListFiles \/ (\E a \in Audio : EvictAudio(a)) \/ EvictScrap \/ EndEviction
  BY <1>4, EvictionPreserves
<1>5. CASE (\E job \in Books \X Kinds : Claim(job)) \/ Look \/ Replace \/ EndRound \/ WriteCrossesClaim
  BY <1>5, ExportPreserves
<1>6. CASE \/ \E b \in Books : \/ Enqueue(b) \/ BeginDeletion(b)
                               \/ RemoveDirectories(b) \/ DeletionRemovesNothing(b)
           \/ \E job \in Books \X Kinds : Withdraw(job)
  BY <1>6, JobsPreserve
<1>7. CASE (\E a \in Audio : AudioAges(a)) \/ ScrapAges \/ MarkerAges
  BY <1>7, AgingPreserves
<1> QED BY <1>1, <1>2, <1>3, <1>4, <1>5, <1>6, <1>7 DEF NextCache

\* The audio an export has passed is there when it is combined, for any
\* books, sizes and ages (_synthesize_default_chunk_audio keeps paths only),
\* and for any number of deletions between their check and their removal.
THEOREM AudioStaysUnderExports == SpecCache => []ExportsFindTheirAudio
<1>1. SpecCache => []CacheInv
  BY CacheInitially, CachePreserved, PTL DEF SpecCache
<1>2. CacheInv => ExportsFindTheirAudio
  BY DEF CacheInv
<1> QED BY <1>1, <1>2, PTL

(***************************************************************************)
(* Chunking.  The bound of a chunk needs one of what waits for its chunk,  *)
(* and that a sentence which is cut has no empty piece.                    *)
(***************************************************************************)
Bound == Largest(HardMaxWords, LongestChunk)

ChunkingInv == /\ chunks \in Seq(Nat)
               /\ ChunksStayBounded
               /\ current \in 0 .. Bound
               /\ sentences \in 0 .. MaxSentences /\ words \in Nat /\ ended \in BOOLEAN

\* The bound is a number.
LEMMA BoundType ==
    /\ Bound \in Nat /\ HardMaxWords <= Bound /\ MinWords - 1 + (HardMaxWords - 1) <= Bound
    /\ HardMaxWords \in Nat /\ MaxWords \in Nat \ {0} /\ MinWords \in Nat
    /\ MaxWords <= HardMaxWords /\ TargetWords \in Nat
BY WordsAssumption DEF Bound, Largest, LongestChunk

\* A quotient that is rounded up.
LEMMA QuotientBound ==
    ASSUME NEW n \in Nat, NEW m \in Nat \ {0}, NEW q, q = (n + m - 1) \div m
    PROVE  q \in Nat /\ q * m <= n + m - 1
<1>1. q \in Nat
  OBVIOUS
<1> QED BY <1>1

\* No piece begins behind the end.
LEMMA PieceBegins ==
    ASSUME NEW n \in Nat, NEW m \in Nat \ {0}, NEW q \in Nat, q * m <= n + m - 1, NEW i \in 1 .. q
    PROVE  /\ (i - 1) * m < n /\ (i - 1) * m \in Int /\ i * m \in Int
           /\ (i - 1) * m = i * m - m
<1>1. i * m <= q * m
  <2>1. (q - i) * m >= 0
    OBVIOUS
  <2> QED BY <2>1
<1>2. (i - 1) * m = i * m - m
  OBVIOUS
<1>3. i * m \in Int /\ q * m \in Int
  OBVIOUS
<1> QED BY <1>1, <1>2, <1>3

\* A long sentence is cut into pieces that are neither empty nor too long.
LEMMA PiecesAreBounded ==
    ASSUME NEW n \in Nat \ {0}
    PROVE  Pieces(n) \in Seq(1 .. HardMaxWords)
<1>1. CASE n <= HardMaxWords
  BY <1>1, BoundType DEF Pieces
<1>2. CASE ~(n <= HardMaxWords)
  <2> DEFINE q == (n + MaxWords - 1) \div MaxWords
             piece(i) == IF i * MaxWords <= n THEN MaxWords ELSE n - (i - 1) * MaxWords
  <2>1. q \in Nat /\ q * MaxWords <= n + MaxWords - 1
    BY BoundType, QuotientBound
  <2>2. Pieces(n) = [i \in 1 .. q |-> piece(i)]
    BY <1>2 DEF Pieces
  <2> HIDE DEF q
  <2>3. ASSUME NEW i \in 1 .. q PROVE piece(i) \in 1 .. HardMaxWords
    <3>1. /\ (i - 1) * MaxWords < n /\ (i - 1) * MaxWords \in Int /\ i * MaxWords \in Int
          /\ (i - 1) * MaxWords = i * MaxWords - MaxWords
      BY <2>1, BoundType, PieceBegins
    <3> DEFINE before == (i - 1) * MaxWords
               after == i * MaxWords
    <3>2. before < n /\ before \in Int /\ after \in Int /\ before = after - MaxWords
      BY <3>1
    <3> HIDE DEF before, after
    <3>3. (IF after <= n THEN MaxWords ELSE n - before) \in 1 .. HardMaxWords
      BY <3>2, BoundType
    <3> QED BY <3>3 DEF before, after
  <2> HIDE DEF piece
  <2>4. [i \in 1 .. q |-> piece(i)] \in [1 .. q -> 1 .. HardMaxWords]
    BY <2>3
  <2> QED BY <2>1, <2>2, <2>4
<1> QED BY <1>1, <1>2

\* Sequences of bounded chunks.
LEMMA BoundedSeqs ==
    /\ ChunkingInv <=> /\ chunks \in Seq(1 .. Bound)
                       /\ current \in 0 .. Bound
                       /\ sentences \in 0 .. MaxSentences /\ words \in Nat /\ ended \in BOOLEAN
    /\ ChunkingInv => Flushed \in Seq(1 .. Bound)
<1>1. chunks \in Seq(1 .. Bound) <=> chunks \in Seq(Nat) /\ ChunksStayBounded
  <2>1. ASSUME chunks \in Seq(1 .. Bound) PROVE chunks \in Seq(Nat) /\ ChunksStayBounded
    BY <2>1, BoundType DEF ChunksStayBounded, Bound
  <2>2. ASSUME chunks \in Seq(Nat), ChunksStayBounded PROVE chunks \in Seq(1 .. Bound)
    <3> DEFINE chunkSizes == 1 .. Bound
    <3>1. \A i \in 1 .. Len(chunks) : chunks[i] \in chunkSizes
      BY <2>2 DEF ChunksStayBounded, Bound
    <3> HIDE DEF chunkSizes
    <3>2. /\ Len(chunks) \in Nat
          /\ chunks = [i \in 1 .. Len(chunks) |-> chunks[i]]
      BY <2>2
    <3>3. [i \in 1 .. Len(chunks) |-> chunks[i]] \in Seq(chunkSizes)
      BY <3>1, <3>2
    <3> QED BY <3>2, <3>3 DEF chunkSizes
  <2> QED BY <2>1, <2>2
<1>2. ASSUME chunks \in Seq(1 .. Bound), current \in 0 .. Bound
      PROVE  Flushed \in Seq(1 .. Bound)
  <2>1. CASE current > 0
    <3>1. current \in 1 .. Bound
      BY <1>2, <2>1, BoundType
    <3>2. Append(chunks, current) \in Seq(1 .. Bound)
      BY <1>2, <3>1, AppendProperties
    <3> QED BY <2>1, <3>2 DEF Flushed
  <2>2. CASE ~(current > 0)
    BY <1>2, <2>2 DEF Flushed
  <2> QED BY <2>1, <2>2
<1> QED BY <1>1, <1>2 DEF ChunkingInv

\* Nothing was read at first.
LEMMA ChunkingInitially == InitChunking => ChunkingInv
<1> SUFFICES ASSUME InitChunking PROVE ChunkingInv
  OBVIOUS
<1>1. chunks = << >> /\ chunks \in Seq(1 .. Bound)
  BY EmptySeq DEF InitChunking
<1>2. current \in 0 .. Bound
  BY BoundType DEF InitChunking
<1>3. sentences \in 0 .. MaxSentences /\ words \in Nat
  BY WordsAssumption DEF InitChunking
<1>4. ended \in BOOLEAN
  BY DEF InitChunking
<1> QED BY <1>1, <1>2, <1>3, <1>4, BoundedSeqs

\* Sentences that are read, and the end of the section, keep the bound.
LEMMA ChunkingPreserved == ChunkingInv /\ [NextChunking]_chunkingVars => ChunkingInv'
<1> SUFFICES ASSUME ChunkingInv, [NextChunking]_chunkingVars PROVE ChunkingInv'
  OBVIOUS
<1>0. /\ chunks \in Seq(1 .. Bound) /\ Flushed \in Seq(1 .. Bound)
      /\ current \in 0 .. Bound
      /\ sentences \in 0 .. MaxSentences /\ words \in Nat /\ ended \in BOOLEAN
  BY BoundedSeqs
<1>1. ASSUME chunks' \in Seq(1 .. Bound), current' \in 0 .. Bound,
             sentences' \in 0 .. MaxSentences, words' \in Nat, ended' \in BOOLEAN
      PROVE  ChunkingInv'
  <2>1. Bound' = Bound
    BY DEF Bound, Largest, LongestChunk
  <2>2. chunks' \in Seq(Nat) /\ ChunksStayBounded'
    BY <1>1, BoundType DEF ChunksStayBounded, Bound
  <2> QED BY <1>1, <2>1, <2>2 DEF ChunkingInv
<1>2. CASE UNCHANGED chunkingVars
  BY <1>0, <1>1, <1>2 DEF chunkingVars
<1>3. CASE EndSection
  BY <1>0, <1>1, <1>3, BoundType DEF EndSection
<1>4. ASSUME NEW n \in 1 .. MaxLength, Read(n) PROVE ChunkingInv'
  <2>1. n \in Nat \ {0} /\ MaxSentences \in Nat
    BY WordsAssumption
  <2>2. sentences' \in 0 .. MaxSentences /\ words' \in Nat /\ ended' \in BOOLEAN
    BY <1>0, <1>4, <2>1 DEF Read
  <2>3. CASE ReadLong(n)
    <3>1. Pieces(n) \in Seq(1 .. Bound)
      <4>1. Pieces(n) \in Seq(1 .. HardMaxWords)
        BY <2>1, PiecesAreBounded
      <4> QED BY <4>1, BoundType
    <3>2. chunks' \in Seq(1 .. Bound) /\ current' = 0
      BY <1>0, <2>3, <3>1, ConcatProperties DEF ReadLong
    <3> QED BY <1>1, <2>2, <3>2, BoundType
  <2>4. CASE ReadSentence(n)
    <3> DEFINE joined == IF Overflows(n) THEN n ELSE current + n
               before == IF Overflows(n) THEN Flushed ELSE chunks
    <3>1. joined \in 1 .. Bound
      BY <1>0, <2>1, <2>4, BoundType, WordsAssumption DEF ReadSentence, Overflows
    <3>2. before \in Seq(1 .. Bound)
      BY <1>0
    <3>3. \/ chunks' = Append(before, joined) /\ current' = 0
          \/ chunks' = before /\ current' = joined
      BY <2>4 DEF ReadSentence
    <3> HIDE DEF joined, before
    <3>4. chunks' \in Seq(1 .. Bound)
      <4>1. Append(before, joined) \in Seq(1 .. Bound)
        BY <3>1, <3>2, AppendProperties
      <4> QED BY <3>2, <3>3, <4>1
    <3>5. current' \in 0 .. Bound
      BY <3>1, <3>3, BoundType
    <3> QED BY <1>1, <2>2, <3>4, <3>5
  <2> QED BY <1>4, <2>3, <2>4 DEF Read
<1> QED BY <1>2, <1>3, <1>4 DEF NextChunking

\* No chunk is empty or longer than MIN_CHUNK_WORDS and HARD_MAX_CHUNK_WORDS
\* allow together, for any values of the limits in their order and any
\* sentences (chunk_paragraphs).
THEOREM ChunksAreBounded == SpecChunking => []ChunksStayBounded
<1>1. SpecChunking => []ChunkingInv
  BY ChunkingInitially, ChunkingPreserved, PTL DEF SpecChunking
<1>2. ChunkingInv => ChunksStayBounded
  BY DEF ChunkingInv
<1> QED BY <1>1, <1>2, PTL

(***************************************************************************)
(* Selections.                                                             *)
(***************************************************************************)

\* Every place has its rank, and every rank its place.
LEMMA PlacesAreRanked ==
    ASSUME NEW m \in Nat, NEW places \in SUBSET (1 .. m)
    PROVE  /\ IsFiniteSet(places) /\ Cardinality(places) \in 0 .. m
           /\ \A n \in 1 .. Cardinality(places) : NthPlace(places, n) \in places
           /\ \A n, k \in 1 .. Cardinality(places) : NthPlace(places, n) = NthPlace(places, k) => n = k
           /\ \A i \in places : \E n \in 1 .. Cardinality(places) : NthPlace(places, n) = i
<1> DEFINE c == Cardinality(places)
           upTo(i) == {j \in places : j <= i}
           rank == [i \in places |-> Cardinality(upTo(i))]
<1>1. /\ IsFiniteSet(1 .. m) /\ Cardinality(1 .. m) = m
  <2>1. Cardinality(1 .. m) = IF 1 > m THEN 0 ELSE m - 1 + 1
    BY FS_Interval
  <2> QED BY <2>1, FS_Interval
<1>2. IsFiniteSet(places) /\ c \in Nat /\ c <= m
  BY <1>1, FS_Subset, FS_CardinalityType
<1>3. ASSUME NEW i \in places PROVE IsFiniteSet(upTo(i)) /\ Cardinality(upTo(i)) \in 1 .. c
  <2>1. upTo(i) \in SUBSET places /\ i \in upTo(i)
    OBVIOUS
  <2>2. IsFiniteSet(upTo(i)) /\ Cardinality(upTo(i)) <= c
    BY <1>2, <2>1, FS_Subset
  <2>3. Cardinality(upTo(i)) # 0
    BY <2>1, <2>2, FS_EmptySet
  <2>4. Cardinality(upTo(i)) \in Nat
    BY <2>2, FS_CardinalityType
  <2> QED BY <1>2, <2>2, <2>3, <2>4
<1>4. rank \in [places -> 1 .. c]
  BY <1>3
<1>5. ASSUME NEW i \in places, NEW k \in places, i < k PROVE rank[i] # rank[k]
  <2>4. i \in Nat /\ k \in Nat /\ \A j \in places : j \in Nat
    OBVIOUS
  <2>1. upTo(i) \in SUBSET upTo(k) /\ k \in upTo(k) /\ k \notin upTo(i)
    <3>1. (\A j \in places : j <= i => j <= k) /\ ~(k <= i) /\ k <= k
      BY <1>5, <2>4
    <3> QED BY <3>1
  <2>2. upTo(i) # upTo(k)
    BY <2>1
  <2>3. Cardinality(upTo(k)) # Cardinality(upTo(i))
    BY <1>3, <2>1, <2>2, FS_Subset
  <2> QED BY <2>3
<1> HIDE DEF upTo
<1>6. \A i, k \in places : rank[i] = rank[k] => i = k
  BY <1>5
<1> DEFINE r == rank
<1>7. \A i \in places : r[i] = Cardinality(upTo(i))
  OBVIOUS
<1> HIDE DEF r
<1>8. r \in Injection(places, 1 .. c)
  BY <1>4, <1>6 DEF Injection, IsInjective, r
<1>9. IsFiniteSet(1 .. c) /\ Cardinality(1 .. c) = c
  <2> HIDE DEF c
  <2>1. 1 \in Int /\ c \in Int
    BY <1>2
  <2>2. IsFiniteSet(1 .. c) /\ Cardinality(1 .. c) = IF 1 > c THEN 0 ELSE c - 1 + 1
    BY <2>1, FS_Interval
  <2> QED BY <1>2, <2>2
<1>10. r \in Surjection(places, 1 .. c)
  BY <1>8, <1>9, FS_Injection
<1>11. \A n \in 1 .. c : \E i \in places : Cardinality(upTo(i)) = n
  BY <1>7, <1>10 DEF Surjection
<1>12. \A n \in 1 .. c : NthPlace(places, n) \in places /\ Cardinality(upTo(NthPlace(places, n))) = n
  BY <1>11 DEF NthPlace, upTo
<1>13. ASSUME NEW i \in places PROVE \E n \in 1 .. c : NthPlace(places, n) = i
  <2>1. Cardinality(upTo(i)) \in 1 .. c
    BY <1>3
  <2>2. PICK n \in 1 .. c : n = Cardinality(upTo(i))
    BY <2>1
  <2>3. NthPlace(places, n) \in places /\ r[NthPlace(places, n)] = r[i]
    BY <1>7, <1>12, <2>2
  <2> QED BY <1>6, <2>3 DEF r
<1> QED BY <1>2, <1>12, <1>13

\* What is selected are the elements at the places, each once.
LEMMA SelectedProperties ==
    ASSUME NEW S, NEW s \in Seq(S), NEW places \in SUBSET (1 .. Len(s))
    PROVE  /\ Selected(s, places) \in Seq(S)
           /\ Len(Selected(s, places)) <= Len(s)
           /\ ToSet(Selected(s, places)) = {s[i] : i \in places}
           /\ IsInjective(s) => IsInjective(Selected(s, places))
<1>1. Len(s) \in Nat /\ DOMAIN s = 1 .. Len(s) /\ \A i \in 1 .. Len(s) : s[i] \in S
  OBVIOUS
<1> DEFINE c == Cardinality(places)
<1>2. /\ c \in 0 .. Len(s)
      /\ \A n \in 1 .. c : NthPlace(places, n) \in places
      /\ \A n, k \in 1 .. c : NthPlace(places, n) = NthPlace(places, k) => n = k
      /\ \A i \in places : \E n \in 1 .. c : NthPlace(places, n) = i
  BY <1>1, PlacesAreRanked
<1> HIDE DEF c
<1> DEFINE t == Selected(s, places)
<1>3. t = [n \in 1 .. c |-> s[NthPlace(places, n)]]
  BY DEF Selected, c
<1>4. t \in [1 .. c -> S]
  BY <1>1, <1>2, <1>3
<1>5. t \in Seq(S) /\ Len(t) = c /\ DOMAIN t = 1 .. c
  BY <1>2, <1>4, IsASeq, LenProperties
<1>6. ToSet(t) = {s[i] : i \in places}
  BY <1>2, <1>3, <1>5 DEF ToSet
<1>7. IsInjective(s) => IsInjective(t)
  <2>1. SUFFICES ASSUME IsInjective(s), NEW n \in 1 .. c, NEW k \in 1 .. c, t[n] = t[k]
                 PROVE  n = k
    BY <1>5 DEF IsInjective
  <2>2. s[NthPlace(places, n)] = s[NthPlace(places, k)]
    BY <1>3, <2>1
  <2>3. NthPlace(places, n) \in DOMAIN s /\ NthPlace(places, k) \in DOMAIN s
    BY <1>1, <1>2
  <2>4. NthPlace(places, n) = NthPlace(places, k)
    BY <2>1, <2>2, <2>3 DEF IsInjective
  <2> QED BY <1>2, <2>4
<1> QED BY <1>1, <1>2, <1>5, <1>6, <1>7

\* A set of numbers that is not empty has a least.
LEMMA LeastNumber ==
    ASSUME NEW T \in SUBSET Nat, T # {}
    PROVE  \E x \in T : \A y \in T : x <= y
<1>1. IsWellFoundedOn(OpToRel(<, Nat), Nat)
  BY NatLessThanWellFounded
<1>2. PICK x \in T : \A y \in T : ~ (<<y, x>> \in OpToRel(<, Nat))
  BY <1>1, WFMin
<1>3. \A y \in T : ~(y < x)
  BY <1>2 DEF OpToRel
<1> QED BY <1>3

(***************************************************************************)
(* LoginThrottle.  A request is let in while its key has fewer failures    *)
(* than the limit, and from then on it may add one: of a key, its failures *)
(* and the requests that were let in are at most one less than the limit   *)
(* and all threads.                                                        *)
(***************************************************************************)
Busy(k) == {v \in Visitors : visits[v].at \in {"verify", "record"} /\ visits[v].key = k}

AttemptsLimited ==
    \A k \in Keys : Len(attempts[k]) + Cardinality(Busy(k)) <= MaxAttempts - 1 + Cardinality(Visitors)
KeysInOrder == /\ IsInjective(order) /\ Len(order) <= MaxKeys
               /\ ToSet(order) = {k \in Keys : attempts[k] # << >>}

LimiterInv == ThrottleTypeOK /\ AttemptsLimited /\ KeysInOrder

\* The constants' types.
LEMMA LimiterConstants ==
    /\ MaxAttempts \in Nat /\ MaxAttempts >= 1 /\ MaxKeys \in Nat /\ MaxKeys >= 1
    /\ MaxLag \in Nat /\ Window \in Nat /\ Oldest \in Nat /\ MaxLag <= Oldest
    /\ IsFiniteSet(Visitors) /\ Cardinality(Visitors) \in Nat
    /\ (CHOOSE k \in Keys : TRUE) \in Keys
<1>1. /\ MaxAttempts \in Nat /\ MaxAttempts >= 1 /\ MaxKeys \in Nat /\ MaxKeys >= 1
      /\ MaxLag \in Nat /\ Window \in Nat
  BY LimiterAssumption
<1>2. Oldest \in Nat /\ MaxLag <= Oldest
  BY <1>1 DEF Oldest
<1>3. IsFiniteSet(Visitors) /\ Cardinality(Visitors) \in Nat
  BY LimiterAssumption, FS_CardinalityType
<1>4. (CHOOSE k \in Keys : TRUE) \in Keys
  BY LimiterAssumption
<1> QED BY <1>1, <1>2, <1>3, <1>4

\* The requests that were let in are among the threads.
LEMMA BusyAreVisitors ==
    /\ \A k : IsFiniteSet(Busy(k)) /\ Cardinality(Busy(k)) \in Nat /\ Cardinality(Busy(k)) <= Cardinality(Visitors)
    /\ \A k : IsFiniteSet(Busy(k)') /\ Cardinality(Busy(k)') \in Nat /\ Cardinality(Busy(k)') <= Cardinality(Visitors)
<1>1. \A S \in SUBSET Visitors : /\ IsFiniteSet(S) /\ Cardinality(S) \in Nat
                                 /\ Cardinality(S) <= Cardinality(Visitors)
  BY LimiterConstants, FS_Subset, FS_CardinalityType
<1>2. \A k : Busy(k) \in SUBSET Visitors /\ Busy(k)' \in SUBSET Visitors
  BY DEF Busy
<1> QED BY <1>1, <1>2

\* Pruning adds nothing (LoginAttemptLimiter._prune).
LEMMA PrunedProperties ==
    ASSUME NEW ages \in Seq(0 .. Oldest), NEW lag \in Nat
    PROVE  /\ Pruned(ages, lag) \in Seq(0 .. Oldest)
           /\ Len(Pruned(ages, lag)) \in Nat /\ Len(Pruned(ages, lag)) <= Len(ages)
           /\ ages = << >> => Pruned(ages, lag) = << >>
<1> DEFINE kept == {i \in 1 .. Len(ages) : ages[i] < Window + lag}
           first == CHOOSE i \in kept : \A j \in kept : i <= j
<1>1. Len(ages) \in Nat /\ \A i \in 1 .. Len(ages) : ages[i] \in 0 .. Oldest
  BY LenProperties, ElementOfSeq
<1>2. CASE kept = {}
  <2>1. Pruned(ages, lag) = << >>
    BY <1>2 DEF Pruned
  <2> QED BY <1>1, <2>1
<1>3. CASE kept # {}
  <2>1. first \in kept
    <3>1. kept \in SUBSET Nat
      BY <1>1
    <3> HIDE DEF kept
    <3>2. \E i \in kept : \A j \in kept : i <= j
      BY <1>3, <3>1, LeastNumber
    <3> QED BY <3>2
  <2>2. first \in 1 .. Len(ages) /\ Pruned(ages, lag) = SubSeq(ages, first, Len(ages))
    BY <1>3, <2>1 DEF Pruned
  <2> HIDE DEF first, kept
  <2>3. first \in Int /\ Len(ages) \in Int /\ \A i \in first .. Len(ages) : ages[i] \in 0 .. Oldest
    BY <1>1, <2>2
  <2>4. /\ SubSeq(ages, first, Len(ages)) \in Seq(0 .. Oldest)
        /\ Len(SubSeq(ages, first, Len(ages))) = IF first <= Len(ages) THEN Len(ages) - first + 1 ELSE 0
    BY <2>3, SubSeqProperties
  <2>5. Len(SubSeq(ages, first, Len(ages))) \in Nat /\ Len(SubSeq(ages, first, Len(ages))) <= Len(ages)
    BY <1>1, <2>2, <2>4
  <2>6. ages # << >>
    BY <1>1, <2>2
  <2> QED BY <2>2, <2>4, <2>5, <2>6
<1> QED BY <1>2, <1>3

\* The order after some keys have lost their failures
\* (LoginAttemptLimiter._prune_expired_keys).
LEMMA RemainingProperties ==
    ASSUME LimiterInv, NEW table \in [Keys -> Seq(0 .. Oldest)],
           \A k \in Keys : attempts[k] = << >> => table[k] = << >>
    PROVE  /\ Remaining(order, table) \in Seq(Keys)
           /\ IsInjective(Remaining(order, table))
           /\ Len(Remaining(order, table)) <= MaxKeys
           /\ ToSet(Remaining(order, table)) = {k \in Keys : table[k] # << >>}
<1> DEFINE places == {i \in DOMAIN order : table[order[i]] # << >>}
<1>1. order \in Seq(Keys) /\ IsInjective(order) /\ Len(order) \in Nat /\ Len(order) <= MaxKeys
  BY DEF LimiterInv, ThrottleTypeOK, KeysInOrder
<1>2. places \in SUBSET (1 .. Len(order)) /\ Remaining(order, table) = Selected(order, places)
  BY <1>1 DEF Remaining
<1>3. {order[i] : i \in places} = {k \in Keys : table[k] # << >>}
  <2>1. \A i \in DOMAIN order : order[i] \in Keys
    BY <1>1
  <2>2. \A k \in Keys : attempts[k] # << >> => \E i \in DOMAIN order : order[i] = k
    BY DEF LimiterInv, KeysInOrder, ToSet
  <2> QED BY <2>1, <2>2
<1> HIDE DEF places
<1>4. /\ Selected(order, places) \in Seq(Keys)
      /\ Len(Selected(order, places)) <= Len(order)
      /\ ToSet(Selected(order, places)) = {order[i] : i \in places}
      /\ IsInjective(Selected(order, places))
  BY <1>1, <1>2, SelectedProperties
<1>5. Len(Selected(order, places)) \in Nat
  BY <1>4
<1> QED BY <1>1, <1>2, <1>3, <1>4, <1>5, LimiterConstants

\* Nobody has failed at first.
LEMMA LimiterInitially == InitThrottle => LimiterInv
<1> SUFFICES ASSUME InitThrottle PROVE LimiterInv
  OBVIOUS
<1>1. attempts = [k \in Keys |-> << >>] /\ order = << >> /\ \A v \in Visitors : visits[v].at = "none"
  BY DEF InitThrottle
<1>2. ThrottleTypeOK
  <2>1. visits \in [Visitors -> Visit]
    BY LimiterConstants DEF InitThrottle, Visit
  <2> QED BY <1>1, <2>1 DEF ThrottleTypeOK
<1>3. AttemptsLimited
  <2>1. ASSUME NEW k \in Keys PROVE Len(attempts[k]) + Cardinality(Busy(k)) <= MaxAttempts - 1 + Cardinality(Visitors)
    <3>1. Len(attempts[k]) = 0
      BY <1>1
    <3>2. Busy(k) = {}
      BY <1>1 DEF Busy
    <3> QED BY <3>1, <3>2, FS_EmptySet, LimiterConstants
  <2> QED BY <2>1 DEF AttemptsLimited
<1>4. KeysInOrder
  <2>1. IsInjective(<< >>) /\ Len(<< >>) = 0 /\ ToSet(<< >>) = {}
    BY DEF IsInjective, ToSet
  <2> QED BY <1>1, <2>1, LimiterConstants DEF KeysInOrder
<1> QED BY <1>2, <1>3, <1>4 DEF LimiterInv

\* A step after which a key has no more failures, or requests that were let in.
LEMMA FewerAttempts ==
    ASSUME LimiterInv, NEW k \in Keys, Busy(k)' \subseteq Busy(k),
           Len(attempts'[k]) \in Nat, Len(attempts'[k]) <= Len(attempts[k])
    PROVE  Len(attempts'[k]) + Cardinality(Busy(k)') <= MaxAttempts - 1 + Cardinality(Visitors)
<1>1. Len(attempts[k]) + Cardinality(Busy(k)) <= MaxAttempts - 1 + Cardinality(Visitors)
  BY DEF LimiterInv, AttemptsLimited
<1>2. /\ IsFiniteSet(Busy(k)) /\ Cardinality(Busy(k)) \in Nat /\ Cardinality(Busy(k)') \in Nat
  BY BusyAreVisitors
<1>3. Busy(k)' \in SUBSET Busy(k)
  OBVIOUS
<1>4. Cardinality(Busy(k)') <= Cardinality(Busy(k))
  BY <1>2, <1>3, FS_Subset
<1>5. Len(attempts[k]) \in Nat
  BY LenProperties DEF LimiterInv, ThrottleTypeOK
<1> QED BY <1>1, <1>2, <1>4, <1>5, LimiterConstants

\* A thread that leaves is let in no more.
LEMMA LeavesStep ==
    ASSUME LimiterInv, NEW v \in Visitors, Leaves(v)
    PROVE  /\ visits' \in [Visitors -> Visit]
           /\ \A k : Busy(k)' = Busy(k) \ {v}
<1> DEFINE any == CHOOSE k \in Keys : TRUE
           gone == [visits[v] EXCEPT !.at = "none", !.lag = 0, !.key = any]
<1>1. visits \in [Visitors -> Visit] /\ visits' = [visits EXCEPT ![v] = gone]
  BY DEF Leaves, LimiterInv, ThrottleTypeOK
<1>2. gone \in Visit /\ gone.at = "none"
  <2>1. any \in Keys /\ visits[v] \in Visit /\ 0 \in 0 .. MaxLag
    BY <1>1, LimiterConstants
  <2> HIDE DEF any
  <2> QED BY <2>1 DEF Visit
<1> HIDE DEF gone
<1>3. visits' \in [Visitors -> Visit] /\ visits'[v].at = "none" /\ \A w \in Visitors : w # v => visits'[w] = visits[w]
  BY <1>1, <1>2
<1> QED BY <1>3 DEF Busy

\* The types of the failures of a key and of their number.
LEMMA AttemptTypes ==
    ASSUME LimiterInv, NEW k \in Keys
    PROVE  attempts[k] \in Seq(0 .. Oldest) /\ Len(attempts[k]) \in Nat
BY LenProperties DEF LimiterInv, ThrottleTypeOK

\* A request is let in: its key has fewer failures than the limit, and no
\* more requests than there are threads (login_route).
LEMMA AskKeeps ==
    ASSUME LimiterInv, NEW v \in Visitors, NEW k \in Keys, Ask(v, k)
    PROVE  LimiterInv'
<1> DEFINE mine == Pruned(attempts[k], 0)
           let == [at |-> "verify", key |-> k, lag |-> 0]
<1>1. /\ attempts' = [attempts EXCEPT ![k] = mine] /\ order' = Remaining(order, attempts')
      /\ visits' = [visits EXCEPT ![v] = let] /\ visits[v].at = "none" /\ ~(Len(mine) >= MaxAttempts)
  BY DEF Ask, LockedOut
<1>2. /\ mine \in Seq(0 .. Oldest) /\ Len(mine) \in Nat /\ Len(mine) <= Len(attempts[k])
      /\ attempts[k] = << >> => mine = << >>
  BY AttemptTypes, PrunedProperties
<1>3. let \in Visit /\ let.key = k
  BY LimiterConstants DEF Visit
<1> HIDE DEF mine, let
<1>4. /\ attempts' \in [Keys -> Seq(0 .. Oldest)] /\ attempts'[k] = mine
      /\ \A j \in Keys : j # k => attempts'[j] = attempts[j]
  BY <1>1, <1>2 DEF LimiterInv, ThrottleTypeOK
<1>5. visits' \in [Visitors -> Visit] /\ visits'[v] = let /\ \A w \in Visitors : w # v => visits'[w] = visits[w]
  BY <1>1, <1>3 DEF LimiterInv, ThrottleTypeOK
<1>6. /\ order' \in Seq(Keys) /\ IsInjective(order') /\ Len(order') <= MaxKeys
      /\ ToSet(order') = {j \in Keys : attempts'[j] # << >>}
  <2>1. \A j \in Keys : attempts[j] = << >> => attempts'[j] = << >>
    BY <1>2, <1>4
  <2>2. PICK table \in [Keys -> Seq(0 .. Oldest)] : table = attempts'
    BY <1>4
  <2> QED BY <1>1, <2>1, <2>2, RemainingProperties
<1>7. ASSUME NEW j \in Keys
      PROVE  Len(attempts'[j]) + Cardinality(Busy(j)') <= MaxAttempts - 1 + Cardinality(Visitors)
  <2>1. CASE j = k
    <3>1. Cardinality(Busy(j)') \in Nat /\ Cardinality(Busy(j)') <= Cardinality(Visitors)
      BY BusyAreVisitors
    <3>2. Len(attempts'[j]) = Len(mine)
      BY <1>4, <2>1
    <3> QED BY <1>1, <1>2, <3>1, <3>2, LimiterConstants
  <2>2. CASE j # k
    <3>1. Busy(j)' \subseteq Busy(j)
      BY <1>3, <1>5, <2>2 DEF Busy
    <3>2. attempts'[j] = attempts[j] /\ Len(attempts[j]) \in Nat
      BY <1>4, <2>2, AttemptTypes
    <3> QED BY <3>1, <3>2, FewerAttempts
  <2> QED BY <2>1, <2>2
<1>8. ThrottleTypeOK'
  BY <1>4, <1>5, <1>6 DEF ThrottleTypeOK, Visit, Oldest
<1> QED BY <1>6, <1>7, <1>8 DEF LimiterInv, AttemptsLimited, KeysInOrder

\* A refusal leaves at least as many failures as the limit
\* (LoginAttemptLimiter.retry_after).
LEMMA RefuseKeeps ==
    ASSUME LimiterInv, NEW k \in Keys, Refuse(k)
    PROVE  LimiterInv'
<1> DEFINE mine == Pruned(attempts[k], 0)
<1>1. /\ attempts' = [attempts EXCEPT ![k] = mine] /\ Len(mine) >= MaxAttempts
      /\ UNCHANGED <<order, visits>>
  BY DEF Refuse, LockedOut
<1>2. /\ mine \in Seq(0 .. Oldest) /\ Len(mine) \in Nat /\ Len(mine) <= Len(attempts[k])
      /\ attempts[k] = << >> => mine = << >>
  BY AttemptTypes, PrunedProperties
<1> HIDE DEF mine
<1>3. mine # << >>
  BY <1>1, LimiterConstants
<1>4. /\ attempts' \in [Keys -> Seq(0 .. Oldest)] /\ attempts'[k] = mine
      /\ \A j \in Keys : j # k => attempts'[j] = attempts[j]
  BY <1>1, <1>2 DEF LimiterInv, ThrottleTypeOK
<1>5. ThrottleTypeOK'
  BY <1>1, <1>4 DEF LimiterInv, ThrottleTypeOK, Visit, Oldest
<1>6. KeysInOrder'
  <2>1. \A j \in Keys : attempts'[j] # << >> <=> attempts[j] # << >>
    BY <1>2, <1>3, <1>4
  <2> QED BY <1>1, <2>1 DEF LimiterInv, KeysInOrder, IsInjective, ToSet
<1>7. ASSUME NEW j \in Keys
      PROVE  Len(attempts'[j]) + Cardinality(Busy(j)') <= MaxAttempts - 1 + Cardinality(Visitors)
  <2>1. Busy(j)' \subseteq Busy(j)
    BY <1>1 DEF Busy
  <2>2. Len(attempts'[j]) \in Nat /\ Len(attempts'[j]) <= Len(attempts[j])
    BY <1>2, <1>4, AttemptTypes
  <2> QED BY <2>1, <2>2, FewerAttempts
<1> QED BY <1>5, <1>6, <1>7 DEF LimiterInv, AttemptsLimited

\* A login that succeeds clears its key (LoginAttemptLimiter.clear); one
\* that fails, or ends otherwise, changes nothing yet.
LEMMA VisitKeeps ==
    ASSUME LimiterInv, NEW v \in Visitors, Succeed(v) \/ Mistake(v) \/ GiveUp(v)
    PROVE  LimiterInv'
<1>1. CASE Succeed(v)
  <2> DEFINE k == visits[v].key
  <2>1. /\ attempts' = [attempts EXCEPT ![k] = << >>] /\ order' = Remaining(order, attempts') /\ Leaves(v)
    BY <1>1 DEF Succeed
  <2>2. k \in Keys
    BY DEF LimiterInv, ThrottleTypeOK, Visit
  <2>3. /\ attempts' \in [Keys -> Seq(0 .. Oldest)]
        /\ \A j \in Keys : attempts'[j] = << >> \/ attempts'[j] = attempts[j]
    BY <2>1, <2>2 DEF LimiterInv, ThrottleTypeOK
  <2>4. /\ order' \in Seq(Keys) /\ IsInjective(order') /\ Len(order') <= MaxKeys
        /\ ToSet(order') = {j \in Keys : attempts'[j] # << >>}
    <3>1. \A j \in Keys : attempts[j] = << >> => attempts'[j] = << >>
      BY <2>3
    <3>2. PICK table \in [Keys -> Seq(0 .. Oldest)] : table = attempts'
      BY <2>3
    <3> QED BY <2>1, <3>1, <3>2, RemainingProperties
  <2>5. visits' \in [Visitors -> Visit] /\ \A j : Busy(j)' = Busy(j) \ {v}
    BY <2>1, LeavesStep
  <2>6. ASSUME NEW j \in Keys
        PROVE  Len(attempts'[j]) + Cardinality(Busy(j)') <= MaxAttempts - 1 + Cardinality(Visitors)
    <3>1. Busy(j)' \subseteq Busy(j)
      BY <2>5
    <3>2. Len(attempts'[j]) \in Nat /\ Len(attempts'[j]) <= Len(attempts[j])
      BY <2>3, AttemptTypes
    <3> QED BY <3>1, <3>2, FewerAttempts
  <2>7. ThrottleTypeOK'
    BY <2>3, <2>4, <2>5 DEF ThrottleTypeOK, Visit, Oldest
  <2> QED BY <2>4, <2>6, <2>7 DEF LimiterInv, AttemptsLimited, KeysInOrder
<1>2. CASE Mistake(v) \/ GiveUp(v)
  <2>1. UNCHANGED <<attempts, order>>
    BY <1>2 DEF Mistake, GiveUp
  <2>2. visits' \in [Visitors -> Visit] /\ \A j : Busy(j)' \subseteq Busy(j)
    <3>1. CASE Mistake(v)
      <4> DEFINE r == [visits[v] EXCEPT !.at = "record"]
      <4>1. /\ visits \in [Visitors -> Visit] /\ visits' = [visits EXCEPT ![v] = r]
            /\ visits[v].at = "verify"
        BY <3>1 DEF Mistake, LimiterInv, ThrottleTypeOK
      <4>2. r \in Visit /\ r.key = visits[v].key
        BY <4>1 DEF Visit
      <4> HIDE DEF r
      <4>3. visits' \in [Visitors -> Visit] /\ visits'[v] = r /\ \A w \in Visitors : w # v => visits'[w] = visits[w]
        BY <4>1, <4>2
      <4> QED BY <4>1, <4>2, <4>3 DEF Busy
    <3>2. CASE GiveUp(v)
      BY <3>2, LeavesStep DEF GiveUp
    <3> QED BY <1>2, <3>1, <3>2
  <2>3. ASSUME NEW j \in Keys
        PROVE  Len(attempts'[j]) + Cardinality(Busy(j)') <= MaxAttempts - 1 + Cardinality(Visitors)
    <3>1. Len(attempts'[j]) \in Nat /\ Len(attempts'[j]) <= Len(attempts[j])
      BY <2>1, AttemptTypes
    <3> QED BY <2>2, <3>1, FewerAttempts
  <2>4. ThrottleTypeOK'
    BY <2>1, <2>2 DEF LimiterInv, ThrottleTypeOK, Visit, Oldest
  <2>5. KeysInOrder'
    BY <2>1 DEF LimiterInv, KeysInOrder, IsInjective, ToSet
  <2> QED BY <2>3, <2>4, <2>5 DEF LimiterInv, AttemptsLimited
<1> QED BY <1>1, <1>2

\* Time passes: failures grow older, and none goes.
LEMMA TickKeeps == ASSUME LimiterInv, Tick PROVE LimiterInv'
<1>1. /\ \A v \in Visitors : visits[v].at = "record" => visits[v].lag < MaxLag
      /\ attempts' = [k \in Keys |-> [i \in DOMAIN attempts[k] |-> Older(attempts[k][i])]]
      /\ visits' = [v \in Visitors |-> IF visits[v].at = "record"
                                       THEN [visits[v] EXCEPT !.lag = @ + 1] ELSE visits[v]]
      /\ UNCHANGED order
  BY DEF Tick
<1>2. \A a \in 0 .. Oldest : Older(a) \in 0 .. Oldest
  BY LimiterConstants DEF Older
<1>3. ASSUME NEW k \in Keys
      PROVE  attempts'[k] \in Seq(0 .. Oldest) /\ Len(attempts'[k]) = Len(attempts[k])
  <2> DEFINE old == attempts[k]
             new == [i \in 1 .. Len(old) |-> Older(old[i])]
  <2>1. old \in Seq(0 .. Oldest) /\ Len(old) \in Nat
    BY AttemptTypes
  <2>2. attempts'[k] = new
    BY <1>1, <2>1, LenProperties
  <2> HIDE DEF old
  <2>3. new \in [1 .. Len(old) -> 0 .. Oldest]
    BY <1>2, <2>1, ElementOfSeq
  <2>4. DOMAIN new = 1 .. Len(old)
    OBVIOUS
  <2> HIDE DEF new
  <2>5. new \in Seq(0 .. Oldest) /\ Len(new) = Len(old)
    <3>1. PICK n \in Nat : n = Len(old)
      BY <2>1
    <3>2. new \in [1 .. n -> 0 .. Oldest]
      BY <2>3, <3>1
    <3> DEFINE A == 0 .. Oldest
    <3> HIDE DEF A
    <3>3. new \in Seq(A)
      <4>1. new \in [1 .. n -> A]
        BY <3>2 DEF A
      <4> QED BY <4>1
    <3> USE DEF A
    <3> QED BY <2>4, <3>1, <3>3, LenProperties
  <2> QED BY <2>2, <2>5 DEF old
<1>4. ASSUME NEW v \in Visitors
      PROVE  visits'[v] \in Visit /\ visits'[v].at = visits[v].at /\ visits'[v].key = visits[v].key
  <2>1. visits[v] \in Visit
    BY DEF LimiterInv, ThrottleTypeOK
  <2>2. CASE visits[v].at = "record"
    <3>1. visits[v].lag < MaxLag /\ visits'[v] = [visits[v] EXCEPT !.lag = @ + 1]
      BY <1>1, <2>2
    <3>2. visits[v].lag + 1 \in 0 .. MaxLag
      BY <2>1, <3>1, LimiterConstants DEF Visit
    <3> QED BY <2>1, <3>1, <3>2 DEF Visit
  <2>3. CASE visits[v].at # "record"
    BY <1>1, <2>1, <2>3
  <2> QED BY <2>2, <2>3
<1>5. ThrottleTypeOK'
  <2>1. attempts' \in [Keys -> Seq(0 .. Oldest)]
    BY <1>1, <1>3
  <2>2. visits' \in [Visitors -> Visit]
    BY <1>1, <1>4
  <2> QED BY <1>1, <2>1, <2>2 DEF LimiterInv, ThrottleTypeOK, Visit, Oldest
<1>6. \A k \in Keys : attempts'[k] = << >> <=> attempts[k] = << >>
  BY <1>3, AttemptTypes, EmptySeq
<1>7. KeysInOrder'
  BY <1>1, <1>6 DEF LimiterInv, KeysInOrder, IsInjective, ToSet
<1>8. ASSUME NEW k \in Keys
      PROVE  Len(attempts'[k]) + Cardinality(Busy(k)') <= MaxAttempts - 1 + Cardinality(Visitors)
  <2>1. Busy(k)' \subseteq Busy(k)
    BY <1>4 DEF Busy
  <2>2. Len(attempts'[k]) \in Nat /\ Len(attempts'[k]) <= Len(attempts[k])
    BY <1>3, AttemptTypes
  <2> QED BY <2>1, <2>2, FewerAttempts
<1> QED BY <1>5, <1>7, <1>8 DEF LimiterInv, AttemptsLimited

\* The end of a sequence without repetition has what its beginning has not.
LEMMA EndAfterBeginning ==
    ASSUME NEW S, NEW s \in Seq(S), IsInjective(s), NEW n \in 0 .. Len(s)
    PROVE  /\ SubSeq(s, n + 1, Len(s)) \in Seq(S) /\ IsInjective(SubSeq(s, n + 1, Len(s)))
           /\ Len(SubSeq(s, n + 1, Len(s))) = Len(s) - n
           /\ ToSet(SubSeq(s, n + 1, Len(s))) = ToSet(s) \ ToSet(SubSeq(s, 1, n))
<1> DEFINE first == SubSeq(s, 1, n)
           rest == SubSeq(s, n + 1, Len(s))
<1>1. Len(s) \in Nat /\ n \in Nat /\ n <= Len(s) /\ DOMAIN s = 1 .. Len(s)
  BY LenProperties
<1>2. \A i \in 1 .. Len(s) : s[i] \in S
  BY ElementOfSeq
<1>3. /\ first \in Seq(S) /\ Len(first) = n /\ \A i \in 1 .. n : first[i] = s[i]
  <2>1. 1 \in Int /\ n \in Int /\ \A i \in 1 .. n : s[i] \in S
    BY <1>1, <1>2
  <2>2. /\ first \in Seq(S) /\ Len(first) = IF 1 <= n THEN n - 1 + 1 ELSE 0
        /\ \A i \in 1 .. n - 1 + 1 : first[i] = s[1 + i - 1]
    BY <2>1, SubSeqProperties
  <2> HIDE DEF first
  <2> QED BY <1>1, <2>2
<1>4. /\ rest \in Seq(S) /\ Len(rest) = Len(s) - n /\ \A i \in 1 .. Len(s) - n : rest[i] = s[n + i]
  <2>1. n + 1 \in Int /\ Len(s) \in Int /\ \A i \in n + 1 .. Len(s) : s[i] \in S
    BY <1>1, <1>2
  <2>2. /\ rest \in Seq(S) /\ Len(rest) = IF n + 1 <= Len(s) THEN Len(s) - (n + 1) + 1 ELSE 0
        /\ \A i \in 1 .. Len(s) - (n + 1) + 1 : rest[i] = s[n + 1 + i - 1]
    BY <2>1, SubSeqProperties
  <2> HIDE DEF rest
  <2>3. Len(s) - (n + 1) + 1 = Len(s) - n /\ (n + 1 <= Len(s) \/ Len(s) - n = 0)
    <3>1. PICK m \in Nat : m = Len(s)
      BY <1>1
    <3>2. n <= m
      BY <1>1, <3>1
    <3>3. m - (n + 1) + 1 = m - n /\ (n + 1 <= m \/ m - n = 0)
      BY <1>1, <3>2
    <3> QED BY <3>1, <3>3
  <2>4. \A i \in 1 .. Len(s) - n : rest[i] = s[n + 1 + i - 1]
    BY <2>2, <2>3
  <2>5. \A i \in 1 .. Len(s) - n : n + 1 + i - 1 = n + i
    BY <1>1
  <2>6. Len(rest) = Len(s) - n
    BY <1>1, <2>2, <2>3
  <2> QED BY <2>2, <2>4, <2>5, <2>6
<1> HIDE DEF first, rest
<1>5. DOMAIN first = 1 .. n /\ DOMAIN rest = 1 .. Len(s) - n
  BY <1>3, <1>4, LenProperties
<1>6. IsInjective(rest)
  <2>1. SUFFICES ASSUME NEW i \in 1 .. Len(s) - n, NEW j \in 1 .. Len(s) - n, rest[i] = rest[j] PROVE i = j
    BY <1>5 DEF IsInjective
  <2>2. n + i \in 1 .. Len(s) /\ n + j \in 1 .. Len(s) /\ s[n + i] = s[n + j]
    BY <1>1, <1>4, <2>1
  <2>3. n + i = n + j
    BY <1>1, <2>2 DEF IsInjective
  <2> QED BY <1>1, <2>3
<1>7. ToSet(rest) = ToSet(s) \ ToSet(first)
  <2>1. ASSUME NEW x \in ToSet(rest) PROVE x \in ToSet(s) /\ x \notin ToSet(first)
    <3>1. PICK i \in 1 .. Len(s) - n : x = s[n + i]
      BY <1>4, <1>5, <2>1 DEF ToSet
    <3>2. n + i \in 1 .. Len(s) /\ ~(n + i \in 1 .. n)
      BY <1>1
    <3>3. \A j \in 1 .. n : first[j] # x
      <4>1. \A j \in 1 .. n : j \in 1 .. Len(s) /\ j # n + i
        BY <1>1, <3>2
      <4> QED BY <1>1, <1>3, <3>1, <3>2, <4>1 DEF IsInjective
    <3> QED BY <1>1, <1>5, <3>1, <3>2, <3>3 DEF ToSet
  <2>2. ASSUME NEW x \in ToSet(s), x \notin ToSet(first) PROVE x \in ToSet(rest)
    <3>1. PICK i \in 1 .. Len(s) : x = s[i]
      BY <1>1 DEF ToSet
    <3>2. i \notin 1 .. n
      BY <1>3, <1>5, <2>2, <3>1 DEF ToSet
    <3>3. i - n \in 1 .. Len(s) - n /\ n + (i - n) = i
      BY <1>1, <3>2
    <3>4. rest[i - n] = x
      BY <1>4, <3>1, <3>3
    <3> QED BY <1>5, <3>3, <3>4 DEF ToSet
  <2> QED BY <2>1, <2>2
<1> QED BY <1>4, <1>6, <1>7 DEF first, rest

\* A key is put behind those that are there.
LEMMA PutBehind ==
    ASSUME NEW S, NEW s \in Seq(S), IsInjective(s), NEW x \in S, x \notin ToSet(s)
    PROVE  /\ s \o <<x>> \in Seq(S) /\ IsInjective(s \o <<x>>) /\ Len(s \o <<x>>) = Len(s) + 1
           /\ ToSet(s \o <<x>>) = ToSet(s) \cup {x}
<1> DEFINE t == s \o <<x>>
<1>1. t = Append(s, x)
  BY AppendIsConcat
<1>2. Len(s) \in Nat /\ DOMAIN s = 1 .. Len(s)
  BY LenProperties
<1>3. /\ t \in Seq(S) /\ Len(t) = Len(s) + 1 /\ t[Len(s) + 1] = x
      /\ \A i \in 1 .. Len(s) : t[i] = s[i]
  BY <1>1, AppendProperties
<1> HIDE DEF t
<1>4. DOMAIN t = 1 .. Len(s) + 1
  BY <1>3, LenProperties
<1>5. \A i \in 1 .. Len(s) : s[i] # x
  BY <1>2 DEF ToSet
<1>6. \A i \in 1 .. Len(s) + 1 : i \in 1 .. Len(s) \/ i = Len(s) + 1
  BY <1>2
<1>7. IsInjective(t)
  BY <1>2, <1>3, <1>4, <1>5, <1>6 DEF IsInjective
<1>8. ToSet(t) = ToSet(s) \cup {x}
  <2>1. 1 .. Len(s) \subseteq 1 .. Len(s) + 1 /\ Len(s) + 1 \in 1 .. Len(s) + 1
    BY <1>2
  <2> QED BY <1>2, <1>3, <1>4, <1>6, <2>1 DEF ToSet
<1> QED BY <1>3, <1>7, <1>8 DEF t

\* A failure is recorded: one attempt more, of a request less that was let
\* in; the table is pruned, and what was inserted first evicted, when a key
\* is new to it (LoginAttemptLimiter.record_failure).
LEMMA RecordKeeps ==
    ASSUME LimiterInv, NEW v \in Visitors, Record(v)
    PROVE  LimiterInv'
<1> DEFINE k == visits[v].key
           lag == visits[v].lag
           mine == Pruned(attempts[k], lag)
           table == [j \in Keys |-> IF mine = << >> \/ j = k THEN Pruned(attempts[j], lag)
                                    ELSE attempts[j]]
           keys == Remaining(order, table)
           excess == IF mine = << >> /\ Len(keys) >= MaxKeys THEN Len(keys) - MaxKeys + 1 ELSE 0
           evicted == ToSet(SubSeq(keys, 1, excess))
           rest == SubSeq(keys, excess + 1, Len(keys))
<1>1. /\ visits[v].at = "record"
      /\ attempts' = [j \in Keys |-> CASE j = k -> Append(mine, lag)
                                       [] j \in evicted -> << >>
                                       [] OTHER -> table[j]]
      /\ order' = rest \o (IF mine = << >> THEN <<k>> ELSE << >>)
      /\ Leaves(v)
  BY DEF Record
<1>2. k \in Keys /\ lag \in 0 .. MaxLag
  BY DEF LimiterInv, ThrottleTypeOK, Visit
<1>3. lag \in Nat /\ lag \in 0 .. Oldest
  BY <1>2, LimiterConstants
<1> HIDE DEF lag
<1>4. \A j \in Keys : /\ Pruned(attempts[j], lag) \in Seq(0 .. Oldest)
                      /\ Len(Pruned(attempts[j], lag)) <= Len(attempts[j])
                      /\ attempts[j] = << >> => Pruned(attempts[j], lag) = << >>
  BY <1>3, AttemptTypes, PrunedProperties
<1>5. /\ table \in [Keys -> Seq(0 .. Oldest)] /\ table[k] = mine
      /\ \A j \in Keys : /\ Len(table[j]) <= Len(attempts[j])
                         /\ attempts[j] = << >> => table[j] = << >>
  <2>1. \A j \in Keys : attempts[j] \in Seq(0 .. Oldest) /\ Len(attempts[j]) <= Len(attempts[j])
    BY AttemptTypes
  <2> QED BY <1>2, <1>4, <2>1
<1>6. mine \in Seq(0 .. Oldest)
  BY <1>2, <1>4
<1> HIDE DEF k, mine, table
<1>7. /\ keys \in Seq(Keys) /\ IsInjective(keys) /\ Len(keys) <= MaxKeys /\ Len(keys) \in Nat
      /\ ToSet(keys) = {j \in Keys : table[j] # << >>}
  <2>1. PICK same \in [Keys -> Seq(0 .. Oldest)] : same = table
    BY <1>5
  <2>2. \A j \in Keys : attempts[j] = << >> => same[j] = << >>
    BY <1>5, <2>1
  <2>3. /\ Remaining(order, same) \in Seq(Keys) /\ IsInjective(Remaining(order, same))
        /\ Len(Remaining(order, same)) <= MaxKeys
        /\ ToSet(Remaining(order, same)) = {j \in Keys : same[j] # << >>}
    BY <2>2, RemainingProperties
  <2> QED BY <2>1, <2>3, LenProperties
<1> HIDE DEF keys
<1>8. /\ excess \in 0 .. Len(keys)
      /\ mine = << >> => Len(keys) - excess + 1 <= MaxKeys
      /\ mine # << >> => excess = 0
  BY <1>7, LimiterConstants
<1> HIDE DEF excess
<1>9. /\ rest \in Seq(Keys) /\ IsInjective(rest) /\ Len(rest) = Len(keys) - excess
      /\ ToSet(rest) = ToSet(keys) \ evicted
  BY <1>7, <1>8, EndAfterBeginning
<1>10. mine # << >> => evicted = {}
  <2>1. ASSUME mine # << >> PROVE evicted = {}
    <3>1. SubSeq(keys, 1, 0) = << >>
      BY SubSeqEmpty
    <3>2. excess = 0
      BY <1>8, <2>1
    <3>3. ToSet(<< >>) = {}
      BY DEF ToSet
    <3> QED BY <3>1, <3>2, <3>3
  <2> QED BY <2>1
<1>11. k \notin evicted /\ (mine = << >> => k \notin ToSet(keys)) /\ evicted \subseteq ToSet(keys)
  <2>1. mine = << >> => k \notin ToSet(keys)
    BY <1>5, <1>7
  <2>2. evicted \subseteq ToSet(keys)
    <3>1. DOMAIN keys = 1 .. Len(keys) /\ 1 \in Int /\ excess \in Int /\ \A i \in 1 .. excess : keys[i] \in Keys /\ i \in 1 .. Len(keys)
      BY <1>7, <1>8, LenProperties, ElementOfSeq
    <3>2. /\ SubSeq(keys, 1, excess) \in Seq(Keys)
          /\ Len(SubSeq(keys, 1, excess)) = IF 1 <= excess THEN excess - 1 + 1 ELSE 0
          /\ \A i \in 1 .. excess - 1 + 1 : SubSeq(keys, 1, excess)[i] = keys[1 + i - 1]
      BY <3>1, SubSeqProperties
    <3>3. DOMAIN SubSeq(keys, 1, excess) = 1 .. excess
      BY <1>8, <3>2, LenProperties
    <3>4. \A i \in 1 .. excess : SubSeq(keys, 1, excess)[i] = keys[i]
      BY <1>8, <3>2
    <3> QED BY <3>1, <3>3, <3>4 DEF ToSet
  <2> QED BY <1>10, <2>1, <2>2
<1> HIDE DEF rest, evicted
<1>12. Append(mine, lag) \in Seq(0 .. Oldest) /\ Append(mine, lag) # << >> /\ Len(Append(mine, lag)) = Len(mine) + 1
  <2> DEFINE A == 0 .. Oldest
  <2>1. lag \in A /\ mine \in Seq(A)
    BY <1>3, <1>6
  <2> HIDE DEF A
  <2>2. PICK one \in A : one = lag
    BY <2>1
  <2>3. PICK past \in Seq(A) : past = mine
    BY <2>1
  <2>4. /\ Append(past, one) \in Seq(A) /\ Append(past, one) # << >>
        /\ Len(Append(past, one)) = Len(past) + 1
    BY AppendProperties
  <2> QED BY <2>2, <2>3, <2>4 DEF A
<1>13. /\ attempts' \in [Keys -> Seq(0 .. Oldest)]
       /\ attempts'[k] = Append(mine, lag)
       /\ \A j \in Keys : j # k => attempts'[j] = IF j \in evicted THEN << >> ELSE table[j]
  <2>1. \A j \in Keys : attempts'[j] = CASE j = k -> Append(mine, lag)
                                         [] j \in evicted -> << >>
                                         [] OTHER -> table[j]
    BY <1>1
  <2>2. attempts'[k] = Append(mine, lag)
    <3>1. k \in Keys
      BY <1>2 DEF k
    <3>2. (CASE k = k -> Append(mine, lag) [] k \in evicted -> << >> [] OTHER -> table[k]) = Append(mine, lag)
      BY <1>11
    <3> QED BY <2>1, <3>1, <3>2
  <2>3. \A j \in Keys : j # k => attempts'[j] = IF j \in evicted THEN << >> ELSE table[j]
    BY <2>1
  <2>4. ASSUME NEW j \in Keys PROVE attempts'[j] \in Seq(0 .. Oldest)
    <3>1. CASE j = k
      BY <1>12, <2>2, <3>1
    <3>2. CASE j # k /\ j \in evicted
      <4>1. attempts'[j] = << >>
        BY <2>3, <3>2
      <4> QED BY <4>1, EmptySeq
    <3>3. CASE j # k /\ j \notin evicted
      <4>1. attempts'[j] = table[j]
        BY <2>3, <3>3
      <4> QED BY <1>5, <4>1
    <3> QED BY <3>1, <3>2, <3>3
  <2>5. attempts' = [j \in Keys |-> attempts'[j]]
    <3> DEFINE h == [j \in Keys |-> CASE j = k -> Append(mine, lag)
                                      [] j \in evicted -> << >>
                                      [] OTHER -> table[j]]
    <3>1. h = [j \in Keys |-> h[j]]
      OBVIOUS
    <3>2. attempts' = h
      BY <1>1
    <3> HIDE DEF h
    <3> QED BY <3>1, <3>2
  <2>6. attempts' \in [Keys -> Seq(0 .. Oldest)]
    BY <2>4, <2>5
  <2> QED BY <2>2, <2>3, <2>6
<1>14. /\ order' \in Seq(Keys) /\ IsInjective(order') /\ Len(order') <= MaxKeys
       /\ ToSet(order') = {j \in Keys : attempts'[j] # << >>}
  <2>1. CASE mine = << >>
    <3>1. order' = rest \o <<k>> /\ k \notin ToSet(rest)
      BY <1>1, <1>9, <1>11, <2>1
    <3>2. /\ order' \in Seq(Keys) /\ IsInjective(order') /\ Len(order') = Len(rest) + 1
          /\ ToSet(order') = ToSet(rest) \cup {k}
      BY <1>2, <1>9, <3>1, PutBehind
    <3>3. Len(order') <= MaxKeys
      BY <1>8, <1>9, <2>1, <3>2
    <3>4. ToSet(rest) \cup {k} = {j \in Keys : attempts'[j] # << >>}
      BY <1>2, <1>7, <1>9, <1>11, <1>12, <1>13, <2>1
    <3> QED BY <3>2, <3>3, <3>4
  <2>2. CASE mine # << >>
    <3>1. order' = rest /\ evicted = {}
      BY <1>1, <1>9, <1>10, <2>2, ConcatEmptySeq
    <3>2. ToSet(rest) = {j \in Keys : attempts'[j] # << >>}
      <4>1. \A j \in Keys : table[j] # << >> <=> attempts'[j] # << >>
        BY <1>5, <1>12, <1>13, <2>2, <3>1
      <4> QED BY <1>7, <1>9, <3>1, <4>1
    <3>3. Len(rest) <= MaxKeys
      BY <1>7, <1>8, <1>9, <2>2, LimiterConstants
    <3> QED BY <1>9, <3>1, <3>2, <3>3
  <2> QED BY <2>1, <2>2
<1>15. visits' \in [Visitors -> Visit] /\ \A j : Busy(j)' = Busy(j) \ {v}
  BY <1>1, LeavesStep
<1>16. ASSUME NEW j \in Keys
       PROVE  Len(attempts'[j]) + Cardinality(Busy(j)') <= MaxAttempts - 1 + Cardinality(Visitors)
  <2>1. CASE j = k
    <3>1. Len(attempts[j]) + Cardinality(Busy(j)) <= MaxAttempts - 1 + Cardinality(Visitors)
      BY DEF LimiterInv, AttemptsLimited
    <3>2. IsFiniteSet(Busy(j)) /\ Cardinality(Busy(j)) \in Nat /\ v \in Busy(j)
      BY <1>1, <2>1, BusyAreVisitors DEF Busy, k
    <3>3. Cardinality(Busy(j) \ {v}) = Cardinality(Busy(j)) - 1
      BY <3>2, FS_RemoveElement
    <3>4. Len(attempts'[j]) = Len(mine) + 1 /\ Len(mine) \in Nat /\ Len(mine) <= Len(attempts[j])
      BY <1>5, <1>6, <1>12, <1>13, <2>1, LenProperties
    <3>5. Len(attempts[j]) \in Nat
      BY AttemptTypes
    <3>6. Cardinality(Busy(j)') = Cardinality(Busy(j)) - 1
      BY <1>15, <3>3
    <3> QED BY <3>1, <3>2, <3>4, <3>5, <3>6, LimiterConstants
  <2>2. CASE j # k
    <3>1. Busy(j)' \subseteq Busy(j)
      BY <1>15
    <3>2. attempts'[j] = << >> \/ attempts'[j] = table[j]
      BY <1>13, <2>2
    <3>3. Len(attempts'[j]) \in Nat /\ Len(attempts'[j]) <= Len(attempts[j])
      <4>1. Len(<< >>) = 0 /\ Len(attempts[j]) \in Nat /\ Len(table[j]) <= Len(attempts[j])
        BY <1>5, AttemptTypes
      <4>2. Len(table[j]) \in Nat
        BY <1>5, LenProperties
      <4> QED BY <3>2, <4>1, <4>2
    <3> QED BY <3>1, <3>3, FewerAttempts
  <2> QED BY <2>1, <2>2
<1>17. ThrottleTypeOK'
  BY <1>13, <1>14, <1>15 DEF ThrottleTypeOK, Visit, Oldest
<1> QED BY <1>14, <1>16, <1>17 DEF LimiterInv, AttemptsLimited, KeysInOrder

\* Every step keeps it.
LEMMA LimiterPreserved == LimiterInv /\ [NextThrottle]_throttleVars => LimiterInv'
<1> SUFFICES ASSUME LimiterInv, [NextThrottle]_throttleVars PROVE LimiterInv'
  OBVIOUS
<1>1. CASE UNCHANGED throttleVars
  BY <1>1 DEF throttleVars, LimiterInv, ThrottleTypeOK, AttemptsLimited, KeysInOrder, Busy, IsInjective, ToSet,
              Visit, Oldest
<1>2. ASSUME NEW v \in Visitors, VisitorStep(v) PROVE LimiterInv'
  BY <1>2, AskKeeps, VisitKeeps, RecordKeeps DEF VisitorStep
<1> QED BY <1>1, <1>2, RefuseKeeps, TickKeeps DEF NextThrottle

\* The failures of a key and the keys of the table stay bounded, for any
\* number of threads and of usernames that are tried (record_failure).
THEOREM LimiterIsBounded == SpecThrottle => []LimiterStaysBounded
<1>1. LimiterInv => LimiterStaysBounded
  <2> SUFFICES ASSUME LimiterInv, NEW k \in Keys
               PROVE  Len(attempts[k]) <= MaxAttempts - 1 + Cardinality(Visitors)
    BY DEF LimiterInv, KeysInOrder, LimiterStaysBounded
  <2>1. Len(attempts[k]) + Cardinality(Busy(k)) <= MaxAttempts - 1 + Cardinality(Visitors)
    BY DEF LimiterInv, AttemptsLimited
  <2> QED BY <2>1, AttemptTypes, BusyAreVisitors, LimiterConstants
<1> QED BY <1>1, LimiterInitially, LimiterPreserved, PTL DEF SpecThrottle

(***************************************************************************)
(* Schema.  As long as nothing disturbs the upgrades there is one start at *)
(* a time, the database is at the revision it has read, and of a migration *)
(* what is left to do is not there.                                        *)
(***************************************************************************)
Statements == {Create(t) : t \in ToSet(Tables)} \cup {Add(c[1], c[2]) : c \in Columns} \cup {Seed}
Stages == {"down", "upgrade", "migrate", "begin", "create", "alter", "seed", "up"}
Start == [at : Stages, todo : Seq(Statements), revision : 0 .. Newest]
Disturbed == history \cap {"direct", "overlap", "interrupted"} # {}
Migrating == \E p \in Starters : starts[p].at = "migrate"
Does(n) == ToSet(Migrations[n].does)

SchemaShape == /\ tables \subseteq ToSet(Tables) /\ columns \subseteq Columns /\ seeded \in BOOLEAN
               /\ revision \in 0 .. Newest
               /\ starts \in [Starters -> Start]
               /\ history \subseteq {"direct", "upgrade", "overlap", "interrupted", "failed"}
               /\ \A p \in Starters :
                    /\ starts[p].at = "migrate" => starts[p].revision < Newest
                    /\ starts[p].at \notin {"migrate", "create", "alter", "seed"} => starts[p].todo = << >>

OneAtATime == \A p, q \in Starters : Starting(p) /\ Starting(q) => p = q

InStep == \A p \in Starters :
    /\ starts[p].at \in {"upgrade", "migrate"} => starts[p].revision = revision
    /\ starts[p].at \in {"begin", "create", "alter", "seed"} => revision = Newest

StillToDo == \A p \in Starters : starts[p].at = "migrate" =>
    /\ ToSet(starts[p].todo) \subseteq Does(revision + 1)
    /\ IsInjective(starts[p].todo)
    /\ \A s \in ToSet(starts[p].todo) : ~Present(s)

CreatedLast ==
    /\ "users" \in tables /\ revision = 0 => Migrating
    /\ tables \cap ToSet(Core) # {} /\ revision < Newest => revision + 1 = Newest /\ Migrating

Orderly == "failed" \notin history /\ OneAtATime /\ InStep /\ StillToDo /\ CreatedLast

SchemaInv == SchemaShape /\ (~Disturbed => Orderly)

\* The elements of two sequences one after the other.
LEMMA ElementsOfBoth ==
    ASSUME NEW S, NEW s \in Seq(S), NEW t \in Seq(S)
    PROVE  s \o t \in Seq(S) /\ ToSet(s \o t) = ToSet(s) \cup ToSet(t)
<1> DEFINE u == s \o t
<1>1. /\ Len(s) \in Nat /\ Len(t) \in Nat /\ DOMAIN s = 1 .. Len(s) /\ DOMAIN t = 1 .. Len(t)
  BY LenProperties
<1>2. /\ u \in Seq(S) /\ Len(u) = Len(s) + Len(t)
      /\ \A i \in 1 .. Len(s) + Len(t) : u[i] = IF i <= Len(s) THEN s[i] ELSE t[i - Len(s)]
  BY ConcatProperties
<1>3. DOMAIN u = 1 .. Len(s) + Len(t)
  BY <1>2, LenProperties
<1> HIDE DEF u
<1>4. ASSUME NEW x \in ToSet(u) PROVE x \in ToSet(s) \cup ToSet(t)
  <2>1. PICK i \in 1 .. Len(s) + Len(t) : x = u[i]
    BY <1>3 DEF ToSet
  <2>2. CASE i <= Len(s)
    <3>1. i \in DOMAIN s /\ x = s[i]
      BY <1>1, <1>2, <2>1, <2>2
    <3> QED BY <3>1 DEF ToSet
  <2>3. CASE ~(i <= Len(s))
    <3>1. i - Len(s) \in DOMAIN t
      BY <1>1, <2>3
    <3>2. x = t[i - Len(s)]
      BY <1>2, <2>1, <2>3
    <3> QED BY <3>1, <3>2 DEF ToSet
  <2> QED BY <2>2, <2>3
<1>5. ASSUME NEW x \in ToSet(s) PROVE x \in ToSet(u)
  <2>1. PICK i \in 1 .. Len(s) : x = s[i]
    BY <1>1 DEF ToSet
  <2>2. i \in 1 .. Len(s) + Len(t) /\ i <= Len(s)
    BY <1>1
  <2> QED BY <1>2, <1>3, <2>1, <2>2 DEF ToSet
<1>6. ASSUME NEW x \in ToSet(t) PROVE x \in ToSet(u)
  <2>1. PICK i \in 1 .. Len(t) : x = t[i]
    BY <1>1 DEF ToSet
  <2>2. Len(s) + i \in 1 .. Len(s) + Len(t) /\ ~(Len(s) + i <= Len(s)) /\ Len(s) + i - Len(s) = i
    <3>1. \A m, l \in Nat : \A j \in 1 .. l : m + j \in 1 .. m + l /\ ~(m + j <= m) /\ m + j - m = j
      OBVIOUS
    <3> QED BY <1>1, <3>1
  <2>3. u[Len(s) + i] = t[Len(s) + i - Len(s)]
    BY <1>2, <2>2
  <2>4. u[Len(s) + i] = x
    BY <2>1, <2>2, <2>3
  <2> QED BY <1>3, <2>2, <2>4 DEF ToSet
<1> QED BY <1>2, <1>4, <1>5, <1>6 DEF u

\* A sequence is over the set of its elements.
LEMMA OverItsElements ==
    ASSUME NEW S, NEW s \in Seq(S), NEW T, ToSet(s) \subseteq T
    PROVE  s \in Seq(T)
<1>1. PICK n \in Nat : n = Len(s) /\ DOMAIN s = 1 .. n /\ s \in [1 .. n -> S]
  BY LenProperties
<1>2. \A i \in 1 .. n : s[i] \in T
  BY <1>1 DEF ToSet
<1>3. s \in [1 .. n -> T]
  BY <1>1, <1>2
<1> QED BY <1>3, IsASeq

\* Sequences of one, two and four elements.
LEMMA OneElement == ASSUME NEW S, NEW a \in S
                    PROVE  <<a>> \in Seq(S) /\ ToSet(<<a>>) = {a} /\ IsInjective(<<a>>)
<1>1. <<a>> \in Seq(S) /\ DOMAIN <<a>> = 1 .. 1 /\ <<a>>[1] = a
  OBVIOUS
<1>2. \A i \in 1 .. 1 : i = 1
  OBVIOUS
<1> QED BY <1>1, <1>2 DEF ToSet, IsInjective

LEMMA TwoElements == ASSUME NEW S, NEW a \in S, NEW b \in S
                     PROVE  /\ <<a, b>> \in Seq(S) /\ ToSet(<<a, b>>) = {a, b}
                            /\ a # b => IsInjective(<<a, b>>)
<1> DEFINE s == <<a, b>>
<1>1. s \in Seq(S) /\ DOMAIN s = 1 .. 2 /\ s[1] = a /\ s[2] = b
  OBVIOUS
<1>2. 1 .. 2 = {1, 2}
  OBVIOUS
<1> HIDE DEF s
<1>3. ToSet(s) = {a, b} /\ (a # b => IsInjective(s))
  BY <1>1, <1>2 DEF ToSet, IsInjective
<1> QED BY <1>1, <1>3 DEF s

LEMMA FourElements == ASSUME NEW S, NEW a \in S, NEW b \in S, NEW c \in S, NEW d \in S
                      PROVE  /\ <<a, b, c, d>> \in Seq(S) /\ ToSet(<<a, b, c, d>>) = {a, b, c, d}
                             /\ a # b /\ a # c /\ a # d /\ b # c /\ b # d /\ c # d
                                  => IsInjective(<<a, b, c, d>>)
<1> DEFINE s == <<a, b, c, d>>
<1>1. s \in Seq(S) /\ DOMAIN s = 1 .. 4 /\ s[1] = a /\ s[2] = b /\ s[3] = c /\ s[4] = d
  OBVIOUS
<1>2. 1 .. 4 = {1, 2, 3, 4}
  OBVIOUS
<1> HIDE DEF s
<1>3. ToSet(s) = {a, b, c, d}
  BY <1>1, <1>2 DEF ToSet
<1>4. a # b /\ a # c /\ a # d /\ b # c /\ b # d /\ c # d => IsInjective(s)
  BY <1>1, <1>2 DEF IsInjective
<1> QED BY <1>1, <1>3, <1>4 DEF s

\* The names of the tables.
TableNames == {"users", "app_settings", "documents", "voice_presets", "jobs", "user_settings",
               "friendships", "shared_items"}

LEMMA TablesByName ==
    /\ Tables \in Seq(TableNames) /\ Auth \in Seq(TableNames) /\ Core \in Seq(TableNames) /\ Social \in Seq(TableNames)
    /\ ToSet(Auth) = {"users"} /\ ToSet(Social) = {"friendships", "shared_items"}
    /\ ToSet(Core) = {"app_settings", "documents", "voice_presets", "jobs"}
    /\ ToSet(Tables) = ToSet(Auth) \cup ToSet(Core) \cup {"user_settings"} \cup ToSet(Social)
<1>1. Auth \in Seq(TableNames) /\ ToSet(Auth) = {"users"}
  BY OneElement DEF TableNames, Auth
<1>2. Core \in Seq(TableNames) /\ ToSet(Core) = {"app_settings", "documents", "voice_presets", "jobs"}
  <2>1. "app_settings" \in TableNames /\ "documents" \in TableNames /\ "voice_presets" \in TableNames
        /\ "jobs" \in TableNames
    BY DEF TableNames
  <2> QED BY <2>1, FourElements DEF Core
<1>3. Social \in Seq(TableNames) /\ ToSet(Social) = {"friendships", "shared_items"}
  BY TwoElements DEF TableNames, Social
<1>4. <<"user_settings">> \in Seq(TableNames) /\ ToSet(<<"user_settings">>) = {"user_settings"}
  BY OneElement DEF TableNames
<1>5. Auth \o Core \in Seq(TableNames) /\ ToSet(Auth \o Core) = ToSet(Auth) \cup ToSet(Core)
  BY <1>1, <1>2, ElementsOfBoth
<1>6. /\ Auth \o Core \o <<"user_settings">> \in Seq(TableNames)
      /\ ToSet(Auth \o Core \o <<"user_settings">>) = ToSet(Auth) \cup ToSet(Core) \cup {"user_settings"}
  <2>1. PICK s \in Seq(TableNames) : s = Auth \o Core
    BY <1>5
  <2>2. PICK t \in Seq(TableNames) : t = <<"user_settings">>
    BY <1>4
  <2>3. s \o t \in Seq(TableNames) /\ ToSet(s \o t) = ToSet(s) \cup ToSet(t)
    BY ElementsOfBoth
  <2> QED BY <1>4, <1>5, <2>1, <2>2, <2>3
<1>7. /\ Auth \o Core \o <<"user_settings">> \o Social \in Seq(TableNames)
      /\ ToSet(Auth \o Core \o <<"user_settings">> \o Social)
           = ToSet(Auth) \cup ToSet(Core) \cup {"user_settings"} \cup ToSet(Social)
  <2>1. PICK s \in Seq(TableNames) : s = Auth \o Core \o <<"user_settings">>
    BY <1>6
  <2>2. s \o Social \in Seq(TableNames) /\ ToSet(s \o Social) = ToSet(s) \cup ToSet(Social)
    BY <1>3, ElementsOfBoth
  <2> QED BY <1>6, <2>1, <2>2
<1> QED BY <1>1, <1>2, <1>3, <1>7 DEF Tables

\* Tables are created in their order, each once.
LEMMA CreatesProperties ==
    ASSUME NEW S, NEW names \in Seq(S)
    PROVE  /\ ToSet(Creates(names)) = {Create(t) : t \in ToSet(names)}
           /\ IsInjective(names) => IsInjective(Creates(names))
           /\ \A T : {Create(t) : t \in ToSet(names)} \subseteq T => Creates(names) \in Seq(T)
<1>1. PICK n \in Nat : DOMAIN names = 1 .. n
  BY LenProperties
<1>2. DOMAIN Creates(names) = 1 .. n /\ \A i \in 1 .. n : Creates(names)[i] = Create(names[i])
  BY <1>1 DEF Creates
<1>3. ToSet(Creates(names)) = {Create(t) : t \in ToSet(names)}
  BY <1>1, <1>2 DEF ToSet
<1>4. IsInjective(names) => IsInjective(Creates(names))
  <2>1. \A i, j \in 1 .. n : Create(names[i]) = Create(names[j]) => names[i] = names[j]
    BY DEF Create
  <2> QED BY <1>1, <1>2, <2>1 DEF IsInjective
<1>5. ASSUME NEW T, {Create(t) : t \in ToSet(names)} \subseteq T PROVE Creates(names) \in Seq(T)
  <2>1. Creates(names) = [i \in 1 .. n |-> Create(names[i])]
    BY <1>1 DEF Creates
  <2>2. \A i \in 1 .. n : Create(names[i]) \in T
    BY <1>1, <1>5 DEF ToSet
  <2>3. Creates(names) \in [1 .. n -> T]
    BY <2>1, <2>2
  <2> QED BY <2>3, IsASeq
<1> QED BY <1>3, <1>4, <1>5

\* The columns that are added later, and those of a new table.
LEMMA ColumnsByName ==
    /\ RuntimeColumns \in Seq(Statements)
    /\ Columns = {<<"jobs", "owner">>, <<"jobs", "rest">>, <<"jobs", "heartbeat_at">>, <<"documents", "owner">>,
                  <<"documents", "rest">>, <<"voice_presets", "owner">>, <<"voice_presets", "source">>}
<1> DEFINE all == {Add("jobs", "owner"), Add("jobs", "rest"), Add("jobs", "heartbeat_at"), Add("documents", "owner"),
                   Add("documents", "rest"), Add("voice_presets", "owner"), Add("voice_presets", "source")}
<1>1. RuntimeColumns \in Seq(all) /\ ToSet(RuntimeColumns) = all
  <2> DEFINE a == Add("jobs", "owner")
             b == Add("jobs", "rest")
             c == Add("jobs", "heartbeat_at")
             d == Add("documents", "owner")
             e == Add("documents", "rest")
             f == Add("voice_presets", "owner")
             g == Add("voice_presets", "source")
  <2>1. RuntimeColumns = <<a, b, c, d, e, f, g>> /\ all = {a, b, c, d, e, f, g}
    BY DEF RuntimeColumns
  <2> HIDE DEF a, b, c, d, e, f, g
  <2> DEFINE s == <<a, b, c, d, e, f, g>>
  <2>2. s \in Seq({a, b, c, d, e, f, g})
    OBVIOUS
  <2>3. /\ DOMAIN s = 1 .. 7 /\ s[1] = a /\ s[2] = b /\ s[3] = c /\ s[4] = d /\ s[5] = e /\ s[6] = f
        /\ s[7] = g
    OBVIOUS
  <2>4. 1 .. 7 = {1, 2, 3, 4, 5, 6, 7}
    OBVIOUS
  <2> HIDE DEF s
  <2>5. ToSet(s) = {a, b, c, d, e, f, g}
    BY <2>3, <2>4 DEF ToSet
  <2>6. RuntimeColumns = s
    BY <2>1 DEF s
  <2> HIDE DEF all
  <2> QED BY <2>1, <2>2, <2>5, <2>6
<1>2. Columns = {<<s[2], s[3]>> : s \in all}
  BY <1>1 DEF Columns
<1>3. Columns = {<<"jobs", "owner">>, <<"jobs", "rest">>, <<"jobs", "heartbeat_at">>, <<"documents", "owner">>,
                 <<"documents", "rest">>, <<"voice_presets", "owner">>, <<"voice_presets", "source">>}
  BY <1>2 DEF Add
<1>4. \A s \in all : s \in {Add(c[1], c[2]) : c \in Columns}
  BY <1>3 DEF Add
<1>5. ToSet(RuntimeColumns) \subseteq Statements
  BY <1>1, <1>4 DEF Statements
<1> QED BY <1>1, <1>3, <1>5, OverItsElements

\* What the server's start executes.
LEMMA StartStatements ==
    Creates(Tables) \in Seq(Statements) /\ RuntimeColumns \in Seq(Statements) /\ <<Seed>> \in Seq(Statements)
<1>1. {Create(t) : t \in ToSet(Tables)} \subseteq Statements /\ Seed \in Statements
  BY DEF Statements
<1> QED BY <1>1, TablesByName, CreatesProperties, ColumnsByName, OneElement

\* The migrations: what each does, and that a table which one creates is no
\* other's, except for the columns which later ones add.
LEMMA MigrationList ==
    /\ Newest = 6
    /\ Migrations[1] = [guarded |-> FALSE, does |-> Creates(Auth)]
    /\ Migrations[2].guarded /\ Migrations[3].guarded /\ Migrations[4].guarded /\ Migrations[5].guarded
    /\ Migrations[2].does = <<Create("user_settings"), Add("documents", "owner"), Add("jobs", "owner"),
                              Add("voice_presets", "owner")>>
    /\ Migrations[3].does = <<Add("voice_presets", "source")>>
    /\ Migrations[4].does = <<Add("jobs", "heartbeat_at")>>
    /\ Migrations[5].does = Creates(Social)
    /\ Migrations[6] = [guarded |-> FALSE, does |-> Creates(Core)]
BY DEF Migrations, Newest

LEMMA MigrationElements ==
    /\ Does(1) = {Create("users")} /\ IsInjective(Migrations[1].does)
    /\ Does(2) = {Create("user_settings"), Add("documents", "owner"), Add("jobs", "owner"),
                  Add("voice_presets", "owner")} /\ IsInjective(Migrations[2].does)
    /\ Does(3) = {Add("voice_presets", "source")} /\ IsInjective(Migrations[3].does)
    /\ Does(4) = {Add("jobs", "heartbeat_at")} /\ IsInjective(Migrations[4].does)
    /\ Does(5) = {Create("friendships"), Create("shared_items")} /\ IsInjective(Migrations[5].does)
    /\ Does(6) = {Create(t) : t \in ToSet(Core)} /\ IsInjective(Migrations[6].does)
<1>1. Does(1) = {Create("users")} /\ IsInjective(Migrations[1].does)
  <2>1. Auth \in Seq(TableNames) /\ ToSet(Auth) = {"users"} /\ IsInjective(Auth)
    BY TablesByName, OneElement DEF Auth, TableNames
  <2> QED BY <2>1, MigrationList, CreatesProperties DEF Does
<1>2. /\ Does(2) = {Create("user_settings"), Add("documents", "owner"), Add("jobs", "owner"),
                    Add("voice_presets", "owner")}
      /\ IsInjective(Migrations[2].does)
  <2> DEFINE a == Create("user_settings")
             b == Add("documents", "owner")
             c == Add("jobs", "owner")
             d == Add("voice_presets", "owner")
  <2>1. a # b /\ a # c /\ a # d /\ b # c /\ b # d /\ c # d
    BY DEF Create, Add
  <2>2. Migrations[2].does = <<a, b, c, d>>
    BY MigrationList
  <2> HIDE DEF a, b, c, d
  <2>3. PICK S : a \in S /\ b \in S /\ c \in S /\ d \in S
    <3>1. \E S : S = {a, b, c, d}
      OBVIOUS
    <3> QED BY <3>1
  <2>4. ToSet(<<a, b, c, d>>) = {a, b, c, d} /\ IsInjective(<<a, b, c, d>>)
    BY <2>1, <2>3, FourElements
  <2>5. Does(2) = {a, b, c, d}
    BY <2>2, <2>4 DEF Does
  <2> QED BY <2>2, <2>4, <2>5 DEF a, b, c, d
<1>3. Does(3) = {Add("voice_presets", "source")} /\ IsInjective(Migrations[3].does)
  BY MigrationList, OneElement DEF Does
<1>4. Does(4) = {Add("jobs", "heartbeat_at")} /\ IsInjective(Migrations[4].does)
  BY MigrationList, OneElement DEF Does
<1>5. Does(5) = {Create("friendships"), Create("shared_items")} /\ IsInjective(Migrations[5].does)
  <2>1. Social \in Seq(TableNames) /\ ToSet(Social) = {"friendships", "shared_items"} /\ IsInjective(Social)
    BY TablesByName, TwoElements DEF Social, TableNames
  <2>2. ToSet(Creates(Social)) = {Create(t) : t \in ToSet(Social)} /\ IsInjective(Creates(Social))
    BY <2>1, CreatesProperties
  <2>3. ToSet(Creates(Social)) = {Create("friendships"), Create("shared_items")}
    BY <2>1, <2>2
  <2> QED BY <2>2, <2>3, MigrationList DEF Does
<1>6. Does(6) = {Create(t) : t \in ToSet(Core)} /\ IsInjective(Migrations[6].does)
  <2>1. Core \in Seq(TableNames) /\ IsInjective(Core)
    <3>1. "app_settings" \in TableNames /\ "documents" \in TableNames /\ "voice_presets" \in TableNames
          /\ "jobs" \in TableNames
      BY DEF TableNames
    <3> QED BY <3>1, FourElements DEF Core
  <2>2. ToSet(Creates(Core)) = {Create(t) : t \in ToSet(Core)} /\ IsInjective(Creates(Core))
    BY <2>1, CreatesProperties
  <2> QED BY <2>2, MigrationList DEF Does
<1> QED BY <1>1, <1>2, <1>3, <1>4, <1>5, <1>6

LEMMA MigrationProperties ==
    ASSUME NEW n \in 1 .. Newest
    PROVE  /\ Migrations[n].does \in Seq(Statements) /\ IsInjective(Migrations[n].does)
           /\ Does(n) \subseteq Statements
           /\ ~Migrations[n].guarded => n = 1 \/ n = 6
           /\ \A s \in Does(n) : s[1] = "create" /\ s[2] = "users" => n = 1
           /\ \A s \in Does(n) : s[1] = "create" /\ s[2] \in ToSet(Core) => n = 6
           /\ \A s, r \in Does(n) : s[1] = "create" /\ r[1] = "add" => s[2] # r[2]
           /\ \A s, r \in Does(n) : s[1] = "create" /\ r[1] = "create" /\ s[2] = r[2] => s = r
           /\ \A s, r \in Does(n) : s[1] = "add" /\ r[1] = "add" /\ s[2] = r[2] /\ s[3] = r[3] => s = r
           /\ \A s \in Does(n) : s[1] \in {"create", "add"}
<1>1. n \in {1, 2, 3, 4, 5, 6}
  BY MigrationList
<1>2. Does(n) \subseteq Statements
  <2>1. \A t \in TableNames : Create(t) \in Statements
    BY TablesByName DEF Statements, TableNames
  <2>2. \A c \in Columns : Add(c[1], c[2]) \in Statements
    BY DEF Statements
  <2>3. /\ Add("documents", "owner") \in Statements /\ Add("jobs", "owner") \in Statements
        /\ Add("voice_presets", "owner") \in Statements /\ Add("voice_presets", "source") \in Statements
        /\ Add("jobs", "heartbeat_at") \in Statements
    BY <2>2, ColumnsByName
  <2>4. ToSet(Core) \subseteq TableNames
    BY TablesByName DEF TableNames
  <2>5. Does(6) \subseteq Statements
    BY <2>1, <2>4, MigrationElements
  <2>6. /\ Create("users") \in Statements /\ Create("user_settings") \in Statements
        /\ Create("friendships") \in Statements /\ Create("shared_items") \in Statements
    BY <2>1 DEF TableNames
  <2> QED BY <1>1, <2>3, <2>5, <2>6, MigrationElements
<1>3. Migrations[n].does \in Seq(Statements)
  <2>1. Creates(Auth) \in Seq(Statements) /\ Creates(Core) \in Seq(Statements) /\ Creates(Social) \in Seq(Statements)
    <3>2. Auth \in Seq(TableNames) /\ Core \in Seq(TableNames) /\ Social \in Seq(TableNames)
      BY TablesByName
    <3>3. /\ {Create(t) : t \in ToSet(Auth)} \subseteq Statements /\ {Create(t) : t \in ToSet(Core)} \subseteq Statements
          /\ {Create(t) : t \in ToSet(Social)} \subseteq Statements
      BY TablesByName DEF Statements
    <3>4. Creates(Auth) \in Seq(Statements)
      BY <3>2, <3>3, CreatesProperties
    <3>5. Creates(Core) \in Seq(Statements)
      BY <3>2, <3>3, CreatesProperties
    <3>6. Creates(Social) \in Seq(Statements)
      BY <3>2, <3>3, CreatesProperties
    <3> QED BY <3>4, <3>5, <3>6
  <2>2. CASE n \in {1, 5, 6}
    BY <2>1, <2>2, MigrationList
  <2>3. CASE n = 2
    <3>1. /\ Create("user_settings") \in Statements /\ Add("documents", "owner") \in Statements
          /\ Add("jobs", "owner") \in Statements /\ Add("voice_presets", "owner") \in Statements
      BY <1>2, <2>3, MigrationElements
    <3> QED BY <2>3, <3>1, FourElements, MigrationList
  <2>4. CASE n = 3
    <3>1. Add("voice_presets", "source") \in Statements
      BY <1>2, <2>4, MigrationElements
    <3> QED BY <2>4, <3>1, OneElement, MigrationList
  <2>5. CASE n = 4
    <3>1. Add("jobs", "heartbeat_at") \in Statements
      BY <1>2, <2>5, MigrationElements
    <3> QED BY <2>5, <3>1, OneElement, MigrationList
  <2> QED BY <1>1, <2>2, <2>3, <2>4, <2>5
<1>4. IsInjective(Migrations[n].does)
  BY <1>1, MigrationElements
<1>5. ~Migrations[n].guarded => n = 1 \/ n = 6
  BY <1>1, MigrationList
<1>6. \A t \in ToSet(Core) : t \in {"app_settings", "documents", "voice_presets", "jobs"}
  BY TablesByName
<1>7. ASSUME NEW s \in Does(n)
      PROVE  \/ n = 1 /\ s = Create("users")
             \/ n = 2 /\ s = Create("user_settings")
             \/ n = 2 /\ \E t \in {"documents", "jobs", "voice_presets"} : s = Add(t, "owner")
             \/ n = 3 /\ s = Add("voice_presets", "source")
             \/ n = 4 /\ s = Add("jobs", "heartbeat_at")
             \/ n = 5 /\ \E t \in {"friendships", "shared_items"} : s = Create(t)
             \/ n = 6 /\ \E t \in {"app_settings", "documents", "voice_presets", "jobs"} : s = Create(t)
  BY <1>1, <1>6, <1>7, MigrationElements
<1>8. /\ \A s \in Does(n) : s[1] = "create" /\ s[2] = "users" => n = 1
      /\ \A s \in Does(n) : s[1] = "create" /\ s[2] \in ToSet(Core) => n = 6
      /\ \A s \in Does(n) : s[1] \in {"create", "add"}
  BY <1>6, <1>7 DEF Create, Add
<1>9. /\ \A s, r \in Does(n) : s[1] = "create" /\ r[1] = "add" => s[2] # r[2]
      /\ \A s, r \in Does(n) : s[1] = "create" /\ r[1] = "create" /\ s[2] = r[2] => s = r
  BY <1>7 DEF Create, Add
<1>10. \A s, r \in Does(n) : s[1] = "add" /\ r[1] = "add" /\ s[2] = r[2] /\ s[3] = r[3] => s = r
  BY <1>7 DEF Create, Add
<1> QED BY <1>2, <1>3, <1>4, <1>5, <1>8, <1>9, <1>10

\* A statement creates a table, adds a column or seeds the themes.
LEMMA StatementKinds ==
    ASSUME NEW s \in Statements
    PROVE  \/ s[1] = "create" /\ s[2] \in ToSet(Tables)
           \/ s[1] = "add" /\ <<s[2], s[3]>> \in Columns
           \/ s = Seed /\ s[1] = "seed"
<1>1. CASE s \in {Create(t) : t \in ToSet(Tables)}
  BY <1>1 DEF Create
<1>2. CASE s \in {Add(c[1], c[2]) : c \in Columns}
  <2>1. PICK c \in Columns : s = Add(c[1], c[2])
    BY <1>2
  <2>2. <<c[1], c[2]>> \in Columns
    BY ColumnsByName
  <2> QED BY <2>1, <2>2 DEF Add
<1>3. CASE s = Seed
  BY <1>3 DEF Seed
<1> QED BY <1>1, <1>2, <1>3 DEF Statements

\* What one look finds missing is not there, each statement once.
LEMMA MissingProperties ==
    ASSUME NEW s \in Seq(Statements)
    PROVE  /\ Missing(s) \in Seq(Statements) /\ ToSet(Missing(s)) \subseteq ToSet(s)
           /\ \A r \in ToSet(Missing(s)) : ~Present(r)
           /\ IsInjective(s) => IsInjective(Missing(s))
<1> DEFINE places == {i \in DOMAIN s : LET r == s[i] IN ~Present(r) /\ (r[1] = "add" => r[2] \in tables)}
<1>1. DOMAIN s = 1 .. Len(s)
  BY LenProperties
<1>2. places \subseteq 1 .. Len(s) /\ \A i \in places : ~Present(s[i]) /\ s[i] \in ToSet(s)
  BY <1>1 DEF ToSet
<1>3. Missing(s) = Selected(s, places)
  BY DEF Missing
<1> HIDE DEF places
<1>4. PICK where \in SUBSET (1 .. Len(s)) : where = places
  BY <1>2
<1>5. /\ Selected(s, where) \in Seq(Statements) /\ ToSet(Selected(s, where)) = {s[i] : i \in where}
      /\ IsInjective(s) => IsInjective(Selected(s, where))
  BY SelectedProperties
<1> QED BY <1>2, <1>3, <1>4, <1>5

\* The first statement, and those that follow it.
LEMMA FirstAndRest ==
    ASSUME NEW S, NEW s \in Seq(S), s # << >>
    PROVE  /\ Head(s) \in S /\ Head(s) \in ToSet(s) /\ Tail(s) \in Seq(S) /\ ToSet(Tail(s)) \subseteq ToSet(s)
           /\ IsInjective(s) => IsInjective(Tail(s)) /\ Head(s) \notin ToSet(Tail(s))
<1>1. PICK n \in Nat : n = Len(s) /\ DOMAIN s = 1 .. n
  BY LenProperties
<1>2. n >= 1
  BY <1>1, EmptySeq
<1>3. Head(s) = s[1]
  BY <1>1, <1>2
<1>4. /\ Head(s) \in S /\ Tail(s) \in Seq(S) /\ Len(Tail(s)) = n - 1
      /\ \A i \in 1 .. Len(Tail(s)) : Tail(s)[i] = s[i + 1]
  BY <1>1, HeadTailProperties
<1>5. DOMAIN Tail(s) = 1 .. n - 1 /\ \A i \in 1 .. n - 1 : Tail(s)[i] = s[i + 1]
  BY <1>4, LenProperties
<1> DEFINE t == Tail(s)
           h == Head(s)
<1> HIDE DEF t, h
<1>6. DOMAIN t = 1 .. n - 1 /\ (\A i \in 1 .. n - 1 : t[i] = s[i + 1]) /\ h = s[1]
  BY <1>3, <1>5 DEF t, h
<1>7. \A i \in 1 .. n - 1 : i + 1 \in 1 .. n /\ i + 1 # 1
  BY <1>2
<1>8. 1 \in 1 .. n
  BY <1>2
<1>9. h \in ToSet(s) /\ ToSet(t) \subseteq ToSet(s)
  BY <1>1, <1>6, <1>7, <1>8 DEF ToSet
<1>10. ASSUME IsInjective(s) PROVE IsInjective(t) /\ h \notin ToSet(t)
  <2>1. \A i, j \in 1 .. n : s[i] = s[j] => i = j
    BY <1>1, <1>10 DEF IsInjective
  <2>2. ASSUME NEW i \in 1 .. n - 1, NEW j \in 1 .. n - 1, t[i] = t[j] PROVE i = j
    <3>1. i + 1 = j + 1
      BY <1>6, <1>7, <2>1, <2>2
    <3> QED BY <3>1
  <2>3. \A i \in 1 .. n - 1 : t[i] # h
    BY <1>6, <1>7, <1>8, <2>1
  <2> QED BY <1>6, <2>2, <2>3 DEF IsInjective, ToSet
<1> QED BY <1>4, <1>9, <1>10 DEF t, h

\* Nothing has been upgraded at first, and nothing starts.
LEMMA SchemaInitially == InitSchema => SchemaInv
<1> SUFFICES ASSUME InitSchema PROVE SchemaInv
  OBVIOUS
<1>1. << >> \in Seq(Statements) /\ 0 \in 0 .. Newest /\ Newest = 6
  BY MigrationList, EmptySeq
<1>2. \A p \in Starters : starts[p] = Down
  BY DEF InitSchema
<1>3. Down \in Start
  BY <1>1 DEF Down, Start, Stages
<1>4. starts \in [Starters -> Start] /\ \A p \in Starters : starts[p].at = "down" /\ starts[p].todo = << >>
  BY <1>2, <1>3 DEF InitSchema, Down
<1>5. ToSet(Core) \subseteq ToSet(Tables)
  BY TablesByName
<1>6. SchemaShape
  BY <1>1, <1>4, <1>5 DEF SchemaShape, InitSchema
<1>7. ~Disturbed => history = {} /\ tables = {}
  BY DEF Disturbed, InitSchema
<1>8. OneAtATime /\ InStep /\ StillToDo
  BY <1>4 DEF OneAtATime, InStep, StillToDo, Starting
<1> QED BY <1>6, <1>7, <1>8 DEF SchemaInv, Orderly, CreatedLast

\* A start goes to its next stage.
LEMMA GoesStep ==
    ASSUME SchemaShape, NEW p \in Starters, NEW at \in Stages, NEW todo \in Seq(Statements), Goes(p, at, todo)
    PROVE  /\ starts' \in [Starters -> Start]
           /\ starts'[p].at = at /\ starts'[p].todo = todo /\ starts'[p].revision = starts[p].revision
           /\ \A q \in Starters : q # p => starts'[q] = starts[q]
<1>1. starts \in [Starters -> Start] /\ starts[p] \in Start
  BY DEF SchemaShape
<1> DEFINE r == [at |-> at, todo |-> todo, revision |-> starts[p].revision]
<1>2. r \in Start /\ r.at = at /\ r.todo = todo /\ r.revision = starts[p].revision
  BY <1>1 DEF Start
<1>3. starts' = [starts EXCEPT ![p] = r]
  <2>1. starts' = [starts EXCEPT ![p] = [[starts[p] EXCEPT !.at = at] EXCEPT !.todo = todo]]
    BY <1>1 DEF Goes
  <2>2. ASSUME NEW old \in Start
        PROVE  [[old EXCEPT !.at = at] EXCEPT !.todo = todo] = [at |-> at, todo |-> todo, revision |-> old.revision]
    <3>1. [old EXCEPT !.at = at] = [at |-> at, todo |-> old.todo, revision |-> old.revision]
      BY <2>2 DEF Start
    <3> DEFINE new == [at |-> at, todo |-> old.todo, revision |-> old.revision]
    <3>2. [new EXCEPT !.todo = todo] = [at |-> at, todo |-> todo, revision |-> old.revision]
      OBVIOUS
    <3> HIDE DEF new
    <3>3. [old EXCEPT !.at = at] = new
      BY <3>1 DEF new
    <3> QED BY <3>2, <3>3, Zenon
  <2> QED BY <1>1, <2>1, <2>2
<1> HIDE DEF r
<1>4. starts' \in [Starters -> Start] /\ starts'[p] = r /\ \A q \in Starters : q # p => starts'[q] = starts[q]
  BY <1>1, <1>2, <1>3
<1> QED BY <1>2, <1>4

\* While one start goes on, no other is under way.
LEMMA OneMoves ==
    ASSUME Orderly, NEW p \in Starters, Starting(p), \A q \in Starters : q # p => starts'[q] = starts[q]
    PROVE  /\ OneAtATime' /\ (Migrating <=> starts[p].at = "migrate") /\ (Migrating' <=> starts'[p].at = "migrate")
           /\ \A q \in Starters : q # p => starts'[q].at \in {"down", "up"}
<1>1. \A q \in Starters : q # p => starts[q].at \in {"down", "up"}
  BY DEF Orderly, OneAtATime, Starting
<1>2. \A q \in Starters : q # p => starts'[q].at \in {"down", "up"}
  BY <1>1
<1>3. OneAtATime'
  BY <1>2 DEF OneAtATime, Starting
<1>4. (Migrating <=> starts[p].at = "migrate") /\ (Migrating' <=> starts'[p].at = "migrate")
  BY <1>1, <1>2 DEF Migrating
<1> QED BY <1>2, <1>3, <1>4

\* A start that begins reads the revision; where others are under way, or
\* init_database comes before the last migration, the upgrades are disturbed.
LEMMA LaunchKeeps ==
    ASSUME SchemaInv, NEW p \in Starters, NEW at \in {"upgrade", "begin"}, Launch(p, at)
    PROVE  SchemaInv'
<1> DEFINE r == [at |-> at, todo |-> << >>, revision |-> revision]
<1>1. SchemaShape /\ starts \in [Starters -> Start]
  BY DEF SchemaInv, SchemaShape
<1>2. r \in Start /\ r.at = at /\ r.todo = << >> /\ r.revision = revision
  BY <1>1, EmptySeq DEF SchemaShape, Start, Stages
<1>3. starts' = [starts EXCEPT ![p] = r] /\ starts[p].at = "down"
  BY DEF Launch, Down
<1> HIDE DEF r
<1>4. /\ starts' \in [Starters -> Start] /\ starts'[p] = r
      /\ \A q \in Starters : q # p => starts'[q] = starts[q]
  BY <1>1, <1>2, <1>3
<1>5. UNCHANGED <<tables, columns, seeded, revision>>
  BY DEF Launch
<1>6. SchemaShape'
  <2>1. history' \subseteq {"direct", "upgrade", "overlap", "interrupted", "failed"}
    BY <1>1 DEF Launch, SchemaShape
  <2> QED BY <1>1, <1>2, <1>4, <1>5, <2>1 DEF SchemaShape, Start, Stages
<1>7. ASSUME ~Disturbed' PROVE Orderly'
  <2>1. /\ Orderly /\ (\A q \in Starters : ~Starting(q)) /\ (at = "begin" => revision = Newest)
    <3>1. revision \in 0 .. Newest /\ Newest = 6
      BY <1>1, MigrationList DEF SchemaShape
    <3> QED BY <1>7, <3>1 DEF Launch, Disturbed, SchemaInv
  <2>2. "failed" \notin history'
    BY <2>1 DEF Launch, Orderly
  <2>3. \A q \in Starters : starts[q].at \in {"down", "up"}
    BY <2>1 DEF Starting
  <2>4. \A q \in Starters : q # p => starts'[q].at \in {"down", "up"}
    BY <1>4, <2>3
  <2>5. ~Migrating
    BY <2>3 DEF Migrating
  <2>6. CreatedLast'
    BY <1>5, <2>1, <2>5 DEF Orderly, CreatedLast
  <2>7. OneAtATime'
    BY <2>4 DEF OneAtATime, Starting
  <2>8. InStep' /\ StillToDo'
    BY <1>2, <1>4, <1>5, <2>1, <2>4 DEF InStep, StillToDo
  <2> QED BY <2>2, <2>6, <2>7, <2>8 DEF Orderly
<1> QED BY <1>6, <1>7 DEF SchemaInv

\* The next migration is looked up: of an unguarded one nothing is there yet.
LEMMA MigrateKeeps ==
    ASSUME SchemaInv, NEW p \in Starters, Migrate(p)
    PROVE  SchemaInv'
<1> DEFINE next == starts[p].revision + 1
           todo == IF next > Newest THEN << >>
                   ELSE IF Migrations[next].guarded THEN Missing(Migrations[next].does)
                   ELSE Migrations[next].does
           at == IF next > Newest THEN "begin" ELSE "migrate"
<1>1. SchemaShape /\ starts[p] \in Start /\ Newest = 6
  BY MigrationList DEF SchemaInv, SchemaShape
<1>2. next \in 1 .. 7 /\ starts[p].revision \in 0 .. 6
  BY <1>1 DEF Start
<1>3. starts[p].at = "upgrade" /\ Goes(p, at, todo) /\ UNCHANGED <<tables, columns, seeded, revision, history>>
  BY DEF Migrate
<1>4. ASSUME ~(next > Newest)
      PROVE  /\ next \in 1 .. Newest /\ todo \in Seq(Statements) /\ ToSet(todo) \subseteq Does(next) /\ IsInjective(todo)
             /\ Migrations[next].guarded => \A s \in ToSet(todo) : ~Present(s)
  <2>1. next \in 1 .. Newest
    BY <1>1, <1>2, <1>4
  <2>2. Migrations[next].does \in Seq(Statements) /\ IsInjective(Migrations[next].does)
    BY <2>1, MigrationProperties
  <2>3. CASE Migrations[next].guarded
    <3>1. todo = Missing(Migrations[next].does)
      BY <1>4, <2>3
    <3> QED BY <2>1, <2>2, <3>1, MissingProperties DEF Does
  <2>4. CASE ~Migrations[next].guarded
    <3>1. todo = Migrations[next].does
      BY <1>4, <2>4
    <3> QED BY <2>1, <2>2, <2>4, <3>1 DEF Does
  <2> QED BY <2>3, <2>4
<1>5. at \in Stages /\ todo \in Seq(Statements) /\ (at = "migrate" <=> ~(next > Newest))
      /\ (at = "begin" <=> next > Newest) /\ (at = "begin" => todo = << >>)
  BY <1>4, EmptySeq DEF Stages
<1> HIDE DEF at, todo
<1>6. /\ starts' \in [Starters -> Start]
      /\ starts'[p].at = at /\ starts'[p].todo = todo /\ starts'[p].revision = starts[p].revision
      /\ \A q \in Starters : q # p => starts'[q] = starts[q]
  BY <1>1, <1>3, <1>5, GoesStep
<1>7. SchemaShape'
  <2>1. at = "migrate" => starts[p].revision < Newest
    BY <1>1, <1>2, <1>5
  <2> QED BY <1>1, <1>3, <1>5, <1>6, <2>1 DEF SchemaShape
<1>8. ASSUME ~Disturbed' PROVE Orderly'
  <2>1. Orderly /\ Starting(p)
    BY <1>3, <1>8 DEF Disturbed, SchemaInv, Starting
  <2>2. /\ OneAtATime' /\ (Migrating <=> starts[p].at = "migrate") /\ (Migrating' <=> starts'[p].at = "migrate")
        /\ \A q \in Starters : q # p => starts'[q].at \in {"down", "up"}
    BY <1>6, <2>1, OneMoves
  <2>3. starts[p].revision = revision /\ ~Migrating /\ CreatedLast
    BY <1>3, <2>1, <2>2 DEF Orderly, InStep
  <2>4. InStep'
    <3>1. at = "begin" => revision = Newest
      BY <1>1, <1>2, <1>5, <2>3
    <3> QED BY <1>3, <1>5, <1>6, <2>2, <2>3, <3>1 DEF InStep
  <2>5. CreatedLast'
    BY <1>3, <2>3 DEF CreatedLast
  <2>6. ASSUME at = "migrate", NEW s \in ToSet(todo) PROVE ~Present(s)
    <3>1. next \in 1 .. Newest /\ s \in Does(next)
      BY <1>4, <1>5, <2>6
    <3>2. CASE Migrations[next].guarded
      BY <1>4, <1>5, <2>6, <3>2
    <3>3. CASE ~Migrations[next].guarded /\ next = 1
      <4>1. s = Create("users") /\ revision = 0
        BY <1>2, <2>3, <3>1, <3>3, MigrationElements
      <4>2. "users" \notin tables
        BY <2>3, <4>1 DEF CreatedLast
      <4> QED BY <4>1, <4>2 DEF Present, Create
    <3>4. CASE ~Migrations[next].guarded /\ next = 6
      <4>1. PICK t \in ToSet(Core) : s = Create(t)
        BY <3>1, <3>4, MigrationElements
      <4>2. t \notin tables
        <5>1. revision < Newest
          BY <1>1, <1>2, <2>3, <3>4
        <5> QED BY <2>3, <4>1, <5>1 DEF CreatedLast
      <4> QED BY <4>1, <4>2 DEF Present, Create
    <3> QED BY <3>1, <3>2, <3>3, <3>4, MigrationProperties
  <2>7. StillToDo'
    <3>1. SUFFICES ASSUME at = "migrate"
                   PROVE  /\ ToSet(todo) \subseteq Does(revision + 1) /\ IsInjective(todo)
                          /\ \A s \in ToSet(todo) : ~Present(s)'
      BY <1>3, <1>6, <2>2 DEF StillToDo
    <3>2. next = revision + 1
      BY <2>3
    <3>3. \A s : Present(s)' <=> Present(s)
      BY <1>3 DEF Present
    <3> QED BY <1>4, <1>5, <2>6, <3>1, <3>2, <3>3
  <2> QED BY <1>3, <2>1, <2>2, <2>4, <2>5, <2>7 DEF Orderly
<1> QED BY <1>7, <1>8 DEF SchemaInv

\* The revision follows what was applied.
LEMMA MigratedKeeps ==
    ASSUME SchemaInv, NEW p \in Starters, Migrated(p)
    PROVE  SchemaInv'
<1> DEFINE r == [at |-> "upgrade", todo |-> << >>, revision |-> revision + 1]
<1>1. SchemaShape /\ starts \in [Starters -> Start] /\ starts[p] \in Start /\ Newest = 6
  BY MigrationList DEF SchemaInv, SchemaShape
<1>2. /\ starts[p].at = "migrate" /\ starts[p].todo = << >> /\ revision = starts[p].revision
      /\ revision' = revision + 1 /\ UNCHANGED <<tables, columns, seeded, history>>
  BY DEF Migrated
<1>3. revision \in 0 .. 6 /\ revision < 6
  BY <1>1, <1>2 DEF SchemaShape
<1>4. r \in Start /\ r.at = "upgrade" /\ r.todo = << >> /\ r.revision = revision'
  BY <1>1, <1>2, <1>3, EmptySeq DEF Start, Stages
<1>5. starts' = [starts EXCEPT ![p] = r]
  <2>1. starts' = [starts EXCEPT ![p] = [[starts[p] EXCEPT !.at = "upgrade"] EXCEPT !.revision = revision + 1]]
    BY <1>1 DEF Migrated
  <2>2. [[starts[p] EXCEPT !.at = "upgrade"] EXCEPT !.revision = revision + 1] = r
    <3> DEFINE new == [at |-> "upgrade", todo |-> starts[p].todo, revision |-> starts[p].revision]
    <3>1. [starts[p] EXCEPT !.at = "upgrade"] = new
      BY <1>1 DEF Start
    <3>2. [new EXCEPT !.revision = revision + 1] = r
      BY <1>2
    <3> HIDE DEF new, r
    <3> QED BY <3>1, <3>2, Zenon
  <2> HIDE DEF r
  <2> QED BY <2>1, <2>2
<1> HIDE DEF r
<1>6. /\ starts' \in [Starters -> Start] /\ starts'[p] = r
      /\ \A q \in Starters : q # p => starts'[q] = starts[q]
  BY <1>1, <1>4, <1>5
<1>7. SchemaShape'
  BY <1>1, <1>2, <1>3, <1>4, <1>6 DEF SchemaShape
<1>8. ASSUME ~Disturbed' PROVE Orderly'
  <2>1. Orderly /\ Starting(p)
    BY <1>2, <1>8 DEF Disturbed, SchemaInv, Starting
  <2>2. /\ OneAtATime' /\ (Migrating' <=> starts'[p].at = "migrate")
        /\ \A q \in Starters : q # p => starts'[q].at \in {"down", "up"}
    BY <1>6, <2>1, OneMoves
  <2>3. CreatedLast'
    <3>1. tables \cap ToSet(Core) # {} => revision + 1 = 6
      BY <1>1, <1>2, <1>3, <2>1 DEF Orderly, CreatedLast
    <3>2. revision' # 0 /\ (tables \cap ToSet(Core) # {} => ~(revision' < Newest))
      BY <1>1, <1>2, <1>3, <3>1
    <3> QED BY <1>2, <3>2 DEF CreatedLast
  <2>4. InStep' /\ StillToDo'
    BY <1>4, <1>6, <2>2 DEF InStep, StillToDo
  <2> QED BY <1>2, <2>1, <2>2, <2>3, <2>4 DEF Orderly
<1> QED BY <1>7, <1>8 DEF SchemaInv

\* The server's start looks what is missing; it comes after the upgrade.
LEMMA InspectKeeps ==
    ASSUME SchemaInv, NEW p \in Starters, Inspect(p)
    PROVE  SchemaInv'
<1>1. SchemaShape /\ starts[p] \in Start
  BY DEF SchemaInv, SchemaShape
<1>2. PICK at \in {"create", "alter", "seed", "up"}, todo \in Seq(Statements) :
         Goes(p, at, todo) /\ (at = "up" => todo = << >>)
  <2>1. /\ Missing(Creates(Tables)) \in Seq(Statements) /\ Missing(RuntimeColumns) \in Seq(Statements)
        /\ Missing(<<Seed>>) \in Seq(Statements) /\ << >> \in Seq(Statements)
    BY StartStatements, MissingProperties, EmptySeq
  <2> QED BY <2>1 DEF Inspect
<1>3. /\ starts[p].at \in {"begin", "create", "alter", "seed"}
      /\ UNCHANGED <<tables, columns, seeded, revision, history>>
  BY DEF Inspect
<1>4. /\ starts' \in [Starters -> Start]
      /\ starts'[p].at = at /\ starts'[p].todo = todo
      /\ \A q \in Starters : q # p => starts'[q] = starts[q]
  BY <1>1, <1>2, GoesStep DEF Stages
<1>5. SchemaShape'
  BY <1>1, <1>2, <1>3, <1>4 DEF SchemaShape
<1>6. ASSUME ~Disturbed' PROVE Orderly'
  <2>1. Orderly /\ Starting(p)
    BY <1>3, <1>6 DEF Disturbed, SchemaInv, Starting
  <2>2. /\ OneAtATime' /\ (Migrating <=> starts[p].at = "migrate") /\ (Migrating' <=> starts'[p].at = "migrate")
        /\ \A q \in Starters : q # p => starts'[q].at \in {"down", "up"}
    BY <1>4, <2>1, OneMoves
  <2>3. CreatedLast' /\ revision = Newest
    BY <1>2, <1>3, <1>4, <2>1, <2>2 DEF Orderly, CreatedLast, InStep
  <2>4. InStep' /\ StillToDo'
    BY <1>2, <1>3, <1>4, <2>2, <2>3 DEF InStep, StillToDo
  <2> QED BY <1>3, <2>1, <2>2, <2>3, <2>4 DEF Orderly
<1> QED BY <1>5, <1>6 DEF SchemaInv

\* A start that does not go on is down; undisturbed, none fails.
LEMMA DownKeeps ==
    ASSUME SchemaInv, NEW p \in Starters, EndsInError(p) \/ Interrupt(p)
    PROVE  SchemaInv'
<1>1. SchemaShape /\ starts \in [Starters -> Start] /\ starts[p] \in Start
  BY DEF SchemaInv, SchemaShape
<1>2. /\ starts' = [starts EXCEPT ![p] = Down] /\ UNCHANGED <<tables, columns, seeded, revision>>
      /\ history \subseteq history' /\ history' \subseteq history \cup {"failed", "interrupted"}
  BY DEF EndsInError, Interrupt
<1>3. Down \in Start /\ Down.at = "down" /\ Down.todo = << >>
  BY EmptySeq, MigrationList DEF Down, Start, Stages
<1>4. /\ starts' \in [Starters -> Start] /\ starts'[p] = Down
      /\ \A q \in Starters : q # p => starts'[q] = starts[q]
  BY <1>1, <1>2, <1>3
<1>5. SchemaShape'
  BY <1>1, <1>2, <1>3, <1>4 DEF SchemaShape
<1>6. ASSUME ~Disturbed' PROVE Orderly'
  <2>1. Orderly
    BY <1>2, <1>6 DEF Disturbed, SchemaInv
  <2>2. starts[p].at # "migrate" /\ history' = history
    <3>1. CASE EndsInError(p)
      <4>1. ASSUME starts[p].at = "migrate" PROVE FALSE
        <5>1. revision = starts[p].revision /\ \A s \in ToSet(starts[p].todo) : ~Present(s)
          BY <2>1, <4>1 DEF Orderly, InStep, StillToDo
        <5>2. starts[p].todo # << >> => Head(starts[p].todo) \in ToSet(starts[p].todo)
          BY <1>1, FirstAndRest DEF Start
        <5> QED BY <3>1, <5>1, <5>2 DEF EndsInError
      <4> QED BY <3>1, <4>1 DEF EndsInError
    <3>2. CASE Interrupt(p)
      BY <1>6, <3>2 DEF Interrupt, Disturbed, Starting
    <3> QED BY <3>1, <3>2
  <2>3. Migrating' <=> Migrating
    <3>1. \A q \in Starters : starts'[q].at = "migrate" <=> starts[q].at = "migrate"
      BY <1>3, <1>4, <2>2
    <3> QED BY <3>1 DEF Migrating
  <2>4. CreatedLast'
    BY <1>2, <2>1, <2>3 DEF Orderly, CreatedLast
  <2>5. OneAtATime'
    BY <1>3, <1>4, <2>1 DEF Orderly, OneAtATime, Starting
  <2>6. InStep'
    BY <1>2, <1>3, <1>4, <2>1 DEF Orderly, InStep
  <2>7. StillToDo'
    BY <1>2, <1>3, <1>4, <2>1 DEF Orderly, StillToDo, Present
  <2> QED BY <2>1, <2>2, <2>4, <2>5, <2>6, <2>7 DEF Orderly
<1> QED BY <1>5, <1>6 DEF SchemaInv

\* What is created or added was not there, and what is left to do still is
\* not: a migration adds no column to a table that it creates.
LEMMA ExecuteKeeps ==
    ASSUME SchemaInv, NEW p \in Starters, Execute(p)
    PROVE  SchemaInv'
<1> DEFINE s == Head(starts[p].todo)
           rest == Tail(starts[p].todo)
<1>1. SchemaShape /\ starts[p] \in Start /\ starts[p].todo \in Seq(Statements) /\ starts[p].todo # << >>
  BY DEF SchemaInv, SchemaShape, Start, Execute
<1>2. /\ s \in Statements /\ s \in ToSet(starts[p].todo) /\ rest \in Seq(Statements)
      /\ ToSet(rest) \subseteq ToSet(starts[p].todo)
      /\ IsInjective(starts[p].todo) => IsInjective(rest) /\ s \notin ToSet(rest)
  BY <1>1, FirstAndRest
<1>3. /\ tables' = IF s[1] = "create" THEN tables \cup {s[2]} ELSE tables
      /\ columns' = columns \cup CASE s[1] = "create" -> Late(s[2])
                                   [] s[1] = "add" -> {<<s[2], s[3]>>}
                                   [] OTHER -> {}
      /\ seeded' = (seeded \/ s = Seed)
      /\ Goes(p, starts[p].at, rest) /\ UNCHANGED <<revision, history>> /\ ~Present(s)
  BY DEF Execute
<1> HIDE DEF s, rest
<1>4. starts[p].at \in {"migrate", "create", "alter", "seed"}
  BY <1>1 DEF SchemaShape
<1>5. /\ starts' \in [Starters -> Start]
      /\ starts'[p].at = starts[p].at /\ starts'[p].todo = rest /\ starts'[p].revision = starts[p].revision
      /\ \A q \in Starters : q # p => starts'[q] = starts[q]
  BY <1>1, <1>2, <1>3, <1>4, GoesStep DEF Stages
<1>6. SchemaShape'
  <2>1. tables' \subseteq ToSet(Tables)
    BY <1>1, <1>2, <1>3, StatementKinds DEF SchemaShape, Seed
  <2>2. columns' \subseteq Columns
    <3>1. CASE s[1] = "create"
      BY <1>1, <1>3, <3>1 DEF SchemaShape, Late
    <3>2. CASE s[1] = "add"
      <4>1. <<s[2], s[3]>> \in Columns
        BY <1>2, <3>2, StatementKinds
      <4> QED BY <1>1, <1>3, <3>2, <4>1 DEF SchemaShape
    <3>3. CASE s[1] = "seed"
      BY <1>1, <1>3, <3>3 DEF SchemaShape
    <3> QED BY <1>2, <3>1, <3>2, <3>3, StatementKinds
  <2>3. seeded' \in BOOLEAN
    BY <1>3
  <2>4. revision' \in 0 .. Newest /\ history' \subseteq {"direct", "upgrade", "overlap", "interrupted", "failed"}
    BY <1>1, <1>3 DEF SchemaShape
  <2>5. ASSUME NEW q \in Starters
        PROVE  /\ starts'[q].at = "migrate" => starts'[q].revision < Newest
               /\ starts'[q].at \notin {"migrate", "create", "alter", "seed"} => starts'[q].todo = << >>
    BY <1>1, <1>4, <1>5 DEF SchemaShape
  <2> QED BY <1>5, <2>1, <2>2, <2>3, <2>4, <2>5 DEF SchemaShape
<1>7. ASSUME ~Disturbed' PROVE Orderly'
  <2>1. Orderly /\ Starting(p)
    BY <1>3, <1>4, <1>7 DEF Disturbed, SchemaInv, Starting
  <2>2. /\ OneAtATime' /\ (Migrating <=> starts[p].at = "migrate") /\ (Migrating' <=> starts'[p].at = "migrate")
        /\ \A q \in Starters : q # p => starts'[q].at \in {"down", "up"}
    BY <1>5, <2>1, OneMoves
  <2>3. InStep'
    BY <1>3, <1>5, <2>1, <2>2 DEF Orderly, InStep
  <2>4. CASE starts[p].at # "migrate"
    <3>1. revision = Newest /\ Newest = 6
      BY <1>4, <2>1, <2>4, MigrationList DEF Orderly, InStep
    <3>2. CreatedLast' /\ StillToDo'
      BY <1>3, <1>5, <2>2, <2>4, <3>1 DEF CreatedLast, StillToDo
    <3> QED BY <1>3, <2>1, <2>2, <2>3, <3>2 DEF Orderly
  <2>5. CASE starts[p].at = "migrate"
    <3> DEFINE n == revision + 1
    <3>1. n \in 1 .. Newest /\ revision \in 0 .. 6 /\ Newest = 6
      BY <1>1, <2>1, <2>5, MigrationList DEF SchemaShape, Orderly, InStep
    <3>2. /\ ToSet(starts[p].todo) \subseteq Does(n) /\ IsInjective(starts[p].todo)
          /\ \A r \in ToSet(starts[p].todo) : ~Present(r)
      BY <2>1, <2>5 DEF Orderly, StillToDo
    <3>3. s \in Does(n) /\ s \notin ToSet(rest) /\ \A r \in ToSet(rest) : r \in Does(n) /\ r # s /\ ~Present(r)
      BY <1>2, <3>2
    <3>4. ASSUME NEW r \in ToSet(rest) PROVE ~Present(r)'
      <4>1. /\ r[1] \in {"create", "add"} /\ s[1] \in {"create", "add"}
            /\ s[1] = "create" /\ r[1] = "add" => s[2] # r[2]
            /\ s[1] = "create" /\ r[1] = "create" => s[2] # r[2]
            /\ s[1] = "add" /\ r[1] = "add" => <<s[2], s[3]>> # <<r[2], r[3]>>
        BY <3>1, <3>3, MigrationProperties
      <4>2. CASE r[1] = "create"
        <5>1. r[2] \notin tables
          BY <3>3, <4>2 DEF Present
        <5>2. r[2] \notin tables'
          BY <1>3, <4>1, <4>2, <5>1
        <5> QED BY <4>2, <5>2 DEF Present
      <4>3. CASE r[1] = "add"
        <5>1. <<r[2], r[3]>> \notin columns
          BY <3>3, <4>3 DEF Present
        <5>2. CASE s[1] = "create"
          <6>1. <<r[2], r[3]>> \notin Late(s[2])
            BY <4>1, <4>3, <5>2 DEF Late
          <6>2. columns' = columns \cup Late(s[2])
            BY <1>3, <5>2
          <6> QED BY <4>3, <5>1, <6>1, <6>2 DEF Present
        <5>3. CASE s[1] = "add"
          <6>1. columns' = columns \cup {<<s[2], s[3]>>}
            BY <1>3, <5>3
          <6>2. <<r[2], r[3]>> \notin columns'
            BY <4>1, <4>3, <5>1, <5>3, <6>1
          <6> QED BY <4>3, <6>2 DEF Present
        <5> QED BY <4>1, <5>2, <5>3
      <4> QED BY <4>1, <4>2, <4>3
    <3>5. StillToDo'
      <4>1. ToSet(rest) \subseteq Does(revision' + 1) /\ IsInjective(rest)
        BY <1>2, <1>3, <3>2, <3>3
      <4> QED BY <1>5, <2>2, <3>4, <4>1 DEF StillToDo
    <3>6. CreatedLast'
      <4>1. Migrating'
        BY <1>5, <2>2, <2>5
      <4>2. ASSUME tables' \cap ToSet(Core) # {} PROVE n = Newest
        <5>1. CASE tables \cap ToSet(Core) # {}
          BY <2>1, <3>1, <5>1 DEF Orderly, CreatedLast
        <5>2. CASE tables \cap ToSet(Core) = {}
          <6>1. s[1] = "create" /\ s[2] \in ToSet(Core)
            BY <1>3, <4>2, <5>2
          <6> QED BY <3>1, <3>3, <6>1, MigrationProperties
        <5> QED BY <5>1, <5>2
      <4> QED BY <1>3, <4>1, <4>2 DEF CreatedLast
    <3> QED BY <1>3, <2>1, <2>2, <2>3, <3>5, <3>6 DEF Orderly
  <2> QED BY <2>4, <2>5
<1> QED BY <1>6, <1>7 DEF SchemaInv

\* Every step keeps it.
LEMMA SchemaPreserved == SchemaInv /\ [NextSchema]_schemaVars => SchemaInv'
<1> SUFFICES ASSUME SchemaInv, [NextSchema]_schemaVars PROVE SchemaInv'
  OBVIOUS
<1>1. CASE UNCHANGED schemaVars
  BY <1>1 DEF schemaVars, SchemaInv, SchemaShape, Disturbed, Orderly, OneAtATime, InStep, StillToDo, CreatedLast,
              Migrating, Starting, Present
<1>2. ASSUME NEW p \in Starters, StartScript(p) \/ StartDirectly(p) \/ Proceed(p) \/ Interrupt(p)
      PROVE  SchemaInv'
  BY <1>2, LaunchKeeps, MigrateKeeps, MigratedKeeps, InspectKeeps, ExecuteKeeps, DownKeeps
     DEF StartScript, StartDirectly, Proceed
<1> QED BY <1>1, <1>2 DEF NextSchema

\* Upgrades that nothing disturbs succeed, for any number of starts and
\* however often they run (20260902_01_complete_application_schema).
THEOREM UndisturbedUpgradesSucceed == SpecSchema => []UpgradesFailOnlyWhenDisturbed
<1>1. SchemaInv => UpgradesFailOnlyWhenDisturbed
  BY DEF SchemaInv, Disturbed, Orderly, UpgradesFailOnlyWhenDisturbed
<1> QED BY <1>1, SchemaInitially, SchemaPreserved, PTL DEF SpecSchema

(***************************************************************************)
(* Chunking, and the words of all chunks.                                  *)
(***************************************************************************)
AddsUp(t, s) == /\ t \in [0 .. Len(s) -> Nat] /\ t[0] = 0
                /\ \A i \in 1 .. Len(s) : t[i] = t[i - 1] + s[i]

\* Running totals are all alike.
LEMMA TotalsAreUnique ==
    ASSUME NEW s \in Seq(Nat), NEW t, AddsUp(t, s)
    PROVE  RunningTotal(s)[Len(s)] = t[Len(s)]
<1> DEFINE Totals(f) == f = [i \in 0 .. Len(s) |-> IF i = 0 THEN 0 ELSE f[i - 1] + s[i]]
           r == RunningTotal(s)
<1>1. Len(s) \in Nat
  BY LenProperties
<1>2. Totals(t)
  <2>1. t = [i \in 0 .. Len(s) |-> t[i]]
    BY DEF AddsUp
  <2>2. \A i \in 0 .. Len(s) : i # 0 => i \in 1 .. Len(s)
    BY <1>1
  <2>3. \A i \in 0 .. Len(s) : t[i] = IF i = 0 THEN 0 ELSE t[i - 1] + s[i]
    BY <2>2 DEF AddsUp
  <2> QED BY <2>1, <2>3
<1>3. r = CHOOSE f : Totals(f)
  BY DEF RunningTotal
<1> HIDE DEF r
<1>4. Totals(r)
  BY <1>2, <1>3
<1> DEFINE wrong == {i \in 0 .. Len(s) : r[i] # t[i]}
<1>5. wrong = {}
  <2>1. SUFFICES ASSUME wrong # {} PROVE FALSE
    OBVIOUS
  <2>2. wrong \in SUBSET Nat
    BY <1>1
  <2> HIDE DEF wrong
  <2>3. PICK i \in wrong : \A j \in wrong : i <= j
    BY <2>1, <2>2, LeastNumber
  <2>4. i \in 0 .. Len(s) /\ r[i] # t[i] /\ i \in Nat
    BY <2>2, <2>3 DEF wrong
  <2>5. CASE i = 0
    BY <1>1, <1>2, <1>4, <2>4, <2>5
  <2>6. CASE i # 0
    <3>1. i - 1 \in 0 .. Len(s) /\ ~(i <= i - 1)
      BY <1>1, <2>4, <2>6
    <3>2. r[i - 1] = t[i - 1]
      BY <2>3, <3>1 DEF wrong
    <3>3. r[i] = r[i - 1] + s[i] /\ t[i] = t[i - 1] + s[i]
      BY <1>2, <1>4, <2>4, <2>6
    <3> QED BY <2>4, <3>2, <3>3
  <2> QED BY <2>5, <2>6
<1> QED BY <1>1, <1>5 DEF r

\* Chunks have so many words.
Have(s, n) == \E t : AddsUp(t, s) /\ t[Len(s)] = n

WordsInv == /\ ChunkingInv /\ (ended => current = 0)
            /\ \E n \in Nat : Have(chunks, n) /\ n + current = words

\* One chunk has its words.
LEMMA OneHas == ASSUME NEW n \in Nat PROVE Have(<<n>>, n)
<1> DEFINE t == [i \in 0 .. 1 |-> IF i = 0 THEN 0 ELSE n]
<1>1. Len(<<n>>) = 1 /\ <<n>>[1] = n
  OBVIOUS
<1>2. t \in [0 .. 1 -> Nat] /\ t[0] = 0 /\ t[1] = n
  OBVIOUS
<1>3. \A i \in 1 .. 1 : i = 1
  OBVIOUS
<1> HIDE DEF t
<1>4. AddsUp(t, <<n>>) /\ t[Len(<<n>>)] = n
  BY <1>1, <1>2, <1>3 DEF AddsUp
<1> QED BY <1>4 DEF Have

\* Chunks that follow others add their words.
LEMMA BothHave ==
    ASSUME NEW s \in Seq(Nat), NEW z \in Seq(Nat), NEW m, NEW n, Have(s, m), Have(z, n)
    PROVE  s \o z \in Seq(Nat) /\ Have(s \o z, m + n)
<1>1. PICK t : AddsUp(t, s) /\ t[Len(s)] = m
  BY DEF Have
<1>2. PICK u : AddsUp(u, z) /\ u[Len(z)] = n
  BY DEF Have
<1>3. PICK a \in Nat, b \in Nat : a = Len(s) /\ b = Len(z)
  BY LenProperties
<1> DEFINE y == s \o z
           w == [i \in 0 .. a + b |-> IF i <= a THEN t[i] ELSE m + u[i - a]]
<1>4. /\ y \in Seq(Nat) /\ Len(y) = a + b
      /\ \A i \in 1 .. a + b : y[i] = IF i <= a THEN s[i] ELSE z[i - a]
  BY <1>3, ConcatProperties
<1> HIDE DEF y
<1>5. /\ t \in [0 .. a -> Nat] /\ t[0] = 0 /\ (\A i \in 1 .. a : t[i] = t[i - 1] + s[i]) /\ t[a] = m
      /\ u \in [0 .. b -> Nat] /\ u[0] = 0 /\ (\A i \in 1 .. b : u[i] = u[i - 1] + z[i]) /\ u[b] = n
  BY <1>1, <1>2, <1>3 DEF AddsUp
<1>6. m \in Nat /\ n \in Nat
  <2>1. a \in 0 .. a /\ b \in 0 .. b
    BY <1>3
  <2> QED BY <1>5, <2>1
<1>7. ASSUME NEW i \in 0 .. a + b
      PROVE  /\ i <= a => w[i] = t[i] /\ i \in 0 .. a
             /\ a <= i => w[i] = m + u[i - a] /\ i - a \in 0 .. b
  <2>1. CASE i < a
    BY <1>3, <2>1
  <2>2. CASE i = a
    <3>1. w[i] = t[a] /\ i - a = 0
      BY <1>3, <2>2
    <3> QED BY <1>3, <1>5, <1>6, <2>2, <3>1
  <2>3. CASE i > a
    BY <1>3, <2>3
  <2> QED BY <1>3, <2>1, <2>2, <2>3
<1>8. DOMAIN w = 0 .. a + b /\ w = [i \in 0 .. a + b |-> w[i]]
  OBVIOUS
<1> HIDE DEF w
<1>9. w \in [0 .. a + b -> Nat]
  <2>1. ASSUME NEW i \in 0 .. a + b PROVE w[i] \in Nat
    <3>1. CASE i <= a
      BY <1>5, <1>7, <3>1
    <3>2. CASE a <= i
      <4>1. w[i] = m + u[i - a] /\ u[i - a] \in Nat
        BY <1>5, <1>7, <3>2
      <4> QED BY <1>6, <4>1
    <3> QED BY <1>3, <3>1, <3>2
  <2> QED BY <1>8, <2>1
<1>10. w[0] = 0
  BY <1>3, <1>5, <1>7
<1>11. w[a + b] = m + n
  <2>1. a + b \in 0 .. a + b /\ a <= a + b /\ a + b - a = b
    BY <1>3
  <2> QED BY <1>5, <1>7, <2>1
<1>12. ASSUME NEW i \in 1 .. a + b PROVE w[i] = w[i - 1] + y[i]
  <2>1. CASE i <= a
    <3>1. i \in 0 .. a + b /\ i - 1 \in 0 .. a + b /\ i - 1 <= a /\ i \in 1 .. a
      BY <1>3, <2>1
    <3> QED BY <1>4, <1>5, <1>7, <2>1, <3>1
  <2>2. CASE ~(i <= a)
    <3>1. /\ i \in 0 .. a + b /\ i - 1 \in 0 .. a + b /\ a <= i - 1 /\ a <= i
          /\ i - a \in 1 .. b /\ i - 1 - a = i - a - 1
      BY <1>3, <2>2
    <3>2. w[i] = m + u[i - a] /\ w[i - 1] = m + u[i - a - 1] /\ y[i] = z[i - a]
      BY <1>4, <1>7, <2>2, <3>1
    <3>3. u[i - a] = u[i - a - 1] + z[i - a]
      BY <1>5, <3>1
    <3>4. u[i - a - 1] \in Nat /\ z[i - a] \in Nat
      <4>1. i - a - 1 \in 0 .. b
        BY <1>3, <3>1
      <4> QED BY <1>3, <1>5, <3>1, <4>1, ElementOfSeq
    <3> QED BY <1>6, <3>2, <3>3, <3>4
  <2> QED BY <2>1, <2>2
<1>13. AddsUp(w, y) /\ w[Len(y)] = m + n
  BY <1>4, <1>9, <1>10, <1>11, <1>12 DEF AddsUp
<1> QED BY <1>4, <1>13 DEF Have, y

\* No piece of a sentence is left out: the first i have i * MaxWords words,
\* or all.
LEMMA PiecesHave ==
    ASSUME NEW n \in Nat \ {0}
    PROVE  Pieces(n) \in Seq(Nat) /\ Have(Pieces(n), n)
<1>1. CASE n <= HardMaxWords
  BY <1>1, OneHas DEF Pieces
<1>2. CASE ~(n <= HardMaxWords)
  <2> DEFINE q == (n + MaxWords - 1) \div MaxWords
             piece(i) == IF i * MaxWords <= n THEN MaxWords ELSE n - (i - 1) * MaxWords
             p == Pieces(n)
             t == [i \in 0 .. q |-> IF i * MaxWords <= n THEN i * MaxWords ELSE n]
  <2>1. q \in Nat /\ q * MaxWords <= n + MaxWords - 1 /\ MaxWords \in Nat \ {0} /\ q * MaxWords >= n
    <3>1. MaxWords \in Nat \ {0}
      BY BoundType
    <3> QED BY <3>1, QuotientBound
  <2>2. p = [i \in 1 .. q |-> piece(i)] /\ p \in Seq(Nat)
    <3>1. p \in Seq(1 .. HardMaxWords)
      BY PiecesAreBounded
    <3> QED BY <1>2, <3>1, BoundType DEF Pieces
  <2> HIDE DEF q, p
  <2>3. Len(p) = q
    BY <2>1, <2>2, LenProperties
  <2>4. t \in [0 .. q -> Nat] /\ t[0] = 0
    BY <2>1
  <2>5. t[q] = n
    BY <2>1
  <2>6. ASSUME NEW i \in 1 .. q PROVE t[i] = t[i - 1] + p[i]
    <3>1. /\ (i - 1) * MaxWords < n /\ (i - 1) * MaxWords \in Int /\ i * MaxWords \in Int
          /\ (i - 1) * MaxWords = i * MaxWords - MaxWords
      BY <2>1, PieceBegins
    <3>2. i \in 0 .. q /\ i - 1 \in 0 .. q
      BY <2>1
    <3>3. t[i - 1] = (i - 1) * MaxWords
      BY <3>1, <3>2
    <3>4. t[i] = IF i * MaxWords <= n THEN i * MaxWords ELSE n
      BY <3>2
    <3>5. p[i] = IF i * MaxWords <= n THEN MaxWords ELSE n - (i - 1) * MaxWords
      BY <2>2
    <3> DEFINE before == (i - 1) * MaxWords
               after == i * MaxWords
    <3>6. /\ before \in Int /\ after \in Int /\ before = after - MaxWords
          /\ t[i - 1] = before /\ (t[i] = IF after <= n THEN after ELSE n)
          /\ p[i] = IF after <= n THEN MaxWords ELSE n - before
      BY <3>1, <3>3, <3>4, <3>5
    <3> HIDE DEF before, after, t
    <3> QED BY <2>1, <3>6
  <2> HIDE DEF t
  <2>7. AddsUp(t, p) /\ t[Len(p)] = n
    BY <2>3, <2>4, <2>5, <2>6 DEF AddsUp
  <2> QED BY <2>2, <2>7 DEF Have, p
<1> QED BY <1>1, <1>2

\* What waits for its chunk is in it when that is finished.
LEMMA FlushedHave ==
    ASSUME chunks \in Seq(Nat), current \in Nat, NEW n \in Nat, Have(chunks, n)
    PROVE  Flushed \in Seq(Nat) /\ Have(Flushed, n + current)
<1>1. CASE current > 0
  <2>1. PICK c \in Nat : c = current
    OBVIOUS
  <2>2. <<c>> \in Seq(Nat) /\ Have(<<c>>, c)
    BY OneHas
  <2>3. PICK s \in Seq(Nat) : s = chunks
    OBVIOUS
  <2>4. s \o <<c>> \in Seq(Nat) /\ Have(s \o <<c>>, n + c)
    BY <2>2, <2>3, BothHave
  <2>5. Append(s, c) = s \o <<c>>
    BY AppendIsConcat
  <2> QED BY <1>1, <2>1, <2>3, <2>4, <2>5 DEF Flushed
<1>2. CASE ~(current > 0)
  BY <1>2 DEF Flushed
<1> QED BY <1>1, <1>2

\* No word was read at first.
LEMMA WordsInitially == InitChunking => WordsInv
<1> SUFFICES ASSUME InitChunking PROVE WordsInv
  OBVIOUS
<1> DEFINE t == [i \in 0 .. 0 |-> 0]
<1>1. Len(<< >>) = 0 /\ t \in [0 .. 0 -> Nat] /\ t[0] = 0
  OBVIOUS
<1> HIDE DEF t
<1>2. Have(<< >>, 0)
  BY <1>1 DEF Have, AddsUp
<1>3. chunks = << >> /\ 0 + current = words /\ (ended => current = 0)
  BY DEF InitChunking
<1> QED BY <1>2, <1>3, ChunkingInitially DEF WordsInv

\* A sentence that is read adds its words, and nothing waits at the end.
LEMMA WordsPreserved == WordsInv /\ [NextChunking]_chunkingVars => WordsInv'
<1> SUFFICES ASSUME WordsInv, [NextChunking]_chunkingVars PROVE WordsInv'
  OBVIOUS
<1>1. ChunkingInv' /\ ChunkingInv
  BY ChunkingPreserved DEF WordsInv
<1>2. chunks \in Seq(Nat) /\ current \in Nat /\ words \in Nat
  BY <1>1, BoundType DEF ChunkingInv
<1>3. PICK m \in Nat : Have(chunks, m) /\ m + current = words
  BY DEF WordsInv
<1>4. ASSUME NEW s, NEW n \in Nat, Have(s, n), chunks' = s, n + current' = words', ended' => current' = 0
      PROVE  WordsInv'
  <2>1. Have(chunks, n)'
    BY <1>4 DEF Have, AddsUp
  <2> QED BY <1>1, <1>4, <2>1 DEF WordsInv
<1>5. CASE UNCHANGED chunkingVars
  BY <1>3, <1>4, <1>5 DEF chunkingVars, WordsInv
<1>6. CASE EndSection
  <2>1. /\ m + current \in Nat /\ Have(Flushed, m + current) /\ chunks' = Flushed /\ current' = 0
        /\ m + current + 0 = words'
    BY <1>2, <1>3, <1>6, FlushedHave DEF EndSection
  <2> QED BY <1>4, <2>1
<1>7. ASSUME NEW n \in 1 .. MaxLength, Read(n) PROVE WordsInv'
  <2>1. n \in Nat \ {0} /\ words' = words + n /\ ~ended'
    BY <1>7, WordsAssumption DEF Read
  <2>2. Flushed \in Seq(Nat) /\ Have(Flushed, m + current)
    BY <1>2, <1>3, FlushedHave
  <2>3. CASE ReadLong(n)
    <3>1. Pieces(n) \in Seq(Nat) /\ Have(Pieces(n), n)
      BY <2>1, PiecesHave
    <3>2. Have(Flushed \o Pieces(n), m + current + n)
      BY <2>2, <3>1, BothHave
    <3>3. chunks' = Flushed \o Pieces(n) /\ current' = 0
      BY <2>3 DEF ReadLong
    <3>4. m + current + n \in Nat /\ m + current + n + 0 = words'
      BY <1>2, <1>3, <2>1
    <3> QED BY <1>4, <3>2, <3>3, <3>4
  <2>4. CASE ReadSentence(n)
    <3> DEFINE joined == IF Overflows(n) THEN n ELSE current + n
               before == IF Overflows(n) THEN Flushed ELSE chunks
    <3>1. \/ chunks' = Append(before, joined) /\ current' = 0
          \/ chunks' = before /\ current' = joined
      BY <2>4 DEF ReadSentence
    <3>2. PICK b \in Nat : before \in Seq(Nat) /\ Have(before, b) /\ b + joined = words + n
      <4>1. CASE Overflows(n)
        <5>1. m + current \in Nat /\ m + current + n = words + n
          BY <1>2, <1>3, <2>1
        <5> QED BY <2>2, <4>1, <5>1
      <4>2. CASE ~Overflows(n)
        <5>1. m + (current + n) = words + n
          BY <1>2, <1>3, <2>1
        <5> QED BY <1>2, <1>3, <4>2, <5>1
      <4> QED BY <4>1, <4>2
    <3>3. joined \in Nat
      BY <1>2, <2>1
    <3> HIDE DEF joined, before
    <3>4. CASE chunks' = Append(before, joined) /\ current' = 0
      <4>1. PICK s \in Seq(Nat), j \in Nat : s = before /\ j = joined
        BY <3>2, <3>3
      <4>2. <<j>> \in Seq(Nat) /\ Have(<<j>>, j)
        BY OneHas
      <4>3. Have(s \o <<j>>, b + j)
        BY <3>2, <4>1, <4>2, BothHave
      <4>4. Append(s, j) = s \o <<j>>
        BY AppendIsConcat
      <4>5. chunks' = s \o <<j>> /\ b + j \in Nat /\ b + j + current' = words'
        BY <2>1, <3>2, <3>4, <4>1, <4>4
      <4> QED BY <1>4, <2>1, <4>3, <4>5
    <3>5. CASE chunks' = before /\ current' = joined
      <4>1. b + current' = words'
        BY <2>1, <3>2, <3>5
      <4> QED BY <1>4, <2>1, <3>2, <3>5, <4>1
    <3> QED BY <3>1, <3>4, <3>5
  <2> QED BY <1>7, <2>3, <2>4 DEF Read
<1> QED BY <1>5, <1>6, <1>7 DEF NextChunking

\* The chunks have the words of the sentences, all of them at the end, for
\* any values of the limits in their order and any sentences
\* (chunk_paragraphs).
THEOREM WordsAreKept == SpecChunking => []NoWordIsLost
<1>1. WordsInv => NoWordIsLost
  <2> SUFFICES ASSUME WordsInv PROVE NoWordIsLost
    OBVIOUS
  <2>1. PICK s \in Seq(Nat) : s = chunks
    BY DEF WordsInv, ChunkingInv
  <2>2. PICK n \in Nat : Have(s, n) /\ n + current = words
    BY <2>1 DEF WordsInv
  <2>3. RunningTotal(s)[Len(s)] = n
    BY <2>2, TotalsAreUnique DEF Have
  <2> QED BY <2>1, <2>2, <2>3 DEF NoWordIsLost, WordsInv
<1> QED BY <1>1, WordsInitially, WordsPreserved, PTL DEF SpecChunking

(***************************************************************************)
(* MCServices.  A step of the whole is one of a component, which leaves    *)
(* the variables of the others alone: what each keeps, the whole keeps.    *)
(***************************************************************************)
ServicesInv == LimiterInv /\ SchemaInv /\ CacheInv /\ ChunkingInv /\ VoicesInv

\* Every component sees its own steps only.
LEMMA ServicesStep ==
    [Next]_vars => /\ [NextThrottle]_throttleVars /\ [NextSchema]_schemaVars /\ [NextCache]_cacheVars
                   /\ [NextChunking]_chunkingVars /\ [NextVoices]_voicesVars
BY DEF vars, Next, Throttles, Upgrades, Caches, Chunks, Voices

\* The variables of the components keep their types, whatever the limits and
\* however many threads, starts, documents and readers there are.
THEOREM ServicesTypes == Spec => []TypeOK
<1>1. Init => ServicesInv
  BY LimiterInitially, SchemaInitially, CacheInitially, ChunkingInitially, VoicesInitially DEF Init, ServicesInv
<1>2. ServicesInv /\ [Next]_vars => ServicesInv'
  BY ServicesStep, LimiterPreserved, SchemaPreserved, CachePreserved, ChunkingPreserved, VoicesPreserved
     DEF ServicesInv
<1>3. ServicesInv => TypeOK
  <2> SUFFICES ASSUME ServicesInv PROVE TypeOK
    OBVIOUS
  <2>1. ThrottleTypeOK
    BY DEF ServicesInv, LimiterInv
  <2>2. SchemaTypeOK
    BY DEF ServicesInv, SchemaInv, SchemaShape, SchemaTypeOK, Start, Stages
  <2>3. CacheTypeOK
    <3>1. CacheInv
      BY DEF ServicesInv
    <3>2. \A a \in Ages : scraps[a] \in 0 .. MaxScraps
      BY <3>1, CacheAssumption DEF CacheInv, Ages
    <3>3. scraps \in [Ages -> 0 .. MaxScraps]
      BY <3>1, <3>2 DEF CacheInv
    <3>4. round.at \in {"resting", "list", "evict", "claim", "look", "synthesize"}
      BY <3>1, RoundKinds DEF CacheInv, Rounds
    <3> QED BY <3>1, <3>3, <3>4 DEF CacheInv, CacheTypeOK
  <2>4. ChunkingTypeOK
    BY BoundType DEF ServicesInv, ChunkingInv, ChunkingTypeOK
  <2>5. VoicesTypeOK
    BY DEF ServicesInv, VoicesInv, VoicesTypeOK
  <2> QED BY <2>1, <2>2, <2>3, <2>4, <2>5 DEF TypeOK
<1> QED BY <1>1, <1>2, <1>3, PTL DEF Spec
=============================================================================
