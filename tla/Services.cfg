\* Limiter: two threads, so that two requests are let in at the limit, two
\* usernames for a table of one.  Schema: two starts overlap.  Cache: two
\* books that do not fit together, two deletions of one at a time.
\* Chunking: a sentence just below the hard limit, and longer ones.  Voices:
\* one of two readers has a preset, Piper has two files.
SPECIFICATION Spec
CONSTANTS
    Visitors = {v1, v2}
    Keys = {k1, k2}
    MaxAttempts = 2
    Window = 2
    MaxKeys = 1
    MaxLag = 1
    Starters = {v1, v2}
    b1 = b1
    b2 = b2
    Books = {b1, b2}
    Length <- MCLength
    CapSize = 2
    Target = 1
    MaxScraps = 1
    MaxDeletions = 2
    MinWords = 2
    TargetWords = 3
    MaxWords = 4
    HardMaxWords = 5
    MaxSentences = 3
    MaxLength = 10
    Listeners = {v1, v2}
    Saver = v1
    Kokoro = {b1}
    Piper = {b2, k2}
    Configured = b2
    Presets = {k1}
    Unset = Unset
    NoVoice = NoVoice
INVARIANTS
    TypeOK
    LimiterStaysBounded
    ChunksStayBounded
    NoWordIsLost
    UpgradesFailOnlyWhenDisturbed
    ExportsFindTheirAudio
    ShownSettingsCanBeSaved
PROPERTIES
    LockoutsEnd
    SchemaIsCompleted
\* A section ends.
CHECK_DEADLOCK FALSE
