\* One request at a time, a setter beside it, documents that come and go.
SPECIFICATION Spec
CONSTANTS
    c1 = c1
    c2 = c2
    m1 = m1
    v1 = v1
    v2 = v2
    t1 = t1
    t2 = t2
    Nothing = Nothing
    Clients <- OneClient
    Setters <- OneSetter
    Voices <- OneVoice
    Texts <- TwoTexts
    MaxDocs = 2
    MaxChunkRows = 2
    MaxSessions = 2
SYMMETRY Symmetry
INVARIANTS
    TypeOK
    SessionsPlayTheirText
    BookmarksArePlaces
    ForgottenIsForgotten
