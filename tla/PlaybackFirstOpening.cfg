\* A title opened for the first time.
SPECIFICATION Spec
CONSTANTS
    c1 = c1
    c2 = c2
    m1 = m1
    v1 = v1
    v2 = v2
    t1 = t1
    t2 = t2
    Nothing = Nothing
    Clients <- OneClient
    Setters = {}
    Voices <- OneVoice
    Texts <- OneText
    MaxDocs = 1
    MaxChunkRows = 2
    MaxSessions = 1
PROPERTY OpeningIsRemembered
