\* Two overlapping requests.  Accounts: three names let two claims of one
\* invite overlap beside the administrator who made it.  Friends: two of
\* the three pairs of people can have a row at once.  Library: a limit of
\* one upload, which a second request that passed the check exceeds; a
\* shared document, its copy and a third, which would be a second copy.
\* Themes: both readers want the one name.
SPECIFICATION Spec
CONSTANTS
    Clients = {c1, c2}
    Names = {n1, n2, n3}
    Tokens = {t1, t2}
    Invites = {i1}
    MaxSignedIn = 1
    None = None
    f1 = f1
    f2 = f2
    f3 = f3
    f4 = f4
    f5 = f5
    f6 = f6
    book = book
    cover = cover
    stamped = stamped
    late = late
    Rows <- MCRows
    Files = {f1, f2, f3, f4, f5, f6}
    FileNames = {book, cover, stamped, late}
    Candidates <- MCCandidates
    NameOf <- MCNameOf
    RenamedAs <- MCRenamedAs
    Outside <- MCOutside
    People = {n1, n2, n3}
    Handlers = {c1, c2}
    MaxFriendships = 2
    Readers = {t1, t2}
    Threads = {c1, c2}
    MaxDocuments = 3
    MaxSlots = 1
    MaxUploads = 3
    MaxOverlapping = 4
    MaxShares = 1
    StorageLimit = 1
    Inbox = {1}
    MaxEditions = 1
    Owners = {t1, t2}
    Slugs = {book}
    Callers = {c1, c2}
    Nobody = None
SYMMETRY Symmetry
INVARIANTS
    TypeOK
    UsersAreMadeOnce
    SessionsProveThePassword
    AdministratorRemains
    FilesKeepApart
    FirstRowFollowsItsFile
    FriendsBothAgreed
    OneFriendshipPerPair
    DocumentsKeepTheirFiles
    NoFileIsLeftBehind
    CollectionsHoldWhatWasPut
    
    ShareIsCopiedOnce
    OthersBreakNoTheme
\* An invite that is used up and nobody signed in is not a fault.
CHECK_DEADLOCK FALSE
