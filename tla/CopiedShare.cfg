\* One reader deletes the document that was shared and uploads another.
SPECIFICATION SpecLibrary
CONSTANTS
    Readers = {r1, r2}
    Threads = {t1}
    MaxDocuments = 2
    MaxSlots = 1
    MaxUploads = 2
    MaxOverlapping = 5
    MaxShares = 1
    StorageLimit = 1
    Inbox = {}
    MaxEditions = 0
INVARIANTS CopyIsWhatWasShared
CHECK_DEADLOCK FALSE
