CONSTANTS
    Session = {s1}
    Worker = {w1, w2}
    Sender = sender
    None = None
    MaxWritten = 2
    a1 = a1
    a2 = a2
    Account = {a1}
    Existing = {a1}
    Friend <- Strangers
    Request <- FindOps
    Message = {"granted", "refused", "joined", "found", "bye", "note"}
    Drops = {"waiting", "ready"}
    Kills = FALSE
    Id <- FromOne
    Presses = {"ready", "login", "create", "load", "announce", "reply"}
SPECIFICATION ShutdownSpec
INVARIANTS
    EndTypeOK
    LoopEmptiesMap
    OfflineWhenStopped
PROPERTIES
    IntactUnlessTwice
    AnsweredWhileRunning
    ShutdownCompletes
    ImplementsService
