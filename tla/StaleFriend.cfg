CONSTANTS
    Session = {s1, s2}
    Worker = {w1}
    Sender = sender
    None = None
    MaxWritten = 2
    a1 = a1
    a2 = a2
    Account = {a1, a2}
    Existing = {a1, a2}
    Friend <- Mutual
    Request <- LoginOps
    Message = {"granted", "refused", "joined", "found", "bye", "note"}
    Drops = {"waiting"}
    Kills = FALSE
SPECIFICATION Spec
INVARIANTS
    FriendLookupIsValid
