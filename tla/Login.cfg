CONSTANTS
    Session = {s1, s2}
    Worker = {w1, w2}
    Sender = sender
    None = None
    MaxWritten = 2
    a1 = a1
    a2 = a2
    Account = {a1, a2}
    Existing = {a1}
    Friend <- Strangers
    Request <- JoinOps
    Message = {"granted", "refused", "joined", "found", "bye", "note"}
    Drops = {"connected", "waiting", "ready", "leaving"}
    Kills = FALSE
SPECIFICATION Spec
SYMMETRY Symmetry
INVARIANTS
    TypeOK
    SingleLogin
    NamesIndex
    StateColumnTruthful
    NoFreedSessionInMaps
    RegisteredIsOpen
    ClosedUserIsInvalid
    GrantedMeansLoggedIn
PROPERTIES
    ImplementsDirectory
