CONSTANTS
    None = None
    Gone = Gone
    s1 = s1
    s2 = s2
    s3 = s3
    a1 = a1
    a2 = a2
    a3 = a3
    Session = {s1, s2, s3}
    Account = {a1, a2, a3}
    Name <- NameOf
    Asks <- AsksOf
    Mortal = {s1}
    Room = {r1, r2}
    Code = {c1, c2}
    MaxPlayer = 2
SPECIFICATION FairSpec
INVARIANTS
    RoomsTypeOK
    WithinLimit
    ListedInOwnRoom
    ClosingIsRemoved
PROPERTIES
    EndsAfterHost
    AbandonedRoomEnds
