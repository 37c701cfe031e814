SPECIFICATION LibSpec
CONSTANTS
    A = 12
    M = 251
    Word = 256
    Seeds <- AllSeeds
    MaxDraws = 3
    Keys <- TableKeys
    Vals = {"v"}
    HashSize = 512
    Scatter <- RandomNumbers
    Requests = {r1, r2}
    Objects = {0, 1, 2}
    Props = {1, 2}
    Values = {v1, v2}
    Inc = 2
    NoReq = NoReq
    MaxItems = 4
    Nodes = {n1, n2, n3}
    Fds = {3, 4, 5}
    Contexts = {c}
    Tags = {t}
    MaxFds = 2
    MaxHeld = 2
    None = None
    Names <- DeviceNames
    Type <- TypeOf
    Places <- DevicePlaces
    Bus <- BusOf
    MaxNodes = 3
    MaxDevices <- RoomForTwo
    MaxPlugs = 2
SYMMETRY Alike
INVARIANTS
    TypeOK
    PartsTypeOK
    CommitIsRight
    GentleVisits
    OpenIsCounted
    EntryIsOpen
    
PROPERTIES
    IsProduct
    IsList
    IsMapping
