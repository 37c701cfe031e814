SPECIFICATION ProgramsSpec
CONSTANTS
    Text <- AnyText
    Consoles = {s1, s2}
    Cfg <- TwoConfigs
    Apps = {"app", "test"}
    Debuggers = {"gdb"}
    MaxFaults = 1
    MaxBuilds = 2
    Kinds <- SomeKinds
    Ids = {1, 2}
    MaxPlugs <- SomePlugs
    Null = Null
    Junk = Junk
    Others = {"touch", "key"}
    MaxPosts = 4
    Images <- SomePictures
    MaxLines = 3
    MaxPasses = 2
    Streams <- SomeStreams
    WSize = 4
    MinIn = 2
    MaxMatch = 3
    MaxIn = 3
    MaxRoom = 4
    MaxResets = 1
INVARIANTS
    ProgramsTypeOK
    CalmRunStarts
    ResultIsSnapshot
    HeapIsClean
PROPERTIES
    ExitEnds
    QueryReturns
    IsPicture
    IsText
