SPECIFICATION Spec
CONSTANTS
    Text <- AnyText
    Sessions = {s1}
    Common = {"a"}
    Versions <- OneVersions
    LibArgs <- OneArgs
    MaxFaults = 1
    MaxUpdates = 1
    Updated <- OneUpdated
INVARIANTS
    TypeOK
    
    
    CalmRunRepairs
PROPERTIES
    ArchiveSpecHolds
