SPECIFICATION Spec
CONSTANTS
    Text <- AnyText
    Sessions = {s1, s2}
    Common = {"a"}
    Versions <- TwoVersions
    LibArgs <- TwoArgs
    MaxFaults = 1
    MaxUpdates = 0
    Updated <- OneUpdated
INVARIANTS
    CalmRunRepairs
PROPERTIES
    MembersKept
