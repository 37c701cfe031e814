SPECIFICATION BuildSpec
CONSTANTS
    Text <- AnyText
    Sessions = {s1, s2}
    Common = {"a"}
    Versions <- TwoVersions
    LibArgs <- NoArgs
    Configs <- CustomConfigs
    Apps = {}
    MaxFaults = 0
    MaxUpdates = 0
    Updated <- NoUpdates
INVARIANTS
    AbuildRepairs
SYMMETRY AnyConsole
