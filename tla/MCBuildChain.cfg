SPECIFICATION BuildSpec
CONSTANTS
    Text <- AnyText
    Sessions = {s1}
    Common = {"a"}
    Versions <- ChainVersions
    LibArgs <- CustomArgs
    Configs <- CustomConfigs
    Apps = {"app"}
    MaxFaults = 1
    MaxUpdates = 0
    Updated <- NoUpdates
INVARIANTS
    BuildTypeOK
    CalleeAgrees
    AbuildRepairs
    
    DefaultConfigLinks
ACTION_CONSTRAINT ChainOrCustom
