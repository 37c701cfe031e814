SPECIFICATION BuildSpec
CONSTANTS
    Text <- AnyText
    Sessions = {s1}
    Common = {"a"}
    Versions <- CustomVersions
    LibArgs <- CustomArgs
    Configs <- CustomConfigs
    Apps = {"app"}
    MaxFaults = 0
    MaxUpdates = 0
    Updated <- NoUpdates
INVARIANTS
    CustomConfigLinks
