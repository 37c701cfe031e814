SPECIFICATION FairBuildSpec
CONSTANTS
    Text <- AnyText
    Sessions = {s1}
    Common = {"a"}
    Versions <- LiveVersions
    LibArgs <- LiveArgs
    Configs = {"win"}
    Apps = {"app"}
    MaxFaults = 1
    MaxUpdates = 0
    Updated <- NoUpdates
PROPERTIES
    BuildsEnd
