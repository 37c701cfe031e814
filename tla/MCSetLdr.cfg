SPECIFICATION FairSpec
CONSTANTS
    Text <- AnyText
    Files <- MCFiles
    ConsoleEnvs <- MCConsoleEnvs
INVARIANTS
    TypeOK
    LoadsSettings
    ReloadIsStable
PROPERTY CallReturns
