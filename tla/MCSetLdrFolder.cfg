SPECIFICATION Spec
CONSTANTS
    Text <- AnyText
    Files <- MCFiles
    ConsoleEnvs <- MCConsoleEnvs
INVARIANT FolderAsDocumented
