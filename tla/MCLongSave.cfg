SPECIFICATION Spec
CONSTANTS
    Capacity = 3
    Dirs <- MCDirs
    Card0 <- MCCard
    Fat0 <- MCFat
    Hint = 7
    Unit = 3
    Text <- Cluster
    Path <- MCPath
PROPERTIES
    ImplementsFiles
