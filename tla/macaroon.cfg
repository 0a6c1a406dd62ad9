CONSTANTS
    read = read
    write = write
    Perms <- TwoPerms
    None = None
    MaxDisturbances = 2
SPECIFICATION FairSpec
INVARIANTS
    StartedServiceFits
PROPERTIES
    FailureIsExplained
    RecoversFromCrashes
