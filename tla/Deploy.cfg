\* A deploy and a destroy compete on every provider, with fairness; stale
\* locks may be cleared.
CONSTANTS
    a = a
    b = b
    o1 = o1
    OldImage = OldImage
    NoImage = NoImage
    NoLock = NoLock
    Runs = {a, b}
    Operators = {o1}
    Owner <- MCOwner
    Command <- MCMixed
    Providers = {"ecs", "kube", "plugin"}
    StaleOnly = TRUE
    Requests <- MCStaging
    SkipSets <- MCReplaced
SPECIFICATION FairSpec
INVARIANTS
    TypeOK
    CandidateGoneBeforeRelease
    KubeMigrationUnderLock
    EcsDeployFreesLock
PROPERTIES LockEventuallyFree
CHECK_DEADLOCK FALSE
