\* Two deploys compete on every provider, with or without migrations.
CONSTANTS
    a = a
    b = b
    o1 = o1
    OldImage = OldImage
    NoImage = NoImage
    NoLock = NoLock
    Runs = {a, b}
    Operators = {}
    Owner <- MCOwner
    Command <- MCDeploys
    Providers = {"ecs", "kube", "plugin"}
    StaleOnly = TRUE
    Requests <- MCRequests
    SkipSets <- MCSkipped
SPECIFICATION Spec
INVARIANTS MigratedBeforeServed
PROPERTIES RecordedIsServed
CHECK_DEADLOCK FALSE
