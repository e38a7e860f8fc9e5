\* An ECS migration whose status request is cut short.
CONSTANTS
    a = a
    b = b
    o1 = o1
    OldImage = OldImage
    NoImage = NoImage
    NoLock = NoLock
    Runs = {a, b}
    Operators = {}
    Owner <- MCOwner
    Command <- MCDeploys
    Providers = {"ecs"}
    StaleOnly = TRUE
    Requests <- MCRequests
    SkipSets <- MCNoHooks
SPECIFICATION Spec
INVARIANTS MigrationUnderLock
CHECK_DEADLOCK FALSE
