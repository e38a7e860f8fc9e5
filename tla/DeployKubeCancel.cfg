\* A cancelled deploy on the providers whose release closure needs the
\* cancelled context or the killed provider process.
CONSTANTS
    a = a
    b = b
    o1 = o1
    OldImage = OldImage
    NoImage = NoImage
    NoLock = NoLock
    Runs = {a, b}
    Operators = {}
    Owner <- MCOwner
    Command <- MCDeploys
    Providers = {"kube", "plugin"}
    StaleOnly = TRUE
    Requests <- MCRequests
    SkipSets <- MCNoHooks
SPECIFICATION Spec
INVARIANTS DeployFreesLock
CHECK_DEADLOCK FALSE
