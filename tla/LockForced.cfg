\* Forced unlocks at any time, on the providers whose release checks the owner.
CONSTANTS
    a = a
    b = b
    c = c
    Runs = {a, b, c}
    Operators = {o1}
    o1 = o1
    o2 = o2
    Owner <- MCOwner
    Command <- MCCommand
    Providers = {"ecs", "kube"}
    StaleOnly = FALSE
    NoLock = NoLock
SPECIFICATION Spec
INVARIANTS MutualExclusion
PROPERTIES OnlyWriterRemoves
CHECK_DEADLOCK FALSE
