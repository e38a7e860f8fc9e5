\* Two operators who clear only stale locks, on every provider: the lock as a lease.
CONSTANTS
    a = a
    b = b
    c = c
    o1 = o1
    o2 = o2
    Runs = {a, b, c}
    Operators = {o1, o2}
    Owner <- MCOwner
    Command <- MCCommand
    Providers = {"ecs", "kube", "plugin"}
    StaleOnly = TRUE
    NoLock = NoLock
SPECIFICATION Spec
INVARIANTS TypeOK
PROPERTIES ImplementsLease
CHECK_DEADLOCK FALSE
