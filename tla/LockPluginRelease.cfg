\* The plugin provider's release after a forced unlock.
CONSTANTS
    a = a
    b = b
    c = c
    o1 = o1
    o2 = o2
    Runs = {a, b}
    Operators = {o1}
    Owner <- MCOwner
    Command <- MCCommand
    Providers = {"plugin"}
    StaleOnly = FALSE
    NoLock = NoLock
SPECIFICATION Spec
PROPERTIES OnlyWriterRemoves
CHECK_DEADLOCK FALSE
