SPECIFICATION FairSpec
CHECK_DEADLOCK FALSE
CONSTANTS
    None = None
    instance = instance
    backup = backup
    make = make
    rec = rec
    Order <- MCOrder
    Source <- MCSource
    Contested = {instance}
    Protected = {instance}
    Delayed = {backup}
    MaxClaims <- MCMaxClaims
    Makers = {make}
    Runs = {rec}
    MaxMishaps = 1
INVARIANTS
    NoneStranded
    GoneIsGone
PROPERTIES
    CompleteMeansClean
    CleanedUp
