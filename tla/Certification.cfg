\* Attempts at a certification run, cancelled or dying anywhere.
CONSTANTS
    c1 = c1
    c2 = c2
    c3 = c3
    k1 = k1
    k2 = k2
    k3 = k3
    s1 = s1
    s2 = s2
    f1 = f1
    f2 = f2
    None = None
    CellOrder <- MCCellOrder
    Keys <- MCKeys
    Quota <- MCQuota
    MaxParallel = 2
    Matrices <- MCMatrices
    Orders <- MCOrders
    Others = {o1}
    Clients <- MCClients
    Capacity <- MCCapacity
    Request <- MCRequest
    MaxAttempts = 2
SPECIFICATION FairSpec
CHECK_DEADLOCK FALSE
INVARIANTS CapacityConserved HeadDoesNotFit PlanIsValid
    DependenciesPassed NoSilentMutation
PROPERTIES PassIsKept AttemptEnds
