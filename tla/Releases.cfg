SPECIFICATION FairSpec
CONSTANTS
    None = None
    a = a
    b = b
    c = c
    old = old
    new = new
    Runs = {a, b, c}
    Digests = {old, new}
    DumpEpoch = 1
    MaxCrashes = 1
    Commands <- MCCommands
    Epoch <- MCEpoch
    Histories <- MCHistories
INVARIANTS
    DeployRowIsServed
    ServedWasPromoted
    RollbackFits
    ImportedMeansLoaded
PROPERTIES
    JournalGrows
    CommandEnds
CHECK_DEADLOCK FALSE
