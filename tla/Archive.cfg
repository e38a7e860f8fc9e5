\* Backups and restores with failures, expiry and unlocked writes anywhere.
CONSTANTS
    Keys = {checkpoint, history}
    Values = {v1, v2}
    Ids = {b1}
    UnlockedWrites = TRUE
    NoObject = NoObject
    Corrupt = Corrupt
    NoState = NoState
SPECIFICATION Spec
INVARIANTS TypeOK FaithfulBackup RestoredExactly StaleLast
