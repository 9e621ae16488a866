SPECIFICATION FactorSpec
CONSTANTS
    Panels = {t1, t2}
    Leavers = {t1, t2}
    MaxSecrets = 2
    BackupCodes = 2
INVARIANTS
    CodeSpentOnce
CHECK_DEADLOCK FALSE
