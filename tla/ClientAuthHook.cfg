SPECIFICATION HookSpec
CONSTANTS
    Conf <- MCConf
INVARIANTS
    HookTypeOK
    EnforcementIsFirm
    PauseNeverRefuses
    OneEventPerLogin
