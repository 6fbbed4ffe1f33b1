SPECIFICATION FairSpec
CONSTANTS
    Quiet = 1
    MaxTime = 5
    MaxFailures = 2
    MaxFaults = 1
    Conf <- MCConf
INVARIANTS
    TypeOK
    HealthyIsEarned
PROPERTIES
    EnforcementResumes
    ExemptionConverges
