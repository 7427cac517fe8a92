\* Two providers, three checks, any edit of config.yml, one restart.
CONSTANTS
    p = p
    q = q
    Unknown = unknown
    ProviderList <- TwoProviders
    Configs <- Edits
    CheckCap = 3
    CrashCap = 1
SPECIFICATION Spec
INVARIANTS TypeOK OneAlertPerOutage EveryAlertTried
PROPERTIES RecoveryAnswersAlert
