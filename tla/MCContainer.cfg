SPECIFICATION FairSpec
CONSTANTS
    HostId = 17
    Pids = {1, 2, 3, 4}
    Image <- Good
    Files <- SomeFiles
    Envs <- SomeEnvs
    MaxHups = 2
    MaxTerms = 1
    MaxCrashes = 1
    MaxEdits = 1
PROPERTIES
    ReloadHonoured
    ServiceRecovers
    TermEndsServices
CHECK_DEADLOCK FALSE
