CONSTANTS
    MaxHops = 8
    MaxResources = 16
    Apps = {"app"}
    Classes = {"Local"}
    Agents = {}
    ChatSessions = {"chat"}
    Profiles = {"Balanced", "Strict"}
    GrantIds = {1}
    GrantInputs <- ExpiringInputs
    Requests = {"chat", "dry_run"}
    Outcomes = {"Succeeded", "Failed", "DryRunSucceeded", "TimedOut"}
    Persistences = {"Once", "Session", "Until", "Always"}
    ConfirmationTTL = 1
    MaxTime = 2
    ClockMayStepBack = TRUE
    MaxExecutions = 2
    MaxSessions = 1
    MaxProposals = 0
SPECIFICATION FairSpec
INVARIANTS
    OnceGrantStartsOnce
    ConfirmationIsSingleUse
    ReceiptsAreTruthful
PROPERTIES
    MutexIsReleased
CHECK_DEADLOCK FALSE
