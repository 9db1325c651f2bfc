CONSTANTS
    MaxHops = 8
    MaxResources = 16
    Apps = {"app"}
    Classes = {"Local", "Sensitive"}
    Agents = {}
    ChatSessions = {"chat"}
    Profiles = {"Balanced"}
    GrantIds = {1}
    GrantInputs <- OnceInputs
    Requests = {"chat"}
    Outcomes = {"Succeeded", "Failed"}
    Persistences = {"Once"}
    ConfirmationTTL = 1
    MaxTime = 0
    ClockMayStepBack = FALSE
    MaxExecutions = 3
    MaxSessions = 1
    MaxProposals = 0
SPECIFICATION Spec
INVARIANTS
    OnceGrantStartsOnceOverall
CHECK_DEADLOCK FALSE
