CONSTANTS
    MaxHops = 8
    MaxResources = 16
    Apps = {"app"}
    Classes = {"Local", "Sensitive"}
    Agents = {}
    ChatSessions = {"chat"}
    Profiles = {"Balanced"}
    GrantIds = {1, 2}
    GrantInputs <- UserInputs
    Requests = {"chat"}
    Outcomes = {"Succeeded"}
    Persistences = {"Once"}
    ConfirmationTTL = 1
    MaxTime = 2
    ClockMayStepBack = FALSE
    MaxExecutions = 3
    MaxSessions = 2
    MaxProposals = 0
SPECIFICATION Spec
INVARIANTS
    ClaimIsNeverRefused
PROPERTIES
    StandingAuthority
CHECK_DEADLOCK FALSE
