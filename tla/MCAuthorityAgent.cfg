CONSTANTS
    MaxHops = 8
    MaxResources = 16
    Apps = {"app"}
    Classes = {"Local"}
    Agents = {"agent"}
    ChatSessions = {}
    Profiles = {"Balanced"}
    GrantIds = {1, 2}
    GrantInputs <- AgentInputs
    Requests = {"user"}
    Outcomes = {"Succeeded"}
    Persistences = {"Once"}
    ConfirmationTTL = 1
    MaxTime = 0
    ClockMayStepBack = FALSE
    MaxExecutions = 2
    MaxSessions = 2
    MaxProposals = 2
SPECIFICATION FairSpec
INVARIANTS
    AgentsNeverSelfAuthorize
    SessionGrantsDieWithSession
PROPERTIES
    MutexIsReleased
CHECK_DEADLOCK FALSE
