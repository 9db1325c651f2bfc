CONSTANTS
    MaxHops = 8
    MaxResources = 16
    Capabilities <- MCCapabilities
    Proposals <- MCProposals
    Grants <- MCGrants
    ChatSessions = {"chat"}
    Profiles = {"Strict", "Balanced"}
    MaxTime = 2
    MaxGrants = 2
SPECIFICATION Spec
INVARIANTS
    ExactDenyDominates
    UserAuthorityIsExact
PROPERTIES
    HardDenyIsFinal
