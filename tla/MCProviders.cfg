CONSTANTS
    Ids = {"p1", "p2"}
    Secrets = {"k1", "k2"}
    ModelIds = {"m1", "m2"}
    ProviderInputs <- MCProviderInputs
    ModelInputs <- MCModelInputs
    SettingsInputs <- MCSettings
    DefaultSettings <- MCDefault
    TestResults = {"Connected"}
    Conversations <- MCConversations
    Window = 4
    None = None
SPECIFICATION Spec
INVARIANTS
    StoresAgree
    ConnectedIsCurrent
    PrivacyPolicyHolds
    ContextFitsBudget
    PreviewIsHonest
PROPERTIES
    ActsAsOneStore
