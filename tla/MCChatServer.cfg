CONSTANTS
    Main = Main
    s1 = s1
    s2 = s2
    s3 = s3
    Slots = {s1, s2, s3}
    Ids = {"a", "b"}
    Kinds = {"chat", "other"}
    ReuseIds = TRUE
SPECIFICATION FairSpec
INVARIANTS
    RegistryIsExact
    OnlyCancelsCancel
PROPERTIES
    RequestsAreAnswered
    CancelFreesTheService
    StopCompletes
