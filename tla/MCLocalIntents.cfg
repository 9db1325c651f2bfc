CONSTANTS
    mail = mail
    player = player
    mailName = mailName
    playerName = playerName
    Names = {mailName, playerName}
    Apps = {mail, player}
    Entity <- EntityDef
    Display <- DisplayDef
    None = None
    Keep = 1
    MaxEvents = 8
    MaxTime = 2
    PastUses = {0, 2, 5}
    MaxChats = 2
    MaxAliases = 1
SYMMETRY Symmetry
SPECIFICATION Spec
INVARIANTS
    TypeOK
    EvidenceIsEnough
    CorrectionTakesEffect
    BooksAreHonest
CHECK_DEADLOCK FALSE
