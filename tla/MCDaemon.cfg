CONSTANTS
    Daemons = {d1, d2}
    Requests = {r1, r2}
    Apps = {a1, a2}
    Paths = {p1}
    Versions = {v1, v2}
    Untrusted = Untrusted
    None = None
    Migrations = 2
    Limit = 1
    MaxSwaps = 1
SYMMETRY Symmetry
SPECIFICATION Spec
INVARIANTS
    StartsAreSound
    RegistryAgrees
    LaunchesAreSound
    AnswersAreTrue
CHECK_DEADLOCK FALSE
