CONSTANTS
    Callers = {c1, c2, c3, c4}
    Builds = {"lib"}
    CreateMayFail = TRUE
    None = None

SPECIFICATION Spec

INVARIANTS
    TypeOK
    
