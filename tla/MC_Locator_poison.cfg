CONSTANTS
    Callers = {c1, c2, c3}
    Builds = {"lib", "commands"}
    CreateMayFail = TRUE
    None = None

SPECIFICATION Spec

INVARIANT
    PanicsOnlyInFailedInit
