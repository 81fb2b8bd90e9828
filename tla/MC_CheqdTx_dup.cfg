CONSTANTS
    Procs = {p1, p2}
    Aliases = {a1}
    Mnemonics = {m1}
    RandKeys = {r1, r2}
    Funded = {m1}
    AccountNumber <- MC_AccountNumber
    TimeoutInputs <- MC_TimeoutInputs
    MaxHeightRepr = 4
    MaxHeight = 3
    HarnessTimeout = 1
    NodeMayLie = TRUE
    Omitted = Omitted
    Random = Random
    None = None

SPECIFICATION Spec
INVARIANTS
    DuplicateAliasReported
