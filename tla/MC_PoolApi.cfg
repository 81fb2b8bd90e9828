CONSTANTS
    Calls = {c1, c2, c3}
    Names = {n1}
    MaxHandles = 3
    Versions <- MC_Versions
    None = None

SPECIFICATION Spec
INVARIANTS
    TypeOK
    CallbackOnlyAfterSuccess

    
