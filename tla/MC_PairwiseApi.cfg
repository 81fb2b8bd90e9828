CONSTANTS
    Calls = {c1, c2, c3}
    TheirDids = {d1}
    MyDids = {m1, m2}
    Metas = {x1}
    None = None

SPECIFICATION Spec
INVARIANTS
    TypeOK
    CallbackOnlyAfterSuccess
