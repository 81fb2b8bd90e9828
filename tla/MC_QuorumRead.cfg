CONSTANTS
    Nodes <- MC_Nodes
    Preordered <- MC_Preordered
    NumberReadNodes = 2
    Faulty = {"n1"}
    MaxHeight = 2
    None = None

SPECIFICATION Spec
INVARIANTS
    TypeOK

    
