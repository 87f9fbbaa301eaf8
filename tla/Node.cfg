CONSTANTS
    None = None
    ANY = ANY
    Process = {"p", "q"}
    NoName = "none"
    MaxRefs = 2
    Confs <- Configurations

SPECIFICATION NodeSpec

INVARIANTS
    
    
    HandlersAgree
    ResponseComplete
    NoneForgotten
CHECK_DEADLOCK FALSE
