SPECIFICATION Spec
CONSTANTS
    Nil = Nil
    Routemap = {rm}
    Ref = {"x", "y"}
    Request = {r1}
    Collected <- MCCollected
    OIDC = TRUE
    MaxPublishes = 2
INVARIANTS
    StatesReadWhole
CHECK_DEADLOCK FALSE
