SPECIFICATION FairSpec
CONSTANTS
    Nil = Nil
    Routemap = {rm}
    Ref = {"x", "y"}
    Request = {r1}
    Collected <- MCCollected
    OIDC = TRUE
    MaxPublishes = 2
INVARIANTS
    TypeOK
    OnePublication
    UniformWhenUnlocked
PROPERTIES
    TornHeals
CHECK_DEADLOCK FALSE
