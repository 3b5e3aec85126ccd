SPECIFICATION MCFairSpec
CONSTANTS
    Routemap = {"a", "b"}
    Tab = {"t1", "t2"}
    Issuer <- MCIssuer
    Client = {"c1", "c2"}
    Confidential = {"c2"}
    Token = {1, 2, 3, 4, 5}
    AuthChoice <- MCAuthChoice
    SessionTTL = 1
    MaxTime = 1
    MaxEdits = 1
    MaxRestarts = 1
    MaxFaults = 1
    Nil = Nil
INVARIANTS
    TypeOK
    AccessFollowsLogin
PROPERTIES
    LoginSucceeds
