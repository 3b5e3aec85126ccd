SPECIFICATION MCSetUpSpec
CONSTANTS
    Routemap = {"a", "b"}
    Tab = {"t1", "t2"}
    Issuer <- MCIssuer
    Client = {"c1"}
    Confidential = {"c1"}
    Token = {1, 2, 3, 4, 5}
    AuthChoice <- MCOwn
    SessionTTL = 1
    MaxTime = 0
    MaxEdits = 0
    MaxRestarts = 0
    MaxFaults = 0
    Nil = Nil
PROPERTIES
    SetUpLogsIn
