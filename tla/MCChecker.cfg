SPECIFICATION MCFairSpec
CONSTANTS
    Nil = Nil
    Namespace = {"a"}
    AnnotationKey = {"default"}
    DefaultAnnotationKey = "default"
    StatusCode = {200, 204}
    Routemap <- MCRoutemap
    Source <- MCSource
    Endpoint <- MCEndpoint
    Loop = {l1, l2}
    DefaultExpectedStatus = 200
    ViewChoice <- MCViews
    MaxPublishes = 3
    MaxWithdrawals = 1
    MaxOutages = 1
    MayShutDown = TRUE
INVARIANTS
    TypeOK
    LoopsRegistered
PROPERTIES
    WithdrawnStaysAway
    UnwantedLoopsEnd
    ShutdownDrains
    KeptIsProbed
    
CHECK_DEADLOCK FALSE
