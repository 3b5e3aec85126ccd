SPECIFICATION FairSpec
CONSTANTS
    Nil = Nil
    Namespace = {"a"}
    AnnotationKey = {"default"}
    DefaultAnnotationKey = "default"
    StatusCode = {200}
    Routemap <- MCRoutemap
    Source <- MCSource
    Endpoint <- MCEndpoint
    Loop = {l1, l2, l3}
    DefaultExpectedStatus = 200
    ViewChoice <- MCOn
    MaxPublishes = 2
    MaxWithdrawals = 1
    MaxOutages = 0
    MayShutDown = FALSE
PROPERTIES
    EnabledIsProbed
CHECK_DEADLOCK FALSE
