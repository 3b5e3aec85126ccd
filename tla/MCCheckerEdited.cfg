SPECIFICATION FairSpec
CONSTANTS
    Nil = Nil
    Namespace = {"a"}
    AnnotationKey = {"default"}
    DefaultAnnotationKey = "default"
    StatusCode = {200, 204}
    Routemap <- MCRoutemap
    Source <- MCSource
    Endpoint <- MCEndpoint
    Loop = {l1, l2, l3}
    DefaultExpectedStatus = 200
    ViewChoice <- MCEdited
    MaxPublishes = 2
    MaxWithdrawals = 0
    MaxOutages = 0
    MayShutDown = FALSE
PROPERTIES
    HealthConverges
CHECK_DEADLOCK FALSE
