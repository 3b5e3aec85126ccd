SPECIFICATION MCOperatorSpec
CONSTANTS
    Nil = Nil
    Namespace = {"a"}
    AnnotationKey = {"default", "other"}
    DefaultAnnotationKey = "default"
    StatusCode = {200}
    Routemap <- MCRoutemap
    Source <- MCSource
    Endpoint <- MCEndpoint
    SpecChoice <- MCSpecs
    SourceContent <- MCContent
    MaxUid = 1
    MaxGen = 2
    MaxChanges = 0
    MaxRemovals = 0
    ListMayFail = FALSE
    MaxFaults = 0
    MaxRestarts = 0
    MaxProbes = 1
    Loop = {l1}
    DefaultExpectedStatus = 200
    MaxPublishes = 2
    MaxWithdrawals = 1
PROPERTIES
    ImplementsReconciler
    ImplementsChecker
CHECK_DEADLOCK FALSE
