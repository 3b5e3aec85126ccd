SPECIFICATION MCSpec
CONSTANTS
    Nil = Nil
    Namespace = {"a", "b"}
    AnnotationKey = {"default", "other"}
    DefaultAnnotationKey = "default"
    StatusCode = {200}
    Routemap <- MCRoutemap
    Source <- MCRouteOnly
    Endpoint <- MCRouteEndpoint
    SpecChoice <- MCNarrowSpecs
    SourceContent <- MCOneContent
    MaxUid = 2
    MaxGen = 1
    MaxChanges = 1
    MaxRemovals = 1
    ListMayFail = FALSE
    MaxFaults = 1
    MaxRestarts = 1
    MaxProbes = 0
INVARIANTS
    TypeOK
    NoOrphanView
    NoLostWakeup
PROPERTIES
    ViewsLiveAndDie
CHECK_DEADLOCK FALSE
