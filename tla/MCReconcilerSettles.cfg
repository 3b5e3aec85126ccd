SPECIFICATION FairSpec
CONSTANTS
    Nil = Nil
    Namespace = {"a"}
    AnnotationKey = {"default", "other"}
    DefaultAnnotationKey = "default"
    StatusCode = {200}
    Routemap <- MCRoutemap
    Source <- MCOneSource
    Endpoint <- MCTwoHosts
    SpecChoice <- MCLiveSpecs
    SourceContent <- MCOneContent
    MaxUid = 1
    MaxGen = 2
    MaxChanges = 1
    MaxRemovals = 0
    ListMayFail = TRUE
    MaxFaults = 0
    MaxRestarts = 0
    MaxProbes = 1
INVARIANTS
    UniformHealth
PROPERTIES
    EventuallySettled
CHECK_DEADLOCK FALSE
