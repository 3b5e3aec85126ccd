SPECIFICATION Spec
CONSTANTS
    Nil = Nil
    Namespace = {"a"}
    AnnotationKey = {"default", "other"}
    DefaultAnnotationKey = "default"
    StatusCode = {200}
    Routemap <- MCRoutemap
    Source <- MCOneSource
    Endpoint <- MCOneEndpoint
    SpecChoice <- MCBadSpecs
    SourceContent <- MCOneContent
    MaxUid = 1
    MaxGen = 2
    MaxChanges = 0
    MaxRemovals = 0
    ListMayFail = FALSE
    MaxFaults = 0
    MaxRestarts = 0
    MaxProbes = 0
INVARIANTS
    ObservedMeansServed
CHECK_DEADLOCK FALSE
