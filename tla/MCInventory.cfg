SPECIFICATION Spec
CONSTANTS
    Namespace = {"n1", "n2"}
    AnnotationKey = {"default", "other"}
    String <- MCString
    IngressChoice <- MCIngressChoice
    HTTPRouteChoice <- MCHTTPRouteChoice
    NamespacesChoice <- MCNamespacesChoice
    MaxEdits = 1
    Nil = Nil
INVARIANTS
    EachPlaceShown
PROPERTIES
    SlicesImplementViews
