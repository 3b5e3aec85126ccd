----------------------------- MODULE Selection -----------------------------
(***************************************************************************)
(* What a Routemap asks for: the fields of its spec that decide which      *)
(* Ingress and HTTPRoute objects it collects, the pure functions of the    *)
(* reconciler and of internal/inventory that read them, and the test the   *)
(* watch handlers use to find the Routemaps a changed object concerns.     *)
(***************************************************************************)

CONSTANTS
    Namespace,              \* the namespaces of the cluster
    AnnotationKey,          \* the annotation keys a health path may hang on
    DefaultAnnotationKey,   \* "routemap.github.com/healthcheck"
    StatusCode,             \* the HTTP status codes told apart
    Nil                     \* a nil pointer, a missing map entry, ""

ASSUME NilAssumption ==
    Nil \notin Namespace /\ Nil \notin AnnotationKey /\ Nil \notin StatusCode
ASSUME DefaultKeyAssumption == DefaultAnnotationKey \in AnnotationKey

SourceKind == {"Ingress", "HTTPRoute"}

(***************************************************************************)
(* A label selector is nil, well formed (one selector, and a namespace     *)
(* either matches it or does not) or refused by LabelSelectorAsSelector.   *)
(***************************************************************************)
NamespaceSelector ==
    [watchAll : BOOLEAN,
     names    : SUBSET Namespace,
     selector : {"nil", "labels", "malformed"}]

HealthCheckSpec ==
    [enabled        : BOOLEAN,
     annotationKey  : AnnotationKey \cup {Nil},
     expectedStatus : StatusCode \cup {Nil}]

RoutemapSpec ==
    [namespaces  : NamespaceSelector,
     sources     : SUBSET SourceKind,
     healthCheck : HealthCheckSpec \cup {Nil}]

-----------------------------------------------------------------------------
(* Resolving the namespace set. *)

\* ResolveNamespaces returns an error: the selector is consulted and malformed.
SelectorError(sel) ==
    ~sel.watchAll /\ sel.names = {} /\ sel.selector = "malformed"

\* ResolveNamespaces reads the namespaces by label only in this case.
ListsNamespaces(sel) ==
    ~sel.watchAll /\ sel.names = {} /\ sel.selector = "labels"

\* matching: the namespaces the label selector matches.
ResolveNamespaces(sel, matching) ==
    IF sel.watchAll THEN {}
    ELSE IF sel.names # {} THEN sel.names
    ELSE IF sel.selector = "labels" THEN matching
    ELSE {}

\* Reconcile falls back on the Routemap's own namespace.
EffectiveNamespaces(sel, own, matching) ==
    LET namespaces == ResolveNamespaces(sel, matching)
    IN  IF ~sel.watchAll /\ namespaces = {} /\ sel.selector = "nil"
        THEN {own}
        ELSE namespaces

effectiveSources(sources) == IF sources = {} THEN SourceKind ELSE sources

defaultAnnotationKey(hc) ==
    IF hc # Nil /\ hc.annotationKey # Nil THEN hc.annotationKey
                                          ELSE DefaultAnnotationKey

(***************************************************************************)
(* The List calls of one reconcile: per kind one for the whole cluster     *)
(* (ns = Nil) when watchAll is set, else one for each namespace.           *)
(***************************************************************************)
Kinds(spec, available) ==
    effectiveSources(spec.sources)
        \cap (IF available THEN SourceKind ELSE {"Ingress"})

ListCalls(spec, own, matching, available) ==
    [kind : Kinds(spec, available),
     ns   : IF spec.namespaces.watchAll
            THEN {Nil}
            ELSE EffectiveNamespaces(spec.namespaces, own, matching)]

\* The objects a List call returns.
Lists(call, source) ==
    /\ call.kind = source.kind
    /\ call.ns = Nil \/ call.ns = source.ns

-----------------------------------------------------------------------------
\* Mutant: a Routemap that selects namespaces by label is not considered.
MatchesWithoutSelector(ns, own, sel) ==
    sel.watchAll \/ ns \in sel.names \/ ns = own

(* The test of the watch handlers, for an object of namespace ns. *)
namespaceMatchesRoutemap(ns, own, sel) ==
    \/ sel.watchAll
    \/ ns \in sel.names
    \/ sel.selector # "nil"
    \/ ns = own

-----------------------------------------------------------------------------
(***************************************************************************)
(* What the selection means, independently of the List calls: the          *)
(* reference the collected endpoints are compared with.  As the comments   *)
(* on NamespaceSelector and in Reconcile have it, exactly one strategy     *)
(* applies, watchAll first, and no strategy means the own namespace; that  *)
(* the names come before the label selector is for the code to say.        *)
(***************************************************************************)
CoversNamespace(sel, own, matching, ns) ==
    \/ sel.watchAll
    \/ ns \in sel.names
    \/ sel.names = {} /\ sel.selector = "labels" /\ ns \in matching
    \/ sel.names = {} /\ sel.selector = "nil" /\ ns = own

Covers(spec, own, matching, available, source) ==
    /\ spec.sources = {} \/ source.kind \in spec.sources
    /\ source.kind = "HTTPRoute" => available
    /\ CoversNamespace(spec.namespaces, own, matching, source.ns)
=============================================================================
