------------------------------- MODULE Store -------------------------------
(***************************************************************************)
(* internal/store: the map from a Routemap's key to the view the reconciler *)
(* publishes, the health checker updates and the dashboard serves, and the *)
(* two functions of the reconciler that work on the endpoints of a view.   *)
(* Each method holds the store's mutex throughout, so each is one step.    *)
(***************************************************************************)
EXTENDS Selection, Naturals, FiniteSets

CONSTANTS
    Routemap,   \* keys of Routemaps: records with fields ns, name
    Source,     \* keys of Ingress and HTTPRoute objects: kind, ns, name
    Endpoint    \* what the objects expand to: records with fields source, host

ASSUME SourceAssumption ==
    \A s \in Source : s.kind \in SourceKind /\ s.ns \in Namespace
ASSUME RoutemapAssumption ==
    /\ Nil \notin Routemap
    /\ \A k \in Routemap : k.ns \in Namespace
ASSUME EndpointAssumption ==
    IsFiniteSet(Endpoint) /\ \A e \in Endpoint : e.source \in Source

VARIABLE store

HealthState == {"Unknown", "Healthy", "Unhealthy"}

(***************************************************************************)
(* The endpoint slice of a view: the endpoints in it, each with whether it *)
(* has a health path and with its last health state; Nil for the others.   *)
(***************************************************************************)
EndpointState == [path : BOOLEAN, health : HealthState]
Endpoints == [Endpoint -> EndpointState \cup {Nil}]
NoEndpoints == [e \in Endpoint |-> Nil]

RoutemapView == [spec : RoutemapSpec, endpoints : Endpoints]

\* Neither an endpoint state nor a view is Nil.
ASSUME NilRecordAssumption == Nil \notin EndpointState \cup RoutemapView

\* The identity health states are kept under: the kind is not part of it.
SourceRef(e) == <<e.source.ns, e.source.name>>

StoreTypeOK == store \in [Routemap -> RoutemapView \cup {Nil}]

-----------------------------------------------------------------------------
New == store = [k \in Routemap |-> Nil]

Set(key, view) == store' = [store EXCEPT ![key] = view]

Delete(key) == store' = [store EXCEPT ![key] = Nil]

Keys == {k \in Routemap : store[k] # Nil}

\* Mutant: a return after the first endpoint found.
WithHealthOfFirst(endpoints, ref, state) ==
    [e \in Endpoint |->
        IF e = CHOOSE x \in Endpoint : endpoints[x] # Nil /\ SourceRef(x) = ref
        THEN [endpoints[e] EXCEPT !.health = state]
        ELSE endpoints[e]]

(***************************************************************************)
(* Every endpoint of the view with the source ref gets the state; a        *)
(* missing key or ref changes nothing.                                     *)
(***************************************************************************)
WithHealth(endpoints, ref, state) ==
    [e \in Endpoint |->
        IF endpoints[e] # Nil /\ SourceRef(e) = ref
        THEN [endpoints[e] EXCEPT !.health = state]
        ELSE endpoints[e]]

\* Mutant: the ok of the map access is ignored and the zero view written back.
UpdateMissing(key, ref, state) ==
    store' = [store EXCEPT ![key] =
                IF store[key] = Nil
                THEN [spec |-> [namespaces |-> [watchAll |-> FALSE, names |-> {},
                                                selector |-> "nil"],
                                sources |-> {}, healthCheck |-> Nil],
                      endpoints |-> NoEndpoints]
                ELSE [spec      |-> store[key].spec,
                      endpoints |-> WithHealth(store[key].endpoints, ref, state)]]

UpdateEndpointHealth(key, ref, state) ==
    IF store[key] = Nil
    THEN UNCHANGED store
    ELSE store' = [store EXCEPT ![key] =
                      [spec      |-> @.spec,
                       endpoints |-> WithHealth(@.endpoints, ref, state)]]

-----------------------------------------------------------------------------
(***************************************************************************)
(* mergeHealth: each new endpoint takes the state the published view holds *)
(* for its source ref.  The code fills a map in the order of the old slice *)
(* (Ingresses before HTTPRoutes), so the last entry of a ref wins.         *)
(***************************************************************************)
OfRef(endpoints, ref) ==
    {e \in Endpoint : endpoints[e] # Nil /\ SourceRef(e) = ref}

LastOfRef(endpoints, ref) ==
    LET same   == OfRef(endpoints, ref)
        routes == {e \in same : e.source.kind = "HTTPRoute"}
    IN  IF routes # {} THEN CHOOSE e \in routes : TRUE
                       ELSE CHOOSE e \in same : TRUE

Merged(prev, endpoints) ==
    [e \in Endpoint |->
        IF endpoints[e] # Nil /\ OfRef(prev, SourceRef(e)) # {}
        THEN [endpoints[e] EXCEPT !.health =
                 prev[LastOfRef(prev, SourceRef(e))].health]
        ELSE endpoints[e]]

mergeHealth(key, endpoints) ==
    IF store[key] = Nil THEN endpoints
                        ELSE Merged(store[key].endpoints, endpoints)

countHealthy(endpoints) ==
    Cardinality({e \in Endpoint :
                    endpoints[e] # Nil /\ endpoints[e].health = "Healthy"})

Discovered(endpoints) == Cardinality({e \in Endpoint : endpoints[e] # Nil})
=============================================================================
