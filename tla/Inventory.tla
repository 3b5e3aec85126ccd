------------------------------ MODULE Inventory ------------------------------
(***************************************************************************)
(* internal/inventory and the loops around it in the reconciler, at the    *)
(* level of slices: how Ingress and HTTPRoute objects expand to endpoints  *)
(* in order and with repetitions, and how health states are carried over   *)
(* and written by source ref.  The other modules see a view as a function  *)
(* of its endpoints (Store); this one shows that the slices implement it.  *)
(*                                                                         *)
(* Text is abstract, but for the ports: a text is a sequence of tokens,    *)
(* "" is <<>>, and the digits of a number are tokens of their own.         *)
(***************************************************************************)
EXTENDS Naturals, Integers, SequencesExt, FiniteSetsExt

CONSTANTS
    Namespace,
    AnnotationKey,
    String,            \* names, hosts, paths and path types; tokens of a text
    IngressChoice,     \* sets of Ingresses the cluster may hold
    HTTPRouteChoice,   \* sets of HTTPRoutes it may hold
    NamespacesChoice,  \* namespaces slices, and Nil for watchAll
    MaxEdits,          \* bound: changes of the cluster
    Nil

DigitChar == <<"0", "1", "2", "3", "4", "5", "6", "7", "8", "9">>

Text == Seq(String)

(***************************************************************************)
(* The fields of the objects that the mappers read.  Nil is a nil pointer; *)
(* a port number of 0 is one that is not given.                            *)
(***************************************************************************)
ServicePort == [name : Text, number : Nat]
IngressService == [name : String, port : ServicePort]
IngressPath ==
    [path : String, pathType : String \cup {Nil}, service : IngressService \cup {Nil}]
IngressRule == [host : String, paths : Seq(IngressPath) \cup {Nil}]
Ingress ==
    [ns : Namespace, name : String, annotations : SUBSET AnnotationKey,
     tls : Seq(Seq(String)), rules : Seq(IngressRule)]

PathMatch == [value : String \cup {Nil}, type : String \cup {Nil}]
BackendRef == [name : String, port : (Nat \ {0}) \cup {Nil}]
HTTPRouteRule ==
    [matches : Seq(PathMatch \cup {Nil}), backendRefs : Seq(BackendRef)]
HTTPRoute ==
    [ns : Namespace, name : String, annotations : SUBSET AnnotationKey,
     hostnames : Seq(String), rules : Seq(HTTPRouteRule)]

\* A finite set of objects with different names.
Objects(objs) ==
    /\ IsFiniteSet(objs)
    /\ \A x, y \in objs : x.ns = y.ns /\ x.name = y.name => x = y

ASSUME ObjectAssumption ==
    /\ \A objs \in IngressChoice : objs \subseteq Ingress /\ Objects(objs)
    /\ \A objs \in HTTPRouteChoice : objs \subseteq HTTPRoute /\ Objects(objs)
ASSUME StringAssumption == ToSet(DigitChar) \cup {"", "/", "Prefix"} \subseteq String
ASSUME InventoryAssumption ==
    /\ NamespacesChoice \subseteq Seq(Namespace) \cup {Nil}
    /\ MaxEdits \in Nat

VARIABLES
    ingresses, routes,   \* the objects of the cluster
    namespaces,          \* what the Routemap selects
    slice,               \* Endpoints of the published view, or Nil
    edits

vars == <<ingresses, routes, namespaces, slice, edits>>

-----------------------------------------------------------------------------
(* Text of ports and backends. *)

\* The loop of intToStr, which puts each digit in front of the ones it has.
digits[n \in Nat] ==
    IF n = 0 THEN <<>> ELSE Append(digits[n \div 10], DigitChar[(n % 10) + 1])

\* Mutant: the digits are appended.
intToStrAppending(n) ==
    IF n = 0 THEN <<"0">>
    ELSE IF n < 0 THEN <<"-">> \o Reverse(digits[-n])
    ELSE Reverse(digits[n])

intToStr(n) ==
    IF n = 0 THEN <<"0">>
    ELSE IF n < 0 THEN <<"-">> \o digits[-n]
    ELSE digits[n]

portString(port) ==
    IF port.name # <<>> THEN port.name
    ELSE IF port.number # 0 THEN intToStr(port.number)
    ELSE <<>>

pathTypeString(pt) == IF pt = Nil THEN "" ELSE pt

\* The first backend of a rule; without a port, the name alone.
backendFromRule(rule) ==
    IF rule.backendRefs = <<>> THEN Nil
    ELSE LET ref == rule.backendRefs[1]
         IN  [service |-> ref.name,
              port    |-> IF ref.port = Nil THEN <<>> ELSE intToStr(ref.port)]

matchPath(match) ==
    IF match = Nil THEN <<"/", "Prefix">>
    ELSE <<IF match.value = Nil THEN "/" ELSE match.value,
           IF match.type = Nil THEN "Prefix" ELSE match.type>>

buildTLSHostSet(ing) == UNION {ToSet(ing.tls[i]) : i \in DOMAIN ing.tls}

-----------------------------------------------------------------------------
(***************************************************************************)
(* The mappers.  An endpoint is what identifies it, whether it has a       *)
(* health path, and its health.                                            *)
(***************************************************************************)
Backend == [service : String, port : Text]

EndpointId ==
    [source : [kind : {"Ingress", "HTTPRoute"}, ns : Namespace, name : String],
     host : String, path : String, pathType : String, tls : BOOLEAN,
     backend : Backend \cup {Nil}]

HealthState == {"Unknown", "Healthy", "Unhealthy"}

SliceEndpoint == [id : EndpointId, path : BOOLEAN, health : HealthState]

ASSUME NilAssumption == Nil \notin Namespace \cup Backend \cup Seq(SliceEndpoint)

Ref(ep) == <<ep.id.source.ns, ep.id.source.name>>

NewEndpoint(kind, obj, annotationKey, host, path, pathType, tls, backend) ==
    [id     |-> [source |-> [kind |-> kind, ns |-> obj.ns, name |-> obj.name],
                 host |-> host, path |-> path, pathType |-> pathType,
                 tls |-> tls, backend |-> backend],
     path   |-> annotationKey \in obj.annotations,
     health |-> "Unknown"]

IngressToEndpoints(ing, annotationKey) ==
    LET Endpoint(rule, p) ==
            NewEndpoint("Ingress", ing, annotationKey, rule.host, p.path,
                        pathTypeString(p.pathType),
                        rule.host \in buildTLSHostSet(ing),
                        IF p.service = Nil THEN Nil
                        ELSE [service |-> p.service.name,
                              port    |-> portString(p.service.port)])
        OfRule(rule) ==
            IF rule.paths = Nil THEN <<>>
            ELSE [i \in DOMAIN rule.paths |-> Endpoint(rule, rule.paths[i])]
    IN  FlattenSeq([r \in DOMAIN ing.rules |-> OfRule(ing.rules[r])])

\* A rule without matches selects every path, as one match without a path does.
HTTPRouteToEndpoints(route, annotationKey) ==
    LET Endpoint(rule, host, at) ==
            NewEndpoint("HTTPRoute", route, annotationKey, host, at[1], at[2],
                        FALSE, backendFromRule(rule))
        OfMatch(rule, match) ==
            [h \in DOMAIN route.hostnames |->
                Endpoint(rule, route.hostnames[h], matchPath(match))]
        OfRule(rule) ==
            IF rule.matches = <<>> THEN OfMatch(rule, Nil)
            ELSE FlattenSeq([m \in DOMAIN rule.matches |->
                                OfMatch(rule, rule.matches[m])])
    IN  FlattenSeq([r \in DOMAIN route.rules |-> OfRule(route.rules[r])])

-----------------------------------------------------------------------------
(***************************************************************************)
(* The collectors: one List call for everything under watchAll (Nil), or   *)
(* one for each namespace.  A call answers in any order.                   *)
(***************************************************************************)
mapIngresses(items, annotationKey) ==
    FlattenSeq([i \in DOMAIN items |-> IngressToEndpoints(items[i], annotationKey)])

mapHTTPRoutes(items, annotationKey) ==
    FlattenSeq([i \in DOMAIN items |-> HTTPRouteToEndpoints(items[i], annotationKey)])

Calls == IF namespaces = Nil THEN <<Nil>> ELSE namespaces

InNamespace(objs, ns) == IF ns = Nil THEN objs ELSE {x \in objs : x.ns = ns}

Answers(objs) ==
    LET Orders(n) == SetToSeqs(InNamespace(objs, Calls[n]))
    IN  {lists \in [DOMAIN Calls -> UNION {Orders(n) : n \in DOMAIN Calls}] :
            \A n \in DOMAIN Calls : lists[n] \in Orders(n)}

collectIngresses(lists, annotationKey) ==
    FlattenSeq([n \in DOMAIN lists |-> mapIngresses(lists[n], annotationKey)])

collectHTTPRoutes(lists, annotationKey) ==
    FlattenSeq([n \in DOMAIN lists |-> mapHTTPRoutes(lists[n], annotationKey)])

\* What a reconcile may build.
Builds(annotationKey) ==
    {collectIngresses(ings, annotationKey) \o collectHTTPRoutes(rts, annotationKey) :
        ings \in Answers(ingresses), rts \in Answers(routes)}

\* prev is filled in the order of the old slice: the last entry of a ref wins.
mergeHealth(built) ==
    LET At(ref) == {i \in DOMAIN slice : Ref(slice[i]) = ref}
    IN  IF slice = Nil THEN built
        ELSE [i \in DOMAIN built |->
                IF At(Ref(built[i])) = {} THEN built[i]
                ELSE [built[i] EXCEPT !.health = slice[Max(At(Ref(built[i])))].health]]

\* Mutant: the range of UpdateEndpointHealth ends at the first match.
updateFirst(ref, state) ==
    [i \in DOMAIN slice |->
        IF i = Min({j \in DOMAIN slice : Ref(slice[j]) = ref})
        THEN [slice[i] EXCEPT !.health = state] ELSE slice[i]]

updated(ref, state) ==
    [i \in DOMAIN slice |->
        IF Ref(slice[i]) = ref THEN [slice[i] EXCEPT !.health = state] ELSE slice[i]]

-----------------------------------------------------------------------------
Init ==
    /\ ingresses \in IngressChoice
    /\ routes \in HTTPRouteChoice
    /\ namespaces \in NamespacesChoice
    /\ slice = Nil
    /\ edits = 0

\* Collect, merge and publish.
Reconcile(annotationKey) ==
    /\ \E built \in Builds(annotationKey) : slice' = mergeHealth(built)
    /\ UNCHANGED <<ingresses, routes, namespaces, edits>>

Withdraw == slice' = Nil /\ UNCHANGED <<ingresses, routes, namespaces, edits>>

UpdateEndpointHealth(ref, state) ==
    /\ slice # Nil
    /\ slice' = updated(ref, state)
    /\ UNCHANGED <<ingresses, routes, namespaces, edits>>

\* Users change the objects or what the Routemap selects.
Edit ==
    /\ edits < MaxEdits
    /\ edits' = edits + 1
    /\ \/ ingresses' \in IngressChoice /\ UNCHANGED <<routes, namespaces>>
       \/ routes' \in HTTPRouteChoice /\ UNCHANGED <<ingresses, namespaces>>
       \/ namespaces' \in NamespacesChoice /\ UNCHANGED <<ingresses, routes>>
    /\ UNCHANGED slice

\* A probe writes under the ref of an endpoint of the view.
Probe(state) ==
    /\ slice # Nil
    /\ \E i \in DOMAIN slice : UpdateEndpointHealth(Ref(slice[i]), state)

Next ==
    \/ \E annotationKey \in AnnotationKey : Reconcile(annotationKey)
    \/ Withdraw
    \/ \E state \in HealthState : Probe(state)
    \/ Edit

Spec == Init /\ [][Next]_vars

-----------------------------------------------------------------------------
(***************************************************************************)
(* The reference: the places of an object, rule by rule, and what is to be *)
(* shown for each, with the text of a port read back as a number.          *)
(***************************************************************************)
Digit(c) == CHOOSE d \in 0 .. 9 : DigitChar[d + 1] = c

Value(text) ==
    LET value[i \in 0 .. Len(text)] ==
            IF i = 0 THEN 0 ELSE 10 * value[i - 1] + Digit(text[i])
    IN  value[Len(text)]

ShowsNumber(text, number) ==
    /\ text # <<>> /\ ToSet(text) \subseteq ToSet(DigitChar)
    /\ text[1] # "0"
    /\ Value(text) = number

ShowsPort(text, port) ==
    IF port.name # <<>> THEN text = port.name
    ELSE IF port.number # 0 THEN ShowsNumber(text, port.number)
    ELSE text = <<>>

IngressPlaces(ing) ==
    UNION {{r} \X DOMAIN ing.rules[r].paths :
             r \in {r \in DOMAIN ing.rules : ing.rules[r].paths # Nil}}

\* Match 0 stands for a rule without matches.
RoutePlaces(route) ==
    UNION {{r} \X ((IF route.rules[r].matches = <<>> THEN {0}
                    ELSE DOMAIN route.rules[r].matches) \X DOMAIN route.hostnames) :
             r \in DOMAIN route.rules}

ShowsPath(id, ing, at) ==
    LET rule == ing.rules[at[1]]
        p    == rule.paths[at[2]]
    IN  /\ id.host = rule.host /\ id.path = p.path
        /\ id.pathType = IF p.pathType = Nil THEN "" ELSE p.pathType
        /\ id.tls <=> \E t \in DOMAIN ing.tls : rule.host \in ToSet(ing.tls[t])
        /\ IF p.service = Nil THEN id.backend = Nil
           ELSE /\ id.backend # Nil
                /\ id.backend.service = p.service.name
                /\ ShowsPort(id.backend.port, p.service.port)

ShowsMatch(id, route, at) ==
    LET rule  == route.rules[at[1]]
        match == rule.matches[at[2][1]]
        given == at[2][1] # 0 /\ match # Nil
        ref   == rule.backendRefs[1]
    IN  /\ id.host = route.hostnames[at[2][2]] /\ ~id.tls
        /\ id.path = IF given /\ match.value # Nil THEN match.value ELSE "/"
        /\ id.pathType = IF given /\ match.type # Nil THEN match.type ELSE "Prefix"
        /\ IF rule.backendRefs = <<>> THEN id.backend = Nil
           ELSE /\ id.backend # Nil
                /\ id.backend.service = ref.name
                /\ IF ref.port = Nil THEN id.backend.port = <<>>
                   ELSE ShowsNumber(id.backend.port, ref.port)

\* What is to be shown: each place of each object, for each time its
\* namespace is listed.
Listings(x) ==
    IF namespaces = Nil THEN {1} ELSE {n \in DOMAIN namespaces : namespaces[n] = x.ns}

Showings ==
    UNION ({[kind : {"Ingress"}, obj : {x}, call : Listings(x), at : IngressPlaces(x)] :
              x \in ingresses} \cup
           {[kind : {"HTTPRoute"}, obj : {x}, call : Listings(x), at : RoutePlaces(x)] :
              x \in routes})

Shows(id, s) ==
    /\ id.source = [kind |-> s.kind, ns |-> s.obj.ns, name |-> s.obj.name]
    /\ IF s.kind = "Ingress" THEN ShowsPath(id, s.obj, s.at)
       ELSE ShowsMatch(id, s.obj, s.at)

(***************************************************************************)
(* An endpoint is in the collected slice once for every place of an object *)
(* that calls for it, times how often spec.namespaces.names lists its      *)
(* namespace: none is missing, none comes from elsewhere, and repeated     *)
(* names and paths repeat endpoints (collectIngresses, collectHTTPRoutes   *)
(* and the mappers).                                                       *)
(***************************************************************************)
EachPlaceShown ==
    \A annotationKey \in AnnotationKey : \A built \in Builds(annotationKey) :
        /\ Len(built) = Cardinality(Showings)
        /\ \A i \in DOMAIN built :
              Cardinality({j \in DOMAIN built : built[j].id = built[i].id})
                 = Cardinality({s \in Showings : Shows(built[i].id, s)})

-----------------------------------------------------------------------------
(* The view as the other modules have it. *)

AnyKey == CHOOSE key \in AnnotationKey : TRUE

Endpoint ==
    {ep.id : ep \in UNION (
        {ToSet(IngressToEndpoints(x, AnyKey)) : x \in UNION IngressChoice} \cup
        {ToSet(HTTPRouteToEndpoints(x, AnyKey)) : x \in UNION HTTPRouteChoice})}

AsView(eps) ==
    LET At(e) == {i \in DOMAIN eps : eps[i].id = e}
        State(e) == LET ep == eps[Min(At(e))] IN [path |-> ep.path, health |-> ep.health]
    IN  IF eps = Nil THEN Nil
        ELSE [spec |-> Nil,
              endpoints |-> [e \in Endpoint |-> IF At(e) = {} THEN Nil ELSE State(e)]]

View == INSTANCE Store WITH
    DefaultAnnotationKey <- AnyKey, StatusCode <- {}, Routemap <- {"rm"},
    Source <- {e.source : e \in Endpoint}, store <- [k \in {"rm"} |-> AsView(slice)]

\* Neither an endpoint state nor a view is Nil.
ASSUME ViewAssumption ==
    Nil \notin View!EndpointState \cup [spec : {Nil}, endpoints : View!Endpoints]

\* What a reconcile collects, from the places of the objects alone.
Collected(annotationKey) ==
    LET Shown(e) == {s \in Showings : Shows(e, s)}
    IN  [e \in Endpoint |->
            IF Shown(e) = {} THEN Nil
            ELSE [path |-> \E s \in Shown(e) : annotationKey \in s.obj.annotations,
                  health |-> "Unknown"]]

(***************************************************************************)
(* Every step on the slice is a step of the Store module on the view: a    *)
(* reconcile publishes the collected endpoints with the health of their    *)
(* source refs merged in, a probe changes every endpoint of its ref, with  *)
(* slices that repeat endpoints, in whatever order List returns them, and  *)
(* with an Ingress and an HTTPRoute of one name (mergeHealth,              *)
(* UpdateEndpointHealth).                                                  *)
(***************************************************************************)
SlicesImplementViews ==
    [][\/ \E annotationKey \in AnnotationKey :
             View!Set("rm", [spec |-> Nil,
                             endpoints |-> View!mergeHealth("rm", Collected(annotationKey))])
       \/ View!Delete("rm")
       \/ \E ref \in {View!SourceRef(e) : e \in Endpoint}, state \in View!HealthState :
             View!UpdateEndpointHealth("rm", ref, state)]_slice
=============================================================================
