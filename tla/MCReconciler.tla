---------------------------- MODULE MCReconciler ----------------------------
(***************************************************************************)
(* Small clusters for Reconciler: an Ingress, with one host or with two,   *)
(* and an HTTPRoute in another namespace than the Routemap's.              *)
(***************************************************************************)
EXTENDS Reconciler

MCRoutemap == {[ns |-> "a", name |-> "rm"]}

Ing == [kind |-> "Ingress", ns |-> "a", name |-> "x"]
Route == [kind |-> "HTTPRoute", ns |-> "b", name |-> "x"]

MCRouteOnly == {Route}
MCOneSource == {Ing}
MCEndpoint(sources) == {[source |-> s, host |-> "h"] : s \in sources}
MCTwoHosts == {[source |-> Ing, host |-> "h"], [source |-> Ing, host |-> "h2"]}
MCRouteEndpoint == MCEndpoint(MCRouteOnly)
MCOneEndpoint == MCEndpoint(MCOneSource)

Selector(all, names, sel) == [watchAll |-> all, names |-> names, selector |-> sel]
HealthCheck(key) == [enabled |-> TRUE, annotationKey |-> key, expectedStatus |-> Nil]

\* The defaults: the own namespace, both kinds, the default annotation key.
Default == [namespaces |-> Selector(FALSE, {}, "nil"), sources |-> {},
            healthCheck |-> Nil]
\* Namespaces by label, HTTPRoutes only, another annotation key.
ByLabel == [namespaces |-> Selector(FALSE, {}, "labels"), sources |-> {"HTTPRoute"},
            healthCheck |-> HealthCheck("other")]
\* The whole cluster, which overrides the names.
WatchAll == [namespaces |-> Selector(TRUE, {"a"}, "nil"), sources |-> {},
             healthCheck |-> HealthCheck(Nil)]
\* Namespaces by name, which override the selector, malformed as it is.
ByName == [namespaces |-> Selector(FALSE, {"b"}, "malformed"),
           sources |-> {"Ingress", "HTTPRoute"}, healthCheck |-> HealthCheck("other")]
Malformed == [namespaces |-> Selector(FALSE, {}, "malformed"),
              sources |-> {"HTTPRoute"}, healthCheck |-> Nil]

MCNarrowSpecs == {ByLabel, ByName}
MCBadSpecs == {Default, Malformed}
MCOneContent == {{"default"}}
MCLiveSpecs == {WatchAll, Malformed}

\* The namespace of the Routemap does not carry the label at first.
MCInit == Init /\ "a" \notin labelled
MCSpec == MCInit /\ [][Next]_vars
=============================================================================
