-------------------------- MODULE MCHealthChecker --------------------------
(***************************************************************************)
(* Small instances of HealthChecker: one Routemap, one endpoint with a     *)
(* health path, and views with the health check off, on, or on with        *)
(* another expected status.                                                *)
(***************************************************************************)
EXTENDS HealthChecker

MCRoutemap == {[ns |-> "a", name |-> "rm"]}

Ing == [kind |-> "Ingress", ns |-> "a", name |-> "x"]
MCSource == {Ing}

MCEndpoint == {[source |-> Ing, host |-> "h"]}

HealthCheck(on, status) ==
    [enabled |-> on, annotationKey |-> Nil, expectedStatus |-> status]

View(hc) ==
    [spec |-> [namespaces |-> [watchAll |-> TRUE, names |-> {}, selector |-> "nil"],
               sources |-> {}, healthCheck |-> hc],
     endpoints |-> [e \in Endpoint |-> [path |-> TRUE, health |-> "Unknown"]]]

On == View(HealthCheck(TRUE, Nil))
NoHealthCheck == View(Nil)
OnOther == View(HealthCheck(TRUE, 204))

MCOn == {On}
MCViews == {On, OnOther, NoHealthCheck}
MCEdited == {On, OnOther}

\* The backend answers 200 until it changes.
MCInit == Init /\ \A e \in Endpoint : backend[e] = 200
MCFairSpec == MCInit /\ [][Next]_vars /\ Fairness
=============================================================================
