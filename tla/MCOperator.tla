----------------------------- MODULE MCOperator -----------------------------
(***************************************************************************)
(* A small operator: one Routemap whose health check is edited on and off, *)
(* one Ingress with a health path for one setting of it or for both.       *)
(***************************************************************************)
EXTENDS Operator

MCRoutemap == {[ns |-> "a", name |-> "rm"]}
Ing == [kind |-> "Ingress", ns |-> "a", name |-> "x"]
MCSource == {Ing}
MCEndpoint == {[source |-> Ing, host |-> "h"]}

Watching(hc) ==
    [namespaces |-> [watchAll |-> FALSE, names |-> {}, selector |-> "nil"],
     sources |-> {"Ingress"}, healthCheck |-> hc]
MCSpecs ==
    {Watching(Nil),
     Watching([enabled |-> TRUE, annotationKey |-> "other", expectedStatus |-> Nil])}
MCContent == {{"default"}, {"default", "other"}}

\* No operation looks at the labels, and the CRD plays no part for Ingresses.
MCInit == OperatorInit /\ crd /\ labelled = {}
MCOperatorSpec == MCInit /\ [][ReconcilerStep \/ CheckerStep]_operatorVars
=============================================================================
