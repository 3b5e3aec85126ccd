---------------------------- MODULE MCDashboard ----------------------------
(***************************************************************************)
(* Publications of one Routemap: an open one with an Ingress of two rules, *)
(* a protected one in which that Ingress has lost its HealthPath and comes *)
(* after another, and one with the health check switched off.              *)
(***************************************************************************)
EXTENDS Dashboard

MCCollected ==
    {[title |-> "t1", auth |-> FALSE, checked |-> TRUE,
      refs |-> <<"x", "x">>, paths |-> {"x"}],
     [title |-> "t2", auth |-> TRUE, checked |-> TRUE,
      refs |-> <<"y", "x">>, paths |-> {"y"}],
     [title |-> "t3", auth |-> FALSE, checked |-> FALSE,
      refs |-> <<"x">>, paths |-> {"x"}]}
=============================================================================
