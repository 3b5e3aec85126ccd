------------------------------- MODULE MCOIDC -------------------------------
(***************************************************************************)
(* Two dashboards, an issuer that is accepted and one with a private       *)
(* address, and clients that the dashboards may share.                     *)
(***************************************************************************)
EXTENDS OIDC

Public  == [https |-> TRUE, addrs |-> {"public"}]
Private == [https |-> TRUE, addrs |-> {"public", "private"}]
MCIssuer == {Public, Private}

Auth(issuer, client, redirect) ==
    [issuer |-> issuer, client |-> client, redirect |-> redirect]

MCAuthChoice ==
    {Nil, Auth(Private, "c1", "a"), Auth(Public, "c1", "a"), Auth(Public, "c1", "b"),
     Auth(Public, "c2", "a")}
MCOwn == {Auth(Public, "c1", k) : k \in Routemap}

(***************************************************************************)
(* A tab on each dashboard, the first one set up as the guide asks, or two *)
(* tabs on one, whose client may be the one with a secret until an edit.   *)
(***************************************************************************)
MCInit ==
    /\ Init
    /\ page["t1"] = "a"
    /\ IF page["t2"] = "b"
       THEN auth["a"] = Auth(Public, "c1", "a")
       ELSE /\ auth["a"] \in {Auth(Public, client, "a") : client \in Client}
            /\ auth["b"] = Nil
MCFairSpec == MCInit /\ [][Next]_vars /\ Fairness

\* A tab on each of two dashboards, both set up as the guide asks.
MCSetUp ==
    /\ page["t1"] # page["t2"]
    /\ \A k \in Routemap : auth[k] = Auth(Public, "c1", k)
MCSetUpSpec == FairSpec /\ MCSetUp
=============================================================================
