----------------------------- MODULE Lifecycle -----------------------------
(***************************************************************************)
(* What the finalizer protocol of the reconciler promises about the views: *)
(* the operator takes hold of a Routemap before it serves its view, serves *)
(* none once it has taken note of the deletion, withdraws a view for no    *)
(* other reason, and lets go of the Routemap only when the view is gone.   *)
(* A crash loses the views.  Nothing is promised once a user has emptied   *)
(* the finalizers of a Routemap by hand.                                   *)
(***************************************************************************)
EXTENDS Naturals

CONSTANT Routemap

VARIABLES
    held,      \* the Routemaps that carry the operator's finalizer
    closing,   \* those whose deletion the operator goes by
    served,    \* those with a view
    crashes,   \* how often the operator crashed
    forced     \* finalizers were removed by hand

vars == <<held, closing, served, crashes, forced>>

Init ==
    /\ held = {}
    /\ closing = {}
    /\ served = {}
    /\ crashes = 0
    /\ forced = FALSE

Hold(k) ==
    /\ k \notin held \cup closing
    /\ held' = held \cup {k}
    /\ UNCHANGED <<closing, served, crashes, forced>>

\* The deletion may be noted while the last view is being published.
Serve(k) ==
    /\ k \in held \ closing
    /\ served' = served \cup {k}
    /\ closing' \in {closing, closing \cup {k}}
    /\ UNCHANGED <<held, crashes, forced>>

Close(k) ==
    /\ k \in held
    /\ closing' = closing \cup {k}
    /\ UNCHANGED <<held, served, crashes, forced>>

Withdraw(k) ==
    /\ k \in closing
    /\ served' = served \ {k}
    /\ UNCHANGED <<held, closing, crashes, forced>>

Release(k) ==
    /\ k \in closing \ served
    /\ held' = held \ {k}
    /\ UNCHANGED <<closing, served, crashes, forced>>

\* The next Routemap of that name may be taken up.
Forget(k) ==
    /\ k \in closing \ held
    /\ closing' = closing \ {k}
    /\ UNCHANGED <<held, served, crashes, forced>>

Crash ==
    /\ crashes' = crashes + 1
    /\ served' = {}
    /\ closing \cap held \subseteq closing'
    /\ closing' \subseteq held
    /\ UNCHANGED <<held, forced>>

Force ==
    /\ held' \subseteq Routemap
    /\ closing' \subseteq Routemap
    /\ served' \subseteq Routemap
    /\ crashes' \in {crashes, crashes + 1}
    /\ forced' = TRUE

Next ==
    \/ \E k \in Routemap :
          \/ Hold(k) \/ Serve(k) \/ Close(k)
          \/ Withdraw(k) \/ Release(k) \/ Forget(k)
    \/ Crash
    \/ Force

Spec == Init /\ [][Next]_vars
=============================================================================
