------------------------------ MODULE Operator ------------------------------
(***************************************************************************)
(* The operator process: the reconciler and the health checker at work on  *)
(* one store, as cmd/main.go wires them.  Each of the two modules describes *)
(* the other one by what it does to the store (ProbeResult in Reconciler;  *)
(* BuildView, PublishView and Withdraw in HealthChecker); here both are    *)
(* there with their own steps, and each module's specification, the other  *)
(* one's stand-in included, is a property of the whole.                    *)
(***************************************************************************)
EXTENDS Reconciler

CONSTANTS
    Loop, DefaultExpectedStatus,     \* as in HealthChecker
    MaxPublishes, MaxWithdrawals

ASSUME OperatorAssumption ==
    /\ Nil \notin Loop
    /\ DefaultExpectedStatus \in StatusCode
    /\ MaxPublishes \in Nat /\ MaxWithdrawals \in Nat

VARIABLES cancels, loop, sync, done, backend, publishes, withdrawals, outages

checkerVars == <<cancels, loop, sync, done, backend, outages>>
operatorVars == <<vars, checkerVars, publishes, withdrawals>>

\* The view between mergeHealth and Store.Set, as the checker's module has it.
Pending ==
    IF pc = "publish"
    THEN [key |-> req, view |-> [spec |-> rm.spec, endpoints |-> endpoints]]
    ELSE Nil

\* Any view that Reconcile can have collected.
CollectedViews ==
    [spec      : SpecChoice,
     endpoints : [Endpoint -> [path : BOOLEAN, health : {"Unknown"}] \cup {Nil}]]

\* The manager does not stop and no backend changes in the composition.
Checker == INSTANCE HealthChecker
    WITH pending <- Pending, ViewChoice <- CollectedViews,
         MaxOutages <- 0, MayShutDown <- FALSE

\* Nor is a view that is about to be published Nil.
ASSUME NilPendingAssumption == Nil \notin Checker!PendingView

OperatorInit == Init /\ Checker!Init

\* A step of Reconcile, counted when it builds a view or withdraws one.
ReconcilerStep ==
    /\ \/ (Users \/ Informers) /\ UNCHANGED reconcilerVars
       \/ \E k \in Routemap : HandleRoutemap(k) \/ Elapse(k) \/ Dequeue(k)
       \/ \E s \in Source : enqueueAffectedRoutemaps(s)
       \/ enqueueAllRoutemaps
       \/ Reconcile
    /\ publishes' = publishes + (IF pc # "publish" /\ pc' = "publish" THEN 1 ELSE 0)
    /\ publishes' <= MaxPublishes
    /\ withdrawals' = withdrawals
          + Cardinality({k \in Routemap : store[k] # Nil /\ store'[k] = Nil})
    /\ withdrawals' <= MaxWithdrawals
    /\ UNCHANGED checkerVars

\* A step of the checker or of a loop, counted when it changes the store.
CheckerStep ==
    /\ UNCHANGED <<clusterVars, HTTPRouteAvailable, queue, pc, localVars, checkable,
                   faults, restarts>>
    /\ \/ Checker!SyncStep
       \/ \E l \in Loop : Checker!LoopDone(l) \/ Checker!LoopStep(l)
    /\ probes' = probes + (IF store' # store THEN 1 ELSE 0)
    /\ probes' <= MaxProbes

OperatorSpec ==
    OperatorInit /\ [][ReconcilerStep \/ CheckerStep]_operatorVars

(***************************************************************************)
(* The probe loops do to the store only what the reconciler's module lets  *)
(* ProbeResult do, whatever view they were started on and whatever they    *)
(* still write after sync has cancelled them: what is checked and proved   *)
(* of Reconciler holds of the whole operator.                              *)
(***************************************************************************)
ImplementsReconciler == Spec

(***************************************************************************)
(* The reconciler does to the store only what the checker's module lets it *)
(* do: it publishes what it merged and nothing else, one view at a time,   *)
(* and withdraws only between two publications.                            *)
(***************************************************************************)
ImplementsChecker == Checker!Spec
=============================================================================
