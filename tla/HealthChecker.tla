--------------------------- MODULE HealthChecker ---------------------------
(***************************************************************************)
(* internal/health: the checker's goroutine, which compares the store with *)
(* the probe loops it has started every 10 s, and the loops, one goroutine *)
(* each, which probe the endpoints of one Routemap and write the results   *)
(* to the store, while the reconciler publishes and withdraws views.       *)
(***************************************************************************)
EXTENDS Store

CONSTANTS
    Loop,                   \* the goroutines a probe loop may run in
    DefaultExpectedStatus,  \* 200
    ViewChoice,             \* the views the reconciler builds
    MaxPublishes,           \* bound: views published
    MaxWithdrawals,         \* bound: views withdrawn
    MaxOutages,             \* bound: changes of what a backend answers
    MayShutDown             \* may the manager stop

ASSUME CheckerAssumption ==
    /\ Nil \notin Loop
    /\ DefaultExpectedStatus \in StatusCode
    /\ ViewChoice \subseteq RoutemapView
    /\ MaxPublishes \in Nat /\ MaxWithdrawals \in Nat /\ MaxOutages \in Nat
    /\ MayShutDown \in BOOLEAN

VARIABLES
    cancels,    \* the loop whose cancel function is kept for each key
    loop,       \* the state of each goroutine
    sync,       \* where the checker's goroutine is
    done,       \* the manager's context is done
    backend,    \* the status each endpoint answers with, Nil for none in time
    pending,    \* the view the reconciler is about to publish
    publishes, withdrawals, outages

envVars == <<backend, pending, publishes, withdrawals, outages>>
vars == <<store, cancels, loop, sync, done, envVars>>

-----------------------------------------------------------------------------
Refs == {SourceRef(e) : e \in Endpoint}

(***************************************************************************)
(* A loop keeps the HealthCheckSpec it was started with.  It waits for its *)
(* ticker or its context, probes the endpoints left of a pass (todo), or   *)
(* holds the result of a probe to write.                                   *)
(***************************************************************************)
LoopState ==
    [pc        : {"free", "wait", "pass", "write"},
     key       : Routemap \cup {Nil},
     hc        : HealthCheckSpec \cup {Nil},
     cancelled : BOOLEAN,
     todo      : SUBSET Endpoint,
     ref       : Refs \cup {Nil},
     state     : HealthState]

FreeLoop ==
    [pc |-> "free", key |-> Nil, hc |-> Nil, cancelled |-> FALSE, todo |-> {},
     ref |-> Nil, state |-> "Unknown"]

\* sync: the keys still to visit, those found, and what the last Get returned.
SyncState ==
    [pc     : {"idle", "get", "act", "stopped"},
     keys   : SUBSET Routemap,
     active : SUBSET Routemap,
     key    : Routemap \cup {Nil},
     hc     : HealthCheckSpec \cup {Nil}]

IdleSync ==
    [pc |-> "idle", keys |-> {}, active |-> {}, key |-> Nil, hc |-> Nil]

PendingView == [key : Routemap, view : RoutemapView]

\* Every variable holds a value of the kind its place in the code can hold; a
\* loop knows its key, and so does sync between its Get and what it does next.
TypeOK ==
    /\ StoreTypeOK
    /\ cancels \in [Routemap -> Loop \cup {Nil}]
    /\ loop \in [Loop -> LoopState]
    /\ sync \in SyncState
    /\ done \in BOOLEAN
    /\ backend \in [Endpoint -> StatusCode \cup {Nil}]
    /\ pending \in PendingView \cup {Nil}
    /\ publishes \in Nat /\ withdrawals \in Nat /\ outages \in Nat
    /\ \A l \in Loop : loop[l].pc # "free" => loop[l].key # Nil
    /\ sync.pc = "act" => sync.key # Nil

Init ==
    /\ New
    /\ cancels = [k \in Routemap |-> Nil]
    /\ loop = [l \in Loop |-> FreeLoop]
    /\ sync = IdleSync
    /\ done = FALSE
    /\ backend \in [Endpoint -> StatusCode \cup {Nil}]
    /\ pending = Nil
    /\ publishes = 0
    /\ withdrawals = 0
    /\ outages = 0

-----------------------------------------------------------------------------
(* The checker's goroutine: Start and sync. *)

Enabled(hc) == hc # Nil /\ hc.enabled

\* The loops with a context derived from the manager's are done with it.
Cancelled(l) == loop[l].cancelled \/ done

SyncStart ==
    /\ sync.pc = "idle"
    /\ sync' = [IdleSync EXCEPT !.pc = "get", !.keys = Keys]
    /\ UNCHANGED <<store, cancels, loop, done, envVars>>

\* A key that went away since Keys is skipped and not active.
SyncGet(k) ==
    /\ sync.pc = "get"
    /\ k \in sync.keys
    /\ sync' = IF store[k] = Nil
               THEN [sync EXCEPT !.keys = sync.keys \ {k}]
               ELSE [pc     |-> "act",
                     keys   |-> sync.keys \ {k},
                     active |-> sync.active \cup {k},
                     key    |-> k,
                     hc     |-> store[k].spec.healthCheck]
    /\ UNCHANGED <<store, cancels, loop, done, envVars>>

\* Cancel the loops of the keys and forget them.
Cancel(keys) ==
    /\ loop' = [l \in Loop |->
                  IF \E k \in keys : cancels[k] = l /\ loop[l].pc # "free"
                  THEN [loop[l] EXCEPT !.cancelled = TRUE]
                  ELSE loop[l]]
    /\ cancels' = [k \in Routemap |-> IF k \in keys THEN Nil ELSE cancels[k]]

BackToGet == sync' = [sync EXCEPT !.pc = "get", !.key = Nil, !.hc = Nil]

\* Mutant: the entry is deleted and its cancel function not called.
stopLoopForgetting ==
    /\ sync.pc = "act"
    /\ ~Enabled(sync.hc)
    /\ cancels' = [cancels EXCEPT ![sync.key] = Nil]
    /\ BackToGet
    /\ UNCHANGED <<store, loop, done, envVars>>

\* Mutant: the cancel function is called and the entry kept.
stopLoopKeeping ==
    /\ sync.pc = "act"
    /\ ~Enabled(sync.hc)
    /\ loop' = [l \in Loop |->
                  IF cancels[sync.key] = l /\ loop[l].pc # "free"
                  THEN [loop[l] EXCEPT !.cancelled = TRUE]
                  ELSE loop[l]]
    /\ BackToGet
    /\ UNCHANGED <<store, cancels, done, envVars>>

stopLoop ==
    /\ sync.pc = "act"
    /\ ~Enabled(sync.hc)
    /\ Cancel({sync.key})
    /\ BackToGet
    /\ UNCHANGED <<store, done, envVars>>

\* A goroutine that has ended and whose cancel function nobody holds.
Unused(l) == loop[l].pc = "free" /\ \A k \in Routemap : cancels[k] # l

\* Mutant: a loop is started whether or not one is running.
ensureLoopAlways ==
    /\ sync.pc = "act"
    /\ Enabled(sync.hc)
    /\ \E l \in Loop :
          /\ Unused(l)
          /\ cancels' = [cancels EXCEPT ![sync.key] = l]
          /\ loop' = [loop EXCEPT ![l] =
                        [FreeLoop EXCEPT !.pc = "wait", !.key = sync.key,
                                         !.hc = sync.hc]]
    /\ BackToGet
    /\ UNCHANGED <<store, done, envVars>>

ensureLoop ==
    /\ sync.pc = "act"
    /\ Enabled(sync.hc)
    /\ IF cancels[sync.key] # Nil
       THEN UNCHANGED <<cancels, loop>>
       ELSE \E l \in Loop :
              /\ Unused(l)
              /\ cancels' = [cancels EXCEPT ![sync.key] = l]
              /\ loop' = [loop EXCEPT ![l] =
                            [FreeLoop EXCEPT !.pc = "wait", !.key = sync.key,
                                             !.hc = sync.hc]]
    /\ BackToGet
    /\ UNCHANGED <<store, done, envVars>>

\* Loops of keys that are not active any more are stopped.
SyncSweep ==
    /\ sync.pc = "get"
    /\ sync.keys = {}
    /\ Cancel(Routemap \ sync.active)
    /\ sync' = IdleSync
    /\ UNCHANGED <<store, done, envVars>>

\* Mutant: Start does not return after stopAll.
stopAllWithoutReturn ==
    /\ sync.pc = "idle"
    /\ done
    /\ Cancel(Routemap)
    /\ UNCHANGED <<store, sync, done, envVars>>

stopAll ==
    /\ sync.pc = "idle"
    /\ done
    /\ Cancel(Routemap)
    /\ sync' = [sync EXCEPT !.pc = "stopped"]
    /\ UNCHANGED <<store, done, envVars>>

SyncStep ==
    \/ SyncStart \/ \E k \in Routemap : SyncGet(k)
    \/ stopLoop \/ ensureLoop \/ SyncSweep

-----------------------------------------------------------------------------
(* The probe loops. *)

effectiveExpectedStatus(hc) ==
    IF hc # Nil /\ hc.expectedStatus # Nil THEN hc.expectedStatus
                                           ELSE DefaultExpectedStatus

\* <-ctx.Done()
LoopDone(l) ==
    /\ loop[l].pc = "wait"
    /\ Cancelled(l)
    /\ loop' = [loop EXCEPT ![l] = FreeLoop]
    /\ UNCHANGED <<store, cancels, sync, done, envVars>>


\* Mutant: endpoints without a health path are probed too.
LoopTickAll(l) ==
    /\ loop[l].pc = "wait"
    /\ LET view == store[loop[l].key]
       IN  loop' = [loop EXCEPT ![l] =
                      IF view = Nil
                      THEN FreeLoop
                      ELSE [loop[l] EXCEPT
                              !.pc = "pass",
                              !.todo = {e \in Endpoint : view.endpoints[e] # Nil}]]
    /\ UNCHANGED <<store, cancels, sync, done, envVars>>

\* The ticker has ticked.  A select with both channels ready takes either, so
\* a loop may start a pass after it was cancelled.
LoopTick(l) ==
    /\ loop[l].pc = "wait"
    /\ LET view == store[loop[l].key]
       IN  loop' = [loop EXCEPT ![l] =
                      IF view = Nil
                      THEN FreeLoop
                      ELSE [loop[l] EXCEPT
                              !.pc = "pass",
                              !.todo = {e \in Endpoint :
                                          /\ view.endpoints[e] # Nil
                                          /\ view.endpoints[e].path}]]
    /\ UNCHANGED <<store, cancels, sync, done, envVars>>

\* Mutant: a request without an answer has a state of its own.
probeTimeout(l, e) ==
    CASE backend[e] = Nil -> "Timeout"
      [] backend[e] = effectiveExpectedStatus(loop[l].hc) -> "Healthy"
      [] OTHER -> "Unhealthy"

\* The verdict on endpoint e; the request of a cancelled loop fails.
probe(l, e) ==
    IF ~Cancelled(l) /\ backend[e] = effectiveExpectedStatus(loop[l].hc)
    THEN "Healthy"
    ELSE "Unhealthy"

LoopProbe(l, e) ==
    /\ loop[l].pc = "pass"
    /\ e \in loop[l].todo
    /\ loop' = [loop EXCEPT ![l] =
                  [loop[l] EXCEPT !.pc = "write", !.todo = loop[l].todo \ {e},
                                  !.ref = SourceRef(e), !.state = probe(l, e)]]
    /\ UNCHANGED <<store, cancels, sync, done, envVars>>

LoopWrite(l) ==
    /\ loop[l].pc = "write"
    /\ UpdateEndpointHealth(loop[l].key, loop[l].ref, loop[l].state)
    /\ loop' = [loop EXCEPT ![l] =
                  [loop[l] EXCEPT !.pc = "pass", !.ref = Nil, !.state = "Unknown"]]
    /\ UNCHANGED <<cancels, sync, done, envVars>>

LoopPassEnd(l) ==
    /\ loop[l].pc = "pass"
    /\ loop[l].todo = {}
    /\ loop' = [loop EXCEPT ![l] = [loop[l] EXCEPT !.pc = "wait"]]
    /\ UNCHANGED <<store, cancels, sync, done, envVars>>

LoopStep(l) ==
    \/ LoopTick(l) \/ LoopPassEnd(l) \/ LoopWrite(l)
    \/ \E e \in Endpoint : LoopProbe(l, e)

-----------------------------------------------------------------------------
(* The rest of the process. *)

\* The reconciler builds a view, with the health states merged into it ...
BuildView(k, view) ==
    /\ pending = Nil
    /\ publishes < MaxPublishes
    /\ publishes' = publishes + 1
    /\ pending' = [key  |-> k,
                   view |-> [spec      |-> view.spec,
                             endpoints |-> mergeHealth(k, view.endpoints)]]
    /\ UNCHANGED <<store, cancels, loop, sync, done, backend, withdrawals, outages>>

\* ... and publishes it.
PublishView ==
    /\ pending # Nil
    /\ Set(pending.key, pending.view)
    /\ pending' = Nil
    /\ UNCHANGED <<cancels, loop, sync, done, backend, publishes, withdrawals,
                   outages>>

Withdraw(k) ==
    /\ pending = Nil
    /\ withdrawals < MaxWithdrawals
    /\ store[k] # Nil
    /\ withdrawals' = withdrawals + 1
    /\ Delete(k)
    /\ UNCHANGED <<cancels, loop, sync, done, backend, pending, publishes, outages>>

BackendChanges(e, status) ==
    /\ outages < MaxOutages
    /\ status # backend[e]
    /\ outages' = outages + 1
    /\ backend' = [backend EXCEPT ![e] = status]
    /\ UNCHANGED <<store, cancels, loop, sync, done, pending, publishes,
                   withdrawals>>

Shutdown ==
    /\ MayShutDown
    /\ ~done
    /\ done' = TRUE
    /\ UNCHANGED <<store, cancels, loop, sync, envVars>>

Next ==
    \/ SyncStep \/ stopAll
    \/ \E l \in Loop : LoopDone(l) \/ LoopStep(l)
    \/ \E k \in Routemap, view \in ViewChoice : BuildView(k, view)
    \/ PublishView
    \/ \E k \in Routemap : Withdraw(k)
    \/ \E e \in Endpoint, status \in StatusCode \cup {Nil} : BackendChanges(e, status)
    \/ Shutdown

Spec == Init /\ [][Next]_vars

(***************************************************************************)
(* Tickers tick and goroutines run.  A select that finds both its ticker   *)
(* and its context ready picks one at random, so a context that stays done *)
(* is noticed sooner or later: strong fairness.                            *)
(***************************************************************************)
Fairness ==
    /\ WF_vars(SyncStep)
    /\ SF_vars(stopAll)
    /\ \A l \in Loop : WF_vars(LoopStep(l)) /\ SF_vars(LoopDone(l))
    /\ WF_vars(PublishView)

FairSpec == Spec /\ Fairness

-----------------------------------------------------------------------------
(* Safety. *)

Running(l, k) == loop[l].pc # "free" /\ loop[l].key = k

(***************************************************************************)
(* The checker holds the cancel function of every loop it has not          *)
(* cancelled: ensureLoop never starts a second loop beside a live one, and *)
(* stopLoop, the sweep of sync and stopAll reach every live loop.          *)
(***************************************************************************)
LoopsRegistered ==
    \A l \in Loop, k \in Routemap :
        Running(l, k) /\ ~loop[l].cancelled => cancels[k] = l

(***************************************************************************)
(* A view that the reconciler has withdrawn does not come back through a   *)
(* probe loop that is still at work on it: only Store.Set creates a view.  *)
(***************************************************************************)
WithdrawnStaysAway ==
    [][\A k \in Routemap :
          store[k] = Nil /\ store'[k] # Nil => pending # Nil /\ pending.key = k]_vars

-----------------------------------------------------------------------------
(* Liveness. *)

Wanted(k) == store[k] # Nil /\ Enabled(store[k].spec.healthCheck)

(***************************************************************************)
(* When health checks of a Routemap stay disabled, or it stays deleted,    *)
(* its loops come to an end.                                               *)
(***************************************************************************)
UnwantedLoopsEnd ==
    \A k \in Routemap :
        <>[]~Wanted(k) => <>[](\A l \in Loop : ~Running(l, k))

\* When the manager stops, the checker returns and no loop is left behind.
ShutdownDrains ==
    done ~> (sync.pc = "stopped" /\ \A l \in Loop : loop[l].pc = "free")

(***************************************************************************)
(* When health checks of a Routemap stay enabled, a loop probes it.        *)
(* docs/overview.md: "starts/stops per-Routemap probe loops based on       *)
(* healthCheck.enabled".                                                   *)
(***************************************************************************)
EnabledIsProbed ==
    \A k \in Routemap :
        <>[](Wanted(k) /\ ~done)
            => <>[](\E l \in Loop : Running(l, k) /\ ~loop[l].cancelled)

\* The same for a Routemap that is never withdrawn, whatever else is edited.
KeptIsProbed == [](withdrawals = 0) => EnabledIsProbed

\* The health state the view's own spec gives endpoint e.
Verdict(k, e) ==
    IF backend[e] = effectiveExpectedStatus(store[k].spec.healthCheck)
    THEN "Healthy" ELSE "Unhealthy"

Checked(k, e) ==
    /\ Wanted(k) /\ ~done
    /\ store[k].endpoints[e] # Nil /\ store[k].endpoints[e].path

(***************************************************************************)
(* An endpoint that stays in the view of a Routemap with health checks and *)
(* has a health path comes to show what its backend answers, and stays so  *)
(* until the backend changes, although a reconcile may overwrite a result  *)
(* that arrives between its mergeHealth and its Store.Set.                 *)
(* docs/dashboard.md: "Healthy (last probe passed)", "Unhealthy (probe     *)
(* failed or returned unexpected status)".                                 *)
(***************************************************************************)
HealthConverges ==
    \A k \in Routemap, e \in Endpoint :
        <>[]Checked(k, e)
            => <>[](Checked(k, e) => store[k].endpoints[e].health = Verdict(k, e))

\* The loop of a Routemap goes by the expected status its spec has now.
UpToDate(k) ==
    \A l \in Loop :
        Running(l, k) /\ ~loop[l].cancelled
            => effectiveExpectedStatus(loop[l].hc)
                  = effectiveExpectedStatus(store[k].spec.healthCheck)

=============================================================================
