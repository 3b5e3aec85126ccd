------------------------- MODULE HealthCheckerProofs -------------------------
(***************************************************************************)
(* Theorems about the health checker, for every set of Routemaps, loops,   *)
(* endpoints and views and for every value of the bounds.                  *)
(***************************************************************************)
EXTENDS HealthChecker, TLAPS

-----------------------------------------------------------------------------
(* What the operations on endpoints, loops and the sync record return. *)

LEMMA WithHealthType ==
    ASSUME NEW eps \in Endpoints, NEW ref, NEW state \in HealthState
    PROVE  WithHealth(eps, ref, state) \in Endpoints
  BY DEF WithHealth, Endpoints, EndpointState

LEMMA LastOfRefIn ==
    ASSUME NEW eps, NEW ref, OfRef(eps, ref) # {}
    PROVE  LastOfRef(eps, ref) \in OfRef(eps, ref)
  BY DEF LastOfRef

LEMMA MergedType ==
    ASSUME NEW prev \in Endpoints, NEW eps \in Endpoints
    PROVE  Merged(prev, eps) \in Endpoints
<1>1. ASSUME NEW e \in Endpoint, OfRef(prev, SourceRef(e)) # {}
      PROVE  prev[LastOfRef(prev, SourceRef(e))].health \in HealthState
  <2>1. LastOfRef(prev, SourceRef(e)) \in OfRef(prev, SourceRef(e))
    BY <1>1, LastOfRefIn
  <2> QED
    BY <2>1 DEF OfRef, Endpoints, EndpointState
<1> QED
  BY <1>1 DEF Merged, Endpoints, EndpointState

LEMMA FreeLoopType == FreeLoop \in LoopState
  BY DEF FreeLoop, LoopState, HealthState

LEMMA IdleSyncType == IdleSync \in SyncState
  BY DEF IdleSync, SyncState

\* The writes to the state of a loop yield such a state.
LEMMA LoopWrites ==
    ASSUME NEW s \in LoopState
    PROVE  /\ [s EXCEPT !.cancelled = TRUE] \in LoopState
           /\ [s EXCEPT !.pc = "wait"] \in LoopState
           /\ \A T \in SUBSET Endpoint :
                [s EXCEPT !.pc = "pass", !.todo = T] \in LoopState
           /\ \A T \in SUBSET Endpoint, r \in Refs, h \in HealthState :
                [s EXCEPT !.pc = "write", !.todo = T, !.ref = r, !.state = h]
                    \in LoopState
           /\ [s EXCEPT !.pc = "pass", !.ref = Nil, !.state = "Unknown"] \in LoopState
           /\ \A k \in Routemap, hc \in HealthCheckSpec \cup {Nil} :
                [s EXCEPT !.pc = "wait", !.key = k, !.hc = hc] \in LoopState
<1> USE DEF LoopState
<1>1. [s EXCEPT !.cancelled = TRUE] \in LoopState
  OBVIOUS
<1>2. [s EXCEPT !.pc = "wait"] \in LoopState
  OBVIOUS
<1>3. ASSUME NEW T \in SUBSET Endpoint
      PROVE  [s EXCEPT !.pc = "pass", !.todo = T] \in LoopState
  OBVIOUS
<1>4. ASSUME NEW T \in SUBSET Endpoint, NEW r \in Refs, NEW h \in HealthState
      PROVE  [s EXCEPT !.pc = "write", !.todo = T, !.ref = r, !.state = h]
                \in LoopState
  OBVIOUS
<1>5. [s EXCEPT !.pc = "pass", !.ref = Nil, !.state = "Unknown"] \in LoopState
  BY DEF HealthState
<1>6. ASSUME NEW k \in Routemap, NEW hc \in HealthCheckSpec \cup {Nil}
      PROVE  [s EXCEPT !.pc = "wait", !.key = k, !.hc = hc] \in LoopState
  OBVIOUS
<1> QED
  BY <1>1, <1>2, <1>3, <1>4, <1>5, <1>6

-----------------------------------------------------------------------------
(* Type correctness. *)

LEMMA TypeInit == Init => TypeOK
<1> SUFFICES ASSUME Init PROVE TypeOK
  OBVIOUS
<1>1. StoreTypeOK
  BY DEF Init, New, StoreTypeOK
<1>2. /\ loop \in [Loop -> LoopState]
      /\ \A l \in Loop : loop[l].pc # "free" => loop[l].key # Nil
  <2>1. FreeLoop.pc = "free"
    BY DEF FreeLoop
  <2> QED
    BY <2>1, FreeLoopType DEF Init
<1>3. sync \in SyncState /\ (sync.pc = "act" => sync.key # Nil)
  <2>1. IdleSync.pc = "idle"
    BY DEF IdleSync
  <2> QED
    BY <2>1, IdleSyncType DEF Init
<1> QED
  BY <1>1, <1>2, <1>3 DEF Init, TypeOK

\* The part of TypeOK about the loops.
LoopsOK ==
    /\ loop \in [Loop -> LoopState]
    /\ \A l \in Loop : loop[l].pc # "free" => loop[l].key # Nil

\* One loop moves to another state.
LEMMA LoopMoves ==
    ASSUME LoopsOK, NEW l \in Loop, NEW s \in LoopState,
           s.pc # "free" => s.key # Nil,
           loop' = [loop EXCEPT ![l] = s]
    PROVE  LoopsOK'
  BY DEF LoopsOK

LEMMA CancelType ==
    ASSUME TypeOK, NEW keys, Cancel(keys)
    PROVE  LoopsOK' /\ cancels' \in [Routemap -> Loop \cup {Nil}]
<1>1. loop \in [Loop -> LoopState]
  BY DEF TypeOK
<1>2. ASSUME NEW l \in Loop
      PROVE  /\ loop'[l] \in LoopState
             /\ loop'[l].pc = loop[l].pc /\ loop'[l].key = loop[l].key
  <2>1. loop[l] \in LoopState
    BY <1>1
  <2>2. loop'[l] = loop[l] \/ loop'[l] = [loop[l] EXCEPT !.cancelled = TRUE]
    BY DEF Cancel
  <2>3. /\ [loop[l] EXCEPT !.cancelled = TRUE].pc = loop[l].pc
        /\ [loop[l] EXCEPT !.cancelled = TRUE].key = loop[l].key
    BY <2>1 DEF LoopState
  <2> QED
    BY <2>1, <2>2, <2>3, LoopWrites
<1>3. loop' \in [Loop -> LoopState]
  BY <1>2 DEF Cancel
<1> QED
  BY <1>2, <1>3 DEF Cancel, TypeOK, LoopsOK

\* sync goes on to the next key.
LEMMA BackToGetType ==
    ASSUME TypeOK, BackToGet PROVE sync' \in SyncState /\ sync'.pc = "get"
  BY DEF TypeOK, BackToGet, SyncState

LEMMA SyncType ==
    ASSUME TypeOK, SyncStep \/ stopAll PROVE TypeOK'
<1> USE DEF TypeOK, envVars
<1>t. LoopsOK
  BY DEF LoopsOK
<1>1. CASE SyncStart
  <2>1. sync' \in SyncState /\ sync'.pc = "get"
    BY <1>1, IdleSyncType DEF SyncStart, Keys, SyncState, IdleSync
  <2> QED
    BY <1>1, <2>1 DEF SyncStart, StoreTypeOK
<1>2. ASSUME NEW k \in Routemap, SyncGet(k) PROVE TypeOK'
  <2>1. /\ sync' \in SyncState
        /\ sync'.pc = "act" => sync'.key # Nil
    <3>1. CASE store[k] = Nil
      BY <1>2, <3>1 DEF SyncGet, SyncState
    <3>2. CASE store[k] # Nil
      <4>1. store[k].spec.healthCheck \in HealthCheckSpec \cup {Nil}
        BY <3>2 DEF StoreTypeOK, RoutemapView, RoutemapSpec
      <4>2. /\ sync.keys \ {k} \in SUBSET Routemap
            /\ sync.active \cup {k} \in SUBSET Routemap
        BY DEF SyncState
      <4>3. sync' = [pc |-> "act", keys |-> sync.keys \ {k},
                     active |-> sync.active \cup {k}, key |-> k,
                     hc |-> store[k].spec.healthCheck]
        BY <1>2, <3>2 DEF SyncGet
      <4> QED
        BY <4>1, <4>2, <4>3, RoutemapAssumption DEF SyncState
    <3> QED
      BY <3>1, <3>2
  <2> QED
    BY <1>2, <2>1 DEF SyncGet, StoreTypeOK
<1>3. CASE stopLoop
  <2>1. LoopsOK' /\ cancels' \in [Routemap -> Loop \cup {Nil}]
    BY <1>3, CancelType DEF stopLoop
  <2>2. sync' \in SyncState /\ sync'.pc = "get"
    BY <1>3, BackToGetType DEF stopLoop
  <2> QED
    BY <1>3, <2>1, <2>2 DEF stopLoop, LoopsOK, StoreTypeOK
<1>4. CASE ensureLoop
  <2>1. sync.key \in Routemap /\ sync.hc \in HealthCheckSpec \cup {Nil}
    BY <1>4 DEF ensureLoop, SyncState
  <2>2. LoopsOK' /\ cancels' \in [Routemap -> Loop \cup {Nil}]
    <3>1. CASE UNCHANGED <<cancels, loop>>
      BY <3>1, <1>t DEF LoopsOK
    <3>2. ASSUME NEW l \in Loop,
                 cancels' = [cancels EXCEPT ![sync.key] = l],
                 loop' = [loop EXCEPT ![l] =
                            [FreeLoop EXCEPT !.pc = "wait", !.key = sync.key,
                                             !.hc = sync.hc]]
          PROVE  LoopsOK' /\ cancels' \in [Routemap -> Loop \cup {Nil}]
      <4> DEFINE s == [FreeLoop EXCEPT !.pc = "wait", !.key = sync.key,
                                       !.hc = sync.hc]
      <4>1. s \in LoopState
        BY <2>1, FreeLoopType, LoopWrites
      <4>2. s.key # Nil
        BY <2>1, RoutemapAssumption DEF FreeLoop
      <4> HIDE DEF s
      <4>3. LoopsOK'
        BY <1>t, <3>2, <4>1, <4>2, LoopMoves DEF s
      <4> QED
        BY <2>1, <3>2, <4>3
    <3> QED
      BY <1>4, <3>1, <3>2 DEF ensureLoop
  <2>3. sync' \in SyncState /\ sync'.pc = "get"
    BY <1>4, BackToGetType DEF ensureLoop
  <2> QED
    BY <1>4, <2>2, <2>3 DEF ensureLoop, LoopsOK, StoreTypeOK
<1>5. CASE SyncSweep
  <2>1. LoopsOK' /\ cancels' \in [Routemap -> Loop \cup {Nil}]
    BY <1>5, CancelType DEF SyncSweep
  <2> QED
    BY <1>5, <2>1, IdleSyncType DEF SyncSweep, LoopsOK, IdleSync, StoreTypeOK
<1>6. CASE stopAll
  <2>1. LoopsOK' /\ cancels' \in [Routemap -> Loop \cup {Nil}]
    BY <1>6, CancelType DEF stopAll
  <2>2. sync' \in SyncState /\ sync'.pc = "stopped"
    BY <1>6 DEF stopAll, SyncState
  <2> QED
    BY <1>6, <2>1, <2>2 DEF stopAll, LoopsOK, StoreTypeOK
<1> QED
  BY <1>1, <1>2, <1>3, <1>4, <1>5, <1>6 DEF SyncStep

LEMMA LoopType ==
    ASSUME TypeOK, NEW l \in Loop, LoopDone(l) \/ LoopStep(l) PROVE TypeOK'
<1> USE DEF TypeOK, envVars
<1>t. LoopsOK /\ loop[l] \in LoopState
  BY DEF LoopsOK
<1>k. loop[l].pc # "free" => loop[l].key \in Routemap
  BY <1>t DEF LoopState
<1>f. FreeLoop.pc = "free"
  BY DEF FreeLoop
<1>1. CASE LoopDone(l)
  <2>1. LoopsOK'
    BY <1>1, <1>t, <1>f, FreeLoopType, LoopMoves DEF LoopDone
  <2> QED
    BY <1>1, <2>1 DEF LoopDone, LoopsOK, StoreTypeOK
<1>2. CASE LoopTick(l)
  <2> DEFINE view == store[loop[l].key]
             T == {e \in Endpoint : view.endpoints[e] # Nil /\ view.endpoints[e].path}
             s == [loop[l] EXCEPT !.pc = "pass", !.todo = T]
  <2>1. s \in LoopState
    <3>1. T \in SUBSET Endpoint
      OBVIOUS
    <3> HIDE DEF T
    <3> QED
      BY <1>t, <3>1, LoopWrites
  <2>2. s.key # Nil
    BY <1>2, <1>t DEF LoopTick, LoopState
  <2>3. loop' = [loop EXCEPT ![l] = IF view = Nil THEN FreeLoop ELSE s]
    BY <1>2 DEF LoopTick
  <2> HIDE DEF s, view
  <2>4. LoopsOK'
    BY <1>t, <1>f, <2>1, <2>2, <2>3, FreeLoopType, LoopMoves
  <2> QED
    BY <1>2, <2>4 DEF LoopTick, LoopsOK, StoreTypeOK
<1>3. ASSUME NEW e \in Endpoint, LoopProbe(l, e) PROVE TypeOK'
  <2> DEFINE T == loop[l].todo \ {e}
             s == [loop[l] EXCEPT !.pc = "write", !.todo = T,
                                  !.ref = SourceRef(e), !.state = probe(l, e)]
  <2>1. s \in LoopState
    <3>1. T \in SUBSET Endpoint /\ SourceRef(e) \in Refs
      BY <1>t DEF LoopState, Refs
    <3>2. probe(l, e) \in HealthState
      BY DEF probe, HealthState
    <3> HIDE DEF T
    <3> QED
      BY <1>t, <3>1, <3>2, LoopWrites
  <2>2. s.key # Nil
    BY <1>3, <1>t DEF LoopProbe, LoopState
  <2>3. loop' = [loop EXCEPT ![l] = s]
    BY <1>3 DEF LoopProbe
  <2> HIDE DEF s
  <2>4. LoopsOK'
    BY <1>t, <2>1, <2>2, <2>3, LoopMoves
  <2> QED
    BY <1>3, <2>4 DEF LoopProbe, LoopsOK, StoreTypeOK
<1>4. CASE LoopWrite(l)
  <2> DEFINE s == [loop[l] EXCEPT !.pc = "pass", !.ref = Nil, !.state = "Unknown"]
  <2>1. s \in LoopState
    BY <1>t, LoopWrites
  <2>2. s.key # Nil
    BY <1>4, <1>t DEF LoopWrite, LoopState
  <2>3. loop' = [loop EXCEPT ![l] = s]
    BY <1>4 DEF LoopWrite
  <2> HIDE DEF s
  <2>4. LoopsOK'
    BY <1>t, <2>1, <2>2, <2>3, LoopMoves
  <2>5. StoreTypeOK'
    <3> DEFINE k == loop[l].key
               v == [spec |-> store[k].spec,
                     endpoints |-> WithHealth(store[k].endpoints, loop[l].ref,
                                              loop[l].state)]
    <3>1. k \in Routemap /\ loop[l].state \in HealthState
      BY <1>4, <1>k, <1>t DEF LoopWrite, LoopState
    <3>2. store[k] # Nil => v \in RoutemapView
      BY <3>1, WithHealthType DEF StoreTypeOK, RoutemapView
    <3>3. IF store[k] = Nil THEN UNCHANGED store
                            ELSE store' = [store EXCEPT ![k] = v]
      BY <1>4 DEF LoopWrite, UpdateEndpointHealth
    <3> HIDE DEF v, k
    <3> QED
      BY <3>1, <3>2, <3>3 DEF StoreTypeOK
  <2> QED
    BY <1>4, <2>4, <2>5 DEF LoopWrite, LoopsOK
<1>5. CASE LoopPassEnd(l)
  <2>1. /\ [loop[l] EXCEPT !.pc = "wait"] \in LoopState
        /\ [loop[l] EXCEPT !.pc = "wait"].key # Nil
    <3>1. [loop[l] EXCEPT !.pc = "wait"] \in LoopState
      BY <1>t, LoopWrites
    <3>2. loop[l].key # Nil
      BY <1>5, <1>t DEF LoopPassEnd
    <3>3. [loop[l] EXCEPT !.pc = "wait"].key = loop[l].key
      BY <1>t DEF LoopState
    <3> QED
      BY <3>1, <3>2, <3>3
  <2>2. LoopsOK'
    BY <1>5, <1>t, <2>1, LoopMoves DEF LoopPassEnd
  <2> QED
    BY <1>5, <2>2 DEF LoopPassEnd, LoopsOK, StoreTypeOK
<1> QED
  BY <1>1, <1>2, <1>3, <1>4, <1>5 DEF LoopStep

LEMMA TypeStep == TypeOK /\ [Next]_vars => TypeOK'
<1> SUFFICES ASSUME TypeOK, [Next]_vars PROVE TypeOK'
  OBVIOUS
<1> USE DEF TypeOK
<1>1. CASE SyncStep \/ stopAll
  BY <1>1, SyncType
<1>2. ASSUME NEW l \in Loop, LoopDone(l) \/ LoopStep(l) PROVE TypeOK'
  BY <1>2, LoopType
<1>3. ASSUME NEW k \in Routemap, NEW view \in ViewChoice, BuildView(k, view)
      PROVE  TypeOK'
  <2>1. view \in RoutemapView
    BY CheckerAssumption
  <2>2. mergeHealth(k, view.endpoints) \in Endpoints
    BY <2>1, MergedType DEF mergeHealth, StoreTypeOK, RoutemapView
  <2>3. pending' \in PendingView
    BY <1>3, <2>1, <2>2 DEF BuildView, PendingView, RoutemapView
  <2> QED
    BY <1>3, <2>3 DEF BuildView, StoreTypeOK
<1>4. CASE PublishView
  BY <1>4 DEF PublishView, Set, PendingView, StoreTypeOK
<1>5. ASSUME NEW k \in Routemap, Withdraw(k) PROVE TypeOK'
  BY <1>5 DEF Withdraw, Delete, StoreTypeOK
<1>6. ASSUME NEW e \in Endpoint, NEW status \in StatusCode \cup {Nil},
             BackendChanges(e, status)
      PROVE  TypeOK'
  BY <1>6 DEF BackendChanges, StoreTypeOK
<1>7. CASE Shutdown
  BY <1>7 DEF Shutdown, envVars, StoreTypeOK
<1>8. CASE UNCHANGED vars
  BY <1>8 DEF vars, envVars, StoreTypeOK
<1> QED
  BY <1>1, <1>2, <1>3, <1>4, <1>5, <1>6, <1>7, <1>8 DEF Next

\* Type correctness of the checker: a running loop has a key, the sync knows
\* the key it acts on, and a write of a probe result leaves a view a view.
THEOREM TypeCorrect == Spec => []TypeOK
  BY TypeInit, TypeStep, PTL DEF Spec

-----------------------------------------------------------------------------
(* The checker keeps hold of its loops. *)

\* Cancelling the loops of some keys leaves the others registered.
LEMMA CancelRegistered ==
    ASSUME TypeOK, LoopsRegistered, NEW keys, Cancel(keys)
    PROVE  LoopsRegistered'
<1> SUFFICES ASSUME NEW l \in Loop, NEW k \in Routemap,
                    loop'[l].pc # "free", loop'[l].key = k, ~loop'[l].cancelled
             PROVE  cancels'[k] = l
  BY DEF LoopsRegistered, Running
<1>1. loop[l] \in LoopState
  BY DEF TypeOK
<1>2. CASE \E j \in keys : cancels[j] = l /\ loop[l].pc # "free"
  <2>1. loop'[l] = [loop[l] EXCEPT !.cancelled = TRUE]
    BY <1>2 DEF Cancel
  <2> QED
    BY <1>1, <2>1 DEF LoopState
<1>3. CASE ~\E j \in keys : cancels[j] = l /\ loop[l].pc # "free"
  <2>1. loop'[l] = loop[l]
    BY <1>3 DEF Cancel
  <2>2. cancels[k] = l
    BY <2>1 DEF LoopsRegistered, Running
  <2> QED
    BY <1>3, <2>1, <2>2 DEF Cancel
<1> QED
  BY <1>2, <1>3

LEMMA RegisteredStep ==
    TypeOK /\ LoopsRegistered /\ [Next]_vars => LoopsRegistered'
<1> SUFFICES ASSUME TypeOK, LoopsRegistered, [Next]_vars PROVE LoopsRegistered'
  OBVIOUS
<1>t. loop \in [Loop -> LoopState] /\ cancels \in [Routemap -> Loop \cup {Nil}]
  BY DEF TypeOK
<1>f. ASSUME UNCHANGED <<loop, cancels>> PROVE LoopsRegistered'
  BY <1>f DEF LoopsRegistered, Running
<1>m. ASSUME NEW l \in Loop, NEW s, UNCHANGED cancels,
             loop' = [loop EXCEPT ![l] = s],
             \/ s.pc = "free"
             \/ /\ loop[l].pc # "free" /\ s.key = loop[l].key
                /\ s.cancelled = loop[l].cancelled
      PROVE  LoopsRegistered'
  BY <1>t, <1>m DEF LoopsRegistered, Running
<1>1. ASSUME SyncStart \/ \E k \in Routemap : SyncGet(k) PROVE LoopsRegistered'
  BY <1>1, <1>f DEF SyncStart, SyncGet
<1>2. ASSUME stopLoop \/ SyncSweep \/ stopAll PROVE LoopsRegistered'
  BY <1>2, CancelRegistered DEF stopLoop, SyncSweep, stopAll
<1>3. CASE ensureLoop
  <2>1. CASE cancels[sync.key] # Nil
    BY <1>3, <2>1, <1>f DEF ensureLoop
  <2>2. CASE cancels[sync.key] = Nil
    <3> DEFINE s == [FreeLoop EXCEPT !.pc = "wait", !.key = sync.key,
                                     !.hc = sync.hc]
    <3>1. PICK l \in Loop : /\ Unused(l)
                            /\ cancels' = [cancels EXCEPT ![sync.key] = l]
                            /\ loop' = [loop EXCEPT ![l] = s]
      BY <1>3, <2>2 DEF ensureLoop
    <3>2. s.key = sync.key /\ sync.key \in Routemap
      BY <1>3 DEF FreeLoop, ensureLoop, TypeOK, SyncState
    <3> HIDE DEF s
    <3> SUFFICES ASSUME NEW m \in Loop, NEW k \in Routemap,
                        loop'[m].pc # "free", loop'[m].key = k,
                        ~loop'[m].cancelled
                 PROVE  cancels'[k] = m
      BY DEF LoopsRegistered, Running
    <3>3. CASE m = l
      BY <1>t, <3>1, <3>2, <3>3
    <3>4. CASE m # l
      <4>1. loop'[m] = loop[m]
        BY <1>t, <3>1, <3>4
      <4>2. cancels[k] = m
        BY <4>1 DEF LoopsRegistered, Running
      <4>3. k # sync.key
        BY <2>2, <4>2, CheckerAssumption
      <4> QED
        BY <1>t, <3>1, <4>2, <4>3
    <3> QED
      BY <3>3, <3>4
  <2> QED
    BY <2>1, <2>2
<1>4. ASSUME NEW l \in Loop, LoopDone(l) PROVE LoopsRegistered'
  BY <1>4, <1>m DEF LoopDone, FreeLoop
<1>5. ASSUME NEW l \in Loop, LoopTick(l) PROVE LoopsRegistered'
  <2> DEFINE T == {e \in Endpoint : /\ store[loop[l].key].endpoints[e] # Nil
                                    /\ store[loop[l].key].endpoints[e].path}
             s == [loop[l] EXCEPT !.pc = "pass", !.todo = T]
  <2>1. \/ loop' = [loop EXCEPT ![l] = FreeLoop]
        \/ loop' = [loop EXCEPT ![l] = s]
    BY <1>5 DEF LoopTick
  <2>2. s.key = loop[l].key /\ s.cancelled = loop[l].cancelled
    <3> HIDE DEF T
    <3> QED
      BY <1>t DEF LoopState
  <2>3. FreeLoop.pc = "free" /\ loop[l].pc # "free" /\ UNCHANGED cancels
    BY <1>5 DEF FreeLoop, LoopTick
  <2> HIDE DEF s
  <2> QED
    BY <1>m, <2>1, <2>2, <2>3
<1>6. ASSUME NEW l \in Loop, NEW e \in Endpoint, LoopProbe(l, e)
      PROVE  LoopsRegistered'
  <2> DEFINE s == [loop[l] EXCEPT !.pc = "write", !.todo = loop[l].todo \ {e},
                                  !.ref = SourceRef(e), !.state = probe(l, e)]
  <2>1. loop' = [loop EXCEPT ![l] = s] /\ loop[l].pc # "free" /\ UNCHANGED cancels
    BY <1>6 DEF LoopProbe
  <2>2. s.key = loop[l].key /\ s.cancelled = loop[l].cancelled
    BY <1>t DEF LoopState
  <2> HIDE DEF s
  <2> QED
    BY <1>m, <2>1, <2>2
<1>7. ASSUME NEW l \in Loop, LoopWrite(l) PROVE LoopsRegistered'
  <2> DEFINE s == [loop[l] EXCEPT !.pc = "pass", !.ref = Nil, !.state = "Unknown"]
  <2>1. loop' = [loop EXCEPT ![l] = s] /\ loop[l].pc # "free" /\ UNCHANGED cancels
    BY <1>7 DEF LoopWrite
  <2>2. s.key = loop[l].key /\ s.cancelled = loop[l].cancelled
    BY <1>t DEF LoopState
  <2> HIDE DEF s
  <2> QED
    BY <1>m, <2>1, <2>2
<1>8. ASSUME NEW l \in Loop, LoopPassEnd(l) PROVE LoopsRegistered'
  <2> DEFINE s == [loop[l] EXCEPT !.pc = "wait"]
  <2>1. loop' = [loop EXCEPT ![l] = s] /\ loop[l].pc # "free" /\ UNCHANGED cancels
    BY <1>8 DEF LoopPassEnd
  <2>2. s.key = loop[l].key /\ s.cancelled = loop[l].cancelled
    BY <1>t DEF LoopState
  <2> HIDE DEF s
  <2> QED
    BY <1>m, <2>1, <2>2
<1>9. ASSUME \/ \E k \in Routemap, view \in ViewChoice : BuildView(k, view)
             \/ PublishView
             \/ \E k \in Routemap : Withdraw(k)
             \/ \E e \in Endpoint, status \in StatusCode \cup {Nil} :
                   BackendChanges(e, status)
             \/ Shutdown
             \/ UNCHANGED vars
      PROVE  LoopsRegistered'
  BY <1>9, <1>f
  DEF BuildView, PublishView, Withdraw, BackendChanges, Shutdown, vars
<1> QED
  BY <1>1, <1>2, <1>3, <1>4, <1>5, <1>6, <1>7, <1>8, <1>9
  DEF Next, SyncStep, LoopStep

\* The checker never loses hold of a live probe loop: whatever sync, the loops
\* and the reconciler do meanwhile, a loop that was not cancelled is the one
\* registered for its key, so no Routemap has two live loops and every one of
\* them can be stopped.
THEOREM Registered == Spec => []LoopsRegistered
<1>1. Init => LoopsRegistered
  BY DEF Init, LoopsRegistered, Running, FreeLoop
<1> QED
  BY <1>1, TypeInit, TypeStep, RegisteredStep, PTL DEF Spec

-----------------------------------------------------------------------------
(* A withdrawn view stays away. *)

\* A step that makes a view out of nothing is the reconciler's Set of its key.
Created(k) ==
    store[k] = Nil /\ store'[k] # Nil => pending # Nil /\ pending.key = k

LEMMA CreatedStep ==
    ASSUME TypeOK, [Next]_vars, NEW k \in Routemap
    PROVE  Created(k)
<1>t. store \in [Routemap -> RoutemapView \cup {Nil}]
  BY DEF TypeOK, StoreTypeOK
<1>1. ASSUME UNCHANGED store PROVE Created(k)
  BY <1>1 DEF Created
<1>2. ASSUME NEW l \in Loop, LoopWrite(l) PROVE Created(k)
  <2>1. CASE store[loop[l].key] = Nil
    BY <1>1, <1>2, <2>1 DEF LoopWrite, UpdateEndpointHealth
  <2>2. CASE store[loop[l].key] # Nil
    <3>1. PICK v : store' = [store EXCEPT ![loop[l].key] = v]
      BY <1>2, <2>2 DEF LoopWrite, UpdateEndpointHealth
    <3> QED
      BY <1>t, <2>2, <3>1 DEF Created
  <2> QED
    BY <2>1, <2>2
<1>3. CASE PublishView
  BY <1>t, <1>3 DEF PublishView, Set, Created
<1>4. ASSUME NEW j \in Routemap, Withdraw(j) PROVE Created(k)
  BY <1>t, <1>4 DEF Withdraw, Delete, Created
<1>5. ASSUME SyncStep \/ stopAll PROVE Created(k)
  BY <1>1, <1>5
  DEF SyncStep, SyncStart, SyncGet, stopLoop, ensureLoop, SyncSweep, stopAll
<1>6. ASSUME NEW l \in Loop,
             \/ LoopDone(l) \/ LoopTick(l) \/ LoopPassEnd(l)
             \/ \E e \in Endpoint : LoopProbe(l, e)
      PROVE  Created(k)
  BY <1>1, <1>6 DEF LoopDone, LoopTick, LoopPassEnd, LoopProbe
<1>7. ASSUME \/ \E j \in Routemap, view \in ViewChoice : BuildView(j, view)
             \/ \E e \in Endpoint, status \in StatusCode \cup {Nil} :
                   BackendChanges(e, status)
             \/ Shutdown
             \/ UNCHANGED vars
      PROVE  Created(k)
  BY <1>1, <1>7 DEF BuildView, BackendChanges, Shutdown, vars
<1> QED
  BY <1>2, <1>3, <1>4, <1>5, <1>6, <1>7 DEF Next, LoopStep

\* Only the reconciler's Store.Set creates a view.  A loop that is still in a
\* pass when its Routemap is deleted writes its remaining results to nothing:
\* UpdateEndpointHealth does not bring the view back.
THEOREM WithdrawnAway == Spec => WithdrawnStaysAway
<1>1. TypeOK /\ [Next]_vars
        => [\A k \in Routemap :
              store[k] = Nil /\ store'[k] # Nil => pending # Nil /\ pending.key = k]_vars
  BY CreatedStep DEF Created
<1> QED
  BY <1>1, TypeCorrect, PTL DEF Spec, WithdrawnStaysAway
=============================================================================
