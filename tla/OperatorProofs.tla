--------------------------- MODULE OperatorProofs ---------------------------
(***************************************************************************)
(* The two halves of the operator do to their store what each one's module *)
(* says the other does, for every set of Routemaps, loops, endpoints and   *)
(* specs and for every value of the bounds.                                *)
(***************************************************************************)
EXTENDS Operator, WakeupProofs

-----------------------------------------------------------------------------
(***************************************************************************)
(* Why a probe loop writes only what ProbeResult may write.  A loop is     *)
(* started for a key under which an enabled view was published, and probes *)
(* the pathed endpoints of the view it finds under that key; every ref of  *)
(* such a view became checkable when the view was published, and stays so. *)
(***************************************************************************)

\* The loop probes and writes what is checkable.
Probes(s) ==
    /\ s.key \in Routemap
    /\ <<s.key, Nil>> \in checkable
    /\ \A e \in s.todo : <<s.key, SourceRef(e)>> \in checkable
    /\ s.pc = "write" =>
          /\ s.ref \in Refs
          /\ <<s.key, s.ref>> \in checkable
          /\ s.state \in HealthState \ {"Unknown"}

LoopsProbe ==
    /\ loop \in [Loop -> Checker!LoopState]
    /\ \A l \in Loop : loop[l].pc # "free" => Probes(loop[l])

\* The spec that sync has read, and goes by to start a loop.
SyncKnows ==
    /\ sync \in Checker!SyncState
    /\ sync.pc = "act" =>
          /\ sync.key \in Routemap
          /\ Checker!Enabled(sync.hc) => <<sync.key, Nil>> \in checkable

StoreChecked ==
    \A k \in Routemap : store[k] # Nil =>
        /\ Checker!Enabled(store[k].spec.healthCheck) => <<k, Nil>> \in checkable
        /\ <<k, Nil>> \in checkable =>
              \A e \in Endpoint :
                  store[k].endpoints[e] # Nil /\ store[k].endpoints[e].path
                  => <<k, SourceRef(e)>> \in checkable

ProbeInv == LoopsProbe /\ SyncKnows /\ StoreChecked

(***************************************************************************)
(* Why Reconcile builds only views of CollectedViews: the specs are those  *)
(* users wrote, and the endpoints have no health state before mergeHealth. *)
(***************************************************************************)
Chosen(o) == o # Nil => o.spec \in SpecChoice

SpecsChosen ==
    /\ \A k \in Routemap : Chosen(api[k]) /\ Chosen(rmCache[k])
    /\ Chosen(rm) /\ Chosen(fresh)

OperatorInv ==
    /\ TypeOK /\ UniformInv
    /\ ProbeInv /\ SpecsChosen
    /\ publishes \in Nat /\ withdrawals \in Nat

-----------------------------------------------------------------------------
(* The checker's module has the operators of Store under its own name. *)

LEMMA SameStore ==
    /\ Checker!Refs = Refs
    /\ Checker!HealthState = HealthState
    /\ \A k, ref, state :
          Checker!UpdateEndpointHealth(k, ref, state)
              <=> UpdateEndpointHealth(k, ref, state)
  BY DEF Checker!Refs, Refs, Checker!SourceRef, SourceRef, Checker!HealthState,
         HealthState, Checker!UpdateEndpointHealth, UpdateEndpointHealth,
         Checker!WithHealth, WithHealth

LEMMA SameMerge ==
    ASSUME NEW k, NEW eps PROVE Checker!mergeHealth(k, eps) = mergeHealth(k, eps)
<1>1. ASSUME NEW prev, NEW e \in Endpoint
      PROVE  /\ Checker!SourceRef(e) = SourceRef(e)
             /\ Checker!OfRef(prev, SourceRef(e)) = OfRef(prev, SourceRef(e))
             /\ Checker!LastOfRef(prev, SourceRef(e)) = LastOfRef(prev, SourceRef(e))
  <2>1. \A x : Checker!SourceRef(x) = SourceRef(x)
    BY DEF Checker!SourceRef, SourceRef
  <2>2. Checker!OfRef(prev, SourceRef(e)) = OfRef(prev, SourceRef(e))
    BY <2>1 DEF Checker!OfRef, OfRef
  <2> QED
    BY <2>1, <2>2 DEF Checker!LastOfRef, LastOfRef
<1>2. ASSUME NEW prev PROVE Checker!Merged(prev, eps) = Merged(prev, eps)
  BY <1>1 DEF Checker!Merged, Merged
<1> QED
  BY <1>2 DEF Checker!mergeHealth, mergeHealth

-----------------------------------------------------------------------------
(* The reconciler's steps leave the loops and what they may probe alone. *)

LEMMA OperatorInitially == OperatorInit => OperatorInv
<1> SUFFICES ASSUME OperatorInit PROVE OperatorInv
  OBVIOUS
<1>1. TypeOK /\ UniformInv
  BY TypeInit, UniformInit DEF OperatorInit
<1>2. LoopsProbe
  <2>1. Checker!FreeLoop \in Checker!LoopState /\ Checker!FreeLoop.pc = "free"
    BY DEF Checker!FreeLoop, Checker!LoopState, Checker!HealthState
  <2> QED
    BY <2>1 DEF OperatorInit, Checker!Init, LoopsProbe
<1>3. SyncKnows
  <2>1. Checker!IdleSync \in Checker!SyncState /\ Checker!IdleSync.pc = "idle"
    BY DEF Checker!IdleSync, Checker!SyncState
  <2> QED
    BY <2>1 DEF OperatorInit, Checker!Init, SyncKnows
<1>4. StoreChecked
  BY DEF OperatorInit, Init, New, StoreChecked
<1>5. SpecsChosen
  BY DEF OperatorInit, Init, ClusterInit, SpecsChosen, Chosen
<1> QED
  BY <1>1, <1>2, <1>3, <1>4, <1>5 DEF OperatorInv, ProbeInv, OperatorInit, Checker!Init

\* What is checkable stays checkable.
LEMMA ProbesKept ==
    ASSUME LoopsProbe, SyncKnows, UNCHANGED <<loop, sync>>,
           checkable \subseteq checkable'
    PROVE  LoopsProbe' /\ SyncKnows'
<1>1. ASSUME NEW l \in Loop, loop[l].pc # "free" PROVE Probes(loop[l])'
  BY <1>1 DEF LoopsProbe, Probes
<1>2. LoopsProbe'
  BY <1>1 DEF LoopsProbe
<1>3. SyncKnows'
  BY DEF SyncKnows, Checker!Enabled
<1> QED
  BY <1>2, <1>3

\* Views go away or stay as they are.
LEMMA StoreKept ==
    ASSUME StoreChecked, UNCHANGED checkable,
           \A k \in Routemap : store'[k] = Nil \/ store'[k] = store[k]
    PROVE  StoreChecked'
  BY DEF StoreChecked, Checker!Enabled

LEMMA PublishChecked ==
    ASSUME TypeOK, StoreChecked, Publish
    PROVE  StoreChecked' /\ checkable \subseteq checkable'
<1> DEFINE view == [spec |-> rm.spec, endpoints |-> endpoints]
<1>1. /\ store' = [store EXCEPT ![req] = view]
      /\ checkable' = checkable \cup Checkable(req, view)
      /\ req \in Routemap
      /\ store \in [Routemap -> RoutemapView \cup {Nil}]
  BY DEF Publish, Set, TypeOK, StoreTypeOK
<1> HIDE DEF view
<1>2. ASSUME NEW k \in Routemap, k # req, store'[k] # Nil
      PROVE  /\ Checker!Enabled(store'[k].spec.healthCheck)
                   => <<k, Nil>> \in checkable'
             /\ <<k, Nil>> \in checkable' =>
                   \A e \in Endpoint :
                      store'[k].endpoints[e] # Nil /\ store'[k].endpoints[e].path
                      => <<k, SourceRef(e)>> \in checkable'
  <2>1. store'[k] = store[k]
    BY <1>1, <1>2
  <2>2. <<k, Nil>> \in checkable' => <<k, Nil>> \in checkable
    BY <1>1, <1>2 DEF Checkable
  <2> QED
    BY <1>1, <1>2, <2>1, <2>2 DEF StoreChecked
<1>3. /\ Checker!Enabled(view.spec.healthCheck) => <<req, Nil>> \in checkable'
      /\ <<req, Nil>> \in checkable' =>
            \A e \in Endpoint :
               view.endpoints[e] # Nil /\ view.endpoints[e].path
               => <<req, SourceRef(e)>> \in checkable'
  BY <1>1 DEF Checkable, Checker!Enabled
<1>4. StoreChecked'
  <2>1. store'[req] = view
    BY <1>1
  <2> SUFFICES ASSUME NEW k \in Routemap, store'[k] # Nil
               PROVE  /\ Checker!Enabled(store'[k].spec.healthCheck)
                            => <<k, Nil>> \in checkable'
                      /\ <<k, Nil>> \in checkable' =>
                            \A e \in Endpoint :
                               /\ store'[k].endpoints[e] # Nil
                               /\ store'[k].endpoints[e].path
                               => <<k, SourceRef(e)>> \in checkable'
    BY DEF StoreChecked, Checker!Enabled
  <2> QED
    BY <1>2, <1>3, <2>1
<1> QED
  BY <1>1, <1>4

\* The steps of Reconcile other than those that reach or leave "publish" or
\* remove a view: Pending and the store stay as they are.
Elsewhere ==
    /\ UNCHANGED <<store, checkable>>
    /\ \/ UNCHANGED <<pc, req, rm, endpoints>>
       \/ pc # "publish" /\ pc' # "publish"

LEMMA ReconcilerEffects ==
    ASSUME TypeOK, ReconcilerStep
    PROVE  \/ Elsewhere
           \/ GetNotFound \/ GetDeleting
           \/ Merge
           \/ Publish
<1>1. CASE (Users \/ Informers) /\ UNCHANGED reconcilerVars
  BY <1>1 DEF Elsewhere, reconcilerVars, localVars, envVars
<1>2. ASSUME \/ \E k \in Routemap : HandleRoutemap(k) \/ Elapse(k)
             \/ \E s \in Source : enqueueAffectedRoutemaps(s)
             \/ enqueueAllRoutemaps
      PROVE  Elsewhere
  BY <1>2
  DEF Elsewhere, HandleRoutemap, Elapse, enqueueAffectedRoutemaps,
      enqueueAllRoutemaps, localVars, envVars
<1>3. ASSUME \/ \E k \in Routemap : Dequeue(k)
             \/ GetLive \/ Resolve \/ Refetch
             \/ \E call \in ListCall : List(call)
      PROVE  Elsewhere
  BY <1>3 DEF Elsewhere, Dequeue, GetLive, Resolve, Refetch, List, envVars
<1>4. ASSUME \/ AddFinalizer \/ RemoveFinalizer \/ StatusUpdate
             \/ ResolveError \/ RefetchNotFound \/ Conflict \/ CallFails
      PROVE  Elsewhere
  BY <1>4
  DEF Elsewhere, AddFinalizer, RemoveFinalizer, StatusUpdate, Write, ResolveError,
      RefetchNotFound, Conflict, CallFails, Return, ReturnError, Requeue, NoLocals,
      envVars
<1> QED
  BY <1>1, <1>2, <1>3, <1>4 DEF ReconcilerStep, Reconcile

LEMMA ReconcilerKeepsProbes ==
    ASSUME TypeOK, ProbeInv, ReconcilerStep PROVE ProbeInv'
<1>1. UNCHANGED <<loop, sync>>
  BY DEF ReconcilerStep, checkerVars
<1>2. CASE Elsewhere \/ GetNotFound \/ GetDeleting \/ Merge
  <2>1. UNCHANGED checkable
    BY <1>2 DEF Elsewhere, GetNotFound, GetDeleting, Merge, envVars
  <2>2. \A k \in Routemap : store'[k] = Nil \/ store'[k] = store[k]
    BY <1>2
    DEF Elsewhere, GetNotFound, GetDeleting, Merge, Delete, TypeOK, StoreTypeOK
  <2> QED
    BY <1>1, <2>1, <2>2, ProbesKept, StoreKept DEF ProbeInv
<1>3. CASE Publish
  BY <1>1, <1>3, PublishChecked, ProbesKept DEF ProbeInv
<1> QED
  BY <1>2, <1>3, ReconcilerEffects

LEMMA SpecsStep ==
    ASSUME TypeOK, SpecsChosen, [Next]_vars PROVE SpecsChosen'
<1>t. /\ api \in [Routemap -> Object \cup {Nil}]
      /\ rmCache \in [Routemap -> Object \cup {Nil}]
  BY DEF TypeOK, ClusterTypeOK
<1> USE DEF SpecsChosen, Chosen
<1>f. ASSUME UNCHANGED <<api, rmCache, rm, fresh>> PROVE SpecsChosen'
  BY <1>f
<1>n. ASSUME NoLocals, UNCHANGED rmCache,
             UNCHANGED api \/ \E obj : /\ api' = [api EXCEPT ![req] = obj]
                                       /\ Chosen(obj)
      PROVE  SpecsChosen'
  BY <1>t, <1>n DEF NoLocals
<1>1. CASE Users /\ UNCHANGED reconcilerVars
  <2>1. UNCHANGED <<rmCache, rm, fresh>>
    BY <1>1
    DEF Users, CreateRoutemap, EditSpec, DeleteRoutemap, ForceRemove, ChangeSource,
        RelabelNamespace, InstallCRD, rmInformer, reconcilerVars, localVars
  <2>2. ASSUME NEW k \in Routemap, NEW obj, Chosen(obj),
               api' = [api EXCEPT ![k] = obj]
        PROVE  SpecsChosen'
    BY <1>t, <2>1, <2>2
  <2>3. ASSUME NEW k \in Routemap, NEW spec \in SpecChoice, CreateRoutemap(k, spec)
        PROVE  SpecsChosen'
    BY <2>2, <2>3 DEF CreateRoutemap
  <2>4. ASSUME NEW k \in Routemap, NEW spec \in SpecChoice, EditSpec(k, spec)
        PROVE  SpecsChosen'
    <3>1. api[k] \in Object
      BY <1>t, <2>4 DEF EditSpec
    <3>2. [api[k] EXCEPT !.spec = spec, !.gen = api[k].gen + 1].spec = spec
      BY <3>1 DEF Object
    <3> QED
      BY <2>2, <2>4, <3>2 DEF EditSpec
  <2>5. ASSUME NEW k \in Routemap, DeleteRoutemap(k) PROVE SpecsChosen'
    <3>1. api[k] \in Object
      BY <1>t, <2>5 DEF DeleteRoutemap
    <3>2. [api[k] EXCEPT !.deleting = TRUE, !.gen = api[k].gen + 1].spec
              = api[k].spec
      BY <3>1 DEF Object
    <3> QED
      BY <2>2, <2>5, <3>2 DEF DeleteRoutemap
  <2>6. ASSUME NEW k \in Routemap, ForceRemove(k) PROVE SpecsChosen'
    BY <2>2, <2>6 DEF ForceRemove
  <2>7. ASSUME \/ \E s \in Source, content \in SourceState : ChangeSource(s, content)
               \/ \E n \in Namespace : RelabelNamespace(n)
               \/ InstallCRD
        PROVE  SpecsChosen'
    BY <2>1, <2>7, <1>f DEF ChangeSource, RelabelNamespace, InstallCRD, apiVars
  <2> QED
    BY <1>1, <2>3, <2>4, <2>5, <2>6, <2>7 DEF Users
<1>2. CASE Informers /\ UNCHANGED reconcilerVars
  <2>1. \A k \in Routemap : rmCache'[k] = rmCache[k] \/ rmCache'[k] = api[k]
    BY <1>2, <1>t DEF Informers, SyncRoutemap, SyncSource, SyncNamespace, rmInformer
  <2>2. UNCHANGED <<api, rm, fresh>>
    BY <1>2
    DEF Informers, SyncRoutemap, SyncSource, SyncNamespace, apiVars, reconcilerVars,
        localVars
  <2> QED
    BY <2>1, <2>2
<1>3. ASSUME \/ \E k \in Routemap : HandleRoutemap(k) \/ Elapse(k) \/ Dequeue(k)
             \/ \E s \in Source : enqueueAffectedRoutemaps(s)
             \/ enqueueAllRoutemaps
             \/ \E k \in Routemap, ref \in Refs, state \in HealthState :
                   ProbeResult(k, ref, state)
             \/ Resolve \/ Merge \/ Publish
             \/ \E call \in ListCall : List(call)
             \/ UNCHANGED vars
      PROVE  SpecsChosen'
  <2>1. UNCHANGED <<api, rmCache, rm, fresh>>
    BY <1>3
    DEF HandleRoutemap, Elapse, Dequeue, enqueueAffectedRoutemaps,
        enqueueAllRoutemaps, ProbeResult, Resolve, Merge, Publish, List, vars,
        reconcilerVars, clusterVars, apiVars, rmInformer, localVars
  <2> QED
    BY <2>1, <1>f
<1>4. ASSUME GetDeleting \/ GetLive \/ Refetch PROVE SpecsChosen'
  <2>1. /\ UNCHANGED <<api, rmCache>> /\ req \in Routemap
        /\ \/ rm' = rmCache[req] /\ UNCHANGED fresh
           \/ fresh' = rmCache[req] /\ UNCHANGED rm
    BY <1>4
    DEF GetDeleting, GetLive, Refetch, clusterVars, apiVars, rmInformer, TypeOK
  <2> QED
    BY <2>1
<1>5. ASSUME \/ GetNotFound \/ ResolveError \/ RefetchNotFound
             \/ Conflict \/ CallFails
      PROVE  SpecsChosen'
  BY <1>5, <1>n
  DEF GetNotFound, ResolveError, RefetchNotFound, Conflict, CallFails, Return,
      ReturnError, Requeue, clusterVars, apiVars, rmInformer
<1>6. ASSUME NEW read, NEW obj, NEW due, Chosen(obj),
             Write(read, obj, Return) \/ Write(read, obj, Requeue(due))
      PROVE  SpecsChosen'
  BY <1>6, <1>n DEF Write, Return, ReturnError, Requeue, rmInformer
<1>7. CASE AddFinalizer
  <2>1. rm \in Object
    BY <1>7 DEF AddFinalizer, TypeOK
  <2>2. [rm EXCEPT !.finalizer = TRUE].spec = rm.spec
    BY <2>1 DEF Object
  <2> QED
    BY <1>6, <1>7, <2>1, <2>2, NilObjectAssumption DEF AddFinalizer
<1>8. CASE RemoveFinalizer
  BY <1>6, <1>8 DEF RemoveFinalizer
<1>9. CASE StatusUpdate
  <2>1. fresh \in Object
    BY <1>9 DEF StatusUpdate, TypeOK
  <2>2. [fresh EXCEPT !.status = setReadyCondition].spec = fresh.spec
    BY <2>1 DEF Object
  <2> QED
    BY <1>6, <1>9, <2>1, <2>2, NilObjectAssumption DEF StatusUpdate
<1>10. CASE Restart
  BY <1>10, <1>t DEF Restart, Relist, NoLocals, apiVars
<1> QED
  BY <1>1, <1>2, <1>3, <1>4, <1>5, <1>7, <1>8, <1>9, <1>10 DEF Next, Reconcile

-----------------------------------------------------------------------------
(* The checker's steps: a loop probes and writes only what is checkable. *)

\* One loop moves to another state, in which it is done or goes on probing.
LEMMA LoopMoves ==
    ASSUME LoopsProbe, NEW l \in Loop, NEW s \in Checker!LoopState,
           s.pc # "free" => Probes(s),
           loop' = [loop EXCEPT ![l] = s], UNCHANGED checkable
    PROVE  LoopsProbe'
<1>1. loop' \in [Loop -> Checker!LoopState]
  BY DEF LoopsProbe
<1>2. ASSUME NEW m \in Loop, loop'[m].pc # "free" PROVE Probes(loop[m])'
  BY <1>2 DEF LoopsProbe, Probes
<1> QED
  BY <1>1, <1>2 DEF LoopsProbe

LEMMA CancelKeeps ==
    ASSUME LoopsProbe, NEW keys, Checker!Cancel(keys), UNCHANGED checkable
    PROVE  LoopsProbe'
<1>1. ASSUME NEW l \in Loop
      PROVE  /\ loop'[l] \in Checker!LoopState
             /\ loop'[l].pc # "free" => Probes(loop[l])'
  <2>1. loop[l] \in Checker!LoopState
    BY DEF LoopsProbe
  <2>2. loop'[l] = loop[l] \/ loop'[l] = [loop[l] EXCEPT !.cancelled = TRUE]
    BY DEF Checker!Cancel
  <2>3. ASSUME NEW s \in Checker!LoopState
        PROVE  LET c == [s EXCEPT !.cancelled = TRUE]
               IN  /\ c \in Checker!LoopState
                   /\ c.pc = s.pc /\ c.key = s.key /\ c.todo = s.todo
                   /\ c.ref = s.ref /\ c.state = s.state
    BY DEF Checker!LoopState
  <2>4. /\ loop'[l] \in Checker!LoopState
        /\ loop'[l].pc = loop[l].pc /\ loop'[l].key = loop[l].key
        /\ loop'[l].todo = loop[l].todo /\ loop'[l].ref = loop[l].ref
        /\ loop'[l].state = loop[l].state
    BY <2>1, <2>2, <2>3
  <2> QED
    BY <2>4 DEF LoopsProbe, Probes
<1>2. loop' \in [Loop -> Checker!LoopState]
  BY <1>1 DEF Checker!Cancel
<1> QED
  BY <1>1, <1>2 DEF LoopsProbe

LEMMA SyncKeepsProbes ==
    ASSUME TypeOK, ProbeInv, Checker!SyncStep, UNCHANGED checkable
    PROVE  ProbeInv' /\ UNCHANGED store
<1>s. ASSUME UNCHANGED store PROVE StoreChecked'
  BY <1>s, StoreKept DEF ProbeInv
<1>l. ASSUME UNCHANGED loop PROVE LoopsProbe'
  BY <1>l DEF ProbeInv, LoopsProbe, Probes
<1>b. ASSUME Checker!BackToGet PROVE SyncKnows'
  BY <1>b DEF ProbeInv, SyncKnows, Checker!BackToGet, Checker!SyncState
<1>1. CASE Checker!SyncStart
  <2>1. SyncKnows'
    BY <1>1
    DEF Checker!SyncStart, Checker!IdleSync, Checker!Keys, Checker!SyncState,
        SyncKnows
  <2> QED
    BY <1>1, <1>s, <1>l, <2>1 DEF Checker!SyncStart, ProbeInv
<1>2. ASSUME NEW k \in Routemap, Checker!SyncGet(k)
      PROVE  ProbeInv' /\ UNCHANGED store
  <2>1. SyncKnows'
    <3>1. CASE store[k] = Nil
      <4>1. sync' = [sync EXCEPT !.keys = sync.keys \ {k}] /\ sync.pc = "get"
        BY <1>2, <3>1 DEF Checker!SyncGet
      <4> QED
        BY <4>1 DEF ProbeInv, SyncKnows, Checker!SyncState
    <3>2. CASE store[k] # Nil
      <4>1. sync' = [pc |-> "act", keys |-> sync.keys \ {k},
                     active |-> sync.active \cup {k}, key |-> k,
                     hc |-> store[k].spec.healthCheck]
        BY <1>2, <3>2 DEF Checker!SyncGet
      <4>2. store[k].spec.healthCheck \in HealthCheckSpec \cup {Nil}
        BY <3>2 DEF TypeOK, StoreTypeOK, RoutemapView, RoutemapSpec
      <4>3. Checker!HealthCheckSpec = HealthCheckSpec
        BY DEF Checker!HealthCheckSpec, HealthCheckSpec
      <4>4. /\ sync.keys \ {k} \in SUBSET Routemap
            /\ sync.active \cup {k} \in SUBSET Routemap
        BY DEF ProbeInv, SyncKnows, Checker!SyncState
      <4>5. sync' \in Checker!SyncState
        BY <4>1, <4>2, <4>3, <4>4 DEF Checker!SyncState
      <4>6. Checker!Enabled(store[k].spec.healthCheck) => <<k, Nil>> \in checkable
        BY <3>2 DEF ProbeInv, StoreChecked
      <4>7. sync'.key = k /\ sync'.hc = store[k].spec.healthCheck
        BY <4>1
      <4> QED
        BY <4>5, <4>6, <4>7 DEF SyncKnows, Checker!Enabled
    <3> QED
      BY <3>1, <3>2
  <2> QED
    BY <1>2, <1>s, <1>l, <2>1 DEF Checker!SyncGet, ProbeInv
<1>3. CASE Checker!stopLoop
  BY <1>3, <1>s, <1>b, CancelKeeps DEF Checker!stopLoop, ProbeInv
<1>4. CASE Checker!ensureLoop
  <2>1. LoopsProbe'
    <3>1. CASE UNCHANGED loop
      BY <3>1, <1>l
    <3>2. ASSUME NEW l \in Loop,
                 loop' = [loop EXCEPT ![l] =
                            [Checker!FreeLoop EXCEPT !.pc = "wait", !.key = sync.key,
                                                     !.hc = sync.hc]]
          PROVE  LoopsProbe'
      <4> DEFINE s == [Checker!FreeLoop EXCEPT !.pc = "wait", !.key = sync.key,
                                               !.hc = sync.hc]
      <4>1. /\ sync.key \in Routemap /\ <<sync.key, Nil>> \in checkable
            /\ sync.hc \in Checker!HealthCheckSpec \cup {Nil}
        BY <1>4 DEF Checker!ensureLoop, ProbeInv, SyncKnows, Checker!SyncState
      <4>2. /\ s \in Checker!LoopState
            /\ s.pc = "wait" /\ s.key = sync.key /\ s.todo = {}
        BY <4>1 DEF Checker!FreeLoop, Checker!LoopState, Checker!HealthState
      <4> HIDE DEF s
      <4>3. Probes(s)
        BY <4>1, <4>2 DEF Probes
      <4>4. loop' = [loop EXCEPT ![l] = s]
        BY <3>2 DEF s
      <4> QED
        BY <4>2, <4>3, <4>4, LoopMoves DEF ProbeInv
    <3> QED
      BY <1>4, <3>1, <3>2 DEF Checker!ensureLoop
  <2> QED
    BY <1>4, <1>s, <1>b, <2>1 DEF Checker!ensureLoop, ProbeInv
<1>5. CASE Checker!SyncSweep
  <2>1. SyncKnows'
    BY <1>5 DEF Checker!SyncSweep, Checker!IdleSync, Checker!SyncState, SyncKnows
  <2> QED
    BY <1>5, <1>s, <2>1, CancelKeeps DEF Checker!SyncSweep, ProbeInv
<1> QED
  BY <1>1, <1>2, <1>3, <1>4, <1>5 DEF Checker!SyncStep

\* A loop that writes no result.
LEMMA LoopKeepsProbes ==
    ASSUME TypeOK, ProbeInv, NEW l \in Loop, UNCHANGED checkable,
           \/ Checker!LoopDone(l) \/ Checker!LoopTick(l) \/ Checker!LoopPassEnd(l)
           \/ \E e \in Endpoint : Checker!LoopProbe(l, e)
    PROVE  ProbeInv' /\ UNCHANGED store
<1>1. UNCHANGED <<store, sync>>
  BY DEF Checker!LoopDone, Checker!LoopTick, Checker!LoopPassEnd, Checker!LoopProbe
<1>2. SyncKnows' /\ StoreChecked'
  BY <1>1, StoreKept DEF ProbeInv, SyncKnows, Checker!Enabled
<1>3. loop[l] \in Checker!LoopState /\ (loop[l].pc # "free" => Probes(loop[l]))
  BY DEF ProbeInv, LoopsProbe
<1>4. Checker!FreeLoop \in Checker!LoopState /\ Checker!FreeLoop.pc = "free"
  BY DEF Checker!FreeLoop, Checker!LoopState, Checker!HealthState
<1>5. CASE Checker!LoopDone(l)
  <2>1. LoopsProbe'
    BY <1>4, <1>5, LoopMoves DEF Checker!LoopDone, ProbeInv
  <2> QED
    BY <1>1, <1>2, <2>1 DEF ProbeInv
<1>6. CASE Checker!LoopTick(l)
  <2> DEFINE k == loop[l].key
             T == {e \in Endpoint : store[k].endpoints[e] # Nil
                                    /\ store[k].endpoints[e].path}
             s == [loop[l] EXCEPT !.pc = "pass", !.todo = T]
  <2>1. loop[l].pc = "wait" /\ k \in Routemap /\ <<k, Nil>> \in checkable
    BY <1>3, <1>6 DEF Checker!LoopTick, Probes
  <2>2. loop' = [loop EXCEPT ![l] = IF store[k] = Nil THEN Checker!FreeLoop ELSE s]
    BY <1>6 DEF Checker!LoopTick
  <2>3. ASSUME NEW U \in SUBSET Endpoint, NEW c \in Checker!LoopState
        PROVE  LET t == [c EXCEPT !.pc = "pass", !.todo = U]
               IN  /\ t \in Checker!LoopState
                   /\ t.pc = "pass" /\ t.key = c.key /\ t.todo = U
    BY DEF Checker!LoopState
  <2>4. s \in Checker!LoopState /\ s.pc = "pass" /\ s.key = k /\ s.todo = T
    BY <1>3, <2>3
  <2>5. store[k] # Nil => \A e \in T : <<k, SourceRef(e)>> \in checkable
    BY <2>1 DEF ProbeInv, StoreChecked
  <2> HIDE DEF s, T, k
  <2>6. store[k] # Nil => Probes(s)
    BY <2>1, <2>4, <2>5 DEF Probes
  <2>7. LoopsProbe'
    BY <1>4, <2>2, <2>4, <2>6, LoopMoves DEF ProbeInv
  <2> QED
    BY <1>1, <1>2, <2>7 DEF ProbeInv
<1>7. CASE Checker!LoopPassEnd(l)
  <2> DEFINE s == [loop[l] EXCEPT !.pc = "wait"]
  <2>1. /\ s \in Checker!LoopState /\ s.pc = "wait"
        /\ s.key = loop[l].key /\ s.todo = loop[l].todo
    BY <1>3 DEF Checker!LoopState
  <2>2. loop' = [loop EXCEPT ![l] = s] /\ loop[l].pc = "pass"
    BY <1>7 DEF Checker!LoopPassEnd
  <2> HIDE DEF s
  <2>3. Probes(s)
    BY <1>3, <2>1, <2>2 DEF Probes
  <2>4. LoopsProbe'
    BY <2>1, <2>2, <2>3, LoopMoves DEF ProbeInv
  <2> QED
    BY <1>1, <1>2, <2>4 DEF ProbeInv
<1>8. ASSUME NEW e \in Endpoint, Checker!LoopProbe(l, e)
      PROVE  ProbeInv' /\ UNCHANGED store
  <2> DEFINE h == Checker!probe(l, e)
             s == [loop[l] EXCEPT !.pc = "write", !.todo = loop[l].todo \ {e},
                                  !.ref = SourceRef(e), !.state = h]
  <2>1. h \in HealthState \ {"Unknown"}
    <3>1. h = "Healthy" \/ h = "Unhealthy"
      BY DEF Checker!probe
    <3> HIDE DEF h
    <3> QED
      BY <3>1 DEF HealthState
  <2>2. /\ loop' = [loop EXCEPT ![l] = s] /\ loop[l].pc = "pass"
        /\ e \in loop[l].todo
    BY <1>8 DEF Checker!LoopProbe, Checker!SourceRef, SourceRef
  <2>3. SourceRef(e) \in Refs
    BY DEF Refs
  <2> HIDE DEF h
  <2>4. /\ s \in Checker!LoopState
        /\ s.pc = "write" /\ s.key = loop[l].key /\ s.todo = loop[l].todo \ {e}
        /\ s.ref = SourceRef(e) /\ s.state = h
    <3>1. h \in HealthState /\ loop[l] \in Checker!LoopState
      BY <1>3, <2>1
    <3> QED
      BY <2>3, <3>1, SameStore DEF Checker!LoopState
  <2> HIDE DEF s
  <2>5. Probes(s)
    BY <1>3, <2>1, <2>2, <2>3, <2>4 DEF Probes
  <2>6. LoopsProbe'
    BY <2>2, <2>4, <2>5, LoopMoves DEF ProbeInv
  <2> QED
    BY <1>1, <1>2, <2>6 DEF ProbeInv
<1> QED
  BY <1>5, <1>6, <1>7, <1>8

\* A result for a ref that is not in the view changes nothing.
LEMMA MissesRef ==
    ASSUME TypeOK, NEW k \in Routemap, store[k] # Nil, NEW ref, NEW state,
           OfRef(store[k].endpoints, ref) = {},
           UpdateEndpointHealth(k, ref, state)
    PROVE  UNCHANGED store
<1>1. store \in [Routemap -> RoutemapView \cup {Nil}] /\ store[k] \in RoutemapView
  BY DEF TypeOK, StoreTypeOK
<1>2. store[k].endpoints \in Endpoints
  BY <1>1 DEF RoutemapView
<1>3. WithHealth(store[k].endpoints, ref, state) = store[k].endpoints
  BY <1>2 DEF WithHealth, OfRef, Endpoints
<1>4. store[k] = [spec |-> store[k].spec, endpoints |-> store[k].endpoints]
  BY <1>1 DEF RoutemapView
<1>5. store' = [store EXCEPT ![k] = store[k]]
  BY <1>3, <1>4 DEF UpdateEndpointHealth
<1> QED
  BY <1>1, <1>5

LEMMA WriteIsProbeResult ==
    ASSUME TypeOK, ProbeInv, NEW l \in Loop, UNCHANGED checkable,
           Checker!LoopWrite(l)
    PROVE  /\ ProbeInv'
           /\ \/ UNCHANGED store
              \/ \E k \in Routemap, ref \in Refs, state \in HealthState \ {"Unknown"} :
                    /\ <<k, ref>> \in checkable
                    /\ store[k] # Nil
                    /\ OfRef(store[k].endpoints, ref) # {}
                    /\ UpdateEndpointHealth(k, ref, state)
<1>1. /\ loop[l] \in Checker!LoopState /\ loop[l].pc = "write" /\ Probes(loop[l])
      /\ UNCHANGED sync
  BY DEF ProbeInv, LoopsProbe, Checker!LoopWrite
<1>2. PICK k \in Routemap, ref \in Refs, state \in HealthState \ {"Unknown"} :
         k = loop[l].key /\ ref = loop[l].ref /\ state = loop[l].state
  BY <1>1 DEF Probes
<1>3. <<k, ref>> \in checkable /\ UpdateEndpointHealth(k, ref, state)
  BY <1>1, <1>2, SameStore DEF Probes, Checker!LoopWrite
<1>4. LoopsProbe'
  <2> DEFINE s == [loop[l] EXCEPT !.pc = "pass", !.ref = Nil, !.state = "Unknown"]
  <2>1. /\ s \in Checker!LoopState
        /\ s.pc = "pass" /\ s.key = loop[l].key /\ s.todo = loop[l].todo
    BY <1>1 DEF Checker!LoopState, Checker!HealthState
  <2>2. loop' = [loop EXCEPT ![l] = s]
    BY DEF Checker!LoopWrite
  <2> HIDE DEF s
  <2>3. Probes(s)
    BY <1>1, <2>1 DEF Probes
  <2> QED
    BY <2>1, <2>2, <2>3, LoopMoves DEF ProbeInv
<1>5. SyncKnows'
  BY <1>1 DEF ProbeInv, SyncKnows, Checker!Enabled
<1>6. StoreChecked'
  <2>1. CASE UNCHANGED store
    BY <2>1, StoreKept DEF ProbeInv
  <2>2. CASE store[k] # Nil
    <3> DEFINE eps == WithHealth(store[k].endpoints, ref, state)
    <3>1. /\ \A j \in Routemap : j # k => store'[j] = store[j]
          /\ store'[k] = [spec |-> store[k].spec, endpoints |-> eps]
      BY <1>3, <2>2 DEF UpdateEndpointHealth, TypeOK, StoreTypeOK
    <3>2. ASSUME NEW e \in Endpoint, eps[e] # Nil, eps[e].path
          PROVE  store[k].endpoints[e] # Nil /\ store[k].endpoints[e].path
      <4>1. store[k].endpoints[e] # Nil
        BY <3>2 DEF WithHealth
      <4>2. store[k].endpoints[e] \in EndpointState
        BY <2>2, <4>1 DEF TypeOK, StoreTypeOK, RoutemapView, Endpoints
      <4> QED
        BY <3>2, <4>1, <4>2 DEF WithHealth, EndpointState
    <3> HIDE DEF eps
    <3>3. /\ store'[k].spec = store[k].spec
          /\ store'[k].endpoints = eps
      BY <3>1
    <3>4. ASSUME NEW j \in Routemap, store'[j] # Nil
          PROVE  /\ store[j] # Nil
                 /\ store'[j].spec = store[j].spec
                 /\ \A e \in Endpoint :
                       store'[j].endpoints[e] # Nil /\ store'[j].endpoints[e].path
                       => store[j].endpoints[e] # Nil /\ store[j].endpoints[e].path
      BY <2>2, <3>1, <3>2, <3>3, <3>4
    <3> QED
      BY <3>4 DEF ProbeInv, StoreChecked, Checker!Enabled
  <2> QED
    BY <1>3, <2>1, <2>2 DEF UpdateEndpointHealth
<1>7. UNCHANGED store \/ (store[k] # Nil /\ OfRef(store[k].endpoints, ref) # {})
  BY <1>3, MissesRef DEF UpdateEndpointHealth
<1> QED
  BY <1>3, <1>4, <1>5, <1>6, <1>7 DEF ProbeInv

-----------------------------------------------------------------------------
(* The operator implements Reconciler. *)

LEMMA CheckerStepMaps ==
    ASSUME TypeOK, ProbeInv, CheckerStep
    PROVE  ProbeInv' /\ [Next]_vars
<1>1. /\ UNCHANGED <<clusterVars, HTTPRouteAvailable, queue, pc, localVars, checkable,
                     faults, restarts>>
      /\ probes' = probes + (IF store' # store THEN 1 ELSE 0)
      /\ probes' <= MaxProbes
      /\ probes \in Nat /\ MaxProbes \in Nat
  BY ReconcilerAssumption DEF CheckerStep, TypeOK
<1>2. ASSUME UNCHANGED store PROVE UNCHANGED vars
  BY <1>1, <1>2 DEF vars, reconcilerVars, envVars
<1>3. CASE Checker!SyncStep
  BY <1>1, <1>2, <1>3, SyncKeepsProbes
<1>4. ASSUME NEW l \in Loop,
             \/ Checker!LoopDone(l) \/ Checker!LoopTick(l) \/ Checker!LoopPassEnd(l)
             \/ \E e \in Endpoint : Checker!LoopProbe(l, e)
      PROVE  ProbeInv' /\ [Next]_vars
  BY <1>1, <1>2, <1>4, LoopKeepsProbes
<1>5. ASSUME NEW l \in Loop, Checker!LoopWrite(l) PROVE ProbeInv' /\ [Next]_vars
  <2>1. CASE UNCHANGED store
    BY <1>1, <1>2, <1>5, <2>1, WriteIsProbeResult
  <2>2. CASE store' # store
    <3>1. PICK k \in Routemap, ref \in Refs, state \in HealthState \ {"Unknown"} :
             /\ <<k, ref>> \in checkable
             /\ store[k] # Nil
             /\ OfRef(store[k].endpoints, ref) # {}
             /\ UpdateEndpointHealth(k, ref, state)
      BY <1>1, <1>5, <2>2, WriteIsProbeResult
    <3>2. probes < MaxProbes /\ probes' = probes + 1
      BY <1>1, <2>2
    <3>3. ProbeResult(k, ref, state)
      BY <1>1, <3>1, <3>2 DEF ProbeResult
    <3> QED
      BY <1>1, <1>5, <3>3, WriteIsProbeResult DEF Next
  <2> QED
    BY <2>1, <2>2
<1> QED
  BY <1>3, <1>4, <1>5 DEF CheckerStep, Checker!LoopStep

LEMMA ReconcilerStepMaps == ReconcilerStep => Next
  BY DEF ReconcilerStep, Next

-----------------------------------------------------------------------------
(* The operator implements HealthChecker. *)

\* The views that a step of the reconciler removes.
Removed == {k \in Routemap : store[k] # Nil /\ store'[k] = Nil}

\* A view that Reconcile has collected has no health states in it.
LEMMA CollectedView ==
    ASSUME TypeOK, UniformInv, SpecsChosen, pc = "merge"
    PROVE  [spec |-> rm.spec, endpoints |-> endpoints] \in CollectedViews
<1>1. rm.spec \in SpecChoice
  BY DEF TypeOK, SpecsChosen, Chosen
<1>2. endpoints \in [Endpoint -> EndpointState \cup {Nil}] /\ AllUnknown(endpoints)
  BY DEF TypeOK, Endpoints, UniformInv
<1>3. ASSUME NEW e \in Endpoint
      PROVE  endpoints[e] \in [path : BOOLEAN, health : {"Unknown"}] \cup {Nil}
  <2>1. CASE endpoints[e] # Nil
    <3>1. endpoints[e] \in EndpointState /\ endpoints[e].health = "Unknown"
      BY <1>2, <2>1 DEF AllUnknown
    <3> QED
      BY <3>1 DEF EndpointState
  <2> QED
    BY <2>1
<1>4. endpoints \in [Endpoint -> [path : BOOLEAN, health : {"Unknown"}] \cup {Nil}]
  BY <1>2, <1>3
<1> QED
  BY <1>1, <1>4 DEF CollectedViews

LEMMA ReconcilerImplementsChecker ==
    ASSUME OperatorInv, ReconcilerStep
    PROVE  /\ [Checker!Next]_Checker!vars
           /\ publishes' \in Nat /\ withdrawals' \in Nat
<1>t. /\ TypeOK /\ UniformInv /\ SpecsChosen
      /\ publishes \in Nat /\ withdrawals \in Nat
      /\ MaxPublishes \in Nat /\ MaxWithdrawals \in Nat
      /\ store \in [Routemap -> RoutemapView \cup {Nil}]
      /\ pc # "idle" => req \in Routemap
  BY OperatorAssumption DEF OperatorInv, TypeOK, StoreTypeOK
<1>u. UNCHANGED <<cancels, loop, sync, done, backend, outages>>
  BY DEF ReconcilerStep, checkerVars
<1>p. /\ publishes' = publishes
                        + (IF pc # "publish" /\ pc' = "publish" THEN 1 ELSE 0)
      /\ publishes' <= MaxPublishes
      /\ withdrawals' = withdrawals + Cardinality(Removed)
      /\ withdrawals' <= MaxWithdrawals
  BY DEF ReconcilerStep, Removed
<1>e. Removed = {} => withdrawals' = withdrawals
  BY <1>p, <1>t, FS_EmptySet
<1>s. ASSUME UNCHANGED store PROVE Removed = {}
  BY <1>s DEF Removed
<1>1. CASE Elsewhere
  <2>1. UNCHANGED store /\ UNCHANGED Pending
    BY <1>1 DEF Elsewhere, Pending
  <2>2. UNCHANGED <<publishes, withdrawals>>
    BY <1>1, <1>p, <1>t, <1>e, <1>s, <2>1 DEF Elsewhere
  <2> QED
    BY <1>t, <1>u, <2>1, <2>2 DEF Checker!vars, Checker!envVars
<1>2. CASE GetNotFound \/ GetDeleting
  <2>1. PICK k \in Routemap : k = req
    BY <1>2, <1>t DEF GetNotFound, GetDeleting
  <2>2. /\ pc = "get" /\ pc' \in {"idle", "unfinalize"}
        /\ store' = [store EXCEPT ![k] = Nil]
    BY <1>2, <2>1 DEF GetNotFound, GetDeleting, Delete, Return, NoLocals
  <2>3. Pending = Nil /\ Pending' = Nil /\ publishes' = publishes
    BY <1>p, <1>t, <2>2 DEF Pending
  <2>4. CASE store[k] = Nil
    <3>1. UNCHANGED store
      BY <1>t, <2>2, <2>4
    <3> QED
      BY <1>t, <1>u, <1>e, <1>s, <2>3, <3>1 DEF Checker!vars, Checker!envVars
  <2>5. CASE store[k] # Nil
    <3>1. Removed = {k}
      BY <1>t, <2>2, <2>5 DEF Removed
    <3>2. Cardinality({k}) = 1
      BY FS_Singleton
    <3>3. withdrawals' = withdrawals + 1
      BY <1>p, <3>1, <3>2
    <3>4. withdrawals < MaxWithdrawals
      BY <1>p, <1>t, <3>3
    <3>5. Checker!Withdraw(k)
      BY <1>u, <2>2, <2>3, <2>5, <3>3, <3>4 DEF Checker!Withdraw, Checker!Delete
    <3> QED
      BY <1>t, <2>3, <3>3, <3>5 DEF Checker!Next
  <2> QED
    BY <2>4, <2>5
<1>3. CASE Merge
  <2>1. PICK k \in Routemap : k = req
    BY <1>3, <1>t DEF Merge
  <2> DEFINE view == [spec |-> rm.spec, endpoints |-> endpoints]
  <2>2. /\ pc = "merge" /\ pc' = "publish"
        /\ endpoints' = mergeHealth(k, endpoints)
        /\ UNCHANGED <<req, rm, store>>
    BY <1>3, <2>1 DEF Merge
  <2>3. publishes' = publishes + 1 /\ withdrawals' = withdrawals
    BY <1>p, <1>t, <1>e, <1>s, <2>2
  <2>4. publishes < MaxPublishes
    BY <1>p, <1>t, <2>3
  <2>5. view \in CollectedViews
    BY <1>t, <2>2, CollectedView
  <2>6. view.spec = rm.spec /\ view.endpoints = endpoints
    OBVIOUS
  <2> HIDE DEF view
  <2>7. Pending = Nil
    BY <2>2 DEF Pending
  <2>8. Pending' = [key  |-> k,
                    view |-> [spec      |-> view.spec,
                              endpoints |-> Checker!mergeHealth(k, view.endpoints)]]
    BY <2>1, <2>2, <2>6, SameMerge DEF Pending
  <2>9. Checker!BuildView(k, view)
    BY <1>u, <2>2, <2>3, <2>4, <2>7, <2>8 DEF Checker!BuildView
  <2> QED
    BY <1>t, <2>3, <2>5, <2>9 DEF Checker!Next
<1>4. CASE Publish
  <2>1. PICK k \in Routemap : k = req
    BY <1>4, <1>t DEF Publish
  <2> DEFINE view == [spec |-> rm.spec, endpoints |-> endpoints]
  <2>2. /\ pc = "publish" /\ pc' = "refetch"
        /\ store' = [store EXCEPT ![k] = view]
    BY <1>4, <2>1 DEF Publish, Set
  <2>3. view \in RoutemapView
    BY <1>t, <2>2 DEF TypeOK, Object, RoutemapView
  <2>4. Pending = [key |-> k, view |-> view] /\ Pending' = Nil
    BY <2>1, <2>2 DEF Pending
  <2> HIDE DEF view
  <2>5. view # Nil
    BY <2>3, NilRecordAssumption
  <2>6. Pending # Nil
    <3>1. Checker!RoutemapView = RoutemapView
      BY DEF Checker!RoutemapView, RoutemapView, Checker!RoutemapSpec, RoutemapSpec,
             Checker!NamespaceSelector, NamespaceSelector, Checker!SourceKind,
             SourceKind, Checker!HealthCheckSpec, HealthCheckSpec,
             Checker!Endpoints, Endpoints, Checker!EndpointState, EndpointState,
             Checker!HealthState, HealthState
    <3>2. Pending \in Checker!PendingView
      BY <2>3, <2>4, <3>1 DEF Checker!PendingView
    <3> QED
      BY <3>2, NilPendingAssumption
  <2>7. Removed = {}
    BY <1>t, <2>2, <2>5 DEF Removed
  <2>8. UNCHANGED <<publishes, withdrawals>>
    BY <1>p, <1>t, <1>e, <2>2, <2>7
  <2>9. Pending.key = k /\ Pending.view = view
    BY <2>4
  <2>10. Checker!PublishView
    BY <1>u, <2>2, <2>4, <2>6, <2>8, <2>9 DEF Checker!PublishView, Checker!Set
  <2> QED
    BY <1>t, <2>8, <2>10 DEF Checker!Next
<1> QED
  BY <1>t, <1>1, <1>2, <1>3, <1>4, ReconcilerEffects

\* Every step of the operator is one of each module, or a stutter of it.
LEMMA OperatorStep ==
    OperatorInv /\ [ReconcilerStep \/ CheckerStep]_operatorVars =>
        OperatorInv' /\ [Next]_vars /\ [Checker!Next]_Checker!vars
<1> SUFFICES ASSUME OperatorInv, [ReconcilerStep \/ CheckerStep]_operatorVars
             PROVE  OperatorInv' /\ [Next]_vars /\ [Checker!Next]_Checker!vars
  OBVIOUS
<1>0. ASSUME [Next]_vars PROVE TypeOK' /\ UniformInv' /\ SpecsChosen'
  BY <1>0, TypeStep, UniformStep, SpecsStep DEF OperatorInv
<1>1. CASE ReconcilerStep
  BY <1>0, <1>1, ReconcilerStepMaps, ReconcilerKeepsProbes,
     ReconcilerImplementsChecker
  DEF OperatorInv
<1>2. CASE CheckerStep
  <2>1. ProbeInv' /\ [Next]_vars
    BY <1>2, CheckerStepMaps DEF OperatorInv
  <2>2. UNCHANGED <<publishes, withdrawals>>
    BY <1>2
    DEF CheckerStep, Checker!SyncStep, Checker!SyncStart, Checker!SyncGet,
        Checker!stopLoop, Checker!ensureLoop, Checker!SyncSweep, Checker!LoopDone,
        Checker!LoopStep, Checker!LoopTick, Checker!LoopPassEnd, Checker!LoopWrite,
        Checker!LoopProbe, Checker!envVars
  <2>3. Checker!Next
    BY <1>2 DEF CheckerStep, Checker!Next
  <2> QED
    BY <1>0, <2>1, <2>2, <2>3 DEF OperatorInv
<1>3. CASE UNCHANGED operatorVars
  <2>1. UNCHANGED vars /\ UNCHANGED <<loop, sync, publishes, withdrawals>>
    BY <1>3 DEF operatorVars, checkerVars
  <2>2. UNCHANGED <<store, checkable, pc, req, rm, endpoints>>
    BY <2>1 DEF vars, reconcilerVars, localVars, envVars
  <2>3. ProbeInv'
    BY <2>1, <2>2, ProbesKept, StoreKept DEF OperatorInv, ProbeInv
  <2>4. UNCHANGED Checker!vars
    BY <1>3, <2>2
    DEF operatorVars, checkerVars, Checker!vars, Checker!envVars, Pending
  <2> QED
    BY <1>0, <2>1, <2>3, <2>4 DEF OperatorInv
<1> QED
  BY <1>1, <1>2, <1>3

(***************************************************************************)
(* In the operator that cmd/main.go wires, the goroutines of the health    *)
(* checker do to the store only what Reconciler lets ProbeResult do,       *)
(* however late they write: what is proved of Reconciler is true of the    *)
(* operator as long as it does not crash.                                  *)
(***************************************************************************)
THEOREM OperatorReconciles == OperatorSpec => ImplementsReconciler
<1>1. OperatorInit => Init
  BY DEF OperatorInit
<1> QED
  BY <1>1, OperatorInitially, OperatorStep, PTL
  DEF OperatorSpec, ImplementsReconciler, Spec

(***************************************************************************)
(* And Reconcile does to the store only what HealthChecker expects of it:  *)
(* mergeHealth, Store.Set and Store.Delete are BuildView, PublishView and  *)
(* Withdraw, so what is proved of the probe loops is true of the operator. *)
(***************************************************************************)
THEOREM OperatorChecks == OperatorSpec => ImplementsChecker
<1>1. OperatorInit => Checker!Init
  BY DEF OperatorInit
<1> QED
  BY <1>1, OperatorInitially, OperatorStep, PTL
  DEF OperatorSpec, ImplementsChecker, Checker!Spec

(***************************************************************************)
(* What the refinement carries over: with the probe loops themselves at    *)
(* work on the store, no view outlives its Routemap and the endpoints of a *)
(* source ref agree on their health.                                       *)
(***************************************************************************)
COROLLARY OperatorSafe == OperatorSpec => [](NoOrphanView /\ UniformHealth)
  BY OperatorReconciles, NoOrphan, HealthUniform, PTL DEF ImplementsReconciler

(***************************************************************************)
(* Nor does a wakeup get lost beside the probe loops: what they write to   *)
(* the store raises no event, and needs none, since it changes neither the *)
(* endpoints of a view nor their paths.                                    *)
(***************************************************************************)
COROLLARY OperatorWakes ==
    ASSUME ListMayFail = FALSE PROVE OperatorSpec => []NoLostWakeup
  BY OperatorReconciles, WakeupsKept, PTL DEF ImplementsReconciler
=============================================================================
