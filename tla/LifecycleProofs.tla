-------------------------- MODULE LifecycleProofs --------------------------
(***************************************************************************)
(* The reconciler implements Lifecycle, for every set of Routemaps and     *)
(* every value of the bounds: each of its steps is a step of the life of a *)
(* view, or leaves Lifecycle's variables alone.                            *)
(***************************************************************************)
EXTENDS ReconcilerProofs

-----------------------------------------------------------------------------
(***************************************************************************)
(* What OrphanInv does not say.  The cache tells the incarnations of a     *)
(* Routemap apart: while the operator holds the one there is, the cache    *)
(* shows a copy of that one, because the finalizer is written over a copy  *)
(* that the cache had shown.  So a mark that the cache shows is a mark of  *)
(* the Routemap that is held, and stays until that one is gone.            *)
(***************************************************************************)

HeldKnown ==
    \A k \in Routemap :
        Held(k) => rmCache[k] # Nil /\ rmCache[k].uid = api[k].uid

\* The API server keeps a marked Routemap only for its finalizer.
MarkedHeld ==
    \A k \in Routemap : api[k] # Nil /\ api[k].deleting => Held(k)

\* A mark is not taken back.
MarkKept ==
    \A k \in Routemap :
        /\ rmCache[k] # Nil /\ rmCache[k].deleting
        /\ api[k] # Nil /\ api[k].uid = rmCache[k].uid
        => api[k].deleting

\* The worker is about to add the finalizer.
Finalizing ==
    pc = "finalize" =>
        /\ ~rm.deleting /\ ~rm.finalizer
        /\ CopyOf(rm, req)
        /\ api[req] = rm => rmCache[req] = rm

LifeInv == HeldKnown /\ MarkedHeld /\ MarkKept /\ Finalizing

InLifecycle == removals = 0 => OrphanInv /\ LifeInv

LEMMA LifeInit == Init => LifeInv
  BY DEF Init, ClusterInit, LifeInv, HeldKnown, MarkedHeld, MarkKept, Finalizing,
         Held

LEMMA LifeFrame ==
    ASSUME LifeInv, UNCHANGED <<api, created, rmCache, pc, req, rm>>
    PROVE  LifeInv'
  BY DEF LifeInv, HeldKnown, MarkedHeld, MarkKept, Finalizing, Held, CopyOf

(***************************************************************************)
(* A user changes the Routemap under k: it is gone, or a new object that   *)
(* is not marked, or a newer version of the one there was, with the same   *)
(* finalizer and with the mark if that had it.                             *)
(***************************************************************************)
LEMMA LifeUser ==
    ASSUME TypeOK, OrphanInv, LifeInv, NEW k \in Routemap,
           NEW obj \in Object \cup {Nil},
           api' = [api EXCEPT ![k] = obj],
           created' \in [Routemap -> Nat],
           \A j \in Routemap : created[j] <= created'[j],
           obj = Nil => ~Held(k),
           obj # Nil =>
              \/ /\ obj.uid > created[k] /\ obj.uid <= created'[k]
                 /\ ~obj.deleting /\ ~obj.finalizer
              \/ /\ api[k] # Nil
                 /\ obj.uid = api[k].uid /\ obj.gen > api[k].gen
                 /\ obj.finalizer = api[k].finalizer
                 /\ obj.deleting => obj.finalizer
                 /\ api[k].deleting => obj.deleting,
           UNCHANGED <<rmCache, pc, req, rm>>
    PROVE  LifeInv'
<1> USE DEF TypeOK, ClusterTypeOK
<1>k. /\ api'[k] = obj
      /\ \A j \in Routemap : j # k => api'[j] = api[j]
  OBVIOUS
<1>t. /\ obj # Nil => obj.uid \in Nat /\ obj.gen \in Nat
      /\ api[k] # Nil => api[k].uid \in Nat /\ api[k].gen \in Nat
      /\ rmCache[k] # Nil => rmCache[k].uid \in Nat /\ rmCache[k].uid <= created[k]
      /\ created[k] \in Nat
  BY DEF Object, OrphanInv, CopiesOld, CopyOf
<1>1. HeldKnown'
  BY <1>k DEF LifeInv, HeldKnown, Held
<1>2. MarkedHeld'
  BY <1>k DEF LifeInv, MarkedHeld, Held
<1>3. MarkKept'
  BY <1>k, <1>t DEF LifeInv, MarkKept
<1>4. Finalizing'
  <2> SUFFICES ASSUME pc = "finalize" PROVE Finalizing'
    BY DEF Finalizing
  <2>1. /\ rm \in Object /\ rm # Nil /\ req \in Routemap
        /\ rm.uid \in Nat /\ rm.gen \in Nat
        /\ created[req] \in Nat /\ created'[req] \in Nat
        /\ created[req] <= created'[req]
    BY DEF Object
  <2>2. /\ rm.uid <= created[req] /\ ~rm.deleting /\ ~rm.finalizer
        /\ api[req] # Nil /\ api[req].uid = rm.uid => rm.gen <= api[req].gen
        /\ api[req] = rm => rmCache[req] = rm
    BY <2>1 DEF LifeInv, Finalizing, CopyOf
  <2>3. /\ rm.uid <= created'[req]
        /\ api'[req] # Nil /\ api'[req].uid = rm.uid => rm.gen <= api'[req].gen
        /\ api'[req] = rm => rmCache'[req] = rm
    BY <1>k, <1>t, <2>1, <2>2
  <2> QED
    BY <2>1, <2>2, <2>3 DEF Finalizing, CopyOf
<1> QED
  BY <1>1, <1>2, <1>3, <1>4 DEF LifeInv

LEMMA LifeUsers ==
    ASSUME removals' = 0, TypeOK, OrphanInv, LifeInv, Users,
           UNCHANGED reconcilerVars
    PROVE  LifeInv' /\ \A k \in Routemap : Held(k)' <=> Held(k)
<1>t. /\ api \in [Routemap -> Object \cup {Nil}] /\ created \in [Routemap -> Nat]
      /\ \A k \in Routemap : created[k] <= created[k]
  BY DEF TypeOK, ClusterTypeOK
<1>u. UNCHANGED <<pc, req, rm>>
  BY DEF reconcilerVars, localVars
<1>1. ASSUME NEW k \in Routemap, NEW spec \in SpecChoice, CreateRoutemap(k, spec)
      PROVE  LifeInv' /\ \A j \in Routemap : Held(j)' <=> Held(j)
  <2> DEFINE obj == [uid |-> created[k] + 1, gen |-> 1, spec |-> spec,
                     deleting |-> FALSE, finalizer |-> FALSE, status |-> Nil]
  <2>0. obj \in Object
    BY <1>t, SpecChoiceAssumption DEF Object
  <2>1. obj # Nil
    BY <2>0, NilObjectAssumption
  <2>2. /\ api' = [api EXCEPT ![k] = obj] /\ api[k] = Nil
        /\ created' = [created EXCEPT ![k] = @ + 1]
        /\ UNCHANGED rmCache
    BY <1>1 DEF CreateRoutemap, rmInformer
  <2>3. obj.uid = created[k] + 1 /\ ~obj.deleting /\ ~obj.finalizer
    OBVIOUS
  <2> HIDE DEF obj
  <2>4. /\ created' \in [Routemap -> Nat]
        /\ \A j \in Routemap : created[j] <= created'[j]
        /\ obj.uid <= created'[k] /\ obj.uid > created[k]
    BY <1>t, <2>2, <2>3
  <2>5. \A j \in Routemap : Held(j)' <=> Held(j)
    BY <1>t, <2>2, <2>3 DEF Held
  <2> QED
    BY <1>u, <2>0, <2>1, <2>2, <2>3, <2>4, <2>5, LifeUser
<1>2. ASSUME NEW k \in Routemap, NEW spec \in SpecChoice, EditSpec(k, spec)
      PROVE  LifeInv' /\ \A j \in Routemap : Held(j)' <=> Held(j)
  <2> DEFINE obj == [api[k] EXCEPT !.spec = spec, !.gen = api[k].gen + 1]
  <2>0. api[k] \in Object /\ obj \in Object
    BY <1>2, <1>t, ObjectWrites, SpecChoiceAssumption DEF EditSpec
  <2>1. api[k] \in Object /\ obj \in Object /\ obj # Nil
    BY <2>0, NilObjectAssumption
  <2>2. /\ api' = [api EXCEPT ![k] = obj] /\ api[k] # Nil
        /\ UNCHANGED <<created, rmCache>>
    BY <1>2 DEF EditSpec, rmInformer
  <2>3. /\ obj.uid = api[k].uid /\ obj.finalizer = api[k].finalizer
        /\ obj.deleting = api[k].deleting
        /\ obj.gen = api[k].gen + 1 /\ api[k].gen \in Nat
    BY <2>1 DEF Object
  <2> HIDE DEF obj
  <2>4. obj.gen > api[k].gen /\ (obj.deleting => obj.finalizer)
    BY <2>2, <2>3 DEF LifeInv, MarkedHeld, Held
  <2>5. \A j \in Routemap : Held(j)' <=> Held(j)
    BY <1>t, <2>1, <2>2, <2>3 DEF Held
  <2> QED
    BY <1>t, <1>u, <2>1, <2>2, <2>3, <2>4, <2>5, LifeUser
<1>3. ASSUME NEW k \in Routemap, DeleteRoutemap(k)
      PROVE  LifeInv' /\ \A j \in Routemap : Held(j)' <=> Held(j)
  <2>1. CASE ~api[k].finalizer
    <3>1. api' = [api EXCEPT ![k] = Nil] /\ UNCHANGED <<created, rmCache>>
      BY <1>3, <2>1 DEF DeleteRoutemap, rmInformer
    <3>2. ~Held(k)
      BY <2>1 DEF Held
    <3>3. \A j \in Routemap : Held(j)' <=> Held(j)
      BY <1>t, <3>1, <3>2 DEF Held
    <3> QED
      BY <1>t, <1>u, <3>1, <3>2, <3>3, LifeUser
  <2>2. CASE api[k].finalizer
    <3> DEFINE obj == [api[k] EXCEPT !.deleting = TRUE, !.gen = api[k].gen + 1]
    <3>1. api[k] \in Object /\ obj \in Object /\ obj # Nil
      BY <1>3, <1>t, ObjectWrites, NilObjectAssumption DEF DeleteRoutemap
    <3>2. /\ api' = [api EXCEPT ![k] = obj] /\ api[k] # Nil
          /\ UNCHANGED <<created, rmCache>>
      BY <1>3, <2>2 DEF DeleteRoutemap, rmInformer
    <3>3. /\ obj.uid = api[k].uid /\ obj.finalizer = api[k].finalizer
          /\ obj.deleting = TRUE
          /\ obj.gen = api[k].gen + 1 /\ api[k].gen \in Nat
      BY <3>1 DEF Object
    <3> HIDE DEF obj
    <3>4. obj.gen > api[k].gen
      BY <3>3
    <3>5. \A j \in Routemap : Held(j)' <=> Held(j)
      BY <1>t, <3>1, <3>2, <3>3 DEF Held
    <3> QED
      BY <1>t, <1>u, <2>2, <3>1, <3>2, <3>3, <3>4, <3>5, LifeUser
  <2> QED
    BY <2>1, <2>2
<1>4. ASSUME NEW k \in Routemap, ForceRemove(k) PROVE FALSE
  BY <1>4 DEF ForceRemove, TypeOK, ClusterTypeOK
<1>5. ASSUME \/ \E s \in Source, content \in SourceState : ChangeSource(s, content)
             \/ \E n \in Namespace : RelabelNamespace(n)
             \/ InstallCRD
      PROVE  LifeInv' /\ \A j \in Routemap : Held(j)' <=> Held(j)
  <2>1. UNCHANGED <<api, created, rmCache>>
    BY <1>5 DEF ChangeSource, RelabelNamespace, InstallCRD, apiVars, rmInformer
  <2> QED
    BY <1>u, <2>1, LifeFrame DEF Held
<1> QED
  BY <1>1, <1>2, <1>3, <1>4, <1>5 DEF Users

\* The informer copies the Routemap of k.
LEMMA LifeSync ==
    ASSUME TypeOK, LifeInv, NEW k \in Routemap, SyncRoutemap(k),
           UNCHANGED reconcilerVars
    PROVE  LifeInv'
<1>1. /\ rmCache' = [rmCache EXCEPT ![k] = api[k]]
      /\ rmCache \in [Routemap -> Object \cup {Nil}]
      /\ UNCHANGED <<api, created, pc, req, rm>>
      /\ pc = "finalize" => req \in Routemap
  BY DEF SyncRoutemap, apiVars, reconcilerVars, localVars, TypeOK, ClusterTypeOK
<1>2. \A j \in Routemap :
         rmCache'[j] = api[j] \/ (rmCache'[j] = rmCache[j] /\ j # k)
  BY <1>1
<1>3. HeldKnown' /\ MarkedHeld' /\ MarkKept'
  BY <1>1, <1>2 DEF LifeInv, HeldKnown, MarkedHeld, MarkKept, Held
<1>4. Finalizing'
  BY <1>1, <1>2 DEF LifeInv, Finalizing, CopyOf
<1> QED
  BY <1>3, <1>4 DEF LifeInv

\* The worker goes on, or is done with a call, and writes no Routemap.
LEMMA LifeIdle ==
    ASSUME LifeInv, UNCHANGED <<api, created, rmCache>>, pc' # "finalize"
    PROVE  LifeInv'
  BY DEF LifeInv, HeldKnown, MarkedHeld, MarkKept, Finalizing, Held

\* The worker writes a version of the Routemap it read, marked as it was.
LEMMA LifeWrite ==
    ASSUME TypeOK, LifeInv, req \in Routemap,
           NEW obj \in Object,
           api[req] # Nil,
           api' = [api EXCEPT ![req] = obj],
           obj.uid = api[req].uid, obj.deleting = api[req].deleting,
           api[req].finalizer => obj.finalizer,
           \/ obj.finalizer = api[req].finalizer
           \/ rmCache[req] # Nil /\ rmCache[req].uid = api[req].uid,
           pc' = "idle", UNCHANGED <<created, rmCache>>
    PROVE  LifeInv'
<1>1. /\ api'[req] = obj /\ obj # Nil
      /\ \A k \in Routemap : k # req => api'[k] = api[k]
  BY NilObjectAssumption DEF TypeOK, ClusterTypeOK
<1>2. HeldKnown'
  BY <1>1 DEF LifeInv, HeldKnown, Held
<1>3. MarkedHeld'
  BY <1>1 DEF LifeInv, MarkedHeld, Held
<1>4. MarkKept'
  BY <1>1 DEF LifeInv, MarkKept
<1> QED
  BY <1>2, <1>3, <1>4 DEF LifeInv, Finalizing

\* What a write to the API server does to the Routemap and to the worker.
LEMMA WriteEffect ==
    ASSUME NEW read, NEW obj, NEW due,
           Write(read, obj, Return) \/ Write(read, obj, Requeue(due))
    PROVE  /\ api[req] = read /\ api' = [api EXCEPT ![req] = obj]
           /\ pc' = "idle" /\ req' = Nil
           /\ UNCHANGED <<created, removals, rmCache, restarts, store>>
  BY DEF Write, Return, Requeue, ReturnError, NoLocals, rmInformer

LEMMA LifeAddFinalizer ==
    ASSUME TypeOK, OrphanInv, LifeInv, AddFinalizer PROVE LifeInv'
<1> DEFINE obj == [rm EXCEPT !.finalizer = TRUE]
<1>1. rm \in Object /\ rm # Nil /\ obj \in Object /\ req \in Routemap
  BY ObjectWrites, NilObjectAssumption DEF AddFinalizer, TypeOK
<1>2. obj.uid = rm.uid /\ obj.deleting = rm.deleting /\ obj.finalizer
  BY <1>1 DEF Object
<1>3. /\ api[req] = rm /\ api' = [api EXCEPT ![req] = obj]
      /\ pc = "finalize" /\ pc' = "idle" /\ UNCHANGED <<created, rmCache>>
  BY WriteEffect DEF AddFinalizer
<1>4. rmCache[req] = rm
  BY <1>3 DEF LifeInv, Finalizing
<1> HIDE DEF obj
<1> QED
  BY <1>1, <1>2, <1>3, <1>4, LifeWrite

LEMMA LifeStatusUpdate ==
    ASSUME TypeOK, LifeInv, StatusUpdate
    PROVE  LifeInv' /\ \A k \in Routemap : Held(k)' <=> Held(k)
<1> DEFINE obj == [fresh EXCEPT !.status = setReadyCondition]
<1>1. fresh \in Object /\ fresh # Nil /\ req \in Routemap
  BY NilObjectAssumption DEF StatusUpdate, TypeOK
<1>2. setReadyCondition \in RoutemapStatus
  BY <1>1, CountType
  DEF setReadyCondition, RoutemapStatus, httprouteUnavailable, TypeOK, Object
<1>3. obj \in Object /\ obj # Nil
  BY <1>1, <1>2, ObjectWrites, NilObjectAssumption
<1>4. /\ obj.uid = fresh.uid /\ obj.deleting = fresh.deleting
      /\ obj.finalizer = fresh.finalizer
  BY <1>1 DEF Object
<1>5. /\ api[req] = fresh /\ api' = [api EXCEPT ![req] = obj]
      /\ pc' = "idle" /\ UNCHANGED <<created, rmCache>>
  BY WriteEffect DEF StatusUpdate
<1> HIDE DEF obj
<1>6. LifeInv'
  BY <1>1, <1>3, <1>4, <1>5, LifeWrite
<1>7. \A k \in Routemap : Held(k)' <=> Held(k)
  BY <1>1, <1>3, <1>4, <1>5 DEF Held, TypeOK, ClusterTypeOK
<1> QED
  BY <1>6, <1>7

-----------------------------------------------------------------------------
(* Each step of the reconciler is a step of Lifecycle or a stutter. *)

\* A step that changes neither who is held nor who is closing or served.
LEMMA Stutters ==
    ASSUME removals = 0, removals' = 0, restarts' = restarts,
           \A k \in Routemap :
              /\ Held(k)' <=> Held(k)
              /\ Closing(k)' <=> Closing(k)
              /\ store'[k] # Nil <=> store[k] # Nil
    PROVE  UNCHANGED Views!vars
<1>1. {k \in Routemap : Held(k)}' = {k \in Routemap : Held(k)}
  OBVIOUS
<1>2. {k \in Routemap : Closing(k)}' = {k \in Routemap : Closing(k)}
  OBVIOUS
<1>3. {k \in Routemap : store[k] # Nil}' = {k \in Routemap : store[k] # Nil}
  OBVIOUS
<1> QED
  BY <1>1, <1>2, <1>3 DEF Views!vars

\* The caches and the worker's place in the call are as they were.
LEMMA ClosingFrame ==
    ASSUME UNCHANGED <<rmCache, pc, req>>, NEW k
    PROVE  Closing(k)' <=> Closing(k)
  BY DEF Closing, Building

\* The operator goes by the deletion of a Routemap that it holds from now on.
LEMMA Closes ==
    ASSUME removals = 0, removals' = 0, restarts' = restarts,
           NEW k \in Routemap, Held(k),
           Closing(k) => Closing(k)',
           \A j \in Routemap :
              /\ Held(j)' <=> Held(j)
              /\ j # k => (Closing(j)' <=> Closing(j))
              /\ store'[j] # Nil <=> store[j] # Nil
    PROVE  [Views!Next]_Views!vars
<1>1. CASE Closing(k)' <=> Closing(k)
  BY <1>1, Stutters
<1>2. CASE Closing(k)' /\ ~Closing(k)
  <2>1. {j \in Routemap : Held(j)}' = {j \in Routemap : Held(j)}
    OBVIOUS
  <2>2. {j \in Routemap : Closing(j)}' = {j \in Routemap : Closing(j)} \cup {k}
    BY <1>2
  <2>3. {j \in Routemap : store[j] # Nil}' = {j \in Routemap : store[j] # Nil}
    OBVIOUS
  <2>4. Views!Close(k)
    BY <2>1, <2>2, <2>3 DEF Views!Close
  <2> QED
    BY <2>4 DEF Views!Next
<1> QED
  BY <1>1, <1>2

LEMMA SyncMaps ==
    ASSUME TypeOK, OrphanInv, LifeInv, removals = 0, NEW k \in Routemap,
           SyncRoutemap(k), UNCHANGED reconcilerVars
    PROVE  [Views!Next]_Views!vars
<1>1. /\ rmCache'[k] = api[k]
      /\ \A j \in Routemap : j # k => rmCache'[j] = rmCache[j]
      /\ UNCHANGED <<api, removals, pc, req, store, restarts>>
  BY DEF SyncRoutemap, apiVars, reconcilerVars, localVars, envVars, TypeOK,
         ClusterTypeOK
<1>2. \A j \in Routemap :
         /\ Held(j)' <=> Held(j)
         /\ j # k => (Closing(j)' <=> Closing(j))
         /\ store'[j] # Nil <=> store[j] # Nil
  BY <1>1 DEF Held, Closing, Building
<1>3. Building(k)' <=> Building(k)
  BY <1>1 DEF Building
<1>4. CASE api[k] # Nil /\ api[k].deleting
  <2>1. Held(k) /\ (Closing(k) => Closing(k)')
    BY <1>1, <1>3, <1>4 DEF LifeInv, MarkedHeld, Closing
  <2> QED
    BY <1>1, <1>2, <2>1, Closes
<1>5. CASE ~(api[k] # Nil /\ api[k].deleting) /\ Closing(k)
  <2>1. ~Held(k)
    BY <1>5 DEF LifeInv, HeldKnown, MarkKept, Closing, Held
  <2>2. ~Closing(k)'
    BY <1>1, <1>5 DEF Closing
  <2>3. {j \in Routemap : Held(j)}' = {j \in Routemap : Held(j)}
    BY <1>2
  <2>4. {j \in Routemap : Closing(j)}' = {j \in Routemap : Closing(j)} \ {k}
    BY <1>2, <2>2
  <2>5. {j \in Routemap : store[j] # Nil}' = {j \in Routemap : store[j] # Nil}
    BY <1>2
  <2>6. Views!Forget(k)
    BY <1>1, <1>5, <2>1, <2>3, <2>4, <2>5 DEF Views!Forget
  <2> QED
    BY <2>6 DEF Views!Next
<1>6. CASE ~(api[k] # Nil /\ api[k].deleting) /\ ~Closing(k)
  <2>1. ~Closing(k)'
    BY <1>1, <1>6 DEF Closing
  <2> QED
    BY <1>1, <1>2, <1>6, <2>1, Stutters
<1> QED
  BY <1>4, <1>5, <1>6

\* Reconcile returns an error without having written anything.
LEMMA ErrorMaps ==
    ASSUME TypeOK, OrphanInv, removals = 0,
           ResolveError \/ RefetchNotFound \/ Conflict \/ CallFails
    PROVE  [Views!Next]_Views!vars
<1>1. /\ pc' = "idle" /\ pc # "idle" /\ req \in Routemap
      /\ UNCHANGED <<api, rmCache, removals, restarts, store>>
  BY DEF ResolveError, RefetchNotFound, Conflict, CallFails, ReturnError, Requeue,
         NoLocals, clusterVars, apiVars, rmInformer, envVars, TypeOK
<1>2. \A j \in Routemap :
         /\ Held(j)' <=> Held(j)
         /\ j # req => (Closing(j)' <=> Closing(j))
         /\ store'[j] # Nil <=> store[j] # Nil
         /\ Closing(j) => Closing(j)'
  BY <1>1 DEF Held, Closing, Building
<1>3. CASE Building(req)
  <2>1. Held(req)
    BY <1>3 DEF OrphanInv, WorkerHeld, Building
  <2>2. PICK k \in Routemap : k = req
    BY <1>1
  <2> QED
    BY <1>1, <1>2, <2>1, <2>2, Closes
<1>4. CASE ~Building(req)
  <2>1. \A j \in Routemap : Closing(j)' <=> Closing(j)
    BY <1>1, <1>4 DEF Closing, Building
  <2> QED
    BY <1>1, <1>2, <2>1, Stutters
<1> QED
  BY <1>3, <1>4

LEMMA ReconcileMaps ==
    ASSUME TypeOK, OrphanInv, LifeInv, removals = 0, Reconcile
    PROVE  LifeInv' /\ [Views!Next]_Views!vars
<1>t. /\ api \in [Routemap -> Object \cup {Nil}]
      /\ rmCache \in [Routemap -> Object \cup {Nil}]
      /\ store \in [Routemap -> RoutemapView \cup {Nil}]
      /\ pc # "idle" => req \in Routemap
  BY DEF TypeOK, ClusterTypeOK, StoreTypeOK
<1> USE DEF clusterVars, apiVars, rmInformer, envVars
<1>1. CASE GetNotFound
  <2>1. /\ rmCache[req] = Nil /\ req \in Routemap /\ pc = "get" /\ pc' = "idle"
        /\ store' = [store EXCEPT ![req] = Nil]
        /\ UNCHANGED <<api, created, removals, rmCache, restarts>>
    BY <1>1, <1>t DEF GetNotFound, Delete, Return, NoLocals
  <2>2. store[req] = Nil
    BY <2>1 DEF OrphanInv, ViewsHeld, LifeInv, HeldKnown
  <2>3. \A j \in Routemap :
           /\ Held(j)' <=> Held(j)
           /\ Closing(j)' <=> Closing(j)
           /\ store'[j] # Nil <=> store[j] # Nil
    BY <1>t, <2>1, <2>2 DEF Held, Closing, Building
  <2> QED
    BY <2>1, <2>3, LifeIdle, Stutters
<1>2. CASE GetDeleting
  <2>1. PICK k \in Routemap : k = req
    BY <1>2, <1>t DEF GetDeleting
  <2>2. /\ pc = "get" /\ pc' = "unfinalize"
        /\ rmCache[k] # Nil /\ rmCache[k].deleting
        /\ store' = [store EXCEPT ![k] = Nil]
        /\ UNCHANGED <<api, created, removals, rmCache, req, restarts>>
    BY <1>2, <2>1 DEF GetDeleting, Delete
  <2>3. Closing(k)
    BY <2>2 DEF Closing, Building
  <2>4. {j \in Routemap : Held(j)}' = {j \in Routemap : Held(j)}
    BY <2>2 DEF Held
  <2>5. {j \in Routemap : Closing(j)}' = {j \in Routemap : Closing(j)}
    BY <2>2 DEF Closing, Building
  <2>6. {j \in Routemap : store[j] # Nil}' = {j \in Routemap : store[j] # Nil} \ {k}
    BY <1>t, <2>2
  <2>7. Views!Withdraw(k)
    BY <2>2, <2>3, <2>4, <2>5, <2>6 DEF Views!Withdraw
  <2> QED
    BY <2>2, <2>7, LifeIdle DEF Views!Next
<1>3. CASE GetLive
  <2>1. /\ rmCache[req] # Nil /\ ~rmCache[req].deleting /\ req \in Routemap
        /\ pc = "get" /\ rm' = rmCache[req]
        /\ pc' = IF rmCache[req].finalizer THEN "resolve" ELSE "finalize"
        /\ UNCHANGED <<api, created, removals, rmCache, req, restarts, store>>
    BY <1>3, <1>t DEF GetLive
  <2>2. \A j \in Routemap :
           (Held(j)' <=> Held(j)) /\ (Closing(j)' <=> Closing(j))
    BY <2>1 DEF Held, Closing, Building
  <2>3. HeldKnown' /\ MarkedHeld' /\ MarkKept'
    BY <2>1 DEF LifeInv, HeldKnown, MarkedHeld, MarkKept, Held
  <2>4. Finalizing'
    BY <2>1 DEF Finalizing, OrphanInv, CopiesOld, CopyOf
  <2> QED
    BY <2>1, <2>2, <2>3, <2>4, Stutters DEF LifeInv
<1>4. CASE AddFinalizer
  <2>1. PICK k \in Routemap : k = req
    BY <1>4, <1>t DEF AddFinalizer
  <2>2. /\ pc = "finalize" /\ pc' = "idle" /\ api[k] = rm
        /\ api' = [api EXCEPT ![k] = [rm EXCEPT !.finalizer = TRUE]]
        /\ UNCHANGED <<removals, rmCache, restarts, store>>
    BY <1>4, <2>1, WriteEffect DEF AddFinalizer
  <2>3. ~rm.deleting /\ ~rm.finalizer /\ rmCache[k] = rm /\ rm \in Object
    BY <2>1, <2>2 DEF LifeInv, Finalizing, TypeOK
  <2>4. ~Held(k) /\ ~Closing(k) /\ ~Closing(k)'
    BY <2>2, <2>3 DEF Held, Closing
  <2>5. [rm EXCEPT !.finalizer = TRUE] \in Object
        /\ [rm EXCEPT !.finalizer = TRUE].finalizer
    BY <2>3 DEF Object
  <2>6. Held(k)' /\ \A j \in Routemap : j # k => (Held(j)' <=> Held(j))
    BY <1>t, <2>2, <2>5, NilObjectAssumption DEF Held
  <2>7. {j \in Routemap : Held(j)}' = {j \in Routemap : Held(j)} \cup {k}
    BY <2>6
  <2>8. {j \in Routemap : Closing(j)}' = {j \in Routemap : Closing(j)}
    BY <2>2 DEF Closing, Building
  <2>9. {j \in Routemap : store[j] # Nil}' = {j \in Routemap : store[j] # Nil}
    BY <2>2
  <2>10. Views!Hold(k)
    BY <2>2, <2>4, <2>7, <2>8, <2>9 DEF Views!Hold
  <2> QED
    BY <1>4, <2>10, LifeAddFinalizer DEF Views!Next
<1>5. CASE RemoveFinalizer
  <2>1. PICK k \in Routemap : k = req
    BY <1>5, <1>t DEF RemoveFinalizer
  <2>2. /\ pc = "unfinalize" /\ pc' = "idle" /\ api[k] = rm
        /\ api' = [api EXCEPT ![k] = Nil]
        /\ UNCHANGED <<created, removals, rmCache, restarts, store>>
    BY <1>5, <2>1, WriteEffect DEF RemoveFinalizer
  <2>3. rm.deleting /\ rmCache[k] = rm /\ rm # Nil /\ store[k] = Nil
    BY <2>1, <2>2 DEF OrphanInv, Releasing, TypeOK
  <2>4. /\ api'[k] = Nil
        /\ \A j \in Routemap : j # k => api'[j] = api[j]
    BY <1>t, <2>2
  <2>5. LifeInv'
    BY <2>2, <2>4 DEF LifeInv, HeldKnown, MarkedHeld, MarkKept, Finalizing, Held
  <2>6. Closing(k)
    BY <2>2, <2>3 DEF Closing, Building
  <2>7. {j \in Routemap : Held(j)}' = {j \in Routemap : Held(j)} \ {k}
    BY <2>4 DEF Held
  <2>8. {j \in Routemap : Closing(j)}' = {j \in Routemap : Closing(j)}
    BY <2>2 DEF Closing, Building
  <2>9. {j \in Routemap : store[j] # Nil}' = {j \in Routemap : store[j] # Nil}
    BY <2>2
  <2>10. Views!Release(k)
    BY <2>2, <2>3, <2>6, <2>7, <2>8, <2>9 DEF Views!Release
  <2> QED
    BY <2>5, <2>10 DEF Views!Next
<1>6. ASSUME \/ Resolve
             \/ \E call \in ListCall : List(call)
             \/ Merge \/ Refetch
      PROVE  LifeInv' /\ [Views!Next]_Views!vars
  <2>1. /\ pc \in {"resolve", "list", "merge"}
                  <=> pc' \in {"list", "merge", "publish"}
        /\ pc \in {"resolve", "list", "merge", "refetch"}
        /\ pc' \in {"list", "merge", "publish", "status"}
        /\ UNCHANGED <<api, created, removals, rmCache, req, restarts, store>>
    BY <1>6 DEF Resolve, List, Merge, Refetch
  <2>2. \A j \in Routemap :
           (Held(j)' <=> Held(j)) /\ (Closing(j)' <=> Closing(j))
    BY <2>1 DEF Held, Closing, Building
  <2> QED
    BY <2>1, <2>2, LifeIdle, Stutters
<1>7. CASE Publish
  <2>1. PICK k \in Routemap : k = req
    BY <1>7, <1>t DEF Publish
  <2> DEFINE view == [spec |-> rm.spec, endpoints |-> endpoints]
  <2>2. /\ pc = "publish" /\ pc' = "refetch"
        /\ store' = [store EXCEPT ![k] = view]
        /\ UNCHANGED <<api, created, removals, rmCache, req, restarts>>
    BY <1>7, <2>1 DEF Publish, Set
  <2>3. view # Nil
    <3>1. view \in RoutemapView
      BY <2>2 DEF TypeOK, Object, RoutemapView
    <3> HIDE DEF view
    <3> QED
      BY <3>1, NilRecordAssumption
  <2> HIDE DEF view
  <2>4. Held(k) /\ ~Closing(k)
    BY <2>1, <2>2 DEF OrphanInv, WorkerHeld, Closing, Building
  <2>5. {j \in Routemap : Held(j)}' = {j \in Routemap : Held(j)}
    BY <2>2 DEF Held
  <2>6. \A j \in Routemap : j # k => (Closing(j)' <=> Closing(j))
    BY <2>1, <2>2 DEF Closing, Building
  <2>7. {j \in Routemap : Closing(j)}'
           \in {{j \in Routemap : Closing(j)}, {j \in Routemap : Closing(j)} \cup {k}}
    <3>1. CASE Closing(k)'
      BY <2>4, <2>6, <3>1
    <3>2. CASE ~Closing(k)'
      BY <2>4, <2>6, <3>2
    <3> QED
      BY <3>1, <3>2
  <2>8. {j \in Routemap : store[j] # Nil}'
           = {j \in Routemap : store[j] # Nil} \cup {k}
    BY <1>t, <2>2, <2>3
  <2>9. Views!Serve(k)
    BY <2>2, <2>4, <2>5, <2>7, <2>8 DEF Views!Serve
  <2> QED
    BY <2>2, <2>9, LifeIdle DEF Views!Next
<1>8. CASE StatusUpdate
  <2>1. /\ pc = "status" /\ pc' = "idle"
        /\ UNCHANGED <<removals, rmCache, restarts, store>>
    BY <1>8, WriteEffect DEF StatusUpdate
  <2>2. \A j \in Routemap : Closing(j)' <=> Closing(j)
    BY <2>1 DEF Closing, Building
  <2> QED
    BY <1>8, <2>1, <2>2, LifeStatusUpdate, Stutters
<1>9. ASSUME ResolveError \/ RefetchNotFound \/ Conflict \/ CallFails
      PROVE  LifeInv' /\ [Views!Next]_Views!vars
  <2>1. pc' = "idle" /\ UNCHANGED <<api, created, rmCache>>
    BY <1>9
    DEF ResolveError, RefetchNotFound, Conflict, CallFails, ReturnError, Requeue,
        NoLocals
  <2> QED
    BY <1>9, <2>1, LifeIdle, ErrorMaps
<1> QED
  BY <1>1, <1>2, <1>3, <1>4, <1>5, <1>6, <1>7, <1>8, <1>9 DEF Reconcile

\* A crash: the views are lost, and the caches are those of the API server.
LEMMA RestartMaps ==
    ASSUME TypeOK, OrphanInv, LifeInv, removals = 0, Restart
    PROVE  LifeInv' /\ [Views!Next]_Views!vars
<1>1. /\ pc' = "idle" /\ rmCache' = api /\ UNCHANGED <<api, created, removals>>
      /\ store' = [k \in Routemap |-> Nil] /\ restarts' = restarts + 1
  BY DEF Restart, NoLocals, Relist, apiVars
<1>2. LifeInv'
  BY <1>1 DEF LifeInv, HeldKnown, MarkedHeld, MarkKept, Finalizing, Held
<1>3. {k \in Routemap : Held(k)}' = {k \in Routemap : Held(k)}
  BY <1>1 DEF Held
<1>4. \A k \in Routemap : Held(k) /\ Closing(k) => Closing(k)'
  BY <1>1 DEF LifeInv, HeldKnown, MarkKept, Closing, Building, Held
<1>5. \A k \in Routemap : Closing(k)' => Held(k)
  BY <1>1 DEF LifeInv, MarkedHeld, Closing
<1>6. {k \in Routemap : store[k] # Nil}' = {}
  BY <1>1
<1>7. Views!Crash
  BY <1>1, <1>3, <1>4, <1>5, <1>6 DEF Views!Crash
<1> QED
  BY <1>2, <1>7 DEF Views!Next

\* Once a user has removed a finalizer by hand, Lifecycle promises nothing.
LEMMA ForceMaps ==
    ASSUME TypeOK, [Next]_vars, removals' > 0
    PROVE  [Views!Next]_Views!vars
<1>1. restarts' \in {restarts, restarts + 1}
  BY DEF Next, HandleRoutemap, enqueueAffectedRoutemaps, enqueueAllRoutemaps,
         Elapse, Dequeue, Reconcile, GetNotFound, GetDeleting, GetLive, AddFinalizer,
         RemoveFinalizer, Write, Resolve, ResolveError, List, Merge, Publish,
         Refetch, RefetchNotFound, StatusUpdate, Conflict, CallFails, Restart,
         ProbeResult, vars, reconcilerVars, envVars
<1>2. Views!Force
  BY <1>1 DEF Views!Force
<1> QED
  BY <1>2 DEF Views!Next

\* A step after which no finalizer has been removed by hand.
LEMMA LifeStep ==
    ASSUME TypeOK, OrphanInv, LifeInv, removals = 0, [Next]_vars, removals' = 0
    PROVE  LifeInv' /\ [Views!Next]_Views!vars
<1>1. CASE Users /\ UNCHANGED reconcilerVars
  <2>1. UNCHANGED <<rmCache, pc, req, restarts, store>>
    BY <1>1
    DEF Users, CreateRoutemap, EditSpec, DeleteRoutemap, ForceRemove, ChangeSource,
        RelabelNamespace, InstallCRD, rmInformer, reconcilerVars, localVars, envVars
  <2> QED
    BY <1>1, <2>1, LifeUsers, ClosingFrame, Stutters
<1>2. ASSUME NEW k \in Routemap, SyncRoutemap(k), UNCHANGED reconcilerVars
      PROVE  LifeInv' /\ [Views!Next]_Views!vars
  BY <1>2, LifeSync, SyncMaps
<1>3. ASSUME \/ /\ \/ \E s \in Source : SyncSource(s)
                   \/ \E n \in Namespace : SyncNamespace(n)
                /\ UNCHANGED reconcilerVars
             \/ \E k \in Routemap : HandleRoutemap(k) \/ Elapse(k)
             \/ \E s \in Source : enqueueAffectedRoutemaps(s)
             \/ enqueueAllRoutemaps
             \/ UNCHANGED vars
      PROVE  LifeInv' /\ [Views!Next]_Views!vars
  <2>1. UNCHANGED <<api, created, rmCache, pc, req, rm, restarts, store>>
    BY <1>3
    DEF SyncSource, SyncNamespace, HandleRoutemap, Elapse, enqueueAffectedRoutemaps,
        enqueueAllRoutemaps, vars, reconcilerVars, clusterVars, apiVars, rmInformer,
        localVars, envVars
  <2> QED
    BY <2>1, LifeFrame, ClosingFrame, Stutters DEF Held
<1>4. ASSUME NEW k \in Routemap, Dequeue(k)
      PROVE  LifeInv' /\ [Views!Next]_Views!vars
  <2>1. /\ pc = "idle" /\ pc' = "get"
        /\ UNCHANGED <<api, created, rmCache, restarts, store>>
    BY <1>4 DEF Dequeue, clusterVars, apiVars, rmInformer, envVars
  <2>2. \A j \in Routemap : (Held(j)' <=> Held(j)) /\ (Closing(j)' <=> Closing(j))
    BY <2>1 DEF Held, Closing, Building
  <2> QED
    BY <2>1, <2>2, LifeIdle, Stutters
<1>5. CASE Reconcile
  BY <1>5, ReconcileMaps
<1>6. CASE Restart
  BY <1>6, RestartMaps
<1>7. ASSUME NEW k \in Routemap, NEW ref \in Refs, NEW state \in HealthState,
             ProbeResult(k, ref, state)
      PROVE  LifeInv' /\ [Views!Next]_Views!vars
  <2> DEFINE view == [spec |-> store[k].spec,
                      endpoints |-> WithHealth(store[k].endpoints, ref, state)]
  <2>1. /\ store[k] # Nil /\ store' = [store EXCEPT ![k] = view]
        /\ UNCHANGED <<api, created, rmCache, pc, req, rm, restarts>>
    BY <1>7
    DEF ProbeResult, UpdateEndpointHealth, clusterVars, apiVars, rmInformer,
        localVars
  <2>2. view # Nil
    <3>1. view \in RoutemapView
      BY <2>1, WithHealthType DEF TypeOK, StoreTypeOK, RoutemapView
    <3> HIDE DEF view
    <3> QED
      BY <3>1, NilRecordAssumption
  <2> HIDE DEF view
  <2>3. \A j \in Routemap : store'[j] # Nil <=> store[j] # Nil
    BY <2>1, <2>2 DEF TypeOK, StoreTypeOK
  <2> QED
    BY <2>1, <2>3, LifeFrame, ClosingFrame, Stutters DEF Held
<1> QED
  BY <1>1, <1>2, <1>3, <1>4, <1>5, <1>6, <1>7 DEF Next, Informers

LEMMA LifecycleInit == Init => InLifecycle /\ Views!Init
<1> SUFFICES ASSUME Init PROVE Views!Init
  BY OrphanInit, LifeInit DEF InLifecycle
<1>1. \A k \in Routemap : ~Held(k) /\ ~Closing(k) /\ store[k] = Nil
  BY DEF Init, ClusterInit, New, Held, Closing
<1> QED
  BY <1>1 DEF Init, ClusterInit, Views!Init

LEMMA LifecycleStep ==
    TypeOK /\ InLifecycle /\ [Next]_vars =>
        InLifecycle' /\ [Views!Next]_Views!vars
<1> SUFFICES ASSUME TypeOK, InLifecycle, [Next]_vars
             PROVE  InLifecycle' /\ [Views!Next]_Views!vars
  OBVIOUS
<1>1. removals \in Nat /\ removals' \in Nat
  BY TypeStep DEF TypeOK, ClusterTypeOK
<1>2. CASE removals' > 0
  BY <1>1, <1>2, ForceMaps DEF InLifecycle
<1>3. CASE removals' = 0
  <2>1. removals = 0
    BY <1>1, <1>3, RemovalsGrow
  <2> QED
    BY <1>3, <2>1, OrphanStep, LifeStep DEF InLifecycle
<1> QED
  BY <1>1, <1>2, <1>3

(***************************************************************************)
(* The reconciler implements the life of a view: whatever users, informers *)
(* and crashes do in between, Reconcile takes hold of a Routemap before it *)
(* publishes its view, handleDeletion withdraws the view only of a marked  *)
(* Routemap and lets go of it only afterwards, and a view withdrawn for a  *)
(* deletion does not come back through a stale copy.                       *)
(***************************************************************************)
THEOREM LifecycleImplemented == Spec => ViewsLiveAndDie
<1>1. Spec => []TypeOK
  BY TypeCorrect
<1> QED
  BY <1>1, LifecycleInit, LifecycleStep, PTL DEF Spec, ViewsLiveAndDie, Views!Spec
=============================================================================
