-------------------------- MODULE ReconcilerProofs --------------------------
(***************************************************************************)
(* Theorems about the reconciler, for every set of Routemaps, sources,     *)
(* endpoints and specs and for every value of the bounds.                  *)
(***************************************************************************)
EXTENDS Reconciler, TLAPS, FiniteSetTheorems

-----------------------------------------------------------------------------
(* What the operators on specs and endpoints return. *)

\* mergeHealth, UpdateEndpointHealth, Collect: the result is an endpoint slice.
LEMMA WithHealthType ==
    ASSUME NEW eps \in Endpoints, NEW ref, NEW state \in HealthState
    PROVE  WithHealth(eps, ref, state) \in Endpoints
  BY DEF WithHealth, Endpoints, EndpointState

\* The entry of a ref that wins in mergeHealth is an entry of that ref.
LEMMA LastOfRefIn ==
    ASSUME NEW eps, NEW ref, OfRef(eps, ref) # {}
    PROVE  LastOfRef(eps, ref) \in OfRef(eps, ref)
  BY DEF LastOfRef

LEMMA MergedType ==
    ASSUME NEW prev \in Endpoints, NEW eps \in Endpoints
    PROVE  Merged(prev, eps) \in Endpoints
<1>1. ASSUME NEW e \in Endpoint, OfRef(prev, SourceRef(e)) # {}
      PROVE  prev[LastOfRef(prev, SourceRef(e))].health \in HealthState
  <2>1. LastOfRef(prev, SourceRef(e)) \in OfRef(prev, SourceRef(e))
    BY <1>1, LastOfRefIn
  <2> QED
    BY <2>1 DEF OfRef, Endpoints, EndpointState
<1> QED
  BY <1>1 DEF Merged, Endpoints, EndpointState

LEMMA CollectType ==
    ASSUME NEW call, NEW key, NEW eps \in Endpoints
    PROVE  Collect(call, key, eps) \in Endpoints
  BY DEF Collect, Endpoints, EndpointState, HealthState

LEMMA NoEndpointsType == NoEndpoints \in Endpoints
  BY DEF NoEndpoints, Endpoints

LEMMA CountType ==
    ASSUME NEW eps
    PROVE  countHealthy(eps) \in Nat /\ Discovered(eps) \in Nat
<1>1. IsFiniteSet(Endpoint)
  BY EndpointAssumption
<1>2. ASSUME NEW S \in SUBSET Endpoint PROVE Cardinality(S) \in Nat
  BY <1>1, FS_Subset, FS_CardinalityType
<1> QED
  BY <1>2 DEF countHealthy, Discovered

LEMMA ListCallsType ==
    ASSUME NEW spec \in RoutemapSpec, NEW own \in Namespace,
           NEW matching \in SUBSET Namespace, NEW available
    PROVE  ListCalls(spec, own, matching, available) \in SUBSET ListCall
<1>1. EffectiveNamespaces(spec.namespaces, own, matching) \in SUBSET Namespace
  BY DEF EffectiveNamespaces, ResolveNamespaces, RoutemapSpec, NamespaceSelector
<1>2. Kinds(spec, available) \in SUBSET SourceKind
  BY DEF Kinds, SourceKind
<1> QED
  BY <1>1, <1>2 DEF ListCalls, ListCall

\* A key added to the queue keeps a due time.
LEMMA SoonerType ==
    ASSUME NEW due \in Due, NEW other \in Due
    PROVE  Sooner(due, other) \in Due
  BY DEF Sooner, Due

-----------------------------------------------------------------------------
(* Type correctness. *)

LEMMA TypeInit == Init => TypeOK
<1> SUFFICES ASSUME Init PROVE TypeOK
  OBVIOUS
<1>1. ClusterTypeOK
  BY DEF Init, ClusterInit, ClusterTypeOK, SourceState
<1>2. StoreTypeOK
  BY DEF Init, New, StoreTypeOK
<1> QED
  BY <1>1, <1>2, NoEndpointsType DEF Init, ClusterInit, TypeOK, Due, PC

\* The writes of users and of the reconciler to an object yield an object.
LEMMA ObjectWrites ==
    ASSUME NEW o \in Object
    PROVE  /\ \A s \in RoutemapSpec :
                [o EXCEPT !.spec = s, !.gen = o.gen + 1] \in Object
           /\ [o EXCEPT !.deleting = TRUE, !.gen = o.gen + 1] \in Object
           /\ [o EXCEPT !.finalizer = TRUE] \in Object
           /\ \A s \in RoutemapStatus : [o EXCEPT !.status = s] \in Object
<1>0. ASSUME NEW p \in Object, NEW n \in Nat
      PROVE  [p EXCEPT !.gen = n] \in Object
  BY DEF Object
<1>n. o.gen + 1 \in Nat
  BY DEF Object
<1>1. ASSUME NEW s \in RoutemapSpec
      PROVE  [o EXCEPT !.spec = s, !.gen = o.gen + 1] \in Object
  <2>1. [o EXCEPT !.spec = s] \in Object
    BY DEF Object
  <2> QED
    BY <1>0, <1>n, <2>1
<1>2. [o EXCEPT !.deleting = TRUE, !.gen = o.gen + 1] \in Object
  <2>1. [o EXCEPT !.deleting = TRUE] \in Object
    BY DEF Object
  <2> QED
    BY <1>0, <1>n, <2>1
<1>3. [o EXCEPT !.finalizer = TRUE] \in Object
  BY DEF Object
<1>4. ASSUME NEW s \in RoutemapStatus
      PROVE  [o EXCEPT !.status = s] \in Object
  BY DEF Object
<1> QED
  BY <1>1, <1>2, <1>3, <1>4

\* What users do keeps the objects of the API server well formed.
LEMMA UsersType ==
    ASSUME ClusterTypeOK, Users PROVE ClusterTypeOK'
<1> USE DEF ClusterTypeOK, apiVars, rmInformer, srcVars, nsVars
<1>1. ASSUME NEW k \in Routemap, NEW spec \in SpecChoice, CreateRoutemap(k, spec)
      PROVE  ClusterTypeOK'
  <2>1. [uid |-> created[k] + 1, gen |-> 1, spec |-> spec, deleting |-> FALSE,
         finalizer |-> FALSE, status |-> Nil] \in Object
    BY SpecChoiceAssumption DEF Object
  <2> QED
    BY <1>1, <2>1 DEF CreateRoutemap
<1>2. ASSUME NEW k \in Routemap, NEW spec \in SpecChoice, EditSpec(k, spec)
      PROVE  ClusterTypeOK'
  <2>1. [api[k] EXCEPT !.spec = spec, !.gen = api[k].gen + 1] \in Object
    BY <1>2, ObjectWrites, SpecChoiceAssumption DEF EditSpec
  <2> QED
    BY <1>2, <2>1 DEF EditSpec
<1>3. ASSUME NEW k \in Routemap, DeleteRoutemap(k)
      PROVE  ClusterTypeOK'
  <2>1. [api[k] EXCEPT !.deleting = TRUE, !.gen = api[k].gen + 1] \in Object
    BY <1>3, ObjectWrites DEF DeleteRoutemap
  <2> QED
    BY <1>3, <2>1 DEF DeleteRoutemap
<1>4. ASSUME NEW k \in Routemap, ForceRemove(k)
      PROVE  ClusterTypeOK'
  BY <1>4 DEF ForceRemove
<1>5. ASSUME NEW s \in Source, NEW content \in SourceState,
             ChangeSource(s, content)
      PROVE  ClusterTypeOK'
  BY <1>5 DEF ChangeSource
<1>6. ASSUME NEW n \in Namespace, RelabelNamespace(n)
      PROVE  ClusterTypeOK'
  BY <1>6 DEF RelabelNamespace
<1>7. CASE InstallCRD
  BY <1>7 DEF InstallCRD
<1> QED
  BY <1>1, <1>2, <1>3, <1>4, <1>5, <1>6, <1>7 DEF Users

LEMMA InformersType ==
    ASSUME ClusterTypeOK, Informers PROVE ClusterTypeOK'
<1> USE DEF ClusterTypeOK, apiVars, rmInformer, srcVars, nsVars
<1>1. ASSUME NEW k \in Routemap, SyncRoutemap(k) PROVE ClusterTypeOK'
  BY <1>1 DEF SyncRoutemap
<1>2. ASSUME NEW s \in Source, SyncSource(s) PROVE ClusterTypeOK'
  BY <1>2 DEF SyncSource
<1>3. ASSUME NEW n \in Namespace, SyncNamespace(n) PROVE ClusterTypeOK'
  BY <1>3 DEF SyncNamespace
<1> QED
  BY <1>1, <1>2, <1>3 DEF Informers

LEMMA AddType ==
    ASSUME queue \in [Routemap -> Due], NEW keys, NEW due \in Due, Add(keys, due)
    PROVE  queue' \in [Routemap -> Due]
  BY SoonerType DEF Add

\* The end of a call of Reconcile leaves well-formed locals behind.
LEMMA NoLocalsType ==
    ASSUME NoLocals
    PROVE  /\ pc' = "idle" /\ req' = Nil /\ rm' = Nil /\ todo' = {}
           /\ endpoints' \in Endpoints /\ healthy' \in Nat /\ fresh' = Nil
  BY NoEndpointsType DEF NoLocals

\* A write to the API server keeps the types if what follows it does.
LEMMA WriteType ==
    ASSUME TypeOK, pc \in {"finalize", "unfinalize", "status"},
           NEW read, NEW obj \in Object \cup {Nil}, NEW due \in Due,
           \/ Write(read, obj, Return)
           \/ Write(read, obj, Requeue(due))
    PROVE  TypeOK'
<1>1. /\ api' = [api EXCEPT ![req] = obj]
      /\ NoLocals
      /\ faults' \in Nat
      /\ UNCHANGED <<created, removals, rmInformer, srcVars, nsVars, crd, changes,
                     HTTPRouteAvailable, checkable, restarts, probes, store>>
  BY ReconcilerAssumption DEF Write, Return, ReturnError, Requeue, TypeOK
<1>2. queue' \in [Routemap -> Due]
  <2>1. CASE UNCHANGED queue
    BY <2>1 DEF TypeOK
  <2>2. CASE Add({req}, due)
    BY <2>2, AddType DEF TypeOK
  <2>3. CASE Add({req}, "backoff")
    BY <2>3, AddType DEF TypeOK, Due
  <2> QED
    BY <2>1, <2>2, <2>3 DEF Write, Return, ReturnError, Requeue
<1>3. ClusterTypeOK'
  BY <1>1 DEF TypeOK, ClusterTypeOK, rmInformer, srcVars, nsVars
<1> QED
  BY <1>1, <1>2, <1>3, NoLocalsType DEF TypeOK, StoreTypeOK, PC

\* A failed call of Reconcile.
LEMMA ReturnErrorType ==
    ASSUME TypeOK, pc # "idle", ReturnError,
           UNCHANGED <<clusterVars, HTTPRouteAvailable, store>>,
           faults' \in Nat, UNCHANGED <<checkable, restarts, probes>>
    PROVE  TypeOK'
<1>1. queue' \in [Routemap -> Due]
  BY AddType DEF TypeOK, Due, ReturnError, Requeue
<1>2. ClusterTypeOK'
  BY DEF TypeOK, ClusterTypeOK, clusterVars, apiVars, rmInformer, srcVars, nsVars
<1> QED
  BY <1>1, <1>2, NoLocalsType
  DEF TypeOK, StoreTypeOK, PC, ReturnError, Requeue

LEMMA ReconcileType ==
    ASSUME TypeOK, Reconcile PROVE TypeOK'
<1> USE DEF TypeOK
<1>c. ASSUME UNCHANGED clusterVars PROVE ClusterTypeOK'
  BY <1>c DEF ClusterTypeOK, clusterVars, apiVars, rmInformer, srcVars, nsVars
<1>1. CASE GetNotFound
  BY <1>1, <1>c, NoLocalsType
  DEF GetNotFound, Delete, Return, StoreTypeOK, PC, envVars
<1>2. CASE GetDeleting
  BY <1>2, <1>c
  DEF GetDeleting, Delete, StoreTypeOK, PC, envVars, ClusterTypeOK
<1>3. CASE GetLive
  BY <1>3, <1>c
  DEF GetLive, StoreTypeOK, PC, envVars, ClusterTypeOK
<1>4. CASE AddFinalizer
  <2>1. [rm EXCEPT !.finalizer = TRUE] \in Object
    BY <1>4, ObjectWrites DEF AddFinalizer
  <2> QED
    BY <1>4, <2>1, WriteType DEF AddFinalizer, Due
<1>5. CASE RemoveFinalizer
  BY <1>5, WriteType DEF RemoveFinalizer, Due
<1>6. CASE Resolve
  <2>1. todo' \in SUBSET ListCall
    <3>1. rm.spec \in RoutemapSpec /\ req.ns \in Namespace
      BY <1>6, RoutemapAssumption DEF Resolve, Object
    <3> QED
      BY <1>6, <3>1, ListCallsType DEF Resolve, ClusterTypeOK
  <2> QED
    BY <1>6, <1>c, <2>1 DEF Resolve, StoreTypeOK, PC, envVars
<1>7. CASE ResolveError
  BY <1>7, ReturnErrorType DEF ResolveError, envVars
<1>8. ASSUME NEW call \in ListCall, List(call) PROVE TypeOK'
  BY <1>8, <1>c, CollectType DEF List, StoreTypeOK, PC, envVars
<1>9. CASE Merge
  <2>1. mergeHealth(req, endpoints) \in Endpoints
    BY <1>9, MergedType DEF Merge, mergeHealth, StoreTypeOK, RoutemapView
  <2> QED
    BY <1>9, <1>c, <2>1 DEF Merge, StoreTypeOK, PC, envVars
<1>10. CASE Publish
  <2>1. [spec |-> rm.spec, endpoints |-> endpoints] \in RoutemapView
    BY <1>10 DEF Publish, Object, RoutemapView
  <2>2. checkable' \in SUBSET (Routemap \X (Refs \cup {Nil}))
    BY <1>10 DEF Publish, Checkable, Refs
  <2> QED
    BY <1>10, <1>c, <2>1, <2>2, NoEndpointsType, NilRecordAssumption
    DEF Publish, Set, StoreTypeOK, PC
<1>11. CASE Refetch
  BY <1>11, <1>c, CountType
  DEF Refetch, StoreTypeOK, PC, envVars, ClusterTypeOK
<1>12. CASE RefetchNotFound
  BY <1>12, ReturnErrorType DEF RefetchNotFound, envVars
<1>13. CASE StatusUpdate
  <2>1. setReadyCondition \in RoutemapStatus
    <3>1. fresh.gen \in Nat
      BY <1>13 DEF StatusUpdate, Object
    <3>2. httprouteUnavailable \in BOOLEAN
      BY DEF httprouteUnavailable
    <3> QED
      BY <3>1, <3>2, CountType DEF setReadyCondition, RoutemapStatus
  <2>2. [fresh EXCEPT !.status = setReadyCondition] \in Object
    BY <1>13, <2>1, ObjectWrites DEF StatusUpdate
  <2> QED
    BY <1>13, <2>2, WriteType DEF StatusUpdate, Due
<1>14. CASE Conflict
  BY <1>14, ReturnErrorType DEF Conflict, envVars
<1>15. CASE CallFails
  BY <1>15, ReturnErrorType, ReconcilerAssumption DEF CallFails
<1> QED
  BY <1>1, <1>2, <1>3, <1>4, <1>5, <1>6, <1>7, <1>8, <1>9, <1>10, <1>11, <1>12,
     <1>13, <1>14, <1>15
  DEF Reconcile

LEMMA TypeStep == TypeOK /\ [Next]_vars => TypeOK'
<1> SUFFICES ASSUME TypeOK, [Next]_vars PROVE TypeOK'
  OBVIOUS
<1> USE DEF TypeOK
<1>c. ASSUME UNCHANGED clusterVars PROVE ClusterTypeOK'
  BY <1>c DEF ClusterTypeOK, clusterVars, apiVars, rmInformer, srcVars, nsVars
<1>1. CASE (Users \/ Informers) /\ UNCHANGED reconcilerVars
  BY <1>1, UsersType, InformersType
  DEF reconcilerVars, localVars, envVars, StoreTypeOK
<1>2. ASSUME NEW k \in Routemap, HandleRoutemap(k) PROVE TypeOK'
  BY <1>2, AddType
  DEF HandleRoutemap, ClusterTypeOK, StoreTypeOK, Due, apiVars, srcVars, nsVars,
      localVars, envVars
<1>3. ASSUME NEW s \in Source, enqueueAffectedRoutemaps(s) PROVE TypeOK'
  BY <1>3, AddType
  DEF enqueueAffectedRoutemaps, ClusterTypeOK, StoreTypeOK, Due, apiVars,
      rmInformer, nsVars, localVars, envVars
<1>4. CASE enqueueAllRoutemaps
  BY <1>4, AddType
  DEF enqueueAllRoutemaps, ClusterTypeOK, StoreTypeOK, Due, apiVars,
      rmInformer, srcVars, localVars, envVars
<1>5. ASSUME NEW k \in Routemap, Elapse(k) PROVE TypeOK'
  BY <1>5, <1>c DEF Elapse, StoreTypeOK, Due, localVars, envVars
<1>6. ASSUME NEW k \in Routemap, Dequeue(k) PROVE TypeOK'
  BY <1>6, <1>c, RoutemapAssumption DEF Dequeue, StoreTypeOK, Due, PC, envVars
<1>7. CASE Reconcile
  BY <1>7, ReconcileType
<1>8. CASE Restart
  <2>1. ClusterTypeOK'
    BY <1>8 DEF Restart, Relist, ClusterTypeOK, apiVars
  <2> QED
    BY <1>8, <2>1, NoLocalsType DEF Restart, StoreTypeOK, Due, PC, ClusterTypeOK
<1>9. ASSUME NEW k \in Routemap, NEW ref, NEW state \in HealthState,
             ProbeResult(k, ref, state)
      PROVE  TypeOK'
  <2>1. [spec |-> store[k].spec,
         endpoints |-> WithHealth(store[k].endpoints, ref, state)] \in RoutemapView
    BY <1>9, WithHealthType DEF ProbeResult, StoreTypeOK, RoutemapView
  <2> QED
    BY <1>9, <1>c, <2>1, NilRecordAssumption
    DEF ProbeResult, UpdateEndpointHealth, StoreTypeOK, localVars
<1>10. CASE UNCHANGED vars
  BY <1>10, <1>c DEF vars, reconcilerVars, localVars, envVars, StoreTypeOK
<1> QED
  BY <1>1, <1>2, <1>3, <1>4, <1>5, <1>6, <1>7, <1>8, <1>9, <1>10 DEF Next

\* Type correctness of the reconciler: whatever the interleaving of users,
\* informers, handlers, the worker, the health checker and crashes, Reconcile
\* has read what its next step needs, and the view it counts is in the store.
THEOREM TypeCorrect == Spec => []TypeOK
  BY TypeInit, TypeStep, PTL DEF Spec

-----------------------------------------------------------------------------
(***************************************************************************)
(* Why no view outlives its Routemap.  The finalizer of a Routemap is      *)
(* removed only by the worker, in a call that has read the Routemap marked *)
(* for deletion and has removed its view.  The view can come back only     *)
(* through a copy of the Routemap read before it was marked, and a cache   *)
(* that has shown the mark does not show an older copy again.              *)
(***************************************************************************)

ViewsHeld == \A k \in Routemap : store[k] # Nil => Held(k)

\* A copy that Reconcile goes on to publish.
Publishable(o) == o # Nil /\ o.finalizer /\ ~o.deleting

\* A copy is of an object created under k, and not newer than the object is.
CopyOf(o, k) ==
    o # Nil =>
        /\ o.uid <= created[k]
        /\ api[k] # Nil /\ api[k].uid = o.uid => o.gen <= api[k].gen

CopiesOld ==
    \A k \in Routemap : CopyOf(api[k], k) /\ CopyOf(rmCache[k], k)

CacheHeld == \A k \in Routemap : Publishable(rmCache[k]) => Held(k)

WorkerHeld == pc \in {"resolve", "list", "merge", "publish"} => Held(req)

\* The worker is about to remove the finalizer.
Releasing ==
    pc = "unfinalize" =>
        /\ store[req] = Nil
        /\ rm.deleting
        /\ CopyOf(rm, req)
        /\ api[req] = rm => rmCache[req] = rm

OrphanInv ==
    ViewsHeld /\ CopiesOld /\ CacheHeld /\ WorkerHeld /\ Releasing

LEMMA OrphanInit == Init => OrphanInv
  BY DEF Init, ClusterInit, New, OrphanInv, ViewsHeld, CopiesOld, CopyOf,
         CacheHeld, Publishable, WorkerHeld, Releasing

\* Steps that touch neither the objects and their copies, nor a view, nor pc.
LEMMA OrphanFrame ==
    ASSUME OrphanInv, UNCHANGED <<api, created, rmCache, pc, req, rm, store>>
    PROVE  OrphanInv'
  BY DEF OrphanInv, ViewsHeld, CopiesOld, CopyOf, CacheHeld, Held,
         Publishable, WorkerHeld, Releasing

(***************************************************************************)
(* A user changes the Routemap under k: it is a new object, or a newer     *)
(* version of the one there was, and it is held if that one was.           *)
(***************************************************************************)
LEMMA OrphanUser ==
    ASSUME TypeOK, OrphanInv, NEW k \in Routemap,
           NEW obj \in Object \cup {Nil},
           api' = [api EXCEPT ![k] = obj],
           created' \in [Routemap -> Nat],
           \A j \in Routemap : created[j] <= created'[j],
           obj # Nil => obj.uid <= created'[k],
           Held(k) => obj # Nil /\ obj.finalizer,
           obj # Nil =>
              \/ obj.uid > created[k]
              \/ api[k] # Nil /\ obj.uid = api[k].uid /\ obj.gen > api[k].gen,
           UNCHANGED <<rmCache, pc, req, rm, store>>
    PROVE  OrphanInv'
<1> USE DEF TypeOK, ClusterTypeOK
<1>1. ASSUME NEW j \in Routemap, Held(j) PROVE Held(j)'
  BY <1>1 DEF Held
<1>2. ASSUME NEW j \in Routemap, NEW o \in Object, CopyOf(o, j)
      PROVE  /\ o.uid <= created'[j]
             /\ api'[j] # Nil /\ api'[j].uid = o.uid => o.gen <= api'[j].gen
             /\ api'[j] = o => api[j] = o
  <2>1. /\ o.uid \in Nat /\ o.gen \in Nat
        /\ api[j] # Nil => api[j].uid \in Nat /\ api[j].gen \in Nat
        /\ obj # Nil => obj.uid \in Nat /\ obj.gen \in Nat
        /\ created[j] \in Nat /\ created'[j] \in Nat
    BY DEF Object
  <2>2. o # Nil
    BY NilObjectAssumption
  <2> QED
    BY <1>2, <2>1, <2>2 DEF CopyOf
<1>3. ViewsHeld'
  BY <1>1 DEF OrphanInv, ViewsHeld, Held
<1>4. CopiesOld'
  <2> SUFFICES ASSUME NEW j \in Routemap
               PROVE  CopyOf(api[j], j)' /\ CopyOf(rmCache[j], j)'
    BY DEF CopiesOld
  <2>1. CopyOf(rmCache[j], j)'
    BY <1>2 DEF OrphanInv, CopiesOld, CopyOf
  <2>2. CopyOf(api[j], j)'
    <3>1. api'[j] # Nil => api'[j].uid <= created'[j] /\ api'[j].gen \in Nat
      BY <1>2 DEF OrphanInv, CopiesOld, CopyOf, Object
    <3> QED
      BY <3>1 DEF CopyOf
  <2> QED
    BY <2>1, <2>2
<1>5. CacheHeld'
  BY <1>1 DEF OrphanInv, CacheHeld, Publishable
<1>6. WorkerHeld'
  BY <1>1 DEF OrphanInv, WorkerHeld
<1>7. Releasing'
  <2> SUFFICES ASSUME pc = "unfinalize" PROVE Releasing'
    BY DEF Releasing
  <2>1. rm \in Object /\ req \in Routemap /\ CopyOf(rm, req)
    BY DEF OrphanInv, Releasing
  <2> QED
    BY <1>2, <2>1 DEF OrphanInv, Releasing, CopyOf
<1> QED
  BY <1>3, <1>4, <1>5, <1>6, <1>7 DEF OrphanInv

\* What users do, short of removing finalizers by hand.
LEMMA OrphanUsers ==
    ASSUME removals' = 0, TypeOK, OrphanInv, Users, UNCHANGED reconcilerVars
    PROVE  OrphanInv'
<1>t. /\ api \in [Routemap -> Object \cup {Nil}] /\ created \in [Routemap -> Nat]
      /\ \A k \in Routemap : api[k] # Nil => api[k].uid <= created[k]
  BY DEF TypeOK, ClusterTypeOK, OrphanInv, CopiesOld, CopyOf
<1>u. UNCHANGED <<pc, req, rm, store>>
  BY DEF reconcilerVars, localVars
<1>1. ASSUME NEW k \in Routemap, NEW spec \in SpecChoice, CreateRoutemap(k, spec)
      PROVE  OrphanInv'
  <2> DEFINE obj == [uid |-> created[k] + 1, gen |-> 1, spec |-> spec,
                     deleting |-> FALSE, finalizer |-> FALSE, status |-> Nil]
  <2>1. obj \in Object
    BY <1>t, SpecChoiceAssumption DEF Object
  <2>2. /\ api' = [api EXCEPT ![k] = obj]
        /\ created' = [created EXCEPT ![k] = @ + 1]
        /\ ~Held(k) /\ UNCHANGED rmCache
    BY <1>1 DEF CreateRoutemap, Held, rmInformer
  <2>3. obj.uid = created[k] + 1
    OBVIOUS
  <2> HIDE DEF obj
  <2>4. /\ created' \in [Routemap -> Nat]
        /\ \A j \in Routemap : created[j] <= created'[j]
        /\ obj.uid <= created'[k] /\ obj.uid > created[k]
    BY <1>t, <2>2, <2>3
  <2> QED
    BY <1>u, <2>1, <2>2, <2>4, OrphanUser
<1>2. ASSUME NEW k \in Routemap, NEW spec \in SpecChoice, EditSpec(k, spec)
      PROVE  OrphanInv'
  <2> DEFINE obj == [api[k] EXCEPT !.spec = spec, !.gen = api[k].gen + 1]
  <2>1. api[k] \in Object /\ obj \in Object
    BY <1>2, <1>t, ObjectWrites, SpecChoiceAssumption DEF EditSpec
  <2>2. api' = [api EXCEPT ![k] = obj] /\ UNCHANGED <<created, rmCache>>
    BY <1>2 DEF EditSpec, rmInformer
  <2>3. /\ obj.uid = api[k].uid /\ obj.finalizer = api[k].finalizer
        /\ obj.gen = api[k].gen + 1
        /\ api[k].gen \in Nat /\ api[k].uid \in Nat
    BY <2>1 DEF Object
  <2>4. api[k] # Nil
    BY <1>2 DEF EditSpec
  <2> HIDE DEF obj
  <2>5. /\ created' \in [Routemap -> Nat]
        /\ \A j \in Routemap : created[j] <= created'[j]
        /\ obj.uid <= created'[k] /\ obj.gen > api[k].gen
    BY <1>t, <2>2, <2>3, <2>4
  <2>6. Held(k) => obj # Nil /\ obj.finalizer
    BY <2>1, <2>3, NilObjectAssumption DEF Held
  <2> QED
    BY <1>u, <2>1, <2>2, <2>3, <2>4, <2>5, <2>6, OrphanUser
<1>3. ASSUME NEW k \in Routemap, DeleteRoutemap(k)
      PROVE  OrphanInv'
  <2>1. CASE ~api[k].finalizer
    <3>1. api' = [api EXCEPT ![k] = Nil] /\ UNCHANGED <<created, rmCache>>
      BY <1>3, <2>1 DEF DeleteRoutemap, rmInformer
    <3>2. ~Held(k) /\ \A j \in Routemap : created[j] <= created'[j]
      BY <1>t, <2>1, <3>1 DEF Held
    <3> QED
      BY <1>t, <1>u, <3>1, <3>2, OrphanUser
  <2>2. CASE api[k].finalizer
    <3> DEFINE obj == [api[k] EXCEPT !.deleting = TRUE, !.gen = api[k].gen + 1]
    <3>1. api[k] \in Object /\ obj \in Object
      BY <1>3, <1>t, ObjectWrites DEF DeleteRoutemap
    <3>2. api' = [api EXCEPT ![k] = obj] /\ UNCHANGED <<created, rmCache>>
      BY <1>3, <2>2 DEF DeleteRoutemap, rmInformer
    <3>3. /\ obj.uid = api[k].uid /\ obj.finalizer = api[k].finalizer
          /\ obj.gen = api[k].gen + 1
          /\ api[k].gen \in Nat /\ api[k].uid \in Nat
      BY <3>1 DEF Object
    <3>4. api[k] # Nil
      BY <1>3 DEF DeleteRoutemap
    <3> HIDE DEF obj
    <3>5. /\ created' \in [Routemap -> Nat]
          /\ \A j \in Routemap : created[j] <= created'[j]
          /\ obj.uid <= created'[k] /\ obj.gen > api[k].gen
      BY <1>t, <3>2, <3>3, <3>4
    <3>6. Held(k) => obj # Nil /\ obj.finalizer
      BY <3>1, <3>3, NilObjectAssumption DEF Held
    <3> QED
      BY <1>u, <3>1, <3>2, <3>3, <3>4, <3>5, <3>6, OrphanUser
  <2> QED
    BY <2>1, <2>2
<1>4. ASSUME NEW k \in Routemap, ForceRemove(k) PROVE FALSE
  BY <1>4 DEF ForceRemove, TypeOK, ClusterTypeOK
<1>5. ASSUME NEW s \in Source, NEW content, ChangeSource(s, content)
      PROVE  OrphanInv'
  BY <1>5, <1>u, OrphanFrame DEF ChangeSource, apiVars, rmInformer
<1>6. ASSUME NEW n \in Namespace, RelabelNamespace(n) PROVE OrphanInv'
  BY <1>6, <1>u, OrphanFrame DEF RelabelNamespace, apiVars, rmInformer
<1>7. CASE InstallCRD
  BY <1>7, <1>u, OrphanFrame DEF InstallCRD, apiVars, rmInformer
<1> QED
  BY <1>1, <1>2, <1>3, <1>4, <1>5, <1>6, <1>7 DEF Users

\* The informer copies the Routemap of k.
LEMMA OrphanSync ==
    ASSUME TypeOK, OrphanInv, NEW k \in Routemap, SyncRoutemap(k),
           UNCHANGED reconcilerVars
    PROVE  OrphanInv'
<1>1. /\ rmCache' = [rmCache EXCEPT ![k] = api[k]]
      /\ rmCache \in [Routemap -> Object \cup {Nil}]
      /\ UNCHANGED <<api, created, pc, req, rm, store>>
  BY DEF SyncRoutemap, apiVars, reconcilerVars, localVars, TypeOK, ClusterTypeOK
<1>2. ASSUME NEW j \in Routemap
      PROVE  rmCache'[j] = rmCache[j] \/ rmCache'[j] = api[j]
  BY <1>1
<1>3. ViewsHeld' /\ WorkerHeld'
  BY <1>1 DEF OrphanInv, ViewsHeld, WorkerHeld, Held
<1>4. CopiesOld'
  BY <1>1, <1>2 DEF OrphanInv, CopiesOld, CopyOf
<1>5. CacheHeld'
  BY <1>1, <1>2 DEF OrphanInv, CacheHeld, Publishable, Held
<1>6. Releasing'
  BY <1>1, <1>2 DEF OrphanInv, Releasing, CopyOf, TypeOK
<1> QED
  BY <1>3, <1>4, <1>5, <1>6 DEF OrphanInv

\* The worker is done with a call, or takes up another, and views only go away.
LEMMA OrphanIdle ==
    ASSUME OrphanInv, UNCHANGED <<api, created, rmCache>>,
           pc' \in {"idle", "get", "refetch", "status", "finalize"},
           \A k \in Routemap : store'[k] # Nil => store[k] # Nil
    PROVE  OrphanInv'
  BY DEF OrphanInv, ViewsHeld, CopiesOld, CopyOf, CacheHeld, Held,
         Publishable, WorkerHeld, Releasing

\* The worker writes a new version of the Routemap it read, still held if it was.
LEMMA OrphanWrite ==
    ASSUME TypeOK, OrphanInv, pc \in {"finalize", "status"},
           NEW obj \in Object,
           api[req] # Nil,
           api' = [api EXCEPT ![req] = obj],
           obj.uid = api[req].uid, obj.gen = api[req].gen,
           api[req].finalizer => obj.finalizer,
           pc' = "idle", UNCHANGED <<created, rmCache, store>>
    PROVE  OrphanInv'
<1> USE DEF TypeOK, ClusterTypeOK
<1>1. ASSUME NEW k \in Routemap, Held(k) PROVE Held(k)'
  BY <1>1, NilObjectAssumption DEF Held
<1>2. ASSUME NEW k \in Routemap, NEW o, CopyOf(o, k)
      PROVE  o # Nil =>
                /\ o.uid <= created'[k]
                /\ api'[k] # Nil /\ api'[k].uid = o.uid => o.gen <= api'[k].gen
  BY <1>2, NilObjectAssumption DEF CopyOf
<1>3. ViewsHeld'
  BY <1>1 DEF OrphanInv, ViewsHeld, Held
<1>4. CopiesOld'
  <2> SUFFICES ASSUME NEW k \in Routemap
               PROVE  CopyOf(api[k], k)' /\ CopyOf(rmCache[k], k)'
    BY DEF CopiesOld
  <2>1. CopyOf(rmCache[k], k)'
    BY <1>2 DEF OrphanInv, CopiesOld, CopyOf
  <2>2. CopyOf(api[k], k)'
    <3>1. api'[k] # Nil => api'[k].uid <= created'[k] /\ api'[k].gen \in Nat
      BY DEF OrphanInv, CopiesOld, CopyOf, Object
    <3> QED
      BY <3>1 DEF CopyOf
  <2> QED
    BY <2>1, <2>2
<1>5. CacheHeld'
  BY <1>1 DEF OrphanInv, CacheHeld, Publishable
<1>6. WorkerHeld' /\ Releasing'
  BY DEF WorkerHeld, Releasing
<1> QED
  BY <1>3, <1>4, <1>5, <1>6 DEF OrphanInv

LEMMA OrphanReconcile ==
    ASSUME TypeOK, OrphanInv, Reconcile PROVE OrphanInv'
<1>t. /\ api \in [Routemap -> Object \cup {Nil}]
      /\ rmCache \in [Routemap -> Object \cup {Nil}]
      /\ store \in [Routemap -> RoutemapView \cup {Nil}]
      /\ pc # "idle" => req \in Routemap
      /\ pc \notin {"idle", "get"} => rm \in Object
      /\ pc = "status" => fresh \in Object
  BY DEF TypeOK, ClusterTypeOK, StoreTypeOK
<1>w. ASSUME NEW read, NEW obj, NEW due,
             Write(read, obj, Return) \/ Write(read, obj, Requeue(due))
      PROVE  /\ api[req] = read /\ api' = [api EXCEPT ![req] = obj]
             /\ pc' = "idle" /\ UNCHANGED <<created, rmCache, store>>
  BY <1>w DEF Write, Return, Requeue, ReturnError, NoLocals, rmInformer
<1> USE DEF clusterVars, apiVars, rmInformer
<1>1. CASE GetNotFound
  BY <1>1, <1>t, OrphanIdle DEF GetNotFound, Delete, Return, NoLocals
<1>2. CASE GetDeleting
  <2>1. /\ store' = [store EXCEPT ![req] = Nil] /\ pc' = "unfinalize"
        /\ rm' = rmCache[req] /\ rmCache[req].deleting
        /\ UNCHANGED <<api, created, rmCache, req>> /\ req \in Routemap
    BY <1>2, <1>t DEF GetDeleting, Delete
  <2>2. ViewsHeld' /\ CopiesOld' /\ CacheHeld' /\ WorkerHeld'
    BY <1>t, <2>1
    DEF OrphanInv, ViewsHeld, CopiesOld, CopyOf, CacheHeld, Held, Publishable,
        WorkerHeld
  <2>3. Releasing'
    BY <1>t, <2>1 DEF OrphanInv, CopiesOld, CopyOf, Releasing
  <2> QED
    BY <2>2, <2>3 DEF OrphanInv
<1>3. CASE GetLive
  <2>1. /\ pc' = IF rmCache[req].finalizer THEN "resolve" ELSE "finalize"
        /\ rmCache[req] # Nil /\ ~rmCache[req].deleting
        /\ UNCHANGED <<api, created, rmCache, req, store>> /\ req \in Routemap
    BY <1>3, <1>t DEF GetLive
  <2>2. ViewsHeld' /\ CopiesOld' /\ CacheHeld' /\ Releasing'
    BY <2>1
    DEF OrphanInv, ViewsHeld, CopiesOld, CopyOf, CacheHeld, Held, Publishable,
        Releasing
  <2>3. WorkerHeld'
    BY <2>1 DEF OrphanInv, CacheHeld, Held, Publishable, WorkerHeld
  <2> QED
    BY <2>2, <2>3 DEF OrphanInv
<1>4. CASE AddFinalizer
  <2> DEFINE obj == [rm EXCEPT !.finalizer = TRUE]
  <2>1. rm \in Object /\ rm # Nil /\ obj \in Object
    BY <1>4, <1>t, ObjectWrites, NilObjectAssumption DEF AddFinalizer
  <2>2. obj.uid = rm.uid /\ obj.gen = rm.gen /\ obj.finalizer
    BY <2>1 DEF Object
  <2> QED
    BY <1>4, <1>w, <2>1, <2>2, OrphanWrite DEF AddFinalizer
<1>5. CASE RemoveFinalizer
  <2>1. /\ api[req] = rm /\ api' = [api EXCEPT ![req] = Nil]
        /\ pc' = "idle" /\ UNCHANGED <<created, rmCache, store>>
        /\ req \in Routemap /\ pc = "unfinalize"
    BY <1>5, <1>w, <1>t DEF RemoveFinalizer
  <2>2. store[req] = Nil /\ rmCache[req] = rm /\ rm.deleting
    BY <2>1 DEF OrphanInv, Releasing
  <2>3. ASSUME NEW k \in Routemap, k # req PROVE api'[k] = api[k]
    BY <1>t, <2>1, <2>3
  <2>4. api'[req] = Nil
    BY <1>t, <2>1
  <2>5. ViewsHeld'
    BY <2>1, <2>2, <2>3, <2>4 DEF OrphanInv, ViewsHeld, Held
  <2>6. CopiesOld'
    BY <2>1, <2>3, <2>4 DEF OrphanInv, CopiesOld, CopyOf
  <2>7. CacheHeld'
    BY <2>1, <2>2, <2>3, <2>4 DEF OrphanInv, CacheHeld, Publishable, Held
  <2> QED
    BY <2>1, <2>5, <2>6, <2>7 DEF OrphanInv, WorkerHeld, Releasing
<1>6. ASSUME \/ Resolve
             \/ \E call \in ListCall : List(call)
             \/ Merge
      PROVE  OrphanInv'
  <2>1. /\ pc \in {"resolve", "list", "merge"}
        /\ pc' \in {"list", "merge", "publish"}
        /\ UNCHANGED <<api, created, rmCache, req, store>>
    BY <1>6 DEF Resolve, List, Merge
  <2> QED
    BY <2>1
    DEF OrphanInv, ViewsHeld, CopiesOld, CopyOf, CacheHeld, Held, Publishable,
        WorkerHeld, Releasing
<1>7. CASE Publish
  <2>1. /\ store' = [store EXCEPT ![req] = [spec |-> rm.spec,
                                            endpoints |-> endpoints]]
        /\ pc = "publish" /\ pc' = "refetch" /\ req \in Routemap
        /\ UNCHANGED <<api, created, rmCache, req>>
    BY <1>7, <1>t DEF Publish, Set
  <2>2. Held(req)
    BY <2>1 DEF OrphanInv, WorkerHeld
  <2> QED
    BY <1>t, <2>1, <2>2
    DEF OrphanInv, ViewsHeld, CopiesOld, CopyOf, CacheHeld, Held, Publishable,
        WorkerHeld, Releasing
<1>8. CASE Refetch
  BY <1>8, OrphanIdle DEF Refetch
<1>9. CASE StatusUpdate
  <2> DEFINE obj == [fresh EXCEPT !.status = setReadyCondition]
  <2>1. /\ fresh \in Object /\ fresh # Nil
        /\ obj.uid = fresh.uid /\ obj.gen = fresh.gen
        /\ obj.finalizer = fresh.finalizer
    BY <1>9, <1>t, NilObjectAssumption DEF StatusUpdate, Object
  <2>2. obj \in Object
    <3>1. setReadyCondition \in RoutemapStatus
      BY <2>1, CountType
      DEF setReadyCondition, RoutemapStatus, httprouteUnavailable, TypeOK, Object
    <3> QED
      BY <2>1, <3>1, ObjectWrites
  <2> QED
    BY <1>9, <1>w, <2>1, <2>2, OrphanWrite DEF StatusUpdate
<1>10. ASSUME ResolveError \/ RefetchNotFound \/ Conflict \/ CallFails
       PROVE  OrphanInv'
  BY <1>10, OrphanIdle
  DEF ResolveError, RefetchNotFound, Conflict, CallFails, ReturnError, Requeue,
      NoLocals
<1> QED
  BY <1>1, <1>2, <1>3, <1>4, <1>5, <1>6, <1>7, <1>8, <1>9, <1>10 DEF Reconcile

\* A step after which no finalizer has been removed by hand.
LEMMA OrphanStep ==
    TypeOK /\ OrphanInv /\ [Next]_vars /\ removals' = 0 => OrphanInv'
<1> SUFFICES ASSUME TypeOK, OrphanInv, [Next]_vars, removals' = 0
             PROVE  OrphanInv'
  OBVIOUS
<1>1. CASE (Users \/ Informers) /\ UNCHANGED reconcilerVars
  <2>1. ASSUME NEW s \in Source, SyncSource(s) PROVE OrphanInv'
    BY <1>1, <2>1, OrphanFrame
    DEF SyncSource, apiVars, rmInformer, reconcilerVars, localVars
  <2>2. ASSUME NEW n \in Namespace, SyncNamespace(n) PROVE OrphanInv'
    BY <1>1, <2>2, OrphanFrame
    DEF SyncNamespace, apiVars, rmInformer, reconcilerVars, localVars
  <2> QED
    BY <1>1, <2>1, <2>2, OrphanUsers, OrphanSync DEF Informers
<1>2. ASSUME \/ \E k \in Routemap : HandleRoutemap(k) \/ Elapse(k)
             \/ \E s \in Source : enqueueAffectedRoutemaps(s)
             \/ enqueueAllRoutemaps
      PROVE  OrphanInv'
  BY <1>2, OrphanFrame
  DEF HandleRoutemap, Elapse, enqueueAffectedRoutemaps, enqueueAllRoutemaps,
      clusterVars, apiVars, rmInformer, localVars
<1>3. ASSUME NEW k \in Routemap, Dequeue(k) PROVE OrphanInv'
  BY <1>3, OrphanIdle DEF Dequeue, clusterVars, apiVars, rmInformer
<1>4. CASE Reconcile
  BY <1>4, OrphanReconcile
<1>5. CASE Restart
  <2>1. /\ pc' = "idle" /\ rmCache' = api /\ UNCHANGED <<api, created>>
        /\ store' = [k \in Routemap |-> Nil]
    BY <1>5 DEF Restart, NoLocals, Relist, apiVars
  <2> QED
    BY <2>1
    DEF OrphanInv, ViewsHeld, CopiesOld, CopyOf, CacheHeld, Held, Publishable,
        WorkerHeld, Releasing
<1>6. ASSUME NEW k \in Routemap, NEW ref, NEW state, ProbeResult(k, ref, state)
      PROVE  OrphanInv'
  <2>1. /\ \A j \in Routemap : store'[j] # Nil => store[j] # Nil
        /\ UNCHANGED <<api, created, rmCache, pc, req, rm>>
    BY <1>6
    DEF ProbeResult, UpdateEndpointHealth, TypeOK, StoreTypeOK, clusterVars,
        apiVars, rmInformer, localVars
  <2> QED
    BY <2>1
    DEF OrphanInv, ViewsHeld, CopiesOld, CopyOf, CacheHeld, Held, Publishable,
        WorkerHeld, Releasing, TypeOK
<1>7. CASE UNCHANGED vars
  BY <1>7, OrphanFrame
  DEF vars, clusterVars, apiVars, rmInformer, reconcilerVars, localVars
<1> QED
  BY <1>1, <1>2, <1>3, <1>4, <1>5, <1>6, <1>7 DEF Next

\* The number of finalizers removed by hand never falls.
LEMMA RemovalsGrow == TypeOK /\ [Next]_vars /\ removals' = 0 => removals = 0
<1> SUFFICES ASSUME TypeOK, [Next]_vars, removals' = 0 PROVE removals = 0
  OBVIOUS
<1> USE DEF clusterVars, apiVars
<1>1. CASE (Users \/ Informers) /\ UNCHANGED reconcilerVars
  <2>1. ASSUME NEW k \in Routemap, ForceRemove(k) PROVE removals = 0
    BY <2>1 DEF ForceRemove, TypeOK, ClusterTypeOK
  <2>2. CASE Informers
    BY <2>2 DEF Informers, SyncRoutemap, SyncSource, SyncNamespace
  <2>3. ASSUME NEW k \in Routemap, NEW spec \in SpecChoice,
               CreateRoutemap(k, spec) \/ EditSpec(k, spec) \/ DeleteRoutemap(k)
        PROVE  removals = 0
    BY <2>3 DEF CreateRoutemap, EditSpec, DeleteRoutemap
  <2>4. ASSUME \/ \E k \in Routemap : DeleteRoutemap(k)
               \/ \E s \in Source, content \in SourceState :
                     ChangeSource(s, content)
               \/ \E n \in Namespace : RelabelNamespace(n)
               \/ InstallCRD
        PROVE  removals = 0
    BY <2>4 DEF DeleteRoutemap, ChangeSource, RelabelNamespace, InstallCRD
  <2> QED
    BY <1>1, <2>1, <2>2, <2>3, <2>4 DEF Users
<1>2. CASE Reconcile
  BY <1>2
  DEF Reconcile, GetNotFound, GetDeleting, GetLive, AddFinalizer,
      RemoveFinalizer, Write, Resolve, ResolveError, List, Merge, Publish,
      Refetch, RefetchNotFound, StatusUpdate, Conflict, CallFails
<1>3. ASSUME NEW k \in Routemap, HandleRoutemap(k) \/ Elapse(k) \/ Dequeue(k)
      PROVE  removals = 0
  BY <1>3 DEF HandleRoutemap, Elapse, Dequeue
<1>4. ASSUME NEW s \in Source, enqueueAffectedRoutemaps(s) PROVE removals = 0
  BY <1>4 DEF enqueueAffectedRoutemaps
<1>5. ASSUME NEW k \in Routemap, NEW ref, NEW state, ProbeResult(k, ref, state)
      PROVE  removals = 0
  BY <1>5 DEF ProbeResult
<1>6. CASE enqueueAllRoutemaps \/ Restart \/ UNCHANGED vars
  BY <1>6 DEF enqueueAllRoutemaps, Restart, Relist, vars
<1> QED
  BY <1>1, <1>2, <1>3, <1>4, <1>5, <1>6 DEF Next

\* No view outlives its Routemap, for any number of Routemaps, faults, crashes
\* and stale reads, as long as users leave the operator's finalizer alone.
THEOREM NoOrphan == Spec => []NoOrphanView
<1> DEFINE Inv == TypeOK /\ (removals = 0 => OrphanInv)
<1>1. Init => Inv
  BY TypeInit, OrphanInit
<1>2. Inv /\ [Next]_vars => Inv'
  BY TypeStep, OrphanStep, RemovalsGrow
<1>3. Inv => NoOrphanView
  BY DEF OrphanInv, ViewsHeld, NoOrphanView
<1> QED
  BY <1>1, <1>2, <1>3, PTL DEF Spec

-----------------------------------------------------------------------------
(***************************************************************************)
(* Why the endpoints of a source ref agree on their health: what the List  *)
(* calls collect is Unknown throughout, and mergeHealth gives all          *)
(* endpoints of a ref the same state.                                      *)
(***************************************************************************)

AllUnknown(eps) ==
    \A e \in Endpoint : eps[e] # Nil => eps[e].health = "Unknown"

UniformInv ==
    /\ UniformHealth
    /\ pc # "publish" => AllUnknown(endpoints)
    /\ pc = "publish" => Uniform(endpoints)

LEMMA MergedUniform ==
    ASSUME NEW prev \in Endpoints, NEW eps \in Endpoints, AllUnknown(eps)
    PROVE  Uniform(Merged(prev, eps))
<1> DEFINE new == Merged(prev, eps)
           h(ref) == IF OfRef(prev, ref) # {}
                     THEN prev[LastOfRef(prev, ref)].health ELSE "Unknown"
<1>1. ASSUME NEW e \in Endpoint, new[e] # Nil
      PROVE  new[e].health = h(SourceRef(e))
  <2>1. eps[e] # Nil
    BY <1>1 DEF Merged
  <2>2. eps[e] \in EndpointState /\ eps[e].health = "Unknown"
    BY <2>1 DEF Endpoints, AllUnknown
  <2> QED
    BY <2>1, <2>2 DEF Merged, EndpointState
<1> HIDE DEF new, h
<1>2. Uniform(new)
  BY <1>1 DEF Uniform
<1> QED
  BY <1>2 DEF new

LEMMA UnknownUniform ==
    ASSUME NEW eps, AllUnknown(eps) PROVE Uniform(eps)
  BY DEF AllUnknown, Uniform

LEMMA WithHealthUniform ==
    ASSUME NEW eps \in Endpoints, Uniform(eps), NEW ref, NEW state
    PROVE  Uniform(WithHealth(eps, ref, state))
<1> DEFINE new == WithHealth(eps, ref, state)
<1>1. ASSUME NEW e \in Endpoint, new[e] # Nil
      PROVE  /\ eps[e] # Nil
             /\ new[e].health = IF SourceRef(e) = ref THEN state ELSE eps[e].health
  <2>1. eps[e] # Nil
    BY <1>1 DEF WithHealth
  <2>2. eps[e] \in EndpointState
    BY <2>1 DEF Endpoints
  <2> QED
    BY <2>1, <2>2 DEF WithHealth, EndpointState
<1> HIDE DEF new
<1>2. Uniform(new)
  BY <1>1 DEF Uniform
<1> QED
  BY <1>2 DEF new

LEMMA NoEndpointsUnknown == AllUnknown(NoEndpoints)
  BY DEF AllUnknown, NoEndpoints

LEMMA UniformInit == Init => UniformInv
  BY NoEndpointsUnknown DEF Init, New, UniformInv, UniformHealth

LEMMA UniformStep == TypeOK /\ UniformInv /\ [Next]_vars => UniformInv'
<1> SUFFICES ASSUME TypeOK, UniformInv, [Next]_vars PROVE UniformInv'
  OBVIOUS
<1>t. /\ store \in [Routemap -> RoutemapView \cup {Nil}]
      /\ endpoints \in Endpoints
      /\ pc # "idle" => req \in Routemap
      /\ \A k \in Routemap : store[k] # Nil => store[k].endpoints \in Endpoints
  BY DEF TypeOK, StoreTypeOK, RoutemapView
<1>f. ASSUME UNCHANGED <<pc, endpoints, store>> PROVE UniformInv'
  BY <1>f DEF UniformInv, UniformHealth, AllUnknown, Uniform
<1>s. ASSUME \A k \in Routemap : store'[k] = Nil \/ store'[k] = store[k]
      PROVE  UniformHealth'
  BY <1>s DEF UniformInv, UniformHealth, Uniform
<1>n. ASSUME NoLocals, UniformHealth' PROVE UniformInv'
  BY <1>n, NoEndpointsUnknown DEF UniformInv, NoLocals, AllUnknown, NoEndpoints
<1>1. CASE (Users \/ Informers) /\ UNCHANGED reconcilerVars
  BY <1>1, <1>f DEF reconcilerVars, localVars
<1>2. ASSUME \/ \E k \in Routemap : HandleRoutemap(k) \/ Elapse(k)
             \/ \E s \in Source : enqueueAffectedRoutemaps(s)
             \/ enqueueAllRoutemaps
      PROVE  UniformInv'
  BY <1>2, <1>f
  DEF HandleRoutemap, Elapse, enqueueAffectedRoutemaps, enqueueAllRoutemaps,
      localVars
<1>3. ASSUME \/ \E k \in Routemap : Dequeue(k)
             \/ GetLive \/ GetDeleting \/ Resolve \/ Refetch
      PROVE  UniformInv'
  <2>1. /\ pc # "publish" /\ pc' # "publish" /\ UNCHANGED endpoints
        /\ \A k \in Routemap : store'[k] = Nil \/ store'[k] = store[k]
    BY <1>3, <1>t DEF Dequeue, GetLive, GetDeleting, Resolve, Refetch, Delete
  <2> QED
    BY <2>1, <1>s DEF UniformInv, AllUnknown
<1>4. ASSUME \/ GetNotFound \/ AddFinalizer \/ RemoveFinalizer
             \/ ResolveError \/ RefetchNotFound \/ StatusUpdate
             \/ Conflict \/ CallFails \/ Restart
      PROVE  UniformInv'
  <2>1. /\ NoLocals
        /\ \A k \in Routemap : store'[k] = Nil \/ store'[k] = store[k]
    BY <1>4, <1>t
    DEF GetNotFound, AddFinalizer, RemoveFinalizer, ResolveError,
        RefetchNotFound, StatusUpdate, Conflict, CallFails, Restart, Delete,
        Write, Return, ReturnError, Requeue
  <2> QED
    BY <2>1, <1>s, <1>n
<1>5. ASSUME NEW call \in ListCall, List(call) PROVE UniformInv'
  <2>1. /\ pc # "publish" /\ pc' # "publish" /\ UNCHANGED store
        /\ endpoints' =
             Collect(call, defaultAnnotationKey(rm.spec.healthCheck), endpoints)
    BY <1>5 DEF List
  <2>2. AllUnknown(endpoints')
    BY <2>1 DEF UniformInv, AllUnknown, Collect
  <2> QED
    BY <2>1, <2>2, <1>s DEF UniformInv, AllUnknown
<1>6. CASE Merge
  <2>1. /\ pc = "merge" /\ pc' = "publish" /\ UNCHANGED store
        /\ endpoints' = mergeHealth(req, endpoints) /\ req \in Routemap
    BY <1>6, <1>t DEF Merge
  <2>2. Uniform(endpoints')
    BY <1>t, <2>1, MergedUniform, UnknownUniform DEF UniformInv, mergeHealth
  <2> QED
    BY <2>1, <2>2, <1>s DEF UniformInv, Uniform
<1>7. CASE Publish
  <2>1. /\ pc = "publish" /\ pc' = "refetch" /\ req \in Routemap
        /\ endpoints' = NoEndpoints
        /\ store' = [store EXCEPT ![req] = [spec |-> rm.spec,
                                            endpoints |-> endpoints]]
    BY <1>7, <1>t DEF Publish, Set
  <2>2. UniformHealth'
    BY <1>t, <2>1 DEF UniformInv, UniformHealth, Uniform
  <2> QED
    BY <2>1, <2>2, NoEndpointsUnknown DEF UniformInv, AllUnknown, NoEndpoints
<1>8. ASSUME NEW k \in Routemap, NEW ref, NEW state, ProbeResult(k, ref, state)
      PROVE  UniformInv'
  <2>1. /\ store[k] # Nil /\ UNCHANGED <<pc, endpoints>>
        /\ store' = [store EXCEPT ![k] =
              [spec |-> store[k].spec,
               endpoints |-> WithHealth(store[k].endpoints, ref, state)]]
    BY <1>8 DEF ProbeResult, UpdateEndpointHealth, localVars
  <2>2. Uniform(WithHealth(store[k].endpoints, ref, state))
    BY <1>t, <2>1, WithHealthUniform DEF UniformInv, UniformHealth
  <2>3. UniformHealth'
    BY <1>t, <2>1, <2>2 DEF UniformInv, UniformHealth, Uniform
  <2> QED
    BY <2>1, <2>3 DEF UniformInv, AllUnknown, Uniform
<1>9. CASE UNCHANGED vars
  BY <1>9, <1>f DEF vars, reconcilerVars, localVars
<1> QED
  BY <1>1, <1>2, <1>3, <1>4, <1>5, <1>6, <1>7, <1>8, <1>9 DEF Next, Reconcile

\* The endpoints of one source ref agree on their health in every view, however
\* reconciles and probe results interleave, so the order in which mergeHealth
\* goes through the old slice never matters.
THEOREM HealthUniform == Spec => []UniformHealth
<1>1. Init => TypeOK /\ UniformInv
  BY TypeInit, UniformInit
<1>2. TypeOK /\ UniformInv /\ [Next]_vars => TypeOK' /\ UniformInv'
  BY TypeStep, UniformStep
<1>3. UniformInv => UniformHealth
  BY DEF UniformInv
<1> QED
  BY <1>1, <1>2, <1>3, PTL DEF Spec

-----------------------------------------------------------------------------
(* The selection. *)

\* The List calls of a reconcile return exactly the objects that the selection
\* is documented to cover, for every spec that ResolveNamespaces accepts.
THEOREM ListCallsCover ==
    ASSUME NEW spec \in RoutemapSpec, NEW own \in Namespace,
           NEW matching \in SUBSET Namespace, NEW available \in BOOLEAN,
           NEW s \in Source, ~SelectorError(spec.namespaces)
    PROVE  (\E call \in ListCalls(spec, own, matching, available) : Lists(call, s))
              <=> Covers(spec, own, matching, available, s)
<1> DEFINE sel == spec.namespaces
           calls == ListCalls(spec, own, matching, available)
<1>t. /\ sel \in NamespaceSelector /\ spec.sources \in SUBSET SourceKind
      /\ s.kind \in SourceKind /\ s.ns \in Namespace /\ s.ns # Nil
  BY SourceAssumption, NilAssumption DEF RoutemapSpec
<1>k. s.kind \in Kinds(spec, available) <=>
         /\ spec.sources = {} \/ s.kind \in spec.sources
         /\ s.kind = "HTTPRoute" => available
  BY <1>t DEF Kinds, effectiveSources, SourceKind
<1>1. CASE sel.watchAll
  <2>1. calls = [kind : Kinds(spec, available), ns : {Nil}]
    BY <1>1 DEF ListCalls
  <2>2. (\E call \in calls : Lists(call, s)) <=> s.kind \in Kinds(spec, available)
    <3>1. ASSUME s.kind \in Kinds(spec, available)
          PROVE  \E call \in calls : Lists(call, s)
      <4> [kind |-> s.kind, ns |-> Nil] \in calls
        BY <2>1, <3>1
      <4> QED
        BY DEF Lists
    <3> QED
      BY <2>1, <3>1 DEF Lists
  <2> QED
    BY <1>1, <1>k, <2>2 DEF Covers, CoversNamespace
<1>2. CASE ~sel.watchAll
  <2> DEFINE E == EffectiveNamespaces(sel, own, matching)
  <2>1. calls = [kind : Kinds(spec, available), ns : E]
    BY <1>2 DEF ListCalls
  <2>2. Nil \notin E
    BY <1>t, NilAssumption
    DEF EffectiveNamespaces, ResolveNamespaces, NamespaceSelector
  <2>3. s.ns \in E <=> CoversNamespace(sel, own, matching, s.ns)
    BY <1>2, <1>t
    DEF EffectiveNamespaces, ResolveNamespaces, NamespaceSelector,
        CoversNamespace, SelectorError
  <2>4. (\E call \in calls : Lists(call, s))
           <=> s.kind \in Kinds(spec, available) /\ s.ns \in E
    <3> HIDE DEF E
    <3>1. ASSUME s.kind \in Kinds(spec, available), s.ns \in E
          PROVE  \E call \in calls : Lists(call, s)
      <4> [kind |-> s.kind, ns |-> s.ns] \in calls
        BY <2>1, <3>1
      <4> QED
        BY DEF Lists
    <3> QED
      BY <2>1, <2>2, <3>1 DEF Lists
  <2> QED
    BY <1>k, <2>3, <2>4 DEF Covers
<1> QED
  BY <1>1, <1>2

\* The watch handlers wake every Routemap that may cover the changed object:
\* namespaceMatchesRoutemap has no false negative, whatever the labels are.
THEOREM WatchCoverage ==
    ASSUME NEW sel \in NamespaceSelector, NEW own, NEW matching, NEW ns,
           CoversNamespace(sel, own, matching, ns)
    PROVE  namespaceMatchesRoutemap(ns, own, sel)
  BY DEF CoversNamespace, namespaceMatchesRoutemap, NamespaceSelector
=============================================================================
