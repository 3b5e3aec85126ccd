---------------------------- MODULE WakeupProofs ----------------------------
(***************************************************************************)
(* No wakeup is lost, for every set of Routemaps, sources, endpoints and   *)
(* specs and for every value of the bounds, as long as the List calls of   *)
(* the watch handlers succeed.                                             *)
(***************************************************************************)
EXTENDS ReconcilerProofs

-----------------------------------------------------------------------------
(***************************************************************************)
(* Why the operator is right when it is quiet.  At any time each Routemap  *)
(* is waiting to be looked at again, or the call for it has done its work  *)
(* so far by what the caches show now, or the last call for it has done    *)
(* all of it.  A cache that changes after it was read leaves an event      *)
(* behind, and the handler of that event enqueues the Routemap.            *)
(***************************************************************************)

\* An event, a key that is due or a retry has the worker look at k again.
Woken(k) ==
    \/ queue[k] \in {"now", "backoff"}
    \/ k \in rmEvents
    \/ nsEvents /\ rmCache[k] # Nil

\* What a reconcile sees of the cluster, and the objects whose change is yet
\* to be delivered to the handlers.
Caches ==
    [srcs |-> srcCache, matching |-> nsCache, available |-> HTTPRouteAvailable,
     late |-> srcEvents]

\* The path of e in a view of k collected from these caches.
Expected(k, spec, e, c) ==
    IF c.srcs[e.source] # Nil /\ Covers(spec, k.ns, c.matching, c.available, e.source)
    THEN defaultAnnotationKey(spec.healthCheck) \in c.srcs[e.source]
    ELSE Nil

Unlisted(e, calls) == \E call \in calls : Lists(call, e.source)

(***************************************************************************)
(* The slice is what the caches say, but for the objects that calls are    *)
(* yet to list, of which there is nothing, and for those that are late.    *)
(* Any change of an object it has something of will wake the Routemap.     *)
(***************************************************************************)
Shows(k, spec, eps, calls, c) ==
    \A e \in Endpoint :
        /\ eps[e] # Nil =>
              namespaceMatchesRoutemap(e.source.ns, k.ns, spec.namespaces)
        /\ Unlisted(e, calls) => eps[e] = Nil
        /\ ~Unlisted(e, calls) /\ e.source \notin c.late
              => Paths(eps)[e] = Expected(k, spec, e, c)

\* The status of o accounts for the view.
Accounts(o, view) ==
    /\ o.status # Nil
    /\ o.status.observed = o.gen
    /\ o.status.discovered = Discovered(view.endpoints)

(***************************************************************************)
(* What the last call for k has left behind.  If it wrote to the Routemap, *)
(* the informer is yet to see that.                                        *)
(***************************************************************************)
Settled(k) ==
    /\ rmCache[k] = Nil => store[k] = Nil
    /\ rmCache[k] # Nil /\ ~Publishable(rmCache[k]) => api[k] # rmCache[k]
    /\ Publishable(rmCache[k]) =>
          /\ store[k] # Nil
          /\ store[k].spec = rmCache[k].spec
          /\ Shows(k, rmCache[k].spec, store[k].endpoints, {}, Caches)
          /\ api[k] = rmCache[k]
                => Accounts(rmCache[k], store[k])

\* How far the call for req has come.
Underway ==
    /\ pc # "get" => rm = rmCache[req]
    /\ pc = "finalize" => ~rm.finalizer
    /\ pc = "unfinalize" => rm.deleting
    /\ pc \in PC \ {"idle", "get", "finalize", "unfinalize"} => Publishable(rm)
    /\ pc = "list" =>
          /\ ~SelectorError(rm.spec.namespaces)
          /\ todo \subseteq ListCalls(rm.spec, req.ns, nsCache, HTTPRouteAvailable)
          /\ Shows(req, rm.spec, endpoints, todo, Caches)
    /\ pc \in {"merge", "publish"} => Shows(req, rm.spec, endpoints, {}, Caches)
    /\ pc \in {"refetch", "status"} =>
          /\ store[req].spec = rm.spec
          /\ Shows(req, rm.spec, store[req].endpoints, {}, Caches)
    /\ pc = "status" => fresh = rm

Followed(k) == (req = k => Underway) /\ (req # k => Settled(k))

\* The worker begins a call with nothing collected.
CallsBegin ==
    /\ pc = "idle" => req = Nil
    /\ pc \in {"idle", "get", "finalize", "unfinalize", "resolve"}
          => endpoints = NoEndpoints

WakeInv ==
    /\ TypeOK
    /\ CopiesOld
    /\ CallsBegin
    /\ \A k \in Routemap : Woken(k) \/ Followed(k)

-----------------------------------------------------------------------------
(* What the slices of a reconcile show. *)

\* At most one List call of a reconcile returns a given object.
LEMMA OneCall ==
    ASSUME NEW spec \in RoutemapSpec, NEW own \in Namespace,
           NEW matching \in SUBSET Namespace, NEW available, NEW s \in Source,
           NEW a \in ListCalls(spec, own, matching, available),
           NEW b \in ListCalls(spec, own, matching, available),
           Lists(a, s), Lists(b, s)
    PROVE  a = b
<1> DEFINE E == IF spec.namespaces.watchAll THEN {Nil}
                ELSE EffectiveNamespaces(spec.namespaces, own, matching)
           K == Kinds(spec, available)
<1>1. E = {Nil} \/ Nil \notin E
  BY NilAssumption
  DEF EffectiveNamespaces, ResolveNamespaces, RoutemapSpec, NamespaceSelector
<1>2. a \in [kind : K, ns : E] /\ b \in [kind : K, ns : E]
  BY DEF ListCalls
<1> HIDE DEF E, K
<1> QED
  BY <1>1, <1>2 DEF Lists

\* The watch handlers wake a Routemap for every object it is to show.
LEMMA UnmatchedExpected ==
    ASSUME NEW k, NEW spec \in RoutemapSpec, NEW e, NEW c,
           ~namespaceMatchesRoutemap(e.source.ns, k.ns, spec.namespaces)
    PROVE  Expected(k, spec, e, c) = Nil
<1>1. spec.namespaces \in NamespaceSelector
  BY DEF RoutemapSpec
<1> QED
  BY <1>1, WatchCoverage DEF Expected, Covers

\* The slices have the same endpoints, with the same paths.
SamePlaces(eps, other) ==
    \A e \in Endpoint :
        /\ eps[e] = Nil <=> other[e] = Nil
        /\ eps[e] # Nil => eps[e].path = other[e].path

LEMMA ShowsKept ==
    ASSUME NEW k, NEW spec, NEW eps, NEW other, NEW calls, NEW c, NEW d,
           Shows(k, spec, eps, calls, c), SamePlaces(eps, other),
           d.matching = c.matching, d.available = c.available,
           \A s \in Source : s \notin d.late => s \notin c.late /\ d.srcs[s] = c.srcs[s]
    PROVE  Shows(k, spec, other, calls, d)
  BY EndpointAssumption DEF Shows, SamePlaces, Paths, Expected

LEMMA SameDiscovered ==
    ASSUME NEW eps, NEW other, SamePlaces(eps, other)
    PROVE  Discovered(eps) = Discovered(other)
<1>1. {e \in Endpoint : eps[e] # Nil} = {e \in Endpoint : other[e] # Nil}
  BY DEF SamePlaces
<1> QED
  BY <1>1 DEF Discovered

LEMMA MergeSame ==
    ASSUME NEW prev \in Endpoints, NEW eps \in Endpoints
    PROVE  SamePlaces(eps, Merged(prev, eps))
<1>1. \A e \in Endpoint : eps[e] \in EndpointState \cup {Nil}
  BY DEF Endpoints
<1>2. \A s \in EndpointState, h \in HealthState :
         /\ [s EXCEPT !.health = h] \in EndpointState
         /\ [s EXCEPT !.health = h].path = s.path
  BY DEF EndpointState
<1>3. \A e \in Endpoint : OfRef(prev, SourceRef(e)) # {} =>
         prev[LastOfRef(prev, SourceRef(e))].health \in HealthState
  BY LastOfRefIn DEF OfRef, Endpoints, EndpointState
<1> QED
  BY <1>1, <1>2, <1>3, NilRecordAssumption DEF SamePlaces, Merged

LEMMA HealthSame ==
    ASSUME NEW eps \in Endpoints, NEW ref, NEW state \in HealthState
    PROVE  SamePlaces(eps, WithHealth(eps, ref, state))
<1>1. \A e \in Endpoint : eps[e] \in EndpointState \cup {Nil}
  BY DEF Endpoints
<1>2. \A s \in EndpointState :
         /\ [s EXCEPT !.health = state] \in EndpointState
         /\ [s EXCEPT !.health = state].path = s.path
  BY DEF EndpointState
<1> QED
  BY <1>1, <1>2, NilRecordAssumption DEF SamePlaces, WithHealth

LEMMA SelfSame == ASSUME NEW eps PROVE SamePlaces(eps, eps)
  BY DEF SamePlaces

\* Before its List calls a reconcile shows what they will not return: nothing.
LEMMA ResolveShows ==
    ASSUME NEW k \in Routemap, NEW spec \in RoutemapSpec, NEW c,
           c.matching \in SUBSET Namespace, c.available \in BOOLEAN,
           ~SelectorError(spec.namespaces)
    PROVE  Shows(k, spec, NoEndpoints, ListCalls(spec, k.ns, c.matching, c.available), c)
<1>1. ASSUME NEW e \in Endpoint,
             ~Unlisted(e, ListCalls(spec, k.ns, c.matching, c.available))
      PROVE  Expected(k, spec, e, c) = Nil
  BY <1>1, ListCallsCover, RoutemapAssumption, EndpointAssumption
  DEF Unlisted, Expected
<1> QED
  BY <1>1 DEF Shows, NoEndpoints, Paths

\* A List call makes good for the objects it returns.
LEMMA ListShows ==
    ASSUME TypeOK, NEW k \in Routemap, NEW spec \in RoutemapSpec, NEW calls, NEW call \in calls,
           calls \subseteq ListCalls(spec, k.ns, nsCache, HTTPRouteAvailable),
           ~SelectorError(spec.namespaces),
           NEW eps \in Endpoints,
           Shows(k, spec, eps, calls, Caches)
    PROVE  Shows(k, spec, Collect(call, defaultAnnotationKey(spec.healthCheck), eps),
                 calls \ {call}, Caches)
<1> DEFINE key == defaultAnnotationKey(spec.healthCheck)
           new == Collect(call, key, eps)
<1>1. /\ Caches.srcs = srcCache /\ Caches.matching = nsCache
      /\ Caches.available = HTTPRouteAvailable
  BY DEF Caches
<1>2. nsCache \in SUBSET Namespace /\ HTTPRouteAvailable \in BOOLEAN
  BY DEF TypeOK, ClusterTypeOK
<1>3. ASSUME NEW e \in Endpoint
      PROVE  /\ new[e] # Nil =>
                   namespaceMatchesRoutemap(e.source.ns, k.ns, spec.namespaces)
             /\ Unlisted(e, calls \ {call}) => new[e] = Nil
             /\ ~Unlisted(e, calls \ {call}) /\ e.source \notin Caches.late
                   => Paths(new)[e] = Expected(k, spec, e, Caches)
  <2>0. e.source \in Source /\ k.ns \in Namespace
    BY EndpointAssumption, RoutemapAssumption
  <2>1. CASE Lists(call, e.source)
    <3>1. Covers(spec, k.ns, nsCache, HTTPRouteAvailable, e.source)
      BY <1>2, <2>0, <2>1, ListCallsCover
    <3>2. namespaceMatchesRoutemap(e.source.ns, k.ns, spec.namespaces)
      BY <1>1, <3>1, <2>0, WatchCoverage DEF Covers, RoutemapSpec
    <3>3. ~Unlisted(e, calls \ {call})
      BY <1>2, <2>0, <2>1, OneCall DEF Unlisted
    <3>4. eps[e] = Nil
      BY <2>1 DEF Shows, Unlisted
    <3>5. CASE srcCache[e.source] = Nil
      BY <1>1, <3>2, <3>3, <3>4, <3>5 DEF Collect, Paths, Expected
    <3>6. CASE srcCache[e.source] # Nil
      <4>1. new[e] = [path |-> key \in srcCache[e.source], health |-> "Unknown"]
        BY <2>1, <3>6 DEF Collect
      <4>2. new[e] # Nil
        <5>1. new[e] \in EndpointState
          BY <4>1 DEF EndpointState, HealthState
        <5> QED
          BY <5>1, NilRecordAssumption
      <4>3. Paths(new)[e] = (key \in srcCache[e.source])
        BY <4>1, <4>2 DEF Paths
      <4>4. Expected(k, spec, e, Caches) = (key \in srcCache[e.source])
        BY <1>1, <3>1, <3>6 DEF Expected
      <4> QED
        BY <3>2, <3>3, <4>3, <4>4
    <3> QED
      BY <3>5, <3>6
  <2>2. CASE ~Lists(call, e.source)
    <3>1. new[e] = eps[e] /\ Paths(new)[e] = Paths(eps)[e]
      BY <2>2 DEF Collect, Paths
    <3>2. Unlisted(e, calls \ {call}) <=> Unlisted(e, calls)
      BY <2>2 DEF Unlisted
    <3> QED
      BY <3>1, <3>2 DEF Shows
  <2> QED
    BY <2>1, <2>2
<1> QED
  BY <1>3 DEF Shows

-----------------------------------------------------------------------------
(* Old copies. *)

(***************************************************************************)
(* A user changes the Routemap under k: copies stay copies, and a cache    *)
(* that did not show the object before does not show it now.               *)
(***************************************************************************)
LEMMA NewVersion ==
    ASSUME TypeOK, CopiesOld, NEW k \in Routemap, NEW obj \in Object \cup {Nil},
           api' = [api EXCEPT ![k] = obj],
           created' \in [Routemap -> Nat],
           \A j \in Routemap : created[j] <= created'[j],
           obj # Nil => obj.uid <= created'[k],
           obj # Nil =>
              \/ obj.uid > created[k]
              \/ api[k] # Nil /\ obj.uid = api[k].uid /\ obj.gen > api[k].gen,
           UNCHANGED rmCache
    PROVE  /\ CopiesOld'
           /\ \A j \in Routemap :
                 rmCache[j] # Nil /\ api'[j] = rmCache[j] => api[j] = rmCache[j]
<1> USE DEF TypeOK, ClusterTypeOK
<1>1. ASSUME NEW j \in Routemap, NEW o \in Object, CopyOf(o, j)
      PROVE  /\ o.uid <= created'[j]
             /\ api'[j] # Nil /\ api'[j].uid = o.uid => o.gen <= api'[j].gen
             /\ api'[j] = o => api[j] = o
  <2>1. /\ o.uid \in Nat /\ o.gen \in Nat
        /\ api[j] # Nil => api[j].uid \in Nat /\ api[j].gen \in Nat
        /\ obj # Nil => obj.uid \in Nat /\ obj.gen \in Nat
        /\ created[j] \in Nat /\ created'[j] \in Nat
    BY DEF Object
  <2>2. o # Nil
    BY NilObjectAssumption
  <2> QED
    BY <1>1, <2>1, <2>2 DEF CopyOf
<1>2. ASSUME NEW j \in Routemap PROVE CopyOf(rmCache[j], j)'
  BY <1>1 DEF CopiesOld, CopyOf
<1>3. ASSUME NEW j \in Routemap PROVE CopyOf(api[j], j)'
  <2>1. api'[j] # Nil => api'[j].uid <= created'[j] /\ api'[j].gen \in Nat
    BY <1>1 DEF CopiesOld, CopyOf, Object
  <2> QED
    BY <2>1 DEF CopyOf
<1>4. ASSUME NEW j \in Routemap, rmCache[j] # Nil, api'[j] = rmCache[j]
      PROVE  api[j] = rmCache[j]
  BY <1>1, <1>4 DEF CopiesOld
<1> QED
  BY <1>2, <1>3, <1>4 DEF CopiesOld

LEMMA UsersOld ==
    ASSUME TypeOK, CopiesOld, Users
    PROVE  /\ CopiesOld'
           /\ \A j \in Routemap :
                 rmCache[j] # Nil /\ api'[j] = rmCache[j] => api[j] = rmCache[j]
<1> DEFINE Goal ==
       /\ CopiesOld'
       /\ \A j \in Routemap :
             rmCache[j] # Nil /\ api'[j] = rmCache[j] => api[j] = rmCache[j]
<1>t. /\ api \in [Routemap -> Object \cup {Nil}] /\ created \in [Routemap -> Nat]
      /\ \A k \in Routemap : api[k] # Nil => api[k].uid <= created[k]
  BY DEF TypeOK, ClusterTypeOK, CopiesOld, CopyOf
<1>f. ASSUME UNCHANGED <<api, created, rmCache>> PROVE Goal
  BY <1>f DEF CopiesOld, CopyOf
<1>g. ASSUME UNCHANGED <<created, rmCache>>, NEW k \in Routemap,
             api' = [api EXCEPT ![k] = Nil]
      PROVE  Goal
  <2>1. \A j \in Routemap : created[j] <= created'[j]
    BY <1>g, <1>t
  <2> QED
    BY <1>g, <1>t, <2>1, NewVersion
<1>h. ASSUME UNCHANGED <<created, rmCache>>, NEW k \in Routemap, api[k] # Nil,
             NEW obj \in Object, api' = [api EXCEPT ![k] = obj],
             obj.uid = api[k].uid, obj.gen = api[k].gen + 1
      PROVE  Goal
  <2>1. api[k].gen \in Nat /\ api[k].uid \in Nat
    BY <1>h, <1>t DEF Object
  <2>2. /\ \A j \in Routemap : created[j] <= created'[j]
        /\ obj.uid <= created'[k] /\ obj.gen > api[k].gen
    BY <1>h, <1>t, <2>1
  <2> QED
    BY <1>h, <1>t, <2>2, NewVersion
<1>1. ASSUME NEW k \in Routemap, NEW spec \in SpecChoice, CreateRoutemap(k, spec)
      PROVE  Goal
  <2> DEFINE obj == [uid |-> created[k] + 1, gen |-> 1, spec |-> spec,
                     deleting |-> FALSE, finalizer |-> FALSE, status |-> Nil]
  <2>1. obj \in Object
    BY <1>t, SpecChoiceAssumption DEF Object
  <2>2. /\ api' = [api EXCEPT ![k] = obj]
        /\ created' = [created EXCEPT ![k] = @ + 1]
        /\ UNCHANGED rmCache
    BY <1>1 DEF CreateRoutemap, rmInformer
  <2>3. obj.uid = created[k] + 1
    OBVIOUS
  <2> HIDE DEF obj
  <2>4. /\ created' \in [Routemap -> Nat]
        /\ \A j \in Routemap : created[j] <= created'[j]
        /\ obj.uid <= created'[k] /\ obj.uid > created[k]
    BY <1>t, <2>2, <2>3
  <2> QED
    BY <2>1, <2>2, <2>4, NewVersion
<1>2. ASSUME NEW k \in Routemap, NEW spec \in SpecChoice, EditSpec(k, spec)
      PROVE  Goal
  <2> DEFINE obj == [api[k] EXCEPT !.spec = spec, !.gen = api[k].gen + 1]
  <2>1. api[k] \in Object /\ api[k] # Nil /\ obj \in Object
    BY <1>2, <1>t, ObjectWrites, SpecChoiceAssumption DEF EditSpec
  <2>2. api' = [api EXCEPT ![k] = obj] /\ UNCHANGED <<created, rmCache>>
    BY <1>2 DEF EditSpec, rmInformer
  <2>3. obj.uid = api[k].uid /\ obj.gen = api[k].gen + 1
    BY <2>1 DEF Object
  <2> HIDE DEF obj, Goal
  <2> QED
    BY <1>h, <2>1, <2>2, <2>3
<1>3. ASSUME NEW k \in Routemap, DeleteRoutemap(k) PROVE Goal
  <2>0. UNCHANGED <<created, rmCache>>
    BY <1>3 DEF DeleteRoutemap, rmInformer
  <2>1. CASE ~api[k].finalizer
    <3>1. api' = [api EXCEPT ![k] = Nil]
      BY <1>3, <2>1 DEF DeleteRoutemap
    <3> HIDE DEF Goal
    <3> QED
      BY <1>g, <2>0, <3>1
  <2>2. CASE api[k].finalizer
    <3> DEFINE obj == [api[k] EXCEPT !.deleting = TRUE, !.gen = api[k].gen + 1]
    <3>1. api[k] \in Object /\ api[k] # Nil /\ obj \in Object
      BY <1>3, <1>t, ObjectWrites DEF DeleteRoutemap
    <3>2. api' = [api EXCEPT ![k] = obj]
      BY <1>3, <2>2 DEF DeleteRoutemap
    <3>3. obj.uid = api[k].uid /\ obj.gen = api[k].gen + 1
      BY <3>1 DEF Object
    <3> HIDE DEF obj, Goal
    <3> QED
      BY <1>h, <2>0, <3>1, <3>2, <3>3
  <2> QED
    BY <2>1, <2>2
<1>4. ASSUME NEW k \in Routemap, ForceRemove(k) PROVE Goal
  <2>1. UNCHANGED <<created, rmCache>> /\ api' = [api EXCEPT ![k] = Nil]
    BY <1>4 DEF ForceRemove, rmInformer
  <2> HIDE DEF Goal
  <2> QED
    BY <1>g, <2>1
<1>5. ASSUME NEW s \in Source, NEW content, ChangeSource(s, content) PROVE Goal
  BY <1>5, <1>f DEF ChangeSource, apiVars, rmInformer
<1>6. ASSUME NEW n \in Namespace, RelabelNamespace(n) PROVE Goal
  BY <1>6, <1>f DEF RelabelNamespace, apiVars, rmInformer
<1>7. CASE InstallCRD
  BY <1>7, <1>f DEF InstallCRD, apiVars, rmInformer
<1> QED
  BY <1>1, <1>2, <1>3, <1>4, <1>5, <1>6, <1>7 DEF Users

\* The worker writes over the version it has read: its uid and gen stay.
LEMMA WriteOld ==
    ASSUME TypeOK, CopiesOld, NEW obj \in Object \cup {Nil}, req \in Routemap,
           api' = [api EXCEPT ![req] = obj], UNCHANGED <<created, rmCache>>,
           obj # Nil => /\ api[req] # Nil
                        /\ obj.uid = api[req].uid /\ obj.gen = api[req].gen
    PROVE  CopiesOld'
<1> USE DEF TypeOK, ClusterTypeOK
<1>1. ASSUME NEW k \in Routemap, NEW o, CopyOf(o, k)
      PROVE  CopyOf(o, k)'
  BY <1>1 DEF CopyOf
<1>2. ASSUME NEW k \in Routemap, api'[k] # Nil
      PROVE  /\ api'[k].uid <= created[k]
             /\ api'[k].gen <= api'[k].gen
  BY <1>2 DEF CopiesOld, CopyOf, Object
<1> QED
  BY <1>1, <1>2 DEF CopiesOld, CopyOf

LEMMA CopiesStep == TypeOK /\ CopiesOld /\ [Next]_vars => CopiesOld'
<1> SUFFICES ASSUME TypeOK, CopiesOld, [Next]_vars PROVE CopiesOld'
  OBVIOUS
<1>t. /\ api \in [Routemap -> Object \cup {Nil}]
      /\ rmCache \in [Routemap -> Object \cup {Nil}]
  BY DEF TypeOK, ClusterTypeOK
<1>f. ASSUME UNCHANGED <<api, created, rmCache>> PROVE CopiesOld'
  BY <1>f DEF CopiesOld, CopyOf
<1>1. CASE Users
  BY <1>1, UsersOld
<1>2. ASSUME NEW k \in Routemap, SyncRoutemap(k) PROVE CopiesOld'
  BY <1>2, <1>t DEF SyncRoutemap, apiVars, CopiesOld, CopyOf
<1>3. CASE AddFinalizer
  <2> DEFINE obj == [rm EXCEPT !.finalizer = TRUE]
  <2>1. rm \in Object /\ obj \in Object /\ req \in Routemap /\ rm # Nil
    BY <1>3, ObjectWrites DEF AddFinalizer, TypeOK
  <2>2. /\ api[req] = rm /\ api' = [api EXCEPT ![req] = obj]
        /\ UNCHANGED <<created, rmCache>>
    BY <1>3 DEF AddFinalizer, Write, rmInformer
  <2>3. obj.uid = rm.uid /\ obj.gen = rm.gen
    BY <2>1 DEF Object
  <2> HIDE DEF obj
  <2> QED
    BY <2>1, <2>2, <2>3, WriteOld
<1>4. CASE RemoveFinalizer
  <2>1. /\ req \in Routemap /\ api' = [api EXCEPT ![req] = Nil]
        /\ UNCHANGED <<created, rmCache>>
    BY <1>4 DEF RemoveFinalizer, Write, rmInformer, TypeOK
  <2> QED
    BY <2>1, WriteOld
<1>5. CASE StatusUpdate
  <2> DEFINE obj == [fresh EXCEPT !.status = setReadyCondition]
  <2>1. /\ api[req] = fresh /\ api' = [api EXCEPT ![req] = obj]
        /\ UNCHANGED <<created, rmCache>>
        /\ fresh \in Object /\ req \in Routemap /\ fresh # Nil
    BY <1>5 DEF StatusUpdate, Write, rmInformer, TypeOK
  <2>2. obj.uid = fresh.uid /\ obj.gen = fresh.gen
    <3> DEFINE status == setReadyCondition
    <3> HIDE DEF status
    <3>1. [fresh EXCEPT !.status = status].uid = fresh.uid
          /\ [fresh EXCEPT !.status = status].gen = fresh.gen
      BY <2>1 DEF Object
    <3> QED
      BY <3>1 DEF status
  <2>3. obj \in Object \cup {Nil}
    <3>1. api'[req] = obj /\ api'[req] \in Object \cup {Nil}
      <4>1. TypeOK'
        BY TypeStep
      <4> QED
        BY <1>t, <2>1, <4>1 DEF TypeOK, ClusterTypeOK
    <3> QED
      BY <3>1
  <2> HIDE DEF obj
  <2> QED
    BY <2>1, <2>2, <2>3, WriteOld
<1>6. CASE Restart
  BY <1>6, <1>t DEF Restart, Relist, apiVars, CopiesOld, CopyOf
<1>7. CASE Informers /\ ~\E k \in Routemap : SyncRoutemap(k)
  BY <1>7, <1>f DEF Informers, SyncSource, SyncNamespace, apiVars, rmInformer
<1>8. ASSUME Reconcile, ~AddFinalizer, ~RemoveFinalizer, ~StatusUpdate
      PROVE  CopiesOld'
  BY <1>8, <1>f
  DEF Reconcile, GetNotFound, GetDeleting, GetLive, Resolve, ResolveError, List,
      Merge, Publish, Refetch, RefetchNotFound, Conflict, CallFails, clusterVars,
      apiVars, rmInformer
<1> QED
  BY <1>1, <1>2, <1>3, <1>4, <1>5, <1>6, <1>7, <1>8, <1>f
  DEF Next, vars, HandleRoutemap, enqueueAffectedRoutemaps, enqueueAllRoutemaps,
      Elapse, Dequeue, ProbeResult, clusterVars, apiVars, rmInformer

-----------------------------------------------------------------------------
(* Steps that do not belong to the call for k. *)

LEMMA CachesFields ==
    /\ Caches.srcs = srcCache /\ Caches.matching = nsCache
    /\ Caches.available = HTTPRouteAvailable /\ Caches.late = srcEvents
    /\ Caches'.srcs = srcCache' /\ Caches'.matching = nsCache'
    /\ Caches'.available = HTTPRouteAvailable' /\ Caches'.late = srcEvents'
  BY DEF Caches

\* A Routemap that is waiting goes on waiting while keys are added.
LEMMA WokenStays ==
    ASSUME TypeOK, NEW k \in Routemap, Woken(k), UNCHANGED <<nsEvents, rmEvents>>,
           rmCache'[k] = rmCache[k],
           \/ UNCHANGED queue
           \/ \E keys, due : Add(keys, due)
    PROVE  Woken(k)'
<1>1. queue[k] = "now" => queue'[k] = "now"
  BY DEF Add, Sooner
<1>2. queue[k] = "backoff" => queue'[k] \in {"now", "backoff"}
  BY DEF Add, Sooner
<1> QED
  BY <1>1, <1>2 DEF Woken

\* Health states and news of other Routemaps make no difference to k.
LEMMA FollowedStays ==
    ASSUME WakeInv, NEW k \in Routemap, Followed(k),
           UNCHANGED <<pc, req, rm, todo, endpoints, fresh>>,
           rmCache'[k] = rmCache[k],
           rmCache[k] # Nil /\ api'[k] = rmCache[k] => api[k] = rmCache[k],
           UNCHANGED <<HTTPRouteAvailable, nsCache>>,
           \A s \in Source :
              s \notin srcEvents' => s \notin srcEvents /\ srcCache'[s] = srcCache[s],
           store[k] = Nil <=> store'[k] = Nil,
           store[k] # Nil => /\ store'[k].spec = store[k].spec
                             /\ SamePlaces(store[k].endpoints, store'[k].endpoints)
    PROVE  Followed(k)'
<1>1. ASSUME NEW spec, NEW eps, NEW other, NEW calls,
             Shows(k, spec, eps, calls, Caches), SamePlaces(eps, other)
      PROVE  Shows(k, spec, other, calls, Caches')
  <2> DEFINE c == Caches
             d == Caches'
  <2>1. /\ d.matching = c.matching /\ d.available = c.available
        /\ \A s \in Source :
              s \notin d.late => s \notin c.late /\ d.srcs[s] = c.srcs[s]
    BY CachesFields
  <2> HIDE DEF c, d
  <2>2. Shows(k, spec, eps, calls, c)
    BY <1>1 DEF c
  <2>3. Shows(k, spec, other, calls, d)
    BY <1>1, <2>1, <2>2, ShowsKept
  <2> QED
    BY <2>3 DEF d
<1>2. CASE req # k
  <2>1. Settled(k)
    BY <1>2 DEF Followed
  <2>2. Settled(k)'
    <3>1. ASSUME Publishable(rmCache[k])
          PROVE  /\ Shows(k, rmCache[k].spec, store'[k].endpoints, {}, Caches')
                 /\ Discovered(store[k].endpoints) = Discovered(store'[k].endpoints)
      <4>1. /\ Shows(k, rmCache[k].spec, store[k].endpoints, {}, Caches)
            /\ SamePlaces(store[k].endpoints, store'[k].endpoints)
        BY <2>1, <3>1 DEF Settled
      <4> QED
        BY <4>1, <1>1, SameDiscovered
    <3>2. Publishable(rmCache[k])' <=> Publishable(rmCache[k])
      BY DEF Publishable
    <3>3. ASSUME Publishable(rmCache[k])', api'[k] = rmCache[k]
          PROVE  Accounts(rmCache[k], store[k])'
      <4>1. Accounts(rmCache[k], store[k])
        BY <2>1, <3>2, <3>3 DEF Settled, Publishable
      <4> QED
        BY <3>1, <3>2, <3>3, <4>1 DEF Accounts
    <3> QED
      BY <2>1, <3>1, <3>2, <3>3 DEF Settled, Publishable
  <2> QED
    BY <1>2, <2>2 DEF Followed
<1>3. CASE req = k
  <2>1. Underway
    BY <1>3 DEF Followed
  <2>2. pc \in {"list", "merge", "publish"} => SamePlaces(endpoints, endpoints')
    BY SelfSame
  <2>3. pc = "list" => Shows(req, rm.spec, endpoints, todo, Caches)'
    BY <1>1, <1>3, <2>1, <2>2 DEF Underway
  <2>4. pc \in {"merge", "publish"} => Shows(req, rm.spec, endpoints, {}, Caches)'
    BY <1>1, <1>3, <2>1, <2>2 DEF Underway
  <2>5. pc \in {"refetch", "status"} =>
           Shows(req, rm.spec, store[req].endpoints, {}, Caches)'
    BY <1>1, <1>3, <2>1 DEF Underway, WakeInv, TypeOK
  <2>6. pc \in {"refetch", "status"} => store'[req].spec = rm.spec
    BY <1>3, <2>1 DEF Underway, WakeInv, TypeOK
  <2>7. Publishable(rm)' <=> Publishable(rm)
    BY DEF Publishable
  <2>8. Underway'
    BY <1>3, <2>1, <2>3, <2>4, <2>5, <2>6, <2>7 DEF Underway
  <2> QED
    BY <1>3, <2>8 DEF Followed
<1> QED
  BY <1>2, <1>3

\* A Routemap the cache does not have has no view, unless a call has just begun.
LEMMA UnknownFollowed ==
    ASSUME WakeInv, NEW k \in Routemap, Followed(k), rmCache[k] = Nil,
           UNCHANGED <<rmCache, store, pc, req>>
    PROVE  Followed(k)'
<1>1. CASE req # k
  BY <1>1 DEF Followed, Settled, Publishable
<1>2. CASE req = k
  <2>1. pc = "get"
    BY <1>2, RoutemapAssumption
    DEF Followed, Underway, WakeInv, CallsBegin, TypeOK
  <2> QED
    BY <1>2, <2>1 DEF Followed, Underway
<1> QED
  BY <1>1, <1>2

(***************************************************************************)
(* An object changed and the handler found that the Routemap is not to be  *)
(* woken: it has nothing of the object, and is to have nothing of it.      *)
(***************************************************************************)
LEMMA UnmatchedFollowed ==
    ASSUME WakeInv, NEW k \in Routemap, Followed(k), NEW s \in Source,
           rmCache[k] # Nil,
           ~namespaceMatchesRoutemap(s.ns, k.ns, rmCache[k].spec.namespaces),
           srcEvents' = srcEvents \ {s},
           UNCHANGED <<srcCache, nsCache, HTTPRouteAvailable, api, rmCache, store, pc,
                       req, rm, todo, endpoints, fresh>>
    PROVE  Followed(k)'
<1> DEFINE spec == rmCache[k].spec
           c == Caches
           d == Caches'
<1>1. spec \in RoutemapSpec
  BY DEF WakeInv, TypeOK, ClusterTypeOK, Object
<1>2. /\ d.matching = c.matching /\ d.available = c.available /\ d.srcs = c.srcs
      /\ d.late = c.late \ {s}
  BY CachesFields
<1>3. ASSUME NEW eps, NEW calls, Shows(k, spec, eps, calls, c)
      PROVE  Shows(k, spec, eps, calls, d)
  <2> HIDE DEF c, d, spec
  <2>1. ASSUME NEW e \in Endpoint, e.source = s
        PROVE  eps[e] = Nil /\ Expected(k, spec, e, d) = Nil
    <3>1. ~namespaceMatchesRoutemap(e.source.ns, k.ns, spec.namespaces)
      BY <2>1 DEF spec
    <3> QED
      BY <1>1, <1>3, <3>1, UnmatchedExpected DEF Shows
  <2>2. \A e \in Endpoint : Expected(k, spec, e, d) = Expected(k, spec, e, c)
    BY <1>2 DEF Expected
  <2> QED
    BY <1>2, <1>3, <2>1, <2>2 DEF Shows, Paths
<1>4. CASE req # k
  <2>1. Settled(k)
    BY <1>4 DEF Followed
  <2>2. Publishable(rmCache[k]) =>
           Shows(k, rmCache[k].spec, store[k].endpoints, {}, Caches')
    BY <1>3, <2>1 DEF Settled
  <2>3. Settled(k)'
    BY <2>1, <2>2 DEF Settled, Publishable, Accounts
  <2> QED
    BY <1>4, <2>3 DEF Followed
<1>5. CASE req = k
  <2>1. Underway
    BY <1>5 DEF Followed
  <2>2. pc # "get" => rm.spec = spec
    BY <1>5, <2>1 DEF Underway
  <2>3. pc = "list" => Shows(req, rm.spec, endpoints, todo, Caches)'
    BY <1>3, <1>5, <2>1, <2>2 DEF Underway
  <2>4. pc \in {"merge", "publish"} => Shows(req, rm.spec, endpoints, {}, Caches)'
    BY <1>3, <1>5, <2>1, <2>2 DEF Underway
  <2>5. pc \in {"refetch", "status"} =>
           Shows(req, rm.spec, store[req].endpoints, {}, Caches)'
    BY <1>3, <1>5, <2>1, <2>2 DEF Underway
  <2>6. Underway'
    BY <1>5, <2>1, <2>3, <2>4, <2>5 DEF Underway, Publishable
  <2> QED
    BY <1>5, <2>6 DEF Followed
<1> QED
  BY <1>4, <1>5

-----------------------------------------------------------------------------
(* Users, informers and handlers. *)

LEMMA OutsideFollowed ==
    ASSUME WakeInv, NEW k \in Routemap, Woken(k) \/ Followed(k),
           (Users \/ Informers) /\ UNCHANGED reconcilerVars
    PROVE  (Woken(k) \/ Followed(k))'
<1>u. /\ UNCHANGED <<HTTPRouteAvailable, queue, pc, req, rm, todo, endpoints, fresh>>
      /\ UNCHANGED store
  BY DEF reconcilerVars, localVars
<1>s. store[k] # Nil => SamePlaces(store[k].endpoints, store'[k].endpoints)
  BY <1>u, SelfSame
<1>1. CASE Users
  <2>1. UNCHANGED <<rmCache, rmEvents, srcCache, srcEvents, nsCache, nsEvents>>
    BY <1>1
    DEF Users, CreateRoutemap, EditSpec, DeleteRoutemap, ForceRemove, ChangeSource,
        RelabelNamespace, InstallCRD, rmInformer, srcVars, nsVars
  <2>2. rmCache[k] # Nil /\ api'[k] = rmCache[k] => api[k] = rmCache[k]
    BY <1>1, UsersOld DEF WakeInv
  <2>3. Woken(k) => Woken(k)'
    BY <1>u, <2>1 DEF Woken
  <2>4. Followed(k) => Followed(k)'
    BY <1>u, <1>s, <2>1, <2>2, FollowedStays
  <2> QED
    BY <2>3, <2>4
<1>2. ASSUME NEW j \in Routemap, SyncRoutemap(j) PROVE (Woken(k) \/ Followed(k))'
  <2>1. CASE k = j
    BY <1>2, <2>1 DEF SyncRoutemap, Woken
  <2>2. CASE k # j
    <3>1. /\ rmCache'[k] = rmCache[k]
          /\ k \in rmEvents => k \in rmEvents'
          /\ UNCHANGED <<api, srcCache, srcEvents, nsCache, nsEvents>>
      BY <1>2, <2>2
      DEF SyncRoutemap, apiVars, srcVars, nsVars, WakeInv, TypeOK, ClusterTypeOK
    <3>2. Woken(k) => Woken(k)'
      BY <1>u, <3>1 DEF Woken
    <3>3. Followed(k) => Followed(k)'
      BY <1>u, <1>s, <3>1, FollowedStays
    <3> QED
      BY <3>2, <3>3
  <2> QED
    BY <2>1, <2>2
<1>3. ASSUME NEW t \in Source, SyncSource(t) PROVE (Woken(k) \/ Followed(k))'
  <2>1. UNCHANGED <<api, rmCache, rmEvents, nsCache, nsEvents>>
    BY <1>3 DEF SyncSource, apiVars, rmInformer, nsVars
  <2>2. \A s \in Source :
           s \notin srcEvents' => s \notin srcEvents /\ srcCache'[s] = srcCache[s]
    BY <1>3 DEF SyncSource, WakeInv, TypeOK, ClusterTypeOK
  <2>3. Woken(k) => Woken(k)'
    BY <1>u, <2>1 DEF Woken
  <2>4. Followed(k) => Followed(k)'
    BY <1>u, <1>s, <2>1, <2>2, FollowedStays
  <2> QED
    BY <2>3, <2>4
<1>4. ASSUME NEW n \in Namespace, SyncNamespace(n) PROVE (Woken(k) \/ Followed(k))'
  <2>1. UNCHANGED <<rmCache, rmEvents>> /\ nsEvents'
    BY <1>4 DEF SyncNamespace, rmInformer
  <2>2. CASE rmCache[k] # Nil
    BY <2>1, <2>2 DEF Woken
  <2>3. CASE rmCache[k] = Nil
    <3>1. Woken(k) => Woken(k)'
      BY <1>u, <2>1, <2>3 DEF Woken
    <3>2. Followed(k) => Followed(k)'
      BY <1>u, <2>1, <2>3, UnknownFollowed
    <3> QED
      BY <3>1, <3>2
  <2> QED
    BY <2>2, <2>3
<1> QED
  BY <1>1, <1>2, <1>3, <1>4 DEF Informers

LEMMA HandlersFollowed ==
    ASSUME ListMayFail = FALSE, WakeInv, NEW k \in Routemap, Woken(k) \/ Followed(k),
           \/ \E j \in Routemap : HandleRoutemap(j) \/ Elapse(j)
           \/ \E s \in Source : enqueueAffectedRoutemaps(s)
           \/ enqueueAllRoutemaps
    PROVE  (Woken(k) \/ Followed(k))'
<1>t. queue \in [Routemap -> Due]
  BY DEF WakeInv, TypeOK
<1>u. /\ UNCHANGED <<api, rmCache, srcCache, nsCache, HTTPRouteAvailable, pc, req>>
      /\ UNCHANGED <<rm, todo, endpoints, fresh, store>>
  BY DEF HandleRoutemap, Elapse, enqueueAffectedRoutemaps, enqueueAllRoutemaps,
         clusterVars, apiVars, rmInformer, srcVars, nsVars, localVars
<1>s. store[k] # Nil => SamePlaces(store[k].endpoints, store'[k].endpoints)
  BY <1>u, SelfSame
<1>f. ASSUME UNCHANGED srcEvents, Followed(k) PROVE Followed(k)'
  BY <1>f, <1>u, <1>s, FollowedStays
<1>a. ASSUME NEW keys, Add(keys, "now")
      PROVE  /\ k \in keys => queue'[k] = "now"
             /\ queue[k] = "now" => queue'[k] = "now"
             /\ queue[k] = "backoff" => queue'[k] \in {"now", "backoff"}
  BY <1>a DEF Add, Sooner
<1>1. ASSUME NEW j \in Routemap, HandleRoutemap(j) PROVE (Woken(k) \/ Followed(k))'
  <2>1. /\ Add({j}, "now") /\ rmEvents' = rmEvents \ {j}
        /\ UNCHANGED <<nsEvents, srcEvents>>
    BY <1>1 DEF HandleRoutemap, nsVars, srcVars
  <2>2. Woken(k) => Woken(k)'
    BY <1>a, <1>u, <2>1 DEF Woken
  <2> QED
    BY <1>f, <2>1, <2>2
<1>2. ASSUME NEW j \in Routemap, Elapse(j) PROVE (Woken(k) \/ Followed(k))'
  <2>1. /\ queue' = [queue EXCEPT ![j] = "now"]
        /\ UNCHANGED <<rmEvents, nsEvents, srcEvents>>
    BY <1>2 DEF Elapse, clusterVars, rmInformer, nsVars, srcVars
  <2>2. Woken(k) => Woken(k)'
    BY <1>t, <1>u, <2>1 DEF Woken
  <2> QED
    BY <1>f, <2>1, <2>2
<1>3. CASE enqueueAllRoutemaps
  <2>1. Add(Listed, "now") /\ UNCHANGED <<rmEvents, srcEvents>>
    BY <1>3 DEF enqueueAllRoutemaps, rmInformer, srcVars
  <2>2. Woken(k) => Woken(k)'
    BY <1>a, <1>u, <2>1 DEF Woken, Listed
  <2> QED
    BY <1>f, <2>1, <2>2
<1>4. ASSUME NEW s \in Source, enqueueAffectedRoutemaps(s)
      PROVE  (Woken(k) \/ Followed(k))'
  <2>1. /\ Add(Affected(s.ns), "now") /\ srcEvents' = srcEvents \ {s}
        /\ UNCHANGED <<rmEvents, nsEvents>>
    BY <1>4 DEF enqueueAffectedRoutemaps, rmInformer, nsVars
  <2>2. Woken(k) => Woken(k)'
    BY <1>a, <1>u, <2>1 DEF Woken
  <2>3. CASE k \in Affected(s.ns)
    BY <1>a, <2>1, <2>3 DEF Woken
  <2>4. CASE k \notin Affected(s.ns) /\ rmCache[k] = Nil
    BY <1>u, <2>2, <2>4, UnknownFollowed
  <2>5. CASE k \notin Affected(s.ns) /\ rmCache[k] # Nil
    <3>1. ~namespaceMatchesRoutemap(s.ns, k.ns, rmCache[k].spec.namespaces)
      BY <2>5 DEF Affected, Listed
    <3>2. Followed(k) => Followed(k)'
      BY <1>u, <2>1, <2>5, <3>1, UnmatchedFollowed
    <3> QED
      BY <2>2, <3>2
  <2> QED
    BY <2>3, <2>4, <2>5
<1> QED
  BY <1>1, <1>2, <1>3, <1>4

-----------------------------------------------------------------------------
(* The worker, the probes and the process. *)

\* A step of the worker for another Routemap.
LEMMA OthersFollowed ==
    ASSUME WakeInv, NEW k \in Routemap, Woken(k) \/ Followed(k),
           k # req, k # req',
           UNCHANGED <<rmCache, rmEvents, srcCache, srcEvents, nsCache, nsEvents,
                       HTTPRouteAvailable>>,
           store'[k] = store[k], api'[k] = api[k], queue'[k] = queue[k]
    PROVE  (Woken(k) \/ Followed(k))'
<1>1. Woken(k) => Woken(k)'
  BY DEF Woken
<1>2. Caches' = Caches
  BY DEF Caches
<1>3. Settled(k) => Settled(k)'
  BY <1>2 DEF Settled, Publishable
<1> QED
  BY <1>1, <1>3 DEF Followed

\* A call that fails has its Routemap tried again.
LEMMA ErrorWakes ==
    ASSUME req \in Routemap, Add({req}, "backoff")
    PROVE  queue'[req] \in {"now", "backoff"}
  BY DEF Add, Sooner

\* The end of a call that writes to the Routemap it is for.
LEMMA WriteFollowed ==
    ASSUME WakeInv, NEW k, req = k, k \in Routemap,
           Woken(k) \/ Underway,
           NEW read, NEW obj, NEW due \in {"none", "safety"},
           \/ Write(read, obj, Return)
           \/ Write(read, obj, Requeue(due)),
           Underway /\ api[k] = read /\ api'[k] = obj /\ UNCHANGED <<Caches, rmCache, store>>
              => Settled(k)'
    PROVE  (Woken(k) \/ Followed(k))'
<1>1. /\ api[k] = read /\ api'[k] = obj /\ req' = Nil
      /\ UNCHANGED <<rmCache, rmEvents, nsEvents, Caches, store>>
  BY DEF Write, Return, ReturnError, Requeue, NoLocals, rmInformer, srcVars, nsVars,
         Caches, WakeInv, TypeOK, ClusterTypeOK
<1>2. \/ UNCHANGED queue
      \/ \E keys, d : Add(keys, d)
  BY DEF Write, Return, ReturnError, Requeue
<1>3. CASE Woken(k)
  BY <1>1, <1>2, <1>3, WokenStays DEF WakeInv
<1>4. CASE Underway
  <2>1. Settled(k)'
    BY <1>1, <1>4
  <2> QED
    BY <1>1, <2>1, RoutemapAssumption DEF Followed
<1> QED
  BY <1>3, <1>4

\* A step of the call for k, as far as it got by what the caches show.
LEMMA CallFollowed ==
    ASSUME WakeInv, NEW k \in Routemap, Woken(k) \/ Underway, req = k, Reconcile
    PROVE  (Woken(k) \/ Followed(k))'
<1>t. /\ k # Nil /\ pc \in PC
      /\ rmCache \in [Routemap -> Object \cup {Nil}]
      /\ store \in [Routemap -> RoutemapView \cup {Nil}]
      /\ queue \in [Routemap -> Due]
      /\ nsCache \in SUBSET Namespace /\ HTTPRouteAvailable \in BOOLEAN
      /\ endpoints \in Endpoints
      /\ pc # "idle" /\ pc # "get" => rm \in Object /\ rm # Nil
  BY RoutemapAssumption DEF WakeInv, TypeOK, ClusterTypeOK, StoreTypeOK
<1>w. ASSUME UNCHANGED <<rmCache, rmEvents, nsEvents, queue>>, Woken(k)
      PROVE  Woken(k)'
  BY <1>w DEF Woken
<1>e. ASSUME ReturnError PROVE Woken(k)'
  BY <1>e, ErrorWakes DEF ReturnError, Requeue, Woken
<1>1. CASE GetNotFound
  <2>1. /\ UNCHANGED <<rmCache, rmEvents, nsEvents, queue>>
        /\ req' = Nil /\ rmCache[k] = Nil /\ store'[k] = Nil
    BY <1>1, <1>t
    DEF GetNotFound, Delete, Return, NoLocals, clusterVars, rmInformer, nsVars
  <2> QED
    BY <1>t, <2>1 DEF Followed, Settled, Publishable
<1>2. CASE GetDeleting
  <2>1. /\ req' = k /\ pc' = "unfinalize" /\ rm' = rmCache[k] /\ rmCache' = rmCache
        /\ rmCache[k].deleting
    BY <1>2 DEF GetDeleting, clusterVars, rmInformer
  <2> QED
    BY <2>1 DEF Followed, Underway
<1>3. CASE GetLive
  <2>1. /\ req' = k /\ rm' = rmCache[k] /\ rmCache' = rmCache /\ rmCache[k] # Nil
        /\ ~rmCache[k].deleting
        /\ pc' = IF rmCache[k].finalizer THEN "resolve" ELSE "finalize"
    BY <1>3 DEF GetLive, clusterVars, rmInformer
  <2> QED
    BY <2>1 DEF Followed, Underway, Publishable
<1>4. CASE AddFinalizer
  <2> DEFINE obj == [rm EXCEPT !.finalizer = TRUE]
  <2>1. pc = "finalize" /\ Write(rm, obj, Return)
    BY <1>4 DEF AddFinalizer
  <2>2. ASSUME Underway, api'[k] = obj, UNCHANGED rmCache PROVE Settled(k)'
    <3>1. rm = rmCache[k] /\ ~rm.finalizer /\ rm \in Object /\ rm # Nil
      BY <1>t, <2>1, <2>2 DEF Underway
    <3>2. obj.finalizer
      BY <3>1 DEF Object
    <3>3. obj # rm
      BY <3>1, <3>2
    <3> QED
      BY <2>2, <3>1, <3>3 DEF Settled, Publishable
  <2> HIDE DEF obj
  <2> QED
    BY <2>1, <2>2, WriteFollowed
<1>5. CASE RemoveFinalizer
  <2>1. pc = "unfinalize" /\ Write(rm, Nil, Return)
    BY <1>5 DEF RemoveFinalizer
  <2>2. ASSUME Underway, api'[k] = Nil, UNCHANGED rmCache PROVE Settled(k)'
    <3>1. rm = rmCache[k] /\ rm.deleting /\ rm # Nil
      BY <1>t, <2>1, <2>2 DEF Underway
    <3> QED
      BY <2>2, <3>1 DEF Settled, Publishable
  <2> QED
    BY <2>1, <2>2, WriteFollowed
<1>6. CASE Resolve
  <2>1. /\ pc = "resolve" /\ req' = k /\ endpoints' = NoEndpoints
        /\ UNCHANGED <<rm, rmCache, rmEvents, nsEvents, queue, nsCache,
                       HTTPRouteAvailable, Caches>>
        /\ todo' = ListCalls(rm.spec, k.ns, nsCache, HTTPRouteAvailable)
        /\ pc' = IF todo' = {} THEN "merge" ELSE "list"
        /\ ~SelectorError(rm.spec.namespaces)
    BY <1>6
    DEF Resolve, clusterVars, rmInformer, srcVars, nsVars, Caches, WakeInv, CallsBegin
  <2>2. ASSUME Underway PROVE Underway'
    <3>1. rm = rmCache[k] /\ Publishable(rm) /\ rm.spec \in RoutemapSpec
      BY <1>t, <2>1, <2>2 DEF Underway, PC, Object
    <3>2. Shows(k, rm.spec, NoEndpoints, todo', Caches)
      <4>1. ASSUME NEW spec \in RoutemapSpec, NEW c, c.matching = nsCache,
                   c.available = HTTPRouteAvailable, ~SelectorError(spec.namespaces)
            PROVE  Shows(k, spec, NoEndpoints,
                         ListCalls(spec, k.ns, nsCache, HTTPRouteAvailable), c)
        BY <4>1, <1>t, ResolveShows
      <4> QED
        BY <2>1, <3>1, <4>1, CachesFields
    <3>3. Publishable(rm)'
      BY <2>1, <3>1 DEF Publishable
    <3> QED
      BY <2>1, <3>1, <3>2, <3>3 DEF Underway
  <2> QED
    BY <1>w, <2>1, <2>2 DEF Followed
<1>7. ASSUME NEW call \in ListCall, List(call) PROVE (Woken(k) \/ Followed(k))'
  <2>1. /\ pc = "list" /\ req' = k /\ call \in todo
        /\ UNCHANGED <<rm, rmCache, rmEvents, nsEvents, queue, nsCache,
                       HTTPRouteAvailable, Caches>>
        /\ todo' = todo \ {call}
        /\ endpoints' =
              Collect(call, defaultAnnotationKey(rm.spec.healthCheck), endpoints)
        /\ pc' = IF todo' = {} THEN "merge" ELSE "list"
    BY <1>7 DEF List, clusterVars, rmInformer, srcVars, nsVars, Caches
  <2>2. ASSUME Underway PROVE Underway'
    <3>1. /\ rm = rmCache[k] /\ Publishable(rm) /\ rm.spec \in RoutemapSpec
          /\ ~SelectorError(rm.spec.namespaces)
          /\ todo \subseteq ListCalls(rm.spec, k.ns, nsCache, HTTPRouteAvailable)
          /\ Shows(k, rm.spec, endpoints, todo, Caches)
      BY <1>t, <2>1, <2>2 DEF Underway, PC, Object
    <3>2. Shows(k, rm.spec, endpoints', todo', Caches)
      BY <1>t, <2>1, <3>1, ListShows DEF WakeInv
    <3>3. Publishable(rm)'
      BY <2>1, <3>1 DEF Publishable
    <3> QED
      BY <2>1, <3>1, <3>2, <3>3 DEF Underway
  <2> QED
    BY <1>w, <2>1, <2>2 DEF Followed
<1>8. CASE Merge
  <2>1. /\ pc = "merge" /\ req' = k /\ pc' = "publish"
        /\ UNCHANGED <<rm, rmCache, rmEvents, nsEvents, queue, Caches>>
        /\ endpoints' = mergeHealth(k, endpoints)
    BY <1>8 DEF Merge, clusterVars, rmInformer, srcVars, nsVars, Caches
  <2>2. SamePlaces(endpoints, endpoints')
    <3>1. CASE store[k] = Nil
      BY <2>1, <3>1, SelfSame DEF mergeHealth
    <3>2. CASE store[k] # Nil
      BY <1>t, <2>1, <3>2, MergeSame DEF mergeHealth, RoutemapView
    <3> QED
      BY <3>1, <3>2
  <2>3. ASSUME Underway PROVE Underway'
    <3>1. /\ rm = rmCache[k] /\ Publishable(rm)
          /\ Shows(k, rm.spec, endpoints, {}, Caches)
      BY <2>1, <2>3 DEF Underway, PC
    <3>2. Shows(k, rm.spec, endpoints', {}, Caches)
      BY <2>2, <3>1, ShowsKept
    <3>3. Publishable(rm)'
      BY <2>1, <3>1 DEF Publishable
    <3> QED
      BY <2>1, <3>1, <3>2, <3>3 DEF Underway
  <2> QED
    BY <1>w, <2>1, <2>3 DEF Followed
<1>9. CASE Publish
  <2>1. /\ pc = "publish" /\ req' = k /\ pc' = "refetch"
        /\ UNCHANGED <<rm, rmCache, rmEvents, nsEvents, queue, Caches>>
        /\ store'[k].spec = rm.spec /\ store'[k].endpoints = endpoints
    BY <1>9, <1>t DEF Publish, Set, clusterVars, rmInformer, srcVars, nsVars, Caches
  <2>2. ASSUME Underway PROVE Underway'
    <3>1. /\ rm = rmCache[k] /\ Publishable(rm)
          /\ Shows(k, rm.spec, endpoints, {}, Caches)
      BY <2>1, <2>2 DEF Underway, PC
    <3>2. Publishable(rm)'
      BY <2>1, <3>1 DEF Publishable
    <3> QED
      BY <2>1, <3>1, <3>2 DEF Underway
  <2> QED
    BY <1>w, <2>1, <2>2 DEF Followed
<1>10. CASE Refetch
  <2>1. /\ pc = "refetch" /\ req' = k /\ pc' = "status" /\ fresh' = rmCache[k]
        /\ UNCHANGED <<rm, rmCache, rmEvents, nsEvents, queue, Caches, store>>
    BY <1>10 DEF Refetch, clusterVars, rmInformer, srcVars, nsVars, Caches
  <2>2. ASSUME Underway PROVE Underway'
    <3>1. /\ rm = rmCache[k] /\ Publishable(rm) /\ store[k].spec = rm.spec
          /\ Shows(k, rm.spec, store[k].endpoints, {}, Caches)
      BY <2>1, <2>2 DEF Underway, PC
    <3>2. Publishable(rm)'
      BY <2>1, <3>1 DEF Publishable
    <3> QED
      BY <2>1, <3>1, <3>2 DEF Underway
  <2> QED
    BY <1>w, <2>1, <2>2 DEF Followed
<1>11. CASE StatusUpdate
  <2> DEFINE status == setReadyCondition
             obj == [fresh EXCEPT !.status = status]
  <2>1. pc = "status" /\ Write(fresh, obj, Requeue("safety"))
    BY <1>11 DEF StatusUpdate
  <2>2. /\ status.observed = fresh.gen
        /\ status.discovered = Discovered(store[k].endpoints)
    BY DEF setReadyCondition
  <2>3. status \in RoutemapStatus
    <3>1. fresh.gen \in Nat /\ healthy \in Nat
      BY <2>1 DEF WakeInv, TypeOK, Object
    <3>2. httprouteUnavailable \in BOOLEAN
      BY DEF httprouteUnavailable
    <3> QED
      BY <3>1, <3>2, CountType DEF setReadyCondition, RoutemapStatus
  <2> HIDE DEF status
  <2>4. ASSUME Underway, api'[k] = obj, UNCHANGED <<Caches, rmCache, store>>
        PROVE  Settled(k)'
    <3>1. /\ rm = rmCache[k] /\ Publishable(rm) /\ store[k].spec = rm.spec
          /\ Shows(k, rm.spec, store[k].endpoints, {}, Caches)
          /\ fresh = rm /\ fresh \in Object /\ store[k] # Nil
      BY <1>t, <2>1, <2>4 DEF Underway, PC, WakeInv, TypeOK
    <3>2. obj.status = status
      BY <3>1 DEF Object
    <3>3. ASSUME obj = rm PROVE Accounts(rm, store[k])
      <4>1. rm.status = status /\ status # Nil
        BY <2>3, <3>2, <3>3, NilObjectAssumption
      <4> QED
        BY <2>2, <3>1, <4>1 DEF Accounts
    <3>4. HTTPRouteAvailable' = HTTPRouteAvailable
      BY <2>4, CachesFields
    <3> HIDE DEF obj
    <3> QED
      BY <2>4, <3>1, <3>3, <3>4 DEF Settled, Publishable
  <2> HIDE DEF obj
  <2> QED
    BY <2>1, <2>4, WriteFollowed
<1>12. CASE ResolveError \/ RefetchNotFound \/ Conflict \/ CallFails
  BY <1>12, <1>e DEF ResolveError, RefetchNotFound, Conflict, CallFails
<1> QED
  BY <1>1, <1>2, <1>3, <1>4, <1>5, <1>6, <1>7, <1>8, <1>9, <1>10, <1>11, <1>12
  DEF Reconcile

LEMMA WorkerFollowed ==
    ASSUME WakeInv, NEW k \in Routemap, Woken(k) \/ Followed(k), Reconcile
    PROVE  (Woken(k) \/ Followed(k))'
<1>1. CASE req = k
  BY <1>1, CallFollowed DEF Followed
<1>2. CASE req # k
  <2>t. /\ k # Nil
        /\ api \in [Routemap -> Object \cup {Nil}]
        /\ store \in [Routemap -> RoutemapView \cup {Nil}]
    BY RoutemapAssumption DEF WakeInv, TypeOK, ClusterTypeOK, StoreTypeOK
  <2>1. UNCHANGED <<rmCache, rmEvents, srcCache, srcEvents, nsCache, nsEvents,
                    HTTPRouteAvailable>>
    BY DEF Reconcile, GetNotFound, GetDeleting, GetLive, AddFinalizer, RemoveFinalizer,
           Resolve, ResolveError, List, Merge, Publish, Refetch, RefetchNotFound,
           StatusUpdate, Conflict, CallFails, Write, clusterVars, rmInformer, srcVars,
           nsVars
  <2>2. k # req'
    BY <1>2, <2>t
    DEF Reconcile, GetNotFound, GetDeleting, GetLive, AddFinalizer, RemoveFinalizer,
        Resolve, ResolveError, List, Merge, Publish, Refetch, RefetchNotFound,
        StatusUpdate, Conflict, CallFails, Write, Return, ReturnError, Requeue, NoLocals
  <2>3. store'[k] = store[k]
    BY <1>2, <2>t
    DEF Reconcile, GetNotFound, GetDeleting, GetLive, AddFinalizer, RemoveFinalizer,
        Resolve, ResolveError, List, Merge, Publish, Refetch, RefetchNotFound,
        StatusUpdate, Conflict, CallFails, Write, Set, Delete
  <2>4. api'[k] = api[k]
    BY <1>2, <2>t
    DEF Reconcile, GetNotFound, GetDeleting, GetLive, AddFinalizer, RemoveFinalizer,
        Resolve, ResolveError, List, Merge, Publish, Refetch, RefetchNotFound,
        StatusUpdate, Conflict, CallFails, Write, clusterVars, apiVars
  <2>5. queue'[k] = queue[k]
    <3>1. UNCHANGED queue \/ \E due : Add({req}, due)
      BY DEF Reconcile, GetNotFound, GetDeleting, GetLive, AddFinalizer,
             RemoveFinalizer, Resolve, ResolveError, List, Merge, Publish, Refetch,
             RefetchNotFound, StatusUpdate, Conflict, CallFails, Write, Return,
             ReturnError, Requeue
    <3> QED
      BY <1>2, <3>1 DEF Add
  <2> QED
    BY <1>2, <2>1, <2>2, <2>3, <2>4, <2>5, OthersFollowed
<1> QED
  BY <1>1, <1>2

LEMMA CallsBeginStep == WakeInv /\ [Next]_vars => CallsBegin'
<1> SUFFICES ASSUME WakeInv, [Next]_vars PROVE CallsBegin'
  OBVIOUS
<1>f. ASSUME UNCHANGED <<pc, req, endpoints>> PROVE CallsBegin'
  BY <1>f DEF WakeInv, CallsBegin
<1>n. ASSUME NoLocals PROVE CallsBegin'
  BY <1>n DEF NoLocals, CallsBegin
<1>1. CASE (Users \/ Informers) /\ UNCHANGED reconcilerVars
  BY <1>1, <1>f DEF reconcilerVars, localVars
<1>2. ASSUME NEW k \in Routemap, Dequeue(k) PROVE CallsBegin'
  BY <1>2 DEF Dequeue, WakeInv, CallsBegin
<1>3. CASE Reconcile
  <2>1. CASE GetDeleting \/ GetLive \/ Resolve
    BY <2>1 DEF GetDeleting, GetLive, Resolve, WakeInv, CallsBegin
  <2>2. CASE (\E call \in ListCall : List(call)) \/ Merge \/ Publish \/ Refetch
    BY <2>2 DEF List, Merge, Publish, Refetch, CallsBegin
  <2>3. CASE \/ GetNotFound \/ AddFinalizer \/ RemoveFinalizer \/ ResolveError
             \/ RefetchNotFound \/ StatusUpdate \/ Conflict \/ CallFails
    BY <1>n, <2>3
    DEF GetNotFound, AddFinalizer, RemoveFinalizer, ResolveError, RefetchNotFound,
        StatusUpdate, Conflict, CallFails, Write, Return, ReturnError, Requeue
  <2> QED
    BY <1>3, <2>1, <2>2, <2>3 DEF Reconcile
<1>4. CASE Restart
  BY <1>4, <1>n DEF Restart
<1> QED
  BY <1>1, <1>2, <1>3, <1>4, <1>f
  DEF Next, vars, reconcilerVars, HandleRoutemap, enqueueAffectedRoutemaps,
      enqueueAllRoutemaps, Elapse, ProbeResult, localVars

LEMMA WakeInit == Init => WakeInv
<1> SUFFICES ASSUME Init PROVE WakeInv
  OBVIOUS
<1>1. TypeOK /\ CopiesOld
  BY TypeInit, OrphanInit DEF OrphanInv
<1>2. CallsBegin
  BY DEF Init, CallsBegin
<1>3. ASSUME NEW k \in Routemap PROVE Followed(k)
  BY RoutemapAssumption
  DEF Init, ClusterInit, New, Followed, Settled, Publishable
<1> QED
  BY <1>1, <1>2, <1>3 DEF WakeInv

LEMMA WakeStep ==
    ASSUME ListMayFail = FALSE PROVE WakeInv /\ [Next]_vars => WakeInv'
<1> SUFFICES ASSUME WakeInv, [Next]_vars PROVE WakeInv'
  OBVIOUS
<1>1. TypeOK' /\ CopiesOld' /\ CallsBegin'
  BY TypeStep, CopiesStep, CallsBeginStep DEF WakeInv
<1>2. ASSUME NEW k \in Routemap PROVE (Woken(k) \/ Followed(k))'
  <2>0. Woken(k) \/ Followed(k)
    BY DEF WakeInv
  <2>1. CASE (Users \/ Informers) /\ UNCHANGED reconcilerVars
    BY <2>0, <2>1, OutsideFollowed
  <2>2. CASE \/ \E j \in Routemap : HandleRoutemap(j) \/ Elapse(j)
             \/ \E s \in Source : enqueueAffectedRoutemaps(s)
             \/ enqueueAllRoutemaps
    BY <2>0, <2>2, HandlersFollowed
  <2>3. ASSUME NEW j \in Routemap, Dequeue(j) PROVE (Woken(k) \/ Followed(k))'
    <3>1. CASE k = j
      BY <2>3, <3>1 DEF Dequeue, Followed, Underway
    <3>2. CASE k # j
      <4>1. /\ k # req /\ k # req' /\ queue'[k] = queue[k]
            /\ UNCHANGED <<rmCache, rmEvents, srcCache, srcEvents, nsCache, nsEvents,
                           HTTPRouteAvailable, store, api>>
        BY <2>3, <3>2, RoutemapAssumption
        DEF Dequeue, WakeInv, CallsBegin, TypeOK, clusterVars, apiVars, rmInformer,
            srcVars, nsVars
      <4> QED
        BY <2>0, <4>1, OthersFollowed
    <3> QED
      BY <3>1, <3>2
  <2>4. CASE Reconcile
    BY <2>0, <2>4, WorkerFollowed
  <2>5. CASE Restart
    <3>1. /\ rmCache' = api /\ rmEvents' = {j \in Routemap : api[j] # Nil}
          /\ req' = Nil /\ store'[k] = Nil
      BY <2>5 DEF Restart, Relist, NoLocals
    <3> QED
      BY <3>1, RoutemapAssumption DEF Woken, Followed, Settled, Publishable
  <2>6. ASSUME NEW j \in Routemap, NEW ref \in Refs,
               NEW state \in HealthState \ {"Unknown"}, ProbeResult(j, ref, state)
        PROVE  (Woken(k) \/ Followed(k))'
    <3>1. /\ UNCHANGED <<pc, req, rm, todo, endpoints, fresh, queue, HTTPRouteAvailable>>
          /\ UNCHANGED <<api, rmCache, rmEvents, srcCache, srcEvents, nsCache, nsEvents>>
          /\ store \in [Routemap -> RoutemapView \cup {Nil}] /\ store[j] # Nil
          /\ store' = [store EXCEPT ![j] =
                          [spec      |-> @.spec,
                           endpoints |-> WithHealth(@.endpoints, ref, state)]]
      BY <2>6
      DEF ProbeResult, UpdateEndpointHealth, clusterVars, apiVars, rmInformer, srcVars,
          nsVars, localVars, WakeInv, TypeOK, StoreTypeOK
    <3>2. /\ store[k] = Nil <=> store'[k] = Nil
          /\ store[k] # Nil => /\ store'[k].spec = store[k].spec
                               /\ SamePlaces(store[k].endpoints, store'[k].endpoints)
      <4>1. CASE k # j
        BY <3>1, <4>1, SelfSame
      <4>2. CASE k = j
        <5> DEFINE view == [spec |-> store[j].spec,
                            endpoints |-> WithHealth(store[j].endpoints, ref, state)]
        <5>1. store[j] \in RoutemapView /\ store[j].endpoints \in Endpoints
          BY <3>1 DEF RoutemapView
        <5>2. view \in RoutemapView
          BY <5>1, WithHealthType DEF RoutemapView
        <5>3. view # Nil /\ store'[j] = view
          BY <3>1, <5>2, NilRecordAssumption
        <5>4. SamePlaces(store[j].endpoints, view.endpoints)
          BY <5>1, HealthSame
        <5> QED
          BY <3>1, <4>2, <5>3, <5>4
      <4> QED
        BY <4>1, <4>2
    <3>3. Woken(k) => Woken(k)'
      BY <3>1 DEF Woken
    <3>4. Followed(k) => Followed(k)'
      BY <3>1, <3>2, FollowedStays
    <3> QED
      BY <2>0, <3>3, <3>4
  <2>7. CASE UNCHANGED vars
    <3>1. /\ UNCHANGED <<pc, req, rm, todo, endpoints, fresh, queue, HTTPRouteAvailable>>
          /\ UNCHANGED <<api, rmCache, rmEvents, srcCache, srcEvents, nsCache, nsEvents>>
          /\ UNCHANGED store
      BY <2>7
      DEF vars, reconcilerVars, localVars, clusterVars, apiVars, rmInformer, srcVars,
          nsVars
    <3>2. Woken(k) => Woken(k)'
      BY <3>1 DEF Woken
    <3>3. Followed(k) => Followed(k)'
      BY <3>1, SelfSame, FollowedStays
    <3> QED
      BY <2>0, <3>2, <3>3
  <2> QED
    BY <2>1, <2>2, <2>3, <2>4, <2>5, <2>6, <2>7 DEF Next
<1> QED
  BY <1>1, <1>2 DEF WakeInv

\* When the caches are up to date, what they say is what the objects say.
LEMMA QuietRight ==
    ASSUME WakeInv, NEW k \in Routemap, Quiet(k)
    PROVE  Served(k) /\ Reported(k)
<1>1. /\ rmCache[k] = api[k] /\ srcEvents = {} /\ nsCache = labelled
      /\ \A s \in Source :
            (s.kind = "HTTPRoute" => HTTPRouteAvailable) => srcCache[s] = src[s]
  BY DEF Quiet
<1>2. Settled(k)
  BY DEF Quiet, WakeInv, Woken, Followed
<1>3. CASE api[k] = Nil
  BY <1>1, <1>2, <1>3 DEF Settled, Served, Reported
<1>4. CASE api[k] # Nil
  <2>1. /\ Publishable(api[k]) /\ store[k] # Nil /\ store[k].spec = api[k].spec
        /\ Shows(k, api[k].spec, store[k].endpoints, {}, Caches)
        /\ Accounts(api[k], store[k])
    BY <1>1, <1>2, <1>4 DEF Settled
  <2>2. ASSUME NEW e \in Endpoint
        PROVE  Paths(store[k].endpoints)[e] = Selected(k)[e]
    <3>1. e.source \in Source
      BY EndpointAssumption
    <3>2. Paths(store[k].endpoints)[e] = Expected(k, api[k].spec, e, Caches)
      BY <1>1, <2>1, CachesFields DEF Shows, Unlisted
    <3>3. CASE e.source.kind = "HTTPRoute" /\ ~HTTPRouteAvailable
      BY <3>2, <3>3, CachesFields DEF Expected, Selected, Covers
    <3>4. CASE e.source.kind = "HTTPRoute" => HTTPRouteAvailable
      <4>1. srcCache[e.source] = src[e.source]
        BY <1>1, <3>1, <3>4
      <4> QED
        BY <1>1, <3>2, <4>1, CachesFields DEF Expected, Selected
    <3> QED
      BY <3>3, <3>4
  <2>3. Paths(store[k].endpoints) = Selected(k)
    <3>1. \A e \in Endpoint : Paths(store[k].endpoints)[e] = Selected(k)[e]
      BY <2>2
    <3> QED
      BY <3>1 DEF Paths, Selected
  <2>4. Served(k)
    BY <1>4, <2>1, <2>3 DEF Served, Publishable
  <2> QED
    BY <2>1, <2>4 DEF Reported, Accounts
<1> QED
  BY <1>3, <1>4

(***************************************************************************)
(* No wakeup is lost: whatever stale copies Reconcile has read, whichever  *)
(* calls failed and however often the operator crashed, once no event,     *)
(* retry or call that concerns a Routemap is under way, its view is what   *)
(* its spec selects from the objects there are and its status says so.     *)
(* The Lists of enqueueAffectedRoutemaps and enqueueAllRoutemaps succeed:  *)
(* a handler whose List fails drops its event.                             *)
(***************************************************************************)
THEOREM WakeupsKept ==
    ASSUME ListMayFail = FALSE PROVE Spec => []NoLostWakeup
<1>1. Init => WakeInv
  BY WakeInit
<1>2. WakeInv /\ [Next]_vars => WakeInv'
  BY WakeStep
<1>3. WakeInv => NoLostWakeup
  BY QuietRight DEF NoLostWakeup
<1> QED
  BY <1>1, <1>2, <1>3, PTL DEF Spec

=============================================================================
