----------------------------- MODULE Reconciler -----------------------------
(***************************************************************************)
(* internal/controller: the watch handlers, the work queue between them    *)
(* and the single worker, and Reconcile, one action per access to state    *)
(* that others share (a cache, the store, the API server).                 *)
(*                                                                         *)
(* Reads go to the informer caches and may be stale; writes go to the API  *)
(* server and are refused when the object is not the version read.         *)
(***************************************************************************)
EXTENDS Cluster

CONSTANTS
    ListMayFail,    \* may the List of a watch handler fail
    MaxFaults,      \* bound: failed calls and lost replies
    MaxRestarts,    \* bound: crashes of the operator
    MaxProbes       \* bound: results the health checker writes

ASSUME ReconcilerAssumption ==
    /\ ListMayFail \in BOOLEAN
    /\ MaxFaults \in Nat /\ MaxRestarts \in Nat /\ MaxProbes \in Nat

VARIABLES
    HTTPRouteAvailable,  \* probed once, when the manager is set up
    queue,      \* when the next reconcile of each key is due
    pc,         \* the step of Reconcile the worker is at
    req,        \* the key it reconciles
    rm,         \* the copy of the Routemap it read
    todo,       \* the List calls still to make
    endpoints,  \* the endpoints collected, until they are published
    healthy,    \* countHealthy of the published endpoints
    fresh,      \* the copy of the Routemap read again for the status
    checkable,  \* the keys and refs that probe loops may have come to probe
    faults, restarts, probes

localVars == <<req, rm, todo, endpoints, healthy, fresh>>
envVars == <<checkable, faults, restarts, probes>>
reconcilerVars == <<HTTPRouteAvailable, queue, pc, localVars, envVars, store>>
vars == <<clusterVars, reconcilerVars>>

Due == {"none", "now", "backoff", "safety"}

PC == {"idle", "get", "finalize", "unfinalize", "resolve", "list",
       "merge", "publish", "refetch", "status"}

Refs == {SourceRef(e) : e \in Endpoint}

ListCall == [kind : SourceKind, ns : Namespace \cup {Nil}]

\* Every variable holds a value of the kind its place in the code can hold,
\* and the worker has read what the step it is at needs.
TypeOK ==
    /\ ClusterTypeOK
    /\ StoreTypeOK
    /\ HTTPRouteAvailable \in BOOLEAN
    /\ queue \in [Routemap -> Due]
    /\ pc \in PC
    /\ req \in Routemap \cup {Nil}
    /\ rm \in Object \cup {Nil}
    /\ todo \in SUBSET ListCall
    /\ endpoints \in Endpoints
    /\ healthy \in Nat
    /\ fresh \in Object \cup {Nil}
    /\ checkable \in SUBSET (Routemap \X (Refs \cup {Nil}))
    /\ faults \in Nat /\ restarts \in Nat /\ probes \in Nat
    /\ pc # "idle" => req # Nil
    /\ pc \notin {"idle", "get"} => rm # Nil
    /\ pc = "status" => fresh # Nil
    /\ pc \in {"refetch", "status"} => store[req] # Nil

-----------------------------------------------------------------------------
(***************************************************************************)
(* The work queue holds a key at most once, with the earliest time asked   *)
(* for.  A key that is added while it is being reconciled waits until the  *)
(* worker is done with it.                                                 *)
(***************************************************************************)
Sooner(due, other) ==
    IF "now" \in {due, other} THEN "now"
    ELSE IF "backoff" \in {due, other} THEN "backoff"
    ELSE IF "safety" \in {due, other} THEN "safety"
    ELSE "none"

Add(keys, due) ==
    queue' = [k \in Routemap |->
                IF k \in keys THEN Sooner(due, queue[k]) ELSE queue[k]]

\* A delay of the queue has run out.
Elapse(k) ==
    /\ queue[k] \in {"backoff", "safety"}
    /\ queue' = [queue EXCEPT ![k] = "now"]
    /\ UNCHANGED <<clusterVars, HTTPRouteAvailable, pc, localVars, envVars,
                   store>>

-----------------------------------------------------------------------------
(* Event handlers. *)

HandleRoutemap(k) ==
    /\ k \in rmEvents
    /\ rmEvents' = rmEvents \ {k}
    /\ Add({k}, "now")
    /\ UNCHANGED <<apiVars, rmCache, srcVars, nsVars, crd, changes,
                   HTTPRouteAvailable, pc, localVars, envVars, store>>

Listed == {k \in Routemap : rmCache[k] # Nil}

Affected(ns) ==
    {k \in Listed : namespaceMatchesRoutemap(ns, k.ns, rmCache[k].spec.namespaces)}

\* A handler whose List fails drops the event.
enqueueAffectedRoutemaps(s) ==
    /\ s \in srcEvents
    /\ srcEvents' = srcEvents \ {s}
    /\ \/ Add(Affected(s.ns), "now")
       \/ ListMayFail /\ UNCHANGED queue
    /\ UNCHANGED <<apiVars, rmInformer, src, srcCache, nsVars, crd, changes,
                   HTTPRouteAvailable, pc, localVars, envVars, store>>

enqueueAllRoutemaps ==
    /\ nsEvents
    /\ nsEvents' = FALSE
    /\ \/ Add(Listed, "now")
       \/ ListMayFail /\ UNCHANGED queue
    /\ UNCHANGED <<apiVars, rmInformer, srcVars, labelled, nsCache, crd, changes,
                   HTTPRouteAvailable, pc, localVars, envVars, store>>

-----------------------------------------------------------------------------
(* Reconcile. *)

\* The locals of a finished call.
NoLocals ==
    /\ pc' = "idle"
    /\ req' = Nil
    /\ rm' = Nil
    /\ todo' = {}
    /\ endpoints' = NoEndpoints
    /\ healthy' = 0
    /\ fresh' = Nil

Requeue(due) == NoLocals /\ Add({req}, due)

\* return ctrl.Result{}, nil
Return == NoLocals /\ UNCHANGED queue

\* return ctrl.Result{}, err
ReturnError == Requeue("backoff")

Dequeue(k) ==
    /\ pc = "idle"
    /\ queue[k] = "now"
    /\ queue' = [queue EXCEPT ![k] = "none"]
    /\ pc' = "get"
    /\ req' = k
    /\ UNCHANGED <<clusterVars, HTTPRouteAvailable, rm, todo, endpoints, healthy,
                   fresh, envVars, store>>

\* Mutant: a Routemap that is gone is left in the store.
GetNotFoundKeeping ==
    /\ pc = "get"
    /\ rmCache[req] = Nil
    /\ Return
    /\ UNCHANGED <<clusterVars, HTTPRouteAvailable, envVars, store>>

GetNotFound ==
    /\ pc = "get"
    /\ rmCache[req] = Nil
    /\ Delete(req)
    /\ Return
    /\ UNCHANGED <<clusterVars, HTTPRouteAvailable, envVars>>

\* handleDeletion up to its Update.
GetDeleting ==
    /\ pc = "get"
    /\ rmCache[req] # Nil
    /\ rmCache[req].deleting
    /\ Delete(req)
    /\ rm' = rmCache[req]
    /\ pc' = "unfinalize"
    /\ UNCHANGED <<clusterVars, HTTPRouteAvailable, queue, req, todo, endpoints,
                   healthy, fresh, envVars>>

\* Mutant: the finalizer is never added.
GetLiveUnfinalized ==
    /\ pc = "get"
    /\ rmCache[req] # Nil
    /\ ~rmCache[req].deleting
    /\ rm' = rmCache[req]
    /\ pc' = "resolve"
    /\ UNCHANGED <<clusterVars, HTTPRouteAvailable, queue, req, todo, endpoints,
                   healthy, fresh, envVars, store>>

GetLive ==
    /\ pc = "get"
    /\ rmCache[req] # Nil
    /\ ~rmCache[req].deleting
    /\ rm' = rmCache[req]
    /\ pc' = IF rm'.finalizer THEN "resolve" ELSE "finalize"
    /\ UNCHANGED <<clusterVars, HTTPRouteAvailable, queue, req, todo, endpoints,
                   healthy, fresh, envVars, store>>

(***************************************************************************)
(* A write of obj over the version read.  Its reply may be lost: the       *)
(* object is written and the caller sees an error.                         *)
(***************************************************************************)
Write(read, obj, Continue) ==
    /\ api[req] = read
    /\ api' = [api EXCEPT ![req] = obj]
    /\ \/ Continue /\ UNCHANGED faults
       \/ /\ faults < MaxFaults
          /\ faults' = faults + 1
          /\ ReturnError
    /\ UNCHANGED <<created, removals, rmInformer, srcVars, nsVars, crd, changes,
                   HTTPRouteAvailable, checkable, restarts, probes, store>>

AddFinalizer ==
    /\ pc = "finalize"
    /\ Write(rm, [rm EXCEPT !.finalizer = TRUE], Return)

\* The API server removes a marked object with its last finalizer; a marked
\* object that has no finalizer left does not exist.
RemoveFinalizer ==
    /\ pc = "unfinalize"
    /\ Write(rm, Nil, Return)

Resolve ==
    /\ pc = "resolve"
    /\ ~SelectorError(rm.spec.namespaces)
    /\ todo' = ListCalls(rm.spec, req.ns, nsCache, HTTPRouteAvailable)
    /\ pc' = IF todo' = {} THEN "merge" ELSE "list"
    /\ UNCHANGED <<clusterVars, HTTPRouteAvailable, queue, req, rm, endpoints,
                   healthy, fresh, envVars, store>>

ResolveError ==
    /\ pc = "resolve"
    /\ SelectorError(rm.spec.namespaces)
    /\ ReturnError
    /\ UNCHANGED <<clusterVars, HTTPRouteAvailable, envVars, store>>

\* The endpoints a List call adds: a health path iff the object carries the key.
Collect(call, key, eps) ==
    [e \in Endpoint |->
        IF Lists(call, e.source) /\ srcCache[e.source] # Nil
        THEN [path |-> key \in srcCache[e.source], health |-> "Unknown"]
        ELSE eps[e]]

\* One List of collectIngresses or of collectHTTPRoutes, which comes second.
List(call) ==
    /\ pc = "list"
    /\ call \in todo
    /\ call.kind = "HTTPRoute" => \A other \in todo : other.kind = "HTTPRoute"
    /\ todo' = todo \ {call}
    /\ endpoints' =
         Collect(call, defaultAnnotationKey(rm.spec.healthCheck), endpoints)
    /\ pc' = IF todo' = {} THEN "merge" ELSE "list"
    /\ UNCHANGED <<clusterVars, HTTPRouteAvailable, queue, req, rm, healthy, fresh,
                   envVars, store>>

Merge ==
    /\ pc = "merge"
    /\ endpoints' = mergeHealth(req, endpoints)
    /\ pc' = "publish"
    /\ UNCHANGED <<clusterVars, HTTPRouteAvailable, queue, req, rm, todo, healthy,
                   fresh, envVars, store>>

(***************************************************************************)
(* The refs that a probe loop of the Routemap may come to probe when the   *)
(* view is published.  A loop is started on an enabled view only (Nil      *)
(* marks that there was one), and then goes by the paths of whatever view  *)
(* it finds, until sync stops it.                                          *)
(***************************************************************************)
Checkable(k, view) ==
    LET hc     == view.spec.healthCheck
        probed == {e \in Endpoint : view.endpoints[e] # Nil /\ view.endpoints[e].path}
    IN  IF (hc # Nil /\ hc.enabled) \/ <<k, Nil>> \in checkable
        THEN {k} \X ({SourceRef(e) : e \in probed} \cup {Nil})
        ELSE {}

\* Mutant: an empty inventory is not published.
PublishNonEmpty ==
    /\ pc = "publish"
    /\ LET view == [spec |-> rm.spec, endpoints |-> endpoints]
       IN  /\ IF endpoints = NoEndpoints THEN UNCHANGED store ELSE Set(req, view)
           /\ checkable' = checkable \cup Checkable(req, view)
    /\ endpoints' = NoEndpoints
    /\ pc' = "refetch"
    /\ UNCHANGED <<clusterVars, HTTPRouteAvailable, queue, req, rm, todo, healthy,
                   fresh, faults, restarts, probes>>

\* From here on the worker's slice is the one in the store.
Publish ==
    /\ pc = "publish"
    /\ LET view == [spec |-> rm.spec, endpoints |-> endpoints]
       IN  /\ Set(req, view)
           /\ checkable' = checkable \cup Checkable(req, view)
    /\ endpoints' = NoEndpoints
    /\ pc' = "refetch"
    /\ UNCHANGED <<clusterVars, HTTPRouteAvailable, queue, req, rm, todo, healthy,
                   fresh, faults, restarts, probes>>

Refetch ==
    /\ pc = "refetch"
    /\ rmCache[req] # Nil
    /\ healthy' = countHealthy(store[req].endpoints)
    /\ fresh' = rmCache[req]
    /\ pc' = "status"
    /\ UNCHANGED <<clusterVars, HTTPRouteAvailable, queue, req, rm, todo, endpoints,
                   envVars, store>>

RefetchNotFound ==
    /\ pc = "refetch"
    /\ rmCache[req] = Nil
    /\ ReturnError
    /\ UNCHANGED <<clusterVars, HTTPRouteAvailable, envVars, store>>

httprouteUnavailable ==
    "HTTPRoute" \in effectiveSources(rm.spec.sources) /\ ~HTTPRouteAvailable

setReadyCondition ==
    [observed   |-> fresh.gen,
     discovered |-> Discovered(store[req].endpoints),
     healthy    |-> healthy,
     ready      |-> ~httprouteUnavailable,
     degraded   |-> httprouteUnavailable]

\* Mutant: Reconcile returns without RequeueAfter.
StatusUpdateNoRequeue ==
    /\ pc = "status"
    /\ Write(fresh, [fresh EXCEPT !.status = setReadyCondition], Return)

StatusUpdate ==
    /\ pc = "status"
    /\ Write(fresh, [fresh EXCEPT !.status = setReadyCondition],
             Requeue("safety"))

\* A write over a version that is no longer the current one.
Conflict ==
    /\ pc \in {"finalize", "unfinalize", "status"}
    /\ api[req] # IF pc = "status" THEN fresh ELSE rm
    /\ ReturnError
    /\ UNCHANGED <<clusterVars, HTTPRouteAvailable, envVars, store>>

\* Mutant: any error of the first Get is taken for NotFound.
CallFailsForgetting ==
    /\ faults < MaxFaults
    /\ pc = "get"
    /\ faults' = faults + 1
    /\ Delete(req)
    /\ Return
    /\ UNCHANGED <<clusterVars, HTTPRouteAvailable, checkable, restarts, probes>>

\* Any call to a cache or to the API server may fail; Reconcile returns.
CallFails ==
    /\ faults < MaxFaults
    /\ pc \in {"get", "finalize", "unfinalize", "resolve", "list", "refetch",
               "status"}
    /\ pc = "resolve" => ListsNamespaces(rm.spec.namespaces)
    /\ faults' = faults + 1
    /\ ReturnError
    /\ UNCHANGED <<clusterVars, HTTPRouteAvailable, checkable, restarts, probes,
                   store>>

Reconcile ==
    \/ GetNotFound \/ GetDeleting \/ GetLive
    \/ AddFinalizer \/ RemoveFinalizer
    \/ Resolve \/ ResolveError
    \/ \E call \in ListCall : List(call)
    \/ Merge \/ Publish
    \/ Refetch \/ RefetchNotFound
    \/ StatusUpdate
    \/ Conflict \/ CallFails

-----------------------------------------------------------------------------
(* The rest of the process. *)

(***************************************************************************)
(* The operator crashes, or another replica takes the lead: a process with *)
(* an empty store and an empty queue starts, SetupWithManager probes for   *)
(* the CRD, and the informers list.                                        *)
(***************************************************************************)
Restart ==
    /\ restarts < MaxRestarts
    /\ restarts' = restarts + 1
    /\ store' = [k \in Routemap |-> Nil]
    /\ queue' = [k \in Routemap |-> "none"]
    /\ HTTPRouteAvailable' = crd
    /\ Relist(crd)
    /\ NoLocals
    /\ checkable' = {}
    /\ UNCHANGED <<faults, probes>>

(***************************************************************************)
(* The health checker writes a probe result, however late: a loop that is  *)
(* being stopped, or that is on an earlier view, may still write one.      *)
(***************************************************************************)
ProbeResult(k, ref, state) ==
    /\ probes < MaxProbes
    /\ <<k, ref>> \in checkable
    /\ store[k] # Nil
    /\ OfRef(store[k].endpoints, ref) # {}
    /\ UpdateEndpointHealth(k, ref, state)
    /\ probes' = probes + 1
    /\ UNCHANGED <<clusterVars, HTTPRouteAvailable, queue, pc, localVars, checkable,
                   faults, restarts>>

Informers ==
    \/ \E k \in Routemap : SyncRoutemap(k)
    \/ \E s \in Source :
          (s.kind = "HTTPRoute" => HTTPRouteAvailable) /\ SyncSource(s)
    \/ \E n \in Namespace : SyncNamespace(n)

Init ==
    /\ ClusterInit
    /\ New
    /\ HTTPRouteAvailable = crd
    /\ queue = [k \in Routemap |-> "none"]
    /\ pc = "idle"
    /\ req = Nil
    /\ rm = Nil
    /\ todo = {}
    /\ endpoints = NoEndpoints
    /\ healthy = 0
    /\ fresh = Nil
    /\ checkable = {}
    /\ faults = 0
    /\ restarts = 0
    /\ probes = 0

Next ==
    \/ (Users \/ Informers) /\ UNCHANGED reconcilerVars
    \/ \E k \in Routemap : HandleRoutemap(k)
    \/ \E s \in Source : enqueueAffectedRoutemaps(s)
    \/ enqueueAllRoutemaps
    \/ \E k \in Routemap : Elapse(k) \/ Dequeue(k)
    \/ Reconcile
    \/ Restart
    \/ \E k \in Routemap, ref \in Refs, state \in HealthState \ {"Unknown"} :
          ProbeResult(k, ref, state)

Spec == Init /\ [][Next]_vars

(***************************************************************************)
(* Informers deliver, handlers run, delays run out, and the worker goes on *)
(* with the call it is in.  The queue hands out every key that is due in   *)
(* its turn, however busy the worker is with the others.                   *)
(***************************************************************************)
Fairness ==
    /\ \A k \in Routemap :
          /\ WF_vars(SyncRoutemap(k) /\ UNCHANGED reconcilerVars)
          /\ WF_vars(HandleRoutemap(k))
          /\ WF_vars(Elapse(k))
          /\ SF_vars(Dequeue(k))
    /\ \A s \in Source :
          /\ WF_vars(/\ s.kind = "HTTPRoute" => HTTPRouteAvailable
                     /\ SyncSource(s)
                     /\ UNCHANGED reconcilerVars)
          /\ WF_vars(enqueueAffectedRoutemaps(s))
    /\ \A n \in Namespace : WF_vars(SyncNamespace(n) /\ UNCHANGED reconcilerVars)
    /\ WF_vars(enqueueAllRoutemaps)
    /\ WF_vars(Reconcile)

FairSpec == Spec /\ Fairness

-----------------------------------------------------------------------------
(* Safety. *)

(***************************************************************************)
(* A view is served only for a Routemap that exists and still holds the    *)
(* operator's finalizer: Reconcile adds the finalizer before it publishes, *)
(* and handleDeletion removes the view before the finalizer, so deleting a *)
(* Routemap never leaves its view behind, whatever stale copy of it the    *)
(* worker reads and wherever a call fails or the process crashes.  Only a  *)
(* user who empties the finalizers by hand can bring that about.           *)
(***************************************************************************)
Held(k) == api[k] # Nil /\ api[k].finalizer

NoOrphanView ==
    removals = 0 => \A k \in Routemap : store[k] # Nil => Held(k)

\* The worker has a copy of the Routemap of k that it goes on to publish.
Building(k) == req = k /\ pc \in {"resolve", "list", "merge", "publish"}

\* Reconcile goes by the deletion of the Routemap of k from now on.
Closing(k) == rmCache[k] # Nil /\ rmCache[k].deleting /\ ~Building(k)

Views == INSTANCE Lifecycle
    WITH held    <- {k \in Routemap : Held(k)},
         closing <- {k \in Routemap : Closing(k)},
         served  <- {k \in Routemap : store[k] # Nil},
         crashes <- restarts,
         forced  <- removals > 0

(***************************************************************************)
(* The reconciler implements the life of a view that Lifecycle describes:  *)
(* handleDeletion and the finalizer order every publication, withdrawal    *)
(* and release, and a view that was withdrawn for a deletion does not come *)
(* back through a stale copy.                                              *)
(***************************************************************************)
ViewsLiveAndDie == Views!Spec

(***************************************************************************)
(* The endpoints of one source ref agree on their health.  mergeHealth     *)
(* keeps one state for a ref and UpdateEndpointHealth writes all of its    *)
(* endpoints; were they to differ, what a reconcile keeps would depend on  *)
(* the order of the slice.                                                 *)
(***************************************************************************)
Uniform(eps) ==
    \A e1, e2 \in Endpoint :
        /\ eps[e1] # Nil /\ eps[e2] # Nil
        /\ SourceRef(e1) = SourceRef(e2)
        => eps[e1].health = eps[e2].health

UniformHealth ==
    \A k \in Routemap : store[k] # Nil => Uniform(store[k].endpoints)

\* The health paths of the endpoints in a slice.
Paths(eps) ==
    [e \in Endpoint |-> IF eps[e] = Nil THEN Nil ELSE eps[e].path]

\* The endpoints the Routemap selects from the objects there are now.
Selected(k) ==
    [e \in Endpoint |->
        IF /\ src[e.source] # Nil
           /\ Covers(api[k].spec, k.ns, labelled, HTTPRouteAvailable, e.source)
        THEN defaultAnnotationKey(api[k].spec.healthCheck) \in src[e.source]
        ELSE Nil]

Served(k) ==
    IF api[k] = Nil
    THEN store[k] = Nil
    ELSE /\ api[k].finalizer /\ ~api[k].deleting
         /\ store[k] # Nil
         /\ store[k].spec = api[k].spec
         /\ Paths(store[k].endpoints) = Selected(k)

Reported(k) ==
    api[k] # Nil =>
        /\ api[k].status # Nil
        /\ api[k].status.observed = api[k].gen
        /\ api[k].status.discovered = Discovered(store[k].endpoints)

\* Only the safety requeue would make the operator look at k again.
Quiet(k) ==
    /\ rmCache[k] = api[k] /\ k \notin rmEvents
    /\ \A s \in Source :
          (s.kind = "HTTPRoute" => HTTPRouteAvailable) => srcCache[s] = src[s]
    /\ srcEvents = {}
    /\ nsCache = labelled /\ ~nsEvents
    /\ queue[k] \in {"none", "safety"}
    /\ req # k

(***************************************************************************)
(* No wakeup is lost: when no event, retry or call concerning a Routemap   *)
(* is under way, its view is what its spec selects from the objects there  *)
(* are, its status reports that view, and a removed Routemap has no view.  *)
(* It does not take the 5 minute requeue of Reconcile, as long as the List *)
(* of the watch handlers succeeds.                                         *)
(***************************************************************************)
NoLostWakeup == \A k \in Routemap : Quiet(k) => Served(k) /\ Reported(k)

(***************************************************************************)
(* When nothing but a timed retry is left to do for a Routemap and its     *)
(* observedGeneration is its generation, it is served with its current     *)
(* spec (RoutemapStatus: "ObservedGeneration is the .metadata.generation   *)
(* last reconciled").                                                      *)
(***************************************************************************)
ObservedMeansServed ==
    \A k \in Routemap :
        /\ rmCache[k] = api[k] /\ k \notin rmEvents
        /\ req # k /\ queue[k] # "now"
        /\ store[k] # Nil /\ api[k] # Nil
        /\ api[k].status # Nil
        /\ api[k].status.observed = api[k].gen
        => store[k].spec = api[k].spec

-----------------------------------------------------------------------------
(* Liveness. *)

\* The spec is one ResolveNamespaces refuses: the operator retries for ever.
Refused(k) ==
    api[k] # Nil /\ ~api[k].deleting /\ SelectorError(api[k].spec.namespaces)

HealthReported(k) ==
    api[k] # Nil =>
        api[k].status.healthy = countHealthy(store[k].endpoints)

(***************************************************************************)
(* Once users, faults and probes leave it alone, every Routemap whose spec *)
(* can be resolved comes to be served and reported, the healthy count      *)
(* included, and stays so.  Probe results raise no event, and a handler    *)
(* whose List fails drops one: both are made good by the 5 minute requeue. *)
(***************************************************************************)
EventuallySettled ==
    \A k \in Routemap :
        <>[](Refused(k) \/ (Served(k) /\ Reported(k) /\ HealthReported(k)))
=============================================================================
