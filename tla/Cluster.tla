------------------------------ MODULE Cluster ------------------------------
(***************************************************************************)
(* The Kubernetes side: the objects on the API server, what users do to    *)
(* them, and the operator's informer caches.  None of it is code of this   *)
(* repository; it is modelled from how the reconciler uses it.             *)
(*                                                                         *)
(* An informer copies an object into its cache and only then delivers the  *)
(* event to the handler.  A copy may lag behind the object by any number   *)
(* of changes and then jumps to the current one.                           *)
(***************************************************************************)
EXTENDS Store

CONSTANTS
    SpecChoice,      \* the specs users write
    SourceContent,   \* the annotation sets users put on an Ingress, HTTPRoute
    MaxUid,          \* bound: how often a Routemap is created under one key
    MaxGen,          \* bound: generations of one Routemap object
    MaxChanges,      \* bound: changes to sources, labels and the CRD
    MaxRemovals      \* bound: marked Routemaps users remove by hand

ASSUME SpecChoiceAssumption == SpecChoice \subseteq RoutemapSpec
ASSUME SourceContentAssumption ==
    SourceContent \subseteq SUBSET AnnotationKey /\ Nil \notin SourceContent
ASSUME BoundAssumption ==
    /\ MaxUid \in Nat /\ MaxGen \in Nat
    /\ MaxChanges \in Nat /\ MaxRemovals \in Nat

VARIABLES
    api,        \* the Routemap under each key, or Nil
    rmCache,    \* the informer's copy of it
    rmEvents,   \* keys of Routemaps with an undelivered event
    src,        \* annotation set of each Ingress and HTTPRoute, Nil if absent
    srcCache,   \* the informers' copy of it
    srcEvents,  \* objects with an undelivered event
    labelled,   \* the namespaces the label selector matches
    nsCache,    \* the informer's copy of it
    nsEvents,   \* an event of some namespace is undelivered
    crd,        \* the HTTPRoute CRD is installed
    created,    \* how many Routemaps were created under each key
    changes,    \* how many source, label and CRD changes there were
    removals    \* how many marked Routemaps were removed by hand

apiVars == <<api, created, removals>>
rmInformer == <<rmCache, rmEvents>>
srcVars == <<src, srcCache, srcEvents>>
nsVars == <<labelled, nsCache, nsEvents>>
clusterVars ==
    <<apiVars, rmInformer, srcVars, nsVars, crd, changes>>

-----------------------------------------------------------------------------
(***************************************************************************)
(* .status: ready is the Ready condition; degraded says that the Degraded  *)
(* condition is present, and then it is True.  Nil before the first write. *)
(***************************************************************************)
RoutemapStatus ==
    [observed : Nat, discovered : Nat, healthy : Nat,
     ready : BOOLEAN, degraded : BOOLEAN]

(***************************************************************************)
(* uid tells apart objects created one after the other under one key.      *)
(* There is no resource version: two copies of an object with the same     *)
(* fields are the same version, because each spec change raises gen, the   *)
(* finalizer is added once, and only the reconciler writes the status,     *)
(* over the version it read.                                               *)
(***************************************************************************)
Object ==
    [uid : Nat, gen : Nat, spec : RoutemapSpec, deleting : BOOLEAN,
     finalizer : BOOLEAN, status : RoutemapStatus \cup {Nil}]

ASSUME NilObjectAssumption == Nil \notin Object \cup RoutemapStatus

SourceState == SourceContent \cup {Nil}

ClusterTypeOK ==
    /\ api \in [Routemap -> Object \cup {Nil}]
    /\ rmCache \in [Routemap -> Object \cup {Nil}]
    /\ rmEvents \in SUBSET Routemap
    /\ src \in [Source -> SourceState]
    /\ srcCache \in [Source -> SourceState]
    /\ srcEvents \in SUBSET Source
    /\ labelled \in SUBSET Namespace
    /\ nsCache \in SUBSET Namespace
    /\ nsEvents \in BOOLEAN
    /\ crd \in BOOLEAN
    /\ created \in [Routemap -> Nat]
    /\ changes \in Nat
    /\ removals \in Nat

\* The operator starts on a cluster with no Routemap and any sources.
ClusterInit ==
    /\ api = [k \in Routemap |-> Nil]
    /\ rmCache = api
    /\ rmEvents = {}
    /\ crd \in BOOLEAN
    /\ src \in [Source -> SourceState]
    /\ \A s \in Source : s.kind = "HTTPRoute" /\ ~crd => src[s] = Nil
    /\ srcCache = src
    /\ srcEvents = {}
    /\ labelled \in SUBSET Namespace
    /\ nsCache = labelled
    /\ nsEvents = FALSE
    /\ created = [k \in Routemap |-> 0]
    /\ changes = 0
    /\ removals = 0

-----------------------------------------------------------------------------
(* Users of the API server. *)

CreateRoutemap(k, spec) ==
    /\ api[k] = Nil
    /\ created[k] < MaxUid
    /\ created' = [created EXCEPT ![k] = @ + 1]
    /\ api' = [api EXCEPT ![k] =
                 [uid |-> created[k] + 1, gen |-> 1, spec |-> spec,
                  deleting |-> FALSE, finalizer |-> FALSE, status |-> Nil]]
    /\ UNCHANGED <<removals, rmInformer, srcVars, nsVars, crd, changes>>

EditSpec(k, spec) ==
    /\ api[k] # Nil
    /\ spec # api[k].spec
    /\ api[k].gen < MaxGen
    /\ api' = [api EXCEPT ![k] =
                 [api[k] EXCEPT !.spec = spec, !.gen = api[k].gen + 1]]
    /\ UNCHANGED <<created, removals, rmInformer, srcVars, nsVars, crd, changes>>

\* An object with a finalizer is only marked; marking raises its generation.
DeleteRoutemap(k) ==
    /\ api[k] # Nil
    /\ ~api[k].deleting
    /\ api' = [api EXCEPT ![k] =
                 IF api[k].finalizer
                 THEN [api[k] EXCEPT !.deleting = TRUE, !.gen = api[k].gen + 1]
                 ELSE Nil]
    /\ UNCHANGED <<created, removals, rmInformer, srcVars, nsVars, crd, changes>>

\* A user empties the finalizer list of a marked object, which removes it.
ForceRemove(k) ==
    /\ removals < MaxRemovals
    /\ api[k] # Nil
    /\ api[k].deleting
    /\ removals' = removals + 1
    /\ api' = [api EXCEPT ![k] = Nil]
    /\ UNCHANGED <<created, rmInformer, srcVars, nsVars, crd, changes>>

ChangeSource(s, content) ==
    /\ changes < MaxChanges
    /\ content # src[s]
    /\ s.kind = "HTTPRoute" => crd
    /\ src' = [src EXCEPT ![s] = content]
    /\ changes' = changes + 1
    /\ UNCHANGED <<apiVars, rmInformer, srcCache, srcEvents, nsVars, crd>>

RelabelNamespace(n) ==
    /\ changes < MaxChanges
    /\ labelled' = IF n \in labelled THEN labelled \ {n} ELSE labelled \cup {n}
    /\ changes' = changes + 1
    /\ UNCHANGED <<apiVars, rmInformer, srcVars, nsCache, nsEvents, crd>>

InstallCRD ==
    /\ changes < MaxChanges
    /\ ~crd
    /\ crd' = TRUE
    /\ changes' = changes + 1
    /\ UNCHANGED <<apiVars, rmInformer, srcVars, nsVars>>

Users ==
    \/ \E k \in Routemap, spec \in SpecChoice : CreateRoutemap(k, spec)
    \/ \E k \in Routemap, spec \in SpecChoice : EditSpec(k, spec)
    \/ \E k \in Routemap : DeleteRoutemap(k)
    \/ \E k \in Routemap : ForceRemove(k)
    \/ \E s \in Source, content \in SourceState : ChangeSource(s, content)
    \/ \E n \in Namespace : RelabelNamespace(n)
    \/ InstallCRD

-----------------------------------------------------------------------------
(* The operator's informers. *)

SyncRoutemap(k) ==
    /\ rmCache[k] # api[k]
    /\ rmCache' = [rmCache EXCEPT ![k] = api[k]]
    /\ rmEvents' = rmEvents \cup {k}
    /\ UNCHANGED <<apiVars, srcVars, nsVars, crd, changes>>

SyncSource(s) ==
    /\ srcCache[s] # src[s]
    /\ srcCache' = [srcCache EXCEPT ![s] = src[s]]
    /\ srcEvents' = srcEvents \cup {s}
    /\ UNCHANGED <<apiVars, rmInformer, src, nsVars, crd, changes>>

SyncNamespace(n) ==
    /\ (n \in nsCache) # (n \in labelled)
    /\ nsCache' = IF n \in labelled THEN nsCache \cup {n} ELSE nsCache \ {n}
    /\ nsEvents' = TRUE
    /\ UNCHANGED <<apiVars, rmInformer, srcVars, labelled, crd, changes>>

\* A new process lists everything and gets an event for every object it finds.
Relist(available) ==
    /\ rmCache' = api
    /\ rmEvents' = {k \in Routemap : api[k] # Nil}
    /\ srcCache' = src
    /\ srcEvents' = {s \in Source :
                        src[s] # Nil /\ (s.kind = "HTTPRoute" => available)}
    /\ nsCache' = labelled
    /\ nsEvents' = TRUE
    /\ UNCHANGED <<apiVars, src, labelled, crd, changes>>
=============================================================================
