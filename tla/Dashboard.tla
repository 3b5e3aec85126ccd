----------------------------- MODULE Dashboard -----------------------------
(***************************************************************************)
(* internal/dashboard/server.go, and what the other users of the store do  *)
(* to the memory it reads.  Store.Get copies a RoutemapView, but not the   *)
(* array behind its Endpoints: UpdateEndpointHealth writes into that array *)
(* under the mutex, and handlers and mergeHealth walk it without.          *)
(*                                                                         *)
(* A health state is a string, a pointer and a length, written one after   *)
(* the other.  A read in between gives the old state, the new one or, when *)
(* they differ in length, a text that is none of them.                     *)
(***************************************************************************)
EXTENDS Naturals, Sequences

CONSTANTS
    Routemap,       \* keys of Routemaps
    Ref,            \* source refs
    Request,        \* the goroutines of concurrent HTTP requests
    Collected,      \* what a reconcile may collect: title, auth, whether the
                    \* health check is on, refs, and the refs of which some
                    \* endpoint has a HealthPath
    OIDC,           \* is Server.OIDC set
    MaxPublishes,   \* bound: views published
    Nil

ASSUME DashboardAssumption ==
    /\ Nil \notin Routemap /\ Nil \notin Ref /\ Nil \notin Nat
    /\ \A c \in Collected :
          /\ c.auth \in BOOLEAN /\ c.checked \in BOOLEAN
          /\ c.refs \in Seq(Ref) /\ c.paths \subseteq Ref
    /\ OIDC \in BOOLEAN
    /\ MaxPublishes \in Nat

VARIABLES
    heap,     \* the views published so far, each with its array of endpoints
    views,    \* Store.data: which of them each Routemap has, Nil for none
    writer,   \* UpdateEndpointHealth in its critical section, or Nil
    loop,     \* the probe loop of each Routemap
    worker,   \* the reconciler in mergeHealth, or Nil
    request   \* the state of each request

vars == <<heap, views, writer, loop, worker, request>>

-----------------------------------------------------------------------------
HealthState == {"Unknown", "Healthy", "Unhealthy"}
Shown == HealthState \cup {"Torn"}

Cell == [ref : Ref, health : Shown]

Length(state) == IF state = "Unhealthy" THEN 9 ELSE 7

\* UpdateEndpointHealth about to write to the endpoint at an index of a view.
WriterState == [view : Nat, ref : Ref, state : HealthState, at : Nat]

ASSUME NilWriterAssumption == Nil \notin WriterState

\* A loop that found its Routemap gone has returned and left its entry.
LoopState == {"none", "running", "returned"}

IdleRequest ==
    [pc |-> "idle", key |-> Nil, view |-> Nil, valid |-> FALSE,
     title |-> Nil, list |-> <<>>]

\* A step that needs the mutex of the store waits for the writer.
Unlocked == writer = Nil

\* The data are of their kinds, and a request that renders has a view.
TypeOK ==
    /\ Len(heap) <= MaxPublishes
    /\ \A v \in DOMAIN heap : heap[v].cells \in Seq(Cell)
    /\ views \in [Routemap -> DOMAIN heap \cup {Nil}]
    /\ writer \in WriterState \cup {Nil}
    /\ loop \in [Routemap -> LoopState]
    /\ \A r \in Request :
          request[r].pc \in {"validate", "render", "done"}
             => request[r].view \in DOMAIN heap

Init ==
    /\ heap = <<>>
    /\ views = [k \in Routemap |-> Nil]
    /\ writer = Nil
    /\ loop = [k \in Routemap |-> "none"]
    /\ worker = Nil
    /\ request = [r \in Request |-> IdleRequest]

-----------------------------------------------------------------------------
(* UpdateEndpointHealth, called by a probe loop. *)

\* The first endpoint of the ref from index i on.
Next1(cells, ref, i) ==
    LET same == {j \in i..Len(cells) : cells[j].ref = ref}
    IN  IF same = {} THEN Len(cells) + 1
                     ELSE CHOOSE j \in same : \A other \in same : j <= other

\* A missing key or ref changes nothing.
UpdateLock(k, ref, state) ==
    /\ Unlocked
    /\ views[k] # Nil
    /\ LET first == Next1(heap[views[k]].cells, ref, 1)
       IN  /\ first <= Len(heap[views[k]].cells)
           /\ writer' = [view |-> views[k], ref |-> ref, state |-> state, at |-> first]
    /\ UNCHANGED <<heap, views, loop, worker, request>>

\* Mutant: only a state that is still unknown is replaced.
UpdateUnknown ==
    /\ ~Unlocked
    /\ LET v     == writer.view
           i     == writer.at
           later == Next1(heap[v].cells, writer.ref, i + 1)
       IN  /\ heap' = [heap EXCEPT ![v].cells[i].health =
                          IF @ = "Unknown" THEN writer.state ELSE @]
           /\ writer' = IF later > Len(heap[v].cells)
                        THEN Nil ELSE [writer EXCEPT !.at = later]
    /\ UNCHANGED <<views, loop, worker, request>>

\* Mutant: a break after the first endpoint of the ref.
UpdateFirst ==
    /\ ~Unlocked
    /\ heap' = [heap EXCEPT ![writer.view].cells[writer.at].health = writer.state]
    /\ writer' = Nil
    /\ UNCHANGED <<views, loop, worker, request>>

\* The write to one endpoint is complete; the mutex is freed after the last.
UpdateCell ==
    /\ ~Unlocked
    /\ LET v     == writer.view
           i     == writer.at
           later == Next1(heap[v].cells, writer.ref, i + 1)
       IN  /\ heap' = [heap EXCEPT ![v].cells[i].health = writer.state]
           /\ writer' = IF later > Len(heap[v].cells)
                        THEN Nil ELSE [writer EXCEPT !.at = later]
    /\ UNCHANGED <<views, loop, worker, request>>

-----------------------------------------------------------------------------
(* The probe loops, whose steps HealthChecker has one by one. *)

PublishedFor(k) == {v \in DOMAIN heap : heap[v].key = k}

(***************************************************************************)
(* A loop, or one that was cancelled in a pass, writes its result for an   *)
(* endpoint with a HealthPath of the view it holds, which may be one that  *)
(* was published before the view in the store.                             *)
(***************************************************************************)
Probe(k, ref) ==
    /\ \E v \in PublishedFor(k) : heap[v].checked
    /\ \E v \in PublishedFor(k) : ref \in heap[v].paths
    /\ \E state \in {"Healthy", "Unhealthy"} : UpdateLock(k, ref, state)

CheckOn(k) == views[k] # Nil /\ heap[views[k]].checked

\* One key of a sync: stopLoop, or ensureLoop, which goes by the entry alone.
sync(k) ==
    /\ Unlocked
    /\ loop' = [loop EXCEPT ![k] = IF ~CheckOn(k) THEN "none"
                                   ELSE IF @ = "none" THEN "running" ELSE @]
    /\ UNCHANGED <<heap, views, writer, worker, request>>

\* A tick finds the Routemap gone.
LoopReturns(k) ==
    /\ Unlocked
    /\ loop[k] = "running"
    /\ views[k] = Nil
    /\ loop' = [loop EXCEPT ![k] = "returned"]
    /\ UNCHANGED <<heap, views, writer, worker, request>>

-----------------------------------------------------------------------------
\* What a read of the health at index i of a view's array may give.
Reads(v, i) ==
    LET old == heap[v].cells[i].health
    IN  IF ~Unlocked /\ writer.view = v /\ writer.at = i
        THEN {old, writer.state}
                \cup (IF Length(old) # Length(writer.state) \/ old = "Torn"
                      THEN {"Torn"} ELSE {})
        ELSE {old}

-----------------------------------------------------------------------------
(* The reconciler: mergeHealth, Store.Set and Store.Delete. *)

MergeGet(k, collected) ==
    /\ worker = Nil
    /\ Unlocked
    /\ Len(heap) < MaxPublishes
    /\ worker' = [key |-> k, new |-> collected, old |-> views[k], next |-> 1,
                  prev |-> [ref \in {} |-> Nil]]
    /\ UNCHANGED <<heap, views, writer, loop, request>>

Merging ==
    /\ worker # Nil
    /\ worker.old # Nil
    /\ worker.next <= Len(heap[worker.old].cells)

\* prev[ep.SourceRef] = ep.Health
MergeRead ==
    /\ Merging
    /\ \E state \in Reads(worker.old, worker.next) :
          LET ref == heap[worker.old].cells[worker.next].ref
          IN  worker' = [worker EXCEPT
                            !.next = worker.next + 1,
                            !.prev = [x \in DOMAIN worker.prev \cup {ref} |->
                                        IF x = ref THEN state ELSE worker.prev[x]]]
    /\ UNCHANGED <<heap, views, writer, loop, request>>

Cells(refs, prev) ==
    [i \in DOMAIN refs |->
        [ref    |-> refs[i],
         health |-> IF refs[i] \in DOMAIN prev THEN prev[refs[i]] ELSE "Unknown"]]

\* Mutant: the array of the view before is used again.
SetReusing ==
    /\ worker # Nil /\ ~Merging
    /\ Unlocked
    /\ LET new  == worker.new
           view == [key |-> worker.key, title |-> new.title, auth |-> new.auth,
                    checked |-> new.checked, paths |-> new.paths,
                    cells |-> Cells(new.refs, worker.prev)]
       IN  IF views[worker.key] # Nil
           THEN heap' = [heap EXCEPT ![views[worker.key]] = view] /\ UNCHANGED views
           ELSE /\ heap' = Append(heap, view)
                /\ views' = [views EXCEPT ![worker.key] = Len(heap) + 1]
    /\ worker' = Nil
    /\ UNCHANGED <<writer, loop, request>>

Set ==
    /\ worker # Nil /\ ~Merging
    /\ Unlocked
    /\ LET new == worker.new
       IN  heap' = Append(heap,
                      [key |-> worker.key, title |-> new.title, auth |-> new.auth,
                       checked |-> new.checked, paths |-> new.paths,
                       cells |-> Cells(new.refs, worker.prev)])
    /\ views' = [views EXCEPT ![worker.key] = Len(heap) + 1]
    /\ worker' = Nil
    /\ UNCHANGED <<writer, loop, request>>

Delete(k) ==
    /\ worker = Nil
    /\ Unlocked
    /\ views[k] # Nil
    /\ views' = [views EXCEPT ![k] = Nil]
    /\ UNCHANGED <<heap, writer, loop, worker, request>>

-----------------------------------------------------------------------------
(* The handlers. *)

\* Mutant: the ok of Store.Get is not looked at.
routeHandlerUnchecked(r, k, tail) ==
    /\ request[r].pc = "idle"
    /\ Unlocked
    /\ request' = [request EXCEPT ![r] =
          [IdleRequest EXCEPT !.key = k, !.view = views[k], !.pc = "render"]]
    /\ UNCHANGED <<heap, views, writer, loop, worker>>

(***************************************************************************)
(* Paths without a namespace and a name, and keys that are not in the      *)
(* store, are answered with 404: the request is over.                      *)
(***************************************************************************)
routeHandler(r, k, tail) ==
    /\ request[r].pc = "idle"
    /\ Unlocked
    /\ views[k] # Nil
    /\ LET view == heap[views[k]]
       IN  request' = [request EXCEPT ![r] =
              [IdleRequest EXCEPT
                 !.key   = k,
                 !.view  = views[k],
                 !.title = IF tail = "api/endpoints" THEN Nil ELSE view.title,
                 !.pc    = IF tail = "callback" /\ OIDC THEN "callback"
                           ELSE IF view.auth /\ OIDC THEN "validate"
                           ELSE "render"]]
    /\ UNCHANGED <<heap, views, writer, loop, worker>>

\* OIDC.Validate lets the request pass or answers it with a redirect.
Validate(r) ==
    /\ request[r].pc = "validate"
    /\ \/ request' = [request EXCEPT ![r].pc = "render", ![r].valid = TRUE]
       \/ request' = [request EXCEPT ![r] = IdleRequest]
    /\ UNCHANGED <<heap, views, writer, loop, worker>>

\* list[i] = toJSON(ep)
render(r) ==
    /\ request[r].pc = "render"
    /\ LET v == request[r].view
           i == Len(request[r].list) + 1
       IN  /\ i <= Len(heap[v].cells)
           /\ \E state \in Reads(v, i) :
                 request' = [request EXCEPT ![r].list =
                    Append(@, [ref |-> heap[v].cells[i].ref, health |-> state])]
    /\ UNCHANGED <<heap, views, writer, loop, worker>>

\* The list is complete and written out.
Reply(r) ==
    /\ request[r].pc = "render"
    /\ Len(request[r].list) >= Len(heap[request[r].view].cells)
    /\ request' = [request EXCEPT ![r].pc = "done"]
    /\ UNCHANGED <<heap, views, writer, loop, worker>>

\* The request is over, a callback included, and another one may come.
Finish(r) ==
    /\ request[r].pc \in {"done", "callback"}
    /\ request' = [request EXCEPT ![r] = IdleRequest]
    /\ UNCHANGED <<heap, views, writer, loop, worker>>

Next ==
    \/ \E k \in Routemap, ref \in Ref : Probe(k, ref)
    \/ UpdateCell
    \/ \E k \in Routemap : sync(k) \/ LoopReturns(k)
    \/ \E k \in Routemap, collected \in Collected : MergeGet(k, collected)
    \/ MergeRead \/ Set
    \/ \E k \in Routemap : Delete(k)
    \/ \E r \in Request, k \in Routemap, tail \in {"", "api/endpoints", "callback"} :
          routeHandler(r, k, tail)
    \/ \E r \in Request : Validate(r) \/ render(r) \/ Reply(r) \/ Finish(r)

Spec == Init /\ [][Next]_vars

\* The refs a pass of the running loop of a Routemap comes to.
Reached(k) ==
    IF loop[k] = "running" /\ CheckOn(k) THEN heap[views[k]].paths ELSE {}

(***************************************************************************)
(* The ticker of sync goes on; a loop that runs comes round to every       *)
(* endpoint with a HealthPath; whoever waits for the mutex gets it.  Views *)
(* need not be published or withdrawn, and a loop that returned or was     *)
(* stopped owes no probe.                                                  *)
(***************************************************************************)
Fairness ==
    /\ \A k \in Routemap : SF_vars(sync(k))
    /\ \A k \in Routemap, ref \in Ref :
          SF_vars(ref \in Reached(k) /\ Probe(k, ref))
    /\ WF_vars(UpdateCell)
    /\ WF_vars(MergeRead)
    /\ SF_vars(Set)

FairSpec == Spec /\ Fairness

-----------------------------------------------------------------------------
(***************************************************************************)
(* A response is of one publication of the Routemap that was asked for:    *)
(* its title, its endpoints and their number belong together although      *)
(* others were published or withdrawn while it was rendered, and it was    *)
(* validated if that very publication asks for it.                         *)
(***************************************************************************)
OnePublication ==
    \A r \in Request :
        request[r].pc = "done" =>
            \E v \in DOMAIN heap :
                /\ heap[v].key = request[r].key
                /\ request[r].title \in {Nil, heap[v].title}
                /\ DOMAIN request[r].list = DOMAIN heap[v].cells
                /\ \A i \in DOMAIN heap[v].cells :
                      request[r].list[i].ref = heap[v].cells[i].ref
                /\ heap[v].auth /\ OIDC => request[r].valid

(***************************************************************************)
(* Whenever the mutex is free the endpoints of one source ref in a view    *)
(* agree on their health, although mergeHealth reads while a write may be  *)
(* under way: the critical section of UpdateEndpointHealth is one step to  *)
(* everyone who takes the mutex, as Store has it.                          *)
(***************************************************************************)
UniformWhenUnlocked ==
    Unlocked =>
        \A v \in DOMAIN heap : \A i, j \in DOMAIN heap[v].cells :
            heap[v].cells[i].ref = heap[v].cells[j].ref
                => heap[v].cells[i].health = heap[v].cells[j].health

\* The view in the store of a Routemap shows a torn state a probe should mend.
TornIn(k) ==
    /\ CheckOn(k)
    /\ \E i \in DOMAIN heap[views[k]].cells :
          /\ heap[views[k]].cells[i].ref \in heap[views[k]].paths
          /\ heap[views[k]].cells[i].health = "Torn"

(***************************************************************************)
(* A torn state that mergeHealth has read and published is overwritten by  *)
(* a later probe, as long as there is one: while the health check is on,   *)
(* an endpoint with a HealthPath does not stay torn, unless the loop of    *)
(* its Routemap has returned and its entry stays for good.                 *)
(***************************************************************************)
TornHeals ==
    \A k \in Routemap : []<>(loop[k] # "returned") => <>[]~TornIn(k)

(***************************************************************************)
(* The store is safe for concurrent use: what a request reads of the       *)
(* health of an endpoint is one of the three states.                       *)
(***************************************************************************)
StatesReadWhole ==
    \A r \in Request : \A i \in DOMAIN request[r].list :
        request[r].list[i].health \in HealthState
=============================================================================
