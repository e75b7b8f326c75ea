--------------------------- MODULE DeferredDelivery ---------------------------
(***************************************************************************)
(* The deferred delivery core (agent_cockpit/deferred_delivery.py) for one *)
(* scope: events are aggregated while the target is busy and handed to an  *)
(* adapter when it is free, under the binding version they were meant for. *)
(*                                                                         *)
(* Every public method has a section under the core's lock (one action)    *)
(* that may start a delivery; the adapter is called with the lock released *)
(* (the call waits in "calls") and a second section settles the result.    *)
(* Between the two, other threads switch the binding, merge and ingest.    *)
(***************************************************************************)
EXTENDS Naturals

CONSTANTS
    EventIds,       \* stable event ids
    Threads,        \* threads that call the core: poller, live poller, API
    NoThread,       \* "no delivery in flight"
    MaxVersion,     \* binding versions are 1..MaxVersion; 0 stands for None
    MaxStamp,       \* created_ts of an event is in 1..MaxStamp
    MaxGeneration   \* bound: binding switches explored

ASSUME DeliveryAssumption ==
    /\ NoThread \notin Threads
    /\ MaxVersion \in Nat /\ MaxStamp \in Nat /\ MaxGeneration \in Nat

VARIABLES
    core,       \* _ScopeState of the scope
    calls,      \* per thread: the delivery it has in progress (_InFlight)
    handed,     \* per thread: events a binding switch returned to it, not yet given back
    accepts     \* history: adapter acceptances of each event in each generation

vars == <<core, calls, handed, accepts>>

-----------------------------------------------------------------------------
Statuses == {"none", "idle", "working"}     \* eligible, deferred, never set
Stamps == 1..MaxStamp
Versions == 1..MaxVersion
Events == [id : EventIds, version : Versions, stamp : Stamps]

\* A dict keyed by event id is a set of events without two of the same id.
IdsOf(S) == {e.id : e \in S}
KeyedById(S) == \A d, e \in S : d.id = e.id => d = e

Core == [ version : 0..MaxVersion, generation : 0..MaxGeneration, status : Statuses,
          pending : SUBSET Events, delivered : SUBSET EventIds,
          inflight : Threads \cup {NoThread} ]

NoCall == [phase |-> "none", generation |-> 0, events |-> {}]
Calls == {NoCall} \cup
         [ phase : {"calling", "accepted", "rejected"},
           generation : 0..MaxGeneration, events : (SUBSET Events) \ {{}} ]

Idle(t) == calls[t].phase = "none"

\* _eligible
Eligible(c) == c.status = "idle"

\* _begin_deliver: the condition under which a locked section starts a delivery.
CanBegin(c) ==
    c.version # 0 /\ Eligible(c) /\ c.pending # {} /\ c.inflight = NoThread

\* The end of every locked section: thread t leaves with a delivery or without.
LeaveLock(t, c) ==
    IF CanBegin(c)
    THEN /\ core' = [c EXCEPT !.inflight = t]
         /\ calls' = [calls EXCEPT ![t] = [ phase |-> "calling",
                          generation |-> c.generation, events |-> c.pending ]]
    ELSE core' = c /\ UNCHANGED calls

\* pending.setdefault for each event of S, unless the generation has it delivered.
Requeued(c, S) ==
    LET missing == {e \in S : e.id \notin c.delivered \cup IdsOf(c.pending)}
    IN  [c EXCEPT !.pending = @ \cup {[e EXCEPT !.version = c.version] : e \in missing}]

-----------------------------------------------------------------------------
\* A core of a new process: nothing in it is durable.
NewCore == [ version |-> 0, generation |-> 0, status |-> "none", pending |-> {},
             delivered |-> {}, inflight |-> NoThread ]
NoCalls == [t \in Threads |-> NoCall]
NoneHanded == [t \in Threads |-> {}]
NoAccepts == [e \in EventIds |-> [g \in 0..MaxGeneration |-> 0]]

Init ==
    /\ core = NewCore
    /\ calls = NoCalls
    /\ handed = NoneHanded
    /\ accepts = NoAccepts

\* Mutants of SetActiveBinding: the pending events are not returned; the switch forgets
\* the delivery in flight.
ClearingSwitch(t, v) ==
    /\ Idle(t)
    /\ v # core.version
    /\ core.generation < MaxGeneration
    /\ LeaveLock(t, [core EXCEPT !.version = v, !.generation = @ + 1,
                                 !.pending = {}, !.delivered = {}])
    /\ UNCHANGED <<handed, accepts>>

ForgetfulSwitch(t, v) ==
    /\ Idle(t)
    /\ v # core.version
    /\ core.generation < MaxGeneration
    /\ handed' = [handed EXCEPT ![t] =
                      @ \cup {[e EXCEPT !.version = v] : e \in core.pending}]
    /\ LeaveLock(t, [core EXCEPT !.version = v, !.generation = @ + 1, !.pending = {},
                                 !.delivered = {}, !.inflight = NoThread])
    /\ UNCHANGED accepts

\* Mutant of SetActiveBinding: the returned events keep the version they waited for.
UnmovedSwitch(t, v) ==
    /\ Idle(t)
    /\ v # core.version
    /\ core.generation < MaxGeneration
    /\ handed' = [handed EXCEPT ![t] = @ \cup core.pending]
    /\ LeaveLock(t, [core EXCEPT !.version = v, !.generation = @ + 1,
                                 !.pending = {}, !.delivered = {}])
    /\ UNCHANGED accepts

\* set_active_binding: another version starts a generation and returns the pending
\* events to the caller, which gives them back under the version it has set.
\* The same version changes nothing.
SetActiveBinding(t, v) ==
    /\ Idle(t)
    /\ v # core.version
    /\ core.generation < MaxGeneration
    /\ handed' = [handed EXCEPT ![t] =
                      @ \cup {[e EXCEPT !.version = v] : e \in core.pending}]
    /\ LeaveLock(t, [core EXCEPT !.version = v, !.generation = @ + 1,
                                 !.pending = {}, !.delivered = {}])
    /\ UNCHANGED accepts

\* set_target_status
SetTargetStatus(t, s) ==
    /\ Idle(t)
    /\ LeaveLock(t, [core EXCEPT !.status = s])
    /\ UNCHANGED <<handed, accepts>>

\* The outcomes of ingest, in the order of its early returns.
Stale(e) == core.version = 0 \/ e.version # core.version
AlreadyDelivered(e) == ~Stale(e) /\ e.id \in core.delivered
Merges(e) == ~Stale(e) /\ e.id \notin core.delivered /\ e.id \in IdsOf(core.pending)
Queues(e) == ~Stale(e) /\ e.id \notin core.delivered /\ e.id \notin IdsOf(core.pending)

\* Mutant of Merged: the last event in replaces the summary, however old it is.
LastMerged(S, e) == {IF d.id = e.id THEN e ELSE d : d \in S}

\* A pending event keeps the summary with the larger created_ts.
Merged(S, e) == {IF d.id = e.id /\ e.stamp >= d.stamp THEN e ELSE d : d \in S}

\* ingest: only a queued event leaves the lock by way of _begin_deliver.
Ingest(t, e) ==
    /\ Idle(t)
    /\ \/ /\ Stale(e) \/ AlreadyDelivered(e)
          /\ UNCHANGED <<core, calls>>
       \/ /\ Merges(e)
          /\ core' = [core EXCEPT !.pending = Merged(@, e)]
          /\ UNCHANGED calls
       \/ /\ Queues(e)
          /\ LeaveLock(t, [core EXCEPT !.pending = @ \cup {e}])
    /\ UNCHANGED accepts

\* An event produced for version v is ingested.
Produce(t, e) == Ingest(t, e) /\ UNCHANGED handed

\* The caller of set_active_binding gives a returned event back.
GiveBack(t, e) ==
    /\ e \in handed[t]
    /\ Ingest(t, e)
    /\ handed' = [handed EXCEPT ![t] = @ \ {e}]

\* flush
Flush(t) ==
    /\ Idle(t)
    /\ CanBegin(core)
    /\ LeaveLock(t, core)
    /\ UNCHANGED <<handed, accepts>>

\* adapter.deliver returns True, with the core's lock released.
AdapterAccepts(t) ==
    /\ calls[t].phase = "calling"
    /\ calls' = [calls EXCEPT ![t].phase = "accepted"]
    /\ accepts' = [e \in EventIds |->
                      IF e \in IdsOf(calls[t].events)
                      THEN [accepts[e] EXCEPT ![calls[t].generation] = @ + 1]
                      ELSE accepts[e]]
    /\ UNCHANGED <<core, handed>>

\* adapter.deliver returns False or raises.
AdapterRejects(t) ==
    /\ calls[t].phase = "calling"
    /\ calls' = [calls EXCEPT ![t].phase = "rejected"]
    /\ UNCHANGED <<core, handed, accepts>>

\* _finish_deliver, accepted and of the current generation.
Delivered(c, call) ==
    [c EXCEPT !.pending = {e \in @ : e.id \notin IdsOf(call.events)},
              !.delivered = @ \cup IdsOf(call.events)]

\* Mutants of Settled: the result is settled without looking at the generation; the
\* inflight mark stays.
SettledInAnyGeneration(t) ==
    LET call == calls[t]
        c == [core EXCEPT !.inflight = IF @ = t THEN NoThread ELSE @]
    IN  IF call.phase = "accepted" THEN Delivered(c, call) ELSE Requeued(c, call.events)

SettledStillInFlight(t) ==
    LET call == calls[t]
    IN  IF call.phase = "accepted" /\ core.generation = call.generation
        THEN Delivered(core, call) ELSE Requeued(core, call.events)

\* The core once the delivery of thread t is settled: delivered, handed off to the
\* generation that replaced it, or queued again.
Settled(t) ==
    LET call == calls[t]
        c == [core EXCEPT !.inflight = IF @ = t THEN NoThread ELSE @]
    IN  IF call.phase = "accepted" /\ c.generation = call.generation
        THEN Delivered(c, call) ELSE Requeued(c, call.events)

\* _finish_deliver: the second locked section; it starts no new delivery.
Finish(t) ==
    /\ calls[t].phase \in {"accepted", "rejected"}
    /\ core' = Settled(t)
    /\ calls' = [calls EXCEPT ![t] = NoCall]
    /\ UNCHANGED <<handed, accepts>>

Next ==
    \/ \E t \in Threads, v \in Versions : SetActiveBinding(t, v)
    \/ \E t \in Threads, s \in Statuses \ {"none"} : SetTargetStatus(t, s)
    \/ \E t \in Threads, e \in Events : Produce(t, e)
    \/ \E t \in Threads, e \in Events : GiveBack(t, e)
    \/ \E t \in Threads : Flush(t)
    \/ \E t \in Threads : AdapterAccepts(t)
    \/ \E t \in Threads : AdapterRejects(t)
    \/ \E t \in Threads : Finish(t)

Spec == Init /\ [][Next]_vars

\* poll_once flushes every scope at least every FLUSH_INTERVAL_S, a delivery thread
\* runs on, an adapter call returns, and a prompt that is retried is accepted once.
Fairness ==
    \A t \in Threads :
        /\ WF_vars(Flush(t))
        /\ WF_vars(Finish(t))
        /\ WF_vars(AdapterRejects(t) \/ AdapterAccepts(t))
        /\ SF_vars(AdapterAccepts(t))

FairSpec == Spec /\ Fairness

-----------------------------------------------------------------------------
TypeOK ==
    /\ core \in Core
    /\ calls \in [Threads -> Calls]
    /\ handed \in [Threads -> SUBSET Events]
    /\ accepts \in [EventIds -> [0..MaxGeneration -> Nat]]

\* Whatever switches of binding fall into a delivery, two threads are never inside
\* adapter calls for the scope at once, and the one that is holds the inflight mark.
OneFlight ==
    \A t \in Threads : (~Idle(t)) <=> core.inflight = t

\* What a flush would send was ingested for, or moved to, the binding that is active
\* now, one summary per event, and none that this binding has already been sent.
PendingIsCurrent ==
    /\ KeyedById(core.pending)
    /\ \A e \in core.pending : e.version = core.version /\ e.id \notin core.delivered

\* "Zero duplicates": a generation accepts an event at most once, and the ledger of
\* the generation is exactly what its accepted and settled deliveries carried.
AcceptedOnce ==
    /\ \A e \in EventIds, g \in 0..MaxGeneration : accepts[e][g] <= 1
    /\ \A e \in core.delivered : accepts[e][core.generation] = 1

\* A settled acceptance is in the ledger: what the generation accepted is delivered
\* or still waiting for its second locked section.
AcceptedIsRecorded ==
    \A e \in EventIds : accepts[e][core.generation] > 0 =>
        \/ e \in core.delivered
        \/ \E t \in Threads : calls[t].phase = "accepted"
              /\ calls[t].generation = core.generation /\ e \in IdsOf(calls[t].events)

\* At every moment: one delivery, of what is waiting for the active binding, into a true
\* ledger.
CoreSafe == TypeOK /\ OneFlight /\ PendingIsCurrent
LedgerIsTrue == AcceptedOnce /\ AcceptedIsRecorded

\* "Zero loss", over a step: an event the core holds stays with it, or is accepted,
\* or is in the hands of the caller whose switch of binding displaced it.
Held == IdsOf(core.pending) \cup UNION {IdsOf(calls[t].events) : t \in Threads}
HeldIsKept ==
    \A e \in Held \ Held' : \/ e \in core'.delivered
                            \/ \E t \in Threads : e \in IdsOf(handed'[t])
NeverDropped == [][HeldIsKept]_vars

\* A newer summary merged into a waiting event is not replaced by an older one, not
\* even when the snapshot of a failed delivery is queued again.
NewestKept ==
    [][\A d \in core.pending, e \in core'.pending :
          d.id = e.id => d.stamp <= e.stamp]_vars

\* Once the target stays free, an event that waits is delivered by the generation it
\* waits in, unless a switch of binding hands it back first: neither a merge nor a
\* rejection nor another thread's delivery leaves it waiting for ever.
EventuallyDelivered ==
    <>[]Eligible(core) =>
        \A e \in EventIds, g \in 1..MaxGeneration :
            (e \in IdsOf(core.pending) /\ core.generation = g)
                ~> (e \in core.delivered \/ core.generation # g)
=============================================================================
