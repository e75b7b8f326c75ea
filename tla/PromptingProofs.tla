---------------------------- MODULE PromptingProofs ----------------------------
(***************************************************************************)
(* Theorems about what brings prompts to agents: the delivery core         *)
(* (DeferredDelivery), for every set of events and threads, with its       *)
(* contract, and the chat of a session (ChatQueue), for any panes,         *)
(* messages, turns and faults.                                             *)
(***************************************************************************)
EXTENDS DeliveryRefinement, ChatQueue, SequenceTheorems, FiniteSetTheorems, TLAPS

-----------------------------------------------------------------------------
(* The delivery core: one delivery at a time, pending events of the binding  *)
(* that is active, no event accepted twice in a generation.                  *)


\* The summaries of a delivery in progress are of different events, its generation has
\* begun, and there is a binding.
CallsBegun ==
    \A t \in Threads : /\ KeyedById(calls[t].events)
                       /\ ~Idle(t) => /\ calls[t].generation <= core.generation
                                      /\ core.version # 0

\* No generation accepts before it begins.
FutureUntouched ==
    \A e \in EventIds, g \in 0..MaxGeneration : g > core.generation => accepts[e][g] = 0

\* What a call of the adapter carries has not been accepted in its generation before it
\* returns True, and once when it has.
CallsCounted ==
    \A t \in Threads : \A e \in IdsOf(calls[t].events) :
        /\ calls[t].phase = "calling" => accepts[e][calls[t].generation] = 0
        /\ calls[t].phase = "accepted" => accepts[e][calls[t].generation] = 1

\* The inductive invariant.
DeliveryInv ==
    /\ TypeOK /\ OneFlight /\ PendingIsCurrent /\ AcceptedOnce /\ AcceptedIsRecorded
    /\ CallsBegun /\ FutureUntouched /\ CallsCounted

LEMMA NoCallFacts ==
  NoCall \in Calls /\ NoCall.phase = "none" /\ NoCall.events = {} /\ IdsOf(NoCall.events) = {}
  BY DEF NoCall, Calls, IdsOf

LEMMA IdsAreIds == ASSUME NEW S \in SUBSET Events PROVE IdsOf(S) \subseteq EventIds
  BY DEF IdsOf, Events

LEMMA CallEvents ==
  ASSUME NEW call \in Calls
  PROVE  /\ call.events \in SUBSET Events /\ call.generation \in 0..MaxGeneration
         /\ call.phase # "none" => call.phase \in {"calling", "accepted", "rejected"}
                                     /\ call.events # {}
         /\ call.phase = "none" => call = NoCall
  BY DeliveryAssumption DEF Calls, NoCall

LEMMA DeliveryInit == Init => DeliveryInv
  <1> SUFFICES ASSUME Init PROVE DeliveryInv  OBVIOUS
  <1> USE DeliveryAssumption, NoCallFacts DEF Init, NewCore, NoCalls, NoneHanded, NoAccepts
  <1>1. TypeOK  BY DEF TypeOK, Core, Statuses
  <1>2. OneFlight  BY DEF OneFlight, Idle
  <1>3. PendingIsCurrent  BY DEF PendingIsCurrent, KeyedById
  <1>4. AcceptedOnce /\ AcceptedIsRecorded  BY DEF AcceptedOnce, AcceptedIsRecorded
  <1>5. CallsBegun /\ FutureUntouched /\ CallsCounted
    BY DEF CallsBegun, FutureUntouched, CallsCounted, KeyedById, Idle
  <1>. QED  BY <1>1, <1>2, <1>3, <1>4, <1>5 DEF DeliveryInv

\* The core as a locked section leaves it, before it looks for a delivery to start.
Leaving(c) ==
    /\ c \in Core /\ c.inflight = core.inflight
    /\ core.version # 0 => c.version # 0
    /\ KeyedById(c.pending)
    /\ \A e \in c.pending : e.version = c.version /\ e.id \notin c.delivered
    /\ \/ c.generation = core.generation /\ c.delivered = core.delivered
       \/ c.generation = core.generation + 1 /\ c.delivered = {} /\ c.pending = {}

\* A locked section that leaves the core well formed keeps the invariant, with a new
\* delivery or without.
LEMMA LockStep ==
  ASSUME DeliveryInv, NEW t \in Threads, Idle(t), NEW c, Leaving(c), LeaveLock(t, c),
         accepts' = accepts, handed' \in [Threads -> SUBSET Events]
  PROVE  DeliveryInv'
  <1> USE DEF DeliveryInv
  <1>0. /\ core \in Core /\ c \in Core /\ calls \in [Threads -> Calls]
        /\ accepts \in [EventIds -> [0..MaxGeneration -> Nat]] /\ MaxGeneration \in Nat
        /\ NoThread \notin Threads
        /\ core.generation \in 0..MaxGeneration /\ c.generation \in 0..MaxGeneration
    BY DeliveryAssumption DEF TypeOK, Leaving, Core
  <1> DEFINE call == [phase |-> "calling", generation |-> c.generation, events |-> c.pending]
  <1>1. \/ CanBegin(c) /\ core' = [c EXCEPT !.inflight = t] /\ calls' = [calls EXCEPT ![t] = call]
        \/ core' = c /\ calls' = calls
    BY DEF LeaveLock
  <1>2. /\ core' \in Core /\ core'.version = c.version /\ core'.generation = c.generation
        /\ core'.pending = c.pending /\ core'.delivered = c.delivered
    BY <1>0, <1>1 DEF Core
  <1>3. CanBegin(c) => call \in Calls
    BY <1>0 DEF CanBegin, Calls, Core
  <1>4. calls' \in [Threads -> Calls]  BY <1>0, <1>1, <1>3
  <1>5. TypeOK'  BY <1>0, <1>2, <1>4 DEF TypeOK
  <1>6. PendingIsCurrent'  BY <1>2 DEF PendingIsCurrent, Leaving, KeyedById
  <1>7. OneFlight'
    <2>1. CASE core' = c /\ calls' = calls  BY <2>1 DEF OneFlight, Leaving, Idle
    <2>2. CASE CanBegin(c) /\ core' = [c EXCEPT !.inflight = t]
               /\ calls' = [calls EXCEPT ![t] = call]
      <3>1. core'.inflight = t /\ core.inflight = NoThread
        BY <1>0, <2>2 DEF CanBegin, Leaving, Core
      <3>2. \A u \in Threads : Idle(u)  BY <1>0, <3>1 DEF OneFlight
      <3>3. \A u \in Threads : Idle(u)' <=> u # t  BY <1>0, <2>2, <3>2 DEF Idle
      <3>. QED  BY <3>1, <3>3 DEF OneFlight
    <2>. QED  BY <1>1, <2>1, <2>2
  <1>8. AcceptedOnce'
    BY <1>0, <1>2 DEF AcceptedOnce, Leaving
  <1>9. FutureUntouched'
    BY <1>0, <1>2 DEF FutureUntouched, Leaving
  <1>10. AcceptedIsRecorded'
    <2>1. \A u \in Threads : calls[u].phase = "accepted" => calls'[u] = calls[u]
      BY <1>0, <1>1 DEF Idle
    <2>2. CASE c.generation = core.generation /\ c.delivered = core.delivered
      BY <1>0, <1>2, <2>1, <2>2 DEF AcceptedIsRecorded
    <2>3. CASE c.generation = core.generation + 1
      BY <1>0, <1>2, <2>3 DEF AcceptedIsRecorded, FutureUntouched
    <2>. QED  BY <2>2, <2>3 DEF Leaving
  <1>11. CallsBegun'
    <2> SUFFICES ASSUME NEW u \in Threads
                 PROVE  /\ KeyedById(calls'[u].events)
                        /\ calls'[u].phase # "none" =>
                              calls'[u].generation <= core'.generation /\ core'.version # 0
      BY DEF CallsBegun, Idle, KeyedById
    <2>1. CASE calls'[u] = calls[u]
      <3>1. KeyedById(calls[u].events)  BY DEF CallsBegun
      <3>2. calls[u].phase # "none" =>
               calls[u].generation <= core.generation /\ core.version # 0
        BY DEF CallsBegun, Idle
      <3>3. calls[u].generation \in 0..MaxGeneration  BY <1>0, CallEvents
      <3>4. core.generation <= core'.generation  BY <1>0, <1>2 DEF Leaving
      <3>. QED  BY <1>0, <1>2, <2>1, <3>1, <3>2, <3>3, <3>4 DEF Leaving
    <2>2. CASE calls'[u] = call
      <3>1. KeyedById(c.pending)  BY DEF Leaving
      <3>2. calls' # calls => c.version # 0  BY <1>1 DEF CanBegin
      <3>3. CASE calls' = calls
        <4>1. Idle(u) => call.phase = "none"  BY <2>2, <3>3 DEF Idle
        <4>2. ~Idle(u) /\ core.version # 0  BY <4>1 DEF CallsBegun
        <4>. QED  BY <1>0, <1>2, <2>2, <3>1, <4>2 DEF Leaving
      <3>. QED  BY <1>0, <1>2, <2>2, <3>1, <3>2, <3>3
    <2>3. calls'[u] = calls[u] \/ calls'[u] = call  BY <1>0, <1>1
    <2>. QED  BY <2>1, <2>2, <2>3
  <1>12. CallsCounted'
    <2>1. CASE calls' = calls  BY <2>1 DEF CallsCounted
    <2>2. CASE CanBegin(c) /\ calls' = [calls EXCEPT ![t] = call]
      <3>1. core.inflight = NoThread /\ c.pending # {}
        BY <2>2 DEF CanBegin, Leaving
      <3>2. c.generation = core.generation /\ c.delivered = core.delivered
        BY <3>1 DEF Leaving
      <3>3. \A u \in Threads : calls[u].phase = "none"  BY <1>0, <3>1 DEF OneFlight, Idle
      <3>4. ASSUME NEW e \in IdsOf(c.pending) PROVE accepts[e][c.generation] = 0
        <4>1. e \in EventIds /\ e \notin core.delivered
          BY <1>0, <3>2 DEF Leaving, IdsOf, Core, Events
        <4>2. ~(accepts[e][core.generation] > 0)
          BY <3>3, <4>1 DEF AcceptedIsRecorded
        <4>3. accepts[e][core.generation] \in Nat  BY <1>0, <4>1
        <4>. QED  BY <3>2, <4>2, <4>3
      <3>5. ASSUME NEW u \in Threads, NEW e \in IdsOf(calls'[u].events)
            PROVE  /\ calls'[u].phase = "calling" => accepts'[e][calls'[u].generation] = 0
                   /\ calls'[u].phase = "accepted" => accepts'[e][calls'[u].generation] = 1
        <4>1. CASE u = t
          <5>1. calls'[u] = call  BY <1>0, <2>2, <4>1
          <5>. QED  BY <3>4, <3>5, <5>1
        <4>2. CASE u # t
          <5>1. calls'[u].phase = "none"  BY <1>0, <2>2, <3>3, <4>2
          <5>. QED  BY <5>1
        <4>. QED  BY <4>1, <4>2
      <3>. QED  BY <3>5 DEF CallsCounted
    <2>. QED  BY <1>1, <2>1, <2>2
  <1>. QED  BY <1>5, <1>6, <1>7, <1>8, <1>9, <1>10, <1>11, <1>12

\* Changing one field of the core keeps it a core.
LEMMA CoreFields ==
  ASSUME NEW c \in Core
  PROVE  /\ \A v \in 0..MaxVersion : [c EXCEPT !.version = v] \in Core
         /\ \A v \in 0..MaxGeneration : [c EXCEPT !.generation = v] \in Core
         /\ \A v \in Statuses : [c EXCEPT !.status = v] \in Core
         /\ \A v \in SUBSET Events : [c EXCEPT !.pending = v] \in Core
         /\ \A v \in SUBSET EventIds : [c EXCEPT !.delivered = v] \in Core
         /\ \A v \in Threads \cup {NoThread} : [c EXCEPT !.inflight = v] \in Core
  BY DEF Core

\* The merge keeps one summary per event, of the same events and binding.
LEMMA MergedFacts ==
  ASSUME NEW S \in SUBSET Events, NEW e \in Events, KeyedById(S),
         \A d \in S : d.version = e.version
  PROVE  /\ Merged(S, e) \in SUBSET Events /\ KeyedById(Merged(S, e))
         /\ \A d \in Merged(S, e) : d.version = e.version
         /\ IdsOf(Merged(S, e)) = IdsOf(S)
  BY DEF Merged, KeyedById, IdsOf

LEMMA IngestStep ==
  ASSUME DeliveryInv, NEW t \in Threads, NEW e \in Events, Ingest(t, e),
         handed' \in [Threads -> SUBSET Events]
  PROVE  DeliveryInv'
  <1> USE DEF DeliveryInv
  <1>0. /\ core \in Core /\ calls \in [Threads -> Calls] /\ core.pending \in SUBSET Events
        /\ accepts' = accepts /\ KeyedById(core.pending)
        /\ \A d \in core.pending : d.version = core.version /\ d.id \notin core.delivered
    BY DEF TypeOK, Core, Ingest, PendingIsCurrent
  <1>1. CASE UNCHANGED <<core, calls>>
    BY <1>0, <1>1 DEF TypeOK, OneFlight, PendingIsCurrent, AcceptedOnce, AcceptedIsRecorded,
       CallsBegun, FutureUntouched, CallsCounted, Idle
  <1>2. CASE Merges(e) /\ core' = [core EXCEPT !.pending = Merged(@, e)] /\ UNCHANGED calls
    <2>1. e.version = core.version  BY <1>2 DEF Merges, Stale
    <2>2. /\ Merged(core.pending, e) \in SUBSET Events /\ KeyedById(Merged(core.pending, e))
          /\ \A d \in Merged(core.pending, e) : d.version = e.version
          /\ IdsOf(Merged(core.pending, e)) = IdsOf(core.pending)
      BY <1>0, <2>1, MergedFacts
    <2>3. core' \in Core  BY <1>0, <1>2, <2>2, CoreFields
    <2>4. /\ core'.pending = Merged(core.pending, e) /\ core'.version = core.version
          /\ core'.delivered = core.delivered /\ core'.generation = core.generation
          /\ core'.inflight = core.inflight
      BY <1>0, <1>2 DEF Core
    <2>5. \A d \in core'.pending : d.version = core'.version /\ d.id \notin core'.delivered
      <3> SUFFICES ASSUME NEW d \in core'.pending
                   PROVE  d.version = core'.version /\ d.id \notin core'.delivered
        OBVIOUS
      <3>1. d.version = core.version  BY <2>1, <2>2, <2>4
      <3>2. d.id \in IdsOf(core.pending)  BY <2>2, <2>4 DEF IdsOf
      <3>3. d.id \notin core.delivered  BY <1>0, <3>2 DEF IdsOf
      <3>. QED  BY <2>4, <3>1, <3>3
    <2>6. PendingIsCurrent'  BY <2>2, <2>4, <2>5 DEF PendingIsCurrent, KeyedById
    <2>. QED
      BY <1>0, <1>2, <2>3, <2>4, <2>6 DEF TypeOK, OneFlight, AcceptedOnce,
         AcceptedIsRecorded, CallsBegun, FutureUntouched, CallsCounted, Idle
  <1>3. CASE Queues(e) /\ LeaveLock(t, [core EXCEPT !.pending = @ \cup {e}])
    <2> DEFINE c == [core EXCEPT !.pending = @ \cup {e}]
    <2>1. e.version = core.version /\ e.id \notin core.delivered /\ e.id \notin IdsOf(core.pending)
      BY <1>3 DEF Queues, Stale
    <2>2. c \in Core  BY <1>0, CoreFields
    <2>3. /\ c.pending = core.pending \cup {e} /\ c.version = core.version
          /\ c.delivered = core.delivered /\ c.generation = core.generation
          /\ c.inflight = core.inflight
      BY <1>0 DEF Core
    <2>4. KeyedById(core.pending \cup {e})  BY <1>0, <2>1 DEF KeyedById, IdsOf
    <2>5. Leaving(c)
      <3> HIDE DEF c
      <3>. QED  BY <1>0, <2>1, <2>2, <2>3, <2>4 DEF Leaving
    <2>6. Idle(t)  BY DEF Ingest
    <2> HIDE DEF c
    <2>7. LeaveLock(t, c)  BY <1>3 DEF c
    <2>. QED  BY <1>0, <2>5, <2>6, <2>7, LockStep
  <1>. QED  BY <1>1, <1>2, <1>3 DEF Ingest

LEMMA SwitchStep ==
  ASSUME DeliveryInv, NEW t \in Threads, NEW v \in Versions, SetActiveBinding(t, v)
  PROVE  DeliveryInv'
  <1> USE DEF DeliveryInv
  <1> DEFINE g == core.generation + 1
             c == [core EXCEPT !.version = v, !.generation = @ + 1,
                               !.pending = {}, !.delivered = {}]
  <1>0. core \in Core /\ handed \in [Threads -> SUBSET Events] /\ core.pending \in SUBSET Events
    BY DEF TypeOK, Core
  <1>1. g \in 0..MaxGeneration /\ v \in 0..MaxVersion
    BY <1>0, DeliveryAssumption DEF SetActiveBinding, Core, Versions
  <1>2. c \in Core
    <2> DEFINE c1 == [core EXCEPT !.version = v]
               c2 == [c1 EXCEPT !.generation = g]
               c3 == [c2 EXCEPT !.pending = {}]
    <2>1. c1 \in Core  BY <1>0, <1>1, CoreFields
    <2>2. c2 \in Core
      <3> HIDE DEF c1, g
      <3>. QED  BY <1>1, <2>1, CoreFields
    <2>3. c3 \in Core
      <3> HIDE DEF c2
      <3>. QED  BY <2>2, CoreFields
    <2>4. [c3 EXCEPT !.delivered = {}] \in Core
      <3> HIDE DEF c3
      <3>. QED  BY <2>3, CoreFields
    <2>5. c = [c3 EXCEPT !.delivered = {}]  BY <1>0 DEF Core
    <2> HIDE DEF c, c3
    <2>. QED  BY <2>4, <2>5
  <1>3. /\ c.inflight = core.inflight /\ c.pending = {} /\ c.delivered = {}
        /\ c.generation = core.generation + 1 /\ c.version # 0
    BY <1>0 DEF Core, Versions
  <1>4. Leaving(c)
    <2> HIDE DEF c
    <2>. QED  BY <1>2, <1>3 DEF Leaving, KeyedById
  <1>5. \A e \in core.pending : [e EXCEPT !.version = v] \in Events
    BY <1>0 DEF Events
  <1>6. handed' \in [Threads -> SUBSET Events]
    BY <1>0, <1>5 DEF SetActiveBinding
  <1>7. LeaveLock(t, c) /\ Idle(t) /\ accepts' = accepts  BY DEF SetActiveBinding
  <1> HIDE DEF c
  <1>. QED  BY <1>4, <1>6, <1>7, LockStep

LEMMA StatusStep ==
  ASSUME DeliveryInv, NEW t \in Threads, NEW s \in Statuses, SetTargetStatus(t, s)
  PROVE  DeliveryInv'
  <1> DEFINE c == [core EXCEPT !.status = s]
  <1>0. core \in Core /\ handed \in [Threads -> SUBSET Events] /\ PendingIsCurrent
    BY DEF DeliveryInv, TypeOK
  <1>1. c \in Core  BY <1>0, CoreFields
  <1>2. /\ c.pending = core.pending /\ c.version = core.version
        /\ c.delivered = core.delivered /\ c.generation = core.generation
        /\ c.inflight = core.inflight
    BY <1>0 DEF Core
  <1>3. LeaveLock(t, c) /\ Idle(t) /\ accepts' = accepts /\ handed' = handed
    BY DEF SetTargetStatus
  <1> HIDE DEF c
  <1>4. Leaving(c)  BY <1>0, <1>1, <1>2 DEF Leaving, PendingIsCurrent
  <1>. QED  BY <1>0, <1>3, <1>4, LockStep

LEMMA CoreFlushes == ASSUME DeliveryInv, NEW t \in Threads, Flush(t) PROVE DeliveryInv'
  <1>0. core \in Core /\ handed \in [Threads -> SUBSET Events] /\ PendingIsCurrent
    BY DEF DeliveryInv, TypeOK
  <1>1. Leaving(core)  BY <1>0 DEF Leaving, PendingIsCurrent
  <1>2. LeaveLock(t, core) /\ Idle(t) /\ accepts' = accepts /\ handed' = handed
    BY DEF Flush
  <1>. QED  BY <1>0, <1>1, <1>2, LockStep

\* A call of the adapter that has changed its phase is a call.
LEMMA PhaseType ==
  ASSUME NEW call \in Calls, call.phase = "calling", NEW p \in {"accepted", "rejected"}
  PROVE  /\ [call EXCEPT !.phase = p] \in Calls
         /\ [call EXCEPT !.phase = p].phase = p
         /\ [call EXCEPT !.phase = p].events = call.events
         /\ [call EXCEPT !.phase = p].generation = call.generation
  BY DEF Calls, NoCall

\* An acceptance counts once, for the events of the call in the generation of the call.
LEMMA AcceptsMove ==
  ASSUME DeliveryInv, NEW t \in Threads, AdapterAccepts(t)
  PROVE  /\ accepts' \in [EventIds -> [0..MaxGeneration -> Nat]]
         /\ \A e \in EventIds, h \in 0..MaxGeneration :
              accepts'[e][h] = IF e \in IdsOf(calls[t].events) /\ h = calls[t].generation
                               THEN 1 ELSE accepts[e][h]
  <1> DEFINE g == calls[t].generation
             ids == IdsOf(calls[t].events)
             row(e) == IF e \in ids THEN [accepts[e] EXCEPT ![g] = @ + 1] ELSE accepts[e]
  <1>0. calls[t] \in Calls /\ accepts \in [EventIds -> [0..MaxGeneration -> Nat]]
    BY DEF DeliveryInv, TypeOK
  <1>1. g \in 0..MaxGeneration  BY <1>0, CallEvents
  <1>2. \A e \in ids : accepts[e][g] = 0
    BY DEF AdapterAccepts, DeliveryInv, CallsCounted
  <1>3. accepts' = [e \in EventIds |-> row(e)]  BY DEF AdapterAccepts
  <1> HIDE DEF ids, g
  <1>4. ASSUME NEW e \in EventIds
        PROVE  /\ row(e) \in [0..MaxGeneration -> Nat]
               /\ \A h \in 0..MaxGeneration :
                    row(e)[h] = IF e \in ids /\ h = g THEN 1 ELSE accepts[e][h]
    <2>1. accepts[e] \in [0..MaxGeneration -> Nat]  BY <1>0
    <2>2. CASE e \in ids
      <3>1. row(e) = [accepts[e] EXCEPT ![g] = 1]  BY <1>1, <1>2, <2>1, <2>2
      <3> HIDE DEF row
      <3>2. row(e) \in [0..MaxGeneration -> Nat]
        <4>1. \A f \in [0..MaxGeneration -> Nat] : [f EXCEPT ![g] = 1] \in [0..MaxGeneration -> Nat]
          OBVIOUS
        <4>. QED  BY <2>1, <3>1, <4>1
      <3>3. row(e)[g] = 1 /\ \A h \in (0..MaxGeneration) \ {g} : row(e)[h] = accepts[e][h]
        BY <1>1, <2>1, <3>1
      <3>. QED  BY <2>2, <3>2, <3>3
    <2>3. CASE e \notin ids  BY <2>1, <2>3
    <2>. QED  BY <2>2, <2>3
  <1> HIDE DEF row
  <1>. QED  BY <1>3, <1>4 DEF ids, g

LEMMA AcceptStep == ASSUME DeliveryInv, NEW t \in Threads, AdapterAccepts(t) PROVE DeliveryInv'
  <1> USE DEF DeliveryInv
  <1> DEFINE g == calls[t].generation
             ids == IdsOf(calls[t].events)
             call == [calls[t] EXCEPT !.phase = "accepted"]
  <1>0. /\ core \in Core /\ calls \in [Threads -> Calls] /\ calls[t] \in Calls
        /\ accepts \in [EventIds -> [0..MaxGeneration -> Nat]]
        /\ g \in 0..MaxGeneration /\ ids \subseteq EventIds /\ calls[t].phase = "calling"
        /\ core.generation \in 0..MaxGeneration /\ core.delivered \in SUBSET EventIds
    <2>1. core \in Core /\ calls \in [Threads -> Calls] /\ calls[t].phase = "calling"
          /\ accepts \in [EventIds -> [0..MaxGeneration -> Nat]]
      BY DEF TypeOK, AdapterAccepts
    <2>2. calls[t] \in Calls  BY <2>1
    <2>3. g \in 0..MaxGeneration /\ ids \subseteq EventIds  BY <2>2, CallEvents, IdsAreIds
    <2>. QED  BY <2>1, <2>2, <2>3 DEF Core
  <1>1. /\ call \in Calls /\ call.phase = "accepted"
        /\ call.events = calls[t].events /\ call.generation = g
    BY <1>0, PhaseType
  <1>2. calls' = [calls EXCEPT ![t] = call] /\ UNCHANGED <<core, handed>>
    BY <1>0 DEF AdapterAccepts
  <1>3. accepts' = [e \in EventIds |-> IF e \in ids THEN [accepts[e] EXCEPT ![g] = @ + 1]
                                       ELSE accepts[e]]
    BY DEF AdapterAccepts
  <1>4. \A e \in ids : accepts[e][g] = 0  BY <1>0 DEF CallsCounted
  <1>5. g <= core.generation /\ core.version # 0  BY <1>0 DEF CallsBegun, Idle
  <1>6. core.inflight = t  BY <1>0 DEF OneFlight, Idle
  <1>7. \A u \in Threads : u # t => calls[u].phase = "none"  BY <1>6 DEF OneFlight, Idle
  <1> HIDE DEF call, ids, g
  <1>8. /\ accepts' \in [EventIds -> [0..MaxGeneration -> Nat]]
        /\ \A e \in EventIds, h \in 0..MaxGeneration :
             accepts'[e][h] = IF e \in ids /\ h = g THEN 1 ELSE accepts[e][h]
    BY AcceptsMove DEF ids, g
  <1>10. TypeOK'  BY <1>0, <1>1, <1>2, <1>8 DEF TypeOK
  <1>11. \A u \in Threads : calls'[u] = IF u = t THEN call ELSE calls[u]  BY <1>0, <1>2
  <1>12. OneFlight'
    <2>1. \A u \in Threads : Idle(u)' <=> Idle(u)  BY <1>0, <1>1, <1>11 DEF Idle
    <2>. QED  BY <1>2, <2>1 DEF OneFlight
  <1>13. PendingIsCurrent'  BY <1>2 DEF PendingIsCurrent, KeyedById
  <1>14. AcceptedOnce'
    <2>1. \A e \in EventIds, h \in 0..MaxGeneration : accepts'[e][h] <= 1
      BY <1>8 DEF AcceptedOnce
    <2>2. \A e \in core.delivered : accepts'[e][core.generation] = 1
      BY <1>0, <1>8 DEF AcceptedOnce
    <2>. QED  BY <1>2, <2>1, <2>2 DEF AcceptedOnce
  <1>15. AcceptedIsRecorded'
    <2> SUFFICES ASSUME NEW e \in EventIds, accepts'[e][core.generation] > 0, e \notin core.delivered
                 PROVE  \E u \in Threads : calls'[u].phase = "accepted"
                           /\ calls'[u].generation = core.generation /\ e \in IdsOf(calls'[u].events)
      BY <1>2 DEF AcceptedIsRecorded
    <2>1. CASE e \in ids /\ core.generation = g
      BY <1>1, <1>11, <2>1 DEF ids
    <2>2. CASE ~(e \in ids /\ core.generation = g)
      <3>1. accepts[e][core.generation] > 0  BY <1>0, <1>8, <2>2
      <3>2. PICK u \in Threads : calls[u].phase = "accepted"
                 /\ calls[u].generation = core.generation /\ e \in IdsOf(calls[u].events)
        BY <3>1 DEF AcceptedIsRecorded
      <3>3. u # t  BY <1>0, <3>2
      <3>. QED  BY <1>11, <3>2, <3>3
    <2>. QED  BY <2>1, <2>2
  <1>16. FutureUntouched'
    BY <1>0, <1>2, <1>5, <1>8 DEF FutureUntouched
  <1>17. CallsBegun'
    <2>1. \A u \in Threads : /\ KeyedById(calls'[u].events)
                             /\ calls'[u].phase # "none" =>
                                   calls'[u].generation <= core.generation /\ core.version # 0
      BY <1>1, <1>5, <1>11 DEF CallsBegun, Idle
    <2>. QED  BY <1>2, <2>1 DEF CallsBegun, Idle, KeyedById
  <1>18. CallsCounted'
    <2> SUFFICES ASSUME NEW u \in Threads, NEW e \in IdsOf(calls'[u].events)
                 PROVE  /\ calls'[u].phase = "calling" => accepts'[e][calls'[u].generation] = 0
                        /\ calls'[u].phase = "accepted" => accepts'[e][calls'[u].generation] = 1
      BY DEF CallsCounted
    <2>1. CASE u = t  BY <1>0, <1>1, <1>8, <1>11, <2>1 DEF ids
    <2>2. CASE u # t  BY <1>7, <1>11, <2>2
    <2>. QED  BY <2>1, <2>2
  <1>. QED  BY <1>10, <1>12, <1>13, <1>14, <1>15, <1>16, <1>17, <1>18

LEMMA RejectStep == ASSUME DeliveryInv, NEW t \in Threads, AdapterRejects(t) PROVE DeliveryInv'
  <1> USE DEF DeliveryInv
  <1> DEFINE call == [calls[t] EXCEPT !.phase = "rejected"]
  <1>0. /\ core \in Core /\ calls \in [Threads -> Calls] /\ calls[t] \in Calls
        /\ calls[t].phase = "calling"
    BY DEF TypeOK, AdapterRejects
  <1>1. /\ call \in Calls /\ call.phase = "rejected"
        /\ call.events = calls[t].events /\ call.generation = calls[t].generation
    BY <1>0, PhaseType
  <1>2. calls' = [calls EXCEPT ![t] = call] /\ UNCHANGED <<core, handed, accepts>>
    BY <1>0 DEF AdapterRejects
  <1> HIDE DEF call
  <1>3. \A u \in Threads : calls'[u] = IF u = t THEN call ELSE calls[u]  BY <1>0, <1>2
  <1>4. TypeOK'  BY <1>0, <1>1, <1>2 DEF TypeOK
  <1>5. OneFlight'
    <2>1. \A u \in Threads : Idle(u)' <=> Idle(u)  BY <1>0, <1>1, <1>3 DEF Idle
    <2>. QED  BY <1>2, <2>1 DEF OneFlight
  <1>6. PendingIsCurrent' /\ AcceptedOnce' /\ FutureUntouched'
    BY <1>2 DEF PendingIsCurrent, KeyedById, AcceptedOnce, FutureUntouched
  <1>7. AcceptedIsRecorded'
    <2> SUFFICES ASSUME NEW e \in EventIds, accepts[e][core.generation] > 0, e \notin core.delivered
                 PROVE  \E u \in Threads : calls'[u].phase = "accepted"
                           /\ calls'[u].generation = core.generation /\ e \in IdsOf(calls'[u].events)
      BY <1>2 DEF AcceptedIsRecorded
    <2>1. PICK u \in Threads : calls[u].phase = "accepted"
               /\ calls[u].generation = core.generation /\ e \in IdsOf(calls[u].events)
      BY DEF AcceptedIsRecorded
    <2>2. u # t  BY <1>0, <2>1
    <2>. QED  BY <1>3, <2>1, <2>2
  <1>8. CallsBegun'
    <2>1. \A u \in Threads : /\ KeyedById(calls'[u].events)
                             /\ calls'[u].phase # "none" =>
                                   calls'[u].generation <= core.generation /\ core.version # 0
      BY <1>0, <1>1, <1>3 DEF CallsBegun, Idle
    <2>. QED  BY <1>2, <2>1 DEF CallsBegun, Idle, KeyedById
  <1>9. CallsCounted'
    BY <1>1, <1>2, <1>3 DEF CallsCounted
  <1>. QED  BY <1>4, <1>5, <1>6, <1>7, <1>8, <1>9

\* The events of a settled delivery that go back into the core keep it well formed.
LEMMA RequeuedFacts ==
  ASSUME NEW c \in Core, NEW S \in SUBSET Events, KeyedById(S), KeyedById(c.pending),
         \A e \in c.pending : e.version = c.version /\ e.id \notin c.delivered,
         c.version \in Versions
  PROVE  LET d == Requeued(c, S)
         IN  /\ d \in Core /\ KeyedById(d.pending)
             /\ \A e \in d.pending : e.version = d.version /\ e.id \notin d.delivered
             /\ d.version = c.version /\ d.generation = c.generation
             /\ d.delivered = c.delivered /\ d.inflight = c.inflight
             /\ IdsOf(S) \subseteq d.delivered \cup IdsOf(d.pending)
             /\ c.pending \subseteq d.pending
  <1> DEFINE missing == {e \in S : e.id \notin c.delivered \cup IdsOf(c.pending)}
             moved == {[e EXCEPT !.version = c.version] : e \in missing}
             d == [c EXCEPT !.pending = @ \cup moved]
  <1>1. \A e \in missing : /\ [e EXCEPT !.version = c.version] \in Events
                           /\ [e EXCEPT !.version = c.version].id = e.id
                           /\ [e EXCEPT !.version = c.version].version = c.version
    BY DEF Events
  <1>2. moved \in SUBSET Events  BY <1>1
  <1>3. ASSUME NEW f \in moved
        PROVE  f.version = c.version /\ f.id \notin c.delivered \cup IdsOf(c.pending)
    <2>1. PICK e \in missing : f = [e EXCEPT !.version = c.version]  OBVIOUS
    <2>. QED  BY <1>1, <2>1
  <1>4. KeyedById(moved)
    <2> SUFFICES ASSUME NEW f \in moved, NEW h \in moved, f.id = h.id PROVE f = h
      BY DEF KeyedById
    <2>1. PICK e \in missing : f = [e EXCEPT !.version = c.version]  OBVIOUS
    <2>2. PICK k \in missing : h = [k EXCEPT !.version = c.version]  OBVIOUS
    <2>3. e.id = k.id  BY <1>1, <2>1, <2>2
    <2>4. e = k  BY <2>3 DEF KeyedById
    <2>. QED  BY <2>1, <2>2, <2>4
  <1>5. IdsOf(missing) = IdsOf(moved)  BY <1>1 DEF IdsOf
  <1>6. IdsOf(S) \subseteq c.delivered \cup IdsOf(c.pending) \cup IdsOf(missing)
    BY DEF IdsOf
  <1>7. Requeued(c, S) = d  BY DEF Requeued
  <1> HIDE DEF moved, missing
  <1>8. /\ d \in Core /\ d.pending = c.pending \cup moved /\ d.version = c.version
        /\ d.generation = c.generation /\ d.delivered = c.delivered /\ d.inflight = c.inflight
    BY <1>2, CoreFields DEF Core
  <1>9. KeyedById(c.pending \cup moved)  BY <1>3, <1>4 DEF KeyedById, IdsOf
  <1>10. IdsOf(c.pending \cup moved) = IdsOf(c.pending) \cup IdsOf(moved)  BY DEF IdsOf
  <1> HIDE DEF d
  <1>. QED  BY <1>3, <1>5, <1>6, <1>7, <1>8, <1>9, <1>10

\* A delivery that its own generation accepted leaves pending for the ledger.
LEMMA DeliveredFacts ==
  ASSUME NEW c \in Core, NEW call \in Calls, KeyedById(c.pending),
         \A e \in c.pending : e.version = c.version /\ e.id \notin c.delivered
  PROVE  LET d == Delivered(c, call)
         IN  /\ d \in Core /\ KeyedById(d.pending)
             /\ \A e \in d.pending : e.version = d.version /\ e.id \notin d.delivered
             /\ d.version = c.version /\ d.generation = c.generation
             /\ d.delivered = c.delivered \cup IdsOf(call.events) /\ d.inflight = c.inflight
             /\ IdsOf(c.pending) \subseteq IdsOf(d.pending) \cup d.delivered
  <1> DEFINE rest == {e \in c.pending : e.id \notin IdsOf(call.events)}
             taken == c.delivered \cup IdsOf(call.events)
             c1 == [c EXCEPT !.pending = rest]
             d == [c1 EXCEPT !.delivered = taken]
  <1>1. rest \in SUBSET Events /\ taken \in SUBSET EventIds
    BY CallEvents, IdsAreIds DEF Core
  <1>2. Delivered(c, call) = d  BY DEF Delivered, Core
  <1>3. KeyedById(rest) /\ \A e \in rest : e.version = c.version /\ e.id \notin taken
    BY DEF KeyedById
  <1>4. IdsOf(c.pending) \subseteq IdsOf(rest) \cup taken  BY DEF IdsOf
  <1> HIDE DEF rest, taken
  <1>5. c1 \in Core /\ c1.pending = rest /\ c1.version = c.version
        /\ c1.generation = c.generation /\ c1.inflight = c.inflight
    BY <1>1, CoreFields DEF Core
  <1> HIDE DEF c1
  <1>6. /\ d \in Core /\ d.pending = rest /\ d.version = c.version /\ d.delivered = taken
        /\ d.generation = c.generation /\ d.inflight = c.inflight
    BY <1>1, <1>5, CoreFields DEF Core
  <1> HIDE DEF d
  <1>. QED  BY <1>2, <1>3, <1>4, <1>6 DEF taken

\* The core a settled delivery leaves.
LEMMA SettledFacts ==
  ASSUME DeliveryInv, NEW t \in Threads, calls[t].phase \in {"accepted", "rejected"}
  PROVE  LET d == Settled(t)
         IN  /\ d \in Core /\ KeyedById(d.pending)
             /\ \A e \in d.pending : e.version = d.version /\ e.id \notin d.delivered
             /\ d.version = core.version /\ d.generation = core.generation
             /\ d.inflight = NoThread
             /\ \/ /\ calls[t].phase = "accepted" /\ calls[t].generation = core.generation
                   /\ d.delivered = core.delivered \cup IdsOf(calls[t].events)
                \/ /\ ~(calls[t].phase = "accepted" /\ calls[t].generation = core.generation)
                   /\ d.delivered = core.delivered
             /\ IdsOf(calls[t].events) \subseteq d.delivered \cup IdsOf(d.pending)
             /\ IdsOf(core.pending) \subseteq d.delivered \cup IdsOf(d.pending)
  <1> USE DEF DeliveryInv
  <1> DEFINE c == [core EXCEPT !.inflight = IF @ = t THEN NoThread ELSE @]
  <1>0. /\ core \in Core /\ calls[t] \in Calls /\ core.inflight = t
        /\ KeyedById(calls[t].events) /\ core.version # 0
        /\ calls[t].events \in SUBSET Events
    BY CallEvents DEF TypeOK, OneFlight, Idle, CallsBegun
  <1>1. /\ c \in Core /\ c.pending = core.pending /\ c.version = core.version
        /\ c.generation = core.generation /\ c.delivered = core.delivered
        /\ c.inflight = NoThread
    BY <1>0, CoreFields DEF Core
  <1>2. Settled(t) = IF calls[t].phase = "accepted" /\ c.generation = calls[t].generation
                     THEN Delivered(c, calls[t]) ELSE Requeued(c, calls[t].events)
    BY DEF Settled
  <1>3. c.version \in Versions  BY <1>0, <1>1, DeliveryAssumption DEF Core, Versions
  <1>4. KeyedById(c.pending) /\ \A e \in c.pending : e.version = c.version /\ e.id \notin c.delivered
    BY <1>1 DEF PendingIsCurrent
  <1> HIDE DEF c, DeliveryInv
  <1>5. CASE calls[t].phase = "accepted" /\ c.generation = calls[t].generation
    BY <1>0, <1>1, <1>2, <1>4, <1>5, DeliveredFacts
  <1>6. CASE ~(calls[t].phase = "accepted" /\ c.generation = calls[t].generation)
    <2> DEFINE d == Requeued(c, calls[t].events)
    <2>1. /\ d \in Core /\ KeyedById(d.pending)
          /\ \A e \in d.pending : e.version = d.version /\ e.id \notin d.delivered
          /\ d.version = c.version /\ d.generation = c.generation
          /\ d.delivered = c.delivered /\ d.inflight = c.inflight
          /\ IdsOf(calls[t].events) \subseteq d.delivered \cup IdsOf(d.pending)
          /\ c.pending \subseteq d.pending
      BY <1>0, <1>1, <1>3, <1>4, RequeuedFacts
    <2>2. IdsOf(c.pending) \subseteq IdsOf(d.pending)  BY <2>1 DEF IdsOf
    <2>3. Settled(t) = d  BY <1>2, <1>6
    <2> HIDE DEF d
    <2>. QED  BY <1>1, <1>6, <2>1, <2>2, <2>3
  <1>. QED  BY <1>5, <1>6

LEMMA FinishStep == ASSUME DeliveryInv, NEW t \in Threads, Finish(t) PROVE DeliveryInv'
  <1> USE DEF DeliveryInv
  <1> DEFINE ids == IdsOf(calls[t].events)
             Won == calls[t].phase = "accepted" /\ calls[t].generation = core.generation
  <1>0. /\ core \in Core /\ calls \in [Threads -> Calls]
        /\ calls[t].phase \in {"accepted", "rejected"} /\ core.inflight = t
        /\ core' = Settled(t) /\ calls' = [calls EXCEPT ![t] = NoCall]
        /\ UNCHANGED <<handed, accepts>>
    BY DEF TypeOK, Finish, OneFlight, Idle
  <1>1. /\ core' \in Core /\ KeyedById(core'.pending)
        /\ \A e \in core'.pending : e.version = core'.version /\ e.id \notin core'.delivered
        /\ core'.version = core.version /\ core'.generation = core.generation
        /\ core'.inflight = NoThread
        /\ \/ Won /\ core'.delivered = core.delivered \cup ids
           \/ ~Won /\ core'.delivered = core.delivered
    <2> HIDE DEF DeliveryInv
    <2>. QED  BY <1>0, SettledFacts
  <1>2. \A u \in Threads : u # t => calls[u].phase = "none"  BY <1>0 DEF OneFlight, Idle
  <1>3. \A u \in Threads : calls'[u] = NoCall
    <2> SUFFICES ASSUME NEW u \in Threads PROVE calls'[u] = NoCall  OBVIOUS
    <2>1. CASE u = t  BY <1>0, <2>1
    <2>2. CASE u # t  BY <1>0, <1>2, <2>2, CallEvents
    <2>. QED  BY <2>1, <2>2
  <1>4. TypeOK'  BY <1>0, <1>1, NoCallFacts DEF TypeOK
  <1>5. OneFlight'  BY <1>1, <1>3, NoCallFacts, DeliveryAssumption DEF OneFlight, Idle
  <1>6. PendingIsCurrent'  BY <1>1 DEF PendingIsCurrent, KeyedById
  <1>7. \A e \in ids : Won => accepts[e][core.generation] = 1  BY DEF CallsCounted
  <1>8. AcceptedOnce'  BY <1>0, <1>1, <1>7 DEF AcceptedOnce
  <1>9. AcceptedIsRecorded'
    <2> SUFFICES ASSUME NEW e \in EventIds, accepts[e][core.generation] > 0
                 PROVE  e \in core'.delivered
      BY <1>0, <1>1 DEF AcceptedIsRecorded
    <2>1. CASE e \in core.delivered  BY <1>1, <2>1
    <2>2. CASE e \notin core.delivered
      <3>1. PICK u \in Threads : calls[u].phase = "accepted"
                 /\ calls[u].generation = core.generation /\ e \in IdsOf(calls[u].events)
        BY <2>2 DEF AcceptedIsRecorded
      <3>2. u = t  BY <1>2, <3>1
      <3>. QED  BY <1>1, <3>1, <3>2
    <2>. QED  BY <2>1, <2>2
  <1>10. FutureUntouched'  BY <1>0, <1>1 DEF FutureUntouched
  <1>11. CallsBegun' /\ CallsCounted'
    BY <1>3, NoCallFacts DEF CallsBegun, CallsCounted, Idle, KeyedById
  <1>. QED  BY <1>4, <1>5, <1>6, <1>8, <1>9, <1>10, <1>11

LEMMA DeliveryStep == DeliveryInv /\ [Next]_vars => DeliveryInv'
  <1> SUFFICES ASSUME DeliveryInv, [Next]_vars PROVE DeliveryInv'  OBVIOUS
  <1>0. handed \in [Threads -> SUBSET Events]  BY DEF DeliveryInv, TypeOK
  <1>1. ASSUME NEW t \in Threads, NEW v \in Versions, SetActiveBinding(t, v)
        PROVE  DeliveryInv'
    BY <1>1, SwitchStep
  <1>2. ASSUME NEW t \in Threads, NEW s \in Statuses \ {"none"}, SetTargetStatus(t, s)
        PROVE  DeliveryInv'
    BY <1>2, StatusStep
  <1>3. ASSUME NEW t \in Threads, NEW e \in Events, Produce(t, e)  PROVE DeliveryInv'
    BY <1>0, <1>3, IngestStep DEF Produce
  <1>4. ASSUME NEW t \in Threads, NEW e \in Events, GiveBack(t, e)  PROVE DeliveryInv'
    <2>1. handed' \in [Threads -> SUBSET Events]  BY <1>0, <1>4 DEF GiveBack
    <2>. QED  BY <1>4, <2>1, IngestStep DEF GiveBack
  <1>5. ASSUME NEW t \in Threads, Flush(t)  PROVE DeliveryInv'
    BY <1>5, CoreFlushes
  <1>6. ASSUME NEW t \in Threads, AdapterAccepts(t) \/ AdapterRejects(t)  PROVE DeliveryInv'
    BY <1>6, AcceptStep, RejectStep
  <1>7. ASSUME NEW t \in Threads, Finish(t)  PROVE DeliveryInv'
    BY <1>7, FinishStep
  <1>8. CASE UNCHANGED vars
    BY <1>8 DEF vars, DeliveryInv, TypeOK, OneFlight, PendingIsCurrent, AcceptedOnce,
       AcceptedIsRecorded, CallsBegun, FutureUntouched, CallsCounted, Idle, KeyedById
  <1>. QED  BY <1>1, <1>2, <1>3, <1>4, <1>5, <1>6, <1>7, <1>8 DEF Next

\* The invariant of the core holds in every reachable state.
THEOREM DeliveryCorrect == Spec => []DeliveryInv
  BY DeliveryInit, DeliveryStep, PTL DEF Spec

\* At most one thread is in an adapter call of the scope, whatever binding switches fall
\* into it, and it is the one the inflight mark names; what waits is of the active binding,
\* once per event, and not delivered to it yet.
THEOREM CoreIsSafe == Spec => []CoreSafe
  <1>1. DeliveryInv => CoreSafe  BY DEF DeliveryInv, CoreSafe
  <1>. QED  BY <1>1, DeliveryCorrect, PTL

\* No generation accepts an event twice; its ledger holds what it accepted, all of it once
\* the calls are settled.
THEOREM LedgerCorrect == Spec => []LedgerIsTrue
  <1>1. DeliveryInv => LedgerIsTrue  BY DEF DeliveryInv, LedgerIsTrue
  <1>. QED  BY <1>1, DeliveryCorrect, PTL

\* What a locked section does to the events held: those of the core it leaves stay.
LEMMA LockKeeps ==
  ASSUME DeliveryInv, NEW t \in Threads, Idle(t), NEW c \in Core, LeaveLock(t, c)
  PROVE  /\ core'.pending = c.pending /\ core'.delivered = c.delivered
         /\ \A u \in Threads : calls[u].events \subseteq calls'[u].events
  <1>1. calls \in [Threads -> Calls] /\ calls[t] \in Calls  BY DEF DeliveryInv, TypeOK
  <1>2. calls[t].events = {}  BY <1>1, CallEvents, NoCallFacts DEF Idle
  <1>. QED  BY <1>1, <1>2 DEF LeaveLock, Core

\* What one step does to the events the core holds.
LEMMA HeldStep ==
  ASSUME DeliveryInv, [Next]_vars, NEW i \in Held, i \notin Held'
  PROVE  i \in core'.delivered \/ \E t \in Threads : i \in IdsOf(handed'[t])
  <1> DEFINE Safe == i \in core'.delivered \/ \E t \in Threads : i \in IdsOf(handed'[t])
  <1>0. /\ core \in Core /\ core.pending \in SUBSET Events
        /\ calls \in [Threads -> Calls] /\ handed \in [Threads -> SUBSET Events]
        /\ KeyedById(core.pending)
        /\ \A d \in core.pending : d.version = core.version
    BY DEF DeliveryInv, TypeOK, Core, PendingIsCurrent
  <1>1. ASSUME IdsOf(core.pending) \subseteq IdsOf(core'.pending),
               \A u \in Threads : calls[u].events \subseteq calls'[u].events
        PROVE  FALSE
    BY <1>1 DEF Held, IdsOf
  <1>2. ASSUME NEW t \in Threads, NEW v \in Versions, SetActiveBinding(t, v)  PROVE Safe
    <2> DEFINE c == [core EXCEPT !.version = v, !.generation = @ + 1,
                                 !.pending = {}, !.delivered = {}]
    <2>1. core' = c /\ calls' = calls
      <3>1. c.pending = {}  BY <1>0 DEF Core
      <3>2. LeaveLock(t, c)  BY <1>2 DEF SetActiveBinding
      <3> HIDE DEF c
      <3>. QED  BY <3>1, <3>2 DEF LeaveLock, CanBegin
    <2>2. i \in IdsOf(core.pending)  BY <2>1 DEF Held
    <2>3. PICK e \in core.pending : e.id = i  BY <2>2 DEF IdsOf
    <2>4. [e EXCEPT !.version = v] \in handed'[t] /\ [e EXCEPT !.version = v].id = i
      BY <1>0, <1>2, <2>3 DEF SetActiveBinding, Events
    <2>5. i \in IdsOf(handed'[t])  BY <2>4 DEF IdsOf
    <2>. QED  BY <2>5
  <1>3. ASSUME NEW t \in Threads, NEW s \in Statuses, SetTargetStatus(t, s)  PROVE Safe
    <2> DEFINE c == [core EXCEPT !.status = s]
    <2>1. c \in Core /\ c.pending = core.pending  BY <1>0, CoreFields DEF Core
    <2>2. LeaveLock(t, c) /\ Idle(t)  BY <1>3 DEF SetTargetStatus
    <2> HIDE DEF c
    <2>. QED  BY <1>1, <2>1, <2>2, LockKeeps
  <1>4. ASSUME NEW t \in Threads, NEW e \in Events, Ingest(t, e)  PROVE Safe
    <2>1. CASE UNCHANGED <<core, calls>>  BY <1>1, <2>1
    <2>2. CASE Merges(e) /\ core' = [core EXCEPT !.pending = Merged(@, e)] /\ UNCHANGED calls
      <3>1. e.version = core.version  BY <2>2 DEF Merges, Stale
      <3>2. IdsOf(Merged(core.pending, e)) = IdsOf(core.pending)  BY <1>0, <3>1, MergedFacts
      <3>3. core'.pending = Merged(core.pending, e)  BY <1>0, <2>2 DEF Core
      <3>. QED  BY <1>1, <2>2, <3>2, <3>3
    <2>3. CASE Queues(e) /\ LeaveLock(t, [core EXCEPT !.pending = @ \cup {e}])
      <3> DEFINE c == [core EXCEPT !.pending = @ \cup {e}]
      <3>1. c \in Core /\ c.pending = core.pending \cup {e}  BY <1>0, CoreFields DEF Core
      <3>2. LeaveLock(t, c) /\ Idle(t)  BY <1>4, <2>3 DEF Ingest
      <3> HIDE DEF c
      <3>3. core'.pending = core.pending \cup {e}
            /\ \A u \in Threads : calls[u].events \subseteq calls'[u].events
        BY <3>1, <3>2, LockKeeps
      <3>4. IdsOf(core.pending) \subseteq IdsOf(core'.pending)  BY <3>3 DEF IdsOf
      <3>. QED  BY <1>1, <3>3, <3>4
    <2>. QED  BY <1>4, <2>1, <2>2, <2>3 DEF Ingest
  <1>5. ASSUME NEW t \in Threads, Flush(t)  PROVE Safe
    <2>1. LeaveLock(t, core) /\ Idle(t)  BY <1>5 DEF Flush
    <2>. QED  BY <1>0, <1>1, <2>1, LockKeeps
  <1>6. ASSUME NEW t \in Threads, AdapterAccepts(t) \/ AdapterRejects(t)  PROVE Safe
    <2>1. core' = core /\ \A u \in Threads : calls[u].events \subseteq calls'[u].events
      <3>1. CASE AdapterAccepts(t)
        <4>1. calls[t] \in Calls /\ calls[t].phase = "calling"
          BY <1>0, <3>1 DEF AdapterAccepts
        <4>2. [calls[t] EXCEPT !.phase = "accepted"].events = calls[t].events
          BY <4>1, PhaseType
        <4>. QED  BY <1>0, <3>1, <4>2 DEF AdapterAccepts
      <3>2. CASE AdapterRejects(t)
        <4>1. calls[t] \in Calls /\ calls[t].phase = "calling"
          BY <1>0, <3>2 DEF AdapterRejects
        <4>2. [calls[t] EXCEPT !.phase = "rejected"].events = calls[t].events
          BY <4>1, PhaseType
        <4>. QED  BY <1>0, <3>2, <4>2 DEF AdapterRejects
      <3>. QED  BY <1>6, <3>1, <3>2
    <2>. QED  BY <1>1, <2>1
  <1>7. ASSUME NEW t \in Threads, Finish(t)  PROVE Safe
    <2>1. /\ calls[t].phase \in {"accepted", "rejected"} /\ core' = Settled(t)
          /\ \A u \in Threads \ {t} : calls'[u] = calls[u]
      BY <1>0, <1>7 DEF Finish
    <2>2. /\ IdsOf(calls[t].events) \subseteq core'.delivered \cup IdsOf(core'.pending)
          /\ IdsOf(core.pending) \subseteq core'.delivered \cup IdsOf(core'.pending)
      BY <2>1, SettledFacts
    <2>3. i \in IdsOf(core.pending) \/ \E u \in Threads : i \in IdsOf(calls[u].events)
      BY DEF Held
    <2>4. \A u \in Threads \ {t} : i \notin IdsOf(calls[u].events)  BY <2>1 DEF Held
    <2>5. i \notin IdsOf(core'.pending)  BY DEF Held
    <2>. QED  BY <2>2, <2>3, <2>4, <2>5
  <1>8. CASE UNCHANGED vars  BY <1>1, <1>8 DEF vars
  <1>. QED
    BY <1>2, <1>3, <1>4, <1>5, <1>6, <1>7, <1>8 DEF Next, Produce, GiveBack

\* No step loses an event: it stays with the core, is in the ledger, or is handed to the
\* caller whose switch of binding displaced it.
THEOREM NothingDropped == Spec => NeverDropped
  <1>1. DeliveryInv /\ [Next]_vars => [HeldIsKept]_vars
    BY HeldStep DEF HeldIsKept
  <1>. QED  BY <1>1, DeliveryCorrect, PTL DEF Spec, NeverDropped

-----------------------------------------------------------------------------
(* The core implements its contract.                                         *)

\* The events that all calls in progress carry.
InCalls == UNION {IdsOf(calls[t].events) : t \in Threads}

\* What the contract calls sent in a generation is what the generation accepted.
LEMMA SentIsAccepted ==
  ASSUME NEW g \in 0..MaxGeneration
  PROVE  Contract!SentIn(g) = {e \in EventIds : accepts[e][g] > 0}
  BY DEF Contract!SentIn, Sent

LEMMA HeldAreIds == ASSUME DeliveryInv PROVE Held \subseteq EventIds
  <1>1. core.pending \in SUBSET Events /\ \A t \in Threads : calls[t].events \in SUBSET Events
    BY CallEvents DEF DeliveryInv, TypeOK, Core
  <1>. QED  BY <1>1, IdsAreIds DEF Held

\* What is held is owed or was sent in the present generation.
LEMMA HeldIsOwed ==
  ASSUME DeliveryInv
  PROVE  Held \subseteq Owed \cup Contract!SentIn(core.generation)
  <1>1. /\ accepts \in [EventIds -> [0..MaxGeneration -> Nat]]
        /\ core.generation \in 0..MaxGeneration
    BY DEF DeliveryInv, TypeOK, Core
  <1>2. \A e \in EventIds : accepts[e][core.generation] \in Nat  BY <1>1
  <1>. QED  BY <1>1, <1>2, HeldAreIds, SentIsAccepted DEF Owed

\* A locked section holds what it leaves pending and what was in calls.
LEMMA LockHolds ==
  ASSUME DeliveryInv, NEW t \in Threads, Idle(t), NEW c \in Core, LeaveLock(t, c)
  PROVE  /\ Held' = IdsOf(c.pending) \cup InCalls
         /\ core'.version = c.version /\ core'.generation = c.generation
  <1>0. calls \in [Threads -> Calls] /\ calls[t] \in Calls  BY DEF DeliveryInv, TypeOK
  <1>1. calls[t].events = {}  BY <1>0, CallEvents, NoCallFacts DEF Idle
  <1>2. /\ core'.pending = c.pending /\ core'.version = c.version
        /\ core'.generation = c.generation
    BY DEF LeaveLock, Core
  <1>3. \A u \in Threads : \/ calls'[u].events = calls[u].events
                           \/ u = t /\ calls'[u].events = c.pending
    BY <1>0 DEF LeaveLock
  <1>4. \A u \in Threads : calls[u].events \subseteq calls'[u].events
    BY <1>1, <1>3
  <1>5. \A u \in Threads : /\ IdsOf(calls[u].events) \subseteq IdsOf(calls'[u].events)
                          /\ \/ IdsOf(calls'[u].events) = IdsOf(calls[u].events)
                             \/ IdsOf(calls'[u].events) = IdsOf(c.pending)
    BY <1>3, <1>4 DEF IdsOf
  <1>6. Held' = IdsOf(c.pending) \cup UNION {IdsOf(calls'[u].events) : u \in Threads}
    BY <1>2 DEF Held, IdsOf
  <1>. QED  BY <1>2, <1>5, <1>6 DEF InCalls

\* A step of the same generation that holds the same, of the same acceptances, owes the
\* same.
LEMMA OwesTheSame ==
  ASSUME Held' = Held, core'.generation = core.generation, accepts' = accepts
  PROVE  Owed' = Owed /\ Sent' = Sent
  BY DEF Owed, Sent

\* An event that is ingested is owed, unless it is of another binding version, or sent.
LEMMA IngestOwes ==
  ASSUME DeliveryInv, NEW t \in Threads, NEW e \in Events, Ingest(t, e)
  PROVE  /\ core'.version = core.version /\ core'.generation = core.generation
         /\ Sent' = Sent
         /\ e.version = core.version =>
               Owed' = Owed \cup ({e.id} \ Contract!SentIn(core.generation))
         /\ e.version # core.version => Owed' = Owed
  <1>0. /\ core \in Core /\ core.pending \in SUBSET Events /\ accepts' = accepts
        /\ KeyedById(core.pending) /\ \A d \in core.pending : d.version = core.version
        /\ core.generation \in 0..MaxGeneration /\ e.id \in EventIds /\ e.version # 0
        /\ Held = IdsOf(core.pending) \cup InCalls
    BY DeliveryAssumption
    DEF DeliveryInv, TypeOK, Core, PendingIsCurrent, Ingest, Events, Versions, Held, InCalls
  <1>1. Sent' = Sent  BY <1>0 DEF Sent
  <1>2. ASSUME Held' = Held, core'.generation = core.generation
        PROVE  Owed' = Owed
    BY <1>0, <1>2, OwesTheSame
  <1>3. Contract!SentIn(core.generation) = {i \in EventIds : accepts[i][core.generation] > 0}
    BY <1>0, SentIsAccepted
  <1>4. \A i \in EventIds : accepts[i][core.generation] \in Nat
    BY <1>0 DEF DeliveryInv, TypeOK
  <1>5. e.id \in Held => e.id \in Owed \cup Contract!SentIn(core.generation)
    BY HeldIsOwed
  <1>6. CASE (Stale(e) \/ AlreadyDelivered(e)) /\ UNCHANGED <<core, calls>>
    <2>1. Held' = Held  BY <1>6 DEF Held, IdsOf
    <2>2. e.version = core.version => e.id \in Contract!SentIn(core.generation)
      <3> SUFFICES ASSUME e.version = core.version
                   PROVE  e.id \in Contract!SentIn(core.generation)
        OBVIOUS
      <3>1. e.id \in core.delivered  BY <1>0, <1>6 DEF Stale, AlreadyDelivered
      <3>2. accepts[e.id][core.generation] = 1  BY <3>1 DEF DeliveryInv, AcceptedOnce
      <3>. QED  BY <1>0, <1>3, <3>2
    <2>. QED  BY <1>1, <1>2, <1>6, <2>1, <2>2
  <1>7. CASE Merges(e) /\ core' = [core EXCEPT !.pending = Merged(@, e)] /\ UNCHANGED calls
    <2>1. e.version = core.version /\ e.id \in IdsOf(core.pending)
      BY <1>7 DEF Merges, Stale
    <2>2. /\ core'.pending = Merged(core.pending, e) /\ core'.version = core.version
          /\ core'.generation = core.generation
      BY <1>0, <1>7 DEF Core
    <2>3. IdsOf(core'.pending) = IdsOf(core.pending)  BY <1>0, <2>1, <2>2, MergedFacts
    <2>4. Held' = IdsOf(core'.pending) \cup UNION {IdsOf(calls'[u].events) : u \in Threads}
      BY DEF Held, IdsOf
    <2>5. Held' = Held  BY <1>0, <1>7, <2>3, <2>4 DEF InCalls
    <2>. QED  BY <1>0, <1>1, <1>2, <1>5, <2>1, <2>2, <2>5
  <1>8. CASE Queues(e) /\ LeaveLock(t, [core EXCEPT !.pending = @ \cup {e}])
    <2> DEFINE c == [core EXCEPT !.pending = @ \cup {e}]
    <2>1. e.version = core.version  BY <1>8 DEF Queues, Stale
    <2>2. /\ c \in Core /\ c.pending = core.pending \cup {e} /\ c.version = core.version
          /\ c.generation = core.generation
      BY <1>0, CoreFields DEF Core
    <2>3. LeaveLock(t, c) /\ Idle(t)  BY <1>8 DEF Ingest
    <2> HIDE DEF c
    <2>4. /\ Held' = IdsOf(c.pending) \cup InCalls
          /\ core'.version = c.version /\ core'.generation = c.generation
      BY <2>2, <2>3, LockHolds
    <2>5. IdsOf(c.pending) = IdsOf(core.pending) \cup {e.id}  BY <2>2 DEF IdsOf
    <2>6. Held' = Held \cup {e.id} /\ core'.generation = core.generation
      BY <1>0, <2>2, <2>4, <2>5
    <2>7. Owed' = {i \in Held' : accepts'[i][core'.generation] = 0}  BY DEF Owed
    <2>8. Owed' = Owed \cup ({e.id} \ Contract!SentIn(core.generation))
      BY <1>0, <1>3, <1>4, <2>6, <2>7 DEF Owed
    <2>. QED  BY <1>1, <2>1, <2>2, <2>4, <2>8
  <1>. QED  BY <1>6, <1>7, <1>8 DEF Ingest

\* What the contract sees of a step that changes none of its variables.
LEMMA ContractStutters ==
  ASSUME core'.version = core.version, core'.generation = core.generation,
         Owed' = Owed, Sent' = Sent, handed' = handed
  PROVE  UNCHANGED Contract!contractVars
  BY DEF Contract!contractVars, Returned

\* A new event is taken, or is dropped because it is of another binding version.
LEMMA ProduceTakes ==
  ASSUME DeliveryInv, NEW t \in Threads, NEW e \in Events, Produce(t, e)
  PROVE  [Contract!ContractNext]_Contract!contractVars
  <1>1. Ingest(t, e) /\ handed' = handed  BY DEF Produce
  <1>2. /\ core'.version = core.version /\ core'.generation = core.generation
        /\ Sent' = Sent
        /\ e.version = core.version =>
              Owed' = Owed \cup ({e.id} \ Contract!SentIn(core.generation))
        /\ e.version # core.version => Owed' = Owed
    BY <1>1, IngestOwes
  <1>3. Returned' = Returned /\ e.id \in EventIds  BY <1>1 DEF Returned, Events
  <1>4. CASE e.version = core.version
    <2>1. Contract!Take(e.id)
      BY <1>2, <1>3, <1>4 DEF Contract!Take, Contract!Owing
    <2>. QED  BY <1>3, <2>1 DEF Contract!ContractNext
  <1>5. CASE e.version # core.version  BY <1>1, <1>2, <1>5, ContractStutters
  <1>. QED  BY <1>4, <1>5

\* A caller gives back what a switch of binding returned to it.
LEMMA GiveBackGives ==
  ASSUME DeliveryInv, NEW t \in Threads, NEW e \in Events, GiveBack(t, e)
  PROVE  Contract!ContractNext
  <1> DEFINE x == <<e.id, e.version>>
  <1>1. /\ Ingest(t, e) /\ e \in handed[t] /\ handed \in [Threads -> SUBSET Events]
        /\ handed' = [handed EXCEPT ![t] = @ \ {e}]
    BY DEF GiveBack, DeliveryInv, TypeOK
  <1>2. /\ core'.version = core.version /\ core'.generation = core.generation
        /\ Sent' = Sent
        /\ e.version = core.version =>
              Owed' = Owed \cup ({e.id} \ Contract!SentIn(core.generation))
        /\ e.version # core.version => Owed' = Owed
    BY <1>1, IngestOwes
  <1>3. x \in Returned  BY <1>1 DEF Returned
  <1>4. \A u \in Threads : handed'[u] \subseteq handed[u] /\ handed[u] \ {e} \subseteq handed'[u]
    BY <1>1
  <1>5. Returned' \subseteq Returned
    BY <1>4 DEF Returned
  <1>6. Returned \ {x} \subseteq Returned'
    BY <1>4 DEF Returned
  <1>7. Returned' \in {Returned, Returned \ {x}}
    <2> HIDE DEF x
    <2>. QED  BY <1>3, <1>5, <1>6
  <1>8. Contract!GiveBack(x[1], x[2])
    <2>1. x[1] = e.id /\ x[2] = e.version  OBVIOUS
    <2>2. <<x[1], x[2]>> = x  OBVIOUS
    <2> HIDE DEF x
    <2>. QED
      BY <1>2, <1>3, <1>7, <2>1, <2>2 DEF Contract!GiveBack, Contract!Owing
  <1>. QED  BY <1>3, <1>8 DEF Contract!ContractNext

\* A switch of binding returns what waits to the caller; what is in a call stays owed.
LEMMA SwitchSwitches ==
  ASSUME DeliveryInv, NEW t \in Threads, NEW v \in Versions, SetActiveBinding(t, v)
  PROVE  Contract!ContractNext
  <1> DEFINE c == [core EXCEPT !.version = v, !.generation = @ + 1,
                               !.pending = {}, !.delivered = {}]
             S == IdsOf(core.pending)
             moved == {[e EXCEPT !.version = v] : e \in core.pending}
  <1>0. /\ core \in Core /\ core.pending \in SUBSET Events /\ calls \in [Threads -> Calls]
        /\ handed \in [Threads -> SUBSET Events] /\ accepts' = accepts
        /\ core.generation \in 0..MaxGeneration /\ core.generation + 1 \in 0..MaxGeneration
        /\ v # core.version /\ v \in Nat
    BY DeliveryAssumption DEF DeliveryInv, TypeOK, Core, SetActiveBinding, Versions
  <1>1. core' = c /\ calls' = calls
    <2>1. c.pending = {}  BY <1>0 DEF Core
    <2>2. LeaveLock(t, c)  BY DEF SetActiveBinding
    <2> HIDE DEF c
    <2>. QED  BY <2>1, <2>2 DEF LeaveLock, CanBegin
  <1>2. /\ core'.version = v /\ core'.generation = core.generation + 1 /\ core'.pending = {}
    BY <1>0, <1>1 DEF Core
  <1>3. Held' = InCalls
    <2>1. Held' = IdsOf(core'.pending) \cup UNION {IdsOf(calls'[u].events) : u \in Threads}
      BY DEF Held, IdsOf
    <2>2. IdsOf(core'.pending) = {}  BY <1>2 DEF IdsOf
    <2>. QED  BY <1>1, <2>1, <2>2 DEF InCalls
  <1>4. Held = S \cup InCalls  BY DEF Held, InCalls
  <1>5. Owed' = InCalls
    <2>1. Owed' = {e \in Held' : accepts'[e][core'.generation] = 0}  BY DEF Owed
    <2>2. \A e \in InCalls : accepts[e][core.generation + 1] = 0
      BY <1>0, <1>4, HeldAreIds DEF DeliveryInv, FutureUntouched
    <2>. QED  BY <1>0, <1>2, <1>3, <2>1, <2>2
  <1>6. /\ S \subseteq Owed \cup Contract!SentIn(core.generation)
        /\ Owed' \subseteq Owed \cup Contract!SentIn(core.generation)
        /\ Owed \ S \subseteq Owed' /\ S \in SUBSET EventIds
    BY <1>4, <1>5, HeldIsOwed, HeldAreIds DEF Owed
  <1>7. Returned' = Returned \cup (S \X {v})
    <2>1. \A e \in core.pending : /\ [e EXCEPT !.version = v].id = e.id
                                  /\ [e EXCEPT !.version = v].version = v
      BY <1>0 DEF Events
    <2>2. {<<e.id, e.version>> : e \in moved} = S \X {v}
      <3>1. ASSUME NEW e \in moved  PROVE <<e.id, e.version>> \in S \X {v}
        <4>1. PICK d \in core.pending : e = [d EXCEPT !.version = v]  OBVIOUS
        <4>2. e.id = d.id /\ e.version = v /\ d.id \in S  BY <2>1, <4>1 DEF IdsOf
        <4>. QED  BY <4>2
      <3>2. ASSUME NEW x \in S \X {v}
            PROVE  \E e \in moved : x = <<e.id, e.version>>
        <4>1. PICK d \in core.pending : x = <<d.id, v>>  BY DEF IdsOf
        <4>2. [d EXCEPT !.version = v] \in moved  OBVIOUS
        <4>. QED  BY <2>1, <4>1, <4>2
      <3> HIDE DEF S, moved
      <3>. QED  BY <3>1, <3>2
    <2>3. handed' = [handed EXCEPT ![t] = @ \cup moved]  BY DEF SetActiveBinding
    <2> HIDE DEF S, moved
    <2>4. UNION {handed'[u] : u \in Threads} = (UNION {handed[u] : u \in Threads}) \cup moved
      BY <1>0, <2>3
    <2>5. Returned' = {<<e.id, e.version>> : e \in UNION {handed'[u] : u \in Threads}}
      BY DEF Returned
    <2>. QED  BY <2>2, <2>4, <2>5 DEF Returned
  <1>8. Sent' = Sent  BY <1>0 DEF Sent
  <1> HIDE DEF S, c
  <1>9. Contract!Switch(S)
    BY <1>0, <1>2, <1>6, <1>7, <1>8 DEF Contract!Switch
  <1>. QED  BY <1>6, <1>9 DEF Contract!ContractNext

\* The acceptance of a call is the acceptance of its events.
LEMMA AcceptAccepts ==
  ASSUME DeliveryInv, NEW t \in Threads, AdapterAccepts(t)
  PROVE  Contract!ContractNext
  <1> DEFINE g == calls[t].generation
             ids == IdsOf(calls[t].events)
             call == [calls[t] EXCEPT !.phase = "accepted"]
  <1>0. /\ core \in Core /\ calls \in [Threads -> Calls] /\ calls[t] \in Calls
        /\ accepts \in [EventIds -> [0..MaxGeneration -> Nat]]
        /\ calls[t].phase = "calling" /\ core.generation \in 0..MaxGeneration
        /\ core' = core /\ handed' = handed /\ g <= core.generation
    BY DEF DeliveryInv, TypeOK, AdapterAccepts, Core, CallsBegun, Idle
  <1>1. g \in 0..MaxGeneration /\ calls[t].events # {} /\ calls[t].events \in SUBSET Events
    BY <1>0, CallEvents
  <1>2. ids # {} /\ ids \subseteq EventIds  BY <1>1, IdsAreIds DEF IdsOf
  <1>3. \A e \in ids : accepts[e][g] = 0  BY <1>0 DEF DeliveryInv, CallsCounted
  <1>4. \A e \in EventIds, h \in 0..MaxGeneration :
            accepts'[e][h] = IF e \in ids /\ h = g THEN 1 ELSE accepts[e][h]
    BY AcceptsMove
  <1>5. call.events = calls[t].events /\ calls' = [calls EXCEPT ![t] = call]
    BY <1>0, PhaseType DEF AdapterAccepts
  <1>6. Held' = Held /\ ids \subseteq Held
    <2>1. \A u \in Threads : calls'[u].events = calls[u].events
      <3> HIDE DEF call
      <3>. QED  BY <1>0, <1>5
    <2>2. Held' = IdsOf(core'.pending) \cup UNION {IdsOf(calls'[u].events) : u \in Threads}
      BY DEF Held, IdsOf
    <2>3. \A u \in Threads : IdsOf(calls'[u].events) = IdsOf(calls[u].events)  BY <2>1
    <2>. QED  BY <1>0, <2>2, <2>3 DEF Held
  <1> HIDE DEF ids, g, call
  <1>7. Owed' = IF g = core.generation THEN Owed \ ids ELSE Owed
    <2>1. Owed' = {e \in Held : accepts'[e][core.generation] = 0}
      BY <1>0, <1>6 DEF Owed
    <2>. QED  BY <1>0, <1>4, <2>1, HeldAreIds DEF Owed
  <1>8. Sent' = Sent \cup (ids \X {g})
    <2>1. \A e \in EventIds, h \in 0..MaxGeneration :
              accepts'[e][h] > 0 <=> (e \in ids /\ h = g) \/ accepts[e][h] > 0
      BY <1>4
    <2>2. \A x \in EventIds \X (0..MaxGeneration) :
              accepts'[x[1]][x[2]] > 0 <=> x \in ids \X {g} \/ accepts[x[1]][x[2]] > 0
      BY <2>1
    <2>3. ids \X {g} \subseteq EventIds \X (0..MaxGeneration)  BY <1>1, <1>2
    <2>4. Sent' = {x \in EventIds \X (0..MaxGeneration) : accepts'[x[1]][x[2]] > 0}
      BY DEF Sent
    <2>. QED  BY <2>2, <2>3, <2>4 DEF Sent
  <1>9. ids \cap Contract!SentIn(g) = {}  BY <1>1, <1>3, SentIsAccepted
  <1>10. ids \subseteq Owed \cup Contract!SentIn(core.generation)  BY <1>6, HeldIsOwed
  <1>11. Returned' = Returned  BY <1>0 DEF Returned
  <1>12. Contract!Accept(ids, g)
    BY <1>0, <1>2, <1>7, <1>8, <1>9, <1>10, <1>11 DEF Contract!Accept
  <1>13. g \in 0..core.generation  BY <1>0, <1>1
  <1>. QED  BY <1>2, <1>12, <1>13 DEF Contract!ContractNext

\* A delivery that is settled puts nothing into the core but what it carried.
LEMMA SettledFrom ==
  ASSUME DeliveryInv, NEW t \in Threads
  PROVE  IdsOf(Settled(t).pending) \subseteq IdsOf(core.pending) \cup IdsOf(calls[t].events)
  <1> DEFINE call == calls[t]
             c == [core EXCEPT !.inflight = IF @ = t THEN NoThread ELSE @]
             left == {e \in c.pending : e.id \notin IdsOf(call.events)}
             missing == {e \in call.events : e.id \notin c.delivered \cup IdsOf(c.pending)}
             moved == {[e EXCEPT !.version = c.version] : e \in missing}
  <1>0. core \in Core /\ call.events \in SUBSET Events
    BY CallEvents DEF DeliveryInv, TypeOK
  <1>1. c \in Core /\ c.pending = core.pending  BY <1>0 DEF Core
  <1>2. Settled(t) \in {Delivered(c, call), Requeued(c, call.events)}  BY DEF Settled
  <1>3. \A e \in missing : [e EXCEPT !.version = c.version].id = e.id  BY <1>0 DEF Events
  <1>4. IdsOf(left) \subseteq IdsOf(core.pending)  BY <1>1 DEF IdsOf
  <1>5. IdsOf(c.pending \cup moved) \subseteq IdsOf(core.pending) \cup IdsOf(call.events)
    BY <1>1, <1>3 DEF IdsOf
  <1>6. Requeued(c, call.events).pending = c.pending \cup moved
    BY <1>1 DEF Requeued, Core
  <1>7. Delivered(c, call).pending = left  BY <1>1 DEF Delivered, Core
  <1>. QED  BY <1>2, <1>4, <1>5, <1>6, <1>7

\* What a settled delivery did not deliver stays owed.
LEMMA FinishOwes ==
  ASSUME DeliveryInv, NEW t \in Threads, Finish(t)
  PROVE  UNCHANGED Contract!contractVars
  <1> DEFINE g == core.generation
  <1>0. /\ core \in Core /\ calls \in [Threads -> Calls]
        /\ calls[t].phase \in {"accepted", "rejected"}
        /\ core' = Settled(t) /\ calls' = [calls EXCEPT ![t] = NoCall]
        /\ handed' = handed /\ accepts' = accepts
    BY DEF DeliveryInv, TypeOK, Finish
  <1>1. /\ core'.version = core.version /\ core'.generation = core.generation
        /\ IdsOf(calls[t].events) \subseteq core'.delivered \cup IdsOf(core'.pending)
        /\ IdsOf(core.pending) \subseteq core'.delivered \cup IdsOf(core'.pending)
    BY <1>0, SettledFacts
  <1>2. IdsOf(core'.pending) \subseteq IdsOf(core.pending) \cup IdsOf(calls[t].events)
    BY <1>0, SettledFrom
  <1>3. DeliveryInv'  BY FinishStep
  <1>4. \A e \in core'.delivered : accepts[e][g] # 0
    BY <1>0, <1>1, <1>3 DEF DeliveryInv, AcceptedOnce
  <1>5. \A u \in Threads : u # t => calls'[u] = calls[u]  BY <1>0
  <1>6. IdsOf(calls'[t].events) = {}  BY <1>0, NoCallFacts
  <1>7. Held' = IdsOf(core'.pending) \cup UNION {IdsOf(calls'[u].events) : u \in Threads}
    BY DEF Held, IdsOf
  <1>8. Held' \subseteq Held  BY <1>2, <1>5, <1>6, <1>7 DEF Held
  <1>9. \A e \in Held \ Held' : e \in core'.delivered
    BY <1>1, <1>5, <1>7 DEF Held
  <1>10. Owed' = {e \in Held' : accepts[e][g] = 0}  BY <1>0, <1>1 DEF Owed
  <1>11. Owed' = Owed  BY <1>4, <1>8, <1>9, <1>10 DEF Owed
  <1>12. Sent' = Sent  BY <1>0 DEF Sent
  <1>. QED  BY <1>0, <1>1, <1>11, <1>12, ContractStutters

\* A locked section that brings no event changes nothing the contract speaks of.
LEMMA LockStutters ==
  ASSUME DeliveryInv, NEW t \in Threads, Idle(t), NEW c \in Core, LeaveLock(t, c),
         c.pending = core.pending, c.version = core.version,
         c.generation = core.generation, accepts' = accepts, handed' = handed
  PROVE  UNCHANGED Contract!contractVars
  <1>1. /\ Held' = IdsOf(c.pending) \cup InCalls
        /\ core'.version = c.version /\ core'.generation = c.generation
    BY LockHolds
  <1>2. Held' = Held  BY <1>1 DEF Held, InCalls
  <1>3. Owed' = Owed /\ Sent' = Sent  BY <1>1, <1>2, OwesTheSame
  <1>. QED  BY <1>1, <1>3, ContractStutters

\* A rejected call still carries its events.
LEMMA RejectOwes ==
  ASSUME DeliveryInv, NEW t \in Threads, AdapterRejects(t)
  PROVE  UNCHANGED Contract!contractVars
  <1> DEFINE call == [calls[t] EXCEPT !.phase = "rejected"]
  <1>0. /\ calls \in [Threads -> Calls] /\ calls[t] \in Calls /\ calls[t].phase = "calling"
        /\ UNCHANGED <<core, handed, accepts>>
    BY DEF DeliveryInv, TypeOK, AdapterRejects
  <1>1. call.events = calls[t].events /\ calls' = [calls EXCEPT ![t] = call]
    BY <1>0, PhaseType DEF AdapterRejects
  <1> HIDE DEF call
  <1>2. \A u \in Threads : calls'[u].events = calls[u].events  BY <1>0, <1>1
  <1>3. \A u \in Threads : IdsOf(calls'[u].events) = IdsOf(calls[u].events)  BY <1>2
  <1>4. Held' = IdsOf(core'.pending) \cup UNION {IdsOf(calls'[u].events) : u \in Threads}
    BY DEF Held, IdsOf
  <1>5. Held' = Held  BY <1>0, <1>3, <1>4 DEF Held
  <1>6. Owed' = Owed /\ Sent' = Sent  BY <1>0, <1>5, OwesTheSame
  <1>. QED  BY <1>0, <1>6, ContractStutters

LEMMA ContractStarts == Init => Contract!ContractInit
  <1> SUFFICES ASSUME Init PROVE Contract!ContractInit  OBVIOUS
  <1>1. /\ core.version = 0 /\ core.generation = 0 /\ core.pending = {}
        /\ \A t \in Threads : calls[t] = NoCall /\ handed[t] = {}
        /\ \A e \in EventIds, g \in 0..MaxGeneration : accepts[e][g] = 0
    BY DEF Init, NewCore, NoCalls, NoneHanded, NoAccepts
  <1>2. Held = {}  BY <1>1, NoCallFacts DEF Held, IdsOf
  <1>3. Owed = {} /\ Sent = {} /\ Returned = {}  BY <1>1, <1>2 DEF Owed, Sent, Returned
  <1>. QED  BY <1>1, <1>3 DEF Contract!ContractInit

LEMMA ContractStep ==
  DeliveryInv /\ [Next]_vars => [Contract!ContractNext]_Contract!contractVars
  <1> SUFFICES ASSUME DeliveryInv, [Next]_vars
               PROVE  [Contract!ContractNext]_Contract!contractVars
    OBVIOUS
  <1>0. core \in Core  BY DEF DeliveryInv, TypeOK
  <1>1. ASSUME NEW t \in Threads, NEW v \in Versions, SetActiveBinding(t, v)
        PROVE  Contract!ContractNext
    BY <1>1, SwitchSwitches
  <1>2. ASSUME NEW t \in Threads, NEW s \in Statuses \ {"none"}, SetTargetStatus(t, s)
        PROVE  UNCHANGED Contract!contractVars
    <2> DEFINE c == [core EXCEPT !.status = s]
    <2>1. /\ c \in Core /\ c.pending = core.pending /\ c.version = core.version
          /\ c.generation = core.generation
      BY <1>0, CoreFields DEF Core
    <2>2. LeaveLock(t, c) /\ Idle(t) /\ accepts' = accepts /\ handed' = handed
      BY <1>2 DEF SetTargetStatus
    <2> HIDE DEF c
    <2>. QED  BY <2>1, <2>2, LockStutters
  <1>3. ASSUME NEW t \in Threads, NEW e \in Events, Produce(t, e)
        PROVE  [Contract!ContractNext]_Contract!contractVars
    BY <1>3, ProduceTakes
  <1>4. ASSUME NEW t \in Threads, NEW e \in Events, GiveBack(t, e)
        PROVE  Contract!ContractNext
    BY <1>4, GiveBackGives
  <1>5. ASSUME NEW t \in Threads, Flush(t)  PROVE UNCHANGED Contract!contractVars
    <2>1. LeaveLock(t, core) /\ Idle(t) /\ accepts' = accepts /\ handed' = handed
      BY <1>5 DEF Flush
    <2>. QED  BY <1>0, <2>1, LockStutters
  <1>6. ASSUME NEW t \in Threads, AdapterAccepts(t)  PROVE Contract!ContractNext
    BY <1>6, AcceptAccepts
  <1>7. ASSUME NEW t \in Threads, AdapterRejects(t)  PROVE UNCHANGED Contract!contractVars
    BY <1>7, RejectOwes
  <1>8. ASSUME NEW t \in Threads, Finish(t)  PROVE UNCHANGED Contract!contractVars
    BY <1>8, FinishOwes
  <1>9. CASE UNCHANGED vars
    BY <1>9 DEF vars, Contract!contractVars, Owed, Sent, Returned, Held, IdsOf
  <1>. QED  BY <1>1, <1>2, <1>3, <1>4, <1>5, <1>6, <1>7, <1>8, <1>9 DEF Next

\* Every step of the core is a step of its contract or none of its concern: an event it
\* took is owed until it is accepted, once in a generation, or goes to the binding that
\* replaces this one.
THEOREM CoreKeepsContract == Spec => KeepsContract
  BY ContractStarts, ContractStep, DeliveryCorrect, PTL
  DEF Spec, KeepsContract, Contract!ContractSpec

-----------------------------------------------------------------------------
\* A summary that waits after a step, for an event that waited before it, is not older.
NoOlder == \A d \in core.pending, e \in core'.pending : d.id = e.id => d.stamp <= e.stamp

\* It is so where what waits is what waited, or was not waited for.
LEMMA SameOrNew ==
  ASSUME DeliveryInv, \A e \in core'.pending : e \in core.pending \/ e.id \notin IdsOf(core.pending)
  PROVE  NoOlder
  <1>1. /\ core.pending \in SUBSET Events /\ KeyedById(core.pending)
        /\ \A d \in Events : d.stamp \in Nat
    BY DeliveryAssumption DEF DeliveryInv, TypeOK, Core, PendingIsCurrent, Events, Stamps
  <1>2. ASSUME NEW d \in core.pending, NEW e \in core'.pending, d.id = e.id  PROVE d = e
    BY <1>1, <1>2 DEF IdsOf, KeyedById
  <1>. QED  BY <1>1, <1>2 DEF NoOlder

LEMMA NewestStep == ASSUME DeliveryInv, [Next]_vars PROVE NoOlder
  <1>0. /\ core \in Core /\ core.pending \in SUBSET Events /\ KeyedById(core.pending)
        /\ \A d \in Events : d.stamp \in Nat
    BY DeliveryAssumption DEF DeliveryInv, TypeOK, Core, PendingIsCurrent, Events, Stamps
  <1>1. ASSUME core'.pending = core.pending  PROVE NoOlder  BY <1>1, SameOrNew
  <1>2. ASSUME NEW t \in Threads, NEW v \in Versions, SetActiveBinding(t, v)  PROVE NoOlder
    <2> DEFINE c == [core EXCEPT !.version = v, !.generation = @ + 1,
                                 !.pending = {}, !.delivered = {}]
    <2>1. LeaveLock(t, c) /\ core' \in {c, [c EXCEPT !.inflight = t]}
      BY <1>2 DEF SetActiveBinding, LeaveLock
    <2>2. c.pending = {} /\ [c EXCEPT !.inflight = t].pending = {}  BY <1>0 DEF Core
    <2>. QED  BY <2>1, <2>2 DEF NoOlder
  <1>3. ASSUME NEW t \in Threads, NEW s \in Statuses, SetTargetStatus(t, s)  PROVE NoOlder
    <2>1. LeaveLock(t, [core EXCEPT !.status = s])  BY <1>3 DEF SetTargetStatus
    <2>2. core'.pending = core.pending  BY <1>0, <2>1 DEF LeaveLock, Core
    <2>. QED  BY <1>1, <2>2
  <1>4. ASSUME NEW t \in Threads, NEW e \in Events, Ingest(t, e)  PROVE NoOlder
    <2>1. CASE UNCHANGED <<core, calls>>  BY <1>1, <2>1
    <2>2. CASE Merges(e) /\ core' = [core EXCEPT !.pending = Merged(@, e)]
      <3>1. core'.pending = Merged(core.pending, e)  BY <1>0, <2>2 DEF Core
      <3>2. ASSUME NEW d \in core.pending, NEW f \in core'.pending, d.id = f.id
            PROVE  d.stamp <= f.stamp
        <4>1. PICK g \in core.pending : f = IF g.id = e.id /\ e.stamp >= g.stamp THEN e ELSE g
          BY <3>1 DEF Merged
        <4>2. g.id = f.id /\ g.stamp <= f.stamp  BY <1>0, <4>1
        <4>. QED  BY <1>0, <3>2, <4>2 DEF KeyedById
      <3>. QED  BY <3>2 DEF NoOlder
    <2>3. CASE Queues(e) /\ LeaveLock(t, [core EXCEPT !.pending = @ \cup {e}])
      <3>1. core'.pending = core.pending \cup {e}  BY <1>0, <2>3 DEF LeaveLock, Core
      <3>. QED  BY <2>3, <3>1, SameOrNew DEF Queues
    <2>. QED  BY <1>4, <2>1, <2>2, <2>3 DEF Ingest
  <1>5. ASSUME NEW t \in Threads, Flush(t)  PROVE NoOlder
    <2>1. core'.pending = core.pending  BY <1>0, <1>5 DEF Flush, LeaveLock, Core
    <2>. QED  BY <1>1, <2>1
  <1>6. ASSUME NEW t \in Threads, AdapterAccepts(t) \/ AdapterRejects(t)  PROVE NoOlder
    BY <1>1, <1>6 DEF AdapterAccepts, AdapterRejects
  <1>7. ASSUME NEW t \in Threads, Finish(t)  PROVE NoOlder
    <2> DEFINE c == [core EXCEPT !.inflight = IF @ = t THEN NoThread ELSE @]
    <2>1. c.pending = core.pending /\ c \in [ version : 0..MaxVersion, generation : 0..MaxGeneration,
              status : Statuses, pending : SUBSET Events, delivered : SUBSET EventIds,
              inflight : Threads \cup {NoThread} ]
      BY <1>0 DEF Core
    <2>2. core' \in {Delivered(c, calls[t]), Requeued(c, calls[t].events)}
      BY <1>7 DEF Finish, Settled
    <2> HIDE DEF c
    <2>3. Delivered(c, calls[t]).pending \subseteq c.pending  BY <2>1 DEF Delivered
    <2>4. \A e \in Requeued(c, calls[t].events).pending : e \in c.pending \/ e.id \notin IdsOf(c.pending)
      <3> SUFFICES ASSUME NEW e \in Requeued(c, calls[t].events).pending, e \notin c.pending
                   PROVE  e.id \notin IdsOf(c.pending)
        OBVIOUS
      <3>1. calls[t].events \in SUBSET Events
        BY CallEvents DEF DeliveryInv, TypeOK
      <3>2. PICK d \in calls[t].events : /\ e = [d EXCEPT !.version = c.version]
                                         /\ d.id \notin IdsOf(c.pending)
        BY <2>1 DEF Requeued
      <3>3. d \in Events  BY <3>1
      <3>4. e.id = d.id  BY <3>2, <3>3 DEF Events
      <3>. QED  BY <3>2, <3>4
    <2>. QED  BY <2>1, <2>2, <2>3, <2>4, SameOrNew
  <1>8. CASE UNCHANGED vars  BY <1>1, <1>8 DEF vars
  <1>. QED
    BY <1>2, <1>3, <1>4, <1>5, <1>6, <1>7, <1>8 DEF Next, Produce, GiveBack

\* However summaries are merged, handed to another binding and queued again after a
\* rejection: what waits for an event is never replaced by an older summary.
THEOREM NewestStays == Spec => NewestKept
  <1>1. DeliveryInv /\ [Next]_vars =>
            [\A d \in core.pending, e \in core'.pending : d.id = e.id => d.stamp <= e.stamp]_vars
    BY NewestStep DEF NoOlder
  <1>. QED  BY <1>1, DeliveryCorrect, PTL DEF Spec, NewestKept

-----------------------------------------------------------------------------
(* The chat of a session.                                                    *)

PaneStatuses == {"idle", "working", "unknown"}
Stages == {"rest", "panes", "read", "stored", "flush", "mark"}
Digests == [body : Sayings, full : BOOLEAN]
AgentRows == [ status : PaneStatuses, screen : Texts \cup {NoText}, turn : 0..MaxTurns, moved : BOOLEAN ]
MailRows == [ to : SUBSET Panes, urgent : BOOLEAN, notified : SUBSET Panes, read : SUBSET Panes ]
ReplyRows == [ text : Texts, turn : 1..MaxTurns ]
NoteRows == [ started : Nat \cup {NoTurn}, digest : Digests \cup {NoText}, pointer : Nat ]
PostRows == [ active : BOOLEAN, todo : SUBSET Panes, done : SUBSET Panes, free : SUBSET Panes ]
TickRows == [ stage : Stages, snap : [Panes -> PaneStatuses], todo : SUBSET Panes,
              pane : Panes \cup {NoPane}, turn : BOOLEAN, rows : [Mails -> SUBSET Panes],
              open : SUBSET Mails, tried : SUBSET Mails, mail : Mails \cup {0} ]

NoteFits(n, len) == n.started \in 0..len \cup {NoTurn} /\ n.pointer \in 0..len

\* Where the poller is with pane p.
At(p) == IF tick.pane = p THEN tick.stage ELSE "away"

ChatTypes ==
    /\ agents \in [Panes -> AgentRows] /\ mails \in [Mails -> MailRows]
    /\ replies \in [Panes -> Seq(ReplyRows)]
    /\ notes \in [Panes -> NoteRows] /\ saved \in [Panes -> NoteRows]
    /\ age \in [Panes -> Ages] /\ posts \in [Mails -> PostRows] /\ tick \in TickRows
    /\ boardSaw \subseteq Panes /\ told \in [Mails -> [Panes -> 0..2]]
    /\ excused \subseteq Mails \X Panes /\ lost \subseteq Panes /\ chatFaults \in Nat

\* Notes point at rows that are there, and a reply that was stored is there.
NotesFit ==
    \A p \in Panes : /\ NoteFits(notes[p], Len(replies[p])) /\ NoteFits(saved[p], Len(replies[p]))
                     /\ At(p) = "stored" => Len(replies[p]) > 0

-----------------------------------------------------------------------------
(* Marks: a prompt is marked, about to be marked, or excused; what is marked  *)
(* was prompted, or Herdr refused it.                                        *)

Tried(m, p) == told[m][p] > 0 \/ <<m, p>> \in refused

MailOK(m, ml, po) ==
    /\ ml.read \subseteq ml.notified
    /\ \A p \in ml.notified \cup po.done : Tried(m, p)
    /\ po.todo \cup po.done # {} => po.active
    /\ ml.to = {} => po.todo = {} /\ po.done = {} /\ \A p \in Panes : told[m][p] = 0

PromptOK(m, p) ==
    /\ told[m][p] > 0 => <<m, p>> \in excused \/ p \in mails[m].notified \/ Unmarked(m, p)
    /\ told[m][p] > 1 => <<m, p>> \in excused

\* What the poller found waiting for p was not prompted to p, unless by a request that it
\* saw running.
FoundOK(m, p) ==
    p \in tick.rows[m] =>
        /\ Posted(m)
        /\ posts[m].active => m \in tick.open
        /\ told[m][p] > 0 => <<m, p>> \in excused \/ m \in tick.open \/ (Doing("mark", p) /\ tick.mail = m)

MarksInv ==
    /\ \A m \in Mails : MailOK(m, mails[m], posts[m])
    /\ \A m \in Mails, p \in Panes : PromptOK(m, p)
    /\ tick.stage \in {"flush", "mark"} => \A m \in Mails, p \in Panes : FoundOK(m, p)
    /\ tick.stage = "mark" => tick.mail \in Mails /\ tick.pane \in Panes /\ Tried(tick.mail, tick.pane)

-----------------------------------------------------------------------------
(* Replies: of the pane's turns in their order, each noted when it is stored. *)

\* A screen shows the last turn's conclusion or an earlier one's; none of the rows is of a
\* later turn than it shows, and a row of the same turn holds the same conclusion, cut or full.
TextsOK(a, rows) ==
    /\ \A i \in DOMAIN rows : /\ rows[i].text.turn <= a.turn
                              /\ a.status = "working" => rows[i].text.turn < a.turn
    /\ a.screen # NoText =>
          /\ a.screen.turn <= a.turn /\ (a.status = "working" => a.screen.turn < a.turn)
          /\ \A i \in DOMAIN rows :
                /\ rows[i].text.turn <= a.screen.turn
                /\ rows[i].text.turn = a.screen.turn =>
                      rows[i].text.body = a.screen.body /\ (rows[i].text.full => a.screen.full)

TurnsOK(rows) ==
    \A i, j \in DOMAIN rows :
        /\ rows[i].text.turn = rows[i].turn
        /\ i < j => /\ rows[i].text.turn <= rows[j].text.turn
                    /\ rows[i].text.turn = rows[j].text.turn => ~rows[i].text.full /\ rows[j].text.full

\* The note knows the last row, and that no row was stored since its turn began.
NoteOK(n, rows) ==
    /\ n.started \in {NoTurn, Len(rows)}
    /\ n.digest = IF rows = <<>> THEN NoText ELSE Shown(rows[Len(rows)].text)

PaneOK(rows, n, s, at) ==
    /\ TurnsOK(rows) /\ n.started \in {NoTurn, Len(rows)}
    /\ at # "stored" => NoteOK(n, rows) /\ NoteOK(s, rows)
    /\ at = "read" /\ n.started = NoTurn => n.digest = NoText

RepliesInv ==
    /\ \A p \in Panes : TextsOK(agents[p], replies[p])
    /\ \A p \in Panes \ lost : PaneOK(replies[p], notes[p], saved[p], At(p))

ChatInv == ChatTypes /\ NotesFit /\ MarksInv /\ RepliesInv

LEMMA ChatConstants ==
  /\ Panes \subseteq Nat /\ Mails \subseteq Nat /\ NoPane \notin Panes /\ NoTurn \notin Nat
  /\ NoText \notin Digests /\ MaxTurns \in Nat /\ MaxChatFaults \in Nat
  BY ChatAssumption DEF Digests

LEMMA ChatInitTypes == ChatInit => ChatTypes /\ NotesFit
  <1> SUFFICES ASSUME NEW S \in SUBSET Panes, ChatInitWith(S) PROVE ChatTypes /\ NotesFit
    BY DEF ChatInit
  <1>1. NoNotes \in NoteRows  BY DEF NoNotes, NoteRows
  <1>2. AtRest \in TickRows  BY DEF AtRest, TickRows, Stages, PaneStatuses
  <1>3. NotPosted \in MailRows /\ NoPost \in PostRows  BY DEF NotPosted, MailRows, NoPost, PostRows
  <1>4. agents \in [Panes -> AgentRows]
    BY ChatConstants DEF ChatInitWith, AgentRows, PaneStatuses
  <1>5. ChatTypes
    BY <1>1, <1>2, <1>3, <1>4 DEF ChatInitWith, ChatTypes, Ages
  <1>6. NotesFit
    BY ChatConstants DEF ChatInitWith, NotesFit, NoteFits, NoNotes, At, AtRest
  <1>. QED  BY <1>5, <1>6

\* Records that are made from others.
LEMMA TickIs ==
  ASSUME NEW t \in TickRows
  PROVE  /\ \A s \in Stages, q \in Panes \cup {NoPane} : [t EXCEPT !.stage = s, !.pane = q] \in TickRows
         /\ \A S \in SUBSET Panes : [t EXCEPT !.todo = S] \in TickRows
         /\ \A T \in SUBSET Mails : [t EXCEPT !.tried = T] \in TickRows
         /\ t.todo \subseteq Panes /\ t.tried \subseteq Mails /\ t.open \subseteq Mails
         /\ t.pane \in Panes \cup {NoPane} /\ t.stage \in Stages /\ t.snap \in [Panes -> PaneStatuses]
         /\ t.rows \in [Mails -> SUBSET Panes]
         /\ AtRest \in TickRows
  <1>1. AtRest \in TickRows  BY DEF AtRest, TickRows, Stages, PaneStatuses
  <1>. QED  BY <1>1 DEF TickRows

LEMMA NoteIs ==
  ASSUME NEW n \in NoteRows
  PROVE  /\ n.started \in Nat \cup {NoTurn} /\ n.pointer \in Nat /\ n.digest \in Digests \cup {NoText}
         /\ [n EXCEPT !.started = NoTurn] \in NoteRows /\ [n EXCEPT !.pointer = 0] \in NoteRows
         /\ \A l \in Nat : [n EXCEPT !.started = l] \in NoteRows
         /\ \A d \in Digests, i \in Nat : [n EXCEPT !.digest = d, !.pointer = i] \in NoteRows
  BY DEF NoteRows

LEMMA ShownIs == ASSUME NEW t \in Texts PROVE Shown(t) \in Digests
  BY DEF Texts, Shown, Digests

\* The first of the messages due is one of them.
LEMMA FirstIs ==
  ASSUME NEW p, Due(p) # {}, Due(p) \subseteq Mails PROVE First(p) \in Due(p)
  <1>1. Due(p) \subseteq Nat  BY ChatConstants
  <1>2. \E m \in Due(p) : \A k \in Due(p) : <<k, m>> \notin OpToRel(<, Nat)
    BY <1>1, NatLessThanWellFounded, WFMin
  <1>3. PICK m \in Due(p) : \A k \in Due(p) : ~(k < m)  BY <1>1, <1>2 DEF OpToRel
  <1>4. \A k \in Due(p) : m <= k  BY <1>1, <1>3
  <1>. QED  BY <1>4 DEF First, Min

\* How a step may write the notes of panes.
NotesMove ==
    /\ notes' \in [Panes -> NoteRows] /\ saved' \in {saved, notes'}
    /\ \A p \in Panes : NoteFits(notes'[p], Len(replies[p]))

LEMMA NoteWrites ==
  ASSUME ChatTypes, NotesFit, NEW p \in Panes, NEW n \in NoteRows, Note(p, n),
         NoteFits(n, Len(replies[p]))
  PROVE  NotesMove
  <1>1. notes' = [notes EXCEPT ![p] = n] /\ saved' = notes'  BY DEF Note
  <1>. QED  BY <1>1 DEF ChatTypes, NotesFit, NotesMove

LEMMA NotesStay == ASSUME ChatTypes, NotesFit, UNCHANGED <<notes, saved>> PROVE NotesMove
  BY DEF ChatTypes, NotesFit, NotesMove

\* A step that stores no reply keeps the notes fitting.
LEMMA NotesFitStays ==
  ASSUME ChatTypes, NotesFit, NotesMove, UNCHANGED replies,
         \A p \in Panes : At(p)' = "stored" => At(p) = "stored"
  PROVE  NotesFit' /\ saved' \in [Panes -> NoteRows]
  BY DEF ChatTypes, NotesFit, NotesMove

-----------------------------------------------------------------------------
(* What steps of a kind leave as it was.                                     *)

\* Messages keep their recipients and marks; they may be read by who was notified.
MailsRead ==
    /\ mails' \in [Mails -> MailRows]
    /\ \A m \in Mails : /\ mails'[m].to = mails[m].to /\ mails'[m].notified = mails[m].notified
                        /\ mails'[m].urgent = mails[m].urgent
                        /\ mails'[m].read \subseteq mails[m].read \cup mails[m].notified

LEMMA ReadIs == ASSUME ChatTypes, NEW p \in Panes, mails' \in {mails, Read(p)} PROVE MailsRead
  <1>1. CASE mails' = mails  BY <1>1 DEF ChatTypes, MailsRead
  <1>2. CASE mails' = Read(p)
    <2>1. ASSUME NEW m \in Mails
          PROVE  /\ mails'[m] \in MailRows /\ mails'[m].to = mails[m].to
                 /\ mails'[m].notified = mails[m].notified /\ mails'[m].urgent = mails[m].urgent
                 /\ mails'[m].read \subseteq mails[m].read \cup mails[m].notified
      <3>1. mails[m] \in MailRows  BY DEF ChatTypes
      <3>2. CASE p \in mails[m].to \cap mails[m].notified
        <4>1. mails'[m] = [mails[m] EXCEPT !.read = @ \cup {p}]  BY <1>2, <3>2 DEF Read
        <4>. QED  BY <3>1, <3>2, <4>1 DEF MailRows
      <3>3. CASE p \notin mails[m].to \cap mails[m].notified
        <4>1. mails'[m] = mails[m]  BY <1>2, <3>3 DEF Read
        <4>. QED  BY <3>1, <4>1
      <3>. QED  BY <3>2, <3>3
    <2>2. mails' = [m \in Mails |-> mails'[m]]  BY <1>2 DEF Read
    <2>. QED  BY <2>1, <2>2 DEF MailsRead
  <1>. QED  BY <1>1, <1>2

\* The poller is not at a prompt's mark, nor goes there; in the flush it keeps its list.
FlushKeeps ==
    \/ UNCHANGED <<tick>>
    \/ tick.stage # "mark" /\ tick'.stage \notin {"flush", "mark"}
    \/ tick.stage = "flush" /\ tick'.stage = "flush" /\ tick'.rows = tick.rows /\ tick'.open = tick.open

LEMMA MarksKept ==
  ASSUME MarksInv, MailsRead, UNCHANGED <<posts, told, refused, excused>>, FlushKeeps
  PROVE  MarksInv'
  <1>1. \A m \in Mails : MailOK(m, mails[m], posts[m])'
    BY DEF MarksInv, MailOK, MailsRead, Tried
  <1>2. \A m \in Mails, p \in Panes : Unmarked(m, p) => Unmarked(m, p)'
    BY DEF Unmarked, Doing, FlushKeeps
  <1>3. \A m \in Mails, p \in Panes : PromptOK(m, p)'
    BY <1>2 DEF MarksInv, PromptOK, MailsRead
  <1>4. tick'.stage \in {"flush", "mark"} =>
           /\ tick.stage = tick'.stage /\ tick'.rows = tick.rows /\ tick'.open = tick.open
           /\ tick.stage = "mark" => tick' = tick
    BY DEF FlushKeeps
  <1>5. tick'.stage \in {"flush", "mark"} => \A m \in Mails, p \in Panes : FoundOK(m, p)'
    BY <1>4 DEF MarksInv, FoundOK, MailsRead, Posted, Doing
  <1>6. tick'.stage = "mark" => tick'.mail \in Mails /\ tick'.pane \in Panes
                                /\ Tried(tick.mail, tick.pane)'
    BY <1>4 DEF MarksInv, Tried
  <1>. QED  BY <1>1, <1>3, <1>5, <1>6 DEF MarksInv

\* Agents are looked at, at most.
AgentsStay ==
    /\ agents' \in [Panes -> AgentRows]
    /\ \A p \in Panes : /\ agents'[p].status = agents[p].status /\ agents'[p].screen = agents[p].screen
                        /\ agents'[p].turn = agents[p].turn

LEMMA LookedIs ==
  ASSUME ChatTypes, NEW p \in Panes, UNCHANGED <<agents, age>> \/ Looked(p)
  PROVE  AgentsStay /\ age' \in [Panes -> Ages]
  <1>1. [agents[p] EXCEPT !.moved = FALSE] \in AgentRows  BY DEF ChatTypes, AgentRows
  <1>2. CASE Looked(p)
    <2>1. agents' = [agents EXCEPT ![p] = [agents[p] EXCEPT !.moved = FALSE]]  BY <1>2 DEF Looked
    <2>2. agents' \in [Panes -> AgentRows]  BY <1>1, <2>1 DEF ChatTypes
    <2>3. AgentsStay  BY <2>1, <2>2 DEF AgentsStay, ChatTypes, AgentRows
    <2>4. age' \in [Panes -> Ages]  BY <1>2 DEF Looked, ChatTypes, Ages
    <2>. QED  BY <2>3, <2>4
  <1>3. CASE UNCHANGED <<agents, age>>  BY <1>3 DEF AgentsStay, ChatTypes
  <1>. QED  BY <1>2, <1>3

\* No reply is stored: digests stay, and a turn is opened, or closed by who has read it.
RepliesStay ==
    /\ UNCHANGED <<replies, lost>> /\ saved' \in {saved, notes'}
    /\ \A p \in Panes :
          /\ notes'[p].digest = notes[p].digest
          /\ \/ notes'[p].started = notes[p].started
             \/ notes'[p].started = Len(replies[p])
             \/ notes'[p].started = NoTurn /\ At(p)' # "read"
          /\ At(p)' = "stored" <=> At(p) = "stored"
          /\ At(p)' = "read" => At(p) = "read" \/ notes'[p].started # NoTurn
                                               \/ notes'[p].digest = NoText

LEMMA RepliesKept ==
  ASSUME ChatTypes, RepliesInv, AgentsStay, RepliesStay PROVE RepliesInv'
  <1>1. \A p \in Panes : TextsOK(agents[p], replies[p])'
    BY DEF RepliesInv, AgentsStay, RepliesStay, TextsOK
  <1>2. \A p \in Panes : Len(replies[p]) # NoTurn
    BY ChatConstants, LenProperties DEF ChatTypes
  <1>3. \A p \in Panes \ lost' : PaneOK(replies[p], notes[p], saved[p], At(p))'
    <2> SUFFICES ASSUME NEW p \in Panes \ lost
                 PROVE  PaneOK(replies'[p], notes'[p], saved'[p], At(p)')
      BY DEF RepliesStay
    <2>1. PaneOK(replies[p], notes[p], saved[p], At(p)) /\ replies' = replies
      BY DEF RepliesInv, RepliesStay
    <2>2. notes'[p].started \in {NoTurn, Len(replies[p])}  BY <2>1 DEF RepliesStay, PaneOK
    <2>3. At(p)' # "stored" => NoteOK(notes'[p], replies[p])
      BY <2>1, <2>2 DEF RepliesStay, PaneOK, NoteOK
    <2>4. At(p)' # "stored" => NoteOK(saved'[p], replies[p])
      BY <2>1, <2>3 DEF RepliesStay, PaneOK
    <2>5. At(p)' = "read" /\ notes'[p].started = NoTurn => notes'[p].digest = NoText
      BY <1>2, <2>1 DEF RepliesStay, PaneOK
    <2>. QED  BY <2>1, <2>2, <2>3, <2>4, <2>5 DEF PaneOK
  <1>. QED  BY <1>1, <1>3 DEF RepliesInv

\* Together, for a step that stores, prompts and marks nothing.
LEMMA ChatKept ==
  ASSUME ChatInv, AgentsStay, MailsRead, NotesMove, RepliesStay, FlushKeeps,
         age' \in [Panes -> Ages], tick' \in TickRows, boardSaw' \subseteq Panes, chatFaults' \in Nat,
         UNCHANGED <<posts, told, refused, excused>>
  PROVE  ChatInv'
  <1>1. NotesFit' /\ saved' \in [Panes -> NoteRows]
    BY NotesFitStays DEF ChatInv, RepliesStay
  <1>2. MarksInv'  BY MarksKept DEF ChatInv
  <1>3. RepliesInv'  BY RepliesKept DEF ChatInv
  <1>4. ChatTypes'
    BY <1>1 DEF ChatInv, ChatTypes, AgentsStay, MailsRead, NotesMove, RepliesStay
  <1>. QED  BY <1>1, <1>2, <1>3, <1>4 DEF ChatInv

-----------------------------------------------------------------------------
(* The steps.                                                                *)

LEMMA NothingMoves ==
  ASSUME ChatInv
  PROVE  /\ UNCHANGED agents => AgentsStay
         /\ UNCHANGED mails => MailsRead
         /\ UNCHANGED <<notes, saved>> => NotesMove
         /\ UNCHANGED age => age' \in [Panes -> Ages]
  BY NotesStay DEF ChatInv, ChatTypes, AgentsStay, MailsRead

\* The poller goes on to another pane or stage; nothing is written.
LEMMA TickMoves ==
  ASSUME ChatInv, AgentsStay, age' \in [Panes -> Ages], tick' \in TickRows, FlushKeeps,
         UNCHANGED <<ledger, notes, saved, posts, boardSaw, chatHistory>>,
         \A p \in Panes : At(p) # "stored" /\ At(p)' \notin {"stored", "read"}
  PROVE  ChatInv'
  <1>1. MailsRead /\ NotesMove  BY NothingMoves DEF ledger
  <1>2. RepliesStay  BY DEF RepliesStay, ledger, chatHistory
  <1>3. boardSaw' \subseteq Panes /\ chatFaults' \in Nat  BY DEF ChatInv, ChatTypes, chatHistory
  <1>. QED  BY <1>1, <1>2, <1>3, ChatKept DEF chatHistory

LEMMA LookKeeps == ASSUME ChatInv, Look PROVE ChatInv'
  <1>1. tick \in TickRows /\ tick.stage = "rest"  BY DEF ChatInv, ChatTypes, Look
  <1>2. [p \in Panes |-> agents[p].status] \in [Panes -> PaneStatuses]
    BY DEF ChatInv, ChatTypes, AgentRows
  <1>3. tick' \in TickRows /\ tick'.stage = "panes" /\ tick'.pane = tick.pane
    BY <1>1, <1>2 DEF Look, TickRows, Stages
  <1>4. AgentsStay /\ age' \in [Panes -> Ages]  BY NothingMoves DEF Look
  <1>5. FlushKeeps  BY <1>1, <1>3 DEF FlushKeeps
  <1>6. \A p \in Panes : At(p) # "stored" /\ At(p)' \notin {"stored", "read"}
    BY <1>1, <1>3 DEF At
  <1>. QED  BY <1>3, <1>4, <1>5, <1>6, TickMoves DEF Look

LEMMA FlushStepKeeps ==
  ASSUME ChatInv, NEW p \in Panes, FlushSkips(p) \/ FlushTakes(p) \/ FlushLeaves(p)
  PROVE  ChatInv'
  <1>1. tick \in TickRows /\ tick.stage = "flush"
    BY DEF ChatInv, ChatTypes, FlushSkips, FlushTakes, FlushLeaves, Doing
  <1>2. AgentsStay /\ age' \in [Panes -> Ages]
    BY LookedIs, NothingMoves DEF ChatInv, FlushSkips, FlushTakes, FlushLeaves
  <1>3. UNCHANGED <<ledger, notes, saved, posts, boardSaw, chatHistory>>
    BY DEF FlushSkips, FlushTakes, FlushLeaves
  <1>4. /\ tick' \in TickRows /\ tick'.stage = "flush" /\ tick'.rows = tick.rows
        /\ tick'.open = tick.open
    <2>1. CASE tick' = [tick EXCEPT !.todo = @ \ {p}]  BY <1>1, <2>1 DEF TickRows
    <2>2. CASE tick' = [tick EXCEPT !.todo = @ \ {p}, !.pane = p, !.tried = {}]
      BY <1>1, <2>2 DEF TickRows
    <2>3. CASE tick' = [tick EXCEPT !.pane = NoPane]  BY <1>1, <2>3 DEF TickRows
    <2>. QED  BY <2>1, <2>2, <2>3 DEF FlushSkips, FlushTakes, FlushLeaves
  <1>5. FlushKeeps  BY <1>1, <1>4 DEF FlushKeeps
  <1>6. \A q \in Panes : At(q) # "stored" /\ At(q)' \notin {"stored", "read"}
    BY <1>1, <1>4 DEF At
  <1>. QED  BY <1>2, <1>3, <1>4, <1>5, <1>6, TickMoves

LEMMA FlushEndsKeeps == ASSUME ChatInv, FlushEnds PROVE ChatInv'
  <1>1. tick \in TickRows /\ tick.stage = "flush" /\ tick' = AtRest
    BY DEF ChatInv, ChatTypes, FlushEnds, Doing
  <1>2. tick' \in TickRows /\ tick'.stage = "rest"  BY <1>1, TickIs DEF AtRest
  <1>3. AgentsStay /\ age' \in [Panes -> Ages]  BY NothingMoves DEF FlushEnds
  <1>4. FlushKeeps  BY <1>1, <1>2 DEF FlushKeeps
  <1>5. \A p \in Panes : At(p) # "stored" /\ At(p)' \notin {"stored", "read"}
    BY <1>1, <1>2 DEF At
  <1>. QED  BY <1>2, <1>3, <1>4, <1>5, TickMoves DEF FlushEnds

LEMMA ObserveKeeps == ASSUME ChatInv, NEW p \in Panes, Observe(p) PROVE ChatInv'
  <1> DEFINE n == IF notes[p].started = NoTurn /\ tick.snap[p] = "working"
                  THEN [notes[p] EXCEPT !.started = Len(replies[p])] ELSE notes[p]
             due == /\ tick.snap[p] = "idle" /\ AgeSeen(p) \in {"settled", "long"}
                    /\ (notes[p].started # NoTurn \/ notes[p].digest = NoText)
  <1>1. /\ tick \in TickRows /\ tick.stage = "panes" /\ Note(p, n)
        /\ mails' \in {mails, Read(p)} /\ age' = [age EXCEPT ![p] = AgeSeen(p)]
        /\ tick' = [tick EXCEPT !.todo = @ \ {p}, !.stage = IF due THEN "read" ELSE "panes",
                                !.pane = IF due THEN p ELSE NoPane]
        /\ UNCHANGED <<agents, replies, posts, boardSaw, chatHistory>>
    BY DEF ChatInv, ChatTypes, Observe
  <1>2. /\ notes \in [Panes -> NoteRows] /\ notes[p] \in NoteRows /\ replies[p] \in Seq(ReplyRows)
        /\ Len(replies[p]) \in Nat /\ NoteFits(notes[p], Len(replies[p]))
    BY LenProperties DEF ChatInv, ChatTypes, NotesFit
  <1>3. n \in NoteRows /\ n.digest = notes[p].digest /\ n.pointer = notes[p].pointer
        /\ (n.started = notes[p].started \/ n.started = Len(replies[p]))
    BY <1>2, NoteIs DEF NoteRows
  <1>4. tick.snap[p] = "idle" => n = notes[p]  OBVIOUS
  <1> HIDE DEF n
  <1>5. NoteFits(n, Len(replies[p]))  BY <1>2, <1>3 DEF NoteFits
  <1>6. NotesMove  BY <1>1, <1>3, <1>5, NoteWrites DEF ChatInv
  <1>7. notes'[p] = n /\ \A q \in Panes \ {p} : notes'[q] = notes[q]
    BY <1>1, <1>2 DEF Note
  <1>8. tick' \in TickRows
    <2>1. CASE due  BY <1>1, <2>1 DEF TickRows, Stages
    <2>2. CASE ~due  BY <1>1, <2>2 DEF TickRows, Stages
    <2>. QED  BY <2>1, <2>2
  <1>9. /\ tick'.stage \in {"read", "panes"} /\ tick'.pane \in {p, NoPane}
        /\ tick'.stage = "read" => due
    BY <1>1 DEF TickRows
  <1>10. RepliesStay
    <2>1. \A q \in Panes : At(q) # "stored" /\ At(q)' # "stored"  BY <1>1, <1>9 DEF At
    <2>2. \A q \in Panes : At(q)' = "read" => q = p /\ tick'.stage = "read"
      BY <1>9, ChatConstants DEF At
    <2>3. At(p)' = "read" => n.started # NoTurn \/ n.digest = NoText
      BY <1>3, <1>4, <1>9, <2>2
    <2>4. saved' = notes' /\ UNCHANGED <<replies, lost>>  BY <1>1 DEF Note, chatHistory
    <2> HIDE DEF due
    <2>5. \A q \in Panes :
            /\ notes'[q].digest = notes[q].digest
            /\ (notes'[q].started = notes[q].started \/ notes'[q].started = Len(replies[q]))
      BY <1>3, <1>7
    <2>. QED  BY <1>7, <2>1, <2>2, <2>3, <2>4, <2>5 DEF RepliesStay
  <1>11. age' \in [Panes -> Ages]  BY <1>1 DEF AgeSeen, ChatInv, ChatTypes, Ages
  <1>12. AgentsStay /\ MailsRead  BY <1>1, ReadIs, NothingMoves DEF ChatInv
  <1>13. FlushKeeps  BY <1>1, <1>9 DEF FlushKeeps
  <1>14. boardSaw' \subseteq Panes /\ chatFaults' \in Nat /\ UNCHANGED <<posts, told, refused, excused>>
    BY <1>1 DEF ChatInv, ChatTypes, chatHistory
  <1>. QED  BY <1>6, <1>8, <1>10, <1>11, <1>12, <1>13, <1>14, ChatKept

\* The poller has read pane p and goes on, and leaves its turn open or closes it.
LEMMA ReadEnds ==
  ASSUME ChatInv, NEW p \in Panes, Doing("read", p), tick' \in {NextPane, AtRest},
         NEW n, n \in {notes[p], TurnClosed(p)}, notes' = [notes EXCEPT ![p] = n],
         saved' \in {saved, notes'}, chatFaults' \in Nat,
         UNCHANGED <<agents, ledger, age, posts, boardSaw, told, refused, excused, lost>>
  PROVE  ChatInv'
  <1>1. tick \in TickRows /\ tick.stage = "read" /\ tick.pane = p
    BY DEF ChatInv, ChatTypes, Doing
  <1>2. tick' \in TickRows /\ tick'.stage \in {"panes", "rest"} /\ tick'.pane = NoPane
    <2>1. CASE tick' = AtRest  BY <1>1, <2>1, TickIs DEF AtRest
    <2>2. CASE tick' = NextPane  BY <1>1, <2>2 DEF NextPane, TickRows, Stages
    <2>. QED  BY <2>1, <2>2
  <1>3. notes \in [Panes -> NoteRows] /\ NoteFits(notes[p], Len(replies[p]))
    BY DEF ChatInv, ChatTypes, NotesFit
  <1>4. /\ n \in NoteRows /\ n.digest = notes[p].digest /\ n.pointer = notes[p].pointer
        /\ n.started \in {notes[p].started, NoTurn}
    <2>1. notes[p] \in NoteRows  BY <1>3
    <2>2. CASE n = notes[p]  BY <2>1, <2>2
    <2>3. CASE n = TurnClosed(p)  BY <2>1, <2>3 DEF TurnClosed, NoteRows
    <2>. QED  BY <2>2, <2>3
  <1>5. NoteFits(n, Len(replies[p]))  BY <1>3, <1>4 DEF NoteFits
  <1>6. notes'[p] = n /\ \A q \in Panes \ {p} : notes'[q] = notes[q]  BY <1>3
  <1>7. NotesMove  BY <1>3, <1>4, <1>5, <1>6 DEF NotesMove, ChatInv, NotesFit
  <1>8. RepliesStay
    <2>1. \A q \in Panes : At(q) # "stored" /\ At(q)' = "away"
      BY <1>1, <1>2, ChatConstants DEF At
    <2>. QED  BY <1>4, <1>6, <2>1 DEF RepliesStay, ledger
  <1>9. AgentsStay /\ MailsRead /\ age' \in [Panes -> Ages]  BY NothingMoves DEF ledger
  <1>10. FlushKeeps  BY <1>1, <1>2 DEF FlushKeeps
  <1>11. boardSaw' \subseteq Panes  BY DEF ChatInv, ChatTypes
  <1>. QED  BY <1>2, <1>7, <1>8, <1>9, <1>10, <1>11, ChatKept

LEMMA HarvestNothingKeeps == ASSUME ChatInv, NEW p \in Panes, HarvestNothing(p) PROVE ChatInv'
  <1> DEFINE n == IF age[p] = "long" THEN TurnClosed(p) ELSE notes[p]
  <1>1. /\ notes' = [notes EXCEPT ![p] = n] /\ saved' = notes' /\ n \in {notes[p], TurnClosed(p)}
        /\ Doing("read", p) /\ tick' = NextPane
        /\ UNCHANGED <<agents, ledger, age, posts, boardSaw, told, refused, excused, lost>>
        /\ chatFaults' \in Nat
    BY DEF HarvestNothing, Note, chatHistory, ChatInv, ChatTypes
  <1> HIDE DEF n
  <1>. QED  BY <1>1, ReadEnds

LEMMA HarvestSameKeeps == ASSUME ChatInv, NEW p \in Panes, HarvestSame(p) PROVE ChatInv'
  <1>1. /\ notes' = [notes EXCEPT ![p] = TurnClosed(p)] /\ saved' = notes'
        /\ Doing("read", p) /\ tick' = NextPane
        /\ UNCHANGED <<agents, ledger, age, posts, boardSaw, told, refused, excused, lost>>
        /\ chatFaults' \in Nat
    BY DEF HarvestSame, Note, chatHistory, ChatInv, ChatTypes
  <1>. QED  BY <1>1, ReadEnds

LEMMA HarvestFailsKeeps == ASSUME ChatInv, NEW p \in Panes, HarvestFails(p) PROVE ChatInv'
  <1>1. /\ Doing("read", p) /\ UNCHANGED <<agents, ledger, age, posts, boardSaw, told, refused, excused, lost>>
        /\ saved' = saved /\ tick' \in {NextPane, AtRest}
        /\ chatFaults' \in Nat
    BY DEF HarvestFails, ChatFault, ChatInv, ChatTypes
  <1>2. CASE UNCHANGED notes
    <2>1. notes' = [notes EXCEPT ![p] = notes[p]]  BY <1>2 DEF ChatInv, ChatTypes
    <2>. QED  BY <1>1, <2>1, ReadEnds
  <1>3. CASE notes' = [notes EXCEPT ![p] = TurnClosed(p)]  BY <1>1, <1>3, ReadEnds
  <1>. QED  BY <1>2, <1>3 DEF HarvestFails

\* A step beside the poller that writes no more than a note of a turn's beginning.
LEMMA BesidesKeeps ==
  ASSUME ChatInv, AgentsStay, age' \in [Panes -> Ages], boardSaw' \subseteq Panes, NotesMove,
         UNCHANGED <<ledger, posts, tick, chatHistory>>,
         \A p \in Panes : /\ notes'[p].digest = notes[p].digest
                          /\ \/ notes'[p].started = notes[p].started
                             \/ notes'[p].started = Len(replies[p])
  PROVE  ChatInv'
  <1>1. MailsRead  BY NothingMoves DEF ledger
  <1>2. \A p \in Panes : At(p)' = At(p)  BY DEF At
  <1>3. RepliesStay  BY <1>2 DEF RepliesStay, NotesMove, ledger, chatHistory
  <1>4. tick' \in TickRows /\ chatFaults' \in Nat /\ FlushKeeps /\ UNCHANGED <<posts, told, refused, excused>>
    BY DEF ChatInv, ChatTypes, chatHistory, FlushKeeps
  <1>. QED  BY <1>1, <1>3, <1>4, ChatKept

LEMMA BoardLooksKeeps == ASSUME ChatInv, NEW p \in Panes, BoardLooks(p) PROVE ChatInv'
  <1>1. AgentsStay /\ NotesMove /\ age' \in [Panes -> Ages]  BY NothingMoves DEF BoardLooks
  <1>2. boardSaw' \subseteq Panes  BY DEF BoardLooks, ChatInv, ChatTypes
  <1>3. UNCHANGED <<ledger, posts, tick, chatHistory, notes>>  BY DEF BoardLooks
  <1>. QED  BY <1>1, <1>2, <1>3, BesidesKeeps

LEMMA BoardOpensKeeps == ASSUME ChatInv, NEW p \in Panes, BoardOpens(p) PROVE ChatInv'
  <1>1. AgentsStay /\ age' \in [Panes -> Ages]  BY NothingMoves DEF BoardOpens
  <1>2. boardSaw' \subseteq Panes  BY DEF BoardOpens, ChatInv, ChatTypes
  <1>3. UNCHANGED <<ledger, posts, tick, chatHistory>>  BY DEF BoardOpens
  <1>4. CASE UNCHANGED <<notes, saved>>  BY <1>1, <1>2, <1>3, <1>4, NothingMoves, BesidesKeeps
  <1>5. CASE Note(p, [notes[p] EXCEPT !.started = Len(replies[p])])
    <2> DEFINE n == [notes[p] EXCEPT !.started = Len(replies[p])]
    <2>1. notes[p] \in NoteRows /\ Len(replies[p]) \in Nat /\ NoteFits(notes[p], Len(replies[p]))
      BY LenProperties DEF ChatInv, ChatTypes, NotesFit
    <2>2. n \in NoteRows /\ n.started = Len(replies[p]) /\ n.digest = notes[p].digest
          /\ n.pointer = notes[p].pointer
      BY <2>1 DEF NoteRows
    <2>3. NoteFits(n, Len(replies[p]))  BY <2>1, <2>2 DEF NoteFits
    <2>4. notes'[p] = n /\ \A q \in Panes \ {p} : notes'[q] = notes[q]
      BY <1>5 DEF Note, ChatInv, ChatTypes
    <2> HIDE DEF n
    <2>5. NotesMove  BY <1>5, <2>2, <2>3, <2>4, NoteWrites DEF ChatInv, n
    <2>6. \A q \in Panes : /\ notes'[q].digest = notes[q].digest
                           /\ \/ notes'[q].started = notes[q].started
                              \/ notes'[q].started = Len(replies[q])
      BY <2>2, <2>4
    <2>. QED  BY <1>1, <1>2, <1>3, <2>5, <2>6, BesidesKeeps
  <1>. QED  BY <1>4, <1>5 DEF BoardOpens

LEMMA TimePassesKeeps == ASSUME ChatInv, NEW p \in Panes, TimePasses(p) PROVE ChatInv'
  <1>1. AgentsStay /\ NotesMove  BY NothingMoves DEF TimePasses
  <1>2. age' \in [Panes -> Ages]  BY DEF TimePasses, Older, Ages, ChatInv, ChatTypes
  <1>3. UNCHANGED <<ledger, posts, tick, chatHistory, notes, boardSaw>>  BY DEF TimePasses
  <1>4. boardSaw' \subseteq Panes  BY <1>3 DEF ChatInv, ChatTypes
  <1>. QED  BY <1>1, <1>2, <1>3, <1>4, BesidesKeeps

-----------------------------------------------------------------------------
(* Agents.                                                                   *)

LEMMA AgentKeeps ==
  ASSUME ChatInv, NEW p \in Panes, NEW a \in AgentRows, AgentBecomes(p, a), TextsOK(a, replies[p])
  PROVE  ChatInv'
  <1>1. /\ agents' = [agents EXCEPT ![p] = a]
        /\ UNCHANGED <<ledger, notes, age, saved, posts, tick, boardSaw, chatHistory>>
    BY DEF AgentBecomes
  <1>2. ChatTypes'  BY <1>1 DEF ChatInv, ChatTypes, ledger, chatHistory
  <1>3. \A q \in Panes : At(q)' = At(q)  BY <1>1 DEF At
  <1>4. NotesFit'  BY <1>1, <1>3 DEF ChatInv, NotesFit, ledger
  <1>5. MarksInv'
    <2>1. MailsRead /\ FlushKeeps  BY <1>1, NothingMoves DEF ledger, FlushKeeps
    <2>. QED  BY <1>1, <2>1, MarksKept DEF ChatInv, chatHistory
  <1>6. RepliesInv'
    <2>1. \A q \in Panes : TextsOK(agents'[q], replies'[q])
      BY <1>1 DEF ChatInv, ChatTypes, RepliesInv, ledger
    <2>2. \A q \in Panes \ lost' : PaneOK(replies'[q], notes'[q], saved'[q], At(q)')
      BY <1>1, <1>3 DEF ChatInv, RepliesInv, ledger, chatHistory
    <2>. QED  BY <2>1, <2>2 DEF RepliesInv
  <1>. QED  BY <1>2, <1>4, <1>5, <1>6 DEF ChatInv

\* An agent and its rows.
LEMMA AgentIs ==
  ASSUME ChatInv, NEW p \in Panes
  PROVE  /\ agents[p] \in AgentRows /\ replies[p] \in Seq(ReplyRows)
         /\ \A i \in DOMAIN replies[p] : replies[p][i].text \in Texts /\ replies[p][i].text.turn \in Nat
         /\ TextsOK(agents[p], replies[p])
  <1>1. agents[p] \in AgentRows /\ replies[p] \in Seq(ReplyRows)  BY DEF ChatInv, ChatTypes
  <1>2. \A i \in DOMAIN replies[p] : replies[p][i] \in ReplyRows
    BY <1>1, ElementOfSeq, LenProperties
  <1>. QED  BY <1>1, <1>2, ChatConstants DEF ChatInv, RepliesInv, ReplyRows, Texts

LEMMA AgentStartsKeeps == ASSUME ChatInv, NEW p \in Panes, AgentStarts(p) PROVE ChatInv'
  <1>1. PICK screen \in {Screen(p), NoText} :
           AgentBecomes(p, [status |-> "working", screen |-> screen,
                            turn |-> agents[p].turn + 1, moved |-> TRUE])
    BY DEF AgentStarts
  <1> DEFINE a == [status |-> "working", screen |-> screen,
                   turn |-> agents[p].turn + 1, moved |-> TRUE]
  <1>2. agents[p].turn \in 0..MaxTurns /\ agents[p].turn < MaxTurns /\ agents[p].screen \in Texts \cup {NoText}
    BY AgentIs DEF AgentStarts, AgentRows
  <1>3. a \in AgentRows  BY <1>2, ChatConstants DEF AgentRows, PaneStatuses, Screen
  <1>4. TextsOK(a, replies[p])
    <2>1. a.status = "working" /\ a.screen = screen /\ a.turn = agents[p].turn + 1  OBVIOUS
    <2>2. \A i \in DOMAIN replies[p] : replies[p][i].text.turn < a.turn
      BY <1>2, <2>1, AgentIs, ChatConstants DEF TextsOK
    <2>3. CASE screen = NoText  BY <2>1, <2>2, <2>3, AgentIs, <1>2, ChatConstants DEF TextsOK
    <2>4. CASE screen = agents[p].screen /\ screen # NoText
      <3>1. screen.turn \in Nat  BY <1>2, <2>4, ChatConstants DEF Texts
      <3> HIDE DEF a
      <3>. QED  BY <1>2, <2>1, <2>2, <2>4, <3>1, AgentIs, ChatConstants DEF TextsOK
    <2>. QED  BY <2>3, <2>4 DEF Screen
  <1> HIDE DEF a
  <1>. QED  BY <1>1, <1>3, <1>4, AgentKeeps DEF a

LEMMA AgentStopsKeeps == ASSUME ChatInv, NEW p \in Panes, AgentStops(p) PROVE ChatInv'
  <1>1. PICK screen \in {Screen(p), NoText} \cup {t \in Texts : t.turn = agents[p].turn} :
           AgentBecomes(p, [agents[p] EXCEPT !.status = "idle", !.screen = screen, !.moved = TRUE])
    BY DEF AgentStops
  <1> DEFINE a == [agents[p] EXCEPT !.status = "idle", !.screen = screen, !.moved = TRUE]
  <1>2. /\ agents[p] \in AgentRows /\ agents[p].turn \in 0..MaxTurns
        /\ agents[p].screen \in Texts \cup {NoText} /\ agents[p].status = "working"
    BY AgentIs DEF AgentStops, AgentRows
  <1>3. a \in AgentRows  BY <1>2 DEF AgentRows, PaneStatuses, Screen
  <1>4. a.status = "idle" /\ a.screen = screen /\ a.turn = agents[p].turn
    BY <1>2 DEF AgentRows
  <1> HIDE DEF a
  <1>5. \A i \in DOMAIN replies[p] : replies[p][i].text.turn < a.turn
    BY <1>2, <1>4, AgentIs DEF TextsOK
  <1>6. TextsOK(a, replies[p])
    <2>1. CASE screen = NoText  BY <1>2, <1>4, <1>5, <2>1, AgentIs, ChatConstants DEF TextsOK
    <2>2. CASE screen = agents[p].screen  BY <1>2, <1>4, <2>2, AgentIs DEF TextsOK
    <2>3. CASE screen \in Texts /\ screen.turn = agents[p].turn
      BY <1>2, <1>4, <1>5, <2>3, AgentIs, ChatConstants DEF TextsOK
    <2>. QED  BY <2>1, <2>2, <2>3 DEF Screen
  <1>. QED  BY <1>1, <1>3, <1>6, AgentKeeps DEF a

LEMMA ScreenSettlesKeeps == ASSUME ChatInv, NEW p \in Panes, ScreenSettles(p) PROVE ChatInv'
  <1> DEFINE a == [agents[p] EXCEPT !.screen.full = TRUE, !.moved = TRUE]
             s == agents[p].screen
  <1>1. /\ agents[p] \in AgentRows /\ s \in Texts /\ agents[p].status = "idle" /\ s # NoText
        /\ AgentBecomes(p, a)
    BY AgentIs DEF ScreenSettles, AgentRows, Screen
  <1>2. /\ [s EXCEPT !.full = TRUE] \in Texts /\ [s EXCEPT !.full = TRUE].turn = s.turn
        /\ [s EXCEPT !.full = TRUE].body = s.body /\ [s EXCEPT !.full = TRUE].full = TRUE
    BY <1>1 DEF Texts
  <1>3. a \in AgentRows  BY <1>1, <1>2 DEF AgentRows
  <1>4. a.status = "idle" /\ a.turn = agents[p].turn /\ a.screen = [s EXCEPT !.full = TRUE]
    BY <1>1 DEF AgentRows
  <1>5. a.screen.turn = s.turn /\ a.screen.body = s.body /\ a.screen.full = TRUE
    BY <1>2, <1>4
  <1> HIDE DEF a, s
  <1>6. TextsOK(a, replies[p])
    <2>1. TextsOK(agents[p], replies[p])  BY AgentIs
    <2>. QED  BY <1>1, <1>4, <1>5, <2>1 DEF TextsOK, s
  <1>. QED  BY <1>1, <1>3, <1>6, AgentKeeps

LEMMA AgentUnclearKeeps == ASSUME ChatInv, NEW p \in Panes, AgentUnclear(p) PROVE ChatInv'
  <1>1. PICK s \in {"idle", "unknown"} : AgentBecomes(p, [agents[p] EXCEPT !.status = s])
    BY DEF AgentUnclear
  <1> DEFINE a == [agents[p] EXCEPT !.status = s]
  <1>2. agents[p] \in AgentRows  BY AgentIs
  <1>3. /\ a \in AgentRows /\ a.status = s /\ a.turn = agents[p].turn /\ a.screen = agents[p].screen
    BY <1>2 DEF AgentRows, PaneStatuses
  <1> HIDE DEF a
  <1>4. TextsOK(a, replies[p])
    <2>1. TextsOK(agents[p], replies[p])  BY AgentIs
    <2>2. a.status # "working"  BY <1>3
    <2>. QED  BY <1>3, <2>1, <2>2 DEF TextsOK
  <1>. QED  BY <1>1, <1>3, <1>4, AgentKeeps DEF a

-----------------------------------------------------------------------------
(* The harvest writes.                                                       *)

\* The poller is at pane p; its rows and notes are written, and no other's.
LEMMA HarvestKeeps ==
  ASSUME ChatInv, NEW p \in Panes, NEW rows \in Seq(ReplyRows),
         replies' = [replies EXCEPT ![p] = rows], Len(rows) >= Len(replies[p]),
         NEW n \in NoteRows, notes' = [notes EXCEPT ![p] = n], saved' \in {saved, notes'},
         NoteFits(n, Len(rows)),
         tick.pane = p, tick.stage \in {"read", "stored"},
         tick' \in TickRows, tick'.stage \in {"panes", "stored"}, tick'.pane \in {p, NoPane},
         At(p)' = "stored" => Len(rows) > 0,
         TextsOK(agents[p], rows), p \notin lost => PaneOK(rows, n, saved'[p], At(p)'),
         MailsRead, UNCHANGED <<agents, age, posts, boardSaw, chatHistory>>
  PROVE  ChatInv'
  <1>1. /\ replies \in [Panes -> Seq(ReplyRows)] /\ notes \in [Panes -> NoteRows]
        /\ saved \in [Panes -> NoteRows] /\ \A q \in Panes : Len(replies[q]) \in Nat
        /\ Len(rows) \in Nat
    BY LenProperties DEF ChatInv, ChatTypes
  <1>2. replies'[p] = rows /\ notes'[p] = n
        /\ \A q \in Panes \ {p} : replies'[q] = replies[q] /\ notes'[q] = notes[q]
    BY <1>1
  <1>3. \A q \in Panes \ {p} : At(q) = "away" /\ At(q)' = "away"  BY ChatConstants DEF At
  <1>4. replies' \in [Panes -> Seq(ReplyRows)] /\ notes' \in [Panes -> NoteRows]
        /\ saved' \in [Panes -> NoteRows]
    BY <1>1
  <1>5. ChatTypes'  BY <1>4 DEF ChatInv, ChatTypes, MailsRead, chatHistory
  <1>6. NotesFit'
    <2>1. \A q \in Panes : NoteFits(notes'[q], Len(replies'[q]))
      BY <1>2 DEF ChatInv, NotesFit
    <2>2. \A q \in Panes : NoteFits(saved[q], Len(replies'[q]))
      BY <1>1, <1>2 DEF ChatInv, NotesFit, NoteFits
    <2>3. \A q \in Panes : At(q)' = "stored" => Len(replies'[q]) > 0  BY <1>2, <1>3
    <2>. QED  BY <2>1, <2>2, <2>3 DEF NotesFit
  <1>7. MarksInv'
    <2>1. FlushKeeps  BY DEF FlushKeeps
    <2>. QED  BY <2>1, MarksKept DEF ChatInv, chatHistory
  <1>8. RepliesInv'
    <2>1. \A q \in Panes : TextsOK(agents'[q], replies'[q])  BY <1>2 DEF ChatInv, RepliesInv
    <2>2. \A q \in Panes \ lost' : PaneOK(replies'[q], notes'[q], saved'[q], At(q)')
      <3> SUFFICES ASSUME NEW q \in Panes \ lost
                   PROVE  PaneOK(replies'[q], notes'[q], saved'[q], At(q)')
        BY DEF chatHistory
      <3>1. CASE q = p  BY <1>2, <3>1
      <3>2. CASE q # p
        <4>1. PaneOK(replies[q], notes[q], saved[q], "away")  BY <1>3, <3>2 DEF ChatInv, RepliesInv
        <4>2. saved'[q] \in {saved[q], notes[q]}  BY <1>2, <3>2
        <4>. QED  BY <1>2, <1>3, <3>2, <4>1, <4>2 DEF PaneOK
      <3>. QED  BY <3>1, <3>2
    <2>. QED  BY <2>1, <2>2 DEF RepliesInv
  <1>. QED  BY <1>5, <1>6, <1>7, <1>8 DEF ChatInv

LEMMA HarvestStoredKeeps == ASSUME ChatInv, NEW p \in Panes, HarvestStored(p) PROVE ChatInv'
  <1> DEFINE rows == replies[p]
             last == Len(rows)
             n == [notes[p] EXCEPT !.digest = Shown(rows[last].text), !.pointer = last]
  <1>1. /\ tick \in TickRows /\ tick.stage = "stored" /\ tick.pane = p
        /\ notes' = [notes EXCEPT ![p] = n] /\ saved' = notes' /\ mails' \in {mails, Read(p)}
        /\ tick' = [NextPane EXCEPT !.turn = FALSE]
        /\ UNCHANGED <<agents, replies, age, posts, boardSaw, chatHistory>>
    BY DEF ChatInv, ChatTypes, HarvestStored, Doing, Note, ReadIf
  <1>2. tick' \in TickRows /\ tick'.stage = "panes" /\ tick'.pane = NoPane
    BY <1>1 DEF NextPane, TickRows, Stages
  <1>3. /\ rows \in Seq(ReplyRows) /\ last \in Nat /\ last > 0 /\ notes[p] \in NoteRows
        /\ NoteFits(notes[p], last) /\ replies \in [Panes -> Seq(ReplyRows)]
    BY <1>1, LenProperties DEF ChatInv, ChatTypes, NotesFit, At
  <1>4. Shown(rows[last].text) \in Digests
    <2>1. last \in DOMAIN rows  BY <1>3, LenProperties
    <2>. QED  BY <2>1, AgentIs, ShownIs
  <1>5. /\ n \in NoteRows /\ n.started = notes[p].started /\ n.pointer = last
        /\ n.digest = Shown(rows[last].text)
    BY <1>3, <1>4 DEF NoteRows
  <1> HIDE DEF n
  <1>6. NoteFits(n, last)  BY <1>3, <1>5 DEF NoteFits
  <1>7. replies' = [replies EXCEPT ![p] = rows]  BY <1>1, <1>3
  <1>8. TextsOK(agents[p], rows)  BY AgentIs
  <1>9. At(p)' = "away"  BY <1>2, ChatConstants DEF At
  <1>10. p \notin lost => PaneOK(rows, n, saved'[p], At(p)')
    <2> SUFFICES ASSUME p \notin lost PROVE PaneOK(rows, n, saved'[p], At(p)')
      OBVIOUS
    <2>1. TurnsOK(rows) /\ notes[p].started \in {NoTurn, last}
      BY DEF ChatInv, RepliesInv, PaneOK
    <2>2. rows # <<>>  BY <1>3
    <2>3. NoteOK(n, rows)  BY <1>5, <2>1, <2>2 DEF NoteOK
    <2>4. saved'[p] = n  BY <1>1 DEF ChatInv, ChatTypes
    <2>. QED  BY <1>9, <2>1, <2>3, <2>4, <1>5 DEF PaneOK
  <1>11. MailsRead  BY <1>1, ReadIs DEF ChatInv
  <1> HIDE DEF rows
  <1>12. Len(rows) >= Len(replies[p])  BY <1>3 DEF rows
  <1>. QED  BY <1>1, <1>2, <1>3, <1>5, <1>6, <1>7, <1>8, <1>9, <1>10, <1>11, <1>12, HarvestKeeps

\* What the pane shows, where the last reply stored is another one.
LEMMA UnseenIs ==
  ASSUME ChatInv, NEW p \in Panes, Unseen(p)
  PROVE  /\ Screen(p) \in Texts /\ Screen(p).turn \in 1..MaxTurns /\ Screen(p).full \in BOOLEAN
         /\ Screen(p).turn \in Nat
         /\ Shown(Screen(p)) \in Digests
  <1>1. Screen(p) \in Texts  BY AgentIs DEF Unseen, Screen, AgentRows
  <1>. QED  BY <1>1, ShownIs, ChatConstants DEF Texts

\* The new last row comes after the others, and completes the one of its own turn.
LEMMA AppendedTurns ==
  ASSUME ChatInv, NEW p \in Panes, Unseen(p), TurnsOK(replies[p]), NoteOK(notes[p], replies[p])
  PROVE  TurnsOK(Append(replies[p], [text |-> Screen(p), turn |-> Screen(p).turn]))
  <1> DEFINE rows == replies[p]
             last == Len(rows)
             r == [text |-> Screen(p), turn |-> Screen(p).turn]
             more == Append(rows, r)
  <1>1. rows \in Seq(ReplyRows) /\ r \in ReplyRows /\ last \in Nat
    BY AgentIs, UnseenIs, LenProperties DEF ReplyRows
  <1>2. /\ Len(more) = last + 1 /\ more[last + 1] = r /\ \A i \in 1..last : more[i] = rows[i]
        /\ DOMAIN rows = 1..last /\ DOMAIN more = 1..(last + 1)
    BY <1>1, AppendProperties, LenProperties
  <1>3. \A i \in 1..last : /\ rows[i].text \in Texts /\ rows[i].text.turn \in Nat
                           /\ rows[i].text.turn <= Screen(p).turn
                           /\ rows[i].text.turn = Screen(p).turn =>
                                 rows[i].text.body = Screen(p).body
                                 /\ (rows[i].text.full => Screen(p).full)
    BY <1>2, AgentIs DEF TextsOK, Unseen, Screen
  <1>4. ASSUME NEW i \in 1..last, rows[i].text.turn = Screen(p).turn
        PROVE  ~rows[i].text.full /\ Screen(p).full
    <2>1. last \in 1..last /\ rows # <<>> /\ i <= last  BY <1>1
    <2>2. rows[last].text.turn = Screen(p).turn
      <3>1. CASE i = last  BY <3>1, <1>4
      <3>2. CASE i < last
        <4>1. rows[i].text.turn <= rows[last].text.turn  BY <1>2, <2>1, <3>2 DEF TurnsOK
        <4>. QED  BY <1>3, <1>4, <2>1, <4>1, UnseenIs
      <3>. QED  BY <1>1, <2>1, <3>1, <3>2
    <2>3. rows[last].text.body = Screen(p).body /\ (rows[last].text.full => Screen(p).full)
      BY <1>3, <2>1, <2>2
    <2>4. Shown(rows[last].text) # Shown(Screen(p))  BY <2>1 DEF NoteOK, Unseen
    <2>5. rows[last].text.full # Screen(p).full  BY <2>3, <2>4 DEF Shown
    <2>6. rows[last].text.full \in BOOLEAN /\ Screen(p).full \in BOOLEAN
      BY <1>3, <2>1, UnseenIs DEF Texts
    <2>7. ~rows[last].text.full /\ Screen(p).full  BY <2>3, <2>5, <2>6
    <2>8. CASE i = last  BY <2>7, <2>8
    <2>9. CASE i < last
      <3>1. ~rows[i].text.full /\ rows[last].text.full
        BY <1>2, <1>4, <2>1, <2>2, <2>9 DEF TurnsOK
      <3>. QED  BY <2>7, <3>1
    <2>. QED  BY <1>1, <2>1, <2>8, <2>9
  <1> HIDE DEF more, rows, last
  <1>5. ASSUME NEW i \in DOMAIN more, NEW j \in DOMAIN more
        PROVE  /\ more[i].text.turn = more[i].turn
               /\ i < j => /\ more[i].text.turn <= more[j].text.turn
                           /\ more[i].text.turn = more[j].text.turn =>
                                 ~more[i].text.full /\ more[j].text.full
    <2>1. i \in 1..(last + 1) /\ j \in 1..(last + 1)  BY <1>2, <1>5
    <2>2. more[i].text.turn = more[i].turn
      <3>1. CASE i = last + 1  BY <1>2, <3>1
      <3>2. CASE i \in 1..last  BY <1>2, <3>2 DEF TurnsOK, rows
      <3>. QED  BY <1>1, <2>1, <3>1, <3>2
    <2>3. CASE i \in 1..last /\ j \in 1..last  BY <1>2, <2>2, <2>3 DEF TurnsOK, rows
    <2>4. CASE i \in 1..last /\ j = last + 1  BY <1>2, <1>3, <1>4, <2>2, <2>4
    <2>5. CASE i = last + 1  BY <1>1, <2>1, <2>2, <2>5
    <2>. QED  BY <1>1, <2>1, <2>3, <2>4, <2>5
  <1>6. TurnsOK(more)  BY <1>5 DEF TurnsOK
  <1>. QED  BY <1>6 DEF more, rows

LEMMA HarvestAppendsKeeps == ASSUME ChatInv, NEW p \in Panes, HarvestAppends(p) PROVE ChatInv'
  <1> DEFINE rows == replies[p]
             r == [text |-> Screen(p), turn |-> Screen(p).turn]
             more == Append(rows, r)
             n == TurnClosed(p)
  <1>1. /\ tick \in TickRows /\ tick.stage = "read" /\ tick.pane = p /\ Unseen(p)
        /\ notes' = [notes EXCEPT ![p] = n] /\ saved' = saved /\ mails' = mails
        /\ replies' = [replies EXCEPT ![p] = more]
        /\ tick' = [tick EXCEPT !.stage = "stored", !.turn = notes[p].started # NoTurn]
        /\ UNCHANGED <<agents, age, posts, boardSaw, chatHistory>>
    BY DEF ChatInv, ChatTypes, HarvestAppends, Doing
  <1>2. tick' \in TickRows /\ tick'.stage = "stored" /\ tick'.pane = p
    <2>1. (notes[p].started # NoTurn) \in BOOLEAN  OBVIOUS
    <2>. QED  BY <1>1, <2>1 DEF TickRows, Stages
  <1>3. /\ rows \in Seq(ReplyRows) /\ r \in ReplyRows /\ Len(rows) \in Nat /\ notes[p] \in NoteRows
        /\ NoteFits(notes[p], Len(rows))
    BY <1>1, AgentIs, UnseenIs, LenProperties DEF ReplyRows, ChatInv, ChatTypes, NotesFit
  <1>4. /\ more \in Seq(ReplyRows) /\ Len(more) = Len(rows) + 1 /\ more[Len(rows) + 1] = r
        /\ \A i \in 1..Len(rows) : more[i] = rows[i]
        /\ DOMAIN rows = 1..Len(rows) /\ DOMAIN more = 1..(Len(rows) + 1)
    BY <1>3, AppendProperties, LenProperties
  <1>5. /\ n \in NoteRows /\ n.started = NoTurn /\ n.pointer = notes[p].pointer
    BY <1>3 DEF NoteRows, TurnClosed
  <1> HIDE DEF n
  <1>6. NoteFits(n, Len(more))  BY <1>3, <1>4, <1>5 DEF NoteFits
  <1>7. TextsOK(agents[p], more)
    <2>1. TextsOK(agents[p], rows) /\ agents[p].screen = Screen(p) /\ Screen(p) # NoText
      BY <1>1, AgentIs DEF Screen, Unseen
    <2>2. Screen(p).turn <= agents[p].turn /\ (agents[p].status = "working" => Screen(p).turn < agents[p].turn)
      BY <2>1 DEF TextsOK
    <2>3. ASSUME NEW i \in DOMAIN more
          PROVE  /\ more[i].text.turn <= agents[p].turn
                 /\ agents[p].status = "working" => more[i].text.turn < agents[p].turn
                 /\ more[i].text.turn <= Screen(p).turn
                 /\ more[i].text.turn = Screen(p).turn =>
                      more[i].text.body = Screen(p).body /\ (more[i].text.full => Screen(p).full)
      <3>1. CASE i = Len(rows) + 1
        <4>1. more[i].text = Screen(p)  BY <1>4, <3>1
        <4>. QED  BY <2>2, <4>1, <1>1, UnseenIs
      <3>2. CASE i \in 1..Len(rows)
        <4>1. more[i] = rows[i] /\ i \in DOMAIN rows  BY <1>4, <3>2
        <4>. QED  BY <2>1, <4>1 DEF TextsOK
      <3>. QED  BY <1>3, <1>4, <3>1, <3>2
    <2> HIDE DEF more
    <2>. QED  BY <2>1, <2>2, <2>3 DEF TextsOK
  <1>8. At(p)' = "stored" /\ At(p) = "read"  BY <1>1, <1>2 DEF At
  <1>9. p \notin lost => PaneOK(more, n, saved'[p], At(p)')
    <2> SUFFICES ASSUME p \notin lost PROVE PaneOK(more, n, saved'[p], At(p)')
      OBVIOUS
    <2>1. PaneOK(rows, notes[p], saved[p], "read")  BY <1>8 DEF ChatInv, RepliesInv
    <2>2. TurnsOK(rows) /\ NoteOK(notes[p], rows)  BY <2>1 DEF PaneOK
    <2>3. TurnsOK(more)  BY <1>1, <2>2, AppendedTurns
    <2> HIDE DEF more
    <2>. QED  BY <1>5, <1>8, <2>3 DEF PaneOK
  <1>10. MailsRead  BY <1>1, NothingMoves
  <1> HIDE DEF rows, more
  <1>11. Len(more) >= Len(replies[p]) /\ Len(more) > 0  BY <1>3, <1>4 DEF rows
  <1>. QED  BY <1>1, <1>2, <1>4, <1>5, <1>6, <1>7, <1>9, <1>10, <1>11, HarvestKeeps

\* A pane whose notes know the last row has none of a turn that is open.
LEMMA HarvestMergesKeeps == ASSUME ChatInv, NEW p \in Panes, HarvestMerges(p) PROVE ChatInv'
  <1>1. PICK i \in Copy(p) :
          /\ replies' = [replies EXCEPT ![p][i].text = Screen(p)]
          /\ LET changed == Shown(replies[p][i].text) # Shown(Screen(p))
             IN  Note(p, [TurnClosed(p) EXCEPT !.digest = Shown(Screen(p)),
                                               !.pointer = IF changed THEN i ELSE @])
    BY DEF HarvestMerges
  <1> DEFINE rows == replies[p]
             new == [rows EXCEPT ![i].text = Screen(p)]
             k == IF Shown(replies[p][i].text) # Shown(Screen(p)) THEN i ELSE TurnClosed(p).pointer
             n == [TurnClosed(p) EXCEPT !.digest = Shown(Screen(p)), !.pointer = k]
  <1>2. /\ tick \in TickRows /\ tick.stage = "read" /\ tick.pane = p /\ Unseen(p)
        /\ notes' = [notes EXCEPT ![p] = n] /\ saved' = notes' /\ mails' \in {mails, Read(p)}
        /\ tick' = NextPane /\ UNCHANGED <<agents, age, posts, boardSaw, chatHistory>>
    BY <1>1 DEF ChatInv, ChatTypes, HarvestMerges, Doing, Note, ReadIf
  <1>3. replies' = [replies EXCEPT ![p] = new]  BY <1>1
  <1>4. tick' \in TickRows /\ tick'.stage = "panes" /\ tick'.pane = NoPane
    BY <1>2 DEF NextPane, TickRows, Stages
  <1>5. /\ rows \in Seq(ReplyRows) /\ Len(rows) \in Nat /\ DOMAIN rows = 1..Len(rows)
        /\ notes[p] \in NoteRows /\ NoteFits(notes[p], Len(rows)) /\ i \in DOMAIN rows
        /\ (notes[p].started # NoTurn => i > notes[p].started)
    BY <1>2, AgentIs, LenProperties DEF ChatInv, ChatTypes, NotesFit, Copy
  <1>6. rows[i] \in ReplyRows /\ [rows[i] EXCEPT !.text = Screen(p)] \in ReplyRows
    <2>1. rows[i] \in ReplyRows  BY <1>5, ElementOfSeq
    <2>. QED  BY <1>2, <2>1, UnseenIs DEF ReplyRows
  <1>7. /\ new \in Seq(ReplyRows) /\ Len(new) = Len(rows) /\ DOMAIN new = DOMAIN rows
        /\ new[i].text = Screen(p) /\ \A j \in DOMAIN rows \ {i} : new[j] = rows[j]
    <2>1. new = [rows EXCEPT ![i] = [rows[i] EXCEPT !.text = Screen(p)]]  OBVIOUS
    <2>2. new \in Seq(ReplyRows) /\ Len(new) = Len(rows)  BY <1>5, <1>6, <2>1, ExceptSeq
    <2>3. rows[i] \in ReplyRows /\ DOMAIN new = DOMAIN rows
          /\ new[i] = [rows[i] EXCEPT !.text = Screen(p)]
      BY <1>5, <1>6, <2>1
    <2>4. new[i].text = Screen(p)  BY <2>3 DEF ReplyRows
    <2>. QED  BY <2>2, <2>3, <2>4
  <1> HIDE DEF new
  <1>8. /\ n \in NoteRows /\ n.started = NoTurn /\ n.pointer \in {i, notes[p].pointer}
    <2>1. TurnClosed(p) \in NoteRows /\ TurnClosed(p).started = NoTurn
          /\ TurnClosed(p).pointer = notes[p].pointer
      BY <1>5 DEF TurnClosed, NoteRows
    <2>2. k \in {i, notes[p].pointer} /\ k \in Nat  BY <1>5, <2>1 DEF NoteRows
    <2>3. Shown(Screen(p)) \in Digests  BY <1>2, UnseenIs
    <2> HIDE DEF k
    <2>. QED  BY <2>1, <2>2, <2>3 DEF NoteRows
  <1> HIDE DEF n
  <1>9. NoteFits(n, Len(new))  BY <1>5, <1>7, <1>8 DEF NoteFits
  <1>10. TextsOK(agents[p], new)
    <2>1. TextsOK(agents[p], rows) /\ agents[p].screen = Screen(p) /\ Screen(p) # NoText
      BY <1>2, AgentIs DEF Screen, Unseen
    <2>2. Screen(p).turn \in Nat  BY <1>2, UnseenIs
    <2>. QED  BY <1>7, <2>1, <2>2 DEF TextsOK
  <1>11. At(p) = "read" /\ At(p)' # "stored"  BY <1>2, <1>4, ChatConstants DEF At
  <1>12. p \in lost
    <2> SUFFICES ASSUME p \notin lost PROVE FALSE
      OBVIOUS
    <2>1. PaneOK(rows, notes[p], saved[p], "read")  BY <1>11 DEF ChatInv, RepliesInv
    <2>2. NoteOK(notes[p], rows) /\ (notes[p].started = NoTurn => notes[p].digest = NoText)
      BY <2>1 DEF PaneOK
    <2>3. rows # <<>>  BY <1>5
    <2>4. Len(rows) \in DOMAIN rows  BY <1>5
    <2>5. Shown(rows[Len(rows)].text) \in Digests  BY <2>4, AgentIs, ShownIs
    <2>6. notes[p].digest # NoText  BY <2>2, <2>3, <2>5, ChatConstants DEF NoteOK
    <2>7. notes[p].started = Len(rows)  BY <2>2, <2>6 DEF NoteOK
    <2>. QED  BY <1>5, <2>7, ChatConstants
  <1>13. MailsRead  BY <1>2, ReadIs DEF ChatInv
  <1> HIDE DEF rows
  <1>14. Len(new) >= Len(replies[p])  BY <1>5, <1>7 DEF rows
  <1>. QED  BY <1>2, <1>3, <1>4, <1>7, <1>8, <1>9, <1>10, <1>11, <1>12, <1>13, <1>14, HarvestKeeps

-----------------------------------------------------------------------------
(* Prompts and marks.                                                        *)

\* A step that stores nothing and keeps the marks' invariant.
LEMMA ChatMarked ==
  ASSUME ChatInv, AgentsStay, NotesMove, RepliesStay, MarksInv',
         age' \in [Panes -> Ages], tick' \in TickRows, boardSaw' \subseteq Panes, chatFaults' \in Nat,
         mails' \in [Mails -> MailRows], posts' \in [Mails -> PostRows],
         told' \in [Mails -> [Panes -> 0..2]], excused' \subseteq Mails \X Panes
  PROVE  ChatInv'
  <1>1. NotesFit' /\ saved' \in [Panes -> NoteRows]  BY NotesFitStays DEF ChatInv, RepliesStay
  <1>2. RepliesInv'  BY RepliesKept DEF ChatInv
  <1>3. ChatTypes'
    BY <1>1 DEF ChatInv, ChatTypes, AgentsStay, NotesMove, RepliesStay
  <1>. QED  BY <1>1, <1>2, <1>3 DEF ChatInv

\* The same for a step that leaves the notes alone and does not read or store.
LEMMA PromptKeeps ==
  ASSUME ChatInv, AgentsStay, MarksInv', age' \in [Panes -> Ages], tick' \in TickRows,
         UNCHANGED <<replies, notes, saved, boardSaw, lost>>, chatFaults' \in Nat,
         mails' \in [Mails -> MailRows], posts' \in [Mails -> PostRows],
         told' \in [Mails -> [Panes -> 0..2]], excused' \subseteq Mails \X Panes,
         tick' = tick \/ \A p \in Panes : At(p) # "stored" /\ At(p)' \notin {"stored", "read"}
  PROVE  ChatInv'
  <1>1. NotesMove  BY NothingMoves
  <1>2. \A p \in Panes : /\ At(p)' = "stored" <=> At(p) = "stored"
                         /\ At(p)' = "read" => At(p) = "read"
    BY DEF At
  <1>3. RepliesStay  BY <1>2 DEF RepliesStay
  <1>4. boardSaw' \subseteq Panes  BY DEF ChatInv, ChatTypes
  <1>. QED  BY <1>1, <1>3, <1>4, ChatMarked

LEMMA ChatRowsAre ==
  ASSUME ChatInv
  PROVE  /\ tick \in TickRows /\ chatFaults \in Nat /\ told \in [Mails -> [Panes -> 0..2]]
         /\ mails \in [Mails -> MailRows] /\ posts \in [Mails -> PostRows]
         /\ excused \subseteq Mails \X Panes
         /\ \A m \in Mails : mails[m] \in MailRows /\ posts[m] \in PostRows /\ told[m] \in [Panes -> 0..2]
  BY DEF ChatInv, ChatTypes

LEMMA ListKeeps == ASSUME ChatInv, List PROVE ChatInv'
  <1>1. tick \in TickRows /\ tick.stage = "panes"  BY ChatRowsAre DEF List
  <1> DEFINE rows == [m \in Mails |-> Waiting(m)]
             open == {m \in Mails : posts[m].active}
  <1>2. rows \in [Mails -> SUBSET Panes]
    <2>1. \A m \in Mails : Waiting(m) \subseteq Panes  BY ChatRowsAre DEF Waiting, MailRows
    <2>. QED  BY <2>1
  <1>3. \/ tick' = AtRest
        \/ tick' = [tick EXCEPT !.stage = "flush", !.todo = Panes, !.rows = rows, !.open = open]
    BY DEF List
  <1> HIDE DEF rows, open
  <1>4. open \subseteq Mails  BY DEF open
  <1>5. CASE tick' = AtRest
    <2>1. tick' \in TickRows /\ tick'.stage = "rest"  BY <1>1, <1>5, TickIs DEF AtRest
    <2>2. \A p \in Panes : At(p) # "stored" /\ At(p)' \notin {"stored", "read"}
      BY <1>1, <2>1 DEF At
    <2>3. FlushKeeps  BY <1>1, <2>1 DEF FlushKeeps
    <2>4. AgentsStay /\ age' \in [Panes -> Ages]  BY NothingMoves DEF List
    <2>. QED  BY <2>1, <2>2, <2>3, <2>4, TickMoves DEF List
  <1>6. CASE tick' = [tick EXCEPT !.stage = "flush", !.todo = Panes, !.rows = rows, !.open = open]
    <2>1. /\ tick' \in TickRows /\ tick'.stage = "flush" /\ tick'.rows = rows /\ tick'.open = open
      BY <1>1, <1>2, <1>4, <1>6 DEF TickRows, Stages
    <2>2. \A p \in Panes : At(p) # "stored" /\ At(p)' \notin {"stored", "read"}
      BY <1>1, <2>1 DEF At
    <2>3. AgentsStay /\ age' \in [Panes -> Ages]  BY NothingMoves DEF List
    <2>4. UNCHANGED <<mails, posts, told, refused, excused, replies, notes, saved, boardSaw, lost, chatFaults>>
      BY DEF List, ledger, chatHistory
    <2>5. \A m \in Mails, p \in Panes : Unmarked(m, p) => p \in posts[m].done
      BY <1>1 DEF Unmarked, Doing
    <2>6. MarksInv'
      <3>1. \A m \in Mails : MailOK(m, mails[m], posts[m])'
        BY <2>4 DEF ChatInv, MarksInv, MailOK, Tried
      <3>2. \A m \in Mails, p \in Panes : PromptOK(m, p)'
        BY <2>4, <2>5 DEF ChatInv, MarksInv, PromptOK, Unmarked
      <3>3. ASSUME NEW m \in Mails, NEW p \in Panes PROVE FoundOK(m, p)'
        <4> SUFFICES ASSUME p \in rows[m]
                     PROVE  /\ Posted(m)' /\ (posts'[m].active => m \in open)
                            /\ told'[m][p] > 0 => <<m, p>> \in excused' \/ m \in open
          BY <2>1 DEF FoundOK
        <4>1. p \in mails[m].to /\ p \notin mails[m].notified  BY DEF rows, Waiting
        <4>2. told[m][p] > 0 => <<m, p>> \in excused \/ p \in posts[m].done
          BY <2>5, <4>1 DEF ChatInv, MarksInv, PromptOK
        <4>3. p \in posts[m].done => posts[m].active
          BY DEF ChatInv, MarksInv, MailOK
        <4>. QED  BY <2>4, <4>1, <4>2, <4>3 DEF Posted, open
      <3>. QED  BY <2>1, <3>1, <3>2, <3>3 DEF MarksInv
    <2>. QED  BY <2>1, <2>2, <2>3, <2>4, <2>6, ChatRowsAre, PromptKeeps
  <1>. QED  BY <1>3, <1>5, <1>6

\* One message's row, its request and its prompts change; the poller stays where it is.
LEMMA MarksPut ==
  ASSUME ChatInv, UNCHANGED tick, excused \subseteq excused', refused \subseteq refused', NEW k \in Mails,
         \A m \in Mails \ {k} : mails'[m] = mails[m] /\ posts'[m] = posts[m] /\ told'[m] = told[m],
         MailOK(k, mails[k], posts[k])', \A p \in Panes : PromptOK(k, p)',
         tick.stage \in {"flush", "mark"} => \A p \in Panes : FoundOK(k, p)',
         \A p \in Panes : told[k][p] > 0 => told'[k][p] > 0
  PROVE  MarksInv'
  <1>1. \A m \in Mails : MailOK(m, mails[m], posts[m])'
    <2> SUFFICES ASSUME NEW m \in Mails \ {k} PROVE MailOK(m, mails[m], posts[m])'
      OBVIOUS
    <2>. QED  BY DEF ChatInv, MarksInv, MailOK, Tried
  <1>2. \A m \in Mails, p \in Panes : PromptOK(m, p)'
    <2> SUFFICES ASSUME NEW m \in Mails \ {k}, NEW p \in Panes PROVE PromptOK(m, p)'
      OBVIOUS
    <2>1. Unmarked(m, p) => Unmarked(m, p)'  BY DEF Unmarked, Doing
    <2>. QED  BY <2>1 DEF ChatInv, MarksInv, PromptOK
  <1>3. tick'.stage \in {"flush", "mark"} => \A m \in Mails, p \in Panes : FoundOK(m, p)'
    <2> SUFFICES ASSUME tick.stage \in {"flush", "mark"}, NEW m \in Mails \ {k}, NEW p \in Panes
                 PROVE  FoundOK(m, p)'
      OBVIOUS
    <2>. QED  BY DEF ChatInv, MarksInv, FoundOK, Posted, Doing
  <1>4. tick'.stage = "mark" => tick'.mail \in Mails /\ tick'.pane \in Panes
                                /\ Tried(tick.mail, tick.pane)'
    BY DEF ChatInv, MarksInv, Tried
  <1>. QED  BY <1>1, <1>2, <1>3, <1>4 DEF MarksInv

LEMMA PostKeeps ==
  ASSUME ChatInv, NEW m \in Mails, NEW to \in (SUBSET Panes) \ {{}}, NEW urgent \in BOOLEAN,
         Post(m, to, urgent)
  PROVE  ChatInv'
  <1>1. PICK todo \in {to, {}} : posts' = [posts EXCEPT ![m] =
            [active |-> TRUE, todo |-> todo, done |-> {},
             free |-> {p \in to : agents[p].status # "working"}]]
    BY DEF Post
  <1> DEFINE ml == [NotPosted EXCEPT !.to = to, !.urgent = urgent]
             po == [active |-> TRUE, todo |-> todo, done |-> {},
                    free |-> {p \in to : agents[p].status # "working"}]
  <1>2. ml \in MailRows /\ ml.to = to /\ ml.notified = {} /\ ml.read = {}
    BY DEF NotPosted, MailRows
  <1>3. po \in PostRows /\ po.active /\ po.done = {}  BY DEF PostRows
  <1>4. mails' = [mails EXCEPT ![m] = ml] /\ posts' = [posts EXCEPT ![m] = po]
    BY <1>1 DEF Post
  <1> HIDE DEF ml, po
  <1>5. /\ mails'[m] = ml /\ posts'[m] = po
        /\ mails' \in [Mails -> MailRows] /\ posts' \in [Mails -> PostRows]
        /\ \A k \in Mails \ {m} : mails'[k] = mails[k] /\ posts'[k] = posts[k]
    BY <1>2, <1>3, <1>4, ChatRowsAre
  <1>6. UNCHANGED <<agents, replies, notes, age, saved, tick, boardSaw, told, refused, excused, lost, chatFaults>>
    BY DEF Post, chatHistory
  <1>7. mails[m].to = {} /\ \A p \in Panes : told[m][p] = 0
    BY DEF Post, Posted, ChatInv, MarksInv, MailOK
  <1>8. MailOK(m, mails[m], posts[m])'
    BY <1>2, <1>3, <1>5 DEF MailOK
  <1>9. \A p \in Panes : PromptOK(m, p)'  BY <1>6, <1>7 DEF PromptOK
  <1>10. tick.stage \in {"flush", "mark"} => \A p \in Panes : FoundOK(m, p)'
    BY <1>6, <1>7 DEF ChatInv, MarksInv, FoundOK, Posted
  <1>11. MarksInv'
    BY <1>5, <1>6, <1>8, <1>9, <1>10, MarksPut
  <1>12. AgentsStay /\ age' \in [Panes -> Ages]  BY <1>6, NothingMoves
  <1>. QED  BY <1>5, <1>6, <1>11, <1>12, ChatRowsAre, PromptKeeps

\* One more prompt: counted to two.
LEMMA PromptIs ==
  ASSUME ChatInv, NEW m \in Mails, NEW p \in Panes, Prompt(m, p)
  PROVE  /\ told' \in [Mails -> [Panes -> 0..2]] /\ told'[m][p] > 0
         /\ told'[m][p] > 1 => told[m][p] > 0
         /\ \A q \in Panes \ {p} : told'[m][q] = told[m][q]
         /\ \A k \in Mails \ {m} : told'[k] = told[k]
         /\ \A k \in Mails, q \in Panes : told[k][q] > 0 => told'[k][q] > 0
  <1> DEFINE t == IF told[m][p] < 2 THEN told[m][p] + 1 ELSE told[m][p]
  <1>1. told' = [told EXCEPT ![m] = [told[m] EXCEPT ![p] = t]]  BY DEF Prompt
  <1>2. told \in [Mails -> [Panes -> 0..2]] /\ told[m] \in [Panes -> 0..2] /\ told[m][p] \in 0..2
    BY ChatRowsAre
  <1>3. t \in 0..2 /\ t > 0 /\ (t > 1 => told[m][p] > 0)  BY <1>2
  <1> HIDE DEF t
  <1>4. told'[m] = [told[m] EXCEPT ![p] = t] /\ told' \in [Mails -> [Panes -> 0..2]]
    BY <1>1, <1>2, <1>3
  <1>5. told'[m][p] = t /\ \A q \in Panes \ {p} : told'[m][q] = told[m][q]
    BY <1>2, <1>4
  <1>6. \A k \in Mails \ {m} : told'[k] = told[k]  BY <1>1, <1>2
  <1>. QED  BY <1>3, <1>4, <1>5, <1>6

\* A prompt that is made, refused or not reached.
LEMMA PutIs ==
  ASSUME ChatInv, NEW m \in Mails, NEW p \in Panes,
         \/ Prompt(m, p) /\ UNCHANGED refused
         \/ Refuse(m, p) /\ UNCHANGED told
         \/ UNCHANGED <<told, refused>>
  PROVE  /\ told' \in [Mails -> [Panes -> 0..2]] /\ (told'[m][p] > 1 => told[m][p] > 0)
         /\ \A q \in Panes \ {p} : told'[m][q] = told[m][q]
         /\ \A k \in Mails \ {m} : told'[k] = told[k]
         /\ \A k \in Mails, q \in Panes : told[k][q] > 0 => told'[k][q] > 0
         /\ refused \subseteq refused'
  <1>1. refused \subseteq refused'  BY DEF Refuse
  <1>2. CASE Prompt(m, p)  BY <1>1, <1>2, PromptIs
  <1>3. CASE UNCHANGED told
    <2>1. told \in [Mails -> [Panes -> 0..2]] /\ told[m][p] \in 0..2  BY ChatRowsAre
    <2>. QED  BY <1>1, <1>3, <2>1
  <1>. QED  BY <1>2, <1>3

LEMMA PostPromptsKeeps ==
  ASSUME ChatInv, NEW m \in Mails, NEW p \in Panes, PostPrompts(m, p) PROVE ChatInv'
  <1> DEFINE po == [posts[m] EXCEPT !.todo = @ \ {p}, !.done = @ \cup {p}]
  <1>1. /\ p \in posts[m].todo /\ posts' = [posts EXCEPT ![m] = po]
        /\ \/ /\ Prompt(m, p) /\ UNCHANGED refused
              /\ excused' = IF told[m][p] > 0 THEN excused \cup {<<m, p>>} ELSE excused
           \/ Refuse(m, p) /\ UNCHANGED <<told, excused>>
        /\ UNCHANGED <<agents, mails, replies, notes, age, saved, tick, boardSaw, lost, chatFaults>>
    BY ChatRowsAre DEF PostPrompts, NextOf, ledger
  <1>2. /\ po \in PostRows /\ po.active = posts[m].active /\ po.todo \subseteq posts[m].todo
        /\ po.done = posts[m].done \cup {p}
    <2>1. posts[m] \in PostRows  BY ChatRowsAre
    <2>. QED  BY <2>1 DEF PostRows
  <1> HIDE DEF po
  <1>3. /\ posts' \in [Mails -> PostRows] /\ posts'[m] = po
        /\ \A k \in Mails \ {m} : posts'[k] = posts[k]
    BY <1>1, <1>2, ChatRowsAre
  <1>4. /\ told' \in [Mails -> [Panes -> 0..2]] /\ (told'[m][p] > 1 => told[m][p] > 0)
        /\ \A q \in Panes \ {p} : told'[m][q] = told[m][q]
        /\ \A k \in Mails \ {m} : told'[k] = told[k]
        /\ \A k \in Mails, q \in Panes : told[k][q] > 0 => told'[k][q] > 0
        /\ refused \subseteq refused'
    BY <1>1, PutIs
  <1>5. excused \subseteq excused' /\ excused' \subseteq Mails \X Panes
    BY <1>1, ChatRowsAre
  <1>6. MailOK(m, mails[m], posts[m]) /\ \A q \in Panes : PromptOK(m, q)
    BY DEF ChatInv, MarksInv
  <1>7. posts[m].active /\ mails[m].to # {}  BY <1>1, <1>6 DEF MailOK
  <1>8. MailOK(m, mails[m], posts[m])'
    <2>1. mails[m].notified \subseteq Panes /\ posts[m].done \subseteq Panes
      BY ChatRowsAre DEF MailRows, PostRows
    <2>2. Tried(m, p)'
      <3>1. CASE Prompt(m, p)  BY <3>1, PromptIs DEF Tried
      <3>2. CASE Refuse(m, p)  BY <3>2 DEF Tried, Refuse
      <3>. QED  BY <1>1, <3>1, <3>2
    <2>3. \A q \in Panes : Tried(m, q) => Tried(m, q)'  BY <1>4 DEF Tried
    <2>. QED  BY <1>1, <1>2, <1>3, <1>6, <1>7, <2>1, <2>2, <2>3 DEF MailOK
  <1>9. ASSUME NEW q \in Panes PROVE PromptOK(m, q)'
    <2>1. CASE q = p
      <3>1. Unmarked(m, p)'  BY <1>2, <1>3 DEF Unmarked
      <3>2. told'[m][p] > 1 => <<m, p>> \in excused'
        <4>1. CASE Prompt(m, p)  BY <1>1, <1>4, <1>6, <4>1 DEF PromptOK
        <4>2. CASE UNCHANGED told  BY <1>5, <1>6, <4>2 DEF PromptOK
        <4>. QED  BY <1>1, <4>1, <4>2
      <3>. QED  BY <2>1, <3>1, <3>2 DEF PromptOK
    <2>2. CASE q # p
      <3>1. Unmarked(m, q) => Unmarked(m, q)'  BY <1>1, <1>2, <1>3 DEF Unmarked, Doing
      <3>2. told'[m][q] = told[m][q]  BY <1>4, <2>2
      <3>. QED  BY <1>1, <1>5, <1>6, <3>1, <3>2 DEF PromptOK
    <2>. QED  BY <2>1, <2>2
  <1>10. ASSUME tick.stage \in {"flush", "mark"}, NEW q \in Panes PROVE FoundOK(m, q)'
    <2>1. FoundOK(m, q)  BY <1>10 DEF ChatInv, MarksInv
    <2>2. q \in tick.rows[m] => m \in tick.open /\ Posted(m)  BY <1>7, <2>1 DEF FoundOK
    <2>. QED  BY <1>1, <2>2 DEF FoundOK, Posted
  <1>11. MarksInv'
    BY <1>1, <1>3, <1>4, <1>5, <1>8, <1>9, <1>10, MarksPut
  <1>12. AgentsStay /\ age' \in [Panes -> Ages]  BY <1>1, NothingMoves
  <1>. QED  BY <1>1, <1>3, <1>4, <1>5, <1>11, <1>12, ChatRowsAre, PromptKeeps

\* A pane that the request leaves to the poller.
LEMMA PostLeavesKeeps ==
  ASSUME ChatInv, NEW m \in Mails, NEW p \in Panes, PostSkips(m, p) \/ PostRaises(m, p)
  PROVE  ChatInv'
  <1> DEFINE po == [posts[m] EXCEPT !.todo = @ \ {p}]
  <1>1. /\ p \in posts[m].todo /\ posts' = [posts EXCEPT ![m] = po] /\ chatFaults' \in Nat
        /\ UNCHANGED <<mails, replies, notes, saved, tick, boardSaw, refused, lost>>
        /\ \/ Prompt(m, p) /\ excused' = excused \cup {<<m, p>>}
           \/ UNCHANGED <<told, excused>>
    BY ChatRowsAre DEF PostSkips, PostRaises, NextOf, ledger, chatHistory, ChatFault
  <1>2. /\ po \in PostRows /\ po.active = posts[m].active /\ po.todo \subseteq posts[m].todo
        /\ po.done = posts[m].done
    <2>1. posts[m] \in PostRows  BY ChatRowsAre
    <2>. QED  BY <2>1 DEF PostRows
  <1> HIDE DEF po
  <1>3. /\ posts' \in [Mails -> PostRows] /\ posts'[m] = po
        /\ \A k \in Mails \ {m} : posts'[k] = posts[k]
    BY <1>1, <1>2, ChatRowsAre
  <1>4. /\ told' \in [Mails -> [Panes -> 0..2]]
        /\ \A q \in Panes \ {p} : told'[m][q] = told[m][q]
        /\ \A k \in Mails \ {m} : told'[k] = told[k]
        /\ \A k \in Mails, q \in Panes : told[k][q] > 0 => told'[k][q] > 0
    BY <1>1, PutIs
  <1>5. /\ excused \subseteq excused' /\ excused' \subseteq Mails \X Panes
        /\ told' = told \/ <<m, p>> \in excused'
    BY <1>1, ChatRowsAre
  <1>6. MailOK(m, mails[m], posts[m]) /\ \A q \in Panes : PromptOK(m, q)
    BY DEF ChatInv, MarksInv
  <1>7. MailOK(m, mails[m], posts[m])'
    <2>1. mails[m].notified \subseteq Panes /\ posts[m].done \subseteq Panes
      BY ChatRowsAre DEF MailRows, PostRows
    <2>2. \A q \in Panes : Tried(m, q) => Tried(m, q)'  BY <1>1, <1>4 DEF Tried
    <2>. QED  BY <1>1, <1>2, <1>3, <1>6, <2>1, <2>2 DEF MailOK
  <1>8. ASSUME NEW q \in Panes PROVE PromptOK(m, q)'
    <2>1. Unmarked(m, q) => Unmarked(m, q)'  BY <1>1, <1>2, <1>3 DEF Unmarked, Doing
    <2>2. told'[m][q] = told[m][q] \/ <<m, q>> \in excused'  BY <1>4, <1>5
    <2>. QED  BY <1>1, <1>5, <1>6, <2>1, <2>2 DEF PromptOK
  <1>9. ASSUME tick.stage \in {"flush", "mark"}, NEW q \in Panes PROVE FoundOK(m, q)'
    <2>1. FoundOK(m, q)  BY <1>9 DEF ChatInv, MarksInv
    <2>2. told'[m][q] = told[m][q] \/ <<m, q>> \in excused'  BY <1>4, <1>5
    <2>. QED  BY <1>1, <1>2, <1>3, <1>5, <2>1, <2>2 DEF FoundOK, Posted, Doing
  <1>10. MarksInv'  BY <1>1, <1>3, <1>4, <1>5, <1>7, <1>8, <1>9, MarksPut
  <1>11. AgentsStay /\ age' \in [Panes -> Ages]
    BY LookedIs DEF ChatInv, PostSkips, PostRaises
  <1>. QED  BY <1>1, <1>3, <1>4, <1>5, <1>10, <1>11, ChatRowsAre, PromptKeeps

LEMMA FlushPromptsKeeps == ASSUME ChatInv, NEW p \in Panes, FlushPrompts(p) PROVE ChatInv'
  <1>2. PICK m \in Mails : m = First(p) /\ p \in tick.rows[m]
    <2>1. Due(p) # {} /\ Due(p) \subseteq Mails  BY DEF FlushPrompts, Due
    <2>2. First(p) \in Due(p)  BY <2>1, FirstIs
    <2>. QED  BY <2>2 DEF Due
  <1>1. /\ tick \in TickRows /\ tick.stage = "flush" /\ tick.pane = p
        /\ \/ /\ Prompt(m, p) /\ UNCHANGED refused
              /\ excused' = IF m \in tick.open THEN excused \cup {<<m, p>>} ELSE excused
           \/ Refuse(m, p) /\ UNCHANGED <<told, excused>>
        /\ tick' = [tick EXCEPT !.stage = "mark", !.mail = m]
        /\ UNCHANGED <<agents, mails, replies, notes, age, saved, posts, boardSaw, lost, chatFaults>>
    BY <1>2, ChatRowsAre DEF FlushPrompts, Doing, ledger
  <1>3. /\ tick' \in TickRows /\ tick'.stage = "mark" /\ tick'.pane = p /\ tick'.mail = m
        /\ tick'.rows = tick.rows /\ tick'.open = tick.open
    BY <1>1, <1>2 DEF TickRows, Stages
  <1>4. /\ told' \in [Mails -> [Panes -> 0..2]] /\ (told'[m][p] > 1 => told[m][p] > 0)
        /\ \A q \in Panes \ {p} : told'[m][q] = told[m][q]
        /\ \A k \in Mails \ {m} : told'[k] = told[k]
        /\ \A k \in Mails, q \in Panes : told[k][q] > 0 => told'[k][q] > 0
        /\ refused \subseteq refused' /\ Tried(m, p)'
    <2>1. Tried(m, p)'
      <3>1. CASE Prompt(m, p)  BY <1>2, <3>1, PromptIs DEF Tried
      <3>2. CASE Refuse(m, p)  BY <3>2 DEF Tried, Refuse
      <3>. QED  BY <1>1, <3>1, <3>2
    <2>. QED  BY <1>1, <1>2, <2>1, PutIs
  <1>5. excused \subseteq excused' /\ excused' \subseteq Mails \X Panes
    BY <1>1, <1>2, ChatRowsAre
  <1>6. /\ FoundOK(m, p) /\ MailOK(m, mails[m], posts[m])
    BY <1>1, <1>2 DEF ChatInv, MarksInv
  <1>7. Posted(m) /\ (told[m][p] > 0 => <<m, p>> \in excused \/ m \in tick.open)
    BY <1>1, <1>2, <1>6 DEF FoundOK, Doing
  <1>8. \A k \in Mails : MailOK(k, mails[k], posts[k])'
    <2> SUFFICES ASSUME NEW k \in Mails PROVE MailOK(k, mails[k], posts[k])'
      OBVIOUS
    <2>1. MailOK(k, mails[k], posts[k])  BY DEF ChatInv, MarksInv
    <2>2. mails[k].notified \subseteq Panes /\ posts[k].done \subseteq Panes
      BY ChatRowsAre DEF MailRows, PostRows
    <2>3. \A q \in Panes : Tried(k, q) => Tried(k, q)'  BY <1>4 DEF Tried
    <2>4. CASE k = m  BY <1>1, <1>7, <2>1, <2>2, <2>3, <2>4 DEF MailOK, Posted
    <2>5. CASE k # m  BY <1>1, <1>4, <2>1, <2>2, <2>3, <2>5 DEF MailOK
    <2>. QED  BY <2>4, <2>5
  <1>9. ASSUME NEW k \in Mails, NEW q \in Panes PROVE PromptOK(k, q)' /\ FoundOK(k, q)'
    <2>1. CASE k = m /\ q = p
      <3>1. Doing("mark", p)' /\ tick'.mail = m  BY <1>3 DEF Doing
      <3>2. Unmarked(m, p)'  BY <3>1 DEF Unmarked
      <3>3. told'[m][p] > 1 => <<m, p>> \in excused'
        <4>1. CASE excused' = IF m \in tick.open THEN excused \cup {<<m, p>>} ELSE excused
          BY <1>4, <1>7, <4>1
        <4>2. CASE UNCHANGED told  BY <1>2, <1>5, <4>2 DEF ChatInv, MarksInv, PromptOK
        <4>. QED  BY <1>1, <4>1, <4>2
      <3>4. PromptOK(m, p)'  BY <3>2, <3>3 DEF PromptOK
      <3>5. FoundOK(m, p)'  BY <1>1, <1>2, <1>3, <1>6, <1>7, <3>1 DEF FoundOK, Posted
      <3>. QED  BY <2>1, <3>4, <3>5
    <2>2. CASE ~(k = m /\ q = p)
      <3>1. told'[k][q] = told[k][q]
        <4>1. CASE k = m  BY <1>4, <2>2, <4>1
        <4>2. CASE k # m  BY <1>4, <4>2
        <4>. QED  BY <4>1, <4>2
      <3>2. PromptOK(k, q) /\ FoundOK(k, q)  BY <1>1 DEF ChatInv, MarksInv
      <3>3. Unmarked(k, q) => Unmarked(k, q)'  BY <1>1 DEF Unmarked, Doing
      <3>4. PromptOK(k, q)'  BY <1>1, <1>5, <3>1, <3>2, <3>3 DEF PromptOK
      <3>5. ~Doing("mark", q)  BY <1>1 DEF Doing
      <3>6. FoundOK(k, q)'  BY <1>1, <1>3, <1>5, <3>1, <3>2, <3>5 DEF FoundOK, Posted
      <3>. QED  BY <3>4, <3>6
    <2>. QED  BY <2>1, <2>2
  <1>10. MarksInv'  BY <1>2, <1>3, <1>4, <1>8, <1>9 DEF MarksInv
  <1>11. AgentsStay /\ age' \in [Panes -> Ages]  BY <1>1, NothingMoves
  <1>12. \A q \in Panes : At(q) # "stored" /\ At(q)' \notin {"stored", "read"}
    BY <1>1, <1>3 DEF At
  <1>. QED  BY <1>1, <1>3, <1>4, <1>5, <1>10, <1>11, <1>12, ChatRowsAre, PromptKeeps

\* The prompt raises: made or not, it is not marked.
LEMMA FlushRaisesKeeps == ASSUME ChatInv, NEW p \in Panes, FlushRaises(p) PROVE ChatInv'
  <1>1. PICK m \in Mails : m = First(p) /\ p \in tick.rows[m]
    <2>1. Due(p) # {} /\ Due(p) \subseteq Mails  BY DEF FlushRaises, Due
    <2>2. First(p) \in Due(p)  BY <2>1, FirstIs
    <2>. QED  BY <2>2 DEF Due
  <1>2. /\ tick \in TickRows /\ tick.stage = "flush" /\ tick.pane = p
        /\ tick' = [tick EXCEPT !.tried = @ \cup {m}]
        /\ \/ Prompt(m, p) /\ excused' = excused \cup {<<m, p>>}
           \/ UNCHANGED <<told, excused>>
        /\ UNCHANGED <<agents, mails, replies, notes, age, saved, posts, boardSaw, refused, lost>>
        /\ chatFaults' \in Nat
    BY <1>1, ChatRowsAre DEF FlushRaises, Doing, ledger, ChatFault
  <1>3. /\ tick' \in TickRows /\ tick'.stage = "flush" /\ tick'.rows = tick.rows
        /\ tick'.open = tick.open
    BY <1>1, <1>2 DEF TickRows
  <1>4. /\ told' \in [Mails -> [Panes -> 0..2]]
        /\ \A q \in Panes \ {p} : told'[m][q] = told[m][q]
        /\ \A k \in Mails \ {m} : told'[k] = told[k]
        /\ \A k \in Mails, q \in Panes : told[k][q] > 0 => told'[k][q] > 0
    BY <1>2, PutIs
  <1>5. /\ excused \subseteq excused' /\ excused' \subseteq Mails \X Panes
        /\ told' = told \/ <<m, p>> \in excused'
    BY <1>2, ChatRowsAre
  <1>6. Posted(m)  BY <1>1, <1>2 DEF ChatInv, MarksInv, FoundOK
  <1>7. ASSUME NEW k \in Mails PROVE MailOK(k, mails[k], posts[k])'
    <2>1. MailOK(k, mails[k], posts[k])  BY DEF ChatInv, MarksInv
    <2>2. mails[k].notified \subseteq Panes /\ posts[k].done \subseteq Panes
      BY ChatRowsAre DEF MailRows, PostRows
    <2>3. \A q \in Panes : Tried(k, q) => Tried(k, q)'  BY <1>2, <1>4 DEF Tried
    <2>4. CASE k = m  BY <1>2, <1>6, <2>1, <2>2, <2>3, <2>4 DEF MailOK, Posted
    <2>5. CASE k # m  BY <1>2, <1>4, <2>1, <2>2, <2>3, <2>5 DEF MailOK
    <2>. QED  BY <2>4, <2>5
  <1>8. ASSUME NEW k \in Mails, NEW q \in Panes PROVE PromptOK(k, q)' /\ FoundOK(k, q)'
    <2>1. told'[k][q] = told[k][q] \/ <<k, q>> \in excused'
      <3>1. CASE k = m  BY <1>4, <1>5, <3>1
      <3>2. CASE k # m  BY <1>4, <3>2
      <3>. QED  BY <3>1, <3>2
    <2>2. PromptOK(k, q) /\ FoundOK(k, q)  BY <1>2 DEF ChatInv, MarksInv
    <2>3. Unmarked(k, q) => Unmarked(k, q)'  BY <1>2 DEF Unmarked, Doing
    <2>4. PromptOK(k, q)'  BY <1>2, <1>5, <2>1, <2>2, <2>3 DEF PromptOK
    <2>5. ~Doing("mark", q)  BY <1>2 DEF Doing
    <2>6. FoundOK(k, q)'  BY <1>2, <1>3, <1>5, <2>1, <2>2, <2>5 DEF FoundOK, Posted
    <2>. QED  BY <2>4, <2>6
  <1>9. MarksInv'  BY <1>3, <1>7, <1>8 DEF MarksInv
  <1>10. AgentsStay /\ age' \in [Panes -> Ages]  BY <1>2, NothingMoves
  <1>11. \A q \in Panes : At(q) # "stored" /\ At(q)' \notin {"stored", "read"}
    BY <1>2, <1>3 DEF At
  <1>. QED  BY <1>2, <1>3, <1>4, <1>5, <1>9, <1>10, <1>11, ChatRowsAre, PromptKeeps

\* Notes whose last message is no reply any more.
LEMMA PointersOff ==
  ASSUME ChatInv, NEW S \in SUBSET Panes, saved' = notes', UNCHANGED replies,
         notes' = [p \in Panes |-> IF p \in S THEN [notes[p] EXCEPT !.pointer = 0] ELSE notes[p]]
  PROVE  /\ NotesMove
         /\ \A p \in Panes : notes'[p].digest = notes[p].digest /\ notes'[p].started = notes[p].started
  <1>1. ASSUME NEW p \in Panes
        PROVE  /\ notes'[p] \in NoteRows /\ NoteFits(notes'[p], Len(replies[p]))
               /\ notes'[p].digest = notes[p].digest /\ notes'[p].started = notes[p].started
    <2>1. notes[p] \in NoteRows /\ NoteFits(notes[p], Len(replies[p])) /\ Len(replies[p]) \in Nat
      BY LenProperties DEF ChatInv, ChatTypes, NotesFit
    <2>2. CASE p \in S
      <3>1. notes'[p] = [notes[p] EXCEPT !.pointer = 0]  BY <2>2
      <3>2. /\ notes'[p] \in NoteRows /\ notes'[p].started = notes[p].started
            /\ notes'[p].digest = notes[p].digest /\ notes'[p].pointer = 0
        BY <2>1, <3>1 DEF NoteRows
      <3>. QED  BY <2>1, <3>2 DEF NoteFits
    <2>3. CASE p \notin S
      <3>1. notes'[p] = notes[p]  BY <2>3
      <3>. QED  BY <2>1, <3>1
    <2>. QED  BY <2>2, <2>3
  <1>. QED  BY <1>1 DEF NotesMove

LEMMA PostMarksKeeps == ASSUME ChatInv, NEW m \in Mails, PostMarks(m) PROVE ChatInv'
  <1> DEFINE done == posts[m].done
             ml == [mails[m] EXCEPT !.notified = @ \cup done]
  <1>1. /\ posts' = [posts EXCEPT ![m] = NoPost] /\ posts[m].todo = {} /\ posts[m].active
        /\ UNCHANGED <<agents, replies, age, tick, boardSaw, told, refused, lost>>
        /\ \/ mails' = [mails EXCEPT ![m] = ml] /\ UNCHANGED <<excused, chatFaults>>
           \/ /\ excused' = excused \cup {<<m, p>> : p \in done} /\ ChatFault
              /\ UNCHANGED <<mails, notes, saved>>
    BY DEF PostMarks
  <1>2. done \subseteq Panes /\ mails[m] \in MailRows  BY ChatRowsAre DEF PostRows
  <1>3. /\ ml \in MailRows /\ ml.to = mails[m].to /\ ml.read = mails[m].read
        /\ ml.notified = mails[m].notified \cup done
    BY <1>2 DEF MailRows
  <1> HIDE DEF done, ml
  <1>4. /\ NoPost \in PostRows /\ NoPost.done = {} /\ NoPost.todo = {} /\ ~NoPost.active
    BY DEF NoPost, PostRows
  <1>5. /\ posts' \in [Mails -> PostRows] /\ posts'[m] = NoPost
        /\ \A k \in Mails \ {m} : posts'[k] = posts[k]
    BY <1>1, <1>4, ChatRowsAre
  <1>6. /\ mails' \in [Mails -> MailRows] /\ mails'[m] \in {ml, mails[m]}
        /\ \A k \in Mails \ {m} : mails'[k] = mails[k]
        /\ mails[m].notified \subseteq mails'[m].notified
        /\ mails'[m].notified \subseteq mails[m].notified \cup done
        /\ mails'[m].to = mails[m].to /\ mails'[m].read = mails[m].read
    BY <1>1, <1>3, ChatRowsAre
  <1>7. excused \subseteq excused' /\ excused' \subseteq Mails \X Panes /\ chatFaults' \in Nat
    BY <1>1, <1>2, ChatRowsAre DEF ChatFault
  <1>8. \A p \in done : p \in mails'[m].notified \/ <<m, p>> \in excused'
    BY <1>1, <1>3, ChatRowsAre
  <1>9. MailOK(m, mails[m], posts[m]) /\ \A q \in Panes : PromptOK(m, q)
    BY DEF ChatInv, MarksInv
  <1>10. MailOK(m, mails[m], posts[m])'
    BY <1>1, <1>4, <1>5, <1>6, <1>9 DEF MailOK, Tried, done
  <1>11. ASSUME NEW q \in Panes PROVE PromptOK(m, q)'
    <2>1. Unmarked(m, q) => q \in done \/ Unmarked(m, q)'
      BY <1>1 DEF Unmarked, Doing, done
    <2>. QED  BY <1>1, <1>6, <1>7, <1>8, <1>9, <2>1 DEF PromptOK
  <1>12. ASSUME tick.stage \in {"flush", "mark"}, NEW q \in Panes PROVE FoundOK(m, q)'
    <2>1. FoundOK(m, q)  BY <1>12 DEF ChatInv, MarksInv
    <2>. QED  BY <1>1, <1>4, <1>5, <1>6, <1>7, <2>1 DEF FoundOK, Posted, Doing
  <1>13. MarksInv'  BY <1>1, <1>5, <1>6, <1>7, <1>10, <1>11, <1>12, MarksPut
  <1>14. NotesMove /\ saved' \in {saved, notes'}
         /\ \A p \in Panes : notes'[p].digest = notes[p].digest /\ notes'[p].started = notes[p].started
    <2>1. CASE UNCHANGED <<notes, saved>>  BY <2>1, NothingMoves
    <2>2. CASE /\ notes' = [p \in Panes |-> IF p \in done
                                       THEN [notes[p] EXCEPT !.pointer = 0] ELSE notes[p]]
               /\ saved' = notes'
      BY <1>1, <1>2, <2>2, PointersOff
    <2>. QED  BY <2>1, <2>2 DEF PostMarks, done
  <1>15. \A p \in Panes : At(p)' = At(p)  BY <1>1 DEF At
  <1>16. RepliesStay  BY <1>1, <1>14, <1>15 DEF RepliesStay
  <1>17. AgentsStay /\ age' \in [Panes -> Ages]  BY <1>1, NothingMoves
  <1>18. tick' \in TickRows /\ boardSaw' \subseteq Panes /\ told' \in [Mails -> [Panes -> 0..2]]
    BY <1>1 DEF ChatInv, ChatTypes
  <1>. QED  BY <1>5, <1>6, <1>7, <1>13, <1>14, <1>16, <1>17, <1>18, ChatMarked

\* What the poller was about to mark is marked, or excused.
LEMMA MarksWritten ==
  ASSUME ChatInv, NEW m \in Mails, NEW p \in Panes, Doing("mark", p), tick.mail = m,
         UNCHANGED <<posts, told, refused>>, excused \subseteq excused',
         mails' \in [Mails -> MailRows],
         \A k \in Mails : mails'[k].to = mails[k].to /\ mails'[k].read = mails[k].read
                          /\ mails[k].notified \subseteq mails'[k].notified,
         \A k \in Mails \ {m} : mails'[k] = mails[k],
         mails'[m].notified \subseteq mails[m].notified \cup {p},
         p \in mails'[m].notified \/ <<m, p>> \in excused',
         tick'.stage \in {"rest", "flush"},
         tick'.stage = "flush" =>
            /\ tick'.open = tick.open /\ \A k \in Mails : tick'.rows[k] \subseteq tick.rows[k]
            /\ p \in tick'.rows[m] => <<m, p>> \in excused'
  PROVE  MarksInv'
  <1>1. tick.stage = "mark" /\ tick.pane = p /\ Tried(m, p)
    BY DEF ChatInv, MarksInv, Doing
  <1>2. \A k \in Mails : MailOK(k, mails[k], posts[k])'
    <2> SUFFICES ASSUME NEW k \in Mails PROVE MailOK(k, mails[k], posts[k])'
      OBVIOUS
    <2>1. MailOK(k, mails[k], posts[k])  BY DEF ChatInv, MarksInv
    <2>2. CASE k = m  BY <1>1, <2>1, <2>2 DEF MailOK, Tried
    <2>3. CASE k # m  BY <2>1, <2>3 DEF MailOK, Tried
    <2>. QED  BY <2>2, <2>3
  <1>3. ASSUME NEW k \in Mails, NEW q \in Panes
        PROVE  PromptOK(k, q)' /\ (tick'.stage = "flush" => FoundOK(k, q)')
    <2>1. PromptOK(k, q) /\ FoundOK(k, q)  BY <1>1 DEF ChatInv, MarksInv
    <2>2. CASE k = m /\ q = p
      <3>1. PromptOK(k, q)'  BY <2>1, <2>2 DEF PromptOK
      <3>2. tick'.stage = "flush" => FoundOK(k, q)'  BY <2>1, <2>2 DEF FoundOK, Posted
      <3>. QED  BY <3>1, <3>2
    <2>3. CASE ~(k = m /\ q = p)
      <3>1. ~(Doing("mark", q) /\ tick.mail = k)  BY <1>1, <2>3 DEF Doing
      <3>2. Unmarked(k, q) => Unmarked(k, q)'  BY <3>1 DEF Unmarked
      <3>3. PromptOK(k, q)'  BY <2>1, <3>2 DEF PromptOK
      <3>4. tick'.stage = "flush" => FoundOK(k, q)'  BY <2>1, <3>1 DEF FoundOK, Posted
      <3>. QED  BY <3>3, <3>4
    <2>. QED  BY <2>2, <2>3
  <1>. QED  BY <1>2, <1>3 DEF MarksInv

LEMMA FlushMarksKeeps == ASSUME ChatInv, NEW p \in Panes, FlushMarks(p) PROVE ChatInv'
  <1>1. /\ tick \in TickRows /\ tick.stage = "mark" /\ tick.pane = p /\ Doing("mark", p)
        /\ UNCHANGED <<agents, replies, age, posts, boardSaw, told, refused, excused, lost, chatFaults>>
        /\ Note(p, [notes[p] EXCEPT !.pointer = 0])
    BY ChatRowsAre DEF FlushMarks, Doing, chatHistory
  <1>2. PICK m \in Mails : m = tick.mail  BY <1>1 DEF ChatInv, MarksInv
  <1> DEFINE ml == [mails[m] EXCEPT !.notified = @ \cup {p}]
             r == tick.rows[m] \ {p}
  <1>3. mails[m] \in MailRows  BY ChatRowsAre
  <1>4. /\ ml \in MailRows /\ ml.to = mails[m].to /\ ml.read = mails[m].read
        /\ ml.notified = mails[m].notified \cup {p}
    BY <1>3 DEF MailRows
  <1>5. mails' = [mails EXCEPT ![m] = ml]  BY <1>2 DEF FlushMarks
  <1>6. tick' = [tick EXCEPT !.stage = "flush", !.pane = NoPane, !.mail = 0,
                             !.rows = [tick.rows EXCEPT ![m] = r]]
    BY <1>2 DEF FlushMarks
  <1> HIDE DEF ml
  <1>7. /\ mails' \in [Mails -> MailRows] /\ mails'[m] = ml
        /\ \A k \in Mails \ {m} : mails'[k] = mails[k]
    BY <1>4, <1>5, ChatRowsAre
  <1>8. tick.rows \in [Mails -> SUBSET Panes] /\ r \subseteq Panes  BY <1>1, TickIs
  <1>9. [tick.rows EXCEPT ![m] = r] \in [Mails -> SUBSET Panes]  BY <1>8
  <1>10. /\ tick' \in TickRows /\ tick'.stage = "flush" /\ tick'.open = tick.open /\ tick'.pane = NoPane
         /\ tick'.rows = [tick.rows EXCEPT ![m] = r]
    BY <1>1, <1>6, <1>9 DEF TickRows, Stages
  <1>11. tick'.rows[m] = r /\ \A k \in Mails : tick'.rows[k] \subseteq tick.rows[k]
    BY <1>8, <1>10
  <1>12. MarksInv'
    <2>1. \A k \in Mails : mails'[k].to = mails[k].to /\ mails'[k].read = mails[k].read
                           /\ mails[k].notified \subseteq mails'[k].notified
      BY <1>4, <1>7
    <2>2. p \notin tick'.rows[m] /\ p \in mails'[m].notified
          /\ mails'[m].notified \subseteq mails[m].notified \cup {p}
      BY <1>4, <1>7, <1>11
    <2> HIDE DEF r
    <2>. QED  BY <1>1, <1>2, <1>7, <1>10, <1>11, <2>1, <2>2, MarksWritten
  <1>13. /\ NotesMove /\ saved' = notes'
         /\ \A q \in Panes : notes'[q].digest = notes[q].digest /\ notes'[q].started = notes[q].started
    <2>1. notes' = [q \in Panes |-> IF q \in {p} THEN [notes[q] EXCEPT !.pointer = 0] ELSE notes[q]]
          /\ saved' = notes'
      BY <1>1 DEF Note, ChatInv, ChatTypes
    <2>. QED  BY <1>1, <2>1, PointersOff
  <1>14. \A q \in Panes : At(q) # "stored" /\ At(q)' \notin {"stored", "read"}
    BY <1>1, <1>10 DEF At
  <1>15. RepliesStay  BY <1>1, <1>13, <1>14 DEF RepliesStay
  <1>16. AgentsStay /\ age' \in [Panes -> Ages]  BY <1>1, NothingMoves
  <1>17. /\ boardSaw' \subseteq Panes /\ told' \in [Mails -> [Panes -> 0..2]] /\ chatFaults' \in Nat
         /\ posts' \in [Mails -> PostRows] /\ excused' \subseteq Mails \X Panes
    BY <1>1 DEF ChatInv, ChatTypes
  <1>. QED  BY <1>7, <1>10, <1>12, <1>13, <1>15, <1>16, <1>17, ChatMarked

LEMMA FlushMarkFailsKeeps == ASSUME ChatInv, NEW p \in Panes, FlushMarkFails(p) PROVE ChatInv'
  <1>1. /\ tick \in TickRows /\ tick.stage = "mark" /\ tick.pane = p /\ Doing("mark", p)
        /\ UNCHANGED <<agents, mails, replies, notes, age, saved, posts, boardSaw, told, refused, lost>>
        /\ chatFaults' \in Nat
    BY ChatRowsAre DEF FlushMarkFails, Doing, ledger, ChatFault
  <1>2. PICK m \in Mails : m = tick.mail  BY <1>1 DEF ChatInv, MarksInv
  <1>3. excused' = excused \cup {<<m, p>>}  BY <1>2 DEF FlushMarkFails
  <1>4. /\ tick' \in TickRows /\ tick'.stage \in {"rest", "flush"}
        /\ tick'.stage = "flush" => tick'.open = tick.open /\ tick'.rows = tick.rows
    <2>1. CASE tick' = AtRest  BY <2>1, <1>1, TickIs DEF AtRest
    <2>2. CASE tick' = [tick EXCEPT !.stage = "flush", !.tried = @ \cup {m}, !.mail = 0]
      BY <1>1, <2>2 DEF TickRows, Stages
    <2>. QED  BY <1>2, <2>1, <2>2 DEF FlushMarkFails
  <1>5. excused' \subseteq Mails \X Panes /\ excused \subseteq excused' /\ <<m, p>> \in excused'
    BY <1>3, ChatRowsAre
  <1>6. mails' \in [Mails -> MailRows]
        /\ \A k \in Mails : mails'[k] = mails[k]
    BY <1>1, ChatRowsAre
  <1>7. MarksInv'  BY <1>1, <1>2, <1>4, <1>5, <1>6, MarksWritten
  <1>8. AgentsStay /\ age' \in [Panes -> Ages]  BY <1>1, NothingMoves
  <1>9. \A q \in Panes : At(q) # "stored" /\ At(q)' \notin {"stored", "read"}
    BY <1>1, <1>4 DEF At
  <1>10. posts' \in [Mails -> PostRows] /\ told' \in [Mails -> [Panes -> 0..2]]
    BY <1>1, ChatRowsAre
  <1>. QED  BY <1>1, <1>4, <1>5, <1>6, <1>7, <1>8, <1>9, <1>10, PromptKeeps

\* The process starts again with the notes of the file: where a reply was being stored
\* they may be behind.
LEMMA RestartKeeps == ASSUME ChatInv, ChatRestart PROVE ChatInv'
  <1>1. /\ notes' = saved /\ saved' = saved /\ age' = [p \in Panes |-> "none"]
        /\ posts' = [m \in Mails |-> NoPost] /\ tick' = AtRest /\ boardSaw' = {}
        /\ excused' = excused \cup {x \in Mails \X Panes : Unmarked(x[1], x[2])}
        /\ lost' = lost \cup {p \in Panes : Doing("stored", p)}
        /\ agents' = [p \in Panes |-> [agents[p] EXCEPT !.moved = FALSE]]
        /\ UNCHANGED <<mails, replies, told, refused>> /\ chatFaults' \in Nat
    BY ChatRowsAre DEF ChatRestart, ledger, ChatFault
  <1>2. AgentsStay
    <2>1. \A p \in Panes : /\ agents'[p] \in AgentRows /\ agents'[p].status = agents[p].status
                           /\ agents'[p].screen = agents[p].screen /\ agents'[p].turn = agents[p].turn
      <3> SUFFICES ASSUME NEW p \in Panes
                   PROVE  /\ agents'[p] \in AgentRows /\ agents'[p].status = agents[p].status
                          /\ agents'[p].screen = agents[p].screen /\ agents'[p].turn = agents[p].turn
        OBVIOUS
      <3>1. agents[p] \in AgentRows /\ agents'[p] = [agents[p] EXCEPT !.moved = FALSE]
        BY <1>1, AgentIs
      <3>. QED  BY <3>1 DEF AgentRows
    <2>. QED  BY <1>1, <2>1 DEF AgentsStay
  <1>3. NoPost \in PostRows /\ NoPost.done = {} /\ NoPost.todo = {} /\ ~NoPost.active
    BY DEF NoPost, PostRows
  <1>4. tick' \in TickRows /\ tick'.stage = "rest" /\ tick'.pane = NoPane
    BY <1>1, ChatRowsAre, TickIs DEF AtRest
  <1>5. excused' \subseteq Mails \X Panes
        /\ \A m \in Mails, p \in Panes : <<m, p>> \in excused \/ Unmarked(m, p) => <<m, p>> \in excused'
    BY <1>1, ChatRowsAre
  <1>6. ChatTypes'
    BY <1>1, <1>2, <1>3, <1>4, <1>5 DEF ChatInv, ChatTypes, AgentsStay, Ages
  <1>7. \A p \in Panes : At(p)' = "away"
    BY <1>4, ChatConstants DEF At
  <1>8. NotesFit'  BY <1>1, <1>7 DEF ChatInv, NotesFit
  <1>9. MarksInv'
    <2>1. \A m \in Mails : MailOK(m, mails[m], posts[m])'
      BY <1>1, <1>3 DEF ChatInv, MarksInv, MailOK, Tried
    <2>2. \A m \in Mails, p \in Panes : PromptOK(m, p)'
      BY <1>1, <1>5 DEF ChatInv, MarksInv, PromptOK
    <2>. QED  BY <1>4, <2>1, <2>2 DEF MarksInv
  <1>10. RepliesInv'
    <2>1. \A p \in Panes : TextsOK(agents'[p], replies'[p])
      BY <1>1, <1>2 DEF ChatInv, RepliesInv, AgentsStay, TextsOK
    <2>2. ASSUME NEW p \in Panes \ lost' PROVE PaneOK(replies'[p], notes'[p], saved'[p], At(p)')
      <3>1. p \notin lost /\ ~Doing("stored", p)  BY <1>1, <2>2
      <3>2. At(p) # "stored"  BY <3>1 DEF At, Doing
      <3>3. PaneOK(replies[p], notes[p], saved[p], At(p))  BY <3>1 DEF ChatInv, RepliesInv
      <3>. QED  BY <1>1, <1>7, <3>2, <3>3 DEF PaneOK, NoteOK
    <2>. QED  BY <2>1, <2>2 DEF RepliesInv
  <1>. QED  BY <1>6, <1>8, <1>9, <1>10 DEF ChatInv

-----------------------------------------------------------------------------
(* The theorem.                                                              *)

LEMMA ChatInitInv == ChatInit => ChatInv
  <1> SUFFICES ASSUME NEW S \in SUBSET Panes, ChatInitWith(S) PROVE ChatInv
    BY DEF ChatInit
  <1>1. ChatTypes /\ NotesFit  BY ChatInitTypes DEF ChatInit
  <1>2. MarksInv
    BY DEF ChatInitWith, MarksInv, MailOK, PromptOK, AtRest, NotPosted, NoPost
  <1>3. RepliesInv
    <2>1. \A p \in Panes : TextsOK(agents[p], replies[p])
      BY DEF ChatInitWith, TextsOK
    <2>2. \A p \in Panes : PaneOK(replies[p], notes[p], saved[p], At(p))
      <3>1. \A p \in Panes : At(p) \in {"away", "rest"}
        BY DEF ChatInitWith, At, AtRest
      <3>. QED  BY <3>1 DEF ChatInitWith, PaneOK, TurnsOK, NoteOK, NoNotes
    <2>. QED  BY <2>1, <2>2 DEF RepliesInv
  <1>. QED  BY <1>1, <1>2, <1>3 DEF ChatInv

LEMMA ChatStepKeeps == ChatInv /\ [ChatNext]_chatVars => ChatInv'
  <1> SUFFICES ASSUME ChatInv, [ChatNext]_chatVars PROVE ChatInv'
    OBVIOUS
  <1>1. CASE TickStep
    <2>1. CASE Look \/ List \/ FlushEnds  BY <2>1, LookKeeps, ListKeeps, FlushEndsKeeps
    <2>2. CASE \E p \in Panes : Observe(p) \/ FlushPrompts(p) \/ FlushRaises(p)
      BY <2>2, ObserveKeeps, FlushPromptsKeeps, FlushRaisesKeeps
    <2>3. CASE \E p \in Panes : Harvest(p)
      BY <2>3, HarvestNothingKeeps, HarvestSameKeeps, HarvestMergesKeeps, HarvestAppendsKeeps,
         HarvestFailsKeeps, HarvestStoredKeeps DEF Harvest
    <2>4. CASE \E p \in Panes : FlushStep(p)
      BY <2>4, FlushStepKeeps, FlushMarksKeeps, FlushMarkFailsKeeps DEF FlushStep
    <2>. QED  BY <1>1, <2>1, <2>2, <2>3, <2>4 DEF TickStep
  <1>2. CASE \E m \in Mails : PostStep(m)
    BY <1>2, PostMarksKeeps, PostPromptsKeeps, PostLeavesKeeps DEF PostStep
  <1>3. CASE \E m \in Mails : \E to \in (SUBSET Panes) \ {{}}, urgent \in BOOLEAN : Post(m, to, urgent)
    BY <1>3, PostKeeps
  <1>4. CASE \E p \in Panes : BoardLooks(p) \/ BoardOpens(p) \/ TimePasses(p)
    BY <1>4, BoardLooksKeeps, BoardOpensKeeps, TimePassesKeeps
  <1>5. CASE \E p \in Panes : AgentStarts(p) \/ AgentStops(p) \/ ScreenSettles(p) \/ AgentUnclear(p)
    BY <1>5, AgentStartsKeeps, AgentStopsKeeps, ScreenSettlesKeeps, AgentUnclearKeeps
  <1>6. CASE ChatRestart  BY <1>6, RestartKeeps
  <1>7. CASE UNCHANGED chatVars
    <2>1. /\ UNCHANGED <<agents, ledger, notes, age, saved, posts, tick, boardSaw, chatHistory>>
      BY <1>7 DEF chatVars
    <2>2. AgentsStay /\ NotesMove /\ age' \in [Panes -> Ages] /\ boardSaw' \subseteq Panes
      BY <2>1, NothingMoves DEF ChatInv, ChatTypes
    <2>. QED  BY <2>1, <2>2, BesidesKeeps
  <1>. QED  BY <1>1, <1>2, <1>3, <1>4, <1>5, <1>6, <1>7 DEF ChatNext

LEMMA ChatInvIsSafe == ChatInv => ChatSafe
  <1> SUFFICES ASSUME ChatInv PROVE ChatSafe
    OBVIOUS
  <1>1. ChatTypeOK
    <2>1. \A p \in Panes :
            /\ agents[p].status \in PaneStatuses /\ agents[p].screen \in Texts \cup {NoText}
            /\ notes[p].started \in 0..Len(replies[p]) \cup {NoTurn}
            /\ notes[p].pointer \in 0..Len(replies[p])
            /\ age[p] \in Ages
      BY AgentIs DEF ChatInv, ChatTypes, NotesFit, NoteFits, AgentRows
    <2>2. /\ tick.stage \in Stages /\ tick.pane \in Panes \cup {NoPane} /\ tick.todo \subseteq Panes
          /\ told \in [Mails -> [Panes -> 0..2]]
      BY ChatRowsAre, TickIs
    <2>. QED  BY <2>1, <2>2 DEF ChatTypeOK, PaneStatuses, Stages
  <1>2. MarksFollowPrompts  BY DEF ChatInv, MarksInv, MailOK, Tried, MarksFollowPrompts
  <1>3. PromptedAgain  BY DEF ChatInv, MarksInv, PromptOK, PromptedAgain
  <1>4. StoredOnce  BY DEF ChatInv, RepliesInv, PaneOK, TurnsOK, StoredOnce
  <1>5. RowsKeepTheirTurn
    BY DEF ChatInv, RepliesInv, PaneOK, TurnsOK, RowsKeepTheirTurn
  <1>. QED  BY <1>1, <1>2, <1>3, <1>4, <1>5 DEF ChatSafe

\* Whatever the panes, the messages and the faults, whatever Herdr answers to a prompt, and
\* however requests, the poller and the agents interleave: a pane is prompted again with a
\* message only where the first prompt raised, or its mark failed or was not there yet; what
\* is marked was put to the pane, and taken or refused by Herdr; the reply of a turn is
\* stored once (or first cut and then whole) and no row is given the text of another turn,
\* save where a crash between the ledger and the notes left them behind
\* (_flush_queued_chat_mail, _notify_chat_recipients, pane_send, _harvest_settled_replies).
THEOREM ChatIsSafe == ChatSpec => []ChatSafe
  <1>1. ChatSpec => []ChatInv
    BY ChatInitInv, ChatStepKeeps, PTL DEF ChatSpec
  <1>. QED  BY <1>1, ChatInvIsSafe, PTL
=============================================================================
