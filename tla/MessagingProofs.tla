----------------------------- MODULE MessagingProofs -----------------------------
(***************************************************************************)
(* Theorems about the leader-mail wiring (B0Coordinator), for any messages, *)
(* binding versions, switches, faults and crashes; and about the work of a *)
(* Team session (TeamWork), for any items, targets, answers and mishaps.   *)
(***************************************************************************)
EXTENDS B0Coordinator, TeamWork, FiniteSetTheorems, TLAPS

-----------------------------------------------------------------------------
(* The delivery core, as its callers see it: which messages wait, which a    *)
(* call carries, and how a locked section or the adapter's return moves them. *)

\* The core's part of the invariant: one delivery at a time, and only for a binding.
CoreOK ==
    /\ D!TypeOK /\ D!OneFlight
    /\ \A t \in Threads : ~D!Idle(t) => core.version # 0

Waiting == D!IdsOf(core.pending)
Handed(t) == D!IdsOf(handed[t])

\* Thread t leaves a locked section with a delivery of all that waits.
Began(t) ==
    /\ \A u \in Threads : D!Idle(u) /\ Ids(u) = {}
    /\ calls'[t].phase = "calling" /\ calls'[t].generation = core'.generation
    /\ Ids(t)' = Waiting' /\ Waiting' # {}
    /\ \A u \in Threads \ {t} : calls'[u] = calls[u]

LEMMA NoCallFacts ==
  D!NoCall \in D!Calls /\ D!NoCall.phase = "none" /\ D!NoCall.events = {} /\ D!IdsOf({}) = {}
  BY DEF D!NoCall, D!Calls, D!IdsOf

LEMMA IdsAreIds == ASSUME NEW S \in SUBSET D!Events PROVE D!IdsOf(S) \subseteq Msgs
  BY DEF D!IdsOf, D!Events

LEMMA IdsOfSome == ASSUME NEW S, S # {} PROVE D!IdsOf(S) # {}
  BY DEF D!IdsOf

LEMMA CallEvents ==
  ASSUME NEW call \in D!Calls
  PROVE  /\ call.events \in SUBSET D!Events /\ call.generation \in 0..MaxGeneration
         /\ call.phase # "none" => call.phase \in {"calling", "accepted", "rejected"}
                                     /\ call.events # {}
         /\ call.phase = "none" => call = D!NoCall
  BY CoordinatorAssumption DEF D!Calls, D!NoCall

LEMMA CallFacts ==
  ASSUME CoreOK, NEW t \in Threads
  PROVE  /\ calls[t] \in D!Calls /\ Ids(t) \subseteq Msgs
         /\ D!Idle(t) => Ids(t) = {}
         /\ ~D!Idle(t) => Ids(t) # {} /\ core.inflight = t /\ core.version # 0
                          /\ calls[t].phase \in {"calling", "accepted", "rejected"}
  <1>1. calls[t] \in D!Calls  BY DEF CoreOK, D!TypeOK
  <1>2. Ids(t) \subseteq Msgs  BY <1>1, CallEvents, IdsAreIds DEF Ids
  <1>3. D!Idle(t) => Ids(t) = {}  BY <1>1, CallEvents, NoCallFacts DEF Ids, D!Idle
  <1>4. ~D!Idle(t) => Ids(t) # {}  BY <1>1, CallEvents, IdsOfSome DEF Ids, D!Idle
  <1>5. ~D!Idle(t) => calls[t].phase \in {"calling", "accepted", "rejected"}
    BY <1>1, CallEvents DEF D!Idle
  <1>. QED  BY <1>1, <1>2, <1>3, <1>4, <1>5 DEF CoreOK, D!OneFlight

\* No two threads are in a delivery.
LEMMA OneCall ==
  ASSUME CoreOK, NEW t \in Threads, ~D!Idle(t), NEW u \in Threads, ~D!Idle(u)  PROVE t = u
  BY CallFacts

LEMMA CoreFields ==
  ASSUME NEW c \in D!Core
  PROVE  /\ c = [ version |-> c.version, generation |-> c.generation, status |-> c.status,
                  pending |-> c.pending, delivered |-> c.delivered, inflight |-> c.inflight ]
         /\ c.version \in 0..MaxVersion /\ c.generation \in 0..MaxGeneration
         /\ c.status \in D!Statuses /\ c.pending \in SUBSET D!Events
         /\ c.delivered \in SUBSET Msgs /\ c.inflight \in Threads \cup {NoThread}
  BY DEF D!Core

LEMMA LockStep ==
  ASSUME CoreOK, NEW t \in Threads, D!Idle(t), NEW c \in D!Core, D!LeaveLock(t, c),
         c.inflight = core.inflight, core.version # 0 => c.version # 0,
         accepts' = accepts, handed' \in [Threads -> SUBSET D!Events]
  PROVE  /\ CoreOK' /\ core'.version = c.version /\ core'.generation = c.generation
         /\ core'.delivered = c.delivered /\ core'.pending = c.pending
         /\ calls' = calls \/ Began(t)
  <1>0. /\ core \in D!Core /\ calls \in [Threads -> D!Calls] /\ NoThread \notin Threads
        /\ accepts \in [Msgs -> [0..MaxGeneration -> Nat]]
    BY CoordinatorAssumption DEF CoreOK, D!TypeOK, Threads
  <1>1. CASE D!CanBegin(c) /\ core' = [c EXCEPT !.inflight = t]
             /\ calls' = [calls EXCEPT ![t] = [ phase |-> "calling",
                              generation |-> c.generation, events |-> c.pending ]]
    <2> DEFINE call == [ phase |-> "calling", generation |-> c.generation, events |-> c.pending ]
    <2>1. /\ core' \in D!Core /\ core'.version = c.version /\ core'.generation = c.generation
          /\ core'.delivered = c.delivered /\ core'.pending = c.pending /\ core'.inflight = t
      BY <1>1 DEF D!Core
    <2>2. c.version # 0 /\ c.pending # {} /\ c.inflight = NoThread  BY <1>1 DEF D!CanBegin
    <2>3. call \in D!Calls /\ call.phase = "calling" /\ call.generation = c.generation
          /\ call.events = c.pending
      BY <2>2, CoreFields DEF D!Calls
    <2> HIDE DEF call
    <2>4. /\ calls' \in [Threads -> D!Calls] /\ calls'[t] = call
          /\ \A u \in Threads \ {t} : calls'[u] = calls[u]
      BY <1>0, <1>1, <2>3 DEF call
    <2>5. \A u \in Threads : D!Idle(u)  BY <1>0, <2>2 DEF CoreOK, D!OneFlight
    <2>6. \A u \in Threads : Ids(u) = {}  BY <2>5, CallFacts
    <2>7. D!TypeOK'  BY <1>0, <2>1, <2>4 DEF D!TypeOK
    <2>8. D!OneFlight'  BY <2>1, <2>3, <2>4, <2>5 DEF D!OneFlight, D!Idle
    <2>9. (\A u \in Threads : ~D!Idle(u) => core.version # 0)'  BY <2>1, <2>2
    <2>10. Began(t)
      <3>1. Ids(t)' = Waiting'  BY <2>1, <2>3, <2>4 DEF Ids, Waiting
      <3>2. Waiting' # {}  BY <2>1, <2>2, IdsOfSome DEF Waiting
      <3>. QED  BY <3>1, <3>2, <2>1, <2>3, <2>4, <2>5, <2>6 DEF Began
    <2>. QED  BY <2>1, <2>7, <2>8, <2>9, <2>10 DEF CoreOK
  <1>2. CASE core' = c /\ UNCHANGED calls
    <2>1. D!TypeOK'  BY <1>0, <1>2 DEF D!TypeOK
    <2>2. D!OneFlight'  BY <1>2 DEF CoreOK, D!OneFlight, D!Idle
    <2>3. (\A u \in Threads : ~D!Idle(u) => core.version # 0)'  BY <1>2 DEF CoreOK, D!Idle
    <2>. QED  BY <1>2, <2>1, <2>2, <2>3 DEF CoreOK
  <1>. QED  BY <1>1, <1>2 DEF D!LeaveLock

\* A locked section that neither switches nor settles: the messages of S wait besides.
Waits(S) ==
    /\ core'.version = core.version /\ core'.generation = core.generation
    /\ core'.delivered = core.delivered /\ Waiting' = Waiting \cup S

LEMMA StatusStep ==
  ASSUME CoreOK, NEW t \in Threads, NEW s \in {"idle", "working"}, D!SetTargetStatus(t, s)
  PROVE  CoreOK' /\ Waits({}) /\ handed' = handed /\ (calls' = calls \/ Began(t))
  <1> DEFINE c == [core EXCEPT !.status = s]
  <1>0. core \in D!Core /\ handed \in [Threads -> SUBSET D!Events]  BY DEF CoreOK, D!TypeOK
  <1>1. c \in D!Core  BY <1>0 DEF D!Core, D!Statuses
  <1>2. /\ c.pending = core.pending /\ c.version = core.version
        /\ c.delivered = core.delivered /\ c.generation = core.generation
        /\ c.inflight = core.inflight
    BY <1>0 DEF D!Core
  <1>3. D!LeaveLock(t, c) /\ D!Idle(t) /\ accepts' = accepts /\ handed' = handed
    BY DEF D!SetTargetStatus
  <1> HIDE DEF c
  <1>. QED  BY <1>0, <1>1, <1>2, <1>3, LockStep DEF Waits, Waiting

LEMMA FlushStep ==
  ASSUME CoreOK, NEW t \in Threads, D!Flush(t)
  PROVE  CoreOK' /\ Waits({}) /\ handed' = handed /\ (calls' = calls \/ Began(t))
  <1>0. core \in D!Core /\ handed \in [Threads -> SUBSET D!Events]  BY DEF CoreOK, D!TypeOK
  <1>1. D!LeaveLock(t, core) /\ D!Idle(t) /\ accepts' = accepts /\ handed' = handed
    BY DEF D!Flush
  <1>. QED  BY <1>0, <1>1, LockStep DEF Waits, Waiting

\* An event given to the core waits, unless it is of another version or delivered already.
LEMMA IngestStep ==
  ASSUME CoreOK, NEW t \in Threads, NEW e \in D!Events, D!Ingest(t, e),
         handed' \in [Threads -> SUBSET D!Events]
  PROVE  /\ CoreOK' /\ (calls' = calls \/ Began(t))
         /\ \/ Waits({}) /\ (D!Stale(e) \/ e.id \in core.delivered)
            \/ Waits({e.id})
  <1>0. /\ core \in D!Core /\ calls \in [Threads -> D!Calls] /\ core.pending \in SUBSET D!Events
        /\ accepts' = accepts
    BY DEF CoreOK, D!TypeOK, D!Core, D!Ingest
  <1>1. CASE UNCHANGED <<core, calls>> /\ (D!Stale(e) \/ D!AlreadyDelivered(e))
    <2>1. CoreOK'  BY <1>0, <1>1 DEF CoreOK, D!TypeOK, D!OneFlight, D!Idle
    <2>2. Waits({})  BY <1>1 DEF Waits, Waiting
    <2>. QED  BY <1>1, <2>1, <2>2 DEF D!AlreadyDelivered
  <1>2. CASE D!Merges(e) /\ core' = [core EXCEPT !.pending = D!Merged(@, e)] /\ UNCHANGED calls
    <2>1. D!Merged(core.pending, e) \in SUBSET D!Events  BY <1>0 DEF D!Merged
    <2>2. D!IdsOf(D!Merged(core.pending, e)) = D!IdsOf(core.pending)  BY DEF D!Merged, D!IdsOf
    <2> DEFINE M == D!Merged(core.pending, e)
    <2> HIDE DEF M
    <2>3. /\ core' \in D!Core /\ core'.pending = M /\ core'.version = core.version
          /\ core'.delivered = core.delivered /\ core'.generation = core.generation
          /\ core'.inflight = core.inflight
      <3>1. core' = [core EXCEPT !.pending = M]  BY <1>2 DEF M
      <3>2. M \in SUBSET D!Events  BY <2>1 DEF M
      <3>. QED  BY <1>0, <3>1, <3>2 DEF D!Core
    <2>4. Waiting' = Waiting \cup {e.id}
      <3>1. e.id \in Waiting  BY <1>2 DEF D!Merges, Waiting
      <3>2. Waiting' = Waiting  BY <2>2, <2>3 DEF Waiting, M
      <3>. QED  BY <3>1, <3>2
    <2>5. CoreOK'  BY <1>0, <1>2, <2>3 DEF CoreOK, D!TypeOK, D!OneFlight, D!Idle
    <2>. QED  BY <1>2, <2>3, <2>4, <2>5 DEF Waits
  <1>3. CASE D!Queues(e) /\ D!LeaveLock(t, [core EXCEPT !.pending = @ \cup {e}])
    <2> DEFINE c == [core EXCEPT !.pending = @ \cup {e}]
    <2>1. /\ c \in D!Core /\ c.pending = core.pending \cup {e} /\ c.version = core.version
          /\ c.delivered = core.delivered /\ c.generation = core.generation
          /\ c.inflight = core.inflight
      BY <1>0 DEF D!Core
    <2>2. D!IdsOf(core.pending \cup {e}) = Waiting \cup {e.id}  BY DEF D!IdsOf, Waiting
    <2>3. D!Idle(t)  BY DEF D!Ingest
    <2> HIDE DEF c
    <2>4. D!LeaveLock(t, c)  BY <1>3 DEF c
    <2>5. /\ CoreOK' /\ core'.version = c.version /\ core'.generation = c.generation
          /\ core'.delivered = c.delivered /\ core'.pending = c.pending
          /\ calls' = calls \/ Began(t)
      BY <1>0, <2>1, <2>3, <2>4, LockStep
    <2>. QED  BY <2>1, <2>2, <2>5 DEF Waits, Waiting
  <1>. QED  BY <1>1, <1>2, <1>3 DEF D!Ingest

\* A switch of binding hands what waits to its caller.
LEMMA SwitchStep ==
  ASSUME CoreOK, NEW t \in Threads, NEW v \in Versions, D!SetActiveBinding(t, v)
  PROVE  /\ CoreOK' /\ calls' = calls
         /\ v # core.version /\ core'.version = v /\ core'.generation = core.generation + 1
         /\ core'.delivered = {} /\ Waiting' = {}
         /\ \A u \in Threads : Handed(u)' = IF u = t THEN Handed(u) \cup Waiting ELSE Handed(u)
  <1> DEFINE g == core.generation + 1
             c == [core EXCEPT !.version = v, !.generation = @ + 1,
                               !.pending = {}, !.delivered = {}]
  <1>0. /\ core \in D!Core /\ handed \in [Threads -> SUBSET D!Events]
        /\ core.pending \in SUBSET D!Events /\ accepts' = accepts
        /\ v # core.version
    BY DEF CoreOK, D!TypeOK, D!Core, D!SetActiveBinding
  <1>1. g \in 0..MaxGeneration /\ v \in 0..MaxVersion /\ v # 0
    BY <1>0, CoordinatorAssumption DEF D!SetActiveBinding, D!Core, Versions
  <1>2. c \in D!Core
    <2> DEFINE c1 == [core EXCEPT !.version = v]
               c2 == [c1 EXCEPT !.generation = g]
               c3 == [c2 EXCEPT !.pending = {}]
    <2>1. c1 \in D!Core  BY <1>0, <1>1 DEF D!Core
    <2>2. c2 \in D!Core
      <3> HIDE DEF c1, g
      <3>. QED  BY <1>1, <2>1 DEF D!Core
    <2>3. c3 \in D!Core
      <3> HIDE DEF c2
      <3>. QED  BY <2>2 DEF D!Core
    <2>4. [c3 EXCEPT !.delivered = {}] \in D!Core
      <3> HIDE DEF c3
      <3>. QED  BY <2>3 DEF D!Core
    <2>5. c = [c3 EXCEPT !.delivered = {}]  BY <1>0 DEF D!Core
    <2> HIDE DEF c, c3
    <2>. QED  BY <2>4, <2>5
  <1>3. /\ c \in D!Core /\ c.inflight = core.inflight /\ c.pending = {} /\ c.delivered = {}
        /\ c.generation = core.generation + 1 /\ c.version = v
    BY <1>0, <1>2 DEF D!Core
  <1>4. \A e \in core.pending : [e EXCEPT !.version = v] \in D!Events /\ [e EXCEPT !.version = v].id = e.id
    BY <1>0, CoordinatorAssumption DEF D!Events, D!Versions, Versions
  <1> DEFINE moved == {[e EXCEPT !.version = v] : e \in core.pending}
  <1>5. moved \in SUBSET D!Events /\ D!IdsOf(moved) = Waiting
    BY <1>4 DEF D!IdsOf, Waiting
  <1>6. handed' = [handed EXCEPT ![t] = @ \cup moved]  BY DEF D!SetActiveBinding
  <1>7. D!LeaveLock(t, c) /\ D!Idle(t)  BY DEF D!SetActiveBinding
  <1> HIDE DEF c, moved
  <1>8. handed' \in [Threads -> SUBSET D!Events]  BY <1>0, <1>5, <1>6
  <1>9. \A u \in Threads : Handed(u)' = IF u = t THEN Handed(u) \cup Waiting ELSE Handed(u)
    <2>1. \A u \in Threads : handed'[u] = IF u = t THEN handed[u] \cup moved ELSE handed[u]
      BY <1>0, <1>6
    <2>2. D!IdsOf(handed[t] \cup moved) = D!IdsOf(handed[t]) \cup D!IdsOf(moved)  BY DEF D!IdsOf
    <2>. QED  BY <1>5, <2>1, <2>2 DEF Handed
  <1>10. ~D!CanBegin(c)  BY <1>3 DEF D!CanBegin
  <1>11. calls' = calls  BY <1>7, <1>10 DEF D!LeaveLock
  <1>12. /\ CoreOK' /\ core'.version = c.version /\ core'.generation = c.generation
         /\ core'.delivered = c.delivered /\ core'.pending = c.pending
    BY <1>0, <1>1, <1>3, <1>7, <1>8, LockStep
  <1>. QED  BY <1>0, <1>3, <1>9, <1>11, <1>12, NoCallFacts DEF Waiting

\* The adapter's return changes the phase of its call, and nothing of what it carries.
Turns(t, phase) ==
    /\ calls[t].phase = "calling" /\ calls'[t].phase = phase
    /\ calls'[t].generation = calls[t].generation /\ Ids(t)' = Ids(t)
    /\ \A u \in Threads \ {t} : calls'[u] = calls[u]

LEMMA PhaseType ==
  ASSUME NEW call \in D!Calls, call.phase = "calling", NEW p \in {"accepted", "rejected"}
  PROVE  /\ [call EXCEPT !.phase = p] \in D!Calls
         /\ [call EXCEPT !.phase = p].phase = p
         /\ [call EXCEPT !.phase = p].events = call.events
         /\ [call EXCEPT !.phase = p].generation = call.generation
  BY DEF D!Calls, D!NoCall

LEMMA TurnStep ==
  ASSUME CoreOK, NEW t \in Threads, NEW p \in {"accepted", "rejected"},
         calls[t].phase = "calling", calls' = [calls EXCEPT ![t].phase = p],
         UNCHANGED <<core, handed>>, accepts' \in [Msgs -> [0..MaxGeneration -> Nat]]
  PROVE  CoreOK' /\ Turns(t, p)
  <1> DEFINE call == [calls[t] EXCEPT !.phase = p]
  <1>0. calls \in [Threads -> D!Calls]  BY DEF CoreOK, D!TypeOK
  <1>1. /\ call \in D!Calls /\ call.phase = p
        /\ call.events = calls[t].events /\ call.generation = calls[t].generation
    BY <1>0, PhaseType
  <1>2. calls' = [calls EXCEPT ![t] = call]  OBVIOUS
  <1> HIDE DEF call
  <1>3. /\ calls' \in [Threads -> D!Calls] /\ calls'[t] = call
        /\ \A u \in Threads \ {t} : calls'[u] = calls[u]
    BY <1>0, <1>1, <1>2
  <1>4. \A u \in Threads : D!Idle(u)' <=> D!Idle(u)  BY <1>1, <1>3 DEF D!Idle
  <1>5. D!TypeOK'  BY <1>3 DEF CoreOK, D!TypeOK
  <1>6. D!OneFlight' /\ (\A u \in Threads : ~D!Idle(u) => core.version # 0)'
    BY <1>4 DEF CoreOK, D!OneFlight
  <1>7. Turns(t, p)  BY <1>1, <1>3 DEF Turns, Ids
  <1>. QED  BY <1>5, <1>6, <1>7 DEF CoreOK

LEMMA AcceptStep ==
  ASSUME CoreOK, NEW t \in Threads, D!AdapterAccepts(t)
  PROVE  CoreOK' /\ Turns(t, "accepted") /\ UNCHANGED <<core, handed>>
  <1> DEFINE g == calls[t].generation
             next == [e \in Msgs |-> IF e \in D!IdsOf(calls[t].events)
                                     THEN [accepts[e] EXCEPT ![g] = @ + 1] ELSE accepts[e]]
  <1>0. /\ calls[t].phase = "calling" /\ calls' = [calls EXCEPT ![t].phase = "accepted"]
        /\ UNCHANGED <<core, handed>> /\ accepts' = next
    BY DEF D!AdapterAccepts
  <1>1. accepts \in [Msgs -> [0..MaxGeneration -> Nat]] /\ g \in 0..MaxGeneration
    BY CallFacts, CallEvents DEF CoreOK, D!TypeOK
  <1>2. next \in [Msgs -> [0..MaxGeneration -> Nat]]
    <2> HIDE DEF g
    <2>1. \A f \in [0..MaxGeneration -> Nat] :
              [f EXCEPT ![g] = @ + 1] \in [0..MaxGeneration -> Nat]
      BY <1>1
    <2>. QED  BY <1>1, <2>1
  <1> HIDE DEF next, g
  <1>. QED  BY <1>0, <1>2, TurnStep

LEMMA RejectStep ==
  ASSUME CoreOK, NEW t \in Threads, D!AdapterRejects(t)
  PROVE  CoreOK' /\ Turns(t, "rejected") /\ UNCHANGED <<core, handed>>
  <1>1. accepts' \in [Msgs -> [0..MaxGeneration -> Nat]]
    BY DEF CoreOK, D!TypeOK, D!AdapterRejects
  <1>. QED  BY <1>1, TurnStep DEF D!AdapterRejects

\* What a settled call leaves: in the ledger if its generation accepted it, else waiting.
Settles(t) ==
    /\ calls[t].phase \in {"accepted", "rejected"} /\ calls'[t] = D!NoCall
    /\ \A u \in Threads \ {t} : calls'[u] = calls[u]
    /\ core'.version = core.version /\ core'.generation = core.generation
    /\ \/ /\ calls[t].phase = "accepted" /\ calls[t].generation = core.generation
          /\ core'.delivered = core.delivered \cup Ids(t) /\ Waiting' = Waiting \ Ids(t)
       \/ /\ ~(calls[t].phase = "accepted" /\ calls[t].generation = core.generation)
          /\ core'.delivered = core.delivered
          /\ Waiting' = Waiting \cup (Ids(t) \ core.delivered)

LEMMA RequeuedFacts ==
  ASSUME NEW c \in D!Core, NEW S \in SUBSET D!Events, c.version \in Versions,
         NEW next, next = D!Requeued(c, S)
  PROVE  /\ next \in D!Core /\ next.version = c.version /\ next.generation = c.generation
         /\ next.delivered = c.delivered /\ next.inflight = c.inflight
         /\ D!IdsOf(next.pending) = D!IdsOf(c.pending) \cup (D!IdsOf(S) \ c.delivered)
  <1> DEFINE missing == {e \in S : e.id \notin c.delivered \cup D!IdsOf(c.pending)}
             moved == {[e EXCEPT !.version = c.version] : e \in missing}
             d == [c EXCEPT !.pending = @ \cup moved]
  <1>1. \A e \in missing : /\ [e EXCEPT !.version = c.version] \in D!Events
                           /\ [e EXCEPT !.version = c.version].id = e.id
    BY CoordinatorAssumption DEF D!Events, D!Versions, Versions
  <1>2. moved \in SUBSET D!Events  BY <1>1
  <1>3. D!IdsOf(missing) = D!IdsOf(moved)  BY <1>1 DEF D!IdsOf
  <1>4. D!IdsOf(c.pending) \cup (D!IdsOf(S) \ c.delivered)
            = D!IdsOf(c.pending) \cup D!IdsOf(missing)
    BY DEF D!IdsOf
  <1>5. D!Requeued(c, S) = d  BY DEF D!Requeued
  <1> HIDE DEF moved, missing
  <1>6. /\ d \in D!Core /\ d.pending = c.pending \cup moved /\ d.version = c.version
        /\ d.generation = c.generation /\ d.delivered = c.delivered /\ d.inflight = c.inflight
    BY <1>2 DEF D!Core
  <1>7. D!IdsOf(c.pending \cup moved) = D!IdsOf(c.pending) \cup D!IdsOf(moved)  BY DEF D!IdsOf
  <1> HIDE DEF d
  <1>. QED  BY <1>3, <1>4, <1>5, <1>6, <1>7

LEMMA DeliveredFacts ==
  ASSUME NEW c \in D!Core, NEW call \in D!Calls, NEW next, next = D!Delivered(c, call)
  PROVE  /\ next \in D!Core /\ next.version = c.version /\ next.generation = c.generation
         /\ next.delivered = c.delivered \cup D!IdsOf(call.events) /\ next.inflight = c.inflight
         /\ D!IdsOf(next.pending) = D!IdsOf(c.pending) \ D!IdsOf(call.events)
  <1> DEFINE rest == {e \in c.pending : e.id \notin D!IdsOf(call.events)}
             ledger == c.delivered \cup D!IdsOf(call.events)
             c1 == [c EXCEPT !.pending = rest]
             d == [c1 EXCEPT !.delivered = ledger]
  <1>1. rest \in SUBSET D!Events /\ ledger \in SUBSET Msgs
    BY CallEvents, IdsAreIds DEF D!Core
  <1>2. D!Delivered(c, call) = d  BY DEF D!Delivered, D!Core
  <1>3. D!IdsOf(rest) = D!IdsOf(c.pending) \ D!IdsOf(call.events)  BY DEF D!IdsOf
  <1> HIDE DEF rest, ledger
  <1>4. c1 \in D!Core /\ c1.pending = rest /\ c1.version = c.version
        /\ c1.generation = c.generation /\ c1.inflight = c.inflight
    BY <1>1 DEF D!Core
  <1> HIDE DEF c1
  <1>5. /\ d \in D!Core /\ d.pending = rest /\ d.version = c.version /\ d.delivered = ledger
        /\ d.generation = c.generation /\ d.inflight = c.inflight
    BY <1>1, <1>4 DEF D!Core
  <1> HIDE DEF d
  <1>. QED  BY <1>2, <1>3, <1>5 DEF ledger

LEMMA FinishStep ==
  ASSUME CoreOK, NEW t \in Threads, D!Finish(t)
  PROVE  CoreOK' /\ Settles(t) /\ handed' = handed
  <1> DEFINE c == [core EXCEPT !.inflight = IF @ = t THEN NoThread ELSE @]
             Won == calls[t].phase = "accepted" /\ calls[t].generation = core.generation
  <1>0. /\ core \in D!Core /\ calls \in [Threads -> D!Calls] /\ calls[t] \in D!Calls
        /\ calls[t].phase \in {"accepted", "rejected"} /\ ~D!Idle(t)
        /\ core' = D!Settled(t) /\ calls' = [calls EXCEPT ![t] = D!NoCall]
        /\ UNCHANGED <<handed, accepts>>
    BY DEF CoreOK, D!TypeOK, D!Finish, D!Idle
  <1>1. core.inflight = t /\ core.version # 0 /\ calls[t].events \in SUBSET D!Events
    BY <1>0, CallFacts, CallEvents
  <1>2. /\ c \in D!Core /\ c.pending = core.pending /\ c.version = core.version
        /\ c.generation = core.generation /\ c.delivered = core.delivered
        /\ c.inflight = NoThread
    BY <1>0, <1>1 DEF D!Core
  <1>3. core' = IF calls[t].phase = "accepted" /\ c.generation = calls[t].generation
                THEN D!Delivered(c, calls[t]) ELSE D!Requeued(c, calls[t].events)
    BY <1>0 DEF D!Settled
  <1>4. c.version \in Versions  BY <1>1, <1>2, CoordinatorAssumption DEF D!Core, Versions
  <1> HIDE DEF c
  <1>5. /\ core' \in D!Core /\ core'.inflight = NoThread
        /\ core'.version = core.version /\ core'.generation = core.generation
        /\ \/ Won /\ core'.delivered = core.delivered \cup Ids(t) /\ Waiting' = Waiting \ Ids(t)
           \/ /\ ~Won /\ core'.delivered = core.delivered
              /\ Waiting' = Waiting \cup (Ids(t) \ core.delivered)
    <2>1. CASE Won
      <3>1. core' = D!Delivered(c, calls[t])  BY <1>2, <1>3, <2>1
      <3> HIDE DEF Won
      <3>2. /\ core' \in D!Core /\ core'.inflight = c.inflight
            /\ core'.version = c.version /\ core'.generation = c.generation
            /\ core'.delivered = c.delivered \cup D!IdsOf(calls[t].events)
            /\ D!IdsOf(core'.pending) = D!IdsOf(c.pending) \ D!IdsOf(calls[t].events)
        <4>1. c \in D!Core /\ calls[t] \in D!Calls  BY <1>0, <1>2
        <4> HIDE <1>0, <1>1, <1>2, <1>3
        <4>. QED  BY <3>1, <4>1, DeliveredFacts
      <3>. QED  BY <1>2, <2>1, <3>2 DEF Waiting, Ids
    <2>2. CASE ~Won
      <3>1. core' = D!Requeued(c, calls[t].events)  BY <1>2, <1>3, <2>2
      <3>. QED  BY <1>1, <1>2, <1>4, <2>2, <3>1, RequeuedFacts DEF Waiting, Ids
    <2>. QED  BY <2>1, <2>2
  <1>6. /\ calls' \in [Threads -> D!Calls] /\ calls'[t] = D!NoCall
        /\ \A u \in Threads \ {t} : calls'[u] = calls[u]
    BY <1>0, NoCallFacts
  <1>7. \A u \in Threads : D!Idle(u)'
    <2>1. \A u \in Threads \ {t} : D!Idle(u)  BY <1>0, OneCall
    <2>. QED  BY <1>6, <2>1, NoCallFacts DEF D!Idle
  <1>8. D!TypeOK'  BY <1>0, <1>5, <1>6 DEF CoreOK, D!TypeOK
  <1>9. D!OneFlight'
    BY <1>5, <1>7, CoordinatorAssumption DEF D!OneFlight, Threads
  <1>. QED  BY <1>0, <1>5, <1>6, <1>7, <1>8, <1>9 DEF CoreOK, Settles

LEMMA GiveBackStep ==
  ASSUME CoreOK, NEW t \in Threads, NEW e, D!GiveBack(t, e)
  PROVE  /\ CoreOK' /\ (calls' = calls \/ Began(t))
         /\ e.id \in Handed(t) /\ (Waits({}) \/ Waits({e.id}))
         /\ \A u \in Threads : Handed(u)' \subseteq Handed(u)
  <1>0. /\ handed \in [Threads -> SUBSET D!Events] /\ e \in handed[t]
        /\ handed' = [handed EXCEPT ![t] = @ \ {e}] /\ D!Ingest(t, e)
    BY DEF CoreOK, D!TypeOK, D!GiveBack
  <1>1. handed' \in [Threads -> SUBSET D!Events] /\ e \in D!Events  BY <1>0
  <1>2. \A u \in Threads : handed'[u] \subseteq handed[u]  BY <1>0
  <1>3. e.id \in Handed(t) /\ \A u \in Threads : Handed(u)' \subseteq Handed(u)
    BY <1>0, <1>2 DEF Handed, D!IdsOf
  <1>. QED  BY <1>0, <1>1, <1>3, IngestStep

-----------------------------------------------------------------------------
(* The wiring's types.                                                       *)

RestOK ==
    /\ db \in Versions /\ mail \in [Msgs -> MailStates]
    /\ marker \in [Msgs -> SUBSET Marks] /\ seen \subseteq Msgs
    /\ pendingMarks \in [Msgs -> SUBSET Msgs]
    /\ pc \in [Threads -> Places] /\ read \in [Threads -> Versions] /\ batch \subseteq Msgs
    /\ prompts \in [Msgs -> [Versions -> 0..2]] /\ markedAtStart \subseteq Msgs
    /\ faults \in 0..MaxFaults /\ restarts \in 0..MaxRestarts
JobOK ==
    /\ job \in [Threads -> [stage : Stages, todo : SUBSET Msgs, failed : BOOLEAN]]
    /\ \A t \in Threads : job[t].stage # "none" => Calling(t) /\ job[t].todo \subseteq Ids(t)
BaseInv == CoreOK /\ RestOK /\ JobOK

LEMMA BaseIsTyped == BaseInv => TypeOK
  BY DEF BaseInv, CoreOK, RestOK, JobOK, TypeOK

\* A locked section of another thread leaves the adapter's progress in place.
LEMMA JobKept ==
  ASSUME JobOK, NEW t \in Threads, calls' = calls \/ Began(t), job' = job
  PROVE  JobOK'
  <1>1. CASE calls' = calls  BY <1>1 DEF JobOK, Calling, Ids
  <1>2. CASE Began(t)
    <2>1. \A u \in Threads : job[u].stage = "none"  BY <1>2 DEF JobOK, Calling, Began, D!Idle
    <2>. QED  BY <2>1 DEF JobOK
  <1>. QED  BY <1>1, <1>2

\* What the steps outside the adapter leave alone.
OutsideFrame == UNCHANGED <<adapterVars, bounds>>

LEMMA ThreadStarts ==
  Poller \in Threads /\ Live \in Threads /\ Api \in Threads /\ Poller # Live /\ Poller # Api /\ Live # Api
  BY CoordinatorAssumption DEF Threads

LEMMA PcTyped ==
  ASSUME pc \in [Threads -> Places], NEW t \in Threads, NEW p \in Places, Goto(t, p)
  PROVE  pc' \in [Threads -> Places]
  BY DEF Goto

\* The steps that leave the core alone.
ReadStep ==
    \/ \E t \in Threads : SyncRead(t)
    \/ PollRead \/ Fetch \/ IngestDone \/ PollEnd
    \/ ApiRebind \/ LiveRead \/ LiveRebind \/ LiveSkip
    \/ \E m \in Msgs : Send(m) \/ LeaderTakes(m)

LEMMA ReadTyped ==
  ASSUME BaseInv, ReadStep
  PROVE  /\ BaseInv' /\ UNCHANGED coreVars /\ OutsideFrame /\ seen' = seen
         /\ \A m \in Msgs : mail[m] = "taken" => mail'[m] = "taken"
  <1> USE DEF BaseInv
  <1>0. RestOK /\ JobOK /\ CoreOK  OBVIOUS
  <1>1. UNCHANGED coreVars /\ OutsideFrame /\ seen' = seen
    BY DEF ReadStep, SyncRead, PollRead, Fetch, IngestDone, PollEnd, ApiRebind, LiveRead,
       LiveRebind, LiveSkip, Send, LeaderTakes, OutsideFrame
  <1>2. CoreOK' /\ JobOK'
    BY <1>1 DEF CoreOK, coreVars, D!TypeOK, D!OneFlight, D!Idle, JobOK, Calling, Ids,
       OutsideFrame, adapterVars
  <1>3. ASSUME NEW t \in Threads, SyncRead(t) PROVE RestOK' /\ mail' = mail
    BY <1>3, PcTyped DEF RestOK, SyncRead, OutsideFrame, adapterVars, bounds, Places, Goto
  <1>4. CASE PollRead \/ Fetch \/ IngestDone \/ PollEnd
    <2>1. RestOK' /\ mail' = mail
      BY <1>4, ThreadStarts, PcTyped DEF RestOK, PollRead, Fetch, IngestDone, PollEnd, adapterVars,
         bounds, Places, Goto
    <2>. QED  BY <1>1, <1>2, <2>1
  <1>5. CASE ApiRebind \/ LiveRead \/ LiveRebind \/ LiveSkip
    <2>1. db \in Nat /\ MaxVersion \in Nat  BY CoordinatorAssumption DEF RestOK, Versions
    <2>2. db' \in Versions
      BY <1>5, <2>1 DEF RestOK, Versions, ApiRebind, LiveRead, LiveRebind, LiveSkip
    <2>3. RestOK' /\ mail' = mail
      BY <1>5, <2>2, ThreadStarts, PcTyped DEF RestOK, ApiRebind, LiveRead, LiveRebind, LiveSkip,
         adapterVars, bounds, Places, Goto
    <2>. QED  BY <1>1, <1>2, <2>3
  <1>6. ASSUME NEW m \in Msgs, Send(m) \/ LeaderTakes(m)
        PROVE  RestOK' /\ \A n \in Msgs : mail[n] = "taken" => mail'[n] = "taken"
    BY <1>6 DEF RestOK, Send, LeaderTakes, adapterVars, threadVars, bounds, MailStates
  <1>. QED  BY <1>1, <1>2, <1>3, <1>4, <1>5, <1>6 DEF ReadStep

\* The steps that enter the core's lock outside a delivery.
LockStepOfB0 ==
    \/ \E t \in Threads : SyncSet(t) \/ SyncGiveBack(t)
    \/ PollFlush \/ \E m \in Msgs : IngestMessage(m)
    \/ \E s \in {"idle", "working"} : LiveStatus(s)

LEMMA EventTyped ==
  ASSUME NEW m \in Msgs, NEW v \in Versions
  PROVE  EventFor(m, v) \in D!Events /\ EventFor(m, v).id = m /\ EventFor(m, v).version = v
  BY DEF EventFor, D!Events, D!Versions, D!Stamps, Versions

LEMMA LockTyped ==
  ASSUME BaseInv, LockStepOfB0
  PROVE  /\ BaseInv' /\ OutsideFrame /\ mail' = mail /\ db' = db
         /\ \E t \in Threads : calls' = calls \/ Began(t)
  <1> USE DEF BaseInv
  <1>0. RestOK /\ JobOK /\ CoreOK /\ (calls' = calls => \E t \in Threads : calls' = calls)
    BY ThreadStarts
  <1>1. OutsideFrame /\ mail' = mail /\ db' = db
    BY DEF LockStepOfB0, SyncSet, SyncGiveBack, PollFlush, IngestMessage, LiveStatus, OutsideFrame
  <1>2. job' = job  BY <1>1 DEF OutsideFrame, adapterVars
  <1>3. ASSUME UNCHANGED coreVars  PROVE CoreOK' /\ calls' = calls
    BY <1>3 DEF CoreOK, coreVars, D!TypeOK, D!OneFlight, D!Idle
  <1>4. ASSUME NEW t \in Threads, SyncSet(t)  PROVE RestOK' /\ CoreOK' /\ calls' = calls
    <2>1. CoreOK' /\ calls' = calls
      <3>1. CASE UNCHANGED coreVars  BY <1>3, <3>1
      <3>2. CASE D!SetActiveBinding(t, read[t])
        <4>1. read[t] \in Versions  BY DEF RestOK
        <4>. QED  BY <3>2, <4>1, SwitchStep
      <3>. QED  BY <1>4, <3>1, <3>2 DEF SyncSet
    <2>2. RestOK'
      BY <1>1, <1>4, PcTyped DEF RestOK, SyncSet, OutsideFrame, adapterVars, bounds, Places
    <2>. QED  BY <2>1, <2>2
  <1>5. ASSUME NEW t \in Threads, SyncGiveBack(t)
        PROVE  RestOK' /\ CoreOK' /\ (calls' = calls \/ Began(t))
    <2>1. CoreOK' /\ (calls' = calls \/ Began(t))
      <3>1. CASE UNCHANGED coreVars  BY <1>3, <3>1
      <3>2. ASSUME NEW e \in handed[t], D!GiveBack(t, e)
            PROVE  CoreOK' /\ (calls' = calls \/ Began(t))
        BY <3>2, GiveBackStep
      <3>. QED  BY <1>5, <3>1, <3>2 DEF SyncGiveBack
    <2>2. pc' \in [Threads -> Places]
      <3>1. CASE UNCHANGED pc  BY <3>1 DEF RestOK
      <3>2. CASE Goto(t, IF t = Poller THEN "rows" ELSE "idle")
        BY <3>2 DEF RestOK, Goto, Places
      <3>. QED  BY <1>5, <3>1, <3>2 DEF SyncGiveBack
    <2>3. RestOK'
      BY <1>1, <1>5, <2>2 DEF RestOK, SyncGiveBack, OutsideFrame, adapterVars, bounds
    <2>. QED  BY <2>1, <2>3
  <1>6. CASE PollFlush
    <2>1. CoreOK' /\ (calls' = calls \/ Began(Poller))
      BY <1>6, ThreadStarts, FlushStep DEF PollFlush
    <2>2. RestOK'
      BY <1>1, <1>6, ThreadStarts, PcTyped DEF RestOK, PollFlush, OutsideFrame, adapterVars, bounds, Places
    <2>. QED  BY <1>0, <1>1, <1>2, <2>1, <2>2, ThreadStarts, JobKept
  <1>7. ASSUME NEW m \in Msgs, IngestMessage(m)
        PROVE  RestOK' /\ CoreOK' /\ (calls' = calls \/ Began(Poller))
    <2>1. CoreOK' /\ (calls' = calls \/ Began(Poller))
      <3>1. CASE UNCHANGED coreVars  BY <1>3, <3>1
      <3>2. CASE D!Produce(Poller, EventFor(m, read[Poller]))
        <4>1. read[Poller] \in Versions  BY ThreadStarts DEF RestOK
        <4>2. EventFor(m, read[Poller]) \in D!Events  BY <4>1, EventTyped
        <4>3. handed' \in [Threads -> SUBSET D!Events]
          BY <3>2 DEF CoreOK, D!TypeOK, D!Produce
        <4>4. D!Ingest(Poller, EventFor(m, read[Poller]))  BY <3>2 DEF D!Produce
        <4>. QED  BY <4>2, <4>3, <4>4, ThreadStarts, IngestStep
      <3>. QED  BY <1>7, <3>1, <3>2 DEF IngestMessage
    <2>2. RestOK'
      BY <1>1, <1>7 DEF RestOK, IngestMessage, OutsideFrame, adapterVars, bounds
    <2>. QED  BY <2>1, <2>2
  <1>8. ASSUME NEW s \in {"idle", "working"}, LiveStatus(s)
        PROVE  RestOK' /\ CoreOK' /\ (calls' = calls \/ Began(Live))
    <2>1. CoreOK' /\ (calls' = calls \/ Began(Live))
      BY <1>8, ThreadStarts, StatusStep DEF LiveStatus
    <2>2. RestOK'
      BY <1>1, <1>8, ThreadStarts, PcTyped DEF RestOK, LiveStatus, OutsideFrame, adapterVars, bounds, Places
    <2>. QED  BY <2>1, <2>2
  <1>9. PICK t \in Threads : RestOK' /\ CoreOK' /\ (calls' = calls \/ Began(t))
    BY <1>4, <1>5, <1>6, <1>7, <1>8, ThreadStarts DEF LockStepOfB0
  <1>10. JobOK'  BY <1>0, <1>2, <1>9, JobKept
  <1>. QED  BY <1>1, <1>9, <1>10

\* What the adapter's steps leave alone, whatever they do.
LEMMA FrameKept ==
  ASSUME RestOK, AdapterFrame,
         marker' \in [Msgs -> SUBSET Marks], pendingMarks' \in [Msgs -> SUBSET Msgs],
         prompts' \in [Msgs -> [Versions -> 0..2]],
         UNCHANGED bounds \/ \E kind \in {"mark", "clear", "timeout"} : Fault(kind)
  PROVE  RestOK'
  <1>1. faults \in 0..MaxFaults /\ MaxFaults \in Nat  BY CoordinatorAssumption DEF RestOK
  <1>2. /\ faults' \in 0..MaxFaults /\ markedAtStart' = markedAtStart /\ restarts' = restarts
    <2>1. CASE UNCHANGED bounds  BY <1>1, <2>1 DEF bounds
    <2>2. ASSUME NEW kind \in {"mark", "clear", "timeout"}, Fault(kind)
          PROVE  faults' \in 0..MaxFaults /\ markedAtStart' = markedAtStart /\ restarts' = restarts
      BY <1>1, <2>2 DEF Fault
    <2>. QED  BY <2>1, <2>2
  <1>. QED  BY <1>2 DEF RestOK, AdapterFrame, threadVars

\* An attempt mark says nothing of delivery; a delivered mark is that of its messages.
LEMMA MarkAttempt ==
  ASSUME RestOK, NEW S, Mark(S, "attempt")
  PROVE  /\ marker' \in [Msgs -> SUBSET Marks]
         /\ \A m \in Msgs : /\ marker[m] \subseteq marker'[m]
                            /\ m \in S => "attempt" \in marker'[m]
                            /\ "delivered" \in marker'[m] => "delivered" \in marker[m]
  BY DEF RestOK, Mark, Marks

LEMMA MarkDelivered ==
  ASSUME RestOK, NEW S, Mark(S, "delivered")
  PROVE  /\ marker' \in [Msgs -> SUBSET Marks]
         /\ \A m \in Msgs : /\ marker[m] \subseteq marker'[m]
                            /\ m \in S => "delivered" \in marker'[m]
                            /\ "delivered" \in marker'[m] => m \in S \/ "delivered" \in marker[m]
  BY DEF RestOK, Mark, Marks

\* A thread in the adapter goes on to another stage.
LEMMA JobMoved ==
  ASSUME JobOK, UNCHANGED calls, NEW t \in Threads, Calling(t),
         NEW stage \in Stages, NEW todo, todo \subseteq Ids(t), Ids(t) \subseteq Msgs,
         NEW failed \in BOOLEAN, Job(t, stage, todo, failed)
  PROVE  /\ JobOK' /\ job'[t] = [stage |-> stage, todo |-> todo, failed |-> failed]
         /\ \A u \in Threads \ {t} : job'[u] = job[u]
  <1>1. [stage |-> stage, todo |-> todo, failed |-> failed]
            \in [stage : Stages, todo : SUBSET Msgs, failed : BOOLEAN]
    OBVIOUS
  <1>2. /\ job'[t] = [stage |-> stage, todo |-> todo, failed |-> failed]
        /\ \A u \in Threads \ {t} : job'[u] = job[u]
        /\ job' \in [Threads -> [stage : Stages, todo : SUBSET Msgs, failed : BOOLEAN]]
    BY <1>1 DEF JobOK, Job
  <1>. QED  BY <1>2 DEF JobOK, Calling, Ids

\* The adapter has returned.
LEMMA JobEnded ==
  ASSUME JobOK, NEW t \in Threads, Returned(t), \A u \in Threads \ {t} : calls'[u] = calls[u]
  PROVE  /\ JobOK' /\ job'[t] = NoJob /\ \A u \in Threads \ {t} : job'[u] = job[u]
  <1>1. NoJob \in [stage : Stages, todo : SUBSET Msgs, failed : BOOLEAN] /\ NoJob.stage = "none"
    BY DEF NoJob, Stages
  <1>2. /\ job'[t] = NoJob /\ \A u \in Threads \ {t} : job'[u] = job[u]
        /\ job' \in [Threads -> [stage : Stages, todo : SUBSET Msgs, failed : BOOLEAN]]
    BY <1>1 DEF JobOK, Returned
  <1>. QED  BY <1>1, <1>2 DEF JobOK, Calling, Ids

LEMMA JobStays ==
  ASSUME JobOK, job' = job, \A u \in Threads : job[u].stage # "none" => calls'[u] = calls[u]
  PROVE  JobOK'
  <1>1. ASSUME NEW u \in Threads, job[u].stage # "none"
        PROVE  Calling(u)' /\ job[u].todo \subseteq Ids(u)'
    <2>1. calls'[u] = calls[u]  BY <1>1
    <2>. QED  BY <1>1, <2>1 DEF JobOK, Calling, Ids
  <1>. QED  BY <1>1 DEF JobOK

LEMMA JobFacts ==
  ASSUME BaseInv, NEW t \in Threads
  PROVE  /\ job[t].stage \in Stages /\ job[t].todo \subseteq Msgs /\ job[t].failed \in BOOLEAN
         /\ job[t].stage # "none" => Calling(t) /\ ~D!Idle(t) /\ job[t].todo \subseteq Ids(t)
         /\ Ids(t) \subseteq Msgs
  BY CallFacts DEF BaseInv, JobOK, Calling, D!Idle

\* The core while the adapter works.
LEMMA CoreStays == ASSUME CoreOK, UNCHANGED coreVars PROVE CoreOK' /\ UNCHANGED calls
  BY DEF CoreOK, coreVars, D!TypeOK, D!OneFlight, D!Idle

LEMMA PromptTyped ==
  ASSUME RestOK, NEW t \in Threads, Prompted(t), Ids(t) \subseteq Msgs
  PROVE  /\ prompts' \in [Msgs -> [Versions -> 0..2]]
         /\ \A m \in Msgs : m \notin Ids(t) => prompts'[m] = prompts[m]
         /\ \A m \in Msgs, v \in Versions : v # db => prompts'[m][v] = prompts[m][v]
         /\ \A m \in Ids(t) : prompts'[m][db] > 0 /\ (prompts[m][db] = 0 => prompts'[m][db] = 1)
         /\ \A m \in Msgs, v \in Versions : prompts'[m][v] >= prompts[m][v]
  <1>1. prompts \in [Msgs -> [Versions -> 0..2]] /\ db \in Versions  BY DEF RestOK
  <1>2. ASSUME NEW f \in [Versions -> 0..2], f[db] < 2
        PROVE  [f EXCEPT ![db] = @ + 1] \in [Versions -> 0..2]
    <2>1. f[db] + 1 \in 0..2  BY <1>1, <1>2
    <2>. QED  BY <1>1, <2>1
  <1>3. ASSUME NEW m \in Msgs
        PROVE  /\ prompts'[m] = IF m \in Ids(t) /\ prompts[m][db] < 2
                                THEN [prompts[m] EXCEPT ![db] = @ + 1] ELSE prompts[m]
               /\ prompts[m] \in [Versions -> 0..2] /\ prompts'[m] \in [Versions -> 0..2]
    BY <1>1, <1>2 DEF Prompted
  <1>4. prompts' \in [Msgs -> [Versions -> 0..2]]
    <2>1. prompts' = [m \in Msgs |-> prompts'[m]]  BY DEF Prompted
    <2>. QED  BY <1>3, <2>1
  <1>5. ASSUME NEW f \in [Versions -> 0..2], NEW inBatch \in BOOLEAN, NEW g,
               g = IF inBatch /\ f[db] < 2 THEN [f EXCEPT ![db] = @ + 1] ELSE f
        PROVE  /\ inBatch => g[db] > 0 /\ (f[db] = 0 => g[db] = 1)
               /\ \A v \in Versions : (v # db => g[v] = f[v]) /\ g[v] >= f[v]
    <2>1. f[db] \in 0..2 /\ \A v \in Versions : f[v] \in 0..2  BY <1>1
    <2>2. CASE inBatch /\ f[db] < 2
      <3>1. g = [f EXCEPT ![db] = @ + 1]  BY <1>5, <2>2
      <3>2. \A v \in Versions : g[v] = IF v = db THEN f[v] + 1 ELSE f[v]  BY <1>1, <3>1
      <3>. QED  BY <1>1, <2>1, <3>2
    <2>3. CASE ~(inBatch /\ f[db] < 2)
      <3>1. g = f  BY <1>5, <2>3
      <3>. QED  BY <2>1, <2>3, <3>1
    <2>. QED  BY <2>2, <2>3
  <1>6. ASSUME NEW m \in Msgs
        PROVE  /\ m \in Ids(t) => prompts'[m][db] > 0 /\ (prompts[m][db] = 0 => prompts'[m][db] = 1)
               /\ \A v \in Versions : /\ v # db => prompts'[m][v] = prompts[m][v]
                                      /\ prompts'[m][v] >= prompts[m][v]
    <2> DEFINE f == prompts[m]
               g == prompts'[m]
               inBatch == m \in Ids(t)
    <2>1. f \in [Versions -> 0..2]  BY <1>3
    <2>4. inBatch \in BOOLEAN  OBVIOUS
    <2>2. g = IF inBatch /\ f[db] < 2 THEN [f EXCEPT ![db] = @ + 1] ELSE f  BY <1>3
    <2>3. /\ inBatch => g[db] > 0 /\ (f[db] = 0 => g[db] = 1)
          /\ \A v \in Versions : (v # db => g[v] = f[v]) /\ g[v] >= f[v]
      <3> HIDE DEF f, g, inBatch
      <3>. QED  BY <1>5, <2>1, <2>2, <2>4
    <2>. QED  BY <2>3
  <1>. QED  BY <1>3, <1>4, <1>6

LEMMA AdapterTyped == ASSUME BaseInv, NEW t \in Threads, Adapter(t) PROVE BaseInv'
  <1> USE DEF BaseInv
  <1>0. /\ RestOK /\ JobOK /\ CoreOK /\ Ids(t) \subseteq Msgs
        /\ marker \in [Msgs -> SUBSET Marks] /\ pendingMarks \in [Msgs -> SUBSET Msgs]
        /\ prompts \in [Msgs -> [Versions -> 0..2]]
        /\ job[t].todo \subseteq Msgs /\ job[t].failed \in BOOLEAN
        /\ job[t].stage # "none" => Calling(t) /\ job[t].todo \subseteq Ids(t)
    BY JobFacts DEF RestOK
  <1> HIDE DEF BaseInv
  <1>1. CASE AdapterEnter(t)
    <2> DEFINE stage == IF \A m \in Ids(t) : pendingMarks[m] # {} THEN "recover" ELSE "attempt"
    <2>1. CoreOK' /\ UNCHANGED calls  BY <1>0, <1>1, CoreStays DEF AdapterEnter
    <2>2. RestOK'  BY <1>0, <1>1, FrameKept DEF AdapterEnter
    <2>3. stage \in Stages  BY DEF Stages
    <2>4. Job(t, stage, Ids(t), FALSE) /\ Calling(t)  BY <1>1 DEF AdapterEnter
    <2> HIDE DEF stage
    <2>5. JobOK'  BY <1>0, <2>1, <2>3, <2>4, JobMoved
    <2>. QED  BY <2>1, <2>2, <2>5 DEF BaseInv
  <1>2. CASE Recovered(t) \/ Refused(t) \/ Accepted(t)
    <2>1. /\ Returned(t) /\ AdapterFrame /\ UNCHANGED <<marker, prompts, bounds>>
          /\ D!AdapterAccepts(t) \/ D!AdapterRejects(t)
      BY <1>2 DEF Recovered, Refused, Accepted
    <2>2. CoreOK' /\ \A u \in Threads \ {t} : calls'[u] = calls[u]
      BY <1>0, <2>1, AcceptStep, RejectStep DEF Turns
    <2>3. pendingMarks' \in [Msgs -> SUBSET Msgs]
      <3>1. CASE UNCHANGED pendingMarks  BY <1>0, <3>1
      <3>2. CASE pendingMarks' = [m \in Msgs |-> IF m \in Ids(t) THEN Ids(t) ELSE pendingMarks[m]]
        BY <1>0, <3>2
      <3>. QED  BY <1>2, <3>1, <3>2 DEF Recovered, Refused, Accepted
    <2>4. RestOK'  BY <1>0, <2>1, <2>3, FrameKept
    <2>5. JobOK'  BY <1>0, <2>1, <2>2, JobEnded
    <2>. QED  BY <2>2, <2>4, <2>5 DEF BaseInv
  <1>3. CASE PromptAccepted(t) \/ PromptRefused(t)
    <2>1. CoreOK' /\ UNCHANGED calls
      BY <1>0, <1>3, CoreStays DEF PromptAccepted, PromptRefused
    <2>2. /\ AdapterFrame /\ UNCHANGED <<marker, pendingMarks>> /\ job[t].stage = "attempt"
          /\ UNCHANGED prompts \/ Prompted(t)
          /\ UNCHANGED bounds \/ Fault("timeout")
          /\ Job(t, "accepted", Ids(t), FALSE) \/ Job(t, "refused", Ids(t), FALSE)
      BY <1>3 DEF PromptAccepted, PromptRefused, ReadyToPrompt
    <2>3. prompts' \in [Msgs -> [Versions -> 0..2]]  BY <1>0, <2>2, PromptTyped
    <2>4. RestOK'  BY <1>0, <2>2, <2>3, FrameKept
    <2>5. JobOK'
      <3>1. "accepted" \in Stages /\ "refused" \in Stages  BY DEF Stages
      <3>. QED  BY <1>0, <2>1, <2>2, <3>1, JobMoved
    <2>. QED  BY <2>1, <2>4, <2>5 DEF BaseInv
  <1>4. CASE Settle(t)
    <2>1. D!Finish(t) /\ AdapterFrame /\ UNCHANGED <<adapterVars, bounds>>
      BY <1>4 DEF Settle
    <2>2. CoreOK' /\ Settles(t)  BY <1>0, <2>1, FinishStep
    <2>3. RestOK'  BY <1>0, <2>1, FrameKept DEF adapterVars
    <2>4. JobOK'
      <3>1. ~Calling(t) /\ \A u \in Threads \ {t} : calls'[u] = calls[u]
        BY <2>2 DEF Settles, Calling
      <3>2. job' = job  BY <2>1 DEF adapterVars
      <3>3. \A u \in Threads : job[u].stage # "none" => u # t  BY <1>0, <3>1
      <3>4. JobOK /\ \A u \in Threads : job[u].stage # "none" => calls'[u] = calls[u]
        BY <1>0, <3>1, <3>3
      <3>. QED  BY <3>2, <3>4, JobStays
    <2>. QED  BY <2>2, <2>3, <2>4 DEF BaseInv
  <1>5. ASSUME NEW m \in Msgs, RecoverOne(t, m)  PROVE BaseInv'
    <2>1. CoreOK' /\ UNCHANGED calls  BY <1>0, <1>5, CoreStays DEF RecoverOne
    <2>2. PICK S \in SUBSET Msgs : Mark(S, "delivered")  BY <1>0, <1>5 DEF RecoverOne
    <2>3. marker' \in [Msgs -> SUBSET Marks]  BY <1>0, <2>2, MarkDelivered
    <2>4. pendingMarks' \in [Msgs -> SUBSET Msgs]  BY <1>0, <1>5 DEF RecoverOne
    <2>5. RestOK'  BY <1>0, <1>5, <2>3, <2>4, FrameKept DEF RecoverOne
    <2>6. "recover" \in Stages /\ job[t].stage # "none"  BY <1>5 DEF Stages, RecoverOne
    <2>7. PICK failed \in BOOLEAN : Job(t, "recover", job[t].todo \ {m}, failed)
      BY <1>0, <1>5 DEF RecoverOne
    <2>8. Calling(t) /\ job[t].todo \ {m} \subseteq Ids(t)  BY <1>0, <2>6
    <2>9. JobOK'  BY <1>0, <2>1, <2>6, <2>7, <2>8, JobMoved
    <2>. QED  BY <2>1, <2>5, <2>9 DEF BaseInv
  <1>6. ASSUME NEW m \in Msgs, AttemptOne(t, m)  PROVE BaseInv'
    <2>0. job[t].stage = "attempt" /\ AdapterFrame /\ UNCHANGED <<pendingMarks, prompts>>
      BY <1>6 DEF AttemptOne
    <2>1. CASE /\ Mark({m}, "attempt") /\ Job(t, "attempt", job[t].todo \ {m}, FALSE)
               /\ UNCHANGED <<coreVars, bounds>>
      <3>1. CoreOK' /\ UNCHANGED calls  BY <1>0, <2>1, CoreStays
      <3>2. marker' \in [Msgs -> SUBSET Marks]  BY <1>0, <2>1, MarkAttempt
      <3>3. RestOK'  BY <1>0, <2>0, <2>1, <3>2, FrameKept
      <3>4. "attempt" \in Stages  BY DEF Stages
      <3>5. JobOK'  BY <1>0, <2>0, <2>1, <3>1, <3>4, JobMoved
      <3>. QED  BY <3>1, <3>3, <3>5 DEF BaseInv
    <2>2. CASE Fault("mark") /\ D!AdapterRejects(t) /\ Returned(t) /\ UNCHANGED marker
      <3>1. CoreOK' /\ \A u \in Threads \ {t} : calls'[u] = calls[u]
        BY <1>0, <2>2, RejectStep DEF Turns
      <3>2. RestOK'  BY <1>0, <2>0, <2>2, FrameKept
      <3>3. JobOK'  BY <1>0, <2>2, <3>1, JobEnded
      <3>. QED  BY <3>1, <3>2, <3>3 DEF BaseInv
    <2>. QED  BY <1>6, <2>1, <2>2 DEF AttemptOne
  <1>7. ASSUME NEW m \in Msgs, ClearOne(t, m)  PROVE BaseInv'
    <2>1. CoreOK' /\ UNCHANGED calls  BY <1>0, <1>7, CoreStays DEF ClearOne
    <2>2. marker' \in [Msgs -> SUBSET Marks]  BY <1>0, <1>7 DEF ClearOne
    <2>3. RestOK'  BY <1>0, <1>7, <2>2, FrameKept DEF ClearOne
    <2>4. "refused" \in Stages /\ job[t].stage # "none"  BY <1>7 DEF Stages, ClearOne
    <2>5. JobOK'  BY <1>0, <1>7, <2>1, <2>4, JobMoved DEF ClearOne
    <2>. QED  BY <2>1, <2>3, <2>5 DEF BaseInv
  <1>8. ASSUME NEW m \in Msgs, DeliveredOne(t, m)  PROVE BaseInv'
    <2>1. CoreOK' /\ UNCHANGED calls  BY <1>0, <1>8, CoreStays DEF DeliveredOne
    <2>2. marker' \in [Msgs -> SUBSET Marks]
      BY <1>0, <1>8, MarkDelivered DEF DeliveredOne
    <2>3. RestOK'  BY <1>0, <1>8, <2>2, FrameKept DEF DeliveredOne
    <2>4. "accepted" \in Stages /\ job[t].stage # "none"  BY <1>8 DEF Stages, DeliveredOne
    <2>5. JobOK'  BY <1>0, <1>8, <2>1, <2>4, JobMoved DEF DeliveredOne
    <2>. QED  BY <2>1, <2>3, <2>5 DEF BaseInv
  <1>. QED  BY <1>1, <1>2, <1>3, <1>4, <1>5, <1>6, <1>7, <1>8 DEF Adapter

LEMMA NewCoreOK ==
  ASSUME core = D!NewCore, calls = D!NoCalls, handed = D!NoneHanded, accepts = D!NoAccepts
  PROVE  /\ CoreOK /\ core.version = 0 /\ core.generation = 0 /\ Waiting = {} /\ core.delivered = {}
         /\ \A t \in Threads : D!Idle(t) /\ Ids(t) = {} /\ Handed(t) = {}
  <1> USE CoordinatorAssumption, NoCallFacts DEF D!NewCore, D!NoCalls, D!NoneHanded, D!NoAccepts
  <1>1. D!TypeOK  BY DEF D!TypeOK, D!Core, D!Statuses
  <1>2. \A t \in Threads : D!Idle(t) /\ Ids(t) = {} /\ Handed(t) = {}
    BY DEF D!Idle, Ids, Handed
  <1>3. core.version = 0 /\ core.generation = 0 /\ Waiting = {} /\ core.delivered = {}
    BY DEF Waiting
  <1>4. D!OneFlight  BY <1>2 DEF D!OneFlight, Threads
  <1>. QED  BY <1>1, <1>2, <1>3, <1>4 DEF CoreOK

LEMMA StartTyped == Start \in [Threads -> Places]
  BY DEF Start, Places

LEMMA NoJobTyped ==
  ASSUME job = [t \in Threads |-> NoJob]
  PROVE  JobOK /\ \A t \in Threads : job[t].stage = "none"
  BY DEF JobOK, NoJob, Stages

LEMMA BaseInit == Init => BaseInv
  <1> SUFFICES ASSUME Init PROVE BaseInv  OBVIOUS
  <1>1. CoreOK  BY NewCoreOK DEF Init, D!Init
  <1>2. JobOK  BY NoJobTyped DEF Init
  <1>3. 1 \in Versions /\ 0 \in 0..MaxFaults /\ 0 \in 0..MaxRestarts
    BY CoordinatorAssumption DEF Versions
  <1>4. RestOK  BY <1>3, StartTyped DEF Init, RestOK, MailStates
  <1>. QED  BY <1>1, <1>2, <1>4 DEF BaseInv

LEMMA RestartTyped ==
  ASSUME BaseInv, Restart
  PROVE  /\ BaseInv' /\ core'.version = 0 /\ core'.generation = 0 /\ Waiting' = {}
         /\ core'.delivered = {}
         /\ \A t \in Threads : /\ calls'[t] = D!NoCall /\ Ids(t)' = {} /\ Handed(t)' = {}
                               /\ job'[t] = NoJob /\ read'[t] = 1
  <1>0. UNCHANGED <<db, mail, marker, prompts, faults>>  BY DEF Restart
  <1>1. /\ CoreOK' /\ core'.version = 0 /\ core'.generation = 0 /\ Waiting' = {}
        /\ core'.delivered = {} /\ \A t \in Threads : Ids(t)' = {} /\ Handed(t)' = {}
    <2> USE CoordinatorAssumption, NoCallFacts
        DEF Restart, D!NewCore, D!NoCalls, D!NoneHanded, D!NoAccepts
    <2>1. D!TypeOK'  BY DEF D!TypeOK, D!Core, D!Statuses
    <2>2. \A t \in Threads : D!Idle(t)' /\ Ids(t)' = {} /\ Handed(t)' = {}
      BY DEF D!Idle, Ids, Handed
    <2>3. core'.version = 0 /\ core'.generation = 0 /\ Waiting' = {} /\ core'.delivered = {}
          /\ core'.inflight = NoThread
      BY DEF Waiting
    <2>4. D!OneFlight'  BY <2>2, <2>3 DEF D!OneFlight, Threads
    <2>. QED  BY <2>1, <2>2, <2>3, <2>4 DEF CoreOK
  <1>2. JobOK'  BY DEF Restart, JobOK, NoJob, Stages
  <1>3. \A t \in Threads : calls'[t] = D!NoCall /\ job'[t] = NoJob /\ read'[t] = 1
    BY DEF Restart, D!NoCalls
  <1>4. 1 \in Versions /\ restarts \in 0..MaxRestarts /\ MaxRestarts \in Nat
    BY CoordinatorAssumption DEF Versions, BaseInv, RestOK
  <1>5. restarts' \in 0..MaxRestarts  BY <1>4 DEF Restart
  <1>6. RestOK'  BY <1>4, <1>5, StartTyped DEF Restart, RestOK, BaseInv
  <1>. QED  BY <1>1, <1>2, <1>3, <1>6 DEF BaseInv

LEMMA NextCases ==
  ASSUME Next
  PROVE  \/ ReadStep \/ LockStepOfB0 \/ (\E t \in Threads : Adapter(t)) \/ Restart
  BY ThreadStarts DEF Next, PollerStep, ApiStep, LiveStep, ReadStep, LockStepOfB0

LEMMA BaseStep == BaseInv /\ [Next]_vars => BaseInv'
  <1> SUFFICES ASSUME BaseInv, [Next]_vars PROVE BaseInv'  OBVIOUS
  <1>1. CASE UNCHANGED vars
    <2>1. CoreOK' /\ UNCHANGED calls  BY <1>1, CoreStays DEF vars, BaseInv
    <2>. QED
      BY <1>1, <2>1 DEF vars, BaseInv, RestOK, JobOK, Calling, Ids, adapterVars, threadVars, bounds
  <1>2. CASE Next
    BY <1>2, NextCases, ReadTyped, LockTyped, AdapterTyped, RestartTyped
  <1>. QED  BY <1>1, <1>2

-----------------------------------------------------------------------------
(* What the two kinds of step leave alone.                                   *)

\* Outside the adapter a delivery begins or nothing happens to the calls and the marks.
LEMMA OutsideStep ==
  ASSUME BaseInv, ReadStep \/ LockStepOfB0
  PROVE  /\ BaseInv' /\ OutsideFrame
         /\ \A u \in Threads : calls'[u] = calls[u] \/ (D!Idle(u) /\ calls'[u].phase = "calling")
         /\ \A m \in Msgs : mail[m] = "taken" => mail'[m] = "taken"
  <1>1. CASE ReadStep
    <2>1. BaseInv' /\ UNCHANGED coreVars /\ OutsideFrame
          /\ \A m \in Msgs : mail[m] = "taken" => mail'[m] = "taken"
      BY <1>1, ReadTyped
    <2>. QED  BY <2>1 DEF coreVars
  <1>2. CASE LockStepOfB0
    <2>1. BaseInv' /\ OutsideFrame /\ mail' = mail  BY <1>2, LockTyped
    <2>2. PICK t \in Threads : calls' = calls \/ Began(t)  BY <1>2, LockTyped
    <2>3. \A u \in Threads : calls'[u] = calls[u] \/ (D!Idle(u) /\ calls'[u].phase = "calling")
      BY <2>2 DEF Began
    <2>. QED  BY <2>1, <2>3
  <1>. QED  BY <1>1, <1>2

LEMMA JobIs ==
  ASSUME JobOK, NEW t \in Threads, NEW stage, NEW todo, NEW failed, Job(t, stage, todo, failed)
  PROVE  /\ job'[t].stage = stage /\ job'[t].todo = todo /\ job'[t].failed = failed
         /\ \A u \in Threads \ {t} : job'[u] = job[u]
  BY DEF JobOK, Job

LEMMA JobGone ==
  ASSUME JobOK, NEW t \in Threads, Returned(t)
  PROVE  /\ job'[t] = NoJob /\ job'[t].stage = "none"
         /\ \A u \in Threads \ {t} : job'[u] = job[u]
  BY DEF JobOK, Returned, NoJob

\* A step of the adapter is the only delivery's: no other thread has one.
LEMMA AdapterStep ==
  ASSUME BaseInv, NEW t \in Threads, Adapter(t)
  PROVE  /\ BaseInv' /\ AdapterFrame /\ handed' = handed /\ ~D!Idle(t)
         /\ \A u \in Threads \ {t} : /\ D!Idle(u) /\ job[u].stage = "none" /\ Ids(u) = {}
                                     /\ calls'[u] = calls[u] /\ job'[u] = job[u]
  <1> USE DEF BaseInv
  <1>0. JobOK /\ CoreOK /\ BaseInv'  BY AdapterTyped
  <1> HIDE DEF BaseInv
  <1>1. ~D!Idle(t)
    BY <1>0, JobFacts DEF Adapter, AdapterEnter, Recovered, PromptAccepted, PromptRefused, Refused,
       Accepted, Settle, RecoverOne, AttemptOne, ClearOne, DeliveredOne, ReadyToPrompt, D!Finish,
       D!Idle, Calling
  <1>2. AdapterFrame
    BY DEF Adapter, AdapterEnter, Recovered, PromptAccepted, PromptRefused, Refused,
       Accepted, Settle, RecoverOne, AttemptOne, ClearOne, DeliveredOne
  <1>3. \A u \in Threads \ {t} : D!Idle(u) /\ Ids(u) = {}  BY <1>0, <1>1, OneCall, CallFacts
  <1>4. \A u \in Threads \ {t} : job[u].stage = "none"  BY <1>3, JobFacts
  <1>5. handed' = handed /\ \A u \in Threads \ {t} : calls'[u] = calls[u]
    <2>1. CASE UNCHANGED coreVars  BY <2>1 DEF coreVars
    <2>2. CASE D!AdapterAccepts(t) \/ D!AdapterRejects(t)
      BY <1>0, <2>2, AcceptStep, RejectStep DEF Turns
    <2>3. CASE Settle(t)  BY <1>0, <2>3, FinishStep DEF Settle, Settles
    <2>. QED
      BY <2>1, <2>2, <2>3 DEF Adapter, AdapterEnter, Recovered, PromptAccepted, PromptRefused,
         Refused, Accepted, RecoverOne, AttemptOne, ClearOne, DeliveredOne
  <1>6. \A u \in Threads \ {t} : job'[u] = job[u]
    <2>1. CASE Returned(t)  BY <1>0, <2>1, JobGone
    <2>2. CASE \E stage \in Stages, todo \in SUBSET Msgs, failed \in BOOLEAN :
                  Job(t, stage, todo, failed)
      BY <1>0, <2>2, JobIs
    <2>3. CASE job' = job  BY <2>3
    <2>4. /\ "recover" \in Stages /\ "attempt" \in Stages /\ "accepted" \in Stages
          /\ "refused" \in Stages
      BY DEF Stages
    <2>5. Ids(t) \subseteq Msgs /\ job[t].todo \subseteq Msgs /\ job[t].failed \in BOOLEAN
      BY JobFacts
    <2>6. \A m : job[t].todo \ {m} \in SUBSET Msgs  BY <2>5
    <2>. QED
      BY <2>1, <2>2, <2>3, <2>4, <2>5, <2>6 DEF Adapter, AdapterEnter, Recovered, PromptAccepted, PromptRefused,
         Refused, Accepted, RecoverOne, AttemptOne, ClearOne, DeliveredOne, Settle, adapterVars
  <1>. QED  BY <1>0, <1>1, <1>2, <1>3, <1>4, <1>5, <1>6

-----------------------------------------------------------------------------
(* Delivered marks are proofs.                                               *)

WasPrompted(m) == \E v \in Versions : prompts[m][v] > 0

\* Where a delivered mark may come from: an accepted prompt, in this call or in an earlier
\* one whose marks could not all be written.
TruthInv ==
    /\ NoFalseMark
    /\ \A t \in Threads : job[t].stage = "accepted" => \A m \in Ids(t) : WasPrompted(m)
    /\ \A m \in Msgs : \A n \in pendingMarks[m] : WasPrompted(n)

LEMMA StillPrompted ==
  ASSUME BaseInv, BaseInv', NEW t \in Threads, Adapter(t), NEW m \in Msgs, WasPrompted(m)
  PROVE  WasPrompted(m)'
  <1>1. PICK v \in Versions : prompts[m][v] > 0  BY DEF WasPrompted
  <1>2. prompts[m][v] \in 0..2 /\ prompts'[m][v] \in 0..2  BY DEF BaseInv, RestOK
  <1>3. prompts'[m][v] >= prompts[m][v]
    <2>1. CASE UNCHANGED prompts  BY <1>2, <2>1
    <2>2. CASE Prompted(t)  BY <2>2, JobFacts, PromptTyped DEF BaseInv
    <2>. QED
      BY <2>1, <2>2 DEF Adapter, AdapterEnter, Recovered, PromptAccepted, PromptRefused,
         Refused, Accepted, RecoverOne, AttemptOne, ClearOne, DeliveredOne, Settle, adapterVars
  <1>. QED  BY <1>1, <1>2, <1>3 DEF WasPrompted

\* The marks of a step are true, if those of the messages it marks delivered are.
LEMMA TruthKept ==
  ASSUME BaseInv, TruthInv, BaseInv', NEW t \in Threads, Adapter(t),
         \A m \in Msgs : "delivered" \in marker'[m] => "delivered" \in marker[m] \/ WasPrompted(m)',
         job'[t].stage = "accepted" => \A m \in Ids(t)' : WasPrompted(m)',
         \A m \in Msgs : \A n \in pendingMarks'[m] : n \in pendingMarks[m] \/ WasPrompted(n)'
  PROVE  TruthInv'
  <1>1. NoFalseMark'
    <2>1. \A m \in Msgs : "delivered" \in marker'[m] => WasPrompted(m)'
      BY StillPrompted DEF TruthInv, NoFalseMark, WasPrompted
    <2>. QED  BY <2>1 DEF NoFalseMark, WasPrompted
  <1>2. \A u \in Threads : job'[u].stage = "accepted" => \A m \in Ids(u)' : WasPrompted(m)'
    BY AdapterStep
  <1>3. \A m \in Msgs : \A n \in pendingMarks'[m] : WasPrompted(n)'
    <2>1. \A m \in Msgs : pendingMarks[m] \subseteq Msgs  BY DEF BaseInv, RestOK
    <2>. QED  BY <2>1, StillPrompted DEF TruthInv
  <1>. QED  BY <1>1, <1>2, <1>3 DEF TruthInv

LEMMA TruthAdapter == ASSUME BaseInv, TruthInv, NEW t \in Threads, Adapter(t) PROVE TruthInv'
  <1> DEFINE
        Marks1 == \A m \in Msgs : "delivered" \in marker'[m]
                                      => "delivered" \in marker[m] \/ WasPrompted(m)'
        Job1 == job'[t].stage = "accepted" => \A m \in Ids(t)' : WasPrompted(m)'
        Pending1 == \A m \in Msgs : \A n \in pendingMarks'[m] : n \in pendingMarks[m] \/ WasPrompted(n)'
  <1>0. /\ BaseInv' /\ JobOK /\ CoreOK /\ RestOK /\ Ids(t) \subseteq Msgs
        /\ marker \in [Msgs -> SUBSET Marks] /\ pendingMarks \in [Msgs -> SUBSET Msgs]
    BY AdapterStep, CallFacts DEF BaseInv, RestOK
  <1>1. CASE AdapterEnter(t)
    <2> DEFINE stage == IF \A m \in Ids(t) : pendingMarks[m] # {} THEN "recover" ELSE "attempt"
    <2>1. UNCHANGED <<marker, pendingMarks>> /\ Job(t, stage, Ids(t), FALSE)
      BY <1>1 DEF AdapterEnter
    <2>2. stage # "accepted"  OBVIOUS
    <2> HIDE DEF stage
    <2>3. job'[t].stage # "accepted"  BY <1>0, <2>1, <2>2, JobIs
    <2>4. Marks1 /\ Job1 /\ Pending1  BY <2>1, <2>3
    <2>. QED  BY <1>0, <2>4, TruthKept
  <1>2. CASE Recovered(t) \/ Refused(t) \/ Accepted(t)
    <2>1. UNCHANGED <<marker, prompts>> /\ Returned(t)  BY <1>2 DEF Recovered, Refused, Accepted
    <2>2. job'[t].stage # "accepted"  BY <1>0, <2>1, JobGone
    <2>3. Pending1
      <3>1. CASE UNCHANGED pendingMarks  BY <3>1
      <3>2. CASE /\ job[t].stage = "accepted"
                 /\ pendingMarks' = [m \in Msgs |-> IF m \in Ids(t) THEN Ids(t) ELSE pendingMarks[m]]
        <4>1. \A m \in Ids(t) : WasPrompted(m)'  BY <2>1, <3>2 DEF TruthInv, WasPrompted
        <4>. QED  BY <3>2, <4>1
      <3>. QED  BY <1>2, <3>1, <3>2 DEF Recovered, Refused, Accepted
    <2>4. Marks1 /\ Job1  BY <2>1, <2>2
    <2>. QED  BY <1>0, <2>3, <2>4, TruthKept
  <1>3. CASE PromptAccepted(t)
    <2>1. UNCHANGED <<marker, pendingMarks, calls>> /\ Prompted(t)
      BY <1>3 DEF PromptAccepted, coreVars
    <2>2. Ids(t)' = Ids(t) /\ db \in Versions  BY <1>0, <2>1 DEF Ids, RestOK
    <2>3. \A m \in Ids(t) : prompts'[m][db] > 0  BY <1>0, <2>1, PromptTyped
    <2>5. \A m \in Ids(t) : WasPrompted(m)'  BY <2>2, <2>3 DEF WasPrompted
    <2>4. Marks1 /\ Job1 /\ Pending1  BY <2>1, <2>2, <2>5
    <2>. QED  BY <1>0, <2>4, TruthKept
  <1>4. CASE PromptRefused(t)
    <2>1. UNCHANGED <<marker, pendingMarks>> /\ Job(t, "refused", Ids(t), FALSE)
      BY <1>4 DEF PromptRefused
    <2>2. job'[t].stage = "refused"  BY <1>0, <2>1, JobIs
    <2>3. Marks1 /\ Job1 /\ Pending1  BY <2>1, <2>2
    <2>. QED  BY <1>0, <2>3, TruthKept
  <1>5. CASE Settle(t)
    <2>1. UNCHANGED <<marker, pendingMarks, job>> /\ ~Calling(t)
      BY <1>5 DEF Settle, adapterVars, D!Finish, Calling
    <2>2. job'[t].stage # "accepted"  BY <2>1, JobFacts
    <2>3. Marks1 /\ Job1 /\ Pending1  BY <2>1, <2>2
    <2>. QED  BY <1>0, <2>3, TruthKept
  <1>6. ASSUME NEW m \in Msgs, RecoverOne(t, m)  PROVE TruthInv'
    <2>1. PICK S \in SUBSET pendingMarks[m] : Mark(S, "delivered")
      BY <1>0, <1>6 DEF RecoverOne
    <2>2. UNCHANGED prompts /\ \A n \in S : WasPrompted(n)'
      BY <1>6 DEF TruthInv, WasPrompted, RecoverOne
    <2>7. \A n \in Msgs : "delivered" \in marker'[n] => n \in S \/ "delivered" \in marker[n]
      BY <2>1 DEF Mark
    <2>3. Marks1  BY <2>2, <2>7
    <2>4. Pending1  BY <1>0, <1>6 DEF RecoverOne
    <2>5. PICK failed \in BOOLEAN : Job(t, "recover", job[t].todo \ {m}, failed)
      BY <1>6, JobFacts DEF RecoverOne
    <2>6. Job1  BY <1>0, <2>5, JobIs
    <2>. QED  BY <1>0, <2>3, <2>4, <2>6, TruthKept
  <1>7. ASSUME NEW m \in Msgs, AttemptOne(t, m)  PROVE TruthInv'
    <2>1. pendingMarks' = pendingMarks  BY <1>7 DEF AttemptOne
    <2>2. Marks1
      <3>1. CASE UNCHANGED marker  BY <3>1
      <3>2. CASE Mark({m}, "attempt")
        <4>1. \A n \in Msgs : "delivered" \in marker'[n] => "delivered" \in marker[n]
          BY <3>2 DEF Mark
        <4>. QED  BY <4>1
      <3>. QED  BY <1>7, <3>1, <3>2 DEF AttemptOne
    <2>3. Job1
      <3>1. CASE Returned(t)  BY <1>0, <3>1, JobGone
      <3>2. CASE Job(t, "attempt", job[t].todo \ {m}, FALSE)
        <4>1. job'[t].stage = "attempt"  BY <1>0, <3>2, JobIs
        <4>. QED  BY <4>1
      <3>. QED  BY <1>7, <3>1, <3>2 DEF AttemptOne
    <2>4. Pending1  BY <2>1
    <2>. QED  BY <1>0, <2>2, <2>3, <2>4, TruthKept
  <1>8. ASSUME NEW m \in Msgs, ClearOne(t, m)  PROVE TruthInv'
    <2>1. UNCHANGED pendingMarks /\ Job(t, "refused", job[t].todo \ {m}, FALSE)
      BY <1>8 DEF ClearOne
    <2>2. Marks1  BY <1>0, <1>8 DEF ClearOne
    <2>5. job'[t].stage = "refused"  BY <1>0, <2>1, JobIs
    <2>3. Job1  BY <2>5
    <2>4. Pending1  BY <2>1
    <2>. QED  BY <1>0, <2>2, <2>3, <2>4, TruthKept
  <1>9. ASSUME NEW m \in Msgs, DeliveredOne(t, m)  PROVE TruthInv'
    <2>1. /\ UNCHANGED <<calls, pendingMarks, prompts>> /\ job[t].stage = "accepted"
          /\ m \in job[t].todo
      BY <1>9 DEF DeliveredOne, coreVars
    <2>2. Ids(t)' = Ids(t) /\ m \in Ids(t)  BY <2>1, JobFacts DEF Ids
    <2>3. \A n \in Ids(t) : WasPrompted(n)'  BY <2>1 DEF TruthInv, WasPrompted
    <2>4. Marks1
      <3>1. CASE UNCHANGED marker  BY <3>1
      <3>2. CASE Mark({m}, "delivered")
        <4>1. \A n \in Msgs : "delivered" \in marker'[n] => n \in {m} \/ "delivered" \in marker[n]
          BY <3>2 DEF Mark
        <4>. QED  BY <2>2, <2>3, <4>1
      <3>. QED  BY <1>9, <3>1, <3>2 DEF DeliveredOne
    <2>5. Job1 /\ Pending1  BY <2>1, <2>2, <2>3
    <2>. QED  BY <1>0, <2>4, <2>5, TruthKept
  <1>. QED  BY <1>1, <1>2, <1>3, <1>4, <1>5, <1>6, <1>7, <1>8, <1>9 DEF Adapter

LEMMA TruthOutside ==
  ASSUME BaseInv, TruthInv, ReadStep \/ LockStepOfB0  PROVE TruthInv'
  <1>1. UNCHANGED <<marker, pendingMarks, job, prompts>>
    BY OutsideStep DEF OutsideFrame, adapterVars
  <1>2. ASSUME NEW t \in Threads, job[t].stage = "accepted"  PROVE Ids(t)' = Ids(t)
    <2>1. ~D!Idle(t)  BY <1>2, JobFacts
    <2>2. calls'[t] = calls[t]  BY <2>1, OutsideStep
    <2>. QED  BY <2>2 DEF Ids
  <1>3. (\A t \in Threads : job[t].stage = "accepted" => \A m \in Ids(t) : WasPrompted(m))'
    BY <1>1, <1>2 DEF TruthInv, WasPrompted
  <1>. QED  BY <1>1, <1>3 DEF TruthInv, NoFalseMark, WasPrompted

LEMMA TruthStep == BaseInv /\ TruthInv /\ [Next]_vars => TruthInv'
  <1> SUFFICES ASSUME BaseInv, TruthInv, [Next]_vars PROVE TruthInv'  OBVIOUS
  <1>1. CASE UNCHANGED vars
    BY <1>1 DEF vars, coreVars, adapterVars, TruthInv, NoFalseMark, WasPrompted, Ids
  <1>2. CASE ReadStep \/ LockStepOfB0  BY <1>2, TruthOutside
  <1>3. CASE \E t \in Threads : Adapter(t)  BY <1>3, TruthAdapter
  <1>4. CASE Restart
    <2>1. UNCHANGED <<marker, prompts>> /\ pendingMarks' = [m \in Msgs |-> {}]
      BY <1>4 DEF Restart
    <2>2. \A t \in Threads : Ids(t)' = {}  BY <1>4, RestartTyped
    <2>3. (\A t \in Threads : job[t].stage = "accepted" => \A m \in Ids(t) : WasPrompted(m))'
      BY <2>2
    <2>. QED  BY <2>1, <2>3 DEF TruthInv, NoFalseMark, WasPrompted
  <1>. QED  BY <1>1, <1>2, <1>3, <1>4, NextCases

LEMMA TruthInit == Init => TruthInv
  <1> SUFFICES ASSUME Init PROVE TruthInv  OBVIOUS
  <1>1. \A t \in Threads : job[t].stage = "none"  BY NoJobTyped DEF Init
  <1>2. (\A m \in Msgs : marker[m] = {} /\ pendingMarks[m] = {})  BY DEF Init
  <1>. QED  BY <1>1, <1>2 DEF TruthInv, NoFalseMark

\* The types of the coordinator and its core, and one delivery at a time.
THEOREM MessagingTyped == Spec => []BaseInv
  <1>1. Init => BaseInv  BY BaseInit
  <1>2. BaseInv /\ [Next]_vars => BaseInv'  BY BaseStep
  <1>. QED  BY <1>1, <1>2, PTL DEF Spec

\* Whatever fails, crashes or is retried: a message carries a delivered mark only if a
\* prompt that named it was sent.
THEOREM MarksCorrect == Spec => []MarksAreTrue
  <1>1. Init => TruthInv  BY TruthInit
  <1>2. BaseInv /\ TruthInv /\ [Next]_vars => TruthInv'  BY TruthStep
  <1>3. BaseInv /\ TruthInv => MarksAreTrue  BY BaseIsTyped DEF MarksAreTrue, TruthInv
  <1>. QED  BY <1>1, <1>2, <1>3, MessagingTyped, PTL DEF Spec

-----------------------------------------------------------------------------
(* A message that carries a mark stays out of the core.                      *)

InCore(m) == m \in Waiting \/ \E t \in Threads : m \in Handed(t) \/ m \in Ids(t)

\* What a locked section moves stays in the core, and what is new there was given to it.
LEMMA SectionHolds ==
  ASSUME NEW S, Waiting' \subseteq Waiting \cup S,
         \A u \in Threads : Handed(u)' \subseteq Handed(u) \cup Waiting,
         calls' = calls \/ \E t \in Threads : Began(t)
  PROVE  \A m \in Msgs : InCore(m)' => InCore(m) \/ m \in S
  <1>1. \A u \in Threads : Ids(u)' \subseteq Ids(u) \cup Waiting \cup S
    <2>1. CASE calls' = calls  BY <2>1 DEF Ids
    <2>2. ASSUME NEW t \in Threads, Began(t)
          PROVE  \A u \in Threads : Ids(u)' \subseteq Ids(u) \cup Waiting \cup S
      <3>1. Ids(t)' \subseteq Waiting \cup S  BY <2>2 DEF Began
      <3>2. \A u \in Threads \ {t} : Ids(u)' = Ids(u)  BY <2>2 DEF Began, Ids
      <3>. QED  BY <3>1, <3>2
    <2>. QED  BY <2>1, <2>2
  <1>. QED  BY <1>1 DEF InCore

LEMMA SectionAddsNone ==
  ASSUME Waiting' \subseteq Waiting, \A u \in Threads : Handed(u)' \subseteq Handed(u) \cup Waiting,
         calls' = calls \/ \E t \in Threads : Began(t)
  PROVE  \A m \in Msgs : InCore(m)' => InCore(m)
  <1>1. Waiting' \subseteq Waiting \cup Waiting  OBVIOUS
  <1>2. \A m \in Msgs : InCore(m)' => InCore(m) \/ m \in Waiting  BY <1>1, SectionHolds
  <1>. QED  BY <1>2 DEF InCore

LEMMA LockHolds ==
  ASSUME BaseInv, LockStepOfB0
  PROVE  \A m \in Msgs : InCore(m)' => InCore(m) \/ ~Marked(m)
  <1> USE DEF BaseInv
  <1>0. CoreOK /\ RestOK  OBVIOUS
  <1> HIDE DEF BaseInv
  <1>1. ASSUME UNCHANGED coreVars  PROVE \A m \in Msgs : InCore(m)' => InCore(m)
    BY <1>1 DEF coreVars, InCore, Waiting, Handed, Ids
  <1>2. ASSUME NEW t \in Threads, SyncSet(t)
        PROVE  \A m \in Msgs : InCore(m)' => InCore(m)
    <2>1. CASE D!SetActiveBinding(t, read[t])
      <3>1. read[t] \in Versions  BY <1>0 DEF RestOK
      <3>2. Waiting' = {}  BY <1>0, <2>1, <3>1, SwitchStep
      <3>3. \A u \in Threads : Handed(u)' \subseteq Handed(u) \cup Waiting
        BY <1>0, <2>1, <3>1, SwitchStep
      <3>4. calls' = calls  BY <1>0, <2>1, <3>1, SwitchStep
      <3>5. calls' = calls \/ \E u \in Threads : Began(u)  BY <3>4
      <3>. QED  BY <3>2, <3>3, <3>5, SectionAddsNone
    <2>. QED  BY <1>1, <1>2, <2>1 DEF SyncSet
  <1>3. ASSUME NEW t \in Threads, SyncGiveBack(t)
        PROVE  \A m \in Msgs : InCore(m)' => InCore(m)
    <2>1. ASSUME NEW e \in handed[t], D!GiveBack(t, e)
          PROVE  \A m \in Msgs : InCore(m)' => InCore(m)
      <3>1. /\ Waiting' \subseteq Waiting \cup {e.id}
            /\ \A u \in Threads : Handed(u)' \subseteq Handed(u) \cup Waiting
        BY <1>0, <2>1, GiveBackStep DEF Waits
      <3>2. calls' = calls \/ \E u \in Threads : Began(u)
        BY <1>0, <2>1, GiveBackStep
      <3>3. e.id \in Handed(t)  BY <1>0, <2>1, GiveBackStep
      <3>4. \A m \in Msgs : InCore(m)' => InCore(m) \/ m \in {e.id}
        BY <3>1, <3>2, SectionHolds
      <3>. QED  BY <3>3, <3>4 DEF InCore
    <2>. QED  BY <1>1, <1>3, <2>1 DEF SyncGiveBack
  <1>4. ASSUME PollFlush \/ \E s \in {"idle", "working"} : LiveStatus(s)
        PROVE  \A m \in Msgs : InCore(m)' => InCore(m)
    <2>1. /\ Waits({}) /\ handed' = handed
          /\ calls' = calls \/ \E u \in Threads : Began(u)
      BY <1>0, <1>4, ThreadStarts, FlushStep, StatusStep DEF PollFlush, LiveStatus
    <2>2. Waiting' \subseteq Waiting /\ \A u \in Threads : Handed(u)' \subseteq Handed(u) \cup Waiting
      BY <2>1 DEF Waits, Handed
    <2>. QED  BY <2>1, <2>2, SectionAddsNone
  <1>5. ASSUME NEW n \in Msgs, IngestMessage(n)
        PROVE  \A m \in Msgs : InCore(m)' => InCore(m) \/ ~Marked(m)
    <2>1. CASE ~Marked(n) /\ D!Produce(Poller, EventFor(n, read[Poller]))
      <3>1. read[Poller] \in Versions  BY <1>0, ThreadStarts DEF RestOK
      <3> DEFINE e == EventFor(n, read[Poller])
      <3>2. e \in D!Events /\ e.id = n  BY <3>1, EventTyped
      <3> HIDE DEF e
      <3>3. handed' = handed /\ D!Ingest(Poller, e)  BY <2>1 DEF D!Produce, e
      <3>4. handed' \in [Threads -> SUBSET D!Events]  BY <1>0, <3>3 DEF CoreOK, D!TypeOK
      <3>5. (calls' = calls \/ Began(Poller)) /\ (Waits({}) \/ Waits({e.id}))
        BY <1>0, <3>2, <3>3, <3>4, ThreadStarts, IngestStep
      <3>6. /\ Waiting' \subseteq Waiting \cup {n}
            /\ \A u \in Threads : Handed(u)' \subseteq Handed(u) \cup Waiting
            /\ calls' = calls \/ \E u \in Threads : Began(u)
        BY <3>2, <3>3, <3>5, ThreadStarts DEF Waits, Handed
      <3>7. \A m \in Msgs : InCore(m)' => InCore(m) \/ m \in {n}  BY <3>6, SectionHolds
      <3>. QED  BY <2>1, <3>7
    <2>. QED  BY <1>1, <1>5, <2>1 DEF IngestMessage
  <1>. QED  BY <1>2, <1>3, <1>4, <1>5 DEF LockStepOfB0

LEMMA AdapterHolds ==
  ASSUME BaseInv, NEW t \in Threads, Adapter(t)
  PROVE  /\ Ids(t)' = Ids(t) \/ Ids(t)' = {}
         /\ \A m \in Msgs : InCore(m)' => InCore(m)
  <1>0. CoreOK  BY DEF BaseInv
  <1>1. /\ handed' = handed /\ \A u \in Threads \ {t} : Ids(u)' = Ids(u)
    BY AdapterStep DEF Ids
  <1>2. /\ Ids(t)' = Ids(t) \/ Ids(t)' = {}
        /\ Waiting' \subseteq Waiting \cup Ids(t)
    <2>1. CASE UNCHANGED coreVars  BY <2>1 DEF coreVars, Waiting, Ids
    <2>2. CASE D!AdapterAccepts(t) \/ D!AdapterRejects(t)
      BY <1>0, <2>2, AcceptStep, RejectStep DEF Turns, Waiting
    <2>3. CASE Settle(t)
      <3>1. Settles(t)  BY <1>0, <2>3, FinishStep DEF Settle
      <3>. QED  BY <3>1, NoCallFacts DEF Settles, Ids
    <2>. QED
      BY <2>1, <2>2, <2>3 DEF Adapter, AdapterEnter, Recovered, PromptAccepted, PromptRefused,
         Refused, Accepted, RecoverOne, AttemptOne, ClearOne, DeliveredOne
  <1>. QED  BY <1>1, <1>2 DEF InCore, Handed

\* What carried a mark when the process started keeps one, and is not in the core.
StartedInv == \A m \in markedAtStart : Marked(m) /\ ~InCore(m)

\* An adapter step takes marks from the messages of its own delivery only, and prompts
\* no others.
LEMMA MarksStay ==
  ASSUME BaseInv, NEW t \in Threads, Adapter(t)
  PROVE  /\ markedAtStart' = markedAtStart
         /\ \A m \in Msgs \ Ids(t) : marker[m] \subseteq marker'[m] /\ prompts'[m] = prompts[m]
  <1>0. RestOK /\ Ids(t) \subseteq Msgs  BY JobFacts DEF BaseInv
  <1>1. markedAtStart' = markedAtStart
    <2>1. CASE UNCHANGED bounds  BY <2>1 DEF bounds
    <2>2. CASE \E kind \in {"mark", "clear", "timeout"} : Fault(kind)  BY <2>2 DEF Fault
    <2>. QED
      BY <2>1, <2>2 DEF Adapter, AdapterEnter, Recovered, PromptAccepted, PromptRefused,
         Refused, Accepted, RecoverOne, AttemptOne, ClearOne, DeliveredOne, Settle
  <1>2. \A m \in Msgs \ Ids(t) : prompts'[m] = prompts[m]
    <2>1. CASE UNCHANGED prompts  BY <2>1
    <2>2. CASE Prompted(t)  BY <1>0, <2>2, PromptTyped
    <2>. QED
      BY <2>1, <2>2 DEF Adapter, AdapterEnter, Recovered, PromptAccepted, PromptRefused,
         Refused, Accepted, RecoverOne, AttemptOne, ClearOne, DeliveredOne, Settle, adapterVars
  <1>3. \A m \in Msgs \ Ids(t) : marker[m] \subseteq marker'[m]
    <2>1. CASE UNCHANGED marker  BY <2>1
    <2>2. ASSUME NEW S, NEW k, Mark(S, k)  PROVE \A m \in Msgs : marker[m] \subseteq marker'[m]
      BY <2>2 DEF Mark
    <2>3. ASSUME NEW n \in Msgs, ClearOne(t, n)
          PROVE  \A m \in Msgs \ Ids(t) : marker[m] \subseteq marker'[m]
      <3>1. n \in Ids(t)  BY <2>3, JobFacts DEF ClearOne
      <3>2. \A m \in Msgs \ {n} : marker'[m] = marker[m]
        BY <1>0, <2>3 DEF ClearOne, RestOK
      <3>. QED  BY <3>1, <3>2
    <2>4. CASE \E m \in Msgs : RecoverOne(t, m) \/ AttemptOne(t, m) \/ DeliveredOne(t, m)
      BY <2>1, <2>2, <2>4 DEF RecoverOne, AttemptOne, DeliveredOne
    <2>. QED
      BY <2>1, <2>3, <2>4 DEF Adapter, AdapterEnter, Recovered, PromptAccepted, PromptRefused,
         Refused, Accepted, Settle, adapterVars
  <1>. QED  BY <1>1, <1>2, <1>3

LEMMA StartedStep ==
  ASSUME BaseInv, StartedInv, [Next]_vars
  PROVE  /\ StartedInv'
         /\ \A m \in markedAtStart : prompts'[m] = prompts[m]
  <1>0. markedAtStart \subseteq Msgs  BY DEF BaseInv, RestOK
  <1>1. CASE UNCHANGED vars
    BY <1>1 DEF vars, coreVars, adapterVars, bounds, StartedInv, InCore, Waiting, Handed, Ids, Marked
  <1>2. CASE ReadStep
    BY <1>2, ReadTyped DEF OutsideFrame, adapterVars, bounds, coreVars, StartedInv, InCore,
       Waiting, Handed, Ids, Marked
  <1>3. CASE LockStepOfB0
    <2>1. UNCHANGED <<marker, markedAtStart, prompts>>
      BY <1>3, LockTyped DEF OutsideFrame, adapterVars, bounds
    <2>2. \A m \in markedAtStart : ~InCore(m)'  BY <1>0, <1>3, LockHolds DEF StartedInv
    <2>. QED  BY <2>1, <2>2 DEF StartedInv, Marked
  <1>4. ASSUME NEW t \in Threads, Adapter(t)
        PROVE  StartedInv' /\ \A m \in markedAtStart : prompts'[m] = prompts[m]
    <2>1. \A m \in markedAtStart : m \notin Ids(t)  BY DEF StartedInv, InCore
    <2>2. \A m \in markedAtStart : ~InCore(m)'  BY <1>0, <1>4, AdapterHolds DEF StartedInv
    <2>. QED  BY <1>0, <1>4, <2>1, <2>2, MarksStay DEF StartedInv, Marked
  <1>5. CASE Restart
    <2>1. /\ marker' = marker /\ prompts' = prompts
          /\ markedAtStart' = {m \in Msgs : Marked(m)}
      BY <1>5 DEF Restart
    <2>2. \A m \in Msgs : ~InCore(m)'  BY <1>5, RestartTyped DEF InCore
    <2>. QED  BY <2>1, <2>2 DEF StartedInv, Marked
  <1>. QED  BY <1>1, <1>2, <1>3, <1>4, <1>5, NextCases

\* However the process dies and whatever was in flight: a message that carried a mark when
\* the process started is not prompted by it.
THEOREM NoReprompt == Spec => NoRepromptAfterRestart
  <1>1. Init => StartedInv  BY DEF Init, StartedInv
  <1>2. BaseInv /\ StartedInv /\ [Next]_vars => StartedInv'  BY StartedStep
  <1>3. BaseInv /\ StartedInv /\ [Next]_vars
            => [\A m \in markedAtStart : prompts'[m] = prompts[m]]_vars
    BY StartedStep
  <1>. QED  BY <1>1, <1>2, <1>3, MessagingTyped, PTL DEF Spec, NoRepromptAfterRestart

-----------------------------------------------------------------------------
(* The core's ledger is backed by durable marks.                             *)

\* A locked section that is not a switch leaves the core's version, and what waits.
LEMMA LockCore ==
  ASSUME BaseInv, LockStepOfB0
  PROVE  /\ core'.delivered \subseteq core.delivered
         /\ \/ core'.version = core.version /\ core'.generation = core.generation
               /\ Waiting \subseteq Waiting' /\ core'.delivered = core.delivered
            \/ \E t \in Threads : SyncSet(t) /\ D!SetActiveBinding(t, read[t])
  <1> DEFINE Stays == /\ core'.version = core.version /\ core'.generation = core.generation
                      /\ core'.delivered = core.delivered /\ Waiting \subseteq Waiting'
  <1>0. CoreOK /\ RestOK  BY DEF BaseInv
  <1>1. ASSUME UNCHANGED coreVars  PROVE Stays
    BY <1>1 DEF coreVars, Waiting
  <1>2. ASSUME NEW S, Waits(S)  PROVE Stays
    BY <1>2 DEF Waits
  <1>3. CASE \E t \in Threads : SyncSet(t) /\ D!SetActiveBinding(t, read[t])
    <2>1. PICK t \in Threads : SyncSet(t) /\ D!SetActiveBinding(t, read[t])  BY <1>3
    <2>2. read[t] \in Versions  BY <1>0 DEF RestOK
    <2>3. core'.delivered = {}  BY <1>0, <2>1, <2>2, SwitchStep
    <2>. QED  BY <1>3, <2>3
  <1>4. ASSUME NEW t \in Threads, SyncGiveBack(t)  PROVE Stays
    <2>1. ASSUME NEW e \in handed[t], D!GiveBack(t, e)  PROVE Stays
      <3>1. Waits({}) \/ Waits({e.id})  BY <1>0, <2>1, GiveBackStep
      <3>. QED  BY <1>2, <3>1
    <2>. QED  BY <1>1, <1>4, <2>1 DEF SyncGiveBack
  <1>5. ASSUME PollFlush \/ \E s \in {"idle", "working"} : LiveStatus(s)  PROVE Stays
    <2>1. Waits({})
      BY <1>0, <1>5, ThreadStarts, FlushStep, StatusStep DEF PollFlush, LiveStatus
    <2>. QED  BY <1>2, <2>1
  <1>6. ASSUME NEW n \in Msgs, IngestMessage(n)  PROVE Stays
    <2>1. CASE D!Produce(Poller, EventFor(n, read[Poller]))
      <3>1. read[Poller] \in Versions  BY <1>0, ThreadStarts DEF RestOK
      <3> DEFINE e == EventFor(n, read[Poller])
      <3>2. e \in D!Events  BY <3>1, EventTyped
      <3> HIDE DEF e
      <3>3. handed' = handed /\ D!Ingest(Poller, e)  BY <2>1 DEF D!Produce, e
      <3>4. handed' \in [Threads -> SUBSET D!Events]  BY <1>0, <3>3 DEF CoreOK, D!TypeOK
      <3>5. Waits({}) \/ Waits({e.id})  BY <1>0, <3>2, <3>3, <3>4, ThreadStarts, IngestStep
      <3>. QED  BY <1>2, <3>5
    <2>. QED  BY <1>1, <1>6, <2>1 DEF IngestMessage
  <1>7. ASSUME NEW t \in Threads, SyncSet(t), UNCHANGED coreVars  PROVE Stays
    BY <1>1, <1>7
  <1>8. Stays \/ \E t \in Threads : SyncSet(t) /\ D!SetActiveBinding(t, read[t])
    <2> HIDE DEF Stays
    <2>. QED  BY <1>4, <1>5, <1>6, <1>7 DEF LockStepOfB0, SyncSet
  <1>. QED  BY <1>3, <1>8

MarkedDelivered(m) == "delivered" \in marker[m]

\* A call counts as delivered once all its marks are there, and a batch is recovered only
\* if each of its events is known to have been accepted.
CallBacked(t) ==
    /\ calls[t].phase = "accepted" => \A m \in Ids(t) : MarkedDelivered(m)
    /\ job[t].stage \in {"accepted", "recover"} /\ ~job[t].failed
           => \A m \in Ids(t) \ job[t].todo : MarkedDelivered(m)
    /\ job[t].stage = "recover" => \A m \in job[t].todo : pendingMarks[m] # {}
OwnPending == \A m \in Msgs : pendingMarks[m] # {} => m \in pendingMarks[m]
LedgerInv ==
    /\ \A m \in core.delivered : MarkedDelivered(m)
    /\ \A t \in Threads : CallBacked(t)
    /\ OwnPending

LEMMA DeliveredMarkStays ==
  ASSUME BaseInv, NEW t \in Threads, Adapter(t), NEW m \in Msgs, MarkedDelivered(m)
  PROVE  MarkedDelivered(m)'
  <1>1. CASE UNCHANGED marker  BY <1>1 DEF MarkedDelivered
  <1>2. ASSUME NEW S, NEW k, Mark(S, k)  PROVE MarkedDelivered(m)'
    BY <1>2 DEF Mark, MarkedDelivered
  <1>3. ASSUME NEW n \in Msgs, ClearOne(t, n)  PROVE MarkedDelivered(m)'
    <2>1. CASE marker' = [marker EXCEPT ![n] = @ \ {"attempt"}]
      <3>1. marker'[m] = IF m = n THEN marker[m] \ {"attempt"} ELSE marker[m]
        BY <2>1 DEF BaseInv, RestOK
      <3>. QED  BY <3>1 DEF MarkedDelivered
    <2>. QED  BY <1>1, <1>3, <2>1 DEF ClearOne
  <1>4. CASE \E n \in Msgs : RecoverOne(t, n) \/ AttemptOne(t, n) \/ DeliveredOne(t, n)
    BY <1>1, <1>2, <1>4 DEF RecoverOne, AttemptOne, DeliveredOne
  <1>. QED
    BY <1>1, <1>3, <1>4 DEF Adapter, AdapterEnter, Recovered, PromptAccepted, PromptRefused,
       Refused, Accepted, Settle, adapterVars

\* A step of the adapter keeps the ledger, if what it settles and its own call are backed.
LEMMA LedgerKept ==
  ASSUME BaseInv, LedgerInv, NEW t \in Threads, Adapter(t),
         \A m \in core'.delivered : m \in core.delivered \/ MarkedDelivered(m)',
         CallBacked(t)', OwnPending'
  PROVE  LedgerInv'
  <1>1. core.delivered \subseteq Msgs  BY DEF BaseInv, CoreOK, D!TypeOK, D!Core
  <1>2. \A m \in core'.delivered : MarkedDelivered(m)'
    BY <1>1, DeliveredMarkStays DEF LedgerInv
  <1>3. ASSUME NEW u \in Threads, u # t  PROVE CallBacked(u)'
    <2>1. /\ D!Idle(u) /\ job[u].stage = "none" /\ calls'[u] = calls[u] /\ job'[u] = job[u]
      BY <1>3, AdapterStep
    <2>. QED  BY <2>1 DEF CallBacked, D!Idle
  <1>. QED  BY <1>2, <1>3 DEF LedgerInv

\* The call after a step of the adapter that moves no call.
LEMMA MovesNoCall ==
  ASSUME BaseInv, NEW t \in Threads, Calling(t), UNCHANGED calls
  PROVE  calls'[t].phase = "calling" /\ Ids(t)' = Ids(t)
  BY DEF Calling, Ids

LEMMA LedgerEnters ==
  ASSUME BaseInv, LedgerInv, NEW t \in Threads, AdapterEnter(t), Adapter(t)
  PROVE  LedgerInv'
  <1> DEFINE stage == IF \A m \in Ids(t) : pendingMarks[m] # {} THEN "recover" ELSE "attempt"
  <1>0. JobOK /\ UNCHANGED <<core, calls, pendingMarks>> /\ Job(t, stage, Ids(t), FALSE)
        /\ Calling(t)
    BY DEF BaseInv, AdapterEnter, coreVars
  <1>1. stage = "recover" => \A m \in Ids(t) : pendingMarks[m] # {}  OBVIOUS
  <1>2. stage # "accepted"  OBVIOUS
  <1> HIDE DEF stage
  <1>3. job'[t].stage = stage /\ job'[t].todo = Ids(t)  BY <1>0, JobIs
  <1>4. calls'[t].phase = "calling" /\ Ids(t)' = Ids(t)  BY <1>0, MovesNoCall
  <1>5. CallBacked(t)'  BY <1>0, <1>1, <1>2, <1>3, <1>4 DEF CallBacked
  <1>6. OwnPending'  BY <1>0 DEF LedgerInv, OwnPending
  <1>. QED  BY <1>0, <1>5, <1>6, LedgerKept

\* The adapter returns: an acceptance has all its marks.
LEMMA LedgerReturns ==
  ASSUME BaseInv, LedgerInv, NEW t \in Threads, Adapter(t),
         Recovered(t) \/ Refused(t) \/ Accepted(t)
  PROVE  LedgerInv'
  <1>0. /\ JobOK /\ CoreOK /\ Returned(t) /\ UNCHANGED marker
        /\ D!AdapterAccepts(t) \/ D!AdapterRejects(t)
    BY DEF BaseInv, Recovered, Refused, Accepted
  <1>1. job'[t].stage = "none"  BY <1>0, JobGone
  <1>2. /\ core' = core /\ Ids(t)' = Ids(t)
        /\ calls'[t].phase = IF D!AdapterAccepts(t) THEN "accepted" ELSE "rejected"
    BY <1>0, AcceptStep, RejectStep DEF Turns
  <1>3. ASSUME D!AdapterAccepts(t)  PROVE \A m \in Ids(t) : MarkedDelivered(m)
    <2>1. calls'[t].phase = "accepted"  BY <1>2, <1>3
    <2>2. ASSUME D!AdapterRejects(t)  PROVE FALSE
      <3>1. calls'[t].phase = "rejected"  BY <1>0, <2>2, RejectStep DEF Turns
      <3>. QED  BY <2>1, <3>1
    <2>3. job[t].stage \in {"accepted", "recover"} /\ ~job[t].failed /\ job[t].todo = {}
      BY <2>2 DEF Recovered, Refused, Accepted
    <2>. QED  BY <2>3 DEF LedgerInv, CallBacked
  <1>4. CallBacked(t)'
    <2>1. calls'[t].phase = "accepted" => \A m \in Ids(t) : MarkedDelivered(m)
      BY <1>2, <1>3
    <2>. QED  BY <1>0, <1>1, <1>2, <2>1 DEF CallBacked, MarkedDelivered
  <1>5. OwnPending'
    <2>1. CASE UNCHANGED pendingMarks  BY <2>1 DEF LedgerInv, OwnPending
    <2>2. CASE pendingMarks' = [m \in Msgs |-> IF m \in Ids(t) THEN Ids(t) ELSE pendingMarks[m]]
      BY <2>2 DEF LedgerInv, OwnPending
    <2>. QED  BY <2>1, <2>2 DEF Recovered, Refused, Accepted
  <1>. QED  BY <1>2, <1>4, <1>5, LedgerKept

LEMMA LedgerRecovers ==
  ASSUME BaseInv, LedgerInv, NEW t \in Threads, Adapter(t), NEW m \in Msgs, RecoverOne(t, m)
  PROVE  LedgerInv'
  <1>0. /\ JobOK /\ job[t].stage = "recover" /\ m \in job[t].todo /\ Calling(t)
        /\ UNCHANGED <<core, calls>> /\ job[t].todo \subseteq Msgs
        /\ pendingMarks \in [Msgs -> SUBSET Msgs]
    BY JobFacts DEF BaseInv, RestOK, RecoverOne, coreVars
  <1>1. calls'[t].phase = "calling" /\ Ids(t)' = Ids(t)  BY <1>0, MovesNoCall
  <1>2. PICK failed \in BOOLEAN :
          /\ Job(t, "recover", job[t].todo \ {m}, failed)
          /\ ~failed => ~job[t].failed /\ Mark(pendingMarks[m], "delivered")
    BY <1>0, JobFacts DEF RecoverOne
  <1>3. /\ job'[t].stage = "recover" /\ job'[t].todo = job[t].todo \ {m}
        /\ job'[t].failed = failed
    BY <1>0, <1>2, JobIs
  <1>4. \A n \in Msgs \ {m} : pendingMarks'[n] = pendingMarks[n]
    BY <1>0 DEF RecoverOne
  <1>5. OwnPending'
    <2>1. pendingMarks'[m] = pendingMarks[m] \/ pendingMarks'[m] = {}  BY <1>0 DEF RecoverOne
    <2>. QED  BY <1>4, <2>1 DEF LedgerInv, OwnPending
  <1>6. ~failed => \A n \in Ids(t) \ (job[t].todo \ {m}) : MarkedDelivered(n)'
    <2> SUFFICES ASSUME ~failed, NEW n \in Ids(t) \ (job[t].todo \ {m})
                 PROVE  MarkedDelivered(n)'
      OBVIOUS
    <2>1. CASE n = m
      <3>1. m \in pendingMarks[m]  BY <1>0 DEF LedgerInv, CallBacked, OwnPending
      <3>2. Mark(pendingMarks[m], "delivered")  BY <1>2
      <3>. QED  BY <2>1, <3>1, <3>2 DEF Mark, MarkedDelivered
    <2>2. CASE n # m
      <3>1. n \in Msgs /\ ~job[t].failed /\ n \in Ids(t) \ job[t].todo  BY <1>2, <2>2, JobFacts
      <3>2. MarkedDelivered(n)  BY <1>0, <3>1 DEF LedgerInv, CallBacked
      <3>. QED  BY <3>1, <3>2, DeliveredMarkStays
    <2>. QED  BY <2>1, <2>2
  <1>7. \A n \in job[t].todo \ {m} : pendingMarks'[n] # {}
    BY <1>0, <1>4 DEF LedgerInv, CallBacked
  <1>8. CallBacked(t)'  BY <1>1, <1>3, <1>6, <1>7 DEF CallBacked
  <1>. QED  BY <1>0, <1>5, <1>8, LedgerKept

LEMMA LedgerMarks ==
  ASSUME BaseInv, LedgerInv, NEW t \in Threads, Adapter(t), NEW m \in Msgs, DeliveredOne(t, m)
  PROVE  LedgerInv'
  <1>0. /\ JobOK /\ job[t].stage = "accepted" /\ m \in job[t].todo /\ Calling(t)
        /\ UNCHANGED <<core, calls, pendingMarks>>
    BY JobFacts DEF BaseInv, DeliveredOne, coreVars
  <1>1. calls'[t].phase = "calling" /\ Ids(t)' = Ids(t)  BY <1>0, MovesNoCall
  <1>2. PICK failed \in BOOLEAN :
          /\ Job(t, "accepted", job[t].todo \ {m}, failed)
          /\ ~failed => ~job[t].failed /\ Mark({m}, "delivered")
    BY <1>0, JobFacts DEF DeliveredOne
  <1>3. /\ job'[t].stage = "accepted" /\ job'[t].todo = job[t].todo \ {m}
        /\ job'[t].failed = failed
    BY <1>0, <1>2, JobIs
  <1>6. ~failed => \A n \in Ids(t) \ (job[t].todo \ {m}) : MarkedDelivered(n)'
    <2> SUFFICES ASSUME ~failed, NEW n \in Ids(t) \ (job[t].todo \ {m})
                 PROVE  MarkedDelivered(n)'
      OBVIOUS
    <2>1. CASE n = m
      <3>2. Mark({m}, "delivered")  BY <1>2
      <3>. QED  BY <2>1, <3>2 DEF Mark, MarkedDelivered
    <2>2. CASE n # m
      <3>1. n \in Msgs /\ ~job[t].failed /\ n \in Ids(t) \ job[t].todo  BY <1>2, <2>2, JobFacts
      <3>2. MarkedDelivered(n)  BY <1>0, <3>1 DEF LedgerInv, CallBacked
      <3>. QED  BY <3>1, <3>2, DeliveredMarkStays
    <2>. QED  BY <2>1, <2>2
  <1>7. OwnPending'  BY <1>0 DEF LedgerInv, OwnPending
  <1>8. CallBacked(t)'  BY <1>1, <1>3, <1>6 DEF CallBacked
  <1>. QED  BY <1>0, <1>7, <1>8, LedgerKept

LEMMA LedgerSettles ==
  ASSUME BaseInv, LedgerInv, NEW t \in Threads, Adapter(t), Settle(t)
  PROVE  LedgerInv'
  <1>0. CoreOK /\ UNCHANGED <<marker, pendingMarks, job>>
    BY DEF BaseInv, Settle, adapterVars
  <1>1. Settles(t)  BY <1>0, FinishStep DEF Settle
  <1>2. job'[t].stage = "none"
    <2>1. ~Calling(t)  BY <1>1 DEF Settles, Calling
    <2>. QED  BY <1>0, <2>1, JobFacts
  <1>3. \A m \in core'.delivered : m \in core.delivered \/ MarkedDelivered(m)'
    BY <1>0, <1>1 DEF Settles, LedgerInv, CallBacked, MarkedDelivered
  <1>4. calls'[t].phase = "none"  BY <1>1, NoCallFacts DEF Settles
  <1>5. CallBacked(t)'  BY <1>2, <1>4 DEF CallBacked
  <1>6. OwnPending'  BY <1>0 DEF LedgerInv, OwnPending
  <1>. QED  BY <1>3, <1>5, <1>6, LedgerKept

\* Prompting and the attempt marks, before and after, leave the ledger's marks alone.
LEMMA LedgerPrompts ==
  ASSUME BaseInv, LedgerInv, NEW t \in Threads, Adapter(t),
         \/ PromptAccepted(t) \/ PromptRefused(t)
         \/ \E m \in Msgs : AttemptOne(t, m) \/ ClearOne(t, m)
  PROVE  LedgerInv'
  <1>0. /\ JobOK /\ CoreOK /\ UNCHANGED pendingMarks /\ job[t].stage # "none" /\ Calling(t)
        /\ Ids(t) \ Ids(t) = {}
    BY JobFacts DEF BaseInv, PromptAccepted, PromptRefused, AttemptOne, ClearOne, ReadyToPrompt
  <1>1. OwnPending'  BY <1>0 DEF LedgerInv, OwnPending
  <1>2. CASE UNCHANGED coreVars
    <2>1. core' = core /\ calls'[t].phase = "calling" /\ Ids(t)' = Ids(t)
      BY <1>0, <1>2, MovesNoCall DEF coreVars
    <2>2. CASE PromptAccepted(t)
      <3>1. Job(t, "accepted", Ids(t), FALSE)  BY <2>2 DEF PromptAccepted
      <3>2. job'[t].stage = "accepted" /\ job'[t].todo = Ids(t)  BY <1>0, <3>1, JobIs
      <3>3. CallBacked(t)'  BY <2>1, <3>2 DEF CallBacked
      <3>. QED  BY <1>1, <2>1, <3>3, LedgerKept
    <2>3. CASE PromptRefused(t) \/ \E m \in Msgs : ClearOne(t, m)
      <3>1. PICK todo : Job(t, "refused", todo, FALSE)
        BY <2>3 DEF PromptRefused, ClearOne
      <3>2. job'[t].stage = "refused"  BY <1>0, <3>1, JobIs
      <3>3. CallBacked(t)'  BY <2>1, <3>2 DEF CallBacked
      <3>. QED  BY <1>1, <2>1, <3>3, LedgerKept
    <2>4. ASSUME NEW m \in Msgs, AttemptOne(t, m)  PROVE CallBacked(t)'
      <3>1. CASE Returned(t)
        <4>1. job'[t].stage = "none"  BY <1>0, <3>1, JobGone
        <4>. QED  BY <2>1, <4>1 DEF CallBacked
      <3>2. CASE Job(t, "attempt", job[t].todo \ {m}, FALSE)
        <4>1. job'[t].stage = "attempt"  BY <1>0, <3>2, JobIs
        <4>. QED  BY <2>1, <4>1 DEF CallBacked
      <3>. QED  BY <2>4, <3>1, <3>2 DEF AttemptOne
    <2>. QED  BY <1>1, <2>1, <2>2, <2>3, <2>4, LedgerKept
  <1>3. CASE D!AdapterRejects(t) /\ Returned(t)
    <2>1. job'[t].stage = "none"  BY <1>0, <1>3, JobGone
    <2>2. core' = core /\ calls'[t].phase = "rejected"  BY <1>0, <1>3, RejectStep DEF Turns
    <2>3. CallBacked(t)'  BY <2>1, <2>2 DEF CallBacked
    <2>. QED  BY <1>1, <2>2, <2>3, LedgerKept
  <1>. QED  BY <1>2, <1>3 DEF PromptAccepted, PromptRefused, AttemptOne, ClearOne

LEMMA LedgerStep == BaseInv /\ LedgerInv /\ [Next]_vars => LedgerInv'
  <1> SUFFICES ASSUME BaseInv, LedgerInv, [Next]_vars PROVE LedgerInv'  OBVIOUS
  <1>1. CASE UNCHANGED vars
    BY <1>1 DEF vars, coreVars, adapterVars, LedgerInv, CallBacked, OwnPending, MarkedDelivered, Ids
  <1>2. CASE ReadStep \/ LockStepOfB0
    <2>1. UNCHANGED <<marker, pendingMarks, job>>
      BY <1>2, OutsideStep DEF OutsideFrame, adapterVars
    <2>2. core'.delivered \subseteq core.delivered
      BY <1>2, LockCore, ReadTyped DEF coreVars
    <2>3. ASSUME NEW t \in Threads  PROVE CallBacked(t)'
      <3>1. CASE calls'[t] = calls[t]
        BY <2>1, <3>1 DEF LedgerInv, CallBacked, MarkedDelivered, Ids
      <3>2. CASE D!Idle(t) /\ calls'[t].phase = "calling"
        <4>1. job'[t].stage = "none"  BY <2>1, <3>2, JobFacts
        <4>. QED  BY <3>2, <4>1 DEF CallBacked
      <3>. QED  BY <1>2, <3>1, <3>2, OutsideStep
    <2>. QED  BY <2>1, <2>2, <2>3 DEF LedgerInv, OwnPending, MarkedDelivered
  <1>3. ASSUME NEW t \in Threads, Adapter(t)  PROVE LedgerInv'
    BY <1>3, LedgerEnters, LedgerReturns, LedgerRecovers, LedgerMarks, LedgerSettles,
       LedgerPrompts DEF Adapter
  <1>4. CASE Restart
    <2>1. pendingMarks' = [m \in Msgs |-> {}]  BY <1>4 DEF Restart
    <2>2. ASSUME NEW t \in Threads  PROVE CallBacked(t)'
      BY <1>4, RestartTyped, NoCallFacts DEF CallBacked, NoJob
    <2>. QED  BY <1>4, <2>1, <2>2, RestartTyped DEF LedgerInv, OwnPending
  <1>. QED  BY <1>1, <1>2, <1>3, <1>4, NextCases

LEMMA LedgerInit == Init => LedgerInv
  <1> SUFFICES ASSUME Init PROVE LedgerInv  OBVIOUS
  <1>1. core.delivered = {} /\ \A t \in Threads : D!Idle(t)
    BY NewCoreOK DEF Init, D!Init
  <1>2. \A t \in Threads : job[t].stage = "none"  BY NoJobTyped DEF Init
  <1>. QED  BY <1>1, <1>2 DEF Init, LedgerInv, CallBacked, OwnPending, D!Idle

-----------------------------------------------------------------------------
(* Under one binding version, whatever fails or crashes: no message is lost.  *)

PastSet == {"giveback", "rows", "fetch", "ingest", "flush"}

\* While the store has only ever had its first version, the core is at it as soon as the
\* poller has synchronised, no switch has displaced an event, and a delivery is of the
\* generation it was started in.
OneVersion ==
    /\ \A t \in Threads : read[t] = 1 /\ Handed(t) = {}
    /\ core.version = 0 \/ core.version = 1
    /\ core.version = 0 => Waiting = {}
    /\ \A t \in Threads : ~D!Idle(t) => calls[t].generation = core.generation
    /\ pc[Poller] \in PastSet => core.version = 1

Kept(m) == InCore(m) \/ Marked(m) \/ mail[m] = "taken"
SeenInv == \A m \in seen : Kept(m)

LEMMA SeenIsSeen == SeenInv <=> SeenIsKept
  BY DEF SeenInv, SeenIsKept, Kept, InCore, Waiting, Handed, Ids, D!Held

LEMMA HandedNone == ASSUME NEW t \in Threads PROVE Handed(t) = {} <=> handed[t] = {}
  BY IdsOfSome, NoCallFacts DEF Handed

\* What a locked section does to one version, when it switches no binding.
LEMMA OneSection ==
  ASSUME BaseInv, BaseInv', OneVersion, NEW S, Waits(S), core.version = 0 => S = {},
         \A u \in Threads : Handed(u)' \subseteq Handed(u), UNCHANGED read,
         calls' = calls \/ \E t \in Threads : Began(t),
         pc'[Poller] \in PastSet => pc[Poller] \in PastSet
  PROVE  /\ OneVersion'
         /\ \A m \in Msgs : InCore(m) \/ m \in S => InCore(m)'
  <1>1. /\ core'.version = core.version /\ core'.generation = core.generation
        /\ Waiting' = Waiting \cup S
    BY DEF Waits
  <1>2. \A u \in Threads : Handed(u)' = {}  BY DEF OneVersion
  <1>3. \A u \in Threads : ~D!Idle(u)' => calls'[u].generation = core'.generation
    <2>1. CASE calls' = calls  BY <1>1, <2>1 DEF OneVersion, D!Idle
    <2>2. ASSUME NEW t \in Threads, Began(t)
          PROVE  \A u \in Threads : ~D!Idle(u)' => calls'[u].generation = core'.generation
      BY <2>2 DEF Began, D!Idle
    <2>. QED  BY <2>1, <2>2
  <1>4. \A u \in Threads : Ids(u) \subseteq Ids(u)'
    <2>1. CASE calls' = calls  BY <2>1 DEF Ids
    <2>2. CASE \E t \in Threads : Began(t)  BY <2>2 DEF Began
    <2>. QED  BY <2>1, <2>2
  <1>5. \A m \in Msgs : InCore(m) \/ m \in S => InCore(m)'
    BY <1>1, <1>4 DEF InCore, OneVersion
  <1>6. OneVersion'  BY <1>1, <1>2, <1>3 DEF OneVersion
  <1>. QED  BY <1>5, <1>6

LEMMA OneUnmoved ==
  ASSUME OneVersion, UNCHANGED coreVars, \A t \in Threads : read'[t] = 1,
         pc'[Poller] \in PastSet => pc[Poller] \in PastSet \/ core.version = 1
  PROVE  OneVersion' /\ \A m \in Msgs : InCore(m)' <=> InCore(m)
  BY DEF OneVersion, coreVars, InCore, Waiting, Handed, Ids, D!Idle

LEMMA OneSet ==
  ASSUME BaseInv, BaseInv', OneVersion, NEW t \in Threads, SyncSet(t)
  PROVE  OneVersion' /\ \A m \in Msgs : InCore(m) => InCore(m)'
  <1>0. CoreOK /\ read' = read /\ read[t] = 1 /\ read[t] \in Versions
    BY DEF BaseInv, RestOK, SyncSet, OneVersion
  <1>1. CASE core.version = 1
    <2>1. UNCHANGED coreVars  BY <1>0, <1>1 DEF SyncSet
    <2>2. \A u \in Threads : read'[u] = 1  BY <1>0 DEF OneVersion
    <2>. QED  BY <1>1, <2>1, <2>2, OneUnmoved
  <1>2. CASE core.version # 1
    <2>1. core.version = 0 /\ Waiting = {}  BY <1>2 DEF OneVersion
    <2>2. D!SetActiveBinding(t, read[t])  BY <1>0, <1>2 DEF SyncSet
    <2>3. /\ calls' = calls /\ core'.version = 1 /\ Waiting' = {}
          /\ \A u \in Threads : Handed(u)' = IF u = t THEN Handed(u) \cup Waiting ELSE Handed(u)
      BY <1>0, <2>2, SwitchStep
    <2>4. \A u \in Threads : Handed(u)' = {} /\ Handed(u) = {}  BY <2>1, <2>3 DEF OneVersion
    <2>5. \A u \in Threads : D!Idle(u) /\ Ids(u) = {}  BY <1>0, <2>1, CallFacts
    <2>6. \A u \in Threads : D!Idle(u)'  BY <2>3, <2>5 DEF D!Idle
    <2>7. OneVersion'  BY <1>0, <2>3, <2>4, <2>6 DEF OneVersion
    <2>8. \A m \in Msgs : ~InCore(m)  BY <2>1, <2>4, <2>5 DEF InCore
    <2>. QED  BY <2>7, <2>8
  <1>. QED  BY <1>1, <1>2

LEMMA OneGiveBack ==
  ASSUME BaseInv, BaseInv', OneVersion, NEW t \in Threads, SyncGiveBack(t)
  PROVE  OneVersion' /\ \A m \in Msgs : InCore(m) => InCore(m)'
  <1>1. handed[t] = {}  BY HandedNone DEF OneVersion
  <1>2. UNCHANGED <<coreVars, read>> /\ At(t, "giveback")
        /\ Goto(t, IF t = Poller THEN "rows" ELSE "idle")
    BY <1>1 DEF SyncGiveBack
  <1>3. pc'[Poller] \in PastSet => pc[Poller] \in PastSet
    BY <1>2, ThreadStarts DEF At, Goto, PastSet, BaseInv, RestOK
  <1>4. \A u \in Threads : read'[u] = 1  BY <1>2 DEF OneVersion
  <1>. QED  BY <1>2, <1>3, <1>4, OneUnmoved

LEMMA OneFlush ==
  ASSUME BaseInv, BaseInv', OneVersion,
         PollFlush \/ \E s \in {"idle", "working"} : LiveStatus(s)
  PROVE  OneVersion' /\ \A m \in Msgs : InCore(m) => InCore(m)'
  <1>0. CoreOK /\ read' = read /\ pc \in [Threads -> Places]
    BY DEF BaseInv, RestOK, PollFlush, LiveStatus
  <1>1. /\ Waits({}) /\ handed' = handed
        /\ calls' = calls \/ \E u \in Threads : Began(u)
    BY <1>0, ThreadStarts, FlushStep, StatusStep DEF PollFlush, LiveStatus
  <1>2. \A u \in Threads : Handed(u)' \subseteq Handed(u)  BY <1>1 DEF Handed
  <1>3. pc'[Poller] \in PastSet => pc[Poller] \in PastSet
    BY <1>0, ThreadStarts DEF PollFlush, LiveStatus, Goto, PastSet
  <1>4. PICK S : S = {}  OBVIOUS
  <1>5. Waits(S)  BY <1>1, <1>4
  <1>. QED  BY <1>0, <1>1, <1>2, <1>3, <1>4, <1>5, OneSection

\* A message the poller ingests is known to the core, marked or claimed from then on.
LEMMA OneIngest ==
  ASSUME BaseInv, BaseInv', OneVersion, LedgerInv, NEW n \in Msgs, IngestMessage(n)
  PROVE  /\ OneVersion' /\ (n \notin seen => Kept(n)')
         /\ \A m \in Msgs : InCore(m) => InCore(m)'
  <1>0. /\ CoreOK /\ read' = read /\ pc' = pc /\ mail' = mail /\ marker' = marker
        /\ core.version = 1 /\ read[Poller] = 1 /\ read[Poller] \in Versions
    BY ThreadStarts DEF BaseInv, RestOK, IngestMessage, OneVersion, At, PastSet, adapterVars
  <1>1. CASE UNCHANGED coreVars /\ (n \in seen \/ Marked(n) \/ mail[n] = "taken")
    <2>1. OneVersion' /\ \A m \in Msgs : InCore(m)' <=> InCore(m)
      <3>1. \A u \in Threads : read'[u] = 1  BY <1>0 DEF OneVersion
      <3>. QED  BY <1>0, <1>1, <3>1, OneUnmoved
    <2>. QED  BY <1>0, <1>1, <2>1 DEF Kept, Marked
  <1>2. CASE D!Produce(Poller, EventFor(n, read[Poller]))
    <2> DEFINE e == EventFor(n, read[Poller])
    <2>1. e \in D!Events /\ e.id = n /\ e.version = 1  BY <1>0, EventTyped
    <2> HIDE DEF e
    <2>2. handed' = handed /\ D!Ingest(Poller, e)  BY <1>2 DEF D!Produce, e
    <2>3. handed' \in [Threads -> SUBSET D!Events]  BY <1>0, <2>2 DEF CoreOK, D!TypeOK
    <2>4. /\ calls' = calls \/ \E u \in Threads : Began(u)
          /\ \/ Waits({}) /\ (D!Stale(e) \/ e.id \in core.delivered)
             \/ Waits({e.id})
      BY <1>0, <2>1, <2>2, <2>3, ThreadStarts, IngestStep
    <2>5. ~D!Stale(e)  BY <1>0, <2>1 DEF D!Stale
    <2>6. \A u \in Threads : Handed(u)' \subseteq Handed(u)  BY <2>2 DEF Handed
    <2>7. PICK S : Waits(S) /\ (n \in S \/ n \in core.delivered)  BY <2>1, <2>4, <2>5
    <2>8. OneVersion' /\ \A m \in Msgs : InCore(m) \/ m \in S => InCore(m)'
      BY <1>0, <2>4, <2>6, <2>7, OneSection
    <2>9. n \in core.delivered => Marked(n)'
      BY <1>0 DEF LedgerInv, MarkedDelivered, Marked
    <2>. QED  BY <2>7, <2>8, <2>9 DEF Kept
  <1>. QED  BY <1>1, <1>2 DEF IngestMessage

LEMMA OneRead ==
  ASSUME BaseInv, OneVersion, db = 1, ReadStep
  PROVE  OneVersion' /\ \A m \in Msgs : InCore(m)' <=> InCore(m)
  <1>0. UNCHANGED coreVars /\ pc \in [Threads -> Places] /\ read \in [Threads -> Versions]
    BY ReadTyped DEF BaseInv, RestOK
  <1>1. \A t \in Threads : read'[t] = 1
    BY <1>0, ThreadStarts DEF ReadStep, SyncRead, PollRead, Fetch, IngestDone, PollEnd, ApiRebind, LiveRead,
       LiveRebind, LiveSkip, Send, LeaderTakes, OneVersion, threadVars
  <1>2. pc'[Poller] \in PastSet => pc[Poller] \in PastSet
    BY <1>0, ThreadStarts DEF ReadStep, SyncRead, PollRead, Fetch, IngestDone, PollEnd, ApiRebind, LiveRead,
       LiveRebind, LiveSkip, Send, LeaderTakes, threadVars, At, Goto, PastSet
  <1>. QED  BY <1>0, <1>1, <1>2, OneUnmoved

\* The adapter drops nothing: what it takes from the core carries a mark.
LEMMA AdapterKeeps ==
  ASSUME BaseInv, LedgerInv, NEW t \in Threads, Adapter(t), NEW m \in Msgs, InCore(m)
  PROVE  InCore(m)' \/ Marked(m)'
  <1>0. /\ CoreOK /\ handed' = handed
        /\ \A u \in Threads \ {t} : Ids(u)' = Ids(u)
    BY AdapterStep DEF BaseInv, Ids
  <1>1. CASE UNCHANGED coreVars  BY <1>1 DEF coreVars, InCore, Waiting, Handed, Ids
  <1>2. CASE D!AdapterAccepts(t) \/ D!AdapterRejects(t)
    <2>1. core' = core /\ Ids(t)' = Ids(t)  BY <1>0, <1>2, AcceptStep, RejectStep DEF Turns
    <2>. QED  BY <1>0, <2>1 DEF InCore, Waiting, Handed
  <1>3. CASE Settle(t)
    <2>1. Settles(t) /\ marker' = marker  BY <1>0, <1>3, FinishStep DEF Settle, adapterVars
    <2>2. ASSUME m \in Ids(t) \/ m \in Waiting  PROVE m \in Waiting' \/ Marked(m)'
      <3>1. m \in Ids(t) \cup core.delivered => Marked(m) \/ ~(calls[t].phase = "accepted")
        BY DEF LedgerInv, CallBacked, MarkedDelivered, Marked
      <3>2. m \in core.delivered => Marked(m)  BY DEF LedgerInv, MarkedDelivered, Marked
      <3>. QED  BY <2>1, <2>2, <3>1, <3>2 DEF Settles, Marked
    <2>. QED  BY <1>0, <2>2 DEF InCore, Handed
  <1>. QED
    BY <1>1, <1>2, <1>3 DEF Adapter, AdapterEnter, Recovered, PromptAccepted, PromptRefused,
       Refused, Accepted, RecoverOne, AttemptOne, ClearOne, DeliveredOne

LEMMA AdapterKeepsSeen ==
  ASSUME BaseInv, LedgerInv, SeenInv, NEW t \in Threads, Adapter(t)
  PROVE  SeenInv'
  <1>1. UNCHANGED <<seen, mail>> /\ seen \subseteq Msgs
    BY AdapterStep DEF AdapterFrame, BaseInv, RestOK
  <1>2. ASSUME NEW m \in seen  PROVE Kept(m)'
    <2>1. CASE InCore(m)  BY <1>1, <2>1, AdapterKeeps DEF Kept
    <2>2. CASE Marked(m) /\ ~InCore(m)
      <3>1. m \in Msgs \ Ids(t)  BY <1>1, <2>2 DEF InCore
      <3>. QED  BY <2>2, <3>1, MarksStay DEF Kept, Marked
    <2>3. CASE mail[m] = "taken"  BY <1>1, <2>3 DEF Kept
    <2>. QED  BY <2>1, <2>2, <2>3 DEF SeenInv, Kept
  <1>. QED  BY <1>1, <1>2 DEF SeenInv

LEMMA OneAdapter ==
  ASSUME BaseInv, OneVersion, NEW t \in Threads, Adapter(t)
  PROVE  OneVersion'
  <1>0. CoreOK /\ UNCHANGED <<read, pc, handed>> /\ core.version # 0
    BY AdapterStep, CallFacts DEF AdapterFrame, threadVars, BaseInv
  <1>1. /\ core'.version = core.version /\ core'.generation = core.generation
        /\ ~D!Idle(t)' => calls'[t].generation = calls[t].generation
        /\ \A u \in Threads \ {t} : D!Idle(u)'
    <2>1. \A u \in Threads \ {t} : D!Idle(u)'  BY AdapterStep DEF D!Idle
    <2>2. CASE UNCHANGED coreVars  BY <2>1, <2>2 DEF coreVars
    <2>3. CASE D!AdapterAccepts(t) \/ D!AdapterRejects(t)
      BY <1>0, <2>1, <2>3, AcceptStep, RejectStep DEF Turns
    <2>4. CASE Settle(t)
      <3>1. Settles(t)  BY <1>0, <2>4, FinishStep DEF Settle
      <3>. QED  BY <2>1, <3>1, NoCallFacts DEF Settles, D!Idle
    <2>. QED
      BY <2>2, <2>3, <2>4 DEF Adapter, AdapterEnter, Recovered, PromptAccepted, PromptRefused,
         Refused, Accepted, RecoverOne, AttemptOne, ClearOne, DeliveredOne
  <1>2. ~D!Idle(t)  BY AdapterStep
  <1>. QED  BY <1>0, <1>1, <1>2 DEF OneVersion, Handed

OneInv == db = 1 => OneVersion /\ SeenInv

LEMMA OneStep == BaseInv /\ LedgerInv /\ OneInv /\ [Next]_vars => OneInv'
  <1> SUFFICES ASSUME BaseInv, LedgerInv, OneInv, [Next]_vars, db' = 1
               PROVE  OneVersion' /\ SeenInv'
    BY DEF OneInv
  <1>0. BaseInv' /\ seen \subseteq Msgs  BY BaseStep DEF BaseInv, RestOK
  <1>1. CASE UNCHANGED vars
    BY <1>1 DEF vars, coreVars, adapterVars, threadVars, OneInv, OneVersion, SeenInv, Kept, InCore,
       Waiting, Handed, Ids, Marked, D!Idle
  <1>2. CASE ReadStep
    <2>1. db = 1
      BY <1>2 DEF BaseInv, RestOK, Versions, ReadStep, SyncRead, PollRead, Fetch, IngestDone, PollEnd,
         ApiRebind, LiveRead, LiveRebind, LiveSkip, Send, LeaderTakes
    <2>2. OneVersion' /\ \A m \in Msgs : InCore(m)' <=> InCore(m)
      BY <1>2, <2>1, OneRead DEF OneInv
    <2>3. UNCHANGED <<seen, marker>> /\ \A m \in Msgs : mail[m] = "taken" => mail'[m] = "taken"
      BY <1>2, ReadTyped DEF OutsideFrame, adapterVars
    <2>. QED  BY <1>0, <2>1, <2>2, <2>3 DEF OneInv, SeenInv, Kept, Marked
  <1>3. CASE LockStepOfB0
    <2>1. db = 1 /\ UNCHANGED <<mail, marker>>
      BY <1>3, LockTyped DEF OutsideFrame, adapterVars
    <2>2. ASSUME seen' = seen, \A m \in Msgs : InCore(m) => InCore(m)'  PROVE SeenInv'
      BY <1>0, <2>1, <2>2 DEF OneInv, SeenInv, Kept, Marked
    <2>3. ASSUME NEW n \in Msgs, IngestMessage(n)  PROVE OneVersion' /\ SeenInv'
      <3>1. /\ OneVersion' /\ (n \notin seen => Kept(n)')
            /\ \A m \in Msgs : InCore(m) => InCore(m)'
        BY <1>0, <2>1, <2>3, OneIngest DEF OneInv
      <3>2. seen' = seen \cup {n}  BY <2>3 DEF IngestMessage
      <3>3. \A m \in seen : Kept(m)'  BY <1>0, <2>1, <3>1 DEF OneInv, SeenInv, Kept, Marked
      <3>. QED  BY <3>1, <3>2, <3>3 DEF SeenInv
    <2>4. ASSUME NEW t \in Threads, SyncSet(t) \/ SyncGiveBack(t)  PROVE OneVersion' /\ SeenInv'
      <3>1. OneVersion' /\ \A m \in Msgs : InCore(m) => InCore(m)'
        BY <1>0, <2>1, <2>4, OneSet, OneGiveBack DEF OneInv
      <3>. QED  BY <2>2, <2>4, <3>1 DEF SyncSet, SyncGiveBack
    <2>5. ASSUME PollFlush \/ \E s \in {"idle", "working"} : LiveStatus(s)
          PROVE  OneVersion' /\ SeenInv'
      <3>1. OneVersion' /\ \A m \in Msgs : InCore(m) => InCore(m)'
        BY <1>0, <2>1, <2>5, OneFlush DEF OneInv
      <3>. QED  BY <2>2, <2>5, <3>1 DEF PollFlush, LiveStatus
    <2>. QED  BY <1>3, <2>3, <2>4, <2>5 DEF LockStepOfB0
  <1>4. ASSUME NEW t \in Threads, Adapter(t)  PROVE OneVersion' /\ SeenInv'
    <2>1. db = 1  BY <1>4, AdapterStep DEF AdapterFrame
    <2>. QED  BY <1>4, <2>1, AdapterKeepsSeen, OneAdapter DEF OneInv
  <1>5. CASE Restart
    <2>1. seen' = {} /\ pc' = Start  BY <1>5 DEF Restart
    <2>2. pc'[Poller] = "sync"  BY <2>1, ThreadStarts DEF Start
    <2>3. /\ core'.version = 0 /\ Waiting' = {}
          /\ \A t \in Threads : calls'[t] = D!NoCall /\ Handed(t)' = {} /\ read'[t] = 1
      BY <1>5, RestartTyped
    <2>4. \A t \in Threads : D!Idle(t)'  BY <2>3, NoCallFacts DEF D!Idle
    <2>. QED  BY <2>1, <2>2, <2>3, <2>4 DEF OneVersion, SeenInv, PastSet
  <1>. QED  BY <1>1, <1>2, <1>3, <1>4, <1>5, NextCases

LEMMA OneInit == Init => OneInv
  <1> SUFFICES ASSUME Init PROVE OneVersion /\ SeenInv  BY DEF OneInv
  <1>1. /\ core.version = 0 /\ Waiting = {}
        /\ \A t \in Threads : D!Idle(t) /\ Handed(t) = {}
    BY NewCoreOK DEF Init, D!Init
  <1>2. pc[Poller] = "sync"  BY ThreadStarts DEF Init, Start
  <1>. QED  BY <1>1, <1>2 DEF Init, OneVersion, SeenInv, PastSet

\* "Zero loss", while the scope keeps its first binding: whatever fails, crashes or is
\* retried, a message the coordinator will not look at again waits in the core, or carries
\* a durable mark, or was claimed.  With a second version it does not hold (b0_rebind_loses).
THEOREM NothingSeenIsLost == Spec => [](db = 1 => SeenIsKept)
  <1>1. Init => LedgerInv /\ OneInv  BY LedgerInit, OneInit
  <1>2. BaseInv /\ LedgerInv /\ OneInv /\ [Next]_vars => LedgerInv' /\ OneInv'
    BY LedgerStep, OneStep
  <1>3. OneInv => (db = 1 => SeenIsKept)  BY SeenIsSeen DEF OneInv
  <1>. QED  BY <1>1, <1>2, <1>3, MessagingTyped, PTL DEF Spec

-----------------------------------------------------------------------------
(* Under one version, and while nothing fails: one prompt for each message.   *)

Unprompted(m) == \A v \in Versions : prompts[m][v] = 0

\* A delivery under way carries messages never prompted, until its own prompt; and it
\* prompts when each of them carries a mark.
CallOnce(t) ==
    /\ job[t].stage # "recover" /\ (job[t].stage = "accepted" => ~job[t].failed)
    /\ (calls[t].phase = "calling" /\ job[t].stage # "accepted") \/ calls[t].phase = "rejected"
           => \A m \in Ids(t) : Unprompted(m)
    /\ job[t].stage = "attempt" => \A m \in Ids(t) \ job[t].todo : Marked(m)
NoPendingMarks == \A m \in Msgs : pendingMarks[m] = {}

\* What is prompted is marked, so no later tick or process takes it up again; in the core
\* it is only as long as the delivery that prompted it.
OnceInv ==
    /\ NoPendingMarks
    /\ \A t \in Threads : CallOnce(t)
    /\ \A m \in Msgs : Unprompted(m) \/ Marked(m)
    /\ \A m \in Msgs : InCore(m) => Unprompted(m) \/ \E t \in Threads : m \in Ids(t)
    /\ \A m \in Msgs, v \in Versions : prompts[m][v] <= 1

\* The steps of the adapter that do not prompt.
LEMMA OnceKept ==
  ASSUME BaseInv, OnceInv, NEW t \in Threads, Adapter(t), UNCHANGED <<pendingMarks, prompts>>,
         CallOnce(t)', \A m \in Msgs : Unprompted(m) \/ Marked(m)',
         \A m \in Msgs : InCore(m)' => Unprompted(m) \/ m \in Ids(t)'
  PROVE  OnceInv'
  <1>1. \A m \in Msgs : Unprompted(m)' <=> Unprompted(m)  BY DEF Unprompted
  <1>2. ASSUME NEW u \in Threads, u # t  PROVE CallOnce(u)'
    <2>1. /\ D!Idle(u) /\ job[u].stage = "none" /\ calls'[u] = calls[u] /\ job'[u] = job[u]
      BY <1>2, AdapterStep
    <2>. QED  BY <2>1 DEF CallOnce, D!Idle
  <1>. QED  BY <1>1, <1>2 DEF OnceInv, NoPendingMarks

\* Where a step moves no message of the core, the prompted ones are in its own call.
LEMMA OnceHolds ==
  ASSUME BaseInv, OnceInv, NEW t \in Threads, Adapter(t), Ids(t)' = Ids(t)
  PROVE  \A m \in Msgs : InCore(m)' => Unprompted(m) \/ m \in Ids(t)'
  <1>1. \A u \in Threads : u # t => Ids(u) = {}  BY AdapterStep
  <1>2. \A m \in Msgs : InCore(m)' => InCore(m)  BY AdapterHolds
  <1>. QED  BY <1>1, <1>2 DEF OnceInv

LEMMA OnceEnters ==
  ASSUME BaseInv, OnceInv, NEW t \in Threads, AdapterEnter(t), Adapter(t)
  PROVE  OnceInv'
  <1>0. /\ JobOK /\ CoreOK /\ UNCHANGED <<calls, pendingMarks, marker, prompts>> /\ Calling(t)
        /\ job[t].stage = "none" /\ Ids(t) # {} /\ Ids(t) \subseteq Msgs
    BY AdapterStep, CallFacts DEF BaseInv, AdapterEnter, coreVars
  <1>1. ~(\A m \in Ids(t) : pendingMarks[m] # {})  BY <1>0 DEF OnceInv, NoPendingMarks
  <1>2. Job(t, "attempt", Ids(t), FALSE)  BY <1>1 DEF AdapterEnter
  <1>3. job'[t].stage = "attempt" /\ job'[t].todo = Ids(t)  BY <1>0, <1>2, JobIs
  <1>4. calls'[t].phase = "calling" /\ Ids(t)' = Ids(t)  BY <1>0, MovesNoCall
  <1>5. \A m \in Ids(t) : Unprompted(m)  BY <1>0 DEF OnceInv, CallOnce, Calling
  <1>6. CallOnce(t)'  BY <1>0, <1>3, <1>4, <1>5 DEF CallOnce, Unprompted
  <1>7. \A m \in Msgs : Unprompted(m) \/ Marked(m)'  BY <1>0 DEF OnceInv, Marked
  <1>. QED  BY <1>0, <1>4, <1>6, <1>7, OnceHolds, OnceKept

LEMMA OnceReturns ==
  ASSUME BaseInv, OnceInv, NEW t \in Threads, Adapter(t),
         Recovered(t) \/ Refused(t) \/ Accepted(t)
  PROVE  OnceInv'
  <1>0. /\ JobOK /\ CoreOK /\ Returned(t) /\ UNCHANGED <<marker, prompts>>
        /\ job[t].stage # "recover" /\ (job[t].stage = "accepted" => ~job[t].failed)
    BY DEF BaseInv, Recovered, Refused, Accepted, OnceInv, CallOnce
  <1>1. job'[t].stage = "none"  BY <1>0, JobGone
  <1>2. UNCHANGED pendingMarks /\ (D!AdapterAccepts(t) \/ (D!AdapterRejects(t) /\ job[t].stage = "refused"))
    BY <1>0 DEF Recovered, Refused, Accepted
  <1>3. Ids(t)' = Ids(t)  BY <1>0, <1>2, AcceptStep, RejectStep DEF Turns
  <1>4. CallOnce(t)'
    <2>1. CASE D!AdapterAccepts(t)
      <3>1. calls'[t].phase = "accepted"  BY <1>0, <2>1, AcceptStep DEF Turns
      <3>. QED  BY <1>1, <3>1 DEF CallOnce
    <2>2. CASE D!AdapterRejects(t) /\ job[t].stage = "refused"
      <3>1. calls'[t].phase = "rejected" /\ calls[t].phase = "calling"
        BY <1>0, <2>2, RejectStep DEF Turns
      <3>2. \A m \in Ids(t) : Unprompted(m)  BY <2>2, <3>1 DEF OnceInv, CallOnce
      <3>. QED  BY <1>0, <1>1, <1>3, <3>1, <3>2 DEF CallOnce, Unprompted
    <2>. QED  BY <1>2, <2>1, <2>2
  <1>5. \A m \in Msgs : Unprompted(m) \/ Marked(m)'  BY <1>0 DEF OnceInv, Marked
  <1>. QED  BY <1>0, <1>2, <1>3, <1>4, <1>5, OnceHolds, OnceKept

\* The prompt itself: its messages were never prompted, and all carry a mark.
LEMMA OncePrompts ==
  ASSUME BaseInv, OnceInv, NEW t \in Threads, Adapter(t), PromptAccepted(t)
  PROVE  OnceInv'
  <1>0. /\ JobOK /\ RestOK /\ Ids(t) \subseteq Msgs /\ Calling(t) /\ Prompted(t)
        /\ UNCHANGED <<coreVars, marker, pendingMarks>>
        /\ Job(t, "accepted", Ids(t), FALSE) /\ job[t].stage = "attempt" /\ job[t].todo = {}
    BY JobFacts DEF BaseInv, PromptAccepted, ReadyToPrompt
  <1>1. job'[t].stage = "accepted" /\ ~job'[t].failed  BY <1>0, JobIs
  <1>2. calls'[t].phase = "calling" /\ Ids(t)' = Ids(t) /\ \A m \in Msgs : InCore(m)' => InCore(m)
    BY <1>0, MovesNoCall, AdapterHolds DEF coreVars
  <1>3. \A m \in Ids(t) : Unprompted(m) /\ Marked(m)
    BY <1>0 DEF OnceInv, CallOnce, Calling
  <1>4. \A m \in Msgs \ Ids(t) : prompts'[m] = prompts[m]  BY <1>0, PromptTyped
  <1>5. \A m \in Msgs \ Ids(t) : Unprompted(m)' <=> Unprompted(m)
    BY <1>4 DEF Unprompted
  <1>6. ASSUME NEW m \in Msgs, NEW v \in Versions  PROVE prompts'[m][v] <= 1
    <2>1. CASE m \in Ids(t)
      <3>1. prompts[m][v] = 0 /\ prompts[m][db] = 0  BY <1>0, <1>3, <2>1 DEF Unprompted, RestOK
      <3>2. prompts'[m][db] = 1  BY <1>0, <2>1, <3>1, PromptTyped
      <3>3. v # db => prompts'[m][v] = prompts[m][v]  BY <1>0, PromptTyped
      <3>. QED  BY <3>1, <3>2, <3>3
    <2>2. CASE m \notin Ids(t)  BY <1>4, <2>2 DEF OnceInv
    <2>. QED  BY <2>1, <2>2
  <1>7. ASSUME NEW u \in Threads  PROVE CallOnce(u)'
    <2>1. CASE u = t  BY <1>1, <1>2, <2>1 DEF CallOnce
    <2>2. CASE u # t
      <3>1. D!Idle(u) /\ job[u].stage = "none" /\ calls'[u] = calls[u] /\ job'[u] = job[u]
        BY <2>2, AdapterStep
      <3>. QED  BY <3>1 DEF CallOnce, D!Idle
    <2>. QED  BY <2>1, <2>2
  <1>8. \A m \in Msgs : Unprompted(m)' \/ Marked(m)'
    BY <1>0, <1>3, <1>5 DEF OnceInv, Marked
  <1>9. \A m \in Msgs : InCore(m)' => Unprompted(m)' \/ m \in Ids(t)'
    <2>1. \A u \in Threads : u # t => Ids(u) = {}  BY AdapterStep
    <2>. QED  BY <1>2, <1>5, <2>1 DEF OnceInv
  <1>. QED  BY <1>0, <1>6, <1>7, <1>8, <1>9 DEF OnceInv, NoPendingMarks

\* A refused prompt took no effect, as none timed out; its marks are taken back.
LEMMA OnceRefuses ==
  ASSUME BaseInv, OnceInv, NEW t \in Threads, Adapter(t), UNCHANGED faults, RestOK',
         PromptRefused(t) \/ \E m \in Msgs : ClearOne(t, m)
  PROVE  OnceInv'
  <1>0. /\ JobOK /\ Ids(t) \subseteq Msgs /\ Calling(t) /\ UNCHANGED <<coreVars, pendingMarks>>
        /\ job[t].stage # "accepted"
    BY JobFacts DEF BaseInv, PromptRefused, ReadyToPrompt, ClearOne
  <1>1. ~Fault("timeout")  BY DEF Fault, RestOK, BaseInv
  <1>2. UNCHANGED prompts  BY <1>1 DEF PromptRefused, ClearOne
  <1>3. PICK todo : Job(t, "refused", todo, FALSE)  BY DEF PromptRefused, ClearOne
  <1>4. job'[t].stage = "refused"  BY <1>0, <1>3, JobIs
  <1>5. calls'[t].phase = "calling" /\ Ids(t)' = Ids(t)  BY <1>0, MovesNoCall DEF coreVars
  <1>6. \A m \in Ids(t) : Unprompted(m)  BY <1>0 DEF OnceInv, CallOnce, Calling
  <1>7. CallOnce(t)'  BY <1>2, <1>4, <1>5, <1>6 DEF CallOnce, Unprompted
  <1>8. \A m \in Msgs : Unprompted(m) \/ Marked(m)'
    <2>1. \A m \in Msgs \ Ids(t) : marker[m] \subseteq marker'[m]  BY MarksStay
    <2>. QED  BY <1>6, <2>1 DEF OnceInv, Marked
  <1>. QED  BY <1>0, <1>2, <1>5, <1>7, <1>8, OnceHolds, OnceKept

LEMMA OnceMarks ==
  ASSUME BaseInv, OnceInv, NEW t \in Threads, Adapter(t), UNCHANGED faults, RestOK',
         NEW m \in Msgs, AttemptOne(t, m) \/ DeliveredOne(t, m)
  PROVE  OnceInv'
  <1>0. /\ JobOK /\ RestOK /\ Ids(t) \subseteq Msgs /\ Calling(t) /\ m \in job[t].todo
        /\ UNCHANGED <<pendingMarks, prompts>> /\ job[t].todo \subseteq Ids(t)
    BY JobFacts DEF BaseInv, AttemptOne, DeliveredOne
  <1>1. ~Fault("mark")  BY DEF Fault, RestOK, BaseInv
  <1>2. /\ UNCHANGED coreVars
        /\ \/ /\ job[t].stage = "attempt" /\ Mark({m}, "attempt")
              /\ Job(t, "attempt", job[t].todo \ {m}, FALSE)
           \/ /\ job[t].stage = "accepted" /\ Mark({m}, "delivered")
              /\ Job(t, "accepted", job[t].todo \ {m}, job[t].failed)
    BY <1>1 DEF AttemptOne, DeliveredOne
  <1>3. calls'[t].phase = "calling" /\ Ids(t)' = Ids(t)
    BY <1>0, <1>2, MovesNoCall DEF coreVars
  <1>4. Marked(m)' /\ \A n \in Msgs : Marked(n) => Marked(n)'
    <2>1. ASSUME NEW k, Mark({m}, k)
          PROVE  Marked(m)' /\ \A n \in Msgs : Marked(n) => Marked(n)'
      BY <2>1 DEF Mark, Marked
    <2>. QED  BY <1>2, <2>1
  <1>5. /\ job'[t].stage = job[t].stage /\ job'[t].todo = job[t].todo \ {m}
        /\ job[t].stage = "accepted" => job'[t].failed = job[t].failed
    <2>1. CASE Job(t, "attempt", job[t].todo \ {m}, FALSE) /\ job[t].stage = "attempt"
      <3>1. job'[t].stage = "attempt" /\ job'[t].todo = job[t].todo \ {m}
        BY <1>0, <2>1 DEF Job, JobOK
      <3>. QED  BY <2>1, <3>1
    <2>2. CASE Job(t, "accepted", job[t].todo \ {m}, job[t].failed) /\ job[t].stage = "accepted"
      <3>1. /\ job'[t].stage = "accepted" /\ job'[t].todo = job[t].todo \ {m}
            /\ job'[t].failed = job[t].failed
        BY <1>0, <2>2, JobIs
      <3>. QED  BY <2>2, <3>1
    <2>. QED  BY <1>2, <2>1, <2>2
  <1>6. CallOnce(t)'
    <2>1. job[t].stage \in {"attempt", "accepted"} /\ (job[t].stage = "accepted" => ~job[t].failed)
      BY <1>2 DEF OnceInv, CallOnce
    <2>2. job[t].stage = "attempt" => \A n \in Ids(t) : Unprompted(n)
      BY <1>0 DEF OnceInv, CallOnce, Calling
    <2>3. job[t].stage = "attempt" => \A n \in Ids(t) \ (job[t].todo \ {m}) : Marked(n)'
      BY <1>0, <1>4 DEF OnceInv, CallOnce
    <2>4. \A n \in Msgs : Unprompted(n)' <=> Unprompted(n)  BY <1>0 DEF Unprompted
    <2>. QED  BY <1>0, <1>3, <1>5, <2>1, <2>2, <2>3, <2>4 DEF CallOnce
  <1>7. \A n \in Msgs : Unprompted(n) \/ Marked(n)'  BY <1>4 DEF OnceInv
  <1>. QED  BY <1>0, <1>3, <1>6, <1>7, OnceHolds, OnceKept

\* A settled delivery takes the messages it prompted out of the core.
LEMMA OnceSettles ==
  ASSUME BaseInv, OnceInv, OneVersion, NEW t \in Threads, Adapter(t), Settle(t)
  PROVE  OnceInv'
  <1>0. CoreOK /\ UNCHANGED <<marker, pendingMarks, job, prompts>> /\ handed' = handed
    BY AdapterStep DEF BaseInv, Settle, adapterVars
  <1>1. Settles(t) /\ ~D!Idle(t)  BY <1>0, AdapterStep, FinishStep DEF Settle
  <1>2. job'[t].stage = "none"
    <2>1. ~Calling(t)  BY <1>1 DEF Settles, Calling
    <2>. QED  BY <1>0, <2>1, JobFacts
  <1>3. calls'[t].phase = "none" /\ Ids(t)' = {}  BY <1>1, NoCallFacts DEF Settles, Ids
  <1>4. CallOnce(t)'  BY <1>2, <1>3 DEF CallOnce
  <1>5. \A u \in Threads : u # t => Ids(u) = {} /\ Ids(u)' = {}
    BY AdapterStep DEF Ids
  <1>6. \A u \in Threads : Handed(u)' = {}  BY <1>0 DEF OneVersion, Handed
  <1>7. ASSUME NEW m \in Msgs, InCore(m)'  PROVE Unprompted(m)
    <2>1. m \in Waiting'  BY <1>3, <1>5, <1>6, <1>7 DEF InCore
    <2>2. CASE calls[t].phase = "accepted"
      <3>1. calls[t].generation = core.generation  BY <1>1 DEF OneVersion
      <3>2. m \in Waiting /\ m \notin Ids(t)  BY <1>1, <2>1, <2>2, <3>1 DEF Settles
      <3>. QED  BY <1>5, <3>2 DEF OnceInv, InCore
    <2>3. CASE calls[t].phase # "accepted"
      <3>1. calls[t].phase = "rejected" /\ m \in Waiting \cup Ids(t)
        BY <1>1, <2>1, <2>3 DEF Settles
      <3>2. \A n \in Ids(t) : Unprompted(n)  BY <3>1 DEF OnceInv, CallOnce
      <3>. QED  BY <1>5, <3>1, <3>2 DEF OnceInv, InCore
    <2>. QED  BY <2>2, <2>3
  <1>8. \A m \in Msgs : Unprompted(m) \/ Marked(m)'  BY <1>0 DEF OnceInv, Marked
  <1>. QED  BY <1>0, <1>4, <1>7, <1>8, OnceKept

LEMMA OnceAdapter ==
  ASSUME BaseInv, OnceInv, OneVersion, NEW t \in Threads, Adapter(t), UNCHANGED faults
  PROVE  OnceInv'
  <1>1. RestOK' /\ ~(\E m \in Msgs : RecoverOne(t, m))
    BY AdapterStep DEF BaseInv, RecoverOne, OnceInv, CallOnce
  <1>. QED
    BY <1>1, OnceEnters, OnceReturns, OncePrompts, OnceRefuses, OnceMarks, OnceSettles DEF Adapter

\* Outside the adapter only unmarked messages enter the core, and those were not prompted.
LEMMA OnceOutside ==
  ASSUME BaseInv, OnceInv, ReadStep \/ LockStepOfB0
  PROVE  OnceInv'
  <1>1. UNCHANGED <<marker, pendingMarks, job, prompts>>
    BY OutsideStep DEF OutsideFrame, adapterVars
  <1>2. \A m \in Msgs : (Unprompted(m)' <=> Unprompted(m)) /\ (Marked(m)' <=> Marked(m))
    BY <1>1 DEF Unprompted, Marked
  <1>3. \A m \in Msgs : InCore(m)' => InCore(m) \/ Unprompted(m)
    <2>1. CASE ReadStep
      BY <2>1, ReadTyped DEF coreVars, InCore, Waiting, Handed, Ids
    <2>2. CASE LockStepOfB0  BY <2>2, LockHolds DEF OnceInv
    <2>. QED  BY <2>1, <2>2
  <1>4. ASSUME NEW m \in Msgs, InCore(m)', ~Unprompted(m)
        PROVE  \E t \in Threads : m \in Ids(t) /\ calls'[t] = calls[t] /\ ~D!Idle(t)
    <2>1. PICK t \in Threads : m \in Ids(t)  BY <1>3, <1>4 DEF OnceInv
    <2>2. ~D!Idle(t)  BY <2>1, CallFacts DEF BaseInv
    <2>. QED  BY <2>1, <2>2, OutsideStep
  <1>5. \A m \in Msgs : InCore(m)' => Unprompted(m)' \/ \E t \in Threads : m \in Ids(t)'
    BY <1>2, <1>4 DEF Ids
  <1>6. ASSUME NEW t \in Threads  PROVE CallOnce(t)'
    <2>1. CASE calls'[t] = calls[t]
      <3>1. Ids(t)' = Ids(t) /\ Ids(t) \subseteq Msgs  BY <2>1, JobFacts DEF Ids
      <3>. QED  BY <1>1, <1>2, <2>1, <3>1 DEF OnceInv, CallOnce
    <2>2. CASE D!Idle(t) /\ calls'[t].phase = "calling"
      <3>1. job'[t].stage = "none"  BY <1>1, <2>2, JobFacts
      <3>2. \A u \in Threads : Ids(u) = {}
        <4>1. LockStepOfB0
          BY <2>2, ReadTyped DEF coreVars, D!Idle
        <4>2. PICK u \in Threads : calls' = calls \/ Began(u)  BY <4>1, LockTyped
        <4>3. Began(u)  BY <2>2, <4>2 DEF D!Idle
        <4>. QED  BY <4>3 DEF Began
      <3>3. \A m \in Msgs : InCore(m)' => Unprompted(m)  BY <1>4, <3>2
      <3>4. \A m \in Ids(t)' : m \in Msgs /\ InCore(m)'
        <4>1. BaseInv'  BY OutsideStep
        <4>2. Ids(t)' \subseteq Msgs  BY <4>1, IdsAreIds, CallEvents DEF BaseInv, CoreOK, D!TypeOK, Ids
        <4>. QED  BY <4>2 DEF InCore
      <3>. QED  BY <1>2, <3>1, <3>3, <3>4, <2>2 DEF CallOnce
    <2>. QED  BY <2>1, <2>2, OutsideStep
  <1>. QED  BY <1>1, <1>2, <1>5, <1>6 DEF OnceInv, NoPendingMarks

FaultFree == db = 1 /\ faults = 0 => OnceInv

LEMMA OnceStep == BaseInv /\ OneInv /\ FaultFree /\ [Next]_vars => FaultFree'
  <1> SUFFICES ASSUME BaseInv, OneInv, FaultFree, [Next]_vars, db' = 1, faults' = 0
               PROVE  OnceInv'
    BY DEF FaultFree
  <1>1. CASE UNCHANGED vars
    BY <1>1 DEF vars, coreVars, adapterVars, bounds, FaultFree, OnceInv, CallOnce, NoPendingMarks,
       Unprompted, Marked, InCore, Waiting, Handed, Ids
  <1>2. CASE ReadStep \/ LockStepOfB0
    <2>1. faults = 0  BY <1>2, OutsideStep DEF OutsideFrame, bounds
    <2>2. CASE LockStepOfB0  BY <1>2, <2>1, <2>2, LockTyped, OnceOutside DEF FaultFree
    <2>3. CASE ReadStep
      <3>1. db = 1
        BY <2>3 DEF BaseInv, RestOK, Versions, ReadStep, SyncRead, PollRead, Fetch, IngestDone, PollEnd,
           ApiRebind, LiveRead, LiveRebind, LiveSkip, Send, LeaderTakes
      <3>. QED  BY <2>1, <2>3, <3>1, OnceOutside DEF FaultFree
    <2>. QED  BY <1>2, <2>2, <2>3
  <1>3. ASSUME NEW t \in Threads, Adapter(t)  PROVE OnceInv'
    <2>1. db = 1  BY <1>3, AdapterStep DEF AdapterFrame
    <2>2. faults = 0 /\ faults' = faults
      <3>1. CASE UNCHANGED bounds  BY <3>1 DEF bounds
      <3>2. ASSUME NEW kind, Fault(kind)  PROVE FALSE
        BY <3>2 DEF Fault, BaseInv, RestOK
      <3>. QED
        BY <1>3, <3>1, <3>2 DEF Adapter, AdapterEnter, Recovered, PromptAccepted, PromptRefused,
           Refused, Accepted, RecoverOne, AttemptOne, ClearOne, DeliveredOne, Settle
    <2>. QED  BY <1>3, <2>1, <2>2, OnceAdapter DEF FaultFree, OneInv
  <1>4. CASE Restart
    <2>1. /\ UNCHANGED <<db, marker, prompts, faults>>
          /\ pendingMarks' = [m \in Msgs |-> {}]
      BY <1>4 DEF Restart
    <2>2. \A t \in Threads : CallOnce(t)'
      BY <1>4, RestartTyped, NoCallFacts DEF CallOnce, NoJob
    <2>3. \A m \in Msgs : ~InCore(m)'  BY <1>4, RestartTyped DEF InCore
    <2>. QED  BY <2>1, <2>2, <2>3 DEF FaultFree, OnceInv, NoPendingMarks, Unprompted, Marked
  <1>. QED  BY <1>1, <1>2, <1>3, <1>4, NextCases

LEMMA OnceInit == Init => FaultFree
  <1> SUFFICES ASSUME Init PROVE OnceInv  BY DEF FaultFree
  <1>1. \A t \in Threads : D!Idle(t)  BY NewCoreOK DEF Init, D!Init
  <1>2. \A t \in Threads : job[t].stage = "none"  BY NoJobTyped DEF Init
  <1>3. \A t \in Threads : CallOnce(t)  BY <1>1, <1>2 DEF CallOnce, D!Idle
  <1>. QED  BY <1>3 DEF Init, OnceInv, NoPendingMarks, Unprompted

\* While the scope keeps its first binding, however often the process dies: the leader is
\* prompted once for a message, as long as no mark fails and no prompt times out.
THEOREM OnePrompt == Spec => [](db = 1 => PromptedOnce)
  <1>1. Init => LedgerInv /\ OneInv /\ FaultFree  BY LedgerInit, OneInit, OnceInit
  <1>2. BaseInv /\ LedgerInv /\ OneInv /\ FaultFree /\ [Next]_vars
            => LedgerInv' /\ OneInv' /\ FaultFree'
    BY LedgerStep, OneStep, OnceStep
  <1>3. FaultFree => (db = 1 => PromptedOnce)  BY DEF FaultFree, OnceInv, PromptedOnce
  <1>. QED  BY <1>1, <1>2, <1>3, MessagingTyped, PTL DEF Spec

-----------------------------------------------------------------------------
(* A Team session's work.                                                    *)

Routes == {"none", "team_agent", "context_pack", "local_lead"}
ConsultRows == [ state : Asked \cup {"none", "invalidated", "expired"},
                 target : Targets \cup {Nobody}, answer : Answers \cup {Nobody} ]
WorkHistories == [ item : Items \cup {Nobody}, given : SUBSET Answers, sent : SUBSET Bodies,
                   route : Routes, discarded : BOOLEAN ]
Steps == { "idle", "pack", "route", "consult", "create", "freeze", "send", "record",
           "complete", "delete" }
RequestRows == [ at : Steps, replies : BOOLEAN, work : 0..MaxWorks, target : Targets \cup {Nobody},
                 body : Bodies \cup {Nobody}, token : Tokens ]

TeamTypes ==
    /\ inbox \in [Items -> [state : {"open", "claimed", "done"}, token : Tokens]]
    /\ lapsed \subseteq Tokens /\ sent \in [Works -> Bodies \cup {Nobody}]
    /\ row = Nobody \/ row \in WorkRows
    /\ consults \in [Works -> ConsultRows]
    /\ evidence \in [Works -> Routes]
    /\ session \in [auth : BOOLEAN, target : Targets \cup {Nobody}, live : SUBSET Targets]
    /\ worker = Nobody \/ worker \in [item : Items, token : Tokens]
    /\ request \in RequestRows
    /\ answering = Nobody \/
       answering \in [work : Works, target : Targets \cup {Nobody}, answer : Answers]
    /\ history \in [Works -> WorkHistories]
    /\ teamFaults \in 0..MaxTeamFaults

\* What a text says agrees with the route it goes: what the local agent gave, or a pack.
FromSource(route, body, given, item) ==
    /\ route = "local_lead" => body \in given
    /\ route = "context_pack" => body \in Packs
    /\ route = "team_agent" => Kind[item] = "social"

\* Of the work h that one reply s, with the evidence e, may be kept of at the Hub.
WorkOK(h, s, e) ==
    /\ h.item = Nobody => h.sent = {} /\ ~h.discarded
    /\ \A a, b \in h.sent : a = b
    /\ h.sent = {} <=> h.route = "none"
    /\ \A a \in h.sent : FromSource(h.route, a, h.given, h.item)
    /\ s # Nobody => s \in h.sent
    /\ e # "none" => e = h.route

\* The local item x is the work h, and freezes what h sent.
RowOK(x, h) ==
    /\ x.item = h.item /\ ~h.discarded
    /\ h.sent # {} => x.response \in h.sent /\ x.route = h.route
    /\ x.response # Nobody =>
          /\ x.state = "responding" /\ x.route # "none"
          /\ FromSource(x.route, x.response, h.given, x.item)
    /\ x.route = "context_pack" => x.pack \in Packs
    /\ x.route = "team_agent" => Kind[x.item] = "social"

\* A request that replies has the lock, which the worker cannot have, and its work stays.
LockOK ==
    /\ request.at \in {"freeze", "send", "record", "complete", "delete"} => request.replies
    /\ request.at = "idle" => ~request.replies
    /\ request.at # "idle" => request.work \in Works /\ ItemOf(request.work) # Nobody
    /\ request.replies => HasWork(request.work) /\ worker = Nobody

\* Works are numbered as they come; only the last of an item can be one not thrown away.
WorksOK ==
    /\ \A w \in Works : WorkOK(history[w], sent[w], evidence[w])
    /\ \E n \in 0..MaxWorks : {w \in Works : ItemOf(w) # Nobody} = 1..n
    /\ \A v, w \in Works : ItemOf(v) = ItemOf(w) /\ v # w =>
          ItemOf(v) = Nobody \/ history[v].discarded \/ history[w].discarded
    /\ row # Nobody => RowOK(row, history[row.work])

\* A work is at hand until its item is done or it is thrown away; the worker's is not done.
OpenOK ==
    /\ \A w \in Works : ItemOf(w) # Nobody /\ ~history[w].discarded =>
          HasWork(w) \/ inbox[ItemOf(w)].state = "done"
    /\ worker # Nobody => inbox[worker.item].state # "done"
    /\ \A i \in Items : inbox[i].state = "done" =>
          \E w \in Works : ItemOf(w) = i /\ sent[w] # Nobody /\ evidence[w] # "none"

ConsultOK ==
    \A w \in Works : /\ consults[w].state # "none" => HasWork(w)
                     /\ consults[w].state = "responded" => consults[w].answer \in history[w].given

\* What a request has done by the time it stands where it stands.
RequestOK(q) ==
    HasWork(q.work) =>
        /\ q.at = "route" => row.pack # Nobody
        /\ q.at \in {"consult", "create"} => row.route = "local_lead"
        /\ q.at \in {"freeze", "send", "record", "complete", "delete"} => row.route # "none"
        /\ q.at = "send" => row.response = q.body /\ q.body # Nobody
        /\ q.at \in {"record", "complete", "delete"} => sent[q.work] # Nobody
        /\ q.at \in {"complete", "delete"} => evidence[q.work] # "none"
        /\ q.at = "delete" => inbox[row.item].state = "done"

TeamInv ==
    /\ TeamTypes /\ LockOK /\ WorksOK /\ OpenOK /\ ConsultOK /\ RequestOK(request)

LEMMA TeamConstants ==
  /\ Nobody \notin Items /\ Nobody \notin Targets /\ Nobody \notin Answers /\ Nobody \notin Packs
  /\ Nobody \notin AllPacks /\ Nobody \notin Bodies /\ Nobody \notin WorkRows
  /\ Kind \in [Items -> {"social", "snapshot", "project"}]
  /\ MaxWorks \in Nat /\ MaxTokens \in Nat /\ MaxTeamFaults \in Nat
  BY TeamAssumption DEF AllPacks, Bodies

LEMMA TeamInitTypes == TeamInit => TeamTypes
  BY TeamConstants DEF TeamInit, TeamTypes, Works, Tokens, ConsultRows, NoConsult, WorkHistories, NoWork,
     Routes, RequestRows, NoRequest, Steps

\* The token of a claim that the Hub gives is a natural number.
LEMMA NextTokenIsNew ==
  ASSUME TeamTypes, NEW i \in Items PROVE NextToken \in Nat
  <1>1. UsedTokens \subseteq 0..MaxTokens /\ UsedTokens # {}
    BY DEF TeamTypes, UsedTokens, Tokens
  <1>2. \E t \in UsedTokens : \A u \in UsedTokens : u <= t
    <2> DEFINE M == {MaxTokens - t : t \in UsedTokens}
    <2>1. \A t \in UsedTokens : t \in Nat /\ MaxTokens - t \in Nat  BY <1>1, TeamConstants
    <2>2. M \subseteq Nat /\ M # {}  BY <1>1, <2>1
    <2>3. \E m \in M : \A n \in M : <<n, m>> \notin OpToRel(<, Nat)
      <3> HIDE DEF M
      <3>. QED  BY <2>2, NatLessThanWellFounded, WFMin
    <2>4. PICK t \in UsedTokens : \A u \in UsedTokens : ~(MaxTokens - u < MaxTokens - t)
      BY <2>1, <2>2, <2>3 DEF OpToRel
    <2>5. \A u \in UsedTokens : u <= t  BY <2>1, <2>4, TeamConstants
    <2>. QED  BY <2>5
  <1>3. \A t \in UsedTokens : t \in Nat  BY <1>1, TeamConstants
  <1>. QED  BY <1>2, <1>3 DEF NextToken

LEMMA ConsultRowIs ==
  ASSUME NEW c \in ConsultRows
  PROVE  /\ \A s \in Asked \cup {"none", "invalidated", "expired"} :
               [c EXCEPT !.state = s] \in ConsultRows
         /\ \A a \in Answers : [c EXCEPT !.state = "responded", !.answer = a] \in ConsultRows
         /\ Invalidated(c) \in ConsultRows
         /\ [c EXCEPT !.state = "claimed"] \in ConsultRows
         /\ [c EXCEPT !.state = "expired"] \in ConsultRows
  BY DEF ConsultRows, Asked, Invalidated

LEMMA HistoryIs ==
  ASSUME NEW h \in WorkHistories
  PROVE  /\ \A i \in Items : [h EXCEPT !.item = i] \in WorkHistories
         /\ \A a \in Answers : [h EXCEPT !.given = @ \cup {a}] \in WorkHistories
         /\ \A b \in Bodies, r \in Routes :
               [h EXCEPT !.sent = @ \cup {b}, !.route = r] \in WorkHistories
         /\ [h EXCEPT !.discarded = TRUE] \in WorkHistories
  BY DEF WorkHistories

\* A request stays a request wherever it goes.
LEMMA RequestIs ==
  ASSUME TeamTypes
  PROVE  /\ \A at \in Steps : [request EXCEPT !.at = at] \in RequestRows
         /\ NoRequest \in RequestRows
         /\ \A w \in Works, t \in Targets \cup {Nobody}, b \in BOOLEAN :
               [NoRequest EXCEPT !.at = "pack", !.replies = b, !.work = w, !.target = t] \in RequestRows
         /\ \A b \in Bodies, t \in Tokens :
               [request EXCEPT !.at = "send", !.token = t, !.body = b] \in RequestRows
         /\ request.at \in Steps /\ request.work \in 0..MaxWorks /\ request.replies \in BOOLEAN
  <1>1. NoRequest \in RequestRows
    BY TeamConstants DEF RequestRows, NoRequest, Steps, Tokens
  <1>2. \A w \in Works, t \in Targets \cup {Nobody}, b \in BOOLEAN :
           [NoRequest EXCEPT !.at = "pack", !.replies = b, !.work = w, !.target = t] \in RequestRows
    <2> SUFFICES ASSUME NEW w \in Works, NEW t \in Targets \cup {Nobody}, NEW b \in BOOLEAN
                 PROVE  [NoRequest EXCEPT !.at = "pack", !.replies = b, !.work = w, !.target = t]
                           \in RequestRows
      OBVIOUS
    <2>1. "pack" \in Steps /\ w \in 0..MaxWorks /\ 0 \in Tokens
      BY TeamConstants DEF Steps, Works, Tokens
    <2>2. CASE b = TRUE  BY <2>1, <2>2 DEF RequestRows, NoRequest
    <2>3. CASE b = FALSE  BY <2>1, <2>3 DEF RequestRows, NoRequest
    <2>. QED  BY <2>2, <2>3
  <1>3. request \in RequestRows  BY DEF TeamTypes
  <1>4. \A at \in Steps : [request EXCEPT !.at = at] \in RequestRows
    BY <1>3 DEF RequestRows
  <1>5. \A b \in Bodies, t \in Tokens :
           [request EXCEPT !.at = "send", !.token = t, !.body = b] \in RequestRows
    BY <1>3 DEF RequestRows, Steps
  <1>6. request.at \in Steps /\ request.work \in 0..MaxWorks /\ request.replies \in BOOLEAN
    BY <1>3 DEF RequestRows
  <1>. QED  BY <1>1, <1>2, <1>4, <1>5, <1>6

LEMMA RowIs ==
  ASSUME NEW x \in WorkRows
  PROVE  /\ \A t \in Tokens : [x EXCEPT !.token = t] \in WorkRows
         /\ \A p \in AllPacks : [x EXCEPT !.pack = p] \in WorkRows
         /\ \A r \in Routes : [x EXCEPT !.route = r] \in WorkRows
         /\ \A b \in Bodies : [x EXCEPT !.response = b, !.state = "responding"] \in WorkRows
         /\ x.work \in Works /\ x.item \in Items /\ x.token \in Tokens /\ x.route \in Routes
         /\ x.pack \in AllPacks \cup {Nobody} /\ x.response \in Bodies \cup {Nobody}
         /\ x # Nobody
  BY TeamConstants DEF WorkRows, Routes

\* Proceed and Leave, and what the request's step leaves alone.
LEMMA RequestMoves ==
  ASSUME TeamTypes, request' \in RequestRows, row' = Nobody \/ row' \in WorkRows,
         consults' \in [Works -> ConsultRows], evidence' \in [Works -> Routes],
         history' \in [Works -> WorkHistories], sent' \in [Works -> Bodies \cup {Nobody}],
         inbox' \in [Items -> [state : {"open", "claimed", "done"}, token : Tokens]],
         teamFaults' \in 0..MaxTeamFaults,
         UNCHANGED <<lapsed, session, worker, answering>>
  PROVE  TeamTypes'
  BY DEF TeamTypes

LEMMA ReadWorkTypes == ASSUME TeamTypes, NEW b \in BOOLEAN, ReadWork(b) PROVE TeamTypes'
  <1>1. request' \in RequestRows
    <2>1. row.work \in Works /\ session.target \in Targets \cup {Nobody}
      BY RowIs DEF TeamTypes, ReadWork
    <2>. QED  BY <2>1, RequestIs DEF ReadWork
  <1>. QED  BY <1>1 DEF ReadWork, requestFrame, TeamTypes

LEMMA AttachPackTypes == ASSUME TeamTypes, AttachPack PROVE TeamTypes'
  <1>1. request' \in RequestRows
    BY RequestIs DEF AttachPack, Proceed, Leave, Steps
  <1>2. row' = Nobody \/ row' \in WorkRows
    <2>1. row = Nobody \/ row \in WorkRows  BY DEF TeamTypes
    <2>2. CASE row' = row  BY <2>1, <2>2
    <2>3. CASE row # Nobody /\ \E pack \in AllPacks : row' = [row EXCEPT !.pack = pack]
      BY <2>1, <2>3, RowIs
    <2>. QED  BY <2>2, <2>3 DEF AttachPack, HasWork
  <1>. QED  BY <1>1, <1>2 DEF AttachPack, requestFrame, TeamTypes

LEMMA RouteIs == \A kind, pack : Route(kind, pack) \in Routes \ {"none"}
  BY DEF Route, Routes

LEMMA AttachRoutingTypes == ASSUME TeamTypes, AttachRouting PROVE TeamTypes'
  <1>1. request' \in RequestRows
    BY RequestIs DEF AttachRouting, Routed, Proceed, Leave, Steps
  <1>2. row' = Nobody \/ row' \in WorkRows
    <2>1. row = Nobody \/ row \in WorkRows  BY DEF TeamTypes
    <2>2. CASE row' = row  BY <2>1, <2>2
    <2>3. CASE row # Nobody /\ \E route \in Routes : row' = [row EXCEPT !.route = route]
      BY <2>1, <2>3, RowIs
    <2>4. row # Nobody => row.route \in Routes  BY <2>1, RowIs
    <2>. QED  BY <2>2, <2>3, <2>4, RouteIs DEF AttachRouting, HasWork
  <1>. QED  BY <1>1, <1>2 DEF AttachRouting, requestFrame, TeamTypes

LEMMA CheckConsultTypes == ASSUME TeamTypes, CheckConsult PROVE TeamTypes'
  <1>1. request' \in RequestRows
    BY RequestIs DEF CheckConsult, Proceed, Leave, Steps
  <1>2. consults' \in [Works -> ConsultRows]
    <2>1. consults \in [Works -> ConsultRows]  BY DEF TeamTypes
    <2>2. CASE consults' = consults  BY <2>1, <2>2
    <2>3. CASE consults' = [consults EXCEPT ![request.work] = Invalidated(consults[request.work])]
      <3>1. CASE request.work \in Works  BY <2>1, <2>3, <3>1, ConsultRowIs
      <3>2. CASE request.work \notin Works  BY <2>1, <2>3, <3>2
      <3>. QED  BY <3>1, <3>2
    <2>. QED  BY <2>2, <2>3 DEF CheckConsult
  <1>. QED  BY <1>1, <1>2 DEF CheckConsult, requestFrame, TeamTypes

LEMMA CreateConsultTypes == ASSUME TeamTypes, CreateConsult PROVE TeamTypes'
  <1>1. request' \in RequestRows
    BY RequestIs DEF CreateConsult, Proceed, Leave, Steps
  <1>2. request.target \in Targets \cup {Nobody}  BY DEF TeamTypes, RequestRows
  <1>3. [state |-> "pending", target |-> request.target, answer |-> Nobody] \in ConsultRows
    BY <1>2 DEF ConsultRows, Asked
  <1>4. consults' \in [Works -> ConsultRows]
    BY <1>3 DEF TeamTypes, CreateConsult
  <1>. QED  BY <1>1, <1>4 DEF CreateConsult, requestFrame, TeamTypes

LEMMA FreezeReplyTypes == ASSUME TeamTypes, FreezeReply PROVE TeamTypes'
  <1>1. PICK body \in Bodies :
          IF HasWork(request.work) /\ Allowed(request.work, body)
             /\ row.response \in {Nobody, body}
          THEN /\ row' = [row EXCEPT !.response = body, !.state = "responding"]
               /\ request' = [request EXCEPT !.at = "send", !.token = row.token,
                                              !.body = body]
          ELSE Leave /\ UNCHANGED row
    BY DEF FreezeReply
  <1>2. row = Nobody \/ row \in WorkRows  BY DEF TeamTypes
  <1>3. row' = Nobody \/ row' \in WorkRows
    <2>1. CASE row' = row  BY <1>2, <2>1
    <2>2. CASE row # Nobody /\ row' = [row EXCEPT !.response = body, !.state = "responding"]
      BY <1>2, <2>2, RowIs
    <2>. QED  BY <1>1, <2>1, <2>2 DEF HasWork
  <1>4. request' \in RequestRows
    <2>1. CASE request' = NoRequest  BY <2>1, RequestIs
    <2>2. CASE row # Nobody /\ request' = [request EXCEPT !.at = "send", !.token = row.token,
                                                          !.body = body]
      BY <1>2, <2>2, RowIs, RequestIs
    <2>. QED  BY <1>1, <2>1, <2>2 DEF HasWork, Leave
  <1>. QED  BY <1>3, <1>4 DEF FreezeReply, requestFrame, TeamTypes

LEMMA SendReplyTypes == ASSUME TeamTypes, LockOK, WorksOK, RequestOK(request), SendReply PROVE TeamTypes'
  <1>1. request' \in RequestRows
    BY RequestIs DEF SendReply, Proceed, Leave, Steps
  <1>2. /\ request.work \in Works /\ row \in WorkRows /\ row.work = request.work
        /\ row.response = request.body /\ request.body \in Bodies /\ row.route \in Routes
    BY RowIs DEF SendReply, Stands, LockOK, RequestOK, HasWork, TeamTypes
  <1>3. history' \in [Works -> WorkHistories]
    <2>1. history' = [history EXCEPT ![request.work] =
                         [history[request.work] EXCEPT !.sent = @ \cup {request.body},
                                                       !.route = row.route]]
      BY DEF SendReply
    <2>2. history \in [Works -> WorkHistories]  BY DEF TeamTypes
    <2>. QED  BY <1>2, <2>1, <2>2, HistoryIs
  <1>4. sent' \in [Works -> Bodies \cup {Nobody}]
    BY <1>2 DEF SendReply, TeamTypes
  <1>5. teamFaults' \in 0..MaxTeamFaults
    BY TeamConstants DEF SendReply, TeamTypes, TeamFault
  <1>. QED  BY <1>1, <1>3, <1>4, <1>5 DEF SendReply, TeamTypes

LEMMA RecordEvidenceTypes ==
  ASSUME TeamTypes, LockOK, WorksOK, RequestOK(request), RecordEvidence PROVE TeamTypes'
  <1>1. request' \in RequestRows
    BY RequestIs DEF RecordEvidence, Proceed, Steps
  <1>2. request.work \in Works /\ row \in WorkRows /\ row.route \in Routes
    BY RowIs DEF RecordEvidence, Stands, LockOK, HasWork, TeamTypes
  <1>3. evidence' \in [Works -> Routes]  BY <1>2 DEF RecordEvidence, TeamTypes
  <1>. QED  BY <1>1, <1>3 DEF RecordEvidence, requestFrame, TeamTypes

LEMMA CompleteItemTypes ==
  ASSUME TeamTypes, LockOK, WorksOK, RequestOK(request), CompleteItem PROVE TeamTypes'
  <1>1. request' \in RequestRows
    BY RequestIs DEF CompleteItem, Proceed, Leave, Steps
  <1>2. row \in WorkRows /\ row.item \in Items
    BY RowIs DEF CompleteItem, Stands, LockOK, HasWork, TeamTypes
  <1>3. inbox' \in [Items -> [state : {"open", "claimed", "done"}, token : Tokens]]
    BY <1>2 DEF CompleteItem, TeamTypes
  <1>4. teamFaults' \in 0..MaxTeamFaults
    BY TeamConstants DEF CompleteItem, TeamTypes, TeamFault
  <1>. QED  BY <1>1, <1>3, <1>4 DEF CompleteItem, TeamTypes

LEMMA DeleteWorkTypes ==
  ASSUME TeamTypes, DeleteWork PROVE TeamTypes'
  <1>1. request' \in RequestRows  BY RequestIs DEF DeleteWork, Leave
  <1>2. NoConsult \in ConsultRows  BY DEF NoConsult, ConsultRows
  <1>3. consults' \in [Works -> ConsultRows]  BY <1>2 DEF DeleteWork, TeamTypes
  <1>. QED  BY <1>1, <1>3 DEF DeleteWork, requestFrame, TeamTypes

LEMMA NextWorkIsNew ==
  ASSUME TeamTypes, WorksOK, NextWork <= MaxWorks
  PROVE  /\ NextWork \in Works /\ ItemOf(NextWork) = Nobody
         /\ {w \in Works : ItemOf(w) # Nobody} = 1 .. NextWork - 1
  <1>1. PICK n \in 0..MaxWorks : {w \in Works : ItemOf(w) # Nobody} = 1..n  BY DEF WorksOK
  <1>2. Cardinality(1..n) = n
    <2>1. n \in Int /\ 1 \in Int /\ (1 > n => n = 0)  BY <1>1, TeamConstants
    <2>. QED  BY <2>1, FS_Interval
  <1>3. {w \in Works : history[w].item # Nobody} = 1..n  BY <1>1 DEF ItemOf
  <1>4. NextWork = 1 + Cardinality(1..n)  BY <1>3, Zenon DEF NextWork
  <1>5. NextWork = n + 1  BY <1>1, <1>2, <1>4, TeamConstants
  <1>. QED  BY <1>1, <1>5, TeamConstants DEF Works

LEMMA PollStoreTypes == ASSUME TeamTypes, WorksOK, PollStore PROVE TeamTypes'
  <1>1. worker \in [item : Items, token : Tokens] /\ worker' = Nobody
    BY DEF TeamTypes, PollStore
  <1>2. CASE row # Nobody
    <2>1. row \in WorkRows /\ worker.token \in Tokens  BY <1>1, <1>2 DEF TeamTypes
    <2>2. row' = row \/ row' = [row EXCEPT !.token = worker.token]  BY <1>2 DEF PollStore
    <2>3. [row EXCEPT !.token = worker.token] \in WorkRows  BY <2>1, RowIs
    <2>4. row' \in WorkRows  BY <2>1, <2>2, <2>3
    <2>. QED  BY <1>1, <1>2, <2>4 DEF PollStore, TeamTypes
  <1>3. CASE row = Nobody
    <2>1. NextWork \in Works  BY <1>3, NextWorkIsNew DEF PollStore
    <2>2. row' \in WorkRows
      BY <1>1, <1>3, <2>1 DEF PollStore, WorkRows
    <2>3. history' \in [Works -> WorkHistories]
      <3>1. history' = [history EXCEPT ![NextWork] =
                           [history[NextWork] EXCEPT !.item = worker.item]]
        BY <1>3 DEF PollStore
      <3>2. worker.item \in Items  BY <1>1, <1>3 DEF PollStore
      <3>3. history[NextWork] \in WorkHistories  BY <2>1 DEF TeamTypes
      <3>4. [history[NextWork] EXCEPT !.item = worker.item] \in WorkHistories
        BY <3>2, <3>3, HistoryIs
      <3>. QED  BY <3>1, <3>4 DEF TeamTypes
    <2>. QED  BY <1>1, <1>3, <2>2, <2>3 DEF PollStore, TeamTypes
  <1>. QED  BY <1>2, <1>3

\* A step of a consult, of the human, of the targets or of time, that leaves the works alone.
Outside ==
    /\ UNCHANGED <<inbox, sent, row, evidence, worker, request>>
    /\ \A w \in Works : /\ consults'[w].state # "none" => consults[w].state # "none"
                        /\ consults'[w].state = "responded" =>
                              consults'[w].answer = consults[w].answer /\ consults[w].state = "responded"
    /\ UNCHANGED history

LEMMA InvalidatedIs ==
  ASSUME NEW c \in ConsultRows
  PROVE  /\ Invalidated(c).state # "none" => c.state # "none"
         /\ Invalidated(c).state = "responded" => Invalidated(c) = c
  BY DEF Invalidated, Asked, ConsultRows

LEMMA LeaseLapsesOut == ASSUME TeamTypes, LeaseLapses PROVE TeamTypes' /\ Outside
  <1>1. TeamTypes'  BY DEF LeaseLapses, TeamTypes, UsedTokens
  <1>2. Outside  BY DEF LeaseLapses, Outside
  <1>. QED  BY <1>1, <1>2

LEMMA ClaimConsultOut == ASSUME TeamTypes, NEW w \in Works, ClaimConsult(w) PROVE TeamTypes' /\ Outside
  <1>1. consults' \in [Works -> ConsultRows] /\ consults \in [Works -> ConsultRows]
    BY ConsultRowIs DEF TeamTypes, ClaimConsult
  <1>2. TeamTypes'  BY <1>1 DEF ClaimConsult, consultFrame, TeamTypes
  <1>3. Outside  BY <1>1 DEF ClaimConsult, consultFrame, Outside, ConsultRows
  <1>. QED  BY <1>2, <1>3

LEMMA EndConsultOut == ASSUME TeamTypes, NEW w \in Works, EndConsult(w) PROVE TeamTypes' /\ Outside
  <1>1. consults' \in [Works -> ConsultRows] /\ consults \in [Works -> ConsultRows]
    BY ConsultRowIs DEF TeamTypes, EndConsult
  <1>2. TeamTypes'  BY <1>1 DEF EndConsult, consultFrame, TeamTypes
  <1>3. Outside  BY <1>1, InvalidatedIs DEF EndConsult, consultFrame, Outside
  <1>. QED  BY <1>2, <1>3

LEMMA ExpireConsultOut == ASSUME TeamTypes, NEW w \in Works, ExpireConsult(w) PROVE TeamTypes' /\ Outside
  <1>1. consults' \in [Works -> ConsultRows] /\ consults \in [Works -> ConsultRows]
    BY ConsultRowIs DEF TeamTypes, ExpireConsult
  <1>2. TeamTypes'  BY <1>1 DEF ExpireConsult, consultFrame, TeamTypes
  <1>3. Outside  BY <1>1 DEF ExpireConsult, consultFrame, Outside, ConsultRows
  <1>. QED  BY <1>2, <1>3

LEMMA CheckAnswerOut ==
  ASSUME TeamTypes, NEW w \in Works, NEW a \in Answers, CheckAnswer(w, a) PROVE TeamTypes' /\ Outside
  <1>1. TeamTypes'  BY DEF CheckAnswer, consultFrame, TeamTypes, ConsultRows
  <1>2. Outside  BY DEF CheckAnswer, consultFrame, Outside
  <1>. QED  BY <1>1, <1>2

LEMMA SelectTargetOut ==
  ASSUME TeamTypes, NEW t \in Targets \cup {Nobody}, SelectTarget(t) PROVE TeamTypes' /\ Outside
  <1>1. consults' \in [Works -> ConsultRows] /\ consults \in [Works -> ConsultRows]
    BY ConsultRowIs DEF TeamTypes, SelectTarget
  <1>2. TeamTypes'  BY <1>1 DEF SelectTarget, consultFrame, TeamTypes
  <1>3. Outside  BY <1>1, InvalidatedIs DEF SelectTarget, consultFrame, Outside
  <1>. QED  BY <1>2, <1>3

LEMMA TargetDiesOut ==
  ASSUME TeamTypes, NEW t \in Targets, TargetDies(t) PROVE TeamTypes' /\ Outside
  <1>1. TeamTypes'  BY DEF TargetDies, consultFrame, TeamTypes
  <1>2. Outside  BY DEF TargetDies, consultFrame, Outside
  <1>. QED  BY <1>1, <1>2

LEMMA SignInOut == ASSUME TeamTypes, SignInExpires \/ SignIn PROVE TeamTypes' /\ Outside
  <1>1. Outside  BY DEF SignInExpires, SignIn, consultFrame, Outside
  <1>2. session' \in [auth : BOOLEAN, target : Targets \cup {Nobody}, live : SUBSET Targets]
    <2>1. session \in [auth : BOOLEAN, target : Targets \cup {Nobody}, live : SUBSET Targets]
      BY DEF TeamTypes
    <2>2. CASE session' = [session EXCEPT !.auth = FALSE]  BY <2>1, <2>2
    <2>3. CASE session' = [session EXCEPT !.auth = TRUE]  BY <2>1, <2>3
    <2>. QED  BY <2>2, <2>3 DEF SignInExpires, SignIn
  <1>3. teamFaults' \in 0..MaxTeamFaults
    BY TeamConstants DEF SignInExpires, SignIn, TeamFault, TeamTypes
  <1>. QED  BY <1>1, <1>2, <1>3 DEF SignInExpires, SignIn, consultFrame, TeamTypes

LEMMA OutsideKeeps == ASSUME TeamInv, TeamTypes', Outside PROVE TeamInv'
  <1>1. LockOK'  BY DEF TeamInv, Outside, LockOK, HasWork, ItemOf
  <1>2. WorksOK'  BY DEF TeamInv, Outside, WorksOK, ItemOf
  <1>3. OpenOK'  BY DEF TeamInv, Outside, OpenOK, ItemOf, HasWork
  <1>4. ConsultOK'  BY DEF TeamInv, Outside, ConsultOK, HasWork
  <1>5. RequestOK(request)'  BY DEF TeamInv, Outside, RequestOK, HasWork
  <1>. QED  BY <1>1, <1>2, <1>3, <1>4, <1>5 DEF TeamInv

\* A text that agreed with its source does so when the agent gives another answer.
LEMMA SourceGrows ==
  ASSUME NEW r, NEW b, NEW G, NEW i, FromSource(r, b, G, i), NEW H, G \subseteq H
  PROVE  FromSource(r, b, H, i)
  BY DEF FromSource

LEMMA WriteAnswerKeeps == ASSUME TeamInv, WriteAnswer PROVE TeamInv'
  <1> DEFINE w == answering.work
             a == answering.answer
  <1>1. CASE UNCHANGED <<consults, history>>
    <2>1. TeamTypes'  BY <1>1 DEF WriteAnswer, consultFrame, TeamInv, TeamTypes
    <2>2. Outside  BY <1>1 DEF WriteAnswer, consultFrame, Outside
    <2>. QED  BY <2>1, <2>2, OutsideKeeps
  <1>2. CASE /\ consults[w].state \in {"pending", "claimed"}
             /\ consults' = [consults EXCEPT ![w].state = "responded", ![w].answer = a]
             /\ history' = [history EXCEPT ![w].given = @ \cup {a}]
    <2>1. /\ w \in Works /\ a \in Answers /\ consults \in [Works -> ConsultRows]
          /\ history \in [Works -> WorkHistories]
      BY DEF WriteAnswer, TeamInv, TeamTypes
    <2>2. [consults[w] EXCEPT !.state = "responded", !.answer = a] \in ConsultRows
      BY <2>1, ConsultRowIs
    <2>3. consults' \in [Works -> ConsultRows]  BY <1>2, <2>1, <2>2
    <2>4. [history[w] EXCEPT !.given = @ \cup {a}] \in WorkHistories  BY <2>1, HistoryIs
    <2>5. history' \in [Works -> WorkHistories]  BY <1>2, <2>1, <2>4
    <2>6. TeamTypes'
      <3> HIDE DEF w, a
      <3>. QED  BY <2>3, <2>5 DEF WriteAnswer, consultFrame, TeamInv, TeamTypes
    <2>7. \A v \in Works : /\ history'[v].item = history[v].item /\ history'[v].sent = history[v].sent
                           /\ history'[v].route = history[v].route
                           /\ history'[v].discarded = history[v].discarded
                           /\ history[v].given \subseteq history'[v].given
      BY <1>2, <2>1 DEF WorkHistories
    <2>8. UNCHANGED <<inbox, lapsed, sent, row, evidence, worker, request>>
      BY DEF WriteAnswer, consultFrame
    <2>9. row # Nobody => row.work \in Works  BY RowIs DEF TeamInv, TeamTypes
    <2>10. LockOK'  BY <2>7, <2>8 DEF TeamInv, LockOK, HasWork, ItemOf
    <2>11. WorksOK'
      <3>1. ASSUME NEW v \in Works PROVE WorkOK(history[v], sent[v], evidence[v])'
        <4>1. WorkOK(history[v], sent[v], evidence[v])  BY DEF TeamInv, WorksOK
        <4>2. \A b \in history[v].sent :
                 FromSource(history[v].route, b, history'[v].given, history[v].item)
          BY <2>7, <4>1, SourceGrows DEF WorkOK
        <4>. QED  BY <2>7, <2>8, <4>1, <4>2 DEF WorkOK
      <3>2. row # Nobody => RowOK(row, history'[row.work])
        <4> SUFFICES ASSUME row # Nobody PROVE RowOK(row, history'[row.work])  OBVIOUS
        <4>1. RowOK(row, history[row.work])  BY DEF TeamInv, WorksOK
        <4>2. row.response # Nobody =>
                 FromSource(row.route, row.response, history'[row.work].given, row.item)
          BY <2>7, <2>9, <4>1, SourceGrows DEF RowOK
        <4>. QED  BY <2>7, <2>9, <4>1, <4>2 DEF RowOK
      <3>3. \E n \in 0..MaxWorks : {v \in Works : ItemOf(v)' # Nobody} = 1..n
        <4>1. {v \in Works : ItemOf(v)' # Nobody} = {v \in Works : ItemOf(v) # Nobody}
          BY <2>7 DEF ItemOf
        <4>. QED  BY <4>1 DEF TeamInv, WorksOK
      <3>4. \A u, v \in Works : ItemOf(u)' = ItemOf(v)' /\ u # v =>
               ItemOf(u)' = Nobody \/ history'[u].discarded \/ history'[v].discarded
        BY <2>7 DEF TeamInv, WorksOK, ItemOf
      <3>. QED  BY <2>8, <3>1, <3>2, <3>3, <3>4 DEF WorksOK
    <2>12. OpenOK'  BY <2>7, <2>8 DEF TeamInv, OpenOK, ItemOf, HasWork
    <2>13. ConsultOK'
      <3>1. \A v \in Works : v # w => consults'[v] = consults[v]  BY <1>2, <2>1
      <3>2. consults'[w].answer = a /\ a \in history'[w].given
        BY <1>2, <2>1 DEF ConsultRows, WorkHistories
      <3>3. \A v \in Works : consults[v].state # "none" => HasWork(v)'
        BY <2>8 DEF TeamInv, ConsultOK, HasWork
      <3>4. \A v \in Works : consults[v].state = "responded" => consults[v].answer \in history'[v].given
        BY <2>7 DEF TeamInv, ConsultOK
      <3>5. consults[w].state # "none"  BY <1>2
      <3>. QED  BY <2>1, <3>1, <3>2, <3>3, <3>4, <3>5 DEF ConsultOK
    <2>14. RequestOK(request)'  BY <2>8 DEF TeamInv, RequestOK, HasWork
    <2>. QED  BY <2>6, <2>10, <2>11, <2>12, <2>13, <2>14 DEF TeamInv
  <1>. QED  BY <1>1, <1>2 DEF WriteAnswer

\* A step of a request that changes no more than the local item: what remains to be shown.
RequestOnly ==
    /\ UNCHANGED <<inbox, sent, evidence, worker, history>>
    /\ \/ row' = row
       \/ /\ row # Nobody /\ row' # Nobody
          /\ row'.work = row.work /\ row'.item = row.item /\ RowOK(row', history[row.work])

LEMMA RequestOnlyKeeps ==
  ASSUME TeamInv, TeamTypes', RequestOnly, LockOK', ConsultOK', RequestOK(request)'
  PROVE  TeamInv'
  <1>1. \A w : HasWork(w)' <=> HasWork(w)  BY DEF RequestOnly, HasWork
  <1>2. row' # Nobody => RowOK(row', history'[row'.work])
    BY DEF TeamInv, WorksOK, RequestOnly
  <1>3. WorksOK'  BY <1>2 DEF TeamInv, WorksOK, RequestOnly, ItemOf
  <1>4. OpenOK'  BY <1>1 DEF TeamInv, OpenOK, RequestOnly, ItemOf
  <1>. QED  BY <1>3, <1>4 DEF TeamInv

LEMMA ReadWorkKeeps == ASSUME TeamInv, NEW b \in BOOLEAN, ReadWork(b) PROVE TeamInv'
  <1>1. TeamTypes'  BY ReadWorkTypes DEF TeamInv
  <1>2. RequestOnly  BY DEF ReadWork, requestFrame, RequestOnly
  <1>3. request'.at = "pack" /\ request'.replies = b /\ request'.work = row.work
    BY DEF ReadWork, NoRequest
  <1>4. row # Nobody /\ row.work \in Works /\ ItemOf(row.work) # Nobody
    <2>1. row # Nobody /\ row \in WorkRows  BY DEF ReadWork, TeamInv, TeamTypes
    <2>. QED  BY <2>1, RowIs, TeamConstants DEF TeamInv, WorksOK, RowOK, ItemOf
  <1>5. b => worker = Nobody  BY DEF ReadWork, LockFree
  <1>6. LockOK'  BY <1>2, <1>3, <1>4, <1>5 DEF RequestOnly, LockOK, HasWork, ItemOf, ReadWork
  <1>7. ConsultOK'  BY <1>2 DEF ReadWork, RequestOnly, TeamInv, ConsultOK, HasWork
  <1>8. RequestOK(request)'  BY <1>3 DEF RequestOK
  <1>. QED  BY <1>1, <1>2, <1>6, <1>7, <1>8, RequestOnlyKeeps

\* Where a request goes on to: it keeps what it has, and its lock.
LEMMA Goes ==
  ASSUME TeamInv, NEW at, Proceed(at), RequestOnly,
         at \in {"freeze", "send", "record", "complete", "delete"} => request.replies,
         request.at # "idle", at # "idle"
  PROVE  /\ request'.at = at /\ request'.work = request.work /\ request'.replies = request.replies
         /\ request'.body = request.body /\ LockOK'
  <1>1. /\ request'.at = at /\ request'.work = request.work /\ request'.replies = request.replies
        /\ request'.body = request.body
    BY DEF Proceed, TeamInv, TeamTypes, RequestRows
  <1>2. \A w : HasWork(w)' <=> HasWork(w)  BY DEF RequestOnly, HasWork
  <1>. QED  BY <1>1, <1>2 DEF TeamInv, LockOK, RequestOnly, ItemOf

LEMMA Leaves == ASSUME Leave PROVE LockOK' /\ RequestOK(request)'
  BY DEF Leave, LockOK, NoRequest, RequestOK

LEMMA AttachPackKeeps == ASSUME TeamInv, AttachPack PROVE TeamInv'
  <1>1. TeamTypes'  BY AttachPackTypes DEF TeamInv
  <1>2. CASE ~HasWork(request.work)
    <2>1. RequestOnly /\ Leave  BY <1>2 DEF AttachPack, requestFrame, RequestOnly
    <2>2. ConsultOK'  BY <1>2 DEF AttachPack, TeamInv, ConsultOK, HasWork, requestFrame
    <2>. QED  BY <1>1, <2>1, <2>2, Leaves, RequestOnlyKeeps
  <1>3. CASE HasWork(request.work)
    <2>1. PICK pack \in AllPacks :
             row' = IF row.pack = Nobody THEN [row EXCEPT !.pack = pack] ELSE row
      BY <1>3 DEF AttachPack
    <2>2. row # Nobody /\ row \in WorkRows  BY <1>3 DEF TeamInv, TeamTypes, HasWork
    <2>3. /\ row' # Nobody /\ row'.work = row.work /\ row'.item = row.item /\ row'.pack # Nobody
          /\ row'.route = row.route /\ row'.response = row.response /\ row'.state = row.state
          /\ row.pack # Nobody => row' = row
      <3>1. CASE row.pack = Nobody
        <4>1. row' = [row EXCEPT !.pack = pack]  BY <2>1, <3>1
        <4>2. row' \in WorkRows  BY <2>2, <4>1, RowIs
        <4>. QED  BY <2>2, <3>1, <4>1, <4>2, TeamConstants DEF WorkRows
      <3>2. CASE row.pack # Nobody  BY <2>1, <2>2, <3>2
      <3>. QED  BY <3>1, <3>2
    <2>4. RowOK(row', history[row.work])
      BY <2>2, <2>3, TeamConstants DEF TeamInv, WorksOK, RowOK
    <2>5. RequestOnly  BY <2>2, <2>3, <2>4 DEF AttachPack, requestFrame, RequestOnly
    <2>6. Proceed("route") /\ request.at = "pack"  BY <1>3 DEF AttachPack, Stands
    <2>7. LockOK' /\ request'.at = "route"  BY <2>5, <2>6, Goes
    <2>8. RequestOK(request)'  BY <2>3, <2>7 DEF RequestOK
    <2>9. ConsultOK'  BY <2>2, <2>3 DEF AttachPack, TeamInv, ConsultOK, HasWork, requestFrame
    <2>. QED  BY <1>1, <2>5, <2>7, <2>8, <2>9, RequestOnlyKeeps
  <1>. QED  BY <1>2, <1>3

LEMMA RouteMeans ==
  ASSUME NEW kind \in {"social", "snapshot", "project"}, NEW pack
  PROVE  /\ Route(kind, pack) = "team_agent" => kind = "social"
         /\ Route(kind, pack) = "context_pack" => pack # "poor"
  BY DEF Route

LEMMA AttachRoutingKeeps == ASSUME TeamInv, AttachRouting PROVE TeamInv'
  <1>1. TeamTypes'  BY AttachRoutingTypes DEF TeamInv
  <1>2. CASE ~HasWork(request.work)
    <2>1. RequestOnly /\ Leave  BY <1>2 DEF AttachRouting, requestFrame, RequestOnly
    <2>2. ConsultOK'  BY <1>2 DEF AttachRouting, TeamInv, ConsultOK, HasWork, requestFrame
    <2>. QED  BY <1>1, <2>1, <2>2, Leaves, RequestOnlyKeeps
  <1>3. CASE HasWork(request.work)
    <2> DEFINE route == IF row.route = "none" THEN Route(Kind[row.item], row.pack) ELSE row.route
    <2>1. row' = [row EXCEPT !.route = route] /\ Routed(route) /\ request.at = "route"
      BY <1>3 DEF AttachRouting, Stands
    <2>2. row # Nobody /\ row \in WorkRows  BY <1>3 DEF TeamInv, TeamTypes, HasWork
    <2>3. row' \in WorkRows /\ row' # Nobody
      BY <1>1, <2>1, <2>2, RowIs, RouteIs
    <2>4. /\ row'.work = row.work /\ row'.item = row.item /\ row'.pack = row.pack
          /\ row'.route = route /\ row'.response = row.response /\ row'.state = row.state
      BY <2>1, <2>2 DEF WorkRows
    <2>5. row.pack # Nobody  BY <1>3, <2>1 DEF TeamInv, RequestOK
    <2>6. row.pack \in Packs \/ row.pack = "poor"  BY <2>2, <2>5, RowIs DEF AllPacks
    <2>7. /\ route # "none"
          /\ route = "context_pack" => row.pack \in Packs
          /\ route = "team_agent" => Kind[row.item] = "social"
      <3>1. CASE row.route = "none"
        <4>1. Kind[row.item] \in {"social", "snapshot", "project"}
          BY <2>2, RowIs, TeamConstants
        <4>. QED  BY <2>6, <3>1, <4>1, RouteIs, RouteMeans
      <3>2. CASE row.route # "none"
        BY <2>2, <3>2 DEF TeamInv, WorksOK, RowOK
      <3>. QED  BY <3>1, <3>2
    <2>8. row.route # "none" => route = row.route  OBVIOUS
    <2> HIDE DEF route
    <2>9. RowOK(row', history[row.work])
      <3>1. RowOK(row, history[row.work]) /\ WorkOK(history[row.work], sent[row.work], evidence[row.work])
        BY <2>2, RowIs DEF TeamInv, WorksOK
      <3>2. history[row.work].sent # {} => row.route # "none"  BY <3>1 DEF WorkOK, RowOK
      <3>. QED  BY <2>4, <2>7, <2>8, <3>1, <3>2 DEF RowOK
    <2>10. RequestOnly  BY <2>2, <2>3, <2>4, <2>9 DEF AttachRouting, requestFrame, RequestOnly
    <2>11. ConsultOK'  BY <2>2, <2>3, <2>4 DEF AttachRouting, TeamInv, ConsultOK, HasWork, requestFrame
    <2>12. CASE Leave  BY <1>1, <2>10, <2>11, <2>12, Leaves, RequestOnlyKeeps
    <2>13. CASE route = "local_lead" /\ Proceed("consult")
      <3>1. request'.at = "consult" /\ LockOK'  BY <2>1, <2>10, <2>13, Goes
      <3>2. RequestOK(request)'  BY <2>4, <2>13, <3>1 DEF RequestOK
      <3>. QED  BY <1>1, <2>10, <2>11, <3>1, <3>2, RequestOnlyKeeps
    <2>14. CASE request.replies /\ Proceed("freeze")
      <3>1. request'.at = "freeze" /\ LockOK'  BY <2>1, <2>10, <2>14, Goes
      <3>2. RequestOK(request)'  BY <2>4, <2>7, <3>1 DEF RequestOK
      <3>. QED  BY <1>1, <2>10, <2>11, <3>1, <3>2, RequestOnlyKeeps
    <2>. QED  BY <2>1, <2>12, <2>13, <2>14 DEF Routed
  <1>. QED  BY <1>2, <1>3

LEMMA CheckConsultKeeps == ASSUME TeamInv, CheckConsult PROVE TeamInv'
  <1>1. TeamTypes'  BY CheckConsultTypes DEF TeamInv
  <1>2. RequestOnly  BY DEF CheckConsult, requestFrame, RequestOnly
  <1>3. request.at = "consult" /\ request.work \in Works
    BY DEF CheckConsult, Stands, TeamInv, LockOK
  <1>4. consults \in [Works -> ConsultRows]  BY DEF TeamInv, TeamTypes
  <1>5. ConsultOK'
    <2>1. UNCHANGED <<row, history>>  BY DEF CheckConsult, requestFrame
    <2>2. CASE consults' = consults  BY <2>1, <2>2 DEF TeamInv, ConsultOK, HasWork
    <2>3. CASE consults' = [consults EXCEPT ![request.work] = Invalidated(consults[request.work])]
      BY <1>3, <1>4, <2>1, <2>3, InvalidatedIs DEF TeamInv, ConsultOK, HasWork
    <2>. QED  BY <2>2, <2>3 DEF CheckConsult
  <1>6. CASE Leave  BY <1>1, <1>2, <1>5, <1>6, Leaves, RequestOnlyKeeps
  <1>7. CASE Proceed("create")
    <2>1. request'.at = "create" /\ request'.work = request.work /\ LockOK'
      BY <1>2, <1>3, <1>7, Goes
    <2>2. RequestOK(request)'
      BY <1>3, <2>1 DEF CheckConsult, TeamInv, RequestOK, HasWork
    <2>. QED  BY <1>1, <1>2, <1>5, <2>1, <2>2, RequestOnlyKeeps
  <1>8. CASE request.replies /\ Proceed("freeze")
    <2>1. request'.at = "freeze" /\ request'.work = request.work /\ LockOK'
      BY <1>2, <1>3, <1>8, Goes
    <2>2. RequestOK(request)'
      BY <1>3, <2>1 DEF CheckConsult, TeamInv, RequestOK, HasWork
    <2>. QED  BY <1>1, <1>2, <1>5, <2>1, <2>2, RequestOnlyKeeps
  <1>. QED  BY <1>6, <1>7, <1>8 DEF CheckConsult

LEMMA CreateConsultKeeps == ASSUME TeamInv, CreateConsult PROVE TeamInv'
  <1>1. TeamTypes'  BY CreateConsultTypes DEF TeamInv
  <1>2. RequestOnly  BY DEF CreateConsult, requestFrame, RequestOnly
  <1>3. request.at = "create" /\ request.work \in Works
    BY DEF CreateConsult, Stands, TeamInv, LockOK
  <1>4. consults \in [Works -> ConsultRows]  BY DEF TeamInv, TeamTypes
  <1>5. ConsultOK'
    <2>1. UNCHANGED <<row, history>>  BY DEF CreateConsult, requestFrame
    <2>2. CASE consults' = consults  BY <2>1, <2>2 DEF TeamInv, ConsultOK, HasWork
    <2>3. CASE HasWork(request.work) /\ consults' = [consults EXCEPT ![request.work] =
                  [state |-> "pending", target |-> request.target, answer |-> Nobody]]
      BY <1>3, <1>4, <2>1, <2>3 DEF TeamInv, ConsultOK, HasWork
    <2>. QED  BY <2>2, <2>3 DEF CreateConsult
  <1>6. CASE Leave  BY <1>1, <1>2, <1>5, <1>6, Leaves, RequestOnlyKeeps
  <1>7. CASE Proceed("consult")
    <2>1. request'.at = "consult" /\ request'.work = request.work /\ LockOK'
      BY <1>2, <1>3, <1>7, Goes
    <2>2. RequestOK(request)'
      BY <1>3, <2>1 DEF CreateConsult, TeamInv, RequestOK, HasWork
    <2>. QED  BY <1>1, <1>2, <1>5, <2>1, <2>2, RequestOnlyKeeps
  <1>. QED  BY <1>6, <1>7 DEF CreateConsult

LEMMA FreezeReplyKeeps == ASSUME TeamInv, FreezeReply PROVE TeamInv'
  <1>1. TeamTypes'  BY FreezeReplyTypes DEF TeamInv
  <1>2. PICK body \in Bodies :
          IF HasWork(request.work) /\ Allowed(request.work, body)
             /\ row.response \in {Nobody, body}
          THEN /\ row' = [row EXCEPT !.response = body, !.state = "responding"]
               /\ request' = [request EXCEPT !.at = "send", !.token = row.token,
                                              !.body = body]
          ELSE Leave /\ UNCHANGED row
    BY DEF FreezeReply
  <1>3. ASSUME Leave, UNCHANGED row PROVE TeamInv'
    <2>1. RequestOnly  BY <1>3 DEF FreezeReply, requestFrame, RequestOnly
    <2>2. ConsultOK'  BY <1>3 DEF FreezeReply, TeamInv, ConsultOK, HasWork, requestFrame
    <2>. QED  BY <1>1, <1>3, <2>1, <2>2, Leaves, RequestOnlyKeeps
  <1>4. ASSUME HasWork(request.work), Allowed(request.work, body), row.response \in {Nobody, body},
               row' = [row EXCEPT !.response = body, !.state = "responding"],
               request' = [request EXCEPT !.at = "send", !.token = row.token, !.body = body]
        PROVE  TeamInv'
    <2>1. row # Nobody /\ row \in WorkRows /\ row.work = request.work /\ row.work \in Works
      BY <1>4, RowIs DEF TeamInv, TeamTypes, HasWork
    <2>2. row' # Nobody  BY <1>4, <2>1, RowIs
    <2>3. /\ row'.work = row.work /\ row'.item = row.item /\ row'.pack = row.pack
          /\ row'.route = row.route /\ row'.response = body /\ row'.state = "responding"
      BY <1>4, <2>1 DEF WorkRows
    <2>4. request.at = "freeze" /\ request.replies  BY DEF FreezeReply, Stands, TeamInv, LockOK
    <2>5. row.route # "none"  BY <1>4, <2>4 DEF TeamInv, RequestOK
    <2>6. RowOK(row, history[row.work])  BY <2>1 DEF TeamInv, WorksOK
    <2>7. FromSource(row.route, body, history[row.work].given, row.item)
      <3>1. row.route = "local_lead" => body \in history[row.work].given
        BY <1>4, <2>1 DEF Allowed, TeamInv, ConsultOK
      <3>2. row.route = "context_pack" => body \in Packs
        BY <1>4, <2>6 DEF Allowed, RowOK
      <3>. QED  BY <2>6, <3>1, <3>2 DEF FromSource, RowOK
    <2>8. history[row.work].sent # {} => body \in history[row.work].sent
      <3>1. history[row.work].sent \subseteq Bodies
        BY <2>1 DEF TeamInv, TeamTypes, WorkHistories
      <3>. QED  BY <1>4, <2>6, <3>1, TeamConstants DEF RowOK
    <2>9. RowOK(row', history[row.work])  BY <2>3, <2>5, <2>6, <2>7, <2>8 DEF RowOK
    <2>10. RequestOnly  BY <2>1, <2>2, <2>3, <2>9 DEF FreezeReply, requestFrame, RequestOnly
    <2>11. /\ request'.at = "send" /\ request'.work = request.work /\ request'.body = body
           /\ request'.replies
      BY <1>4, <2>4 DEF TeamInv, TeamTypes, RequestRows
    <2>12. LockOK'
      BY <2>1, <2>2, <2>3, <2>4, <2>10, <2>11 DEF TeamInv, LockOK, RequestOnly, HasWork, ItemOf
    <2>13. ConsultOK'  BY <2>1, <2>2, <2>3 DEF FreezeReply, TeamInv, ConsultOK, HasWork, requestFrame
    <2>14. RequestOK(request)'
      BY <2>3, <2>5, <2>11, TeamConstants DEF RequestOK
    <2>. QED  BY <1>1, <2>10, <2>12, <2>13, <2>14, RequestOnlyKeeps
  <1>. QED  BY <1>2, <1>3, <1>4

\* What a request that replies knows of its work.
LEMMA Replying ==
  ASSUME TeamInv, request.at \in {"freeze", "send", "record", "complete", "delete"}
  PROVE  /\ request.replies /\ worker = Nobody /\ request.work \in Works
         /\ row # Nobody /\ row \in WorkRows /\ row.work = request.work /\ row.item \in Items
         /\ row.route # "none" /\ row.route \in Routes
         /\ RowOK(row, history[request.work]) /\ ItemOf(request.work) = row.item
         /\ WorkOK(history[request.work], sent[request.work], evidence[request.work])
  <1>1. request.replies /\ worker = Nobody /\ request.work \in Works /\ HasWork(request.work)
    BY DEF TeamInv, LockOK
  <1>2. row # Nobody /\ row \in WorkRows /\ row.work = request.work
    BY <1>1 DEF TeamInv, TeamTypes, HasWork
  <1>3. RowOK(row, history[request.work])
        /\ WorkOK(history[request.work], sent[request.work], evidence[request.work])
    BY <1>1, <1>2 DEF TeamInv, WorksOK
  <1>4. row.route # "none"  BY <1>1 DEF TeamInv, RequestOK
  <1>. QED  BY <1>1, <1>2, <1>3, <1>4, RowIs DEF RowOK, ItemOf

LEMMA RecordEvidenceKeeps == ASSUME TeamInv, RecordEvidence PROVE TeamInv'
  <1>1. TeamTypes'  BY RecordEvidenceTypes DEF TeamInv
  <1>2. request.at = "record" /\ Proceed("complete") /\ UNCHANGED <<inbox, sent, row, worker, consults, history>>
    BY DEF RecordEvidence, Stands, requestFrame
  <1>3. /\ request'.at = "complete" /\ request'.work = request.work
        /\ request'.replies = request.replies
    BY <1>2 DEF Proceed, TeamInv, TeamTypes, RequestRows
  <1>4. sent[request.work] # Nobody /\ HasWork(request.work)
    BY <1>2 DEF TeamInv, LockOK, RequestOK
  <1>5. /\ evidence'[request.work] = history[request.work].route /\ history[request.work].route # "none"
        /\ \A w \in Works : evidence[w] # "none" => evidence'[w] = evidence[w]
        /\ \A w \in Works : w # request.work => evidence'[w] = evidence[w]
    <2>1. history[request.work].sent # {}  BY <1>2, <1>4, Replying DEF WorkOK
    <2>2. history[request.work].route = row.route /\ row.route # "none" /\ request.work \in Works
      BY <1>2, <2>1, Replying DEF RowOK
    <2>3. evidence[request.work] # "none" => evidence[request.work] = history[request.work].route
      BY <1>2, Replying DEF WorkOK
    <2>4. evidence \in [Works -> Routes]  BY DEF TeamInv, TeamTypes
    <2>. QED  BY <2>2, <2>3, <2>4 DEF RecordEvidence
  <1>6. LockOK'  BY <1>2, <1>3 DEF TeamInv, LockOK, HasWork, ItemOf
  <1>7. WorksOK'
    <2>1. \A w \in Works : WorkOK(history[w], sent[w], evidence'[w])
      <3> TAKE w \in Works
      <3>1. WorkOK(history[w], sent[w], evidence[w])  BY DEF TeamInv, WorksOK
      <3>. QED  BY <1>5, <3>1 DEF WorkOK
    <2>. QED  BY <1>2, <2>1 DEF TeamInv, WorksOK, ItemOf
  <1>8. OpenOK'  BY <1>2, <1>5 DEF TeamInv, OpenOK, HasWork, ItemOf
  <1>9. ConsultOK'  BY <1>2 DEF TeamInv, ConsultOK, HasWork
  <1>10. RequestOK(request)'
    BY <1>2, <1>3, <1>4, <1>5 DEF TeamInv, RequestOK, HasWork
  <1>. QED  BY <1>1, <1>6, <1>7, <1>8, <1>9, <1>10 DEF TeamInv

LEMMA CompleteItemKeeps == ASSUME TeamInv, CompleteItem PROVE TeamInv'
  <1>1. TeamTypes'  BY CompleteItemTypes DEF TeamInv
  <1>2. request.at = "complete" /\ UNCHANGED <<sent, row, evidence, worker, consults, history>>
    BY DEF CompleteItem, Stands
  <1>3. /\ request.work \in Works /\ sent[request.work] # Nobody /\ evidence[request.work] # "none"
        /\ row # Nobody /\ row.item \in Items /\ ItemOf(request.work) = row.item /\ worker = Nobody
        /\ row.route # "none" /\ request.replies
    BY <1>2, Replying DEF TeamInv, LockOK, RequestOK
  <1>4. /\ \A i \in Items \ {row.item} : inbox'[i] = inbox[i]
        /\ inbox[row.item].state = "done" => inbox'[row.item].state = "done"
    BY <1>3 DEF CompleteItem, TeamInv, TeamTypes
  <1>5. OpenOK'
    <2>1. \A w \in Works : ItemOf(w)' # Nobody /\ ~history'[w].discarded =>
             HasWork(w)' \/ inbox'[ItemOf(w)'].state = "done"
      <3> SUFFICES ASSUME NEW w \in Works, ItemOf(w) # Nobody, ~history[w].discarded
                   PROVE  HasWork(w) \/ inbox'[ItemOf(w)].state = "done"
        BY <1>2 DEF HasWork, ItemOf
      <3>1. HasWork(w) \/ inbox[ItemOf(w)].state = "done"  BY DEF TeamInv, OpenOK
      <3>2. ItemOf(w) \in Items  BY DEF TeamInv, TeamTypes, WorkHistories, ItemOf
      <3>. QED  BY <1>4, <3>1, <3>2
    <2>2. worker' = Nobody  BY <1>2, <1>3
    <2>3. \A i \in Items : inbox'[i].state = "done" =>
             \E w \in Works : ItemOf(w)' = i /\ sent'[w] # Nobody /\ evidence'[w] # "none"
      <3> SUFFICES ASSUME NEW i \in Items, inbox'[i].state = "done"
                   PROVE  \E w \in Works : ItemOf(w) = i /\ sent[w] # Nobody /\ evidence[w] # "none"
        BY <1>2 DEF ItemOf
      <3>1. CASE i = row.item  BY <1>3, <3>1
      <3>2. CASE i # row.item  BY <1>4, <3>2 DEF TeamInv, OpenOK
      <3>. QED  BY <3>1, <3>2
    <2>. QED  BY <2>1, <2>2, <2>3 DEF OpenOK
  <1>6. WorksOK'  BY <1>2 DEF TeamInv, WorksOK, ItemOf
  <1>7. ConsultOK'  BY <1>2 DEF TeamInv, ConsultOK, HasWork
  <1>8. CASE Leave
    <2>. QED  BY <1>1, <1>5, <1>6, <1>7, <1>8, Leaves DEF TeamInv
  <1>9. CASE Proceed("delete") /\ inbox' = [inbox EXCEPT ![row.item].state = "done"]
    <2>1. /\ request'.at = "delete" /\ request'.work = request.work
          /\ request'.replies = request.replies
      BY <1>9 DEF Proceed, TeamInv, TeamTypes, RequestRows
    <2>2. LockOK'  BY <1>2, <1>3, <2>1 DEF TeamInv, LockOK, HasWork, ItemOf
    <2>3. inbox'[row.item].state = "done"  BY <1>3, <1>9 DEF TeamInv, TeamTypes
    <2>4. RequestOK(request)'  BY <1>2, <1>3, <2>1, <2>3 DEF RequestOK
    <2>. QED  BY <1>1, <1>5, <1>6, <1>7, <2>2, <2>4 DEF TeamInv
  <1>. QED  BY <1>8, <1>9 DEF CompleteItem

LEMMA SendReplyKeeps == ASSUME TeamInv, SendReply PROVE TeamInv'
  <1> DEFINE w == request.work
             h == history[request.work]
  <1>1. TeamTypes'  BY SendReplyTypes DEF TeamInv
  <1>2. request.at = "send" /\ UNCHANGED <<inbox, row, evidence, worker, consults>>
    BY DEF SendReply, Stands
  <1>3. /\ w \in Works /\ row # Nobody /\ row \in WorkRows /\ row.work = w /\ RowOK(row, h)
        /\ ItemOf(w) = row.item /\ row.item \in Items /\ row.route # "none" /\ request.replies
        /\ worker = Nobody /\ WorkOK(h, sent[w], evidence[w])
    BY <1>2, Replying
  <1>4. row.response = request.body /\ request.body # Nobody /\ HasWork(w)
    BY <1>2, <1>3 DEF TeamInv, RequestOK, HasWork
  <1>5. /\ history'[w] = [h EXCEPT !.sent = @ \cup {request.body}, !.route = row.route]
        /\ \A v \in Works \ {w} : history'[v] = history[v]
    BY <1>3 DEF SendReply, TeamInv, TeamTypes
  <1>6. /\ history'[w].item = h.item /\ history'[w].given = h.given
        /\ history'[w].discarded = h.discarded /\ history'[w].route = row.route
        /\ history'[w].sent = {request.body}
    <2>1. h \in WorkHistories  BY <1>3 DEF TeamInv, TeamTypes
    <2>2. h.sent \subseteq {request.body}  BY <1>3, <1>4 DEF RowOK, WorkOK
    <2>. QED  BY <1>5, <2>1, <2>2 DEF WorkHistories
  <1>7. h.sent # {} => h.route = row.route  BY <1>3 DEF RowOK
  <1>8. /\ \A v \in Works \ {w} : sent'[v] = sent[v]
        /\ sent'[w] \in {sent[w], request.body}
        /\ sent[w] # Nobody => sent'[w] # Nobody
    BY <1>3 DEF SendReply, TeamInv, TeamTypes
  <1>9. sent[w] # Nobody => sent[w] = request.body
    BY <1>3, <1>4 DEF WorkOK, RowOK
  <1> HIDE DEF w, h
  <1>10. \A v \in Works : ItemOf(v)' = ItemOf(v) /\ history'[v].discarded = history[v].discarded
                         /\ history'[v].given = history[v].given
    BY <1>5, <1>6 DEF ItemOf, w, h
  <1>11. WorksOK'
    <2>1. WorkOK(history'[w], sent'[w], evidence[w])
      <3>1. FromSource(row.route, request.body, h.given, h.item)
        BY <1>3, <1>4 DEF RowOK
      <3>2. evidence[w] # "none" => evidence[w] = row.route
        <4>1. evidence[w] # "none" => h.sent # {}
          BY <1>3 DEF WorkOK
        <4>. QED  BY <1>3, <1>7, <4>1 DEF WorkOK
      <3>3. h.item # Nobody  BY <1>3, TeamConstants DEF RowOK
      <3>. QED  BY <1>3, <1>6, <1>8, <1>9, <3>1, <3>2, <3>3 DEF WorkOK
    <2>2. ASSUME NEW v \in Works PROVE WorkOK(history'[v], sent'[v], evidence[v])
      BY <1>5, <1>8, <2>1 DEF TeamInv, WorksOK
    <2>3. {v \in Works : ItemOf(v)' # Nobody} = {v \in Works : ItemOf(v) # Nobody}
      BY <1>10
    <2>4. RowOK(row, history'[row.work])
      BY <1>3, <1>4, <1>6 DEF RowOK
    <2>. QED  BY <1>2, <1>10, <2>2, <2>3, <2>4 DEF TeamInv, WorksOK
  <1>12. OpenOK'
    <2>1. \A v \in Works : sent[v] # Nobody => sent'[v] # Nobody  BY <1>8
    <2>. QED  BY <1>2, <1>10, <2>1 DEF TeamInv, OpenOK, HasWork
  <1>13. ConsultOK'  BY <1>2, <1>10 DEF TeamInv, ConsultOK, HasWork
  <1>14. CASE Leave  BY <1>1, <1>11, <1>12, <1>13, <1>14, Leaves DEF TeamInv
  <1>15. CASE Proceed("record") /\ sent'[w] # Nobody
    <2>1. /\ request'.at = "record" /\ request'.work = w /\ request'.replies = request.replies
      BY <1>15 DEF Proceed, TeamInv, TeamTypes, RequestRows, w
    <2>2. row' # Nobody /\ row'.work = w /\ worker' = Nobody  BY <1>2, <1>3
    <2>3. history'[w].item # Nobody  BY <1>3, <1>10, TeamConstants DEF ItemOf
    <2>4. LockOK'  BY <1>3, <2>1, <2>2, <2>3 DEF LockOK, HasWork, ItemOf
    <2>5. RequestOK(request)'  BY <1>2, <1>3, <1>15, <2>1 DEF RequestOK
    <2>. QED  BY <1>1, <1>11, <1>12, <1>13, <2>4, <2>5 DEF TeamInv
  <1>16. Leave \/ (Proceed("record") /\ sent'[w] # Nobody)
    BY <1>3, <1>4 DEF SendReply, TeamInv, TeamTypes, w
  <1>. QED  BY <1>14, <1>15, <1>16

LEMMA DeleteWorkKeeps == ASSUME TeamInv, DeleteWork PROVE TeamInv'
  <1>1. TeamTypes'  BY DeleteWorkTypes DEF TeamInv
  <1>2. request.at = "delete" /\ Leave /\ UNCHANGED <<inbox, sent, evidence, worker, history>>
    BY DEF DeleteWork, Stands, requestFrame
  <1>3. HasWork(request.work) /\ inbox[row.item].state = "done" /\ row.work \in Works
        /\ ItemOf(row.work) = row.item /\ row.work = request.work
    BY <1>2, Replying DEF TeamInv, LockOK, RequestOK, HasWork
  <1>4. row' = Nobody  BY <1>3 DEF DeleteWork
  <1>5. LockOK' /\ RequestOK(request)'  BY <1>2, Leaves
  <1>6. WorksOK'  BY <1>2, <1>4 DEF TeamInv, WorksOK, ItemOf
  <1>7. OpenOK'
    <2>1. \A v \in Works : HasWork(v) => v = row.work  BY DEF HasWork
    <2>. QED  BY <1>2, <1>3, <2>1 DEF TeamInv, OpenOK, ItemOf
  <1>8. ConsultOK'
    <2>1. consults'[request.work].state = "none"
          /\ \A v \in Works \ {request.work} : consults'[v] = consults[v]
      BY <1>3 DEF DeleteWork, NoConsult, TeamInv, TeamTypes
    <2>2. \A v \in Works \ {request.work} : consults[v].state = "none"
      BY <1>3 DEF TeamInv, ConsultOK, HasWork
    <2>. QED  BY <2>1, <2>2 DEF ConsultOK
  <1>. QED  BY <1>1, <1>5, <1>6, <1>7, <1>8 DEF TeamInv

LEMMA PollClaimKeeps == ASSUME TeamInv, NEW i \in Items, PollClaim(i) PROVE TeamInv'
  <1>1. TeamTypes'
    BY TeamConstants, NextTokenIsNew DEF PollClaim, TeamInv, TeamTypes, Tokens
  <1>2. /\ UNCHANGED <<sent, row, consults, evidence, request, history>>
        /\ ~request.replies /\ inbox[i].state # "done"
        /\ inbox' = [inbox EXCEPT ![i] = [state |-> "claimed", token |-> NextToken]]
        /\ worker' = [item |-> i, token |-> NextToken]
    BY DEF PollClaim, LockFree
  <1>3. inbox'[i].state = "claimed" /\ \A j \in Items \ {i} : inbox'[j] = inbox[j]
    BY <1>2 DEF TeamInv, TeamTypes
  <1>4. LockOK'  BY <1>2 DEF TeamInv, LockOK, HasWork, ItemOf
  <1>5. WorksOK'  BY <1>2 DEF TeamInv, WorksOK, ItemOf
  <1>6. OpenOK'
    <2>1. \A j \in Items : inbox'[j].state = "done" <=> inbox[j].state = "done"  BY <1>2, <1>3
    <2>2. \A w \in Works : ItemOf(w) # Nobody => ItemOf(w) \in Items
      BY DEF TeamInv, TeamTypes, WorkHistories, ItemOf
    <2>. QED  BY <1>2, <2>1, <2>2 DEF TeamInv, OpenOK, HasWork, ItemOf
  <1>7. ConsultOK'  BY <1>2 DEF TeamInv, ConsultOK, HasWork
  <1>8. RequestOK(request)'
    <2>1. request.at # "delete"  BY <1>2 DEF TeamInv, LockOK
    <2>. QED  BY <1>2, <2>1 DEF TeamInv, RequestOK, HasWork
  <1>. QED  BY <1>1, <1>4, <1>5, <1>6, <1>7, <1>8 DEF TeamInv

\* The worker's item becomes a work of its own, where none is at hand.
LEMMA PollStoreKeeps == ASSUME TeamInv, PollStore PROVE TeamInv'
  <1>1. TeamTypes'  BY PollStoreTypes DEF TeamInv
  <1>2. /\ worker # Nobody /\ worker' = Nobody /\ worker.item \in Items
        /\ UNCHANGED <<inbox, sent, consults, evidence, request>>
    BY DEF PollStore, TeamInv, TeamTypes
  <1>3. ~request.replies
        /\ request.at \notin {"freeze", "send", "record", "complete", "delete"}
    BY <1>2 DEF TeamInv, LockOK
  <1>4. CASE row # Nobody
    <2>1. row \in WorkRows /\ UNCHANGED history  BY <1>4 DEF TeamInv, TeamTypes, PollStore
    <2>2. worker.token \in Tokens  BY <1>2 DEF TeamInv, TeamTypes
    <2>3. row' # Nobody  BY <1>4, <2>1, <2>2, RowIs DEF PollStore
    <2>4. /\ row'.work = row.work /\ row'.item = row.item /\ row'.pack = row.pack
          /\ row'.route = row.route /\ row'.response = row.response /\ row'.state = row.state
      BY <1>4, <2>1 DEF PollStore, WorkRows
    <2>5. \A w : HasWork(w)' <=> HasWork(w)  BY <1>4, <2>3, <2>4 DEF HasWork
    <2>6. LockOK'  BY <1>2, <2>1, <2>5 DEF TeamInv, LockOK, ItemOf
    <2>7. RowOK(row', history[row.work])  BY <1>4, <2>4 DEF TeamInv, WorksOK, RowOK
    <2>8. WorksOK'  BY <1>2, <2>1, <2>4, <2>7 DEF TeamInv, WorksOK, ItemOf
    <2>9. OpenOK'  BY <1>2, <2>1, <2>5 DEF TeamInv, OpenOK, ItemOf
    <2>10. ConsultOK'  BY <1>2, <2>1, <2>5 DEF TeamInv, ConsultOK
    <2>11. RequestOK(request)'  BY <1>2, <1>3, <2>4, <2>5 DEF TeamInv, RequestOK
    <2>. QED  BY <1>1, <2>6, <2>8, <2>9, <2>10, <2>11 DEF TeamInv
  <1>5. CASE row = Nobody
    <2> DEFINE n == NextWork
    <2>1. /\ n \in Works /\ ItemOf(n) = Nobody
          /\ {w \in Works : ItemOf(w) # Nobody} = 1 .. n - 1
      BY <1>5, NextWorkIsNew DEF PollStore, TeamInv
    <2>2. /\ row' = [ work |-> n, item |-> worker.item, token |-> worker.token, state |-> "pending",
                      pack |-> Nobody, route |-> "none", response |-> Nobody ]
          /\ history' = [history EXCEPT ![n] = [history[n] EXCEPT !.item = worker.item]]
      BY <1>5 DEF PollStore
    <2> HIDE DEF n
    <2>3. row' \in WorkRows /\ row' # Nobody
      <3>1. [ work |-> n, item |-> worker.item, token |-> worker.token, state |-> "pending",
              pack |-> Nobody, route |-> "none", response |-> Nobody ] \in WorkRows
        BY <1>2, <2>1 DEF TeamInv, TeamTypes, WorkRows
      <3>. QED  BY <2>2, <3>1, TeamConstants
    <2>4. /\ \A w \in Works \ {n} : history'[w] = history[w]
          /\ history'[n].item = worker.item /\ history'[n].sent = {} /\ history'[n].sent = history[n].sent
          /\ history'[n].route = history[n].route
          /\ history'[n].given = history[n].given /\ ~history'[n].discarded /\ ~history[n].discarded
      <3>1. WorkOK(history[n], sent[n], evidence[n])  BY <2>1 DEF TeamInv, WorksOK
      <3>2. history[n].sent = {} /\ ~history[n].discarded  BY <2>1, <3>1 DEF WorkOK, ItemOf
      <3>. QED  BY <2>1, <2>2, <3>2 DEF TeamInv, TeamTypes, WorkHistories
    <2>5. LockOK'
      <3>1. request.at # "idle" => history'[request.work].item # Nobody
        BY <1>2, <2>4, TeamConstants DEF TeamInv, LockOK, ItemOf
      <3>. QED  BY <1>2, <1>3, <3>1 DEF TeamInv, LockOK, ItemOf
    <2>6. WorksOK'
      <3>1. ASSUME NEW w \in Works PROVE WorkOK(history'[w], sent[w], evidence[w])
        <4>1. WorkOK(history[w], sent[w], evidence[w])  BY DEF TeamInv, WorksOK
        <4>2. CASE w # n  BY <2>4, <4>1, <4>2
        <4>3. CASE w = n  BY <2>1, <2>4, <4>1, <4>3 DEF WorkOK
        <4>. QED  BY <4>2, <4>3
      <3>2. {w \in Works : ItemOf(w)' # Nobody} = 1..n /\ n \in 0..MaxWorks
        <4>1. {w \in Works : ItemOf(w)' # Nobody} = {w \in Works : ItemOf(w) # Nobody} \cup {n}
          BY <1>2, <2>1, <2>4, TeamConstants DEF ItemOf
        <4>2. n \in 1..MaxWorks  BY <2>1 DEF Works
        <4>3. 1..n = (1 .. n - 1) \cup {n}  BY <4>2, TeamConstants
        <4>. QED  BY <2>1, <4>1, <4>2, <4>3
      <3>3. \A w \in Works : ItemOf(w) = worker.item => history[w].discarded
        BY <1>2, <1>5, TeamConstants DEF TeamInv, OpenOK, HasWork
      <3>4. \A v, w \in Works : ItemOf(v)' = ItemOf(w)' /\ v # w =>
               ItemOf(v)' = Nobody \/ history'[v].discarded \/ history'[w].discarded
        <4> SUFFICES ASSUME NEW v \in Works, NEW w \in Works, v # w,
                            history'[v].item = history'[w].item
                     PROVE  history'[v].item = Nobody \/ history'[v].discarded
                            \/ history'[w].discarded
          BY DEF ItemOf
        <4>1. CASE v = n  BY <2>4, <3>3, <4>1 DEF ItemOf
        <4>2. CASE w = n  BY <2>4, <3>3, <4>2 DEF ItemOf
        <4>3. CASE v # n /\ w # n  BY <2>4, <4>3 DEF TeamInv, WorksOK, ItemOf
        <4>. QED  BY <4>1, <4>2, <4>3
      <3>5. RowOK(row', history'[n])
        BY <2>2, <2>4 DEF RowOK
      <3>6. row'.work = n  BY <2>2
      <3>. QED  BY <1>2, <3>1, <3>2, <3>4, <3>5, <3>6 DEF WorksOK
    <2>7. OpenOK'
      <3>1. \A w \in Works : w # n => ~HasWork(w) /\ ItemOf(w)' = ItemOf(w)
                                      /\ history'[w].discarded = history[w].discarded
        BY <1>5, <2>4 DEF HasWork, ItemOf
      <3>2. \A w \in Works : ItemOf(w)' # Nobody /\ ~history'[w].discarded =>
               HasWork(w)' \/ inbox[ItemOf(w)'].state = "done"
        <4> SUFFICES ASSUME NEW w \in Works, w # n, ItemOf(w)' # Nobody, ~history'[w].discarded
                     PROVE  inbox[ItemOf(w)'].state = "done"
          BY <2>2, <2>3 DEF HasWork
        <4>. QED  BY <3>1 DEF TeamInv, OpenOK
      <3>3. \A i \in Items : inbox[i].state = "done" =>
               \E w \in Works : ItemOf(w)' = i /\ sent[w] # Nobody /\ evidence[w] # "none"
        <4> SUFFICES ASSUME NEW i \in Items, inbox[i].state = "done"
                     PROVE  \E w \in Works : ItemOf(w)' = i /\ sent[w] # Nobody /\ evidence[w] # "none"
          OBVIOUS
        <4>1. PICK w \in Works : ItemOf(w) = i /\ sent[w] # Nobody /\ evidence[w] # "none"
          BY DEF TeamInv, OpenOK
        <4>2. w # n  BY <2>1, <4>1, TeamConstants
        <4>. QED  BY <3>1, <4>1, <4>2
      <3>. QED  BY <1>2, <3>2, <3>3 DEF OpenOK
    <2>8. ConsultOK'
      <3>1. \A w \in Works : consults'[w].state = "none"
        BY <1>2, <1>5 DEF TeamInv, ConsultOK, HasWork
      <3>. QED  BY <3>1 DEF ConsultOK
    <2>9. RequestOK(request)'
      <3>1. request.at # "idle" => request.work # n  BY <2>1 DEF TeamInv, LockOK
      <3>2. request.at # "idle" => ~HasWork(request.work)'
        BY <1>2, <2>2, <3>1 DEF HasWork
      <3>. QED  BY <1>2, <3>2 DEF RequestOK
    <2>. QED  BY <1>1, <2>5, <2>6, <2>7, <2>8, <2>9 DEF TeamInv
  <1>. QED  BY <1>4, <1>5

\* What a logout throws away is the work at hand.
LEMMA LogoutKeeps == ASSUME TeamInv, Logout PROVE TeamInv'
  <1>1. /\ UNCHANGED <<inbox, lapsed, sent, evidence, worker, request, answering>> /\ row' = Nobody
        /\ consults' = [w \in Works |-> NoConsult]
        /\ history' = [w \in Works |-> IF HasWork(w) THEN [history[w] EXCEPT !.discarded = TRUE]
                                       ELSE history[w]]
        /\ ~request.replies /\ session' = [session EXCEPT !.auth = FALSE]
    BY DEF Logout, LockFree
  <1>2. \A w \in Works :
           /\ history'[w] \in WorkHistories
           /\ history'[w].item = history[w].item /\ history'[w].sent = history[w].sent
           /\ history'[w].route = history[w].route /\ history'[w].given = history[w].given
           /\ history'[w].discarded <=> history[w].discarded \/ HasWork(w)
    <2> TAKE w \in Works
    <2>1. history[w] \in WorkHistories  BY DEF TeamInv, TeamTypes
    <2>2. CASE HasWork(w)
      <3>1. history'[w] = [history[w] EXCEPT !.discarded = TRUE]  BY <1>1, <2>2
      <3>. QED  BY <2>1, <2>2, <3>1 DEF WorkHistories
    <2>3. CASE ~HasWork(w)  BY <1>1, <2>1, <2>3
    <2>. QED  BY <2>2, <2>3
  <1>3. TeamTypes'
    <2>1. history' \in [Works -> WorkHistories]  BY <1>1, <1>2
    <2>2. NoConsult \in ConsultRows  BY DEF NoConsult, ConsultRows
    <2>3. consults' \in [Works -> ConsultRows]  BY <1>1, <2>2
    <2>4. session' \in [auth : BOOLEAN, target : Targets \cup {Nobody}, live : SUBSET Targets]
      BY <1>1 DEF TeamInv, TeamTypes
    <2>5. teamFaults' \in 0..MaxTeamFaults
      BY TeamConstants DEF Logout, TeamFault, TeamInv, TeamTypes
    <2>. QED  BY <1>1, <2>1, <2>3, <2>4, <2>5 DEF TeamInv, TeamTypes
  <1>4. LockOK'  BY <1>1, <1>2 DEF TeamInv, LockOK, ItemOf
  <1>5. WorksOK'
    <2>1. ASSUME NEW w \in Works PROVE WorkOK(history'[w], sent[w], evidence[w])
      <3>1. WorkOK(history[w], sent[w], evidence[w])  BY DEF TeamInv, WorksOK
      <3>2. HasWork(w) => history[w].item # Nobody
        <4>1. HasWork(w) => row \in WorkRows /\ RowOK(row, history[w])
          BY DEF TeamInv, TeamTypes, WorksOK, HasWork
        <4>. QED  BY <4>1, RowIs, TeamConstants DEF RowOK
      <3>. QED  BY <1>2, <3>1, <3>2 DEF WorkOK
    <2>2. {w \in Works : ItemOf(w)' # Nobody} = {w \in Works : ItemOf(w) # Nobody}
      BY <1>2 DEF ItemOf
    <2>3. \A v, w \in Works : ItemOf(v)' = ItemOf(w)' /\ v # w =>
             ItemOf(v)' = Nobody \/ history'[v].discarded \/ history'[w].discarded
      BY <1>2 DEF TeamInv, WorksOK, ItemOf
    <2>. QED  BY <1>1, <2>1, <2>2, <2>3 DEF TeamInv, WorksOK
  <1>6. OpenOK'
    <2>1. \A w \in Works : ItemOf(w)' = ItemOf(w)  BY <1>2 DEF ItemOf
    <2>2. \A w \in Works : ItemOf(w) # Nobody /\ ~history'[w].discarded =>
             inbox[ItemOf(w)].state = "done"
      BY <1>2 DEF TeamInv, OpenOK
    <2>. QED  BY <1>1, <2>1, <2>2 DEF TeamInv, OpenOK
  <1>7. ConsultOK'  BY <1>1 DEF ConsultOK, NoConsult
  <1>8. RequestOK(request)'  BY <1>1 DEF RequestOK, HasWork
  <1>. QED  BY <1>3, <1>4, <1>5, <1>6, <1>7, <1>8 DEF TeamInv

LEMMA TeamCrashKeeps == ASSUME TeamInv, TeamCrash PROVE TeamInv'
  <1>1. /\ UNCHANGED <<inbox, lapsed, sent, row, consults, evidence, session, history>>
        /\ worker' = Nobody /\ answering' = Nobody /\ request' = NoRequest
    BY DEF TeamCrash
  <1>2. TeamTypes'
    <2>1. request' \in RequestRows  BY <1>1, RequestIs DEF TeamInv
    <2>2. teamFaults' \in 0..MaxTeamFaults
      BY TeamConstants DEF TeamCrash, TeamFault, TeamInv, TeamTypes
    <2>. QED  BY <1>1, <2>1, <2>2 DEF TeamInv, TeamTypes
  <1>3. LockOK' /\ RequestOK(request)'  BY <1>1, Leaves DEF Leave
  <1>4. WorksOK'  BY <1>1 DEF TeamInv, WorksOK, ItemOf
  <1>5. OpenOK'  BY <1>1 DEF TeamInv, OpenOK, ItemOf, HasWork
  <1>6. ConsultOK'  BY <1>1 DEF TeamInv, ConsultOK, HasWork
  <1>. QED  BY <1>2, <1>3, <1>4, <1>5, <1>6 DEF TeamInv

LEMMA TeamInvInit == TeamInit => TeamInv
  <1> SUFFICES ASSUME TeamInit PROVE TeamInv  OBVIOUS
  <1>1. TeamTypes  BY TeamInitTypes
  <1>2. LockOK /\ RequestOK(request)  BY DEF TeamInit, LockOK, RequestOK, NoRequest
  <1>3. \A w \in Works : history[w] = NoWork /\ sent[w] = Nobody /\ evidence[w] = "none"
    BY DEF TeamInit
  <1>4. WorksOK
    <2>1. \A w \in Works : WorkOK(history[w], sent[w], evidence[w])
      BY <1>3 DEF WorkOK, NoWork
    <2>2. {w \in Works : ItemOf(w) # Nobody} = 1..0 /\ 0 \in 0..MaxWorks
      BY <1>3, TeamConstants DEF ItemOf, NoWork
    <2>3. \A v \in Works : ItemOf(v) = Nobody  BY <1>3 DEF ItemOf, NoWork
    <2>4. row = Nobody  BY DEF TeamInit
    <2>. QED  BY <2>1, <2>2, <2>3, <2>4 DEF WorksOK
  <1>5. OpenOK  BY <1>3 DEF TeamInit, OpenOK, ItemOf, NoWork
  <1>6. ConsultOK  BY DEF TeamInit, ConsultOK, NoConsult
  <1>. QED  BY <1>1, <1>2, <1>4, <1>5, <1>6 DEF TeamInv

LEMMA TeamInvStep == TeamInv /\ [TeamNext]_teamVars => TeamInv'
  <1> SUFFICES ASSUME TeamInv, [TeamNext]_teamVars PROVE TeamInv'  OBVIOUS
  <1> HIDE DEF TeamInv
  <1>1. TeamTypes  BY DEF TeamInv
  <1>2. ASSUME NEW i \in Items, PollClaim(i) PROVE TeamInv'  BY <1>2, PollClaimKeeps
  <1>3. CASE PollStore  BY <1>3, PollStoreKeeps
  <1>4. CASE LeaseLapses  BY <1>1, <1>4, LeaseLapsesOut, OutsideKeeps
  <1>5. CASE RequestStep
    BY <1>5, ReadWorkKeeps, AttachPackKeeps, AttachRoutingKeeps, CheckConsultKeeps,
       CreateConsultKeeps, FreezeReplyKeeps, SendReplyKeeps, RecordEvidenceKeeps,
       CompleteItemKeeps, DeleteWorkKeeps DEF RequestStep
  <1>6. ASSUME NEW w \in Works, ClaimConsult(w) \/ EndConsult(w) \/ ExpireConsult(w) PROVE TeamInv'
    BY <1>1, <1>6, ClaimConsultOut, EndConsultOut, ExpireConsultOut, OutsideKeeps
  <1>7. ASSUME NEW w \in Works, NEW a \in Answers, CheckAnswer(w, a) PROVE TeamInv'
    BY <1>1, <1>7, CheckAnswerOut, OutsideKeeps
  <1>8. CASE WriteAnswer  BY <1>8, WriteAnswerKeeps
  <1>9. ASSUME NEW t \in Targets \cup {Nobody}, SelectTarget(t) PROVE TeamInv'
    BY <1>1, <1>9, SelectTargetOut, OutsideKeeps
  <1>10. ASSUME NEW t \in Targets, TargetDies(t) PROVE TeamInv'
    BY <1>1, <1>10, TargetDiesOut, OutsideKeeps
  <1>11. CASE SignInExpires \/ SignIn  BY <1>1, <1>11, SignInOut, OutsideKeeps
  <1>12. CASE Logout  BY <1>12, LogoutKeeps
  <1>13. CASE TeamCrash  BY <1>13, TeamCrashKeeps
  <1>14. CASE UNCHANGED teamVars
    <2>1. TeamTypes'  BY <1>1, <1>14 DEF teamVars, TeamTypes
    <2>2. Outside  BY <1>14 DEF teamVars, Outside
    <2>. QED  BY <2>1, <2>2, OutsideKeeps
  <1>. QED
    BY <1>2, <1>3, <1>4, <1>5, <1>6, <1>7, <1>8, <1>9, <1>10, <1>11, <1>12, <1>13, <1>14
    DEF TeamNext

\* However claims lapse and are renewed, calls fail, the human logs out and the server dies:
\* an item is answered once, one text goes out under a work's key, an item that is done was
\* answered with its evidence, and an answer that the Hub has can be given again.
THEOREM RepliesAreSafe == TeamSpec => []RepliesSafe
  <1>1. TeamInv => RepliesSafe
    <2> SUFFICES ASSUME TeamInv PROVE RepliesSafe  OBVIOUS
    <2>1. TeamTypeOK
      BY DEF TeamInv, TeamTypes, TeamTypeOK, RequestRows, Steps, ConsultRows
    <2>2. AnsweredOnce
      <3>1. \A v, w \in Works : sent[v] # Nobody /\ sent[w] # Nobody /\ ItemOf(v) = ItemOf(w)
               => v = w \/ history[v].discarded \/ history[w].discarded
        <4>1. \A w \in Works : sent[w] # Nobody => ItemOf(w) # Nobody
          BY DEF TeamInv, WorksOK, WorkOK, ItemOf
        <4>. QED  BY <4>1 DEF TeamInv, WorksOK
      <3>2. ASSUME NEW w \in Works PROVE Cardinality(history[w].sent) <= 1
        <4>1. \A a, b \in history[w].sent : a = b  BY DEF TeamInv, WorksOK, WorkOK
        <4>2. CASE history[w].sent = {}  BY <4>2, FS_EmptySet
        <4>3. CASE history[w].sent # {}
          <5>1. PICK a \in history[w].sent : history[w].sent = {a}  BY <4>1, <4>3
          <5>2. Cardinality({a}) = 1  BY FS_Singleton
          <5>. QED  BY <5>1, <5>2
        <4>. QED  BY <4>2, <4>3
      <3>. QED  BY <3>1, <3>2 DEF AnsweredOnce
    <2>3. DoneIsAnswered
      BY DEF DoneIsAnswered, TeamInv, OpenOK, WorksOK, WorkOK
    <2>4. AnswerIsKept
      <3> SUFFICES ASSUME NEW w \in Works, sent[w] # Nobody, ~history[w].discarded,
                          inbox[ItemOf(w)].state # "done"
                   PROVE  HasWork(w) /\ row.state = "responding" /\ row.response = sent[w]
        BY DEF AnswerIsKept
      <3>1. WorkOK(history[w], sent[w], evidence[w])  BY DEF TeamInv, WorksOK
      <3>2. HasWork(w)  BY <3>1 DEF TeamInv, OpenOK, WorkOK, ItemOf
      <3>3. RowOK(row, history[w])  BY <3>2 DEF TeamInv, WorksOK, HasWork
      <3>. QED  BY <3>1, <3>2, <3>3 DEF WorkOK, RowOK
    <2>. QED  BY <2>1, <2>2, <2>3, <2>4 DEF RepliesSafe
  <1>. QED  BY <1>1, TeamInvInit, TeamInvStep, PTL DEF TeamSpec

\* Whoever is asked, dies or answers late: what is sent as the answer of a local agent is what
\* that agent gave, and no agent is left with a question whose work is gone.
THEOREM ConsultsAreSafe == TeamSpec => []ConsultsSafe
  <1>1. TeamInv => ConsultsSafe
    <2> SUFFICES ASSUME TeamInv PROVE ConsultsSafe  OBVIOUS
    <2>1. ReplyIsTrue
      BY DEF ReplyIsTrue, TeamInv, WorksOK, WorkOK, FromSource, ItemOf
    <2>2. AskedForWork  BY DEF AskedForWork, TeamInv, ConsultOK
    <2>. QED  BY <2>1, <2>2 DEF ConsultsSafe
  <1>. QED  BY <1>1, TeamInvInit, TeamInvStep, PTL DEF TeamSpec
=============================================================================
