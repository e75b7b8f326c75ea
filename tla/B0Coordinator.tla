----------------------------- MODULE B0Coordinator -----------------------------
(***************************************************************************)
(* The leader-mail wiring (agent_cockpit/b0_wiring.py, and its hooks in    *)
(* server.py) around the deferred delivery core, for one scope.            *)
(*                                                                         *)
(* Three threads share the core: the message poller (sync, pull, ingest,   *)
(* flush), the live poller (target status, automatic rebind of a moved     *)
(* pane) and an API thread (rebind, then sync).  Each reads the active     *)
(* binding from the store, and acts on what it read some steps later.  A   *)
(* delivery runs inside the thread that started it: attempt marks, prompt, *)
(* delivered marks.  Marks are durable; everything else dies with the      *)
(* process.                                                                *)
(*                                                                         *)
(* The store appears as the version of its active row (LeaderBinding); the *)
(* route of a version is the version itself.  The Hub mailbox, the leader  *)
(* that empties it and herdr are external.                                 *)
(***************************************************************************)
EXTENDS Naturals, FiniteSets

CONSTANTS
    Msgs,               \* Hub messages to the leader
    Poller, Live, Api,  \* the threads
    NoThread,
    Faults,             \* kinds of fault explored: subset of {"mark", "clear", "timeout"}
    MaxVersion,         \* bound: binding versions
    MaxGeneration,      \* bound: binding switches of one process
    MaxFaults,          \* bound: faults
    MaxRestarts         \* bound: crashes of the process

ASSUME CoordinatorAssumption ==
    /\ Poller # Live /\ Live # Api /\ Api # Poller
    /\ NoThread \notin {Poller, Live, Api}
    /\ Faults \subseteq {"mark", "clear", "timeout"}
    /\ MaxVersion \in Nat \ {0} /\ MaxGeneration \in Nat
    /\ MaxFaults \in Nat /\ MaxRestarts \in Nat

Threads == {Poller, Live, Api}

VARIABLES
    \* the delivery core
    core, calls, handed, accepts,
    \* durable: the store's active version, the mailbox, the receipts' prompt marks
    db, mail, marker,
    \* B0Coordinator._seen, and the proof adapter: _pending_marks and, per thread, the
    \* progress of its deliver call
    seen, pendingMarks, job,
    \* the threads: where they are, the version they read, what the poller fetched
    pc, read, batch,
    \* history: prompts per message and route (saturating), messages that carried a
    \* mark when this process started
    prompts, markedAtStart,
    faults, restarts

coreVars == <<core, calls, handed, accepts>>
adapterVars == <<marker, pendingMarks, job, prompts>>
threadVars == <<pc, read, batch>>
bounds == <<markedAtStart, faults, restarts>>
vars == <<coreVars, db, mail, seen, adapterVars, threadVars, bounds>>

D == INSTANCE DeferredDelivery WITH EventIds <- Msgs, MaxStamp <- 1

Versions == 1..MaxVersion
MailStates == {"future", "unread", "taken"}     \* not sent, unread, claimed by the leader
Marks == {"attempt", "delivered"}               \* b0_prompt_attempt, b0_prompted
Places == { "idle", "sync", "set", "giveback", "rows", "fetch", "ingest", "flush",
            "live", "status" }
Stages == { "none", "recover", "attempt", "prompt", "accepted", "refused" }
NoJob == [stage |-> "none", todo |-> {}, failed |-> FALSE]

EventFor(m, v) == [id |-> m, version |-> v, stamp |-> 1]
Ids(t) == D!IdsOf(calls[t].events)
Calling(t) == calls[t].phase = "calling"
Marked(m) == marker[m] # {}                     \* is_prompted

\* A thread in a delivery is inside the adapter; it goes on when that has returned.
At(t, place) == pc[t] = place /\ D!Idle(t)
Goto(t, place) == pc' = [pc EXCEPT ![t] = place]

Fault(kind) ==
    /\ kind \in Faults /\ faults < MaxFaults
    /\ faults' = faults + 1
    /\ UNCHANGED <<markedAtStart, restarts>>

Start == [t \in Threads |-> IF t = Poller THEN "sync" ELSE "idle"]
Init ==
    /\ D!Init
    /\ db = 1
    /\ mail = [m \in Msgs |-> "future"]
    /\ marker = [m \in Msgs |-> {}]
    /\ seen = {}
    /\ pendingMarks = [m \in Msgs |-> {}]
    /\ job = [t \in Threads |-> NoJob]
    /\ pc = Start
    /\ read = [t \in Threads |-> 1]
    /\ batch = {}
    /\ prompts = [m \in Msgs |-> [v \in Versions |-> 0]]
    /\ markedAtStart = {}
    /\ faults = 0 /\ restarts = 0

-----------------------------------------------------------------------------
(* sync_bindings, by the poller and by the API after a rebind.              *)

\* The rows of the active bindings are read.
SyncRead(t) ==
    /\ At(t, "sync")
    /\ read' = [read EXCEPT ![t] = db]
    /\ Goto(t, "set")
    /\ UNCHANGED <<coreVars, db, mail, seen, adapterVars, batch, bounds>>

\* Mutant of SyncSet: a scope that has a version keeps it.
SyncSetFirst(t) ==
    /\ At(t, "set")
    /\ IF core.version # 0
       THEN UNCHANGED coreVars
       ELSE D!SetActiveBinding(t, read[t])
    /\ Goto(t, "giveback")
    /\ UNCHANGED <<db, mail, seen, adapterVars, read, batch, bounds>>

\* set_active_binding with the version that was read.
SyncSet(t) ==
    /\ At(t, "set")
    /\ IF read[t] = core.version
       THEN UNCHANGED coreVars
       ELSE D!SetActiveBinding(t, read[t])
    /\ Goto(t, "giveback")
    /\ UNCHANGED <<db, mail, seen, adapterVars, read, batch, bounds>>

\* The events it returned are ingested again; then the caller goes on.
SyncGiveBack(t) ==
    /\ At(t, "giveback")
    /\ IF handed[t] # {}
       THEN (\E e \in handed[t] : D!GiveBack(t, e)) /\ UNCHANGED pc
       ELSE Goto(t, IF t = Poller THEN "rows" ELSE "idle") /\ UNCHANGED coreVars
    /\ UNCHANGED <<db, mail, seen, adapterVars, read, batch, bounds>>

-----------------------------------------------------------------------------
(* poll_once                                                                *)

\* The rows are read again, for the version the messages are ingested under.
PollRead ==
    /\ At(Poller, "rows")
    /\ read' = [read EXCEPT ![Poller] = db]
    /\ Goto(Poller, "fetch")
    /\ UNCHANGED <<coreVars, db, mail, seen, adapterVars, batch, bounds>>

\* fetch_inbox_for: the unread messages.
Fetch ==
    /\ At(Poller, "fetch")
    /\ batch' = {m \in Msgs : mail[m] = "unread"}
    /\ Goto(Poller, "ingest")
    /\ UNCHANGED <<coreVars, db, mail, seen, adapterVars, read, bounds>>

\* Mutant of IngestMessage: the durable mark is not consulted.
IngestUnmarked(m) ==
    /\ At(Poller, "ingest")
    /\ m \in batch
    /\ batch' = batch \ {m}
    /\ seen' = seen \cup {m}
    /\ IF m \in seen \/ mail[m] = "taken"
       THEN UNCHANGED coreVars
       ELSE D!Produce(Poller, EventFor(m, read[Poller]))
    /\ UNCHANGED <<db, mail, adapterVars, pc, read, bounds>>

\* _ingest_message: a message this process has seen, or the receipts know as prompted
\* or claimed, is remembered and skipped; another goes to the core.
IngestMessage(m) ==
    /\ At(Poller, "ingest")
    /\ m \in batch
    /\ batch' = batch \ {m}
    /\ seen' = seen \cup {m}
    /\ IF m \in seen \/ Marked(m) \/ mail[m] = "taken"
       THEN UNCHANGED coreVars
       ELSE D!Produce(Poller, EventFor(m, read[Poller]))
    /\ UNCHANGED <<db, mail, adapterVars, pc, read, bounds>>

IngestDone ==
    /\ At(Poller, "ingest") /\ batch = {}
    /\ Goto(Poller, "flush")
    /\ UNCHANGED <<coreVars, db, mail, seen, adapterVars, read, batch, bounds>>

\* The periodic flush (a call that would deliver nothing changes nothing).
PollFlush ==
    /\ At(Poller, "flush")
    /\ D!Flush(Poller)
    /\ Goto(Poller, "sync")
    /\ UNCHANGED <<db, mail, seen, adapterVars, read, batch, bounds>>

\* The tick ends without a flush: the interval is not over, or nothing to deliver.
PollEnd ==
    /\ At(Poller, "flush")
    /\ Goto(Poller, "sync")
    /\ UNCHANGED <<coreVars, db, mail, seen, adapterVars, read, batch, bounds>>

-----------------------------------------------------------------------------
(* _ProofAdapter.deliver and HerdrPromptAdapter.deliver, in the thread of    *)
(* the delivery, with the core's lock released.                              *)

\* What an adapter step leaves alone, besides the core.
AdapterFrame == UNCHANGED <<db, mail, seen, threadVars>>

Job(t, stage, todo, failed) ==
    job' = [job EXCEPT ![t] = [stage |-> stage, todo |-> todo, failed |-> failed]]
Returned(t) == job' = [job EXCEPT ![t] = NoJob]

\* set_prompt_marker for each message of S: an upsert that keeps the other mark.
Mark(S, k) == marker' = [m \in Msgs |-> IF m \in S THEN marker[m] \cup {k} ELSE marker[m]]

\* Mutant of AdapterEnter: an event of the batch with accepted marks is enough.
EnterOnAnyMark(t) ==
    /\ Calling(t) /\ job[t].stage = "none"
    /\ LET accepted == \E m \in Ids(t) : pendingMarks[m] # {}
       IN  Job(t, IF accepted THEN "recover" ELSE "attempt", Ids(t), FALSE)
    /\ UNCHANGED <<coreVars, marker, pendingMarks, prompts, bounds>> /\ AdapterFrame

\* Only a batch all of whose events were accepted with failed marks is recovered.
AdapterEnter(t) ==
    /\ Calling(t) /\ job[t].stage = "none"
    /\ LET accepted == \A m \in Ids(t) : pendingMarks[m] # {}
       IN  Job(t, IF accepted THEN "recover" ELSE "attempt", Ids(t), FALSE)
    /\ UNCHANGED <<coreVars, marker, pendingMarks, prompts, bounds>> /\ AdapterFrame

\* The delivered marks of one event's earlier batch are written again; one of them
\* may fail, and then neither this event nor a later one leaves _pending_marks.
RecoverOne(t, m) ==
    /\ job[t].stage = "recover" /\ m \in job[t].todo
    /\ \/ /\ Mark(pendingMarks[m], "delivered")
          /\ pendingMarks' = IF job[t].failed THEN pendingMarks
                             ELSE [pendingMarks EXCEPT ![m] = {}]
          /\ Job(t, "recover", job[t].todo \ {m}, job[t].failed)
          /\ UNCHANGED bounds
       \/ /\ Fault("mark")
          /\ \E S \in (SUBSET pendingMarks[m]) \ {pendingMarks[m]} : Mark(S, "delivered")
          /\ Job(t, "recover", job[t].todo \ {m}, TRUE)
          /\ UNCHANGED pendingMarks
    /\ UNCHANGED <<coreVars, prompts>> /\ AdapterFrame

Recovered(t) ==
    /\ job[t].stage = "recover" /\ job[t].todo = {}
    /\ IF job[t].failed THEN D!AdapterRejects(t) ELSE D!AdapterAccepts(t)
    /\ Returned(t)
    /\ UNCHANGED <<marker, pendingMarks, prompts, bounds>> /\ AdapterFrame

\* Mutant of AttemptOne: the mark carries the key of the delivered phase.
AttemptOneAsDelivered(t, m) ==
    /\ job[t].stage = "attempt" /\ m \in job[t].todo
    /\ Mark({m}, "delivered")
    /\ Job(t, "attempt", job[t].todo \ {m}, FALSE)
    /\ UNCHANGED <<coreVars, pendingMarks, prompts, bounds>> /\ AdapterFrame

\* The attempt mark of one event; a failure ends the call without a prompt and
\* leaves the marks already written.
AttemptOne(t, m) ==
    /\ job[t].stage = "attempt" /\ m \in job[t].todo
    /\ \/ /\ Mark({m}, "attempt")
          /\ Job(t, "attempt", job[t].todo \ {m}, FALSE)
          /\ UNCHANGED <<coreVars, bounds>>
       \/ /\ Fault("mark")
          /\ D!AdapterRejects(t)
          /\ Returned(t)
          /\ UNCHANGED marker
    /\ UNCHANGED <<pendingMarks, prompts>> /\ AdapterFrame

\* Mutant of ReadyToPrompt: the attempt marks may still be being written.
PromptUnmarked(t) == job[t].stage = "attempt"
ReadyToPrompt(t) == job[t].stage = "attempt" /\ job[t].todo = {}

\* The prompt goes to the pane of the binding that is active now (_b0_binding_target),
\* whatever version the delivery was started for.
Prompted(t) ==
    prompts' = [m \in Msgs |->
        IF m \in Ids(t) /\ prompts[m][db] < 2
        THEN [prompts[m] EXCEPT ![db] = @ + 1] ELSE prompts[m]]

PromptAccepted(t) ==
    /\ ReadyToPrompt(t)
    /\ Prompted(t)
    /\ Job(t, "accepted", Ids(t), FALSE)
    /\ UNCHANGED <<coreVars, marker, pendingMarks, bounds>> /\ AdapterFrame

\* No target, or herdr reports an error: refused.  A prompt that timed out is
\* reported as an error too, though it may have reached the pane.
PromptRefused(t) ==
    /\ ReadyToPrompt(t)
    /\ \/ UNCHANGED <<prompts, bounds>>
       \/ Fault("timeout") /\ Prompted(t)
    /\ Job(t, "refused", Ids(t), FALSE)
    /\ UNCHANGED <<coreVars, marker, pendingMarks>> /\ AdapterFrame

\* clear_prompt_marker takes the attempt mark back; a failure is logged.
ClearOne(t, m) ==
    /\ job[t].stage = "refused" /\ m \in job[t].todo
    /\ Job(t, "refused", job[t].todo \ {m}, FALSE)
    /\ \/ marker' = [marker EXCEPT ![m] = @ \ {"attempt"}] /\ UNCHANGED bounds
       \/ Fault("clear") /\ UNCHANGED marker
    /\ UNCHANGED <<coreVars, pendingMarks, prompts>> /\ AdapterFrame

Refused(t) ==
    /\ job[t].stage = "refused" /\ job[t].todo = {}
    /\ D!AdapterRejects(t)
    /\ Returned(t)
    /\ UNCHANGED <<marker, pendingMarks, prompts, bounds>> /\ AdapterFrame

\* The delivered mark of one event; a failure is remembered and the others written.
DeliveredOne(t, m) ==
    /\ job[t].stage = "accepted" /\ m \in job[t].todo
    /\ \/ /\ Mark({m}, "delivered")
          /\ Job(t, "accepted", job[t].todo \ {m}, job[t].failed)
          /\ UNCHANGED bounds
       \/ /\ Fault("mark")
          /\ Job(t, "accepted", job[t].todo \ {m}, TRUE)
          /\ UNCHANGED marker
    /\ UNCHANGED <<coreVars, pendingMarks, prompts>> /\ AdapterFrame

\* With a mark missing the call fails, and the whole batch is to be marked again.
Accepted(t) ==
    /\ job[t].stage = "accepted" /\ job[t].todo = {}
    /\ IF job[t].failed
       THEN /\ D!AdapterRejects(t)
            /\ pendingMarks' = [m \in Msgs |-> IF m \in Ids(t) THEN Ids(t) ELSE pendingMarks[m]]
       ELSE D!AdapterAccepts(t) /\ UNCHANGED pendingMarks
    /\ Returned(t)
    /\ UNCHANGED <<marker, prompts, bounds>> /\ AdapterFrame

\* The core settles the result.
Settle(t) ==
    /\ D!Finish(t)
    /\ UNCHANGED <<adapterVars, bounds>> /\ AdapterFrame

Adapter(t) ==
    \/ AdapterEnter(t) \/ Recovered(t) \/ PromptAccepted(t) \/ PromptRefused(t)
    \/ Refused(t) \/ Accepted(t) \/ Settle(t)
    \/ \E m \in Msgs : RecoverOne(t, m) \/ AttemptOne(t, m) \/ ClearOne(t, m)
                       \/ DeliveredOne(t, m)

-----------------------------------------------------------------------------
(* The API's rebind and the live poller.                                    *)

\* api_binding_rebind: bind_leader under compare-and-set succeeds; then sync_bindings.
ApiRebind ==
    /\ At(Api, "idle")
    /\ db < MaxVersion
    /\ db' = db + 1
    /\ Goto(Api, "sync")
    /\ UNCHANGED <<coreVars, mail, seen, adapterVars, read, batch, bounds>>

\* _b0_apply_live_status reads the active bindings.
LiveRead ==
    /\ At(Live, "idle")
    /\ read' = [read EXCEPT ![Live] = db]
    /\ Goto(Live, "live")
    /\ UNCHANGED <<coreVars, db, mail, seen, adapterVars, batch, bounds>>

\* The pane is gone and the agent runs in another: the route is rebound, unless the
\* binding has changed since it was read.
LiveRebind ==
    /\ At(Live, "live")
    /\ read[Live] = db /\ db < MaxVersion
    /\ db' = db + 1
    /\ Goto(Live, "status")
    /\ UNCHANGED <<coreVars, mail, seen, adapterVars, read, batch, bounds>>

\* The status of the pane is given to the core, for whatever version it holds.
LiveStatus(s) ==
    /\ pc[Live] \in {"live", "status"}
    /\ D!SetTargetStatus(Live, s)
    /\ Goto(Live, "idle")
    /\ UNCHANGED <<db, mail, seen, adapterVars, read, batch, bounds>>

\* No pane, or no status.
LiveSkip ==
    /\ pc[Live] \in {"live", "status"} /\ D!Idle(Live)
    /\ Goto(Live, "idle")
    /\ UNCHANGED <<coreVars, db, mail, seen, adapterVars, read, batch, bounds>>

-----------------------------------------------------------------------------
(* The environment.                                                         *)

\* A participant sends the leader a message.
Send(m) ==
    /\ mail[m] = "future"
    /\ mail' = [mail EXCEPT ![m] = "unread"]
    /\ UNCHANGED <<coreVars, db, seen, adapterVars, threadVars, bounds>>

\* The leader claims its mail, prompted or not.
LeaderTakes(m) ==
    /\ mail[m] = "unread"
    /\ mail' = [mail EXCEPT ![m] = "taken"]
    /\ UNCHANGED <<coreVars, db, seen, adapterVars, threadVars, bounds>>

\* The process dies and starts again: _b0_rebuild_on_start is a first tick of the
\* poller on a new coordinator.
Restart ==
    /\ restarts < MaxRestarts
    /\ restarts' = restarts + 1
    /\ core' = D!NewCore /\ calls' = D!NoCalls
    /\ handed' = D!NoneHanded /\ accepts' = D!NoAccepts
    /\ seen' = {} /\ batch' = {}
    /\ pendingMarks' = [m \in Msgs |-> {}]
    /\ job' = [t \in Threads |-> NoJob]
    /\ pc' = Start /\ read' = [t \in Threads |-> 1]
    /\ markedAtStart' = {m \in Msgs : Marked(m)}
    /\ UNCHANGED <<db, mail, marker, prompts, faults>>

PollerStep ==
    \/ SyncRead(Poller) \/ SyncSet(Poller) \/ SyncGiveBack(Poller)
    \/ PollRead \/ Fetch \/ IngestDone \/ PollFlush \/ PollEnd
    \/ \E m \in Msgs : IngestMessage(m)

ApiStep == SyncRead(Api) \/ SyncSet(Api) \/ SyncGiveBack(Api)

LiveStep == LiveRead \/ LiveRebind \/ LiveSkip \/ \E s \in {"idle", "working"} : LiveStatus(s)

Next ==
    \/ PollerStep \/ ApiStep \/ ApiRebind \/ LiveStep
    \/ \E t \in Threads : Adapter(t)
    \/ \E m \in Msgs : Send(m) \/ LeaderTakes(m)
    \/ Restart

Spec == Init /\ [][Next]_vars

\* The poller runs on and flushes again and again, a thread finishes what it has
\* begun, and a prompt that is tried for ever is accepted at some time.
Fairness ==
    /\ WF_vars(PollerStep) /\ SF_vars(PollFlush)
    /\ WF_vars(ApiStep)
    /\ \A t \in Threads : WF_vars(Adapter(t)) /\ SF_vars(PromptAccepted(t))

FairSpec == Spec /\ Fairness

-----------------------------------------------------------------------------
TypeOK ==
    /\ D!TypeOK
    /\ db \in Versions
    /\ mail \in [Msgs -> MailStates]
    /\ marker \in [Msgs -> SUBSET Marks]
    /\ seen \subseteq Msgs
    /\ pendingMarks \in [Msgs -> SUBSET Msgs]
    /\ job \in [Threads -> [stage : Stages, todo : SUBSET Msgs, failed : BOOLEAN]]
    /\ \A t \in Threads : job[t].stage # "none" => Calling(t) /\ job[t].todo \subseteq Ids(t)
    /\ pc \in [Threads -> Places]
    /\ read \in [Threads -> Versions]
    /\ batch \subseteq Msgs
    /\ prompts \in [Msgs -> [Versions -> 0..2]]
    /\ markedAtStart \subseteq Msgs
    /\ faults \in 0..MaxFaults /\ restarts \in 0..MaxRestarts

\* "Zero loss": a message the coordinator will not look at again is in the core, on
\* its way back to it, or durably marked or claimed.
SeenIsKept ==
    \A m \in seen :
        \/ m \in D!Held
        \/ \E t \in Threads : m \in D!IdsOf(handed[t])
        \/ Marked(m) \/ mail[m] = "taken"

\* A delivered mark is a proof: the message was prompted, in this process or before.
NoFalseMark ==
    \A m \in Msgs : "delivered" \in marker[m] => \E v \in Versions : prompts[m][v] > 0
MarksAreTrue == TypeOK /\ NoFalseMark

\* However often the process dies, the leader is prompted once for a message and target,
\* as long as no mark fails to be written and no prompt times out.
PromptedOnce == faults = 0 => \A m \in Msgs, v \in Versions : prompts[m][v] <= 1

\* A message that carried a mark when the process started is not prompted by it:
\* a delivery whose outcome the crash hid is not repeated.
NoRepromptAfterRestart ==
    [][\A m \in markedAtStart : prompts'[m] = prompts[m]]_vars

\* Whatever order the readers of the store act in, the core ends at the version that
\* is active in the store: a stale reader that set the core back is overruled.
CatchesUp == <>[](core.version = db)

\* While the leader is free and no rebind takes place, a message that stays unread is
\* prompted or marked, even if the process dies meanwhile.
EventuallyPrompted ==
    <>[](core.status = "idle") /\ [](db = 1) =>
        \A m \in Msgs : mail[m] = "unread" ~>
            (mail[m] = "taken" \/ Marked(m) \/ \E v \in Versions : prompts[m][v] > 0)
=============================================================================
