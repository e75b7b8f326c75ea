----------------------------- MODULE ControlFanout -----------------------------
(***************************************************************************)
(* The fanout of control events (agent_cockpit/b0_wiring.py,               *)
(* B0Coordinator.fanout_control_events) over the binding store.            *)
(*                                                                         *)
(* Each tick of the poller takes the oldest events of the outbox that are  *)
(* not fanned out.  An event is first prompted to the leader, through the  *)
(* deferred core, then sent as a mail to the participants of the runs,     *)
(* project by project, and at last marked in the outbox.  Each of the      *)
(* three leaves a durable mark, any of which may fail to be written; a     *)
(* mail may reach some of the projects only; and the server may die        *)
(* between any two of these.  The core's delivery is one step here;        *)
(* B0Coordinator has its detail.                                           *)
(***************************************************************************)
EXTENDS LeaderBinding

CONSTANTS
    Projects,       \* projects that have participants in a run at some time
    FanoutLimit,    \* undelivered_control_events: events of one tick
    MaxEvents,      \* bound: events in the outbox
    MaxFaults       \* bound: marks and mails that fail, and deaths of the server

ASSUME FanoutAssumption ==
    FanoutLimit \in Nat \ {0} /\ MaxEvents \in Nat /\ MaxFaults \in Nat

VARIABLES
    control,    \* per event: its durable marks, and what was done with it
    tick,       \* the poller: where it is, and the events it has before it
    known,      \* active_binding_version of the core; 0 in a new process
    queued,     \* events pending in the core
    proof,      \* _ProofAdapter.proof: events this process has proved delivered
    unmarked,   \* _ProofAdapter._pending_marks: prompted, their mark is missing
    faults

fanoutVars == <<control, tick, known, queued, proof, unmarked, faults>>

EventIds == 1..MaxEvents
Idle == [at |-> "idle", batch |-> << >>]

\* mark and transported are receipts of /b0/control, fanned is a column of the outbox;
\* the rest is history: a prompt was accepted, or cut short; the mark of an attempt that
\* was never made stayed behind; the mails to each project; whether one transport reached
\* all the participants of its time; the transports that mailed somebody and left no mark.
NewControl == [ mark |-> "none", transported |-> FALSE, fanned |-> FALSE,
                prompted |-> FALSE, stranded |-> FALSE,
                sent |-> [p \in Projects |-> 0], reached |-> FALSE, lost |-> 0 ]

FanoutInit ==
    /\ control = [e \in EventIds |-> NewControl]
    /\ tick = Idle /\ known = 0
    /\ queued = {} /\ proof = {} /\ unmarked = {}
    /\ faults = 0

-----------------------------------------------------------------------------
Fault == faults < MaxFaults /\ faults' = faults + 1

Undelivered == {e \in DOMAIN events : ~control[e].fanned}

\* undelivered_control_events: the oldest of them in seq order, as many as fit.
IsOldest(batch) ==
    /\ \A i, j \in DOMAIN batch : i < j => batch[i] < batch[j]
    /\ \A e \in Undelivered : (\A i \in DOMAIN batch : batch[i] # e) =>
           Len(batch) = FanoutLimit /\ \A i \in DOMAIN batch : batch[i] < e

At(e, at) == tick.at = at /\ e = Head(tick.batch)
GoTo(at) == tick' = [tick EXCEPT !.at = at]
NextEvent ==
    tick' = IF Len(tick.batch) = 1 THEN Idle
            ELSE [at |-> "event", batch |-> Tail(tick.batch)]

\* sync_bindings, of the poller or of a rebind's request.  What waits in the core is
\* put to it again under the new version.
SyncBindings ==
    /\ ActiveNames # {} /\ known' = ActiveVersion
    /\ UNCHANGED <<control, tick, queued, proof, unmarked, faults>>

ReadEvents ==
    /\ tick = Idle /\ known # 0
    /\ \E n \in 1..FanoutLimit : \E batch \in [1..n -> Undelivered] :
          IsOldest(batch) /\ tick' = [at |-> "event", batch |-> batch]
    /\ UNCHANGED <<control, known, queued, proof, unmarked, faults>>

\* An event with a mark is taken for prompted; any other is put to the core, which
\* drops it when it is of another version than the core's.
IngestEvent(e) ==
    /\ At(e, "event")
    /\ IF control[e].mark # "none"
       THEN GoTo("transport") /\ UNCHANGED queued
       ELSE /\ GoTo("proof")
            /\ queued' = IF events[e].version = known THEN queued \cup {e} ELSE queued
    /\ UNCHANGED <<control, known, proof, unmarked, faults>>

\* The marks of a prompt that was accepted (or may have been).
Marked(E, mark) ==
    [e \in EventIds |-> IF e \in E THEN [control[e] EXCEPT !.mark = mark, !.prompted = TRUE]
                        ELSE control[e]]

\* The leader takes the prompt of all that is queued, and each gets its mark.  When all
\* of it was prompted before, only the marks are written.
DeliverAccepted ==
    /\ queued # {} /\ known # 0
    /\ control' = Marked(queued, "delivered")
    /\ proof' = proof \cup queued /\ unmarked' = unmarked \ queued /\ queued' = {}
    /\ UNCHANGED <<tick, known, faults>>

\* Some of those marks are not written, and nothing of the batch counts as delivered;
\* where only marks were missing, those written before the first failure do.
DeliverUnmarked ==
    /\ queued # {} /\ known # 0 /\ Fault
    /\ \E F \in (SUBSET queued) \ {{}} :
          /\ control' = [e \in EventIds |->
                 IF e \notin F THEN Marked(queued, "delivered")[e]
                 ELSE Marked(queued, IF control[e].mark = "none" THEN "attempt"
                                     ELSE control[e].mark)[e]]
          /\ \E P \in IF queued \subseteq unmarked THEN SUBSET (queued \ F) ELSE {{}} :
                proof' = proof \cup P /\ unmarked' = (unmarked \cup queued) \ P
    /\ UNCHANGED <<tick, known, queued>>

\* The prompt is refused, and the attempts are cleared.
DeliverRefused ==
    /\ queued \ unmarked # {} /\ known # 0
    /\ control' = [e \in EventIds |->
           IF e \in queued /\ control[e].mark = "attempt" THEN [control[e] EXCEPT !.mark = "none"]
           ELSE control[e]]
    /\ UNCHANGED <<tick, known, queued, proof, unmarked, faults>>

\* No prompt is made, as one attempt could not be marked, or it is refused and an
\* attempt cannot be cleared: marks of attempts stay behind.
DeliverStranded ==
    /\ queued \ unmarked # {} /\ known # 0 /\ Fault
    /\ \E E \in SUBSET {e \in queued : control[e].mark = "none"} \ {{}} :
          control' = [e \in EventIds |->
              IF e \in E THEN [control[e] EXCEPT !.mark = "attempt", !.stranded = TRUE]
              ELSE control[e]]
    /\ UNCHANGED <<tick, known, queued, proof, unmarked>>

\* delivered_proof
CheckProof(e) ==
    /\ At(e, "proof")
    /\ IF e \in proof THEN GoTo("transport") ELSE NextEvent
    /\ UNCHANGED <<control, known, queued, proof, unmarked, faults>>

\* send_control_message_to_participants: a mail to each of the projects parts that have
\* participants.  One that fails does not stop the others, and perhaps only its answer was
\* lost: the mail got to the projects got, and is known to have got to those of ok.
Send(c, parts, got, ok) ==
    [c EXCEPT !.sent = [p \in Projects |-> IF p \in got THEN c.sent[p] + 1 ELSE c.sent[p]],
              !.reached = c.reached \/ ok = parts,
              !.lost = IF ok # parts /\ got # {} THEN c.lost + 1 ELSE c.lost]

\* Mutant of Transport: the mark of an earlier transport is not looked at.
TransportAgain(e) ==
    /\ At(e, "transport")
    /\ \/ NextEvent /\ UNCHANGED <<control, faults>>
       \/ /\ ActiveNames # {}
          /\ \E parts \in SUBSET Projects : \E got \in SUBSET parts : \E ok \in SUBSET got :
                /\ control' = [control EXCEPT ![e] = Send(control[e], parts, got, ok)]
                /\ IF ok = parts THEN GoTo("note") ELSE NextEvent
                /\ IF ok # parts /\ got # {} THEN Fault ELSE UNCHANGED faults
    /\ UNCHANGED <<known, queued, proof, unmarked>>

\* The mail to the participants is sent in the leader's name, unless it was.  It counts as
\* sent when every project's was; when one failed, or none could be sent, the event waits
\* for the next tick without a mark, and all of it is sent again.
Transport(e) ==
    /\ At(e, "transport")
    /\ \/ control[e].transported /\ GoTo("fan") /\ UNCHANGED <<control, faults>>
       \/ ~control[e].transported /\ NextEvent /\ UNCHANGED <<control, faults>>
       \/ /\ ~control[e].transported /\ ActiveNames # {}
          /\ \E parts \in SUBSET Projects : \E got \in SUBSET parts : \E ok \in SUBSET got :
                /\ control' = [control EXCEPT ![e] = Send(control[e], parts, got, ok)]
                /\ IF ok = parts THEN GoTo("note") ELSE NextEvent
                /\ IF ok # parts /\ got # {} THEN Fault ELSE UNCHANGED faults
    /\ UNCHANGED <<known, queued, proof, unmarked>>

\* set_ctl_transport_mark; that it fails is only logged.
NoteTransport(e) ==
    /\ At(e, "note") /\ GoTo("fan")
    /\ \/ control' = [control EXCEPT ![e].transported = TRUE] /\ UNCHANGED faults
       \/ Fault /\ control' = [control EXCEPT ![e].lost = @ + 1]
    /\ UNCHANGED <<known, queued, proof, unmarked>>

\* mark_event_fanned_out
MarkFannedOut(e) ==
    /\ At(e, "fan") /\ NextEvent
    /\ \/ control' = [control EXCEPT ![e].fanned = TRUE] /\ UNCHANGED faults
       \/ Fault /\ UNCHANGED control
    /\ UNCHANGED <<known, queued, proof, unmarked>>

\* The server dies: perhaps after some of the mails, or after all and before their mark,
\* perhaps within a prompt.
FanoutCrash ==
    /\ Fault
    /\ \E E \in {{}, queued}, got \in IF ActiveNames # {} THEN SUBSET Projects ELSE {{}} :
          control' = [e \in EventIds |->
              LET c == IF e \in E /\ control[e].mark = "none" THEN Marked(E, "attempt")[e]
                       ELSE control[e]
              IN  IF tick.batch # << >> /\ At(e, "note") THEN [c EXCEPT !.lost = @ + 1]
                  ELSE IF tick.batch # << >> /\ At(e, "transport") /\ ~c.transported /\ got # {}
                  THEN Send(c, got, got, {}) ELSE c]
    /\ tick' = Idle /\ known' = 0
    /\ queued' = {} /\ proof' = {} /\ unmarked' = {}

FanoutStep(e) ==
    \/ IngestEvent(e) \/ CheckProof(e) \/ Transport(e) \/ NoteTransport(e) \/ MarkFannedOut(e)

\* The tick, the core's threads, and the store that moves on meanwhile.
FanoutNext ==
    \/ /\ \/ SyncBindings \/ ReadEvents
          \/ tick.batch # << >> /\ FanoutStep(Head(tick.batch))
          \/ DeliverAccepted \/ DeliverUnmarked \/ DeliverRefused \/ DeliverStranded \/ FanoutCrash
       /\ UNCHANGED vars
    \/ Next /\ Len(events') <= MaxEvents /\ UNCHANGED fanoutVars

FanoutSpec == Init /\ FanoutInit /\ [][FanoutNext]_<<vars, fanoutVars>>

-----------------------------------------------------------------------------
FanoutTypeOK ==
    /\ control \in [EventIds ->
          [ mark : {"none", "attempt", "delivered"}, transported : BOOLEAN, fanned : BOOLEAN,
            prompted : BOOLEAN, stranded : BOOLEAN,
            sent : [Projects -> Nat], reached : BOOLEAN, lost : Nat ]]
    /\ tick \in [ at : {"idle", "event", "proof", "transport", "note", "fan"},
                  batch : Seq(EventIds) ]
    /\ tick.batch = << >> <=> tick = Idle
    /\ known \in 0..MaxVersion /\ faults \in 0..MaxFaults
    /\ queued \subseteq EventIds /\ proof \subseteq EventIds /\ unmarked \subseteq EventIds

\* An event that is taken out of the outbox was sent to the participants, with one transport
\* that reached every project, and prompted to the leader as far as its marks can tell: no
\* order of failures, partial ones too, of restarts and rebinds skips one of the two.
FannedIsDone ==
    \A e \in EventIds : control[e].fanned =>
        control[e].reached /\ (control[e].prompted \/ control[e].stranded)

\* A project gets the mail of a control event once, and once more at most for each transport
\* that mailed somebody and then failed, was cut short, or could not be marked: the failure
\* of any other mark, or a restart after it, does not send it again.
SentOnce ==
    \A e \in EventIds, p \in Projects :
        control[e].sent[p] <= 1 + control[e].lost

FanoutSafe == FanoutTypeOK /\ FannedIsDone /\ SentOnce
=============================================================================
