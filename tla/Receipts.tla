------------------------------- MODULE Receipts -------------------------------
(***************************************************************************)
(* The receipts of one recipient (agent_cockpit/coordination.py, driven by *)
(* agent_mail_commands/mail_recv.py and the server): a message is claimed  *)
(* under a lease, checkpointed, completed or failed, superseded, dismissed *)
(* or paused, and the participant of the run follows.                      *)
(*                                                                         *)
(* Each operation is a transaction, except where the code reads before it  *)
(* opens one: the watcher of the leases, and the leader-mail wiring, which *)
(* keeps its prompt marks in the same rows (b0_wiring.py).                 *)
(***************************************************************************)
EXTENDS Naturals

CONSTANTS
    Msgs,           \* messages to the recipient
    Interrupts,     \* of these, the ones whose metadata names the run and an interrupt intent
    Supersedable,   \* messages that a newer message of an authorised sender supersedes
    Agents,         \* mail-recv processes of the recipient
    MaxTokens       \* bound: claims granted

ASSUME ReceiptsAssumption ==
    /\ Interrupts \subseteq Msgs
    /\ Supersedable \subseteq Msgs /\ Msgs # {}
    /\ MaxTokens \in Nat

VARIABLES
    stops,          \* interrupts whose intent is stop or redirect (NO_RESUME_INTENTS)
    rec,            \* rows of receipts
    participant,    \* participants.state of the recipient in the run
    run,            \* runs.state
    lease,          \* per process and message: the claim token it was given, 0 for none
    watch,          \* maintain_live_claims between its reads and its writes
    marking,        \* set_prompt_marker or clear_prompt_marker between read and write
    paneLive,       \* the agent's pane is in the snapshot and not done
    tokens,         \* tokens given so far
    \* history: messages request_pause was called for, the token of the last claim and
    \* of the settlement, what the wiring has written for a message
    paused, last, settled, wired

wiring == <<marking, wired>>
claims == <<lease, tokens, last>>
vars == <<stops, rec, participant, run, watch, paneLive, paused, settled, wiring, claims>>

-----------------------------------------------------------------------------
Tokens == 0..MaxTokens
States == {"none", "pending", "notified", "claimed", "processed", "failed", "stale"}
\* What checkpoint_json says: NULL, nothing of a step, a safe point, an uncertain step.
Steps == {"null", "none", "safe", "uncertain"}
MarkKinds == {"attempt", "delivered"}
Receipt == [ state : States, token : Tokens, lapsed : BOOLEAN, ack : BOOLEAN,
             bound : BOOLEAN, step : Steps, marks : SUBSET MarkKinds ]

NoReceipt == [ state |-> "none", token |-> 0, lapsed |-> FALSE, ack |-> FALSE,
               bound |-> FALSE, step |-> "null", marks |-> {} ]
NoWatch == [at |-> "idle", rows |-> {}, expired |-> {}]
NoMarking == [op |-> "none", msg |-> CHOOSE m \in Msgs : TRUE, row |-> NoReceipt]

Final(r) == r.state \in {"processed", "stale"}
Held(r) == r.state = "claimed" /\ ~r.lapsed
Claimable(r) == ~Final(r) /\ ~Held(r)
HoldsLease(a, m) == Held(rec[m]) /\ lease[a][m] = rec[m].token

Put(m, r) == rec' = [rec EXCEPT ![m] = r]

\* A row that leaves the claimed state gives the lease up.
Released(r) == [r EXCEPT !.token = 0, !.lapsed = FALSE]

Init ==
    /\ stops \in SUBSET Interrupts
    /\ rec = [m \in Msgs |-> NoReceipt]
    /\ participant = "working" /\ run = "active"
    /\ lease = [a \in Agents |-> [m \in Msgs |-> 0]]
    /\ watch = NoWatch /\ marking = NoMarking
    /\ paneLive = TRUE /\ tokens = 0
    /\ paused = {}
    /\ wired = [m \in Msgs |-> "new"]
    /\ last = [m \in Msgs |-> 0]
    /\ settled = [m \in Msgs |-> 0]

-----------------------------------------------------------------------------
(* mail-recv                                                                *)

\* Mutant of Superseded: a message that was processed is not spared.
SupersededAlways(r) == [r EXCEPT !.state = "stale", !.ack = TRUE]

\* The upsert that retires a row, unless it is processed.
Superseded(r) ==
    IF r.state = "processed" THEN r ELSE [r EXCEPT !.state = "stale", !.ack = TRUE]

\* observe_messages: a newer message of the batch retires the one it supersedes.
Observe(old) ==
    /\ old \in Supersedable
    /\ Put(old, Superseded(rec[old]))
    /\ UNCHANGED <<participant, run, watch, paneLive, paused, settled, wiring, claims>>

\* claim_message refuses what the control gate rejects; the flag for the Hub's
\* acknowledgement is set only in a new row.
ClaimRejected(m) ==
    /\ m \in stops /\ Claimable(rec[m])
    /\ Put(m, [rec[m] EXCEPT !.state = "stale", !.ack = @ \/ rec[m].state = "none"])
    /\ UNCHANGED <<participant, run, watch, paneLive, paused, settled, wiring, claims>>

\* The run is over, or not the message's run, or the message has expired.
ClaimStale(m) ==
    /\ Claimable(rec[m])
    /\ Put(m, [Released(rec[m]) EXCEPT !.state = "stale", !.ack = TRUE,
                  !.bound = @ \/ m \in Interrupts \/ run = "active",
                  !.step = IF @ = "null" THEN "safe" ELSE @])
    /\ UNCHANGED <<participant, run, watch, paneLive, paused, settled, wiring, claims>>

\* The row of a granted claim: an earlier checkpoint is kept.
Claimed(m, k) ==
    [rec[m] EXCEPT !.state = "claimed", !.token = k, !.lapsed = FALSE, !.ack = FALSE,
                   !.bound = (run = "active"), !.step = IF @ = "null" THEN "safe" ELSE @]

\* claim_message grants a lease, also on a claim that has lapsed or failed.
Claim(a, m) ==
    /\ Claimable(rec[m])
    /\ m \in Interrupts => run = "active"
    /\ tokens < MaxTokens
    /\ tokens' = tokens + 1
    /\ Put(m, Claimed(m, tokens + 1))
    /\ lease' = [lease EXCEPT ![a][m] = tokens + 1]
    /\ last' = [last EXCEPT ![m] = tokens + 1]
    /\ participant' = IF m \in Interrupts THEN "handling_interrupt" ELSE participant
    /\ UNCHANGED <<run, watch, paneLive, paused, settled, wiring>>

\* checkpoint_message: under the lease, or once the message is processed.
Checkpoint(a, m, safe) ==
    /\ HoldsLease(a, m) \/ (rec[m].state = "processed" /\ lease[a][m] # 0)
    /\ Put(m, [rec[m] EXCEPT !.step = IF safe THEN "safe" ELSE "uncertain"])
    /\ UNCHANGED <<participant, run, watch, paneLive, paused, settled, wiring, claims>>

\* What the participant does after the message.
After(m) ==
    CASE m \in stops -> "stopped"
      [] m \in Interrupts \ stops -> "resume_pending"
      [] OTHER -> "working"

\* Mutant of Settles: the token of an earlier claim of the process is as good.
SettlesAnyToken(a, m) == Held(rec[m]) /\ lease[a][m] # 0
Settles(a, m) == HoldsLease(a, m)

\* complete_message
Complete(a, m) ==
    /\ Settles(a, m)
    /\ Put(m, [Released(rec[m]) EXCEPT !.state = "processed", !.ack = TRUE])
    /\ participant' = IF rec[m].bound THEN After(m) ELSE participant
    /\ settled' = [settled EXCEPT ![m] = lease[a][m]]
    /\ UNCHANGED <<run, watch, paneLive, paused, wiring, claims>>

\* fail_message: the message can be claimed again.
Fail(a, m) ==
    /\ Settles(a, m)
    /\ Put(m, [Released(rec[m]) EXCEPT !.state = "failed"])
    /\ participant' = IF rec[m].bound THEN "working" ELSE participant
    /\ settled' = [settled EXCEPT ![m] = lease[a][m]]
    /\ UNCHANGED <<run, watch, paneLive, paused, wiring, claims>>

\* resume_message: the run goes on unless the checkpoint is uncertain.
Resume(m) ==
    /\ rec[m].state = "processed" /\ m \notin stops
    /\ rec[m].bound /\ run = "active"
    /\ rec[m].step # "uncertain"
    /\ participant' = "working"
    /\ UNCHANGED <<rec, run, watch, paneLive, paused, settled, wiring, claims>>

\* The Hub has acknowledged a message that is over, and mark_acked records it.
MarkAcked(m) ==
    /\ Final(rec[m]) /\ rec[m].ack
    /\ Put(m, [rec[m] EXCEPT !.ack = FALSE])
    /\ UNCHANGED <<participant, run, watch, paneLive, paused, settled, wiring, claims>>

-----------------------------------------------------------------------------
(* The server                                                               *)

\* dismiss_message: the user has acknowledged the message in the interface.
Dismiss(m) ==
    /\ Put(m, [Superseded(rec[m]) EXCEPT !.ack = TRUE])
    /\ UNCHANGED <<participant, run, watch, paneLive, paused, settled, wiring, claims>>

\* request_pause, when an interrupt has been sent: a checkpoint taken from outside
\* replaces the row's, hard or soft.
RequestPause(m, hard) ==
    /\ m \in Interrupts \ paused /\ run = "active"
    /\ paused' = paused \cup {m}
    /\ Put(m, [rec[m] EXCEPT !.state = IF @ = "none" THEN "pending" ELSE @,
                             !.bound = @ \/ rec[m].state = "none",
                             !.step = IF hard THEN "uncertain" ELSE "safe", !.marks = {}])
    /\ participant' = "pause_requested"
    /\ UNCHANGED <<run, watch, paneLive, settled, wiring, claims>>

\* close_session
CloseSession ==
    /\ run = "active"
    /\ run' = "closed" /\ participant' = "closed"
    /\ UNCHANGED <<rec, watch, paneLive, paused, settled, wiring, claims>>

\* maintain_live_claims reads the claimed rows of runs whose pane is live.
WatchRead ==
    /\ watch.at = "idle"
    /\ watch' = [NoWatch EXCEPT !.at = "renew",
            !.rows = IF paneLive THEN {m \in Msgs : rec[m].state = "claimed" /\ rec[m].bound}
                     ELSE {}]
    /\ UNCHANGED <<rec, participant, run, paneLive, paused, settled, wiring, claims>>

Expired(rows) == {m \in Msgs : rows[m].state = "claimed" /\ rows[m].lapsed}
Requeued(rows) == [m \in Msgs |-> IF m \in Expired(rows)
                        THEN [Released(rows[m]) EXCEPT !.state = "pending"] ELSE rows[m]]
Resumed(expired, rows) ==
    IF participant = "handling_interrupt" /\ \E m \in expired : rows[m].bound
    THEN "working" ELSE participant

\* Mutant of WatchRenew: the pane of the run is not looked at.
WatchRenewAll ==
    /\ watch.at = "renew"
    /\ rec' = [m \in Msgs |-> [rec[m] EXCEPT !.lapsed = FALSE]]
    /\ watch' = NoWatch
    /\ UNCHANGED <<participant, run, paneLive, paused, settled, wiring, claims>>

\* It renews them by key; with a row renewed the transaction is open, and the expired
\* claims are read and taken back in it; with none they are only read.
WatchRenew ==
    /\ watch.at = "renew"
    /\ LET rows == [m \in Msgs |-> IF m \in watch.rows /\ rec[m].state = "claimed"
                                   THEN [rec[m] EXCEPT !.lapsed = FALSE] ELSE rec[m]]
       IN  IF watch.rows # {}
           THEN /\ rec' = Requeued(rows)
                /\ participant' = Resumed(Expired(rows), rows)
                /\ watch' = NoWatch
           ELSE /\ watch' = [NoWatch EXCEPT !.at = "expire", !.expired = Expired(rec)]
                /\ UNCHANGED <<rec, participant>>
    /\ UNCHANGED <<run, paneLive, paused, settled, wiring, claims>>

WatchExpire ==
    /\ watch.at = "expire"
    /\ rec' = Requeued(rec)
    /\ participant' = Resumed(watch.expired, rec)
    /\ watch' = NoWatch
    /\ UNCHANGED <<run, paneLive, paused, settled, wiring, claims>>

-----------------------------------------------------------------------------
(* The prompt marks of the leader-mail wiring                               *)

\* set_prompt_marker and clear_prompt_marker read the row outside a transaction.
MarkRead(op, m) ==
    /\ marking.op = "none"
    /\ wired[m] = IF op = "attempt" THEN "new" ELSE "attempt"
    /\ marking' = [op |-> op, msg |-> m, row |-> rec[m]]
    /\ UNCHANGED <<rec, participant, run, watch, paneLive, paused, settled, wired, claims>>

\* Then they write the checkpoint they read with the mark changed.  A row that has
\* appeared meanwhile makes the insert fail.
MarkWrite ==
    LET m == marking.msg
        r == marking.row
        marks == IF marking.op = "clear" THEN r.marks \ {"attempt"}
                 ELSE r.marks \cup {marking.op}
        step == IF r.step = "null" THEN "none" ELSE r.step
        fails == r.state = "none" /\ rec[m].state # "none"
        nothing == marking.op = "clear" /\ "attempt" \notin r.marks
    IN  /\ marking.op # "none"
        /\ marking' = NoMarking
        /\ CASE fails \/ nothing -> UNCHANGED rec
             [] r.state = "none" /\ ~fails /\ ~nothing ->
                    Put(m, [rec[m] EXCEPT !.state = "notified", !.ack = TRUE,
                                          !.step = "none", !.marks = marks])
             [] OTHER -> Put(m, [rec[m] EXCEPT !.step = step, !.marks = marks])
        /\ wired' = IF fails THEN wired
                    ELSE [wired EXCEPT ![m] = IF marking.op = "clear" THEN "new" ELSE marking.op]
        /\ UNCHANGED <<participant, run, watch, paneLive, paused, settled, claims>>

-----------------------------------------------------------------------------
\* A lease runs out.
Lapse(m) ==
    /\ Held(rec[m])
    /\ Put(m, [rec[m] EXCEPT !.lapsed = TRUE])
    /\ UNCHANGED <<participant, run, watch, paneLive, paused, settled, wiring, claims>>

\* The agent's pane finishes, or disappears.
PaneEnds ==
    /\ paneLive
    /\ paneLive' = FALSE
    /\ UNCHANGED <<rec, participant, run, watch, paused, settled, wiring, claims>>

Watch == WatchRead \/ WatchRenew \/ WatchExpire

Step ==
    \/ \E a \in Agents, m \in Msgs : Claim(a, m) \/ Complete(a, m) \/ Fail(a, m)
    \/ \E a \in Agents, m \in Msgs, safe \in BOOLEAN : Checkpoint(a, m, safe)
    \/ \E m \in Msgs : \/ Observe(m) \/ ClaimRejected(m) \/ ClaimStale(m) \/ Resume(m)
                       \/ MarkAcked(m) \/ Dismiss(m) \/ Lapse(m)
    \/ \E m \in Msgs, hard \in BOOLEAN : RequestPause(m, hard)
    \/ \E op \in MarkKinds \cup {"clear"}, m \in Msgs : MarkRead(op, m)
    \/ MarkWrite \/ CloseSession \/ PaneEnds
    \/ Watch

\* The intent of a message never changes.
Next == UNCHANGED stops /\ Step

Spec == Init /\ [][Next]_vars

\* Time passes, and the live poller calls the watcher in every round.
Fairness == /\ WF_vars(Watch /\ UNCHANGED stops)
            /\ \A m \in Msgs : WF_vars(Lapse(m) /\ UNCHANGED stops)
FairSpec == Spec /\ Fairness

-----------------------------------------------------------------------------
KindsOK == stops \subseteq Interrupts
TypeOK ==
    /\ rec \in [Msgs -> Receipt]
    /\ \A m \in Msgs : rec[m].token # 0 => rec[m].state \in {"claimed", "stale"}
    /\ participant \in { "working", "handling_interrupt", "pause_requested",
                         "resume_pending", "stopped", "closed" }
    /\ run \in {"active", "closed"}
    /\ lease \in [Agents -> [Msgs -> Tokens]]
    /\ watch \in [at : {"idle", "renew", "expire"}, rows : SUBSET Msgs, expired : SUBSET Msgs]
    /\ marking \in [op : MarkKinds \cup {"none", "clear"}, msg : Msgs, row : Receipt]
    /\ paneLive \in BOOLEAN /\ tokens \in Tokens
    /\ paused \subseteq Msgs
    /\ wired \in [Msgs -> MarkKinds \cup {"new"}]
    /\ last \in [Msgs -> Tokens] /\ settled \in [Msgs -> Tokens]

\* mail-recv acknowledges to the Hub what it may not work on and what is flagged: no
\* message somebody works on, or may still claim, is flagged by its receipt, unless
\* the row was made only to carry a prompt mark.
AckIsSettled ==
    \A m \in Msgs : rec[m].ack => rec[m].state \in {"processed", "stale", "notified"}

\* A lease is fenced: whoever completed or failed a message held the last claim of it,
\* however many claims had lapsed and been granted again.
FencedSettlement ==
    \A m \in Msgs : rec[m].state \in {"processed", "failed"} =>
        settled[m] = last[m] /\ settled[m] # 0

\* Rows, flags and tokens agree.
ReceiptsSafe == KindsOK /\ TypeOK /\ AckIsSettled /\ FencedSettlement

\* Effectively once: a processed message is never work again, whatever supersedes,
\* dismisses, pauses or marks it later.
ProcessedIsFinal ==
    [][\A m \in Msgs : rec[m].state = "processed" =>
          rec'[m].state = "processed" /\ last'[m] = last[m]]_vars

\* When the pane has gone for good, no claim is left to the process that died with it.
ClaimReleased ==
    \A m \in Msgs : <>[]~paneLive => []<>(rec[m].state # "claimed")

\* An uncertain step blocks the resumption until the agent has looked at it and calls
\* it safe: nothing else turns the step into a safe one.
UnsafeIsKept ==
    [][\A m \in Msgs : rec[m].step = "uncertain" =>
          rec'[m].step = "uncertain" \/ \E a \in Agents : Checkpoint(a, m, TRUE)]_vars
=============================================================================
