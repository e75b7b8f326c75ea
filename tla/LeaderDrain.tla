------------------------------ MODULE LeaderDrain ------------------------------
(***************************************************************************)
(* The drain of a previous leader's mailbox (agent_cockpit/b0_wiring.py,   *)
(* B0Coordinator.poll_once and _close_drain) over the binding store.       *)
(*                                                                         *)
(* The poller reads the active row, then the previous row it names, then   *)
(* the mailbox at the Hub, then the counters of the receipts, and then     *)
(* retires the mailbox in two writes, guarded by compare-and-set on the    *)
(* row it read.  Mails arrive, agents claim and complete them and leaders  *)
(* are rebound between any two of these.                                   *)
(***************************************************************************)
EXTENDS LeaderBinding

CONSTANTS
    Mails,          \* mails of the Hub
    Poller          \* the worker that polls

ASSUME DrainAssumption == Poller \in Workers

VARIABLES
    mail,       \* per mail: its mailbox, whether the Hub has it unread, its receipt
    due,        \* history: mails that reached a mailbox before it was last replaced
    poll        \* the poller: where it is, and the previous mailbox it is at

drainVars == <<mail, due, poll>>

ReceiptStates == {"none", "notified", "claimed", "processed", "stale", "failed"}
NotSent == [to |-> NoName, unread |-> FALSE, receipt |-> "none", ackPending |-> FALSE]
NoPoll == [at |-> "idle", name |-> NoName]

DrainInit ==
    /\ mail = [m \in Mails |-> NotSent]
    /\ due = {}
    /\ poll = NoPoll

-----------------------------------------------------------------------------
(* The Hub, and what is done with a mail (module Receipts has the detail).   *)

\* Somebody writes to a mailbox that leads or has led.
MailArrives(m, n) ==
    /\ mail[m].to = NoName /\ rows[n].state # "absent"
    /\ mail' = [mail EXCEPT ![m].to = n, ![m].unread = TRUE]
    /\ UNCHANGED <<due, poll>>

\* A receipt moves on: the mark of a prompt makes one, an agent that has fetched the mail
\* claims it, again when its claim lapsed, completes it or gives it up; a claim that the
\* gate rejects, a dismissal or a later mail makes it stale.
ReceiptMoves(m, to, ackPending) ==
    /\ mail[m].to # NoName /\ mail[m].unread
    /\ \/ mail[m].receipt = "none" /\ to = "notified" /\ ackPending
       \/ mail[m].receipt \notin {"processed", "stale"} /\ to = "claimed" /\ ~ackPending
       \/ mail[m].receipt = "claimed" /\ to = "processed" /\ ackPending
       \/ mail[m].receipt = "claimed" /\ to = "failed" /\ ackPending = mail[m].ackPending
       \/ mail[m].receipt # "processed" /\ to = "stale" /\ ackPending
    /\ mail' = [mail EXCEPT ![m].receipt = to, ![m].ackPending = ackPending]
    /\ UNCHANGED <<due, poll>>

\* acknowledge_message: the Hub takes the mail for read.
HubAcks(m) ==
    /\ mail[m].unread /\ mail[m].receipt \in {"processed", "stale"}
    /\ mail' = [mail EXCEPT ![m].unread = FALSE]
    /\ UNCHANGED <<due, poll>>

\* mark_acked follows, if its caller lives.
MarkAcked(m) ==
    /\ ~mail[m].unread /\ mail[m].ackPending
    /\ mail' = [mail EXCEPT ![m].ackPending = FALSE]
    /\ UNCHANGED <<due, poll>>

-----------------------------------------------------------------------------
(* The poller.                                                               *)

\* The row of the active binding names the previous one.
PollActive ==
    /\ poll = NoPoll
    /\ \E a \in ActiveNames : /\ rows[a].prevName # NoName
                              /\ poll' = [at |-> "row", name |-> rows[a].prevName]
    /\ UNCHANGED <<vars, mail, due>>

\* _identities_for: a previous mailbox is pulled while it is pending or draining.
PollPrevious ==
    /\ poll.at = "row"
    /\ IF rows[poll.name].prevState \in {"pending", "draining"}
       THEN ReadPrevious(Poller, poll.name) /\ poll' = [poll EXCEPT !.at = "fetch"]
       ELSE poll' = NoPoll /\ UNCHANGED vars
    /\ UNCHANGED <<mail, due>>

Unread(n) == {m \in Mails : mail[m].to = n /\ mail[m].unread}

\* fetch_inbox_for: only an empty inbox is a reason to look at the receipts.
FetchInbox ==
    /\ poll.at = "fetch"
    /\ poll' = IF Unread(poll.name) = {} THEN [poll EXCEPT !.at = "counters"] ELSE NoPoll
    /\ UNCHANGED <<vars, mail, due>>

\* Mutant of Outstanding: mails whose prompt is still to be answered do not count.
OutstandingClaimed(n) ==
    {m \in Mails : mail[m].to = n /\ (mail[m].receipt = "claimed" \/ mail[m].ackPending)}

\* receipt_drain_counters: mails that some counter counts.
Outstanding(n) ==
    {m \in Mails : mail[m].to = n /\
        (mail[m].receipt \notin {"none", "processed"} \/ mail[m].ackPending)}

ReadCounters ==
    /\ poll.at = "counters"
    /\ poll' = IF Outstanding(poll.name) = {} THEN [poll EXCEPT !.at = "drained"] ELSE NoPoll
    /\ UNCHANGED <<vars, mail, due>>

\* mark_previous_state; a row that has changed since it was read ends the attempt.
CloseDrain ==
    /\ poll.at = "drained"
    /\ \/ /\ MarkPrevious(Poller, poll.name, "drained", ZeroCounts)
          /\ poll' = [poll EXCEPT !.at = "closed"]
       \/ /\ ~(rows[poll.name].state = "previous" /\ DrainCAS(rows[poll.name], ctx[Poller]))
          /\ poll' = NoPoll /\ UNCHANGED vars
    /\ UNCHANGED <<mail, due>>

\* What the poller now expects of the row: what it has written.
ExpectDrained ==
    /\ poll.at = "closed"
    /\ ctx' = [ctx EXCEPT ![Poller].prevState = "drained", ![Poller].revision = @ + 1]
    /\ poll' = [poll EXCEPT !.at = "retire"]
    /\ UNCHANGED <<rows, order, migrations, events, seen, evidence, mail, due>>

RetireDrained ==
    /\ poll.at = "retire" /\ poll' = NoPoll
    /\ \/ Retire(Poller, poll.name)
       \/ ~(rows[poll.name].state = "previous" /\ DrainCAS(rows[poll.name], ctx[Poller]))
          /\ UNCHANGED vars
    /\ UNCHANGED <<mail, due>>

\* A read or a write fails, or the server dies: the next tick begins anew.
PollEnds ==
    /\ poll # NoPoll /\ poll' = NoPoll
    /\ UNCHANGED <<vars, mail, due>>

\* Other threads rebind the scope.
LeaderMoves ==
    /\ \/ \E c \in Callers : ReadActive(c)
       \/ \E c \in Callers, n \in Names, p \in Payloads : UpdateRoute(c, n, p) \/ Rebind(c, n, p)
    /\ due' = {m \in Mails : IF mail[m].to \in ActiveNames THEN mail[m].to \notin ActiveNames'
                             ELSE m \in due /\ mail[m].to \notin ActiveNames'}
    /\ UNCHANGED <<mail, poll>>

DrainNext ==
    \/ \E m \in Mails :
          /\ \/ \E n \in Names : MailArrives(m, n)
             \/ \E to \in ReceiptStates, ackPending \in BOOLEAN : ReceiptMoves(m, to, ackPending)
             \/ HubAcks(m) \/ MarkAcked(m)
          /\ UNCHANGED vars
    \/ PollActive \/ PollPrevious \/ FetchInbox \/ ReadCounters
    \/ CloseDrain \/ ExpectDrained \/ RetireDrained \/ PollEnds
    \/ LeaderMoves

DrainSpec == Init /\ DrainInit /\ [][DrainNext]_<<vars, drainVars>>

-----------------------------------------------------------------------------
DrainTypeOK ==
    /\ mail \in [Mails -> [to : Names \cup {NoName}, unread : BOOLEAN,
                            receipt : ReceiptStates, ackPending : BOOLEAN]]
    /\ due \subseteq Mails
    /\ poll \in [at : {"idle", "row", "fetch", "counters", "drained", "closed", "retire"},
                 name : Names \cup {NoName}]

\* A mailbox that counts as drained holds nothing that was sent to it as leader: each such
\* mail was processed and taken from the Hub's unread, however the leaders moved, mails
\* came in and claims changed hands while the poller looked.
NothingLeftBehind ==
    \A m \in due : LET row == rows[mail[m].to] IN
        row.state = "retired" \/ (row.state = "previous" /\ row.prevState = "drained") =>
            mail[m].receipt = "processed" /\ ~mail[m].unread

NoMailLost == DrainTypeOK /\ NothingLeftBehind
=============================================================================
