---------------------------- MODULE OperationJournal ----------------------------
(***************************************************************************)
(* One operation of the operation journal (agent_cockpit/operation_store.py) *)
(* and the callers that move it.  A caller reads the projection and, some  *)
(* time later, calls a writer with the revision it read; the writer is     *)
(* refused, and changes nothing, when the row has moved on.  A call that   *)
(* is repeated with the receipt of one that was recorded changes nothing   *)
(* either.                                                                 *)
(***************************************************************************)
EXTENDS OperationRows, FiniteSets

CONSTANTS
    Steps,      \* the steps of the plan
    Codes,      \* failure codes callers report
    Callers     \* threads and processes that share the journal

\* No caller reports a code the journal reserves for attempts that were not executed:
\* the validator would take its row for corrupt from then on.
ASSUME JournalAssumption ==
    /\ Codes # {} /\ Codes \cap (Reserved \cup {"none"}) = {}
    /\ Steps # {}

VARIABLES
    op,         \* the rows of the operation
    known       \* per caller: the revision it has read

journalVars == <<op, known>>

JournalInit ==
    /\ \E compensable \in SUBSET Steps : op = PlannedRow(Steps, compensable)
    /\ known = [c \in Callers |-> 1]

\* get_operation
Read(c) ==
    /\ known[c] # op.revision
    /\ known' = [known EXCEPT ![c] = op.revision]
    /\ UNCHANGED op

\* A writer's compare-and-set on the revision; the caller gets the new projection.
Write(c, row) ==
    /\ known[c] = op.revision
    /\ op' = row
    /\ known' = [known EXCEPT ![c] = row.revision]

Transition(c, status, code) ==
    CanTransition(op, status) /\ Write(c, Transitioned(op, status, code))

PrepareAttempt(c, s, mode) == CanPrepare(op, s, mode) /\ Write(c, PreparedRow(op, s, mode))

DispatchAttempt(c, s) == CanDispatch(op, s) /\ Write(c, DispatchedRow(op, s))

RecordOutcome(c, s, outcome, code) ==
    CanRecord(op, s) /\ Write(c, RecordedRow(op, s, outcome, code))

RecordNotExecuted(c, s) == CanReconcile(op, s) /\ Write(c, ReconciledRow(op, s))

JournalNext ==
    \E c \in Callers :
        \/ Read(c)
        \/ \E status \in OperationStatuses, code \in Codes : Transition(c, status, code)
        \/ \E s \in Steps, mode \in Modes : PrepareAttempt(c, s, mode)
        \/ \E s \in Steps : DispatchAttempt(c, s) \/ RecordNotExecuted(c, s)
        \/ \E s \in Steps, outcome \in Outcomes, code \in Codes :
               RecordOutcome(c, s, outcome, code)

JournalSpec == JournalInit /\ [][JournalNext]_journalVars

-----------------------------------------------------------------------------
Attempt == [ mode : Modes, status : AttemptStatuses, failure : Codes \cup Reserved \cup {"none"},
             receipts : Seq(ReceiptOutcomes) ]

JournalTypeOK ==
    /\ op \in [ status : OperationStatuses, failure : Codes \cup {"none"}, attention : BOOLEAN,
                revision : Nat \ {0}, compensable : SUBSET Steps,
                steps : [Steps -> [status : StepStatuses, active : Nat]],
                attempts : [Steps -> Seq(Attempt)] ]
    /\ known \in [Callers -> Nat]

(* _validate_materialized_projection, which every reader and writer runs on what is  *)
(* stored, and which refuses the whole operation for ever when it does not hold.     *)

\* The header agrees with the status.
HeaderValid ==
    /\ (op.status = "failed") = (op.failure # "none")
    /\ (op.status = "needs_attention") = op.attention

\* A step and its active attempt point at each other, and closed operations have none.
ActiveValid ==
    /\ \A s \in Steps : \A n \in Attempts(op, s) :
           op.attempts[s][n].status \in ActiveStatuses => Active(op, s) = n
    /\ \A s \in Steps : Active(op, s) # 0 =>
           /\ Active(op, s) \in Attempts(op, s)
           /\ op.attempts[s][Active(op, s)].status \in ActiveStatuses
    /\ op.status \in {"succeeded", "failed", "compensated"} => NoActiveAttempt(op)
    /\ op.status \in {"planned", "waiting_approval"} =>
           \A s \in Steps : op.attempts[s] = << >>

\* The status a step has by its latest attempt.
ByLatest(a) ==
    CASE a.status \in {"prepared", "dispatched"} -> "running"
      [] a.status = "outcome_unknown" -> "outcome_unknown"
      [] a.status = "succeeded" -> IF a.mode = "execute" THEN "succeeded" ELSE "compensated"
      [] a.status = "failed" -> IF a.failure \in Reserved THEN Restored(a.mode) ELSE "failed"

StepsValid ==
    \A s \in Steps :
        /\ op.attempts[s] = << >> => op.steps[s].status = "pending"
        /\ op.attempts[s] # << >> =>
               op.steps[s].status = ByLatest(op.attempts[s][Len(op.attempts[s])])
        /\ \A n, k \in Attempts(op, s) :
               n < k /\ op.attempts[s][n].mode = "compensate" =>
                   op.attempts[s][k].mode = "compensate"
        /\ \A n \in Attempts(op, s) :
               op.attempts[s][n].mode = "compensate" => s \in op.compensable

\* The receipts an attempt must have, neither more nor fewer.
ReceiptsOf(a) ==
    CASE a.status \in {"prepared", "dispatched"} -> << >>
      [] a.status \in {"succeeded", "outcome_unknown"} -> <<a.status>>
      [] a.status = "failed" ->
             IF a.failure = "not_dispatched" THEN <<"not_executed">>
             ELSE IF a.failure = "not_executed" THEN <<"outcome_unknown", "not_executed">>
             ELSE <<"failed">>

AttemptsValid ==
    \A s \in Steps : \A n \in Attempts(op, s) :
        LET a == op.attempts[s][n]
        IN  (a.status = "failed") = (a.failure # "none") /\ a.receipts = ReceiptsOf(a)

\* What a status that says something of all the steps says is true.
OutcomeValid ==
    /\ op.status = "succeeded" => \A s \in Steps : op.steps[s].status = "succeeded"
    /\ op.status = "compensated" =>
           \A s \in Steps : op.steps[s].status \in {"succeeded", "compensated"}

\* Whatever the writers store, from whatever interleaving of callers, passes the
\* validator: no operation is locked out as corrupt by a legal sequence of calls.
Materializable == HeaderValid /\ ActiveValid /\ StepsValid /\ AttemptsValid /\ OutcomeValid

\* A step's effect is tried at most once in each mode, whatever failed or was reconciled:
\* the journal gives no way to repeat one ("cannot create another attempt").
TriedOnce ==
    \A s \in Steps : \A n, k \in Attempts(op, s) :
        op.attempts[s][n].mode = op.attempts[s][k].mode => n = k

\* An operation that asks for attention has nothing left that is prepared and could
\* still be dispatched: "releases its active slot".
NothingHeldBack ==
    op.status \in Terminal => \A s \in Steps : ~ActiveIs(op, s, "prepared")

\* What an operation's attempts may be.
JournalSafe == JournalTypeOK /\ TriedOnce /\ NothingHeldBack

\* What an attempt has been recorded as is final, but for an unknown outcome that the
\* provider, once asked, denies; and a closed operation never moves again.
RecordIsFinal ==
    [][ /\ \A s \in Steps : \A n \in Attempts(op, s) :
               LET a == op.attempts[s][n]  b == op'.attempts[s][n]
               IN  /\ a.status \in {"succeeded", "failed"} => b = a
                   /\ a.status = "outcome_unknown" /\ b # a => b.failure = "not_executed"
        /\ op.status \in {"succeeded", "failed", "compensated"} => op' = op
        /\ op.status = "needs_attention" => op'.status = "needs_attention"
      ]_journalVars
=============================================================================
