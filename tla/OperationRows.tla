----------------------------- MODULE OperationRows -----------------------------
(***************************************************************************)
(* What the operation journal (agent_cockpit/operation_store.py) makes of  *)
(* the rows of one operation: its status, its steps, and the attempts of   *)
(* each step with their receipts.  Every writer is one transaction that    *)
(* names the revision it read; an operator below is the row it leaves, the *)
(* Can... before it what the writer demands of the row it finds.           *)
(*                                                                         *)
(* Digests, keys and times are left out.  The revision of a step moves     *)
(* only with the operation's, so the latter stands for both.               *)
(***************************************************************************)
EXTENDS Naturals, Sequences

OperationStatuses == { "planned", "waiting_approval", "running", "succeeded", "failed",
                       "compensating", "compensated", "needs_attention" }
AttemptStatuses == {"prepared", "dispatched", "succeeded", "failed", "outcome_unknown"}
StepStatuses == {"pending", "running", "succeeded", "failed", "compensated", "outcome_unknown"}
Modes == {"execute", "compensate"}
Outcomes == {"succeeded", "failed", "outcome_unknown"}
ReceiptOutcomes == Outcomes \cup {"not_executed"}
Reserved == {"not_executed", "not_dispatched"}      \* failure codes the journal itself writes

Transitions(status) ==
    CASE status = "planned" -> {"waiting_approval", "running", "failed"}
      [] status = "waiting_approval" -> {"running", "failed"}
      [] status = "running" -> {"succeeded", "failed", "compensating", "needs_attention"}
      [] status = "compensating" -> {"compensated", "needs_attention"}
      [] OTHER -> {}

Terminal == {"succeeded", "failed", "compensated", "needs_attention"}
ActiveStatuses == {"prepared", "dispatched", "outcome_unknown"}

\* create_operation: every step pending, no attempt yet.
PlannedRow(steps, compensable) ==
    [ status |-> "planned", failure |-> "none", attention |-> FALSE, revision |-> 1,
      compensable |-> compensable,
      steps |-> [s \in steps |-> [status |-> "pending", active |-> 0]],
      attempts |-> [s \in steps |-> << >>] ]

\* The next row of the operation: every writer moves the revision by one.
NextRow(op, status, failure, attention, steps, attempts) ==
    [ status |-> status, failure |-> failure, attention |-> attention,
      revision |-> op.revision + 1, compensable |-> op.compensable,
      steps |-> steps, attempts |-> attempts ]

StepsOf(op) == DOMAIN op.steps
Attempts(op, s) == DOMAIN op.attempts[s]
Active(op, s) == op.steps[s].active

\* The attempt the step's row points at, in the given status.
ActiveIs(op, s, status) ==
    Active(op, s) # 0 /\ op.attempts[s][Active(op, s)].status = status

NoActiveAttempt(op) ==
    \A s \in StepsOf(op) : \A n \in Attempts(op, s) :
        op.attempts[s][n].status \notin ActiveStatuses

-----------------------------------------------------------------------------
(* transition                                                               *)

CanTransition(op, status) ==
    /\ status \in Transitions(op.status)
    /\ NoActiveAttempt(op)
    /\ status = "succeeded" => \A s \in StepsOf(op) : op.steps[s].status = "succeeded"
    /\ status = "compensated" =>
           \A s \in StepsOf(op) : op.steps[s].status \in {"succeeded", "compensated"}

Transitioned(op, status, code) ==
    NextRow(op, status, IF status = "failed" THEN code ELSE "none",
            status = "needs_attention", op.steps, op.attempts)

-----------------------------------------------------------------------------
(* prepare_attempt, dispatch_attempt                                        *)

CanPrepare(op, s, mode) ==
    /\ op.status = IF mode = "execute" THEN "running" ELSE "compensating"
    /\ Active(op, s) = 0
    /\ IF mode = "execute" THEN op.steps[s].status = "pending"
       ELSE op.steps[s].status = "succeeded" /\ s \in op.compensable

NewAttempt(mode) ==
    [mode |-> mode, status |-> "prepared", failure |-> "none", receipts |-> << >>]

PreparedRow(op, s, mode) ==
    NextRow(op, op.status, op.failure, op.attention,
            [op.steps EXCEPT ![s] = [status |-> "running", active |-> Len(op.attempts[s]) + 1]],
            [op.attempts EXCEPT ![s] = Append(@, NewAttempt(mode))])

CanDispatch(op, s) == op.status \in {"running", "compensating"} /\ ActiveIs(op, s, "prepared")

\* The attempts of a step, with the active one in a new status and a receipt added.
Noted(op, s, status, failure, receipts) ==
    LET a == op.attempts[s][Active(op, s)]
    IN  [op.attempts[s] EXCEPT ![Active(op, s)] =
            [ mode |-> a.mode, status |-> status, failure |-> failure,
              receipts |-> a.receipts \o receipts ]]

DispatchedRow(op, s) ==
    NextRow(op, op.status, op.failure, op.attention, op.steps,
            [op.attempts EXCEPT ![s] = Noted(op, s, "dispatched", "none", << >>)])

-----------------------------------------------------------------------------
(* record_attempt_outcome                                                   *)

\* Mutant of CanRecord: an outcome may also come after the attempt was given up as unknown.
CanRecordLate(op, s) ==
    /\ ActiveIs(op, s, "dispatched") \/ ActiveIs(op, s, "outcome_unknown")
    /\ op.status \in {"running", "compensating", "needs_attention"}

CanRecord(op, s) ==
    /\ ActiveIs(op, s, "dispatched") /\ op.steps[s].status = "running"
    /\ LET mode == op.attempts[s][Active(op, s)].mode
       IN  op.status \in {IF mode = "execute" THEN "running" ELSE "compensating",
                          "needs_attention"}

\* Where the step of an attempt goes that was never executed.
Restored(mode) == IF mode = "execute" THEN "pending" ELSE "succeeded"

\* Mutant of Siblings: a failure leaves what the others prepared.
SiblingsNone(op, s, outcome) == {}

\* The other attempts that are prepared only, when an outcome ends the operation.
Siblings(op, s, outcome) ==
    IF outcome = "succeeded" THEN {}
    ELSE {t \in StepsOf(op) \ {s} : ActiveIs(op, t, "prepared")}

\* Another attempt has an outcome that is still to come, or unknown.
OtherUncertain(op, s) ==
    \E t \in StepsOf(op) \ {s} : \E n \in Attempts(op, t) :
        op.attempts[t][n].status \in {"dispatched", "outcome_unknown"}

\* Mutant of OutcomeStatus: a failure ends the operation, whatever is still out.
OutcomeStatusHasty(op, s, outcome) ==
    CASE op.status = "needs_attention" -> "needs_attention"
      [] op.status # "needs_attention" /\ outcome = "outcome_unknown" -> "needs_attention"
      [] op.status = "compensating" /\ outcome = "failed" -> "needs_attention"
      [] op.status = "running" /\ outcome = "failed" -> "failed"
      [] OTHER -> op.status

OutcomeStatus(op, s, outcome) ==
    CASE op.status = "needs_attention" -> "needs_attention"
      [] op.status # "needs_attention" /\ outcome = "outcome_unknown" -> "needs_attention"
      [] op.status = "compensating" /\ outcome = "failed" -> "needs_attention"
      [] op.status = "running" /\ outcome = "failed" ->
             IF OtherUncertain(op, s) THEN "needs_attention" ELSE "failed"
      [] OTHER -> op.status

\* The step of the recorded attempt.
OwnStep(op, s, outcome) ==
    [ status |-> IF outcome = "succeeded" /\ op.attempts[s][Active(op, s)].mode = "compensate"
                 THEN "compensated" ELSE outcome,
      active |-> IF outcome = "outcome_unknown" THEN Active(op, s) ELSE 0 ]

\* _settle_prepared_siblings: the step and the attempts of a sibling.
SettledStep(op, t) ==
    [status |-> Restored(op.attempts[t][Active(op, t)].mode), active |-> 0]
SettledAttempts(op, t) == Noted(op, t, "failed", "not_dispatched", <<"not_executed">>)

\* The attempt gets its outcome and a receipt; a failure or an unknown outcome settles
\* the prepared siblings; the step and the operation follow.
RecordedRow(op, s, outcome, code) ==
    LET status == OutcomeStatus(op, s, outcome)
        siblings == Siblings(op, s, outcome)
        own == Noted(op, s, outcome, IF outcome = "failed" THEN code ELSE "none", <<outcome>>)
    IN  NextRow(op, status, IF status = "failed" THEN code ELSE "none",
                status = "needs_attention",
                [t \in StepsOf(op) |-> CASE t = s -> OwnStep(op, s, outcome)
                                         [] t \in siblings -> SettledStep(op, t)
                                         [] OTHER -> op.steps[t]],
                [t \in StepsOf(op) |-> CASE t = s -> own
                                         [] t \in siblings -> SettledAttempts(op, t)
                                         [] OTHER -> op.attempts[t]])

-----------------------------------------------------------------------------
(* record_not_executed                                                      *)

CanReconcile(op, s) ==
    /\ op.status = "needs_attention"
    /\ ActiveIs(op, s, "outcome_unknown") /\ op.steps[s].status = "outcome_unknown"

\* The provider was asked and never executed the attempt whose outcome was unknown.
ReconciledRow(op, s) ==
    NextRow(op, op.status, op.failure, op.attention,
            [op.steps EXCEPT ![s] = SettledStep(op, s)],
            [op.attempts EXCEPT ![s] =
                Noted(op, s, "failed", "not_executed", <<"not_executed">>)])
=============================================================================
