------------------------- MODULE OperationJournalProofs -------------------------
(***************************************************************************)
(* What OperationJournal promises for every plan, set of codes and number  *)
(* of callers: what the writers store passes the validator, no effect is   *)
(* tried twice, and what was recorded is final.                            *)
(*                                                                         *)
(* The argument goes step by step of the plan: CellOK is what the          *)
(* validator, and the strengthening, ask of one step and its attempts.     *)
(* Each writer changes the cells in one of five ways, a lemma for each.    *)
(***************************************************************************)
EXTENDS OperationJournal, SequenceTheorems, TLAPS

StepRow == [status : StepStatuses, active : Nat]

\* One step of the plan, row x with attempts q.
CellOK(x, q, canUndo) ==
    /\ x \in StepRow /\ q \in Seq(Attempt)
    /\ \A n \in DOMAIN q : q[n].status \in ActiveStatuses => x.active = n
    /\ x.active # 0 => x.active = Len(q) /\ q[Len(q)].status \in ActiveStatuses
    /\ IF q = << >> THEN x.status = "pending" ELSE x.status = ByLatest(q[Len(q)])
    /\ \A n, k \in DOMAIN q : q[n].mode = q[k].mode => n = k
    /\ \A n, k \in DOMAIN q : n < k /\ q[n].mode = "compensate" => q[k].mode = "compensate"
    /\ \A n \in DOMAIN q : q[n].mode = "compensate" => canUndo
    /\ \A n \in DOMAIN q : /\ (q[n].status = "failed") = (q[n].failure # "none")
                           /\ q[n].receipts = ReceiptsOf(q[n])

\* Before anything went wrong no attempt failed or has an unknown outcome.
Untroubled(q) == \A n \in DOMAIN q : q[n].status \in {"prepared", "dispatched", "succeeded"}

\* A function of the steps.
OverSteps(f) == f = [s \in Steps |-> f[s]]

HeaderType ==
    /\ op = [ status |-> op.status, failure |-> op.failure, attention |-> op.attention,
              revision |-> op.revision, compensable |-> op.compensable,
              steps |-> op.steps, attempts |-> op.attempts ]
    /\ op.status \in OperationStatuses /\ op.failure \in Codes \cup {"none"}
    /\ op.attention \in BOOLEAN /\ op.revision \in Nat \ {0} /\ op.compensable \in SUBSET Steps
    /\ OverSteps(op.steps) /\ OverSteps(op.attempts)
    /\ known \in [Callers -> Nat]

CellsOK == \A s \in Steps : CellOK(op.steps[s], op.attempts[s], s \in op.compensable)

\* A closed operation has nothing active, one that asks for attention nothing prepared, and one
\* that goes on had no trouble; one that has not begun has no attempts.
StatusOK ==
    /\ op.status \in {"succeeded", "failed", "compensated"} =>
           \A s \in Steps : op.steps[s].active = 0
    /\ op.status = "needs_attention" => \A s \in Steps : ~ActiveIs(op, s, "prepared")
    /\ op.status \notin Terminal => \A s \in Steps : Untroubled(op.attempts[s])
    /\ op.status \in {"planned", "waiting_approval"} => \A s \in Steps : op.attempts[s] = << >>

JournalInv == HeaderType /\ CellsOK /\ HeaderValid /\ StatusOK /\ OutcomeValid

-----------------------------------------------------------------------------
(* The cells.                                                                *)

LEMMA AttemptFields ==
  ASSUME NEW a \in Attempt
  PROVE  /\ a.mode \in Modes /\ a.status \in AttemptStatuses
         /\ a.failure \in Codes \cup Reserved \cup {"none"} /\ a.receipts \in Seq(ReceiptOutcomes)
  BY DEF Attempt

LEMMA EmptyCellOK ==
  ASSUME NEW canUndo
  PROVE  CellOK([status |-> "pending", active |-> 0], << >>, canUndo)
  BY DEF CellOK, StepRow, StepStatuses

\* The last attempt of a cell is of the only mode, or of the second.
LEMMA CellModes ==
  ASSUME NEW x, NEW q, NEW canUndo, CellOK(x, q, canUndo), q # << >>
  PROVE  /\ Len(q) \in DOMAIN q /\ q[Len(q)] \in Attempt
         /\ q[Len(q)].mode = "execute" => \A n \in DOMAIN q : q[n].mode = "execute"
  <1>1. q \in Seq(Attempt) /\ Len(q) \in Nat /\ DOMAIN q = 1..Len(q)  BY DEF CellOK
  <1>2. Len(q) \in DOMAIN q  BY <1>1, EmptySeq
  <1>3. q[Len(q)] \in Attempt  BY <1>1, <1>2
  <1>4. ASSUME NEW n \in DOMAIN q, q[Len(q)].mode = "execute"  PROVE q[n].mode = "execute"
    <2>1. CASE n = Len(q)  BY <1>4, <2>1
    <2>2. CASE n # Len(q)
      <3>1. n < Len(q)  BY <1>1, <2>2
      <3>2. q[n].mode \in {"execute", "compensate"}  BY <1>1, AttemptFields DEF Modes
      <3>3. q[n].mode # "compensate"  BY <1>2, <1>4, <3>1 DEF CellOK
      <3>. QED  BY <3>2, <3>3
    <2>. QED  BY <2>1, <2>2
  <1>. QED  BY <1>2, <1>3, <1>4

\* prepare_attempt: one more attempt, of a mode that was not tried yet.
LEMMA CellPrepared ==
  ASSUME NEW x, NEW q, NEW canUndo, CellOK(x, q, canUndo), x.active = 0,
         NEW mode \in Modes,
         \A n \in DOMAIN q : q[n].mode # mode,
         mode = "execute" => q = << >>,
         mode = "compensate" => canUndo
  PROVE  /\ CellOK([status |-> "running", active |-> Len(q) + 1],
                   Append(q, NewAttempt(mode)), canUndo)
         /\ Untroubled(q) => Untroubled(Append(q, NewAttempt(mode)))
  <1> DEFINE a == NewAttempt(mode)
             z == Append(q, a)
             y == [status |-> "running", active |-> Len(q) + 1]
  <1>1. q \in Seq(Attempt) /\ Len(q) \in Nat /\ DOMAIN q = 1..Len(q)  BY DEF CellOK
  <1>2. /\ a \in Attempt /\ a.mode = mode /\ a.status = "prepared" /\ a.failure = "none"
        /\ a.receipts = << >>
    BY EmptySeq DEF NewAttempt, Attempt, AttemptStatuses
  <1>3. /\ z \in Seq(Attempt) /\ Len(z) = Len(q) + 1 /\ DOMAIN z = 1..(Len(q) + 1)
        /\ \A n \in 1..Len(q) : z[n] = q[n]
        /\ z[Len(q) + 1] = a
    <2> HIDE DEF a
    <2>. QED  BY <1>1, <1>2, AppendProperties
  <1> HIDE DEF z, a
  <1>4. z # << >>  BY <1>1, <1>3, EmptySeq
  <1>5. y \in StepRow /\ y.status = "running" /\ y.active = Len(q) + 1
    BY <1>1 DEF StepRow, StepStatuses
  <1> HIDE DEF y
  <1>6. \A n \in DOMAIN z : z[n].status \in ActiveStatuses => y.active = n
    <2> SUFFICES ASSUME NEW n \in 1..Len(q), q[n].status \in ActiveStatuses  PROVE FALSE
      BY <1>3, <1>5
    <2>. QED  BY <1>1 DEF CellOK
  <1>7. y.active = Len(z) /\ z[Len(z)].status \in ActiveStatuses
    BY <1>1, <1>2, <1>3, <1>5 DEF ActiveStatuses
  <1>8. y.status = ByLatest(z[Len(z)])  BY <1>2, <1>3, <1>5 DEF ByLatest
  <1>9. \A n, k \in DOMAIN z : z[n].mode = z[k].mode => n = k
    <2> SUFFICES ASSUME NEW n \in DOMAIN z, NEW k \in DOMAIN z, z[n].mode = z[k].mode, n # k
                 PROVE  FALSE
      OBVIOUS
    <2>1. CASE n \in 1..Len(q) /\ k \in 1..Len(q)  BY <1>1, <1>3, <2>1 DEF CellOK
    <2>2. CASE n = Len(q) + 1 \/ k = Len(q) + 1  BY <1>1, <1>2, <1>3, <2>2
    <2>. QED  BY <1>1, <1>3, <2>1, <2>2
  <1>10. \A n, k \in DOMAIN z : n < k /\ z[n].mode = "compensate" => z[k].mode = "compensate"
    <2> SUFFICES ASSUME NEW n \in DOMAIN z, NEW k \in DOMAIN z, n < k, z[n].mode = "compensate"
                 PROVE  z[k].mode = "compensate"
      OBVIOUS
    <2>1. n \in 1..Len(q) /\ q[n].mode = "compensate"  BY <1>1, <1>3
    <2>2. CASE k \in 1..Len(q)  BY <1>1, <1>3, <2>1, <2>2 DEF CellOK
    <2>3. CASE k = Len(q) + 1
      <3>1. mode # "execute"  BY <1>1, <2>1, EmptySeq
      <3>. QED  BY <1>2, <1>3, <2>3, <3>1 DEF Modes
    <2>. QED  BY <1>1, <1>3, <2>2, <2>3
  <1>11. \A n \in DOMAIN z : z[n].mode = "compensate" => canUndo
    BY <1>1, <1>2, <1>3 DEF CellOK
  <1>12. \A n \in DOMAIN z : /\ (z[n].status = "failed") = (z[n].failure # "none")
                             /\ z[n].receipts = ReceiptsOf(z[n])
    <2> TAKE n \in DOMAIN z
    <2>1. CASE n \in 1..Len(q)  BY <1>1, <1>3, <2>1 DEF CellOK
    <2>2. CASE n = Len(q) + 1  BY <1>2, <1>3, <2>2 DEF ReceiptsOf
    <2>. QED  BY <1>1, <1>3, <2>1, <2>2
  <1>13. Untroubled(q) => Untroubled(z)
    BY <1>1, <1>2, <1>3 DEF Untroubled
  <1>14. CellOK(y, z, canUndo)
    BY <1>3, <1>4, <1>5, <1>6, <1>7, <1>8, <1>9, <1>10, <1>11, <1>12 DEF CellOK
  <1>. QED  BY <1>13, <1>14 DEF y, z, a

\* The active attempt b replaces, and the step y that goes with it.
LEMMA CellNoted ==
  ASSUME NEW x, NEW q, NEW canUndo, CellOK(x, q, canUndo), x.active # 0,
         NEW b \in Attempt, b.mode = q[x.active].mode,
         (b.status = "failed") = (b.failure # "none"), b.receipts = ReceiptsOf(b),
         NEW y \in StepRow, y.status = ByLatest(b),
         y.active = IF b.status \in ActiveStatuses THEN x.active ELSE 0
  PROVE  CellOK(y, [q EXCEPT ![x.active] = b], canUndo)
  <1> DEFINE z == [q EXCEPT ![x.active] = b]
  <1>1. /\ q \in Seq(Attempt) /\ Len(q) \in Nat /\ DOMAIN q = 1..Len(q)
        /\ x.active = Len(q) /\ x.active \in Nat \ {0}
    BY DEF CellOK, StepRow
  <1>2. /\ z \in Seq(Attempt) /\ Len(z) = Len(q) /\ DOMAIN z = 1..Len(q)
        /\ z[Len(q)] = b /\ \A n \in DOMAIN q : n # Len(q) => z[n] = q[n]
    BY <1>1, ExceptSeq
  <1> HIDE DEF z
  <1>3. z # << >> /\ Len(q) \in DOMAIN q  BY <1>1, <1>2, EmptySeq
  <1>4. \A n \in DOMAIN q : z[n].mode = q[n].mode  BY <1>1, <1>2
  <1>5. \A n \in DOMAIN z : z[n].status \in ActiveStatuses => y.active = n
    <2> SUFFICES ASSUME NEW n \in DOMAIN q, z[n].status \in ActiveStatuses  PROVE y.active = n
      BY <1>1, <1>2
    <2>1. CASE n = Len(q)  BY <1>1, <1>2, <2>1
    <2>2. CASE n # Len(q)  BY <1>1, <1>2, <2>2 DEF CellOK
    <2>. QED  BY <2>1, <2>2
  <1>6. y.active # 0 => y.active = Len(z) /\ z[Len(z)].status \in ActiveStatuses
    BY <1>1, <1>2
  <1>7. y.status = ByLatest(z[Len(z)])  BY <1>2
  <1>8. \A n, k \in DOMAIN z : z[n].mode = z[k].mode => n = k
    BY <1>1, <1>2, <1>4 DEF CellOK
  <1>9. \A n, k \in DOMAIN z : n < k /\ z[n].mode = "compensate" => z[k].mode = "compensate"
    BY <1>1, <1>2, <1>4 DEF CellOK
  <1>10. \A n \in DOMAIN z : z[n].mode = "compensate" => canUndo
    BY <1>1, <1>2, <1>4 DEF CellOK
  <1>11. \A n \in DOMAIN z : /\ (z[n].status = "failed") = (z[n].failure # "none")
                             /\ z[n].receipts = ReceiptsOf(z[n])
    <2> SUFFICES ASSUME NEW n \in DOMAIN q
                 PROVE  /\ (z[n].status = "failed") = (z[n].failure # "none")
                        /\ z[n].receipts = ReceiptsOf(z[n])
      BY <1>1, <1>2
    <2>1. CASE n = Len(q)  BY <1>1, <1>2, <2>1
    <2>2. CASE n # Len(q)  BY <1>1, <1>2, <2>2 DEF CellOK
    <2>. QED  BY <2>1, <2>2
  <1>. QED
    BY <1>2, <1>3, <1>5, <1>6, <1>7, <1>8, <1>9, <1>10, <1>11 DEF CellOK, z

\* What the active attempt of a cell is, and may become.
ActiveAttempt(q, x) == q[x.active]
NewStatus(a, status, failure, receipts) ==
    [mode |-> a.mode, status |-> status, failure |-> failure, receipts |-> a.receipts \o receipts]

LEMMA CellActive ==
  ASSUME NEW x, NEW q, NEW canUndo, CellOK(x, q, canUndo), x.active # 0
  PROVE  /\ x.active \in DOMAIN q /\ q[x.active] \in Attempt
         /\ q[x.active].status \in ActiveStatuses /\ x.status = ByLatest(q[x.active])
         /\ (q[x.active].status = "failed") = (q[x.active].failure # "none")
         /\ q[x.active].receipts = ReceiptsOf(q[x.active])
  <1>1. q \in Seq(Attempt) /\ DOMAIN q = 1..Len(q) /\ x.active = Len(q) /\ Len(q) \in Nat
    BY DEF CellOK
  <1>2. x.active \in DOMAIN q /\ q # << >>  BY <1>1, EmptySeq
  <1>3. q[x.active] \in Attempt  BY <1>1, <1>2
  <1>. QED  BY <1>1, <1>2, <1>3 DEF CellOK

LEMMA TwoReceipts ==
  ASSUME NEW a, NEW b
  PROVE  <<a>> \o <<b>> = <<a, b>>
  <1> DEFINE S == {a, b}
  <1>1. /\ <<a>> \in Seq(S) /\ <<b>> \in Seq(S) /\ <<a, b>> \in Seq(S)
        /\ Len(<<a>>) = 1 /\ Len(<<b>>) = 1 /\ Len(<<a, b>>) = 2
    OBVIOUS
  <1> HIDE DEF S
  <1>2. <<a>> \o <<b>> \in Seq(S) /\ Len(<<a>> \o <<b>>) = 2  BY <1>1, ConcatProperties
  <1>3. (<<a>> \o <<b>>)[1] = a /\ (<<a>> \o <<b>>)[2] = b  BY <1>1, ConcatProperties
  <1>4. \A i \in 1..2 : (<<a>> \o <<b>>)[i] = <<a, b>>[i]  BY <1>3
  <1>. QED  BY <1>1, <1>2, <1>4, SeqEqual

LEMMA NewStatusOK ==
  ASSUME NEW a \in Attempt, a.receipts = ReceiptsOf(a), (a.status = "failed") = (a.failure # "none")
  PROVE  /\ a.status = "prepared" =>
              LET b == NewStatus(a, "dispatched", "none", << >>)
              IN  b \in Attempt /\ b.receipts = ReceiptsOf(b)
         /\ a.status = "prepared" =>
              LET b == NewStatus(a, "failed", "not_dispatched", <<"not_executed">>)
              IN  b \in Attempt /\ b.receipts = ReceiptsOf(b)
         /\ a.status = "outcome_unknown" =>
              LET b == NewStatus(a, "failed", "not_executed", <<"not_executed">>)
              IN  b \in Attempt /\ b.receipts = ReceiptsOf(b)
         /\ \A outcome \in Outcomes, code \in Codes : a.status = "dispatched" =>
              LET b == NewStatus(a, outcome, IF outcome = "failed" THEN code ELSE "none", <<outcome>>)
              IN  b \in Attempt /\ b.receipts = ReceiptsOf(b)
  <1> USE AttemptFields, JournalAssumption DEF NewStatus, Attempt, AttemptStatuses, Reserved
  <1>0. \A o \in ReceiptOutcomes : /\ <<o>> \in Seq(ReceiptOutcomes) /\ << >> \o <<o>> = <<o>>
                                   /\ << >> \o << >> = << >> /\ << >> \in Seq(ReceiptOutcomes)
    OBVIOUS
  <1>1. a.status \in {"prepared", "dispatched"} => a.receipts = << >>
    BY DEF ReceiptsOf
  <1>2. a.status = "outcome_unknown" => a.receipts = <<"outcome_unknown">>
    BY DEF ReceiptsOf
  <1>3. a.status = "prepared" =>
          LET b == NewStatus(a, "dispatched", "none", << >>)
          IN  b \in Attempt /\ b.receipts = ReceiptsOf(b)
    BY <1>0, <1>1 DEF ReceiptsOf
  <1>4. a.status = "prepared" =>
          LET b == NewStatus(a, "failed", "not_dispatched", <<"not_executed">>)
          IN  b \in Attempt /\ b.receipts = ReceiptsOf(b)
    BY <1>0, <1>1 DEF ReceiptsOf, ReceiptOutcomes
  <1>5. a.status = "outcome_unknown" =>
          LET b == NewStatus(a, "failed", "not_executed", <<"not_executed">>)
          IN  b \in Attempt /\ b.receipts = ReceiptsOf(b)
    <2>1. <<"outcome_unknown">> \o <<"not_executed">> = <<"outcome_unknown", "not_executed">>
      BY TwoReceipts
    <2>2. <<"outcome_unknown", "not_executed">> \in Seq(ReceiptOutcomes)
      BY DEF ReceiptOutcomes, Outcomes
    <2>. QED  BY <1>2, <2>1, <2>2 DEF ReceiptsOf
  <1>6. ASSUME NEW outcome \in Outcomes, NEW code \in Codes, a.status = "dispatched"
        PROVE  LET b == NewStatus(a, outcome, IF outcome = "failed" THEN code ELSE "none", <<outcome>>)
               IN  b \in Attempt /\ b.receipts = ReceiptsOf(b)
    BY <1>0, <1>1, <1>6 DEF ReceiptsOf, Outcomes, ReceiptOutcomes
  <1>. QED  BY <1>3, <1>4, <1>5, <1>6

-----------------------------------------------------------------------------
(* The rows: an action gives the operation a new status and new cells.       *)

LEMMA CellFacts ==
  ASSUME CellsOK, NEW s \in Steps
  PROVE  /\ CellOK(op.steps[s], op.attempts[s], s \in op.compensable)
         /\ Active(op, s) = op.steps[s].active
  BY DEF CellsOK, Active

\* A row that is written keeps its header's type.
LEMMA NextRowType ==
  ASSUME HeaderType, NEW c \in Callers,
         NEW status \in OperationStatuses, NEW failure \in Codes \cup {"none"},
         NEW attention \in BOOLEAN,
         NEW steps, OverSteps(steps), NEW attempts, OverSteps(attempts),
         Write(c, NextRow(op, status, failure, attention, steps, attempts))
  PROVE  /\ HeaderType'
         /\ op'.status = status /\ op'.failure = failure /\ op'.attention = attention
         /\ op'.compensable = op.compensable /\ op'.steps = steps /\ op'.attempts = attempts
  <1>1. op' = [ status |-> status, failure |-> failure, attention |-> attention,
                revision |-> op.revision + 1, compensable |-> op.compensable,
                steps |-> steps, attempts |-> attempts ]
    BY DEF Write, NextRow
  <1>2. op'.revision = op.revision + 1 /\ known' = [known EXCEPT ![c] = op.revision + 1]
    BY <1>1 DEF Write, NextRow
  <1>3. known' \in [Callers -> Nat]  BY <1>2 DEF HeaderType
  <1>4. /\ op'.status = status /\ op'.failure = failure /\ op'.attention = attention
        /\ op'.compensable = op.compensable /\ op'.steps = steps /\ op'.attempts = attempts
        /\ op'.revision = op.revision + 1
    BY <1>1
  <1>5. op'.revision \in Nat \ {0}  BY <1>4 DEF HeaderType
  <1>. QED  BY <1>1, <1>3, <1>4, <1>5 DEF HeaderType

\* No attempt of a row is active: no step points at one.
LEMMA NoActiveCells ==
  ASSUME CellsOK, OverSteps(op.steps)
  PROVE  NoActiveAttempt(op) <=> \A s \in Steps : op.steps[s].active = 0
  <1> USE DEF OverSteps
  <1>1. ASSUME NoActiveAttempt(op), NEW s \in Steps  PROVE op.steps[s].active = 0
    <2>1. \A n \in DOMAIN op.attempts[s] : op.attempts[s][n].status \notin ActiveStatuses
      BY <1>1 DEF NoActiveAttempt, StepsOf, Attempts
    <2>. QED  BY <2>1, CellFacts, CellActive
  <1>2. ASSUME \A s \in Steps : op.steps[s].active = 0  PROVE NoActiveAttempt(op)
    <2> SUFFICES ASSUME NEW s \in Steps, NEW n \in DOMAIN op.attempts[s],
                        op.attempts[s][n].status \in ActiveStatuses
                 PROVE  FALSE
      BY DEF NoActiveAttempt, StepsOf, Attempts
    <2>1. op.steps[s].active = n /\ op.attempts[s] \in Seq(Attempt)  BY CellFacts DEF CellOK
    <2>. QED  BY <1>2, <2>1, LenProperties
  <1>. QED  BY <1>1, <1>2

LEMMA TransitionKeeps ==
  ASSUME JournalInv, NEW c \in Callers, NEW status \in OperationStatuses, NEW code \in Codes,
         Transition(c, status, code)
  PROVE  JournalInv'
  <1> DEFINE failure == IF status = "failed" THEN code ELSE "none"
             attention == status = "needs_attention"
  <1> USE DEF JournalInv
  <1>1. /\ status \in Transitions(op.status) /\ \A s \in Steps : op.steps[s].active = 0
        /\ status = "succeeded" => \A s \in Steps : op.steps[s].status = "succeeded"
        /\ status = "compensated" =>
               \A s \in Steps : op.steps[s].status \in {"succeeded", "compensated"}
    BY NoActiveCells DEF Transition, CanTransition, HeaderType, StepsOf, OverSteps
  <1>2. /\ HeaderType'
        /\ op'.status = status /\ op'.failure = failure
        /\ op'.attention = attention
        /\ op'.compensable = op.compensable /\ op'.steps = op.steps /\ op'.attempts = op.attempts
    <2>1. failure \in Codes \cup {"none"} /\ attention \in BOOLEAN  OBVIOUS
    <2>2. Write(c, NextRow(op, status, failure, attention, op.steps, op.attempts))
      BY DEF Transition, Transitioned
    <2>3. OverSteps(op.steps) /\ OverSteps(op.attempts)  BY DEF HeaderType
    <2> HIDE DEF failure, attention
    <2>. QED  BY <2>1, <2>2, <2>3, NextRowType
  <1>3. CellsOK'  BY <1>2 DEF CellsOK
  <1>4. HeaderValid'  BY <1>2, JournalAssumption DEF HeaderValid
  <1>5. status \notin Terminal => op.status \notin Terminal
    BY <1>1 DEF Transitions, Terminal
  <1>6. status \in {"planned", "waiting_approval"} => op.status = "planned"
    BY <1>1 DEF Transitions
  <1>7. StatusOK'
    BY <1>1, <1>2, <1>5, <1>6 DEF StatusOK, ActiveIs, Active
  <1>8. OutcomeValid'  BY <1>1, <1>2 DEF OutcomeValid
  <1>. QED  BY <1>2, <1>3, <1>4, <1>7, <1>8

\* A row that is written with one step's cell changed and the header as it is.
OneCell(c, s, y, z) ==
    Write(c, NextRow(op, op.status, op.failure, op.attention,
                     [op.steps EXCEPT ![s] = y], [op.attempts EXCEPT ![s] = z]))

LEMMA OneCellHeader ==
  ASSUME JournalInv, NEW c \in Callers, NEW s \in Steps, NEW y, NEW z, OneCell(c, s, y, z)
  PROVE  /\ HeaderType'
         /\ op'.compensable = op.compensable /\ op'.status = op.status
         /\ op'.failure = op.failure /\ op'.attention = op.attention
         /\ op'.steps = [op.steps EXCEPT ![s] = y] /\ op'.attempts = [op.attempts EXCEPT ![s] = z]
  <1> DEFINE steps == [op.steps EXCEPT ![s] = y]
             attempts == [op.attempts EXCEPT ![s] = z]
  <1>1. HeaderType  BY DEF JournalInv
  <1>2. OverSteps(steps) /\ OverSteps(attempts)  BY <1>1 DEF HeaderType, OverSteps
  <1>3. /\ op.status \in OperationStatuses /\ op.failure \in Codes \cup {"none"}
        /\ op.attention \in BOOLEAN
    BY <1>1 DEF HeaderType
  <1> HIDE DEF steps, attempts
  <1>4. Write(c, NextRow(op, op.status, op.failure, op.attention, steps, attempts))
    BY DEF OneCell, steps, attempts
  <1>. QED  BY <1>1, <1>2, <1>3, <1>4, NextRowType DEF steps, attempts

LEMMA OneCellKeeps ==
  ASSUME JournalInv, NEW c \in Callers, NEW s \in Steps, NEW y, NEW z, OneCell(c, s, y, z),
         op.status \in {"running", "compensating", "needs_attention"},
         CellOK(y, z, s \in op.compensable),
         op.status = "needs_attention" => y.active = 0,
         op.status # "needs_attention" => Untroubled(z)
  PROVE  JournalInv'
  <1> USE DEF JournalInv
  <1>0. /\ HeaderType'
        /\ op'.compensable = op.compensable /\ op'.status = op.status
        /\ op'.failure = op.failure /\ op'.attention = op.attention
        /\ op'.steps = [op.steps EXCEPT ![s] = y] /\ op'.attempts = [op.attempts EXCEPT ![s] = z]
    <2> HIDE DEF JournalInv
    <2>. QED  BY OneCellHeader
  <1>1. /\ op'.steps[s] = y /\ op'.attempts[s] = z
        /\ \A t \in Steps \ {s} : op'.steps[t] = op.steps[t] /\ op'.attempts[t] = op.attempts[t]
    BY <1>0 DEF HeaderType, OverSteps
  <1>2. CellsOK'  BY <1>0, <1>1 DEF CellsOK
  <1>3. HeaderValid'  BY <1>0 DEF HeaderValid
  <1>4. StatusOK'  BY <1>0, <1>1 DEF StatusOK, Terminal, ActiveIs, Active
  <1>5. OutcomeValid'  BY <1>0 DEF OutcomeValid
  <1>. QED  BY <1>0, <1>2, <1>3, <1>4, <1>5

LEMMA PrepareKeeps ==
  ASSUME JournalInv, NEW c \in Callers, NEW s \in Steps, NEW mode \in Modes,
         PrepareAttempt(c, s, mode)
  PROVE  JournalInv'
  <1> DEFINE x == op.steps[s]
             q == op.attempts[s]
             y == [status |-> "running", active |-> Len(q) + 1]
             z == Append(q, NewAttempt(mode))
  <1>1. CellOK(x, q, s \in op.compensable) /\ x.active = 0
    BY CellFacts DEF JournalInv, PrepareAttempt, CanPrepare
  <1>2. /\ op.status \in {"running", "compensating"}
        /\ mode = "execute" => x.status = "pending"
        /\ mode = "compensate" => x.status = "succeeded" /\ s \in op.compensable
    BY DEF PrepareAttempt, CanPrepare, Modes
  <1>3. Untroubled(q)  BY <1>2 DEF JournalInv, StatusOK, Terminal
  <1>4. mode = "execute" => q = << >>
    <2> SUFFICES ASSUME mode = "execute", q # << >>  PROVE FALSE
      OBVIOUS
    <2> HIDE DEF x, q
    <2>1. Len(q) \in DOMAIN q  BY <1>1, CellModes
    <2>2. q[Len(q)].status \in {"prepared", "dispatched", "succeeded"}  BY <1>3, <2>1 DEF Untroubled
    <2>3. x.status = ByLatest(q[Len(q)])  BY <1>1 DEF CellOK
    <2>. QED  BY <1>2, <2>2, <2>3 DEF ByLatest
  <1>5. mode = "compensate" => \A n \in DOMAIN q : q[n].mode # mode
    <2> SUFFICES ASSUME mode = "compensate"  PROVE \A n \in DOMAIN q : q[n].mode = "execute"
      OBVIOUS
    <2> HIDE DEF x, q
    <2>1. q # << >> /\ x.status = ByLatest(q[Len(q)])  BY <1>1, <1>2 DEF CellOK
    <2>2. Len(q) \in DOMAIN q /\ q[Len(q)] \in Attempt  BY <1>1, <2>1, CellModes
    <2>3. q[Len(q)].status \in {"prepared", "dispatched", "succeeded"}  BY <1>3, <2>2 DEF Untroubled
    <2>4. q[Len(q)].mode = "execute"
      BY <1>2, <2>1, <2>2, <2>3, AttemptFields DEF ByLatest, Modes
    <2>. QED  BY <1>1, <2>1, <2>4, CellModes
  <1>6. \A n \in DOMAIN q : q[n].mode # mode  BY <1>4, <1>5 DEF Modes
  <1> HIDE DEF x, q
  <1>7. CellOK(y, z, s \in op.compensable) /\ Untroubled(z)
    BY <1>1, <1>2, <1>3, <1>4, <1>6, CellPrepared
  <1>8. OneCell(c, s, y, z)
    <2>1. [op.attempts EXCEPT ![s] = Append(@, NewAttempt(mode))] = [op.attempts EXCEPT ![s] = z]
      BY DEF q
    <2>. QED  BY <2>1 DEF PrepareAttempt, PreparedRow, OneCell, q
  <1> HIDE DEF y, z
  <1>. QED  BY <1>2, <1>7, <1>8, OneCellKeeps

LEMMA DispatchKeeps ==
  ASSUME JournalInv, NEW c \in Callers, NEW s \in Steps, DispatchAttempt(c, s)
  PROVE  JournalInv'
  <1> DEFINE x == op.steps[s]
             q == op.attempts[s]
             a == q[x.active]
             b == NewStatus(a, "dispatched", "none", << >>)
             z == [q EXCEPT ![x.active] = b]
  <1>1. /\ CellOK(x, q, s \in op.compensable) /\ x.active # 0 /\ a.status = "prepared"
        /\ op.status \in {"running", "compensating"}
    BY CellFacts DEF JournalInv, DispatchAttempt, CanDispatch, ActiveIs, Active
  <1> HIDE DEF x, q
  <1>2. /\ a \in Attempt /\ a.receipts = ReceiptsOf(a) /\ x.status = ByLatest(a) /\ x \in StepRow
        /\ (a.status = "failed") = (a.failure # "none")
    BY <1>1, CellActive DEF CellOK
  <1> HIDE DEF a
  <1>3. b \in Attempt /\ b.receipts = ReceiptsOf(b)  BY <1>1, <1>2, NewStatusOK
  <1>4. b.mode = a.mode /\ b.status = "dispatched" /\ b.failure = "none"  BY DEF NewStatus
  <1> HIDE DEF b
  <1>5. x.status = ByLatest(b)  BY <1>1, <1>2, <1>4 DEF ByLatest
  <1>6. CellOK(x, z, s \in op.compensable)
    BY <1>1, <1>2, <1>3, <1>4, <1>5, CellNoted DEF a, ActiveStatuses
  <1>7. Untroubled(q) => Untroubled(z)
    BY <1>4 DEF Untroubled
  <1>8. op.steps = [op.steps EXCEPT ![s] = x]  BY DEF x, JournalInv, HeaderType, OverSteps
  <1>9. OneCell(c, s, x, z)
    BY <1>8 DEF OneCell, DispatchAttempt, DispatchedRow, Noted, NewStatus, Active, a, b, x, q
  <1> HIDE DEF z
  <1>10. Untroubled(z)  BY <1>1, <1>7 DEF x, q, JournalInv, StatusOK, Terminal
  <1>. QED  BY <1>1, <1>6, <1>9, <1>10, OneCellKeeps

LEMMA ReconcileKeeps ==
  ASSUME JournalInv, NEW c \in Callers, NEW s \in Steps, RecordNotExecuted(c, s)
  PROVE  JournalInv'
  <1> DEFINE x == op.steps[s]
             q == op.attempts[s]
             a == q[x.active]
             b == NewStatus(a, "failed", "not_executed", <<"not_executed">>)
             y == [status |-> Restored(a.mode), active |-> 0]
             z == [q EXCEPT ![x.active] = b]
  <1>1. /\ CellOK(x, q, s \in op.compensable) /\ x.active # 0 /\ a.status = "outcome_unknown"
        /\ op.status = "needs_attention"
    BY CellFacts DEF JournalInv, RecordNotExecuted, CanReconcile, ActiveIs, Active
  <1> HIDE DEF x, q
  <1>2. /\ a \in Attempt /\ a.receipts = ReceiptsOf(a)
        /\ (a.status = "failed") = (a.failure # "none")
    BY <1>1, CellActive
  <1>3. [status |-> Restored(a.mode), active |-> 0] \in StepRow
    BY DEF StepRow, Restored, StepStatuses
  <1> HIDE DEF a
  <1>4. b \in Attempt /\ b.receipts = ReceiptsOf(b)  BY <1>1, <1>2, NewStatusOK
  <1>5. b.mode = a.mode /\ b.status = "failed" /\ b.failure = "not_executed"  BY DEF NewStatus
  <1> HIDE DEF b
  <1>6. y \in StepRow /\ y.status = ByLatest(b) /\ y.active = 0
    BY <1>3, <1>5 DEF ByLatest, Reserved
  <1> HIDE DEF y
  <1>7. CellOK(y, z, s \in op.compensable)
    BY <1>1, <1>4, <1>5, <1>6, CellNoted DEF a, ActiveStatuses
  <1>8. OneCell(c, s, y, z)
    BY DEF OneCell, RecordNotExecuted, ReconciledRow, SettledStep, Noted, NewStatus, Active, a, b, x, q, y
  <1> HIDE DEF z
  <1>. QED  BY <1>1, <1>6, <1>7, <1>8, OneCellKeeps

-----------------------------------------------------------------------------
(* record_attempt_outcome                                                    *)

\* The cell of the attempt that is recorded.
LEMMA OwnCell ==
  ASSUME JournalInv, NEW s \in Steps, NEW outcome \in Outcomes, NEW code \in Codes,
         CanRecord(op, s)
  PROVE  LET y == OwnStep(op, s, outcome)
             z == Noted(op, s, outcome, IF outcome = "failed" THEN code ELSE "none", <<outcome>>)
         IN  /\ CellOK(y, z, s \in op.compensable)
             /\ y.active # 0 => outcome = "outcome_unknown" /\ z[y.active].status = outcome
             /\ outcome = "succeeded" /\ Untroubled(op.attempts[s]) => Untroubled(z)
  <1> DEFINE x == op.steps[s]
             q == op.attempts[s]
             a == q[x.active]
             b == NewStatus(a, outcome, IF outcome = "failed" THEN code ELSE "none", <<outcome>>)
             y == [ status |-> IF outcome = "succeeded" /\ a.mode = "compensate"
                               THEN "compensated" ELSE outcome,
                    active |-> IF outcome = "outcome_unknown" THEN x.active ELSE 0 ]
             z == [q EXCEPT ![x.active] = b]
  <1>1. CellOK(x, q, s \in op.compensable) /\ x.active # 0 /\ a.status = "dispatched"
    BY CellFacts DEF JournalInv, CanRecord, ActiveIs, Active
  <1>2. OwnStep(op, s, outcome) = y  BY DEF OwnStep, Active
  <1>3. Noted(op, s, outcome, IF outcome = "failed" THEN code ELSE "none", <<outcome>>) = z
    BY DEF Noted, NewStatus, Active
  <1> HIDE DEF x, q
  <1>4. /\ a \in Attempt /\ a.receipts = ReceiptsOf(a) /\ x.active \in DOMAIN q
        /\ (a.status = "failed") = (a.failure # "none") /\ x.active \in Nat
    BY <1>1, CellActive DEF CellOK, StepRow
  <1>5. a.mode \in Modes  BY <1>4, AttemptFields
  <1> HIDE DEF a
  <1>6. b \in Attempt /\ b.receipts = ReceiptsOf(b)  BY <1>1, <1>4, NewStatusOK
  <1>7. /\ b.mode = a.mode /\ b.status = outcome
        /\ b.failure = IF outcome = "failed" THEN code ELSE "none"
    BY DEF NewStatus
  <1>8. code \notin Reserved /\ code # "none"  BY JournalAssumption
  <1>9. (b.status = "failed") = (b.failure # "none")  BY <1>7, <1>8
  <1> HIDE DEF b
  <1>10. y \in StepRow  BY <1>4 DEF StepRow, StepStatuses, Outcomes
  <1>11. y.status = ByLatest(b)  BY <1>5, <1>7, <1>8 DEF ByLatest, Outcomes, Modes
  <1>12. y.active = IF b.status \in ActiveStatuses THEN x.active ELSE 0
    BY <1>7 DEF ActiveStatuses, Outcomes
  <1>13. y.active # 0 => outcome = "outcome_unknown" /\ y.active = x.active  OBVIOUS
  <1> HIDE DEF y
  <1>14. CellOK(y, z, s \in op.compensable)
    BY <1>1, <1>6, <1>7, <1>9, <1>10, <1>11, <1>12, CellNoted DEF a
  <1>15. z[x.active] = b /\ \A n \in DOMAIN z : n \in DOMAIN q /\ (n # x.active => z[n] = q[n])
    BY <1>4
  <1>16. outcome = "succeeded" /\ Untroubled(q) => Untroubled(z)
    BY <1>7, <1>15 DEF Untroubled
  <1>17. y.active # 0 => outcome = "outcome_unknown" /\ z[y.active].status = outcome
    BY <1>7, <1>13, <1>15
  <1> HIDE DEF z
  <1>. QED  BY <1>2, <1>3, <1>14, <1>16, <1>17 DEF q

\* The cell of an attempt that was prepared and will not be dispatched any more.
LEMMA SettledCell ==
  ASSUME JournalInv, NEW t \in Steps, ActiveIs(op, t, "prepared")
  PROVE  /\ CellOK(SettledStep(op, t), SettledAttempts(op, t), t \in op.compensable)
         /\ SettledStep(op, t).active = 0
  <1> DEFINE x == op.steps[t]
             q == op.attempts[t]
             a == q[x.active]
             b == NewStatus(a, "failed", "not_dispatched", <<"not_executed">>)
             y == [status |-> Restored(a.mode), active |-> 0]
             z == [q EXCEPT ![x.active] = b]
  <1>1. CellOK(x, q, t \in op.compensable) /\ x.active # 0 /\ a.status = "prepared"
    BY CellFacts DEF JournalInv, ActiveIs, Active
  <1>2. SettledStep(op, t) = y /\ SettledAttempts(op, t) = z
    BY DEF SettledStep, SettledAttempts, Noted, NewStatus, Active
  <1> HIDE DEF x, q
  <1>3. /\ a \in Attempt /\ a.receipts = ReceiptsOf(a)
        /\ (a.status = "failed") = (a.failure # "none")
    BY <1>1, CellActive
  <1>4. y \in StepRow /\ y.active = 0 /\ y.status = Restored(a.mode)
    BY DEF StepRow, Restored, StepStatuses
  <1> HIDE DEF a, y
  <1>5. b \in Attempt /\ b.receipts = ReceiptsOf(b)  BY <1>1, <1>3, NewStatusOK
  <1>6. b.mode = a.mode /\ b.status = "failed" /\ b.failure = "not_dispatched"  BY DEF NewStatus
  <1> HIDE DEF b
  <1>7. y.status = ByLatest(b)  BY <1>4, <1>6 DEF ByLatest, Reserved
  <1>8. CellOK(y, z, t \in op.compensable)
    BY <1>1, <1>4, <1>5, <1>6, <1>7, CellNoted DEF a, ActiveStatuses
  <1>. QED  BY <1>2, <1>4, <1>8

LEMMA RecordKeeps ==
  ASSUME JournalInv, NEW c \in Callers, NEW s \in Steps, NEW outcome \in Outcomes,
         NEW code \in Codes, RecordOutcome(c, s, outcome, code)
  PROVE  JournalInv'
  <1> USE DEF JournalInv
  <1> DEFINE status == OutcomeStatus(op, s, outcome)
             siblings == Siblings(op, s, outcome)
             failure == IF status = "failed" THEN code ELSE "none"
             attention == status = "needs_attention"
             own == Noted(op, s, outcome, IF outcome = "failed" THEN code ELSE "none", <<outcome>>)
             y(t) == CASE t = s -> OwnStep(op, s, outcome)
                       [] t \in siblings -> SettledStep(op, t)
                       [] OTHER -> op.steps[t]
             z(t) == CASE t = s -> own
                       [] t \in siblings -> SettledAttempts(op, t)
                       [] OTHER -> op.attempts[t]
             steps == [t \in Steps |-> y(t)]
             attempts == [t \in Steps |-> z(t)]
  <1>1. /\ CanRecord(op, s) /\ op.status \in {"running", "compensating", "needs_attention"}
        /\ StepsOf(op) = Steps
    BY DEF RecordOutcome, CanRecord, HeaderType, OverSteps, StepsOf
  <1>2. /\ status \in OperationStatuses
        /\ status \in {op.status, "failed", "needs_attention"}
        /\ op.status = "needs_attention" => status = "needs_attention"
        /\ outcome # "succeeded" => status \in Terminal
    BY <1>1 DEF OutcomeStatus, OperationStatuses, Outcomes, Terminal
  <1>3. /\ HeaderType' /\ op'.compensable = op.compensable /\ op'.status = status
        /\ op'.failure = failure /\ op'.attention = attention
        /\ op'.steps = steps /\ op'.attempts = attempts
    <2>1. failure \in Codes \cup {"none"} /\ attention \in BOOLEAN  OBVIOUS
    <2>2. OverSteps(steps) /\ OverSteps(attempts)
      <3> HIDE DEF y, z
      <3>. QED  BY DEF OverSteps
    <2>3. Write(c, NextRow(op, status, failure, attention, steps, attempts))
      BY <1>1 DEF RecordOutcome, RecordedRow
    <2> HIDE DEF failure, attention, steps, attempts, status
    <2>. QED  BY <1>2, <2>1, <2>2, <2>3, NextRowType
  <1>4. \A t \in Steps : op'.steps[t] = y(t) /\ op'.attempts[t] = z(t)
    <2> HIDE DEF y, z
    <2>. QED  BY <1>3
  <1>5. /\ CellOK(y(s), z(s), s \in op.compensable)
        /\ y(s).active # 0 => outcome = "outcome_unknown" /\ z(s)[y(s).active].status = outcome
        /\ outcome = "succeeded" /\ Untroubled(op.attempts[s]) => Untroubled(z(s))
    <2>0. s \notin siblings  BY DEF Siblings
    <2> HIDE DEF siblings, own
    <2>1. y(s) = OwnStep(op, s, outcome) /\ z(s) = own  BY <2>0
    <2>2. LET v == OwnStep(op, s, outcome)
          IN  /\ CellOK(v, own, s \in op.compensable)
              /\ v.active # 0 => outcome = "outcome_unknown" /\ own[v.active].status = outcome
              /\ outcome = "succeeded" /\ Untroubled(op.attempts[s]) => Untroubled(own)
      <3> HIDE DEF y, z
      <3>. QED  BY <1>1, OwnCell DEF own
    <2> HIDE DEF y, z
    <2>. QED  BY <2>1, <2>2
  <1>6. /\ siblings \subseteq Steps \ {s}
        /\ \A t \in siblings : ActiveIs(op, t, "prepared")
        /\ outcome = "succeeded" => siblings = {}
        /\ outcome # "succeeded" => \A t \in Steps \ {s} : ActiveIs(op, t, "prepared") => t \in siblings
    BY <1>1 DEF Siblings
  <1>7. \A t \in siblings : CellOK(y(t), z(t), t \in op.compensable) /\ y(t).active = 0
    BY <1>6, SettledCell
  <1>8. \A t \in Steps : t # s /\ t \notin siblings => y(t) = op.steps[t] /\ z(t) = op.attempts[t]
    OBVIOUS
  <1> HIDE DEF y, z
  <1>9. CellsOK'  BY <1>3, <1>4, <1>5, <1>6, <1>7, <1>8 DEF CellsOK
  <1>10. HeaderValid'
    BY <1>3, JournalAssumption DEF HeaderValid
  <1> HIDE DEF siblings
  <1>11. ASSUME status = "failed", NEW t \in Steps  PROVE y(t).active = 0
    <2>1. outcome = "failed" /\ ~OtherUncertain(op, s)
      BY <1>1, <1>11 DEF OutcomeStatus
    <2>2. CASE t = s  BY <1>5, <2>1, <2>2
    <2>3. CASE t \in siblings  BY <1>7, <2>3
    <2>4. CASE t # s /\ t \notin siblings
      <3> SUFFICES ASSUME op.steps[t].active # 0  PROVE FALSE
        BY <1>8, <2>4
      <3>1. /\ op.steps[t].active \in DOMAIN op.attempts[t]
            /\ op.attempts[t][op.steps[t].active].status \in ActiveStatuses
        BY CellFacts, CellActive
      <3>2. ~ActiveIs(op, t, "prepared")  BY <1>6, <2>1, <2>4
      <3>3. op.attempts[t][op.steps[t].active].status \in {"dispatched", "outcome_unknown"}
        BY <3>1, <3>2 DEF ActiveIs, Active, ActiveStatuses
      <3>. QED  BY <1>1, <2>1, <2>4, <3>1, <3>3 DEF OtherUncertain, Attempts
    <2>. QED  BY <2>2, <2>3, <2>4
  <1>12. ASSUME status = "needs_attention", NEW t \in Steps
         PROVE  y(t).active # 0 => z(t)[y(t).active].status # "prepared"
    <2>1. CASE t = s  BY <1>5, <2>1
    <2>2. CASE t \in siblings  BY <1>7, <2>2
    <2>3. CASE t # s /\ t \notin siblings
      <3>1. CASE op.status = "needs_attention"
        BY <1>8, <2>3, <3>1 DEF StatusOK, ActiveIs, Active
      <3>2. CASE op.status # "needs_attention"
        <4>1. outcome # "succeeded"  BY <1>1, <1>12, <3>2 DEF OutcomeStatus
        <4>. QED  BY <1>6, <1>8, <2>3, <4>1 DEF ActiveIs, Active
      <3>. QED  BY <3>1, <3>2
    <2>. QED  BY <2>1, <2>2, <2>3
  <1>13. ASSUME status \notin Terminal, NEW t \in Steps  PROVE Untroubled(z(t))
    <2>1. outcome = "succeeded" /\ siblings = {} /\ op.status \notin Terminal
      BY <1>1, <1>2, <1>6, <1>13 DEF Terminal
    <2>2. Untroubled(op.attempts[t])  BY <2>1 DEF StatusOK
    <2>. QED  BY <1>5, <1>8, <2>1, <2>2
  <1> HIDE DEF status
  <1>14. StatusOK'
    BY <1>1, <1>2, <1>3, <1>4, <1>11, <1>12, <1>13 DEF StatusOK, ActiveIs, Active
  <1>15. OutcomeValid'  BY <1>1, <1>2, <1>3 DEF OutcomeValid
  <1>. QED  BY <1>3, <1>9, <1>10, <1>14, <1>15

-----------------------------------------------------------------------------
(* The invariant and what follows from it.                                   *)

LEMMA JournalInitOK == JournalInit => JournalInv
  <1> SUFFICES ASSUME JournalInit  PROVE JournalInv
    OBVIOUS
  <1>1. PICK compensable \in SUBSET Steps : op = PlannedRow(Steps, compensable)  BY DEF JournalInit
  <1> DEFINE steps == [s \in Steps |-> [status |-> "pending", active |-> 0]]
             attempts == [s \in Steps |-> << >>]
  <1>0. OverSteps(steps) /\ OverSteps(attempts)
    <2> DEFINE e1 == [status |-> "pending", active |-> 0]
               e2 == << >>
    <2> HIDE DEF e1, e2
    <2>1. OverSteps([s \in Steps |-> e1]) /\ OverSteps([s \in Steps |-> e2])  BY DEF OverSteps
    <2>. QED  BY <2>1 DEF e1, e2
  <1>a. \A s \in Steps : steps[s] = [status |-> "pending", active |-> 0] /\ attempts[s] = << >>
    OBVIOUS
  <1>b. op = [ status |-> "planned", failure |-> "none", attention |-> FALSE, revision |-> 1,
               compensable |-> compensable, steps |-> steps, attempts |-> attempts ]
    BY <1>1 DEF PlannedRow
  <1> HIDE DEF steps, attempts
  <1>2. /\ op.status = "planned" /\ op.failure = "none" /\ op.attention = FALSE /\ op.revision = 1
        /\ op.compensable = compensable /\ op.steps = steps /\ op.attempts = attempts
        /\ op = [ status |-> op.status, failure |-> op.failure, attention |-> op.attention,
                  revision |-> op.revision, compensable |-> op.compensable,
                  steps |-> op.steps, attempts |-> op.attempts ]
    <2> HIDE DEF OverSteps
    <2>1. /\ op.status = "planned" /\ op.failure = "none" /\ op.attention = FALSE /\ op.revision = 1
          /\ op.compensable = compensable /\ op.steps = steps /\ op.attempts = attempts
      BY <1>b
    <2>. QED  BY <1>b, <2>1
  <1>3. HeaderType
    <2>1. known \in [Callers -> Nat]  BY DEF JournalInit
    <2>2. /\ op.status \in OperationStatuses /\ op.failure \in Codes \cup {"none"}
          /\ op.revision \in Nat \ {0} /\ op.compensable \in SUBSET Steps
      <3>1. op.status = "planned" /\ op.failure = "none" /\ op.revision = 1
        BY <1>2
      <3>2. op.compensable = compensable  BY <1>2
      <3>. QED  BY <3>1, <3>2 DEF OperationStatuses
    <2>4. op.attention \in BOOLEAN  BY <1>2, Zenon
    <2>3. OverSteps(op.steps) /\ OverSteps(op.attempts)  BY <1>0, <1>2
    <2>. QED  BY <1>2, <2>1, <2>2, <2>3, <2>4, Zenon DEF HeaderType
  <1>4. CellsOK  BY <1>a, <1>2, EmptyCellOK DEF CellsOK
  <1>5. HeaderValid
    <2>1. op.status = "planned" /\ op.failure = "none"  BY <1>2
    <2>2. (op.status = "needs_attention") = FALSE  BY <2>1
    <2>3. op.attention = FALSE  BY <1>2
    <2>4. (op.status = "needs_attention") = op.attention  BY <2>2, <2>3, Zenon
    <2>. QED  BY <2>1, <2>4 DEF HeaderValid
  <1>6. StatusOK /\ OutcomeValid
    <2>1. op.status = "planned" /\ \A s \in Steps : op.attempts[s] = << >>  BY <1>a, <1>2
    <2>. QED  BY <2>1 DEF StatusOK, OutcomeValid, Untroubled
  <1>. QED  BY <1>3, <1>4, <1>5, <1>6 DEF JournalInv

LEMMA JournalStepOK == JournalInv /\ [JournalNext]_journalVars => JournalInv'
  <1> SUFFICES ASSUME JournalInv, [JournalNext]_journalVars  PROVE JournalInv'
    OBVIOUS
  <1>1. ASSUME NEW c \in Callers, Read(c)  PROVE JournalInv'
    <2>1. op' = op  BY <1>1 DEF Read
    <2>2. known' \in [Callers -> Nat]  BY <1>1 DEF Read, JournalInv, HeaderType
    <2>. QED
      BY <2>1, <2>2 DEF JournalInv, HeaderType, CellsOK, HeaderValid, StatusOK, OutcomeValid,
                        ActiveIs, Active
  <1>2. CASE UNCHANGED journalVars
    BY <1>2 DEF journalVars, JournalInv, HeaderType, CellsOK, HeaderValid, StatusOK, OutcomeValid,
                ActiveIs, Active
  <1>. QED
    BY <1>1, <1>2, TransitionKeeps, PrepareKeeps, DispatchKeeps, RecordKeeps, ReconcileKeeps
    DEF JournalNext

LEMMA JournalInvSafe == JournalInv => JournalSafe
  <1> SUFFICES ASSUME JournalInv  PROVE JournalSafe
    OBVIOUS
  <1> USE DEF JournalInv
  <1>1. \A s \in Steps : op.steps[s] \in StepRow /\ op.attempts[s] \in Seq(Attempt)
    BY CellFacts DEF CellOK
  <1>2. JournalTypeOK
    <2>1. /\ op.steps \in [Steps -> [status : StepStatuses, active : Nat]]
          /\ op.attempts \in [Steps -> Seq(Attempt)]
      BY <1>1 DEF HeaderType, OverSteps, StepRow
    <2>2. op \in [ status : OperationStatuses, failure : Codes \cup {"none"}, attention : BOOLEAN,
                   revision : Nat \ {0}, compensable : SUBSET Steps,
                   steps : [Steps -> [status : StepStatuses, active : Nat]],
                   attempts : [Steps -> Seq(Attempt)] ]
      <3> DEFINE T1 == [Steps -> [status : StepStatuses, active : Nat]]
                 T2 == [Steps -> Seq(Attempt)]
      <3>1. op.steps \in T1 /\ op.attempts \in T2  BY <2>1
      <3> HIDE DEF T1, T2
      <3>2. op \in [ status : OperationStatuses, failure : Codes \cup {"none"}, attention : BOOLEAN,
                     revision : Nat \ {0}, compensable : SUBSET Steps, steps : T1, attempts : T2 ]
        BY <3>1 DEF HeaderType
      <3>. QED  BY <3>2 DEF T1, T2
    <2>. QED  BY <2>2 DEF JournalTypeOK, HeaderType
  <1>3. TriedOnce
    <2> SUFFICES ASSUME NEW s \in Steps, NEW n \in DOMAIN op.attempts[s],
                        NEW k \in DOMAIN op.attempts[s],
                        op.attempts[s][n].mode = op.attempts[s][k].mode
                 PROVE  n = k
      BY DEF TriedOnce, Attempts
    <2>. QED  BY CellFacts DEF CellOK
  <1>4. NothingHeldBack
    BY DEF NothingHeldBack, StatusOK, Terminal, ActiveIs, Active
  <1>. QED  BY <1>2, <1>3, <1>4 DEF JournalSafe

LEMMA JournalInvMaterializable == JournalInv => Materializable
  <1> SUFFICES ASSUME JournalInv  PROVE Materializable
    OBVIOUS
  <1> USE DEF JournalInv
  <1>1. ActiveValid
    <2>1. ASSUME NEW s \in Steps  
          PROVE  /\ \A n \in DOMAIN op.attempts[s] :
                       op.attempts[s][n].status \in ActiveStatuses => op.steps[s].active = n
                 /\ op.steps[s].active # 0 =>
                       /\ op.steps[s].active \in DOMAIN op.attempts[s]
                       /\ op.attempts[s][op.steps[s].active].status \in ActiveStatuses
      BY CellFacts, CellActive DEF CellOK
    <2>2. op.status \in {"succeeded", "failed", "compensated"} => NoActiveAttempt(op)
      BY NoActiveCells DEF StatusOK, HeaderType
    <2>. QED  BY <2>1, <2>2 DEF ActiveValid, Attempts, Active, StatusOK
  <1>2. StepsValid
    <2> SUFFICES ASSUME NEW s \in Steps
                 PROVE
        /\ op.attempts[s] = << >> => op.steps[s].status = "pending"
        /\ op.attempts[s] # << >> =>
               op.steps[s].status = ByLatest(op.attempts[s][Len(op.attempts[s])])
        /\ \A n, k \in DOMAIN op.attempts[s] :
               n < k /\ op.attempts[s][n].mode = "compensate" =>
                   op.attempts[s][k].mode = "compensate"
        /\ \A n \in DOMAIN op.attempts[s] :
               op.attempts[s][n].mode = "compensate" => s \in op.compensable
      BY DEF StepsValid, Attempts
    <2>. QED  BY CellFacts DEF CellOK
  <1>3. AttemptsValid
    <2> SUFFICES ASSUME NEW s \in Steps, NEW n \in DOMAIN op.attempts[s]
                 PROVE  /\ (op.attempts[s][n].status = "failed") = (op.attempts[s][n].failure # "none")
                        /\ op.attempts[s][n].receipts = ReceiptsOf(op.attempts[s][n])
      BY DEF AttemptsValid, Attempts
    <2>. QED  BY CellFacts DEF CellOK
  <1>. QED  BY <1>1, <1>2, <1>3 DEF Materializable

\* The types, what may be tried, and what may still be dispatched: no step is tried twice in a mode,
\* and a closed operation holds nothing back (OperationStore.prepare_attempt, record_attempt_outcome).
THEOREM JournalIsSafe == JournalSpec => []JournalSafe
  BY JournalInitOK, JournalStepOK, JournalInvSafe, PTL DEF JournalSpec

\* Whatever the callers do with whatever they read, what is stored passes the validator
\* (_validate_materialized_projection).
THEOREM AlwaysMaterializable == JournalSpec => []Materializable
  BY JournalInitOK, JournalStepOK, JournalInvMaterializable, PTL DEF JournalSpec

-----------------------------------------------------------------------------
(* What was recorded is final.                                               *)

\* An attempt of one row, and what the next row has in its place.
AttemptFinal(a, b) ==
    /\ a.status \in {"succeeded", "failed"} => b = a
    /\ a.status = "outcome_unknown" /\ b # a => b.failure = "not_executed"

CellFinal(q, z) == \A n \in DOMAIN q : AttemptFinal(q[n], z[n])

RowFinal ==
    /\ \A s \in Steps : CellFinal(op.attempts[s], op'.attempts[s])
    /\ op.status \in {"succeeded", "failed", "compensated"} => op' = op
    /\ op.status = "needs_attention" => op'.status = "needs_attention"

LEMMA CellStays == ASSUME NEW q PROVE CellFinal(q, q)
  BY DEF CellFinal, AttemptFinal

\* Only the active attempt of a cell changes, and it was not recorded yet.
LEMMA CellNotedFinal ==
  ASSUME NEW q, NEW n \in DOMAIN q, NEW b,
         \/ q[n].status \in {"prepared", "dispatched"}
         \/ q[n].status = "outcome_unknown" /\ b.failure = "not_executed"
  PROVE  CellFinal(q, [q EXCEPT ![n] = b])
  BY DEF CellFinal, AttemptFinal

LEMMA NotedFinal ==
  ASSUME JournalInv, NEW s \in Steps, NEW status, NEW failure, NEW receipts,
         \/ ActiveIs(op, s, "prepared") \/ ActiveIs(op, s, "dispatched")
         \/ ActiveIs(op, s, "outcome_unknown") /\ failure = "not_executed"
  PROVE  CellFinal(op.attempts[s], Noted(op, s, status, failure, receipts))
  <1> DEFINE q == op.attempts[s]
             n == op.steps[s].active
             b == NewStatus(q[n], status, failure, receipts)
  <1>1. n \in DOMAIN q  BY CellFacts, CellActive DEF JournalInv, ActiveIs, Active
  <1>2. \/ q[n].status \in {"prepared", "dispatched"}
        \/ q[n].status = "outcome_unknown" /\ failure = "not_executed"
    BY DEF ActiveIs, Active
  <1>3. b.failure = failure  BY DEF NewStatus
  <1>4. Noted(op, s, status, failure, receipts) = [q EXCEPT ![n] = b]
    BY DEF Noted, NewStatus, Active
  <1> HIDE DEF q, n, b
  <1>5. CellFinal(q, [q EXCEPT ![n] = b])  BY <1>1, <1>2, <1>3, CellNotedFinal
  <1>. QED  BY <1>4, <1>5 DEF q

LEMMA OneCellFinal ==
  ASSUME JournalInv, NEW c \in Callers, NEW s \in Steps, NEW y, NEW z, OneCell(c, s, y, z),
         op.status \in {"running", "compensating", "needs_attention"},
         CellFinal(op.attempts[s], z)
  PROVE  RowFinal
  <1>0. /\ HeaderType'
        /\ op'.compensable = op.compensable /\ op'.status = op.status
        /\ op'.failure = op.failure /\ op'.attention = op.attention
        /\ op'.steps = [op.steps EXCEPT ![s] = y] /\ op'.attempts = [op.attempts EXCEPT ![s] = z]
    <2> HIDE DEF JournalInv, CellFinal
    <2>. QED  BY OneCellHeader
  <1>1. op'.status = op.status /\ op'.attempts = [op.attempts EXCEPT ![s] = z]  BY <1>0
  <1>2. op'.attempts[s] = z /\ \A t \in Steps \ {s} : op'.attempts[t] = op.attempts[t]
    BY <1>1 DEF JournalInv, HeaderType, OverSteps
  <1>. QED  BY <1>1, <1>2, CellStays DEF RowFinal

LEMMA PrepareFinal ==
  ASSUME JournalInv, NEW c \in Callers, NEW s \in Steps, NEW mode \in Modes,
         PrepareAttempt(c, s, mode)
  PROVE  RowFinal
  <1> DEFINE q == op.attempts[s]
             y == [status |-> "running", active |-> Len(q) + 1]
             z == Append(q, NewAttempt(mode))
  <1>1. op.status \in {"running", "compensating"}  BY DEF PrepareAttempt, CanPrepare
  <1>2. OneCell(c, s, y, z)
    <2>1. [op.attempts EXCEPT ![s] = Append(@, NewAttempt(mode))] = [op.attempts EXCEPT ![s] = z]
      OBVIOUS
    <2>. QED  BY <2>1 DEF PrepareAttempt, PreparedRow, OneCell
  <1>3. q \in Seq(Attempt)  BY CellFacts DEF JournalInv, CellOK
  <1>4. NewAttempt(mode) \in Attempt  BY EmptySeq DEF NewAttempt, Attempt, AttemptStatuses
  <1> HIDE DEF q
  <1>5. \A n \in DOMAIN q : z[n] = q[n]  BY <1>3, <1>4, AppendProperties
  <1>6. CellFinal(q, z)  BY <1>5 DEF CellFinal, AttemptFinal
  <1> HIDE DEF y, z
  <1>. QED  BY <1>1, <1>2, <1>6, OneCellFinal DEF q

LEMMA RecordFinal ==
  ASSUME JournalInv, NEW c \in Callers, NEW s \in Steps, NEW outcome \in Outcomes,
         NEW code \in Codes, RecordOutcome(c, s, outcome, code)
  PROVE  RowFinal
  <1> DEFINE siblings == Siblings(op, s, outcome)
             failure == IF outcome = "failed" THEN code ELSE "none"
             own == Noted(op, s, outcome, failure, <<outcome>>)
             z(t) == CASE t = s -> own
                       [] t \in siblings -> SettledAttempts(op, t)
                       [] OTHER -> op.attempts[t]
  <1>1. /\ ActiveIs(op, s, "dispatched") /\ StepsOf(op) = Steps
        /\ op.status \in {"running", "compensating", "needs_attention"}
    BY DEF JournalInv, RecordOutcome, CanRecord, HeaderType, OverSteps, StepsOf
  <1>2. /\ op'.status = OutcomeStatus(op, s, outcome)
        /\ op'.attempts = [t \in Steps |-> z(t)]
    BY <1>1 DEF RecordOutcome, RecordedRow, Write, NextRow
  <1>3. op.status = "needs_attention" => op'.status = "needs_attention"
    BY <1>2 DEF OutcomeStatus
  <1>4. siblings \subseteq Steps \ {s} /\ \A t \in siblings : ActiveIs(op, t, "prepared")
    BY <1>1 DEF Siblings
  <1> HIDE DEF siblings
  <1>5. CellFinal(op.attempts[s], z(s))
    <2>1. z(s) = own  BY <1>4
    <2>2. CellFinal(op.attempts[s], own)  BY <1>1, NotedFinal
    <2>. QED  BY <2>1, <2>2
  <1>6. ASSUME NEW t \in siblings  PROVE CellFinal(op.attempts[t], z(t))
    <2>1. z(t) = SettledAttempts(op, t)  BY <1>4
    <2>2. CellFinal(op.attempts[t], SettledAttempts(op, t))
      BY <1>4, NotedFinal DEF SettledAttempts
    <2>. QED  BY <2>1, <2>2
  <1>7. ASSUME NEW t \in Steps, t # s, t \notin siblings  PROVE CellFinal(op.attempts[t], z(t))
    BY <1>7, CellStays
  <1> HIDE DEF z
  <1>. QED  BY <1>1, <1>2, <1>3, <1>5, <1>6, <1>7 DEF RowFinal

LEMMA StepIsFinal ==
  ASSUME JournalInv, [JournalNext]_journalVars
  PROVE  RowFinal
  <1>1. ASSUME op' = op  PROVE RowFinal  BY <1>1, CellStays DEF RowFinal
  <1>2. ASSUME NEW c \in Callers, NEW status \in OperationStatuses, NEW code \in Codes,
               Transition(c, status, code)
        PROVE  RowFinal
    <2>1. op'.attempts = op.attempts
      BY <1>2 DEF Transition, Transitioned, Write, NextRow
    <2>2. op.status \notin Terminal
      BY <1>2 DEF Transition, CanTransition, Transitions, Terminal
    <2>. QED  BY <2>1, <2>2, CellStays DEF RowFinal, Terminal
  <1>3. ASSUME NEW c \in Callers, NEW s \in Steps, DispatchAttempt(c, s)
        PROVE  RowFinal
    <2>1. CellFinal(op.attempts[s], Noted(op, s, "dispatched", "none", << >>))
      BY <1>3, NotedFinal DEF DispatchAttempt, CanDispatch
    <2>2. op.steps = [op.steps EXCEPT ![s] = op.steps[s]]
      BY DEF JournalInv, HeaderType, OverSteps
    <2>3. OneCell(c, s, op.steps[s], Noted(op, s, "dispatched", "none", << >>))
      BY <1>3, <2>2 DEF OneCell, DispatchAttempt, DispatchedRow
    <2>. QED  BY <1>3, <2>1, <2>3, OneCellFinal DEF DispatchAttempt, CanDispatch
  <1>4. ASSUME NEW c \in Callers, NEW s \in Steps, RecordNotExecuted(c, s)
        PROVE  RowFinal
    <2>1. CellFinal(op.attempts[s], Noted(op, s, "failed", "not_executed", <<"not_executed">>))
      BY <1>4, NotedFinal DEF RecordNotExecuted, CanReconcile
    <2>2. OneCell(c, s, SettledStep(op, s), Noted(op, s, "failed", "not_executed", <<"not_executed">>))
      BY <1>4 DEF OneCell, RecordNotExecuted, ReconciledRow
    <2>. QED  BY <1>4, <2>1, <2>2, OneCellFinal DEF RecordNotExecuted, CanReconcile
  <1>5. ASSUME NEW c \in Callers, Read(c)  PROVE RowFinal  BY <1>1, <1>5 DEF Read
  <1>. QED
    BY <1>1, <1>2, <1>3, <1>4, <1>5, PrepareFinal, RecordFinal DEF JournalNext, journalVars

\* An outcome that was recorded stays, but for an unknown one that the provider denies, and a closed
\* operation never moves again (OperationStore, all writers).
THEOREM RecordsAreFinal == JournalSpec => RecordIsFinal
  <1>1. JournalInv /\ [JournalNext]_journalVars => RowFinal  BY StepIsFinal
  <1>2. RowFinal =>
          /\ \A s \in Steps : \A n \in Attempts(op, s) :
                 LET a == op.attempts[s][n]  b == op'.attempts[s][n]
                 IN  /\ a.status \in {"succeeded", "failed"} => b = a
                     /\ a.status = "outcome_unknown" /\ b # a => b.failure = "not_executed"
          /\ op.status \in {"succeeded", "failed", "compensated"} => op' = op
          /\ op.status = "needs_attention" => op'.status = "needs_attention"
    BY DEF RowFinal, CellFinal, AttemptFinal, Attempts
  <1>. QED  BY <1>1, <1>2, JournalInitOK, JournalStepOK, PTL DEF JournalSpec, RecordIsFinal
================================================================================
