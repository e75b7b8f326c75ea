------------------------ MODULE WorkspaceClaimsProofs --------------------------
(***************************************************************************)
(* What WorkspaceClaims promises for every set of idempotency keys: the    *)
(* three stores agree on the claim, an agent is woken once for a dispatch  *)
(* and the item's history says so, and nobody works in a detached runtime. *)
(* Then what WorkspaceDelivery promises for every set of patches, reviewers *)
(* and apply requests: only what somebody else accepted gets into the      *)
(* source repository, once at most, and "completed" is never pretended.    *)
(***************************************************************************)
EXTENDS WorkspaceClaims, WorkspaceDelivery, FiniteSetTheorems, SequenceTheorems, TLAPS

-----------------------------------------------------------------------------
(* The claim.                                                                *)

\* An operation of one step: the step, and at most one attempt at it, which is the active
\* one until its outcome is known.
AttemptIn(op) == IF op.attempts[TheStep] = << >> THEN "none" ELSE AttemptOf(op).status

RowShape(op) ==
    /\ DOMAIN op.steps = {TheStep} /\ op.steps = [s \in {TheStep} |-> op.steps[s]]
    /\ op.attempts = [s \in {TheStep} |-> op.attempts[s]]
    /\ \/ op.attempts[TheStep] = << >> /\ Active(op, TheStep) = 0
       \/ /\ op.attempts[TheStep] = <<AttemptOf(op)>> /\ AttemptOf(op).mode = "execute"
          /\ AttemptOf(op).status \in AttemptStatuses
          /\ Active(op, TheStep) = IF AttemptOf(op).status \in ActiveStatuses THEN 1 ELSE 0

RowOK(op) ==
    /\ RowShape(op)
    /\ op.status \in {"planned", "running", "succeeded", "failed", "needs_attention"}
    /\ op.status = "planned" => AttemptIn(op) = "none"
    /\ op.status = "running" => AttemptIn(op) \in {"none", "prepared", "dispatched", "succeeded"}
    /\ op.status = "succeeded" => AttemptIn(op) = "succeeded"
    /\ op.status = "failed" => AttemptIn(op) = "failed"
    /\ op.status = "needs_attention" => AttemptIn(op) = "outcome_unknown"

\* The wakeups of a key, as its journal row tells them, and the call that serves it.
WakeupOK(op, d, n) ==
    /\ n <= 1
    /\ AttemptIn(op) \in {"none", "prepared"} => n = 0
    /\ AttemptIn(op) = "succeeded" => n = 1
    /\ d.at = "wake" => op.status = "running" /\ AttemptIn(op) = "dispatched" /\ n = 0
    /\ d.at = "record" =>
          op.status = "running" /\ AttemptIn(op) \in {"dispatched", "succeeded"} /\ n = 1
    /\ d.at = "finish" =>
          d.verdict \in Verdicts /\ (d.verdict = "succeeded" => op.status = "succeeded")

\* The deliveries of a key were recorded at the revisions its first call asked for, all of
\* them past, and of the verdicts one at most.
HistoryOK(op, d, del, a, revision) ==
    /\ \A o \in DeliveryOutcomes : del[o] < revision
    /\ del["intent"] # 0 => del["intent"] = a.work
    /\ \A o \in Verdicts : del[o] # 0 => del[o] = a.work + 1 /\ del["intent"] # 0
    /\ \A o, v \in Verdicts : del[o] # 0 /\ del[v] # 0 => o = v
    /\ del["succeeded"] # 0 => op.status = "succeeded"
    /\ d.at # "idle" => a.work # 0
    /\ d.at \in {"run", "wake", "record", "finish"} => del["intent"] # 0

KeyOK(op, d, n, del, a, revision) ==
    RowOK(op) /\ WakeupOK(op, d, n) /\ HistoryOK(op, d, del, a, revision)

KeysOK ==
    \A k \in Keys :
        KeyOK(wakeupOp[k], dispatch[k], woken[k], delivered[k], asked[k], work.revision)

\* The activation goes by the journal's row, and is past the lease only with the lease.
ToolOK ==
    /\ RowOK(claimOp) /\ claimOp.status \in {"planned", "running", "succeeded"}
    /\ AttemptIn(claimOp) = "succeeded" => lease.status = "active"
    /\ tool.at = "prepare" => claimOp.status = "running" /\ AttemptIn(claimOp) = "none"
    /\ tool.at = "dispatch" => claimOp.status = "running" /\ AttemptIn(claimOp) = "prepared"
    /\ tool.at = "lease" => AttemptIn(claimOp) \in {"dispatched", "succeeded"}
    /\ tool.at = "record" =>
          /\ lease.status = "active"
          /\ claimOp.status = "running" /\ AttemptIn(claimOp) \in {"dispatched", "succeeded"}
    /\ tool.at = "claim" => lease.status = "active"
    /\ claim.state # "none" => claim.at # 0

StoresType ==
    /\ work \in [status : {"unassigned", "working"}, revision : Nat \ {0}]
    /\ claim \in [state : {"none", "pending_gate", "active"}, at : Nat]
    /\ delivered \in [Keys -> [DeliveryOutcomes -> Nat]]
    /\ prep \in [state : {"connected_readonly", "detaching", "detached"}, revision : Nat \ {0}]
    /\ lease \in [status : {"reserved", "active", "revoked"}, revision : Nat \ {0}]

CallsType ==
    /\ asked \in [Keys -> [work : Nat, prep : Nat]]
    /\ dispatch \in [Keys -> [ at : {"idle", "intent", "run", "wake", "record", "finish"},
                              verdict : Verdicts \cup {"none"} ]]
    /\ tool \in [ at : { "idle", "reserve", "journal", "prepare", "dispatch", "lease", "record",
                         "claim" }, work : Nat, prep : Nat, lease : Nat ]
    /\ detach \in [at : {"idle", "begin", "close", "finish"}, prep : Nat]
    /\ paneLive \in BOOLEAN
    /\ woken \in [Keys -> 0..MaxWakeups]
    /\ wakeupOp = [k \in Keys |-> wakeupOp[k]]

ClaimsInv ==
    /\ StoresType /\ CallsType /\ KeysOK /\ ToolOK /\ WorkingIsLeased
    /\ prep.state = "detached" => lease.status = "revoked"

-----------------------------------------------------------------------------
(* What the journal's writers make of an operation of one step.              *)

LEMMA PlannedOK ==
  LET q == PlannedRow({TheStep}, {})
  IN  RowOK(q) /\ q.status = "planned" /\ AttemptIn(q) = "none"
  BY DEF PlannedRow, RowOK, RowShape, AttemptIn, Active

LEMMA TransitionedOK ==
  ASSUME NEW op, RowShape(op), NEW status
  PROVE  LET q == Transitioned(op, status, "none")
         IN  RowShape(q) /\ q.status = status /\ AttemptIn(q) = AttemptIn(op)
                         /\ AttemptOf(q) = AttemptOf(op)
  BY DEF Transitioned, NextRow, RowShape, AttemptIn, AttemptOf, Active

LEMMA PreparedOK ==
  ASSUME NEW op, RowShape(op), AttemptIn(op) = "none"
  PROVE  LET q == PreparedRow(op, TheStep, "execute")
         IN  RowShape(q) /\ q.status = op.status /\ AttemptIn(q) = "prepared"
  <1> DEFINE q == PreparedRow(op, TheStep, "execute")
             a == NewAttempt("execute")
  <1>1. op.attempts[TheStep] = << >> /\ Active(op, TheStep) = 0
    BY DEF RowShape, AttemptIn, AttemptStatuses
  <1>2. /\ q.steps = [s \in {TheStep} |-> [status |-> "running", active |-> 1]]
        /\ q.attempts = [s \in {TheStep} |-> <<a>>] /\ q.status = op.status
    <2>1. [op.steps EXCEPT ![TheStep] = [status |-> "running", active |-> 1]]
             = [s \in {TheStep} |-> [status |-> "running", active |-> 1]]
      BY DEF RowShape
    <2>2. Append(<< >>, a) = <<a>> /\ Len(<< >>) = 0  OBVIOUS
    <2>3. [op.attempts EXCEPT ![TheStep] = Append(@, a)] = [s \in {TheStep} |-> <<a>>]
      BY <1>1, <2>2 DEF RowShape
    <2> HIDE DEF a
    <2>. QED  BY <1>1, <2>1, <2>2, <2>3 DEF PreparedRow, NextRow, a
  <1>3. q.attempts[TheStep] = <<a>> /\ AttemptOf(q) = a /\ Active(q, TheStep) = 1
    BY <1>2 DEF AttemptOf, Active
  <1>4. a.status = "prepared" /\ a.mode = "execute"  BY DEF NewAttempt
  <1> HIDE DEF q, a
  <1>5. <<a>> # << >>  OBVIOUS
  <1>6. RowShape(q)
    BY <1>2, <1>3, <1>4 DEF RowShape, ActiveStatuses, AttemptStatuses
  <1>7. AttemptIn(q) = "prepared"  BY <1>3, <1>4, <1>5 DEF AttemptIn
  <1>. QED  BY <1>2, <1>6, <1>7 DEF q

\* The one attempt, in a new status.
LEMMA NotedIs ==
  ASSUME NEW op, RowShape(op), AttemptIn(op) \in ActiveStatuses, NEW status, NEW failure, NEW receipts
  PROVE  /\ Active(op, TheStep) = 1 /\ AttemptOf(op).mode = "execute"
         /\ op.attempts[TheStep] = <<AttemptOf(op)>> /\ AttemptOf(op).status = AttemptIn(op)
         /\ \E a : /\ a.status = status /\ a.mode = "execute"
                  /\ Noted(op, TheStep, status, failure, receipts) = <<a>>
  <1>1. /\ op.attempts[TheStep] # << >> /\ op.attempts[TheStep] = <<AttemptOf(op)>>
        /\ AttemptOf(op).status = AttemptIn(op)
    BY DEF AttemptIn, ActiveStatuses, RowShape
  <1>2. Active(op, TheStep) = 1 /\ AttemptOf(op).mode = "execute"  BY <1>1 DEF RowShape
  <1> DEFINE a == [ mode |-> "execute", status |-> status, failure |-> failure,
                    receipts |-> AttemptOf(op).receipts \o receipts ]
  <1>3. Noted(op, TheStep, status, failure, receipts) = [op.attempts[TheStep] EXCEPT ![1] = a]
    BY <1>2 DEF Noted, AttemptOf
  <1>4. a.status = status /\ a.mode = "execute"  OBVIOUS
  <1> HIDE DEF a
  <1>5. [<<AttemptOf(op)>> EXCEPT ![1] = a] = <<a>>  OBVIOUS
  <1>. QED  BY <1>1, <1>2, <1>3, <1>4, <1>5

LEMMA DispatchedOK ==
  ASSUME NEW op, RowShape(op), AttemptIn(op) = "prepared"
  PROVE  LET q == DispatchedRow(op, TheStep)
         IN  RowShape(q) /\ q.status = op.status /\ AttemptIn(q) = "dispatched"
  <1> DEFINE q == DispatchedRow(op, TheStep)
  <1>1. PICK a : /\ a.status = "dispatched" /\ a.mode = "execute"
                 /\ Noted(op, TheStep, "dispatched", "none", << >>) = <<a>>
    BY NotedIs DEF ActiveStatuses
  <1>2. Active(op, TheStep) = 1  BY NotedIs DEF ActiveStatuses
  <1>3. /\ q.steps = op.steps /\ q.status = op.status
        /\ q.attempts = [s \in {TheStep} |-> <<a>>]
    BY <1>1 DEF DispatchedRow, NextRow, RowShape
  <1> HIDE DEF q
  <1>4. /\ q.attempts[TheStep] = <<a>> /\ AttemptOf(q) = a /\ Active(q, TheStep) = 1
        /\ <<a>> # << >>
    BY <1>2, <1>3 DEF AttemptOf, Active
  <1>5. RowShape(q)  BY <1>1, <1>3, <1>4 DEF RowShape, ActiveStatuses, AttemptStatuses
  <1>6. AttemptIn(q) = "dispatched"  BY <1>1, <1>4 DEF AttemptIn
  <1>. QED  BY <1>3, <1>5, <1>6 DEF q

LEMMA RecordedOK ==
  ASSUME NEW op, RowShape(op), op.status = "running", AttemptIn(op) = "dispatched",
         NEW outcome \in Outcomes, NEW code
  PROVE  LET q == RecordedRow(op, TheStep, outcome, code)
         IN  /\ RowShape(q) /\ AttemptIn(q) = outcome
             /\ q.status = CASE outcome = "succeeded" -> "running"
                             [] outcome = "failed" -> "failed"
                             [] OTHER -> "needs_attention"
  <1> DEFINE q == RecordedRow(op, TheStep, outcome, code)
             failure == IF outcome = "failed" THEN code ELSE "none"
             own == OwnStep(op, TheStep, outcome)
  <1>1. PICK a : /\ a.status = outcome /\ a.mode = "execute"
                 /\ Noted(op, TheStep, outcome, failure, <<outcome>>) = <<a>>
    BY NotedIs DEF ActiveStatuses
  <1>2. /\ Active(op, TheStep) = 1 /\ AttemptOf(op).mode = "execute"
        /\ op.attempts[TheStep] = <<AttemptOf(op)>>
    BY NotedIs DEF ActiveStatuses
  <1>3. own.active = IF outcome = "outcome_unknown" THEN 1 ELSE 0  BY <1>2 DEF OwnStep
  <1>4. StepsOf(op) = {TheStep}  BY DEF RowShape, StepsOf
  <1>5. ~OtherUncertain(op, TheStep)  BY <1>4 DEF OtherUncertain
  <1>6. /\ q.attempts = [t \in {TheStep} |-> <<a>>] /\ q.steps = [t \in {TheStep} |-> own]
        /\ q.status = OutcomeStatus(op, TheStep, outcome)
    <2> DEFINE siblings == Siblings(op, TheStep, outcome)
               n == Noted(op, TheStep, outcome, failure, <<outcome>>)
               s2(t) == CASE t = TheStep -> own
                          [] t \in siblings -> SettledStep(op, t)
                          [] OTHER -> op.steps[t]
               a2(t) == CASE t = TheStep -> n
                          [] t \in siblings -> SettledAttempts(op, t)
                          [] OTHER -> op.attempts[t]
    <2>1. /\ q.steps = [t \in StepsOf(op) |-> s2(t)] /\ q.attempts = [t \in StepsOf(op) |-> a2(t)]
          /\ q.status = OutcomeStatus(op, TheStep, outcome)
      BY DEF RecordedRow, NextRow
    <2>2. TheStep \notin siblings  BY DEF Siblings
    <2>3. s2(TheStep) = own  BY <2>2
    <2>4. a2(TheStep) = n  BY <2>2
    <2> HIDE DEF own, siblings, n, q, s2, a2
    <2>5. /\ [t \in StepsOf(op) |-> s2(t)] = [t \in {TheStep} |-> own]
          /\ [t \in StepsOf(op) |-> a2(t)] = [t \in {TheStep} |-> n]
      BY <1>4, <2>3, <2>4
    <2>6. n = <<a>>  BY <1>1 DEF n
    <2>. QED  BY <2>1, <2>6, <2>5
  <1> HIDE DEF q, own
  <1>7. q.status = CASE outcome = "succeeded" -> "running"
                     [] outcome = "failed" -> "failed"
                     [] OTHER -> "needs_attention"
    BY <1>5, <1>6 DEF OutcomeStatus, Outcomes
  <1>8. /\ q.attempts[TheStep] = <<a>> /\ AttemptOf(q) = a /\ Active(q, TheStep) = own.active
        /\ <<a>> # << >>
    BY <1>6 DEF AttemptOf, Active
  <1>9. RowShape(q)
    BY <1>1, <1>3, <1>6, <1>8 DEF RowShape, ActiveStatuses, AttemptStatuses, Outcomes
  <1>10. AttemptIn(q) = outcome  BY <1>1, <1>8 DEF AttemptIn
  <1>. QED  BY <1>7, <1>9, <1>10 DEF q

LEMMA ActiveIsAttempt ==
  ASSUME NEW op, RowShape(op), NEW status \in ActiveStatuses, ActiveIs(op, TheStep, status)
  PROVE  AttemptIn(op) = status
  <1>1. /\ op.attempts[TheStep] # << >> /\ Active(op, TheStep) = 1
        /\ op.attempts[TheStep] = <<AttemptOf(op)>>
    BY DEF ActiveIs, RowShape
  <1>. QED  BY <1>1 DEF ActiveIs, AttemptIn, AttemptOf

LEMMA AttemptedIs ==
  ASSUME NEW op, RowShape(op)
  PROVE  /\ Attempted(op) <=> AttemptIn(op) # "none"
         /\ Attempted(op) => AttemptOf(op).status = AttemptIn(op)
  BY DEF Attempted, AttemptIn, RowShape, AttemptStatuses

\* What is past stays past.
LEMMA HistoryGrows ==
  ASSUME NEW op, NEW d, NEW del \in [DeliveryOutcomes -> Nat], NEW a,
         NEW r \in Nat, NEW r2 \in Nat, r <= r2, HistoryOK(op, d, del, a, r)
  PROVE  HistoryOK(op, d, del, a, r2)
  BY DEF HistoryOK

LEMMA InitSafe == ClaimsInit => ClaimsInv
  <1> SUFFICES ASSUME ClaimsInit PROVE ClaimsInv  OBVIOUS
  <1> USE DEF ClaimsInit
  <1>1. StoresType  BY DEF StoresType
  <1>2. CallsType
    <2>1. woken \in [Keys -> 0..MaxWakeups]  BY ClaimsAssumption
    <2>2. dispatch \in [Keys -> [ at : {"idle", "intent", "run", "wake", "record", "finish"},
                                 verdict : Verdicts \cup {"none"} ]]
      BY DEF NoDispatch
    <2>. QED  BY <2>1, <2>2 DEF CallsType, NoTool, NoDetach
  <1>3. KeysOK
    <2> DEFINE op == PlannedRow({TheStep}, {})
    <2>1. RowOK(op) /\ op.status = "planned" /\ AttemptIn(op) = "none"  BY PlannedOK
    <2> HIDE DEF op
    <2> SUFFICES ASSUME NEW k \in Keys
                 PROVE  KeyOK(op, NoDispatch, 0, [o \in DeliveryOutcomes |-> 0],
                              [work |-> 0, prep |-> 0], 1)
      BY DEF KeysOK, op
    <2>2. WakeupOK(op, NoDispatch, 0)  BY <2>1 DEF WakeupOK, NoDispatch
    <2>3. HistoryOK(op, NoDispatch, [o \in DeliveryOutcomes |-> 0], [work |-> 0, prep |-> 0], 1)
      BY DEF HistoryOK, NoDispatch, Verdicts, DeliveryOutcomes
    <2>. QED  BY <2>1, <2>2, <2>3 DEF KeyOK
  <1>4. ToolOK
    <2>1. RowOK(claimOp) /\ claimOp.status = "planned" /\ AttemptIn(claimOp) = "none"
      BY PlannedOK
    <2>. QED  BY <2>1 DEF ToolOK, NoTool
  <1>. QED  BY <1>1, <1>2, <1>3, <1>4 DEF ClaimsInv, WorkingIsLeased

-----------------------------------------------------------------------------
(* The dispatch of a key, by what it makes of that key alone.                *)

\* What Deliver makes of a key's history, and of the item.
LEMMA DeliverOK ==
  ASSUME ClaimsInv, NEW k \in Keys, NEW o \in DeliveryOutcomes, NEW r \in Nat,
         Deliver(k, o, r)
  PROVE  /\ work'.status = work.status /\ work' \in [status : {"unassigned", "working"}, revision : Nat \ {0}]
         /\ work'.revision \in Nat /\ work.revision <= work'.revision
         /\ delivered' \in [Keys -> [DeliveryOutcomes -> Nat]]
         /\ delivered'[k][o] = r
         /\ \A v \in DeliveryOutcomes \ {o} : delivered'[k][v] = delivered[k][v]
         /\ \A j \in Keys \ {k} : delivered'[j] = delivered[j]
         /\ \A v \in DeliveryOutcomes : delivered'[k][v] < work'.revision
         /\ delivered[k][o] = 0 \/ delivered'[k] = delivered[k]
         /\ delivered'[k] = delivered[k] \/ work.revision = r
  <1>1. /\ work \in [status : {"unassigned", "working"}, revision : Nat \ {0}]
        /\ delivered \in [Keys -> [DeliveryOutcomes -> Nat]]
    BY DEF ClaimsInv, StoresType
  <1>2. \A v \in DeliveryOutcomes : delivered[k][v] < work.revision
    BY DEF ClaimsInv, KeysOK, KeyOK, HistoryOK
  <1>3. CASE delivered[k][o] = r /\ UNCHANGED <<work, delivered>>  BY <1>1, <1>2, <1>3
  <1>4. CASE /\ delivered[k][o] = 0 /\ work.revision = r
             /\ work' = [work EXCEPT !.revision = @ + 1]
             /\ delivered' = [delivered EXCEPT ![k][o] = r]
    BY <1>1, <1>2, <1>4
  <1>. QED  BY <1>3, <1>4 DEF Deliver

\* A step that changes nothing but one key, and the item's revision.
OneKey(k) ==
    /\ \A j \in Keys \ {k} : /\ wakeupOp'[j] = wakeupOp[j] /\ dispatch'[j] = dispatch[j]
                             /\ woken'[j] = woken[j] /\ delivered'[j] = delivered[j]
                             /\ asked'[j] = asked[j]
    /\ work'.status = work.status /\ work.revision <= work'.revision
    /\ DispatchFrame

LEMMA OneKeyKeeps ==
  ASSUME ClaimsInv, NEW k \in Keys, OneKey(k), StoresType', CallsType',
         KeyOK(wakeupOp[k], dispatch[k], woken[k], delivered[k], asked[k], work.revision)'
  PROVE  ClaimsInv'
  <1>1. KeysOK'
    <2> SUFFICES ASSUME NEW j \in Keys
                 PROVE  KeyOK(wakeupOp[j], dispatch[j], woken[j], delivered[j], asked[j],
                              work.revision)'
      BY DEF KeysOK
    <2>1. CASE j = k  BY <2>1
    <2>2. CASE j # k
      <3>1. /\ KeyOK(wakeupOp[j], dispatch[j], woken[j], delivered[j], asked[j], work.revision)
            /\ delivered[j] \in [DeliveryOutcomes -> Nat] /\ work.revision \in Nat
            /\ work'.revision \in Nat /\ work.revision <= work'.revision
        BY DEF ClaimsInv, KeysOK, StoresType, OneKey
      <3>2. HistoryOK(wakeupOp[j], dispatch[j], delivered[j], asked[j], work'.revision)
        BY <3>1, HistoryGrows DEF KeyOK
      <3>3. /\ wakeupOp'[j] = wakeupOp[j] /\ dispatch'[j] = dispatch[j] /\ woken'[j] = woken[j]
            /\ delivered'[j] = delivered[j] /\ asked'[j] = asked[j]
        BY <2>2 DEF OneKey
      <3>. QED  BY <3>1, <3>2, <3>3 DEF KeyOK
    <2>. QED  BY <2>1, <2>2
  <1>2. ToolOK' /\ WorkingIsLeased' /\ (prep.state = "detached" => lease.status = "revoked")'
    BY DEF ClaimsInv, OneKey, DispatchFrame, executionVars, ToolOK, WorkingIsLeased
  <1>. QED  BY <1>1, <1>2 DEF ClaimsInv

LEMMA CheckKeeps ==
  ASSUME ClaimsInv, NEW k \in Keys, DispatchCheck(k)
  PROVE  ClaimsInv'
  <1>1. StoresType /\ CallsType
        /\ KeyOK(wakeupOp[k], dispatch[k], woken[k], delivered[k], asked[k], work.revision)
    BY DEF ClaimsInv, KeysOK
  <1>2. StoresType'  BY <1>1 DEF StoresType, DispatchCheck, DispatchFrame, executionVars
  <1>3. /\ asked' \in [Keys -> [work : Nat, prep : Nat]]
        /\ \A j \in Keys \ {k} : asked'[j] = asked[j]
        /\ IF delivered[k]["intent"] # 0 THEN asked'[k] = asked[k]
           ELSE asked'[k].work = work.revision
    BY <1>1 DEF DispatchCheck, StoresType, CallsType
  <1>4. /\ dispatch'[k] = [at |-> "intent", verdict |-> "none"]
        /\ \A j \in Keys \ {k} : dispatch'[j] = dispatch[j]
    BY <1>1 DEF DispatchCheck, Goes, CallsType
  <1>5. CallsType'
    <2>1. dispatch' \in [Keys -> [ at : {"idle", "intent", "run", "wake", "record", "finish"},
                                  verdict : Verdicts \cup {"none"} ]]
      BY <1>1 DEF DispatchCheck, Goes, CallsType
    <2>. QED  BY <1>1, <1>3, <2>1 DEF CallsType, DispatchCheck, DispatchFrame
  <1>6. WakeupOK(wakeupOp[k], dispatch'[k], woken[k])
    BY <1>1, <1>4 DEF KeyOK, WakeupOK
  <1>7. HistoryOK(wakeupOp[k], dispatch'[k], delivered[k], asked'[k], work.revision)
    BY <1>1, <1>3, <1>4 DEF KeyOK, HistoryOK, StoresType, CallsType, Verdicts
  <1>8. KeyOK(wakeupOp[k], dispatch[k], woken[k], delivered[k], asked[k], work.revision)'
    BY <1>1, <1>6, <1>7 DEF KeyOK, DispatchCheck
  <1>9. OneKey(k)  BY <1>1, <1>3, <1>4 DEF OneKey, DispatchCheck, StoresType
  <1>. QED  BY <1>2, <1>5, <1>8, <1>9, OneKeyKeeps

\* A delivery of a call: the intent, or the verdict of a finished one.
LEMMA DeliveryKeeps ==
  ASSUME ClaimsInv, NEW k \in Keys, DispatchIntent(k) \/ DispatchFinish(k)
  PROVE  ClaimsInv'
  <1>1. StoresType /\ CallsType
        /\ KeyOK(wakeupOp[k], dispatch[k], woken[k], delivered[k], asked[k], work.revision)
    BY DEF ClaimsInv, KeysOK
  <1> DEFINE op == wakeupOp[k]  d == dispatch[k]  del == delivered[k]  a == asked[k]
             d2 == dispatch'[k]  del2 == delivered'[k]
  <1>2. /\ a.work \in Nat /\ del \in [DeliveryOutcomes -> Nat] /\ work.revision \in Nat
        /\ dispatch \in [Keys -> [ at : {"idle", "intent", "run", "wake", "record", "finish"},
                                  verdict : Verdicts \cup {"none"} ]]
    BY <1>1 DEF StoresType, CallsType
  <1>3. /\ HistoryOK(op, d, del, a, work.revision) /\ WakeupOK(op, d, woken[k]) /\ RowOK(op)
    BY <1>1 DEF KeyOK
  <1>4. /\ UNCHANGED <<wakeupOp, asked, woken>> /\ DispatchFrame
        /\ Goes(k, "run", "none") \/ Goes(k, "idle", "none")
    BY DEF DispatchIntent, DispatchFinish
  <1>5. /\ dispatch' \in [Keys -> [ at : {"idle", "intent", "run", "wake", "record", "finish"},
                                  verdict : Verdicts \cup {"none"} ]]
        /\ \A j \in Keys \ {k} : dispatch'[j] = dispatch[j]
        /\ d2.at \in {"run", "idle"}
    BY <1>2, <1>4 DEF Goes
  <1>6. WakeupOK(op, d2, woken[k])  BY <1>3, <1>5 DEF WakeupOK
  <1>7. /\ delivered' \in [Keys -> [DeliveryOutcomes -> Nat]]
        /\ work' \in [status : {"unassigned", "working"}, revision : Nat \ {0}]
        /\ work'.status = work.status /\ work.revision <= work'.revision
        /\ \A j \in Keys \ {k} : delivered'[j] = delivered[j]
        /\ HistoryOK(op, d2, del2, a, work'.revision)
    <2>1. CASE DispatchIntent(k)
      <3>1. Deliver(k, "intent", a.work) /\ d.at = "intent" /\ d2.at = "run"
        BY <1>2, <2>1 DEF DispatchIntent, Goes
      <3>2. "intent" \in DeliveryOutcomes /\ Verdicts \subseteq DeliveryOutcomes \ {"intent"}
        BY DEF DeliveryOutcomes, Verdicts
      <3>3. /\ delivered' \in [Keys -> [DeliveryOutcomes -> Nat]]
            /\ work' \in [status : {"unassigned", "working"}, revision : Nat \ {0}]
            /\ work'.status = work.status /\ work.revision <= work'.revision
            /\ \A j \in Keys \ {k} : delivered'[j] = delivered[j]
            /\ \A v \in DeliveryOutcomes : del2[v] < work'.revision
            /\ del2["intent"] = a.work
            /\ \A v \in Verdicts : del2[v] = del[v]
        BY <1>2, <3>1, <3>2, DeliverOK
      <3>4. "succeeded" \in Verdicts /\ a.work # 0  BY <1>3, <3>1 DEF Verdicts, HistoryOK
      <3>5. HistoryOK(op, d2, del2, a, work'.revision)
        BY <1>3, <3>1, <3>3, <3>4 DEF HistoryOK
      <3>. QED  BY <3>3, <3>5
    <2>2. CASE DispatchFinish(k)
      <3> DEFINE v == d.verdict
      <3>1. Deliver(k, v, a.work + 1) /\ d.at = "finish" /\ d2.at = "idle"
        BY <1>2, <2>2 DEF DispatchFinish, Goes
      <3>2. v \in Verdicts /\ (v = "succeeded" => op.status = "succeeded")
        BY <1>3, <3>1 DEF WakeupOK
      <3>3. v \in DeliveryOutcomes /\ v # "intent" /\ "intent" \in DeliveryOutcomes
            /\ Verdicts \subseteq DeliveryOutcomes /\ a.work + 1 \in Nat
        BY <1>2, <3>2 DEF DeliveryOutcomes, Verdicts
      <3> HIDE DEF v
      <3>4. /\ delivered' \in [Keys -> [DeliveryOutcomes -> Nat]]
            /\ work' \in [status : {"unassigned", "working"}, revision : Nat \ {0}]
            /\ work'.status = work.status /\ work.revision <= work'.revision
            /\ \A j \in Keys \ {k} : delivered'[j] = delivered[j]
            /\ \A o \in DeliveryOutcomes : del2[o] < work'.revision
            /\ del2[v] = a.work + 1 /\ del2["intent"] = del["intent"]
            /\ \A o \in Verdicts \ {v} : del2[o] = del[o]
            /\ del2 = del \/ work.revision = a.work + 1
        BY <3>1, <3>3, DeliverOK
      <3>5. CASE del2 = del  BY <1>3, <3>1, <3>4, <3>5 DEF HistoryOK
      <3>6. CASE work.revision = a.work + 1
        <4>1. \A o \in Verdicts \ {v} : del[o] = 0
          BY <1>2, <1>3, <3>3, <3>6 DEF HistoryOK
        <4>2. del["intent"] # 0  BY <1>3, <3>1 DEF HistoryOK
        <4>3. del2["succeeded"] # 0 => op.status = "succeeded"
          BY <3>2, <3>4, <4>1 DEF Verdicts
        <4>. QED  BY <1>3, <3>1, <3>4, <4>1, <4>2, <4>3 DEF HistoryOK
      <3>. QED  BY <3>4, <3>5, <3>6
    <2>. QED  BY <2>1, <2>2
  <1>8. KeyOK(wakeupOp[k], dispatch[k], woken[k], delivered[k], asked[k], work.revision)'
    BY <1>3, <1>4, <1>6, <1>7 DEF KeyOK
  <1>9. OneKey(k)  BY <1>4, <1>5, <1>7 DEF OneKey
  <1>10. StoresType'  BY <1>1, <1>4, <1>7 DEF StoresType, DispatchFrame, executionVars
  <1>11. CallsType'  BY <1>1, <1>4, <1>5 DEF CallsType, DispatchFrame
  <1>. QED  BY <1>8, <1>9, <1>10, <1>11, OneKeyKeeps

\* The places of a dispatch call.
DispatchPlaces == [ at : {"idle", "intent", "run", "wake", "record", "finish"},
                    verdict : Verdicts \cup {"none"} ]

\* A call past its intent writes the key's journal row, or wakes the agent, or ends.
LEMMA RowKeeps ==
  ASSUME ClaimsInv, NEW k \in Keys, NEW q, NEW d2 \in DispatchPlaces, NEW n2 \in 0..MaxWakeups,
         wakeupOp' = [wakeupOp EXCEPT ![k] = q], dispatch' = [dispatch EXCEPT ![k] = d2],
         woken' = [woken EXCEPT ![k] = n2], UNCHANGED <<work, delivered, asked>>, DispatchFrame,
         RowOK(q), WakeupOK(q, d2, n2),
         dispatch[k].at \in {"run", "wake", "record", "finish"} \/ d2.at = "idle",
         wakeupOp[k].status = "succeeded" => q.status = "succeeded"
  PROVE  ClaimsInv'
  <1>1. /\ StoresType /\ CallsType
        /\ HistoryOK(wakeupOp[k], dispatch[k], delivered[k], asked[k], work.revision)
    BY DEF ClaimsInv, KeysOK, KeyOK
  <1>2. /\ wakeupOp'[k] = q /\ dispatch'[k] = d2 /\ woken'[k] = n2
        /\ \A j \in Keys \ {k} : /\ wakeupOp'[j] = wakeupOp[j] /\ dispatch'[j] = dispatch[j]
                                 /\ woken'[j] = woken[j]
    BY <1>1 DEF CallsType
  <1>3. HistoryOK(q, d2, delivered[k], asked[k], work.revision)
    BY <1>1 DEF HistoryOK
  <1>4. KeyOK(wakeupOp[k], dispatch[k], woken[k], delivered[k], asked[k], work.revision)'
    BY <1>2, <1>3 DEF KeyOK
  <1>5. OneKey(k)  BY <1>1, <1>2 DEF OneKey, StoresType
  <1>6. StoresType'  BY <1>1 DEF StoresType, DispatchFrame, executionVars
  <1>7. CallsType'
    <2>1. dispatch' \in [Keys -> DispatchPlaces] /\ woken' \in [Keys -> 0..MaxWakeups]
      BY <1>1 DEF CallsType, DispatchPlaces
    <2>2. wakeupOp' = [j \in Keys |-> wakeupOp'[j]]  BY <1>1 DEF CallsType
    <2>. QED  BY <1>1, <2>1, <2>2 DEF CallsType, DispatchFrame, DispatchPlaces
  <1>. QED  BY <1>4, <1>5, <1>6, <1>7, OneKeyKeeps

\* What the invariant says of a key.
LEMMA KeyFacts ==
  ASSUME ClaimsInv, NEW k \in Keys
  PROVE  /\ RowOK(wakeupOp[k]) /\ RowShape(wakeupOp[k])
         /\ WakeupOK(wakeupOp[k], dispatch[k], woken[k])
         /\ HistoryOK(wakeupOp[k], dispatch[k], delivered[k], asked[k], work.revision)
         /\ dispatch[k] \in DispatchPlaces /\ woken[k] \in 0..MaxWakeups
         /\ wakeupOp = [wakeupOp EXCEPT ![k] = wakeupOp[k]]
         /\ dispatch = [dispatch EXCEPT ![k] = dispatch[k]]
         /\ woken = [woken EXCEPT ![k] = woken[k]]
  <1>1. /\ dispatch \in [Keys -> DispatchPlaces] /\ woken \in [Keys -> 0..MaxWakeups]
        /\ wakeupOp = [j \in Keys |-> wakeupOp[j]]
    BY DEF ClaimsInv, CallsType, DispatchPlaces
  <1>2. KeyOK(wakeupOp[k], dispatch[k], woken[k], delivered[k], asked[k], work.revision)
    BY DEF ClaimsInv, KeysOK
  <1>3. wakeupOp = [wakeupOp EXCEPT ![k] = wakeupOp[k]]
    <2> DEFINE f == [j \in Keys |-> wakeupOp[j]]
    <2>1. f = [f EXCEPT ![k] = f[k]]  OBVIOUS
    <2>2. f = wakeupOp  BY <1>1
    <2> HIDE DEF f
    <2>. QED  BY <2>1, <2>2
  <1>. QED  BY <1>1, <1>2, <1>3 DEF KeyOK, RowOK

LEMMA AdvanceKeeps ==
  ASSUME ClaimsInv, NEW k \in Keys, DispatchAdvance(k)
  PROVE  ClaimsInv'
  <1> DEFINE op == wakeupOp[k]  d == dispatch[k]  n == woken[k]
             awake == [at |-> "wake", verdict |-> "none"]
  <1>1. /\ RowOK(op) /\ RowShape(op) /\ WakeupOK(op, d, n) /\ d \in DispatchPlaces
        /\ n \in 0..MaxWakeups /\ dispatch = [dispatch EXCEPT ![k] = d]
        /\ woken = [woken EXCEPT ![k] = n]
    BY KeyFacts
  <1>2. /\ d.at = "run" /\ woken' = [woken EXCEPT ![k] = n]
        /\ UNCHANGED <<work, delivered, asked>> /\ DispatchFrame
    BY <1>1 DEF DispatchAdvance
  <1>3. CASE /\ op.status = "planned" /\ UNCHANGED dispatch
             /\ wakeupOp' = [wakeupOp EXCEPT ![k] = Transitioned(op, "running", "none")]
    <2> DEFINE q == Transitioned(op, "running", "none")
    <2>1. RowShape(q) /\ q.status = "running" /\ AttemptIn(q) = AttemptIn(op)
      BY <1>1, TransitionedOK
    <2>2. AttemptIn(op) = "none"  BY <1>1, <1>3 DEF RowOK
    <2> HIDE DEF q
    <2>3. RowOK(q) /\ WakeupOK(q, d, n)  BY <1>1, <1>2, <2>1, <2>2 DEF RowOK, WakeupOK
    <2>. QED  BY <1>1, <1>2, <1>3, <2>3, RowKeeps DEF q
  <1>4. CASE /\ op.status = "running" /\ ~Attempted(op) /\ UNCHANGED dispatch
             /\ wakeupOp' = [wakeupOp EXCEPT ![k] = PreparedRow(op, TheStep, "execute")]
    <2> DEFINE q == PreparedRow(op, TheStep, "execute")
    <2>1. AttemptIn(op) = "none"  BY <1>1, <1>4, AttemptedIs
    <2>2. RowShape(q) /\ q.status = "running" /\ AttemptIn(q) = "prepared"
      BY <1>1, <1>4, <2>1, PreparedOK
    <2> HIDE DEF q
    <2>3. RowOK(q) /\ WakeupOK(q, d, n)  BY <1>1, <1>2, <2>1, <2>2 DEF RowOK, WakeupOK
    <2>. QED  BY <1>1, <1>2, <1>4, <2>3, RowKeeps DEF q
  <1>5. CASE /\ op.status = "running" /\ ActiveIs(op, TheStep, "prepared")
             /\ Goes(k, "wake", "none")
             /\ wakeupOp' = [wakeupOp EXCEPT ![k] = DispatchedRow(op, TheStep)]
    <2> DEFINE q == DispatchedRow(op, TheStep)
    <2>1. AttemptIn(op) = "prepared"  BY <1>1, <1>5, ActiveIsAttempt DEF ActiveStatuses
    <2>2. RowShape(q) /\ q.status = "running" /\ AttemptIn(q) = "dispatched"
      BY <1>1, <1>5, <2>1, DispatchedOK
    <2> HIDE DEF q
    <2>3. RowOK(q) /\ WakeupOK(q, awake, n)  BY <1>1, <2>1, <2>2 DEF RowOK, WakeupOK
    <2>4. awake \in DispatchPlaces /\ dispatch' = [dispatch EXCEPT ![k] = awake]
      BY <1>5 DEF DispatchPlaces, Goes
    <2>. QED  BY <1>1, <1>2, <1>5, <2>3, <2>4, RowKeeps DEF q
  <1>. QED  BY <1>3, <1>4, <1>5 DEF DispatchAdvance

\* The row of an attempt whose outcome is not known.
LEMMA UnknownRow ==
  ASSUME NEW op, RowShape(op), op.status = "running", AttemptIn(op) = "dispatched"
  PROVE  LET q == RecordedRow(op, TheStep, "outcome_unknown", "none")
         IN  RowOK(q) /\ q.status = "needs_attention" /\ AttemptIn(q) = "outcome_unknown"
  BY RecordedOK DEF RowOK, Outcomes

LEMMA RecoverKeeps ==
  ASSUME ClaimsInv, NEW k \in Keys, DispatchRecover(k)
  PROVE  ClaimsInv'
  <1> DEFINE op == wakeupOp[k]  d == dispatch[k]  n == woken[k]
             unknown == [at |-> "finish", verdict |-> "outcome_unknown"]
             done == [at |-> "finish", verdict |-> "succeeded"]
  <1>1. /\ RowOK(op) /\ RowShape(op) /\ WakeupOK(op, d, n) /\ n \in 0..MaxWakeups
        /\ wakeupOp = [wakeupOp EXCEPT ![k] = op] /\ woken = [woken EXCEPT ![k] = n]
    BY KeyFacts
  <1>2. /\ d.at = "run" /\ woken' = [woken EXCEPT ![k] = n]
        /\ UNCHANGED <<work, delivered, asked>> /\ DispatchFrame
        /\ unknown \in DispatchPlaces /\ done \in DispatchPlaces
    BY <1>1 DEF DispatchRecover, DispatchPlaces, Verdicts
  <1>3. \A v \in Verdicts : Goes(k, "finish", v) =>
            dispatch' = [dispatch EXCEPT ![k] = [at |-> "finish", verdict |-> v]]
    BY DEF Goes
  <1>4. CASE /\ op.status = "running" /\ ActiveIs(op, TheStep, "dispatched")
             /\ wakeupOp' \in {wakeupOp, [wakeupOp EXCEPT ![k] =
                                  RecordedRow(op, TheStep, "outcome_unknown", "none")]}
             /\ Goes(k, "finish", "outcome_unknown")
    <2> DEFINE q == RecordedRow(op, TheStep, "outcome_unknown", "none")
    <2>1. AttemptIn(op) = "dispatched"  BY <1>1, <1>4, ActiveIsAttempt DEF ActiveStatuses
    <2>2. RowOK(q) /\ q.status = "needs_attention" /\ AttemptIn(q) = "outcome_unknown"
      BY <1>1, <1>4, <2>1, UnknownRow
    <2> HIDE DEF q
    <2>3. WakeupOK(q, unknown, n) /\ WakeupOK(op, unknown, n)
      BY <1>1, <2>1, <2>2 DEF WakeupOK, Verdicts
    <2>4. dispatch' = [dispatch EXCEPT ![k] = unknown]  BY <1>3, <1>4 DEF Verdicts
    <2>5. CASE wakeupOp' = [wakeupOp EXCEPT ![k] = q]
      BY <1>1, <1>2, <1>4, <2>2, <2>3, <2>4, <2>5, RowKeeps
    <2>6. CASE wakeupOp' = [wakeupOp EXCEPT ![k] = op]
      BY <1>1, <1>2, <1>4, <2>3, <2>4, <2>6, RowKeeps
    <2>. QED  BY <1>1, <1>4, <2>5, <2>6 DEF q
  <1>5. CASE /\ op.status = "running" /\ Attempted(op) /\ AttemptOf(op).status = "succeeded"
             /\ wakeupOp' = [wakeupOp EXCEPT ![k] = Transitioned(op, "succeeded", "none")]
             /\ Goes(k, "finish", "succeeded")
    <2> DEFINE q == Transitioned(op, "succeeded", "none")
    <2>1. AttemptIn(op) = "succeeded"  BY <1>1, <1>5, AttemptedIs
    <2>2. RowShape(q) /\ q.status = "succeeded" /\ AttemptIn(q) = AttemptIn(op)
      BY <1>1, TransitionedOK
    <2> HIDE DEF q
    <2>3. RowOK(q) /\ WakeupOK(q, done, n)  BY <1>1, <2>1, <2>2 DEF RowOK, WakeupOK, Verdicts
    <2>4. dispatch' = [dispatch EXCEPT ![k] = done]  BY <1>3, <1>5 DEF Verdicts
    <2>. QED  BY <1>1, <1>2, <1>5, <2>2, <2>3, <2>4, RowKeeps DEF q
  <1>6. CASE op.status = "succeeded" /\ Goes(k, "finish", "succeeded") /\ UNCHANGED wakeupOp
    <2>1. WakeupOK(op, done, n)  BY <1>1, <1>6 DEF WakeupOK, Verdicts
    <2>2. dispatch' = [dispatch EXCEPT ![k] = done] /\ wakeupOp' = [wakeupOp EXCEPT ![k] = op]
      BY <1>1, <1>3, <1>6 DEF Verdicts
    <2>. QED  BY <1>1, <1>2, <2>1, <2>2, RowKeeps
  <1>7. CASE op.status = "needs_attention" /\ Goes(k, "finish", "outcome_unknown")
             /\ UNCHANGED wakeupOp
    <2>1. WakeupOK(op, unknown, n)  BY <1>1, <1>7 DEF WakeupOK, Verdicts
    <2>2. dispatch' = [dispatch EXCEPT ![k] = unknown] /\ wakeupOp' = [wakeupOp EXCEPT ![k] = op]
      BY <1>1, <1>3, <1>7 DEF Verdicts
    <2>. QED  BY <1>1, <1>2, <2>1, <2>2, RowKeeps
  <1>. QED  BY <1>4, <1>5, <1>6, <1>7 DEF DispatchRecover

LEMMA WakeupKeeps ==
  ASSUME ClaimsInv, NEW k \in Keys, NEW sent \in BOOLEAN, NEW answer \in Outcomes,
         Wakeup(k, sent, answer)
  PROVE  ClaimsInv'
  <1> DEFINE op == wakeupOp[k]  d == dispatch[k]  n == woken[k]
             n2 == IF sent THEN n + 1 ELSE n
             Row(code) == RecordedRow(op, TheStep, answer, code)
             place(at, v) == [at |-> at, verdict |-> v]
  <1>1. /\ RowOK(op) /\ RowShape(op) /\ WakeupOK(op, d, n) /\ n \in 0..MaxWakeups
        /\ wakeupOp = [wakeupOp EXCEPT ![k] = op] /\ woken = [woken EXCEPT ![k] = n]
    BY KeyFacts
  <1>2. op.status = "running" /\ AttemptIn(op) = "dispatched" /\ n = 0 /\ d.at = "wake"
    BY <1>1 DEF Wakeup, WakeupOK
  <1>3. n2 \in 0..MaxWakeups /\ woken' = [woken EXCEPT ![k] = n2] /\ n2 <= 1
    <2>1. CASE sent
      <3>1. woken' = [woken EXCEPT ![k] = n + 1] /\ n < MaxWakeups  BY <2>1 DEF Wakeup
      <3>. QED  BY <1>1, <1>2, <2>1, <3>1, ClaimsAssumption
    <2>2. CASE ~sent  BY <1>1, <1>2, <2>2 DEF Wakeup
    <2>. QED  BY <2>1, <2>2
  <1>4. /\ UNCHANGED <<work, delivered, asked>> /\ DispatchFrame
        /\ answer = "succeeded" => sent
    BY DEF Wakeup
  <1>5. /\ place("record", "none") \in DispatchPlaces /\ place("idle", "none") \in DispatchPlaces
        /\ place("finish", "outcome_unknown") \in DispatchPlaces
    BY DEF DispatchPlaces, Verdicts
  <1>6. CASE answer = "succeeded"
    <2>1. n2 = 1  BY <1>2, <1>4, <1>6
    <2>2. /\ dispatch' = [dispatch EXCEPT ![k] = place("record", "none")]
          /\ wakeupOp' = [wakeupOp EXCEPT ![k] = op]
      BY <1>1, <1>6 DEF Wakeup, Goes
    <2> HIDE DEF n2
    <2>3. WakeupOK(op, place("record", "none"), n2)  BY <1>2, <2>1 DEF WakeupOK
    <2>. QED  BY <1>1, <1>2, <1>3, <1>4, <1>5, <2>2, <2>3, RowKeeps
  <1>7. CASE answer = "failed"
    <2> DEFINE q == Row("unavailable")
    <2>1. RowShape(q) /\ AttemptIn(q) = "failed" /\ q.status = "failed"
      BY <1>1, <1>2, <1>7, RecordedOK
    <2>2. /\ dispatch' = [dispatch EXCEPT ![k] = place("idle", "none")]
          /\ wakeupOp' \in {[wakeupOp EXCEPT ![k] = op], [wakeupOp EXCEPT ![k] = q]}
      BY <1>1, <1>7 DEF Wakeup, Goes
    <2> HIDE DEF q, n2
    <2>3. /\ RowOK(q) /\ WakeupOK(q, place("idle", "none"), n2)
          /\ WakeupOK(op, place("idle", "none"), n2)
      BY <1>2, <1>3, <2>1 DEF RowOK, WakeupOK
    <2>4. CASE wakeupOp' = [wakeupOp EXCEPT ![k] = q]
      BY <1>1, <1>2, <1>3, <1>4, <1>5, <2>2, <2>3, <2>4, RowKeeps
    <2>5. CASE wakeupOp' = [wakeupOp EXCEPT ![k] = op]
      BY <1>1, <1>2, <1>3, <1>4, <1>5, <2>2, <2>3, <2>5, RowKeeps
    <2>. QED  BY <2>2, <2>4, <2>5
  <1>8. CASE answer = "outcome_unknown"
    <2> DEFINE q == Row("none")
    <2>1. RowOK(q) /\ q.status = "needs_attention" /\ AttemptIn(q) = "outcome_unknown"
      BY <1>1, <1>2, <1>8, UnknownRow
    <2>2. /\ dispatch' = [dispatch EXCEPT ![k] = place("finish", "outcome_unknown")]
          /\ wakeupOp' \in {[wakeupOp EXCEPT ![k] = op], [wakeupOp EXCEPT ![k] = q]}
      BY <1>1, <1>8 DEF Wakeup, Goes
    <2> HIDE DEF q, n2
    <2>3. /\ WakeupOK(q, place("finish", "outcome_unknown"), n2)
          /\ WakeupOK(op, place("finish", "outcome_unknown"), n2)
      BY <1>2, <1>3, <2>1 DEF WakeupOK, Verdicts
    <2>4. CASE wakeupOp' = [wakeupOp EXCEPT ![k] = q]
      BY <1>1, <1>2, <1>3, <1>4, <1>5, <2>1, <2>2, <2>3, <2>4, RowKeeps
    <2>5. CASE wakeupOp' = [wakeupOp EXCEPT ![k] = op]
      BY <1>1, <1>2, <1>3, <1>4, <1>5, <2>2, <2>3, <2>5, RowKeeps
    <2>. QED  BY <2>2, <2>4, <2>5
  <1>. QED  BY <1>6, <1>7, <1>8 DEF Outcomes

LEMMA RecordKeeps ==
  ASSUME ClaimsInv, NEW k \in Keys, DispatchRecord(k)
  PROVE  ClaimsInv'
  <1> DEFINE op == wakeupOp[k]  d == dispatch[k]  n == woken[k]
             unknown == [at |-> "finish", verdict |-> "outcome_unknown"]
             done == [at |-> "finish", verdict |-> "succeeded"]
  <1>1. /\ RowOK(op) /\ RowShape(op) /\ WakeupOK(op, d, n) /\ n \in 0..MaxWakeups
        /\ d \in DispatchPlaces /\ dispatch = [dispatch EXCEPT ![k] = d]
        /\ wakeupOp = [wakeupOp EXCEPT ![k] = op] /\ woken = [woken EXCEPT ![k] = n]
    BY KeyFacts
  <1>2. /\ d.at = "record" /\ woken' = [woken EXCEPT ![k] = n]
        /\ UNCHANGED <<work, delivered, asked>> /\ DispatchFrame
        /\ unknown \in DispatchPlaces /\ done \in DispatchPlaces
    BY <1>1 DEF DispatchRecord, DispatchPlaces, Verdicts
  <1>3. /\ op.status = "running" /\ AttemptIn(op) \in {"dispatched", "succeeded"} /\ n = 1
        /\ AttemptOf(op).status = AttemptIn(op)
    BY <1>1, <1>2, AttemptedIs DEF WakeupOK
  <1>4. CASE Goes(k, "finish", "outcome_unknown") /\ UNCHANGED wakeupOp
    <2>1. WakeupOK(op, unknown, n)  BY <1>3 DEF WakeupOK, Verdicts
    <2>2. /\ dispatch' = [dispatch EXCEPT ![k] = unknown]
          /\ wakeupOp' = [wakeupOp EXCEPT ![k] = op]
      BY <1>1, <1>4 DEF Goes
    <2>. QED  BY <1>1, <1>2, <2>1, <2>2, RowKeeps
  <1>5. CASE /\ AttemptOf(op).status = "dispatched" /\ UNCHANGED dispatch
             /\ wakeupOp' = [wakeupOp EXCEPT ![k] = RecordedRow(op, TheStep, "succeeded", "none")]
    <2> DEFINE q == RecordedRow(op, TheStep, "succeeded", "none")
    <2>1. RowShape(q) /\ AttemptIn(q) = "succeeded" /\ q.status = "running"
      <3>1. AttemptIn(op) = "dispatched" /\ "succeeded" \in Outcomes
        BY <1>3, <1>5 DEF Outcomes
      <3>. QED  BY <1>1, <1>3, <3>1, RecordedOK
    <2> HIDE DEF q
    <2>2. RowOK(q) /\ WakeupOK(q, d, n)  BY <1>2, <1>3, <2>1 DEF RowOK, WakeupOK
    <2>. QED  BY <1>1, <1>2, <1>3, <1>5, <2>2, RowKeeps DEF q
  <1>6. CASE /\ AttemptOf(op).status = "succeeded"
             /\ wakeupOp' = [wakeupOp EXCEPT ![k] = Transitioned(op, "succeeded", "none")]
             /\ Goes(k, "finish", "succeeded")
    <2> DEFINE q == Transitioned(op, "succeeded", "none")
    <2>1. RowShape(q) /\ q.status = "succeeded" /\ AttemptIn(q) = "succeeded"
      BY <1>1, <1>3, <1>6, TransitionedOK
    <2> HIDE DEF q
    <2>2. RowOK(q) /\ WakeupOK(q, done, n)  BY <1>3, <2>1 DEF RowOK, WakeupOK, Verdicts
    <2>3. dispatch' = [dispatch EXCEPT ![k] = done]  BY <1>6 DEF Goes
    <2>. QED  BY <1>1, <1>2, <1>6, <2>1, <2>2, <2>3, RowKeeps DEF q
  <1>. QED  BY <1>4, <1>5, <1>6 DEF DispatchRecord

LEMMA ErrorKeeps ==
  ASSUME ClaimsInv, NEW k \in Keys, DispatchError(k)
  PROVE  ClaimsInv'
  <1> DEFINE op == wakeupOp[k]  n == woken[k]  idle == [at |-> "idle", verdict |-> "none"]
  <1>1. /\ RowOK(op) /\ WakeupOK(op, dispatch[k], n) /\ n \in 0..MaxWakeups
        /\ wakeupOp = [wakeupOp EXCEPT ![k] = op] /\ woken = [woken EXCEPT ![k] = n]
    BY KeyFacts
  <1>2. WakeupOK(op, idle, n)  BY <1>1 DEF WakeupOK
  <1>3. /\ wakeupOp' = [wakeupOp EXCEPT ![k] = op] /\ woken' = [woken EXCEPT ![k] = n]
        /\ dispatch' = [dispatch EXCEPT ![k] = idle] /\ idle \in DispatchPlaces
        /\ UNCHANGED <<work, delivered, asked>> /\ DispatchFrame
    BY <1>1 DEF DispatchError, Goes, DispatchPlaces
  <1>. QED  BY <1>1, <1>2, <1>3, RowKeeps

-----------------------------------------------------------------------------
(* The agent's call, the detach, and a crash of the server.                  *)

\* A step that leaves the dispatches alone, and does not turn the item's revision back.
LEMMA KeysKept ==
  ASSUME ClaimsInv, StoresType', UNCHANGED <<wakeupOp, delivered, asked, woken>>,
         work.revision <= work'.revision,
         UNCHANGED dispatch \/ dispatch' = [k \in Keys |-> NoDispatch]
  PROVE  KeysOK'
  <1> SUFFICES ASSUME NEW k \in Keys
               PROVE  KeyOK(wakeupOp[k], dispatch[k], woken[k], delivered[k], asked[k],
                            work.revision)'
    BY DEF KeysOK
  <1>1. /\ RowOK(wakeupOp[k]) /\ WakeupOK(wakeupOp[k], dispatch[k], woken[k])
        /\ HistoryOK(wakeupOp[k], dispatch[k], delivered[k], asked[k], work.revision)
    BY KeyFacts
  <1>2. delivered[k] \in [DeliveryOutcomes -> Nat] /\ work.revision \in Nat /\ work'.revision \in Nat
    BY DEF ClaimsInv, StoresType
  <1>3. HistoryOK(wakeupOp[k], dispatch[k], delivered[k], asked[k], work'.revision)
    BY <1>1, <1>2, HistoryGrows
  <1>4. dispatch'[k] = dispatch[k] \/ dispatch'[k] = NoDispatch  OBVIOUS
  <1>5. WakeupOK(wakeupOp[k], dispatch'[k], woken[k])
    BY <1>1, <1>4 DEF WakeupOK, NoDispatch
  <1>6. HistoryOK(wakeupOp[k], dispatch'[k], delivered[k], asked[k], work'.revision)
    BY <1>3, <1>4 DEF HistoryOK, NoDispatch
  <1>. QED  BY <1>1, <1>5, <1>6 DEF KeyOK

LEMMA ServerDiesKeeps ==
  ASSUME ClaimsInv, ServerDies
  PROVE  ClaimsInv'
  <1>1. /\ StoresType /\ CallsType
        /\ UNCHANGED <<work, claim, delivered, prep, lease, wakeupOp, claimOp, asked, woken>>
        /\ UNCHANGED <<tool, paneLive>> /\ detach' = NoDetach
        /\ dispatch' = [k \in Keys |-> NoDispatch]
    BY DEF ClaimsInv, ServerDies, workVars, executionVars, journalRows
  <1>2. StoresType' /\ work.revision <= work'.revision  BY <1>1 DEF StoresType
  <1>3. dispatch' \in [Keys -> [ at : {"idle", "intent", "run", "wake", "record", "finish"},
                                 verdict : Verdicts \cup {"none"} ]]
    BY <1>1 DEF NoDispatch
  <1>4. CallsType'
    BY <1>1, <1>3 DEF CallsType, NoDetach
  <1>5. KeysOK'  BY <1>1, <1>2, KeysKept
  <1>. QED  BY <1>1, <1>2, <1>4, <1>5 DEF ClaimsInv, ToolOK, WorkingIsLeased

LEMMA DetachKeeps ==
  ASSUME ClaimsInv, DetachStep
  PROVE  ClaimsInv'
  <1>1. /\ StoresType /\ CallsType /\ ToolOK /\ WorkingIsLeased
        /\ prep.state = "detached" => lease.status = "revoked"
    BY DEF ClaimsInv
  <1>2. UNCHANGED <<work, claim, delivered, wakeupOp, claimOp, asked, dispatch, woken>>
    BY DEF DetachStep, DetachCheck, DetachBegin, DetachClose, DetachRestore, DetachFinish,
           DetachError, DetachFrame, workVars, journalRows
  <1>3. /\ \/ UNCHANGED prep /\ UNCHANGED lease
           \/ /\ prep' \in [state : {"detaching", "connected_readonly", "detached"},
                            revision : Nat \ {0}]
              /\ prep'.state = "detached" => lease'.status = "revoked"
        /\ \/ UNCHANGED lease
           \/ /\ lease.status = "reserved"
              /\ lease' = [status |-> "revoked", revision |-> lease.revision + 1]
        /\ UNCHANGED tool \/ tool' = NoTool
        /\ detach' \in [at : {"idle", "begin", "close", "finish"}, prep : Nat]
        /\ paneLive' \in BOOLEAN
    <2>1. CASE DetachCheck
      BY <1>1, <2>1 DEF DetachCheck, DetachGoes, executionVars, StoresType, CallsType
    <2>2. CASE DetachBegin
      BY <1>1, <2>2 DEF DetachBegin, DetachGoes, NextPrep, StoresType, CallsType
    <2>3. CASE DetachClose
      BY <1>1, <2>3 DEF DetachClose, DetachGoes, executionVars, StoresType, CallsType
    <2>4. CASE DetachRestore
      BY <1>1, <2>4 DEF DetachRestore, NextPrep, NoDetach, StoresType, CallsType
    <2>5. CASE DetachFinish
      BY <1>1, <2>5 DEF DetachFinish, NextPrep, NoDetach, StoresType, CallsType
    <2>6. CASE DetachError
      BY <1>1, <2>6 DEF DetachError, NoDetach, executionVars, StoresType, CallsType
    <2>. QED  BY <2>1, <2>2, <2>3, <2>4, <2>5, <2>6 DEF DetachStep
  <1>4. StoresType'  BY <1>1, <1>2, <1>3 DEF StoresType
  <1>5. CallsType'  BY <1>1, <1>2, <1>3 DEF CallsType, NoTool
  <1>6. KeysOK'
    <2>1. work.revision <= work'.revision  BY <1>1, <1>2 DEF StoresType
    <2>. QED  BY <1>2, <1>4, <2>1, KeysKept
  <1>7. ToolOK'  BY <1>1, <1>2, <1>3 DEF ToolOK, NoTool
  <1>8. WorkingIsLeased' /\ (prep.state = "detached" => lease.status = "revoked")'
    BY <1>1, <1>2, <1>3 DEF WorkingIsLeased
  <1>. QED  BY <1>4, <1>5, <1>6, <1>7, <1>8 DEF ClaimsInv

\* What every step of the agent's call leaves alone, and what the invariant says of it.
LEMMA ToolFacts ==
  ASSUME ClaimsInv, ToolStep
  PROVE  /\ StoresType /\ CallsType /\ ToolOK /\ WorkingIsLeased
         /\ prep.state = "detached" => lease.status = "revoked"
         /\ RowOK(claimOp) /\ RowShape(claimOp) /\ claimOp.status \in {"planned", "running", "succeeded"}
         /\ UNCHANGED <<asked, dispatch, detach, woken, delivered, wakeupOp, prep, paneLive>>
  BY DEF ClaimsInv, ToolOK, RowOK, ToolStep, ToolContext, ToolReserve, ToolJournal, ToolPrepare,
         ToolDispatch, ToolRecover, ToolLease, ToolRecord, ToolClaim, ToolEnds, ToolFrame, serverVars

\* A step of the agent's call keeps the invariant when it keeps its own part of it.
LEMMA ToolPartKeeps ==
  ASSUME ClaimsInv, ToolStep, ToolOK', WorkingIsLeased',
         work' \in [status : {"unassigned", "working"}, revision : Nat \ {0}],
         work.revision <= work'.revision,
         claim' \in [state : {"none", "pending_gate", "active"}, at : Nat],
         lease' \in [status : {"reserved", "active", "revoked"}, revision : Nat \ {0}],
         UNCHANGED lease \/ prep.state = "connected_readonly",
         tool' \in [ at : { "idle", "reserve", "journal", "prepare", "dispatch", "lease",
                            "record", "claim" }, work : Nat, prep : Nat, lease : Nat ]
  PROVE  ClaimsInv'
  <1>1. StoresType'  BY ToolFacts DEF StoresType
  <1>2. CallsType'  BY ToolFacts DEF CallsType
  <1>3. KeysOK'  BY <1>1, ToolFacts, KeysKept
  <1>4. (prep.state = "detached" => lease.status = "revoked")'  BY ToolFacts
  <1>. QED  BY <1>1, <1>2, <1>3, <1>4 DEF ClaimsInv

\* Where the journal stands at each place of the call.
LEMMA ToolStays ==
  ASSUME ClaimsInv, ToolStep, UNCHANGED <<work, claim, lease>>,
         tool' \in [ at : { "idle", "reserve", "journal", "prepare", "dispatch", "lease",
                            "record", "claim" }, work : Nat, prep : Nat, lease : Nat ],
         ToolOK'
  PROVE  ClaimsInv'
  <1>1. /\ work' \in [status : {"unassigned", "working"}, revision : Nat \ {0}]
        /\ work.revision <= work'.revision
        /\ claim' \in [state : {"none", "pending_gate", "active"}, at : Nat]
        /\ lease' \in [status : {"reserved", "active", "revoked"}, revision : Nat \ {0}]
        /\ WorkingIsLeased'
    BY ToolFacts DEF StoresType, WorkingIsLeased
  <1>. QED  BY <1>1, ToolPartKeeps

LEMMA ToolGoesType ==
  ASSUME ClaimsInv, NEW place \in { "idle", "reserve", "journal", "prepare", "dispatch", "lease",
                                    "record", "claim" }, ToolGoes(place)
  PROVE  /\ tool'.at = place
         /\ tool' \in [ at : { "idle", "reserve", "journal", "prepare", "dispatch", "lease",
                               "record", "claim" }, work : Nat, prep : Nat, lease : Nat ]
  BY DEF ClaimsInv, CallsType, ToolGoes

\* The writes of the activation's journal row.
LEMMA ToolJournalKeeps ==
  ASSUME ClaimsInv, ToolJournal \/ ToolPrepare \/ ToolDispatch \/ ToolRecord
  PROVE  ClaimsInv'
  <1> DEFINE op == claimOp
  <1>1. ToolStep /\ UNCHANGED <<work, claim, lease>>
    BY DEF ToolStep, ToolJournal, ToolPrepare, ToolDispatch, ToolRecord
  <1>2. /\ RowOK(op) /\ RowShape(op) /\ ToolOK /\ CallsType  BY <1>1, ToolFacts
  <1>3. CASE ToolJournal
    <2>1. ToolGoes("prepare") /\ op.status = "planned" /\ claimOp' = Transitioned(op, "running", "none")
      BY <1>3 DEF ToolJournal
    <2>2. /\ RowShape(claimOp') /\ claimOp'.status = "running" /\ AttemptIn(claimOp') = AttemptIn(op)
          /\ AttemptIn(op) = "none"
      BY <1>2, <2>1, TransitionedOK DEF RowOK
    <2>3. RowOK(claimOp')  BY <2>2 DEF RowOK
    <2>4. /\ tool'.at = "prepare"
          /\ tool' \in [ at : { "idle", "reserve", "journal", "prepare", "dispatch", "lease",
                                "record", "claim" }, work : Nat, prep : Nat, lease : Nat ]
      BY <2>1, ToolGoesType
    <2>5. ToolOK'  BY <1>1, <1>2, <2>2, <2>3, <2>4 DEF ToolOK
    <2>. QED  BY <1>1, <2>4, <2>5, ToolStays
  <1>4. CASE ToolPrepare
    <2>1. /\ ToolGoes("dispatch") /\ op.status = "running" /\ AttemptIn(op) = "none"
          /\ claimOp' = PreparedRow(op, TheStep, "execute")
      BY <1>2, <1>4 DEF ToolPrepare, ToolAt, ToolOK
    <2>2. RowShape(claimOp') /\ claimOp'.status = "running" /\ AttemptIn(claimOp') = "prepared"
      BY <1>2, <2>1, PreparedOK
    <2>3. RowOK(claimOp')  BY <2>2 DEF RowOK
    <2>4. /\ tool'.at = "dispatch"
          /\ tool' \in [ at : { "idle", "reserve", "journal", "prepare", "dispatch", "lease",
                                "record", "claim" }, work : Nat, prep : Nat, lease : Nat ]
      BY <2>1, ToolGoesType
    <2>5. ToolOK'  BY <1>1, <1>2, <2>2, <2>3, <2>4 DEF ToolOK
    <2>. QED  BY <1>1, <2>4, <2>5, ToolStays
  <1>5. CASE ToolDispatch
    <2>1. /\ ToolGoes("lease") /\ op.status = "running" /\ AttemptIn(op) = "prepared"
          /\ claimOp' = DispatchedRow(op, TheStep)
      BY <1>2, <1>5 DEF ToolDispatch, ToolAt, ToolOK
    <2>2. RowShape(claimOp') /\ claimOp'.status = "running" /\ AttemptIn(claimOp') = "dispatched"
      BY <1>2, <2>1, DispatchedOK
    <2>3. RowOK(claimOp')  BY <2>2 DEF RowOK
    <2>4. /\ tool'.at = "lease"
          /\ tool' \in [ at : { "idle", "reserve", "journal", "prepare", "dispatch", "lease",
                                "record", "claim" }, work : Nat, prep : Nat, lease : Nat ]
      BY <2>1, ToolGoesType
    <2>5. ToolOK'  BY <1>1, <1>2, <2>2, <2>3, <2>4 DEF ToolOK
    <2>. QED  BY <1>1, <2>4, <2>5, ToolStays
  <1>6. CASE ToolRecord
    <2>1. /\ lease.status = "active" /\ op.status = "running"
          /\ AttemptIn(op) \in {"dispatched", "succeeded"} /\ AttemptOf(op).status = AttemptIn(op)
          /\ tool.at = "record"
      BY <1>2, <1>6, AttemptedIs DEF ToolRecord, ToolAt, ToolOK
    <2>2. CASE /\ AttemptOf(op).status = "dispatched" /\ UNCHANGED tool
               /\ claimOp' = RecordedRow(op, TheStep, "succeeded", "none")
      <3>1. AttemptIn(op) = "dispatched" /\ "succeeded" \in Outcomes  BY <2>1, <2>2 DEF Outcomes
      <3>2. /\ RowShape(claimOp') /\ claimOp'.status = "running"
            /\ AttemptIn(claimOp') = "succeeded"
        BY <1>2, <2>1, <2>2, <3>1, RecordedOK
      <3>3. RowOK(claimOp')  BY <3>2 DEF RowOK
      <3>4. ToolOK'  BY <1>1, <1>2, <2>1, <2>2, <3>2, <3>3 DEF ToolOK
      <3>. QED  BY <1>1, <1>2, <2>2, <3>4, ToolStays DEF CallsType
    <2>3. CASE /\ AttemptOf(op).status = "succeeded" /\ ToolGoes("claim")
               /\ claimOp' = Transitioned(op, "succeeded", "none")
      <3>1. /\ RowShape(claimOp') /\ claimOp'.status = "succeeded"
            /\ AttemptIn(claimOp') = "succeeded"
        BY <1>2, <2>1, <2>3, TransitionedOK
      <3>2. RowOK(claimOp')  BY <3>1 DEF RowOK
      <3>3. /\ tool'.at = "claim"
            /\ tool' \in [ at : { "idle", "reserve", "journal", "prepare", "dispatch", "lease",
                                  "record", "claim" }, work : Nat, prep : Nat, lease : Nat ]
        BY <2>3, ToolGoesType
      <3>4. ToolOK'  BY <1>1, <1>2, <2>1, <3>1, <3>2, <3>3 DEF ToolOK
      <3>. QED  BY <1>1, <3>3, <3>4, ToolStays
    <2>. QED  BY <1>6, <2>2, <2>3 DEF ToolRecord
  <1>. QED  BY <1>3, <1>4, <1>5, <1>6

LEMMA ToolKeeps ==
  ASSUME ClaimsInv, ToolStep
  PROVE  ClaimsInv'
  <1> DEFINE Places == [ at : { "idle", "reserve", "journal", "prepare", "dispatch", "lease",
                                "record", "claim" }, work : Nat, prep : Nat, lease : Nat ]
  <1>1. /\ StoresType /\ CallsType /\ ToolOK /\ WorkingIsLeased /\ RowOK(claimOp)
        /\ claimOp.status \in {"planned", "running", "succeeded"} /\ tool \in Places
    BY ToolFacts DEF CallsType
  <1>2. CASE ToolContext
    <2>1. UNCHANGED <<work, claim, lease, claimOp>> /\ tool'.at = "reserve"  BY <1>2 DEF ToolContext
    <2>2. tool' \in Places  BY <1>1, <1>2 DEF ToolContext, StoresType
    <2>3. ToolOK'  BY <1>1, <2>1 DEF ToolOK
    <2>. QED  BY <2>1, <2>2, <2>3, ToolStays
  <1>3. CASE ToolReserve
    <2>1. UNCHANGED <<work, lease, claimOp>> /\ tool'.at = "journal" /\ tool' \in Places
      BY <1>3, ToolGoesType DEF ToolReserve
    <2>2. /\ claim' \in [state : {"none", "pending_gate", "active"}, at : Nat]
          /\ claim'.state # "none" => claim'.at # 0
          /\ UNCHANGED claim \/ work.status = "unassigned"
      BY <1>1, <1>3 DEF ToolReserve, StoresType, ToolOK
    <2>3. ToolOK'  BY <1>1, <2>1, <2>2 DEF ToolOK
    <2>4. WorkingIsLeased'  BY <1>1, <2>1, <2>2 DEF WorkingIsLeased
    <2>5. /\ work' \in [status : {"unassigned", "working"}, revision : Nat \ {0}]
          /\ work.revision <= work'.revision
          /\ lease' \in [status : {"reserved", "active", "revoked"}, revision : Nat \ {0}]
      BY <1>1, <2>1 DEF StoresType
    <2>. QED  BY <2>1, <2>2, <2>3, <2>4, <2>5, ToolPartKeeps
  <1>4. CASE ToolJournal \/ ToolPrepare \/ ToolDispatch \/ ToolRecord
    BY <1>4, ToolJournalKeeps
  <1>5. CASE ToolRecover
    <2>1. UNCHANGED <<work, claim, lease, claimOp>> /\ tool'.at = "lease" /\ tool' \in Places
      BY <1>5, ToolGoesType DEF ToolRecover
    <2>2. AttemptIn(claimOp) \in {"dispatched", "succeeded"}
      BY <1>1, <1>5, AttemptedIs DEF ToolRecover, RowOK
    <2>3. ToolOK'  BY <1>1, <2>1, <2>2 DEF ToolOK
    <2>. QED  BY <2>1, <2>3, ToolStays
  <1>6. CASE ToolLease
    <2>1. /\ UNCHANGED <<work, claim, claimOp>> /\ tool'.at = AfterLease /\ tool' \in Places
          /\ AfterLease \in {"claim", "record"}
      BY <1>6, ToolGoesType DEF ToolLease, AfterLease
    <2>2. /\ lease'.status = "active"
          /\ UNCHANGED lease \/ prep.state = "connected_readonly"
          /\ lease' \in [status : {"reserved", "active", "revoked"}, revision : Nat \ {0}]
      BY <1>1, <1>6 DEF ToolLease, StoresType
    <2>3. AttemptIn(claimOp) \in {"dispatched", "succeeded"}
      BY <1>1, <1>6 DEF ToolLease, ToolAt, ToolOK
    <2>4. AfterLease = "record" => claimOp.status = "running"
      BY <1>1, <2>3 DEF AfterLease, RowOK
    <2>5. ToolOK'  BY <1>1, <2>1, <2>2, <2>3, <2>4 DEF ToolOK
    <2>6. WorkingIsLeased'  BY <1>1, <2>1, <2>2 DEF WorkingIsLeased
    <2>7. /\ work' \in [status : {"unassigned", "working"}, revision : Nat \ {0}]
          /\ work.revision <= work'.revision
          /\ claim' \in [state : {"none", "pending_gate", "active"}, at : Nat]
      BY <1>1, <2>1 DEF StoresType
    <2>. QED  BY <2>1, <2>2, <2>5, <2>6, <2>7, ToolPartKeeps
  <1>7. CASE ToolClaim
    <2>1. /\ UNCHANGED <<lease, claimOp>> /\ tool' = NoTool /\ lease.status = "active"
          /\ NoTool \in Places
      BY <1>1, <1>7 DEF ToolClaim, ToolAt, ToolOK, NoTool
    <2>2. /\ work' \in [status : {"unassigned", "working"}, revision : Nat \ {0}]
          /\ work.revision <= work'.revision
          /\ claim' \in [state : {"none", "pending_gate", "active"}, at : Nat]
          /\ claim'.state = "active" /\ claim'.at = claim.at
      BY <1>1, <1>7 DEF ToolClaim, StoresType
    <2>3. ToolOK'
      <3>1. claim.state # "none"  BY <1>7 DEF ToolClaim
      <3>. QED  BY <1>1, <2>1, <2>2, <3>1 DEF ToolOK, NoTool
    <2>4. WorkingIsLeased'  BY <2>1, <2>2 DEF WorkingIsLeased
    <2>5. lease' \in [status : {"reserved", "active", "revoked"}, revision : Nat \ {0}]
      BY <1>1, <2>1 DEF StoresType
    <2>. QED  BY <2>1, <2>2, <2>3, <2>4, <2>5, ToolPartKeeps
  <1>8. CASE ToolEnds
    <2>1. /\ UNCHANGED <<work, claim, lease, claimOp>> /\ tool' = NoTool /\ NoTool \in Places
      BY <1>8 DEF ToolEnds, NoTool
    <2>2. ToolOK'  BY <1>1, <2>1 DEF ToolOK, NoTool
    <2>. QED  BY <2>1, <2>2, ToolStays
  <1>. QED  BY <1>2, <1>3, <1>4, <1>5, <1>6, <1>7, <1>8 DEF ToolStep

LEMMA ClaimsStep == ClaimsInv /\ [ClaimsNext]_claimsVars => ClaimsInv'
  <1> SUFFICES ASSUME ClaimsInv, [ClaimsNext]_claimsVars PROVE ClaimsInv'  OBVIOUS
  <1>1. ASSUME NEW k \in Keys, DispatchStep(k) PROVE ClaimsInv'
    BY <1>1, CheckKeeps, DeliveryKeeps, AdvanceKeeps, RecoverKeeps, RecordKeeps, ErrorKeeps,
       WakeupKeeps DEF DispatchStep
  <1>2. CASE UNCHANGED claimsVars
    BY <1>2 DEF claimsVars, workVars, executionVars, journalRows, serverVars, ClaimsInv,
                StoresType, CallsType, KeysOK, ToolOK, WorkingIsLeased
  <1>. QED  BY <1>1, <1>2, ToolKeeps, DetachKeeps, ServerDiesKeeps DEF ClaimsNext

LEMMA ClaimsIsInv == ClaimsSpec => []ClaimsInv
  BY InitSafe, ClaimsStep, PTL DEF ClaimsSpec

\* The work store, the execution store and the journal agree on the claim: an item is
\* worked on only under an active claim and an active lease, and an activation that the
\* journal calls succeeded has made the lease active.
THEOREM ClaimIsSafe == ClaimsSpec => []ClaimSafe
  <1>1. ClaimsInv => ClaimSafe
    <2> SUFFICES ASSUME ClaimsInv PROVE ClaimSafe  OBVIOUS
    <2>1. ASSUME NEW op, RowOK(op) PROVE OperationOK(op)
      <3>1. RowShape(op)  BY <2>1 DEF RowOK
      <3>2. op.attempts[TheStep] = << >> \/ op.attempts[TheStep] = <<AttemptOf(op)>>
        BY <3>1 DEF RowShape
      <3>3. \A x : Len(<<x>>) \in Nat /\ Len(<<x>>) <= 1  OBVIOUS
      <3>4. Len(op.attempts[TheStep]) <= 1
        <4>1. CASE op.attempts[TheStep] = << >>
          <5>1. Len(<< >>) = 0  OBVIOUS
          <5>. QED  BY <4>1, <5>1
        <4>2. CASE op.attempts[TheStep] = <<AttemptOf(op)>>
          <5>1. Len(<<AttemptOf(op)>>) <= 1  BY <3>3
          <5>. QED  BY <4>2, <5>1
        <4>. QED  BY <3>2, <4>1, <4>2
      <3>. QED  BY <2>1, <3>1, <3>4, AttemptedIs DEF RowOK, OperationOK
    <2>2. \A k \in Keys : OperationOK(wakeupOp[k])  BY <2>1, KeyFacts
    <2>3. OperationOK(claimOp)  BY <2>1 DEF ClaimsInv, ToolOK
    <2>4. ClaimsTypeOK
      BY <2>2, <2>3 DEF ClaimsInv, StoresType, CallsType, ClaimsTypeOK
    <2>5. ActivationIsTrue  BY DEF ClaimsInv, ToolOK, RowOK, ActivationIsTrue
    <2>. QED  BY <2>4, <2>5 DEF ClaimSafe, ClaimsInv
  <1>. QED  BY <1>1, ClaimsIsInv, PTL

\* However often a dispatch is repeated and wherever the server dies in it, its agent is
\* woken once at most, and the item's history says of it what happened.
THEOREM DispatchToldTrue == ClaimsSpec => []DispatchIsTrue
  <1>1. ClaimsInv => DispatchIsTrue
    <2> SUFFICES ASSUME ClaimsInv, NEW k \in Keys
                 PROVE  /\ woken[k] <= 1
                        /\ delivered[k]["succeeded"] = 0 \/ delivered[k]["outcome_unknown"] = 0
                        /\ delivered[k]["succeeded"] # 0 =>
                               woken[k] = 1 /\ wakeupOp[k].status = "succeeded"
      BY DEF DispatchIsTrue, WokenOnce, VerdictIsTrue
    <2>1. /\ RowOK(wakeupOp[k]) /\ WakeupOK(wakeupOp[k], dispatch[k], woken[k])
          /\ HistoryOK(wakeupOp[k], dispatch[k], delivered[k], asked[k], work.revision)
      BY KeyFacts
    <2>2. "succeeded" \in Verdicts /\ "outcome_unknown" \in Verdicts  BY DEF Verdicts
    <2>. QED  BY <2>1, <2>2 DEF RowOK, WakeupOK, HistoryOK
  <1>. QED  BY <1>1, ClaimsIsInv, PTL

\* A runtime that is detached has lost its writer lease, and nobody works on its item.
THEOREM DetachedNobodyWorks == ClaimsSpec => []DetachedIsUnclaimed
  <1>1. ClaimsInv => DetachedIsUnclaimed
    BY DEF ClaimsInv, StoresType, WorkingIsLeased, DetachedIsUnclaimed
  <1>. QED  BY <1>1, ClaimsIsInv, PTL

-----------------------------------------------------------------------------
(* The delivery.                                                             *)

AtWork == {a \in Appliers : applier[a].at \in InLock}

\* A tool call that is past its gate carries one of the agent's patches.
WritesPatches == agent.at \in {"begin", "git", "end"} => agent.patch \in Patches

\* What is still being written was neither reviewed nor applied.
WorkingIsOpen == delivery.status = "working" => review.decision = "none" /\ Picked = {}

\* Nobody decides on his own work, and nothing is applied that was not accepted.
ReviewedByOther == review.decision # "none" => review.by # Author
ApplyIsAccepted == \A a \in Appliers : applier[a].at # "idle" => review.decision = "accept"

\* One request works on the source at a time; it is about to pick only where nothing
\* was picked before.
OneAtWork == \A a, b \in AtWork : a = b
PickIsFirst == \A a \in Appliers : applier[a].at = "pick" => Picked = {}

\* What a request is going to record is so.
ApplyVerdictIsTrue ==
    \A a \in Appliers : applier[a].at # "idle" =>
        /\ applier[a].verdict = "succeeded" => Picked # {}
        /\ applier[a].verdict = "no_change" => handoff.head = Base
        /\ applier[a].at \in {"record", "again"} => applier[a].verdict # "none"

OneCommit == \A m, n \in Picked : m = n

DeliveryInv ==
    /\ DeliveryTypeOK
    /\ WritesPatches
    /\ WorkingIsOpen /\ ReviewedByOther /\ ApplyIsAccepted
    /\ OneAtWork /\ PickIsFirst /\ ApplyVerdictIsTrue
    /\ OnlyReviewed /\ OneCommit /\ CompletedIsApplied

LEMMA DeliveryInitOK == DeliveryInit => DeliveryInv
  <1> SUFFICES ASSUME DeliveryInit PROVE DeliveryInv  OBVIOUS
  <1>1. Picked = {}  BY EmptySeq DEF DeliveryInit, Picked
  <1>2. \A a \in Appliers : applier[a] = NoApply  BY DEF DeliveryInit
  <1>3. DeliveryTypeOK
    <2>1. source \in [commits : Seq(SUBSET (Patches \cup {Foreign})), dirty : BOOLEAN]
      BY EmptySeq DEF DeliveryInit
    <2>. QED
      BY <2>1, DeliveryAssumption DEF DeliveryInit, DeliveryTypeOK, NoCall, NoApply, Base, Final, InLock
  <1>4. AtWork = {}  BY <1>2 DEF AtWork, NoApply, InLock
  <1>. QED
    BY <1>1, <1>2, <1>3, <1>4
    DEF DeliveryInit, DeliveryInv, WritesPatches, WorkingIsOpen, ReviewedByOther, ApplyIsAccepted,
        OneAtWork, PickIsFirst, ApplyVerdictIsTrue, OnlyReviewed, OneCommit, CompletedIsApplied,
        NoCall, NoApply

-----------------------------------------------------------------------------
(* The agent's side: what it writes stays in its checkout until it is published. *)

\* Everything but the handoff's publication leaves the server's side alone.
LEMMA AgentTypes ==
  ASSUME DeliveryTypeOK, WritesPatches, AgentStep
  PROVE  DeliveryTypeOK' /\ WritesPatches'
  <1> USE DEF DeliveryTypeOK, WritesPatches, ServerFrame, NextLease, Base, Final
  <1>1. ASSUME NEW p \in Patches, PatchGate(p) PROVE DeliveryTypeOK' /\ WritesPatches'
    BY <1>1 DEF PatchGate
  <1>2. CASE PatchBegin
    <2>1. /\ agent' = [ at |-> "git", patch |-> agent.patch, lease |-> agent.lease,
                        outcome |-> agent.outcome ]
          /\ agent.patch \in Patches
      BY <1>2 DEF PatchBegin
    <2>2. writer' = [status |-> "active", revision |-> writer.revision + 1, patch |-> agent.patch]
      BY <1>2 DEF PatchBegin
    <2>3. UNCHANGED <<claimState, delivery, handoff, checkout, review, source, applier>>
      BY <1>2 DEF PatchBegin
    <2>. QED  BY <2>1, <2>2, <2>3
  <1>3. ASSUME NEW outcome \in {"succeeded", "failed", "outcome_unknown"}, PatchGit(outcome)
        PROVE  DeliveryTypeOK' /\ WritesPatches'
    <2>1. /\ agent' = [ at |-> "end", patch |-> agent.patch, lease |-> agent.lease,
                        outcome |-> outcome ]
          /\ agent.patch \in Patches
      BY <1>3 DEF PatchGit
    <2>2. checkout' \in {checkout, [head |-> checkout.head,
                                   files |-> checkout.files \cup {agent.patch}]}
      BY <1>3 DEF PatchGit
    <2>3. UNCHANGED <<writer, claimState, delivery, handoff, review, source, applier>>
      BY <1>3 DEF PatchGit
    <2>. QED  BY <2>1, <2>2, <2>3
  <1>4. CASE PatchFinish  BY <1>4 DEF PatchFinish, NoCall
  <1>5. CASE PublishGate  BY <1>5 DEF PublishGate, NoCall
  <1>6. CASE PublishCommit  BY <1>6 DEF PublishCommit
  <1>7. CASE PublishStore
    <2>1. /\ handoff' = [published |-> TRUE, head |-> checkout.head] /\ claimState' = "closed"
          /\ delivery' = [status |-> "review", revision |-> delivery.revision + 1]
          /\ agent' = [ at |-> "revoke", patch |-> agent.patch, lease |-> agent.lease,
                        outcome |-> agent.outcome ]
      BY <1>7 DEF PublishStore
    <2>2. UNCHANGED <<writer, checkout, review, source, applier>>  BY <1>7 DEF PublishStore
    <2>. QED  BY <2>1, <2>2
  <1>8. CASE PublishRefused  BY <1>8 DEF PublishRefused, NoCall
  <1>9. CASE RevokeBegin  BY <1>9 DEF RevokeBegin
  <1>10. CASE RevokeFinish  BY <1>10 DEF RevokeFinish, NoCall
  <1>11. CASE AgentEnds  BY <1>11 DEF AgentEnds, NoCall
  <1>. QED
    BY <1>1, <1>2, <1>3, <1>4, <1>5, <1>6, <1>7, <1>8, <1>9, <1>10, <1>11 DEF AgentStep

LEMMA AgentFrame ==
  ASSUME AgentStep
  PROVE  /\ UNCHANGED <<review, source, applier>>
         /\ \/ UNCHANGED <<delivery, handoff>>
            \/ delivery.status = "working" /\ delivery'.status = "review"
  BY DEF AgentStep, ServerFrame, PatchGate, PatchBegin, PatchGit, PatchFinish, PublishGate,
         PublishCommit, PublishStore, Publishable, PublishRefused, RevokeBegin, RevokeFinish, AgentEnds

LEMMA AgentKeeps == ASSUME DeliveryInv, AgentStep PROVE DeliveryInv'
  <1>1. /\ UNCHANGED <<review, source, applier>>
        /\ \/ UNCHANGED <<delivery, handoff>>
           \/ delivery.status = "working" /\ delivery'.status = "review"
    BY AgentFrame
  <1>2. Picked' = Picked /\ AtWork' = AtWork  BY <1>1 DEF Picked, AtWork
  <1>3. DeliveryTypeOK' /\ WritesPatches'  BY AgentTypes DEF DeliveryInv
  <1>4. CASE UNCHANGED <<delivery, handoff>>
    BY <1>1, <1>2, <1>3, <1>4
    DEF DeliveryInv, WorkingIsOpen, ReviewedByOther, ApplyIsAccepted, OneAtWork, PickIsFirst,
        ApplyVerdictIsTrue, OnlyReviewed, OneCommit, CompletedIsApplied
  <1>5. CASE delivery.status = "working" /\ delivery'.status = "review"
    <2>1. Picked = {} /\ review.decision = "none"  BY <1>5 DEF DeliveryInv, WorkingIsOpen
    <2>2. \A a \in Appliers : applier[a].at = "idle"
      BY <2>1 DEF DeliveryInv, ApplyIsAccepted
    <2>. QED
      BY <1>1, <1>2, <1>3, <1>5, <2>1, <2>2
      DEF DeliveryInv, WorkingIsOpen, ReviewedByOther, ApplyIsAccepted, OneAtWork, PickIsFirst,
          ApplyVerdictIsTrue, OnlyReviewed, OneCommit, CompletedIsApplied
  <1>. QED  BY <1>1, <1>4, <1>5

-----------------------------------------------------------------------------
(* The server's side, and other people's commits.                            *)

ApplyVerdicts == {"none", "succeeded", "no_change", "failed", "outcome_unknown"}
ApplyPlaces == {"idle", "lock"} \cup InLock
ApplyStates == [at : ApplyPlaces, revision : Nat, verdict : ApplyVerdicts, recovered : BOOLEAN]

\* What a commit does to the commits that were picked from the packet.
LEMMA PickedPush ==
  ASSUME DeliveryTypeOK, NEW commit, commit \in SUBSET (Patches \cup {Foreign}),
         source' = Pushed(commit)
  PROVE  /\ source'.commits \in Seq(SUBSET (Patches \cup {Foreign}))
         /\ source'.dirty = source.dirty
         /\ \A n \in DOMAIN source.commits : source'.commits[n] = source.commits[n]
         /\ Picked' = IF commit = {Foreign} THEN Picked ELSE Picked \cup {Len(source.commits) + 1}
         /\ source'.commits[Len(source.commits) + 1] = commit
  <1>1. source.commits \in Seq(SUBSET (Patches \cup {Foreign}))  BY DEF DeliveryTypeOK
  <1>2. /\ source'.commits = Append(source.commits, commit) /\ source'.dirty = source.dirty
    BY DEF Pushed, DeliveryTypeOK
  <1>3. /\ DOMAIN source.commits = 1..Len(source.commits)
        /\ DOMAIN source'.commits = 1..(Len(source.commits) + 1)
        /\ Len(source.commits) \in Nat
        /\ \A n \in 1..Len(source.commits) : source'.commits[n] = source.commits[n]
        /\ source'.commits[Len(source.commits) + 1] = commit
        /\ source'.commits \in Seq(SUBSET (Patches \cup {Foreign}))
    BY <1>1, <1>2, AppendProperties, LenProperties
  <1>. QED  BY <1>2, <1>3 DEF Picked

\* A request's own record is all that its step changes of the others'.
LEMMA ApplyGoesIs ==
  ASSUME DeliveryTypeOK, NEW a \in Appliers, NEW at \in ApplyPlaces, NEW verdict \in ApplyVerdicts,
         NEW recovered \in BOOLEAN, ApplyGoes(a, at, verdict, recovered)
  PROVE  /\ applier' \in [Appliers -> ApplyStates]
         /\ applier'[a].at = at /\ applier'[a].verdict = verdict
         /\ \A b \in Appliers \ {a} : applier'[b] = applier[b]
  BY DEF ApplyGoes, DeliveryTypeOK, ApplyStates, ApplyPlaces, ApplyVerdicts

LEMMA ApplyEndsIs ==
  ASSUME DeliveryTypeOK, NEW a \in Appliers, applier' = [applier EXCEPT ![a] = NoApply]
  PROVE  /\ applier' \in [Appliers -> ApplyStates]
         /\ applier'[a] = NoApply
         /\ \A b \in Appliers \ {a} : applier'[b] = applier[b]
  BY DEF NoApply, DeliveryTypeOK, ApplyStates, ApplyPlaces, ApplyVerdicts

\* A step that neither picks nor records: only a request's record moves, to a verdict
\* that is so, and into the lock only when nobody else is there.
LEMMA RequestKeeps ==
  ASSUME DeliveryInv, NEW a \in Appliers, UNCHANGED <<delivery, source>>, ApplyFrame,
         applier' \in [Appliers -> ApplyStates],
         \A b \in Appliers \ {a} : applier'[b] = applier[b],
         applier'[a].at # "idle" => review.decision = "accept",
         applier'[a].at \in InLock => a \in AtWork \/ AtWork = {},
         applier'[a].at = "pick" => Picked = {},
         applier'[a].at # "idle" =>
            /\ applier'[a].verdict = "succeeded" => Picked # {}
            /\ applier'[a].verdict = "no_change" => handoff.head = Base
            /\ applier'[a].at \in {"record", "again"} => applier'[a].verdict # "none"
  PROVE  DeliveryInv'
  <1>1. Picked' = Picked  BY DEF Picked
  <1>2. UNCHANGED <<writer, claimState, handoff, review, checkout, agent, delivery, source>>
    BY DEF ApplyFrame
  <1>3. DeliveryTypeOK'
    BY <1>2 DEF DeliveryInv, DeliveryTypeOK, ApplyStates, ApplyPlaces, ApplyVerdicts
  <1>4. ApplyIsAccepted'  BY <1>2 DEF DeliveryInv, ApplyIsAccepted
  <1>5. OneAtWork'
    <2>1. AtWork' \subseteq AtWork \cup {a}  BY DEF AtWork
    <2>2. a \in AtWork' => a \in AtWork \/ AtWork = {}  BY DEF AtWork
    <2>. QED  BY <2>1, <2>2 DEF DeliveryInv, OneAtWork
  <1>6. PickIsFirst' /\ ApplyVerdictIsTrue'
    BY <1>1, <1>2 DEF DeliveryInv, PickIsFirst, ApplyVerdictIsTrue
  <1>. QED
    BY <1>1, <1>2, <1>3, <1>4, <1>5, <1>6
    DEF DeliveryInv, WritesPatches, WorkingIsOpen, ReviewedByOther, OnlyReviewed, OneCommit,
        CompletedIsApplied

LEMMA ReadKeeps ==
  ASSUME DeliveryInv, NEW a \in Appliers, ApplyRead(a) PROVE DeliveryInv'
  <1>1. /\ applier' \in [Appliers -> ApplyStates]
        /\ applier'[a].at = "lock" /\ applier'[a].verdict = "none"
        /\ \A b \in Appliers \ {a} : applier'[b] = applier[b]
    BY DEF ApplyRead, NoApply, DeliveryInv, DeliveryTypeOK, ApplyStates, ApplyPlaces, ApplyVerdicts, InLock
  <1>2. review.decision = "accept" /\ UNCHANGED <<delivery, source>> /\ ApplyFrame
    BY DEF ApplyRead
  <1>. QED  BY <1>1, <1>2, RequestKeeps DEF InLock

LEMMA LockKeeps ==
  ASSUME DeliveryInv, NEW a \in Appliers, ApplyLock(a) PROVE DeliveryInv'
  <1>1. /\ applier' \in [Appliers -> ApplyStates]
        /\ applier'[a].at = "inspect" /\ applier'[a].verdict = "none"
        /\ \A b \in Appliers \ {a} : applier'[b] = applier[b]
    BY ApplyGoesIs DEF ApplyLock, DeliveryInv, ApplyPlaces, ApplyVerdicts, InLock
  <1>2. UNCHANGED <<delivery, source>> /\ ApplyFrame /\ AtWork = {} /\ applier[a].at = "lock"
    BY DEF ApplyLock, AtWork
  <1>3. review.decision = "accept"  BY <1>2 DEF DeliveryInv, ApplyIsAccepted
  <1>. QED  BY <1>1, <1>2, <1>3, RequestKeeps DEF InLock

\* The source carries the packet only when a commit of it was picked.
LEMMA CarriesPicked == ASSUME DeliveryTypeOK, Carries PROVE Picked # {}
  <1>1. 1 \in DOMAIN source.commits /\ source.commits[1] = handoff.head  BY DEF Carries
  <1>2. handoff.head # {Foreign}  BY DeliveryAssumption DEF DeliveryTypeOK
  <1>. QED  BY <1>1, <1>2 DEF Picked

LEMMA InspectKeeps ==
  ASSUME DeliveryInv, NEW a \in Appliers, ApplyInspect(a) PROVE DeliveryInv'
  <1>1. UNCHANGED <<delivery, source>> /\ ApplyFrame /\ a \in AtWork
    BY DEF ApplyInspect, AtWork, InLock
  <1>2. review.decision = "accept"
    BY <1>1 DEF DeliveryInv, ApplyIsAccepted, AtWork, InLock
  <1>3. PICK at \in {"record", "pick"}, verdict \in ApplyVerdicts, recovered \in BOOLEAN :
          /\ ApplyGoes(a, at, verdict, recovered)
          /\ at = "pick" => source.commits = << >>
          /\ verdict = "succeeded" => Carries
          /\ verdict = "no_change" => handoff.head = Base
          /\ at = "record" => verdict # "none"
    BY DEF ApplyInspect, ApplyVerdicts
  <1>4. /\ applier' \in [Appliers -> ApplyStates]
        /\ applier'[a].at = at /\ applier'[a].verdict = verdict
        /\ \A b \in Appliers \ {a} : applier'[b] = applier[b]
    BY <1>3, ApplyGoesIs DEF DeliveryInv, ApplyPlaces, InLock
  <1>5. source.commits = << >> => Picked = {}  BY EmptySeq DEF Picked
  <1>6. Carries => Picked # {}  BY CarriesPicked DEF DeliveryInv
  <1>. QED  BY <1>1, <1>2, <1>3, <1>4, <1>5, <1>6, RequestKeeps

LEMMA UnrecordedKeeps ==
  ASSUME DeliveryInv, NEW a \in Appliers, ApplyUnrecorded(a) PROVE DeliveryInv'
  <1>1. UNCHANGED <<delivery, source>> /\ ApplyFrame /\ a \in AtWork
    BY DEF ApplyUnrecorded, AtWork, InLock
  <1>2. review.decision = "accept"
    BY <1>1 DEF DeliveryInv, ApplyIsAccepted, AtWork, InLock
  <1>3. CASE ApplyGoes(a, "again", "failed", FALSE)
    <2>1. /\ applier' \in [Appliers -> ApplyStates]
          /\ applier'[a].at = "again" /\ applier'[a].verdict = "failed"
          /\ \A b \in Appliers \ {a} : applier'[b] = applier[b]
      BY <1>3, ApplyGoesIs DEF DeliveryInv, ApplyPlaces, InLock, ApplyVerdicts
    <2>. QED  BY <1>1, <1>2, <2>1, RequestKeeps
  <1>4. CASE applier' = [applier EXCEPT ![a] = NoApply]
    <2>1. /\ applier' \in [Appliers -> ApplyStates] /\ applier'[a].at = "idle"
          /\ \A b \in Appliers \ {a} : applier'[b] = applier[b]
      BY <1>4, ApplyEndsIs DEF DeliveryInv, NoApply
    <2>. QED  BY <1>1, <1>2, <2>1, RequestKeeps DEF InLock
  <1>. QED  BY <1>3, <1>4 DEF ApplyUnrecorded

\* A request at "pick" is alone in the lock, and nothing was picked before it.
LEMMA PickKeeps ==
  ASSUME DeliveryInv, NEW a \in Appliers, ApplyPick(a) PROVE DeliveryInv'
  <1>1. /\ Picked = {} /\ a \in AtWork /\ review.decision = "accept" /\ review.by # Author
        /\ UNCHANGED delivery /\ ApplyFrame
    BY DEF ApplyPick, DeliveryInv, PickIsFirst, AtWork, InLock, ApplyIsAccepted, ReviewedByOther
  <1>2. handoff.head \in SUBSET Patches /\ handoff.head # {Foreign}
    BY DeliveryAssumption DEF DeliveryInv, DeliveryTypeOK
  <1>3. PICK verdict \in ApplyVerdicts :
          /\ ApplyGoes(a, "record", verdict, FALSE)
          /\ \/ source' = Pushed(handoff.head) /\ verdict \in {"succeeded", "outcome_unknown"}
             \/ source' \in {source, [source EXCEPT !.dirty = TRUE]}
                /\ verdict \in {"failed", "outcome_unknown"}
    BY DEF ApplyPick, ApplyVerdicts
  <1>4. /\ applier' \in [Appliers -> ApplyStates]
        /\ applier'[a].at = "record" /\ applier'[a].verdict = verdict
        /\ \A b \in Appliers \ {a} : applier'[b] = applier[b]
    BY <1>3, ApplyGoesIs DEF DeliveryInv, ApplyPlaces, InLock
  <1>5. \A b \in Appliers \ {a} : applier[b].at \notin InLock
    BY <1>1 DEF DeliveryInv, OneAtWork, AtWork
  <1>6. /\ source'.commits \in Seq(SUBSET (Patches \cup {Foreign})) /\ source'.dirty \in BOOLEAN
        /\ source' \in [commits : Seq(SUBSET (Patches \cup {Foreign})), dirty : BOOLEAN]
        /\ verdict = "succeeded" => Picked' # {}
        /\ \A m \in Picked' : source'.commits[m] = handoff.head
        /\ OneCommit'
    <2>1. CASE source' = Pushed(handoff.head)
      <3>1. /\ source'.commits \in Seq(SUBSET (Patches \cup {Foreign}))
            /\ source'.dirty = source.dirty
            /\ Picked' = {Len(source.commits) + 1}
            /\ source'.commits[Len(source.commits) + 1] = handoff.head
        BY <1>1, <1>2, <2>1, PickedPush DEF DeliveryInv
      <3>. QED  BY <2>1, <3>1 DEF DeliveryInv, DeliveryTypeOK, OneCommit, Pushed
    <2>2. CASE source' \in {source, [source EXCEPT !.dirty = TRUE]} /\ verdict # "succeeded"
      <3>1. source'.commits = source.commits  BY <2>2 DEF DeliveryInv, DeliveryTypeOK
      <3>2. Picked' = {}  BY <1>1, <3>1 DEF Picked
      <3>. QED  BY <2>2, <3>1, <3>2 DEF DeliveryInv, DeliveryTypeOK, OneCommit
    <2>. QED  BY <1>3, <2>1, <2>2
  <1>7. UNCHANGED <<writer, claimState, delivery, handoff, review, checkout, agent>>
    BY <1>1 DEF ApplyFrame
  <1>8. DeliveryTypeOK'
    BY <1>4, <1>6, <1>7 DEF DeliveryInv, DeliveryTypeOK, ApplyStates, ApplyPlaces, ApplyVerdicts
  <1>9. WorkingIsOpen' /\ CompletedIsApplied'
    <2>1. delivery.status # "working"  BY <1>1 DEF DeliveryInv, WorkingIsOpen
    <2>2. delivery.status = "completed" => handoff.head = Base
      BY <1>1 DEF DeliveryInv, CompletedIsApplied
    <2>. QED  BY <1>7, <2>1, <2>2 DEF WorkingIsOpen, CompletedIsApplied
  <1>10. OneAtWork' /\ PickIsFirst' /\ ApplyVerdictIsTrue'
    <2>1. AtWork' = {a}  BY <1>4, <1>5 DEF AtWork, InLock
    <2>2. \A b \in Appliers : applier'[b].at # "pick"  BY <1>4, <1>5 DEF InLock
    <2>3. ASSUME NEW b \in Appliers, b # a, applier'[b].at # "idle"
          PROVE  /\ applier'[b].verdict = "succeeded" => Picked' # {}
                 /\ applier'[b].verdict = "no_change" => handoff'.head = Base
                 /\ applier'[b].at \in {"record", "again"} => applier'[b].verdict # "none"
      BY <1>1, <1>4, <1>7, <2>3 DEF DeliveryInv, ApplyVerdictIsTrue
    <2>4. /\ applier'[a].verdict = "succeeded" => Picked' # {}
          /\ applier'[a].verdict \notin {"none", "no_change"}
      BY <1>3, <1>4, <1>6
    <2>. QED  BY <2>1, <2>2, <2>3, <2>4 DEF OneAtWork, PickIsFirst, ApplyVerdictIsTrue
  <1>11. ApplyIsAccepted' /\ OnlyReviewed' /\ ReviewedByOther' /\ WritesPatches'
    BY <1>1, <1>4, <1>6, <1>7
    DEF DeliveryInv, ApplyIsAccepted, OnlyReviewed, ReviewedByOther, WritesPatches
  <1>. QED  BY <1>6, <1>8, <1>9, <1>10, <1>11 DEF DeliveryInv

LEMMA ApplyRecordKeeps ==
  ASSUME DeliveryInv, NEW a \in Appliers, ApplyRecord(a) PROVE DeliveryInv'
  <1>1. /\ UNCHANGED <<writer, claimState, handoff, review, checkout, agent, source>>
        /\ a \in AtWork /\ applier' = [applier EXCEPT ![a] = NoApply] /\ Recorded(a)
        /\ applier[a].at # "idle"
    BY DEF ApplyRecord, ApplyFrame, AtWork, InLock
  <1>2. /\ applier' \in [Appliers -> ApplyStates] /\ applier'[a].at = "idle"
        /\ \A b \in Appliers \ {a} : applier'[b] = applier[b]
    BY <1>1, ApplyEndsIs DEF DeliveryInv, NoApply
  <1>3. Picked' = Picked /\ AtWork' = AtWork \ {a}  BY <1>1, <1>2 DEF Picked, AtWork, InLock
  <1>4. /\ delivery' \in [status : Final, revision : Nat]
        /\ delivery'.status = "completed" => applier[a].verdict \in {"succeeded", "no_change"}
    <2>1. /\ applier[a].verdict \in ApplyVerdicts /\ applier[a].verdict # "none"
          /\ delivery.revision \in Nat
      BY <1>1 DEF DeliveryInv, DeliveryTypeOK, ApplyVerdictIsTrue, ApplyVerdicts, AtWork, ApplyRecord
    <2>. QED  BY <1>1, <2>1 DEF Recorded, StatusOf, Final, ApplyVerdicts
  <1>5. DeliveryTypeOK'
    BY <1>1, <1>2, <1>4 DEF DeliveryInv, DeliveryTypeOK, ApplyStates, ApplyPlaces, ApplyVerdicts
  <1>6. CompletedIsApplied' /\ WorkingIsOpen'
    <2>1. /\ applier[a].verdict = "succeeded" => Picked # {}
          /\ applier[a].verdict = "no_change" => handoff.head = Base
      BY <1>1 DEF DeliveryInv, ApplyVerdictIsTrue
    <2>. QED  BY <1>1, <1>3, <1>4, <2>1 DEF CompletedIsApplied, WorkingIsOpen, Final
  <1>7. OneAtWork' /\ PickIsFirst' /\ ApplyVerdictIsTrue' /\ ApplyIsAccepted'
    BY <1>1, <1>2, <1>3
    DEF DeliveryInv, OneAtWork, PickIsFirst, ApplyVerdictIsTrue, ApplyIsAccepted
  <1>. QED
    BY <1>1, <1>3, <1>5, <1>6, <1>7
    DEF DeliveryInv, WritesPatches, ReviewedByOther, OnlyReviewed, OneCommit

LEMMA ServerEndsKeeps == ASSUME DeliveryInv, ServerEnds PROVE DeliveryInv'
  <1>1. /\ UNCHANGED <<delivery, source, writer, claimState, handoff, review, checkout, agent>>
        /\ applier' = [a \in Appliers |-> NoApply]
    BY DEF ServerEnds, ApplyFrame
  <1>2. Picked' = Picked /\ AtWork' = {}  BY <1>1 DEF Picked, AtWork, NoApply, InLock
  <1>3. DeliveryTypeOK'  BY <1>1 DEF DeliveryInv, DeliveryTypeOK, NoApply
  <1>. QED
    BY <1>1, <1>2, <1>3
    DEF DeliveryInv, WritesPatches, WorkingIsOpen, ReviewedByOther, ApplyIsAccepted, OneAtWork,
        PickIsFirst, ApplyVerdictIsTrue, OnlyReviewed, OneCommit, CompletedIsApplied, NoApply

\* What others commit is not of the packet.
LEMMA SourceKeeps == ASSUME DeliveryInv, SourceMoves PROVE DeliveryInv'
  <1>1. UNCHANGED <<delivery, writer, claimState, handoff, review, checkout, agent, applier>>
    BY DEF SourceMoves, storeVars
  <1>2. /\ Picked' = Picked /\ \A n \in Picked : source'.commits[n] = source.commits[n]
        /\ source' \in [commits : Seq(SUBSET (Patches \cup {Foreign})), dirty : BOOLEAN]
    <2>1. CASE source' = Pushed({Foreign})
      <3>1. /\ source'.commits \in Seq(SUBSET (Patches \cup {Foreign}))
            /\ source'.dirty = source.dirty /\ Picked' = Picked
            /\ \A n \in DOMAIN source.commits : source'.commits[n] = source.commits[n]
        BY <2>1, PickedPush DEF DeliveryInv
      <3>. QED  BY <2>1, <3>1 DEF DeliveryInv, DeliveryTypeOK, Pushed, Picked
    <2>2. CASE source' = [source EXCEPT !.dirty = ~@]
      <3>1. source'.commits = source.commits  BY <2>2 DEF DeliveryInv, DeliveryTypeOK
      <3>. QED  BY <2>2, <3>1 DEF DeliveryInv, DeliveryTypeOK, Picked
    <2>. QED  BY <2>1, <2>2 DEF SourceMoves
  <1>3. AtWork' = AtWork  BY <1>1 DEF AtWork
  <1>4. DeliveryTypeOK'  BY <1>1, <1>2 DEF DeliveryInv, DeliveryTypeOK
  <1>. QED
    BY <1>1, <1>2, <1>3, <1>4
    DEF DeliveryInv, WritesPatches, WorkingIsOpen, ReviewedByOther, ApplyIsAccepted, OneAtWork,
        PickIsFirst, ApplyVerdictIsTrue, OnlyReviewed, OneCommit, CompletedIsApplied

\* A review ends neither an apply nor what was applied: there is none of either before it.
LEMMA ReviewKeeps ==
  ASSUME DeliveryInv, NEW i \in Identities, NEW decision \in {"accept", "reject"},
         Review(i, decision)
  PROVE  DeliveryInv'
  <1>1. /\ UNCHANGED <<writer, claimState, handoff, checkout, source, agent, applier>>
        /\ review.decision = "none" /\ i # Author /\ delivery.status = "review"
        /\ review' = [decision |-> decision, by |-> i]
        /\ delivery' = [ status |-> IF decision = "accept" THEN "review" ELSE "failed",
                         revision |-> delivery.revision + 1 ]
    BY DEF Review
  <1>2. Picked' = Picked /\ AtWork' = AtWork  BY <1>1 DEF Picked, AtWork
  <1>3. Picked = {}  BY <1>1 DEF DeliveryInv, OnlyReviewed
  <1>4. \A a \in Appliers : applier[a].at = "idle"  BY <1>1 DEF DeliveryInv, ApplyIsAccepted
  <1>5. DeliveryTypeOK'  BY <1>1 DEF DeliveryInv, DeliveryTypeOK, Final
  <1>. QED
    BY <1>1, <1>2, <1>3, <1>4, <1>5
    DEF DeliveryInv, WritesPatches, WorkingIsOpen, ReviewedByOther, ApplyIsAccepted, OneAtWork,
        PickIsFirst, ApplyVerdictIsTrue, OnlyReviewed, OneCommit, CompletedIsApplied

LEMMA DeliveryStep == DeliveryInv /\ [DeliveryNext]_deliveryVars => DeliveryInv'
  <1> SUFFICES ASSUME DeliveryInv, [DeliveryNext]_deliveryVars PROVE DeliveryInv'  OBVIOUS
  <1>1. CASE AgentStep  BY <1>1, AgentKeeps
  <1>2. ASSUME NEW a \in Appliers, ApplyStep(a) PROVE DeliveryInv'
    BY <1>2, ReadKeeps, LockKeeps, InspectKeeps, PickKeeps, ApplyRecordKeeps, UnrecordedKeeps
    DEF ApplyStep
  <1>3. CASE UNCHANGED deliveryVars
    <2>1. Picked' = Picked /\ AtWork' = AtWork  BY <1>3 DEF deliveryVars, Picked, AtWork
    <2>2. DeliveryTypeOK'  BY <1>3 DEF DeliveryInv, DeliveryTypeOK, deliveryVars, storeVars
    <2>. QED
      BY <1>3, <2>1, <2>2
      DEF deliveryVars, storeVars, DeliveryInv, WritesPatches, WorkingIsOpen, ReviewedByOther,
          ApplyIsAccepted, OneAtWork, PickIsFirst, ApplyVerdictIsTrue, OnlyReviewed, OneCommit,
          CompletedIsApplied
  <1> HIDE DEF DeliveryInv
  <1>. QED  BY <1>1, <1>2, <1>3, ReviewKeeps, ServerEndsKeeps, SourceKeeps DEF DeliveryNext

\* At most one commit of the packet gets into the source, and it is the packet that
\* somebody other than its author accepted: whatever dies, is retried or runs at once.
THEOREM ApplyIsSafe == DeliverySpec => []ApplySafe
  <1>1. DeliveryInv => ApplySafe
    <2> SUFFICES ASSUME DeliveryInv PROVE Cardinality(Picked) <= 1
      BY DEF DeliveryInv, ApplySafe, AppliedOnce
    <2>1. CASE Picked = {}  BY <2>1, FS_EmptySet
    <2>2. CASE Picked # {}
      <3>1. PICK n \in Picked : TRUE  BY <2>2
      <3>2. Picked = {n}  BY <3>1 DEF DeliveryInv, OneCommit
      <3>3. Cardinality({n}) = 1  BY FS_Singleton
      <3>. QED  BY <3>2, <3>3
    <2>. QED  BY <2>1, <2>2
  <1>. QED  BY <1>1, DeliveryInitOK, DeliveryStep, PTL DEF DeliverySpec

\* "They never pretend completion": what is recorded as completed is in the source, or
\* changes nothing.
THEOREM CompletedIsTrue == DeliverySpec => []CompletedIsApplied
  <1>1. DeliveryInv => CompletedIsApplied  BY DEF DeliveryInv
  <1>. QED  BY <1>1, DeliveryInitOK, DeliveryStep, PTL DEF DeliverySpec

\* No writer moves an item that has ended.
THEOREM EndStays == DeliverySpec => EndIsFinal
  <1>1. [DeliveryNext]_deliveryVars =>
            [delivery.status \in Final => delivery' = delivery]_deliveryVars
    <2> SUFFICES ASSUME DeliveryNext, delivery.status \in Final PROVE delivery' = delivery
      OBVIOUS
    <2>1. CASE AgentStep  BY <2>1, AgentFrame DEF Final
    <2>2. ASSUME NEW a \in Appliers, ApplyStep(a) PROVE delivery' = delivery
      BY <2>2 DEF ApplyStep, ApplyRead, ApplyLock, ApplyInspect, ApplyPick, ApplyRecord, Recorded,
         ApplyUnrecorded, Final
    <2>. QED  BY <2>1, <2>2 DEF DeliveryNext, Review, ServerEnds, SourceMoves, storeVars, Final
  <1>. QED  BY <1>1, PTL DEF DeliverySpec, EndIsFinal
================================================================================
