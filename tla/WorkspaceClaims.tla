---------------------------- MODULE WorkspaceClaims ----------------------------
(***************************************************************************)
(* How a prepared work item gets to its agent: the dispatch that wakes the *)
(* agent once (agent_cockpit/workspace_dispatch_service.py), the agent's   *)
(* claim (workspace_claim_tools.py, workspace_claim_activation.py), and a  *)
(* detach of the runtime that comes between.  Three stores are changed one *)
(* after the other: the work store, the execution store and the operation  *)
(* journal.  Each action is one transaction; server and agent may die      *)
(* between any two of them, and repeat the call later.                     *)
(*                                                                         *)
(* One work item and one attachment of its runtime.  A journal row that is *)
(* "planned" stands for one that has not been created as well:             *)
(* create_operation returns the same for both.                             *)
(***************************************************************************)
EXTENDS OperationRows, FiniteSets

CONSTANTS
    Keys,           \* idempotency keys of dispatch calls
    MaxWakeups,     \* bound on the wakeups of one key
    MaxDetach       \* bound on the revision a detach may begin at

ASSUME ClaimsAssumption == MaxWakeups \in Nat

VARIABLES
    work,           \* work store: status and revision of the item
    claim,          \* work store: state of the claim and the work revision it names
    delivered,      \* work store, per key and outcome: the revision it was recorded at, or 0
    prep,           \* execution store: state and revision of the preparation
    lease,          \* execution store: the writer lease
    wakeupOp,       \* journal, per key: the dispatch's operation
    claimOp,        \* journal: the operation of the claim's activation
    asked,          \* per key: the revisions its first call named
    dispatch,       \* the dispatch call that holds the service's lock
    tool,           \* the agent's claim call
    detach,         \* the detach request
    paneLive,       \* the agent's pane exists
    woken           \* per key: wakeups the agent got

workVars == <<work, claim, delivered>>
executionVars == <<prep, lease>>
journalRows == <<wakeupOp, claimOp>>
serverVars == <<asked, dispatch, detach, woken>>
claimsVars == <<workVars, executionVars, journalRows, serverVars, tool, paneLive>>

Verdicts == {"succeeded", "outcome_unknown"}
DeliveryOutcomes == Verdicts \cup {"intent"}
TheStep == "step"
Attempted(op) == op.attempts[TheStep] # << >>
AttemptOf(op) == op.attempts[TheStep][1]

NoDispatch == [at |-> "idle", verdict |-> "none"]
NoTool == [at |-> "idle", work |-> 0, prep |-> 0, lease |-> 0]
NoDetach == [at |-> "idle", prep |-> 0]

ClaimsInit ==
    /\ work = [status |-> "unassigned", revision |-> 1]
    /\ claim = [state |-> "none", at |-> 0]
    /\ delivered = [k \in Keys |-> [o \in DeliveryOutcomes |-> 0]]
    /\ prep = [state |-> "connected_readonly", revision |-> 1]
    /\ lease = [status |-> "reserved", revision |-> 1]
    /\ wakeupOp = [k \in Keys |-> PlannedRow({TheStep}, {})]
    /\ claimOp = PlannedRow({TheStep}, {})
    /\ asked = [k \in Keys |-> [work |-> 0, prep |-> 0]]
    /\ dispatch = [k \in Keys |-> NoDispatch]
    /\ tool = NoTool /\ detach = NoDetach
    /\ paneLive = TRUE
    /\ woken = [k \in Keys |-> 0]

-----------------------------------------------------------------------------
(* dispatch: _dispatch_locked and _run_operation                            *)

Goes(k, at, verdict) == dispatch' = [dispatch EXCEPT ![k] = [at |-> at, verdict |-> verdict]]
DispatchFrame == UNCHANGED <<executionVars, claim, claimOp, tool, detach, paneLive>>

\* A client asks with the revisions it sees; once its intent is recorded, a call with the
\* same key names the same ones.  The item must be unassigned, the agent connected, its
\* lease reserved.
DispatchCheck(k) ==
    /\ \A j \in Keys : dispatch[j].at = "idle"
    /\ work.status = "unassigned"
    /\ asked' = IF delivered[k]["intent"] # 0 THEN asked
                ELSE [asked EXCEPT ![k] = [work |-> work.revision, prep |-> prep.revision]]
    /\ asked'[k].prep = prep.revision
    /\ prep.state = "connected_readonly" /\ lease.status = "reserved"
    /\ Goes(k, "intent", "none")
    /\ UNCHANGED <<work, delivered, wakeupOp, woken>> /\ DispatchFrame

\* record_delivery: recorded before, or a compare-and-set on the item's revision.
Deliver(k, outcome, revision) ==
    \/ delivered[k][outcome] = revision /\ UNCHANGED <<work, delivered>>
    \/ /\ delivered[k][outcome] = 0
       /\ work.status = "unassigned" /\ work.revision = revision
       /\ work' = [work EXCEPT !.revision = @ + 1]
       /\ delivered' = [delivered EXCEPT ![k][outcome] = revision]

DispatchIntent(k) ==
    /\ dispatch[k].at = "intent"
    /\ Deliver(k, "intent", asked[k].work)
    /\ Goes(k, "run", "none")
    /\ UNCHANGED <<wakeupOp, asked, woken>> /\ DispatchFrame

\* The writes that lead to a dispatched attempt; the last one is followed by the wakeup.
DispatchAdvance(k) ==
    LET op == wakeupOp[k]
    IN  /\ dispatch[k].at = "run"
        /\ \/ /\ op.status = "planned"
              /\ wakeupOp' = [wakeupOp EXCEPT ![k] = Transitioned(op, "running", "none")]
              /\ UNCHANGED dispatch
           \/ /\ op.status = "running" /\ ~Attempted(op)
              /\ wakeupOp' = [wakeupOp EXCEPT ![k] = PreparedRow(op, TheStep, "execute")]
              /\ UNCHANGED dispatch
           \/ /\ op.status = "running" /\ ActiveIs(op, TheStep, "prepared")
              /\ wakeupOp' = [wakeupOp EXCEPT ![k] = DispatchedRow(op, TheStep)]
              /\ Goes(k, "wake", "none")
        /\ UNCHANGED <<work, delivered, asked, woken>> /\ DispatchFrame

\* Mutant of DispatchRecover: an attempt that was dispatched before is woken again.
DispatchRecoverAgain(k) ==
    /\ dispatch[k].at = "run"
    /\ wakeupOp[k].status = "running" /\ ActiveIs(wakeupOp[k], TheStep, "dispatched")
    /\ Goes(k, "wake", "none")
    /\ UNCHANGED <<work, delivered, wakeupOp, asked, woken>> /\ DispatchFrame

\* A repeated call finds what an earlier one left behind: an attempt whose wakeup may
\* have happened is recorded as unknown (or stays as it is when the journal fails).
DispatchRecover(k) ==
    LET op == wakeupOp[k]
    IN  /\ dispatch[k].at = "run"
        /\ \/ /\ op.status = "running" /\ ActiveIs(op, TheStep, "dispatched")
              /\ wakeupOp' \in {wakeupOp, [wakeupOp EXCEPT ![k] =
                                    RecordedRow(op, TheStep, "outcome_unknown", "none")]}
              /\ Goes(k, "finish", "outcome_unknown")
           \/ /\ op.status = "running" /\ Attempted(op) /\ AttemptOf(op).status = "succeeded"
              /\ wakeupOp' = [wakeupOp EXCEPT ![k] = Transitioned(op, "succeeded", "none")]
              /\ Goes(k, "finish", "succeeded")
           \/ /\ op.status = "succeeded"
              /\ Goes(k, "finish", "succeeded") /\ UNCHANGED wakeupOp
           \/ /\ op.status = "needs_attention"
              /\ Goes(k, "finish", "outcome_unknown") /\ UNCHANGED wakeupOp
        /\ UNCHANGED <<work, delivered, asked, woken>> /\ DispatchFrame

\* The prompt is sent to the pane, or is not; then the harness says it was, says that it
\* failed (which it also does for a prompt that was submitted but is not being
\* executed), or cannot say.  A failure ends the call.
Wakeup(k, sent, answer) ==
    LET op == wakeupOp[k]
    IN  /\ dispatch[k].at = "wake"
        /\ (sent \/ answer = "succeeded") => paneLive /\ sent
        /\ IF sent THEN woken[k] < MaxWakeups /\ woken' = [woken EXCEPT ![k] = @ + 1]
           ELSE UNCHANGED woken
        /\ CASE answer = "succeeded" -> Goes(k, "record", "none") /\ UNCHANGED wakeupOp
             [] answer = "failed" ->
                    /\ wakeupOp' \in {wakeupOp, [wakeupOp EXCEPT ![k] =
                                          RecordedRow(op, TheStep, "failed", "unavailable")]}
                    /\ Goes(k, "idle", "none")
             [] answer = "outcome_unknown" ->
                    /\ wakeupOp' \in {wakeupOp, [wakeupOp EXCEPT ![k] =
                                          RecordedRow(op, TheStep, "outcome_unknown", "none")]}
                    /\ Goes(k, "finish", "outcome_unknown")
        /\ UNCHANGED <<work, delivered, asked>> /\ DispatchFrame

\* The outcome and the operation's end; when the journal fails in either, the call goes
\* on as if it did not know.
DispatchRecord(k) ==
    LET op == wakeupOp[k]
    IN  /\ dispatch[k].at = "record"
        /\ \/ /\ Goes(k, "finish", "outcome_unknown") /\ UNCHANGED wakeupOp
           \/ /\ AttemptOf(op).status = "dispatched"
              /\ wakeupOp' = [wakeupOp EXCEPT ![k] =
                                RecordedRow(op, TheStep, "succeeded", "none")]
              /\ UNCHANGED dispatch
           \/ /\ AttemptOf(op).status = "succeeded"
              /\ wakeupOp' = [wakeupOp EXCEPT ![k] = Transitioned(op, "succeeded", "none")]
              /\ Goes(k, "finish", "succeeded")
        /\ UNCHANGED <<work, delivered, asked, woken>> /\ DispatchFrame

\* _finish
DispatchFinish(k) ==
    /\ dispatch[k].at = "finish"
    /\ Deliver(k, dispatch[k].verdict, asked[k].work + 1)
    /\ Goes(k, "idle", "none")
    /\ UNCHANGED <<wakeupOp, asked, woken>> /\ DispatchFrame

\* The call ends with an error: a store refuses it or fails, or the operation is one
\* that failed before.
DispatchError(k) ==
    /\ dispatch[k].at # "idle"
    /\ Goes(k, "idle", "none")
    /\ UNCHANGED <<work, delivered, wakeupOp, asked, woken>> /\ DispatchFrame

-----------------------------------------------------------------------------
(* claim_current: _context, reserve_claim, activate                         *)

ToolFrame == UNCHANGED <<serverVars, delivered, wakeupOp, prep, paneLive>>
ToolAt(place) == tool.at = place
ToolGoes(place) == tool' = [tool EXCEPT !.at = place]

\* What the capability's attachment is allowed to do.  A call that is repeated names the
\* revisions its own claim and lease had before they were made active.
ToolContext ==
    /\ ToolAt("idle") /\ paneLive
    /\ prep.state = "connected_readonly" /\ lease.status \in {"reserved", "active"}
    /\ work.status = "working" => claim.state = "active"
    /\ lease.status = "active" => claim.state \in {"pending_gate", "active"}
    /\ tool' = [ at |-> "reserve",
                 work |-> IF work.status = "working" THEN work.revision - 1 ELSE work.revision,
                 prep |-> prep.revision,
                 lease |-> IF lease.status = "active" THEN lease.revision - 1 ELSE lease.revision ]
    /\ UNCHANGED <<work, claim, lease, claimOp>> /\ ToolFrame

\* reserve_claim: reserved before for the same revision, or a new claim on an unassigned item.
ToolReserve ==
    /\ ToolAt("reserve")
    /\ \/ claim.at = tool.work /\ UNCHANGED claim
       \/ /\ claim.at = 0
          /\ work.status = "unassigned" /\ work.revision = tool.work
          /\ claim' = [state |-> "pending_gate", at |-> tool.work]
    /\ ToolGoes("journal")
    /\ UNCHANGED <<work, lease, claimOp>> /\ ToolFrame

\* The activation's operation is new, or was only created: its attempt is dispatched.
ToolJournal ==
    /\ ToolAt("journal") /\ claimOp.status = "planned"
    /\ claimOp' = Transitioned(claimOp, "running", "none")
    /\ ToolGoes("prepare")
    /\ UNCHANGED <<work, claim, lease>> /\ ToolFrame

ToolPrepare ==
    /\ ToolAt("prepare")
    /\ claimOp' = PreparedRow(claimOp, TheStep, "execute")
    /\ ToolGoes("dispatch")
    /\ UNCHANGED <<work, claim, lease>> /\ ToolFrame

ToolDispatch ==
    /\ ToolAt("dispatch")
    /\ claimOp' = DispatchedRow(claimOp, TheStep)
    /\ ToolGoes("lease")
    /\ UNCHANGED <<work, claim, lease>> /\ ToolFrame

\* _recover_journal: an operation that has succeeded, or one whose attempt was dispatched.
\* Any other is refused, for ever.
ToolRecover ==
    /\ ToolAt("journal")
    /\ \/ claimOp.status = "succeeded"
       \/ /\ claimOp.status = "running" /\ Attempted(claimOp)
          /\ AttemptOf(claimOp).status \in {"dispatched", "succeeded"}
    /\ ToolGoes("lease")
    /\ UNCHANGED <<work, claim, lease, claimOp>> /\ ToolFrame

AfterLease == IF claimOp.status = "succeeded" THEN "claim" ELSE "record"

\* Mutant of ToolLease: a refused lease does not end the call.
ToolLeaseOrNot ==
    /\ ToolAt("lease")
    /\ \/ UNCHANGED lease
       \/ /\ lease.status = "reserved" /\ lease.revision = tool.lease
          /\ prep.state = "connected_readonly" /\ prep.revision = tool.prep
          /\ lease' = [status |-> "active", revision |-> lease.revision + 1]
    /\ ToolGoes(AfterLease)
    /\ UNCHANGED <<work, claim, claimOp>> /\ ToolFrame

\* activate_claim_lease: activated before, or a compare-and-set on the revisions of the
\* preparation and the lease.
ToolLease ==
    /\ ToolAt("lease")
    /\ \/ lease.status = "active" /\ UNCHANGED lease
       \/ /\ lease.status = "reserved" /\ lease.revision = tool.lease
          /\ prep.state = "connected_readonly" /\ prep.revision = tool.prep
          /\ lease' = [status |-> "active", revision |-> lease.revision + 1]
    /\ ToolGoes(AfterLease)
    /\ UNCHANGED <<work, claim, claimOp>> /\ ToolFrame

\* The outcome, recorded before or now, and the operation's end.
ToolRecord ==
    /\ ToolAt("record")
    /\ \/ /\ AttemptOf(claimOp).status = "dispatched"
          /\ claimOp' = RecordedRow(claimOp, TheStep, "succeeded", "none")
          /\ UNCHANGED tool
       \/ /\ AttemptOf(claimOp).status = "succeeded" /\ claimOp.status = "running"
          /\ claimOp' = Transitioned(claimOp, "succeeded", "none")
          /\ ToolGoes("claim")
    /\ UNCHANGED <<work, claim, lease>> /\ ToolFrame

\* activate_claim: activated before, or a compare-and-set on the item's revision.
ToolClaim ==
    /\ ToolAt("claim")
    /\ \/ claim.state = "active" /\ UNCHANGED <<work, claim>>
       \/ /\ claim.state = "pending_gate"
          /\ work.status = "unassigned" /\ work.revision = tool.work
          /\ work' = [status |-> "working", revision |-> work.revision + 1]
          /\ claim' = [claim EXCEPT !.state = "active"]
    /\ tool' = NoTool
    /\ UNCHANGED <<lease, claimOp>> /\ ToolFrame

\* A store refuses the call or fails, or the agent's process dies.
ToolEnds ==
    /\ ~ToolAt("idle")
    /\ tool' = NoTool
    /\ UNCHANGED <<work, claim, lease, claimOp>> /\ ToolFrame

-----------------------------------------------------------------------------
(* detach                                                                   *)

DetachFrame == UNCHANGED <<workVars, journalRows, asked, dispatch, woken>>
DetachGoes(at, revision) == detach' = [at |-> at, prep |-> revision]
NextPrep(state) == prep' = [state |-> state, revision |-> prep.revision + 1]

\* The item's status is read first; a detach that was begun before goes on.
DetachCheck ==
    /\ detach.at = "idle"
    /\ work.status = "unassigned"
    /\ \/ /\ prep.state = "connected_readonly" /\ DetachGoes("begin", prep.revision)
          /\ prep.revision <= MaxDetach
       \/ prep.state = "detaching" /\ DetachGoes("close", prep.revision)
    /\ UNCHANGED <<executionVars, tool, paneLive>> /\ DetachFrame

\* begin_detach does not look at the lease.
DetachBegin ==
    /\ detach.at = "begin"
    /\ prep.state = "connected_readonly" /\ prep.revision = detach.prep
    /\ NextPrep("detaching")
    /\ DetachGoes("close", prep.revision + 1)
    /\ UNCHANGED <<lease, tool, paneLive>> /\ DetachFrame

\* The pane is closed, and the agent's processes die with it.
DetachClose ==
    /\ detach.at = "close"
    /\ paneLive' = FALSE
    /\ tool' = NoTool
    /\ DetachGoes("finish", detach.prep)
    /\ UNCHANGED executionVars /\ DetachFrame

\* The pane cannot be closed: the runtime stays connected.
DetachRestore ==
    /\ detach.at = "close" /\ paneLive
    /\ prep.state = "detaching" /\ prep.revision = detach.prep
    /\ NextPrep("connected_readonly")
    /\ detach' = NoDetach
    /\ UNCHANGED <<lease, tool, paneLive>> /\ DetachFrame

\* Mutant of DetachFinish: whatever the lease is, it is revoked.
DetachFinishRevoking ==
    /\ detach.at = "finish"
    /\ prep.state = "detaching" /\ prep.revision = detach.prep
    /\ lease' = [status |-> "revoked", revision |-> lease.revision + 1]
    /\ NextPrep("detached")
    /\ detach' = NoDetach
    /\ UNCHANGED <<tool, paneLive>> /\ DetachFrame

\* finish_detach revokes a reserved lease, and is refused when it is active.
DetachFinish ==
    /\ detach.at = "finish"
    /\ prep.state = "detaching" /\ prep.revision = detach.prep
    /\ lease.status = "reserved"
    /\ lease' = [status |-> "revoked", revision |-> lease.revision + 1]
    /\ NextPrep("detached")
    /\ detach' = NoDetach
    /\ UNCHANGED <<tool, paneLive>> /\ DetachFrame

\* A store refuses the request or fails.
DetachError ==
    /\ detach.at # "idle"
    /\ detach' = NoDetach
    /\ UNCHANGED <<executionVars, tool, paneLive>> /\ DetachFrame

-----------------------------------------------------------------------------
\* The server's process dies; the stores and the agent's pane stay.
ServerDies ==
    /\ detach' = NoDetach
    /\ dispatch' = [k \in Keys |-> NoDispatch]
    /\ UNCHANGED <<workVars, executionVars, journalRows, asked, woken, tool, paneLive>>

DispatchStep(k) ==
    \/ DispatchCheck(k) \/ DispatchIntent(k) \/ DispatchAdvance(k) \/ DispatchRecover(k)
    \/ DispatchRecord(k) \/ DispatchFinish(k) \/ DispatchError(k)
    \/ \E sent \in BOOLEAN, answer \in Outcomes : Wakeup(k, sent, answer)

ToolStep ==
    \/ ToolContext \/ ToolReserve \/ ToolJournal \/ ToolPrepare \/ ToolDispatch
    \/ ToolRecover \/ ToolLease \/ ToolRecord \/ ToolClaim \/ ToolEnds

DetachStep ==
    \/ DetachCheck \/ DetachBegin \/ DetachClose \/ DetachRestore \/ DetachFinish
    \/ DetachError

ClaimsNext ==
    \/ \E k \in Keys : DispatchStep(k)
    \/ ToolStep \/ DetachStep \/ ServerDies

ClaimsSpec == ClaimsInit /\ [][ClaimsNext]_claimsVars

-----------------------------------------------------------------------------
OperationOK(op) ==
    /\ op.status \in {"planned", "running", "succeeded", "failed", "needs_attention"}
    /\ op.status = "planned" => ~Attempted(op)
    /\ op.status = "succeeded" => Attempted(op)
    /\ Len(op.attempts[TheStep]) <= 1

ClaimsTypeOK ==
    /\ work \in [status : {"unassigned", "working"}, revision : Nat \ {0}]
    /\ claim \in [state : {"none", "pending_gate", "active"}, at : Nat]
    /\ delivered \in [Keys -> [DeliveryOutcomes -> Nat]]
    /\ prep \in [state : {"connected_readonly", "detaching", "detached"}, revision : Nat \ {0}]
    /\ lease \in [status : {"reserved", "active", "revoked"}, revision : Nat \ {0}]
    /\ \A k \in Keys : OperationOK(wakeupOp[k])
    /\ OperationOK(claimOp)
    /\ asked \in [Keys -> [work : Nat, prep : Nat]]
    /\ dispatch \in [Keys -> [ at : {"idle", "intent", "run", "wake", "record", "finish"},
                              verdict : Verdicts \cup {"none"} ]]
    /\ tool \in [ at : { "idle", "reserve", "journal", "prepare", "dispatch", "lease", "record",
                         "claim" }, work : Nat, prep : Nat, lease : Nat ]
    /\ detach \in [at : {"idle", "begin", "close", "finish"}, prep : Nat]
    /\ paneLive \in BOOLEAN
    /\ woken \in [Keys -> 0..MaxWakeups]

\* However often a dispatch is repeated, and wherever the server died in it, the agent is
\* woken for it once at most.
WokenOnce == \A k \in Keys : woken[k] <= 1

\* Of one dispatch the item's history says that the agent was woken or that nobody knows,
\* never both; and it says "succeeded" only of a wakeup that took place.
VerdictIsTrue ==
    \A k \in Keys :
        /\ delivered[k]["succeeded"] = 0 \/ delivered[k]["outcome_unknown"] = 0
        /\ delivered[k]["succeeded"] # 0 => woken[k] = 1 /\ wakeupOp[k].status = "succeeded"

\* What the item's history says of a dispatch is what happened.
DispatchIsTrue == WokenOnce /\ VerdictIsTrue

\* "unassigned -> working occurs only after the managed checkout and fenced writer lease
\* are active": an item is worked on under an active claim and an active lease.
WorkingIsLeased == work.status = "working" => claim.state = "active" /\ lease.status = "active"

\* The journal calls an activation succeeded only when the lease has been made active.
ActivationIsTrue == claimOp.status = "succeeded" => lease.status = "active"

\* The three stores agree on the claim.
ClaimSafe == ClaimsTypeOK /\ WorkingIsLeased /\ ActivationIsTrue

\* A detach that races with a claim ends in one of two ways: the runtime is detached and
\* nobody works on the item or can, or the claim keeps the lease.
DetachedIsUnclaimed ==
    prep.state = "detached" => work.status = "unassigned" /\ lease.status = "revoked"
=============================================================================
