--------------------------- MODULE WorkspaceDelivery ---------------------------
(***************************************************************************)
(* An isolated work item from the first patch to the commit in the source  *)
(* repository: the agent's tools in the managed checkout                   *)
(* (agent_cockpit/workspace_write_tools.py, workspace_write_gate.py), the  *)
(* handoff, its review, and the apply (workspace_delivery_service.py,      *)
(* workspace_delivery_store.py).  Two processes act: the agent's and the   *)
(* server's, each of which may die between any two steps.  Git and the two *)
(* stores are changed one after the other.                                 *)
(*                                                                         *)
(* A commit is the set of patches it holds, the base commit the empty set. *)
(* Paths are taken to be inside the allowed scope.                         *)
(***************************************************************************)
EXTENDS Naturals, Sequences, FiniteSets

CONSTANTS
    Patches,        \* what the agent may write
    NoPatch,
    Foreign,        \* what other people commit to the source repository
    Identities,     \* who may review
    Author,         \* the agent's identity
    Appliers,       \* apply requests
    MaxLease,       \* bound on the revision of the lease a patch may start at
    MaxCommits      \* bound on the commits in the source

ASSUME DeliveryAssumption == Foreign \notin Patches /\ Author \in Identities

VARIABLES
    writer,         \* execution store: the writer lease and the patch it is busy with
    claimState,     \* work store: the claim
    delivery,       \* work store: status and revision of the delivery
    handoff,        \* work store: the published packet
    review,         \* work store: the decision and who made it
    checkout,       \* the managed checkout: HEAD and the files
    source,         \* the source repository: commits after the base, uncommitted changes
    agent,          \* the agent's tool call
    applier         \* per apply request: where it is

storeVars == <<writer, claimState, delivery, handoff, review>>
deliveryVars == <<storeVars, checkout, source, agent, applier>>

Base == {}
NoCall == [at |-> "idle", patch |-> NoPatch, lease |-> 0, outcome |-> "none"]
NoApply == [at |-> "idle", revision |-> 0, verdict |-> "none", recovered |-> FALSE]
Final == {"completed", "failed", "outcome_unknown"}

DeliveryInit ==
    /\ writer = [status |-> "active", revision |-> 2, patch |-> NoPatch]
    /\ claimState = "active"
    /\ delivery = [status |-> "working", revision |-> 2]
    /\ handoff = [published |-> FALSE, head |-> Base]
    /\ review = [decision |-> "none", by |-> Author]
    /\ checkout = [head |-> Base, files |-> Base]
    /\ source = [commits |-> << >>, dirty |-> FALSE]
    /\ agent = NoCall
    /\ applier = [a \in Appliers |-> NoApply]

-----------------------------------------------------------------------------
(* apply_patch                                                              *)

ServerFrame == UNCHANGED <<review, source, applier>>
NextLease(status, patch) ==
    writer' = [status |-> status, revision |-> writer.revision + 1, patch |-> patch]

\* The write gate: the lease is active.
PatchGate(p) ==
    /\ agent.at = "idle" /\ writer.status = "active" /\ writer.revision <= MaxLease
    /\ agent' = [at |-> "begin", patch |-> p, lease |-> writer.revision, outcome |-> "none"]
    /\ UNCHANGED <<writer, claimState, delivery, handoff, checkout>> /\ ServerFrame

\* begin_tool
PatchBegin ==
    /\ agent.at = "begin"
    /\ writer.status = "active" /\ writer.revision = agent.lease /\ writer.patch = NoPatch
    /\ NextLease("active", agent.patch)
    /\ agent' = [agent EXCEPT !.at = "git"]
    /\ UNCHANGED <<claimState, delivery, handoff, checkout>> /\ ServerFrame

\* git apply: written, refused, or timed out with the files written or not.
PatchGit(outcome) ==
    /\ agent.at = "git"
    /\ LET written == [checkout EXCEPT !.files = @ \cup {agent.patch}]
       IN  CASE outcome = "succeeded" -> agent.patch \notin checkout.files /\ checkout' = written
             [] outcome = "failed" -> UNCHANGED checkout
             [] outcome = "outcome_unknown" -> checkout' \in {checkout, written}
    /\ agent' = [agent EXCEPT !.at = "end", !.outcome = outcome]
    /\ UNCHANGED <<writer, claimState, delivery, handoff>> /\ ServerFrame

\* finish_tool: an unknown outcome leaves the lease uncertain, with the patch on it.
PatchFinish ==
    /\ agent.at = "end"
    /\ writer.revision = agent.lease + 1 /\ writer.patch = agent.patch
    /\ IF agent.outcome = "outcome_unknown" THEN NextLease("uncertain", agent.patch)
       ELSE NextLease("active", NoPatch)
    /\ agent' = NoCall
    /\ UNCHANGED <<claimState, delivery, handoff, checkout>> /\ ServerFrame

-----------------------------------------------------------------------------
(* submit_handoff, publish_handoff                                          *)

\* The write gate, and the revision of the lease.
PublishGate ==
    /\ agent.at = "idle" /\ writer.status = "active"
    /\ agent' = [NoCall EXCEPT !.at = "commit", !.lease = writer.revision]
    /\ UNCHANGED <<writer, claimState, delivery, handoff, checkout>> /\ ServerFrame

\* The checkout must stand on its base; what it holds is committed.
PublishCommit ==
    /\ agent.at = "commit"
    /\ checkout.head = Base
    /\ checkout' = [checkout EXCEPT !.head = checkout.files]
    /\ agent' = [agent EXCEPT !.at = "publish"]
    /\ UNCHANGED <<writer, claimState, delivery, handoff>> /\ ServerFrame

Publishable == claimState = "active" /\ delivery.status = "working"

\* The store's publish_handoff: the packet, and the claim is closed.
PublishStore ==
    /\ agent.at = "publish" /\ Publishable
    /\ handoff' = [published |-> TRUE, head |-> checkout.head]
    /\ claimState' = "closed"
    /\ delivery' = [status |-> "review", revision |-> delivery.revision + 1]
    /\ agent' = [agent EXCEPT !.at = "revoke"]
    /\ UNCHANGED <<writer, checkout>> /\ ServerFrame

\* The store refuses it or fails: the commit is taken back, if git can.
PublishRefused ==
    /\ agent.at = "publish"
    /\ checkout' \in {checkout, [checkout EXCEPT !.head = Base]}
    /\ agent' = NoCall
    /\ UNCHANGED <<writer, claimState, delivery, handoff>> /\ ServerFrame

\* begin_reply and finish_reply
RevokeBegin ==
    /\ agent.at = "revoke"
    /\ writer.status = "active" /\ writer.revision = agent.lease /\ writer.patch = NoPatch
    /\ NextLease("revoking", NoPatch)
    /\ agent' = [agent EXCEPT !.at = "revoked"]
    /\ UNCHANGED <<claimState, delivery, handoff, checkout>> /\ ServerFrame

RevokeFinish ==
    /\ agent.at = "revoked" /\ writer.status = "revoking"
    /\ NextLease("revoked", NoPatch)
    /\ agent' = NoCall
    /\ UNCHANGED <<claimState, delivery, handoff, checkout>> /\ ServerFrame

\* A store or git refuses the call, or the agent's process dies.
AgentEnds ==
    /\ agent.at # "idle"
    /\ agent' = NoCall
    /\ UNCHANGED <<writer, claimState, delivery, handoff, checkout>> /\ ServerFrame

-----------------------------------------------------------------------------
(* review_handoff                                                           *)

\* One decision, by somebody else than the author; a rejection ends the item.
Review(i, decision) ==
    /\ handoff.published /\ delivery.status = "review"
    /\ review.decision = "none" /\ i # Author
    /\ review' = [decision |-> decision, by |-> i]
    /\ delivery' = [ status |-> IF decision = "accept" THEN "review" ELSE "failed",
                     revision |-> delivery.revision + 1 ]
    /\ UNCHANGED <<writer, claimState, handoff, checkout, source, agent, applier>>

-----------------------------------------------------------------------------
(* apply                                                                    *)

ApplyFrame == UNCHANGED <<writer, claimState, handoff, review, checkout, agent>>
ApplyGoes(a, at, verdict, recovered) ==
    applier' = [applier EXCEPT ![a] = [ at |-> at, revision |-> applier[a].revision,
                                        verdict |-> verdict, recovered |-> recovered ]]
InLock == {"inspect", "pick", "record", "again"}

\* The packet is read before the lock is taken.
ApplyRead(a) ==
    /\ applier[a].at = "idle" /\ review.decision = "accept"
    /\ applier' = [applier EXCEPT ![a] = [NoApply EXCEPT !.at = "lock",
                                                         !.revision = delivery.revision]]
    /\ UNCHANGED <<delivery, source>> /\ ApplyFrame

\* Mutant of ApplyLock: there is no lock.
ApplyLockless(a) ==
    /\ applier[a].at = "lock"
    /\ ApplyGoes(a, "inspect", "none", FALSE)
    /\ UNCHANGED <<delivery, source>> /\ ApplyFrame

\* One request at a time works on a source repository.
ApplyLock(a) ==
    /\ applier[a].at = "lock"
    /\ \A b \in Appliers : applier[b].at \notin InLock
    /\ ApplyGoes(a, "inspect", "none", FALSE)
    /\ UNCHANGED <<delivery, source>> /\ ApplyFrame

\* Mutant of Carries: whatever the one commit is.
CarriesAny == Len(source.commits) = 1 /\ handoff.head # Base

\* The source already has the handoff as the one commit after its base.
Carries == source.commits = <<handoff.head>> /\ handoff.head # Base

\* The source must be clean and on its base, or carry the handoff already; the checkout
\* must still be the handoff.
ApplyInspect(a) ==
    /\ applier[a].at = "inspect"
    /\ \/ /\ ~source.dirty /\ Carries
          /\ ApplyGoes(a, "record", "succeeded", TRUE)
       \/ /\ source.dirty \/ (source.commits # << >> /\ ~Carries)
          /\ ApplyGoes(a, "record", "failed", FALSE)
       \/ /\ ~source.dirty /\ source.commits = << >>
          /\ CASE checkout.head # handoff.head -> ApplyGoes(a, "record", "failed", FALSE)
               [] checkout.head = handoff.head /\ handoff.head = Base ->
                      ApplyGoes(a, "record", "no_change", FALSE)
               [] OTHER -> ApplyGoes(a, "pick", "none", FALSE)
    /\ UNCHANGED <<delivery, source>> /\ ApplyFrame

Pushed(commit) == [source EXCEPT !.commits = Append(@, commit)]

\* The cherry-pick: done; aborted without a trace; or it failed and could not be shown to
\* be aborted, with the commit made, or with changes left behind.
ApplyPick(a) ==
    /\ applier[a].at = "pick" /\ Len(source.commits) < MaxCommits
    /\ \/ /\ ~source.dirty /\ source' = Pushed(handoff.head)
          /\ \E verdict \in {"succeeded", "outcome_unknown"} :
                 ApplyGoes(a, "record", verdict, FALSE)
       \/ source' = source /\ ApplyGoes(a, "record", "failed", FALSE)
       \/ /\ source' = [source EXCEPT !.dirty = TRUE]
          /\ ApplyGoes(a, "record", "outcome_unknown", FALSE)
    /\ UNCHANGED delivery /\ ApplyFrame

StatusOf(verdict) == IF verdict \in {"succeeded", "no_change"} THEN "completed" ELSE verdict

\* Mutant of Recorded: whatever the delivery has become.
RecordedAnyway(a) ==
    delivery' = [status |-> StatusOf(applier[a].verdict), revision |-> delivery.revision + 1]

\* record_apply: a compare-and-set on the delivery, which must still be in review.
Recorded(a) ==
    /\ delivery.status = "review" /\ delivery.revision = applier[a].revision
    /\ delivery' = [status |-> StatusOf(applier[a].verdict), revision |-> delivery.revision + 1]

ApplyRecord(a) ==
    /\ applier[a].at \in {"record", "again"}
    /\ Recorded(a)
    /\ applier' = [applier EXCEPT ![a] = NoApply]
    /\ UNCHANGED source /\ ApplyFrame

\* The store refuses the receipt or fails.  The call ends with "apply_outcome_unknown";
\* but for a recovered commit that error is caught again, and recorded as a failure.
ApplyUnrecorded(a) ==
    /\ applier[a].at \in {"record", "again"}
    /\ IF applier[a].recovered THEN ApplyGoes(a, "again", "failed", FALSE)
       ELSE applier' = [applier EXCEPT ![a] = NoApply]
    /\ UNCHANGED <<delivery, source>> /\ ApplyFrame

\* The server's process dies, and its lock with it.
ServerEnds ==
    /\ applier' = [a \in Appliers |-> NoApply]
    /\ UNCHANGED <<delivery, source>> /\ ApplyFrame

\* Other people commit to the source, leave changes in it, or clean it up.
SourceMoves ==
    /\ \/ Len(source.commits) < MaxCommits /\ source' = Pushed({Foreign})
       \/ source' = [source EXCEPT !.dirty = ~@]
    /\ UNCHANGED <<storeVars, checkout, agent, applier>>

-----------------------------------------------------------------------------
AgentStep ==
    \/ \E p \in Patches : PatchGate(p)
    \/ \E outcome \in {"succeeded", "failed", "outcome_unknown"} : PatchGit(outcome)
    \/ PatchBegin \/ PatchFinish
    \/ PublishGate \/ PublishCommit \/ PublishStore \/ PublishRefused
    \/ RevokeBegin \/ RevokeFinish \/ AgentEnds

ApplyStep(a) ==
    \/ ApplyRead(a) \/ ApplyLock(a) \/ ApplyInspect(a) \/ ApplyPick(a)
    \/ ApplyRecord(a) \/ ApplyUnrecorded(a)

DeliveryNext ==
    \/ AgentStep
    \/ \E i \in Identities, decision \in {"accept", "reject"} : Review(i, decision)
    \/ \E a \in Appliers : ApplyStep(a)
    \/ ServerEnds \/ SourceMoves

DeliverySpec == DeliveryInit /\ [][DeliveryNext]_deliveryVars

-----------------------------------------------------------------------------
DeliveryTypeOK ==
    /\ writer \in [ status : {"active", "uncertain", "revoking", "revoked"},
                    revision : Nat, patch : Patches \cup {NoPatch} ]
    /\ claimState \in {"active", "closed"}
    /\ delivery \in [status : {"working", "review"} \cup Final, revision : Nat]
    /\ handoff \in [published : BOOLEAN, head : SUBSET Patches]
    /\ review \in [decision : {"none", "accept", "reject"}, by : Identities]
    /\ checkout \in [head : SUBSET Patches, files : SUBSET Patches]
    /\ source \in [commits : Seq(SUBSET (Patches \cup {Foreign})), dirty : BOOLEAN]
    /\ agent \in [ at : {"idle", "begin", "git", "end", "commit", "publish", "revoke", "revoked"},
                   patch : Patches \cup {NoPatch}, lease : Nat,
                   outcome : {"none", "succeeded", "failed", "outcome_unknown"} ]
    /\ applier \in [Appliers -> [ at : {"idle", "lock"} \cup InLock, revision : Nat,
                                  verdict : { "none", "succeeded", "no_change", "failed",
                                              "outcome_unknown" }, recovered : BOOLEAN ]]

Picked == {n \in DOMAIN source.commits : source.commits[n] # {Foreign}}

\* Nothing of the agent's gets into the source but the packet that somebody else accepted.
OnlyReviewed ==
    \A n \in Picked : /\ source.commits[n] = handoff.head
                      /\ review.decision = "accept" /\ review.by # Author

\* The packet is committed to the source once at most, whatever is retried.
AppliedOnce == Cardinality(Picked) <= 1

\* What gets into the source repository.
ApplySafe == DeliveryTypeOK /\ OnlyReviewed /\ AppliedOnce

\* "They never pretend completion": a completed item has its packet in the source, or its
\* packet changes nothing.
CompletedIsApplied == delivery.status = "completed" => handoff.head = Base \/ Picked # {}

\* What an item ended as is never written again.
EndIsFinal == [][delivery.status \in Final => delivery' = delivery]_deliveryVars

\* "If abort or persistence has an unknown outcome, Apply becomes outcome_unknown": an
\* accepted item that has failed left nothing in the source.
FailedIsNotApplied ==
    delivery.status = "failed" /\ review.decision = "accept" => Picked = {}
=============================================================================
