---------------------------- MODULE WorkspaceRuntime ----------------------------
(***************************************************************************)
(* The runtime of one work item: its managed checkout is prepared, an      *)
(* agent's pane is attached to it and detached again                       *)
(* (agent_cockpit/workspace_execution_service.py), each in several writes  *)
(* to the execution store (workspace_execution_store.py) with calls of the *)
(* harness (local_codex_harness.py) between them.  Requests run in         *)
(* parallel, and one may end between any two of its steps: the store       *)
(* fails, its thread or the server dies.                                   *)
(*                                                                         *)
(* Every writer names the revision of the preparation that the request     *)
(* holds, and is refused when the row has moved on.  The session is the    *)
(* named one, which no detach recycles.  A repeated idempotency key gets   *)
(* the stored answer and is left out.                                      *)
(***************************************************************************)
EXTENDS Naturals, Sequences, FiniteSets

CONSTANTS
    Requests,       \* requests to the service
    MaxRevision     \* bound on the revision of the preparation a request may start at

VARIABLES
    preparation,    \* the row of the preparation; attachment and writing are indices, 0 is NULL
    leases,         \* rows of writer leases
    attachments,    \* rows of runtime attachments; pane 0 is NULL
    request,        \* per request: where it is, the revision, attachment and pane it holds
    panes,          \* panes that exist
    started         \* per pane: the attachment it was started for

runtimeRows == <<preparation, leases, attachments>>
runtimeVars == <<runtimeRows, request, panes, started>>

States == { "none", "preparing", "prepared", "attaching", "connected_readonly", "detaching",
            "detached", "outcome_unknown" }
NoRow == [state |-> "none", revision |-> 0, generation |-> 1, writing |-> 0, attachment |-> 0]
NoRequest == [at |-> "idle", revision |-> 0, attachment |-> 0, pane |-> 0]

RuntimeInit ==
    /\ preparation = NoRow
    /\ leases = << >> /\ attachments = << >>
    /\ request = [r \in Requests |-> NoRequest]
    /\ panes = {} /\ started = << >>

-----------------------------------------------------------------------------
Current == attachments[preparation.attachment]
At(r, place) == request[r].at = place
Enters(r, place, revision, attachment, pane) ==
    request' = [request EXCEPT ![r] = [ at |-> place, revision |-> revision,
                                        attachment |-> attachment, pane |-> pane ]]
MovesTo(r, place, revision, pane) ==
    Enters(r, place, revision, request[r].attachment, pane)
Done(r) == request' = [request EXCEPT ![r] = NoRequest]

\* Mutant of Holds: a writer does not compare the revision.
HoldsAny(r) == preparation.state # "none"

\* The writer's compare-and-set on the preparation.
Holds(r) == preparation.state # "none" /\ preparation.revision = request[r].revision

Becomes(state) == preparation' = [preparation EXCEPT !.state = state, !.revision = @ + 1]

\* The current attachment's row; a pane of 0 leaves the one that is recorded.
Records(status, pane, phase) ==
    attachments' = [attachments EXCEPT ![preparation.attachment] =
        [ generation |-> Current.generation, status |-> status,
          pane |-> IF pane = 0 THEN Current.pane ELSE pane, phase |-> phase ]]

WritesOnly == UNCHANGED <<panes, started>>
CallsOnly == UNCHANGED runtimeRows

-----------------------------------------------------------------------------
(* prepare                                                                  *)

\* claim_prepare creates the row; a request that finds one waits for it, or is served.
PrepareClaim(r) ==
    /\ At(r, "idle") /\ preparation.state = "none"
    /\ preparation' = [NoRow EXCEPT !.state = "preparing", !.revision = 1]
    /\ MovesTo(r, "prepare", 1, 0)
    /\ UNCHANGED <<leases, attachments>> /\ WritesOnly

\* The worktree has been made: complete_preparation.
PrepareComplete(r) ==
    /\ At(r, "prepare") /\ preparation.state = "preparing"
    /\ preparation' = [preparation EXCEPT !.state = "prepared", !.revision = @ + 1, !.writing = 1]
    /\ leases' = <<[generation |-> 1, status |-> "reserved"]>>
    /\ Done(r)
    /\ UNCHANGED attachments /\ WritesOnly

\* It could not be made: abort_prepare deletes the row.
PrepareAbort(r) ==
    /\ At(r, "prepare") /\ preparation.state = "preparing"
    /\ preparation' = NoRow
    /\ Done(r)
    /\ UNCHANGED <<leases, attachments>> /\ WritesOnly

-----------------------------------------------------------------------------
(* attach                                                                   *)

Attachable == {"prepared", "detached", "outcome_unknown"}

\* An attach that is found under way is given up first.
AttachStart(r) ==
    /\ At(r, "idle") /\ preparation.state \in Attachable \cup {"attaching"}
    /\ preparation.revision <= MaxRevision
    /\ MovesTo(r, IF preparation.state = "attaching" THEN "reset" ELSE "begin",
               preparation.revision, 0)
    /\ CallsOnly /\ WritesOnly

\* Mutant of FailAttach: the attachment that is given up stays as it is.
FailAttachKeeping == Becomes("prepared") /\ UNCHANGED <<leases, attachments>>

\* fail_attach
FailAttach ==
    /\ Becomes("prepared")
    /\ Records("detached", 0, Current.phase)
    /\ UNCHANGED leases

AttachReset(r) ==
    /\ At(r, "reset") /\ Holds(r) /\ preparation.state = "attaching"
    /\ FailAttach
    /\ MovesTo(r, "begin", request[r].revision + 1, 0)
    /\ WritesOnly

\* begin_attach, in a row that is prepared or detached: a new attachment, and after a
\* detach a new generation with a new lease.
AttachNew(r) ==
    LET detached == preparation.state = "detached"
        generation == preparation.generation + IF detached THEN 1 ELSE 0
        rows == IF detached
                THEN Append(leases, [generation |-> generation, status |-> "reserved"])
                ELSE leases
    IN  /\ At(r, "begin") /\ Holds(r) /\ preparation.state \in {"prepared", "detached"}
        /\ detached \/ leases[preparation.writing].status = "reserved"
        /\ leases' = rows
        /\ attachments' = Append(attachments, [ generation |-> generation,
                              status |-> "attaching", pane |-> 0, phase |-> "close" ])
        /\ preparation' = [ state |-> "attaching", revision |-> preparation.revision + 1,
                            generation |-> generation, writing |-> Len(rows),
                            attachment |-> Len(attachments) + 1 ]
        /\ Enters(r, "launch", request[r].revision + 1, Len(attachments) + 1, 0)
        /\ WritesOnly

\* begin_attach, where the last outcome is unknown: the same attachment, whose pane is
\* closed first.
AttachAgain(r) ==
    /\ At(r, "begin") /\ Holds(r) /\ preparation.state = "outcome_unknown"
    /\ leases[preparation.writing].status = "reserved"
    /\ Becomes("attaching")
    /\ Records("attaching", 0, Current.phase)
    /\ Enters(r, IF Current.pane = 0 THEN "launch" ELSE "old", request[r].revision + 1,
              preparation.attachment, Current.pane)
    /\ UNCHANGED leases /\ WritesOnly

\* The old pane is closed and shown to be absent, or that cannot be said.
AttachOld(r) ==
    /\ At(r, "old")
    /\ \/ /\ panes' = panes \ {request[r].pane}
          /\ MovesTo(r, "launch", request[r].revision, 0)
       \/ /\ panes' \in {panes, panes \ {request[r].pane}}
          /\ MovesTo(r, "unknown", request[r].revision, request[r].pane)
    /\ CallsOnly /\ UNCHANGED started

\* attach_readonly starts no pane, or none that is left.
AttachNoPane(r) ==
    /\ At(r, "launch")
    /\ MovesTo(r, "fail", request[r].revision, 0)
    /\ CallsOnly /\ WritesOnly

\* It starts a pane and sees that it is the right one; or it fails afterwards, and the
\* pane is closed again or still there: the harness reports a failure, or that it does not
\* know, with or without the name of the pane.
AttachPane(r) ==
    LET pane == Len(started) + 1
        after(place, name) == MovesTo(r, place, request[r].revision, name)
    IN  /\ At(r, "launch")
        /\ started' = Append(started, request[r].attachment)
        /\ \/ panes' = panes \cup {pane} /\ after("finish", pane)
           \/ /\ panes' \in {panes, panes \cup {pane}}
              /\ \/ after("fail", 0)
                 \/ \E name \in {0, pane} : after("unknown", name)
        /\ CallsOnly

\* finish_attach; when it is refused or fails the outcome is unknown.
AttachFinish(r) ==
    /\ At(r, "finish")
    /\ \/ /\ Holds(r)
          /\ Becomes("connected_readonly")
          /\ Records("connected_readonly", request[r].pane, "close")
          /\ Done(r)
       \/ CallsOnly /\ MovesTo(r, "unknown", request[r].revision, request[r].pane)
    /\ UNCHANGED leases /\ WritesOnly

\* _recover_attach, when nothing is left of the attempt.
AttachFail(r) ==
    /\ At(r, "fail") /\ Holds(r) /\ preparation.state = "attaching"
    /\ FailAttach
    /\ Done(r)
    /\ WritesOnly

\* mark_unknown, of an attach or a detach.
MarkUnknown(r) ==
    /\ At(r, "unknown") /\ Holds(r)
    /\ Becomes("outcome_unknown")
    /\ Records("outcome_unknown", request[r].pane, Current.phase)
    /\ Done(r)
    /\ UNCHANGED leases /\ WritesOnly

-----------------------------------------------------------------------------
(* detach                                                                   *)

\* A detach that was begun before goes on from the phase it had reached.
DetachStart(r) ==
    /\ At(r, "idle")
    /\ preparation.state \in {"connected_readonly", "detaching", "outcome_unknown"}
    /\ preparation.revision <= MaxRevision
    /\ MovesTo(r, CASE preparation.state = "connected_readonly" -> "detach"
                    [] preparation.state # "connected_readonly" /\ Current.phase = "close" -> "close"
                    [] OTHER -> "release",
               preparation.revision, Current.pane)
    /\ CallsOnly /\ WritesOnly

\* begin_detach
DetachBegins(r) ==
    /\ At(r, "detach") /\ Holds(r) /\ preparation.state = "connected_readonly"
    /\ Becomes("detaching")
    /\ Records("detaching", 0, Current.phase)
    /\ MovesTo(r, "close", request[r].revision + 1, Current.pane)
    /\ UNCHANGED leases /\ WritesOnly

\* The pane is closed.
DetachClosed(r) ==
    /\ At(r, "close") /\ request[r].pane # 0
    /\ panes' = panes \ {request[r].pane}
    /\ MovesTo(r, "confirm", request[r].revision, 0)
    /\ CallsOnly /\ UNCHANGED started

\* It could not be closed, or there is none: the pane is shown to be gone all the same,
\* or it is not known, or it is taken to be there.
DetachFailed(r) ==
    /\ At(r, "close")
    /\ panes' \in {panes, panes \ {request[r].pane}}
    /\ \E place \in {"gone", "unknown", "restore"} :
           /\ place = "gone" => request[r].pane \notin panes'
           /\ place # "restore" => request[r].pane # 0
           /\ MovesTo(r, place, request[r].revision, request[r].pane)
    /\ CallsOnly /\ UNCHANGED started

\* persist_detach_progress
DetachGone(r) ==
    /\ At(r, "gone") /\ Holds(r)
    /\ Becomes("outcome_unknown")
    /\ Records("outcome_unknown", 0, "close_confirmed")
    /\ Done(r)
    /\ UNCHANGED leases /\ WritesOnly

\* restore_connected, whatever the state was.
DetachRestored(r) ==
    /\ At(r, "restore") /\ Holds(r)
    /\ Becomes("connected_readonly")
    /\ Records("connected_readonly", 0, Current.phase)
    /\ Done(r)
    /\ UNCHANGED leases /\ WritesOnly

\* persist_detach_progress
DetachConfirm(r) ==
    /\ At(r, "confirm") /\ Holds(r)
    /\ Becomes(preparation.state)
    /\ Records(Current.status, 0, "close_confirmed")
    /\ MovesTo(r, "release", request[r].revision + 1, 0)
    /\ UNCHANGED leases /\ WritesOnly

\* finish_detach: the lease is revoked, if nobody writes.
DetachRelease(r) ==
    /\ At(r, "release") /\ Holds(r)
    /\ leases[preparation.writing].status \in {"reserved", "revoked"}
    /\ leases' = [leases EXCEPT ![preparation.writing].status = "revoked"]
    /\ Becomes("detached")
    /\ Records("detached", 0, Current.phase)
    /\ Done(r)
    /\ WritesOnly

-----------------------------------------------------------------------------
\* A store refuses the request or fails, its thread or the server dies, or the client
\* is told something that changes nothing.
RequestEnds(r) ==
    /\ ~At(r, "idle")
    /\ Done(r)
    /\ CallsOnly /\ WritesOnly

\* The agent's claim makes the lease active, and its reply revokes it.
LeaseMoves(from, to) ==
    /\ preparation.state = "connected_readonly"
    /\ leases[preparation.writing].status = from
    /\ leases' = [leases EXCEPT ![preparation.writing].status = to]
    /\ UNCHANGED <<preparation, attachments, request>> /\ WritesOnly

PaneExits(p) ==
    /\ p \in panes
    /\ panes' = panes \ {p}
    /\ CallsOnly /\ UNCHANGED <<request, started>>

Prepare(r) == PrepareClaim(r) \/ PrepareComplete(r) \/ PrepareAbort(r)
Attach(r) ==
    \/ AttachStart(r) \/ AttachReset(r) \/ AttachNew(r) \/ AttachAgain(r) \/ AttachOld(r)
    \/ AttachNoPane(r) \/ AttachPane(r) \/ AttachFinish(r) \/ AttachFail(r) \/ MarkUnknown(r)
Detach(r) ==
    \/ DetachStart(r) \/ DetachBegins(r) \/ DetachClosed(r) \/ DetachFailed(r)
    \/ DetachGone(r) \/ DetachRestored(r) \/ DetachConfirm(r) \/ DetachRelease(r)

RuntimeNext ==
    \/ \E r \in Requests : Prepare(r) \/ Attach(r) \/ Detach(r) \/ RequestEnds(r)
    \/ LeaseMoves("reserved", "active") \/ LeaseMoves("active", "revoked")
    \/ \E p \in panes : PaneExits(p)

RuntimeSpec == RuntimeInit /\ [][RuntimeNext]_runtimeVars

-----------------------------------------------------------------------------
AttachedStates == {"attaching", "connected_readonly", "detaching", "outcome_unknown"}

RuntimeTypeOK ==
    /\ preparation \in [ state : States, revision : Nat, generation : Nat \ {0},
                         writing : 0..Len(leases), attachment : 0..Len(attachments) ]
    /\ leases \in Seq([generation : Nat \ {0}, status : {"reserved", "active", "revoked"}])
    /\ attachments \in Seq([ generation : Nat \ {0}, status : AttachedStates \cup {"detached"},
                             pane : 0..Len(started), phase : {"close", "close_confirmed"} ])
    /\ request \in [Requests -> [ at : { "idle", "prepare", "reset", "begin", "old", "launch",
                          "finish", "fail", "unknown", "detach", "close", "gone", "restore",
                          "confirm", "release" }, revision : Nat, attachment : 0..Len(attachments),
                          pane : 0..Len(started) ]]
    /\ panes \subseteq 1..Len(started)
    /\ started \in Seq(1..Len(attachments))

\* However requests race and end, one attachment and one lease can be used at most: those
\* the preparation points at, of its own generation; and none once it is detached.
SingleAuthority ==
    /\ \A n \in DOMAIN attachments : n # preparation.attachment =>
           attachments[n].status = "detached"
    /\ \A n \in DOMAIN leases : n # preparation.writing => leases[n].status = "revoked"
    /\ preparation.state \in AttachedStates =>
           /\ Current.status = preparation.state
           /\ Current.generation = preparation.generation
           /\ leases[preparation.writing].generation = preparation.generation
    /\ preparation.state = "detached" =>
           leases[preparation.writing].status = "revoked" /\ Current.status = "detached"

\* What the requests may do to the rows of a runtime.
RuntimeSafe == RuntimeTypeOK /\ SingleAuthority

\* A detach that has finished has closed the agent's pane, though every call to close it
\* may fail, time out, be repeated or be left in the middle: but for an attachment that
\* was given a second pane after an unknown outcome.
DetachedIsGone ==
    preparation.state = "detached" =>
        LET own == {p \in DOMAIN started : started[p] = preparation.attachment}
        IN  Cardinality(own) <= 1 => own \cap panes = {}
=============================================================================
