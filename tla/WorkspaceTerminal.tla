--------------------------- MODULE WorkspaceTerminal ---------------------------
(***************************************************************************)
(* The terminal of a workspace (agent_cockpit/workspace_terminal.py): one  *)
(* ticket, the requests that create, interrupt, restart and close it, and  *)
(* the shell behind it.                                                    *)
(*                                                                         *)
(* The controller serves one request at a time, under its lock.  A request *)
(* is an operation of the journal: each of its steps is dispatched, done   *)
(* and recorded, and then the ticket is updated under compare-and-set.     *)
(* Ticket and journal are durable and may fail to be written; the shell    *)
(* and all the controller knows of it die with the server, between any two *)
(* of these writes.                                                        *)
(***************************************************************************)
EXTENDS Naturals, Sequences, FiniteSets

CONSTANTS
    MaxTerminalRequests,    \* bound: requests made
    MaxShells,              \* bound: shells started
    MaxTicketRevision,      \* bound: revisions of the ticket
    MaxMishaps              \* bound: failed writes and deaths of the server

ASSUME TerminalAssumption ==
    /\ MaxTerminalRequests \in Nat /\ MaxShells \in Nat
    /\ MaxTicketRevision \in Nat \ {0} /\ MaxMishaps \in Nat

VARIABLES
    ticket,     \* the row of terminal_tickets; revision 0: none yet
    requests,   \* per key: its operation in the journal
    replays,    \* _control_replays: keys whose answer this server remembers
    call,       \* the request being served, NoTurn when the lock is free
    bound,      \* _bindings: the shell of the ticket and its generation
    live,       \* shells that run, each with the generation it was started for
    exited,     \* _known_exited: generations whose shell is known to have ended
    \* history: shells started, per key and in all, and the mishaps so far
    spawned, shells, mishaps

terminalVars == <<ticket, requests, replays, call, bound, live, exited, spawned, shells, mishaps>>

\* Idempotency keys, numbered in the order of their first use.
TerminalKeys == 1..MaxTerminalRequests
Shells == 1..MaxShells
Generations == 0..(MaxShells + 1)
Plan == [ none |-> << >>, create |-> <<"start">>, interrupt |-> <<"interrupt">>,
          restart |-> <<"stop", "start">>, close |-> <<"stop">> ]
NoTicket == [ revision |-> 0, generation |-> 1, desired |-> "running",
              observed |-> "unknown", exit |-> FALSE, refs |-> {} ]
NotAsked == [ action |-> "none", revision |-> 0, generation |-> 0,
               status |-> "none", step |-> 1, attempt |-> "pending" ]
NoTurn == [key |-> 0, at |-> "none", outcome |-> "none"]
Unbound == [shell |-> 0, generation |-> 0]

TerminalInit ==
    /\ ticket = NoTicket
    /\ requests = [k \in TerminalKeys |-> NotAsked]
    /\ replays = {} /\ call = NoTurn
    /\ bound = Unbound /\ live = {} /\ exited = {}
    /\ spawned = [k \in TerminalKeys |-> 0] /\ shells = 0 /\ mishaps = 0

-----------------------------------------------------------------------------
Mishap == mishaps < MaxMishaps /\ mishaps' = mishaps + 1

LockFree == call = NoTurn
Serving(k, at) == call.key = k /\ call.at = at
Go(k, at) == call' = [key |-> k, at |-> at, outcome |-> "none"]
GoWith(k, at, outcome) == call' = [key |-> k, at |-> at, outcome |-> outcome]
Answer == call' = NoTurn

\* An error of _execute_plan is remembered for the key, like a result.
Refuse(k) == Answer /\ replays' = replays \cup {k}

BoundAlive == bound \in live

\* The engine's processes, and what the controller knows of them.
runtime == <<bound, live, exited, spawned, shells>>

\* TerminalTicketStore.update: one revision more.
Update(t) ==
    /\ ticket.revision < MaxTicketRevision
    /\ ticket' = [t EXCEPT !.revision = ticket.revision + 1]

\* A new request names the ticket's revision and generation of the moment; a create
\* makes the ticket.
Ask(k, action) ==
    /\ LockFree
    /\ \A j \in TerminalKeys : requests[j] = NotAsked <=> j >= k
    /\ (action = "create") <=> (ticket.revision = 0)
    /\ LET t == IF action = "create" THEN [ticket EXCEPT !.revision = 1] ELSE ticket
       IN  /\ ticket' = t
           /\ requests' = [requests EXCEPT ![k] =
                  [NotAsked EXCEPT !.action = action, !.revision = t.revision,
                                    !.generation = t.generation, !.status = "running"]]
    /\ Go(k, "step")
    /\ UNCHANGED <<replays, runtime, mishaps>>

\* The client repeats a request.  An answer that is remembered is given again and
\* changes nothing; otherwise the ticket must be as the request expects it, except for
\* a create.
AskAgain(k) ==
    /\ LockFree /\ requests[k] # NotAsked /\ k \notin replays
    /\ requests[k].action # "create" =>
          /\ requests[k].revision = ticket.revision
          /\ requests[k].generation = ticket.generation
    /\ CASE requests[k].status = "running"   -> Go(k, "step") /\ UNCHANGED replays
         [] requests[k].status = "succeeded" -> Go(k, "ticket") /\ UNCHANGED replays
         [] requests[k].status = "limit" /\ requests[k].action = "create"
                                             -> Go(k, "settle") /\ UNCHANGED replays
         [] OTHER                            -> Refuse(k)
    /\ UNCHANGED <<ticket, requests, runtime, mishaps>>

\* Mutant of Dispatch: an attempt that was dispatched before is made again.
DispatchAgain(k) ==
    LET r == requests[k]
    IN  /\ Serving(k, "step")
        /\ IF r.step > Len(Plan[r.action])
           THEN /\ requests' = [requests EXCEPT ![k].status = "succeeded"]
                /\ Go(k, "ticket") /\ UNCHANGED replays
           ELSE /\ requests' = [requests EXCEPT ![k].attempt = "dispatched"]
                /\ Go(k, "effect") /\ UNCHANGED replays
        /\ UNCHANGED <<ticket, runtime, mishaps>>

\* prepare_attempt and dispatch_attempt of the next step, or the end of the operation.
\* An attempt that a lost server had dispatched is never made again.
Dispatch(k) ==
    LET r == requests[k]
    IN  /\ Serving(k, "step")
        /\ IF r.step > Len(Plan[r.action])
           THEN /\ requests' = [requests EXCEPT ![k].status = "succeeded"]
                /\ Go(k, "ticket") /\ UNCHANGED replays
           ELSE IF r.attempt = "pending"
           THEN /\ requests' = [requests EXCEPT ![k].attempt = "dispatched"]
                /\ Go(k, "effect") /\ UNCHANGED replays
           ELSE Refuse(k) /\ UNCHANGED requests
        /\ UNCHANGED <<ticket, runtime, mishaps>>

Doing(k, step) ==
    Serving(k, "effect") /\ Plan[requests[k].action][requests[k].step] = step

-----------------------------------------------------------------------------
(* The steps.  An error other than a provider failure leaves the attempt      *)
(* dispatched and is the answer.                                              *)

\* What _mark_stopped makes of the ticket of the bound shell.
StaleRecord == bound.generation = ticket.generation /\ (ticket.observed # "stopped" \/ ~ticket.exit)
Stopped(t) == [t EXCEPT !.observed = "stopped", !.exit = TRUE]

\* The write of _mark_stopped, when there is one; a failure is swallowed.
MarkExit ==
    IF StaleRecord
    THEN \/ Update(Stopped(ticket)) /\ UNCHANGED mishaps
         \/ Mishap /\ UNCHANGED ticket
    ELSE UNCHANGED <<ticket, mishaps>>

\* _binding_for_stop finds nothing to stop.
NothingToStop ==
    bound = Unbound /\ (ticket.generation \in exited \/ ticket.observed = "stopped")

\* It cannot tell, or the shell is of another generation than the ticket.
StopUnclear ==
    IF bound = Unbound THEN ~NothingToStop ELSE bound.generation # ticket.generation

StopNothing(k) ==
    /\ Doing(k, "stop") /\ NothingToStop
    /\ GoWith(k, "record", "succeeded")
    /\ UNCHANGED <<ticket, requests, replays, runtime, mishaps>>

StopRefused(k) ==
    /\ Doing(k, "stop") /\ StopUnclear
    /\ Refuse(k)
    /\ UNCHANGED <<ticket, requests, runtime, mishaps>>

\* The shell has ended by itself, and the watcher has not come to it yet.
StopEnded(k) ==
    /\ Doing(k, "stop") /\ bound # Unbound /\ ~StopUnclear /\ ~BoundAlive
    /\ exited' = exited \cup {ticket.generation}
    /\ MarkExit
    /\ GoWith(k, "record", "succeeded")
    /\ UNCHANGED <<requests, replays, bound, live, spawned, shells>>

\* Mutant of StopKilled: the shell is taken for ended whatever the engine answers.
StopKilledUnconfirmed(k) ==
    /\ Doing(k, "stop") /\ bound # Unbound /\ ~StopUnclear /\ BoundAlive
    /\ live' \in {live, live \ {bound}}
    /\ bound' = Unbound
    /\ exited' = exited \cup {ticket.generation}
    /\ GoWith(k, "record", "succeeded")
    /\ UNCHANGED <<ticket, requests, replays, spawned, shells, mishaps>>

\* kill_term confirms the end of the shell.
StopKilled(k) ==
    /\ Doing(k, "stop") /\ bound # Unbound /\ ~StopUnclear /\ BoundAlive
    /\ live' = live \ {bound}
    /\ bound' = Unbound
    /\ exited' = exited \cup {ticket.generation}
    /\ GoWith(k, "record", "succeeded")
    /\ UNCHANGED <<ticket, requests, replays, spawned, shells, mishaps>>

\* kill_term does not confirm it: the shell runs on, or it has ended all the same.
StopUnconfirmed(k) ==
    /\ Doing(k, "stop") /\ bound # Unbound /\ ~StopUnclear /\ BoundAlive
    /\ live' \in {live, live \ {bound}}
    /\ GoWith(k, "record", "unknown")
    /\ UNCHANGED <<ticket, requests, replays, bound, exited, spawned, shells, mishaps>>

\* The generation the request's shell is of.
NewGeneration(k) ==
    requests[k].generation + (IF requests[k].action = "restart" THEN 1 ELSE 0)

\* create_bound_term: the new shell takes the place of whatever was bound.
StartShell(k) ==
    /\ Doing(k, "start")
    /\ shells < MaxShells
    /\ shells' = shells + 1
    /\ bound' = [shell |-> shells + 1, generation |-> NewGeneration(k)]
    /\ live' = live \cup {bound'}
    /\ exited' = IF requests[k].action = "restart" THEN exited \ {requests[k].generation}
                 ELSE exited
    /\ spawned' = [spawned EXCEPT ![k] = @ + 1]
    /\ GoWith(k, "record", "succeeded")
    /\ UNCHANGED <<ticket, requests, replays, mishaps>>

\* The pool of terminals is full, or the directory cannot be opened.
StartFails(k, outcome) ==
    /\ Doing(k, "start")
    /\ GoWith(k, "record", outcome)
    /\ UNCHANGED <<ticket, requests, replays, runtime, mishaps>>

\* interrupt_term writes to the shell, if there is one of the ticket's generation.
Interrupt(k) ==
    /\ Doing(k, "interrupt")
    /\ IF bound.generation = ticket.generation /\ BoundAlive
       THEN /\ \E outcome \in {"succeeded", "failed", "unknown"} : GoWith(k, "record", outcome)
            /\ UNCHANGED <<replays, exited>>
       ELSE /\ Refuse(k)
            /\ exited' = exited \cup
                 (IF bound.generation = ticket.generation THEN {ticket.generation} ELSE {})
    /\ UNCHANGED <<ticket, requests, bound, live, spawned, shells, mishaps>>

-----------------------------------------------------------------------------
\* record_attempt_outcome: the next step is due, or the operation is over.
Record(k) ==
    /\ Serving(k, "record")
    /\ IF call.outcome = "succeeded"
       THEN /\ requests' = [requests EXCEPT ![k].step = @ + 1, ![k].attempt = "pending"]
            /\ Go(k, "step") /\ UNCHANGED replays
       ELSE /\ requests' = [requests EXCEPT ![k].status = call.outcome]
            /\ IF call.outcome = "limit" /\ requests[k].action = "create"
               THEN Go(k, "settle") /\ UNCHANGED replays ELSE Refuse(k)
    /\ UNCHANGED <<ticket, runtime, mishaps>>

\* The ticket as the action leaves it, with the operation among its receipts.
Settled(k) ==
    LET noted == [ticket EXCEPT !.refs = @ \cup {k}]
    IN  CASE requests[k].action = "create" ->
               [noted EXCEPT !.desired = "running", !.observed = "running"]
          [] requests[k].action = "restart" ->
               [noted EXCEPT !.desired = "running", !.observed = "running", !.exit = FALSE,
                             !.generation = requests[k].generation + 1]
          [] requests[k].action = "close" ->
               [noted EXCEPT !.desired = "stopped", !.observed = "stopped"]
          [] OTHER -> noted

\* The shell a create or a restart must have left.
HasShell(k) ==
    CASE requests[k].action = "create" -> BoundAlive
      [] requests[k].action = "restart" -> bound.generation = requests[k].generation + 1
      [] OTHER -> TRUE

\* The last write of a request, unless an earlier call made it.
SettleTicket(k) ==
    /\ Serving(k, "ticket") /\ HasShell(k)
    /\ IF k \in ticket.refs THEN UNCHANGED ticket ELSE Update(Settled(k))
    /\ Refuse(k)
    /\ UNCHANGED <<requests, runtime, mishaps>>

\* The shell is lost: an error that is not remembered.
SettleNothing(k) ==
    /\ Serving(k, "ticket") /\ ~HasShell(k)
    /\ Answer
    /\ UNCHANGED <<ticket, requests, replays, runtime, mishaps>>

\* _settle_create_limit: a ticket that never got its shell is closed, if it is as the
\* request left it.
SettleLimit(k) ==
    /\ Serving(k, "settle")
    /\ IF bound = Unbound /\ ticket.generation = 1 /\ ticket.observed = "unknown" /\ ticket.refs = {}
       THEN /\ Update([ticket EXCEPT !.desired = "stopped", !.observed = "stopped",
                                     !.refs = @ \cup {k}])
            /\ Refuse(k)
       ELSE /\ UNCHANGED ticket
            /\ IF bound = Unbound /\ ticket.generation = 1 /\ ticket.desired = "stopped"
                    /\ ticket.observed = "stopped" /\ k \in ticket.refs
               THEN Refuse(k) ELSE Answer /\ UNCHANGED replays
    /\ UNCHANGED <<requests, runtime, mishaps>>

-----------------------------------------------------------------------------
\* reconnect: another page takes the ticket over under a new cursor.
Reconnect ==
    /\ LockFree /\ bound.generation = ticket.generation /\ BoundAlive
    /\ Update(ticket)
    /\ UNCHANGED <<requests, replays, call, runtime, mishaps>>

\* The shell ends by itself.
ShellExits ==
    /\ \E s \in live : live' = live \ {s}
    /\ UNCHANGED <<ticket, requests, replays, call, bound, exited, spawned, shells, mishaps>>

\* The watcher thread, a stream or a view sees that the bound shell has ended.
ObserveExit ==
    /\ LockFree /\ bound # Unbound /\ ~BoundAlive
    /\ bound.generation \notin exited \/ StaleRecord
    /\ exited' = exited \cup {bound.generation}
    /\ MarkExit
    /\ UNCHANGED <<requests, replays, call, bound, live, spawned, shells>>

\* The journal, or the store of the tickets, cannot be written: the request ends in an
\* error, which is remembered if the plan is not over.
WriteFails(k) ==
    /\ Mishap
    /\ \E at \in {"step", "record", "ticket", "settle"} :
          /\ Serving(k, at)
          /\ IF at \in {"step", "record"} THEN Refuse(k) ELSE Answer /\ UNCHANGED replays
    /\ UNCHANGED <<ticket, requests, runtime>>

NewServer ==
    /\ call' = NoTurn /\ replays' = {} /\ bound' = Unbound /\ live' = {} /\ exited' = {}
    /\ UNCHANGED <<requests, spawned, shells>>

\* The server dies, and its shells with it.
ServerCrashes == Mishap /\ NewServer /\ UNCHANGED ticket

\* close(): the shell is killed and its ticket marked, and the server ends.
ServerStops ==
    /\ LockFree /\ bound # Unbound
    /\ IF bound.generation = ticket.generation /\ ticket.observed # "stopped"
       THEN Update([ticket EXCEPT !.desired = "recovery_required", !.observed = "stopped"])
       ELSE UNCHANGED ticket
    /\ NewServer
    /\ UNCHANGED mishaps

Serve(k) ==
    \/ AskAgain(k) \/ Dispatch(k)
    \/ StopNothing(k) \/ StopRefused(k) \/ StopEnded(k) \/ StopKilled(k) \/ StopUnconfirmed(k)
    \/ StartShell(k) \/ Interrupt(k) \/ Record(k)
    \/ SettleTicket(k) \/ SettleNothing(k) \/ SettleLimit(k) \/ WriteFails(k)

TerminalNext ==
    \/ \E k \in TerminalKeys, action \in DOMAIN Plan \ {"none"} : Ask(k, action)
    \/ \E k \in TerminalKeys : Serve(k)
    \/ \E k \in TerminalKeys, outcome \in {"limit", "failed"} : StartFails(k, outcome)
    \/ Reconnect \/ ShellExits \/ ObserveExit \/ ServerCrashes \/ ServerStops

TerminalSpec == TerminalInit /\ [][TerminalNext]_terminalVars

-----------------------------------------------------------------------------
TerminalTypeOK ==
    /\ ticket \in [ revision : 0..MaxTicketRevision, generation : Generations,
                    desired : {"running", "stopped", "recovery_required"},
                    observed : {"unknown", "running", "stopped"}, exit : BOOLEAN,
                    refs : SUBSET TerminalKeys ]
    /\ requests \in [TerminalKeys ->
          [ action : DOMAIN Plan, revision : 0..MaxTicketRevision, generation : Generations,
            status : {"none", "running", "succeeded", "failed", "unknown", "limit"},
            step : 1..3, attempt : {"pending", "dispatched"} ]]
    /\ replays \subseteq TerminalKeys
    /\ call = NoTurn \/ call \in
          [ key : TerminalKeys, at : {"step", "effect", "record", "ticket", "settle"},
            outcome : {"none", "succeeded", "failed", "unknown", "limit"} ]
    /\ bound = Unbound \/ bound \in [shell : Shells, generation : Generations]
    /\ live \subseteq [shell : Shells, generation : Generations]
    /\ exited \subseteq Generations
    /\ spawned \in [TerminalKeys -> Nat] /\ shells \in 0..MaxShells /\ mishaps \in 0..MaxMishaps

\* A request starts one shell at most, however often it is repeated, whichever write
\* failed and wherever the server died.
StartedOnce == \A k \in TerminalKeys : spawned[k] <= 1

\* No shell runs that the controller has lost sight of, and none of the generation that
\* the ticket shows as stopped - as long as no more than one write or server failed.
NoShellLost ==
    mishaps <= 1 =>
        /\ live \subseteq {bound}
        /\ ticket.observed = "stopped" => \A s \in live : s.generation # ticket.generation

TerminalSafe == TerminalTypeOK /\ StartedOnce /\ NoShellLost
=============================================================================
