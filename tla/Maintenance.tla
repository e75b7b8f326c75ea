------------------------------ MODULE Maintenance ------------------------------
(***************************************************************************)
(* The maintenance window of an upgrade: the controller that stops the     *)
(* services, switches the `current` link to the target generation, selects *)
(* its schema evidence, starts the services again and commits, or rolls    *)
(* back (agent_cockpit/maintenance_executor.py), with the journal          *)
(* (upgrade_journal.py), the evidence (maintenance_evidence.py) and the    *)
(* entry (maintenance_runtime.py, maintenance_request.py) it works on.     *)
(*                                                                         *)
(* Journal, link, selector and evidence are durable and change one atomic  *)
(* replacement at a time; the controller may die, and the machine restart, *)
(* between any two.  The controller's lock leaves one controller at a      *)
(* time, so what only the controller changes is not read again here: the   *)
(* reads that confirm it cannot fail.  systemd is external.                *)
(***************************************************************************)
EXTENDS Naturals

CONSTANTS
    Requests,       \* request ids
    Generations,    \* deployed generations
    Base,           \* the generation in use at first
    Install,        \* the request id of the evidence of the installation
    NoRequest, NoGeneration,
    Rebuilt,        \* a request that is run again is built anew (the command line)
    Mishaps,        \* kinds of mishap explored
    MaxMishaps      \* bound: mishaps, crashes and restarts included

MishapKinds == { "service", "truth", "journal", "evidence", "switch", "selector", "health",
                 "crash", "reboot" }

ASSUME MaintenanceAssumption ==
    /\ Base \in Generations /\ NoGeneration \notin Generations
    /\ Install \notin Requests /\ NoRequest \notin Requests
    /\ Rebuilt \in BOOLEAN
    /\ Mishaps \subseteq MishapKinds /\ MaxMishaps \in Nat

VARIABLES
    journal,        \* the fixed upgrade journal
    archived,       \* requests whose terminal journal was moved to the archive
    current,        \* the generation `current` points to
    selector,       \* the evidence the server's environment file names
    evidence,       \* published evidence
    up,             \* active units
    running,        \* generation and evidence the cockpit unit was started with
    ctl,            \* the controller process
    built,          \* the requests' previous and target generations
    mishaps

durable == <<journal, archived, current, selector, evidence>>
services == <<up, running>>
maintenanceVars == <<durable, services, ctl, built, mishaps>>

-----------------------------------------------------------------------------
Units == {"cockpit", "mail"}
Places == { "down", "freeze", "select", "enter", "drive", "intent", "halt", "restore",
            "revive", "record" }
Terminal == {"committed", "rolled_back"}
Stages == {"prepared", "services_stopped", "switched", "services_started"} \cup Terminal
Intents == {"stop_services", "switch_current", "start_services", "commit", "rollback"}
Evidence == [req : Requests \cup {Install}, role : {"previous", "target"}, gen : Generations]

Journal == [req : Requests \cup {NoRequest}, stage : Stages \cup {"none"},
            intent : Intents \cup {"none"}, failed : BOOLEAN]
Control == [at : Places, req : Requests \cup {NoRequest}, retry : BOOLEAN]

NoJournal == [req |-> NoRequest, stage |-> "none", intent |-> "none", failed |-> FALSE]
Down == [at |-> "down", req |-> NoRequest, retry |-> FALSE]
NotBuilt == [previous |-> NoGeneration, target |-> NoGeneration]

Open == journal.stage \in Stages \ Terminal         \* a journal that is not terminal
Me == built[ctl.req]
Binding(r, role) == [req |-> r, role |-> role, gen |-> built[r][role]]
Frozen == Binding(ctl.req, "previous")

MaintenanceInit ==
    /\ journal = NoJournal /\ archived = {}
    /\ current = Base
    /\ selector = [req |-> Install, role |-> "target", gen |-> Base]
    /\ evidence = {selector}
    /\ up = Units
    /\ running = [gen |-> Base, evidence |-> Base]
    /\ ctl = Down
    /\ built = [r \in Requests |-> NotBuilt]
    /\ mishaps = 0

Mishap(kind) ==
    /\ kind \in Mishaps /\ mishaps < MaxMishaps
    /\ mishaps' = mishaps + 1
Well == UNCHANGED mishaps

Exit == ctl' = Down
Goto(place) ==
    ctl' = IF place = "down" THEN Down ELSE [at |-> place, req |-> ctl.req, retry |-> ctl.retry]

\* One journal operation: _atomic_write has happened, or it failed and the journal
\* says so when it is read again; then the controller gives up without a rollback.
Write(j, place) ==
    \/ journal' = j /\ Goto(place) /\ Well
    \/ Mishap("journal") /\ UNCHANGED journal /\ Exit

-----------------------------------------------------------------------------
(* The entry                                                                *)

\* What a request is built from: the generation that is current now, unless the
\* request of the first run is used again.
Builds(r, g) ==
    IF built[r] = NotBuilt
    THEN g # current /\ built' = [built EXCEPT ![r] = [previous |-> current, target |-> g]]
    ELSE /\ g = built[r].target
         /\ IF Rebuilt
            THEN g # current /\ built' = [built EXCEPT ![r].previous = current]
            ELSE UNCHANGED built

\* execute_maintenance takes the lock.  It goes on with an open journal of the request,
\* refuses one of another request, and returns at once on a terminal one of its own.
Execute(r) ==
    /\ ctl = Down
    /\ IF journal.req = r THEN Open ELSE ~Open
    /\ \E g \in Generations : Builds(r, g)
    /\ ctl' = [at |-> IF journal.req = r THEN "enter" ELSE "freeze", req |-> r, retry |-> FALSE]
    /\ UNCHANGED <<durable, services, mishaps>>

\* initialize_previous: the evidence the server runs with becomes the request's
\* evidence of the previous generation.
Freeze ==
    /\ ctl.at = "freeze"
    /\ CASE selector = Frozen /\ Frozen \in evidence ->
                Goto("select") /\ Well /\ UNCHANGED evidence
         [] selector # Frozen /\ selector.role = "target" /\ selector.gen = Me.previous ->
                \/ evidence' = evidence \cup {Frozen} /\ Goto("select") /\ Well
                \/ Mishap("evidence") /\ evidence' \in {evidence, evidence \cup {Frozen}} /\ Exit
         [] OTHER -> Exit /\ Well /\ UNCHANGED evidence
    /\ UNCHANGED <<journal, archived, current, selector, services, built>>

\* ... and is selected under that name.
Select ==
    /\ ctl.at = "select"
    /\ \/ selector' = Frozen /\ Goto("enter") /\ Well
       \/ Mishap("selector") /\ selector' \in {selector, Frozen} /\ Exit
    /\ UNCHANGED <<journal, archived, current, evidence, services, built>>

\* The terminal journal of an earlier request moves to the archive.
Archive ==
    /\ ctl.at = "enter"
    /\ journal.req \notin {ctl.req, NoRequest}
    /\ IF current # Me.previous \/ journal.req \in archived
       THEN Exit /\ Well /\ UNCHANGED <<journal, archived>>
       ELSE /\ \/ journal' = NoJournal /\ Goto("enter") /\ Well
               \/ Mishap("journal") /\ journal' \in {journal, NoJournal} /\ Exit
            /\ archived' = IF journal' = journal THEN archived ELSE archived \cup {journal.req}
    /\ UNCHANGED <<current, selector, evidence, services, built>>

\* create_journal: prepared, with the intent to stop the services.
Create ==
    /\ ctl.at = "enter" /\ journal = NoJournal
    /\ IF current # Me.previous
       THEN Exit /\ Well /\ UNCHANGED journal
       ELSE Write([ req |-> ctl.req, stage |-> "prepared", intent |-> "stop_services",
                    failed |-> FALSE ], "drive")
    /\ UNCHANGED <<archived, current, selector, evidence, services, built>>

\* Where `current` may point, as the journal tells it.
Explained(r) ==
    CASE journal.intent \in {"rollback", "switch_current"} ->
             {built[r].previous, built[r].target}
      [] journal.intent \notin {"rollback", "switch_current"}
             /\ journal.stage \in {"prepared", "services_stopped"} -> {built[r].previous}
      [] OTHER -> {built[r].target}

\* Mutant of ResumeUpgrade: a rollback is expected to have switched back already.
ResumeSwitchedBack ==
    /\ ctl.at = "enter" /\ journal.req = ctl.req
    /\ IF current \in Explained(ctl.req) /\ (journal.intent = "rollback" => current = Me.previous)
       THEN ctl' = IF journal.intent = "rollback"
                   THEN [at |-> "intent", req |-> ctl.req, retry |-> TRUE]
                   ELSE [at |-> "drive", req |-> ctl.req, retry |-> ctl.retry]
       ELSE Exit
    /\ UNCHANGED <<durable, services, built, mishaps>>

\* _entry_journal on the request's own open journal: `current` must be where the
\* journal expects it, or the controller gives up.
ResumeUpgrade ==
    /\ ctl.at = "enter" /\ journal.req = ctl.req
    /\ IF current \in Explained(ctl.req)
       THEN ctl' = IF journal.intent = "rollback"
                   THEN [at |-> "intent", req |-> ctl.req, retry |-> TRUE]
                   ELSE [at |-> "drive", req |-> ctl.req, retry |-> ctl.retry]
       ELSE Exit
    /\ UNCHANGED <<durable, services, built, mishaps>>

-----------------------------------------------------------------------------
(* Services, link and selector, for the upgrade and for the rollback.       *)

\* An error of the upgrade starts a rollback; one of the rollback is recorded.
Trouble == Goto(IF ctl.at = "drive" THEN "intent" ELSE "record")

\* The state of the units cannot be told: an upgrade is left as it is.
Unknown == IF ctl.at = "drive" THEN Exit ELSE Trouble

\* systemctl on the next unit of the order, and how it may go wrong: the command may
\* fail before or after its effect.  When all units are then as desired it is a success.
Command(after, goal) ==
    /\ \/ up' = after /\ Well /\ UNCHANGED ctl
       \/ /\ Mishap("service") /\ up' \in {up, after}
          /\ IF up' = goal THEN UNCHANGED ctl ELSE Trouble
       \/ Mishap("truth") /\ up' \in {up, after} /\ Unknown
    /\ running' = IF "cockpit" \in up' \ up
                  THEN [gen |-> current, evidence |-> selector.gen] ELSE running
    /\ UNCHANGED <<durable, built>>

\* _ensure_services(inactive): cockpit, then mail.
StopService ==
    /\ \/ ctl.at = "halt"
       \/ ctl.at = "drive" /\ journal.stage = "prepared" /\ journal.intent = "stop_services"
    /\ up # {}
    /\ Command(IF "cockpit" \in up THEN up \ {"cockpit"} ELSE up \ {"mail"}, {})

\* _ensure_services(active): mail, then cockpit.
StartService ==
    /\ \/ ctl.at = "revive"
       \/ /\ ctl.at = "drive" /\ journal.intent = "start_services"
          /\ selector = Binding(ctl.req, "target")
    /\ up # Units
    /\ Command(up \cup {IF "mail" \in up THEN "cockpit" ELSE "mail"}, Units)

\* generation_switch: the link is replaced, or an error came before or after that; what
\* it points to then decides.
SwitchTo(g, place) ==
    /\ \/ current' = g /\ Goto(place) /\ Well
       \/ /\ Mishap("switch") /\ current' \in {current, g}
          /\ IF current' = g THEN Goto(place) ELSE Trouble
    /\ UNCHANGED <<journal, archived, selector, evidence, services, built>>

\* _activate_binding: the same for the selector.
SelectRole(role, place) ==
    LET b == Binding(ctl.req, role) IN
    /\ \/ selector' = b /\ Goto(place) /\ Well
       \/ /\ Mishap("selector") /\ selector' \in {selector, b}
          /\ IF selector' = b THEN Goto(place) ELSE Trouble
    /\ UNCHANGED <<journal, archived, current, evidence, services, built>>

\* Mutant of Ready: the evidence the server runs with is not asked for.
ReadyInAnyEnvironment(g) == up = Units /\ running.gen = g

\* _wait_ready on /health/ready of the cockpit: the generation it runs, with that
\* generation's evidence.
Ready(g) == up = Units /\ running = [gen |-> g, evidence |-> g]

\* The probe answers in time, and the journal says so; or it does not.
Probe(g, j, place) ==
    /\ \/ Ready(g) /\ Write(j, place)
       \/ ~Ready(g) /\ Trouble /\ Well /\ UNCHANGED journal
       \/ Mishap("health") /\ Trouble /\ UNCHANGED journal
    /\ UNCHANGED <<archived, current, selector, evidence, services, built>>

-----------------------------------------------------------------------------
(* The upgrade: _drive, one turn of its loop after the other.               *)

Drive(stage, intent) ==
    ctl.at = "drive" /\ journal.stage = stage /\ journal.intent = intent
Advance(stage, intent) ==
    [req |-> journal.req, stage |-> stage, intent |-> intent, failed |-> journal.failed]
OnlyJournal == UNCHANGED <<archived, current, selector, evidence, services, built>>

Stopped ==
    /\ Drive("prepared", "stop_services") /\ up = {}
    /\ Write(Advance("services_stopped", "none"), "drive") /\ OnlyJournal

\* _assert_services: the units run again (the machine was restarted).
Conflict ==
    /\ ctl.at = "drive" /\ journal.stage = "services_stopped" /\ up # {}
    /\ Trouble
    /\ UNCHANGED <<durable, services, built, mishaps>>

PrepareAs(cold) ==
    LET b == Binding(ctl.req, "target") IN
    /\ Drive("services_stopped", "none") /\ b \notin evidence
    /\ cold => up = {}
    /\ \/ evidence' = evidence \cup {b} /\ Well /\ UNCHANGED ctl
       \/ /\ Mishap("evidence") /\ evidence' \in {evidence, evidence \cup {b}}
          /\ IF b \in evidence' THEN UNCHANGED ctl ELSE Trouble
    /\ UNCHANGED <<journal, archived, current, selector, services, built>>

\* Mutant of PrepareTarget: the data is copied and probed whatever runs.
PrepareWarm == PrepareAs(FALSE)

\* prepare_target: a snapshot of the stores, the target's schema probed on it, and the
\* evidence of that published.
PrepareTarget == PrepareAs(TRUE)

RecordSwitch ==
    /\ Drive("services_stopped", "none") /\ up = {}
    /\ Binding(ctl.req, "target") \in evidence
    /\ Write(Advance("services_stopped", "switch_current"), "drive") /\ OnlyJournal

\* Mutant of Switch: the link is replaced before the journal says so.
SwitchUnannounced ==
    /\ Drive("services_stopped", "none") /\ up = {} /\ current = Me.previous
    /\ SwitchTo(Me.target, "drive")

Switch ==
    /\ Drive("services_stopped", "switch_current") /\ up = {} /\ current = Me.previous
    /\ SwitchTo(Me.target, "drive")

Switched ==
    /\ Drive("services_stopped", "switch_current") /\ up = {} /\ current = Me.target
    /\ Write(Advance("switched", "none"), "drive") /\ OnlyJournal

RecordStart ==
    /\ Drive("switched", "none")
    /\ Write(Advance("switched", "start_services"), "drive") /\ OnlyJournal

SelectTarget ==
    /\ Drive("switched", "start_services") /\ selector # Binding(ctl.req, "target")
    /\ SelectRole("target", "drive")

Started ==
    /\ Drive("switched", "start_services")
    /\ selector = Binding(ctl.req, "target") /\ up = Units
    /\ Write(Advance("services_started", "none"), "drive") /\ OnlyJournal

WaitTarget ==
    /\ Drive("services_started", "none")
    /\ Probe(Me.target, Advance("services_started", "commit"), "drive")

Commit ==
    /\ Drive("services_started", "commit")
    /\ Write(Advance("committed", "none"), "down") /\ OnlyJournal

-----------------------------------------------------------------------------
(* The rollback: _rollback.                                                 *)

\* The intent is recorded, or the failure an earlier attempt recorded is cleared.
BeginRollback ==
    /\ ctl.at = "intent"
    /\ IF journal.intent = "rollback" /\ ~journal.failed
       THEN Goto("halt") /\ Well /\ UNCHANGED journal
       ELSE Write([ req |-> journal.req, stage |-> journal.stage, intent |-> "rollback",
                    failed |-> FALSE ], "halt")
    /\ OnlyJournal

Halted ==
    /\ ctl.at = "halt" /\ up = {} /\ Goto("restore")
    /\ UNCHANGED <<durable, services, built, mishaps>>

SwitchBack ==
    /\ ctl.at = "restore" /\ current = Me.target
    /\ SwitchTo(Me.previous, "restore")

SelectPrevious ==
    /\ ctl.at = "restore" /\ current = Me.previous
    /\ SelectRole("previous", "revive")

WaitPrevious ==
    /\ ctl.at = "revive" /\ up = Units
    /\ Probe(Me.previous, Advance("rolled_back", "none"), "down")

\* The failure is recorded, if that succeeds; a rollback that an earlier run began is
\* tried once more by this one.
RecordFailure ==
    /\ ctl.at = "record"
    /\ \/ /\ journal' = [ req |-> journal.req, stage |-> journal.stage,
                        intent |-> journal.intent, failed |-> TRUE ]
          /\ Well
       \/ Mishap("journal") /\ UNCHANGED journal
    /\ ctl' = IF ctl.retry THEN [at |-> "intent", req |-> ctl.req, retry |-> FALSE] ELSE Down
    /\ OnlyJournal

-----------------------------------------------------------------------------
(* The environment                                                          *)

Crash ==
    /\ ctl # Down /\ Mishap("crash") /\ Exit
    /\ UNCHANGED <<durable, services, built>>

\* The units are enabled: systemd starts them with what link and selector say.
Reboot ==
    /\ Mishap("reboot") /\ Exit
    /\ up' = Units
    /\ running' = [gen |-> current, evidence |-> selector.gen]
    /\ UNCHANGED <<durable, built>>

Upgrade ==
    \/ Stopped \/ Conflict \/ PrepareTarget \/ RecordSwitch \/ Switch \/ Switched
    \/ RecordStart \/ SelectTarget \/ Started \/ WaitTarget \/ Commit
Rollback ==
    \/ BeginRollback \/ Halted \/ SwitchBack \/ SelectPrevious \/ WaitPrevious
    \/ RecordFailure
Controller ==
    \/ Freeze \/ Select \/ Archive \/ Create \/ ResumeUpgrade
    \/ StopService \/ StartService \/ Upgrade \/ Rollback

MaintenanceNext ==
    \/ \E r \in Requests : Execute(r)
    \/ Controller
    \/ Crash
    \/ Reboot

MaintenanceSpec == MaintenanceInit /\ [][MaintenanceNext]_maintenanceVars

\* A controller that runs goes on, and an unfinished request is run again.
MaintenanceFairSpec ==
    /\ MaintenanceSpec
    /\ WF_maintenanceVars(Controller)
    /\ \A r \in Requests : WF_maintenanceVars(Open /\ Execute(r))

-----------------------------------------------------------------------------
MaintenanceTypeOK ==
    /\ journal \in Journal
    /\ archived \subseteq Requests
    /\ current \in Generations
    /\ selector \in evidence /\ evidence \subseteq Evidence
    /\ up \subseteq Units
    /\ running \in [gen : Generations, evidence : Generations]
    /\ ctl \in Control
    /\ built \in [Requests -> [previous : Generations, target : Generations] \cup {NotBuilt}]
    /\ mishaps \in 0..MaxMishaps

\* A request that is over has left one whole generation in service: link, selector and
\* both units are the target's after a commit, the previous one's after a rollback,
\* wherever the controller died and the machine restarted on the way
\* (maintenance_executor._drive, _rollback, _wait_ready).
TerminalIsServing ==
    LET over(g) == /\ current = g /\ selector.gen = g /\ up = Units
                   /\ running = [gen |-> g, evidence |-> g] IN
    /\ journal.stage = "committed" => over(built[journal.req].target)
    /\ journal.stage = "rolled_back" => over(built[journal.req].previous)

\* The open journal always tells where `current` may point, so that a run that resumes
\* never meets a link it must refuse (_entry_journal's current_drift).
JournalExplainsCurrent == Open => current \in Explained(journal.req)

\* The cockpit never runs a generation whose schema evidence was not published
\* (_drive reads the target's evidence before it records the switch).
RunsOnlyProbed == \E e \in evidence : e.role = "target" /\ e.gen = running.gen

\* What the machine runs, at the end and on the way.
WindowSafe == MaintenanceTypeOK /\ TerminalIsServing /\ RunsOnlyProbed

\* The snapshot the target's evidence is made from is taken while no service writes the
\* stores, after a restart of the machine too (_drive's _assert_services).
PreparedCold ==
    [][\A e \in evidence' \ evidence : e.role = "target" => up = {}]_maintenanceVars

\* An upgrade that was begun is committed or rolled back, if it is run again as often as
\* it is interrupted (_entry_journal, _execute_with_lease).
EventuallySettled == \A r \in Requests :
    (journal.req = r /\ Open) ~> (journal.req = r /\ journal.stage \in Terminal)

=============================================================================
