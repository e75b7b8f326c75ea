# Verification of Agent Cockpit

TLA+ models of Agent Cockpit, the instances TLC model-checks, and the theorems TLAPS
proves about them. File names without a directory are under `src/agent_cockpit/`.

1. The system (inventory) · 2. Hard behaviours · 3. Plan · 4. Modules and their code ·
5. Runs and bounds · 6. Fairness · 7. Proofs · 8. Where code and text disagree ·
9. Known limits of the modelled code · 10. What is not modelled

## 1. The system

Agent Cockpit is a server and browser cockpit for command-line coding agents. Agents run in
panes of an external terminal multiplexer (herdr) and exchange mail through an external hub
(Agent Mail); the server keeps its own state in SQLite files and JSON documents, and is
upgraded by a separate maintenance controller under systemd.

The last column names the module that models the component; "–" is explained in section 10.

| Component | State it keeps | Operations | Talks to | Correct when | Module |
|---|---|---|---|---|---|
| Leader Mail binding store (`leader_binding.py`) | one row per mail name of a scope, migrations, control-event outbox | bind a leader, report a drain, retire | wiring, API, live poller | one leader; versions announced once and in order; drain evidence of its own round; retired is empty | `LeaderBinding` |
| Control-event fanout (`b0_wiring.py`) | marks of a control event: prompted, mailed, fanned out | sync, take the oldest events, deliver, send, mark | binding store, core, hub | an event leaves the outbox only when it reached leader and participants, and a project gets its mail again only after a transport that failed in part or was not marked | `ControlFanout` |
| Drain of a previous leader (`b0_wiring.py`) | none: rows, receipts and hub in turn | look at the mailbox, count, report, retire | binding store, receipts, hub | a retired mailbox holds no mail nobody took | `LeaderDrain` |
| Deferred delivery core (`deferred_delivery.py`) | per scope: binding version, generation, target status, pending events, delivered ids, in-flight mark | switch binding, set status, ingest, flush, settle | called by wiring threads, calls an adapter with the lock released | nothing lost, nothing twice in a generation, the newest summary wins | `DeferredDelivery` |
| Leader mail wiring (`b0_wiring.py`, hooks in `server.py`) | messages seen, marks still to be written, prompt marks in the receipts | sync bindings, poll, ingest, marked prompt, live status, restart | store and core, hub, herdr | a marked message is not prompted again after a restart; a delivered mark is true | `B0Coordinator` |
| Message receipts (`coordination.py`, `src/agent_mail_commands/mail_recv.py`) | receipt per message: state, claim token, lease, checkpoint, ack flag; participants | observe, claim, checkpoint, complete, fail, resume, dismiss, pause, expire | mail-recv processes, server, live poller, wiring | leases are fenced; processed is final; a dead claim is released | `Receipts` |
| Team lead worker, Team sessions (`team_lead_worker.py`, `team_sessions.py`, `server.py`) | the local work item, consults, reply evidence | claim, renew, freeze the pack and route, consult, reply, complete, sign in, log out | hub, agents, the human | one reply per work, with the text its route allows | `TeamWork` |
| Chat ledger, queue and harvest (`chat_ledger.py`, `server.py`) | messages, notified_to; notes of turns per pane | post, prompt, queue, flush when idle, harvest a settled reply | herdr, live poller, board | a message is put to a pane once; a reply is stored once, under its turn | `ChatQueue` |
| Upgrade journal (`upgrade_journal.py`) | one fixed journal, archive of terminal ones | create, advance, record an intent or a rollback error, archive | executor | a stage or intent tells what may have happened | `Maintenance` |
| Maintenance executor (`maintenance_executor.py`) | nothing but the journal, the link `current`, selector and evidence | upgrade, roll back, resume | journal, services, generation switch, evidence | the window ends with one whole generation in service | `Maintenance` |
| Maintenance runtime, evidence, services, request, command line, generation switch (`maintenance_*.py`, `generation_switch.py`) | evidence, selector, units, the request, the link | freeze, prepare, select; stop and start; build; switch | executor, systemd, file system | only a probed generation runs; the same request can be run again | `Maintenance` |
| Operation journal (`operation_store.py`) | operations, steps, attempts, receipts | create, transition, prepare, dispatch, record an outcome | every saga below | no outcome is invented; an unknown one is not retried; a row can be read back | `OperationRows`, `OperationJournal` |
| Work items and claims, claim activation, dispatch (`workspace_work_store.py`, `workspace_claim_activation.py`, `workspace_claim_tools.py`, `workspace_dispatch_service.py`) | items, claims, dispatch verdicts | dispatch, reserve, activate, record | journal, execution store, agent | the stores agree after any crash; the agent is woken once | `WorkspaceClaims` |
| Delivery and review, write tools and gate (`workspace_delivery_*.py`, `workspace_write_*.py`) | handoffs, reviews, receipts of applies | patch, hand off, review, apply, recover | work and execution store, git | what is applied is what was reviewed, once | `WorkspaceDelivery` |
| Workspace execution (`workspace_execution_service.py`, `workspace_execution_store.py`, `local_codex_harness.py`) | preparations, attachments, writer leases, panes | prepare, attach, detach, recover | harness, herdr | one usable attachment and lease; a detached one has no pane | `WorkspaceRuntime` |
| Workspace terminals, tickets (`workspace_terminal.py`, `terminal_ticket_store.py`) | ticket, operations, bindings of shells | create, interrupt, restart, close, reconnect | journal, processes | one shell per request; no shell is lost | `WorkspaceTerminal` |
| Runs, assignments, task reports (`coordination.py`) | runs, participants, assignments | start, join, assign, report, close | API, task_report | reports follow the assignment | – |
| Herdr state client, terminals, zoom leases, agent retirement (`herdr_state.py`, `pane_live.py`, `terminal.py`, `server.py`) | caches, descriptors, leases | connect, attach, acquire, release | herdr, browser | one owner, released at last | – |
| Upgrade service and worker, locks, snapshot and probe (`upgrade_service.py`, `upgrade_worker.py`, `maintenance_controller.py`, `instance_lock.py`) | worker process, lock files | start the controller, follow it, lock | controller | one controller | – |
| Event store, task board, memory, registries, providers, releases, files, settings, front-end | rows, documents, configuration | one request at a time | – | validation | – |

`PROJECT.json` lists all of them with their sources and status, and the hazards at their lines.

How they interact: the API and two pollers of the server call into the wiring, which reads the
binding store, ingests hub mail into the core and prompts leaders through herdr; the marks of a
prompt are kept in the receipts, which `mail-recv` processes of the agents claim and settle. A
workspace's requests go through sagas that change journal, work store and execution store one
after the other, with git, herdr and shells between them. No transaction spans two stores.

## 2. Hard behaviours

A test of this code exercises one call after the other. What it hardly reaches:

- **What was read is used later.** A caller of the binding store, a drain worker, each thread of
  the wiring, the watcher of the leases and the prompt marker read a row, leave the transaction
  or the lock, and act on what they read.
- **A callback outside the lock.** The delivery core calls its adapter with the lock released; a
  switch of binding, a merge, another flush or the death of the process falls in between.
- **Marks before and after an effect that cannot be undone.** A prompt cannot be taken back, so an
  attempt mark comes before it and a delivered mark after; each write may fail, each gap may be
  where the process dies.
- **Leases that lapse under their owner**, and are granted again before the owner settles.
- **An upgrade of many durable steps**, any of which may fail before or after its effect, with a
  controller that dies and a machine that restarts anywhere, and a rollback that is subject to the
  same.
- **Stores changed in turn** (claim activation, drain and retirement), with a crash in between.

## 3. Plan

Order: what the users depend on without seeing it comes first.

| Step | Modules | Composition | Status |
|---|---|---|---|
| 1 | `LeaderBinding`, `DeferredDelivery` | – | checked, proved |
| 2 | `B0Coordinator` | instantiates `DeferredDelivery`; the store as its active version | checked, proved for one binding version where a rebind breaks it |
| 3 | `ControlFanout`, `LeaderDrain` | extend `LeaderBinding` | checked, proved |
| 4 | `Receipts`, `Maintenance` | – | checked, proved |
| 5 | `OperationRows`, `OperationJournal` | the journal's rows, used by the sagas | checked, proved |
| 6 | `WorkspaceClaims` | two stores and the rows of `OperationRows` | checked, proved |
| 7 | `WorkspaceDelivery`, `WorkspaceRuntime`, `WorkspaceTerminal` | – | checked, proved |
| 8 | `TeamWork`, `ChatQueue` | `ChatScenes` bounds the latter | checked, proved |
| 9 | `DeliveryContract`, `DeliveryRefinement` | the abstract promise of the delivery core, refined by `DeferredDelivery` | checked, proved |
| 10 | runs and assignments, herdr state, zoom leases, server terminals | with a shared idea of a pane | not started |

Theorems to come: `SeenIsKept` and `PromptedOnce` for more than one binding version, in the
histories where they hold; abstract contracts, as that of the delivery core, for the operation
journal and for the hand-over of a claim between the stores.

## 4. Modules and their code

Every module that models code declares its parameters as CONSTANTS with a named assumption; an
`MC` module adds the symmetric sets TLC uses; a `Proofs` module holds the theorems. Definitions
named "Mutant of ..." are single, plausible mistakes in the definition that follows them, kept to
show that the properties notice.

### LeaderBinding — `leader_binding.py`

One (issuer, scope): every statement carries both keys. Each public function is one
`BEGIN IMMEDIATE` transaction, so one action. State: `rows` (the row of each mail name with its
version, epoch, state, migration, drain state, counters and revision), `order` (rowid order,
which decides the row `LIMIT 1` returns), `migrations`, `events` (the outbox).
`ReadActive`/`ReadPrevious` are the reads a caller or drain worker did earlier; `UpdateRoute` and
`Rebind` are the two ways through `bind_leader` (same name, other name), `MarkPrevious` is
`mark_previous_state`, `Retire` is `retire_binding`. History: the migration of the read that an
accepted drain report was based on.

### ControlFanout — `b0_wiring.py`

Extends the store with one poller's `fanout_control_events`. `SyncBindings` gives the core the
version it read, `ReadEvents` takes the oldest `FanoutLimit` events that are not fanned out, and
the steps of `FanoutStep` go through them: the attempt mark, the prompt of the batch, the
delivered mark, the mail to the participants with its transport mark, the mark in the outbox. Each
may fail, and `FanoutCrash` forgets what was only in memory (`known`, `queued`, `proof`,
`unmarked`). The mail to the participants is one message for each of their `Projects`: `Send` lets
any of them fail, or arrive although the call failed, while the others arrive; `Transport` then
writes no mark, so that the next tick sends to all again. History, for each event: how often each
project was mailed (`sent`), whether one transport reached all (`reached`), and how many
transports mailed somebody and left no mark (`lost`), which is what `SentOnce` allows. The prompt's own protocol is that of `B0Coordinator`, here one step with its outcomes
(`DeliverAccepted`, `DeliverUnmarked`, `DeliverRefused`, `DeliverStranded`).

### LeaderDrain — `b0_wiring.py`

Extends the store with the mails of the previous mailbox. `PollActive`, `PollPrevious`,
`FetchInbox`, `ReadCounters`, `CloseDrain` are the reads of `poll_once` and `_close_drain`, one
step each; `ExpectDrained` (the report) and `RetireDrained` use what those read. Between any two of
them mails arrive, receipts move and leaders are bound.

### DeferredDelivery — `deferred_delivery.py`

One scope. `core` is `_ScopeState`; `calls` the delivery each thread has in progress
(`_InFlight`). A locked section is an action (`SetActiveBinding`, `SetTargetStatus`, `Produce`
for `ingest`, `Flush`), it may begin a delivery (`CanBegin`, `_begin_deliver`), the adapter
answers (`AdapterAccepts`, `AdapterRejects`) and `Finish` is the second locked section with its
three outcomes (`_finish_deliver`). `handed` holds the events a switch of binding returned to its
caller; `GiveBack` ingests them again as the wiring does. History: acceptances per generation.

`DeliveryContract` is what the core promises its callers, with neither locks nor calls in
progress: an event that is taken is owed, until the recipient accepts it, once in a generation,
or another binding replaces this one; then it stays owed, to the new one, or is returned to the
caller, under the new version. `DeliveryRefinement` maps the core's state to it (`Owed`: what
the core holds and its generation did not accept; `Sent`, `Returned`) and states `KeepsContract`.

### B0Coordinator — `b0_wiring.py`, hooks in `server.py`

One scope and three threads: poller, live poller, API. The delivery core is an instance of
`DeferredDelivery`; the binding store is the version of its active row. `SyncRead`, `SyncSet`,
`SyncGiveBack` are `sync_bindings`; `PollRead`, `Fetch`, `IngestMessage`, `PollFlush` are
`poll_once`, each read of the store or hub a step of its own. The adapter steps, per thread, are
`_ProofAdapter.deliver`: `AdapterEnter` (recover or prompt), `AttemptOne`, `PromptAccepted` or
`PromptRefused`, `DeliveredOne`, `ClearOne`, `RecoverOne`, `Accepted`. `ApiRebind` is the API's
rebind, `LiveRead`/`LiveRebind`/`LiveStatus` the live poller. `Restart` loses everything but the
store's version, the mailbox and the marks. The hub, the leader and herdr are external.

### Receipts — `coordination.py`, `mail_recv.py`

The receipts of one recipient in one run. Each operation is one transaction and one action
(`Observe` with the superseding of older messages, `Claim`, `ClaimRejected`, `ClaimStale`,
`Checkpoint`, `Complete`, `Fail`, `Resume`, `MarkAcked`, `Dismiss`, `RequestPause`,
`CloseSession`), except where the code reads outside the transaction it writes in: the watcher of
the leases (`WatchRead`, `WatchRenew`, `WatchExpire`) and the prompt marks of the wiring
(`MarkRead`, `MarkWrite`). Time is the step `Lapse`. `checkpoint_json` is reduced to what it says
of the last step and to the marks. History: last granted token, token of the settlement.

### Maintenance — the upgrade window

State: `journal`, `archived`, `current` (the link), `selector` (the environment file),
`evidence`, the units `up` and what the cockpit unit was started with (`running`), the controller
`ctl`, and what each request was `built` from. `Execute` takes the lock and enters, `Freeze` and
`Select` are `initialize_previous`, `Archive` and `Create` the journal's, `ResumeUpgrade` is
`_entry_journal`. Each turn of the loop of `_drive` is one action (`Stopped` .. `Commit`), each
step of `_rollback` too (`BeginRollback` .. `WaitPrevious`), and `StopService`, `StartService`
are one systemctl call each. A step that may fail has a disjunct for each way, with `Mishap`
counting; after a failed switch or selection the code looks where it stands, and so does the
model. `Crash` ends the controller, `Reboot` starts the enabled units with link and selector as
they are. `Rebuilt` tells whether a request that is run again is the first run's (as in the
executor's tests) or built anew (as by the command line).

### OperationRows, OperationJournal — `operation_store.py`

`OperationRows` is the arithmetic of one operation's rows, without state: for each writer the row
it leaves (`Transitioned`, `Prepared`, `Dispatched`, ...) and what it demands of the row it finds.
`OperationJournal` puts callers around it, who read a projection (`Read`) and write later with the
revision they read: `Transition`, `PrepareAttempt`, `DispatchAttempt`, `RecordNotExecuted`,
`RecordOutcome`. `Materializable` is the store's own validator.

### WorkspaceClaims — claim activation and dispatch

One item and one attachment. Work store (`work`, `claim`, `delivered`), execution store (`prep`,
`lease`) and the journal's rows (`wakeupOp` per key, `claimOp`). A dispatch (`DispatchStep`), the
agent's claim call (`ToolStep`) and a detach (`DetachStep`) are each a sequence of transactions in
different stores, one action each, with what the call holds in `dispatch`, `tool`, `detach`;
`ServerDies` ends the calls of the server, an agent's call may end anywhere, and both may be made
again.

### WorkspaceDelivery — delivery and review

The agent's side (`AgentStep`): the gate, `begin_tool`, git, `finish_tool`, then `submit_handoff`
with its commit, publication and revocation of the lease. The server's side: `Review`, and the apply
(`ApplyRead`, `ApplyLock`, `ApplyInspect`, `ApplyPick`, `ApplyRecord`) with its recovery.
`SourceMoves` is other people's commits. A commit is a set of patches.

### WorkspaceRuntime — prepare, attach, detach

The rows of preparation, attachments and leases; per request what it holds. `Prepare`, `Attach` and
`Detach` are disjunctions of their transactions and harness calls, with every recovery branch of
the service; `RequestEnds` is a failed store, a dead thread or server; `PaneExits` and `LeaseMoves`
are external.

### WorkspaceTerminal — terminal and ticket

One ticket. A request (`Ask`) is served under the controller's lock in steps (`Serve`): dispatch,
the shell, the outcome, the ticket's compare-and-set. `StartFails` and the `mishaps` are failed
writes; `ServerCrashes` takes shells and memory with it, `ServerStops` is the orderly end,
`Reconnect`, `ShellExits` and `ObserveExit` the rest of the life of a shell.

### TeamWork — Team sessions

One binding. Hub: `inbox`, `lapsed`, `sent`. Local: `row`, `consults`, `evidence`, `session`. In
progress: the worker's tick, one request at a time of those that share the lock, the reply that is
written without it. `PollClaim`/`PollStore` are the worker, `RequestStep` the read, the reply and
the completion, `ClaimConsult`, `EndConsult`, `ExpireConsult`, `CheckAnswer`, `WriteAnswer` the
consult, `SelectTarget`, `SignIn`, `Logout` the human, `TargetDies`, `SignInExpires`,
`LeaseLapses`, `TeamCrash` what happens to them.

### ChatQueue, ChatScenes — chat, queue and harvest

Ledger: `mails`, `replies`. Poller: `notes`, `age`, the tick (`TickStep`), the file `saved`. Requests:
`Post`, `PostStep`. Board: `BoardLooks`, `BoardOpens`. External: `AgentStarts`, `AgentStops`,
`ScreenSettles`, `AgentUnclear`. A screen shows a conclusion of a turn, cut or full; the code cannot
see the turn, the properties can. `pane_send` does not raise when Herdr refuses a prompt, is too slow
or is not there, but answers with an error, and neither caller looks at the answer: `PostPrompts` and
`FlushPrompts` have both outcomes (`Prompt`, `Refuse`) and go on to the same mark. Only where it
raises (`PostRaises`, `FlushRaises`, a fault) is the message left unmarked. History: prompts that were
taken (`told`), those that were not (`refused`), those whose mark was lost (`excused`).
`MarksFollowPrompts` therefore says that what is marked was put to the pane, not that the agent has
it, and `ChatSettles` that no message waits for a quiet pane for ever, not that it was taken; that the
code's texts promise more is shown by `chat_refused`. `ChatScenes` has the scenes in which TLC
explores it.

### MC modules

`MCLeaderBinding` puts store, fanout and drain side by side, `MCMessaging` the wiring's faults, team
work and chat, `MCProgress` the delivery core, the chat and the upgrade for their liveness,
`MCWorkspace` the five workspace modules. In each of them a variable `scene` picks one of the models for a whole
behaviour; nothing is composed that the code does not compose, they only share a run.

## 5. Runs and bounds

| Run | Question | Bounds |
|---|---|---|
| `binding` | rows, versions and drains stay in step; fanout reaches everyone; a drained mailbox is empty | 3 names, 2 payloads, 1 counter up to 1, one caller, one worker who is the poller, versions ≤ 5 (≤ 4 outside the drain's scene), revisions ≤ 2; fanout: 3 events, 2 a tick, 2 projects, 2 faults, no rebind to the same name; drain: 1 mail |
| `binding_undrained` | the docstring's refusal of a rebind (violated) | versions ≤ 4, 1 payload |
| `progress` | core: zero loss, zero duplicates, the newest summary, the abstract contract, delivery at last; the chat settles; the upgrade window ends whole, and ends | core: 2 events with 2 stamps, 2 threads, 2 versions, 2 switches; chat: 1 pane, 1 message, 2 sayings, 2 turns, 1 fault; upgrade: 2 requests, 2 generations, 5 mishaps of 9 kinds |
| `b0_faults` | a crash anywhere in a delivery, failing marks and clears, prompts that time out; team replies; chat | 2 messages, 1 version, faults and restarts ≤ 2 together; team: 2 items, 2 targets, 2 answers, 2 works, 2 claims, 1 fault; chat: 2 panes, 2 messages, 2 turns, 1 fault, 1 prompt refused |
| `b0_rebind` | stale readers of the binding, and that a message is prompted in the end | 1 message, 2 versions, 4 switches, 1 failing mark or restart |
| `b0_rebind_loses` | zero loss across a rebind (violated) | 1 message, 2 versions |
| `receipts` | fencing, finality, the ack flag, release of dead claims | 1 interrupt that may be superseded, 2 agents, 2 claims (a stop: 1) |
| `receipts_unsafe` | an unsafe step stays unsafe (violated) | as `receipts` |
| `chat_refused` | who counts as notified was prompted (violated) | 1 pane, 1 message, no faults |
| `maintenance_cli` | it ends when the command line is run again (violated) | 1 crash |
| `workspace` | the journal, the claims, delivery, runtime and terminal | 3 steps, 1 failure code, 2 callers; 2 dispatches with 2 wakeups, a detach up to revision 3; 2 patches, 2 identities, 2 applies, lease revisions ≤ 3, 2 commits; 2 requests up to revision 7; 3 terminal requests, 3 shells, ticket revisions ≤ 3, 2 mishaps |
| `delivery_failed` | a failed item is not applied (violated) | 1 patch, 1 apply, 1 commit |

Why the bounds are enough to see something:

- One caller in `binding`: a caller only enters through the compare-and-set on the version it
  read, so a second caller that lost is a caller with an old read, which the single caller has as
  often as it reads early. Four versions allow a name to lead, be replaced, lead again and be
  replaced again, so that its old drain reports meet a new round; the drain's scene needs the
  fifth for a mail that reaches the name in its second term.
- Three events of which a tick takes two: one waits for the next tick, behind a mark that failed.
  Faults of the fanout are drawn while fewer than three events exist.
- Two projects: a transport can reach one and fail at the other, and the repeated one fail at the
  first; two faults are two such transports, or one and the lost mark of the next.
- A prompt that Herdr does not take ends the message's way, so one of them shows what becomes of it
  and of the messages behind it; in the scene "answers" of `progress` none is drawn.
- Two threads and two switches in `progress` put a switch into an adapter call and a second one
  before the first call is settled; two stamps tell an older summary from a newer one.
- Two messages in the fault runs are a batch of which one is marked and the other is not; two
  mishaps are a fault while recovering from a fault.
- Two works of Team are a lease that lapses and the item claimed again under a new key; two targets
  are one that was deselected and its successor.
- Two turns of a pane are a reply read late, under the next turn; two messages wait for one pane, or
  one message for two panes.
- Two claims in `receipts` are a lease that lapses and its successor.
- Five mishaps of the upgrade in `progress`: the upgrade fails, its rollback fails, the record of that fails,
  the controller dies in the retry, and the machine restarts. The second request meets the
  archive and the evidence of the first.
- `workspace`: two callers, one with an old revision; two dispatches and a claim between them; two
  applies, one that recovers what the other left; two requests on one runtime, at each other's
  crash; a restart of a shell whose first outcome was not written, and one more mishap in it.

The deadlock check is off where the system may stop or the bounds are used up: `binding`,
`progress`, `b0_faults`, `chat_refused`, `maintenance_cli`, `workspace`, `delivery_failed`. Symmetry
(names and callers, messages and targets, dispatch keys) is used in runs without liveness only.

## 6. Fairness

- `DeferredDelivery`: weak fairness of the flush (`poll_once` flushes every scope periodically),
  of the second locked section and of the adapter's return (the delivering thread runs on);
  strong fairness of an acceptance: a prompt that is tried without end is accepted at some time.
- `B0Coordinator`: the same, for the poller's steps, the API thread once it has rebound, and each
  thread inside a delivery; strong fairness of the poller's flush, which waits for other threads'
  deliveries. Nothing is assumed of the live poller, of new mail, of crashes or of the leader.
- `Receipts`: the live poller calls the watcher in every round, and time passes. Nothing is
  assumed of the agents.
- `ChatQueue` (in `progress`): the poller ticks, a request goes on, the board is opened again, time
  passes. Nothing is assumed of Herdr, which need not take any prompt, and nothing of the agents:
  `ChatSettles` is about panes that stay idle.
- `Maintenance` (in `progress`): a controller that runs goes on, and an unfinished request is run again, by
  whoever asked for the upgrade; the code does not do that by itself. Mishaps are finite in
  number, not in place. `EventuallySettled` is thus what `execute_maintenance` promises to a
  caller that repeats the first run's request, which is how the executor's tests resume it
  (`Rebuilt = FALSE`); `maintenance_cli` shows what the command line makes of it.

## 7. Proofs

All theorems are for every value of the constants that satisfies the module's assumptions. Those
assumptions are the bounds' being numbers, the constants' being told apart (`NoThread` is no
thread, `NoText` no digest of a text, `Nobody` no item, target, answer or work), and in
`OperationJournal` that no caller reports a failure code the journal reserves for itself. Every
invariant and every action property of the passing runs has a theorem; liveness has none.

- **LeaderBindingProofs** holds the proofs of three modules, because what the fanout and the drain
  promise rests on the store. `IInv` adds to the checked invariants that no row is ahead of the
  leader (`NoNewerRow`: a compare-and-set on the active version therefore meets the latest) and
  that the active row carries an existing migration and no drain of its own (`ActiveIsFresh`).
  `BindingSafe`, `DrainIsSafe`, `DrainMonotone`. The fanout's invariant ties each mark to the act it
  stands for, where the poller is included: a transport mark, or the place of the poller after a
  transport, to one that reached every project, and the mails of each project to the transports
  that left no mark (`FanoutIsSafe`; `SendWrites` says what a transport adds). The drain's, `DrainInv`, is `IInv`
  with what the poller knows of the mailbox it is at (`PollKnows`): a mail that was due when the
  mailbox was replaced was seen by the fetch or was taken, because later rounds only start at later
  versions (`RoundsGrow`). `NothingIsLost` follows.
- **PromptingProofs** holds the delivery core and the chat. `DeliveryInv` joins the checked
  invariants with what a call in progress knows: its generation is past or the current one, its
  events are not in the ledger of its generation (`CallsBegun`, `CallsCounted`), nothing is
  accepted in a generation to come (`FutureUntouched`). `OneFlight` is what makes the second
  locked section the only writer of the ledger. `CoreIsSafe`, `LedgerCorrect`; `NothingDropped`
  for the action property; `NewestStays`, because what waits after a step is what waited, is
  not older, or is of an event that did not wait (`SameOrNew`).
  `CoreKeepsContract` is the refinement: an ingest takes, a switch switches, an acceptance
  accepts, a return gives back, and everything else is a stutter. The step that needs the
  invariant most is the second locked section of a call: what it takes out of the core was
  accepted in the present generation, and what it was told about an older one it puts back.
  The chat's `ChatInv` says where the tick and the requests are (`ChatTypes`, `NotesFit`), of each
  pane and message whether it is marked, about to be marked (`Unmarked`) or excused, and that what
  is marked was put to the pane and taken or refused (`Tried`; `MarksInv`),
  and what is stored (`RepliesInv`): the notes of a pane that no crash left behind know the last
  row stored, and that none was stored since an open turn began. Rows therefore come in the order
  of their turns, and a second row of a turn can only be the whole text after the cut one; only a
  pane that a crash left behind has others. `ChatIsSafe`.
- **MessagingProofs** is about `B0Coordinator`, which instantiates the core; as facts of an instance
  cannot be cited, the module restates what it needs of the core's sections (what waits, what a
  call holds, what was handed back) as lemmas over the instance `D`. `BaseInv` is types and places;
  `TruthInv` says where a thread is between prompt and mark, and gives `MarksCorrect` for any
  faults, rebinds and crashes; `StartedInv` says that a message marked when the process started is
  marked for ever and not in the core, and gives `NoReprompt`. `LedgerInv` (what the core's ledger
  and an accepted call hold was prompted) and `OneInv` (one version, seen messages are somewhere)
  give `NothingSeenIsLost`; with `FaultFree` they give `OnePrompt`. These two are stated as `db = 1
  => ...`: while the scope keeps its first binding. With a rebind `SeenIsKept` is false
  (`b0_rebind_loses`) and `PromptedOnce` is not claimed (section 9).
  The module also holds Team work. In `TeamInv` the lock keeps the worker and a replying request
  apart (`LockOK`), works are numbered and only the last of an item is not thrown away (`WorksOK`),
  a work is at hand until its item is done or it is thrown away (`OpenOK`), and the row freezes a
  text that comes from the source its route names (`RowOK`). `RepliesAreSafe`,
  `ConsultsAreSafe`.
- **ReceiptsProofs.** `RowsOK` ties the state and token of a row to the last claim and to the
  settlement. `ReceiptsAreSafe`, and `ProcessedStays` for the action property.
- **MaintenanceProofs.** `MaintInv` says where the controller can be for a given journal (`CtlOK`),
  what an open journal's stage and intent imply for evidence, selector and units (`JournalOK`), and
  that whatever runs or may be gone back to was probed (`AllProbed`). The key step is a request
  that is built anew while its journal is open: the link can then only be the previous generation,
  because the target is refused. `WindowIsSafe`, `JournalExplains` and, from the steps alone,
  `PreparedIsCold`.
- **OperationJournalProofs.** The invariant is said of one cell of the projection, a step with its
  attempts (`CellOK`), and of the header; each writer changes one cell. That the rows stay readable
  by the store's validator (`AlwaysMaterializable`) needs the assumption on failure codes.
  `JournalIsSafe`, `RecordsAreFinal`.
- **WorkspaceClaimsProofs** holds claims and delivery. `ClaimsInv` ties each call to what the stores
  say at its place: the row of a dispatch's operation to its wakeup and verdict (`WakeupOK`), the
  row of the activation to lease and claim. `ClaimIsSafe`, `DispatchToldTrue`,
  `DetachedNobodyWorks`. The delivery's `DeliveryInv`: one request works on the source at a time
  (`OneAtWork`), it is about to pick only where nothing was picked (`PickIsFirst`), what it will
  record is so. `ApplyIsSafe`, `CompletedIsTrue`, `EndStays`.
- **WorkspaceRuntimeProofs** holds runtime and terminal. `RuntimeInv` says which attachment and lease
  of the sequence may be usable, and that a request in progress with an old revision can no longer
  write (`RuntimeIsSafe`); `GoneInv` adds what a close that was recorded says of the pane
  (`DetachedHasNoPane`). The terminal's `TicketInv` goes through the places of a request
  (`CallOK`, `SpawnOK`) and counts mishaps (`LostOK`): one mishap at most leaves every shell
  accounted for. `TerminalIsSafe`.

Only model-checked:

- all liveness (`EventuallyDelivered`, `ChatSettles`, `CatchesUp`, `EventuallyPrompted`,
  `ClaimReleased`, `EventuallySettled`), which is out of the prover's reach;
- `SeenIsKept` and `PromptedOnce` of the coordinator with more than one binding version: the run
  `b0_rebind` and its counterexample `b0_rebind_loses` tell what becomes of them.

## 8. Where code and text disagree

Each has a run whose counterexample shows it, and an entry under `findings`.

- `binding_undrained`: `bind_leader`'s docstring forbids a rebind while a previous mailbox is not
  drained; the code looks at one previous row only, and one that is drained but not yet retired
  hides a later one.
- `b0_rebind_loses`: a message is remembered as seen before the core takes it; under a version the
  core does not hold it is dropped as stale, and waits for a restart.
- `receipts_unsafe`: a pause request or a prompt mark replaces the checkpoint by which an agent
  called a step unsafe, and the task can be resumed.
- `chat_refused`: a message counts as having woken its recipient, and is not tried again, although
  Herdr did not take the prompt; the answer of `pane_send` is dropped.
- `maintenance_cli`: the command line builds its request from the link, so that an upgrade that was
  interrupted past the switch is refused as already current and never settled.
- `delivery_failed`: an apply after a recorded failure commits the packet to the source and leaves
  the item failed; the architecture note promises that a failure aborts and is not retried blindly.

## 9. Known limits of the modelled code

Seen while modelling, without a run of their own.

Leader mail:

- A delivery resolves its target when it prompts. If the binding changed since it began, the new
  leader gets the old generation's prompt, and its own later: `PromptedOnce` is for one version.
- If a delivered mark fails and a new event joins the batch, the accepted ones are prompted again:
  `PromptedOnce` is for histories without failing marks. After a restart an attempt mark counts as
  delivered: a message whose prompt was never made waits until the leader reads its mailbox. The
  wiring documents this as the price of not prompting twice.
- Control events of older versions are stale to the core for ever and never fanned out; a hundred of
  them block the rest (`tests/test_b0_wiring_r2.py:129` has them replayed). A failing attempt write
  in a batch, or a failing clear after a refusal, leaves attempt marks of events that were never
  prompted, later taken for prompted. A transport that fails in part sends to all again in every tick
  until one reaches all: the projects that work get as many mails as there were failures (this is
  modelled, and is what `SentOnce` leaves room for).
- A mail that comes after the drain's fetch, or a rebind there, stays unread in a retired mailbox. A
  row that was drained but not retired stays so for ever and hides later previous rows. Receipts
  that are stale, failed or dismissed while notified block a drain for ever.
- `Fail` and `Resume` set a participant that was stopped back to working (`coordination.py:1394`).

Team and chat:

- A request that read the session before the human chose another target may still put the question
  to the deselected one, and its answer is used. Evidence may say that a local lead answered, and
  not consulted, when the consult was withdrawn after the reply was sent. A frozen local-lead reply
  whose consult ended before completion cannot be sent again.
- A completion that succeeded at the hub but whose answer was lost leaves the local item: after the
  lease the worker claims another and fails every tick. A logout between send and completion lets
  the hub give the item out again, and a second reply follows.
- A chat message whose request stands between append and mark, or whose mark fails, is prompted
  twice; a ledger that refuses the mark lets the pane have two prompts in a tick
  (`server.py:9088` says one per pane). A waiting message is prompted after 2 s of rest, a reply
  read after 3 s (`server.py:7219`): the reply is lost. A turn shorter than the poll interval is
  not seen. Two turns with the same conclusion are stored once; a cut one may be stored again
  whole. A crash between the ledger and the notes stores a reply again. A prompt that times out may
  have been taken or not; it is marked either way (`chat_refused`). Urgent messages whose prompt
  raises are not tried again.

Maintenance: after a rollback the selector names evidence of role "previous", which the next
request's freeze refuses; a further upgrade needs the selector restored. In the model that request
gives up in `Freeze`.

Workspace:

- Journal: a prepared attempt of a caller that died blocks every transition; an operation with a
  step that never ran cannot be compensated; a failure code equal to a reserved one makes the row
  unreadable.
- Claims: a verdict recorded after the agent reserved its claim moves the item's revision, and the
  activation is refused for ever with the lease active. A crash before the activation's dispatch, or
  a dispatch tried again while the claim works, leaves the operation open for ever. A detach that
  begins while a claim is reserved closes the pane and is then refused.
- Delivery: a crash between `begin_tool` and `finish_tool` leaves the lease busy for ever, a timed
  out patch leaves it uncertain; a crash after the commit and before publication is refused as
  `checkout_changed`. A crash after publication leaves the lease active. Commits of others between
  inspection and pick, and an apply tried after "failed", are not noticed.
- Runtime: a crash after a pane was made orphans it; an attach that failed for an unknown reason may
  go back to connected without a pane; a second attach may forget the pane the first recorded
  (`tests/test_workspace_execution_service.py:1016` covers the case without a crash only); a
  detach phase that survives an attach skips closing the new pane, which is why `DetachedIsGone`
  speaks of attachments with one pane.
- Terminal: two mishaps orphan a shell, one leaves a shell no request can stop before a restart;
  after a crash of the server a ticket recorded as running can neither be restarted nor closed.

## 10. What is not modelled

- In the modelled components: schema migrations of old databases, listings and diagnostics,
  formats, hashes and permissions of files, selectors and metadata of messages, idempotent
  replays that return a stored answer, the recycling of private sessions, streams of terminals.
  The reply modes, progress reports and handoff of Team sessions. Panes that come and go, names
  and the window of rows in the chat. A user's deletion of mails at the hub.
- In `Maintenance` only the controller changes link, journal, selector and evidence (it holds the
  lock), so the reads by which it confirms its own writes cannot fail; drift by somebody else is
  not explored. Snapshot and probe are one step.
- `herdr_client.py`: command lines, launch descriptors and parsing for a program that is not in this
  repository. `herdr_state.py`, terminals, zoom leases and agent retirement: caches and leases
  in the server's memory, mostly I/O.
- The rest of `coordination.py` (runs, participants, assignments, reports), `tasks.py`,
  `persist_work.py`, `event_store.py` and `delivery_outbox.py` (both dormant), memory, registries,
  providers, `store_schema.py`, snapshot and probe, the retired upgrade engine: rows changed in one
  transaction each, migrations, or pure functions.
- Front-end, release download, file and settings endpoints, discovery: I/O, validation and
  heuristics with no protocol between actors.
