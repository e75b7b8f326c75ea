----------------------------- MODULE LeaderBinding -----------------------------
(***************************************************************************)
(* The Leader Mail binding store (agent_cockpit/leader_binding.py), for    *)
(* one (issuer, scope): every statement of the store carries both keys, so *)
(* scopes do not interact.                                                 *)
(*                                                                         *)
(* Each public function is one BEGIN IMMEDIATE transaction, hence one      *)
(* action.  What makes the store hard is what happens between the calls:   *)
(* a caller reads the active version, a drain worker reads a previous row, *)
(* and both act later on what they read, guarded only by compare-and-set.  *)
(***************************************************************************)
EXTENDS Naturals, Sequences, FiniteSets

CONSTANTS
    Names,          \* mail names that can lead the scope
    Payloads,       \* normalised runtime payloads (agent, session, pane, selector)
    Counters,       \* the drain counters: remaining, pending, claimed, ack_pending
    Callers,        \* threads that rebind (API, live poller, sync)
    Workers,        \* threads that close a drain
    NoName,         \* SQL NULL in a name column
    MaxVersion,     \* bound: binding versions explored
    MaxRevision,    \* bound: drain revisions of one round explored
    MaxCount        \* bound: value of a drain counter

ASSUME BindingAssumption ==
    /\ NoName \notin Names
    /\ Payloads # {}
    /\ MaxVersion \in Nat /\ MaxRevision \in Nat /\ MaxCount \in Nat

VARIABLES
    rows,           \* leader_bindings: the row of each mail name
    order,          \* mail names in insertion (rowid) order
    migrations,     \* binding_migrations, in creation order; the id is the index
    events,         \* control_events; seq is the index
    seen,           \* per caller: the active version it read
    ctx,            \* per worker: the row it read
    evidence        \* history: migration of the read an accepted drain call used

vars == <<rows, order, migrations, events, seen, ctx, evidence>>

-----------------------------------------------------------------------------
PreviousStates == {"pending", "draining", "drained", "degraded"}
RowStates == {"absent", "active", "previous", "retired"}

\* Mutant of DrainForward: a drained mailbox may go back to draining.
ReopeningDrainForward ==
    [ pending  |-> {"pending", "draining", "drained"},
      draining |-> {"draining", "drained", "degraded"},
      degraded |-> {"degraded", "draining"},
      drained  |-> {"draining", "drained"} ]

\* _DRAIN_FORWARD: the drain states each drain state may move to.
DrainForward ==
    [ pending  |-> {"pending", "draining", "drained"},
      draining |-> {"draining", "drained", "degraded"},
      degraded |-> {"degraded", "draining"},
      drained  |-> {"drained"} ]

ZeroCounts == [c \in Counters |-> 0]

\* A row of leader_bindings; "absent" stands for no row, "null" for SQL NULL.
NoRow == [ state |-> "absent", prevName |-> NoName, prevState |-> "null",
           payload |-> CHOOSE p \in Payloads : TRUE, version |-> 0, epoch |-> 0,
           migration |-> 0, revision |-> 0, counts |-> ZeroCounts ]

Rows == [ state : RowStates, prevName : Names \cup {NoName},
          prevState : PreviousStates \cup {"null"}, payload : Payloads,
          version : Nat, epoch : Nat, migration : Nat, revision : Nat,
          counts : [Counters -> Nat] ]

Events == [ type : {"binding_changed", "binding_updated",
                    "drain_state_changed", "binding_retired"},
            name : Names, version : Nat, migration : Nat ]

ActiveNames == {n \in Names : rows[n].state = "active"}
PreviousNames == {n \in Names : rows[n].state = "previous"}

\* The active version a compare-and-set compares with: 0 when nothing is active.
ActiveVersion ==
    IF ActiveNames = {} THEN 0 ELSE rows[CHOOSE n \in ActiveNames : TRUE].version

\* SELECT ... WHERE state='previous' then fetchone(): the scope index yields the
\* matching rows in rowid order, so the oldest inserted previous row answers.
FirstPrevious ==
    LET hits == {i \in DOMAIN order : rows[order[i]].state = "previous"}
    IN  order[CHOOSE i \in hits : \A j \in hits : i <= j]

\* previous_state or 'pending'
DrainState(row) == IF row.prevState = "null" THEN "pending" ELSE row.prevState

\* Mutant of DrainCAS: the drain state and revision only, not the round.
RoundlessDrainCAS(row, expected) ==
    /\ DrainState(row) = DrainState(expected)
    /\ row.revision = expected.revision

\* The compare-and-set of mark_previous_state and retire_binding.
DrainCAS(row, expected) ==
    /\ row.version = expected.version
    /\ row.migration = expected.migration
    /\ DrainState(row) = DrainState(expected)
    /\ row.revision = expected.revision

Event(type, n, version, migration) ==
    [type |-> type, name |-> n, version |-> version, migration |-> migration]

-----------------------------------------------------------------------------
Init ==
    /\ rows = [n \in Names |-> NoRow]
    /\ order = << >>
    /\ migrations = << >>
    /\ events = << >>
    /\ seen = [c \in Callers |-> 0]
    /\ ctx = [w \in Workers |-> NoRow]
    /\ evidence = [n \in Names |-> 0]

\* get_active_binding: the caller keeps the version as its expected_version.
ReadActive(c) ==
    /\ seen' = [seen EXCEPT ![c] = ActiveVersion]
    /\ UNCHANGED <<rows, order, migrations, events, ctx, evidence>>

\* get_binding / list_bindings(state='previous'): the worker keeps the row.
ReadPrevious(w, n) ==
    /\ n \in PreviousNames
    /\ ctx' = [ctx EXCEPT ![w] = rows[n]]
    /\ UNCHANGED <<rows, order, migrations, events, seen, evidence>>

\* Mutant of UpdateRoute: the version moves and nobody is told.
SilentUpdateRoute(c, n, p) ==
    /\ ActiveVersion = seen[c]
    /\ n \in ActiveNames
    /\ rows[n].payload # p
    /\ rows[n].version < MaxVersion
    /\ rows' = [rows EXCEPT ![n].payload = p, ![n].version = @ + 1, ![n].epoch = @ + 1]
    /\ UNCHANGED <<order, migrations, events, seen, ctx, evidence>>

\* bind_leader on the active mail name with another payload: a route update.
\* The same payload is a no-op, a stale version changes nothing.
UpdateRoute(c, n, p) ==
    /\ ActiveVersion = seen[c]
    /\ n \in ActiveNames
    /\ rows[n].payload # p
    /\ rows[n].version < MaxVersion
    /\ rows' = [rows EXCEPT ![n].payload = p, ![n].version = @ + 1, ![n].epoch = @ + 1]
    /\ events' = Append(events, Event("binding_updated", n, rows[n].version + 1, 0))
    /\ UNCHANGED <<order, migrations, seen, ctx, evidence>>

\* "no undrained previous": what bind_leader checks before it rebinds.
RebindAllowed ==
    PreviousNames # {} => rows[FirstPrevious].prevState \in {"drained", "null"}

\* Mutant of Demoted: the row keeps its old migration.
KeepingMigration(row, m) == [row EXCEPT !.state = "previous", !.prevState = "draining"]

\* The old active row becomes previous and joins the new migration.
Demoted(row, m) ==
    [row EXCEPT !.state = "previous", !.migration = m,
                !.prevState = IF @ = "null" THEN "draining" ELSE @]

\* The new active row: inserted, or revived in place with its drain reset.
Activated(p, old, version, epoch, m) ==
    [ state |-> "active", prevName |-> old, prevState |-> "null", payload |-> p,
      version |-> version, epoch |-> epoch, migration |-> m, revision |-> 0,
      counts |-> ZeroCounts ]

\* bind_leader to another mail name (or the first binding of the scope).
Rebind(c, n, p) ==
    LET m == Len(migrations) + 1
        old == IF ActiveNames = {} THEN NoName ELSE CHOOSE a \in ActiveNames : TRUE
        version == ActiveVersion + 1
        epoch == IF old = NoName THEN 1 ELSE rows[old].epoch + 1
    IN  /\ ActiveVersion = seen[c]
        /\ n \notin ActiveNames
        /\ RebindAllowed
        /\ version <= MaxVersion
        /\ rows' = [x \in Names |->
                       IF x = n THEN Activated(p, old, version, epoch, m)
                       ELSE IF x = old THEN Demoted(rows[x], m) ELSE rows[x]]
        /\ order' = IF rows[n].state = "absent" THEN Append(order, n) ELSE order
        /\ migrations' = Append(migrations, [from |-> old, to |-> n, epoch |-> epoch])
        /\ events' = Append(events, Event("binding_changed", n, version, m))
        /\ evidence' = [evidence EXCEPT ![n] = 0]
        /\ UNCHANGED <<seen, ctx>>

\* mark_previous_state: drain progress of a previous row, from what w read.
MarkPrevious(w, n, state, supplied) ==
    /\ rows[n].state = "previous"
    /\ DrainCAS(rows[n], ctx[w])
    /\ state \in DrainForward[DrainState(rows[n])]
    /\ rows[n].revision < MaxRevision
    /\ rows' = [rows EXCEPT ![n].prevState = state, ![n].revision = @ + 1,
                   ![n].counts = [c \in Counters |->
                       IF c \in DOMAIN supplied THEN supplied[c] ELSE @[c]]]
    /\ events' = Append(events, Event("drain_state_changed", n,
                                      rows[n].version, rows[n].migration))
    /\ evidence' = [evidence EXCEPT ![n] = ctx[w].migration]
    /\ UNCHANGED <<order, migrations, seen, ctx>>

\* retire_binding: the proof of an empty drain is read from the row itself.
Retire(w, n) ==
    /\ rows[n].state = "previous"
    /\ DrainState(rows[n]) = "drained"
    /\ rows[n].counts = ZeroCounts
    /\ DrainCAS(rows[n], ctx[w])
    /\ rows' = [rows EXCEPT ![n].state = "retired", ![n].prevState = "drained"]
    /\ events' = Append(events, Event("binding_retired", n,
                                      rows[n].version, rows[n].migration))
    /\ evidence' = [evidence EXCEPT ![n] = ctx[w].migration]
    /\ UNCHANGED <<order, migrations, seen, ctx>>

\* The counters a drain call may supply: any subset of them.
Supplied == UNION {[D -> 0..MaxCount] : D \in SUBSET Counters}

Next ==
    \/ \E c \in Callers : ReadActive(c)
    \/ \E w \in Workers, n \in Names : ReadPrevious(w, n)
    \/ \E c \in Callers, n \in Names, p \in Payloads : UpdateRoute(c, n, p)
    \/ \E c \in Callers, n \in Names, p \in Payloads : Rebind(c, n, p)
    \/ \E w \in Workers, n \in Names, s \in PreviousStates, k \in Supplied :
          MarkPrevious(w, n, s, k)
    \/ \E w \in Workers, n \in Names : Retire(w, n)

Spec == Init /\ [][Next]_vars

-----------------------------------------------------------------------------
\* Types, and the table's CHECK (binding_version > 0) for the rows that exist.
TypeOK ==
    /\ rows \in [Names -> Rows]
    /\ \A n \in Names : rows[n].state # "absent" => rows[n].version > 0
    /\ order \in Seq(Names)
    /\ migrations \in Seq([from : Names \cup {NoName}, to : Names, epoch : Nat])
    /\ events \in Seq(Events)
    /\ seen \in [Callers -> Nat]
    /\ ctx \in [Workers -> Rows]
    /\ evidence \in [Names -> Nat]

\* A scope never has two leaders, whatever callers race with whatever versions.
OneActive == \A a, b \in ActiveNames : a = b

\* The events by which consumers follow the binding version.
IsBindingEvent(e) == e.type \in {"binding_changed", "binding_updated"}
BindingEvents == {i \in DOMAIN events : IsBindingEvent(events[i])}

\* Every version of the scope is announced once, in seq order, and none is skipped
\* or announced early: the outbox row is written in the transaction that moves the
\* version, and the route epoch moves in step with it.
VersionsAnnounced ==
    /\ \A v \in 1..ActiveVersion : \E i \in BindingEvents : events[i].version = v
    /\ \A i \in BindingEvents : events[i].version \in 1..ActiveVersion
    /\ \A i, j \in BindingEvents : i < j => events[i].version < events[j].version
    /\ \A n \in ActiveNames : rows[n].epoch = rows[n].version

\* The active row and the row it replaced carry the migration that swapped them,
\* for as long as the former is active: no drain worker can meet a previous row
\* that still shows the migration by which it was once activated.
SwappedTogether ==
    \A n \in ActiveNames : LET old == rows[n].prevName IN
        old # NoName => /\ rows[old].state \in {"previous", "retired"}
                        /\ rows[old].migration = rows[n].migration
                        /\ migrations[rows[n].migration].from = old

\* What is recorded about a drain was learnt in the round it is recorded for: a
\* worker that read the row before an a -> b -> a -> b sequence changes nothing.
DrainEvidenceIsCurrent ==
    \A n \in Names : rows[n].state \in {"previous", "retired"} /\ rows[n].revision > 0
                        => evidence[n] = rows[n].migration

\* A retired mailbox was drained to the last counter, and an undrained one was not
\* retired behind the back of the worker that reopened its counters.
RetiredIsEmpty ==
    \A n \in Names : rows[n].state = "retired" =>
        rows[n].prevState = "drained" /\ rows[n].counts = ZeroCounts

\* What a rebind leaves behind, and what is known of a drain.
RebindSafe == TypeOK /\ OneActive /\ VersionsAnnounced /\ SwappedTogether
DrainSafe == DrainEvidenceIsCurrent /\ RetiredIsEmpty

\* A drain never moves backwards within its round, and only a rebind that makes
\* the mailbox leader again takes it out of "previous" other than by retirement.
DrainIsMonotone ==
    [][\A n \in Names : rows[n].state = "previous" =>
          \/ rows'[n].state = "active" /\ rows'[n].version > rows[n].version
          \/ /\ rows'[n].migration = rows[n].migration
             /\ rows'[n].revision >= rows[n].revision
             /\ rows[n].prevState = "drained" => rows'[n].prevState = "drained"
             /\ rows'[n].state = "retired" => rows[n].prevState = "drained"
      ]_vars

\* bind_leader's docstring: while the scope has a previous mailbox that is not
\* drained, another mail name cannot become its leader.
RebindOnlyWhenDrained ==
    [][ActiveNames' # ActiveNames =>
          \A n \in PreviousNames : rows[n].prevState = "drained"]_vars
=============================================================================
