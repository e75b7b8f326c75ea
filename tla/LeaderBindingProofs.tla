-------------------------- MODULE LeaderBindingProofs --------------------------
(***************************************************************************)
(* What the binding store promises for every set of mail names, callers    *)
(* and workers and every bound, and what follows from it for its two       *)
(* users: the fanout of its events, and the drain of a previous leader.    *)
(***************************************************************************)
EXTENDS ControlFanout, LeaderDrain, TLAPS

\* The rows have the types of the schema in every reachable state.
LEMMA TypeInit == Init => TypeOK
  <1> SUFFICES ASSUME Init PROVE TypeOK OBVIOUS
  <1> USE DEF Init
  <1>1. NoRow \in Rows
    BY BindingAssumption DEF NoRow, Rows, RowStates, PreviousStates, ZeroCounts
  <1>2. \A n \in Names : rows[n].state = "absent"  BY DEF NoRow
  <1>. QED  BY <1>1, <1>2 DEF TypeOK

\* The drain states reachable from a drain state are drain states.
LEMMA DrainForwardType ==
  ASSUME NEW s \in PreviousStates PROVE DrainForward[s] \subseteq PreviousStates
  BY DEF PreviousStates, DrainForward

\* Marking and retiring keep a row a row.
LEMMA RowUpdates ==
  ASSUME NEW r \in Rows, NEW m \in Nat
  PROVE  /\ Demoted(r, m) \in Rows
         /\ [r EXCEPT !.state = "retired", !.prevState = "drained"] \in Rows
         /\ \A p \in Payloads : [r EXCEPT !.payload = p, !.version = @ + 1,
                                          !.epoch = @ + 1] \in Rows
         /\ \A s \in PreviousStates, k \in [Counters -> Nat] :
               [r EXCEPT !.prevState = s, !.revision = @ + 1, !.counts = k] \in Rows
  <1> USE DEF Rows, RowStates, PreviousStates
  <1>0. ASSUME NEW q \in Rows
        PROVE  /\ \A v \in RowStates : [q EXCEPT !.state = v] \in Rows
               /\ \A v \in Nat : [q EXCEPT !.migration = v] \in Rows
               /\ \A v \in Nat : [q EXCEPT !.version = v] \in Rows
               /\ \A v \in Nat : [q EXCEPT !.epoch = v] \in Rows
               /\ \A v \in Nat : [q EXCEPT !.revision = v] \in Rows
               /\ \A v \in Payloads : [q EXCEPT !.payload = v] \in Rows
               /\ \A v \in PreviousStates : [q EXCEPT !.prevState = v] \in Rows
               /\ \A v \in [Counters -> Nat] : [q EXCEPT !.counts = v] \in Rows
    OBVIOUS
  <1>1. Demoted(r, m) \in Rows
    <2> DEFINE d == IF r.prevState = "null" THEN "draining" ELSE r.prevState
    <2>1. d \in PreviousStates  OBVIOUS
    <2>2. Demoted(r, m) = [[[r EXCEPT !.state = "previous"] EXCEPT !.migration = m]
                              EXCEPT !.prevState = d]
      BY DEF Demoted
    <2>3. "previous" \in RowStates  OBVIOUS
    <2> HIDE DEF d, Rows, RowStates, PreviousStates
    <2>4. [r EXCEPT !.state = "previous"] \in Rows  BY <1>0, <2>3
    <2>5. [[r EXCEPT !.state = "previous"] EXCEPT !.migration = m] \in Rows  BY <1>0, <2>4
    <2>. QED  BY <1>0, <2>1, <2>2, <2>5
  <1>2. [r EXCEPT !.state = "retired", !.prevState = "drained"] \in Rows
    <2>1. "retired" \in RowStates /\ "drained" \in PreviousStates  OBVIOUS
    <2> HIDE DEF Rows, RowStates, PreviousStates
    <2>2. [r EXCEPT !.state = "retired"] \in Rows  BY <1>0, <2>1
    <2>. QED  BY <1>0, <2>1, <2>2
  <1>3. ASSUME NEW p \in Payloads
        PROVE  [r EXCEPT !.payload = p, !.version = @ + 1, !.epoch = @ + 1] \in Rows
    <2>1. r.version + 1 \in Nat /\ r.epoch + 1 \in Nat  OBVIOUS
    <2> HIDE DEF Rows
    <2>2. [r EXCEPT !.payload = p] \in Rows  BY <1>0
    <2>. QED  BY <1>0, <2>1, <2>2
  <1>4. ASSUME NEW s \in PreviousStates, NEW k \in [Counters -> Nat]
        PROVE  [r EXCEPT !.prevState = s, !.revision = @ + 1, !.counts = k] \in Rows
    <2>1. r.revision + 1 \in Nat  OBVIOUS
    <2> HIDE DEF Rows
    <2>2. [r EXCEPT !.prevState = s] \in Rows  BY <1>0
    <2>. QED  BY <1>0, <2>1, <2>2
  <1>. QED  BY <1>1, <1>2, <1>3, <1>4

LEMMA TypeStep == TypeOK /\ [Next]_vars => TypeOK'
  <1> SUFFICES ASSUME TypeOK, [Next]_vars PROVE TypeOK'  OBVIOUS
  <1> USE BindingAssumption DEF TypeOK
  <1>0. ActiveVersion \in Nat
    <2>1. CASE ActiveNames = {}  BY <2>1 DEF ActiveVersion
    <2>2. CASE ActiveNames # {}
      <3>1. (CHOOSE n \in ActiveNames : TRUE) \in Names  BY <2>2 DEF ActiveNames
      <3>. QED  BY <3>1, <2>2 DEF ActiveVersion, Rows
    <2>. QED  BY <2>1, <2>2
  <1>1. ASSUME NEW c \in Callers, ReadActive(c) PROVE TypeOK'
    BY <1>0, <1>1 DEF ReadActive
  <1>2. ASSUME NEW w \in Workers, NEW n \in Names, ReadPrevious(w, n) PROVE TypeOK'
    BY <1>2 DEF ReadPrevious
  <1>3. ASSUME NEW c \in Callers, NEW n \in Names, NEW p \in Payloads, UpdateRoute(c, n, p)
        PROVE  TypeOK'
    <2>1. rows' \in [Names -> Rows]  BY <1>3, RowUpdates DEF UpdateRoute
    <2>2. Event("binding_updated", n, rows[n].version + 1, 0) \in Events
      BY DEF Event, Events, Rows
    <2>3. \A x \in Names : rows'[x].state # "absent" => rows'[x].version > 0
      <3>1. \A x \in Names \ {n} : rows'[x] = rows[x]  BY <1>3 DEF UpdateRoute
      <3>2. rows'[n].version = rows[n].version + 1  BY <1>3 DEF UpdateRoute, Rows
      <3>3. rows[n].version \in Nat  BY DEF Rows
      <3>4. rows'[n].version > 0  BY <3>2, <3>3
      <3> TAKE x \in Names
      <3>5. x # n => rows'[x] = rows[x]  BY <3>1
      <3>. QED  BY <3>4, <3>5
    <2>. QED  BY <1>3, <2>1, <2>2, <2>3 DEF UpdateRoute
  <1>4. ASSUME NEW c \in Callers, NEW n \in Names, NEW p \in Payloads, Rebind(c, n, p)
        PROVE  TypeOK'
    <2> DEFINE m == Len(migrations) + 1
               old == IF ActiveNames = {} THEN NoName ELSE CHOOSE a \in ActiveNames : TRUE
               version == ActiveVersion + 1
               epoch == IF old = NoName THEN 1 ELSE rows[old].epoch + 1
    <2>1. old \in Names \cup {NoName}  BY DEF ActiveNames
    <2>2. epoch \in Nat  BY <2>1 DEF Rows
    <2>3. m \in Nat /\ version \in Nat  BY <1>0
    <2>4. Activated(p, old, version, epoch, m) \in Rows
      BY <2>1, <2>2, <2>3 DEF Activated, Rows, RowStates, ZeroCounts
    <2>5. rows' = [x \in Names |-> IF x = n THEN Activated(p, old, version, epoch, m)
                                   ELSE IF x = old THEN Demoted(rows[x], m) ELSE rows[x]]
      BY <1>4 DEF Rebind
    <2>6. rows' \in [Names -> Rows]
      <3> HIDE DEF m, old, version, epoch
      <3>. QED  BY <2>3, <2>4, <2>5, RowUpdates
    <2>7. migrations' = Append(migrations, [from |-> old, to |-> n, epoch |-> epoch])
      BY <1>4 DEF Rebind
    <2>8. events' = Append(events, Event("binding_changed", n, version, m))
      BY <1>4 DEF Rebind
    <2>9. Event("binding_changed", n, version, m) \in Events
      BY <2>3 DEF Event, Events
    <2>10. order' \in Seq(Names)  BY <1>4 DEF Rebind
    <2>11. evidence' \in [Names -> Nat] /\ UNCHANGED <<seen, ctx>>  BY <1>4 DEF Rebind
    <2>12. version > 0  BY <1>0
    <2> HIDE DEF m, old, version, epoch
    <2>13. \A x \in Names : rows'[x].state # "absent" => rows'[x].version > 0
      <3> TAKE x \in Names
      <3>1. CASE x = n  BY <3>1, <2>5, <2>12 DEF Activated
      <3>2. CASE x # n /\ x = old
        <4>1. rows'[x] = Demoted(rows[x], m)  BY <3>2, <2>5
        <4>2. rows[x].state = "active" /\ rows[x] \in Rows
          BY <3>2, BindingAssumption DEF old, ActiveNames
        <4>. QED  BY <4>1, <4>2 DEF Demoted, Rows
      <3>3. CASE x # n /\ x # old  BY <3>3, <2>5
      <3>. QED  BY <3>1, <3>2, <3>3
    <2>. QED  BY <2>1, <2>2, <2>6, <2>7, <2>8, <2>9, <2>10, <2>11, <2>13
  <1>5. ASSUME NEW w \in Workers, NEW n \in Names, NEW s \in PreviousStates,
               NEW k \in Supplied, MarkPrevious(w, n, s, k)
        PROVE  TypeOK'
    <2> DEFINE counts == [c \in Counters |-> IF c \in DOMAIN k THEN k[c]
                                             ELSE rows[n].counts[c]]
    <2>1. counts \in [Counters -> Nat]  BY DEF Rows, Supplied
    <2>2. rows' = [rows EXCEPT ![n] = [rows[n] EXCEPT !.prevState = s,
                                  !.revision = @ + 1, !.counts = counts]]
      BY <1>5 DEF MarkPrevious
    <2>3. rows' \in [Names -> Rows]
      <3> HIDE DEF counts
      <3>. QED  BY <2>1, <2>2, RowUpdates
    <2>4. Event("drain_state_changed", n, rows[n].version, rows[n].migration) \in Events
      BY DEF Event, Events, Rows
    <2>5. ctx[w].migration \in Nat  BY DEF Rows
    <2>6. \A x \in Names : rows'[x].state # "absent" => rows'[x].version > 0
      <3>1. \A x \in Names \ {n} : rows'[x] = rows[x]  BY <2>2
      <3>2. rows'[n].version = rows[n].version /\ rows'[n].state = rows[n].state
        BY <2>2 DEF Rows
      <3>. QED  BY <3>1, <3>2
    <2>. QED  BY <1>5, <2>3, <2>4, <2>5, <2>6 DEF MarkPrevious
  <1>6. ASSUME NEW w \in Workers, NEW n \in Names, Retire(w, n) PROVE TypeOK'
    <2>1. rows' \in [Names -> Rows]  BY <1>6, RowUpdates DEF Retire
    <2>2. Event("binding_retired", n, rows[n].version, rows[n].migration) \in Events
      BY DEF Event, Events, Rows
    <2>3. ctx[w].migration \in Nat  BY DEF Rows
    <2>4. \A x \in Names : rows'[x].state # "absent" => rows'[x].version > 0
      <3>1. \A x \in Names \ {n} : rows'[x] = rows[x]  BY <1>6 DEF Retire
      <3>2. rows'[n].version = rows[n].version  BY <1>6 DEF Retire, Rows
      <3>3. rows[n].state # "absent"  BY <1>6 DEF Retire
      <3>. QED  BY <3>1, <3>2, <3>3
    <2>. QED  BY <1>6, <2>1, <2>2, <2>3, <2>4 DEF Retire
  <1>7. CASE UNCHANGED vars  BY <1>7 DEF vars
  <1>. QED  BY <1>1, <1>2, <1>3, <1>4, <1>5, <1>6, <1>7 DEF Next

\* Every reachable state of the store has well-typed rows, migrations and events.
THEOREM TypeCorrect == Spec => []TypeOK
  BY TypeInit, TypeStep, PTL DEF Spec

-----------------------------------------------------------------------------
\* The strengthening: the safety invariants, and that an active row carries no
\* trace of an earlier drain and knows the migration that activated it.
ActiveIsFresh ==
    \A n \in ActiveNames : /\ rows[n].revision = 0
                           /\ rows[n].prevState = "null"
                           /\ rows[n].migration \in DOMAIN migrations
                           /\ rows[n].prevName # n

\* No row is ahead of the leader.
NoNewerRow == \A n \in Names : rows[n].version <= ActiveVersion

IInv == TypeOK /\ OneActive /\ VersionsAnnounced /\ ActiveIsFresh /\ SwappedTogether
            /\ DrainEvidenceIsCurrent /\ RetiredIsEmpty /\ NoNewerRow

\* With one leader, the version a compare-and-set meets is that leader's.
LEMMA ActiveVersionIs ==
  ASSUME OneActive, NEW n \in ActiveNames
  PROVE  ActiveVersion = rows[n].version /\ ActiveNames = {n}
  BY DEF ActiveVersion, OneActive

LEMMA ActiveVersionNat == TypeOK => ActiveVersion \in Nat
  <1> SUFFICES ASSUME TypeOK PROVE ActiveVersion \in Nat  OBVIOUS
  <1>1. CASE ActiveNames = {}  BY <1>1 DEF ActiveVersion
  <1>2. CASE ActiveNames # {}
    <2>1. (CHOOSE n \in ActiveNames : TRUE) \in Names  BY <1>2 DEF ActiveNames
    <2>. QED  BY <2>1, <1>2 DEF ActiveVersion, Rows, TypeOK
  <1>. QED  BY <1>1, <1>2

\* What a route update does to the rows.
LEMMA UpdateRouteRows ==
  ASSUME TypeOK, OneActive, NEW c \in Callers, NEW n \in Names, NEW p \in Payloads,
         UpdateRoute(c, n, p)
  PROVE  /\ ActiveNames = {n} /\ ActiveNames' = {n}
         /\ ActiveVersion' = ActiveVersion + 1
         /\ rows'[n].version = rows[n].version + 1 /\ rows'[n].epoch = rows[n].epoch + 1
         /\ \A f \in {"state", "prevName", "prevState", "migration", "revision", "counts"} :
               rows'[n][f] = rows[n][f]
         /\ \A x \in Names \ {n} : rows'[x] = rows[x]
  <1>1. n \in ActiveNames /\ ActiveNames = {n}
    BY DEF UpdateRoute, OneActive
  <1>2. rows' = [rows EXCEPT ![n] = [rows[n] EXCEPT !.payload = p, !.version = @ + 1,
                                                     !.epoch = @ + 1]]
    BY DEF UpdateRoute
  <1>3. rows[n] \in Rows  BY DEF TypeOK
  <1>4. rows'[n] = [rows[n] EXCEPT !.payload = p, !.version = @ + 1, !.epoch = @ + 1]
    BY <1>2 DEF TypeOK
  <1>5. \A x \in Names \ {n} : rows'[x] = rows[x]  BY <1>2 DEF TypeOK
  <1>6. /\ rows'[n].version = rows[n].version + 1 /\ rows'[n].epoch = rows[n].epoch + 1
        /\ rows'[n].state = rows[n].state /\ rows'[n].prevName = rows[n].prevName
        /\ rows'[n].prevState = rows[n].prevState /\ rows'[n].migration = rows[n].migration
        /\ rows'[n].revision = rows[n].revision /\ rows'[n].counts = rows[n].counts
    BY <1>3, <1>4 DEF Rows
  <1>7. ActiveNames' = {n}  BY <1>1, <1>5, <1>6 DEF ActiveNames
  <1>8. ActiveVersion' = rows'[n].version  BY <1>7 DEF ActiveVersion
  <1>9. ActiveVersion = rows[n].version  BY <1>1, ActiveVersionIs
  <1>. QED  BY <1>1, <1>5, <1>6, <1>7, <1>8, <1>9

\* What a rebind does to the rows.
LEMMA RebindRows ==
  ASSUME TypeOK, OneActive, NEW c \in Callers, NEW n \in Names, NEW p \in Payloads,
         Rebind(c, n, p)
  PROVE  LET m == Len(migrations) + 1 IN
         /\ ActiveNames' = {n} /\ n \notin ActiveNames
         /\ ActiveVersion' = ActiveVersion + 1
         /\ rows'[n].version = ActiveVersion + 1
         /\ rows'[n].migration = m /\ rows'[n].revision = 0 /\ rows'[n].prevState = "null"
         /\ ActiveNames = {} =>
               rows'[n].prevName = NoName /\ rows'[n].epoch = 1
         /\ \A a \in ActiveNames :
               /\ rows'[n].prevName = a /\ rows'[n].epoch = rows[a].epoch + 1
               /\ rows'[a] = Demoted(rows[a], m)
               /\ migrations'[m].from = a
         /\ \A x \in Names \ ({n} \cup ActiveNames) : rows'[x] = rows[x]
         /\ m \in DOMAIN migrations'
  <1> DEFINE m == Len(migrations) + 1
             old == IF ActiveNames = {} THEN NoName ELSE CHOOSE a \in ActiveNames : TRUE
             version == ActiveVersion + 1
             epoch == IF old = NoName THEN 1 ELSE rows[old].epoch + 1
  <1>1. rows' = [x \in Names |-> IF x = n THEN Activated(p, old, version, epoch, m)
                                 ELSE IF x = old THEN Demoted(rows[x], m) ELSE rows[x]]
    BY DEF Rebind
  <1>2. migrations' = Append(migrations, [from |-> old, to |-> n, epoch |-> epoch])
    BY DEF Rebind
  <1>3. n \notin ActiveNames  BY DEF Rebind
  <1>4. \A a \in ActiveNames : a \in Names /\ old = a /\ a # NoName
    BY BindingAssumption DEF OneActive, ActiveNames
  <1>5. ActiveNames = {} => old = NoName  OBVIOUS
  <1>6. m \in DOMAIN migrations' /\ migrations'[m] = [from |-> old, to |-> n, epoch |-> epoch]
    BY <1>2 DEF TypeOK
  <1> HIDE DEF m, old, version, epoch
  <1>7. rows'[n] = Activated(p, old, version, epoch, m)  BY <1>1
  <1>8. /\ rows'[n].state = "active" /\ rows'[n].version = version
        /\ rows'[n].migration = m /\ rows'[n].revision = 0 /\ rows'[n].prevState = "null"
        /\ rows'[n].prevName = old /\ rows'[n].epoch = epoch
    BY <1>7 DEF Activated
  <1>9. \A a \in ActiveNames : rows'[a] = Demoted(rows[a], m)
    BY <1>1, <1>3, <1>4
  <1>10. \A x \in Names \ ({n} \cup ActiveNames) : rows'[x] = rows[x]
    <2>1. old \in ActiveNames \/ old = NoName  BY DEF old
    <2>. QED  BY <1>1, <2>1, BindingAssumption
  <1>11. ActiveNames' = {n}
    <2>1. \A a \in ActiveNames : rows'[a].state = "previous"
      <3> TAKE a \in ActiveNames
      <3>1. rows[a] \in Rows  BY DEF TypeOK, ActiveNames
      <3>. QED  BY <3>1, <1>9 DEF Demoted, Rows
    <2>2. \A x \in Names \ ({n} \cup ActiveNames) : rows'[x].state # "active"
      BY <1>10 DEF ActiveNames
    <2>. QED  BY <1>8, <2>1, <2>2 DEF ActiveNames
  <1>12. ActiveVersion' = rows'[n].version  BY <1>11 DEF ActiveVersion
  <1>13. old = NoName => epoch = 1  BY DEF epoch
  <1>14. \A a \in ActiveNames : epoch = rows[a].epoch + 1  BY <1>4 DEF epoch
  <1>15. version = ActiveVersion + 1  BY DEF version
  <1>. QED  BY <1>3, <1>4, <1>5, <1>6, <1>8, <1>9, <1>10, <1>11, <1>12, <1>13, <1>14,
               <1>15 DEF m

\* What a drain mark does to the rows.
LEMMA MarkRows ==
  ASSUME TypeOK, NEW w \in Workers, NEW n \in Names, NEW s \in PreviousStates,
         NEW k \in Supplied, MarkPrevious(w, n, s, k)
  PROVE  /\ rows[n].state = "previous" /\ rows'[n].state = "previous"
         /\ rows'[n].migration = rows[n].migration /\ rows'[n].prevState = s
         /\ rows'[n].revision = rows[n].revision + 1
         /\ rows'[n].version = rows[n].version
         /\ \A x \in Names \ {n} : rows'[x] = rows[x]
         /\ ActiveNames' = ActiveNames /\ ActiveVersion' = ActiveVersion
  <1> DEFINE counts == [c \in Counters |-> IF c \in DOMAIN k THEN k[c]
                                           ELSE rows[n].counts[c]]
  <1>1. rows' = [rows EXCEPT ![n] = [rows[n] EXCEPT !.prevState = s,
                                !.revision = @ + 1, !.counts = counts]]
    BY DEF MarkPrevious
  <1>2. rows[n] \in Rows  BY DEF TypeOK
  <1> HIDE DEF counts
  <1>3. rows'[n] = [rows[n] EXCEPT !.prevState = s, !.revision = @ + 1, !.counts = counts]
    BY <1>1 DEF TypeOK
  <1>4. \A x \in Names \ {n} : rows'[x] = rows[x]  BY <1>1 DEF TypeOK
  <1>5. /\ rows'[n].state = rows[n].state /\ rows'[n].migration = rows[n].migration
        /\ rows'[n].prevState = s /\ rows'[n].revision = rows[n].revision + 1
        /\ rows'[n].version = rows[n].version
    BY <1>2, <1>3 DEF Rows
  <1>6. rows[n].state = "previous"  BY DEF MarkPrevious
  <1>7. ActiveNames' = ActiveNames  BY <1>4, <1>5, <1>6 DEF ActiveNames
  <1>8. \A a \in ActiveNames : rows'[a] = rows[a]  BY <1>4, <1>6 DEF ActiveNames
  <1>9. ActiveVersion' = ActiveVersion
    <2>1. CASE ActiveNames = {}  BY <2>1, <1>7 DEF ActiveVersion
    <2>2. CASE ActiveNames # {}
      <3>1. (CHOOSE a \in ActiveNames : TRUE) \in ActiveNames  BY <2>2
      <3>. QED  BY <3>1, <2>2, <1>7, <1>8 DEF ActiveVersion
    <2>. QED  BY <2>1, <2>2
  <1>. QED  BY <1>4, <1>5, <1>6, <1>7, <1>9

\* What retirement does to the rows.
LEMMA RetireRows ==
  ASSUME TypeOK, NEW w \in Workers, NEW n \in Names, Retire(w, n)
  PROVE  /\ rows[n].state = "previous" /\ rows'[n].state = "retired"
         /\ rows[n].prevState = "drained" /\ rows'[n].prevState = "drained"
         /\ rows'[n].migration = rows[n].migration
         /\ rows'[n].revision = rows[n].revision /\ rows'[n].counts = ZeroCounts
         /\ rows'[n].version = rows[n].version
         /\ \A x \in Names \ {n} : rows'[x] = rows[x]
         /\ ActiveNames' = ActiveNames /\ ActiveVersion' = ActiveVersion
  <1>1. rows' = [rows EXCEPT ![n] = [rows[n] EXCEPT !.state = "retired",
                                                     !.prevState = "drained"]]
    BY DEF Retire
  <1>2. rows[n] \in Rows  BY DEF TypeOK
  <1>3. rows'[n] = [rows[n] EXCEPT !.state = "retired", !.prevState = "drained"]
    BY <1>1 DEF TypeOK
  <1>4. \A x \in Names \ {n} : rows'[x] = rows[x]  BY <1>1 DEF TypeOK
  <1>5. /\ rows'[n].state = "retired" /\ rows'[n].prevState = "drained"
        /\ rows'[n].migration = rows[n].migration /\ rows'[n].revision = rows[n].revision
        /\ rows'[n].counts = rows[n].counts /\ rows'[n].version = rows[n].version
    BY <1>2, <1>3 DEF Rows
  <1>6. rows[n].state = "previous" /\ rows[n].prevState = "drained"
            /\ rows[n].counts = ZeroCounts
    BY DEF Retire, DrainState
  <1>7. ActiveNames' = ActiveNames  BY <1>4, <1>5, <1>6 DEF ActiveNames
  <1>8. \A a \in ActiveNames : rows'[a] = rows[a]  BY <1>4, <1>6 DEF ActiveNames
  <1>9. ActiveVersion' = ActiveVersion
    <2>1. CASE ActiveNames = {}  BY <2>1, <1>7 DEF ActiveVersion
    <2>2. CASE ActiveNames # {}
      <3>1. (CHOOSE a \in ActiveNames : TRUE) \in ActiveNames  BY <2>2
      <3>. QED  BY <3>1, <2>2, <1>7, <1>8 DEF ActiveVersion
    <2>. QED  BY <2>1, <2>2
  <1>. QED  BY <1>4, <1>5, <1>6, <1>7, <1>9

-----------------------------------------------------------------------------
\* The part of VersionsAnnounced that is about the outbox.
Announced ==
    /\ \A v \in 1..ActiveVersion : \E i \in BindingEvents : events[i].version = v
    /\ \A i \in BindingEvents : events[i].version \in 1..ActiveVersion
    /\ \A i, j \in BindingEvents : i < j => events[i].version < events[j].version

\* Announcing the next version in the step that moves to it keeps the outbox exact.
LEMMA AnnounceNext ==
  ASSUME TypeOK, TypeOK', Announced, NEW e \in Events, IsBindingEvent(e),
         events' = Append(events, e), e.version = ActiveVersion + 1,
         ActiveVersion' = ActiveVersion + 1
  PROVE  Announced'
  <1> DEFINE l == Len(events) + 1
  <1>1. events \in Seq(Events) /\ ActiveVersion \in Nat  BY ActiveVersionNat DEF TypeOK
  <1>2. /\ DOMAIN events' = DOMAIN events \cup {l} /\ l \notin DOMAIN events
        /\ events'[l] = e
        /\ \A i \in DOMAIN events : events'[i] = events[i] /\ i < l /\ i \in Nat
    BY <1>1
  <1>3. BindingEvents' = BindingEvents \cup {l}
    BY <1>2 DEF BindingEvents
  <1>4. BindingEvents \subseteq DOMAIN events  BY DEF BindingEvents
  <1> HIDE DEF l
  <1>9. \A v \in 1..ActiveVersion : v \in 1..ActiveVersion' /\ v < ActiveVersion + 1
    BY <1>1
  <1>5. \A v \in 1..ActiveVersion' : \E i \in BindingEvents' : events'[i].version = v
    <2> TAKE v \in 1..ActiveVersion'
    <2>1. CASE v = ActiveVersion + 1  BY <2>1, <1>2, <1>3
    <2>2. CASE v # ActiveVersion + 1
      <3>1. v \in 1..ActiveVersion  BY <2>2, <1>1
      <3>. QED  BY <3>1, <1>2, <1>3, <1>4 DEF Announced
    <2>. QED  BY <2>1, <2>2
  <1>6. \A i \in BindingEvents' : events'[i].version \in 1..ActiveVersion'
    <2> TAKE i \in BindingEvents'
    <2>1. CASE i = l  BY <2>1, <1>1, <1>2
    <2>2. CASE i \in BindingEvents
      <3>1. events'[i].version \in 1..ActiveVersion  BY <2>2, <1>2, <1>4 DEF Announced
      <3>. QED  BY <3>1, <1>9
    <2>. QED  BY <2>1, <2>2, <1>3
  <1>7. ASSUME NEW i \in BindingEvents', NEW j \in BindingEvents', i < j
        PROVE  events'[i].version < events'[j].version
    <2>1. CASE i \in BindingEvents /\ j \in BindingEvents
      BY <1>7, <2>1, <1>2, <1>4 DEF Announced
    <2>2. CASE j = l /\ i \in BindingEvents
      <3>1. events'[i].version \in 1..ActiveVersion  BY <2>2, <1>2, <1>4 DEF Announced
      <3>2. events'[j].version = ActiveVersion + 1  BY <2>2, <1>2
      <3>. QED  BY <3>1, <3>2, <1>9
    <2>3. i # l
      <3>1. j \in Nat /\ j <= l /\ l \in Nat  BY <1>1, <1>2, <1>3, <1>4 DEF l
      <3>. QED  BY <3>1, <1>7
    <2>. QED  BY <2>1, <2>2, <2>3, <1>3
  <1>. QED  BY <1>5, <1>6, <1>7 DEF Announced

\* Drain events do not count as announcements.
LEMMA AnnounceOther ==
  ASSUME TypeOK, Announced, NEW e \in Events, ~IsBindingEvent(e),
         events' = Append(events, e), ActiveVersion' = ActiveVersion
  PROVE  Announced'
  <1> DEFINE l == Len(events) + 1
  <1>1. events \in Seq(Events)  BY DEF TypeOK
  <1>2. /\ DOMAIN events' = DOMAIN events \cup {l} /\ l \notin DOMAIN events
        /\ events'[l] = e
        /\ \A i \in DOMAIN events : events'[i] = events[i]
    BY <1>1
  <1>3. BindingEvents' = BindingEvents  BY <1>2 DEF BindingEvents
  <1>4. \A i \in BindingEvents : events'[i] = events[i]  BY <1>2 DEF BindingEvents
  <1>. QED  BY <1>3, <1>4 DEF Announced

-----------------------------------------------------------------------------
LEMMA InvInit == Init => IInv
  <1> SUFFICES ASSUME Init PROVE IInv  OBVIOUS
  <1>1. TypeOK  BY TypeInit
  <1>2. \A n \in Names : rows[n].state = "absent"  BY DEF Init, NoRow
  <1>3. ActiveNames = {} /\ ActiveVersion = 0  BY <1>2 DEF ActiveNames, ActiveVersion
  <1>4. BindingEvents = {}  BY DEF Init, BindingEvents
  <1>5. \A n \in Names : rows[n].version = 0  BY DEF Init, NoRow
  <1>. QED  BY <1>1, <1>2, <1>3, <1>4, <1>5 DEF IInv, OneActive, VersionsAnnounced,
               ActiveIsFresh, SwappedTogether, DrainEvidenceIsCurrent, RetiredIsEmpty,
               NoNewerRow

\* A route update keeps the invariant: only version, epoch and payload move.
LEMMA InvUpdateRoute ==
  ASSUME IInv, TypeOK', NEW c \in Callers, NEW n \in Names, NEW p \in Payloads,
         UpdateRoute(c, n, p)
  PROVE  IInv'
  <1> USE DEF IInv
  <1>1. /\ ActiveNames = {n} /\ ActiveNames' = {n}
        /\ ActiveVersion' = ActiveVersion + 1
        /\ rows'[n].version = rows[n].version + 1 /\ rows'[n].epoch = rows[n].epoch + 1
        /\ rows'[n].state = rows[n].state /\ rows'[n].prevName = rows[n].prevName
        /\ rows'[n].prevState = rows[n].prevState /\ rows'[n].migration = rows[n].migration
        /\ rows'[n].revision = rows[n].revision /\ rows'[n].counts = rows[n].counts
        /\ \A x \in Names \ {n} : rows'[x] = rows[x]
    BY UpdateRouteRows
  <1>2. OneActive'  BY <1>1 DEF OneActive
  <1>3. UNCHANGED <<migrations, evidence>>  BY DEF UpdateRoute
  <1>4. VersionsAnnounced'
    <2> DEFINE e == Event("binding_updated", n, rows[n].version + 1, 0)
    <2>1. events' = Append(events, e)  BY DEF UpdateRoute
    <2>2. ActiveVersion = rows[n].version  BY <1>1, ActiveVersionIs
    <2>3. e \in Events /\ IsBindingEvent(e) /\ e.version = ActiveVersion + 1
      BY <2>2, ActiveVersionNat DEF Event, Events, IsBindingEvent
    <2>4. Announced  BY DEF Announced, VersionsAnnounced
    <2> HIDE DEF e
    <2>5. Announced'  BY <1>1, <2>1, <2>3, <2>4, AnnounceNext
    <2>. QED  BY <1>1, <2>5 DEF Announced, VersionsAnnounced
  <1>5. ActiveIsFresh'  BY <1>1, <1>3 DEF ActiveIsFresh
  <1>6. SwappedTogether'
    <2> DEFINE o == rows[n].prevName
    <2>1. SUFFICES ASSUME o # NoName
                   PROVE  /\ rows'[o].state \in {"previous", "retired"}
                          /\ rows'[o].migration = rows'[n].migration
                          /\ migrations'[rows'[n].migration].from = o
      BY <1>1 DEF SwappedTogether
    <2>2. o \in Names \ {n}  BY <2>1, <1>1 DEF ActiveIsFresh, TypeOK, Rows
    <2>. QED  BY <1>1, <1>3, <2>1, <2>2 DEF SwappedTogether
  <1>7. n \in ActiveNames  BY <1>1
  <1>8. rows[n].state = "active"  BY <1>7 DEF ActiveNames
  <1>9. DrainEvidenceIsCurrent'  BY <1>1, <1>3, <1>8 DEF DrainEvidenceIsCurrent
  <1>10. RetiredIsEmpty'  BY <1>1, <1>8 DEF RetiredIsEmpty
  <1>11. NoNewerRow'
    <2>1. ActiveVersion = rows[n].version /\ ActiveVersion \in Nat
      BY <1>1, ActiveVersionIs, ActiveVersionNat
    <2>2. \A x \in Names : rows[x].version \in Nat  BY DEF TypeOK, Rows
    <2>. QED  BY <1>1, <2>1, <2>2 DEF NoNewerRow
  <1>. QED  BY <1>2, <1>4, <1>5, <1>6, <1>9, <1>10, <1>11

\* A rebind keeps the invariant: it starts a round for the row it demotes.
LEMMA InvRebind ==
  ASSUME IInv, TypeOK', NEW c \in Callers, NEW n \in Names, NEW p \in Payloads,
         Rebind(c, n, p)
  PROVE  IInv'
  <1> USE DEF IInv
  <1> DEFINE m == Len(migrations) + 1
  <1>1. /\ ActiveNames' = {n} /\ n \notin ActiveNames
        /\ ActiveVersion' = ActiveVersion + 1
        /\ rows'[n].version = ActiveVersion + 1
        /\ rows'[n].migration = m /\ rows'[n].revision = 0 /\ rows'[n].prevState = "null"
        /\ ActiveNames = {} =>
              rows'[n].prevName = NoName /\ rows'[n].epoch = 1
        /\ \A a \in ActiveNames :
              /\ rows'[n].prevName = a /\ rows'[n].epoch = rows[a].epoch + 1
              /\ rows'[a] = Demoted(rows[a], m)
              /\ migrations'[m].from = a
        /\ \A x \in Names \ ({n} \cup ActiveNames) : rows'[x] = rows[x]
        /\ m \in DOMAIN migrations'
    BY RebindRows
  <1>2. evidence' = [evidence EXCEPT ![n] = 0]  BY DEF Rebind
  <1> HIDE DEF m
  <1>3. OneActive'  BY <1>1 DEF OneActive
  <1>4. \A a \in ActiveNames : /\ a \in Names /\ ActiveNames = {a}
                               /\ ActiveVersion = rows[a].version
                               /\ rows[a].epoch = rows[a].version
    BY ActiveVersionIs DEF ActiveNames, VersionsAnnounced
  <1>5. \A a \in ActiveNames : /\ rows'[a].state = "previous"
                               /\ rows'[a].migration = m
                               /\ rows'[a].revision = 0
                               /\ rows'[a].version = rows[a].version
    <2> TAKE a \in ActiveNames
    <2>1. rows[a] \in Rows /\ rows[a].revision = 0  BY <1>4 DEF TypeOK, ActiveIsFresh
    <2>. QED  BY <1>1, <2>1 DEF Demoted, Rows
  <1>6. VersionsAnnounced'
    <2>1. PICK e \in Events : /\ events' = Append(events, e) /\ IsBindingEvent(e)
                              /\ e.version = ActiveVersion + 1
      <3> DEFINE e == Event("binding_changed", n, ActiveVersion + 1, Len(migrations) + 1)
      <3>1. events' = Append(events, e)  BY DEF Rebind
      <3>2. e \in Events /\ IsBindingEvent(e) /\ e.version = ActiveVersion + 1
        BY ActiveVersionNat DEF Event, Events, IsBindingEvent, TypeOK
      <3> HIDE DEF e
      <3>. QED  BY <3>1, <3>2
    <2>2. Announced  BY DEF Announced, VersionsAnnounced
    <2>3. Announced'  BY <1>1, <2>1, <2>2, AnnounceNext
    <2>4. rows'[n].epoch = rows'[n].version
      <3>1. CASE ActiveNames = {}  BY <3>1, <1>1 DEF ActiveVersion
      <3>2. CASE ActiveNames # {}
        <4>1. PICK a \in ActiveNames : TRUE  BY <3>2
        <4>. QED  BY <4>1, <1>1, <1>4
      <3>. QED  BY <3>1, <3>2
    <2>. QED  BY <1>1, <2>3, <2>4 DEF Announced, VersionsAnnounced
  <1>7. ActiveIsFresh'
    <2>1. rows'[n].prevName # n
      <3>1. CASE ActiveNames = {}  BY <3>1, <1>1, BindingAssumption
      <3>2. CASE ActiveNames # {}  BY <3>2, <1>1
      <3>. QED  BY <3>1, <3>2
    <2>. QED  BY <1>1, <2>1 DEF ActiveIsFresh
  <1>8. SwappedTogether'
    <2>1. CASE ActiveNames = {}  BY <2>1, <1>1 DEF SwappedTogether
    <2>2. CASE ActiveNames # {}
      <3>1. PICK a \in ActiveNames : TRUE  BY <2>2
      <3>. QED  BY <3>1, <1>1, <1>5 DEF SwappedTogether
    <2>. QED  BY <2>1, <2>2
  <1>9. ActiveNames' = {n} /\ rows'[n].state = "active"  BY <1>1 DEF ActiveNames
  <1>10. DrainEvidenceIsCurrent'
    <2> SUFFICES ASSUME NEW x \in Names, rows'[x].state \in {"previous", "retired"},
                        rows'[x].revision > 0
                 PROVE  evidence'[x] = rows'[x].migration
      BY DEF DrainEvidenceIsCurrent
    <2>1. x # n  BY <1>9
    <2>2. x \notin ActiveNames  BY <1>5
    <2>3. rows'[x] = rows[x]  BY <1>1, <2>1, <2>2
    <2>4. evidence'[x] = evidence[x]  BY <1>2, <2>1 DEF TypeOK
    <2>. QED  BY <2>3, <2>4 DEF DrainEvidenceIsCurrent
  <1>11. RetiredIsEmpty'
    <2> SUFFICES ASSUME NEW x \in Names, rows'[x].state = "retired"
                 PROVE  rows'[x].prevState = "drained" /\ rows'[x].counts = ZeroCounts
      BY DEF RetiredIsEmpty
    <2>1. x # n /\ x \notin ActiveNames  BY <1>5, <1>9
    <2>. QED  BY <1>1, <2>1 DEF RetiredIsEmpty
  <1>12. NoNewerRow'
    <2> SUFFICES ASSUME NEW x \in Names PROVE rows'[x].version <= ActiveVersion + 1
      BY <1>1 DEF NoNewerRow
    <2>1. ActiveVersion \in Nat /\ rows[x].version \in Nat /\ rows[x].version <= ActiveVersion
      BY ActiveVersionNat DEF NoNewerRow, TypeOK, Rows
    <2>2. rows'[x].version \in {rows[x].version, ActiveVersion + 1}  BY <1>1, <1>5
    <2>. QED  BY <2>1, <2>2
  <1>. QED  BY <1>3, <1>6, <1>7, <1>8, <1>10, <1>11, <1>12

\* Drain calls keep the invariant: they touch one previous row, and only if what
\* the worker read is that row's current round.
LEMMA InvDrain ==
  ASSUME IInv, TypeOK', NEW w \in Workers, NEW n \in Names,
         \/ \E s \in PreviousStates, k \in Supplied : MarkPrevious(w, n, s, k)
         \/ Retire(w, n)
  PROVE  IInv'
  <1> USE DEF IInv
  <1>1. /\ rows[n].state = "previous" /\ rows'[n].state \in {"previous", "retired"}
        /\ rows'[n].migration = rows[n].migration
        /\ \A x \in Names \ {n} : rows'[x] = rows[x]
        /\ ActiveNames' = ActiveNames /\ ActiveVersion' = ActiveVersion
        /\ rows'[n].version = rows[n].version
        /\ rows'[n].state = "retired" =>
              rows'[n].prevState = "drained" /\ rows'[n].counts = ZeroCounts
    BY MarkRows, RetireRows
  <1>2. /\ migrations' = migrations
        /\ evidence' = [evidence EXCEPT ![n] = ctx[w].migration]
        /\ ctx[w].migration = rows[n].migration
    BY DEF MarkPrevious, Retire, DrainCAS
  <1>3. \A a \in ActiveNames : a \in Names /\ a # n /\ rows'[a] = rows[a]
    BY <1>1 DEF ActiveNames
  <1>4. OneActive'  BY <1>1 DEF OneActive
  <1>5. VersionsAnnounced'
    <2>1. PICK e \in Events : events' = Append(events, e) /\ ~IsBindingEvent(e)
      <3> DEFINE d == Event("drain_state_changed", n, rows[n].version, rows[n].migration)
                 r == Event("binding_retired", n, rows[n].version, rows[n].migration)
      <3>1. events' = Append(events, d) \/ events' = Append(events, r)
        BY DEF MarkPrevious, Retire
      <3>2. d \in Events /\ ~IsBindingEvent(d) /\ r \in Events /\ ~IsBindingEvent(r)
        BY DEF Event, Events, IsBindingEvent, TypeOK, Rows
      <3> HIDE DEF d, r
      <3>. QED  BY <3>1, <3>2
    <2>2. Announced  BY DEF Announced, VersionsAnnounced
    <2>3. Announced'  BY <1>1, <2>1, <2>2, AnnounceOther
    <2>. QED  BY <1>1, <1>3, <2>3 DEF Announced, VersionsAnnounced
  <1>6. ActiveIsFresh'  BY <1>1, <1>2, <1>3 DEF ActiveIsFresh
  <1>7. SwappedTogether'
    <2> SUFFICES ASSUME NEW a \in ActiveNames, rows[a].prevName # NoName
                 PROVE  LET old == rows[a].prevName IN
                          /\ rows'[old].state \in {"previous", "retired"}
                          /\ rows'[old].migration = rows[a].migration
                          /\ migrations[rows[a].migration].from = old
      BY <1>1, <1>2, <1>3 DEF SwappedTogether
    <2>1. rows[a].prevName \in Names  BY <1>3 DEF TypeOK, Rows
    <2>. QED  BY <1>1, <2>1 DEF SwappedTogether
  <1>8. DrainEvidenceIsCurrent'  BY <1>1, <1>2 DEF DrainEvidenceIsCurrent, TypeOK
  <1>9. RetiredIsEmpty'  BY <1>1 DEF RetiredIsEmpty
  <1>10. NoNewerRow'  BY <1>1 DEF NoNewerRow
  <1>. QED  BY <1>4, <1>5, <1>6, <1>7, <1>8, <1>9, <1>10

LEMMA InvStep == IInv /\ [Next]_vars => IInv'
  <1> SUFFICES ASSUME IInv, [Next]_vars PROVE IInv'  OBVIOUS
  <1>1. TypeOK'  BY TypeStep DEF IInv
  <1>2. CASE rows' = rows /\ migrations' = migrations /\ events' = events
                          /\ evidence' = evidence
    BY <1>1, <1>2 DEF IInv, OneActive, VersionsAnnounced, ActiveIsFresh, SwappedTogether,
       DrainEvidenceIsCurrent, RetiredIsEmpty, ActiveNames, ActiveVersion, BindingEvents,
       NoNewerRow
  <1>3. ASSUME NEW c \in Callers, ReadActive(c) PROVE IInv'
    BY <1>2, <1>3 DEF ReadActive
  <1>4. ASSUME NEW w \in Workers, NEW n \in Names, ReadPrevious(w, n) PROVE IInv'
    BY <1>2, <1>4 DEF ReadPrevious
  <1>5. CASE UNCHANGED vars  BY <1>2, <1>5 DEF vars
  <1>. QED  BY <1>1, <1>3, <1>4, <1>5, InvUpdateRoute, InvRebind, InvDrain DEF Next

\* Whatever the callers and workers interleave: one leader per scope, every version
\* announced exactly once and in order, the two rows of a rebind tied by their
\* migration.
THEOREM BindingSafe == Spec => []RebindSafe
  <1>1. IInv => RebindSafe  BY DEF IInv, RebindSafe
  <1>. QED  BY <1>1, InvInit, InvStep, PTL DEF Spec

\* No drain progress is recorded from what was read in an earlier round of the
\* mailbox, and no mailbox is retired with mail its drain has not counted out.
THEOREM DrainIsSafe == Spec => []DrainSafe
  <1>1. IInv => DrainSafe  BY DEF IInv, DrainSafe
  <1>. QED  BY <1>1, InvInit, InvStep, PTL DEF Spec

\* A drain moves only forward, and only a newer leadership or a retirement after a
\* finished drain ends it.
THEOREM DrainMonotone == Spec => DrainIsMonotone
  <1> DEFINE Forward(n) ==
        \/ rows'[n].state = "active" /\ rows'[n].version > rows[n].version
        \/ /\ rows'[n].migration = rows[n].migration
           /\ rows'[n].revision >= rows[n].revision
           /\ rows[n].prevState = "drained" => rows'[n].prevState = "drained"
           /\ rows'[n].state = "retired" => rows[n].prevState = "drained"
  <1>1. ASSUME IInv, Next, NEW n \in Names, rows[n].state = "previous"
        PROVE  Forward(n)
    <2> USE DEF IInv
    <2>0. rows[n] \in Rows /\ n \notin ActiveNames
      BY <1>1 DEF TypeOK, ActiveNames
    <2>1. CASE rows'[n] = rows[n]  BY <1>1, <2>0, <2>1 DEF Rows
    <2>2. ASSUME NEW c \in Callers, NEW x \in Names, NEW p \in Payloads, UpdateRoute(c, x, p)
          PROVE  Forward(n)
      <3>1. x # n /\ rows'[n] = rows[n]  BY <1>1, <2>0, <2>2, UpdateRouteRows
      <3>. QED  BY <3>1, <2>1
    <2>3. ASSUME NEW c \in Callers, NEW x \in Names, NEW p \in Payloads, Rebind(c, x, p)
          PROVE  Forward(n)
      <3>1. CASE x = n
        <4>1. n \in ActiveNames' /\ rows'[n].version = ActiveVersion + 1
          BY <1>1, <2>3, <3>1, RebindRows
        <4>2. rows[n].version <= ActiveVersion /\ ActiveVersion \in Nat /\ rows[n].version \in Nat
          BY <1>1, <2>0, ActiveVersionNat DEF NoNewerRow, Rows
        <4>. QED  BY <4>1, <4>2 DEF ActiveNames
      <3>2. CASE x # n
        <4>1. rows'[n] = rows[n]  BY <1>1, <2>0, <2>3, <3>2, RebindRows
        <4>. QED  BY <4>1, <2>1
      <3>. QED  BY <3>1, <3>2
    <2>4. ASSUME NEW w \in Workers, NEW x \in Names, NEW s \in PreviousStates,
                 NEW k \in Supplied, MarkPrevious(w, x, s, k)
          PROVE  Forward(n)
      <3>1. CASE x = n
        <4>1. /\ rows'[n].migration = rows[n].migration /\ rows'[n].prevState = s
              /\ rows'[n].revision = rows[n].revision + 1 /\ rows'[n].state = "previous"
          BY <1>1, <2>4, <3>1, MarkRows
        <4>2. rows[n].prevState = "drained" => s = "drained"
          BY <2>4, <3>1 DEF MarkPrevious, DrainState, DrainForward
        <4>. QED  BY <2>0, <4>1, <4>2 DEF Rows
      <3>2. CASE x # n
        <4>1. rows'[n] = rows[n]  BY <1>1, <2>4, <3>2, MarkRows
        <4>. QED  BY <4>1, <2>1
      <3>. QED  BY <3>1, <3>2
    <2>5. ASSUME NEW w \in Workers, NEW x \in Names, Retire(w, x) PROVE Forward(n)
      <3>1. CASE x = n
        <4>1. /\ rows'[n].migration = rows[n].migration /\ rows'[n].prevState = "drained"
              /\ rows'[n].revision = rows[n].revision /\ rows[n].prevState = "drained"
          BY <1>1, <2>5, <3>1, RetireRows
        <4>. QED  BY <2>0, <4>1 DEF Rows
      <3>2. CASE x # n
        <4>1. rows'[n] = rows[n]  BY <1>1, <2>5, <3>2, RetireRows
        <4>. QED  BY <4>1, <2>1
      <3>. QED  BY <3>1, <3>2
    <2>6. (\E c \in Callers : ReadActive(c)) \/ (\E w \in Workers, x \in Names : ReadPrevious(w, x))
             => rows'[n] = rows[n]
      BY DEF ReadActive, ReadPrevious
    <2>. QED  BY <1>1, <2>1, <2>2, <2>3, <2>4, <2>5, <2>6 DEF Next
  <1>2. IInv /\ [Next]_vars => [\A n \in Names : rows[n].state = "previous" => Forward(n)]_vars
    BY <1>1
  <1>. QED  BY <1>2, InvInit, InvStep, PTL DEF Spec, DrainIsMonotone

-----------------------------------------------------------------------------
(* ControlFanout: what an event's marks tell of it.                          *)

Controls == [ mark : {"none", "attempt", "delivered"}, transported : BOOLEAN, fanned : BOOLEAN,
              prompted : BOOLEAN, stranded : BOOLEAN,
              sent : [Projects -> Nat], reached : BOOLEAN, lost : Nat ]

\* Prompted to the leader, as far as the marks can tell.
Told(c) == c.prompted = TRUE \/ c.stranded = TRUE

\* A mail whose mark is still to be written counts as one that was lost.
ControlOK(c, noting) ==
    /\ c.fanned = TRUE => c.reached = TRUE /\ Told(c)
    /\ c.mark # "none" => Told(c)
    /\ c.transported = TRUE => c.reached = TRUE
    /\ \A p \in Projects :
          IF c.transported = TRUE \/ noting THEN c.sent[p] <= c.lost + 1 ELSE c.sent[p] <= c.lost

\* What the delivery of a batch may do to an event.
Touched(c, d) ==
    /\ d \in Controls
    /\ d.fanned = c.fanned /\ d.transported = c.transported
    /\ d.sent = c.sent /\ d.reached = c.reached /\ d.lost = c.lost
    /\ c.prompted = TRUE => d.prompted = TRUE
    /\ c.stranded = TRUE => d.stranded = TRUE
    /\ d.mark # "none" => Told(d)

LEMMA TouchedKeeps ==
  ASSUME NEW c \in Controls, NEW d, NEW b \in BOOLEAN, ControlOK(c, b), Touched(c, d)
  PROVE  ControlOK(d, b) /\ (Told(c) => Told(d))
  BY DEF ControlOK, Touched, Told

LEMMA Touches ==
  ASSUME NEW c \in Controls, NEW b \in BOOLEAN, ControlOK(c, b)
  PROVE  /\ Touched(c, c)
         /\ \A m \in {"attempt", "delivered"} : Touched(c, [c EXCEPT !.mark = m, !.prompted = TRUE])
         /\ Touched(c, [c EXCEPT !.mark = "none"])
         /\ Touched(c, [c EXCEPT !.mark = "attempt", !.stranded = TRUE])
  <1>1. Touched(c, c)  BY DEF ControlOK, Touched
  <1>2. ASSUME NEW m \in {"attempt", "delivered"}
        PROVE  Touched(c, [c EXCEPT !.mark = m, !.prompted = TRUE])
    <2> DEFINE d == [c EXCEPT !.mark = m, !.prompted = TRUE]
    <2>1. /\ d.mark = m /\ d.prompted = TRUE /\ d.transported = c.transported
          /\ d.fanned = c.fanned /\ d.stranded = c.stranded /\ d.sent = c.sent /\ d.lost = c.lost
          /\ d.reached = c.reached
      BY DEF Controls
    <2>2. d \in Controls  BY DEF Controls
    <2> HIDE DEF d
    <2>3. Touched(c, d)  BY <2>1, <2>2 DEF Touched, Told, ControlOK
    <2>. QED  BY <2>3 DEF d
  <1>3. Touched(c, [c EXCEPT !.mark = "none"])
    <2> DEFINE d == [c EXCEPT !.mark = "none"]
    <2>1. /\ d.mark = "none" /\ d.prompted = c.prompted /\ d.transported = c.transported
          /\ d.fanned = c.fanned /\ d.stranded = c.stranded /\ d.sent = c.sent /\ d.lost = c.lost
          /\ d.reached = c.reached
      BY DEF Controls
    <2>2. d \in Controls  BY DEF Controls
    <2> HIDE DEF d
    <2>3. Touched(c, d)  BY <2>1, <2>2 DEF Touched, Told, ControlOK
    <2>. QED  BY <2>3 DEF d
  <1>4. Touched(c, [c EXCEPT !.mark = "attempt", !.stranded = TRUE])
    <2> DEFINE d == [c EXCEPT !.mark = "attempt", !.stranded = TRUE]
    <2>1. /\ d.mark = "attempt" /\ d.prompted = c.prompted /\ d.transported = c.transported
          /\ d.fanned = c.fanned /\ d.stranded = TRUE /\ d.sent = c.sent /\ d.lost = c.lost
          /\ d.reached = c.reached
      BY DEF Controls
    <2>2. d \in Controls  BY DEF Controls
    <2> HIDE DEF d
    <2>3. Touched(c, d)  BY <2>1, <2>2 DEF Touched, Told, ControlOK
    <2>. QED  BY <2>3 DEF d
  <1>. QED  BY <1>1, <1>2, <1>3, <1>4

Noting(e) == tick.at = "note" /\ e = Head(tick.batch)

\* Where the tick is with the event before it.
TickOK ==
    tick.batch # << >> =>
        /\ tick.at \in {"transport", "note", "fan"} => Told(control[Head(tick.batch)])
        /\ tick.at \in {"note", "fan"} => control[Head(tick.batch)].reached = TRUE
        /\ tick.at = "note" => control[Head(tick.batch)].transported = FALSE

FanoutInv ==
    /\ IInv /\ ActiveVersion <= MaxVersion /\ Len(events) <= MaxEvents
    /\ FanoutTypeOK /\ TickOK
    /\ \A e \in EventIds : ControlOK(control[e], Noting(e))
    /\ \A e \in proof : control[e].prompted = TRUE

LEMMA VersionBounded ==
  ASSUME IInv, ActiveVersion <= MaxVersion, [Next]_vars
  PROVE  ActiveVersion' <= MaxVersion
  <1>1. TypeOK /\ OneActive /\ MaxVersion \in Nat /\ ActiveVersion \in Nat
    BY BindingAssumption, ActiveVersionNat DEF IInv
  <1>2. CASE rows' = rows  BY <1>2 DEF ActiveVersion, ActiveNames
  <1>3. ASSUME NEW c \in Callers, NEW n \in Names, NEW p \in Payloads, UpdateRoute(c, n, p)
        PROVE  ActiveVersion' <= MaxVersion
    <2>1. ActiveVersion' = ActiveVersion + 1 /\ ActiveNames = {n}  BY <1>1, <1>3, UpdateRouteRows
    <2>2. ActiveVersion = rows[n].version  BY <1>1, <2>1, ActiveVersionIs
    <2>3. rows[n].version < MaxVersion  BY <1>3 DEF UpdateRoute
    <2>. QED  BY <1>1, <2>1, <2>2, <2>3
  <1>4. ASSUME NEW c \in Callers, NEW n \in Names, NEW p \in Payloads, Rebind(c, n, p)
        PROVE  ActiveVersion' <= MaxVersion
    <2>1. ActiveVersion' = ActiveVersion + 1  BY <1>1, <1>4, RebindRows
    <2>2. ActiveVersion + 1 <= MaxVersion  BY <1>4 DEF Rebind
    <2>. QED  BY <2>1, <2>2
  <1>5. ASSUME NEW w \in Workers, NEW n \in Names, NEW s \in PreviousStates, NEW k \in Supplied,
               MarkPrevious(w, n, s, k)
        PROVE  ActiveVersion' <= MaxVersion
    BY <1>1, <1>5, MarkRows
  <1>6. ASSUME NEW w \in Workers, NEW n \in Names, Retire(w, n)
        PROVE  ActiveVersion' <= MaxVersion
    BY <1>1, <1>6, RetireRows
  <1>7. UNCHANGED vars \/ (\E c \in Callers : ReadActive(c))
            \/ (\E w \in Workers, n \in Names : ReadPrevious(w, n)) => rows' = rows
    BY DEF vars, ReadActive, ReadPrevious
  <1>. QED  BY <1>2, <1>3, <1>4, <1>5, <1>6, <1>7 DEF Next

LEMMA FanoutInitSafe == Init /\ FanoutInit => FanoutInv
  <1> SUFFICES ASSUME Init, FanoutInit PROVE FanoutInv  OBVIOUS
  <1>1. IInv  BY InvInit
  <1>2. ActiveVersion <= MaxVersion
    <2>1. \A n \in Names : rows[n].state = "absent"  BY DEF Init, NoRow
    <2>2. ActiveVersion = 0  BY <2>1 DEF ActiveNames, ActiveVersion
    <2>. QED  BY <2>2, BindingAssumption
  <1>3. Len(events) <= MaxEvents
    <2>1. events = << >> /\ Len(<< >>) = 0  BY DEF Init
    <2>. QED  BY <2>1, FanoutAssumption
  <1>4. NewControl \in Controls  BY DEF NewControl, Controls
  <1>5. FanoutTypeOK
    BY <1>4, BindingAssumption, FanoutAssumption DEF FanoutInit, FanoutTypeOK, Idle, Controls
  <1>6. TickOK  BY DEF FanoutInit, Idle, TickOK
  <1>7. \A b \in BOOLEAN : ControlOK(NewControl, b)
    BY <1>4 DEF ControlOK, NewControl
  <1>8. \A e \in EventIds : ControlOK(control[e], Noting(e))
    BY <1>7 DEF FanoutInit, Noting
  <1>9. \A e \in proof : control[e].prompted = TRUE  BY DEF FanoutInit
  <1>. QED  BY <1>1, <1>2, <1>3, <1>5, <1>6, <1>8, <1>9 DEF FanoutInv

\* What the invariant says, but for the binding store.
LEMMA FanoutFacts ==
  ASSUME FanoutInv
  PROVE  /\ control \in [EventIds -> Controls]
         /\ tick \in [ at : {"idle", "event", "proof", "transport", "note", "fan"},
                       batch : Seq(EventIds) ]
         /\ tick.batch = << >> <=> tick = Idle
         /\ known \in 0..MaxVersion /\ faults \in 0..MaxFaults
         /\ queued \subseteq EventIds /\ proof \subseteq EventIds /\ unmarked \subseteq EventIds
         /\ \A e \in EventIds : control[e] \in Controls /\ ControlOK(control[e], Noting(e))
         /\ \A e \in proof : control[e].prompted = TRUE
         /\ TickOK
  BY DEF FanoutInv, FanoutTypeOK, Controls

\* A step of the store leaves the fanout as it is, and a step of the fanout the store.
LEMMA StoreMoves ==
  ASSUME FanoutInv, [Next]_vars, Len(events') <= MaxEvents, UNCHANGED fanoutVars
  PROVE  FanoutInv'
  <1>1. IInv'  BY InvStep DEF FanoutInv
  <1>2. ActiveVersion' <= MaxVersion  BY VersionBounded DEF FanoutInv
  <1>3. FanoutTypeOK' /\ TickOK'
    BY DEF FanoutInv, fanoutVars, FanoutTypeOK, Idle, TickOK
  <1>4. (\A e \in EventIds : ControlOK(control[e], Noting(e)))'
        /\ (\A e \in proof : control[e].prompted = TRUE)'
    BY DEF FanoutInv, fanoutVars, Noting
  <1>. QED  BY <1>1, <1>2, <1>3, <1>4 DEF FanoutInv

LEMMA StoreStays ==
  ASSUME FanoutInv, UNCHANGED vars, FanoutTypeOK', TickOK',
         \A e \in EventIds : ControlOK(control'[e], Noting(e)'),
         \A e \in proof' : control'[e].prompted = TRUE
  PROVE  FanoutInv'
  <1>1. IInv'  BY InvStep DEF FanoutInv
  <1>2. ActiveVersion' <= MaxVersion  BY VersionBounded DEF FanoutInv
  <1>3. Len(events') <= MaxEvents  BY DEF FanoutInv, vars
  <1>. QED  BY <1>1, <1>2, <1>3 DEF FanoutInv

LEMMA FaultType == ASSUME FanoutInv, Fault PROVE faults' \in 0..MaxFaults
  BY FanoutFacts, FanoutAssumption DEF Fault

\* A delivery of the core, accepted or not: marks move, and what was prompted stays so.
LEMMA DeliveryPartKeeps ==
  ASSUME FanoutInv, UNCHANGED <<vars, tick, known>>,
         DOMAIN control' = EventIds /\ control' = [e \in EventIds |-> control'[e]],
         \A e \in EventIds : Touched(control[e], control'[e]),
         queued' \subseteq EventIds, proof' \subseteq EventIds, unmarked' \subseteq EventIds,
         faults' \in 0..MaxFaults,
         \A e \in proof' \ proof : control'[e].prompted = TRUE
  PROVE  FanoutInv'
  <1>1. control' \in [EventIds -> Controls]  BY DEF Touched
  <1>2. FanoutTypeOK'  BY <1>1, FanoutFacts DEF FanoutTypeOK, Controls, Idle
  <1>3. ASSUME NEW e \in EventIds
        PROVE  ControlOK(control'[e], Noting(e)') /\ (Told(control[e]) => Told(control'[e]))
    <2>1. control[e] \in Controls /\ ControlOK(control[e], Noting(e)) /\ Noting(e) \in BOOLEAN
      BY FanoutFacts DEF Noting
    <2>2. ControlOK(control'[e], Noting(e)) /\ (Told(control[e]) => Told(control'[e]))
      BY <2>1, TouchedKeeps
    <2>. QED  BY <2>2 DEF Noting
  <1>4. TickOK'
    <2> SUFFICES ASSUME tick.batch # << >>
                 PROVE  LET c == control'[Head(tick.batch)]
                        IN  /\ tick.at \in {"transport", "note", "fan"} => Told(c)
                            /\ tick.at \in {"note", "fan"} => c.reached = TRUE
                            /\ tick.at = "note" => c.transported = FALSE
      BY DEF TickOK
    <2>1. Head(tick.batch) \in EventIds  BY FanoutFacts
    <2>. QED  BY <1>3, <2>1, FanoutFacts DEF TickOK, Touched
  <1>5. \A e \in proof' : control'[e].prompted = TRUE  BY FanoutFacts DEF Touched
  <1>. QED  BY <1>2, <1>3, <1>4, <1>5, StoreStays

\* The marks of a prompt.
LEMMA MarkedTouches ==
  ASSUME FanoutInv, NEW E \in SUBSET EventIds, NEW mark \in {"attempt", "delivered"}, NEW e \in EventIds
  PROVE  /\ Touched(control[e], Marked(E, mark)[e])
         /\ e \in E => Marked(E, mark)[e].prompted = TRUE
  <1>1. control[e] \in Controls /\ ControlOK(control[e], Noting(e)) /\ Noting(e) \in BOOLEAN
    BY FanoutFacts DEF Noting
  <1>2. /\ Touched(control[e], control[e])
        /\ Touched(control[e], [control[e] EXCEPT !.mark = mark, !.prompted = TRUE])
    BY <1>1, Touches
  <1>3. [control[e] EXCEPT !.mark = mark, !.prompted = TRUE].prompted = TRUE
    BY <1>1 DEF Controls
  <1>. QED  BY <1>2, <1>3 DEF Marked

LEMMA AcceptedKeeps ==
  ASSUME FanoutInv, DeliverAccepted, UNCHANGED vars
  PROVE  FanoutInv'
  <1>1. /\ control' = Marked(queued, "delivered") /\ proof' = proof \cup queued
        /\ unmarked' = unmarked \ queued /\ queued' = {} /\ UNCHANGED <<tick, known, faults>>
    BY DEF DeliverAccepted
  <1>2. queued \in SUBSET EventIds  BY FanoutFacts
  <1>3. DOMAIN control' = EventIds /\ control' = [e \in EventIds |-> control'[e]]
    BY <1>1 DEF Marked
  <1>4. \A e \in EventIds : /\ Touched(control[e], control'[e])
                            /\ e \in queued => control'[e].prompted = TRUE
    BY <1>1, <1>2, MarkedTouches
  <1>. QED  BY <1>1, <1>2, <1>3, <1>4, FanoutFacts, DeliveryPartKeeps

LEMMA UnmarkedKeeps ==
  ASSUME FanoutInv, DeliverUnmarked, UNCHANGED vars
  PROVE  FanoutInv'
  <1>1. PICK F \in (SUBSET queued) \ {{}} :
          /\ control' = [e \in EventIds |->
                 IF e \notin F THEN Marked(queued, "delivered")[e]
                 ELSE Marked(queued, IF control[e].mark = "none" THEN "attempt"
                                     ELSE control[e].mark)[e]]
          /\ \E P \in IF queued \subseteq unmarked THEN SUBSET (queued \ F) ELSE {{}} :
                proof' = proof \cup P /\ unmarked' = (unmarked \cup queued) \ P
    BY DEF DeliverUnmarked
  <1>2. PICK P \in SUBSET queued : proof' = proof \cup P /\ unmarked' = (unmarked \cup queued) \ P
    BY <1>1
  <1>3. /\ UNCHANGED <<tick, known, queued>> /\ faults' \in 0..MaxFaults
        /\ queued \in SUBSET EventIds
    BY FaultType, FanoutFacts DEF DeliverUnmarked
  <1>4. DOMAIN control' = EventIds /\ control' = [e \in EventIds |-> control'[e]]
    BY <1>1
  <1>5. ASSUME NEW e \in EventIds
        PROVE  /\ Touched(control[e], control'[e])
               /\ e \in queued => control'[e].prompted = TRUE
    <2> DEFINE mark == IF e \notin F THEN "delivered"
                       ELSE IF control[e].mark = "none" THEN "attempt" ELSE control[e].mark
    <2>1. mark \in {"attempt", "delivered"}  BY FanoutFacts DEF Controls
    <2>2. control'[e] = Marked(queued, mark)[e]  BY <1>1
    <2> HIDE DEF mark
    <2>. QED  BY <1>3, <2>1, <2>2, MarkedTouches
  <1>. QED  BY <1>2, <1>3, <1>4, <1>5, FanoutFacts, DeliveryPartKeeps

LEMMA RefusedKeeps ==
  ASSUME FanoutInv, DeliverRefused \/ DeliverStranded, UNCHANGED vars
  PROVE  FanoutInv'
  <1>1. /\ UNCHANGED <<tick, known, queued, proof, unmarked>> /\ faults' \in 0..MaxFaults
        /\ control' = [e \in EventIds |-> control'[e]] /\ DOMAIN control' = EventIds
    BY FaultType, FanoutFacts DEF DeliverRefused, DeliverStranded
  <1>2. ASSUME NEW e \in EventIds PROVE Touched(control[e], control'[e])
    <2>1. control[e] \in Controls /\ ControlOK(control[e], Noting(e)) /\ Noting(e) \in BOOLEAN
      BY FanoutFacts DEF Noting
    <2>2. control'[e] \in { control[e], [control[e] EXCEPT !.mark = "none"],
                            [control[e] EXCEPT !.mark = "attempt", !.stranded = TRUE] }
      BY DEF DeliverRefused, DeliverStranded
    <2>. QED  BY <2>1, <2>2, Touches
  <1>. QED  BY <1>1, <1>2, FanoutFacts, DeliveryPartKeeps

\* The tick goes on with the event, or to the next one.
LEMMA GoToIs ==
  ASSUME FanoutInv, tick.batch # << >>, NEW at \in {"proof", "transport", "note", "fan"}, GoTo(at)
  PROVE  /\ tick' \in [ at : {"idle", "event", "proof", "transport", "note", "fan"},
                        batch : Seq(EventIds) ]
         /\ tick'.at = at /\ tick'.batch = tick.batch /\ (tick'.batch = << >> <=> tick' = Idle)
  <1>1. tick \in [ at : {"idle", "event", "proof", "transport", "note", "fan"},
                   batch : Seq(EventIds) ]
    BY FanoutFacts
  <1>2. tick' = [tick EXCEPT !.at = at]  BY DEF GoTo
  <1>3. tick'.at = at /\ tick'.batch = tick.batch  BY <1>1, <1>2
  <1>4. tick' # Idle  BY <1>3 DEF Idle
  <1>. QED  BY <1>1, <1>2, <1>3, <1>4

LEMMA NextEventIs ==
  ASSUME FanoutInv, tick.batch # << >>, NextEvent
  PROVE  /\ tick' \in [ at : {"idle", "event", "proof", "transport", "note", "fan"},
                        batch : Seq(EventIds) ]
         /\ tick'.at \in {"idle", "event"} /\ (tick'.batch = << >> <=> tick' = Idle)
  <1>1. tick.batch \in Seq(EventIds) /\ tick.batch # << >>  BY FanoutFacts
  <1>2. CASE Len(tick.batch) = 1  BY <1>2 DEF NextEvent, Idle
  <1>3. CASE Len(tick.batch) # 1
    <2>1. tick' = [at |-> "event", batch |-> Tail(tick.batch)]  BY <1>3 DEF NextEvent
    <2>2. Tail(tick.batch) \in Seq(EventIds) /\ Len(Tail(tick.batch)) = Len(tick.batch) - 1
      BY <1>1
    <2>3. Len(tick.batch) \in Nat /\ Len(tick.batch) # 0  BY <1>1
    <2>4. Len(Tail(tick.batch)) # 0  BY <1>3, <2>2, <2>3
    <2>5. Tail(tick.batch) # << >>
      <3>1. Len(<< >>) = 0  OBVIOUS
      <3>. QED  BY <2>4, <3>1
    <2>. QED  BY <2>1, <2>2, <2>5 DEF Idle
  <1>. QED  BY <1>2, <1>3

\* A step of the tick writes the event before it, or nothing.
LEMMA TickPartKeeps ==
  ASSUME FanoutInv, UNCHANGED <<vars, known, unmarked, proof>>,
         control' \in [EventIds -> Controls],
         tick' \in [ at : {"idle", "event", "proof", "transport", "note", "fan"},
                     batch : Seq(EventIds) ],
         tick'.batch = << >> <=> tick' = Idle,
         queued' \subseteq EventIds, faults' \in 0..MaxFaults, TickOK',
         \A e \in EventIds : /\ ControlOK(control'[e], Noting(e)')
                             /\ control'[e].prompted = control[e].prompted
  PROVE  FanoutInv'
  <1>1. FanoutTypeOK'  BY FanoutFacts DEF FanoutTypeOK, Controls, Idle
  <1>2. \A e \in proof' : control'[e].prompted = TRUE  BY FanoutFacts
  <1>. QED  BY <1>1, <1>2, StoreStays

LEMMA TickMoves ==
  ASSUME FanoutInv, UNCHANGED <<vars, unmarked, proof, control, faults>>,
         known' \in 0..MaxVersion,
         tick' \in [ at : {"idle", "event", "proof", "transport", "note", "fan"},
                     batch : Seq(EventIds) ],
         tick'.batch = << >> <=> tick' = Idle,
         queued' \subseteq EventIds, TickOK', tick.at = "note" => tick' = tick, tick'.at = "note" => tick' = tick
  PROVE  FanoutInv'
  <1>1. FanoutTypeOK'  BY FanoutFacts DEF FanoutTypeOK, Controls, Idle
  <1>2. \A e \in proof' : control'[e].prompted = TRUE  BY FanoutFacts
  <1>3. ASSUME NEW e \in EventIds PROVE ControlOK(control'[e], Noting(e)')
    <2>1. ControlOK(control[e], Noting(e))  BY FanoutFacts
    <2>. QED  BY <2>1 DEF Noting
  <1>. QED  BY <1>1, <1>2, <1>3, StoreStays

LEMMA SyncKeeps ==
  ASSUME FanoutInv, SyncBindings, UNCHANGED vars
  PROVE  FanoutInv'
  <1>1. known' = ActiveVersion /\ UNCHANGED <<control, tick, queued, proof, unmarked, faults>>
    BY DEF SyncBindings
  <1>2. ActiveVersion \in 0..MaxVersion
    BY ActiveVersionNat, BindingAssumption DEF FanoutInv, IInv
  <1>3. TickOK'  BY <1>1, FanoutFacts DEF TickOK
  <1>. QED  BY <1>1, <1>2, <1>3, FanoutFacts, TickMoves

LEMMA ReadKeeps ==
  ASSUME FanoutInv, ReadEvents, UNCHANGED vars
  PROVE  FanoutInv'
  <1>1. PICK n \in 1..FanoutLimit : \E batch \in [1..n -> Undelivered] :
            tick' = [at |-> "event", batch |-> batch]
    BY DEF ReadEvents
  <1>2. PICK batch \in [1..n -> Undelivered] : tick' = [at |-> "event", batch |-> batch]
    BY <1>1
  <1>3. Undelivered \subseteq EventIds
    <2>1. Len(events) <= MaxEvents /\ events \in Seq(Events)  BY DEF FanoutInv, IInv, TypeOK
    <2>. QED  BY <2>1, FanoutAssumption DEF Undelivered, EventIds
  <1>4. n \in Nat /\ n # 0  BY FanoutAssumption
  <1>5. batch \in Seq(EventIds) /\ batch # << >>
    <2>1. batch \in [1..n -> EventIds]  BY <1>2, <1>3
    <2>2. batch \in Seq(EventIds) /\ Len(batch) = n  BY <1>4, <2>1
    <2>. QED  BY <1>4, <2>2
  <1>6. tick' # Idle /\ tick'.batch = batch /\ tick'.at = "event"  BY <1>2 DEF Idle
  <1>7. TickOK'  BY <1>6 DEF TickOK
  <1>8. /\ UNCHANGED <<control, known, queued, proof, unmarked, faults>>
        /\ tick.at = "idle"
    BY DEF ReadEvents, Idle
  <1>. QED  BY <1>2, <1>5, <1>6, <1>7, <1>8, FanoutFacts, TickMoves

\* The event before the tick, and what the invariant says of it.
LEMMA HeadFacts ==
  ASSUME FanoutInv, tick.batch # << >>
  PROVE  LET e == Head(tick.batch) c == control[e]
         IN  /\ e \in EventIds /\ c \in Controls
             /\ ControlOK(c, tick.at = "note")
             /\ tick.at \in {"transport", "note", "fan"} => Told(c)
             /\ tick.at \in {"note", "fan"} => c.reached = TRUE
             /\ tick.at = "note" => c.transported = FALSE
  <1> DEFINE e == Head(tick.batch)
  <1>1. e \in EventIds  BY FanoutFacts
  <1>2. ControlOK(control[e], Noting(e)) /\ control[e] \in Controls  BY <1>1, FanoutFacts
  <1>3. ControlOK(control[e], tick.at = "note")  BY <1>2 DEF Noting
  <1>. QED  BY <1>1, <1>2, <1>3, FanoutFacts DEF TickOK

LEMMA IngestKeeps ==
  ASSUME FanoutInv, tick.batch # << >>, IngestEvent(Head(tick.batch)), UNCHANGED vars
  PROVE  FanoutInv'
  <1> DEFINE e == Head(tick.batch)
  <1>1. /\ e \in EventIds /\ ControlOK(control[e], tick.at = "note")
        /\ tick.at = "event" /\ UNCHANGED <<control, known, proof, unmarked, faults>>
    BY HeadFacts DEF IngestEvent, At
  <1>2. CASE control[e].mark # "none" /\ GoTo("transport") /\ UNCHANGED queued
    <2>1. /\ tick'.at = "transport" /\ tick'.batch = tick.batch
          /\ tick' \in [ at : {"idle", "event", "proof", "transport", "note", "fan"},
                          batch : Seq(EventIds) ]
          /\ tick'.batch = << >> <=> tick' = Idle
      BY <1>2, GoToIs
    <2>2. Told(control[e])  BY <1>1, <1>2 DEF ControlOK
    <2>3. TickOK'  BY <1>1, <2>1, <2>2 DEF TickOK
    <2>. QED  BY <1>1, <1>2, <2>1, <2>3, FanoutFacts, TickMoves
  <1>3. CASE /\ control[e].mark = "none" /\ GoTo("proof")
             /\ queued' = IF events[e].version = known THEN queued \cup {e} ELSE queued
    <2>1. /\ tick'.at = "proof" /\ tick'.batch = tick.batch
          /\ tick' \in [ at : {"idle", "event", "proof", "transport", "note", "fan"},
                          batch : Seq(EventIds) ]
          /\ tick'.batch = << >> <=> tick' = Idle
      BY <1>3, GoToIs
    <2>2. TickOK'  BY <2>1 DEF TickOK
    <2>3. queued' \subseteq EventIds  BY <1>1, <1>3, FanoutFacts
    <2>. QED  BY <1>1, <2>1, <2>2, <2>3, FanoutFacts, TickMoves
  <1>. QED  BY <1>2, <1>3 DEF IngestEvent

\* A step that leaves the event behind it.
LEMMA NextKeeps ==
  ASSUME FanoutInv, tick.batch # << >>, NextEvent, tick.at # "note",
         UNCHANGED <<control, known, queued, proof, unmarked, faults>>, UNCHANGED vars
  PROVE  FanoutInv'
  <1>1. /\ tick' \in [ at : {"idle", "event", "proof", "transport", "note", "fan"},
                        batch : Seq(EventIds) ]
        /\ tick'.at \in {"idle", "event"} /\ (tick'.batch = << >> <=> tick' = Idle)
    BY NextEventIs
  <1>2. TickOK'  BY <1>1 DEF TickOK
  <1>. QED  BY <1>1, <1>2, FanoutFacts, TickMoves

LEMMA CheckProofKeeps ==
  ASSUME FanoutInv, tick.batch # << >>, CheckProof(Head(tick.batch)), UNCHANGED vars
  PROVE  FanoutInv'
  <1> DEFINE e == Head(tick.batch)
  <1>1. tick.at = "proof" /\ UNCHANGED <<control, known, queued, proof, unmarked, faults>>
    BY DEF CheckProof, At
  <1>2. CASE e \in proof /\ GoTo("transport")
    <2>1. /\ tick'.at = "transport" /\ tick'.batch = tick.batch
          /\ tick' \in [ at : {"idle", "event", "proof", "transport", "note", "fan"},
                          batch : Seq(EventIds) ]
          /\ tick'.batch = << >> <=> tick' = Idle
      BY <1>2, GoToIs
    <2>2. Told(control[e])  BY <1>2, FanoutFacts DEF Told
    <2>3. TickOK'  BY <1>1, <2>1, <2>2 DEF TickOK
    <2>. QED  BY <1>1, <2>1, <2>3, FanoutFacts, TickMoves
  <1>3. CASE NextEvent  BY <1>1, <1>3, NextKeeps
  <1>. QED  BY <1>2, <1>3 DEF CheckProof

\* A step of the tick that writes the event before it.
LEMMA WriteKeeps ==
  ASSUME FanoutInv, tick.batch # << >>, UNCHANGED vars,
         UNCHANGED <<known, queued, proof, unmarked>>, faults' \in 0..MaxFaults,
         NEW c \in Controls, control' = [control EXCEPT ![Head(tick.batch)] = c],
         c.prompted = control[Head(tick.batch)].prompted,
         ControlOK(c, tick'.at = "note"),
         \/ /\ tick'.batch = tick.batch /\ tick'.at \in {"note", "fan"}
            /\ Told(c) /\ c.reached = TRUE /\ (tick'.at = "note" => c.transported = FALSE)
         \/ tick'.at \in {"idle", "event"},
         tick' \in [ at : {"idle", "event", "proof", "transport", "note", "fan"},
                     batch : Seq(EventIds) ],
         tick'.batch = << >> <=> tick' = Idle
  PROVE  FanoutInv'
  <1> DEFINE e == Head(tick.batch)
  <1>1. e \in EventIds /\ control \in [EventIds -> Controls]  BY HeadFacts, FanoutFacts
  <1>2. /\ control' \in [EventIds -> Controls] /\ control'[e] = c
        /\ \A d \in EventIds \ {e} : control'[d] = control[d]
    BY <1>1
  <1>3. TickOK'  BY <1>2 DEF TickOK
  <1>4. ASSUME NEW d \in EventIds
        PROVE  ControlOK(control'[d], Noting(d)') /\ control'[d].prompted = control[d].prompted
    <2>1. CASE d = e
      <3>1. ControlOK(c, FALSE) \/ (tick'.at = "note" /\ tick'.batch = tick.batch)
        BY DEF ControlOK
      <3>. QED  BY <1>2, <2>1, <3>1 DEF Noting, ControlOK
    <2>2. CASE d # e
      <3>1. ControlOK(control[d], FALSE)
        <4>1. ControlOK(control[d], Noting(d))  BY FanoutFacts
        <4>. QED  BY <2>2, <4>1 DEF Noting
      <3>2. Noting(d)' => FALSE  BY <2>2 DEF Noting
      <3>. QED  BY <1>2, <2>2, <3>1, <3>2 DEF ControlOK
    <2>. QED  BY <2>1, <2>2
  <1>. QED  BY <1>2, <1>3, <1>4, FanoutFacts, TickPartKeeps

\* The fields of an event that is written.
LEMMA ControlWrites ==
  ASSUME NEW c \in Controls
  PROVE  /\ LET d == [c EXCEPT !.lost = @ + 1]
            IN  /\ d \in Controls /\ d.sent = c.sent /\ d.lost = c.lost + 1 /\ d.mark = c.mark
                /\ d.fanned = c.fanned /\ d.transported = c.transported /\ d.reached = c.reached
                /\ d.prompted = c.prompted /\ d.stranded = c.stranded
         /\ LET d == [c EXCEPT !.transported = TRUE]
            IN  /\ d \in Controls /\ d.sent = c.sent /\ d.lost = c.lost /\ d.mark = c.mark
                /\ d.fanned = c.fanned /\ d.transported = TRUE /\ d.reached = c.reached
                /\ d.prompted = c.prompted /\ d.stranded = c.stranded
         /\ LET d == [c EXCEPT !.fanned = TRUE]
            IN  /\ d \in Controls /\ d.sent = c.sent /\ d.lost = c.lost /\ d.mark = c.mark
                /\ d.fanned = TRUE /\ d.transported = c.transported /\ d.reached = c.reached
                /\ d.prompted = c.prompted /\ d.stranded = c.stranded
         /\ c.sent \in [Projects -> Nat] /\ c.lost \in Nat
         /\ c.transported \in BOOLEAN /\ c.reached \in BOOLEAN
  <1>1. LET d == [c EXCEPT !.lost = @ + 1]
        IN  /\ d \in Controls /\ d.sent = c.sent /\ d.lost = c.lost + 1 /\ d.mark = c.mark
            /\ d.fanned = c.fanned /\ d.transported = c.transported /\ d.reached = c.reached
            /\ d.prompted = c.prompted /\ d.stranded = c.stranded
    BY DEF Controls
  <1>2. LET d == [c EXCEPT !.transported = TRUE]
        IN  /\ d \in Controls /\ d.sent = c.sent /\ d.lost = c.lost /\ d.mark = c.mark
            /\ d.fanned = c.fanned /\ d.transported = TRUE /\ d.reached = c.reached
            /\ d.prompted = c.prompted /\ d.stranded = c.stranded
    BY DEF Controls
  <1>3. LET d == [c EXCEPT !.fanned = TRUE]
        IN  /\ d \in Controls /\ d.sent = c.sent /\ d.lost = c.lost /\ d.mark = c.mark
            /\ d.fanned = TRUE /\ d.transported = c.transported /\ d.reached = c.reached
            /\ d.prompted = c.prompted /\ d.stranded = c.stranded
    BY DEF Controls
  <1>4. /\ c.sent \in [Projects -> Nat] /\ c.lost \in Nat
        /\ c.transported \in BOOLEAN /\ c.reached \in BOOLEAN
    BY DEF Controls
  <1>. QED  BY <1>1, <1>2, <1>3, <1>4

\* A transport raises the mails of some projects by one; when it fails after a mail, what
\* it leaves without a mark, too; and what was reached stays so.
SentBy(c, d, parts, got, ok) ==
    /\ d \in Controls /\ d.mark = c.mark
    /\ d.fanned = c.fanned /\ d.transported = c.transported
    /\ d.prompted = c.prompted /\ d.stranded = c.stranded
    /\ ok = parts => d.reached = TRUE
    /\ c.reached = TRUE => d.reached = TRUE
    /\ \A p \in Projects : d.sent[p] = IF p \in got THEN c.sent[p] + 1 ELSE c.sent[p]
    /\ d.lost = IF ok # parts /\ got # {} THEN c.lost + 1 ELSE c.lost

LEMMA SendWrites ==
  ASSUME NEW c \in Controls, NEW parts, NEW got, NEW ok
  PROVE  SentBy(c, Send(c, parts, got, ok), parts, got, ok)
  <1> DEFINE s == [p \in Projects |-> IF p \in got THEN c.sent[p] + 1 ELSE c.sent[p]]
             h == (c.reached \/ ok = parts)
             l == IF ok # parts /\ got # {} THEN c.lost + 1 ELSE c.lost
  <1>1. c.sent \in [Projects -> Nat] /\ c.lost \in Nat /\ c.reached \in BOOLEAN
    BY ControlWrites
  <1>2. s \in [Projects -> Nat]  BY <1>1
  <1>3. h \in BOOLEAN /\ (ok = parts => h = TRUE) /\ (c.reached = TRUE => h = TRUE)  BY <1>1
  <1>4. l \in Nat  BY <1>1
  <1>5. \A p \in Projects : s[p] = IF p \in got THEN c.sent[p] + 1 ELSE c.sent[p]
    OBVIOUS
  <1>6. Send(c, parts, got, ok) = [c EXCEPT !.sent = s, !.reached = h, !.lost = l]
    BY DEF Send
  <1>7. l = IF ok # parts /\ got # {} THEN c.lost + 1 ELSE c.lost  OBVIOUS
  <1> HIDE DEF s, h, l
  <1>8. LET d == [c EXCEPT !.sent = s, !.reached = h, !.lost = l]
        IN  /\ d \in Controls /\ d.mark = c.mark
            /\ d.fanned = c.fanned /\ d.transported = c.transported
            /\ d.prompted = c.prompted /\ d.stranded = c.stranded
            /\ d.sent = s /\ d.reached = h /\ d.lost = l
    BY <1>2, <1>3, <1>4 DEF Controls
  <1>. QED  BY <1>3, <1>5, <1>6, <1>7, <1>8 DEF SentBy

\* A transport that reached all is one ahead of the marks until its own is written; one that
\* failed, or was cut short, is counted as soon as it mailed somebody.
LEMMA SendKeeps ==
  ASSUME NEW c \in Controls, NEW parts, NEW got, NEW ok, ControlOK(c, FALSE),
         c.transported = FALSE
  PROVE  /\ ControlOK(Send(c, parts, got, ok), TRUE)
         /\ ok # parts => ControlOK(Send(c, parts, got, ok), FALSE)
  <1> DEFINE d == Send(c, parts, got, ok)
  <1>1. SentBy(c, d, parts, got, ok)  BY SendWrites
  <1>2. c.lost \in Nat /\ \A p \in Projects : c.sent[p] \in Nat /\ c.sent[p] <= c.lost
    <2>1. c.lost \in Nat /\ c.sent \in [Projects -> Nat]  BY ControlWrites
    <2>. QED  BY <2>1 DEF ControlOK
  <1> HIDE DEF d
  <1>3. ASSUME NEW p \in Projects
        PROVE  d.sent[p] <= d.lost + 1 /\ (ok # parts => d.sent[p] <= d.lost)
    BY <1>1, <1>2 DEF SentBy
  <1>4. ControlOK(d, TRUE) /\ (ok # parts => ControlOK(d, FALSE))
    BY <1>1, <1>3 DEF ControlOK, Told, SentBy
  <1>. QED  BY <1>4 DEF d

LEMMA TransportKeeps ==
  ASSUME FanoutInv, tick.batch # << >>, Transport(Head(tick.batch)), UNCHANGED vars
  PROVE  FanoutInv'
  <1> DEFINE e == Head(tick.batch)
             c == control[e]
  <1>1. /\ e \in EventIds /\ c \in Controls /\ ControlOK(c, tick.at = "note") /\ Told(c)
        /\ tick.at = "transport" /\ UNCHANGED <<known, queued, proof, unmarked>>
    BY HeadFacts DEF Transport, At
  <1>2. CASE c.transported = TRUE /\ GoTo("fan") /\ UNCHANGED <<control, faults>>
    <2>1. /\ tick'.at = "fan" /\ tick'.batch = tick.batch
          /\ tick' \in [ at : {"idle", "event", "proof", "transport", "note", "fan"},
                          batch : Seq(EventIds) ]
          /\ tick'.batch = << >> <=> tick' = Idle
      BY <1>2, GoToIs
    <2>2. c.reached = TRUE  BY <1>1, <1>2 DEF ControlOK
    <2>3. TickOK'  BY <1>1, <1>2, <2>1, <2>2 DEF TickOK
    <2>. QED  BY <1>1, <1>2, <2>1, <2>3, FanoutFacts, TickMoves
  <1>3. CASE c.transported = FALSE
             /\ \E parts \in SUBSET Projects : \E got \in SUBSET parts : \E ok \in SUBSET got :
                   /\ control' = [control EXCEPT ![e] = Send(control[e], parts, got, ok)]
                   /\ IF ok = parts THEN GoTo("note") ELSE NextEvent
                   /\ IF ok # parts /\ got # {} THEN Fault ELSE UNCHANGED faults
    <2>1. PICK parts \in SUBSET Projects : \E got \in SUBSET parts : \E ok \in SUBSET got :
                /\ control' = [control EXCEPT ![e] = Send(control[e], parts, got, ok)]
                /\ IF ok = parts THEN GoTo("note") ELSE NextEvent
                /\ IF ok # parts /\ got # {} THEN Fault ELSE UNCHANGED faults
      BY <1>3
    <2>2. PICK got \in SUBSET parts : \E ok \in SUBSET got :
                /\ control' = [control EXCEPT ![e] = Send(control[e], parts, got, ok)]
                /\ IF ok = parts THEN GoTo("note") ELSE NextEvent
                /\ IF ok # parts /\ got # {} THEN Fault ELSE UNCHANGED faults
      BY <2>1
    <2>3. PICK ok \in SUBSET got :
                /\ control' = [control EXCEPT ![e] = Send(control[e], parts, got, ok)]
                /\ IF ok = parts THEN GoTo("note") ELSE NextEvent
                /\ IF ok # parts /\ got # {} THEN Fault ELSE UNCHANGED faults
      BY <2>2
    <2>4. faults' \in 0..MaxFaults  BY <2>3, FaultType, FanoutFacts
    <2>5. ControlOK(c, FALSE)  BY <1>1 DEF ControlOK
    <2> DEFINE d == Send(c, parts, got, ok)
    <2>6. SentBy(c, d, parts, got, ok)  BY <1>1, SendWrites
    <2>7. ControlOK(d, TRUE) /\ (ok # parts => ControlOK(d, FALSE))
      BY <1>1, <1>3, <2>5, SendKeeps
    <2>8. control' = [control EXCEPT ![e] = d]  BY <2>3
    <2> HIDE DEF d
    <2>9. /\ d \in Controls /\ Told(d) /\ d.prompted = c.prompted
          /\ d.transported = c.transported /\ (ok = parts => d.reached = TRUE)
      BY <1>1, <2>6 DEF Told, SentBy
    <2>10. CASE ok = parts
      <3>1. /\ tick'.at = "note" /\ tick'.batch = tick.batch
            /\ tick' \in [ at : {"idle", "event", "proof", "transport", "note", "fan"},
                            batch : Seq(EventIds) ]
            /\ tick'.batch = << >> <=> tick' = Idle
        BY <2>3, <2>10, GoToIs
      <3>2. ControlOK(d, tick'.at = "note")  BY <2>7, <3>1 DEF ControlOK
      <3>. QED  BY <1>1, <1>3, <2>4, <2>8, <2>9, <2>10, <3>1, <3>2, WriteKeeps
    <2>11. CASE ok # parts
      <3>1. /\ tick' \in [ at : {"idle", "event", "proof", "transport", "note", "fan"},
                            batch : Seq(EventIds) ]
            /\ tick'.at \in {"idle", "event"} /\ (tick'.batch = << >> <=> tick' = Idle)
        BY <2>3, <2>11, NextEventIs
      <3>2. ControlOK(d, tick'.at = "note")  BY <2>7, <2>11, <3>1 DEF ControlOK
      <3>. QED  BY <1>1, <2>4, <2>8, <2>9, <3>1, <3>2, WriteKeeps
    <2>. QED  BY <2>10, <2>11
  <1>4. CASE NextEvent /\ UNCHANGED <<control, faults>>  BY <1>1, <1>4, NextKeeps
  <1>5. c.transported = TRUE \/ c.transported = FALSE  BY <1>1, ControlWrites
  <1>. QED  BY <1>2, <1>3, <1>4, <1>5 DEF Transport

LEMMA NoteKeeps ==
  ASSUME FanoutInv, tick.batch # << >>, NoteTransport(Head(tick.batch)), UNCHANGED vars
  PROVE  FanoutInv'
  <1> DEFINE e == Head(tick.batch)
             c == control[e]
             t == [c EXCEPT !.transported = TRUE]
             l == [c EXCEPT !.lost = @ + 1]
  <1>1. /\ e \in EventIds /\ c \in Controls /\ ControlOK(c, tick.at = "note") /\ Told(c)
        /\ c.reached = TRUE /\ c.transported = FALSE
        /\ tick.at = "note" /\ GoTo("fan") /\ UNCHANGED <<known, queued, proof, unmarked>>
    BY HeadFacts DEF NoteTransport, At
  <1>2. /\ tick'.at = "fan" /\ tick'.batch = tick.batch
        /\ tick' \in [ at : {"idle", "event", "proof", "transport", "note", "fan"},
                        batch : Seq(EventIds) ]
        /\ tick'.batch = << >> <=> tick' = Idle
    BY <1>1, GoToIs
  <1>3. /\ control' = [control EXCEPT ![e] = t] \/ control' = [control EXCEPT ![e] = l]
        /\ faults' \in 0..MaxFaults
    BY <1>1, FaultType, FanoutFacts DEF NoteTransport
  <1>4. /\ t \in Controls /\ t.sent = c.sent /\ t.lost = c.lost /\ t.mark = c.mark
        /\ t.fanned = c.fanned /\ t.transported = TRUE
        /\ t.prompted = c.prompted /\ t.stranded = c.stranded
        /\ t.reached = c.reached /\ c.sent \in [Projects -> Nat] /\ c.lost \in Nat
    BY <1>1, ControlWrites
  <1>5. /\ l \in Controls /\ l.sent = c.sent /\ l.lost = c.lost + 1 /\ l.mark = c.mark
        /\ l.fanned = c.fanned /\ l.transported = c.transported
        /\ l.prompted = c.prompted /\ l.stranded = c.stranded
        /\ l.reached = c.reached /\ c.sent \in [Projects -> Nat] /\ c.lost \in Nat
    BY <1>1, ControlWrites
  <1> HIDE DEF t, l, c
  <1>6. ControlOK(t, FALSE) /\ Told(t)  BY <1>1, <1>4 DEF ControlOK, Told
  <1>7. ControlOK(l, FALSE) /\ Told(l)  BY <1>1, <1>5 DEF ControlOK, Told
  <1>8. (tick'.at = "note") = FALSE  BY <1>2
  <1>9. CASE control' = [control EXCEPT ![e] = t]
    BY <1>1, <1>2, <1>3, <1>4, <1>6, <1>8, <1>9, WriteKeeps DEF c
  <1>10. CASE control' = [control EXCEPT ![e] = l]
    BY <1>1, <1>2, <1>3, <1>5, <1>7, <1>8, <1>10, WriteKeeps DEF c
  <1>. QED  BY <1>3, <1>9, <1>10

LEMMA FannedOutKeeps ==
  ASSUME FanoutInv, tick.batch # << >>, MarkFannedOut(Head(tick.batch)), UNCHANGED vars
  PROVE  FanoutInv'
  <1> DEFINE e == Head(tick.batch)
             c == control[e]
             f == [c EXCEPT !.fanned = TRUE]
  <1>1. /\ e \in EventIds /\ c \in Controls /\ ControlOK(c, tick.at = "note") /\ Told(c)
        /\ c.reached = TRUE /\ tick.at = "fan" /\ NextEvent /\ UNCHANGED <<known, queued, proof, unmarked>>
    BY HeadFacts DEF MarkFannedOut, At
  <1>2. /\ tick' \in [ at : {"idle", "event", "proof", "transport", "note", "fan"},
                        batch : Seq(EventIds) ]
        /\ tick'.at \in {"idle", "event"} /\ (tick'.batch = << >> <=> tick' = Idle)
    BY <1>1, NextEventIs
  <1>3. /\ control' = [control EXCEPT ![e] = f] \/ control' = [control EXCEPT ![e] = c]
        /\ faults' \in 0..MaxFaults
    BY <1>1, FaultType, FanoutFacts DEF MarkFannedOut
  <1>4. /\ f \in Controls /\ f.sent = c.sent /\ f.lost = c.lost /\ f.mark = c.mark
        /\ f.fanned = TRUE /\ f.transported = c.transported
        /\ f.prompted = c.prompted /\ f.stranded = c.stranded
        /\ f.reached = c.reached /\ c.sent \in [Projects -> Nat] /\ c.lost \in Nat
    BY <1>1, ControlWrites
  <1>5. (tick'.at = "note") = FALSE /\ (tick.at = "note") = FALSE  BY <1>1, <1>2
  <1> HIDE DEF f, c
  <1>6. ControlOK(f, FALSE) /\ ControlOK(c, FALSE)  BY <1>1, <1>4, <1>5 DEF ControlOK, Told
  <1>7. CASE control' = [control EXCEPT ![e] = f]
    BY <1>1, <1>2, <1>3, <1>4, <1>5, <1>6, <1>7, WriteKeeps DEF c
  <1>8. CASE control' = [control EXCEPT ![e] = c]
    BY <1>1, <1>2, <1>3, <1>5, <1>6, <1>8, WriteKeeps DEF c
  <1>. QED  BY <1>3, <1>7, <1>8

LEMMA FanoutCrashKeeps ==
  ASSUME FanoutInv, FanoutCrash, UNCHANGED vars
  PROVE  FanoutInv'
  <1>1. PICK E \in {{}, queued} : \E got \in IF ActiveNames # {} THEN SUBSET Projects ELSE {{}} :
          control' = [e \in EventIds |->
              LET c == IF e \in E /\ control[e].mark = "none" THEN Marked(E, "attempt")[e]
                       ELSE control[e]
              IN  IF tick.batch # << >> /\ At(e, "note") THEN [c EXCEPT !.lost = @ + 1]
                  ELSE IF tick.batch # << >> /\ At(e, "transport") /\ ~c.transported /\ got # {}
                  THEN Send(c, got, got, {}) ELSE c]
    BY DEF FanoutCrash
  <1>2. PICK got \in SUBSET Projects :
          control' = [e \in EventIds |->
              LET c == IF e \in E /\ control[e].mark = "none" THEN Marked(E, "attempt")[e]
                       ELSE control[e]
              IN  IF tick.batch # << >> /\ At(e, "note") THEN [c EXCEPT !.lost = @ + 1]
                  ELSE IF tick.batch # << >> /\ At(e, "transport") /\ ~c.transported /\ got # {}
                  THEN Send(c, got, got, {}) ELSE c]
    BY <1>1
  <1>3. /\ tick' = Idle /\ known' = 0 /\ queued' = {} /\ proof' = {} /\ unmarked' = {}
        /\ faults' \in 0..MaxFaults
    BY FaultType DEF FanoutCrash
  <1>4. ASSUME NEW e \in EventIds
        PROVE  control'[e] \in Controls /\ ControlOK(control'[e], FALSE)
    <2> DEFINE c == IF e \in E /\ control[e].mark = "none" THEN Marked(E, "attempt")[e]
                    ELSE control[e]
               l == [c EXCEPT !.lost = @ + 1]
               d == Send(c, got, got, {})
    <2>1. /\ control[e] \in Controls /\ ControlOK(control[e], Noting(e)) /\ Noting(e) \in BOOLEAN
      BY FanoutFacts DEF Noting
    <2>2. Touched(control[e], c)
      <3>1. E \in SUBSET EventIds  BY FanoutFacts
      <3>. QED  BY <2>1, <3>1, MarkedTouches, Touches
    <2>3. control'[e] = IF tick.batch # << >> /\ At(e, "note") THEN l
                        ELSE IF tick.batch # << >> /\ At(e, "transport") /\ ~c.transported
                                   /\ got # {}
                        THEN d ELSE c
      BY <1>2
    <2> HIDE DEF c
    <2>4. ControlOK(c, Noting(e)) /\ c \in Controls  BY <2>1, <2>2, TouchedKeeps DEF Touched
    <2>5. /\ l \in Controls /\ l.sent = c.sent /\ l.lost = c.lost + 1 /\ l.mark = c.mark
          /\ l.fanned = c.fanned /\ l.transported = c.transported /\ l.reached = c.reached
          /\ l.prompted = c.prompted /\ l.stranded = c.stranded
          /\ c.sent \in [Projects -> Nat] /\ c.lost \in Nat /\ c.transported \in BOOLEAN
      BY <2>4, ControlWrites
    <2>6. d \in Controls
      <3>1. SentBy(c, d, got, got, {})  BY <2>4, SendWrites
      <3> HIDE DEF d
      <3>. QED  BY <3>1 DEF SentBy
    <2> HIDE DEF l
    <2>7. CASE Noting(e)
      <3>1. tick.batch # << >> /\ At(e, "note")
        <4>1. tick.batch = << >> => tick.at = "idle"  BY FanoutFacts DEF Idle
        <4>. QED  BY <2>7, <4>1 DEF Noting, At
      <3>2. ControlOK(l, FALSE)  BY <2>4, <2>5, <2>7 DEF ControlOK, Told
      <3>. QED  BY <2>3, <2>5, <3>1, <3>2
    <2>8. CASE ~Noting(e)
      <3>1. ~(tick.batch # << >> /\ At(e, "note"))  BY <2>8 DEF Noting, At
      <3>2. ControlOK(c, FALSE)  BY <2>4, <2>8 DEF ControlOK
      <3>3. CASE c.transported = FALSE /\ got # {}
        <4>1. {} # got  BY <3>3
        <4>2. ControlOK(d, FALSE)  BY <2>4, <3>2, <3>3, <4>1, SendKeeps
        <4> HIDE DEF d
        <4>. QED  BY <2>3, <2>4, <2>6, <3>1, <3>2, <4>2
      <3>4. CASE ~(c.transported = FALSE /\ got # {})
        <4> HIDE DEF d
        <4>1. c.transported = FALSE \/ c.transported = TRUE  BY <2>5
        <4>. QED  BY <2>3, <2>4, <3>1, <3>2, <3>4, <4>1
      <3>. QED  BY <3>3, <3>4
    <2>. QED  BY <2>7, <2>8
  <1>5. control' \in [EventIds -> Controls]
    <2>1. DOMAIN control' = EventIds /\ control' = [e \in EventIds |-> control'[e]]  BY <1>2
    <2>. QED  BY <1>4, <2>1
  <1>6. FanoutTypeOK' /\ TickOK'
    BY <1>3, <1>5, BindingAssumption DEF FanoutTypeOK, Controls, Idle, TickOK
  <1>7. \A e \in EventIds : ControlOK(control'[e], Noting(e)')
    <2>1. \A e \in EventIds : Noting(e)' = FALSE  BY <1>3 DEF Noting, Idle
    <2>. QED  BY <1>4, <2>1 DEF ControlOK
  <1>8. \A e \in proof' : control'[e].prompted = TRUE  BY <1>3
  <1>. QED  BY <1>6, <1>7, <1>8, StoreStays

LEMMA FanoutInvStep == FanoutInv /\ [FanoutNext]_<<vars, fanoutVars>> => FanoutInv'
  <1> SUFFICES ASSUME FanoutInv, [FanoutNext]_<<vars, fanoutVars>> PROVE FanoutInv'  OBVIOUS
  <1>1. CASE UNCHANGED vars /\ tick.batch # << >> /\ FanoutStep(Head(tick.batch))
    BY <1>1, IngestKeeps, CheckProofKeeps, TransportKeeps, NoteKeeps, FannedOutKeeps
       DEF FanoutStep
  <1>2. CASE UNCHANGED vars /\ (DeliverAccepted \/ DeliverUnmarked \/ DeliverRefused
                                  \/ DeliverStranded \/ FanoutCrash)
    BY <1>2, AcceptedKeeps, UnmarkedKeeps, RefusedKeeps, FanoutCrashKeeps
  <1>3. CASE UNCHANGED vars /\ (SyncBindings \/ ReadEvents)  BY <1>3, SyncKeeps, ReadKeeps
  <1>4. CASE Next /\ Len(events') <= MaxEvents /\ UNCHANGED fanoutVars  BY <1>4, StoreMoves
  <1>5. CASE UNCHANGED <<vars, fanoutVars>>
    <2>1. UNCHANGED vars /\ UNCHANGED fanoutVars  BY <1>5
    <2>2. Len(events') <= MaxEvents  BY <2>1 DEF vars, FanoutInv
    <2>. QED  BY <2>1, <2>2, StoreMoves
  <1>. QED  BY <1>1, <1>2, <1>3, <1>4, <1>5 DEF FanoutNext

\* Whatever fails, in whole or in part, in whatever order the server dies and the leader
\* changes: an event that leaves the outbox was sent by a transport that reached every project
\* and, as far as its marks can tell, prompted to the leader; and no project gets its mail
\* again but for a transport that mailed somebody and left no mark.
THEOREM FanoutIsSafe == FanoutSpec => []FanoutSafe
  <1>1. FanoutInv => FanoutSafe
    <2> SUFFICES ASSUME FanoutInv PROVE FanoutSafe  OBVIOUS
    <2>1. FanoutTypeOK  BY DEF FanoutInv
    <2>2. ASSUME NEW e \in EventIds
          PROVE  /\ control[e].fanned =>
                      control[e].reached /\ (control[e].prompted \/ control[e].stranded)
                 /\ \A p \in Projects : control[e].sent[p] <= 1 + control[e].lost
      <3>1. control[e] \in Controls /\ ControlOK(control[e], Noting(e))  BY FanoutFacts
      <3>2. control[e].lost \in Nat /\ \A p \in Projects : control[e].sent[p] \in Nat
        BY <3>1 DEF Controls
      <3>. QED  BY <3>1, <3>2 DEF ControlOK, Told
    <2>. QED  BY <2>1, <2>2 DEF FanoutSafe, FannedIsDone, SentOnce
  <1>. QED  BY <1>1, FanoutInitSafe, FanoutInvStep, PTL DEF FanoutSpec

-----------------------------------------------------------------------------
(* LeaderDrain: what the poller knows of the mailbox it drains.              *)

\* The Hub takes a mail from the unread only once it is over.
AckedIsOver ==
    \A m \in Mails : mail[m].to # NoName /\ ~mail[m].unread =>
                        mail[m].receipt \in {"processed", "stale"}

\* Nothing has happened to a mail that nobody has written.
UnsentIsBlank == \A m \in Mails : mail[m].to = NoName => mail[m] = NotSent

\* The mails that are due are those of mailboxes that have led and do not lead.
DueIsPast == \A m \in due : mail[m].to \in Names /\ mail[m].to \notin ActiveNames

\* Migrations number the rounds: a row that is read again after a round is of a later one.
RoundsGrow ==
    /\ \A n \in Names : rows[n].migration <= Len(migrations)
    /\ ctx[Poller].migration <= Len(migrations)

\* While the row is of the round the poller has read, what it saw still holds of the mails
\* that are due.
PollKnows ==
    /\ poll.at # "idle" => poll.name \in Names
    /\ poll.at \in {"counters", "drained", "closed", "retire"}
          /\ rows[poll.name].migration = ctx[Poller].migration =>
       \A m \in due : mail[m].to = poll.name =>
           ~mail[m].unread /\ (poll.at # "counters" => mail[m].receipt = "processed")

DrainInv ==
    IInv /\ DrainTypeOK /\ AckedIsOver /\ UnsentIsBlank /\ DueIsPast /\ RoundsGrow /\ PollKnows
         /\ NothingLeftBehind

LEMMA DrainInitSafe == Init /\ DrainInit => DrainInv
  <1> SUFFICES ASSUME Init, DrainInit PROVE DrainInv  OBVIOUS
  <1>1. IInv  BY InvInit
  <1>2. DrainTypeOK /\ AckedIsOver /\ UnsentIsBlank
    BY DEF DrainInit, DrainTypeOK, AckedIsOver, UnsentIsBlank, NotSent, NoPoll, ReceiptStates
  <1>3. DueIsPast /\ PollKnows /\ NothingLeftBehind
    BY DEF DrainInit, DueIsPast, PollKnows, NothingLeftBehind, NoPoll
  <1>4. RoundsGrow
    <2>1. migrations = << >> /\ Len(<< >>) = 0  BY DEF Init
    <2>2. NoRow.migration = 0  BY DEF NoRow
    <2>. QED  BY <2>1, <2>2, DrainAssumption DEF Init, RoundsGrow
  <1>. QED  BY <1>1, <1>2, <1>3, <1>4 DEF DrainInv

\* What a step of the drain does to the binding store.
LEMMA DrainStore ==
  ASSUME DrainInv, DrainNext
  PROVE  IInv'
  <1>1. CASE [Next]_vars  BY <1>1, InvStep DEF DrainInv
  <1>2. CASE ExpectDrained
    <2>1. TypeOK  BY DEF DrainInv, IInv
    <2>2. ctx[Poller] \in Rows /\ Poller \in Workers  BY <2>1, DrainAssumption DEF TypeOK
    <2> DEFINE r == [ctx[Poller] EXCEPT !.prevState = "drained", !.revision = @ + 1]
    <2>3. r \in Rows
      <3> DEFINE q == [ctx[Poller] EXCEPT !.prevState = "drained"]
      <3>1. q \in Rows  BY <2>2 DEF Rows, PreviousStates
      <3>2. r = [q EXCEPT !.revision = @ + 1]  BY <2>2 DEF Rows
      <3> HIDE DEF q, r
      <3>3. q.revision + 1 \in Nat  BY <3>1 DEF Rows
      <3>. QED  BY <3>1, <3>2, <3>3 DEF Rows
    <2>4. ctx' = [ctx EXCEPT ![Poller] = r]  BY <1>2 DEF ExpectDrained
    <2> HIDE DEF r
    <2>5. ctx' \in [Workers -> Rows]  BY <2>1, <2>2, <2>3, <2>4 DEF TypeOK
    <2>6. UNCHANGED <<rows, order, migrations, events, seen, evidence>>  BY <1>2 DEF ExpectDrained
    <2>7. TypeOK'  BY <2>1, <2>5, <2>6 DEF TypeOK
    <2>. QED  BY <2>6, <2>7 DEF DrainInv, IInv, OneActive, VersionsAnnounced, ActiveIsFresh,
              SwappedTogether, DrainEvidenceIsCurrent, RetiredIsEmpty, ActiveNames,
              ActiveVersion, BindingEvents, NoNewerRow
  <1>3. DrainNext => [Next]_vars \/ ExpectDrained
    <2>1. "drained" \in PreviousStates /\ ZeroCounts \in Supplied
      <3>1. ZeroCounts \in [Counters -> 0..MaxCount]  BY BindingAssumption DEF ZeroCounts
      <3>. QED  BY <3>1 DEF PreviousStates, Supplied
    <2>2. CloseDrain => [Next]_vars
      BY <2>1, DrainAssumption DEF CloseDrain, DrainInv, PollKnows, Next
    <2>3. RetireDrained => [Next]_vars
      BY DrainAssumption DEF RetireDrained, DrainInv, PollKnows, Next
    <2>4. PollPrevious => [Next]_vars
      BY DrainAssumption DEF PollPrevious, DrainInv, PollKnows, Next
    <2>5. LeaderMoves => Next  BY DEF LeaderMoves, Next
    <2>6. PollActive \/ FetchInbox \/ ReadCounters \/ PollEnds => UNCHANGED vars
      BY DEF PollActive, FetchInbox, ReadCounters, PollEnds
    <2>. QED  BY <2>2, <2>3, <2>4, <2>5, <2>6 DEF DrainNext
  <1>. QED  BY <1>1, <1>2, <1>3

\* Mail keeps what is known of a mailbox: an unread mail may become anything, a new one is
\* in nobody's count, and one that is no longer unread stays as it is.
MailRecords == [to : Names \cup {NoName}, unread : BOOLEAN,
                receipt : ReceiptStates, ackPending : BOOLEAN]

LEMMA MailWriteKeeps ==
  ASSUME DrainInv, UNCHANGED vars, UNCHANGED <<due, poll>>,
         NEW m \in Mails, NEW r \in MailRecords, mail' = [mail EXCEPT ![m] = r],
         r.to # NoName, r.to = mail[m].to \/ mail[m].to = NoName,
         \/ mail[m].to = NoName \/ mail[m].unread
         \/ (r.unread = FALSE /\ r.receipt = mail[m].receipt),
         r.unread = TRUE \/ r.receipt \in {"processed", "stale"}
  PROVE  DrainInv'
  <1>1. mail \in [Mails -> MailRecords] /\ due \subseteq Mails
    BY DEF DrainInv, DrainTypeOK, MailRecords
  <1>2. \A x \in Mails : mail'[x] = IF x = m THEN r ELSE mail[x]  BY <1>1
  <1>3. DrainTypeOK'  BY <1>1 DEF DrainInv, DrainTypeOK, MailRecords
  <1>4. IInv' /\ RoundsGrow'
    <2>1. [Next]_vars  OBVIOUS
    <2>. QED  BY <2>1, InvStep DEF DrainInv, RoundsGrow, vars
  <1>5. AckedIsOver' /\ UnsentIsBlank'
    BY <1>2 DEF DrainInv, AckedIsOver, UnsentIsBlank
  <1>6. \A x \in due : mail'[x].to = mail[x].to
    <2>1. \A x \in due : mail[x].to \in Names  BY DEF DrainInv, DueIsPast
    <2>. QED  BY <1>1, <1>2, <2>1, BindingAssumption
  <1>7. DueIsPast'  BY <1>6 DEF DrainInv, DueIsPast, ActiveNames, vars
  <1>8. \A x \in due : ~mail[x].unread => ~mail'[x].unread /\ mail'[x].receipt = mail[x].receipt
    <2>1. \A x \in due : mail[x].to # NoName  BY BindingAssumption DEF DrainInv, DueIsPast
    <2>. QED  BY <1>1, <1>2, <2>1
  <1>9. PollKnows'  BY <1>6, <1>8 DEF DrainInv, PollKnows, vars
  <1>10. NothingLeftBehind'  BY <1>6, <1>8 DEF DrainInv, NothingLeftBehind, vars
  <1>. QED  BY <1>3, <1>4, <1>5, <1>7, <1>9, <1>10 DEF DrainInv

LEMMA MailKeeps ==
  ASSUME DrainInv, UNCHANGED vars, NEW m \in Mails,
         \/ \E n \in Names : MailArrives(m, n)
         \/ \E to \in ReceiptStates, ackPending \in BOOLEAN : ReceiptMoves(m, to, ackPending)
         \/ HubAcks(m) \/ MarkAcked(m)
  PROVE  DrainInv'
  <1>1. mail[m] \in MailRecords /\ mail \in [Mails -> MailRecords]
    BY DEF DrainInv, DrainTypeOK, MailRecords
  <1>2. mail[m].to # NoName /\ ~mail[m].unread => mail[m].receipt \in {"processed", "stale"}
    BY DEF DrainInv, AckedIsOver
  <1>3. ASSUME NEW n \in Names, MailArrives(m, n) PROVE DrainInv'
    <2> DEFINE r == [mail[m] EXCEPT !.to = n, !.unread = TRUE]
    <2>1. mail' = [mail EXCEPT ![m] = r]  BY <1>3 DEF MailArrives
    <2>2. r \in MailRecords /\ r.to = n /\ r.unread = TRUE  BY <1>1 DEF MailRecords
    <2>3. mail[m].to = NoName /\ UNCHANGED <<due, poll>>  BY <1>3 DEF MailArrives
    <2>4. r.unread = TRUE /\ n # NoName /\ r.to # NoName
      BY <2>2, BindingAssumption
    <2> HIDE DEF r
    <2>. QED  BY <2>1, <2>2, <2>3, <2>4, MailWriteKeeps
  <1>4. ASSUME NEW to \in ReceiptStates, NEW ackPending \in BOOLEAN,
               ReceiptMoves(m, to, ackPending)
        PROVE  DrainInv'
    <2> DEFINE r == [mail[m] EXCEPT !.receipt = to, !.ackPending = ackPending]
    <2>1. mail' = [mail EXCEPT ![m] = r]  BY <1>4 DEF ReceiptMoves
    <2>2. r \in MailRecords /\ r.to = mail[m].to /\ r.unread = mail[m].unread
      BY <1>1 DEF MailRecords
    <2>3. mail[m].to # NoName /\ mail[m].unread /\ UNCHANGED <<due, poll>>
      BY <1>4 DEF ReceiptMoves
    <2>4. r.unread = TRUE  BY <1>1, <2>2, <2>3 DEF MailRecords
    <2> HIDE DEF r
    <2>. QED  BY <2>1, <2>2, <2>3, <2>4, MailWriteKeeps
  <1>5. CASE HubAcks(m)
    <2> DEFINE r == [mail[m] EXCEPT !.unread = FALSE]
    <2>1. mail' = [mail EXCEPT ![m] = r]  BY <1>5 DEF HubAcks
    <2>2. r \in MailRecords /\ r.to = mail[m].to /\ r.receipt = mail[m].receipt
      BY <1>1 DEF MailRecords
    <2>3. /\ mail[m].unread /\ mail[m].receipt \in {"processed", "stale"}
          /\ UNCHANGED <<due, poll>>
      BY <1>5 DEF HubAcks
    <2>4. mail[m].to # NoName  BY <2>3 DEF DrainInv, UnsentIsBlank, NotSent
    <2> HIDE DEF r
    <2>. QED  BY <2>1, <2>2, <2>3, <2>4, MailWriteKeeps
  <1>6. CASE MarkAcked(m)
    <2> DEFINE r == [mail[m] EXCEPT !.ackPending = FALSE]
    <2>1. mail' = [mail EXCEPT ![m] = r]  BY <1>6 DEF MarkAcked
    <2>2. /\ r \in MailRecords /\ r.to = mail[m].to /\ r.receipt = mail[m].receipt
          /\ r.unread = mail[m].unread
      BY <1>1 DEF MailRecords
    <2>3. ~mail[m].unread /\ UNCHANGED <<due, poll>>  BY <1>6 DEF MarkAcked
    <2>4. mail[m].unread = FALSE  BY <1>1, <2>3 DEF MailRecords
    <2>5. mail[m].to # NoName  BY <1>6 DEF MarkAcked, DrainInv, UnsentIsBlank, NotSent
    <2> HIDE DEF r
    <2>. QED  BY <1>2, <2>1, <2>2, <2>3, <2>4, <2>5, MailWriteKeeps
  <1>. QED  BY <1>3, <1>4, <1>5, <1>6

\* A step of the poller leaves mail and leadership alone: what it must show is what it now
\* knows, and that a row which now counts as drained has nothing left.
LEMMA PollerKeeps ==
  ASSUME DrainInv, DrainNext, UNCHANGED <<mail, due, migrations>>, DrainTypeOK',
         ActiveNames' = ActiveNames,
         \A n \in Names : rows'[n].migration = rows[n].migration,
         ctx'[Poller].migration <= Len(migrations), PollKnows',
         \A m \in due : \/ rows'[mail[m].to] = rows[mail[m].to]
                        \/ /\ rows[mail[m].to].prevState = "drained"
                           /\ rows[mail[m].to].state = "previous"
                        \/ mail[m].receipt = "processed" /\ ~mail[m].unread
  PROVE  DrainInv'
  <1>1. IInv'  BY DrainStore
  <1>2. AckedIsOver' /\ UnsentIsBlank'  BY DEF DrainInv, AckedIsOver, UnsentIsBlank
  <1>3. DueIsPast'  BY DEF DrainInv, DueIsPast
  <1>4. RoundsGrow'  BY DEF DrainInv, RoundsGrow
  <1>5. NothingLeftBehind'
    <2> SUFFICES ASSUME NEW m \in due,
                        \/ rows'[mail[m].to].state = "retired"
                        \/ /\ rows'[mail[m].to].state = "previous"
                           /\ rows'[mail[m].to].prevState = "drained"
                 PROVE  mail[m].receipt = "processed" /\ ~mail[m].unread
      BY DEF NothingLeftBehind
    <2>1. CASE rows'[mail[m].to] = rows[mail[m].to]
      BY <2>1 DEF DrainInv, NothingLeftBehind
    <2>2. CASE rows[mail[m].to].prevState = "drained" /\ rows[mail[m].to].state = "previous"
      BY <2>2 DEF DrainInv, NothingLeftBehind
    <2>. QED  BY <2>1, <2>2
  <1>. QED  BY <1>1, <1>2, <1>3, <1>4, <1>5 DEF DrainInv

\* Steps of the poller that only look.
LEMMA LookingKeeps ==
  ASSUME DrainInv,
         PollActive \/ PollPrevious \/ FetchInbox \/ ReadCounters \/ PollEnds
  PROVE  DrainInv'
  <1>1. DrainNext  BY DEF DrainNext
  <1>2. UNCHANGED <<mail, due, migrations, rows>>
    BY DEF PollActive, PollPrevious, FetchInbox, ReadCounters, PollEnds, ReadPrevious, vars
  <1>3. ActiveNames' = ActiveNames  BY <1>2 DEF ActiveNames
  <1>4. TypeOK /\ DrainTypeOK /\ PollKnows /\ RoundsGrow /\ AckedIsOver
        /\ poll.name \in Names \cup {NoName}
    BY DEF DrainInv, IInv, DrainTypeOK
  <1> DEFINE Known == ctx'[Poller].migration <= Len(migrations)
  <1>10. DrainTypeOK' /\ PollKnows' /\ Known => DrainInv'
    <2>1. UNCHANGED <<mail, due, migrations>>  BY <1>2
    <2>2. \A n \in Names : rows'[n].migration = rows[n].migration  BY <1>2
    <2>3. \A m \in due : rows'[mail[m].to] = rows[mail[m].to]  BY <1>2
    <2>. QED  BY <1>1, <1>3, <2>1, <2>2, <2>3, PollerKeeps
  <1>11. ctx' = ctx => Known  BY <1>4 DEF RoundsGrow
  <1>5. CASE UNCHANGED vars /\ poll' = NoPoll
    <2>1. DrainTypeOK' /\ PollKnows'  BY <1>2, <1>4, <1>5 DEF DrainTypeOK, PollKnows, NoPoll
    <2>2. ctx' = ctx  BY <1>5 DEF vars
    <2>. QED  BY <1>10, <1>11, <2>1, <2>2
  <1>6. CASE PollActive
    <2>1. PICK a \in ActiveNames : /\ rows[a].prevName # NoName
                                   /\ poll' = [at |-> "row", name |-> rows[a].prevName]
      BY <1>6 DEF PollActive
    <2>2. rows[a].prevName \in Names  BY <1>4, <2>1 DEF TypeOK, Rows, ActiveNames
    <2>3. DrainTypeOK' /\ PollKnows'
      BY <1>2, <1>4, <2>1, <2>2 DEF DrainTypeOK, PollKnows
    <2>4. ctx' = ctx  BY <1>6 DEF PollActive, vars
    <2>. QED  BY <1>10, <1>11, <2>3, <2>4
  <1>7. CASE poll.at = "row" /\ ReadPrevious(Poller, poll.name)
             /\ poll' = [poll EXCEPT !.at = "fetch"]
    <2>1. poll'.at = "fetch" /\ poll'.name = poll.name  BY <1>4, <1>7 DEF DrainTypeOK
    <2>2. poll.name \in Names  BY <1>7 DEF ReadPrevious, PreviousNames
    <2>3. DrainTypeOK'  BY <1>2, <1>4, <1>7 DEF DrainTypeOK
    <2>4. PollKnows'  BY <2>1, <2>2 DEF PollKnows
    <2>5. ctx'[Poller] = rows[poll.name]
      BY <1>4, <1>7, DrainAssumption DEF ReadPrevious, TypeOK
    <2>. QED  BY <1>4, <1>10, <2>2, <2>3, <2>4, <2>5 DEF RoundsGrow
  <1>8. CASE UNCHANGED vars /\ poll.at = "fetch" /\ Unread(poll.name) = {}
             /\ poll' = [poll EXCEPT !.at = "counters"]
    <2>1. poll'.at = "counters" /\ poll'.name = poll.name /\ DrainTypeOK'
      BY <1>2, <1>4, <1>8 DEF DrainTypeOK
    <2>2. \A m \in due : mail[m].to = poll.name => ~mail[m].unread
      BY <1>4, <1>8 DEF Unread, DrainTypeOK
    <2>3. PollKnows'  BY <1>2, <1>4, <1>8, <2>1, <2>2 DEF PollKnows
    <2>4. ctx' = ctx  BY <1>8 DEF vars
    <2>. QED  BY <1>10, <1>11, <2>1, <2>3, <2>4
  <1>9. CASE UNCHANGED vars /\ poll.at = "counters" /\ Outstanding(poll.name) = {}
             /\ poll' = [poll EXCEPT !.at = "drained"]
    <2>1. poll'.at = "drained" /\ poll'.name = poll.name /\ DrainTypeOK'
      BY <1>2, <1>4, <1>9 DEF DrainTypeOK
    <2>2. ctx' = ctx  BY <1>9 DEF vars
    <2>3. poll.name \in Names  BY <1>4, <1>9 DEF PollKnows
    <2>4. ASSUME NEW m \in due, mail[m].to = poll.name, ~mail[m].unread
          PROVE  mail[m].receipt = "processed"
      <3>1. m \in Mails  BY <1>4 DEF DrainTypeOK
      <3>2. mail[m].receipt \in {"none", "processed"}
        BY <1>9, <2>4, <3>1 DEF Outstanding
      <3>3. mail[m].to # NoName  BY <2>3, <2>4, BindingAssumption
      <3>4. mail[m].receipt \in {"processed", "stale"}
        BY <1>4, <2>4, <3>1, <3>3 DEF AckedIsOver
      <3>. QED  BY <3>2, <3>4
    <2>5. PollKnows'
      <3> SUFFICES ASSUME rows[poll.name].migration = ctx[Poller].migration,
                          NEW m \in due, mail[m].to = poll.name
                   PROVE  ~mail[m].unread /\ mail[m].receipt = "processed"
        BY <1>2, <2>1, <2>2, <2>3 DEF PollKnows
      <3>1. ~mail[m].unread  BY <1>4, <1>9 DEF PollKnows
      <3>. QED  BY <2>4, <3>1
    <2>. QED  BY <1>10, <1>11, <2>1, <2>2, <2>5
  <1>. QED  BY <1>5, <1>6, <1>7, <1>8, <1>9 DEF PollPrevious, FetchInbox, ReadCounters, PollEnds

\* The two writes of a drain, and what the poller expects between them.
LEMMA ClosingKeeps ==
  ASSUME DrainInv, CloseDrain \/ ExpectDrained \/ RetireDrained
  PROVE  DrainInv'
  <1>1. DrainNext  BY DEF DrainNext
  <1>2. UNCHANGED <<mail, due, migrations>>
    BY DEF CloseDrain, ExpectDrained, RetireDrained, MarkPrevious, Retire, vars
  <1>3. TypeOK /\ DrainTypeOK /\ PollKnows /\ RoundsGrow
        /\ poll.name \in Names \cup {NoName}
    BY DEF DrainInv, IInv, DrainTypeOK
  <1>4. poll.name \in Names
    BY <1>3 DEF CloseDrain, ExpectDrained, RetireDrained, PollKnows
  <1>5. CASE UNCHANGED vars /\ poll' = NoPoll
    <2>1. DrainTypeOK' /\ PollKnows'  BY <1>2, <1>3, <1>5 DEF DrainTypeOK, PollKnows, NoPoll
    <2>2. rows' = rows /\ ctx' = ctx  BY <1>5 DEF vars
    <2>3. ctx'[Poller].migration <= Len(migrations)  BY <1>3, <2>2 DEF RoundsGrow
    <2>4. ActiveNames' = ActiveNames  BY <2>2 DEF ActiveNames
    <2>5. \A m \in due : rows'[mail[m].to] = rows[mail[m].to]  BY <2>2
    <2>6. \A n \in Names : rows'[n].migration = rows[n].migration  BY <2>2
    <2>. QED  BY <1>1, <1>2, <2>1, <2>3, <2>4, <2>5, <2>6, PollerKeeps
  <1>6. CASE /\ poll.at = "drained" /\ MarkPrevious(Poller, poll.name, "drained", ZeroCounts)
             /\ poll' = [poll EXCEPT !.at = "closed"]
    <2>1. "drained" \in PreviousStates /\ ZeroCounts \in Supplied
      <3>1. ZeroCounts \in [Counters -> 0..MaxCount]  BY BindingAssumption DEF ZeroCounts
      <3>. QED  BY <3>1 DEF PreviousStates, Supplied
    <2>2. /\ rows'[poll.name].migration = rows[poll.name].migration
          /\ \A x \in Names \ {poll.name} : rows'[x] = rows[x]
          /\ ActiveNames' = ActiveNames
      BY <1>3, <1>4, <1>6, <2>1, MarkRows, DrainAssumption
    <2>3. rows[poll.name].migration = ctx[Poller].migration /\ ctx' = ctx
      BY <1>6 DEF MarkPrevious, DrainCAS
    <2>4. \A m \in due : mail[m].to = poll.name =>
                            mail[m].receipt = "processed" /\ ~mail[m].unread
      BY <1>3, <1>6, <2>3 DEF PollKnows
    <2>5. poll'.at = "closed" /\ poll'.name = poll.name /\ DrainTypeOK'
      BY <1>2, <1>3, <1>6 DEF DrainTypeOK
    <2>6. PollKnows'  BY <1>2, <1>4, <2>2, <2>3, <2>4, <2>5 DEF PollKnows
    <2>7. \A n \in Names : rows'[n].migration = rows[n].migration  BY <2>2
    <2>8. ctx'[Poller].migration <= Len(migrations)  BY <1>3, <2>3 DEF RoundsGrow
    <2>9. \A m \in due : mail[m].to \in Names  BY DEF DrainInv, DueIsPast
    <2>10. \A m \in due : \/ rows'[mail[m].to] = rows[mail[m].to]
                          \/ mail[m].receipt = "processed" /\ ~mail[m].unread
      BY <2>2, <2>4, <2>9
    <2>. QED  BY <1>1, <1>2, <2>2, <2>5, <2>6, <2>7, <2>8, <2>10, PollerKeeps
  <1>7. CASE ExpectDrained
    <2>1. rows' = rows  BY <1>7 DEF ExpectDrained
    <2>2. ctx'[Poller].migration = ctx[Poller].migration
      <3>1. ctx[Poller] \in Rows /\ Poller \in Workers  BY <1>3, DrainAssumption DEF TypeOK
      <3>2. ctx' = [ctx EXCEPT ![Poller] = [ctx[Poller] EXCEPT !.prevState = "drained",
                                                               !.revision = @ + 1]]
        BY <1>7 DEF ExpectDrained
      <3>3. ctx'[Poller] = [ctx[Poller] EXCEPT !.prevState = "drained", !.revision = @ + 1]
        BY <1>3, <3>1, <3>2 DEF TypeOK
      <3>. QED  BY <3>1, <3>3 DEF Rows
    <2>3. poll'.at = "retire" /\ poll.at = "closed" /\ poll'.name = poll.name /\ DrainTypeOK'
      BY <1>2, <1>3, <1>7 DEF ExpectDrained, DrainTypeOK
    <2>4. PollKnows'  BY <1>2, <1>3, <1>4, <2>1, <2>2, <2>3 DEF PollKnows
    <2>5. ctx'[Poller].migration <= Len(migrations)  BY <1>3, <2>2 DEF RoundsGrow
    <2>6. ActiveNames' = ActiveNames  BY <2>1 DEF ActiveNames
    <2>7. \A m \in due : rows'[mail[m].to] = rows[mail[m].to]  BY <2>1
    <2>8. \A n \in Names : rows'[n].migration = rows[n].migration  BY <2>1
    <2>. QED  BY <1>1, <1>2, <2>3, <2>4, <2>5, <2>6, <2>7, <2>8, PollerKeeps
  <1>8. CASE poll' = NoPoll /\ Retire(Poller, poll.name)
    <2>1. /\ rows[poll.name].state = "previous" /\ rows[poll.name].prevState = "drained"
          /\ rows'[poll.name].migration = rows[poll.name].migration
          /\ \A x \in Names \ {poll.name} : rows'[x] = rows[x]
          /\ ActiveNames' = ActiveNames
      BY <1>3, <1>4, <1>8, RetireRows, DrainAssumption
    <2>2. ctx' = ctx  BY <1>8 DEF Retire
    <2>3. DrainTypeOK' /\ PollKnows'  BY <1>2, <1>3, <1>8 DEF DrainTypeOK, PollKnows, NoPoll
    <2>4. ctx'[Poller].migration <= Len(migrations)  BY <1>3, <2>2 DEF RoundsGrow
    <2>5. \A n \in Names : rows'[n].migration = rows[n].migration  BY <2>1
    <2>6. \A m \in due : mail[m].to \in Names  BY DEF DrainInv, DueIsPast
    <2>7. \A m \in due : \/ rows'[mail[m].to] = rows[mail[m].to]
                         \/ /\ rows[mail[m].to].prevState = "drained"
                            /\ rows[mail[m].to].state = "previous"
      BY <2>1, <2>6
    <2>. QED  BY <1>1, <1>2, <2>1, <2>3, <2>4, <2>5, <2>7, PollerKeeps
  <1>. QED  BY <1>5, <1>6, <1>7, <1>8 DEF CloseDrain, RetireDrained

\* A rebind takes the mails of the leader it replaces into the account, and starts a round
\* that no poller has read.
LEMMA LeaderKeeps ==
  ASSUME DrainInv, LeaderMoves
  PROVE  DrainInv'
  <1>1. DrainNext  BY DEF DrainNext
  <1>2. IInv'  BY <1>1, DrainStore
  <1>3. /\ UNCHANGED <<mail, poll>>
        /\ due' = {m \in Mails : IF mail[m].to \in ActiveNames
                                 THEN mail[m].to \notin ActiveNames'
                                 ELSE m \in due /\ mail[m].to \notin ActiveNames'}
    BY DEF LeaderMoves
  <1>4. /\ IInv /\ TypeOK /\ OneActive /\ DrainTypeOK /\ PollKnows /\ RoundsGrow /\ DueIsPast
        /\ NothingLeftBehind /\ mail \in [Mails -> MailRecords]
    BY DEF DrainInv, IInv, DrainTypeOK, MailRecords
  <1>5. AckedIsOver' /\ UnsentIsBlank' /\ DrainTypeOK'
    BY <1>3 DEF DrainInv, AckedIsOver, UnsentIsBlank, DrainTypeOK
  <1>6. ActiveNames \subseteq Names /\ Poller \in Workers  BY DrainAssumption DEF ActiveNames
  <1>7. DueIsPast'  BY <1>3, <1>4, <1>6 DEF DueIsPast
  <1>8. ctx' = ctx  BY DEF LeaderMoves, ReadActive, UpdateRoute, Rebind
  <1>9. CASE \E c \in Callers : ReadActive(c)
    <2>1. rows' = rows /\ migrations' = migrations  BY <1>9 DEF ReadActive
    <2>2. ActiveNames' = ActiveNames  BY <2>1 DEF ActiveNames
    <2>3. due' \subseteq due  BY <1>3, <2>2
    <2>4. RoundsGrow' /\ PollKnows' /\ NothingLeftBehind'
      BY <1>3, <1>4, <1>8, <2>1, <2>3 DEF RoundsGrow, PollKnows, NothingLeftBehind
    <2>. QED  BY <1>2, <1>5, <1>7, <2>4 DEF DrainInv
  <1>10. ASSUME NEW c \in Callers, NEW n \in Names, NEW p \in Payloads, UpdateRoute(c, n, p)
         PROVE  DrainInv'
    <2>1. /\ ActiveNames = {n} /\ ActiveNames' = {n}
          /\ rows'[n].migration = rows[n].migration
          /\ \A x \in Names \ {n} : rows'[x] = rows[x]
      BY <1>4, <1>10, UpdateRouteRows
    <2>2. migrations' = migrations  BY <1>10 DEF UpdateRoute
    <2>3. due' \subseteq due  BY <1>3, <2>1
    <2>4. \A m \in due' : mail[m].to \in Names \ {n}  BY <1>3, <1>7, <2>1 DEF DueIsPast
    <2>5. RoundsGrow'
      <3>1. \A x \in Names : rows'[x].migration = rows[x].migration  BY <2>1
      <3>. QED  BY <1>4, <1>8, <2>2, <3>1 DEF RoundsGrow
    <2>6. PollKnows'  BY <1>3, <1>4, <1>8, <2>1, <2>3 DEF PollKnows
    <2>7. NothingLeftBehind'
      BY <1>3, <1>4, <2>1, <2>3, <2>4 DEF NothingLeftBehind
    <2>. QED  BY <1>2, <1>5, <1>7, <2>5, <2>6, <2>7 DEF DrainInv
  <1>11. ASSUME NEW c \in Callers, NEW n \in Names, NEW p \in Payloads, Rebind(c, n, p)
         PROVE  DrainInv'
    <2> DEFINE k == Len(migrations) + 1
    <2>1. /\ ActiveNames' = {n} /\ n \notin ActiveNames
          /\ rows'[n].migration = k
          /\ \A a \in ActiveNames : rows'[a] = Demoted(rows[a], k)
          /\ \A x \in Names \ ({n} \cup ActiveNames) : rows'[x] = rows[x]
      BY <1>4, <1>11, RebindRows
    <2>2. Len(migrations') = k /\ Len(migrations) \in Nat  BY <1>4, <1>11 DEF Rebind, TypeOK
    <2>3. \A a \in ActiveNames : rows'[a].migration = k /\ rows'[a].state = "previous"
                                 /\ rows'[a].prevState = "draining"
      <3> TAKE a \in ActiveNames
      <3>1. rows[a] \in Rows /\ rows[a].prevState = "null"
        BY <1>4, <1>6 DEF IInv, TypeOK, ActiveIsFresh
      <3>. QED  BY <2>1, <3>1 DEF Demoted, Rows
    <2>4. \A x \in Names : rows[x].migration \in Nat /\ ctx[Poller].migration \in Nat
      BY <1>4, <1>6 DEF TypeOK, Rows
    <2> HIDE DEF k
    <2>5. k = Len(migrations) + 1  BY DEF k
    <2>6. RoundsGrow'
      <3>1. \A x \in Names : rows'[x].migration <= k
        <4> TAKE x \in Names
        <4>1. CASE x = n \/ x \in ActiveNames  BY <2>1, <2>2, <2>3, <2>5, <4>1
        <4>2. CASE x # n /\ x \notin ActiveNames
          BY <1>4, <2>1, <2>2, <2>4, <2>5, <4>2 DEF RoundsGrow
        <4>. QED  BY <4>1, <4>2
      <3>. QED  BY <1>4, <1>8, <2>2, <2>4, <2>5, <3>1 DEF RoundsGrow
    <2>7. \A m \in due' : mail[m].to \in ActiveNames \/ (m \in due /\ mail[m].to # n)
      BY <1>3, <2>1
    <2>8. \A m \in due : mail[m].to \in Names \ ActiveNames  BY <1>4 DEF DueIsPast
    <2>9. ctx[Poller].migration < k  BY <1>4, <2>2, <2>4, <2>5 DEF RoundsGrow
    <2>10. PollKnows'
      <3>1. poll.at # "idle" => poll.name \in Names  BY <1>4 DEF PollKnows
      <3>2. SUFFICES ASSUME poll.at \in {"counters", "drained", "closed", "retire"},
                            rows'[poll.name].migration = ctx[Poller].migration,
                            NEW m \in due', mail[m].to = poll.name
                     PROVE  /\ ~mail[m].unread
                            /\ poll.at # "counters" => mail[m].receipt = "processed"
        BY <1>3, <1>8, <3>1 DEF PollKnows
      <3>3. poll.name \in Names /\ poll.name # n /\ poll.name \notin ActiveNames
        BY <2>1, <2>3, <2>4, <2>9, <3>1, <3>2
      <3>4. m \in due /\ rows'[poll.name] = rows[poll.name]  BY <2>1, <2>7, <3>2, <3>3
      <3>. QED  BY <1>4, <3>2, <3>4 DEF PollKnows
    <2>11. NothingLeftBehind'
      <3> SUFFICES ASSUME NEW m \in due',
                          \/ rows'[mail[m].to].state = "retired"
                          \/ /\ rows'[mail[m].to].state = "previous"
                             /\ rows'[mail[m].to].prevState = "drained"
                   PROVE  mail[m].receipt = "processed" /\ ~mail[m].unread
        BY <1>3 DEF NothingLeftBehind
      <3>1. mail[m].to \notin ActiveNames  BY <2>3
      <3>2. m \in due /\ rows'[mail[m].to] = rows[mail[m].to]  BY <2>1, <2>7, <2>8, <3>1
      <3>. QED  BY <1>4, <3>2 DEF NothingLeftBehind
    <2>. QED  BY <1>2, <1>5, <1>7, <2>6, <2>10, <2>11 DEF DrainInv
  <1>. QED  BY <1>9, <1>10, <1>11 DEF LeaderMoves

LEMMA DrainInvStep == DrainInv /\ [DrainNext]_<<vars, drainVars>> => DrainInv'
  <1> SUFFICES ASSUME DrainInv, [DrainNext]_<<vars, drainVars>> PROVE DrainInv'  OBVIOUS
  <1>1. CASE UNCHANGED <<vars, drainVars>>
    <2>1. UNCHANGED vars /\ UNCHANGED drainVars  BY <1>1
    <2>2. IInv'  BY <2>1, InvStep DEF DrainInv
    <2>. QED  BY <2>1, <2>2 DEF DrainInv, DrainTypeOK, AckedIsOver, UnsentIsBlank, DueIsPast,
              RoundsGrow, PollKnows, NothingLeftBehind, ActiveNames, vars, drainVars
  <1>2. CASE \E m \in Mails :
               /\ \/ \E n \in Names : MailArrives(m, n)
                  \/ \E to \in ReceiptStates, ackPending \in BOOLEAN :
                        ReceiptMoves(m, to, ackPending)
                  \/ HubAcks(m) \/ MarkAcked(m)
               /\ UNCHANGED vars
    BY <1>2, MailKeeps
  <1>3. CASE PollActive \/ PollPrevious \/ FetchInbox \/ ReadCounters \/ PollEnds
    BY <1>3, LookingKeeps
  <1>4. CASE CloseDrain \/ ExpectDrained \/ RetireDrained  BY <1>4, ClosingKeeps
  <1>5. CASE LeaderMoves  BY <1>5, LeaderKeeps
  <1>. QED  BY <1>1, <1>2, <1>3, <1>4, <1>5 DEF DrainNext

\* However mails arrive, claims change hands, leaders move and polls break off: a mailbox that
\* counts as drained has had every mail processed that reached it as leader.
THEOREM NothingIsLost == DrainSpec => []NoMailLost
  <1>1. DrainInv => NoMailLost  BY DEF DrainInv, NoMailLost
  <1>. QED  BY <1>1, DrainInitSafe, DrainInvStep, PTL DEF DrainSpec
=============================================================================
