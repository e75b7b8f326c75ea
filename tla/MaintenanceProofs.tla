--------------------------- MODULE MaintenanceProofs ---------------------------
(***************************************************************************)
(* Proofs about the maintenance window, for every set of requests,         *)
(* generations and mishaps, and whether a request is built anew or not.    *)
(*                                                                         *)
(* The invariant says where the controller can be, given the journal, and  *)
(* what the journal's stage and intent say of the rest.                    *)
(***************************************************************************)
EXTENDS Maintenance, TLAPS

Built(r) == built[r] \in [previous : Generations, target : Generations]
Probed(g) == \E e \in evidence : e.role = "target" /\ e.gen = g
Inside == {"drive", "intent", "halt", "restore", "revive", "record"}
RollingBack == {"halt", "restore", "revive", "record"}

\* The controller works on the open journal of its own request, or on none.
CtlOK ==
    /\ ctl.at # "down" => ctl.req \in Requests /\ Built(ctl.req)
    /\ ctl.at \in {"freeze", "select"} => ~Open /\ journal.req # ctl.req
    /\ ctl.at = "select" => Frozen \in evidence /\ selector.gen = Me.previous
    /\ ctl.at = "enter" => Frozen \in evidence /\ (Open <=> journal.req = ctl.req)
    /\ ctl.at \in Inside => Open /\ journal.req = ctl.req
    /\ ctl.at = "drive" => journal.intent # "rollback"
    /\ ctl.at \in RollingBack => journal.intent = "rollback"
    /\ ctl.at = "revive" => current = Me.previous /\ selector = Frozen

\* What a journal says of its request, its evidence, the selector and the units.
JournalOK ==
    /\ journal.stage \in Terminal => journal.req \in Requests
    /\ Open =>
       /\ journal.req \in Requests /\ Built(journal.req)
       /\ Binding(journal.req, "previous") \in evidence
       /\ journal.stage \in {"switched", "services_started"} \/ journal.intent = "switch_current"
              => journal.intent = "rollback" \/ Binding(journal.req, "target") \in evidence
       /\ journal.stage = "services_started"
              => journal.intent = "rollback" \/ selector = Binding(journal.req, "target")
       /\ journal.stage = "services_started" /\ journal.intent = "commit"
              => /\ up = Units
                 /\ running = [gen |-> built[journal.req].target,
                               evidence |-> built[journal.req].target]

\* What runs, what `current` points to and what a request goes back to was probed.
AllProbed ==
    /\ Probed(current) /\ Probed(running.gen)
    /\ \A r \in Requests : Built(r) => Probed(built[r].previous)

MaintInv == MaintenanceTypeOK /\ CtlOK /\ JournalOK /\ JournalExplainsCurrent /\ TerminalIsServing /\ AllProbed

\* Abbreviations.
USE DEF Open, Me, Binding, Frozen, Built, Inside, RollingBack, durable, services, Well, MaintInv

-----------------------------------------------------------------------------
\* Wherever the controller goes, its state keeps its type.
LEMMA Going ==
    ASSUME ctl \in Control
    PROVE  /\ Exit => ctl' \in Control
           /\ \A place \in Places : Goto(place) => ctl' \in Control
<1>1. Down \in Control BY SMT DEF Control, Places, Down
<1>2. Exit => ctl' \in Control BY <1>1 DEF Exit
<1>3. ASSUME NEW place \in Places, Goto(place) PROVE ctl' \in Control
  <2>1. [at |-> place, req |-> ctl.req, retry |-> ctl.retry] \in Control BY SMT DEF Control
  <2>2. CASE place = "down" BY <1>1, <1>3, <2>2 DEF Goto
  <2>3. CASE place # "down" BY <2>1, <1>3, <2>3 DEF Goto
  <2>. QED BY <2>2, <2>3
<1>. QED BY <1>2, <1>3

\* A step of the upgrade or of the rollback writes a well-formed journal.
LEMMA Writing ==
    ASSUME journal \in Journal
    PROVE  \A stage \in Stages \cup {"none"}, intent \in Intents \cup {"none"} :
               Advance(stage, intent) \in Journal
BY SMT DEF Journal, Advance

\* A mishap is counted within its bound.
LEMMA Moving ==
    ASSUME mishaps \in 0..MaxMishaps, NEW kind, Mishap(kind)
    PROVE  mishaps' \in 0..MaxMishaps
BY MaintenanceAssumption, SMT DEF Mishap

\* The fields of a journal and of the controller.
LEMMA Fields ==
    /\ journal \in Journal =>
         /\ journal.req \in Requests \cup {NoRequest} /\ journal.stage \in Stages \cup {"none"}
         /\ journal.intent \in Intents \cup {"none"} /\ journal.failed \in BOOLEAN
    /\ ctl \in Control =>
         /\ ctl.at \in Places /\ ctl.req \in Requests \cup {NoRequest} /\ ctl.retry \in BOOLEAN
    /\ NoJournal \in Journal
BY SMT DEF Journal, Control, NoJournal

\* The finite sets and constant records are plain from here on.
USE DEF Terminal, Stages, Intents, Places, Units, Down, NoJournal, MishapKinds

\* A command to the units, whatever becomes of it, keeps the types.
LEMMA Commanding ==
    ASSUME MaintenanceTypeOK, NEW after \in SUBSET Units, NEW goal, Command(after, goal)
    PROVE  MaintenanceTypeOK'
<1>1. ctl' \in Control BY Going, SMT DEF MaintenanceTypeOK, Command, Trouble, Unknown
<1>2. mishaps' \in 0..MaxMishaps BY Moving, SMT DEF MaintenanceTypeOK, Command
<1>3. up' \subseteq Units
  <2>1. up' \in {up, after} BY SMT DEF Command
  <2>. QED BY <2>1 DEF MaintenanceTypeOK
<1>4. running' \in [gen : Generations, evidence : Generations]
  <2>1. current \in Generations /\ selector.gen \in Generations BY SMT DEF MaintenanceTypeOK, Evidence
  <2>. QED BY <2>1, SMT DEF MaintenanceTypeOK, Command
<1>5. UNCHANGED <<durable, built>> BY DEF Command
<1>. QED BY <1>1, <1>2, <1>3, <1>4, <1>5 DEF MaintenanceTypeOK

\* The entry: no journal is open yet, so that there is nothing to explain, and the request's
\* own evidence of the previous generation comes before its journal.
LEMMA FreezeStep == ASSUME MaintInv, Freeze PROVE MaintInv'
<1>1. MaintenanceTypeOK'
  <2>1. journal' \in Journal BY SMT DEF MaintenanceTypeOK, Freeze
  <2>2. ctl' \in Control BY Going, SMT DEF MaintenanceTypeOK, Freeze
  <2>3. mishaps' \in 0..MaxMishaps BY Moving, SMT DEF MaintenanceTypeOK, Freeze
  <2>. QED
      BY <2>1, <2>2, <2>3, MaintenanceAssumption, SMTT(20) DEF MaintenanceTypeOK, CtlOK, JournalOK,
         Freeze, Journal, Control, Evidence, Goto, Exit
<1>. USE MaintenanceAssumption, Fields
     DEF Freeze, Goto, Exit, Mishap, MaintenanceTypeOK, CtlOK, JournalOK
<1>2. CtlOK' BY SMTT(20)
<1>3. JournalOK' BY SMTT(20)
<1>4. JournalExplainsCurrent' BY SMTT(20) DEF JournalExplainsCurrent, Explained
<1>5. TerminalIsServing' BY SMTT(20) DEF TerminalIsServing
<1>6. AllProbed' BY SMTT(20) DEF AllProbed, Probed
<1>. QED BY <1>1, <1>2, <1>3, <1>4, <1>5, <1>6

LEMMA SelectStep == ASSUME MaintInv, Select PROVE MaintInv'
<1>1. MaintenanceTypeOK'
  <2>1. journal' \in Journal BY SMT DEF MaintenanceTypeOK, Select
  <2>2. ctl' \in Control BY Going, SMT DEF MaintenanceTypeOK, Select
  <2>3. mishaps' \in 0..MaxMishaps BY Moving, SMT DEF MaintenanceTypeOK, Select
  <2>. QED
      BY <2>1, <2>2, <2>3, MaintenanceAssumption, SMTT(20) DEF MaintenanceTypeOK, CtlOK, JournalOK,
         Select, Journal, Control, Evidence, Goto, Exit
<1>. USE MaintenanceAssumption, Fields
     DEF Select, Goto, Exit, Mishap, MaintenanceTypeOK, CtlOK, JournalOK
<1>2. CtlOK' BY SMTT(20)
<1>3. JournalOK' BY SMTT(20)
<1>4. JournalExplainsCurrent' BY SMTT(20) DEF JournalExplainsCurrent, Explained
<1>5. TerminalIsServing' BY SMTT(20) DEF TerminalIsServing
<1>6. AllProbed' BY SMTT(20) DEF AllProbed, Probed
<1>. QED BY <1>1, <1>2, <1>3, <1>4, <1>5, <1>6

\* Only a terminal journal is archived; what it promised need not hold afterwards.
LEMMA ArchiveStep == ASSUME MaintInv, Archive PROVE MaintInv'
<1>1. MaintenanceTypeOK'
  <2>1. journal' \in Journal
    <3>1. journal' \in {journal, NoJournal} BY SMT DEF Archive
    <3>. QED BY <3>1, Fields DEF MaintenanceTypeOK
  <2>2. ctl' \in Control BY Going, SMT DEF MaintenanceTypeOK, Archive
  <2>3. mishaps' \in 0..MaxMishaps BY Moving, SMT DEF MaintenanceTypeOK, Archive
  <2>. QED
      BY <2>1, <2>2, <2>3, MaintenanceAssumption, SMTT(20) DEF MaintenanceTypeOK, CtlOK, JournalOK,
         Archive, Journal, Control, Evidence, Goto, Exit
<1>. USE MaintenanceAssumption, Fields
     DEF Archive, Goto, Exit, Mishap, MaintenanceTypeOK, CtlOK, JournalOK
<1>2. CtlOK' BY SMTT(20)
<1>3. JournalOK' BY SMTT(20)
<1>4. JournalExplainsCurrent' BY SMTT(20) DEF JournalExplainsCurrent, Explained
<1>5. TerminalIsServing' BY SMTT(20) DEF TerminalIsServing
<1>6. AllProbed' BY SMTT(20) DEF AllProbed, Probed
<1>. QED BY <1>1, <1>2, <1>3, <1>4, <1>5, <1>6

\* The journal is created when `current` is the request's previous generation.
LEMMA CreateStep == ASSUME MaintInv, Create PROVE MaintInv'
<1>1. MaintenanceTypeOK'
  <2>1. journal' \in Journal
    <3>1. ctl.req \in Requests
        BY SMT DEF CtlOK, Create
    <3>2. [ req |-> ctl.req, stage |-> "prepared", intent |-> "stop_services",
            failed |-> FALSE ] \in Journal
        BY <3>1, SMT DEF Journal, Stages, Intents
    <3>. QED BY <3>2 DEF MaintenanceTypeOK, Create, Write
  <2>2. ctl' \in Control BY Going, SMT DEF MaintenanceTypeOK, Create, Write
  <2>3. mishaps' \in 0..MaxMishaps BY Moving, SMT DEF MaintenanceTypeOK, Create, Write
  <2>. QED
      BY <2>1, <2>2, <2>3, MaintenanceAssumption, SMTT(20) DEF MaintenanceTypeOK, CtlOK, JournalOK,
         Create, Write, Journal, Control, Evidence, Goto, Exit
<1>. USE MaintenanceAssumption, Fields
     DEF Create, Write, Goto, Exit, Mishap, MaintenanceTypeOK, CtlOK, JournalOK
<1>2. CtlOK' BY SMTT(20)
<1>3. JournalOK' BY SMTT(20)
<1>4. JournalExplainsCurrent' BY SMTT(20) DEF JournalExplainsCurrent, Explained
<1>5. TerminalIsServing' BY SMTT(20) DEF TerminalIsServing
<1>6. AllProbed' BY SMTT(20) DEF AllProbed, Probed
<1>. QED BY <1>1, <1>2, <1>3, <1>4, <1>5, <1>6

\* The controller enters the branch that the journal's intent names.
LEMMA ResumeStep == ASSUME MaintInv, ResumeUpgrade PROVE MaintInv'
<1>1. MaintenanceTypeOK'
  <2>1. journal' \in Journal BY SMT DEF MaintenanceTypeOK, ResumeUpgrade
  <2>2. ctl' \in Control
    <3>1. [at |-> "intent", req |-> ctl.req, retry |-> TRUE] \in Control
        BY SMT DEF MaintenanceTypeOK, Control, Places
    <3>2. [at |-> "drive", req |-> ctl.req, retry |-> ctl.retry] \in Control
        BY SMT DEF MaintenanceTypeOK, Control, Places
    <3>. QED BY Going, <3>1, <3>2 DEF MaintenanceTypeOK, ResumeUpgrade
  <2>3. mishaps' \in 0..MaxMishaps BY Moving, SMT DEF MaintenanceTypeOK, ResumeUpgrade
  <2>. QED
      BY <2>1, <2>2, <2>3, MaintenanceAssumption, SMTT(20) DEF MaintenanceTypeOK, CtlOK, JournalOK,
         ResumeUpgrade, Journal, Control, Evidence, Goto, Exit
<1>. USE MaintenanceAssumption, Fields
     DEF ResumeUpgrade, Goto, Exit, Mishap, MaintenanceTypeOK, CtlOK, JournalOK
<1>2. CtlOK' BY SMTT(20)
<1>3. JournalOK' BY SMTT(20)
<1>4. JournalExplainsCurrent' BY SMTT(20) DEF JournalExplainsCurrent, Explained
<1>5. TerminalIsServing' BY SMTT(20) DEF TerminalIsServing
<1>6. AllProbed' BY SMTT(20) DEF AllProbed, Probed
<1>. QED BY <1>1, <1>2, <1>3, <1>4, <1>5, <1>6

\* The units: they change while the journal promises nothing of them.
LEMMA StopServiceStep == ASSUME MaintInv, StopService PROVE MaintInv'
<1>1. MaintenanceTypeOK'
  <2>1. PICK after \in SUBSET Units, goal \in SUBSET Units : Command(after, goal)
      BY SMT DEF StopService, MaintenanceTypeOK
  <2>. QED BY <2>1, Commanding
<1>. USE MaintenanceAssumption, Fields
     DEF StopService, Command, Trouble, Unknown, Goto, Exit, Mishap, MaintenanceTypeOK, CtlOK, JournalOK
<1>2. CtlOK' BY SMTT(20)
<1>3. JournalOK' BY SMTT(20)
<1>4. JournalExplainsCurrent' BY SMTT(20) DEF JournalExplainsCurrent, Explained
<1>5. TerminalIsServing' BY SMTT(20) DEF TerminalIsServing
<1>6. AllProbed' BY SMTT(20) DEF AllProbed, Probed
<1>. QED BY <1>1, <1>2, <1>3, <1>4, <1>5, <1>6

LEMMA StartServiceStep == ASSUME MaintInv, StartService PROVE MaintInv'
<1>1. MaintenanceTypeOK'
  <2>1. PICK after \in SUBSET Units, goal \in SUBSET Units : Command(after, goal)
      BY SMT DEF StartService, MaintenanceTypeOK
  <2>. QED BY <2>1, Commanding
<1>. USE MaintenanceAssumption, Fields
     DEF StartService, Command, Trouble, Unknown, Goto, Exit, Mishap, MaintenanceTypeOK, CtlOK,
         JournalOK
<1>2. CtlOK' BY SMTT(20)
<1>3. JournalOK' BY SMTT(20)
<1>4. JournalExplainsCurrent' BY SMTT(20) DEF JournalExplainsCurrent, Explained
<1>5. TerminalIsServing' BY SMTT(20) DEF TerminalIsServing
<1>6. AllProbed' BY SMTT(20) DEF AllProbed, Probed
<1>. QED BY <1>1, <1>2, <1>3, <1>4, <1>5, <1>6

\* The upgrade: each write of the journal states what the step before it has done.
LEMMA StoppedStep == ASSUME MaintInv, Stopped PROVE MaintInv'
<1>1. MaintenanceTypeOK'
  <2>1. journal' \in Journal BY Writing, SMT DEF MaintenanceTypeOK, Stopped, Drive, Write, OnlyJournal
  <2>2. ctl' \in Control BY Going, SMT DEF MaintenanceTypeOK, Stopped, Drive, Advance, Write, OnlyJournal
  <2>3. mishaps' \in 0..MaxMishaps
      BY Moving, SMT DEF MaintenanceTypeOK, Stopped, Drive, Advance, Write, OnlyJournal
  <2>. QED
      BY <2>1, <2>2, <2>3, MaintenanceAssumption, SMTT(20) DEF MaintenanceTypeOK, CtlOK, JournalOK,
         Stopped, Drive, Advance, Write, OnlyJournal, Journal, Control, Evidence, Goto, Exit
<1>. USE MaintenanceAssumption, Fields
     DEF Stopped, Drive, Advance, Write, OnlyJournal, Goto, Exit, Mishap, MaintenanceTypeOK, CtlOK,
         JournalOK
<1>2. CtlOK' BY SMTT(20)
<1>3. JournalOK' BY SMTT(20)
<1>4. JournalExplainsCurrent' BY SMTT(20) DEF JournalExplainsCurrent, Explained
<1>5. TerminalIsServing' BY SMTT(20) DEF TerminalIsServing
<1>6. AllProbed' BY SMTT(20) DEF AllProbed, Probed
<1>. QED BY <1>1, <1>2, <1>3, <1>4, <1>5, <1>6

LEMMA ConflictStep == ASSUME MaintInv, Conflict PROVE MaintInv'
<1>1. MaintenanceTypeOK'
  <2>1. journal' \in Journal BY SMT DEF MaintenanceTypeOK, Conflict, Trouble
  <2>2. ctl' \in Control BY Going, SMT DEF MaintenanceTypeOK, Conflict, Trouble
  <2>3. mishaps' \in 0..MaxMishaps BY Moving, SMT DEF MaintenanceTypeOK, Conflict, Trouble
  <2>. QED
      BY <2>1, <2>2, <2>3, MaintenanceAssumption, SMTT(20) DEF MaintenanceTypeOK, CtlOK, JournalOK,
         Conflict, Trouble, Journal, Control, Evidence, Goto, Exit
<1>. USE MaintenanceAssumption, Fields
     DEF Conflict, Trouble, Goto, Exit, Mishap, MaintenanceTypeOK, CtlOK, JournalOK
<1>2. CtlOK' BY SMTT(20)
<1>3. JournalOK' BY SMTT(20)
<1>4. JournalExplainsCurrent' BY SMTT(20) DEF JournalExplainsCurrent, Explained
<1>5. TerminalIsServing' BY SMTT(20) DEF TerminalIsServing
<1>6. AllProbed' BY SMTT(20) DEF AllProbed, Probed
<1>. QED BY <1>1, <1>2, <1>3, <1>4, <1>5, <1>6

LEMMA PrepareTargetStep == ASSUME MaintInv, PrepareTarget PROVE MaintInv'
<1>1. MaintenanceTypeOK'
  <2>1. journal' \in Journal BY SMT DEF MaintenanceTypeOK, PrepareTarget, PrepareAs, Drive, Trouble
  <2>2. ctl' \in Control BY Going, SMT DEF MaintenanceTypeOK, PrepareTarget, PrepareAs, Drive, Trouble
  <2>3. mishaps' \in 0..MaxMishaps
      BY Moving, SMT DEF MaintenanceTypeOK, PrepareTarget, PrepareAs, Drive, Trouble
  <2>. QED
      BY <2>1, <2>2, <2>3, MaintenanceAssumption, SMTT(20) DEF MaintenanceTypeOK, CtlOK, JournalOK,
         PrepareTarget, PrepareAs, Drive, Trouble, Journal, Control, Evidence, Goto, Exit
<1>. USE MaintenanceAssumption, Fields
     DEF PrepareTarget, PrepareAs, Drive, Trouble, Goto, Exit, Mishap, MaintenanceTypeOK, CtlOK,
         JournalOK
<1>2. CtlOK' BY SMTT(20)
<1>3. JournalOK' BY SMTT(20)
<1>4. JournalExplainsCurrent' BY SMTT(20) DEF JournalExplainsCurrent, Explained
<1>5. TerminalIsServing' BY SMTT(20) DEF TerminalIsServing
<1>6. AllProbed' BY SMTT(20) DEF AllProbed, Probed
<1>. QED BY <1>1, <1>2, <1>3, <1>4, <1>5, <1>6

LEMMA RecordSwitchStep == ASSUME MaintInv, RecordSwitch PROVE MaintInv'
<1>1. MaintenanceTypeOK'
  <2>1. journal' \in Journal
      BY Writing, SMT DEF MaintenanceTypeOK, RecordSwitch, Drive, Write, OnlyJournal
  <2>2. ctl' \in Control
      BY Going, SMT DEF MaintenanceTypeOK, RecordSwitch, Drive, Advance, Write, OnlyJournal
  <2>3. mishaps' \in 0..MaxMishaps
      BY Moving, SMT DEF MaintenanceTypeOK, RecordSwitch, Drive, Advance, Write, OnlyJournal
  <2>. QED
      BY <2>1, <2>2, <2>3, MaintenanceAssumption, SMTT(20) DEF MaintenanceTypeOK, CtlOK, JournalOK,
         RecordSwitch, Drive, Advance, Write, OnlyJournal, Journal, Control, Evidence, Goto,
         Exit
<1>. USE MaintenanceAssumption, Fields
     DEF RecordSwitch, Drive, Advance, Write, OnlyJournal, Goto, Exit, Mishap, MaintenanceTypeOK, CtlOK,
         JournalOK
<1>2. CtlOK' BY SMTT(20)
<1>3. JournalOK' BY SMTT(20)
<1>4. JournalExplainsCurrent' BY SMTT(20) DEF JournalExplainsCurrent, Explained
<1>5. TerminalIsServing' BY SMTT(20) DEF TerminalIsServing
<1>6. AllProbed' BY SMTT(20) DEF AllProbed, Probed
<1>. QED BY <1>1, <1>2, <1>3, <1>4, <1>5, <1>6

\* `current` moves when the journal says that it may.
LEMMA SwitchStep == ASSUME MaintInv, Switch PROVE MaintInv'
<1>1. MaintenanceTypeOK'
  <2>1. journal' \in Journal BY SMT DEF MaintenanceTypeOK, Switch, Drive, SwitchTo, Trouble
  <2>2. ctl' \in Control BY Going, SMT DEF MaintenanceTypeOK, Switch, Drive, SwitchTo, Trouble
  <2>3. mishaps' \in 0..MaxMishaps BY Moving, SMT DEF MaintenanceTypeOK, Switch, Drive, SwitchTo, Trouble
  <2>. QED
      BY <2>1, <2>2, <2>3, MaintenanceAssumption, SMTT(20) DEF MaintenanceTypeOK, CtlOK, JournalOK,
         Switch, Drive, SwitchTo, Trouble, Journal, Control, Evidence, Goto, Exit
<1>. USE MaintenanceAssumption, Fields
     DEF Switch, Drive, SwitchTo, Trouble, Goto, Exit, Mishap, MaintenanceTypeOK, CtlOK, JournalOK
<1>2. CtlOK' BY SMTT(20)
<1>3. JournalOK' BY SMTT(20)
<1>4. JournalExplainsCurrent' BY SMTT(20) DEF JournalExplainsCurrent, Explained
<1>5. TerminalIsServing' BY SMTT(20) DEF TerminalIsServing
<1>6. AllProbed' BY SMTT(20) DEF AllProbed, Probed
<1>. QED BY <1>1, <1>2, <1>3, <1>4, <1>5, <1>6

LEMMA SwitchedStep == ASSUME MaintInv, Switched PROVE MaintInv'
<1>1. MaintenanceTypeOK'
  <2>1. journal' \in Journal BY Writing, SMT DEF MaintenanceTypeOK, Switched, Drive, Write, OnlyJournal
  <2>2. ctl' \in Control
      BY Going, SMT DEF MaintenanceTypeOK, Switched, Drive, Advance, Write, OnlyJournal
  <2>3. mishaps' \in 0..MaxMishaps
      BY Moving, SMT DEF MaintenanceTypeOK, Switched, Drive, Advance, Write, OnlyJournal
  <2>. QED
      BY <2>1, <2>2, <2>3, MaintenanceAssumption, SMTT(20) DEF MaintenanceTypeOK, CtlOK, JournalOK,
         Switched, Drive, Advance, Write, OnlyJournal, Journal, Control, Evidence, Goto,
         Exit
<1>. USE MaintenanceAssumption, Fields
     DEF Switched, Drive, Advance, Write, OnlyJournal, Goto, Exit, Mishap, MaintenanceTypeOK, CtlOK,
         JournalOK
<1>2. CtlOK' BY SMTT(20)
<1>3. JournalOK' BY SMTT(20)
<1>4. JournalExplainsCurrent' BY SMTT(20) DEF JournalExplainsCurrent, Explained
<1>5. TerminalIsServing' BY SMTT(20) DEF TerminalIsServing
<1>6. AllProbed' BY SMTT(20) DEF AllProbed, Probed
<1>. QED BY <1>1, <1>2, <1>3, <1>4, <1>5, <1>6

LEMMA RecordStartStep == ASSUME MaintInv, RecordStart PROVE MaintInv'
<1>1. MaintenanceTypeOK'
  <2>1. journal' \in Journal
      BY Writing, SMT DEF MaintenanceTypeOK, RecordStart, Drive, Write, OnlyJournal
  <2>2. ctl' \in Control
      BY Going, SMT DEF MaintenanceTypeOK, RecordStart, Drive, Advance, Write, OnlyJournal
  <2>3. mishaps' \in 0..MaxMishaps
      BY Moving, SMT DEF MaintenanceTypeOK, RecordStart, Drive, Advance, Write, OnlyJournal
  <2>. QED
      BY <2>1, <2>2, <2>3, MaintenanceAssumption, SMTT(20) DEF MaintenanceTypeOK, CtlOK, JournalOK,
         RecordStart, Drive, Advance, Write, OnlyJournal, Journal, Control, Evidence, Goto,
         Exit
<1>. USE MaintenanceAssumption, Fields
     DEF RecordStart, Drive, Advance, Write, OnlyJournal, Goto, Exit, Mishap, MaintenanceTypeOK, CtlOK,
         JournalOK
<1>2. CtlOK' BY SMTT(20)
<1>3. JournalOK' BY SMTT(20)
<1>4. JournalExplainsCurrent' BY SMTT(20) DEF JournalExplainsCurrent, Explained
<1>5. TerminalIsServing' BY SMTT(20) DEF TerminalIsServing
<1>6. AllProbed' BY SMTT(20) DEF AllProbed, Probed
<1>. QED BY <1>1, <1>2, <1>3, <1>4, <1>5, <1>6

LEMMA SelectTargetStep == ASSUME MaintInv, SelectTarget PROVE MaintInv'
<1>1. MaintenanceTypeOK'
  <2>1. journal' \in Journal BY SMT DEF MaintenanceTypeOK, SelectTarget, Drive, SelectRole, Trouble
  <2>2. ctl' \in Control BY Going, SMT DEF MaintenanceTypeOK, SelectTarget, Drive, SelectRole, Trouble
  <2>3. mishaps' \in 0..MaxMishaps
      BY Moving, SMT DEF MaintenanceTypeOK, SelectTarget, Drive, SelectRole, Trouble
  <2>. QED
      BY <2>1, <2>2, <2>3, MaintenanceAssumption, SMTT(20) DEF MaintenanceTypeOK, CtlOK, JournalOK,
         SelectTarget, Drive, SelectRole, Trouble, Journal, Control, Evidence, Goto, Exit
<1>. USE MaintenanceAssumption, Fields
     DEF SelectTarget, Drive, SelectRole, Trouble, Goto, Exit, Mishap, MaintenanceTypeOK, CtlOK,
         JournalOK
<1>2. CtlOK' BY SMTT(20)
<1>3. JournalOK' BY SMTT(20)
<1>4. JournalExplainsCurrent' BY SMTT(20) DEF JournalExplainsCurrent, Explained
<1>5. TerminalIsServing' BY SMTT(20) DEF TerminalIsServing
<1>6. AllProbed' BY SMTT(20) DEF AllProbed, Probed
<1>. QED BY <1>1, <1>2, <1>3, <1>4, <1>5, <1>6

LEMMA StartedStep == ASSUME MaintInv, Started PROVE MaintInv'
<1>1. MaintenanceTypeOK'
  <2>1. journal' \in Journal BY Writing, SMT DEF MaintenanceTypeOK, Started, Drive, Write, OnlyJournal
  <2>2. ctl' \in Control BY Going, SMT DEF MaintenanceTypeOK, Started, Drive, Advance, Write, OnlyJournal
  <2>3. mishaps' \in 0..MaxMishaps
      BY Moving, SMT DEF MaintenanceTypeOK, Started, Drive, Advance, Write, OnlyJournal
  <2>. QED
      BY <2>1, <2>2, <2>3, MaintenanceAssumption, SMTT(20) DEF MaintenanceTypeOK, CtlOK, JournalOK,
         Started, Drive, Advance, Write, OnlyJournal, Journal, Control, Evidence, Goto, Exit
<1>. USE MaintenanceAssumption, Fields
     DEF Started, Drive, Advance, Write, OnlyJournal, Goto, Exit, Mishap, MaintenanceTypeOK, CtlOK,
         JournalOK
<1>2. CtlOK' BY SMTT(20)
<1>3. JournalOK' BY SMTT(20)
<1>4. JournalExplainsCurrent' BY SMTT(20) DEF JournalExplainsCurrent, Explained
<1>5. TerminalIsServing' BY SMTT(20) DEF TerminalIsServing
<1>6. AllProbed' BY SMTT(20) DEF AllProbed, Probed
<1>. QED BY <1>1, <1>2, <1>3, <1>4, <1>5, <1>6

LEMMA WaitTargetStep == ASSUME MaintInv, WaitTarget PROVE MaintInv'
<1>1. MaintenanceTypeOK'
  <2>1. journal' \in Journal
      BY Writing, SMT DEF MaintenanceTypeOK, WaitTarget, Drive, Probe, Ready, Write, Trouble
  <2>2. ctl' \in Control
      BY Going, SMT DEF MaintenanceTypeOK, WaitTarget, Drive, Probe, Ready, Advance, Write, Trouble
  <2>3. mishaps' \in 0..MaxMishaps
      BY Moving, SMT DEF MaintenanceTypeOK, WaitTarget, Drive, Probe, Ready, Advance, Write, Trouble
  <2>. QED
      BY <2>1, <2>2, <2>3, MaintenanceAssumption, SMTT(20) DEF MaintenanceTypeOK, CtlOK, JournalOK,
         WaitTarget, Drive, Probe, Ready, Advance, Write, Trouble, Journal, Control,
         Evidence, Goto, Exit
<1>. USE MaintenanceAssumption, Fields
     DEF WaitTarget, Drive, Probe, Ready, Advance, Write, Trouble, Goto, Exit, Mishap,
         MaintenanceTypeOK, CtlOK, JournalOK
<1>2. CtlOK' BY SMTT(20)
<1>3. JournalOK' BY SMTT(20)
<1>4. JournalExplainsCurrent' BY SMTT(20) DEF JournalExplainsCurrent, Explained
<1>5. TerminalIsServing' BY SMTT(20) DEF TerminalIsServing
<1>6. AllProbed' BY SMTT(20) DEF AllProbed, Probed
<1>. QED BY <1>1, <1>2, <1>3, <1>4, <1>5, <1>6

\* What was probed before the intent to commit still runs, a restart included, since link and
\* selector are those of the target (Explained, and JournalOK for the selector).
LEMMA CommitStep == ASSUME MaintInv, Commit PROVE MaintInv'
<1>1. MaintenanceTypeOK'
  <2>1. journal' \in Journal BY Writing, SMT DEF MaintenanceTypeOK, Commit, Drive, Write, OnlyJournal
  <2>2. ctl' \in Control BY Going, SMT DEF MaintenanceTypeOK, Commit, Drive, Advance, Write, OnlyJournal
  <2>3. mishaps' \in 0..MaxMishaps
      BY Moving, SMT DEF MaintenanceTypeOK, Commit, Drive, Advance, Write, OnlyJournal
  <2>. QED
      BY <2>1, <2>2, <2>3, MaintenanceAssumption, SMTT(20) DEF MaintenanceTypeOK, CtlOK, JournalOK,
         Commit, Drive, Advance, Write, OnlyJournal, Journal, Control, Evidence, Goto, Exit
<1>. USE MaintenanceAssumption, Fields
     DEF Commit, Drive, Advance, Write, OnlyJournal, Goto, Exit, Mishap, MaintenanceTypeOK, CtlOK,
         JournalOK
<1>2. CtlOK' BY SMTT(20)
<1>3. JournalOK' BY SMTT(20) DEF JournalExplainsCurrent, Explained
<1>4. JournalExplainsCurrent' BY SMTT(20) DEF JournalExplainsCurrent, Explained
<1>5. TerminalIsServing' BY SMTT(20) DEF TerminalIsServing, JournalExplainsCurrent, Explained
<1>6. AllProbed' BY SMTT(20) DEF AllProbed, Probed
<1>. QED BY <1>1, <1>2, <1>3, <1>4, <1>5, <1>6

\* The rollback: once it is intended, both generations explain `current`.
LEMMA BeginRollbackStep == ASSUME MaintInv, BeginRollback PROVE MaintInv'
<1>1. MaintenanceTypeOK'
  <2>1. journal' \in Journal
    <3>1. [ req |-> journal.req, stage |-> journal.stage, intent |-> "rollback",
            failed |-> FALSE ] \in Journal
        BY SMT DEF MaintenanceTypeOK, Journal, Intents
    <3>. QED BY <3>1 DEF MaintenanceTypeOK, BeginRollback, Write, OnlyJournal
  <2>2. ctl' \in Control BY Going, SMT DEF MaintenanceTypeOK, BeginRollback, Write, OnlyJournal
  <2>3. mishaps' \in 0..MaxMishaps
      BY Moving, SMT DEF MaintenanceTypeOK, BeginRollback, Write, OnlyJournal
  <2>. QED
      BY <2>1, <2>2, <2>3, MaintenanceAssumption, SMTT(20) DEF MaintenanceTypeOK, CtlOK, JournalOK,
         BeginRollback, Write, OnlyJournal, Journal, Control, Evidence, Goto, Exit
<1>. USE MaintenanceAssumption, Fields
     DEF BeginRollback, Write, OnlyJournal, Goto, Exit, Mishap, MaintenanceTypeOK, CtlOK, JournalOK
<1>2. CtlOK' BY SMTT(20)
<1>3. JournalOK' BY SMTT(20)
<1>4. JournalExplainsCurrent' BY SMTT(20) DEF JournalExplainsCurrent, Explained
<1>5. TerminalIsServing' BY SMTT(20) DEF TerminalIsServing
<1>6. AllProbed' BY SMTT(20) DEF AllProbed, Probed
<1>. QED BY <1>1, <1>2, <1>3, <1>4, <1>5, <1>6

LEMMA HaltedStep == ASSUME MaintInv, Halted PROVE MaintInv'
<1>1. MaintenanceTypeOK'
  <2>1. journal' \in Journal BY SMT DEF MaintenanceTypeOK, Halted
  <2>2. ctl' \in Control BY Going, SMT DEF MaintenanceTypeOK, Halted
  <2>3. mishaps' \in 0..MaxMishaps BY Moving, SMT DEF MaintenanceTypeOK, Halted
  <2>. QED
      BY <2>1, <2>2, <2>3, MaintenanceAssumption, SMTT(20) DEF MaintenanceTypeOK, CtlOK, JournalOK,
         Halted, Journal, Control, Evidence, Goto, Exit
<1>. USE MaintenanceAssumption, Fields
     DEF Halted, Goto, Exit, Mishap, MaintenanceTypeOK, CtlOK, JournalOK
<1>2. CtlOK' BY SMTT(20)
<1>3. JournalOK' BY SMTT(20)
<1>4. JournalExplainsCurrent' BY SMTT(20) DEF JournalExplainsCurrent, Explained
<1>5. TerminalIsServing' BY SMTT(20) DEF TerminalIsServing
<1>6. AllProbed' BY SMTT(20) DEF AllProbed, Probed
<1>. QED BY <1>1, <1>2, <1>3, <1>4, <1>5, <1>6

LEMMA SwitchBackStep == ASSUME MaintInv, SwitchBack PROVE MaintInv'
<1>1. MaintenanceTypeOK'
  <2>1. journal' \in Journal BY SMT DEF MaintenanceTypeOK, SwitchBack, SwitchTo, Trouble
  <2>2. ctl' \in Control BY Going, SMT DEF MaintenanceTypeOK, SwitchBack, SwitchTo, Trouble
  <2>3. mishaps' \in 0..MaxMishaps BY Moving, SMT DEF MaintenanceTypeOK, SwitchBack, SwitchTo, Trouble
  <2>. QED
      BY <2>1, <2>2, <2>3, MaintenanceAssumption, SMTT(20) DEF MaintenanceTypeOK, CtlOK, JournalOK,
         SwitchBack, SwitchTo, Trouble, Journal, Control, Evidence, Goto, Exit
<1>. USE MaintenanceAssumption, Fields
     DEF SwitchBack, SwitchTo, Trouble, Goto, Exit, Mishap, MaintenanceTypeOK, CtlOK, JournalOK
<1>2. CtlOK' BY SMTT(20)
<1>3. JournalOK' BY SMTT(20)
<1>4. JournalExplainsCurrent' BY SMTT(20) DEF JournalExplainsCurrent, Explained
<1>5. TerminalIsServing' BY SMTT(20) DEF TerminalIsServing
<1>6. AllProbed' BY SMTT(20) DEF AllProbed, Probed
<1>. QED BY <1>1, <1>2, <1>3, <1>4, <1>5, <1>6

LEMMA SelectPreviousStep == ASSUME MaintInv, SelectPrevious PROVE MaintInv'
<1>1. MaintenanceTypeOK'
  <2>1. journal' \in Journal BY SMT DEF MaintenanceTypeOK, SelectPrevious, SelectRole, Trouble
  <2>2. ctl' \in Control BY Going, SMT DEF MaintenanceTypeOK, SelectPrevious, SelectRole, Trouble
  <2>3. mishaps' \in 0..MaxMishaps
      BY Moving, SMT DEF MaintenanceTypeOK, SelectPrevious, SelectRole, Trouble
  <2>. QED
      BY <2>1, <2>2, <2>3, MaintenanceAssumption, SMTT(20) DEF MaintenanceTypeOK, CtlOK, JournalOK,
         SelectPrevious, SelectRole, Trouble, Journal, Control, Evidence, Goto, Exit
<1>. USE MaintenanceAssumption, Fields
     DEF SelectPrevious, SelectRole, Trouble, Goto, Exit, Mishap, MaintenanceTypeOK, CtlOK, JournalOK
<1>2. CtlOK' BY SMTT(20)
<1>3. JournalOK' BY SMTT(20)
<1>4. JournalExplainsCurrent' BY SMTT(20) DEF JournalExplainsCurrent, Explained
<1>5. TerminalIsServing' BY SMTT(20) DEF TerminalIsServing
<1>6. AllProbed' BY SMTT(20) DEF AllProbed, Probed
<1>. QED BY <1>1, <1>2, <1>3, <1>4, <1>5, <1>6

\* The end of the rollback: link and selector are back (CtlOK), and the probe answers.
LEMMA WaitPreviousStep == ASSUME MaintInv, WaitPrevious PROVE MaintInv'
<1>1. MaintenanceTypeOK'
  <2>1. journal' \in Journal
      BY Writing, SMT DEF MaintenanceTypeOK, WaitPrevious, Probe, Ready, Write, Trouble
  <2>2. ctl' \in Control
      BY Going, SMT DEF MaintenanceTypeOK, WaitPrevious, Probe, Ready, Advance, Write, Trouble
  <2>3. mishaps' \in 0..MaxMishaps
      BY Moving, SMT DEF MaintenanceTypeOK, WaitPrevious, Probe, Ready, Advance, Write, Trouble
  <2>. QED
      BY <2>1, <2>2, <2>3, MaintenanceAssumption, SMTT(20) DEF MaintenanceTypeOK, CtlOK, JournalOK,
         WaitPrevious, Probe, Ready, Advance, Write, Trouble, Journal, Control, Evidence,
         Goto, Exit
<1>. USE MaintenanceAssumption, Fields
     DEF WaitPrevious, Probe, Ready, Advance, Write, Trouble, Goto, Exit, Mishap, MaintenanceTypeOK,
         CtlOK, JournalOK
<1>2. CtlOK' BY SMTT(20)
<1>3. JournalOK' BY SMTT(20)
<1>4. JournalExplainsCurrent' BY SMTT(20) DEF JournalExplainsCurrent, Explained
<1>5. TerminalIsServing' BY SMTT(20) DEF TerminalIsServing
<1>6. AllProbed' BY SMTT(20) DEF AllProbed, Probed
<1>. QED BY <1>1, <1>2, <1>3, <1>4, <1>5, <1>6

LEMMA RecordFailureStep == ASSUME MaintInv, RecordFailure PROVE MaintInv'
<1>1. MaintenanceTypeOK'
  <2>1. journal' \in Journal
    <3>1. [ req |-> journal.req, stage |-> journal.stage, intent |-> journal.intent,
            failed |-> TRUE ] \in Journal
        BY SMT DEF MaintenanceTypeOK, Journal
    <3>. QED BY <3>1 DEF MaintenanceTypeOK, RecordFailure, OnlyJournal
  <2>2. ctl' \in Control
    <3>1. [at |-> "intent", req |-> ctl.req, retry |-> FALSE] \in Control
        BY SMT DEF MaintenanceTypeOK, Control, Places
    <3>. QED BY Going, <3>1 DEF MaintenanceTypeOK, RecordFailure, Exit
  <2>3. mishaps' \in 0..MaxMishaps BY Moving, SMT DEF MaintenanceTypeOK, RecordFailure, OnlyJournal
  <2>. QED
      BY <2>1, <2>2, <2>3, MaintenanceAssumption, SMTT(20) DEF MaintenanceTypeOK, CtlOK, JournalOK,
         RecordFailure, OnlyJournal, Journal, Control, Evidence, Goto, Exit
<1>. USE MaintenanceAssumption, Fields
     DEF RecordFailure, OnlyJournal, Goto, Exit, Mishap, MaintenanceTypeOK, CtlOK, JournalOK
<1>2. CtlOK' BY SMTT(20)
<1>3. JournalOK' BY SMTT(20)
<1>4. JournalExplainsCurrent' BY SMTT(20) DEF JournalExplainsCurrent, Explained
<1>5. TerminalIsServing' BY SMTT(20) DEF TerminalIsServing
<1>6. AllProbed' BY SMTT(20) DEF AllProbed, Probed
<1>. QED BY <1>1, <1>2, <1>3, <1>4, <1>5, <1>6

\* The environment: a controller that is gone claims nothing; a restart of the machine starts
\* the units with link and selector as they are.
LEMMA CrashStep == ASSUME MaintInv, Crash PROVE MaintInv'
<1>1. MaintenanceTypeOK'
  <2>1. journal' \in Journal BY SMT DEF MaintenanceTypeOK, Crash
  <2>2. ctl' \in Control BY Going, SMT DEF MaintenanceTypeOK, Crash
  <2>3. mishaps' \in 0..MaxMishaps BY Moving, SMT DEF MaintenanceTypeOK, Crash
  <2>. QED
      BY <2>1, <2>2, <2>3, MaintenanceAssumption, SMTT(20) DEF MaintenanceTypeOK, CtlOK, JournalOK,
         Crash, Journal, Control, Evidence, Goto, Exit
<1>. USE MaintenanceAssumption, Fields
     DEF Crash, Goto, Exit, Mishap, MaintenanceTypeOK, CtlOK, JournalOK
<1>2. CtlOK' BY SMTT(20)
<1>3. JournalOK' BY SMTT(20)
<1>4. JournalExplainsCurrent' BY SMTT(20) DEF JournalExplainsCurrent, Explained
<1>5. TerminalIsServing' BY SMTT(20) DEF TerminalIsServing
<1>6. AllProbed' BY SMTT(20) DEF AllProbed, Probed
<1>. QED BY <1>1, <1>2, <1>3, <1>4, <1>5, <1>6

LEMMA RebootStep == ASSUME MaintInv, Reboot PROVE MaintInv'
<1>1. MaintenanceTypeOK'
  <2>1. journal' \in Journal BY SMT DEF MaintenanceTypeOK, Reboot
  <2>2. ctl' \in Control BY Going, SMT DEF MaintenanceTypeOK, Reboot
  <2>3. mishaps' \in 0..MaxMishaps BY Moving, SMT DEF MaintenanceTypeOK, Reboot
  <2>. QED
      BY <2>1, <2>2, <2>3, MaintenanceAssumption, SMTT(20) DEF MaintenanceTypeOK, CtlOK, JournalOK,
         Reboot, Journal, Control, Evidence, Goto, Exit
<1>. USE MaintenanceAssumption, Fields
     DEF Reboot, Goto, Exit, Mishap, MaintenanceTypeOK, CtlOK, JournalOK
<1>2. CtlOK' BY SMTT(20)
<1>3. JournalOK' BY SMTT(20) DEF JournalExplainsCurrent, Explained
<1>4. JournalExplainsCurrent' BY SMTT(20) DEF JournalExplainsCurrent, Explained
<1>5. TerminalIsServing' BY SMTT(20) DEF TerminalIsServing, JournalExplainsCurrent, Explained
<1>6. AllProbed' BY SMTT(20) DEF AllProbed, Probed
<1>. QED BY <1>1, <1>2, <1>3, <1>4, <1>5, <1>6

\* A request that is built anew while its journal is open is built as it was: the link is the
\* previous generation then, for the target is refused.
LEMMA ExecuteStep == ASSUME MaintInv, NEW r \in Requests, Execute(r) PROVE MaintInv'
<1>. USE MaintenanceAssumption, Fields
<1>1. PICK g \in Generations : Builds(r, g) BY DEF Execute
<1>2. /\ built' \in [Requests -> [previous : Generations, target : Generations] \cup {NotBuilt}]
      /\ built'[r] \in [previous : Generations, target : Generations]
      /\ built'[r].previous \in {current, built[r].previous}
      /\ \A q \in Requests \ {r} : built'[q] = built[q]
  <2>. USE DEF MaintenanceTypeOK
  <2>1. CASE built[r] = NotBuilt BY <1>1, <2>1, SMT DEF Builds
  <2>2. CASE built[r] # NotBuilt /\ Rebuilt
    <3>1. built[r] \in [previous : Generations, target : Generations] BY <2>2
    <3>2. built' = [built EXCEPT ![r] = [built[r] EXCEPT !.previous = current]]
        BY <1>1, <2>2 DEF Builds
    <3>3. [built[r] EXCEPT !.previous = current] \in [previous : Generations, target : Generations]
        BY <3>1, SMT
    <3>. QED BY <3>1, <3>2, <3>3, SMT
  <2>3. CASE built[r] # NotBuilt /\ ~Rebuilt BY <1>1, <2>3, SMT DEF Builds
  <2>. QED BY <2>1, <2>2, <2>3
<1>3. journal.req = r => Open /\ built' = built
  <2>1. SUFFICES ASSUME journal.req = r PROVE Open /\ built' = built
      OBVIOUS
  <2>2. Open BY <2>1 DEF Execute
  <2>3. built[r] \in [previous : Generations, target : Generations]
      BY <2>1, <2>2 DEF JournalOK
  <2>4. current \in {built[r].previous, built[r].target}
      BY <2>1, <2>2, SMT DEF JournalExplainsCurrent, Explained
  <2>5. CASE Rebuilt
    <3>1. current # built[r].target /\ built' = [built EXCEPT ![r].previous = current]
        BY <1>1, <2>3, <2>5, SMT DEF Builds, NotBuilt
    <3>2. built' = [built EXCEPT ![r] = [built[r] EXCEPT !.previous = current]]
        BY <3>1
    <3>3. current = built[r].previous BY <2>4, <3>1
    <3>4. [built[r] EXCEPT !.previous = current] = built[r] BY <2>3, <3>3, SMT
    <3>5. built' = [built EXCEPT ![r] = built[r]] BY <3>2, <3>4
    <3>. QED BY <2>2, <3>5 DEF MaintenanceTypeOK
  <2>6. CASE ~Rebuilt
    <3>1. built[r] # NotBuilt BY <2>3, SMT DEF NotBuilt
    <3>2. IF Rebuilt THEN g # current /\ built' = [built EXCEPT ![r].previous = current]
          ELSE UNCHANGED built
        BY <1>1, <3>1, Zenon DEF Builds
    <3>. QED BY <2>2, <2>6, <3>2, Zenon
  <2>. QED BY <2>2, <2>5, <2>6
<1>4. ctl' = [ at |-> IF journal.req = r THEN "enter" ELSE "freeze", req |-> r,
               retry |-> FALSE ] /\ (journal.req = r \/ ~Open)
    BY DEF Execute
<1>5. UNCHANGED <<journal, archived, current, selector, evidence, up, running, mishaps>>
    BY DEF Execute
<1>6. MaintenanceTypeOK'
  <2>1. ctl' \in Control BY <1>4, SMT DEF Control
  <2>. QED BY <1>2, <1>5, <2>1 DEF MaintenanceTypeOK
<1>7. CtlOK' BY <1>2, <1>3, <1>4, <1>5, SMTT(20) DEF CtlOK, JournalOK
<1>8. JournalOK'
  <2>1. Open => journal.req = r \/ built'[journal.req] = built[journal.req]
      BY <1>2, SMT DEF JournalOK
  <2>. QED BY <1>3, <1>5, <2>1, SMTT(20) DEF JournalOK
<1>9. JournalExplainsCurrent'
    BY <1>2, <1>3, <1>5, SMTT(20) DEF JournalExplainsCurrent, JournalOK, Explained
<1>10. TerminalIsServing'
  <2>1. journal.stage \in Terminal => journal.req # r BY <1>3
  <2>2. journal.stage \in Terminal => journal.req \in Requests BY DEF JournalOK
  <2>. QED BY <1>2, <1>5, <2>1, <2>2, SMTT(20) DEF TerminalIsServing
<1>11. AllProbed' BY <1>2, <1>5, SMTT(20) DEF AllProbed, Probed, MaintenanceTypeOK, NotBuilt
<1>. QED BY <1>6, <1>7, <1>8, <1>9, <1>10, <1>11

\* At first nothing is open and the installed generation runs with its own evidence.
LEMMA InitOK == MaintenanceInit => MaintInv
<1>. SUFFICES ASSUME MaintenanceInit PROVE MaintInv
    OBVIOUS
<1>. USE MaintenanceAssumption DEF MaintenanceInit
<1>1. MaintenanceTypeOK
  <2>1. journal \in Journal BY Fields
  <2>2. ctl \in Control BY SMT DEF Control
  <2>3. selector \in Evidence BY SMT DEF Evidence
  <2>. QED BY <2>1, <2>2, <2>3, SMT DEF MaintenanceTypeOK
<1>2. CtlOK BY SMT DEF CtlOK
<1>3. JournalOK BY SMT DEF JournalOK
<1>4. JournalExplainsCurrent BY SMT DEF JournalExplainsCurrent
<1>5. TerminalIsServing BY SMT DEF TerminalIsServing
<1>6. AllProbed BY SMT DEF AllProbed, Probed, NotBuilt
<1>. QED BY <1>1, <1>2, <1>3, <1>4, <1>5, <1>6

\* Every step keeps the invariant.
LEMMA NextOK == MaintInv /\ [MaintenanceNext]_maintenanceVars => MaintInv'
<1>1. ASSUME MaintInv, MaintenanceNext PROVE MaintInv'
  <2>1. ASSUME NEW r \in Requests, Execute(r) PROVE MaintInv' BY <1>1, <2>1, ExecuteStep
  <2>2. CASE Upgrade
      BY <1>1, <2>2, StoppedStep, ConflictStep, PrepareTargetStep, RecordSwitchStep, SwitchStep,
         SwitchedStep, RecordStartStep, SelectTargetStep, StartedStep, WaitTargetStep,
         CommitStep DEF Upgrade
  <2>3. CASE Rollback
      BY <1>1, <2>3, BeginRollbackStep, HaltedStep, SwitchBackStep, SelectPreviousStep,
         WaitPreviousStep, RecordFailureStep DEF Rollback
  <2>4. CASE Controller
      BY <1>1, <2>2, <2>3, <2>4, FreezeStep, SelectStep, ArchiveStep, CreateStep, ResumeStep,
         StopServiceStep, StartServiceStep DEF Controller
  <2>. QED BY <1>1, <2>1, <2>4, CrashStep, RebootStep DEF MaintenanceNext
<1>2. ASSUME MaintInv, UNCHANGED maintenanceVars PROVE MaintInv'
    BY <1>2 DEF maintenanceVars, MaintenanceTypeOK, CtlOK, JournalOK, JournalExplainsCurrent, Explained,
       TerminalIsServing, AllProbed, Probed
<1>. QED BY <1>1, <1>2

\* The invariant holds in every reachable state, and with it the types: MaintenanceTypeOK of the run.
THEOREM MaintenanceInvariant == MaintenanceSpec => []MaintInv
<1>. QED BY InitOK, NextOK, PTL DEF MaintenanceSpec

\* Link, selector and units are the target's after a commit and the previous generation's
\* after a rollback, whatever happened on the way, and the cockpit never runs a generation
\* whose evidence was not published: WindowSafe of the run.
THEOREM WindowIsSafe == MaintenanceSpec => []WindowSafe
<1>1. MaintInv => RunsOnlyProbed BY DEF AllProbed, Probed, RunsOnlyProbed
<1>2. MaintInv => WindowSafe BY <1>1 DEF WindowSafe
<1>. QED BY <1>2, MaintenanceInvariant, PTL

\* A run that resumes meets no link it must refuse: JournalExplainsCurrent of the run.
THEOREM JournalExplains == MaintenanceSpec => []JournalExplainsCurrent
<1>1. MaintInv => JournalExplainsCurrent OBVIOUS
<1>. QED BY <1>1, MaintenanceInvariant, PTL

\* The target's evidence is made while no service runs: PreparedCold of the run.  Only
\* Freeze and PrepareTarget publish evidence, and what Freeze publishes is no target's.
THEOREM PreparedIsCold == MaintenanceSpec => PreparedCold
<1>1. ASSUME MaintenanceNext, NEW e \in evidence' \ evidence, e.role = "target" PROVE up = {}
  <2>1. CASE Freeze
      BY <1>1, <2>1, SMT DEF Freeze
  <2>2. CASE PrepareTarget
      BY <1>1, <2>2, SMT DEF PrepareTarget, PrepareAs
  <2>3. CASE Upgrade /\ ~PrepareTarget
      BY <1>1, <2>3 DEF Upgrade, Stopped, Conflict, RecordSwitch, Switch, Switched, RecordStart,
         SelectTarget, Started, WaitTarget, Commit, OnlyJournal, SwitchTo, SelectRole, Probe
  <2>4. CASE Rollback
      BY <1>1, <2>4 DEF Rollback, BeginRollback, Halted, SwitchBack, SelectPrevious,
         WaitPrevious, RecordFailure, OnlyJournal, SwitchTo, SelectRole, Probe
  <2>5. CASE Controller
      BY <1>1, <2>1, <2>2, <2>3, <2>4, <2>5 DEF Controller, Select, Archive, Create, ResumeUpgrade,
         StopService, StartService, Command
  <2>. QED BY <1>1, <2>5 DEF MaintenanceNext, Execute, Crash, Reboot
<1>2. [MaintenanceNext]_maintenanceVars => [\A e \in evidence' \ evidence : e.role = "target" => up = {}]_maintenanceVars
    BY <1>1
<1>. QED BY <1>2, PTL DEF MaintenanceSpec, PreparedCold
=============================================================================
