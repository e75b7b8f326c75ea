------------------------ MODULE WorkspaceRuntimeProofs -------------------------
(***************************************************************************)
(* What WorkspaceRuntime and WorkspaceTerminal promise for every number of *)
(* requests.  However prepares, attaches and detaches race and end, one    *)
(* attachment and one lease of a runtime can be used.  However terminals   *)
(* are created, restarted and closed, a request starts one shell at most,  *)
(* and one mishap loses none.                                              *)
(***************************************************************************)
EXTENDS WorkspaceRuntime, WorkspaceTerminal, FiniteSetTheorems, SequenceTheorems, TLAPS

Unprepared == {"none", "preparing"}
Places == { "idle", "prepare", "reset", "begin", "old", "launch", "finish", "fail", "unknown",
            "detach", "close", "gone", "restore", "confirm", "release" }

\* Where a request is between two writes of the row.
Working == {"old", "launch", "finish", "fail", "unknown", "detach", "close", "gone", "restore",
            "confirm", "release"}

LeaseRow == [generation : Nat \ {0}, status : {"reserved", "active", "revoked"}]
AttachmentRow(ns) == [ generation : Nat \ {0}, status : AttachedStates \cup {"detached"},
                       pane : 0..ns, phase : {"close", "close_confirmed"} ]
PreparationRow(nl, na) ==
    [ state : States, revision : Nat, generation : Nat \ {0}, writing : 0..nl, attachment : 0..na ]
RequestRow(na, ns) ==
    [at : Places, revision : Nat, attachment : 0..na, pane : 0..ns]

RowsType ==
    /\ preparation \in PreparationRow(Len(leases), Len(attachments))
    /\ leases \in Seq(LeaseRow) /\ attachments \in Seq(AttachmentRow(Len(started)))

PanesType == panes \subseteq 1..Len(started) /\ started \in Seq(1..Len(attachments))

\* The preparation p points at the last lease and the last attachment, of its generation;
\* every earlier one is over, and so is the last, unless the state says that it is used.
RowsAgree(p, ls, as) ==
    /\ p.state \in Unprepared => ls = << >> /\ as = << >> /\ p.generation = 1
    /\ p.state \notin Unprepared =>
          /\ p.writing = Len(ls) /\ Len(ls) > 0 /\ p.attachment = Len(as)
          /\ ls[p.writing].generation = p.generation
    /\ p.state \in AttachedStates \cup {"detached"} =>
          p.attachment # 0 /\ as[p.attachment].status = p.state
    /\ p.state \in AttachedStates => as[p.attachment].generation = p.generation
    /\ p.state = "prepared" /\ p.attachment # 0 => as[p.attachment].status = "detached"
    /\ p.state = "detached" => ls[p.writing].status = "revoked"
    /\ \A n \in DOMAIN as : n # p.attachment => as[n].status = "detached"
    /\ \A n \in DOMAIN ls : n # p.writing => ls[n].status = "revoked"

\* A request holds a revision that the row had or has; and a request between two writes
\* that holds the row's revision finds the attachment it works on in use.
RequestOK(x, p, na, ns) ==
    /\ x \in RequestRow(na, ns)
    /\ x.at \notin {"idle", "prepare"} => p.state \notin Unprepared /\ x.revision <= p.revision
    /\ x.at \in {"old", "launch"} => x.attachment # 0
    /\ x.at \in Working /\ x.revision = p.revision => p.state \in AttachedStates

RequestsOK ==
    /\ request = [r \in Requests |-> request[r]]
    /\ \A r \in Requests :
          RequestOK(request[r], preparation, Len(attachments), Len(started))

RuntimeInv ==
    RowsType /\ PanesType /\ RowsAgree(preparation, leases, attachments) /\ RequestsOK

LEMMA RuntimeInitOK == RuntimeInit => RuntimeInv
  <1> SUFFICES ASSUME RuntimeInit PROVE RuntimeInv  OBVIOUS
  <1>1. /\ leases = << >> /\ attachments = << >> /\ started = << >> /\ panes = {}
        /\ preparation = NoRow /\ request = [r \in Requests |-> NoRequest]
    BY DEF RuntimeInit
  <1>2. RowsType /\ PanesType
    BY <1>1, EmptySeq DEF RowsType, PanesType, PreparationRow, NoRow, States
  <1>3. RowsAgree(preparation, leases, attachments)
    BY <1>1, EmptySeq DEF RowsAgree, NoRow, Unprepared, AttachedStates
  <1>4. RequestsOK
    BY <1>1, EmptySeq DEF RequestsOK, RequestOK, NoRequest, RequestRow, Places, Working
  <1>. QED  BY <1>2, <1>3, <1>4 DEF RuntimeInv

-----------------------------------------------------------------------------
(* What a step of one request leaves to the others.                          *)

\* How a step moves the row under the requests that hold a revision of it.
RowMoves(p, q) == q = p \/ (q.revision = p.revision + 1 /\ q.state \notin Unprepared)

LEMMA RequestStays ==
  ASSUME NEW x, NEW p, NEW q, NEW na \in Nat, NEW ns \in Nat, NEW ma \in Nat, NEW ms \in Nat,
         RequestOK(x, p, na, ns), p.revision \in Nat, RowMoves(p, q), na <= ma, ns <= ms
  PROVE  RequestOK(x, q, ma, ms)
  <1>1. x \in RequestRow(ma, ms)  BY DEF RequestOK, RequestRow
  <1>2. x.revision \in Nat  BY DEF RequestOK, RequestRow
  <1>3. x.at \in Working => x.at \notin {"idle", "prepare"}  BY DEF Working
  <1>. QED  BY <1>1, <1>2, <1>3 DEF RequestOK, RowMoves

\* The request that takes the step goes on as y.
LEMMA StepKeeps ==
  ASSUME RuntimeInv, RowsType', PanesType', RowsAgree(preparation, leases, attachments)',
         RowMoves(preparation, preparation'),
         Len(attachments) <= Len(attachments'), Len(started) <= Len(started'),
         NEW r \in Requests, NEW y, request' = [request EXCEPT ![r] = y],
         RequestOK(y, preparation', Len(attachments'), Len(started'))
  PROVE  RuntimeInv'
  <1>1. /\ preparation.revision \in Nat
        /\ Len(attachments) \in Nat /\ Len(attachments') \in Nat
        /\ Len(started) \in Nat /\ Len(started') \in Nat
    BY LenProperties DEF RuntimeInv, RowsType, PanesType, PreparationRow
  <1>2. request' = [s \in Requests |-> request'[s]] /\ request'[r] = y
        /\ \A s \in Requests \ {r} : request'[s] = request[s]
    BY DEF RuntimeInv, RequestsOK
  <1>3. ASSUME NEW s \in Requests, s # r
        PROVE  RequestOK(request[s], preparation', Len(attachments'), Len(started'))
    <2>1. RequestOK(request[s], preparation, Len(attachments), Len(started))
      BY DEF RuntimeInv, RequestsOK
    <2>. QED  BY <1>1, <2>1, RequestStays
  <1>4. RequestsOK'  BY <1>2, <1>3 DEF RequestsOK
  <1>. QED  BY <1>4 DEF RuntimeInv

\* A step that leaves the rows alone.
LEMMA CallKeeps ==
  ASSUME RuntimeInv, UNCHANGED <<runtimeRows, started>>, panes' \subseteq panes,
         NEW r \in Requests, NEW y, request' = [request EXCEPT ![r] = y],
         RequestOK(y, preparation, Len(attachments), Len(started))
  PROVE  RuntimeInv'
  <1>1. UNCHANGED <<preparation, leases, attachments, started>>  BY DEF runtimeRows
  <1>2. RowsType' /\ PanesType' /\ RowsAgree(preparation, leases, attachments)'
    BY <1>1 DEF RuntimeInv, RowsType, PanesType
  <1>3. Len(attachments) \in Nat /\ Len(started) \in Nat
    BY LenProperties DEF RuntimeInv, RowsType, PanesType
  <1>4. RowMoves(preparation, preparation')  BY <1>1 DEF RowMoves
  <1>5. RequestOK(y, preparation', Len(attachments'), Len(started'))  BY <1>1
  <1>6. Len(attachments) <= Len(attachments') /\ Len(started) <= Len(started')  BY <1>1, <1>3
  <1> HIDE DEF RuntimeInv
  <1>. QED  BY <1>2, <1>4, <1>5, <1>6, StepKeeps

LEMMA IdleOK ==
  ASSUME NEW p, NEW na \in Nat, NEW ns \in Nat PROVE RequestOK(NoRequest, p, na, ns)
  BY DEF RequestOK, NoRequest, RequestRow, Places, Working

\* The row of the current attachment is written, and with it the preparation's state.
LEMMA RowWritten ==
  ASSUME RuntimeInv, preparation.state \in AttachedStates, NEW s, NEW row,
         \/ s \in AttachedStates /\ row.status = s
         \/ s = "prepared" /\ row.status = "detached",
         row \in AttachmentRow(Len(started)), row.generation = Current.generation,
         preparation' = [preparation EXCEPT !.state = s, !.revision = @ + 1],
         attachments' = [attachments EXCEPT ![preparation.attachment] = row],
         UNCHANGED <<leases, started, panes>>
  PROVE  /\ RowsType' /\ PanesType' /\ RowsAgree(preparation, leases, attachments)'
         /\ RowMoves(preparation, preparation') /\ Len(attachments') = Len(attachments)
         /\ preparation'.state = s /\ preparation'.revision = preparation.revision + 1
         /\ preparation'.attachment = preparation.attachment
  <1> DEFINE p == preparation
             q == preparation'
             k == preparation.attachment
  <1>1. /\ p \in PreparationRow(Len(leases), Len(attachments)) /\ k # 0
        /\ RowsAgree(p, leases, attachments) /\ Len(attachments) \in Nat
        /\ attachments \in Seq(AttachmentRow(Len(started)))
    BY LenProperties DEF RuntimeInv, RowsType, RowsAgree
  <1>2. k \in DOMAIN attachments  BY <1>1 DEF PreparationRow
  <1>3. q = [ state |-> s, revision |-> p.revision + 1, generation |-> p.generation,
              writing |-> p.writing, attachment |-> k ]
    BY <1>1 DEF PreparationRow
  <1>4. s \in States \ Unprepared  BY DEF AttachedStates, States, Unprepared
  <1>5. q \in PreparationRow(Len(leases), Len(attachments))
    BY <1>1, <1>3, <1>4 DEF PreparationRow
  <1>6. /\ attachments' \in Seq(AttachmentRow(Len(started)))
        /\ Len(attachments') = Len(attachments) /\ DOMAIN attachments' = DOMAIN attachments
        /\ attachments'[k] = row /\ \A n \in DOMAIN attachments : n # k => attachments'[n] = attachments[n]
    BY <1>1, <1>2, ExceptSeq
  <1>7. RowsType' /\ PanesType'  BY <1>5, <1>6 DEF RuntimeInv, RowsType, PanesType
  <1>8. RowMoves(p, q)  BY <1>3, <1>4 DEF RowMoves
  <1>9. RowsAgree(q, leases, attachments')
    <2>1. p.state \notin Unprepared /\ p.state \notin {"prepared", "detached"}
      BY DEF AttachedStates, Unprepared
    <2>2. s \notin Unprepared /\ s # "detached"  BY DEF AttachedStates, Unprepared
    <2>3. attachments[k].generation = p.generation  BY <1>1 DEF RowsAgree
    <2>4. /\ q.writing = Len(leases) /\ Len(leases) > 0 /\ q.attachment = Len(attachments')
          /\ leases[q.writing].generation = q.generation
      BY <1>1, <1>3, <1>6, <2>1 DEF RowsAgree
    <2>5. \A n \in DOMAIN attachments' : n # q.attachment => attachments'[n].status = "detached"
      BY <1>1, <1>3, <1>6 DEF RowsAgree
    <2>6. \A n \in DOMAIN leases : n # q.writing => leases[n].status = "revoked"
      BY <1>1, <1>3 DEF RowsAgree
    <2>7. /\ q.state = s /\ q.attachment = k /\ q.generation = p.generation
          /\ attachments'[k].status = row.status /\ attachments'[k].generation = p.generation
      BY <1>3, <1>6, <2>3 DEF Current
    <2> HIDE DEF q, k, p
    <2>. QED  BY <1>1, <2>2, <2>4, <2>5, <2>6, <2>7 DEF RowsAgree, AttachedStates
  <1>. QED  BY <1>3, <1>6, <1>7, <1>8, <1>9

-----------------------------------------------------------------------------
(* Requests that call the harness, or end.                                   *)

LEMMA RequestIs ==
  ASSUME RuntimeInv, NEW r \in Requests
  PROVE  /\ RequestOK(request[r], preparation, Len(attachments), Len(started))
         /\ request[r].revision \in Nat /\ request[r].attachment \in 0..Len(attachments)
         /\ request[r].pane \in 0..Len(started)
         /\ preparation.revision \in Nat /\ Len(attachments) \in Nat /\ Len(started) \in Nat
  <1>1. RequestOK(request[r], preparation, Len(attachments), Len(started))
    BY DEF RuntimeInv, RequestsOK
  <1>2. preparation.revision \in Nat /\ Len(attachments) \in Nat /\ Len(started) \in Nat
    BY LenProperties DEF RuntimeInv, RowsType, PanesType, PreparationRow
  <1>. QED  BY <1>1, <1>2 DEF RequestOK, RequestRow

\* From one place of an attach or a detach to another, with the revision it holds.
LEMMA MoveKeeps ==
  ASSUME RuntimeInv, UNCHANGED <<runtimeRows, started>>, panes' \subseteq panes,
         NEW r \in Requests, request[r].at \in Working, NEW place \in Working,
         NEW pane \in 0..Len(started), MovesTo(r, place, request[r].revision, pane),
         place \in {"old", "launch"} => request[r].at \in {"old", "launch"}
  PROVE  RuntimeInv'
  <1> DEFINE x == request[r]
             y == [ at |-> place, revision |-> x.revision, attachment |-> x.attachment,
                    pane |-> pane ]
  <1>1. RequestOK(x, preparation, Len(attachments), Len(started))  BY RequestIs
  <1>2. x.revision \in Nat /\ x.attachment \in 0..Len(attachments)  BY RequestIs
  <1>3. request' = [request EXCEPT ![r] = y]  BY DEF MovesTo, Enters
  <1>4. RequestOK(y, preparation, Len(attachments), Len(started))
    BY <1>1, <1>2 DEF RequestOK, RequestRow, Places, Working
  <1> HIDE DEF y, RuntimeInv
  <1>. QED  BY <1>3, <1>4, CallKeeps

LEMMA EndKeeps ==
  ASSUME RuntimeInv, UNCHANGED <<runtimeRows, started>>, panes' \subseteq panes,
         NEW r \in Requests, Done(r)
  PROVE  RuntimeInv'
  <1>1. RequestOK(NoRequest, preparation, Len(attachments), Len(started))
    BY RequestIs, IdleOK
  <1> HIDE DEF RuntimeInv
  <1>. QED  BY <1>1, CallKeeps DEF Done

\* A request begins from the row it reads.
LEMMA StartKeeps ==
  ASSUME RuntimeInv, NEW r \in Requests, AttachStart(r) \/ DetachStart(r)
  PROVE  RuntimeInv'
  <1>1. /\ UNCHANGED <<runtimeRows, started, panes>> /\ preparation.state \notin Unprepared
    BY DEF AttachStart, DetachStart, CallsOnly, WritesOnly, Attachable, Unprepared
  <1>2. PICK place \in Places \ {"idle", "prepare", "old", "launch"}, pane \in 0..Len(started) :
          /\ MovesTo(r, place, preparation.revision, pane)
          /\ place \in Working => preparation.state \in AttachedStates
    <2>1. CASE AttachStart(r)
      <3>1. 0 \in 0..Len(started)  BY RequestIs
      <3>2. \/ MovesTo(r, "reset", preparation.revision, 0)
            \/ MovesTo(r, "begin", preparation.revision, 0)
        BY <2>1 DEF AttachStart
      <3>. QED  BY <3>1, <3>2 DEF Places, Working
    <2>2. CASE DetachStart(r)
      <3>1. preparation.state \in AttachedStates  BY <2>2 DEF DetachStart, AttachedStates
      <3>2. preparation.attachment \in DOMAIN attachments
        BY <3>1, LenProperties DEF RuntimeInv, RowsType, PreparationRow, RowsAgree
      <3>3. Current.pane \in 0..Len(started)
        <4>1. attachments \in Seq(AttachmentRow(Len(started)))  BY DEF RuntimeInv, RowsType
        <4>2. Current \in AttachmentRow(Len(started))  BY <3>2, <4>1 DEF Current
        <4>. QED  BY <4>2 DEF AttachmentRow
      <3>4. \E place \in {"detach", "close", "release"} :
               MovesTo(r, place, preparation.revision, Current.pane)
        BY <2>2 DEF DetachStart
      <3>. QED  BY <3>1, <3>3, <3>4 DEF Places
    <2>. QED  BY <2>1, <2>2
  <1> DEFINE y == [ at |-> place, revision |-> preparation.revision,
                    attachment |-> request[r].attachment, pane |-> pane ]
  <1>3. request' = [request EXCEPT ![r] = y]  BY <1>2 DEF MovesTo, Enters
  <1>4. RequestOK(y, preparation, Len(attachments), Len(started))
    BY <1>1, <1>2, RequestIs DEF RequestOK, RequestRow
  <1> HIDE DEF y, RuntimeInv
  <1>. QED  BY <1>1, <1>3, <1>4, CallKeeps

\* The calls of the harness that start no pane.
LEMMA HarnessKeeps ==
  ASSUME RuntimeInv, NEW r \in Requests,
         AttachOld(r) \/ AttachNoPane(r) \/ DetachClosed(r) \/ DetachFailed(r)
  PROVE  RuntimeInv'
  <1>1. UNCHANGED <<runtimeRows, started>> /\ panes' \subseteq panes
    BY DEF AttachOld, AttachNoPane, DetachClosed, DetachFailed, CallsOnly, WritesOnly
  <1>2. 0 \in 0..Len(started) /\ request[r].pane \in 0..Len(started)  BY RequestIs
  <1>3. CASE AttachOld(r)
    <2>1. /\ request[r].at = "old"
          /\ \/ MovesTo(r, "launch", request[r].revision, 0)
             \/ MovesTo(r, "unknown", request[r].revision, request[r].pane)
      BY <1>3 DEF AttachOld, At
    <2> HIDE DEF RuntimeInv
    <2>. QED  BY <1>1, <1>2, <2>1, MoveKeeps DEF Working
  <1>4. CASE AttachNoPane(r)
    <2>1. request[r].at = "launch" /\ MovesTo(r, "fail", request[r].revision, 0)
      BY <1>4 DEF AttachNoPane, At
    <2> HIDE DEF RuntimeInv
    <2>. QED  BY <1>1, <1>2, <2>1, MoveKeeps DEF Working
  <1>5. CASE DetachClosed(r)
    <2>1. request[r].at = "close" /\ MovesTo(r, "confirm", request[r].revision, 0)
      BY <1>5 DEF DetachClosed, At
    <2> HIDE DEF RuntimeInv
    <2>. QED  BY <1>1, <1>2, <2>1, MoveKeeps DEF Working
  <1>6. CASE DetachFailed(r)
    <2>1. /\ request[r].at = "close"
          /\ \E place \in {"gone", "unknown", "restore"} :
                MovesTo(r, place, request[r].revision, request[r].pane)
      BY <1>6 DEF DetachFailed, At
    <2> HIDE DEF RuntimeInv
    <2>. QED  BY <1>1, <1>2, <2>1, MoveKeeps DEF Working
  <1>. QED  BY <1>3, <1>4, <1>5, <1>6

\* A pane is started for the attachment that the request holds.
LEMMA PaneKeeps ==
  ASSUME RuntimeInv, NEW r \in Requests, AttachPane(r)
  PROVE  RuntimeInv'
  <1> DEFINE x == request[r]
             pane == Len(started) + 1
  <1>1. /\ x.at = "launch" /\ started' = Append(started, x.attachment)
        /\ panes' \subseteq panes \cup {pane}
        /\ UNCHANGED <<preparation, leases, attachments>>
    BY DEF AttachPane, At, CallsOnly, runtimeRows
  <1>2. PICK place \in {"finish", "fail", "unknown"}, name \in 0..pane :
           MovesTo(r, place, x.revision, name)
    BY RequestIs DEF AttachPane
  <1>3. /\ RequestOK(x, preparation, Len(attachments), Len(started))
        /\ x.revision \in Nat /\ x.attachment \in 1..Len(attachments)
        /\ Len(started) \in Nat /\ Len(attachments) \in Nat
    BY <1>1, RequestIs DEF RequestOK
  <1>4. started \in Seq(1..Len(attachments))  BY DEF RuntimeInv, PanesType
  <1>5. started' \in Seq(1..Len(attachments)) /\ Len(started') = pane
    BY <1>1, <1>3, <1>4, AppendProperties
  <1>6. PanesType'  BY <1>1, <1>3, <1>5 DEF RuntimeInv, PanesType
  <1>7. RowsType'
    <2>1. AttachmentRow(Len(started)) \subseteq AttachmentRow(Len(started'))
      BY <1>3, <1>5 DEF AttachmentRow
    <2>2. attachments \in Seq(AttachmentRow(Len(started')))
      BY <2>1 DEF RuntimeInv, RowsType
    <2>. QED  BY <1>1, <2>2 DEF RuntimeInv, RowsType
  <1> DEFINE y == [ at |-> place, revision |-> x.revision, attachment |-> x.attachment,
                    pane |-> name ]
  <1>8. request' = [request EXCEPT ![r] = y]  BY <1>2 DEF MovesTo, Enters
  <1>9. RequestOK(y, preparation, Len(attachments), pane)
    BY <1>1, <1>3 DEF RequestOK, RequestRow, Places, Working
  <1>10. /\ RowsAgree(preparation, leases, attachments)' /\ RowMoves(preparation, preparation')
         /\ RequestOK(y, preparation', Len(attachments'), Len(started'))
         /\ Len(attachments) <= Len(attachments') /\ Len(started) <= Len(started')
    BY <1>1, <1>3, <1>5, <1>9 DEF RuntimeInv, RowMoves
  <1> HIDE DEF y, RuntimeInv
  <1>. QED  BY <1>6, <1>7, <1>8, <1>10, StepKeeps

-----------------------------------------------------------------------------
(* Requests that write the current attachment.                               *)

LEMMA CurrentIs ==
  ASSUME RuntimeInv, preparation.state \in AttachedStates
  PROVE  /\ preparation.attachment \in DOMAIN attachments
         /\ Current \in AttachmentRow(Len(started))
         /\ Current.status = preparation.state
  <1>1. preparation.attachment \in DOMAIN attachments /\ Current.status = preparation.state
    BY LenProperties DEF RuntimeInv, RowsType, PreparationRow, RowsAgree, Current
  <1>2. attachments \in Seq(AttachmentRow(Len(started)))  BY DEF RuntimeInv, RowsType
  <1>3. Current \in AttachmentRow(Len(started))  BY <1>1, <1>2 DEF Current
  <1>. QED  BY <1>1, <1>3

\* A request between two writes that holds the row's revision finds it in use.
LEMMA HoldsAttached ==
  ASSUME RuntimeInv, NEW r \in Requests, Holds(r), request[r].at \in Working
  PROVE  preparation.state \in AttachedStates
  BY RequestIs DEF RequestOK, Holds

\* The row that Records writes.
LEMMA RecordsIs ==
  ASSUME RuntimeInv, preparation.state \in AttachedStates, NEW status, NEW pane, NEW phase,
         Current \in AttachmentRow(Len(started)), status \in AttachedStates \cup {"detached"},
         pane \in 0..Len(started), phase \in {"close", "close_confirmed"},
         Records(status, pane, phase)
  PROVE  \E row \in AttachmentRow(Len(started)) :
            /\ row.status = status /\ row.generation = Current.generation
            /\ attachments' = [attachments EXCEPT ![preparation.attachment] = row]
  <1> DEFINE row == [ generation |-> Current.generation, status |-> status,
                      pane |-> IF pane = 0 THEN Current.pane ELSE pane, phase |-> phase ]
  <1>1. row \in AttachmentRow(Len(started))  BY DEF AttachmentRow
  <1>2. attachments' = [attachments EXCEPT ![preparation.attachment] = row]  BY DEF Records
  <1>. QED  BY <1>1, <1>2

\* A write of the row and its current attachment, after which the request goes on as y.
LEMMA WriteKeeps ==
  ASSUME RuntimeInv, preparation.state \in AttachedStates, NEW s, NEW row,
         \/ s \in AttachedStates /\ row.status = s
         \/ s = "prepared" /\ row.status = "detached",
         row \in AttachmentRow(Len(started)), row.generation = Current.generation,
         Becomes(s), attachments' = [attachments EXCEPT ![preparation.attachment] = row],
         UNCHANGED <<leases, started, panes>>,
         NEW r \in Requests, NEW y, request' = [request EXCEPT ![r] = y],
         y.at \in Working => s \in AttachedStates,
         y.at \in {"old", "launch"} => y.attachment # 0,
         y \in RequestRow(Len(attachments), Len(started)),
         y.at # "idle" => y.revision = preparation.revision + 1
  PROVE  RuntimeInv'
  <1>1. preparation' = [preparation EXCEPT !.state = s, !.revision = @ + 1]  BY DEF Becomes
  <1>2. /\ RowsType' /\ PanesType' /\ RowsAgree(preparation, leases, attachments)'
        /\ RowMoves(preparation, preparation') /\ Len(attachments') = Len(attachments)
        /\ preparation'.state = s /\ preparation'.revision = preparation.revision + 1
    <2> HIDE DEF RuntimeInv
    <2>. QED  BY <1>1, RowWritten
  <1>3. Len(attachments) \in Nat /\ Len(started) \in Nat /\ preparation.revision \in Nat
    BY RequestIs
  <1>4. s \notin Unprepared  BY DEF Unprepared, AttachedStates
  <1>5. RequestOK(y, preparation', Len(attachments'), Len(started'))
    BY <1>2, <1>3, <1>4 DEF RequestOK, Working
  <1>6. Len(attachments) <= Len(attachments') /\ Len(started) <= Len(started')
    BY <1>2, <1>3
  <1> HIDE DEF RuntimeInv
  <1>. QED  BY <1>2, <1>5, <1>6, StepKeeps

\* Records and Becomes, as every one of the next steps uses them.
LEMMA RecordKeeps ==
  ASSUME RuntimeInv, preparation.state \in AttachedStates, NEW s, NEW status, NEW pane, NEW phase,
         \/ s \in AttachedStates /\ status = s
         \/ s = "prepared" /\ status = "detached",
         Becomes(s), Records(status, pane, phase), UNCHANGED <<leases, started, panes>>,
         pane \in 0..Len(started), phase \in {"close", "close_confirmed"},
         NEW r \in Requests, NEW y, request' = [request EXCEPT ![r] = y],
         y.at \in Working => s \in AttachedStates,
         y.at \in {"old", "launch"} => y.attachment # 0,
         y \in RequestRow(Len(attachments), Len(started)),
         y.at # "idle" => y.revision = preparation.revision + 1
  PROVE  RuntimeInv'
  <1>1. Current \in AttachmentRow(Len(started))  BY CurrentIs
  <1>2. status \in AttachedStates \cup {"detached"}  OBVIOUS
  <1>3. PICK row \in AttachmentRow(Len(started)) :
            /\ row.status = status /\ row.generation = Current.generation
            /\ attachments' = [attachments EXCEPT ![preparation.attachment] = row]
    <2> HIDE DEF RuntimeInv
    <2>. QED  BY <1>1, <1>2, RecordsIs
  <1> HIDE DEF RuntimeInv
  <1>. QED  BY <1>3, WriteKeeps

LEMMA NoRequestIs ==
  ASSUME RuntimeInv
  PROVE  /\ NoRequest \in RequestRow(Len(attachments), Len(started)) /\ NoRequest.at = "idle"
         /\ 0 \in 0..Len(started)
  <1>1. Len(attachments) \in Nat /\ Len(started) \in Nat
    BY LenProperties DEF RuntimeInv, RowsType, PanesType
  <1>. QED  BY <1>1 DEF NoRequest, RequestRow, Places

\* A write after which the request is done.
LEMMA LastWriteKeeps ==
  ASSUME RuntimeInv, NEW r \in Requests, request[r].at \in Working, Holds(r),
         NEW s, NEW status, NEW pane \in 0..Len(started), NEW phase \in {"close", "close_confirmed"},
         \/ s \in AttachedStates /\ status = s
         \/ s = "prepared" /\ status = "detached",
         Becomes(s), Records(status, pane, phase), UNCHANGED <<leases, started, panes>>, Done(r)
  PROVE  RuntimeInv'
  <1>1. preparation.state \in AttachedStates  BY HoldsAttached
  <1>2. request' = [request EXCEPT ![r] = NoRequest]  BY DEF Done
  <1>3. /\ NoRequest \in RequestRow(Len(attachments), Len(started)) /\ NoRequest.at = "idle"
        /\ NoRequest.at \notin Working \cup {"old", "launch"}
    BY NoRequestIs DEF Working, NoRequest
  <1> HIDE DEF RuntimeInv, NoRequest
  <1>. QED  BY <1>1, <1>2, <1>3, RecordKeeps

\* The phases and panes that the requests carry over.
LEMMA CarriedOver ==
  ASSUME RuntimeInv, NEW r \in Requests
  PROVE  /\ request[r].pane \in 0..Len(started) /\ 0 \in 0..Len(started)
         /\ preparation.state \in AttachedStates =>
               /\ Current.phase \in {"close", "close_confirmed"}
               /\ Current.status = preparation.state
               /\ Current.pane \in 0..Len(started)
  BY RequestIs, CurrentIs DEF AttachmentRow

LEMMA FinishKeeps ==
  ASSUME RuntimeInv, NEW r \in Requests, AttachFinish(r) PROVE RuntimeInv'
  <1>1. request[r].at = "finish" /\ request[r].at \in Working  BY DEF AttachFinish, At, Working
  <1>2. CASE /\ Holds(r) /\ Becomes("connected_readonly") /\ Done(r)
             /\ Records("connected_readonly", request[r].pane, "close")
    <2>1. UNCHANGED <<leases, started, panes>>  BY DEF AttachFinish, WritesOnly
    <2>2. "connected_readonly" \in AttachedStates  BY DEF AttachedStates
    <2> HIDE DEF RuntimeInv
    <2>. QED  BY <1>1, <1>2, <2>1, <2>2, LastWriteKeeps, CarriedOver
  <1>3. CASE CallsOnly /\ MovesTo(r, "unknown", request[r].revision, request[r].pane)
    <2>1. UNCHANGED <<runtimeRows, started>> /\ panes' \subseteq panes
      BY <1>3 DEF AttachFinish, CallsOnly, WritesOnly
    <2>2. "unknown" \in Working  BY DEF Working
    <2> HIDE DEF RuntimeInv
    <2>. QED  BY <1>1, <1>3, <2>1, <2>2, MoveKeeps, CarriedOver
  <1>. QED  BY <1>2, <1>3 DEF AttachFinish

LEMMA FailKeeps ==
  ASSUME RuntimeInv, NEW r \in Requests, AttachFail(r) PROVE RuntimeInv'
  <1>1. request[r].at \in Working /\ Holds(r) /\ preparation.state \in AttachedStates
    BY DEF AttachFail, At, Working, AttachedStates
  <1>2. /\ Becomes("prepared") /\ Records("detached", 0, Current.phase) /\ Done(r)
        /\ UNCHANGED <<leases, started, panes>>
    BY DEF AttachFail, FailAttach, WritesOnly
  <1> HIDE DEF RuntimeInv
  <1>. QED  BY <1>1, <1>2, LastWriteKeeps, CarriedOver

LEMMA UnknownKeeps ==
  ASSUME RuntimeInv, NEW r \in Requests, MarkUnknown(r) PROVE RuntimeInv'
  <1>1. request[r].at \in Working /\ Holds(r) /\ "outcome_unknown" \in AttachedStates
    BY DEF MarkUnknown, At, Working, AttachedStates
  <1>2. /\ Becomes("outcome_unknown") /\ Done(r)
        /\ Records("outcome_unknown", request[r].pane, Current.phase)
        /\ UNCHANGED <<leases, started, panes>>
    BY DEF MarkUnknown, WritesOnly
  <1>3. preparation.state \in AttachedStates  BY <1>1, HoldsAttached
  <1> HIDE DEF RuntimeInv
  <1>. QED  BY <1>1, <1>2, <1>3, LastWriteKeeps, CarriedOver

LEMMA GoneKeeps ==
  ASSUME RuntimeInv, NEW r \in Requests, DetachGone(r) PROVE RuntimeInv'
  <1>1. request[r].at \in Working /\ Holds(r) /\ "outcome_unknown" \in AttachedStates
    BY DEF DetachGone, At, Working, AttachedStates
  <1>2. /\ Becomes("outcome_unknown") /\ Done(r) /\ UNCHANGED <<leases, started, panes>>
        /\ Records("outcome_unknown", 0, "close_confirmed")
    BY DEF DetachGone, WritesOnly
  <1> HIDE DEF RuntimeInv
  <1>. QED  BY <1>1, <1>2, LastWriteKeeps, CarriedOver

LEMMA RestoredKeeps ==
  ASSUME RuntimeInv, NEW r \in Requests, DetachRestored(r) PROVE RuntimeInv'
  <1>1. request[r].at \in Working /\ Holds(r) /\ "connected_readonly" \in AttachedStates
    BY DEF DetachRestored, At, Working, AttachedStates
  <1>2. /\ Becomes("connected_readonly") /\ Done(r) /\ UNCHANGED <<leases, started, panes>>
        /\ Records("connected_readonly", 0, Current.phase)
    BY DEF DetachRestored, WritesOnly
  <1>3. preparation.state \in AttachedStates  BY <1>1, HoldsAttached
  <1> HIDE DEF RuntimeInv
  <1>. QED  BY <1>1, <1>2, <1>3, LastWriteKeeps, CarriedOver

\* A write after which the request goes on, with the revision it wrote.
LEMMA NextWriteKeeps ==
  ASSUME RuntimeInv, NEW r \in Requests, preparation.state \in AttachedStates,
         NEW s \in AttachedStates \cup {"prepared"}, NEW status, NEW phase,
         \/ s \in AttachedStates /\ status = s
         \/ s = "prepared" /\ status = "detached",
         phase \in {"close", "close_confirmed"},
         Becomes(s), Records(status, 0, phase), UNCHANGED <<leases, started, panes>>,
         NEW place \in Places, NEW attachment \in 0..Len(attachments),
         NEW pane \in 0..Len(started),
         Enters(r, place, preparation.revision + 1, attachment, pane),
         place \in Working => s \in AttachedStates,
         place \in {"old", "launch"} => attachment # 0
  PROVE  RuntimeInv'
  <1> DEFINE y == [ at |-> place, revision |-> preparation.revision + 1,
                    attachment |-> attachment, pane |-> pane ]
  <1>1. request' = [request EXCEPT ![r] = y]  BY DEF Enters
  <1>2. y \in RequestRow(Len(attachments), Len(started)) /\ 0 \in 0..Len(started)
    BY RequestIs DEF RequestRow
  <1>3. y.at = place /\ y.attachment = attachment /\ y.revision = preparation.revision + 1
    OBVIOUS
  <1> HIDE DEF RuntimeInv, y
  <1>. QED  BY <1>1, <1>2, <1>3, RecordKeeps

LEMMA ResetKeeps ==
  ASSUME RuntimeInv, NEW r \in Requests, AttachReset(r) PROVE RuntimeInv'
  <1>1. /\ preparation.state \in AttachedStates /\ request[r].revision = preparation.revision
        /\ Becomes("prepared") /\ Records("detached", 0, Current.phase)
        /\ UNCHANGED <<leases, started, panes>>
        /\ Enters(r, "begin", preparation.revision + 1, request[r].attachment, 0)
    BY DEF AttachReset, FailAttach, Holds, MovesTo, WritesOnly, AttachedStates
  <1>2. "begin" \in Places /\ "begin" \notin Working \cup {"old", "launch"}
    BY DEF Places, Working
  <1>3. request[r].attachment \in 0..Len(attachments)  BY RequestIs
  <1> HIDE DEF RuntimeInv
  <1>. QED  BY <1>1, <1>2, <1>3, NextWriteKeeps, CarriedOver

LEMMA AgainKeeps ==
  ASSUME RuntimeInv, NEW r \in Requests, AttachAgain(r) PROVE RuntimeInv'
  <1>1. /\ preparation.state \in AttachedStates /\ request[r].revision = preparation.revision
        /\ Becomes("attaching") /\ Records("attaching", 0, Current.phase)
        /\ "attaching" \in AttachedStates /\ UNCHANGED <<leases, started, panes>>
    BY DEF AttachAgain, Holds, WritesOnly, AttachedStates
  <1>2. PICK place \in {"old", "launch"} :
          Enters(r, place, preparation.revision + 1, preparation.attachment, Current.pane)
    BY <1>1 DEF AttachAgain
  <1>3. place \in Places  BY DEF Places
  <1>4. preparation.attachment \in 0..Len(attachments) /\ preparation.attachment # 0
    BY <1>1, CurrentIs, RequestIs, LenProperties DEF RuntimeInv, RowsType
  <1> HIDE DEF RuntimeInv
  <1>. QED  BY <1>1, <1>2, <1>3, <1>4, NextWriteKeeps, CarriedOver

LEMMA BeginsKeeps ==
  ASSUME RuntimeInv, NEW r \in Requests, DetachBegins(r) PROVE RuntimeInv'
  <1>1. /\ preparation.state \in AttachedStates /\ request[r].revision = preparation.revision
        /\ Becomes("detaching") /\ Records("detaching", 0, Current.phase)
        /\ "detaching" \in AttachedStates /\ UNCHANGED <<leases, started, panes>>
        /\ Enters(r, "close", preparation.revision + 1, request[r].attachment, Current.pane)
    BY DEF DetachBegins, Holds, MovesTo, WritesOnly, AttachedStates
  <1>2. "close" \in Places  BY DEF Places
  <1>3. request[r].attachment \in 0..Len(attachments)  BY RequestIs
  <1> HIDE DEF RuntimeInv
  <1>. QED  BY <1>1, <1>2, <1>3, NextWriteKeeps, CarriedOver

LEMMA ConfirmKeeps ==
  ASSUME RuntimeInv, NEW r \in Requests, DetachConfirm(r) PROVE RuntimeInv'
  <1>1. /\ request[r].at \in Working /\ Holds(r) /\ request[r].revision = preparation.revision
        /\ Becomes(preparation.state) /\ Records(Current.status, 0, "close_confirmed")
        /\ UNCHANGED <<leases, started, panes>>
        /\ Enters(r, "release", preparation.revision + 1, request[r].attachment, 0)
    BY DEF DetachConfirm, At, Working, Holds, MovesTo, WritesOnly
  <1>2. preparation.state \in AttachedStates  BY <1>1, HoldsAttached
  <1>3. "release" \in Places  BY DEF Places
  <1>4. request[r].attachment \in 0..Len(attachments)  BY RequestIs
  <1> HIDE DEF RuntimeInv
  <1>. QED  BY <1>1, <1>2, <1>3, <1>4, NextWriteKeeps, CarriedOver

-----------------------------------------------------------------------------
(* Requests that make rows and retire them.                                  *)

LEMMA ReleaseKeeps ==
  ASSUME RuntimeInv, NEW r \in Requests, DetachRelease(r) PROVE RuntimeInv'
  <1> DEFINE p == preparation
             k == preparation.attachment
             w == preparation.writing
  <1>1. Holds(r) /\ request[r].at \in Working  BY DEF DetachRelease, At, Working
  <1>2. p.state \in AttachedStates  BY <1>1, HoldsAttached
  <1>3. k \in DOMAIN attachments /\ Current \in AttachmentRow(Len(started))  BY <1>2, CurrentIs
  <1>4. /\ p \in PreparationRow(Len(leases), Len(attachments)) /\ RowsAgree(p, leases, attachments)
        /\ leases \in Seq(LeaseRow) /\ attachments \in Seq(AttachmentRow(Len(started)))
    BY DEF RuntimeInv, RowsType
  <1>5. p.state \notin Unprepared \cup {"prepared", "detached"}
    BY <1>2 DEF AttachedStates, Unprepared
  <1>6. w \in DOMAIN leases /\ leases[w] \in LeaseRow
    BY <1>4, <1>5, LenProperties DEF RowsAgree, PreparationRow
  <1> DEFINE lease == [generation |-> leases[w].generation, status |-> "revoked"]
             row == [ generation |-> Current.generation, status |-> "detached",
                      pane |-> Current.pane, phase |-> Current.phase ]
  <1>7. lease \in LeaseRow /\ row \in AttachmentRow(Len(started))
    BY <1>3, <1>6 DEF LeaseRow, AttachmentRow
  <1>8. /\ preparation' = [ state |-> "detached", revision |-> p.revision + 1,
                            generation |-> p.generation, writing |-> w, attachment |-> k ]
        /\ leases' = [leases EXCEPT ![w] = lease]
        /\ attachments' = [attachments EXCEPT ![k] = row]
        /\ UNCHANGED <<started, panes>> /\ request' = [request EXCEPT ![r] = NoRequest]
    <2>1. leases' = [leases EXCEPT ![w].status = "revoked"]  BY DEF DetachRelease
    <2>2. [leases[w] EXCEPT !.status = "revoked"] = lease  BY <1>6 DEF LeaseRow
    <2>3. preparation' = [preparation EXCEPT !.state = "detached", !.revision = @ + 1]
      BY DEF DetachRelease, Becomes
    <2>4. Records("detached", 0, Current.phase) /\ UNCHANGED <<started, panes>> /\ Done(r)
      BY DEF DetachRelease, WritesOnly
    <2>5. attachments' = [attachments EXCEPT ![k] = row]  BY <2>4 DEF Records
    <2>6. leases' = [leases EXCEPT ![w] = lease]  BY <2>1, <2>2
    <2> HIDE DEF lease, row
    <2>. QED  BY <1>4, <2>3, <2>4, <2>5, <2>6 DEF Done, PreparationRow
  <1> HIDE DEF lease, row
  <1>9. /\ leases' \in Seq(LeaseRow) /\ Len(leases') = Len(leases) /\ leases'[w] = lease
        /\ DOMAIN leases' = DOMAIN leases
        /\ \A n \in DOMAIN leases : n # w => leases'[n] = leases[n]
    BY <1>4, <1>6, <1>7, <1>8, ExceptSeq
  <1>10. /\ attachments' \in Seq(AttachmentRow(Len(started)))
         /\ Len(attachments') = Len(attachments) /\ attachments'[k] = row
         /\ DOMAIN attachments' = DOMAIN attachments
         /\ \A n \in DOMAIN attachments : n # k => attachments'[n] = attachments[n]
    BY <1>3, <1>4, <1>7, <1>8, ExceptSeq
  <1>11. /\ preparation' \in PreparationRow(Len(leases), Len(attachments))
         /\ preparation'.state = "detached" /\ preparation'.writing = w
         /\ preparation'.attachment = k /\ preparation'.generation = p.generation
         /\ preparation'.revision = p.revision + 1
    BY <1>4, <1>8 DEF PreparationRow, States
  <1>12. /\ lease.status = "revoked" /\ lease.generation = leases[w].generation
         /\ row.status = "detached"
    BY DEF lease, row
  <1>13. RowsType' /\ PanesType'
    BY <1>8, <1>9, <1>10, <1>11 DEF RuntimeInv, RowsType, PanesType
  <1>14. RowsAgree(preparation, leases, attachments)'
    BY <1>3, <1>4, <1>5, <1>9, <1>10, <1>11, <1>12
    DEF RowsAgree, Unprepared, AttachedStates
  <1>15. /\ RowMoves(preparation, preparation')
         /\ RequestOK(NoRequest, preparation', Len(attachments'), Len(started'))
         /\ Len(attachments) <= Len(attachments') /\ Len(started) <= Len(started')
    BY <1>8, <1>10, <1>11, RequestIs, IdleOK DEF RowMoves, Unprepared
  <1> HIDE DEF RuntimeInv, p, w, k
  <1>. QED  BY <1>8, <1>13, <1>14, <1>15, StepKeeps

\* A new attachment: the row is prepared or detached, so no other can be used.
LEMMA NewKeeps ==
  ASSUME RuntimeInv, NEW r \in Requests, AttachNew(r) PROVE RuntimeInv'
  <1> DEFINE p == preparation
             detached == p.state = "detached"
             generation == p.generation + IF detached THEN 1 ELSE 0
             lease == [generation |-> generation, status |-> "reserved"]
             rows == IF detached THEN Append(leases, lease) ELSE leases
             row == [ generation |-> generation, status |-> "attaching", pane |-> 0,
                      phase |-> "close" ]
             k == Len(attachments) + 1
             y == [ at |-> "launch", revision |-> p.revision + 1, attachment |-> k, pane |-> 0 ]
  <1>1. /\ p \in PreparationRow(Len(leases), Len(attachments)) /\ RowsAgree(p, leases, attachments)
        /\ leases \in Seq(LeaseRow) /\ attachments \in Seq(AttachmentRow(Len(started)))
        /\ Len(leases) \in Nat /\ Len(attachments) \in Nat /\ Len(started) \in Nat
        /\ p.revision \in Nat
    BY LenProperties, RequestIs DEF RuntimeInv, RowsType
  <1>2. /\ p.state \in {"prepared", "detached"} /\ request[r].revision = p.revision
        /\ UNCHANGED <<started, panes>>
        /\ leases' = rows /\ attachments' = Append(attachments, row)
        /\ preparation' = [ state |-> "attaching", revision |-> p.revision + 1,
                            generation |-> generation, writing |-> Len(rows), attachment |-> k ]
        /\ request' = [request EXCEPT ![r] = y]
    BY DEF AttachNew, Holds, WritesOnly, Enters
  <1>3. /\ p.writing = Len(leases) /\ Len(leases) > 0 /\ p.attachment = Len(attachments)
        /\ leases[p.writing].generation = p.generation
        /\ \A n \in DOMAIN attachments : attachments[n].status = "detached"
        /\ \A n \in DOMAIN leases : n # p.writing \/ detached => leases[n].status = "revoked"
    BY <1>1, <1>2 DEF RowsAgree, Unprepared, PreparationRow
  <1>4. /\ generation \in Nat \ {0} /\ lease \in LeaseRow /\ row \in AttachmentRow(Len(started))
        /\ lease.generation = generation /\ row.generation = generation
        /\ row.status = "attaching"
    BY <1>1 DEF PreparationRow, LeaseRow, AttachmentRow, AttachedStates
  <1>5. ~detached => generation = p.generation  BY <1>1 DEF PreparationRow
  <1> HIDE DEF generation, lease, row
  <1>6. /\ rows \in Seq(LeaseRow) /\ Len(rows) \in Nat \ {0} /\ DOMAIN rows = 1..Len(rows)
        /\ rows[Len(rows)].generation = generation
        /\ \A n \in DOMAIN rows : n # Len(rows) => rows[n].status = "revoked"
    <2>1. CASE detached
      <3>1. /\ Append(leases, lease) \in Seq(LeaseRow)
            /\ Len(Append(leases, lease)) = Len(leases) + 1
            /\ Append(leases, lease)[Len(leases) + 1] = lease
            /\ \A n \in 1..Len(leases) : Append(leases, lease)[n] = leases[n]
            /\ DOMAIN Append(leases, lease) = 1..(Len(leases) + 1)
        BY <1>1, <1>4, AppendProperties, LenProperties
      <3>2. DOMAIN leases = 1..Len(leases)  BY <1>1, LenProperties
      <3>. QED  BY <1>1, <1>3, <1>4, <2>1, <3>1, <3>2
    <2>2. CASE ~detached
      <3>1. rows = leases /\ DOMAIN leases = 1..Len(leases)  BY <1>1, <2>2, LenProperties
      <3>. QED  BY <1>1, <1>3, <1>5, <2>2, <3>1
    <2>. QED  BY <2>1, <2>2
  <1>7. /\ attachments' \in Seq(AttachmentRow(Len(started))) /\ Len(attachments') = k
        /\ attachments'[k] = row /\ DOMAIN attachments' = 1..k
        /\ \A n \in 1..Len(attachments) : attachments'[n] = attachments[n]
        /\ DOMAIN attachments = 1..Len(attachments)
    BY <1>1, <1>2, <1>4, AppendProperties, LenProperties
  <1> HIDE DEF rows
  <1>8. /\ preparation' \in PreparationRow(Len(leases'), Len(attachments'))
        /\ preparation'.state = "attaching" /\ preparation'.writing = Len(leases')
        /\ preparation'.attachment = k /\ preparation'.generation = generation
        /\ preparation'.revision = p.revision + 1
    BY <1>1, <1>2, <1>4, <1>6, <1>7 DEF PreparationRow, States
  <1>9. RowsType'  BY <1>2, <1>6, <1>7, <1>8 DEF RowsType
  <1>10. PanesType'
    <2>1. 1..Len(attachments) \subseteq 1..k  BY <1>1
    <2>2. started \in Seq(1..k)  BY <2>1 DEF RuntimeInv, PanesType
    <2>. QED  BY <1>2, <1>7, <2>2 DEF RuntimeInv, PanesType
  <1>11. RowsAgree(preparation, leases, attachments)'
    <2>1. \A n \in DOMAIN attachments' : n # k => attachments'[n].status = "detached"
      <3>1. SUFFICES ASSUME NEW n \in 1..k, n # k PROVE attachments'[n].status = "detached"
        BY <1>7
      <3>2. n \in 1..Len(attachments)  BY <1>1, <3>1
      <3>. QED  BY <1>3, <1>7, <3>2
    <2>2. /\ preparation'.state = "attaching" /\ k # 0 /\ k = Len(attachments')
          /\ attachments'[k].status = "attaching" /\ attachments'[k].generation = generation
      BY <1>1, <1>4, <1>7, <1>8
    <2>3. /\ preparation'.writing = Len(leases') /\ Len(leases') > 0
          /\ leases'[Len(leases')].generation = generation
          /\ \A n \in DOMAIN leases' : n # Len(leases') => leases'[n].status = "revoked"
      BY <1>2, <1>6, <1>8
    <2>. QED  BY <1>8, <2>1, <2>2, <2>3 DEF RowsAgree, Unprepared, AttachedStates
  <1>12. /\ RowMoves(preparation, preparation')
         /\ Len(attachments) <= Len(attachments') /\ Len(started) <= Len(started')
    BY <1>1, <1>2, <1>7, <1>8 DEF RowMoves, Unprepared
  <1>13. RequestOK(y, preparation', Len(attachments'), Len(started'))
    BY <1>1, <1>2, <1>7, <1>8
    DEF RequestOK, RequestRow, Places, Working, Unprepared, AttachedStates
  <1> HIDE DEF RuntimeInv, y, p, k
  <1>. QED  BY <1>2, <1>9, <1>10, <1>11, <1>12, <1>13, StepKeeps

\* The checkout's row comes and goes before there is anything else to a runtime.
LEMMA PrepareKeeps ==
  ASSUME RuntimeInv, NEW r \in Requests, Prepare(r) PROVE RuntimeInv'
  <1>1. /\ UNCHANGED <<attachments, started, panes>> /\ preparation.state \in Unprepared
        /\ \E y \in {NoRequest, [ at |-> "prepare", revision |-> 1,
                                  attachment |-> request[r].attachment, pane |-> 0 ]} :
              request' = [request EXCEPT ![r] = y]
        /\ \/ UNCHANGED leases /\ preparation' = [NoRow EXCEPT !.state = "preparing", !.revision = 1]
           \/ UNCHANGED leases /\ preparation' = NoRow
           \/ /\ preparation' = [preparation EXCEPT !.state = "prepared", !.revision = @ + 1,
                                                    !.writing = 1]
              /\ leases' = <<[generation |-> 1, status |-> "reserved"]>>
    BY DEF Prepare, PrepareClaim, PrepareComplete, PrepareAbort, Done, MovesTo, Enters, WritesOnly,
           Unprepared
  <1>2. /\ leases = << >> /\ attachments = << >> /\ preparation.generation = 1
        /\ preparation \in PreparationRow(0, 0) /\ Len(attachments) = 0
        /\ Len(started) \in Nat
    <2>1. leases = << >> /\ attachments = << >> /\ preparation.generation = 1
      BY <1>1 DEF RuntimeInv, RowsAgree
    <2>2. Len(leases) = 0 /\ Len(attachments) = 0  BY <2>1, EmptySeq
    <2>. QED  BY <2>1, <2>2, RequestIs DEF RuntimeInv, RowsType
  <1>3. /\ RowsType' /\ RowsAgree(preparation, leases, attachments)'
    <2>1. CASE leases' = << >> /\ preparation' \in {NoRow, [NoRow EXCEPT !.state = "preparing",
                                                                        !.revision = 1]}
      <3>1. /\ Len(leases') = 0 /\ DOMAIN leases' = {} /\ leases' \in Seq(LeaseRow)
            /\ Len(attachments') = 0 /\ DOMAIN attachments' = {} /\ attachments' = << >>
            /\ attachments' \in Seq(AttachmentRow(Len(started')))
        BY <1>1, <1>2, <2>1, EmptySeq
      <3>2. /\ preparation' \in PreparationRow(0, 0) /\ preparation'.state \in Unprepared
            /\ preparation'.generation = 1
        <4>1. \E st \in Unprepared, n \in 0..1 :
                 preparation' = [ state |-> st, revision |-> n, generation |-> 1, writing |-> 0,
                                  attachment |-> 0 ]
          <5>1. CASE preparation' = NoRow  BY <5>1 DEF NoRow, Unprepared
          <5>2. CASE preparation' = [NoRow EXCEPT !.state = "preparing", !.revision = 1]
            <6>1. preparation' = [ state |-> "preparing", revision |-> 1, generation |-> 1,
                                   writing |-> 0, attachment |-> 0 ]
              BY <5>2 DEF NoRow
            <6>. QED  BY <6>1 DEF Unprepared
          <5>. QED  BY <2>1, <5>1, <5>2
        <4>2. PICK st \in Unprepared, n \in 0..1 :
                 preparation' = [ state |-> st, revision |-> n, generation |-> 1, writing |-> 0,
                                  attachment |-> 0 ]
          BY <4>1
        <4>3. st \in States /\ n \in Nat /\ 0 \in 0..0 /\ 1 \in Nat \ {0}
          BY DEF States, Unprepared
        <4>. QED  BY <4>2, <4>3 DEF PreparationRow
      <3>3. RowsType'  BY <3>1, <3>2 DEF RowsType
      <3>4. leases' = << >>  BY <2>1
      <3>. QED  BY <3>1, <3>2, <3>3, <3>4 DEF RowsAgree, Unprepared, AttachedStates
    <2>2. CASE /\ preparation' = [preparation EXCEPT !.state = "prepared", !.revision = @ + 1,
                                                    !.writing = 1]
               /\ leases' = <<[generation |-> 1, status |-> "reserved"]>>
      <3>1. preparation' = [ state |-> "prepared", revision |-> preparation.revision + 1,
                             generation |-> 1, writing |-> 1, attachment |-> 0 ]
        <4>1. preparation.attachment = 0  BY <1>2 DEF PreparationRow
        <4>. QED  BY <1>2, <2>2, <4>1 DEF PreparationRow
      <3>2. /\ Len(leases') = 1 /\ DOMAIN leases' = {1} /\ leases'[1].generation = 1
            /\ leases' \in Seq(LeaseRow)
            /\ Len(attachments') = 0 /\ DOMAIN attachments' = {}
            /\ attachments' \in Seq(AttachmentRow(Len(started')))
        <4>1. [generation |-> 1, status |-> "reserved"] \in LeaseRow  BY DEF LeaseRow
        <4>2. attachments' = << >> /\ attachments' \in Seq(AttachmentRow(Len(started')))
          BY <1>1, <1>2, EmptySeq
        <4>. QED  BY <2>2, <4>1, <4>2
      <3>3. preparation' \in PreparationRow(1, 0)
        BY <1>2, <3>1 DEF PreparationRow, States
      <3>4. RowsType'  BY <3>2, <3>3 DEF RowsType
      <3>. QED  BY <3>1, <3>2, <3>4 DEF RowsAgree, Unprepared, AttachedStates
    <2>. QED  BY <1>1, <1>2, <2>1, <2>2
  <1>4. PanesType'  BY <1>1 DEF RuntimeInv, PanesType
  <1>5. \A s \in Requests : request'[s].at \in {"idle", "prepare"}
                              /\ request'[s] \in RequestRow(Len(attachments), Len(started))
    <2>1. \A s \in Requests : request[s].at \in {"idle", "prepare"}
                              /\ request[s] \in RequestRow(Len(attachments), Len(started))
      BY <1>1 DEF RuntimeInv, RequestsOK, RequestOK
    <2>2. \A y \in {NoRequest, [ at |-> "prepare", revision |-> 1,
                                 attachment |-> request[r].attachment, pane |-> 0 ]} :
             y \in RequestRow(Len(attachments), Len(started)) /\ y.at \in {"idle", "prepare"}
      BY <1>2, RequestIs DEF RequestRow, Places, NoRequest
    <2>. QED  BY <1>1, <2>1, <2>2 DEF RuntimeInv, RequestsOK
  <1>6. RequestsOK'
    <2>1. request' = [s \in Requests |-> request'[s]]  BY <1>1 DEF RuntimeInv, RequestsOK
    <2>2. \A s \in Requests :
             RequestOK(request'[s], preparation', Len(attachments'), Len(started'))
      BY <1>1, <1>5 DEF RequestOK, Working
    <2>. QED  BY <2>1, <2>2 DEF RequestsOK
  <1>. QED  BY <1>3, <1>4, <1>6 DEF RuntimeInv

-----------------------------------------------------------------------------
(* The rest of the world.                                                    *)

LEMMA LeaseKeeps ==
  ASSUME RuntimeInv, NEW from, NEW to \in {"active", "revoked"}, LeaseMoves(from, to)
  PROVE  RuntimeInv'
  <1> DEFINE w == preparation.writing
             lease == [leases[w] EXCEPT !.status = to]
  <1>1. /\ UNCHANGED <<preparation, attachments, request, panes, started>>
        /\ preparation.state = "connected_readonly" /\ leases' = [leases EXCEPT ![w] = lease]
    BY DEF LeaseMoves, WritesOnly
  <1>2. leases \in Seq(LeaseRow) /\ w \in DOMAIN leases
    BY <1>1, LenProperties DEF RuntimeInv, RowsType, RowsAgree, PreparationRow, Unprepared
  <1>3. lease \in LeaseRow /\ lease.generation = leases[w].generation
    <2>1. leases[w] \in LeaseRow  BY <1>2
    <2>. QED  BY <2>1 DEF LeaseRow
  <1> HIDE DEF lease
  <1>4. /\ leases' \in Seq(LeaseRow) /\ Len(leases') = Len(leases) /\ leases'[w] = lease
        /\ DOMAIN leases' = DOMAIN leases
        /\ \A n \in DOMAIN leases : n # w => leases'[n] = leases[n]
    BY <1>1, <1>2, <1>3, ExceptSeq
  <1>5. RowsType' /\ PanesType'  BY <1>1, <1>4 DEF RuntimeInv, RowsType, PanesType
  <1>6. RowsAgree(preparation, leases, attachments)'
    BY <1>1, <1>2, <1>3, <1>4 DEF RuntimeInv, RowsAgree, Unprepared, AttachedStates
  <1>7. RequestsOK'  BY <1>1 DEF RuntimeInv, RequestsOK
  <1>. QED  BY <1>5, <1>6, <1>7 DEF RuntimeInv

LEMMA FrameKeeps ==
  ASSUME RuntimeInv, UNCHANGED <<runtimeRows, request, started>>, panes' \subseteq panes
  PROVE  RuntimeInv'
  BY DEF RuntimeInv, RowsType, PanesType, RequestsOK, runtimeRows

LEMMA RuntimeStep == RuntimeInv /\ [RuntimeNext]_runtimeVars => RuntimeInv'
  <1> SUFFICES ASSUME RuntimeInv, [RuntimeNext]_runtimeVars PROVE RuntimeInv'  OBVIOUS
  <1>1. ASSUME NEW r \in Requests, Attach(r) PROVE RuntimeInv'
    <2> HIDE DEF RuntimeInv
    <2>. QED
      BY <1>1, StartKeeps, ResetKeeps, NewKeeps, AgainKeeps, HarnessKeeps, PaneKeeps, FinishKeeps,
         FailKeeps, UnknownKeeps DEF Attach
  <1>2. ASSUME NEW r \in Requests, Detach(r) PROVE RuntimeInv'
    <2> HIDE DEF RuntimeInv
    <2>. QED
      BY <1>2, StartKeeps, BeginsKeeps, HarnessKeeps, GoneKeeps, RestoredKeeps, ConfirmKeeps,
         ReleaseKeeps DEF Detach
  <1>3. ASSUME NEW r \in Requests, RequestEnds(r) PROVE RuntimeInv'
    <2>1. UNCHANGED <<runtimeRows, started>> /\ panes' \subseteq panes /\ Done(r)
      BY <1>3 DEF RequestEnds, CallsOnly, WritesOnly
    <2>. QED  BY <2>1, EndKeeps
  <1>4. ASSUME NEW p \in panes, PaneExits(p) PROVE RuntimeInv'
    <2>1. UNCHANGED <<runtimeRows, request, started>> /\ panes' \subseteq panes
      BY <1>4 DEF PaneExits, CallsOnly
    <2>. QED  BY <2>1, FrameKeeps
  <1>5. CASE UNCHANGED runtimeVars
    <2>1. UNCHANGED <<runtimeRows, request, started>> /\ panes' \subseteq panes
      BY <1>5 DEF runtimeVars
    <2>. QED  BY <2>1, FrameKeeps
  <1> HIDE DEF RuntimeInv
  <1>. QED  BY <1>1, <1>2, <1>3, <1>4, <1>5, PrepareKeeps, LeaseKeeps DEF RuntimeNext

\* However many requests prepare, attach and detach a runtime, and wherever they end: one
\* attachment and one lease can be used, of the generation the preparation is in; and
\* none once it is detached.
THEOREM RuntimeIsSafe == RuntimeSpec => []RuntimeSafe
  <1>1. RuntimeInv => RuntimeSafe
    <2> SUFFICES ASSUME RuntimeInv PROVE RuntimeTypeOK /\ SingleAuthority  BY DEF RuntimeSafe
    <2>1. RuntimeTypeOK
      BY DEF RuntimeInv, RowsType, PanesType, RequestsOK, RequestOK, RuntimeTypeOK,
             PreparationRow, LeaseRow, AttachmentRow, RequestRow, Places
    <2>2. SingleAuthority
      <3>1. /\ RowsAgree(preparation, leases, attachments)
            /\ preparation.state \in AttachedStates => preparation.state \notin Unprepared
        BY DEF RuntimeInv, AttachedStates, Unprepared
      <3>. QED  BY <3>1 DEF RowsAgree, SingleAuthority, Current
    <2>. QED  BY <2>1, <2>2
  <1>. QED  BY <1>1, RuntimeInitOK, RuntimeStep, PTL DEF RuntimeSpec

-----------------------------------------------------------------------------
(* Which pane is whose, and which was closed.                                *)

PaneOf(p, a, st) == p \in DOMAIN st /\ st[p] = a
SomeClosed(a, st, ps) == \E p \in DOMAIN st : st[p] = a /\ p \notin ps

\* A pane in the row of an attachment was started for it, and a close that was confirmed
\* closed one that was; a runtime is detached after that.
PanesTrue(p, as, st, ps) ==
    /\ \A a \in DOMAIN as :
          /\ as[a].pane # 0 => PaneOf(as[a].pane, a, st)
          /\ as[a].phase = "close_confirmed" => SomeClosed(a, st, ps)
    /\ p.state = "detached" => as[p.attachment].phase = "close_confirmed"

\* What a request that holds the row's revision has found out about panes is so.
CallTrue(x, p, as, st, ps) ==
    x.revision = p.revision =>
        /\ x.at \in {"old", "launch"} => x.attachment = p.attachment
        /\ x.at \in {"old", "finish", "unknown", "close", "gone"} /\ x.pane # 0 =>
              PaneOf(x.pane, p.attachment, st)
        /\ x.at \in {"gone", "confirm"} => SomeClosed(p.attachment, st, ps)
        /\ x.at = "release" => as[p.attachment].phase = "close_confirmed"

GoneInv ==
    /\ PanesTrue(preparation, attachments, started, panes)
    /\ \A r \in Requests : CallTrue(request[r], preparation, attachments, started, panes)

LEMMA GoneInitOK == RuntimeInit => GoneInv
  BY EmptySeq DEF RuntimeInit, GoneInv, PanesTrue, CallTrue, NoRow, NoRequest

\* Panes are never started again, and what a pane was started for stays.
PanesMove ==
    \A p \in DOMAIN started : /\ p \in DOMAIN started' /\ started'[p] = started[p]
                              /\ p \in panes' => p \in panes

LEMMA PanesStay ==
  ASSUME PanesMove, NEW a
  PROVE  /\ \A p : PaneOf(p, a, started) => PaneOf(p, a, started')
         /\ SomeClosed(a, started, panes) => SomeClosed(a, started', panes')
  BY DEF PanesMove, PaneOf, SomeClosed

LEMMA PanesTrueStays ==
  ASSUME PanesMove, NEW p, NEW as, PanesTrue(p, as, started, panes)
  PROVE  PanesTrue(p, as, started', panes')
  BY PanesStay DEF PanesTrue

LEMMA CallTrueStays ==
  ASSUME PanesMove, NEW x, NEW p, NEW as, CallTrue(x, p, as, started, panes)
  PROVE  CallTrue(x, p, as, started', panes')
  BY PanesStay DEF CallTrue

\* A request goes on as y, and the rows stay.
LEMMA CallGone ==
  ASSUME RuntimeInv, GoneInv, UNCHANGED runtimeRows, PanesMove,
         NEW r \in Requests, NEW y, request' = [request EXCEPT ![r] = y],
         CallTrue(y, preparation, attachments, started', panes')
  PROVE  GoneInv'
  <1>1. UNCHANGED <<preparation, attachments>>  BY DEF runtimeRows
  <1>2. PanesTrue(preparation, attachments, started, panes)'
    BY <1>1, PanesTrueStays DEF GoneInv
  <1>3. /\ request'[r] = y /\ \A s \in Requests \ {r} : request'[s] = request[s]
    BY DEF RuntimeInv, RequestsOK
  <1>4. \A s \in Requests \ {r} : CallTrue(request[s], preparation, attachments, started', panes')
    BY CallTrueStays DEF GoneInv
  <1>. QED  BY <1>1, <1>2, <1>3, <1>4 DEF GoneInv

\* The row moves on to another revision, and the request with it.
LEMMA WriteGone ==
  ASSUME RuntimeInv, PanesTrue(preparation, attachments, started, panes)',
         preparation'.revision = preparation.revision + 1,
         NEW r \in Requests, NEW y, request' = [request EXCEPT ![r] = y],
         CallTrue(y, preparation', attachments', started', panes')
  PROVE  GoneInv'
  <1>1. /\ request'[r] = y /\ \A s \in Requests \ {r} : request'[s] = request[s]
    BY DEF RuntimeInv, RequestsOK
  <1>2. ASSUME NEW s \in Requests
        PROVE  CallTrue(request[s], preparation', attachments', started', panes')
    <2>1. RequestOK(request[s], preparation, Len(attachments), Len(started))
          /\ request[s].revision \in Nat /\ preparation.revision \in Nat
      BY RequestIs
    <2>2. request[s].at \in {"idle", "prepare"} \/ request[s].revision <= preparation.revision
      BY <2>1 DEF RequestOK
    <2>. QED  BY <2>1, <2>2 DEF CallTrue
  <1>. QED  BY <1>1, <1>2 DEF GoneInv

\* The row of the current attachment is written.
LEMMA RecordGone ==
  ASSUME RuntimeInv, GoneInv, preparation.attachment \in DOMAIN attachments,
         NEW status, NEW pane, NEW phase, NEW s, Becomes(s), Records(status, pane, phase),
         UNCHANGED <<started, panes>>,
         pane # 0 => PaneOf(pane, preparation.attachment, started),
         phase = "close_confirmed" => SomeClosed(preparation.attachment, started, panes),
         s = "detached" => phase = "close_confirmed",
         NEW r \in Requests, NEW y, request' = [request EXCEPT ![r] = y],
         CallTrue(y, preparation', attachments', started, panes)
  PROVE  GoneInv'
  <1> DEFINE k == preparation.attachment
             row == [ generation |-> Current.generation, status |-> status,
                      pane |-> IF pane = 0 THEN Current.pane ELSE pane, phase |-> phase ]
  <1>1. /\ attachments' = [attachments EXCEPT ![k] = row]
        /\ attachments \in Seq(AttachmentRow(Len(started)))
        /\ preparation \in PreparationRow(Len(leases), Len(attachments))
    BY DEF Records, RuntimeInv, RowsType
  <1>2. /\ DOMAIN attachments' = DOMAIN attachments /\ attachments'[k] = row
        /\ \A a \in DOMAIN attachments : a # k => attachments'[a] = attachments[a]
    BY <1>1
  <1>3. /\ preparation'.revision = preparation.revision + 1 /\ preparation'.state = s
        /\ preparation'.attachment = k
    BY <1>1 DEF Becomes, PreparationRow
  <1>4. row.pane # 0 => PaneOf(row.pane, k, started)
    BY DEF GoneInv, PanesTrue, Current
  <1>5. row.phase = phase  OBVIOUS
  <1> HIDE DEF row
  <1>6. PanesTrue(preparation', attachments', started, panes)
    BY <1>2, <1>3, <1>4, <1>5 DEF GoneInv, PanesTrue
  <1> HIDE DEF RuntimeInv
  <1>. QED  BY <1>3, <1>6, WriteGone

-----------------------------------------------------------------------------
(* The steps.                                                                *)

LEMMA IdleTrue ==
  ASSUME NEW p, NEW as, NEW st, NEW ps PROVE CallTrue(NoRequest, p, as, st, ps)
  BY DEF CallTrue, NoRequest

LEMMA PanesHold ==
  ASSUME RuntimeInv, started' = started, panes' \subseteq panes PROVE PanesMove
  BY DEF PanesMove

\* An attach or a detach begins with the row it reads.
LEMMA StartGone ==
  ASSUME RuntimeInv, GoneInv, NEW r \in Requests, AttachStart(r) \/ DetachStart(r)
  PROVE  GoneInv'
  <1>1. UNCHANGED <<runtimeRows, started, panes>>
    BY DEF AttachStart, DetachStart, CallsOnly, WritesOnly
  <1>2. PanesMove  BY <1>1, PanesHold
  <1>3. CASE AttachStart(r)
    <2>1. PICK place \in {"reset", "begin"} : MovesTo(r, place, preparation.revision, 0)
      BY <1>3 DEF AttachStart
    <2> DEFINE y == [ at |-> place, revision |-> preparation.revision,
                      attachment |-> request[r].attachment, pane |-> 0 ]
    <2>2. request' = [request EXCEPT ![r] = y]  BY <2>1 DEF MovesTo, Enters
    <2>3. CallTrue(y, preparation, attachments, started', panes')  BY DEF CallTrue
    <2> HIDE DEF y, RuntimeInv, GoneInv
    <2>. QED  BY <1>1, <1>2, <2>2, <2>3, CallGone
  <1>4. CASE DetachStart(r)
    <2>1. preparation.state \in AttachedStates  BY <1>4 DEF DetachStart, AttachedStates
    <2>2. preparation.attachment \in DOMAIN attachments /\ Current \in AttachmentRow(Len(started))
      BY <2>1, CurrentIs
    <2>3. PICK place \in {"detach", "close", "release"} :
             /\ MovesTo(r, place, preparation.revision, Current.pane)
             /\ place = "release" => Current.phase # "close"
      BY <1>4 DEF DetachStart
    <2>4. place = "release" => Current.phase = "close_confirmed"
      BY <2>2, <2>3 DEF AttachmentRow
    <2>5. Current.pane # 0 => PaneOf(Current.pane, preparation.attachment, started)
      BY <2>2 DEF GoneInv, PanesTrue, Current
    <2> DEFINE y == [ at |-> place, revision |-> preparation.revision,
                      attachment |-> request[r].attachment, pane |-> Current.pane ]
    <2>6. request' = [request EXCEPT ![r] = y]  BY <2>3 DEF MovesTo, Enters
    <2>7. CallTrue(y, preparation, attachments, started', panes')
      BY <1>1, <2>4, <2>5 DEF CallTrue, Current
    <2> HIDE DEF y, RuntimeInv, GoneInv
    <2>. QED  BY <1>1, <1>2, <2>6, <2>7, CallGone
  <1>. QED  BY <1>3, <1>4

\* What the harness says of a pane that a request holds.
LEMMA HarnessGone ==
  ASSUME RuntimeInv, GoneInv, NEW r \in Requests,
         AttachOld(r) \/ AttachNoPane(r) \/ DetachClosed(r) \/ DetachFailed(r)
  PROVE  GoneInv'
  <1> DEFINE x == request[r]
  <1>1. UNCHANGED <<runtimeRows, started>> /\ panes' \subseteq panes
    BY DEF AttachOld, AttachNoPane, DetachClosed, DetachFailed, CallsOnly, WritesOnly
  <1>2. PanesMove  BY <1>1, PanesHold
  <1>3. CallTrue(x, preparation, attachments, started', panes')
    BY <1>2, CallTrueStays DEF GoneInv
  <1>4. ASSUME NEW place, NEW pane, MovesTo(r, place, x.revision, pane),
               CallTrue([ at |-> place, revision |-> x.revision, attachment |-> x.attachment,
                          pane |-> pane ], preparation, attachments, started', panes')
        PROVE  GoneInv'
    <2> HIDE DEF RuntimeInv, GoneInv
    <2>. QED  BY <1>1, <1>2, <1>4, CallGone DEF MovesTo, Enters
  <1> HIDE DEF RuntimeInv, GoneInv
  <1>5. CASE AttachOld(r)
    <2>1. /\ x.at = "old"
          /\ \/ MovesTo(r, "launch", x.revision, 0)
             \/ MovesTo(r, "unknown", x.revision, x.pane)
      BY <1>5 DEF AttachOld, At
    <2>2. CallTrue([ at |-> "launch", revision |-> x.revision, attachment |-> x.attachment,
                     pane |-> 0 ], preparation, attachments, started', panes')
      BY <1>3, <2>1 DEF CallTrue
    <2>3. CallTrue([ at |-> "unknown", revision |-> x.revision, attachment |-> x.attachment,
                     pane |-> x.pane ], preparation, attachments, started', panes')
      BY <1>3, <2>1 DEF CallTrue
    <2>. QED  BY <1>4, <2>1, <2>2, <2>3
  <1>6. CASE AttachNoPane(r)
    <2>1. MovesTo(r, "fail", x.revision, 0)  BY <1>6 DEF AttachNoPane
    <2>2. CallTrue([ at |-> "fail", revision |-> x.revision, attachment |-> x.attachment,
                     pane |-> 0 ], preparation, attachments, started', panes')
      BY DEF CallTrue
    <2>. QED  BY <1>4, <2>1, <2>2
  <1>7. CASE DetachClosed(r)
    <2>1. /\ x.at = "close" /\ x.pane # 0 /\ MovesTo(r, "confirm", x.revision, 0)
          /\ panes' = panes \ {x.pane}
      BY <1>7 DEF DetachClosed, At
    <2>2. CallTrue([ at |-> "confirm", revision |-> x.revision, attachment |-> x.attachment,
                     pane |-> 0 ], preparation, attachments, started', panes')
      BY <1>3, <2>1 DEF CallTrue, PaneOf, SomeClosed
    <2>. QED  BY <1>4, <2>1, <2>2
  <1>8. CASE DetachFailed(r)
    <2>1. /\ x.at = "close"
          /\ \E place \in {"gone", "unknown", "restore"} :
                /\ place = "gone" => x.pane # 0 /\ x.pane \notin panes'
                /\ MovesTo(r, place, x.revision, x.pane)
      BY <1>8 DEF DetachFailed, At
    <2>2. PICK place \in {"gone", "unknown", "restore"} :
                /\ place = "gone" => x.pane # 0 /\ x.pane \notin panes'
                /\ MovesTo(r, place, x.revision, x.pane)
      BY <2>1
    <2>3. CallTrue([ at |-> place, revision |-> x.revision, attachment |-> x.attachment,
                     pane |-> x.pane ], preparation, attachments, started', panes')
      BY <1>3, <2>1, <2>2 DEF CallTrue, PaneOf, SomeClosed
    <2>. QED  BY <1>4, <2>2, <2>3
  <1>. QED  BY <1>5, <1>6, <1>7, <1>8

\* A pane is started for the attachment that the request holds.
LEMMA PaneGone ==
  ASSUME RuntimeInv, GoneInv, NEW r \in Requests, AttachPane(r) PROVE GoneInv'
  <1> DEFINE x == request[r]
             pane == Len(started) + 1
  <1>1. /\ x.at = "launch" /\ started' = Append(started, x.attachment)
        /\ panes' \subseteq panes \cup {pane} /\ UNCHANGED runtimeRows
    BY DEF AttachPane, At, CallsOnly
  <1>2. \E place \in {"finish", "fail", "unknown"}, name \in {0, pane} :
           MovesTo(r, place, x.revision, name)
    BY DEF AttachPane
  <1>3. PICK place \in {"finish", "fail", "unknown"}, name \in {0, pane} :
           MovesTo(r, place, x.revision, name)
    BY <1>2
  <1>4. /\ started \in Seq(1..Len(attachments)) /\ Len(started) \in Nat
        /\ x.attachment \in 1..Len(attachments)
    <2>1. RequestOK(x, preparation, Len(attachments), Len(started)) /\ Len(attachments) \in Nat
          /\ x.attachment \in 0..Len(attachments) /\ Len(started) \in Nat
      BY RequestIs
    <2>2. x.attachment # 0  BY <1>1, <2>1 DEF RequestOK
    <2>. QED  BY <2>1, <2>2 DEF RuntimeInv, PanesType
  <1>5. /\ DOMAIN started = 1..Len(started) /\ DOMAIN started' = 1..pane
        /\ started'[pane] = x.attachment
        /\ \A p \in 1..Len(started) : started'[p] = started[p]
    BY <1>1, <1>4, AppendProperties, LenProperties
  <1>6. PanesMove  BY <1>1, <1>4, <1>5 DEF PanesMove
  <1>7. CallTrue(x, preparation, attachments, started', panes')
    BY <1>6, CallTrueStays DEF GoneInv
  <1>8. PaneOf(pane, x.attachment, started')  BY <1>4, <1>5 DEF PaneOf
  <1> HIDE DEF pane
  <1> DEFINE y == [ at |-> place, revision |-> x.revision, attachment |-> x.attachment,
                    pane |-> name ]
  <1>9. CallTrue(y, preparation, attachments, started', panes')
    BY <1>1, <1>7, <1>8 DEF CallTrue
  <1>10. request' = [request EXCEPT ![r] = y]  BY <1>3 DEF MovesTo, Enters
  <1> HIDE DEF y, RuntimeInv, GoneInv
  <1>. QED  BY <1>1, <1>6, <1>9, <1>10, CallGone

\* A request that ends, and panes that exit.
LEMMA EndGone ==
  ASSUME RuntimeInv, GoneInv, UNCHANGED <<runtimeRows, started>>, panes' \subseteq panes,
         NEW r \in Requests, Done(r)
  PROVE  GoneInv'
  <1>1. PanesMove  BY PanesHold
  <1>2. CallTrue(NoRequest, preparation, attachments, started', panes')  BY IdleTrue
  <1> HIDE DEF RuntimeInv, GoneInv
  <1>. QED  BY <1>1, <1>2, CallGone DEF Done

LEMMA FrameGone ==
  ASSUME RuntimeInv, GoneInv, UNCHANGED <<preparation, attachments, request, started>>,
         panes' \subseteq panes
  PROVE  GoneInv'
  <1>1. PanesMove  BY PanesHold
  <1>. QED  BY <1>1, PanesTrueStays, CallTrueStays DEF GoneInv

-----------------------------------------------------------------------------
(* The writes.                                                               *)

\* A write by a request that holds the row's revision and is then done.
LEMMA LastWriteGone ==
  ASSUME RuntimeInv, GoneInv, preparation.state \in AttachedStates,
         NEW status, NEW pane, NEW phase, NEW s, Becomes(s), Records(status, pane, phase),
         UNCHANGED <<started, panes>>,
         pane # 0 => PaneOf(pane, preparation.attachment, started),
         phase = "close_confirmed" => SomeClosed(preparation.attachment, started, panes),
         s = "detached" => phase = "close_confirmed",
         NEW r \in Requests, Done(r)
  PROVE  GoneInv'
  <1>1. preparation.attachment \in DOMAIN attachments  BY CurrentIs
  <1>2. request' = [request EXCEPT ![r] = NoRequest]  BY DEF Done
  <1>3. CallTrue(NoRequest, preparation', attachments', started, panes)  BY IdleTrue
  <1> HIDE DEF RuntimeInv, GoneInv
  <1>. QED  BY <1>1, <1>2, <1>3, RecordGone

\* What the current attachment's row says of its phase, and a request of its pane.
LEMMA NowTrue ==
  ASSUME RuntimeInv, GoneInv, NEW r \in Requests, preparation.state \in AttachedStates
  PROVE  /\ Current.phase = "close_confirmed" =>
                SomeClosed(preparation.attachment, started, panes)
         /\ Current.pane # 0 => PaneOf(Current.pane, preparation.attachment, started)
         /\ CallTrue(request[r], preparation, attachments, started, panes)
  <1>1. preparation.attachment \in DOMAIN attachments  BY CurrentIs
  <1>. QED  BY <1>1 DEF GoneInv, PanesTrue, Current

LEMMA FinishGone ==
  ASSUME RuntimeInv, GoneInv, NEW r \in Requests, AttachFinish(r) PROVE GoneInv'
  <1>1. request[r].at = "finish" /\ request[r].at \in Working /\ UNCHANGED <<started, panes>>
    BY DEF AttachFinish, At, Working, WritesOnly
  <1>2. CASE /\ Holds(r) /\ Becomes("connected_readonly") /\ Done(r)
             /\ Records("connected_readonly", request[r].pane, "close")
    <2>1. preparation.state \in AttachedStates /\ request[r].revision = preparation.revision
      BY <1>1, <1>2, HoldsAttached DEF Holds
    <2>2. request[r].pane # 0 => PaneOf(request[r].pane, preparation.attachment, started)
      BY <1>1, <2>1, NowTrue DEF CallTrue
    <2> HIDE DEF RuntimeInv, GoneInv
    <2>. QED  BY <1>1, <1>2, <2>1, <2>2, LastWriteGone
  <1>3. CASE CallsOnly /\ MovesTo(r, "unknown", request[r].revision, request[r].pane)
    <2> DEFINE y == [ at |-> "unknown", revision |-> request[r].revision,
                      attachment |-> request[r].attachment, pane |-> request[r].pane ]
    <2>1. PanesMove  BY <1>1, PanesHold
    <2>2. CallTrue(y, preparation, attachments, started', panes')
      BY <1>1 DEF GoneInv, CallTrue
    <2>3. UNCHANGED runtimeRows /\ request' = [request EXCEPT ![r] = y]
      BY <1>3 DEF CallsOnly, MovesTo, Enters
    <2> HIDE DEF RuntimeInv, GoneInv, y
    <2>. QED  BY <2>1, <2>2, <2>3, CallGone
  <1>. QED  BY <1>2, <1>3 DEF AttachFinish

LEMMA FailGone ==
  ASSUME RuntimeInv, GoneInv, NEW r \in Requests, AttachFail(r) PROVE GoneInv'
  <1>1. /\ preparation.state \in AttachedStates /\ Becomes("prepared")
        /\ Records("detached", 0, Current.phase) /\ Done(r) /\ UNCHANGED <<started, panes>>
    BY DEF AttachFail, FailAttach, WritesOnly, AttachedStates
  <1> HIDE DEF RuntimeInv, GoneInv
  <1>. QED  BY <1>1, LastWriteGone, NowTrue

LEMMA UnknownGone ==
  ASSUME RuntimeInv, GoneInv, NEW r \in Requests, MarkUnknown(r) PROVE GoneInv'
  <1>1. /\ request[r].at = "unknown" /\ request[r].at \in Working /\ Holds(r)
        /\ Becomes("outcome_unknown") /\ Done(r) /\ UNCHANGED <<started, panes>>
        /\ Records("outcome_unknown", request[r].pane, Current.phase)
    BY DEF MarkUnknown, At, Working, WritesOnly
  <1>2. preparation.state \in AttachedStates /\ request[r].revision = preparation.revision
    BY <1>1, HoldsAttached DEF Holds
  <1>3. request[r].pane # 0 => PaneOf(request[r].pane, preparation.attachment, started)
    BY <1>1, <1>2, NowTrue DEF CallTrue
  <1> HIDE DEF RuntimeInv, GoneInv
  <1>. QED  BY <1>1, <1>2, <1>3, LastWriteGone, NowTrue

LEMMA ClosedGone ==
  ASSUME RuntimeInv, GoneInv, NEW r \in Requests, DetachGone(r) PROVE GoneInv'
  <1>1. /\ request[r].at = "gone" /\ request[r].at \in Working /\ Holds(r)
        /\ Becomes("outcome_unknown") /\ Done(r) /\ UNCHANGED <<started, panes>>
        /\ Records("outcome_unknown", 0, "close_confirmed")
    BY DEF DetachGone, At, Working, WritesOnly
  <1>2. preparation.state \in AttachedStates /\ request[r].revision = preparation.revision
    BY <1>1, HoldsAttached DEF Holds
  <1>3. SomeClosed(preparation.attachment, started, panes)  BY <1>1, <1>2, NowTrue DEF CallTrue
  <1> HIDE DEF RuntimeInv, GoneInv
  <1>. QED  BY <1>1, <1>2, <1>3, LastWriteGone

LEMMA RestoredGone ==
  ASSUME RuntimeInv, GoneInv, NEW r \in Requests, DetachRestored(r) PROVE GoneInv'
  <1>1. /\ request[r].at \in Working /\ Holds(r)
        /\ Becomes("connected_readonly") /\ Done(r) /\ UNCHANGED <<started, panes>>
        /\ Records("connected_readonly", 0, Current.phase)
    BY DEF DetachRestored, At, Working, WritesOnly
  <1>2. preparation.state \in AttachedStates  BY <1>1, HoldsAttached
  <1> HIDE DEF RuntimeInv, GoneInv
  <1>. QED  BY <1>1, <1>2, LastWriteGone, NowTrue

\* The runtime is detached: its phase says that the pane was closed.
LEMMA ReleaseGone ==
  ASSUME RuntimeInv, GoneInv, NEW r \in Requests, DetachRelease(r) PROVE GoneInv'
  <1>1. /\ request[r].at = "release" /\ request[r].at \in Working /\ Holds(r)
        /\ Becomes("detached") /\ Done(r) /\ UNCHANGED <<started, panes>>
        /\ Records("detached", 0, Current.phase)
    BY DEF DetachRelease, At, Working, WritesOnly
  <1>2. preparation.state \in AttachedStates /\ request[r].revision = preparation.revision
    BY <1>1, HoldsAttached DEF Holds
  <1>3. Current.phase = "close_confirmed"  BY <1>1, <1>2, NowTrue DEF CallTrue, Current
  <1> HIDE DEF RuntimeInv, GoneInv
  <1>. QED  BY <1>1, <1>2, <1>3, LastWriteGone, NowTrue

\* A write after which the request goes on, with the revision it wrote.
LEMMA NextWriteGone ==
  ASSUME RuntimeInv, GoneInv, NEW r \in Requests, preparation.state \in AttachedStates,
         NEW s, s # "detached", NEW status, NEW phase,
         Becomes(s), Records(status, 0, phase), UNCHANGED <<started, panes>>,
         phase = "close_confirmed" => SomeClosed(preparation.attachment, started, panes),
         NEW place, NEW attachment, NEW pane,
         Enters(r, place, preparation.revision + 1, attachment, pane),
         place \in {"old", "launch"} => attachment = preparation.attachment,
         place \notin {"gone", "confirm"}, place = "release" => phase = "close_confirmed",
         place \in {"old", "finish", "unknown", "close"} /\ pane # 0 =>
             PaneOf(pane, preparation.attachment, started)
  PROVE  GoneInv'
  <1> DEFINE y == [ at |-> place, revision |-> preparation.revision + 1,
                    attachment |-> attachment, pane |-> pane ]
  <1>1. preparation.attachment \in DOMAIN attachments  BY CurrentIs
  <1>2. request' = [request EXCEPT ![r] = y]  BY DEF Enters
  <1>3. preparation'.attachment = preparation.attachment
    BY DEF Becomes, RuntimeInv, RowsType, PreparationRow
  <1>4. attachments'[preparation.attachment].phase = phase  BY <1>1 DEF Records
  <1>5. CallTrue(y, preparation', attachments', started, panes)
    BY <1>3, <1>4 DEF CallTrue
  <1> HIDE DEF RuntimeInv, GoneInv, y
  <1>. QED  BY <1>1, <1>2, <1>5, RecordGone

LEMMA ResetGone ==
  ASSUME RuntimeInv, GoneInv, NEW r \in Requests, AttachReset(r) PROVE GoneInv'
  <1>1. /\ preparation.state \in AttachedStates
        /\ Becomes("prepared") /\ Records("detached", 0, Current.phase)
        /\ UNCHANGED <<started, panes>>
        /\ Enters(r, "begin", preparation.revision + 1, request[r].attachment, 0)
    BY DEF AttachReset, FailAttach, Holds, MovesTo, WritesOnly, AttachedStates
  <1> HIDE DEF RuntimeInv, GoneInv
  <1>. QED  BY <1>1, NextWriteGone, NowTrue

LEMMA AgainGone ==
  ASSUME RuntimeInv, GoneInv, NEW r \in Requests, AttachAgain(r) PROVE GoneInv'
  <1>1. /\ preparation.state \in AttachedStates /\ request[r].revision = preparation.revision
        /\ Becomes("attaching") /\ Records("attaching", 0, Current.phase)
        /\ UNCHANGED <<started, panes>>
    BY DEF AttachAgain, Holds, WritesOnly, AttachedStates
  <1>2. PICK place \in {"old", "launch"} :
          Enters(r, place, preparation.revision + 1, preparation.attachment, Current.pane)
    BY <1>1 DEF AttachAgain
  <1> HIDE DEF RuntimeInv, GoneInv
  <1>. QED  BY <1>1, <1>2, NextWriteGone, NowTrue

LEMMA BeginsGone ==
  ASSUME RuntimeInv, GoneInv, NEW r \in Requests, DetachBegins(r) PROVE GoneInv'
  <1>1. /\ preparation.state \in AttachedStates
        /\ Becomes("detaching") /\ Records("detaching", 0, Current.phase)
        /\ UNCHANGED <<started, panes>>
        /\ Enters(r, "close", preparation.revision + 1, request[r].attachment, Current.pane)
    BY DEF DetachBegins, Holds, MovesTo, WritesOnly, AttachedStates
  <1> HIDE DEF RuntimeInv, GoneInv
  <1>. QED  BY <1>1, NextWriteGone, NowTrue

LEMMA ConfirmGone ==
  ASSUME RuntimeInv, GoneInv, NEW r \in Requests, DetachConfirm(r) PROVE GoneInv'
  <1>1. /\ request[r].at = "confirm" /\ request[r].at \in Working /\ Holds(r)
        /\ request[r].revision = preparation.revision
        /\ Becomes(preparation.state) /\ Records(Current.status, 0, "close_confirmed")
        /\ UNCHANGED <<started, panes>>
        /\ Enters(r, "release", preparation.revision + 1, request[r].attachment, 0)
    BY DEF DetachConfirm, At, Working, Holds, MovesTo, WritesOnly
  <1>2. preparation.state \in AttachedStates  BY <1>1, HoldsAttached
  <1>3. preparation.state # "detached"  BY <1>2 DEF AttachedStates
  <1>4. SomeClosed(preparation.attachment, started, panes)
    BY <1>1, <1>2, NowTrue DEF CallTrue
  <1> HIDE DEF RuntimeInv, GoneInv
  <1>. QED  BY <1>1, <1>2, <1>3, <1>4, NextWriteGone

\* A new attachment has no pane, and nothing of it was closed.
LEMMA NewGone ==
  ASSUME RuntimeInv, GoneInv, NEW r \in Requests, AttachNew(r) PROVE GoneInv'
  <1> DEFINE k == Len(attachments) + 1
             y == [ at |-> "launch", revision |-> preparation.revision + 1,
                    attachment |-> k, pane |-> 0 ]
  <1>1. /\ Holds(r) /\ UNCHANGED <<started, panes>>
        /\ Enters(r, "launch", request[r].revision + 1, k, 0)
    BY DEF AttachNew, WritesOnly
  <1>2. PICK g : attachments' = Append(attachments,
            [generation |-> g, status |-> "attaching", pane |-> 0, phase |-> "close"])
    BY DEF AttachNew
  <1>3. /\ preparation'.state = "attaching" /\ preparation'.attachment = k
        /\ preparation'.revision = preparation.revision + 1
    BY DEF AttachNew
  <1>4. attachments \in Seq(AttachmentRow(Len(started))) /\ Len(attachments) \in Nat
    BY LenProperties DEF RuntimeInv, RowsType
  <1>5. /\ DOMAIN attachments' = DOMAIN attachments \cup {k} /\ DOMAIN attachments = 1..Len(attachments)
        /\ attachments'[k].pane = 0 /\ attachments'[k].phase = "close"
        /\ \A a \in DOMAIN attachments : attachments'[a] = attachments[a]
    BY <1>2, <1>4
  <1>6. request' = [request EXCEPT ![r] = y]  BY <1>1 DEF Enters, Holds
  <1>7. CallTrue(y, preparation', attachments', started', panes')  BY <1>3 DEF CallTrue
  <1> HIDE DEF y, k
  <1>8. PanesTrue(preparation, attachments, started, panes)'
    BY <1>1, <1>3, <1>5 DEF GoneInv, PanesTrue
  <1> HIDE DEF RuntimeInv, GoneInv
  <1>. QED  BY <1>3, <1>6, <1>7, <1>8, WriteGone

\* Before there is anything to a runtime no request knows of a pane.
LEMMA PrepareGone ==
  ASSUME RuntimeInv, GoneInv, NEW r \in Requests, Prepare(r) PROVE GoneInv'
  <1>1. /\ UNCHANGED <<attachments, started, panes>> /\ preparation.state \in Unprepared
        /\ \E y \in {NoRequest, [ at |-> "prepare", revision |-> 1,
                                  attachment |-> request[r].attachment, pane |-> 0 ]} :
              request' = [request EXCEPT ![r] = y]
        /\ \/ preparation' = [NoRow EXCEPT !.state = "preparing", !.revision = 1]
           \/ preparation' = NoRow
           \/ preparation' = [preparation EXCEPT !.state = "prepared", !.revision = @ + 1,
                                                 !.writing = 1]
    BY DEF Prepare, PrepareClaim, PrepareComplete, PrepareAbort, Done, MovesTo, Enters, WritesOnly,
           Unprepared
  <1>2. attachments = << >>  BY <1>1 DEF RuntimeInv, RowsAgree
  <1>3. preparation'.state # "detached"
    <2>1. CASE preparation' = [NoRow EXCEPT !.state = "preparing", !.revision = 1]
      BY <2>1 DEF NoRow
    <2>2. CASE preparation' = NoRow  BY <2>2 DEF NoRow
    <2>3. CASE preparation' = [preparation EXCEPT !.state = "prepared", !.revision = @ + 1,
                                                  !.writing = 1]
      BY <2>3 DEF RuntimeInv, RowsType, PreparationRow
    <2>. QED  BY <1>1, <2>1, <2>2, <2>3
  <1>4. PanesTrue(preparation, attachments, started, panes)'
    BY <1>1, <1>2, <1>3, EmptySeq DEF PanesTrue
  <1>5. \A s \in Requests : request[s].at \in {"idle", "prepare"}
    BY <1>1 DEF RuntimeInv, RequestsOK, RequestOK
  <1>6. \A s \in Requests : request'[s].at \in {"idle", "prepare"}
    BY <1>1, <1>5 DEF RuntimeInv, RequestsOK, NoRequest
  <1>7. \A s \in Requests : CallTrue(request[s], preparation, attachments, started, panes)'
    BY <1>6 DEF CallTrue
  <1>. QED  BY <1>4, <1>7 DEF GoneInv

LEMMA GoneStep == RuntimeInv /\ GoneInv /\ [RuntimeNext]_runtimeVars => GoneInv'
  <1> SUFFICES ASSUME RuntimeInv, GoneInv, [RuntimeNext]_runtimeVars PROVE GoneInv'  OBVIOUS
  <1> HIDE DEF RuntimeInv, GoneInv
  <1>1. ASSUME NEW r \in Requests, Attach(r) PROVE GoneInv'
    BY <1>1, StartGone, ResetGone, NewGone, AgainGone, HarnessGone, PaneGone, FinishGone,
       FailGone, UnknownGone DEF Attach
  <1>2. ASSUME NEW r \in Requests, Detach(r) PROVE GoneInv'
    BY <1>2, StartGone, BeginsGone, HarnessGone, ClosedGone, RestoredGone, ConfirmGone,
       ReleaseGone DEF Detach
  <1>3. ASSUME NEW r \in Requests, RequestEnds(r) PROVE GoneInv'
    <2>1. UNCHANGED <<runtimeRows, started>> /\ panes' \subseteq panes /\ Done(r)
      BY <1>3 DEF RequestEnds, CallsOnly, WritesOnly
    <2>. QED  BY <2>1, EndGone
  <1>4. ASSUME NEW p \in panes, PaneExits(p) PROVE GoneInv'
    <2>1. UNCHANGED <<preparation, attachments, request, started>> /\ panes' \subseteq panes
      BY <1>4 DEF PaneExits, CallsOnly, runtimeRows
    <2>. QED  BY <2>1, FrameGone
  <1>5. ASSUME NEW from, NEW to, LeaseMoves(from, to) PROVE GoneInv'
    <2>1. UNCHANGED <<preparation, attachments, request, started>> /\ panes' \subseteq panes
      BY <1>5 DEF LeaseMoves, WritesOnly
    <2>. QED  BY <2>1, FrameGone
  <1>6. CASE UNCHANGED runtimeVars
    <2>1. UNCHANGED <<preparation, attachments, request, started>> /\ panes' \subseteq panes
      BY <1>6 DEF runtimeVars, runtimeRows
    <2>. QED  BY <2>1, FrameGone
  <1>. QED  BY <1>1, <1>2, <1>3, <1>4, <1>5, <1>6, PrepareGone DEF RuntimeNext

\* For every number of requests, and however closes of a pane fail, time out, are repeated
\* or left in the middle: the pane of a detached runtime is gone, if its attachment was
\* given one pane only.
THEOREM DetachedHasNoPane == RuntimeSpec => []DetachedIsGone
  <1>1. RuntimeInv /\ GoneInv => DetachedIsGone
    <2> SUFFICES ASSUME RuntimeInv, GoneInv, preparation.state = "detached"
                 PROVE  LET own == {p \in DOMAIN started : started[p] = preparation.attachment}
                        IN  Cardinality(own) <= 1 => own \cap panes = {}
      BY DEF DetachedIsGone
    <2> DEFINE own == {p \in DOMAIN started : started[p] = preparation.attachment}
    <2> SUFFICES ASSUME Cardinality(own) <= 1 PROVE own \cap panes = {}  OBVIOUS
    <2>1. preparation.attachment \in DOMAIN attachments
      BY LenProperties DEF RuntimeInv, RowsType, PreparationRow, RowsAgree
    <2>2. PICK p \in own : p \notin panes
      BY <2>1 DEF GoneInv, PanesTrue, SomeClosed
    <2>3. IsFiniteSet(own)
      <3>1. DOMAIN started = 1..Len(started) /\ Len(started) \in Nat
        BY LenProperties DEF RuntimeInv, PanesType
      <3>2. IsFiniteSet(1..Len(started))  BY <3>1, FS_Interval
      <3>3. own \subseteq 1..Len(started)  BY <3>1
      <3>. HIDE DEF own
      <3>. QED  BY <3>2, <3>3, FS_Subset
    <2>4. ASSUME NEW q \in own PROVE q = p
      <3>1. own # {} /\ Cardinality(own) \in Nat  BY <2>3, FS_CardinalityType
      <3>2. Cardinality(own \ {p}) = Cardinality(own) - 1 /\ IsFiniteSet(own \ {p})
        BY <2>2, <2>3, FS_RemoveElement
      <3>3. Cardinality(own \ {p}) \in Nat  BY <3>2, FS_CardinalityType
      <3>4. own \ {p} = {}  BY <3>1, <3>2, <3>3, FS_EmptySet
      <3>. QED  BY <3>4
    <2>. QED  BY <2>2, <2>4
  <1>. QED  BY <1>1, RuntimeInitOK, RuntimeStep, GoneInitOK, GoneStep, PTL DEF RuntimeSpec

-----------------------------------------------------------------------------
(* The terminals.                                                             *)

\* The lengths of the plans, and the step of a plan that starts a shell, 0 for none.
PlanLength == [none |-> 0, create |-> 1, interrupt |-> 1, restart |-> 2, close |-> 1]
StartAt == [none |-> 0, create |-> 1, interrupt |-> 0, restart |-> 2, close |-> 0]

Tickets == [ revision : 0..MaxTicketRevision, generation : Generations,
             desired : {"running", "stopped", "recovery_required"},
             observed : {"unknown", "running", "stopped"}, exit : BOOLEAN,
             refs : SUBSET TerminalKeys ]
RequestRecords ==
    [ action : DOMAIN Plan, revision : 0..MaxTicketRevision, generation : Generations,
      status : {"none", "running", "succeeded", "failed", "unknown", "limit"},
      step : 1..3, attempt : {"pending", "dispatched"} ]

\* Revisions and generations only grow, one shell per generation; a settled request is of an
\* earlier revision.
TicketOK ==
    /\ ticket.generation \in 1..(shells + 1)
    /\ bound.generation <= shells + 1
    /\ ticket.revision = 0 =>
          /\ ticket = NoTicket /\ shells = 0 /\ bound = Unbound /\ live = {} /\ exited = {}
          /\ call = NoTurn
    /\ \A k \in TerminalKeys : LET r == requests[k] IN
          /\ r.generation <= shells + 1 /\ r.revision <= ticket.revision
          /\ r.step <= PlanLength[r.action] + 1
          /\ r.action = "none" <=> r = NotAsked
          /\ r.action # "none" => ticket.revision > 0
          /\ r.action = "create" => r.generation = 1
          /\ k \in ticket.refs =>
                r.status \in {"succeeded", "limit"} /\ r.revision < ticket.revision

\* An operation is over when all its steps are.
EndedOK ==
    \A k \in TerminalKeys : LET due == requests[k].step <= PlanLength[requests[k].action] IN
        /\ requests[k].attempt = "dispatched" => due
        /\ requests[k].status = "succeeded" => ~due

\* Where a request is agrees with its operation in the journal.
CallOK ==
    call # NoTurn => LET r == requests[call.key] IN
       /\ r.action # "none"
       /\ call.at \in {"step", "effect", "record"} =>
             r.status = "running" /\ (r.action # "create" => r.generation = ticket.generation)
       /\ call.at \in {"effect", "record"} =>
             r.attempt = "dispatched" /\ r.step <= PlanLength[r.action]
       /\ call.at = "record" <=> call.outcome # "none"
       /\ call.at = "ticket" => r.status = "succeeded"
       /\ call.at = "settle" => r.status = "limit" /\ r.action = "create"

\* A shell is started by the effect of the one step that starts one.
SpawnOK ==
    \A k \in TerminalKeys : LET r == requests[k] IN
        /\ spawned[k] <= 1
        /\ StartAt[r.action] = 0 \/ r.step < StartAt[r.action] => spawned[k] = 0
        /\ r.step = StartAt[r.action] /\ (r.attempt = "pending" \/ Serving(k, "effect")) =>
              spawned[k] = 0

\* A create that has not come to its shell: there has been none.
Fresh(k) ==
    /\ requests[k].action = "create" /\ requests[k].status = "running"
    /\ requests[k].step = 1 /\ (requests[k].attempt = "pending" \/ Serving(k, "effect"))

FreshOK ==
    \A k \in TerminalKeys : Fresh(k) =>
        /\ shells = 0 /\ ticket.observed = "unknown"
        /\ exited = {} /\ bound = Unbound /\ live = {}
        /\ \A j \in TerminalKeys \ {k} :
              /\ requests[j].action # "create" /\ requests[j].step = 1
              /\ call.key = j => call.outcome # "succeeded"

\* A request whose stop is done, and whose start or end is due.
StopDone(k) ==
    /\ requests[k].action \in {"restart", "close"} /\ requests[k].step = 2
    /\ requests[k].attempt = "pending" /\ requests[k].status \in {"running", "succeeded"}

\* The request being served has stopped the shell; it has started one.
NowStopped ==
    /\ call # NoTurn /\ requests[call.key].action \in {"restart", "close"}
    /\ \/ call.at = "record" /\ call.outcome = "succeeded" /\ requests[call.key].step = 1
       \/ call.at = "effect" /\ requests[call.key].step = 2
       \/ /\ call.at \in {"step", "ticket"} /\ requests[call.key].step = 2
          /\ requests[call.key].attempt = "pending"

NowStarted ==
    /\ call # NoTurn /\ call.key \notin ticket.refs
    /\ \/ requests[call.key].action = "create"
       \/ /\ requests[call.key].action = "restart"
          /\ bound.generation = requests[call.key].generation + 1
    /\ \/ /\ requests[call.key].step = StartAt[requests[call.key].action]
          /\ call.at = "record" /\ call.outcome = "succeeded"
       \/ /\ requests[call.key].step = StartAt[requests[call.key].action] + 1
          /\ call.at \in {"step", "ticket"}

\* After one mishap at most: a stop that another request has left half done finds no shell
\* but one that is about to move the ticket on.
LeftStopped ==
    \A k \in TerminalKeys :
        StopDone(k) /\ requests[k].revision = ticket.revision /\ call.key # k =>
            mishaps = 1 /\ (live = {} \/ NowStarted)

LostOK == mishaps <= 1 =>
    /\ live \subseteq {bound}
    /\ ticket.observed = "stopped" => \A s \in live : s.generation # ticket.generation
    /\ NowStopped => live = {}
    /\ LeftStopped

TicketInv == TerminalTypeOK /\ TicketOK /\ EndedOK /\ CallOK /\ SpawnOK /\ FreshOK /\ LostOK

LEMMA PlanFacts ==
  /\ DOMAIN Plan = {"none", "create", "interrupt", "restart", "close"}
  /\ \A a \in DOMAIN Plan : Len(Plan[a]) = PlanLength[a]
  /\ Plan["create"][1] = "start" /\ Plan["interrupt"][1] = "interrupt"
  /\ Plan["restart"][1] = "stop" /\ Plan["restart"][2] = "start" /\ Plan["close"][1] = "stop"
  <1>1. DOMAIN Plan = {"none", "create", "interrupt", "restart", "close"}  BY DEF Plan
  <1>2. Plan["none"] = << >> /\ Plan["create"] = <<"start">>
        /\ Plan["interrupt"] = <<"interrupt">> /\ Plan["restart"] = <<"stop", "start">>
        /\ Plan["close"] = <<"stop">>
    BY DEF Plan
  <1>3. Len(<< >>) = 0 /\ (\A x : Len(<<x>>) = 1) /\ \A x, y : Len(<<x, y>>) = 2
    OBVIOUS
  <1>4. ASSUME NEW a \in DOMAIN Plan PROVE Len(Plan[a]) = PlanLength[a]
    <2>1. Len(<<"start">>) = 1 /\ Len(<<"interrupt">>) = 1 /\ Len(<<"stop">>) = 1
          /\ Len(<<"stop", "start">>) = 2
      BY <1>3
    <2>2. CASE a = "none"  BY <1>2, <1>3, <2>2 DEF PlanLength
    <2>3. CASE a = "create" \/ a = "interrupt" \/ a = "close"
      BY <1>2, <2>1, <2>3 DEF PlanLength
    <2>4. CASE a = "restart"  BY <1>2, <2>1, <2>4 DEF PlanLength
    <2>. QED  BY <1>1, <2>2, <2>3, <2>4
  <1>. QED  BY <1>1, <1>2, <1>4

LEMMA DoingFacts ==
  ASSUME TicketInv, NEW k \in TerminalKeys, NEW s, Doing(k, s)
  PROVE  LET r == requests[k] IN
         /\ requests[k] \in RequestRecords /\ call.key = k /\ call.at = "effect" /\ call # NoTurn
         /\ r.status = "running" /\ r.attempt = "dispatched" /\ call.outcome = "none"
         /\ r.action # "create" => r.generation = ticket.generation
         /\ s = "stop" => r.action \in {"restart", "close"} /\ r.step = 1
         /\ s = "start" => \/ r.action = "create" /\ r.step = 1
                           \/ r.action = "restart" /\ r.step = 2
         /\ s = "interrupt" => r.action = "interrupt" /\ r.step = 1
  <1>1. requests[k] \in RequestRecords  BY DEF TicketInv, TerminalTypeOK, RequestRecords
  <1>2. call.key = k /\ call.at = "effect" /\ s = Plan[requests[k].action][requests[k].step]
    BY DEF Doing, Serving
  <1>3. call # NoTurn  BY <1>2 DEF NoTurn
  <1>4. /\ requests[k].status = "running" /\ requests[k].attempt = "dispatched"
        /\ requests[k].action # "none" /\ requests[k].step <= PlanLength[requests[k].action]
        /\ call.outcome = "none"
        /\ requests[k].action # "create" => requests[k].generation = ticket.generation
    BY <1>2, <1>3 DEF TicketInv, CallOK
  <1>5. requests[k].step \in 1..3 /\ requests[k].action \in DOMAIN Plan
    BY <1>1 DEF RequestRecords
  <1>6. CASE requests[k].action = "create"
    BY <1>1, <1>2, <1>3, <1>4, <1>5, <1>6, PlanFacts DEF PlanLength
  <1>7. CASE requests[k].action = "interrupt"
    BY <1>1, <1>2, <1>3, <1>4, <1>5, <1>7, PlanFacts DEF PlanLength
  <1>8. CASE requests[k].action = "restart"
    <2>1. requests[k].step = 1 \/ requests[k].step = 2  BY <1>4, <1>5, <1>8 DEF PlanLength
    <2>. QED  BY <1>1, <1>2, <1>3, <1>4, <1>8, <2>1, PlanFacts
  <1>9. CASE requests[k].action = "close"
    BY <1>1, <1>2, <1>3, <1>4, <1>5, <1>9, PlanFacts DEF PlanLength
  <1>. QED  BY <1>4, <1>5, <1>6, <1>7, <1>8, <1>9, PlanFacts

\* The facts about types that every step needs.
LEMMA TicketFacts ==
  ASSUME TicketInv
  PROVE  /\ ticket.revision \in 0..MaxTicketRevision /\ ticket.generation \in Generations
         /\ ticket.generation \in Nat /\ ticket.refs \subseteq TerminalKeys
         /\ shells \in Nat /\ mishaps \in Nat /\ shells <= MaxShells
         /\ requests \in [TerminalKeys -> RequestRecords]
         /\ bound = Unbound \/ bound \in [shell : Shells, generation : Generations]
         /\ bound.generation \in Nat
         /\ Unbound \notin live
         /\ call # NoTurn => call.key \in TerminalKeys
         /\ TerminalTypeOK /\ TicketOK /\ EndedOK /\ CallOK /\ SpawnOK /\ FreshOK /\ LostOK
  <1>1. TerminalTypeOK  BY DEF TicketInv
  <1>2. Unbound \notin [shell : Shells, generation : Generations]
    BY TerminalAssumption DEF Unbound, Shells
  <1>3. bound.generation \in Nat  BY <1>1 DEF TerminalTypeOK, Unbound, Generations
  <1>. QED  BY <1>1, <1>2, <1>3, TerminalAssumption
            DEF TicketInv, TerminalTypeOK, RequestRecords, Generations

\* The write of an update, whatever it changes.
LEMMA UpdateFacts ==
  ASSUME TicketInv, NEW t, Update(t),
         t \in Tickets
  PROVE  /\ ticket'.revision = ticket.revision + 1
         /\ ticket'.generation = t.generation /\ ticket'.refs = t.refs
         /\ ticket'.observed = t.observed
         /\ ticket' \in Tickets
  <1>1. ticket.revision \in 0..MaxTicketRevision  BY DEF TicketInv, TerminalTypeOK
  <1>2. ticket.revision + 1 \in 0..MaxTicketRevision
    BY <1>1, TerminalAssumption DEF Update
  <1>. QED  BY <1>2 DEF Tickets, Update

\* What marking an exit does to the ticket: it is as it was, perhaps because the write
\* failed, or shows the shell as stopped under a new revision.
LEMMA MarkExitFacts ==
  ASSUME TicketInv, MarkExit
  PROVE  /\ \/ ticket' = ticket /\ mishaps' \in {mishaps, mishaps + 1}
            \/ /\ ticket'.revision = ticket.revision + 1 /\ mishaps' = mishaps
               /\ ticket'.observed = "stopped"
         /\ ticket'.generation = ticket.generation /\ ticket'.refs = ticket.refs
         /\ mishaps' \in 0..MaxMishaps
         /\ ticket' \in Tickets
  <1>1. TerminalTypeOK  BY DEF TicketInv
  <1>2. CASE ticket' = ticket /\ mishaps' = mishaps  BY <1>1, <1>2 DEF Tickets, TerminalTypeOK
  <1>3. CASE ticket' = ticket /\ Mishap
    BY <1>1, <1>3, TerminalAssumption DEF Tickets, TerminalTypeOK, Mishap
  <1>4. CASE Update(Stopped(ticket)) /\ mishaps' = mishaps
    <2> DEFINE t == Stopped(ticket)
    <2>1. /\ t.generation = ticket.generation /\ t.refs = ticket.refs /\ t.observed = "stopped"
          /\ t \in Tickets
      BY <1>1 DEF Tickets, TerminalTypeOK, Stopped
    <2> HIDE DEF t
    <2>. QED  BY <1>1, <1>4, <2>1, UpdateFacts DEF TerminalTypeOK, t
  <1>. QED  BY <1>2, <1>3, <1>4 DEF MarkExit

\* The effect of a stop: if it succeeds no shell is left, and no create was under way.
LEMMA StopKeeps ==
  ASSUME TicketInv, NEW k \in TerminalKeys, Doing(k, "stop"), NEW o \in {"succeeded", "unknown"},
         GoWith(k, "record", o), UNCHANGED <<requests, replays, spawned, shells>>,
         live' \subseteq live, bound' \in {bound, Unbound}, exited' \subseteq Generations,
         MarkExit \/ UNCHANGED <<ticket, mishaps>>,
         \A j \in TerminalKeys : ~Fresh(j),
         mishaps <= 1 /\ (o = "succeeded" \/ bound' # bound \/ ticket' # ticket) => live' = {}
  PROVE  TicketInv'
  <1>1. /\ requests[k].status = "running" /\ requests[k].attempt = "dispatched"
        /\ requests[k].action \in {"restart", "close"} /\ requests[k].step = 1
        /\ requests[k].generation = ticket.generation /\ call.key = k /\ call.at = "effect"
    BY DoingFacts
  <1>2. call' = [key |-> k, at |-> "record", outcome |-> o]  BY DEF GoWith
  <1>3. call'.key = k /\ call'.at = "record" /\ call'.outcome = o /\ call' # NoTurn
    BY <1>2 DEF NoTurn
  <1>4. /\ \/ ticket' = ticket
           \/ ticket'.revision = ticket.revision + 1
        /\ ticket' = ticket \/ ticket'.observed = "stopped"
        /\ ticket'.generation = ticket.generation /\ ticket'.refs = ticket.refs
        /\ ticket' \in Tickets
        /\ mishaps' \in 0..MaxMishaps /\ mishaps' \in {mishaps, mishaps + 1}
    BY MarkExitFacts, TicketFacts DEF Tickets, TerminalTypeOK
  <1>5. TerminalTypeOK'
    <2>1. bound' = Unbound \/ bound' \in [shell : Shells, generation : Generations]
      BY TicketFacts
    <2>. QED  BY <1>2, <1>4, <2>1, TicketFacts DEF TerminalTypeOK, Tickets
  <1>6. ticket.revision > 0  BY <1>1, TicketFacts DEF TicketOK
  <1>7. ticket'.revision >= ticket.revision /\ ticket'.revision > 0
        /\ ticket'.revision \in Nat /\ ticket.revision \in Nat
    BY <1>4, <1>6, TicketFacts
  <1>8. TicketOK' /\ EndedOK'
    <2>1. bound'.generation <= shells + 1  BY TicketFacts DEF TicketOK, Unbound
    <2>2. \A j \in TerminalKeys : requests[j].revision \in Nat
      BY TicketFacts DEF RequestRecords
    <2>. QED  BY <1>4, <1>7, <2>1, <2>2, TicketFacts DEF TicketOK, EndedOK
  <1>9. CallOK'  BY <1>1, <1>3, <1>4 DEF CallOK, PlanLength
  <1>10. SpawnOK'  BY <1>1, <1>3, TicketFacts DEF SpawnOK, Serving, StartAt
  <1>11. FreshOK'  BY <1>1, <1>3, TicketFacts DEF FreshOK, Fresh, Serving
  <1>12. LostOK'
    <2> SUFFICES ASSUME mishaps' <= 1 PROVE LostOK'  BY DEF LostOK
    <2>1. mishaps <= 1 /\ mishaps \in Nat  BY <1>4, TicketFacts
    <2>2. live' \subseteq {bound'}  BY <2>1, TicketFacts DEF LostOK
    <2>3. ticket'.observed = "stopped" => \A s \in live' : s.generation # ticket'.generation
      BY <1>4, <2>1, TicketFacts DEF LostOK
    <2>4. NowStopped' => live' = {}  BY <1>1, <1>3, <2>1 DEF NowStopped
    <2>5. LeftStopped'
      <3> SUFFICES ASSUME NEW j \in TerminalKeys, StopDone(j)',
                          requests[j].revision = ticket'.revision, j # k
                   PROVE  mishaps' = 1 /\ live' = {}
        BY <1>3 DEF LeftStopped
      <3>1. StopDone(j)  BY DEF StopDone
      <3>2. ticket' = ticket
        <4>1. requests[j].revision <= ticket.revision /\ requests[j].revision \in Nat
          BY TicketFacts DEF TicketOK, RequestRecords
        <4>. QED  BY <1>4, <1>7, <4>1
      <3>3. mishaps = 1 /\ (live = {} \/ NowStarted)
        BY <1>1, <2>1, <3>1, <3>2, TicketFacts DEF LostOK, LeftStopped
      <3>4. ~NowStarted  BY <1>1 DEF NowStarted
      <3>. QED  BY <1>4, <2>1, <3>3, <3>4
    <2>. QED  BY <2>2, <2>3, <2>4, <2>5 DEF LostOK
  <1>. QED  BY <1>5, <1>8, <1>9, <1>10, <1>11, <1>12 DEF TicketInv

\* A stop finds nothing, finds the shell ended, ends it, or cannot tell.
LEMMA StopsKeep ==
  ASSUME TicketInv, NEW k \in TerminalKeys,
         StopNothing(k) \/ StopEnded(k) \/ StopKilled(k) \/ StopUnconfirmed(k)
  PROVE  TicketInv'
  <1>1. Doing(k, "stop") /\ UNCHANGED <<requests, replays, spawned, shells>>
    BY DEF StopNothing, StopEnded, StopKilled, StopUnconfirmed, runtime
  <1>2. exited \subseteq Generations /\ ticket.generation \in Generations
    BY TicketFacts DEF TerminalTypeOK
  <1>3. mishaps <= 1 => live \subseteq {bound}  BY TicketFacts DEF LostOK
  <1>4. bound # Unbound => \A j \in TerminalKeys : ~Fresh(j)  BY TicketFacts DEF FreshOK
  <1>5. CASE StopNothing(k)
    <2>1. NothingToStop  BY <1>5 DEF StopNothing
    <2>2. \A j \in TerminalKeys : ~Fresh(j)
      BY <2>1, TicketFacts DEF FreshOK, NothingToStop
    <2>3. mishaps <= 1 => live = {}  BY <1>3, <2>1, TicketFacts DEF NothingToStop
    <2>4. GoWith(k, "record", "succeeded") /\ UNCHANGED <<bound, live, exited, ticket, mishaps>>
      BY <1>5 DEF StopNothing, runtime
    <2>. QED  BY <1>1, <1>2, <2>2, <2>3, <2>4, StopKeeps
  <1>6. CASE StopEnded(k)
    <2>1. bound # Unbound /\ bound \notin live /\ MarkExit /\ live' = live /\ bound' = bound
          /\ exited' = exited \cup {ticket.generation} /\ GoWith(k, "record", "succeeded")
      BY <1>6 DEF StopEnded, BoundAlive
    <2>2. mishaps <= 1 => live' = {}  BY <1>3, <2>1
    <2>3. exited' \subseteq Generations  BY <1>2, <2>1
    <2>. QED  BY <1>1, <1>4, <2>1, <2>2, <2>3, StopKeeps
  <1>7. CASE StopKilled(k)
    <2>1. bound # Unbound /\ live' = live \ {bound} /\ bound' = Unbound
          /\ exited' = exited \cup {ticket.generation} /\ GoWith(k, "record", "succeeded")
          /\ UNCHANGED <<ticket, mishaps>>
      BY <1>7 DEF StopKilled
    <2>2. mishaps <= 1 => live' = {}  BY <1>3, <2>1
    <2>3. exited' \subseteq Generations /\ live' \subseteq live  BY <1>2, <2>1
    <2>. QED  BY <1>1, <1>4, <2>1, <2>2, <2>3, StopKeeps
  <1>8. CASE StopUnconfirmed(k)
    <2>1. bound # Unbound /\ live' \subseteq live /\ GoWith(k, "record", "unknown")
          /\ UNCHANGED <<bound, exited, ticket, mishaps>>
      BY <1>8 DEF StopUnconfirmed
    <2>. QED  BY <1>1, <1>2, <1>4, <2>1, StopKeeps
  <1>. QED  BY <1>5, <1>6, <1>7, <1>8

\* A call ends and leaves everything but the memory of its answer as it is.
LEMMA CallEnds ==
  ASSUME TicketInv, call # NoTurn, Answer, replays' \subseteq TerminalKeys,
         UNCHANGED <<ticket, requests, bound, live, spawned, shells>>,
         exited' \subseteq Generations,
         exited' = exited \/ \A j \in TerminalKeys : ~Fresh(j),
         mishaps' \in 0..MaxMishaps, mishaps' \in {mishaps, mishaps + 1},
         mishaps' = mishaps /\ mishaps <= 1 =>
            /\ StopDone(call.key) => requests[call.key].revision < ticket.revision
            /\ live = {} \/ ~NowStarted
  PROVE  TicketInv'
  <1> DEFINE k == call.key
  <1>1. k \in TerminalKeys /\ call' = NoTurn /\ call'.key = 0 /\ call'.at = "none"
        /\ call'.outcome = "none" /\ 0 \notin TerminalKeys
    BY TicketFacts, TerminalAssumption DEF Answer, NoTurn, TerminalKeys
  <1>2. TerminalTypeOK'  BY <1>1, TicketFacts DEF TerminalTypeOK
  <1>3. ticket.revision > 0
    BY TicketFacts DEF TicketOK, CallOK
  <1>4. TicketOK' /\ EndedOK'
    BY <1>3, TicketFacts DEF TicketOK, EndedOK
  <1>5. CallOK'  BY <1>1 DEF CallOK
  <1>6. SpawnOK'  BY <1>1, TicketFacts DEF SpawnOK, Serving
  <1>7. FreshOK'
    <2>1. \A j \in TerminalKeys : Fresh(j)' => Fresh(j)  BY <1>1 DEF Fresh, Serving
    <2>. QED  BY <1>1, <2>1, TicketFacts DEF FreshOK
  <1>8. LostOK'
    <2> SUFFICES ASSUME mishaps' <= 1 PROVE LostOK'  BY DEF LostOK
    <2>1. mishaps <= 1 /\ mishaps \in Nat  BY TicketFacts
    <2>2. /\ live' \subseteq {bound'}
          /\ ticket'.observed = "stopped" => \A s \in live' : s.generation # ticket'.generation
      BY <2>1, TicketFacts DEF LostOK
    <2>3. ~NowStopped'  BY <1>1 DEF NowStopped
    <2>4. LeftStopped'
      <3> SUFFICES ASSUME NEW j \in TerminalKeys, StopDone(j),
                          requests[j].revision = ticket.revision
                   PROVE  mishaps' = 1 /\ live = {}
        BY DEF LeftStopped, StopDone
      <3>1. CASE j = k
        <4>1. mishaps' = mishaps + 1
          <5>1. ~(requests[k].revision < ticket.revision)  BY <3>1, TicketFacts
          <5>. QED  BY <2>1, <3>1, <5>1
        <4>2. NowStopped
          <5>1. call.at \notin {"effect", "record", "settle", "none"}
            BY <3>1, TicketFacts DEF CallOK, StopDone, TerminalTypeOK
          <5>2. call.at \in {"step", "ticket"}  BY <5>1, TicketFacts DEF TerminalTypeOK
          <5>. QED  BY <3>1, <5>2 DEF NowStopped, StopDone
        <4>. QED  BY <2>1, <4>1, <4>2, TicketFacts DEF LostOK
      <3>2. CASE j # k
        <4>1. mishaps = 1 /\ (live = {} \/ NowStarted)
          BY <2>1, <3>2, TicketFacts DEF LostOK, LeftStopped
        <4>2. mishaps' = mishaps  BY <2>1, <4>1
        <4>. QED  BY <2>1, <4>1, <4>2
      <3>. QED  BY <3>1, <3>2
    <2>. QED  BY <2>2, <2>3, <2>4 DEF LostOK
  <1>. QED  BY <1>2, <1>4, <1>5, <1>6, <1>7, <1>8 DEF TicketInv

LEMMA RefusalsKeep ==
  ASSUME TicketInv, NEW k \in TerminalKeys,
         StopRefused(k) \/ SettleNothing(k) \/ WriteFails(k) \/ (Interrupt(k) /\ Refuse(k))
  PROVE  TicketInv'
  <1>1. exited \subseteq Generations /\ ticket.generation \in Generations
        /\ replays \subseteq TerminalKeys /\ mishaps \in 0..MaxMishaps /\ replays \cup {k} \subseteq TerminalKeys
    BY TicketFacts DEF TerminalTypeOK
  <1>2. UNCHANGED <<ticket, requests, bound, live, spawned, shells>> /\ call.key = k
        /\ call.at # "none" /\ call # NoTurn /\ replays' \subseteq TerminalKeys
        /\ Answer
    <2>1. call.at # "none" => call # NoTurn  BY DEF NoTurn
    <2>. QED  BY <1>1, <2>1
      DEF StopRefused, SettleNothing, WriteFails, Interrupt, Refuse, Doing, Serving, runtime
  <1>3. CASE StopRefused(k)
    <2>1. /\ requests[k].attempt = "dispatched" /\ call.at = "effect"
      BY <1>3, DoingFacts DEF StopRefused
    <2>2. ~StopDone(k) /\ ~NowStarted  BY <2>1, <1>2 DEF StopDone, NowStarted
    <2>3. exited' = exited /\ mishaps' = mishaps  BY <1>3 DEF StopRefused, runtime
    <2>. QED  BY <1>1, <1>2, <2>2, <2>3, CallEnds
  <1>4. CASE SettleNothing(k)
    <2>1. exited' = exited /\ mishaps' = mishaps /\ call.at = "ticket" /\ ~HasShell(k)
      BY <1>4 DEF SettleNothing, runtime, Serving
    <2>2. requests[k].action \in {"create", "restart"}
          /\ requests[k].step = PlanLength[requests[k].action] + 1
      <3>1. requests[k].action \in {"create", "restart"}  BY <2>1 DEF HasShell
      <3>2. requests[k].step \in Nat  BY TicketFacts DEF RequestRecords
      <3>3. ~(requests[k].step <= PlanLength[requests[k].action])
        BY <1>2, <2>1, TicketFacts DEF CallOK, EndedOK
      <3>4. requests[k].step <= PlanLength[requests[k].action] + 1
        BY TicketFacts DEF TicketOK
      <3>. QED  BY <3>1, <3>2, <3>3, <3>4 DEF PlanLength
    <2>3. ~StopDone(k)  BY <2>2 DEF StopDone, PlanLength
    <2>4. mishaps <= 1 => live = {} \/ ~NowStarted
      <3>1. CASE requests[k].action = "create"
        <4>1. bound \notin live  BY <2>1, <3>1 DEF HasShell, BoundAlive
        <4>. QED  BY <4>1, TicketFacts DEF LostOK
      <3>2. CASE requests[k].action = "restart"
        BY <1>2, <2>1, <3>2 DEF HasShell, NowStarted
      <3>. QED  BY <2>2, <3>1, <3>2
    <2>. QED  BY <1>1, <1>2, <2>1, <2>3, <2>4, CallEnds
  <1>5. CASE WriteFails(k)
    <2>1. mishaps' = mishaps + 1 /\ mishaps' \in 0..MaxMishaps /\ exited' = exited
      BY <1>1, <1>5, TerminalAssumption DEF WriteFails, Mishap, runtime
    <2>2. mishaps' # mishaps  BY <1>1, <2>1
    <2>. QED  BY <1>1, <1>2, <2>1, <2>2, CallEnds
  <1>6. CASE Interrupt(k) /\ Refuse(k)
    <2>1. /\ requests[k].attempt = "dispatched" /\ call.at = "effect"
      BY <1>6, DoingFacts DEF Interrupt
    <2>2. ~StopDone(k) /\ ~NowStarted  BY <2>1, <1>2 DEF StopDone, NowStarted
    <2>3. mishaps' = mishaps  BY <1>6 DEF Interrupt
    <2>4. exited' \subseteq Generations  BY <1>1, <1>6 DEF Interrupt
    <2>5. exited' = exited \/ \A j \in TerminalKeys : ~Fresh(j)
      <3>1. CASE bound.generation = ticket.generation
        <4>1. ticket.generation # 0  BY TicketFacts DEF TicketOK
        <4>2. bound # Unbound  BY <3>1, <4>1 DEF Unbound
        <4>. QED  BY <4>2, TicketFacts DEF FreshOK
      <3>2. CASE bound.generation # ticket.generation
        BY <1>6, <3>2 DEF Interrupt
      <3>. QED  BY <3>1, <3>2
    <2>. QED  BY <1>1, <1>2, <2>2, <2>3, <2>4, <2>5, CallEnds
  <1>. QED  BY <1>3, <1>4, <1>5, <1>6

\* An effect that is not the start or the stop of a shell.
LEMMA OutcomeKeeps ==
  ASSUME TicketInv, NEW k \in TerminalKeys,
         NEW o \in {"succeeded", "failed", "unknown", "limit"}, NEW s, Doing(k, s),
         GoWith(k, "record", o), UNCHANGED <<ticket, requests, replays, runtime, mishaps>>,
         o = "succeeded" => s = "interrupt" /\ \A j \in TerminalKeys : ~Fresh(j)
  PROVE  TicketInv'
  <1>1. /\ requests[k].status = "running" /\ requests[k].attempt = "dispatched"
        /\ call.key = k /\ call.at = "effect"
        /\ o = "succeeded" => requests[k].action = "interrupt"
        /\ requests[k].step <= PlanLength[requests[k].action] /\ requests[k].action # "none"
        /\ requests[k].action # "create" => requests[k].generation = ticket.generation
    BY DoingFacts DEF TicketInv, CallOK
  <1>2. call' = [key |-> k, at |-> "record", outcome |-> o]
        /\ UNCHANGED <<bound, live, exited, spawned, shells>>
    BY DEF GoWith, runtime
  <1>3. call'.key = k /\ call'.at = "record" /\ call'.outcome = o /\ call' # NoTurn
    BY <1>2 DEF NoTurn
  <1>4. TerminalTypeOK'  BY <1>2, TicketFacts DEF TerminalTypeOK
  <1>5. TicketOK' /\ EndedOK'
    <2>1. ticket.revision > 0  BY <1>1, TicketFacts DEF TicketOK
    <2>. QED  BY <1>2, <2>1, TicketFacts DEF TicketOK, EndedOK
  <1>6. CallOK'  BY <1>1, <1>3 DEF CallOK
  <1>7. SpawnOK'  BY <1>1, <1>2, <1>3, TicketFacts DEF SpawnOK, Serving
  <1>8. FreshOK'
    <2>1. \A j \in TerminalKeys : Fresh(j)' => Fresh(j)  BY <1>1, <1>3 DEF Fresh, Serving
    <2>. QED  BY <1>1, <1>2, <1>3, <2>1, TicketFacts DEF FreshOK
  <1>9. LostOK'
    <2>1. ~NowStopped' /\ ~NowStarted  BY <1>1, <1>3 DEF NowStopped, NowStarted
    <2>. QED  BY <1>1, <1>2, <1>3, <2>1, TicketFacts DEF LostOK, LeftStopped, StopDone
  <1>. QED  BY <1>4, <1>5, <1>6, <1>7, <1>8, <1>9 DEF TicketInv

LEMMA InterruptKeeps ==
  ASSUME TicketInv, NEW k \in TerminalKeys, Interrupt(k)
  PROVE  TicketInv'
  <1>1. CASE Refuse(k)  BY <1>1, RefusalsKeep
  <1>2. CASE ~Refuse(k)
    <2>1. bound.generation = ticket.generation /\ BoundAlive
      BY <1>2 DEF Interrupt
    <2>2. PICK o \in {"succeeded", "failed", "unknown"} : GoWith(k, "record", o)
      BY <2>1 DEF Interrupt
    <2>3. UNCHANGED <<ticket, requests, replays, runtime, mishaps>>
      BY <2>1 DEF Interrupt, runtime
    <2>4. \A j \in TerminalKeys : ~Fresh(j)
      BY <2>1, TicketFacts DEF FreshOK, BoundAlive
    <2>5. Doing(k, "interrupt")  BY DEF Interrupt
    <2>. QED  BY <2>2, <2>3, <2>4, <2>5, OutcomeKeeps
  <1>. QED  BY <1>1, <1>2

LEMMA StartFailsKeeps ==
  ASSUME TicketInv, NEW k \in TerminalKeys, NEW o \in {"limit", "failed"}, StartFails(k, o)
  PROVE  TicketInv'
  <1>1. Doing(k, "start") /\ GoWith(k, "record", o)
        /\ UNCHANGED <<ticket, requests, replays, runtime, mishaps>>
    BY DEF StartFails
  <1>. QED  BY <1>1, OutcomeKeeps

\* A shell is started where there is none, for a generation the ticket does not show.
LEMMA ShellStartKeeps ==
  ASSUME TicketInv, NEW k \in TerminalKeys, StartShell(k)
  PROVE  TicketInv'
  <1> DEFINE r == requests[k]
  <1>1. /\ r.status = "running" /\ r.attempt = "dispatched"
        /\ call.key = k /\ call.at = "effect" /\ call # NoTurn
        /\ \/ r.action = "create" /\ r.step = 1 /\ r.generation = 1 /\ Fresh(k)
           \/ r.action = "restart" /\ r.step = 2 /\ r.generation = ticket.generation
        /\ r.generation \in Nat /\ r.generation <= shells + 1 /\ k \notin ticket.refs
    BY DoingFacts, TicketFacts
       DEF StartShell, TicketOK, RequestRecords, Generations, Fresh, Serving, Doing
  <1>2. /\ shells < MaxShells /\ shells' = shells + 1
        /\ bound' = [shell |-> shells + 1, generation |-> NewGeneration(k)]
        /\ live' = live \cup {bound'}
        /\ exited' \subseteq exited
        /\ spawned' = [spawned EXCEPT ![k] = @ + 1]
        /\ call' = [key |-> k, at |-> "record", outcome |-> "succeeded"]
        /\ UNCHANGED <<ticket, requests, replays, mishaps>>
    BY DEF StartShell, GoWith
  <1>3. call'.key = k /\ call'.at = "record" /\ call'.outcome = "succeeded" /\ call' # NoTurn
    BY <1>2 DEF NoTurn
  <1>4. /\ r.action = "create" => NewGeneration(k) = 1
        /\ r.action = "restart" => NewGeneration(k) = r.generation + 1
        /\ NewGeneration(k) \in Nat /\ NewGeneration(k) <= shells + 2
    BY <1>1, TicketFacts DEF NewGeneration
  <1>5. /\ bound'.generation = NewGeneration(k) /\ bound'.shell = shells + 1
        /\ bound' \in [shell : Shells, generation : Generations]
    BY <1>2, <1>4, TicketFacts, TerminalAssumption DEF Shells, Generations
  <1>6. TerminalTypeOK'
    <2>1. shells + 1 \in 0..MaxShells  BY <1>2, TicketFacts, TerminalAssumption
    <2>. QED  BY <1>2, <1>5, <2>1, TicketFacts DEF TerminalTypeOK
  <1>7. TicketOK' /\ EndedOK'
    <2>1. ticket.revision > 0  BY <1>1, TicketFacts DEF TicketOK
    <2>2. \A j \in TerminalKeys : requests[j].generation \in Nat
      BY TicketFacts DEF RequestRecords, Generations
    <2>3. ticket.generation \in 1..(shells + 1 + 1)  BY TicketFacts DEF TicketOK
    <2>. QED  BY <1>2, <1>4, <1>5, <2>1, <2>2, <2>3, TicketFacts DEF TicketOK, EndedOK
  <1>8. CallOK'  BY <1>1, <1>2, <1>3 DEF CallOK, PlanLength
  <1>9. SpawnOK'
    <2>1. spawned[k] = 0  BY <1>1, TicketFacts DEF SpawnOK, Serving, StartAt
    <2>2. spawned'[k] = 1 /\ \A j \in TerminalKeys \ {k} : spawned'[j] = spawned[j]
      BY <1>2, <2>1, TicketFacts DEF TerminalTypeOK
    <2>. QED  BY <1>1, <1>2, <1>3, <2>2, TicketFacts DEF SpawnOK, Serving, StartAt
  <1>10. FreshOK'
    <2>1. \A j \in TerminalKeys : ~Fresh(j)'
      <3> TAKE j \in TerminalKeys
      <3>1. CASE j = k  BY <1>1, <1>2, <1>3, <3>1 DEF Fresh, Serving
      <3>2. CASE j # k
        <4>1. Fresh(j)' => Fresh(j)  BY <1>2, <1>3, <3>2 DEF Fresh, Serving
        <4>. QED  BY <1>1, <3>2, <4>1, TicketFacts DEF FreshOK
      <3>. QED  BY <3>1, <3>2
    <2>. QED  BY <2>1 DEF FreshOK
  <1>11. LostOK'
    <2> SUFFICES ASSUME mishaps <= 1 PROVE LostOK'  BY <1>2 DEF LostOK
    <2>1. live = {}
      <3>1. r.action = "restart" => NowStopped  BY <1>1 DEF NowStopped
      <3>. QED  BY <1>1, <3>1, TicketFacts DEF LostOK, FreshOK
    <2>2. live' = {bound'}  BY <1>2, <2>1
    <2>3. ticket.observed = "stopped" => bound'.generation # ticket.generation
      BY <1>1, <1>4, <1>5, TicketFacts DEF FreshOK
    <2>4. ~NowStopped'  BY <1>1, <1>2, <1>3 DEF NowStopped
    <2>5. NowStarted'  BY <1>1, <1>2, <1>3, <1>4, <1>5 DEF NowStarted, StartAt
    <2>6. LeftStopped'
      <3> SUFFICES ASSUME NEW j \in TerminalKeys, StopDone(j), j # k,
                          requests[j].revision = ticket.revision
                   PROVE  mishaps = 1
        BY <1>2, <1>3, <2>5 DEF LeftStopped, StopDone
      <3>. QED  BY <1>1, TicketFacts DEF LostOK, LeftStopped
    <2>. QED  BY <1>2, <2>2, <2>3, <2>4, <2>6 DEF LostOK
  <1>. QED  BY <1>6, <1>7, <1>8, <1>9, <1>10, <1>11 DEF TicketInv

\* A repeated request is answered from memory, or goes on where its operation stands.
LEMMA AskAgainKeeps ==
  ASSUME TicketInv, NEW k \in TerminalKeys, AskAgain(k)
  PROVE  TicketInv'
  <1> DEFINE r == requests[k]
  <1>1. /\ call = NoTurn /\ call.key = 0 /\ call.outcome = "none" /\ call.at = "none"
        /\ 0 \notin TerminalKeys /\ r # NotAsked /\ r.action # "none"
        /\ r.action # "create" => r.revision = ticket.revision /\ r.generation = ticket.generation
        /\ UNCHANGED <<ticket, requests, bound, live, exited, spawned, shells, mishaps>>
    BY TicketFacts, TerminalAssumption
       DEF AskAgain, LockFree, NoTurn, TerminalKeys, TicketOK, runtime
  <1>2. ASSUME NEW at \in {"step", "ticket", "settle"}, Go(k, at), UNCHANGED replays,
               at = "step" => r.status = "running",
               at = "ticket" => r.status = "succeeded",
               at = "settle" => r.status = "limit" /\ r.action = "create"
        PROVE  TicketInv'
    <2>1. call' = [key |-> k, at |-> at, outcome |-> "none"]  BY <1>2 DEF Go
    <2>2. call'.key = k /\ call'.at = at /\ call'.outcome = "none" /\ call' # NoTurn
      BY <2>1 DEF NoTurn
    <2>3. TerminalTypeOK'  BY <1>1, <1>2, <2>1, TicketFacts DEF TerminalTypeOK
    <2>4. TicketOK'  BY <1>1, TicketFacts DEF TicketOK
    <2>5. EndedOK'  BY <1>1, TicketFacts DEF EndedOK
    <2>6. CallOK'  BY <1>1, <1>2, <2>2 DEF CallOK
    <2>7. SpawnOK'  BY <1>1, <1>2, <2>2, TicketFacts DEF SpawnOK, Serving
    <2>8. FreshOK'
      <3>1. \A j \in TerminalKeys : Fresh(j)' => Fresh(j)
        BY <1>1, <1>2, <2>2 DEF Fresh, Serving
      <3>. QED  BY <1>1, <2>2, <3>1, TicketFacts DEF FreshOK
    <2>9. LostOK'
      <3> SUFFICES ASSUME mishaps <= 1 PROVE LostOK'  BY <1>1 DEF LostOK
      <3>1. ~NowStarted  BY <1>1 DEF NowStarted
      <3>2. \A j \in TerminalKeys : StopDone(j) /\ requests[j].revision = ticket.revision
               => mishaps = 1 /\ live = {}
        BY <1>1, <3>1, TicketFacts DEF LostOK, LeftStopped
      <3>3. NowStopped' => live = {}
        <4> SUFFICES ASSUME NowStopped' PROVE live = {}  OBVIOUS
        <4>1. StopDone(k)  BY <1>1, <1>2, <2>2 DEF NowStopped, StopDone
        <4>2. r.revision = ticket.revision  BY <1>1, <4>1 DEF StopDone
        <4>. QED  BY <3>2, <4>1, <4>2
      <3>4. LeftStopped'  BY <1>1, <3>2 DEF LeftStopped, StopDone
      <3>. QED  BY <1>1, <3>3, <3>4, TicketFacts DEF LostOK
    <2>. QED  BY <2>3, <2>4, <2>5, <2>6, <2>7, <2>8, <2>9 DEF TicketInv
  <1>3. CASE Refuse(k)
    <2>1. call' = NoTurn /\ replays' = replays \cup {k}  BY <1>3 DEF Refuse, Answer
    <2>2. UNCHANGED call  BY <1>1, <2>1
    <2>3. TerminalTypeOK'  BY <1>1, <2>1, TicketFacts DEF TerminalTypeOK
    <2>. QED  BY <1>1, <2>2, <2>3, TicketFacts
           DEF TicketInv, TicketOK, EndedOK, CallOK, SpawnOK, FreshOK, Fresh, LostOK, LeftStopped,
               NowStopped, NowStarted, StopDone, Serving
  <1>4. CASE r.status = "running" /\ Go(k, "step") /\ UNCHANGED replays  BY <1>2, <1>4
  <1>5. CASE r.status = "succeeded" /\ Go(k, "ticket") /\ UNCHANGED replays  BY <1>2, <1>5
  <1>6. CASE r.status = "limit" /\ r.action = "create" /\ Go(k, "settle") /\ UNCHANGED replays
    BY <1>2, <1>6
  <1>. QED  BY <1>3, <1>4, <1>5, <1>6 DEF AskAgain

\* A write of one request's operation: its step, its attempt or its status.
LEMMA RequestFields ==
  ASSUME NEW r \in RequestRecords
  PROVE  /\ [r EXCEPT !.status = "succeeded"] \in RequestRecords
         /\ [r EXCEPT !.attempt = "dispatched"] \in RequestRecords
         /\ r.step < 3 => [r EXCEPT !.step = r.step + 1, !.attempt = "pending"] \in RequestRecords
         /\ \A s \in {"failed", "unknown", "limit"} : [r EXCEPT !.status = s] \in RequestRecords
  <1>1. r.step < 3 => r.step + 1 \in 1..3  BY DEF RequestRecords
  <1>2. r.step < 3 => [r EXCEPT !.step = r.step + 1] \in RequestRecords
    BY <1>1 DEF RequestRecords
  <1>3. \A q \in RequestRecords : [q EXCEPT !.attempt = "pending"] \in RequestRecords
    BY DEF RequestRecords
  <1>4. [r EXCEPT !.step = r.step + 1, !.attempt = "pending"]
           = [[r EXCEPT !.step = r.step + 1] EXCEPT !.attempt = "pending"]
    OBVIOUS
  <1>5. r.step < 3 => [r EXCEPT !.step = r.step + 1, !.attempt = "pending"] \in RequestRecords
    BY <1>2, <1>3, <1>4
  <1>. QED  BY <1>5 DEF RequestRecords

\* The request being served is r and becomes q: its operation is over, its next attempt is
\* dispatched, the next step is due, or an attempt has ended the operation.
OperationEnds(k, r, q) ==
    /\ call.at = "step" /\ r.step > PlanLength[r.action] /\ call' = [call EXCEPT !.at = "ticket"]
    /\ q.status = "succeeded" /\ q.step = r.step /\ q.attempt = r.attempt
AttemptStarts(k, r, q) ==
    /\ call.at = "step" /\ r.step <= PlanLength[r.action] /\ r.attempt = "pending"
    /\ call' = [call EXCEPT !.at = "effect"]
    /\ q.status = "running" /\ q.step = r.step /\ q.attempt = "dispatched"
StepIsDone(k, r, q) ==
    /\ call.at = "record" /\ call.outcome = "succeeded"
    /\ call' = [key |-> k, at |-> "step", outcome |-> "none"]
    /\ q.status = "running" /\ q.step = r.step + 1 /\ q.attempt = "pending"
OperationFails(k, r, q) ==
    /\ call.at = "record" /\ call.outcome # "succeeded"
    /\ q.status = call.outcome /\ q.step = r.step /\ q.attempt = r.attempt
    /\ \/ call' = NoTurn
       \/ /\ call' = [key |-> k, at |-> "settle", outcome |-> "none"]
          /\ q.status = "limit" /\ q.action = "create"

LEMMA OperationMoves ==
  ASSUME TicketInv, NEW k \in TerminalKeys, call.key = k, call # NoTurn,
         NEW q \in RequestRecords, requests' = [requests EXCEPT ![k] = q],
         UNCHANGED <<ticket, bound, live, exited, spawned, shells, mishaps>>,
         replays' \subseteq TerminalKeys, q.action = requests[k].action,
         q.revision = requests[k].revision, q.generation = requests[k].generation,
         \/ OperationEnds(k, requests[k], q) \/ AttemptStarts(k, requests[k], q)
         \/ StepIsDone(k, requests[k], q) \/ OperationFails(k, requests[k], q)
  PROVE  TicketInv'
  <1> DEFINE r == requests[k]
  <1>1. /\ r \in RequestRecords /\ r.step \in Nat /\ q.step \in Nat /\ r.action # "none"
        /\ r.status = "running" /\ r.action \in DOMAIN Plan /\ r.step >= 1
        /\ \A j \in TerminalKeys : requests'[j] = IF j = k THEN q ELSE requests[j]
        /\ requests' \in [TerminalKeys -> RequestRecords]
        /\ r.action # "create" => r.generation = ticket.generation
        /\ r.step <= PlanLength[r.action] + 1 /\ PlanLength[r.action] \in Nat
        /\ call.at = "record" => r.attempt = "dispatched" /\ r.step <= PlanLength[r.action]
        /\ call.at = "step" => call.outcome = "none"
    <2>1. call.at \in {"step", "record"}
      BY DEF OperationEnds, AttemptStarts, StepIsDone, OperationFails
    <2>2. \A a \in DOMAIN Plan : PlanLength[a] \in Nat  BY PlanFacts DEF PlanLength
    <2>. QED  BY <2>1, <2>2, TicketFacts DEF RequestRecords, CallOK, TicketOK
  <1>2. /\ call \in [ key : TerminalKeys, at : {"step", "effect", "record", "ticket", "settle"},
                      outcome : {"none", "succeeded", "failed", "unknown", "limit"} ]
    BY TicketFacts DEF TerminalTypeOK
  <1>3. /\ call' # NoTurn => call'.key = k /\ call'.outcome = "none" /\ call'.at # "record"
        /\ call' = NoTurn => call'.key = 0 /\ call'.at = "none" /\ call'.outcome = "none"
        /\ OperationEnds(k, r, q) => call'.at = "ticket" /\ call' # NoTurn
        /\ AttemptStarts(k, r, q) => call'.at = "effect" /\ call' # NoTurn
        /\ StepIsDone(k, r, q) => call'.at = "step" /\ call' # NoTurn
        /\ OperationFails(k, r, q) => call'.at \in {"none", "settle"}
    BY <1>1, <1>2 DEF NoTurn, OperationEnds, AttemptStarts, StepIsDone, OperationFails
  <1>4. 0 # k /\ 0 \notin TerminalKeys /\ ticket.revision > 0 /\ k \notin ticket.refs
    <2>1. 0 # k /\ 0 \notin TerminalKeys  BY TerminalAssumption DEF TerminalKeys
    <2>. QED  BY <1>1, <2>1, TicketFacts DEF TicketOK
  <1>5. TerminalTypeOK'
    <2>1. call' = NoTurn \/ call' \in
            [ key : TerminalKeys, at : {"step", "effect", "record", "ticket", "settle"},
              outcome : {"none", "succeeded", "failed", "unknown", "limit"} ]
      BY <1>2 DEF OperationEnds, AttemptStarts, StepIsDone, OperationFails
    <2>. QED  BY <1>1, <2>1, TicketFacts DEF TerminalTypeOK, RequestRecords
  <1>6. TicketOK'
    <2>1. q.action # "none" /\ q # NotAsked  BY <1>1 DEF NotAsked
    <2>2. q.step <= PlanLength[q.action] + 1
      BY <1>1 DEF OperationEnds, AttemptStarts, StepIsDone, OperationFails
    <2>. QED  BY <1>1, <1>4, <2>1, <2>2, TicketFacts DEF TicketOK
  <1>7. EndedOK'
    BY <1>1, TicketFacts
       DEF EndedOK, OperationEnds, AttemptStarts, StepIsDone, OperationFails
  <1>8. CallOK'
    BY <1>1, <1>3, TicketFacts
       DEF CallOK, OperationEnds, AttemptStarts, StepIsDone, OperationFails
  <1>9. SpawnOK'
    <2>1. ASSUME NEW j \in TerminalKeys, j # k
          PROVE  requests'[j] = requests[j] /\ ~Serving(j, "effect")'
      BY <1>1, <1>3, <1>4, <2>1 DEF Serving
    <2>2. StartAt[r.action] \in Nat
      BY <1>1, PlanFacts DEF StartAt
    <2>3. /\ StartAt[q.action] = 0 \/ q.step < StartAt[q.action] => spawned[k] = 0
          /\ q.step = StartAt[q.action] /\ (q.attempt = "pending" \/ Serving(k, "effect")') =>
                spawned[k] = 0
      BY <1>1, <1>3, <2>2, TicketFacts
         DEF SpawnOK, Serving, OperationEnds, AttemptStarts, StepIsDone, OperationFails
    <2>. QED  BY <1>1, <2>1, <2>3, TicketFacts DEF SpawnOK
  <1>10. FreshOK'
    <2>1. ASSUME NEW j \in TerminalKeys, Fresh(j)' PROVE Fresh(j)
      BY <1>1, <1>3, <1>4, <2>1
         DEF Fresh, Serving, OperationEnds, AttemptStarts, StepIsDone, OperationFails
    <2>2. ASSUME NEW j \in TerminalKeys, Fresh(j), j # k
          PROVE  q.action # "create" /\ q.step = 1
      <3>1. r.action # "create" /\ r.step = 1 /\ call.outcome # "succeeded"
        BY <2>2, TicketFacts DEF FreshOK
      <3>. QED  BY <1>1, <3>1 DEF OperationEnds, AttemptStarts, StepIsDone, OperationFails
    <2>. QED  BY <1>1, <1>3, <2>1, <2>2, TicketFacts DEF FreshOK
  <1>11. LostOK'
    <2> SUFFICES ASSUME mishaps <= 1 PROVE LostOK'  BY DEF LostOK
    <2>1. NowStopped' => NowStopped
      BY <1>1, <1>3, PlanFacts
         DEF NowStopped, PlanLength, OperationEnds, AttemptStarts, StepIsDone, OperationFails
    <2>2. NowStarted => NowStarted'
      <3> SUFFICES ASSUME NowStarted PROVE NowStarted'  OBVIOUS
      <3>1. StartAt[r.action] = PlanLength[r.action] /\ r.action \in {"create", "restart"}
        BY DEF NowStarted, StartAt, PlanLength
      <3>2. CASE OperationEnds(k, r, q)
        BY <1>1, <1>3, <3>1, <3>2 DEF NowStarted, OperationEnds
      <3>3. CASE AttemptStarts(k, r, q)
        BY <1>1, <3>1, <3>3 DEF NowStarted, AttemptStarts
      <3>4. CASE StepIsDone(k, r, q)
        BY <1>1, <1>3, <3>1, <3>4 DEF NowStarted, StepIsDone
      <3>5. CASE OperationFails(k, r, q)
        BY <1>1, <3>1, <3>5 DEF NowStarted, OperationFails
      <3>. QED  BY <3>2, <3>3, <3>4, <3>5
    <2>3. ASSUME NEW j \in TerminalKeys, StopDone(j)', call'.key # j
          PROVE  StopDone(j) /\ j # k
      BY <1>1, <1>3, <2>3
         DEF StopDone, OperationEnds, AttemptStarts, StepIsDone, OperationFails
    <2>4. LeftStopped'
      BY <1>1, <2>2, <2>3, TicketFacts DEF LostOK, LeftStopped
    <2>. QED  BY <2>1, <2>4, TicketFacts DEF LostOK
  <1>. QED  BY <1>5, <1>6, <1>7, <1>8, <1>9, <1>10, <1>11 DEF TicketInv

LEMMA DispatchKeeps ==
  ASSUME TicketInv, NEW k \in TerminalKeys, Dispatch(k)
  PROVE  TicketInv'
  <1> DEFINE r == requests[k]
  <1>1. /\ call.key = k /\ call.at = "step" /\ call # NoTurn /\ call.outcome = "none"
        /\ r \in RequestRecords /\ r.status = "running" /\ r.action \in DOMAIN Plan
        /\ Len(Plan[r.action]) = PlanLength[r.action]
        /\ call \in [ key : TerminalKeys, at : {"step", "effect", "record", "ticket", "settle"},
                      outcome : {"none", "succeeded", "failed", "unknown", "limit"} ]
        /\ requests \in [TerminalKeys -> RequestRecords]
    <2>1. call.key = k /\ call.at = "step" /\ call # NoTurn
      BY DEF Dispatch, Serving, NoTurn
    <2>2. r \in RequestRecords /\ r.action \in DOMAIN Plan  BY TicketFacts DEF RequestRecords
    <2>. QED  BY <2>1, <2>2, PlanFacts, TicketFacts DEF CallOK, TerminalTypeOK
  <1>2. UNCHANGED <<ticket, bound, live, exited, spawned, shells, mishaps>>
    BY DEF Dispatch, runtime
  <1>3. CASE r.step > PlanLength[r.action]
    <2> DEFINE q == [r EXCEPT !.status = "succeeded"]
    <2>1. requests' = [requests EXCEPT ![k] = q]
          /\ Go(k, "ticket") /\ UNCHANGED replays
      BY <1>1, <1>3 DEF Dispatch
    <2>2. q \in RequestRecords  BY <1>1, RequestFields
    <2>3. /\ q.action = r.action /\ q.revision = r.revision /\ q.generation = r.generation
          /\ q.status = "succeeded" /\ q.step = r.step /\ q.attempt = r.attempt
      BY <1>1 DEF RequestRecords
    <2> HIDE DEF q
    <2>4. OperationEnds(k, r, q)  BY <1>1, <1>3, <2>1, <2>3 DEF OperationEnds, Go
    <2>5. replays' \subseteq TerminalKeys  BY <2>1, TicketFacts DEF TerminalTypeOK
    <2>. QED  BY <1>1, <1>2, <2>1, <2>2, <2>3, <2>4, <2>5, OperationMoves
  <1>4. CASE ~(r.step > PlanLength[r.action]) /\ r.attempt = "pending"
    <2> DEFINE q == [r EXCEPT !.attempt = "dispatched"]
    <2>1. requests' = [requests EXCEPT ![k] = q]
          /\ Go(k, "effect") /\ UNCHANGED replays
      BY <1>1, <1>4 DEF Dispatch
    <2>2. q \in RequestRecords  BY <1>1, RequestFields
    <2>3. /\ q.action = r.action /\ q.revision = r.revision /\ q.generation = r.generation
          /\ q.status = r.status /\ q.step = r.step /\ q.attempt = "dispatched"
      BY <1>1 DEF RequestRecords
    <2> HIDE DEF q
    <2>4. r.step <= PlanLength[r.action]  BY <1>1, <1>4, PlanFacts DEF RequestRecords, PlanLength
    <2>5. AttemptStarts(k, r, q)  BY <1>1, <1>4, <2>1, <2>3, <2>4 DEF AttemptStarts, Go
    <2>6. replays' \subseteq TerminalKeys  BY <2>1, TicketFacts DEF TerminalTypeOK
    <2>. QED  BY <1>1, <1>2, <2>1, <2>2, <2>3, <2>5, <2>6, OperationMoves
  <1>5. CASE ~(r.step > PlanLength[r.action]) /\ r.attempt # "pending"
    <2>1. Answer /\ replays' = replays \cup {k} /\ UNCHANGED requests
      BY <1>1, <1>5 DEF Dispatch, Refuse
    <2>2. ~StopDone(k)  BY <1>5 DEF StopDone
    <2>3. ~NowStarted  BY <1>1, <1>5 DEF NowStarted, StartAt, PlanLength
    <2>4. replays' \subseteq TerminalKeys /\ mishaps' \in 0..MaxMishaps
          /\ exited' \subseteq Generations
      BY <1>2, <2>1, TicketFacts DEF TerminalTypeOK
    <2>. QED  BY <1>1, <1>2, <2>1, <2>2, <2>3, <2>4, CallEnds
  <1>. QED  BY <1>3, <1>4, <1>5

LEMMA OutcomeRecordKeeps ==
  ASSUME TicketInv, NEW k \in TerminalKeys, Record(k)
  PROVE  TicketInv'
  <1> DEFINE r == requests[k]
  <1>1. /\ call.key = k /\ call.at = "record" /\ call # NoTurn /\ call.outcome # "none"
        /\ r \in RequestRecords /\ r.status = "running" /\ r.step < 3
        /\ call.outcome \in {"succeeded", "failed", "unknown", "limit"}
        /\ requests \in [TerminalKeys -> RequestRecords]
    <2>1. call.key = k /\ call.at = "record" /\ call # NoTurn
      BY DEF Record, Serving, NoTurn
    <2>2. r \in RequestRecords /\ r.step \in Nat /\ r.action \in DOMAIN Plan
      BY TicketFacts DEF RequestRecords
    <2>3. r.step <= PlanLength[r.action] /\ PlanLength[r.action] <= 2
      BY <2>1, <2>2, PlanFacts, TicketFacts DEF CallOK, PlanLength
    <2>4. r.step < 3
      <3>1. PlanLength[r.action] \in Nat  BY <2>2, PlanFacts DEF PlanLength
      <3>. QED  BY <2>2, <2>3, <3>1
    <2>. QED  BY <2>1, <2>2, <2>4, TicketFacts DEF CallOK, TerminalTypeOK
  <1>2. UNCHANGED <<ticket, bound, live, exited, spawned, shells, mishaps>>
    BY DEF Record, runtime
  <1>3. CASE call.outcome = "succeeded"
    <2> DEFINE q == [r EXCEPT !.step = r.step + 1, !.attempt = "pending"]
    <2>1. requests' = [requests EXCEPT ![k] = q]
          /\ Go(k, "step") /\ UNCHANGED replays
      BY <1>3 DEF Record
    <2>2. q \in RequestRecords  BY <1>1, RequestFields
    <2>3. /\ q.action = r.action /\ q.revision = r.revision /\ q.generation = r.generation
          /\ q.status = "running" /\ q.step = r.step + 1 /\ q.attempt = "pending"
      BY <1>1 DEF RequestRecords
    <2> HIDE DEF q
    <2>4. StepIsDone(k, r, q)  BY <1>1, <1>3, <2>1, <2>3 DEF StepIsDone, Go
    <2>5. replays' \subseteq TerminalKeys  BY <2>1, TicketFacts DEF TerminalTypeOK
    <2>. QED  BY <1>1, <1>2, <2>1, <2>2, <2>3, <2>4, <2>5, OperationMoves
  <1>4. CASE call.outcome # "succeeded"
    <2> DEFINE q == [r EXCEPT !.status = call.outcome]
    <2>1. /\ requests' = [requests EXCEPT ![k] = q]
          /\ IF call.outcome = "limit" /\ r.action = "create"
             THEN Go(k, "settle") /\ UNCHANGED replays ELSE Refuse(k)
      BY <1>4 DEF Record
    <2>2. q \in RequestRecords  BY <1>1, <1>4, RequestFields
    <2>3. /\ q.action = r.action /\ q.revision = r.revision /\ q.generation = r.generation
          /\ q.status = call.outcome /\ q.step = r.step /\ q.attempt = r.attempt
      BY <1>1 DEF RequestRecords
    <2> HIDE DEF q
    <2>4. OperationFails(k, r, q)
      BY <1>1, <1>4, <2>1, <2>3 DEF OperationFails, Go, Refuse, Answer
    <2>5. replays' \subseteq TerminalKeys
      BY <2>1, TicketFacts DEF TerminalTypeOK, Refuse
    <2>. QED  BY <1>1, <1>2, <2>1, <2>2, <2>3, <2>4, <2>5, OperationMoves
  <1>. QED  BY <1>3, <1>4

\* A new request: the create makes the ticket, any other names it as it is.
LEMMA AskKeeps ==
  ASSUME TicketInv, NEW k \in TerminalKeys, NEW action \in DOMAIN Plan \ {"none"}, Ask(k, action)
  PROVE  TicketInv'
  <1> DEFINE t == IF action = "create" THEN [ticket EXCEPT !.revision = 1] ELSE ticket
             q == [NotAsked EXCEPT !.action = action, !.revision = t.revision,
                                   !.generation = t.generation, !.status = "running"]
  <1>1. /\ call = NoTurn /\ call.key = 0 /\ call.outcome = "none" /\ call.at = "none"
        /\ requests[k] = NotAsked
        /\ ((action = "create") <=> (ticket.revision = 0))
        /\ ticket' = t /\ requests' = [requests EXCEPT ![k] = q]
        /\ call' = [key |-> k, at |-> "step", outcome |-> "none"]
        /\ UNCHANGED <<replays, bound, live, exited, spawned, shells, mishaps>>
    <2>1. k \in Nat  BY TerminalAssumption DEF TerminalKeys
    <2>2. k >= k  BY <2>1
    <2>3. requests[k] = NotAsked  BY <2>2 DEF Ask
    <2>4. call = NoTurn  BY DEF Ask, LockFree
    <2>5. ticket' = t  BY DEF Ask
    <2>6. requests' = [requests EXCEPT ![k] = q]  BY DEF Ask
    <2>7. ((action = "create") <=> (ticket.revision = 0))  BY DEF Ask
    <2>8. call' = [key |-> k, at |-> "step", outcome |-> "none"]
          /\ UNCHANGED <<replays, bound, live, exited, spawned, shells, mishaps>>
      BY DEF Ask, Go, runtime
    <2> HIDE DEF t, q
    <2>. QED  BY <2>3, <2>4, <2>5, <2>6, <2>7, <2>8 DEF NoTurn
  <1>2. call'.key = k /\ call'.at = "step" /\ call'.outcome = "none" /\ call' # NoTurn
    BY <1>1 DEF NoTurn
  <1>3. /\ q.action = action /\ q.revision = t.revision /\ q.generation = t.generation
        /\ q.status = "running" /\ q.step = 1 /\ q.attempt = "pending"
    BY DEF NotAsked
  <1>4. /\ t.generation = ticket.generation /\ t.refs = ticket.refs
        /\ t.observed = ticket.observed /\ t.revision \in 1..MaxTicketRevision
        /\ t.revision >= ticket.revision /\ t.revision \in Nat
        /\ (action # "create" => t = ticket)
        /\ t \in Tickets
    BY <1>1, TicketFacts, TerminalAssumption DEF Tickets, TerminalTypeOK
  <1>5. q \in RequestRecords
    <2>1. t.revision \in 0..MaxTicketRevision /\ t.generation \in Generations  BY <1>4 DEF Tickets
    <2>2. action \in DOMAIN Plan  OBVIOUS
    <2> HIDE DEF t
    <2>3. q = [ action |-> action, revision |-> t.revision, generation |-> t.generation,
                status |-> "running", step |-> 1, attempt |-> "pending" ]
      <3> DEFINE r1 == [NotAsked EXCEPT !.action = action]
                 r2 == [r1 EXCEPT !.revision = t.revision]
                 r3 == [r2 EXCEPT !.generation = t.generation]
      <3>1. r1 = [ action |-> action, revision |-> 0, generation |-> 0,
                   status |-> "none", step |-> 1, attempt |-> "pending" ]
        BY DEF NotAsked
      <3> HIDE DEF r1
      <3>2. r2 = [ action |-> action, revision |-> t.revision, generation |-> 0,
                   status |-> "none", step |-> 1, attempt |-> "pending" ]
        BY <3>1
      <3> HIDE DEF r2
      <3>3. r3 = [ action |-> action, revision |-> t.revision, generation |-> t.generation,
                   status |-> "none", step |-> 1, attempt |-> "pending" ]
        BY <3>2
      <3>4. q = [r3 EXCEPT !.status = "running"]  BY DEF q, r1, r2, r3
      <3> HIDE DEF r3
      <3>. QED  BY <3>3, <3>4
    <2> HIDE DEF q
    <2>. QED  BY <2>1, <2>2, <2>3 DEF RequestRecords
  <1> HIDE DEF t, q
  <1>6. /\ \A j \in TerminalKeys : requests'[j] = IF j = k THEN q ELSE requests[j]
        /\ requests' \in [TerminalKeys -> RequestRecords]
    BY <1>1, <1>5, TicketFacts
  <1>7. \A j \in TerminalKeys \ {k} : requests'[j] = requests[j]  BY <1>6
  <1>8. TerminalTypeOK'
    BY <1>1, <1>4, <1>6, TicketFacts DEF Tickets, TerminalTypeOK, RequestRecords
  <1>9. action = "create" => /\ ticket = NoTicket /\ shells = 0 /\ bound = Unbound /\ live = {}
                             /\ exited = {} /\ \A j \in TerminalKeys : requests[j] = NotAsked
    <2> SUFFICES ASSUME action = "create"
                 PROVE  /\ ticket = NoTicket /\ shells = 0 /\ bound = Unbound /\ live = {}
                        /\ exited = {} /\ \A j \in TerminalKeys : requests[j] = NotAsked
      OBVIOUS
    <2>1. ticket.revision = 0 /\ ~(ticket.revision > 0)  BY <1>1
    <2>2. ticket = NoTicket /\ shells = 0 /\ bound = Unbound /\ live = {} /\ exited = {}
      BY <2>1, TicketFacts DEF TicketOK
    <2>3. \A j \in TerminalKeys : requests[j].action = "none"
      BY <2>1, TicketFacts DEF TicketOK
    <2>4. \A j \in TerminalKeys : requests[j] = NotAsked
      BY <2>3, TicketFacts DEF TicketOK
    <2>. QED  BY <2>2, <2>4
  <1>10. action \in {"create", "interrupt", "restart", "close"}  BY PlanFacts
  <1>11. TicketOK'
    <2>1. ticket'.revision > 0 /\ ticket'.refs = ticket.refs
          /\ ticket'.generation = ticket.generation /\ ticket'.revision >= ticket.revision
          /\ ticket'.revision \in Nat /\ ticket.revision \in Nat
      <3>1. ticket' = t  BY <1>1
      <3>2. t.revision > 0  BY <1>4
      <3>. QED  BY <1>4, <3>1, <3>2, TicketFacts
    <2>2. k \notin ticket.refs
      <3>1. requests[k].status = "none"  BY <1>1 DEF NotAsked
      <3>. QED  BY <3>1, TicketFacts DEF TicketOK
    <2>3. /\ q.generation <= shells + 1 /\ q.revision <= ticket'.revision
          /\ q.step <= PlanLength[q.action] + 1 /\ q.action # "none" /\ q # NotAsked
          /\ q.action = "create" => q.generation = 1
      <3>1. q.generation <= shells + 1  BY <1>3, <1>4, TicketFacts DEF TicketOK
      <3>2. q.revision <= ticket'.revision  BY <1>1, <1>3, <1>4
      <3>3. q.action = "create" => q.generation = 1
        BY <1>3, <1>4, <1>9 DEF NoTicket
      <3>4. q.step <= PlanLength[q.action] + 1  BY <1>3, <1>10 DEF PlanLength
      <3>. QED  BY <1>3, <1>10, <3>1, <3>2, <3>3, <3>4 DEF NotAsked
    <2>4. \A j \in TerminalKeys : requests[j].revision \in Nat
      BY TicketFacts DEF RequestRecords
    <2>. QED  BY <1>1, <1>6, <2>1, <2>2, <2>3, <2>4, TicketFacts DEF TicketOK
  <1>12. EndedOK'  BY <1>3, <1>6, TicketFacts DEF EndedOK
  <1>13. CallOK'  BY <1>1, <1>2, <1>3, <1>4, <1>6, <1>10 DEF CallOK
  <1>14. SpawnOK'
    <2>1. spawned[k] = 0
      <3>1. requests[k].action = "none" /\ StartAt["none"] = 0  BY <1>1 DEF NotAsked, StartAt
      <3>. QED  BY <3>1, TicketFacts DEF SpawnOK
    <2>. QED  BY <1>1, <1>2, <1>6, <2>1, TicketFacts DEF SpawnOK, Serving
  <1>15. FreshOK'
    <2>1. CASE action = "create"
      <3>1. \A j \in TerminalKeys \ {k} : requests'[j].action = "none" /\ requests'[j].step = 1
        BY <1>7, <1>9, <2>1 DEF NotAsked
      <3>2. ticket'.observed = "unknown"  BY <1>1, <1>4, <1>9, <2>1 DEF NoTicket
      <3>. QED  BY <1>1, <1>2, <1>9, <2>1, <3>1, <3>2 DEF FreshOK, Fresh
    <2>2. CASE action # "create"
      <3>1. \A j \in TerminalKeys : Fresh(j)' => Fresh(j) /\ j # k
        BY <1>1, <1>2, <1>3, <1>6, <2>2 DEF Fresh, Serving
      <3>. QED  BY <1>1, <1>2, <1>3, <1>4, <1>6, <2>2, <3>1, TicketFacts DEF FreshOK
    <2>. QED  BY <2>1, <2>2
  <1>16. LostOK'
    <2> SUFFICES ASSUME mishaps <= 1 PROVE LostOK'  BY <1>1 DEF LostOK
    <2>1. ~NowStopped'  BY <1>2, <1>3, <1>6 DEF NowStopped
    <2>2. LeftStopped'
      <3> SUFFICES ASSUME NEW j \in TerminalKeys, StopDone(j)', j # k,
                          requests'[j].revision = ticket'.revision
                   PROVE  mishaps = 1 /\ live = {}
        BY <1>1, <1>2 DEF LeftStopped
      <3>1. StopDone(j) /\ requests[j] # NotAsked  BY <1>7 DEF StopDone, NotAsked
      <3>2. action # "create" /\ ticket' = ticket
        <4>1. action # "create"  BY <1>9, <3>1
        <4>. QED  BY <1>1, <1>4, <4>1
      <3>3. ~NowStarted  BY <1>1 DEF NowStarted
      <3>4. requests[j].revision = ticket.revision /\ call.key # j
        BY <1>1, <1>7, <3>2, TerminalAssumption DEF TerminalKeys
      <3>. QED  BY <3>1, <3>3, <3>4, TicketFacts DEF LostOK, LeftStopped
    <2>. QED  BY <1>1, <1>4, <2>1, <2>2, TicketFacts DEF LostOK
  <1>. QED  BY <1>8, <1>11, <1>12, <1>13, <1>14, <1>15, <1>16 DEF TicketInv

\* The ticket moves on while no request is served: every request is of an older revision.
LEMMA TicketMoves ==
  ASSUME TicketInv, UNCHANGED <<requests, spawned, shells, mishaps>>, call' = NoTurn,
         ticket.revision > 0, ticket'.revision = ticket.revision + 1,
         ticket' \in Tickets,
         ticket'.generation \in 1..(shells + 1),
         \A j \in ticket'.refs \ ticket.refs : requests[j].status \in {"succeeded", "limit"},
         replays' \subseteq TerminalKeys, exited' \subseteq Generations,
         bound' \in {bound, Unbound}, live' \subseteq live,
         \A j \in TerminalKeys : ~Fresh(j),
         mishaps <= 1 =>
            /\ live' \subseteq {bound'}
            /\ ticket'.observed = "stopped" => \A s \in live' : s.generation # ticket'.generation
  PROVE  TicketInv'
  <1>1. call'.key = 0 /\ call'.at = "none" /\ call'.outcome = "none" /\ 0 \notin TerminalKeys
    BY TerminalAssumption DEF NoTurn, TerminalKeys
  <1>2. TerminalTypeOK'
    <2>1. bound' = Unbound \/ bound' \in [shell : Shells, generation : Generations]
      BY TicketFacts
    <2>. QED  BY <2>1, TicketFacts DEF Tickets, TerminalTypeOK
  <1>3. \A j \in TerminalKeys : /\ requests[j].revision \in Nat
                                /\ requests[j].revision < ticket'.revision
                                /\ requests[j].revision <= ticket'.revision
    <2> TAKE j \in TerminalKeys
    <2>1. requests[j].revision \in Nat /\ requests[j].revision <= ticket.revision
      BY TicketFacts DEF TicketOK, RequestRecords
    <2>2. ticket.revision \in Nat  BY TicketFacts
    <2>. QED  BY <2>1, <2>2
  <1>4. TicketOK'
    <2>1. bound'.generation <= shells + 1  BY TicketFacts DEF TicketOK, Unbound
    <2>2. ticket'.revision > 0 /\ ticket'.revision # 0  BY TicketFacts
    <2>3. \A j \in TerminalKeys : j \in ticket'.refs => requests[j].status \in {"succeeded", "limit"}
      BY TicketFacts DEF TicketOK
    <2>. QED  BY <1>3, <2>1, <2>2, <2>3, TicketFacts DEF TicketOK
  <1>5. EndedOK' /\ CallOK'  BY TicketFacts DEF EndedOK, CallOK
  <1>6. SpawnOK'  BY <1>1, TicketFacts DEF SpawnOK, Serving
  <1>7. FreshOK'
    <2>1. \A j \in TerminalKeys : ~Fresh(j)'  BY <1>1 DEF Fresh, Serving
    <2>. QED  BY <2>1 DEF FreshOK
  <1>8. LostOK'
    <2>1. ~NowStopped'  BY DEF NowStopped
    <2>2. LeftStopped'
      <3>1. \A j \in TerminalKeys : requests'[j].revision # ticket'.revision
        <4> TAKE j \in TerminalKeys
        <4>1. ticket'.revision \in Nat  BY TicketFacts
        <4>. QED  BY <1>3, <4>1
      <3>. QED  BY <3>1 DEF LeftStopped
    <2>. QED  BY <2>1, <2>2 DEF LostOK
  <1>. QED  BY <1>2, <1>4, <1>5, <1>6, <1>7, <1>8 DEF TicketInv

\* Shells end, or the server with all it knows, and the ticket is as it was.
LEMMA ShellsEnd ==
  ASSUME TicketInv, UNCHANGED <<ticket, requests, spawned, shells>>,
         replays' \subseteq TerminalKeys, exited' \subseteq Generations,
         exited' \subseteq exited \/ bound # Unbound,
         live' \subseteq live, bound' = bound \/ (bound' = Unbound /\ live' = {}),
         mishaps' \in 0..MaxMishaps, mishaps' \in {mishaps, mishaps + 1},
         \/ call' = call
         \/ call' = NoTurn /\ live' = {} /\ mishaps' = mishaps + 1
  PROVE  TicketInv'
  <1>1. NoTurn.key = 0 /\ NoTurn.at = "none" /\ NoTurn.outcome = "none" /\ 0 \notin TerminalKeys
    BY TerminalAssumption DEF NoTurn, TerminalKeys
  <1>2. TerminalTypeOK'
    <2>1. bound' = Unbound \/ bound' \in [shell : Shells, generation : Generations]
      BY TicketFacts
    <2>. QED  BY <2>1, TicketFacts DEF TerminalTypeOK
  <1>3. TicketOK'
    <2>1. bound'.generation <= shells + 1  BY TicketFacts DEF TicketOK, Unbound
    <2>2. ticket.revision = 0 => bound' = Unbound /\ live' = {} /\ exited' = {} /\ call' = NoTurn
      BY TicketFacts DEF TicketOK
    <2>. QED  BY <2>1, <2>2, TicketFacts DEF TicketOK
  <1>4. EndedOK'  BY TicketFacts DEF EndedOK
  <1>5. CallOK'  BY TicketFacts DEF CallOK
  <1>6. \A j \in TerminalKeys, at \in {"effect"} : Serving(j, at)' => Serving(j, at)
    BY <1>1 DEF Serving
  <1>7. SpawnOK'  BY <1>6, TicketFacts DEF SpawnOK
  <1>8. FreshOK'
    <2>1. \A j \in TerminalKeys : Fresh(j)' => Fresh(j)  BY <1>6 DEF Fresh
    <2>2. \A j \in TerminalKeys : call'.key = j => call' = call  BY <1>1
    <2>3. \A j \in TerminalKeys : Fresh(j) => exited' = {} /\ bound' = Unbound /\ live' = {}
      BY TicketFacts DEF FreshOK
    <2>. QED  BY <2>1, <2>2, <2>3, TicketFacts DEF FreshOK
  <1>9. LostOK'
    <2> SUFFICES ASSUME mishaps' <= 1 PROVE LostOK'  BY DEF LostOK
    <2>1. mishaps <= 1 /\ mishaps \in Nat  BY TicketFacts
    <2>2. live' \subseteq {bound'}  BY <2>1, TicketFacts DEF LostOK
    <2>3. NowStopped' => live' = {}
      BY <2>1, TicketFacts DEF LostOK, NowStopped
    <2>4. LeftStopped'
      <3>1. CASE call' = call
        <4>1. NowStarted => NowStarted' \/ live' = {}  BY <3>1 DEF NowStarted
        <4>2. mishaps = 1 => mishaps' = 1  BY <2>1
        <4>3. live = {} => live' = {}  OBVIOUS
        <4>4. LeftStopped  BY <2>1, TicketFacts DEF LostOK
        <4>. QED  BY <3>1, <4>1, <4>2, <4>3, <4>4 DEF LeftStopped, StopDone
      <3>2. CASE live' = {} /\ mishaps' = mishaps + 1
        BY <2>1, <3>2 DEF LeftStopped
      <3>. QED  BY <3>1, <3>2
    <2>. QED  BY <2>1, <2>2, <2>3, <2>4, TicketFacts DEF LostOK
  <1>. QED  BY <1>2, <1>3, <1>4, <1>5, <1>7, <1>8, <1>9 DEF TicketInv


\* What settling makes of the ticket.
LEMMA SettledFacts ==
  ASSUME TicketInv, NEW k \in TerminalKeys,
         requests[k].action = "restart" => requests[k].generation + 1 \in Generations
  PROVE  LET t == Settled(k)
             a == requests[k].action
         IN  /\ t \in Tickets /\ t.refs = ticket.refs \cup {k}
             /\ a = "restart" => t.generation = requests[k].generation + 1
             /\ a # "restart" => t.generation = ticket.generation
             /\ a \in {"create", "restart"} => t.observed = "running"
             /\ a \notin {"create", "restart", "close"} => t.observed = ticket.observed
  <1> DEFINE noted == [ticket EXCEPT !.refs = @ \cup {k}]
  <1>1. ticket \in Tickets  BY TicketFacts DEF TerminalTypeOK, Tickets
  <1>2. noted \in Tickets /\ noted.refs = ticket.refs \cup {k}
        /\ noted.generation = ticket.generation /\ noted.observed = ticket.observed
    BY <1>1 DEF Tickets
  <1> HIDE DEF noted
  <1>3. CASE requests[k].action = "create"
    <2>1. Settled(k) = [noted EXCEPT !.desired = "running", !.observed = "running"]
      BY <1>3 DEF Settled, noted
    <2>. QED  BY <1>2, <1>3, <2>1 DEF Tickets
  <1>4. CASE requests[k].action = "restart"
    <2> DEFINE g == requests[k].generation + 1
    <2>0. g \in Generations  BY <1>4
    <2>1. Settled(k) = [noted EXCEPT !.desired = "running", !.observed = "running",
                                     !.exit = FALSE, !.generation = g]
      BY <1>4 DEF Settled, noted
    <2> HIDE DEF g
    <2>2. Settled(k) \in Tickets /\ Settled(k).refs = noted.refs
          /\ Settled(k).generation = g /\ Settled(k).observed = "running"
      BY <1>2, <2>0, <2>1 DEF Tickets
    <2>. QED  BY <1>2, <1>4, <2>2 DEF g
  <1>5. CASE requests[k].action = "close"
    <2>1. Settled(k) = [noted EXCEPT !.desired = "stopped", !.observed = "stopped"]
      BY <1>5 DEF Settled, noted
    <2>. QED  BY <1>2, <1>5, <2>1 DEF Tickets
  <1>6. CASE requests[k].action \notin {"create", "restart", "close"}
    <2>1. Settled(k) = noted  BY <1>6 DEF Settled, noted
    <2>. QED  BY <1>2, <1>6, <2>1
  <1>. QED  BY <1>3, <1>4, <1>5, <1>6

LEMMA SettleTicketKeeps ==
  ASSUME TicketInv, NEW k \in TerminalKeys, SettleTicket(k)
  PROVE  TicketInv'
  <1> DEFINE r == requests[k]
  <1>1. /\ call.key = k /\ call.at = "ticket" /\ call # NoTurn /\ HasShell(k)
        /\ call' = NoTurn /\ replays' = replays \cup {k}
        /\ UNCHANGED <<requests, bound, live, exited, spawned, shells, mishaps>>
    BY DEF SettleTicket, Serving, NoTurn, Refuse, Answer, runtime
  <1>2. /\ r.status = "succeeded" /\ r.action \in DOMAIN Plan \ {"none"}
        /\ r.step = PlanLength[r.action] + 1 /\ r.attempt = "pending"
        /\ r.generation \in Nat /\ r.generation <= shells + 1 /\ ticket.revision > 0
    <2>1. r.status = "succeeded" /\ r.action # "none"  BY <1>1, TicketFacts DEF CallOK
    <2>2. r.action \in DOMAIN Plan /\ r.step \in Nat /\ r.generation \in Nat
          /\ r.attempt \in {"pending", "dispatched"}
      BY TicketFacts DEF RequestRecords, Generations
    <2>3. PlanLength[r.action] \in Nat  BY <2>2, PlanFacts DEF PlanLength
    <2>4. ~(r.step <= PlanLength[r.action]) /\ r.attempt # "dispatched"
      BY <2>1, TicketFacts DEF EndedOK
    <2>5. r.step <= PlanLength[r.action] + 1 /\ r.generation <= shells + 1 /\ ticket.revision > 0
      BY <2>1, TicketFacts DEF TicketOK
    <2>. QED  BY <2>1, <2>2, <2>3, <2>4, <2>5
  <1>3. /\ exited \subseteq Generations /\ replays' \subseteq TerminalKeys
        /\ mishaps \in 0..MaxMishaps
    BY <1>1, TicketFacts DEF TerminalTypeOK
  <1>4. CASE k \in ticket.refs
    <2>1. ticket' = ticket  BY <1>4 DEF SettleTicket
    <2>2. r.revision < ticket.revision  BY <1>4, TicketFacts DEF TicketOK
    <2>3. ~NowStarted  BY <1>1, <1>4 DEF NowStarted
    <2>. QED  BY <1>1, <1>3, <2>1, <2>2, <2>3, CallEnds DEF Answer
  <1>5. CASE k \notin ticket.refs
    <2> DEFINE t == Settled(k)
    <2>1. Update(t)  BY <1>5 DEF SettleTicket
    <2>2. r.action = "restart" => r.generation + 1 \in Generations
      <3>1. bound.generation \in Generations
        BY TicketFacts, TerminalAssumption DEF Unbound, Generations
      <3>. QED  BY <1>1, <3>1 DEF HasShell
    <2>3. /\ t \in Tickets /\ t.refs = ticket.refs \cup {k}
          /\ r.action = "restart" => t.generation = r.generation + 1
          /\ r.action # "restart" => t.generation = ticket.generation
          /\ r.action \in {"create", "restart"} => t.observed = "running"
          /\ r.action \notin {"create", "restart", "close"} => t.observed = ticket.observed
      BY <2>2, SettledFacts
    <2> HIDE DEF t
    <2>4. /\ ticket' \in Tickets /\ ticket'.revision = ticket.revision + 1
          /\ ticket'.generation = t.generation /\ ticket'.refs = t.refs
          /\ ticket'.observed = t.observed
      BY <2>1, <2>3, UpdateFacts DEF Tickets
    <2>5. ticket'.generation \in 1..(shells + 1)
      <3>1. CASE r.action = "restart"
        <4>1. bound.generation = r.generation + 1  BY <1>1, <3>1 DEF HasShell
        <4>2. bound.generation <= shells + 1  BY TicketFacts DEF TicketOK
        <4>. QED  BY <1>2, <2>3, <2>4, <3>1, <4>1, <4>2, TicketFacts
      <3>2. CASE r.action # "restart"  BY <2>3, <2>4, <3>2, TicketFacts DEF TicketOK
      <3>. QED  BY <3>1, <3>2
    <2>6. \A j \in TerminalKeys : ~Fresh(j)
      <3> SUFFICES ASSUME NEW j \in TerminalKeys, Fresh(j) PROVE FALSE  OBVIOUS
      <3>1. j # k  BY <1>2 DEF Fresh
      <3>2. r.step = 1  BY <3>1, TicketFacts DEF FreshOK
      <3>. QED  BY <1>2, <3>2, PlanFacts DEF PlanLength
    <2>7. mishaps <= 1 =>
            /\ live' \subseteq {bound'}
            /\ ticket'.observed = "stopped" => \A s \in live' : s.generation # ticket'.generation
      <3> SUFFICES ASSUME mishaps <= 1
                   PROVE  /\ live' \subseteq {bound'}
                          /\ ticket'.observed = "stopped" =>
                                \A s \in live' : s.generation # ticket'.generation
        OBVIOUS
      <3>1. live \subseteq {bound}  BY TicketFacts DEF LostOK
      <3>2. CASE r.action \in {"create", "restart"}  BY <1>1, <2>3, <2>4, <3>1, <3>2
      <3>3. CASE r.action = "close"
        <4>1. NowStopped  BY <1>1, <1>2, <3>3 DEF NowStopped, PlanLength
        <4>. QED  BY <1>1, <3>1, <4>1, TicketFacts DEF LostOK
      <3>4. CASE r.action \notin {"create", "restart", "close"}
        BY <1>1, <2>3, <2>4, <3>1, <3>4, TicketFacts DEF LostOK
      <3>. QED  BY <3>2, <3>3, <3>4
    <2>8. \A j \in ticket'.refs \ ticket.refs : requests[j].status \in {"succeeded", "limit"}
      BY <1>2, <2>3, <2>4
    <2>. QED  BY <1>1, <1>2, <1>3, <2>4, <2>5, <2>6, <2>7, <2>8, TicketMoves DEF Tickets
  <1>. QED  BY <1>4, <1>5

LEMMA SettleLimitKeeps ==
  ASSUME TicketInv, NEW k \in TerminalKeys, SettleLimit(k)
  PROVE  TicketInv'
  <1> DEFINE r == requests[k]
  <1>1. /\ call.key = k /\ call.at = "settle" /\ call # NoTurn
        /\ call' = NoTurn /\ replays' \subseteq TerminalKeys /\ Answer
        /\ UNCHANGED <<requests, bound, live, exited, spawned, shells, mishaps>>
    BY TicketFacts
       DEF SettleLimit, Serving, NoTurn, Refuse, Answer, runtime, TerminalTypeOK
  <1>2. r.status = "limit" /\ r.action = "create"  BY <1>1, TicketFacts DEF CallOK
  <1>3. exited \subseteq Generations /\ mishaps \in 0..MaxMishaps
    BY TicketFacts DEF TerminalTypeOK
  <1>4. CASE bound = Unbound /\ ticket.generation = 1 /\ ticket.observed = "unknown"
             /\ ticket.refs = {}
    <2> DEFINE t == [ticket EXCEPT !.desired = "stopped", !.observed = "stopped",
                                   !.refs = @ \cup {k}]
    <2>1. Update(t)  BY <1>4 DEF SettleLimit
    <2>2. t \in Tickets /\ t.refs = ticket.refs \cup {k} /\ t.generation = ticket.generation
      BY TicketFacts DEF TerminalTypeOK, Tickets
    <2> HIDE DEF t
    <2>3. /\ ticket' \in Tickets /\ ticket'.revision = ticket.revision + 1
          /\ ticket'.generation = ticket.generation /\ ticket'.refs = ticket.refs \cup {k}
      BY <2>1, <2>2, UpdateFacts DEF Tickets
    <2>4. ticket'.generation \in 1..(shells + 1) /\ ticket.revision > 0
      BY <1>2, <2>3, TicketFacts DEF TicketOK
    <2>5. \A j \in TerminalKeys : ~Fresh(j)
      BY <1>2, TicketFacts DEF FreshOK, Fresh
    <2>6. mishaps <= 1 => live = {}
      BY <1>4, TicketFacts DEF LostOK
    <2>7. \A j \in ticket'.refs \ ticket.refs : requests[j].status \in {"succeeded", "limit"}
      BY <1>2, <2>3
    <2>. QED  BY <1>1, <1>3, <2>3, <2>4, <2>5, <2>6, <2>7, TicketMoves DEF Tickets
  <1>5. CASE ~(bound = Unbound /\ ticket.generation = 1 /\ ticket.observed = "unknown"
               /\ ticket.refs = {})
    <2>1. ticket' = ticket  BY <1>5 DEF SettleLimit
    <2>2. ~StopDone(k) /\ ~NowStarted  BY <1>1, <1>2 DEF StopDone, NowStarted
    <2>. QED  BY <1>1, <1>3, <2>1, <2>2, CallEnds
  <1>. QED  BY <1>4, <1>5

\* Nothing is being created where a shell is bound.
LEMMA BoundNotFresh ==
  ASSUME TicketInv, bound # Unbound
  PROVE  ticket.revision > 0 /\ \A j \in TerminalKeys : ~Fresh(j)
  BY TicketFacts DEF TicketOK, FreshOK

LEMMA ReconnectKeeps ==
  ASSUME TicketInv, Reconnect
  PROVE  TicketInv'
  <1>1. /\ call' = NoTurn /\ bound \in live /\ Update(ticket)
        /\ UNCHANGED <<requests, replays, bound, live, exited, spawned, shells, mishaps>>
    BY DEF Reconnect, LockFree, BoundAlive, runtime
  <1>2. bound # Unbound  BY <1>1, TicketFacts
  <1>3. ticket \in Tickets /\ replays' \subseteq TerminalKeys /\ exited' \subseteq Generations
    BY <1>1, TicketFacts DEF TerminalTypeOK, Tickets
  <1>4. /\ ticket' \in Tickets /\ ticket'.revision = ticket.revision + 1
        /\ ticket'.generation = ticket.generation /\ ticket'.refs = ticket.refs
        /\ ticket'.observed = ticket.observed
    BY <1>1, <1>3, UpdateFacts DEF Tickets
  <1>5. mishaps <= 1 =>
          /\ live' \subseteq {bound'}
          /\ ticket'.observed = "stopped" => \A s \in live' : s.generation # ticket'.generation
    BY <1>1, <1>4, TicketFacts DEF LostOK
  <1>6. ticket'.generation \in 1..(shells + 1)  BY <1>4, TicketFacts DEF TicketOK
  <1>. QED  BY <1>1, <1>2, <1>3, <1>4, <1>5, <1>6, BoundNotFresh, TicketMoves DEF Tickets

LEMMA ObserveExitKeeps ==
  ASSUME TicketInv, ObserveExit
  PROVE  TicketInv'
  <1>1. /\ call = NoTurn /\ call' = call /\ bound # Unbound /\ bound \notin live
        /\ exited' = exited \cup {bound.generation} /\ MarkExit
        /\ UNCHANGED <<requests, replays, bound, live, spawned, shells>>
    BY DEF ObserveExit, LockFree, BoundAlive
  <1>2. replays' \subseteq TerminalKeys /\ exited' \subseteq Generations
    BY <1>1, TicketFacts DEF TerminalTypeOK
  <1>3. CASE ticket' = ticket /\ mishaps' \in {mishaps, mishaps + 1}
    <2>1. mishaps' \in 0..MaxMishaps  BY <1>1, MarkExitFacts
    <2>. QED  BY <1>1, <1>2, <1>3, <2>1, ShellsEnd
  <1>4. CASE ticket'.revision = ticket.revision + 1 /\ mishaps' = mishaps
    <2>1. ticket'.generation = ticket.generation /\ ticket'.refs = ticket.refs /\ ticket' \in Tickets
      BY <1>1, MarkExitFacts DEF Tickets
    <2>2. ticket'.generation \in 1..(shells + 1)  BY <2>1, TicketFacts DEF TicketOK
    <2>3. mishaps <= 1 => live = {}  BY <1>1, TicketFacts DEF LostOK
    <2>. QED  BY <1>1, <1>2, <1>4, <2>1, <2>2, <2>3, BoundNotFresh, TicketMoves DEF Tickets
  <1>. QED  BY <1>1, <1>3, <1>4, MarkExitFacts

LEMMA ShellExitsKeeps ==
  ASSUME TicketInv, ShellExits
  PROVE  TicketInv'
  <1>1. live' \subseteq live
        /\ UNCHANGED <<ticket, requests, replays, call, bound, exited, spawned, shells, mishaps>>
    BY DEF ShellExits
  <1>2. replays' \subseteq TerminalKeys /\ exited' \subseteq Generations /\ mishaps' \in 0..MaxMishaps
    BY <1>1, TicketFacts DEF TerminalTypeOK
  <1>. QED  BY <1>1, <1>2, ShellsEnd

LEMMA ServerCrashesKeeps ==
  ASSUME TicketInv, ServerCrashes
  PROVE  TicketInv'
  <1>1. /\ call' = NoTurn /\ replays' = {} /\ bound' = Unbound /\ live' = {} /\ exited' = {}
        /\ mishaps < MaxMishaps /\ mishaps' = mishaps + 1
        /\ UNCHANGED <<ticket, requests, spawned, shells>>
    BY DEF ServerCrashes, NewServer, Mishap
  <1>2. mishaps' \in 0..MaxMishaps
    BY <1>1, TicketFacts, TerminalAssumption DEF TerminalTypeOK
  <1>3. exited' \subseteq exited /\ exited' \subseteq Generations /\ live' \subseteq live
        /\ replays' \subseteq TerminalKeys
    BY <1>1
  <1>. QED  BY <1>1, <1>2, <1>3, ShellsEnd

LEMMA ServerStopsKeeps ==
  ASSUME TicketInv, ServerStops
  PROVE  TicketInv'
  <1>1. /\ call = NoTurn /\ call' = NoTurn /\ replays' = {} /\ bound' = Unbound
        /\ bound # Unbound /\ live' = {} /\ exited' = {}
        /\ UNCHANGED <<requests, spawned, shells, mishaps>>
    BY DEF ServerStops, NewServer, LockFree
  <1>2. /\ exited' \subseteq Generations /\ live' \subseteq live /\ live' \subseteq {bound'}
        /\ replays' \subseteq TerminalKeys /\ exited' \subseteq exited
        /\ \A s \in live' : s.generation # ticket'.generation
    BY <1>1
  <1>3. mishaps' \in 0..MaxMishaps  BY <1>1, TicketFacts DEF TerminalTypeOK
  <1>4. CASE bound.generation = ticket.generation /\ ticket.observed # "stopped"
    <2> DEFINE t == [ticket EXCEPT !.desired = "recovery_required", !.observed = "stopped"]
    <2>1. Update(t)  BY <1>4 DEF ServerStops
    <2>2. t \in Tickets /\ t.refs = ticket.refs /\ t.generation = ticket.generation
      BY TicketFacts DEF TerminalTypeOK, Tickets
    <2> HIDE DEF t
    <2>3. /\ ticket' \in Tickets /\ ticket'.revision = ticket.revision + 1
          /\ ticket'.generation = ticket.generation /\ ticket'.refs = ticket.refs
      BY <2>1, <2>2, UpdateFacts DEF Tickets
    <2>4. ticket'.generation \in 1..(shells + 1)  BY <2>3, TicketFacts DEF TicketOK
    <2>. QED  BY <1>1, <1>2, <2>3, <2>4, BoundNotFresh, TicketMoves DEF Tickets
  <1>5. CASE ~(bound.generation = ticket.generation /\ ticket.observed # "stopped")
    <2>1. ticket' = ticket  BY <1>5 DEF ServerStops
    <2>. QED  BY <1>1, <1>2, <1>3, <2>1, ShellsEnd
  <1>. QED  BY <1>4, <1>5

\* No request, no shell, no ticket.
LEMMA TerminalStarts == TerminalInit => TicketInv
  <1> SUFFICES ASSUME TerminalInit PROVE TicketInv  OBVIOUS
  <1>1. TerminalTypeOK
    <2>1. NotAsked \in RequestRecords
      BY PlanFacts, TerminalAssumption DEF NotAsked, RequestRecords, Generations
    <2>2. NoTicket \in Tickets
      BY TerminalAssumption DEF NoTicket, Tickets, Generations
    <2>. QED  BY <2>1, <2>2, TerminalAssumption
           DEF TerminalInit, TerminalTypeOK, RequestRecords, Tickets
  <1>2. \A j \in TerminalKeys : /\ requests[j] = NotAsked /\ spawned[j] = 0
                                /\ requests[j].action = "none" /\ requests[j].step = 1
                                /\ requests[j].attempt = "pending" /\ requests[j].status = "none"
                                /\ requests[j].revision = 0 /\ requests[j].generation = 0
    BY DEF TerminalInit, NotAsked
  <1>3. TicketOK
    BY <1>2 DEF TicketOK, TerminalInit, NoTicket, Unbound, PlanLength
  <1>4. EndedOK /\ CallOK  BY <1>2 DEF EndedOK, CallOK, TerminalInit
  <1>5. SpawnOK  BY <1>2 DEF SpawnOK
  <1>6. FreshOK  BY <1>2 DEF FreshOK, Fresh
  <1>7. LostOK
    BY <1>2 DEF LostOK, LeftStopped, StopDone, NowStopped, TerminalInit, NoTicket
  <1>. QED  BY <1>1, <1>3, <1>4, <1>5, <1>6, <1>7 DEF TicketInv

LEMMA TerminalSteps == TicketInv /\ [TerminalNext]_terminalVars => TicketInv'
  <1> SUFFICES ASSUME TicketInv, [TerminalNext]_terminalVars PROVE TicketInv'  OBVIOUS
  <1>1. CASE UNCHANGED terminalVars
    BY <1>1 DEF terminalVars, TicketInv, TerminalTypeOK, TicketOK, EndedOK, CallOK, SpawnOK, FreshOK,
                Fresh, LostOK, NowStopped, NowStarted, LeftStopped, StopDone, Serving
  <1>2. ASSUME NEW k \in TerminalKeys, NEW action \in DOMAIN Plan \ {"none"}, Ask(k, action)
        PROVE  TicketInv'
    BY <1>2, AskKeeps
  <1>3. ASSUME NEW k \in TerminalKeys, Serve(k) PROVE TicketInv'
    BY <1>3, AskAgainKeeps, DispatchKeeps, StopsKeep, RefusalsKeep, ShellStartKeeps, InterruptKeeps,
       OutcomeRecordKeeps, SettleTicketKeeps, SettleLimitKeeps DEF Serve
  <1>4. ASSUME NEW k \in TerminalKeys, NEW o \in {"limit", "failed"}, StartFails(k, o)
        PROVE  TicketInv'
    BY <1>4, StartFailsKeeps
  <1>. QED  BY <1>1, <1>2, <1>3, <1>4, ReconnectKeeps, ShellExitsKeeps, ObserveExitKeeps,
               ServerCrashesKeeps, ServerStopsKeeps DEF TerminalNext

\* The ticket of a terminal (workspace_terminal.py): a request starts one shell at most,
\* however often it is repeated; with no more than one failed write or dead server, no
\* shell runs that the controller has lost sight of, and none of the generation that the
\* ticket shows as stopped.
THEOREM TerminalIsSafe == TerminalSpec => []TerminalSafe
  <1>1. TicketInv => TerminalSafe
    BY DEF TicketInv, TerminalSafe, SpawnOK, StartedOnce, LostOK, NoShellLost
  <1>. QED  BY <1>1, TerminalStarts, TerminalSteps, PTL DEF TerminalSpec
================================================================================
