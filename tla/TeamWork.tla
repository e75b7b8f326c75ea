-------------------------------- MODULE TeamWork --------------------------------
(***************************************************************************)
(* The work a Team session takes from the shared inbox of its project      *)
(* (agent_cockpit/team_lead_worker.py and its callers in server.py), for   *)
(* one binding.                                                            *)
(*                                                                         *)
(* The worker claims an item at the Hub and keeps it in a local file.  The *)
(* agent reads it; the first read freezes the context pack and the route,  *)
(* and may put the question to a local developer's agent, the target.  The *)
(* agent's reply is frozen, sent, recorded and the item completed, in five *)
(* writes to two stores.  The worker, the reply and what the human does    *)
(* exclude each other by one lock; reads, targets, leases and crashes do   *)
(* not wait for it.                                                        *)
(***************************************************************************)
EXTENDS Naturals, FiniteSets

CONSTANTS
    Items,          \* items of the inbox
    Kind,           \* per item, what classify makes of it
    Targets,        \* local agents that can be asked
    Answers,        \* texts that an agent writes
    Packs,          \* context packs that answer a question about them
    Nobody,         \* no value
    MaxWorks,       \* bound: local works
    MaxTokens,      \* bound: claims at the Hub
    MaxTeamFaults   \* bound: deaths of the server, calls that fail, logouts

Works == 1..MaxWorks
Tokens == 0..MaxTokens
AllPacks == Packs \cup {"poor"}
Bodies == Answers \cup Packs

\* Local work items, as the file keeps them.
WorkRows ==
    [ work : Works, item : Items, token : Tokens, state : {"pending", "responding"},
      pack : AllPacks \cup {Nobody}, response : Bodies \cup {Nobody},
      route : {"none", "team_agent", "context_pack", "local_lead"} ]

ASSUME TeamAssumption ==
    /\ Kind \in [Items -> {"social", "snapshot", "project"}]
    /\ Nobody \notin Items \cup Targets \cup Answers \cup Packs \cup {"poor"} \cup WorkRows
    /\ MaxWorks \in Nat /\ MaxTokens \in Nat /\ MaxTeamFaults \in Nat

VARIABLES
    inbox,          \* at the Hub, per item: open, claimed or done, and its claim's token
    lapsed,         \* tokens whose lease has passed
    sent,           \* at the Hub, per work (the idempotency key): the reply it keeps
    row,            \* the local work item; Nobody when there is none
    consults,       \* the local consult request, per work
    evidence,       \* the local reply evidence, per work: the answer's source
    session,        \* the binding: signed in, its chosen target; and the targets alive
    worker,         \* the worker's tick, between the Hub's claim and the local write
    request,        \* the agent's request: where it is, and whether it replies or reads
    answering,      \* the target's answer, between its check and its write
    history,        \* per work: its item, the answers given, what was sent, discarded
    teamFaults

teamVars == <<inbox, lapsed, sent, row, consults, evidence, session, worker, request,
              answering, history, teamFaults>>

NoRequest == [ at |-> "idle", replies |-> FALSE, work |-> 0, target |-> Nobody,
               body |-> Nobody, token |-> 0 ]
NoConsult == [state |-> "none", target |-> Nobody, answer |-> Nobody]
NoWork == [item |-> Nobody, given |-> {}, sent |-> {}, route |-> "none", discarded |-> FALSE]

TeamInit ==
    /\ inbox = [i \in Items |-> [state |-> "open", token |-> 0]]
    /\ lapsed = {} /\ sent = [w \in Works |-> Nobody]
    /\ row = Nobody
    /\ consults = [w \in Works |-> NoConsult]
    /\ evidence = [w \in Works |-> "none"]
    /\ session = [auth |-> TRUE, target |-> Nobody, live |-> Targets]
    /\ worker = Nobody
    /\ request = NoRequest
    /\ answering = Nobody
    /\ history = [w \in Works |-> NoWork]
    /\ teamFaults = 0

-----------------------------------------------------------------------------
TeamFault == teamFaults < MaxTeamFaults /\ teamFaults' = teamFaults + 1

\* _TEAM_SESSION_BIND_LOCK
LockFree == worker = Nobody /\ ~request.replies

HasWork(w) == row # Nobody /\ row.work = w

\* The route that classify gives, where the frozen pack may be too poor for an answer.
Route(kind, pack) ==
    IF kind = "social" THEN "team_agent"
    ELSE IF kind = "snapshot" /\ pack # "poor" THEN "context_pack"
    ELSE "local_lead"

UsedTokens == {inbox[i].token : i \in Items}
NextToken == 1 + CHOOSE t \in UsedTokens : \A u \in UsedTokens : u <= t
NextWork == 1 + Cardinality({w \in Works : history[w].item # Nobody})

-----------------------------------------------------------------------------
(* The worker.                                                               *)

\* The Hub gives an item that nobody holds: open, or its claim's lease has passed.
PollClaim(i) ==
    /\ LockFree /\ session.auth
    /\ (row # Nobody => row.token \in lapsed)
    /\ inbox[i].state # "done"
    /\ (inbox[i].state = "claimed" => inbox[i].token \in lapsed)
    /\ NextToken <= MaxTokens
    /\ inbox' = [inbox EXCEPT ![i] = [state |-> "claimed", token |-> NextToken]]
    /\ worker' = [item |-> i, token |-> NextToken]
    /\ UNCHANGED <<lapsed, sent, row, consults, evidence, session, request, answering,
                   history, teamFaults>>

\* A renewed claim keeps the work and all that was frozen of it; the claim of another item
\* than the one at hand is not stored.
PollStore ==
    /\ worker # Nobody /\ worker' = Nobody
    /\ \/ /\ row = Nobody /\ NextWork <= MaxWorks
          /\ row' = [ work |-> NextWork, item |-> worker.item, token |-> worker.token,
                      state |-> "pending", pack |-> Nobody, route |-> "none",
                      response |-> Nobody ]
          /\ history' = [history EXCEPT ![NextWork].item = worker.item]
       \/ /\ row # Nobody
          /\ row' = IF row.item = worker.item THEN [row EXCEPT !.token = worker.token] ELSE row
          /\ UNCHANGED history
    /\ UNCHANGED <<inbox, lapsed, sent, consults, evidence, session, request, answering, teamFaults>>

LeaseLapses ==
    /\ \E t \in UsedTokens \ ({0} \cup lapsed) : lapsed' = lapsed \cup {t}
    /\ UNCHANGED <<inbox, sent, row, consults, evidence, session, worker, request, answering,
                   history, teamFaults>>

-----------------------------------------------------------------------------
(* _prepare_team_work, by any request.                                       *)

requestFrame == <<inbox, lapsed, sent, session, worker, answering, teamFaults>>

\* The requests of agents run on the event loop, one after the other, beside the threads of
\* the worker and of the human.
LoopFree == request = NoRequest /\ answering = Nobody

\* The request has found the work and the binding, with the target of that moment.  Only
\* one that replies holds the lock.
ReadWork(replies) ==
    /\ LoopFree /\ row # Nobody /\ session.auth
    /\ (replies => LockFree)
    /\ request' = [NoRequest EXCEPT !.at = "pack", !.replies = replies, !.work = row.work,
                                    !.target = session.target]
    /\ UNCHANGED <<requestFrame, row, consults, evidence, history>>

Stands(at) == request.at = at
Proceed(at) == request' = [request EXCEPT !.at = at]
Leave == request' = NoRequest

\* attach_context_pack: the first pack stays.
AttachPack ==
    /\ Stands("pack")
    /\ IF ~HasWork(request.work) THEN Leave /\ UNCHANGED row
       ELSE /\ Proceed("route")
            /\ \E pack \in AllPacks :
                  row' = IF row.pack = Nobody THEN [row EXCEPT !.pack = pack] ELSE row
    /\ UNCHANGED <<requestFrame, consults, evidence, history>>

\* Where a request that has the route goes: a reader has nothing more to do, unless
\* somebody is to be asked.
Routed(route) ==
    IF route = "local_lead" THEN Proceed("consult")
    ELSE IF request.replies THEN Proceed("freeze") ELSE Leave

\* attach_routing: the first route stays.
AttachRouting ==
    /\ Stands("route")
    /\ IF ~HasWork(request.work) THEN Leave /\ UNCHANGED row
       ELSE LET route == IF row.route = "none" THEN Route(Kind[row.item], row.pack) ELSE row.route
            IN  row' = [row EXCEPT !.route = route] /\ Routed(route)
    /\ UNCHANGED <<requestFrame, consults, evidence, history>>

Asked == {"pending", "claimed", "responded"}

\* _consult_live_source and _consult_live_target
BothLive(c) == session.auth /\ c.target \in session.live

Invalidated(c) == IF c.state \in Asked THEN [c EXCEPT !.state = "invalidated"] ELSE c

\* consult_for_binding, and what is made of the consult: an answer lets the reply go on,
\* an end of its source or target ends the consult, and when there is none the target that
\* the request knows of is asked, if it lives.
CheckConsult ==
    /\ Stands("consult")
    /\ LET w == request.work
           c == consults[w]
       IN  \/ /\ c.state = "none" /\ UNCHANGED consults
              /\ IF request.target \in session.live THEN Proceed("create") ELSE Leave
           \/ /\ c.state # "none"
              /\ consults' = IF BothLive(c) THEN consults ELSE [consults EXCEPT ![w] = Invalidated(c)]
              /\ IF request.replies /\ consults'[w].state = "responded" THEN Proceed("freeze")
                 ELSE Leave
    /\ UNCHANGED <<requestFrame, row, evidence, history>>

\* Mutant of CreateConsult: the work is not looked for.
CreateConsultAnyway ==
    /\ Stands("create")
    /\ LET w == request.work
       IN  IF consults[w].state # "none"
           THEN UNCHANGED consults /\ Leave
           ELSE /\ consults' = [consults EXCEPT ![w] =
                       [state |-> "pending", target |-> request.target, answer |-> Nobody]]
                /\ Proceed("consult")
    /\ UNCHANGED <<requestFrame, row, evidence, history>>

\* create_consult: one consult for a work that is still there.
CreateConsult ==
    /\ Stands("create")
    /\ LET w == request.work
       IN  IF ~HasWork(w) \/ consults[w].state # "none"
           THEN /\ UNCHANGED consults
                /\ IF HasWork(w) /\ consults[w].target = request.target
                   THEN Proceed("consult") ELSE Leave
           ELSE /\ consults' = [consults EXCEPT ![w] =
                       [state |-> "pending", target |-> request.target, answer |-> Nobody]]
                /\ Proceed("consult")
    /\ UNCHANGED <<requestFrame, row, evidence, history>>

-----------------------------------------------------------------------------
(* respond.                                                                  *)

\* The text that the chosen source allows.
Allowed(w, body) ==
    /\ row.route = "local_lead" => consults[w].state = "responded" /\ consults[w].answer = body
    /\ row.route = "context_pack" => row.pack = body

\* Mutant of FreezeReply: a text that was frozen before is replaced.
FreezeReplyAgain ==
    /\ Stands("freeze")
    /\ \E body \in Bodies :
          IF HasWork(request.work) /\ Allowed(request.work, body)
          THEN /\ row' = [row EXCEPT !.response = body, !.state = "responding"]
               /\ request' = [request EXCEPT !.at = "send", !.token = row.token,
                                              !.body = body]
          ELSE Leave /\ UNCHANGED row
    /\ UNCHANGED <<requestFrame, consults, evidence, history>>

\* The request's text is checked against its source and frozen, with the claim of that
\* moment.
FreezeReply ==
    /\ Stands("freeze")
    /\ \E body \in Bodies :
          IF HasWork(request.work) /\ Allowed(request.work, body)
             /\ row.response \in {Nobody, body}
          THEN /\ row' = [row EXCEPT !.response = body, !.state = "responding"]
               /\ request' = [request EXCEPT !.at = "send", !.token = row.token,
                                              !.body = body]
          ELSE Leave /\ UNCHANGED row
    /\ UNCHANGED <<requestFrame, consults, evidence, history>>

\* A claim the Hub honours.
Honoured ==
    LET i == inbox[row.item] IN i.state = "claimed" /\ i.token = request.token

\* direct_reply: the Hub keeps the first reply under the work's key; the answer may be lost.
SendReply ==
    /\ Stands("send")
    /\ LET w == request.work
           kept == sent[w] # Nobody
       IN  /\ history' = [history EXCEPT ![w].sent = @ \cup {request.body},
                                         ![w].route = row.route]
           /\ \/ /\ kept \/ Honoured
                 /\ sent' = IF kept THEN sent ELSE [sent EXCEPT ![w] = request.body]
                 /\ \/ Proceed("record") /\ UNCHANGED teamFaults
                    \/ Leave /\ TeamFault
              \/ UNCHANGED <<sent, teamFaults>> /\ Leave
    /\ UNCHANGED <<inbox, lapsed, session, worker, answering, row, consults, evidence>>

\* The evidence of a reply is written once.
RecordEvidence ==
    /\ Stands("record") /\ Proceed("complete")
    /\ LET w == request.work
       IN  evidence' = IF evidence[w] = "none" THEN [evidence EXCEPT ![w] = row.route] ELSE evidence
    /\ UNCHANGED <<requestFrame, row, consults, history>>

\* complete: a second one may be refused, or not.
CompleteItem ==
    /\ Stands("complete")
    /\ \/ /\ Honoured \/ inbox[row.item].state = "done"
          /\ inbox' = [inbox EXCEPT ![row.item].state = "done"]
          /\ \/ Proceed("delete") /\ UNCHANGED teamFaults
             \/ Leave /\ TeamFault
       \/ UNCHANGED <<inbox, teamFaults>> /\ Leave
    /\ UNCHANGED <<lapsed, sent, session, worker, answering, row, consults, evidence, history>>

\* The work and what was asked for it go in one write.
DeleteWork ==
    /\ Stands("delete") /\ Leave
    /\ row' = IF HasWork(request.work) THEN Nobody ELSE row
    /\ consults' = [consults EXCEPT ![request.work] = NoConsult]
    /\ UNCHANGED <<requestFrame, evidence, history>>

-----------------------------------------------------------------------------
(* The consult's target, the human, and time.                                *)

consultFrame == <<inbox, lapsed, sent, row, evidence, worker, request>>

\* next_consult_for_target
ClaimConsult(w) ==
    /\ consults[w].state = "pending"
    /\ consults' = [consults EXCEPT ![w].state = "claimed"]
    /\ UNCHANGED <<consultFrame, session, answering, history, teamFaults>>

\* Whoever looks at a consult whose source or target is gone ends it: the worker's tick
\* before it notifies, and the requests of the target.
EndConsult(w) ==
    /\ consults[w].state \in Asked /\ ~BothLive(consults[w])
    /\ consults' = [consults EXCEPT ![w] = Invalidated(@)]
    /\ UNCHANGED <<consultFrame, session, answering, history, teamFaults>>

\* _expire_consults, by any of the functions that run it
ExpireConsult(w) ==
    /\ consults[w].state \in {"pending", "claimed"}
    /\ consults' = [consults EXCEPT ![w].state = "expired"]
    /\ UNCHANGED <<consultFrame, session, answering, history, teamFaults>>

\* api_project_consult_respond looks whether the source and the target live ...
CheckAnswer(w, answer) ==
    /\ LoopFree
    /\ consults[w].state # "none" /\ BothLive(consults[w])
    /\ answering' = [work |-> w, target |-> consults[w].target, answer |-> answer]
    /\ UNCHANGED <<consultFrame, session, consults, history, teamFaults>>

\* ... and respond_consult then writes the answer, unless the request is gone, has ended
\* or was answered.
WriteAnswer ==
    /\ answering # Nobody /\ answering' = Nobody
    /\ LET w == answering.work
       IN  IF consults[w].state \in {"pending", "claimed"}
           THEN /\ consults' = [consults EXCEPT ![w].state = "responded",
                                                ![w].answer = answering.answer]
                /\ history' = [history EXCEPT ![w].given = @ \cup {answering.answer}]
           ELSE UNCHANGED <<consults, history>>
    /\ UNCHANGED <<consultFrame, session, teamFaults>>

\* api_team_session_consult_target: another target is chosen, or none; what the old one was
\* asked is void.
SelectTarget(t) ==
    /\ LockFree /\ t \in session.live \cup {Nobody} /\ t # session.target
    /\ session' = [session EXCEPT !.target = t]
    /\ consults' = [w \in Works |-> Invalidated(consults[w])]
    /\ UNCHANGED <<consultFrame, answering, history, teamFaults>>

\* The session of a target is stopped, or started anew under another generation.
TargetDies(t) ==
    /\ t \in session.live /\ session' = [session EXCEPT !.live = @ \ {t}]
    /\ UNCHANGED <<consultFrame, consults, answering, history, teamFaults>>

\* The human's sign-in expires, and is renewed.
SignInExpires ==
    /\ TeamFault /\ session.auth
    /\ session' = [session EXCEPT !.auth = FALSE]
    /\ UNCHANGED <<consultFrame, consults, answering, history>>

SignIn ==
    /\ LockFree /\ ~session.auth
    /\ session' = [session EXCEPT !.auth = TRUE]
    /\ UNCHANGED <<consultFrame, consults, answering, history, teamFaults>>

\* api_team_auth_logout and discard_bindings: what is local of the work is thrown away.
Logout ==
    /\ LockFree /\ TeamFault /\ session.auth
    /\ session' = [session EXCEPT !.auth = FALSE]
    /\ row' = Nobody
    /\ consults' = [w \in Works |-> NoConsult]
    /\ history' = [w \in Works |-> IF HasWork(w) THEN [history[w] EXCEPT !.discarded = TRUE]
                                   ELSE history[w]]
    /\ UNCHANGED <<inbox, lapsed, sent, evidence, worker, request, answering>>

\* The server dies in the middle of all that it does.
TeamCrash ==
    /\ TeamFault
    /\ worker' = Nobody /\ answering' = Nobody
    /\ request' = NoRequest
    /\ UNCHANGED <<inbox, lapsed, sent, row, consults, evidence, session, history>>

RequestStep ==
    \/ (\E replies \in BOOLEAN : ReadWork(replies)) \/ AttachPack \/ AttachRouting \/ CheckConsult \/ CreateConsult
    \/ FreezeReply \/ SendReply \/ RecordEvidence \/ CompleteItem \/ DeleteWork

TeamNext ==
    \/ \E i \in Items : PollClaim(i)
    \/ PollStore \/ LeaseLapses
    \/ RequestStep
    \/ \E w \in Works : ClaimConsult(w) \/ EndConsult(w) \/ ExpireConsult(w)
    \/ \E w \in Works, answer \in Answers : CheckAnswer(w, answer)
    \/ WriteAnswer
    \/ \E t \in Targets \cup {Nobody} : SelectTarget(t)
    \/ \E t \in Targets : TargetDies(t)
    \/ SignInExpires \/ SignIn \/ Logout \/ TeamCrash

TeamSpec == TeamInit /\ [][TeamNext]_teamVars

-----------------------------------------------------------------------------
TeamTypeOK ==
    /\ inbox \in [Items -> [state : {"open", "claimed", "done"}, token : Tokens]]
    /\ lapsed \subseteq Tokens /\ sent \in [Works -> Bodies \cup {Nobody}]
    /\ row = Nobody \/ row \in WorkRows
    /\ consults \in [Works ->
          [ state : Asked \cup {"none", "invalidated", "expired"},
            target : Targets \cup {Nobody}, answer : Answers \cup {Nobody} ]]
    /\ session \in [auth : BOOLEAN, target : Targets \cup {Nobody}, live : SUBSET Targets]
    /\ worker = Nobody \/ worker \in [item : Items, token : Tokens]
    /\ request.at \in {"idle", "pack", "route", "consult", "create", "freeze", "send", "record",
                      "complete", "delete"}
    /\ teamFaults \in 0..MaxTeamFaults

ItemOf(w) == history[w].item

\* An item is answered once: however its claim lapses and is renewed, calls fail and the
\* server dies, the work it became keeps its key, and under a key goes only one text.
AnsweredOnce ==
    /\ \A v, w \in Works : sent[v] # Nobody /\ sent[w] # Nobody /\ ItemOf(v) = ItemOf(w)
            => v = w \/ history[v].discarded \/ history[w].discarded
    /\ \A w \in Works : Cardinality(history[w].sent) <= 1

\* An item that is done was answered, and where its answer came from is recorded.
DoneIsAnswered ==
    \A i \in Items : inbox[i].state = "done" =>
        \E w \in Works : /\ ItemOf(w) = i /\ sent[w] # Nobody
                         /\ evidence[w] = history[w].route

\* An answer the Hub has for an item that is not done can be given again: its work is kept
\* with its text, until the human throws it away.
AnswerIsKept ==
    \A w \in Works : sent[w] # Nobody /\ ~history[w].discarded /\ inbox[ItemOf(w)].state # "done"
        => HasWork(w) /\ row.state = "responding" /\ row.response = sent[w]

\* The reply to a question for a local agent is what that agent answered, and to a question
\* for the pack what the pack says; no other text gets out, whichever request comes when.
ReplyIsTrue ==
    \A w \in Works : sent[w] # Nobody =>
        /\ history[w].route = "local_lead" => sent[w] \in history[w].given
        /\ history[w].route = "context_pack" => sent[w] \in Packs
        /\ history[w].route = "team_agent" => Kind[ItemOf(w)] = "social"

\* A local agent is never left with a question whose work is gone.
AskedForWork == \A w \in Works : consults[w].state # "none" => HasWork(w)

RepliesSafe == TeamTypeOK /\ AnsweredOnce /\ DoneIsAnswered /\ AnswerIsKept
ConsultsSafe == ReplyIsTrue /\ AskedForWork
================================================================================
