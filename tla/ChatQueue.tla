------------------------------- MODULE ChatQueue -------------------------------
(***************************************************************************)
(* Messages of the human to the agents of a session, and the replies taken *)
(* from their panes (agent_cockpit/server.py, chat_ledger.py).             *)
(*                                                                         *)
(* A request writes the message to the ledger, prompts the panes that are  *)
(* free and marks whom it prompted.  One poller looks at the panes in      *)
(* turn: it notes when a turn begins, stores the reply when the pane has   *)
(* settled, and at the end of the tick gives a waiting message to each     *)
(* free pane.  Whether Herdr took a prompt is in the answer of pane_send,  *)
(* which neither of them looks at.  Requests run in threads beside the     *)
(* poller.  The ledger and the file of the poller's notes survive the      *)
(* process.                                                                *)
(*                                                                         *)
(* Each agent has one pane and is named by it.  What a terminal shows is a *)
(* conclusion, cut or full, of the turn it was written in; the code cannot *)
(* see the turn.  Herdr, agents and time are external.  Panes do not come  *)
(* and go, and the ledger's window of rows is not exceeded.                *)
(***************************************************************************)
EXTENDS Naturals, Sequences, FiniteSets, FiniteSetsExt, Functions

CONSTANTS
    Panes,              \* agents' panes, numbered in the order of a snapshot
    Mails,              \* messages of the human, numbered in the order of the ledger
    Sayings,             \* what a conclusion may say
    NoText,             \* the screen shows no conclusion; a pane whose digest is not known
    NoTurn,             \* no turn of the pane is open
    NoPane,
    MaxTurns,           \* bound: turns of a pane
    MaxChatFaults       \* bound: failed writes and crashes

ASSUME ChatAssumption ==
    /\ Panes \subseteq Nat /\ IsFiniteSet(Panes)
    /\ Mails \subseteq Nat /\ IsFiniteSet(Mails)
    /\ NoPane \notin Panes /\ NoTurn \notin Nat
    /\ NoText \notin [body : Sayings, full : BOOLEAN]
    /\ MaxTurns \in Nat /\ MaxChatFaults \in Nat

Texts == [turn : 1..MaxTurns, body : Sayings, full : BOOLEAN]
Shown(text) == [body |-> text.body, full |-> text.full]     \* all the code can compare
SameCopy(a, b) == a.body = b.body                           \* _same_harvest_copy

\* _PANE_IDLE_SINCE: not set; just now; 2 s ago (_QUEUE_IDLE_SETTLE_S); 3 s ago
\* (_HARVEST_SETTLE_S); 90 s ago (_HARVEST_GIVE_UP_S).
Ages == {"none", "new", "ready", "settled", "long"}
Older == [new |-> "ready", ready |-> "settled", settled |-> "long"]

VARIABLES
    agents,         \* external: status, screen, turn, and whether the revision moved since
                    \* the server compared it
    mails,          \* ledger: the messages of the human
    replies,        \* ledger: per pane the replies stored, with the turn they were stored for
    notes,          \* _PANE_TURN_STARTED, _PANE_LAST_HARVEST, _PANE_LAST_MESSAGE
    age,            \* _PANE_IDLE_SINCE
    saved,          \* notes, as in chat-harvest.json
    posts,          \* requests: prompts to make, prompts made
    tick,           \* the poller's progress
    boardSaw,       \* panes that a request for the board saw busy
    told,           \* history: prompts per message and pane (saturating)
    refused,        \* history: prompts that Herdr did not take, per message and pane
    excused,        \* history: prompts whose mark was lost, or was not there to be seen
    lost,           \* history: panes whose notes lag behind the ledger since a crash
    chatFaults

ledger == <<mails, replies>>
chatHistory == <<told, refused, excused, lost, chatFaults>>
chatVars == <<agents, ledger, notes, age, saved, posts, tick, boardSaw, chatHistory>>

NoNotes == [started |-> NoTurn, digest |-> NoText, pointer |-> 0]
NotPosted == [to |-> {}, urgent |-> FALSE, notified |-> {}, read |-> {}]
NoPost == [active |-> FALSE, todo |-> {}, done |-> {}, free |-> {}]
AtRest == [stage |-> "rest", snap |-> [p \in Panes |-> "unknown"], todo |-> {}, pane |-> NoPane,
           turn |-> FALSE, rows |-> [m \in Mails |-> {}], open |-> {}, tried |-> {}, mail |-> 0]

\* The panes of S are idle; of the others Herdr does not know the state.
ChatInitWith(S) ==
    /\ agents = [p \in Panes |-> [status |-> IF p \in S THEN "idle" ELSE "unknown",
                                  screen |-> NoText, turn |-> 0, moved |-> FALSE]]
    /\ mails = [m \in Mails |-> NotPosted]
    /\ replies = [p \in Panes |-> <<>>]
    /\ notes = [p \in Panes |-> NoNotes] /\ saved = notes
    /\ age = [p \in Panes |-> "none"]
    /\ posts = [m \in Mails |-> NoPost]
    /\ tick = AtRest
    /\ boardSaw = {}
    /\ told = [m \in Mails |-> [p \in Panes |-> 0]]
    /\ refused = {} /\ excused = {} /\ lost = {} /\ chatFaults = 0

ChatInit == \E S \in SUBSET Panes : ChatInitWith(S)

\* Panes are gone through in their order.
NextOf(p, todo) == p \in todo /\ \A q \in todo : p <= q

Posted(m) == mails[m].to # {}
ChatFault == chatFaults < MaxChatFaults /\ chatFaults' = chatFaults + 1

\* Notes of a pane are written to memory and to the file (_save_harvest_status).
Note(p, n) == notes' = [notes EXCEPT ![p] = n] /\ saved' = notes'
TurnClosed(p) == [notes[p] EXCEPT !.started = NoTurn]

\* mark_messages_read: what p was notified of counts as read.
Read(p) ==
    [m \in Mails |-> IF p \in mails[m].to \cap mails[m].notified
                     THEN [mails[m] EXCEPT !.read = @ \cup {p}] ELSE mails[m]]

\* _pane_queue_ready, for a pane that is not busy: a terminal that moved since the last
\* look counts as idle from now on.
QueueReady(p) == age[p] \notin {"new"} /\ ~agents[p].moved
Looked(p) ==
    /\ agents' = [agents EXCEPT ![p].moved = FALSE]
    /\ age' = [age EXCEPT ![p] = IF agents[p].moved THEN "new" ELSE @]

\* pane_send.  When Herdr refuses the prompt, is too slow, or is not there, it answers with
\* an error.
Prompt(m, p) == told' = [told EXCEPT ![m][p] = IF @ < 2 THEN @ + 1 ELSE @]
Refuse(m, p) == refused' = refused \cup {<<m, p>>}
-----------------------------------------------------------------------------
(* api_chat_session_mail, in the thread of the request.                     *)

\* The message is in the ledger; a snapshot of the panes is taken.  Without one, or when
\* the mail cannot be forwarded, nobody is prompted by the request.
Post(m, to, urgent) ==
    /\ ~Posted(m) /\ \A k \in Mails : k < m => Posted(k)
    /\ mails' = [mails EXCEPT ![m] = [NotPosted EXCEPT !.to = to, !.urgent = urgent]]
    /\ \E todo \in {to, {}} :
           posts' = [posts EXCEPT ![m] =
               [active |-> TRUE, todo |-> todo, done |-> {},
                free |-> {p \in to : agents[p].status # "working"}]]
    /\ UNCHANGED <<agents, replies, notes, age, saved, tick, boardSaw, chatHistory>>

MayPrompt(m, p) == mails[m].urgent \/ (p \in posts[m].free /\ QueueReady(p))

\* One pane of _notify_chat_recipients: it counts as notified, whatever pane_send answers.
PostPrompts(m, p) ==
    /\ NextOf(p, posts[m].todo) /\ MayPrompt(m, p)
    /\ posts' = [posts EXCEPT ![m].todo = @ \ {p}, ![m].done = @ \cup {p}]
    /\ \/ /\ Prompt(m, p) /\ UNCHANGED refused
          /\ excused' = IF told[m][p] > 0 THEN excused \cup {<<m, p>>} ELSE excused
       \/ Refuse(m, p) /\ UNCHANGED <<told, excused>>
    /\ UNCHANGED <<agents, ledger, notes, age, saved, tick, boardSaw, lost, chatFaults>>

\* pane_send raises (the system is out of processes; what Herdr prints cannot be decoded):
\* prompted or not, the pane is left to the poller.
PostRaises(m, p) ==
    /\ NextOf(p, posts[m].todo) /\ MayPrompt(m, p) /\ ChatFault
    /\ posts' = [posts EXCEPT ![m].todo = @ \ {p}]
    /\ \/ Prompt(m, p) /\ excused' = excused \cup {<<m, p>>}
       \/ UNCHANGED <<told, excused>>
    /\ UNCHANGED <<agents, ledger, notes, age, saved, tick, boardSaw, refused, lost>>

\* A pane that is busy, or not ready, is left to the poller.
PostSkips(m, p) ==
    /\ NextOf(p, posts[m].todo) /\ ~MayPrompt(m, p)
    /\ IF p \in posts[m].free THEN Looked(p) ELSE UNCHANGED <<agents, age>>
    /\ posts' = [posts EXCEPT ![m].todo = @ \ {p}]
    /\ UNCHANGED <<ledger, notes, saved, tick, boardSaw, chatHistory>>

\* mark_message_notified, and the message becomes the pane's last (it is not a reply:
\* pointer 0).  The mark may fail: then both are left out.
PostMarks(m) ==
    /\ posts[m].active /\ posts[m].todo = {}
    /\ posts' = [posts EXCEPT ![m] = NoPost]
    /\ \/ /\ mails' = [mails EXCEPT ![m].notified = @ \cup posts[m].done]
          /\ notes' = [p \in Panes |-> IF p \in posts[m].done
                                       THEN [notes[p] EXCEPT !.pointer = 0] ELSE notes[p]]
          /\ saved' = notes'
          /\ UNCHANGED <<excused, chatFaults>>
       \/ /\ posts[m].done # {} /\ ChatFault
          /\ excused' = excused \cup {<<m, p>> : p \in posts[m].done}
          /\ UNCHANGED <<mails, notes, saved>>
    /\ UNCHANGED <<agents, replies, age, tick, boardSaw, told, refused, lost>>

-----------------------------------------------------------------------------
(* _harvest_settled_replies, pane by pane, in the poller's thread.          *)

\* _board_snapshot.
Look ==
    /\ tick.stage = "rest"
    /\ tick' = [tick EXCEPT !.stage = "panes", !.todo = Panes,
                            !.snap = [p \in Panes |-> agents[p].status]]
    /\ UNCHANGED <<agents, ledger, notes, age, saved, posts, boardSaw, chatHistory>>

AgeSeen(p) ==
    IF tick.snap[p] # "idle" THEN "none" ELSE IF age[p] = "none" THEN "new" ELSE age[p]

\* A busy pane has a turn open, and has read its messages.  An idle one is read when it
\* has settled, unless no turn is open and a reply is known.
Observe(p) ==
    /\ tick.stage = "panes" /\ NextOf(p, tick.todo)
    /\ LET busy == tick.snap[p] = "working"
           open == notes[p].started = NoTurn /\ busy
       IN  /\ Note(p, IF open THEN [notes[p] EXCEPT !.started = Len(replies[p])] ELSE notes[p])
           /\ mails' = IF busy THEN Read(p) ELSE mails
    /\ age' = [age EXCEPT ![p] = AgeSeen(p)]
    /\ LET due == /\ tick.snap[p] = "idle" /\ AgeSeen(p) \in {"settled", "long"}
                  /\ (notes[p].started # NoTurn \/ notes[p].digest = NoText)
       IN  tick' = [tick EXCEPT !.todo = @ \ {p}, !.stage = IF due THEN "read" ELSE "panes",
                                !.pane = IF due THEN p ELSE NoPane]
    /\ UNCHANGED <<agents, replies, posts, boardSaw, chatHistory>>

\* The pane that is read, what it shows, and the row the code takes for the same reply:
\* the pane's last message if it is a reply, else the last one that is the same copy; in
\* an open turn only if it was stored after the turn began.
Doing(stage, p) == tick.stage = stage /\ tick.pane = p
Screen(p) == agents[p].screen
Candidate(p) ==
    IF notes[p].pointer # 0 THEN notes[p].pointer
    ELSE Max({0} \cup {i \in DOMAIN replies[p] : SameCopy(replies[p][i].text, Screen(p))})
Copy(p) ==
    {i \in DOMAIN replies[p] :
        /\ i = Candidate(p) /\ SameCopy(replies[p][i].text, Screen(p))
        /\ (notes[p].started # NoTurn => i > notes[p].started)}

NextPane == [tick EXCEPT !.stage = "panes", !.pane = NoPane]
ReadIf(p, open) == mails' = IF open THEN Read(p) ELSE mails

\* Mutant of HarvestNothing: a turn is read again and again.
HarvestNothingYet(p) ==
    /\ Doing("read", p) /\ Screen(p) = NoText
    /\ tick' = NextPane
    /\ UNCHANGED <<agents, ledger, notes, saved, age, posts, boardSaw, chatHistory>>

\* Nothing to be read yet: given up after a while.
HarvestNothing(p) ==
    /\ Doing("read", p) /\ Screen(p) = NoText
    /\ Note(p, IF age[p] = "long" THEN TurnClosed(p) ELSE notes[p])
    /\ tick' = NextPane
    /\ UNCHANGED <<agents, ledger, age, posts, boardSaw, chatHistory>>

\* The reply that was stored last is still on the screen: the turn is closed.
HarvestSame(p) ==
    /\ Doing("read", p) /\ Screen(p) # NoText /\ Shown(Screen(p)) = notes[p].digest
    /\ Note(p, TurnClosed(p))
    /\ tick' = NextPane
    /\ UNCHANGED <<agents, ledger, age, posts, boardSaw, chatHistory>>

Unseen(p) == Screen(p) # NoText /\ Shown(Screen(p)) # notes[p].digest

\* A row stored in this turn is completed, or found complete.
HarvestMerges(p) ==
    /\ Doing("read", p) /\ Unseen(p) /\ Copy(p) # {}
    /\ \E i \in Copy(p) :
        /\ replies' = [replies EXCEPT ![p][i].text = Screen(p)]
        /\ LET changed == Shown(replies[p][i].text) # Shown(Screen(p))
           IN  Note(p, [TurnClosed(p) EXCEPT !.digest = Shown(Screen(p)),
                                             !.pointer = IF changed THEN i ELSE @])
    /\ ReadIf(p, notes[p].started # NoTurn)
    /\ tick' = NextPane
    /\ UNCHANGED <<agents, age, posts, boardSaw, chatHistory>>

\* A new reply is appended; the turn is closed in memory first.
HarvestAppends(p) ==
    /\ Doing("read", p) /\ Unseen(p) /\ Copy(p) = {}
    /\ notes' = [notes EXCEPT ![p] = TurnClosed(p)]
    /\ replies' = [replies EXCEPT ![p] = Append(@, [text |-> Screen(p), turn |-> Screen(p).turn])]
    /\ tick' = [tick EXCEPT !.stage = "stored", !.turn = notes[p].started # NoTurn]
    /\ UNCHANGED <<agents, mails, age, saved, posts, boardSaw, chatHistory>>

\* The append fails: the turn stays open for the next tick, or (an error of the database,
\* which ends the tick) is closed without its reply.
HarvestFails(p) ==
    /\ Doing("read", p) /\ Unseen(p) /\ Copy(p) = {} /\ ChatFault
    /\ \/ tick' = NextPane /\ UNCHANGED notes
       \/ tick' = AtRest /\ notes' = [notes EXCEPT ![p] = TurnClosed(p)]
    /\ UNCHANGED <<agents, ledger, age, saved, posts, boardSaw, told, refused, excused, lost>>

\* After the append: digest, last message, read marks, and the file.
HarvestStored(p) ==
    /\ Doing("stored", p)
    /\ LET last == Len(replies[p])
       IN  Note(p, [notes[p] EXCEPT !.digest = Shown(replies[p][last].text), !.pointer = last])
    /\ ReadIf(p, tick.turn)
    /\ tick' = [NextPane EXCEPT !.turn = FALSE]
    /\ UNCHANGED <<agents, replies, age, posts, boardSaw, chatHistory>>

-----------------------------------------------------------------------------
(* _flush_queued_chat_mail, at the end of the tick.                         *)

\* The queued messages with the panes not notified yet, as the ledger has them now.
Waiting(m) == IF mails[m].urgent THEN {} ELSE mails[m].to \ mails[m].notified

List ==
    /\ tick.stage = "panes" /\ tick.todo = {}
    /\ tick' = IF \A m \in Mails : Waiting(m) = {} THEN AtRest
               ELSE [tick EXCEPT !.stage = "flush", !.todo = Panes,
                                 !.rows = [m \in Mails |-> Waiting(m)],
                                 !.open = {m \in Mails : posts[m].active}]
    /\ UNCHANGED <<agents, ledger, notes, age, saved, posts, boardSaw, chatHistory>>

\* A pane that was busy in the tick's snapshot, or is not ready, gets nothing.
FlushSkips(p) ==
    /\ Doing("flush", NoPane) /\ NextOf(p, tick.todo)
    /\ tick.snap[p] = "working" \/ ~QueueReady(p)
    /\ IF tick.snap[p] = "working" THEN UNCHANGED <<agents, age>> ELSE Looked(p)
    /\ tick' = [tick EXCEPT !.todo = @ \ {p}]
    /\ UNCHANGED <<ledger, notes, saved, posts, boardSaw, chatHistory>>

FlushTakes(p) ==
    /\ Doing("flush", NoPane) /\ NextOf(p, tick.todo)
    /\ tick.snap[p] # "working" /\ QueueReady(p)
    /\ tick' = [tick EXCEPT !.todo = @ \ {p}, !.pane = p, !.tried = {}]
    /\ UNCHANGED <<agents, ledger, notes, age, saved, posts, boardSaw, chatHistory>>

Due(p) == {m \in Mails : p \in tick.rows[m]} \ tick.tried
First(p) == Min(Due(p))

\* The first waiting message is prompted to the pane, and marked whatever pane_send answers.
FlushPrompts(p) ==
    /\ Doing("flush", p) /\ Due(p) # {}
    /\ \/ /\ Prompt(First(p), p) /\ UNCHANGED refused
          /\ excused' = IF First(p) \in tick.open THEN excused \cup {<<First(p), p>>} ELSE excused
       \/ Refuse(First(p), p) /\ UNCHANGED <<told, excused>>
    /\ tick' = [tick EXCEPT !.stage = "mark", !.mail = First(p)]
    /\ UNCHANGED <<agents, ledger, notes, age, saved, posts, boardSaw, lost, chatFaults>>

\* pane_send raises, before or after the prompt: the next message is tried.
FlushRaises(p) ==
    /\ Doing("flush", p) /\ Due(p) # {} /\ ChatFault
    /\ \/ Prompt(First(p), p) /\ excused' = excused \cup {<<First(p), p>>}
       \/ UNCHANGED <<told, excused>>
    /\ tick' = [tick EXCEPT !.tried = @ \cup {First(p)}]
    /\ UNCHANGED <<agents, ledger, notes, age, saved, posts, boardSaw, refused, lost>>

FlushLeaves(p) ==
    /\ Doing("flush", p) /\ Due(p) = {}
    /\ tick' = [tick EXCEPT !.pane = NoPane]
    /\ UNCHANGED <<agents, ledger, notes, age, saved, posts, boardSaw, chatHistory>>

\* Mutant of FlushMarks: the prompt is remembered for this tick only.
FlushMarksNothing(p) ==
    /\ Doing("mark", p)
    /\ UNCHANGED mails
    /\ Note(p, [notes[p] EXCEPT !.pointer = 0])
    /\ tick' = [tick EXCEPT !.stage = "flush", !.pane = NoPane, !.mail = 0,
                            !.rows[tick.mail] = @ \ {p}]
    /\ UNCHANGED <<agents, replies, age, posts, boardSaw, chatHistory>>

\* The mark: with it the pane is done for this tick.
FlushMarks(p) ==
    /\ Doing("mark", p)
    /\ mails' = [mails EXCEPT ![tick.mail].notified = @ \cup {p}]
    /\ Note(p, [notes[p] EXCEPT !.pointer = 0])
    /\ tick' = [tick EXCEPT !.stage = "flush", !.pane = NoPane, !.mail = 0,
                            !.rows[tick.mail] = @ \ {p}]
    /\ UNCHANGED <<agents, replies, age, posts, boardSaw, chatHistory>>

\* The ledger refuses the mark and the pane gets the next message too; or the database
\* fails and the tick ends.
FlushMarkFails(p) ==
    /\ Doing("mark", p) /\ ChatFault
    /\ excused' = excused \cup {<<tick.mail, p>>}
    /\ tick' \in {AtRest, [tick EXCEPT !.stage = "flush", !.tried = @ \cup {tick.mail}, !.mail = 0]}
    /\ UNCHANGED <<agents, ledger, notes, age, saved, posts, boardSaw, told, refused, lost>>

FlushEnds ==
    /\ Doing("flush", NoPane) /\ tick.todo = {}
    /\ tick' = AtRest
    /\ UNCHANGED <<agents, ledger, notes, age, saved, posts, boardSaw, chatHistory>>

-----------------------------------------------------------------------------
(* A request for the board (_attach_chat_turn_state), and the process.      *)

BoardLooks(p) ==
    /\ agents[p].status = "working" /\ p \notin boardSaw
    /\ boardSaw' = boardSaw \cup {p}
    /\ UNCHANGED <<agents, ledger, notes, age, saved, posts, tick, chatHistory>>

\* A pane that was busy when the request took its snapshot has a turn open.
BoardOpens(p) ==
    /\ p \in boardSaw
    /\ boardSaw' = boardSaw \ {p}
    /\ IF notes[p].started = NoTurn
       THEN Note(p, [notes[p] EXCEPT !.started = Len(replies[p])])
       ELSE UNCHANGED <<notes, saved>>
    /\ UNCHANGED <<agents, ledger, age, posts, tick, chatHistory>>

\* The pane was prompted with the message, and its mark is not written yet.
Unmarked(m, p) == p \in posts[m].done \/ (Doing("mark", p) /\ tick.mail = m)

\* The process dies and starts again, with the notes of the file.
ChatRestart ==
    /\ ChatFault
    /\ notes' = saved /\ age' = [p \in Panes |-> "none"]
    /\ posts' = [m \in Mails |-> NoPost] /\ tick' = AtRest /\ boardSaw' = {}
    /\ excused' = excused \cup {x \in Mails \X Panes : Unmarked(x[1], x[2])}
    /\ lost' = lost \cup {p \in Panes : Doing("stored", p)}
    /\ agents' = [p \in Panes |-> [agents[p] EXCEPT !.moved = FALSE]]
    /\ UNCHANGED <<ledger, saved, told, refused>>

-----------------------------------------------------------------------------
(* Agents, their terminals, and time.                                       *)

AgentBecomes(p, a) ==
    /\ agents' = [agents EXCEPT ![p] = a]
    /\ UNCHANGED <<ledger, notes, age, saved, posts, tick, boardSaw, chatHistory>>

\* A turn begins, prompted or typed into the terminal; the old conclusion may stay in
\* sight.
AgentStarts(p) ==
    /\ agents[p].status # "working" /\ agents[p].turn < MaxTurns
    /\ \E screen \in {Screen(p), NoText} :
           AgentBecomes(p, [status |-> "working", screen |-> screen,
                            turn |-> agents[p].turn + 1, moved |-> TRUE])

\* The turn ends, with its conclusion on the screen or (so far) without.
AgentStops(p) ==
    /\ agents[p].status = "working"
    /\ \E screen \in {Screen(p), NoText} \cup {t \in Texts : t.turn = agents[p].turn} :
           AgentBecomes(p, [agents[p] EXCEPT !.status = "idle", !.screen = screen, !.moved = TRUE])

\* The rest of the conclusion is painted.
ScreenSettles(p) ==
    /\ agents[p].status = "idle" /\ Screen(p) # NoText /\ ~Screen(p).full
    /\ AgentBecomes(p, [agents[p] EXCEPT !.screen.full = TRUE, !.moved = TRUE])

\* Herdr does not know the agent's state for a while.
AgentUnclear(p) ==
    /\ agents[p].status # "working"
    /\ AgentBecomes(p, [agents[p] EXCEPT !.status = IF @ = "idle" THEN "unknown" ELSE "idle"])

TimePasses(p) ==
    /\ age[p] \in DOMAIN Older
    /\ age' = [age EXCEPT ![p] = Older[@]]
    /\ UNCHANGED <<agents, ledger, notes, saved, posts, tick, boardSaw, chatHistory>>

Harvest(p) ==
    \/ HarvestNothing(p) \/ HarvestSame(p) \/ HarvestMerges(p) \/ HarvestAppends(p)
    \/ HarvestFails(p) \/ HarvestStored(p)

FlushStep(p) == FlushSkips(p) \/ FlushTakes(p) \/ FlushLeaves(p) \/ FlushMarks(p) \/ FlushMarkFails(p)

TickStep ==
    \/ Look \/ List \/ FlushEnds
    \/ \E p \in Panes : Observe(p) \/ Harvest(p) \/ FlushStep(p) \/ FlushPrompts(p) \/ FlushRaises(p)

PostStep(m) == PostMarks(m) \/ \E p \in Panes : PostPrompts(m, p) \/ PostRaises(m, p) \/ PostSkips(m, p)

ChatNext ==
    \/ TickStep
    \/ \E m \in Mails :
        \/ PostStep(m)
        \/ \E to \in (SUBSET Panes) \ {{}}, urgent \in BOOLEAN : Post(m, to, urgent)
    \/ \E p \in Panes :
        \/ BoardLooks(p) \/ BoardOpens(p) \/ TimePasses(p)
        \/ AgentStarts(p) \/ AgentStops(p) \/ ScreenSettles(p) \/ AgentUnclear(p)
    \/ ChatRestart

ChatSpec == ChatInit /\ [][ChatNext]_chatVars

\* The poller ticks for ever, requests run on, and time passes.  Herdr need not take a prompt.
ChatFairness ==
    /\ WF_chatVars(TickStep)
    /\ \A m \in Mails : WF_chatVars(PostStep(m))
    /\ \A p \in Panes : WF_chatVars(BoardOpens(p)) /\ WF_chatVars(TimePasses(p))

-----------------------------------------------------------------------------
ChatTypeOK ==
    /\ \A p \in Panes :
        /\ agents[p].status \in {"idle", "working", "unknown"}
        /\ agents[p].screen \in Texts \cup {NoText}
        /\ notes[p].started \in 0..Len(replies[p]) \cup {NoTurn}
        /\ notes[p].pointer \in 0..Len(replies[p])
        /\ age[p] \in Ages
    /\ tick.stage \in {"rest", "panes", "read", "stored", "flush", "mark"}
    /\ tick.pane \in Panes \cup {NoPane} /\ tick.todo \subseteq Panes
    /\ told \in [Mails -> [Panes -> 0..2]]

\* What the ledger says of a message is what the server did with it: read by agents that were
\* notified, notified agents that it prompted, or whose prompt Herdr refused.  No order of
\* requests, ticks, crashes and failed writes marks a message that was not put to the pane.
MarksFollowPrompts ==
    \A m \in Mails :
        /\ mails[m].read \subseteq mails[m].notified
        /\ \A p \in mails[m].notified : told[m][p] > 0 \/ <<m, p>> \in refused

\* "Give it the queued messages that have not woken it yet": who counts as notified was
\* prompted.
NotifiedWasPrompted == \A m \in Mails : \A p \in mails[m].notified : told[m][p] > 0

\* "So that it is not pushed again once idle": the poller prompts a pane again with a
\* message only where the mark of the first prompt failed or was not there yet.
PromptedAgain == \A m \in Mails, p \in Panes : told[m][p] > 1 => <<m, p>> \in excused

\* A turn's reply is stored once: twice only when first cut and then whole, or after a
\* crash between the ledger and the notes.
StoredOnce ==
    \A p \in Panes \ lost : \A i, j \in DOMAIN replies[p] :
        i < j /\ replies[p][i].text.turn = replies[p][j].text.turn
            => ~replies[p][i].text.full /\ replies[p][j].text.full

\* A row is never given the text of a later turn.
RowsKeepTheirTurn ==
    \A p \in Panes \ lost : \A i \in DOMAIN replies[p] :
        replies[p][i].text.turn = replies[p][i].turn

ChatSafe ==
    ChatTypeOK /\ MarksFollowPrompts /\ PromptedAgain /\ StoredOnce /\ RowsKeepTheirTurn

\* When a pane stays idle and untouched, in the end each message was put to it, once or in
\* vain, and none waits; and no turn of it is open: each was stored, or given up.
Quiet(p) == agents[p].status = "idle" /\ ~agents[p].moved
PutTo(m, p) ==
    p \in mails[m].to /\ ~mails[m].urgent =>
        p \notin Waiting(m) /\ (told[m][p] > 0 \/ <<m, p>> \in refused)
AllSettled(p) == notes[p].started = NoTurn /\ \A m \in Mails : PutTo(m, p)
ChatSettles == \A p \in Panes : <>[]Quiet(p) => <>[]AllSettled(p)
=============================================================================
