------------------------------- MODULE ChatScenes -------------------------------
(***************************************************************************)
(* ChatQueue for TLC: the scenes in which it is explored.  Two messages    *)
(* for one pane ("queue"), a message for two panes ("members"), the        *)
(* replies of a pane beside a message ("answers") and across failures      *)
(* ("replies").                                                            *)
(***************************************************************************)
EXTENDS ChatQueue

CONSTANT MaxShort           \* bound: turns of a pane beside messages

OneBody == CHOOSE b \in Sayings : TRUE

VARIABLE scene

Chat == {"queue", "members", "answers", "replies"}

\* A pane that takes no part is in a state Herdr does not know, and stays in it.
Cast == IF scene = "members" THEN Panes ELSE IF scene \in Chat THEN {1} ELSE {}
Letters == CASE scene = "queue" -> Mails [] scene \in {"members", "answers"} -> {1} [] OTHER -> {}

\* Without conclusions on the screens one turn of a pane is enough, and one refused prompt;
\* with a failure beside it there is no second message.  In "members" the first pane is never busy.
ChatBound ==
    /\ \A p \in Panes \ Cast : agents'[p] = agents[p]
    /\ \A p \in Cast : agents'[p].status # "unknown"
    /\ \A m \in Mails : /\ mails'[m].to \subseteq Cast
                        /\ (m \notin Letters => mails'[m].to = {})
                        /\ (mails'[m].urgent => scene = "answers")
    /\ (scene \in {"queue", "members"} =>
            /\ boardSaw' = {}
            /\ \A p \in Cast : agents'[p].screen = NoText /\ agents'[p].turn <= 1
            /\ Cardinality(refused') <= 1
            /\ (refused' # {} /\ chatFaults' # 0 => \A m \in Mails \ {1} : mails'[m].to = {}))
    /\ (scene = "members" => agents'[1].turn = 0)
    /\ (scene = "answers" =>
            /\ agents'[1].turn <= MaxShort
            /\ (agents'[1].screen # NoText => agents'[1].screen.body = OneBody))
    /\ (scene \notin {"queue", "replies"} => chatFaults' = 0)

ChatScene == scene \in Chat /\ ChatNext /\ ChatBound
=================================================================================
