------------------------------ MODULE MCMessaging ------------------------------
(***************************************************************************)
(* The wiring of the leader's mail under faults, the work of a Team        *)
(* session, and the chat of a session, in one run: each behaviour is of    *)
(* one of them, while the variables of the others stay as they are.        *)
(***************************************************************************)
EXTENDS B0Coordinator, TeamWork, ChatScenes, TLC

CONSTANTS question, greeting        \* two items of the inbox

\* A question that the pack may be good enough to answer, and one any text answers.
KindOfItems == question :> "snapshot" @@ greeting :> "social"

SceneInit ==
    /\ scene \in {"mail", "team"} \cup Chat
    /\ Init /\ TeamInit /\ ChatInitWith(Cast)

\* The bounds of the team's scene: one of the items becomes work, a target that was chosen
\* does not die before another is chosen, and a consult is answered once at a time.
TeamBound ==
    /\ Cardinality({history'[w].item : w \in Works} \ {Nobody}) <= 1
    /\ (answering' # Nobody => consults'[answering'.work].answer = Nobody)
    /\ (session'.live # Targets => session'.target \in session'.live \cup {Nobody})

\* Two mishaps of the mail: failed marks, prompts that time out, crashes.
MailBound == faults' + restarts' <= 2

SceneNext ==
    /\ UNCHANGED scene
    /\ \/ scene = "mail" /\ Next /\ MailBound /\ UNCHANGED <<teamVars, chatVars>>
       \/ scene = "team" /\ TeamNext /\ TeamBound /\ UNCHANGED <<vars, chatVars>>
       \/ ChatScene /\ UNCHANGED <<vars, teamVars>>

Scenes == SceneInit /\ [][SceneNext]_<<scene, vars, teamVars, chatVars>>

Symmetry == Permutations(Msgs) \cup Permutations(Targets)
================================================================================
