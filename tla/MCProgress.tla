------------------------------- MODULE MCProgress -------------------------------
(***************************************************************************)
(* What has to happen in the end, in one run: the deferred delivery to the *)
(* leader ("leader"), the chat of a session with one pane, and an upgrade  *)
(* that is run again until it is over ("upgrade").  Each behaviour is of   *)
(* one of them, the scene, while the variables of the others stay as they  *)
(* are.                                                                    *)
(***************************************************************************)
EXTENDS DeliveryRefinement, ChatScenes, Maintenance

ProgressInit ==
    /\ scene \in {"leader", "queue", "answers", "replies", "upgrade"}
    /\ Init
    /\ ChatInitWith(Cast)
    /\ MaintenanceInit

ProgressNext ==
    /\ UNCHANGED scene
    /\ \/ scene = "leader" /\ Next /\ UNCHANGED <<chatVars, maintenanceVars>>
       \/ /\ ChatScene /\ (scene = "answers" => refused' = {})
          /\ UNCHANGED <<vars, maintenanceVars>>
       \/ scene = "upgrade" /\ MaintenanceNext /\ UNCHANGED <<vars, chatVars>>

\* The fairness of each part, in its scene.
ProgressFairness ==
    /\ Fairness
    /\ WF_chatVars(scene \in Chat /\ TickStep)
    /\ \A m \in Mails : WF_chatVars(PostStep(m))
    /\ \A p \in Panes : WF_chatVars(BoardOpens(p)) /\ WF_chatVars(TimePasses(p))
    /\ WF_maintenanceVars(scene = "upgrade" /\ Controller)
    /\ \A r \in Requests : WF_maintenanceVars(scene = "upgrade" /\ Open /\ Execute(r))

Progress ==
    ProgressInit /\ [][ProgressNext]_<<scene, vars, chatVars, maintenanceVars>> /\ ProgressFairness
==================================================================================
