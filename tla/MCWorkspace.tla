------------------------------ MODULE MCWorkspace ------------------------------
(***************************************************************************)
(* The six models of a workspace in one run: each behaviour is one of one  *)
(* model, the scene, while the variables of the others stay as they are.   *)
(* The claims are checked in two scenes: dispatches of several keys and no *)
(* detach, or detaches and dispatches of one key.                          *)
(***************************************************************************)
EXTENDS OperationJournal, WorkspaceClaims, WorkspaceDelivery, WorkspaceRuntime,
        WorkspaceTerminal, TLC

VARIABLE scene

Scenes == {"journal", "dispatch", "detach", "delivery", "runtime", "terminal"}

Init ==
    /\ scene \in Scenes
    /\ JournalInit /\ (scene # "journal" => op = PlannedRow(Steps, {}))
    /\ ClaimsInit /\ DeliveryInit /\ RuntimeInit /\ TerminalInit

Next ==
    /\ UNCHANGED scene
    /\ \/ /\ scene = "journal" /\ JournalNext
          /\ UNCHANGED <<claimsVars, deliveryVars, runtimeVars, terminalVars>>
       \/ /\ \/ scene = "dispatch" /\ ClaimsNext /\ UNCHANGED detach
             \/ /\ scene = "detach" /\ ClaimsNext
                /\ Cardinality({k \in Keys : asked'[k].prep # 0}) <= 1
          /\ UNCHANGED <<journalVars, deliveryVars, runtimeVars, terminalVars>>
       \/ /\ scene = "delivery" /\ DeliveryNext
          /\ UNCHANGED <<journalVars, claimsVars, runtimeVars, terminalVars>>
       \/ /\ scene = "runtime" /\ RuntimeNext
          /\ UNCHANGED <<journalVars, claimsVars, deliveryVars, terminalVars>>
       \/ /\ scene = "terminal" /\ TerminalNext
          /\ UNCHANGED <<journalVars, claimsVars, deliveryVars, runtimeVars>>

workspaceVars == <<journalVars, claimsVars, deliveryVars, runtimeVars, terminalVars>>
Spec == Init /\ [][Next]_<<scene, workspaceVars>>

Symmetry == Permutations(Keys)
================================================================================
