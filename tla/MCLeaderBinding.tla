---------------------------- MODULE MCLeaderBinding ----------------------------
(***************************************************************************)
(* The binding store, the fanout of its events and the drain of its        *)
(* previous leaders in one run: each behaviour is of one of them, the      *)
(* scene, while the variables of the others stay as they are.              *)
(***************************************************************************)
EXTENDS ControlFanout, LeaderDrain, TLC

CONSTANTS
    MaxSceneVersion,    \* bound: binding versions, in all scenes but the drain
    MaxStoreEvents      \* bound: control events, in the store's scene

VARIABLE scene

sceneVars == <<scene, vars, fanoutVars, drainVars>>

SceneInit ==
    /\ scene \in {"store", "fanout", "drain"}
    /\ Init /\ FanoutInit /\ DrainInit

\* Faults are explored with fewer events, and without what the events do not show: the
\* drain's counters, and the route of a binding.  A drain is explored over more versions,
\* with rebinds only too.
SceneNext ==
    /\ UNCHANGED scene
    /\ \/ /\ scene = "store" /\ Next
          /\ ActiveVersion' <= MaxSceneVersion
          /\ Len(events') <= MaxStoreEvents
          /\ UNCHANGED <<fanoutVars, drainVars>>
       \/ /\ scene = "fanout" /\ FanoutNext
          /\ ActiveVersion' <= MaxSceneVersion
          /\ (Len(events') = MaxEvents => faults' = 0)
          /\ \A n \in Names : rows'[n].counts = ZeroCounts
          /\ \A n \in Names : rows'[n].payload = NoRow.payload
          /\ UNCHANGED drainVars
       \/ /\ scene = "drain" /\ DrainNext
          /\ \A n \in Names : rows'[n].payload = NoRow.payload
          /\ UNCHANGED fanoutVars

Scenes == SceneInit /\ [][SceneNext]_sceneVars

Symmetry == Permutations(Names) \cup Permutations(Callers) \cup Permutations(Projects)
=============================================================================
