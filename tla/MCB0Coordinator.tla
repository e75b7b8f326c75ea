---------------------------- MODULE MCB0Coordinator ----------------------------
(***************************************************************************)
(* TLC instance of B0Coordinator for its liveness, with one mishap: the    *)
(* process dies, or a mark fails to be written (then the binding stays).   *)
(***************************************************************************)
EXTENDS B0Coordinator

OneMishap ==
    /\ faults' + restarts' <= 1
    /\ (faults' = 1 => db' = 1)

RebindNext == Next /\ OneMishap
RebindSpec == Init /\ [][RebindNext]_vars /\ Fairness
================================================================================
