------------------------------ MODULE MCReceipts ------------------------------
(***************************************************************************)
(* TLC instance of Receipts: the symmetric set, and a smaller bound on the *)
(* claims when some message is a stop, since a stop is never resumed.      *)
(***************************************************************************)
EXTENDS Receipts, TLC

MaxStopTokens == 1
BoundedNext == Next /\ (stops # {} => tokens' <= MaxStopTokens)
BoundedSpec == Init /\ [][BoundedNext]_vars /\ Fairness

Symmetry == Permutations(Agents)
=============================================================================
