--------------------------- MODULE DeliveryRefinement ---------------------------
(***************************************************************************)
(* The deferred delivery core implements its contract.                     *)
(***************************************************************************)
EXTENDS DeferredDelivery

\* What the core holds and its generation did not send is owed, what any adapter call
\* delivered was sent, and what a switch of binding handed out is returned.
Owed == {e \in Held : accepts[e][core.generation] = 0}
Sent == {x \in EventIds \X (0..MaxGeneration) : accepts[x[1]][x[2]] > 0}
Returned == {<<e.id, e.version>> : e \in UNION {handed[t] : t \in Threads}}

Contract ==
    INSTANCE DeliveryContract
        WITH binding <- core.version, generation <- core.generation,
             owed <- Owed, sent <- Sent, returned <- Returned

\* Whatever the interleaving of callers, deliveries in progress, late results and switches
\* of binding, the core does what its contract says: an event it took is owed until it is
\* accepted, once in a generation, or goes to the binding that replaces this one.
KeepsContract == Contract!ContractSpec
=================================================================================
