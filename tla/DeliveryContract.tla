---------------------------- MODULE DeliveryContract ----------------------------
(***************************************************************************)
(* What the deferred delivery core (agent_cockpit/deferred_delivery.py)    *)
(* promises to its callers: "zero loss, zero duplicates".  An event that   *)
(* is taken is owed to the binding that is active, until the recipient     *)
(* accepts it, which it does once in a generation, or until another        *)
(* binding replaces this one: then it is owed to that one, or returned to  *)
(* the caller, who gives it back.  Locks, deliveries in progress and their *)
(* failures are not seen.                                                  *)
(***************************************************************************)
EXTENDS Naturals

CONSTANT EventIds

VARIABLES
    binding,        \* version of the active binding; 0: none
    generation,     \* bindings so far
    owed,           \* events owed to the binding
    sent,           \* events accepted, with the generation that sent them
    returned        \* events given back to callers, with the version they go to

contractVars == <<binding, generation, owed, sent, returned>>

SentIn(g) == {e \in EventIds : <<e, g>> \in sent}

ContractInit ==
    /\ binding = 0 /\ generation = 0
    /\ owed = {} /\ sent = {} /\ returned = {}

\* An event is owed from now on, unless it was sent.
Owing(e) == owed' = owed \cup ({e} \ SentIn(generation))

Take(e) == Owing(e) /\ UNCHANGED <<binding, generation, sent, returned>>

\* The recipient accepts events of generation g, none of them again.  What an earlier
\* generation sent is still owed to the present one.
Accept(S, g) ==
    /\ S # {} /\ S \subseteq owed \cup SentIn(generation)
    /\ g <= generation /\ S \cap SentIn(g) = {}
    /\ sent' = sent \cup (S \X {g})
    /\ owed' = IF g = generation THEN owed \ S ELSE owed
    /\ UNCHANGED <<binding, generation, returned>>

\* Another binding: what was owed is returned or stays owed, and so may be what the old
\* one was sent last.
Switch(S) ==
    /\ binding' \in Nat \ {binding} /\ generation' = generation + 1
    /\ S \subseteq owed \cup SentIn(generation)
    /\ returned' = returned \cup (S \X {binding'})
    /\ owed \ S \subseteq owed' /\ owed' \subseteq owed \cup SentIn(generation)
    /\ UNCHANGED sent

\* A caller gives back an event: it is owed again, unless the binding it goes to was
\* replaced.  (Another caller may still hold it.)
GiveBack(e, v) ==
    /\ <<e, v>> \in returned
    /\ returned' \in {returned, returned \ {<<e, v>>}}
    /\ IF v = binding THEN Owing(e) ELSE UNCHANGED owed
    /\ UNCHANGED <<binding, generation, sent>>

ContractNext ==
    \/ \E e \in EventIds : Take(e)
    \/ \E S \in SUBSET EventIds, g \in 0..generation : Accept(S, g)
    \/ \E S \in SUBSET EventIds : Switch(S)
    \/ \E x \in returned : GiveBack(x[1], x[2])

ContractSpec == ContractInit /\ [][ContractNext]_contractVars
=================================================================================
