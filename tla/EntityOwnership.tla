-------------------------- MODULE EntityOwnership ---------------------------
(***************************************************************************)
(* What the entity map promises to the rest of gpui: an entity is shared   *)
(* by its holders, only a holder can make another one, and it is released  *)
(* once, after the last holder is gone and never before.                   *)
(***************************************************************************)
CONSTANTS Ids, Handles

VARIABLES
    made,       \* entities that were created
    held,       \* the handles that hold each entity
    released    \* entities that were released

vars == <<made, held, released>>

Init ==
    /\ made = {}
    /\ held = [id \in Ids |-> {}]
    /\ released = {}

Make(id, h) ==
    /\ id \notin made
    /\ made' = made \union {id}
    /\ held' = [held EXCEPT ![id] = {h}]
    /\ UNCHANGED released

Share(id, h) ==
    /\ held[id] # {} /\ h \notin held[id]
    /\ held' = [held EXCEPT ![id] = @ \union {h}]
    /\ UNCHANGED <<made, released>>

Discard(id, h) ==
    /\ h \in held[id]
    /\ held' = [held EXCEPT ![id] = @ \ {h}]
    /\ UNCHANGED <<made, released>>

\* One flush releases every entity that was queued for it.
Release(S) ==
    /\ S # {} /\ S \subseteq made \ released
    /\ \A id \in S : held[id] = {}
    /\ released' = released \union S
    /\ UNCHANGED <<made, held>>

Next ==
    \/ \E id \in Ids, h \in Handles :
          Make(id, h) \/ Share(id, h) \/ Discard(id, h)
    \/ \E S \in SUBSET Ids : Release(S)

Spec == Init /\ [][Next]_vars

=============================================================================
