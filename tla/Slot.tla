-------------------------------- MODULE Slot --------------------------------
(***************************************************************************)
(* What the two sides of an upstream's slot (UpstreamSlot) may rely        *)
(* on: the recovery worker fills it and consumes its one refresh permit,   *)
(* and lookups notify it, once they have found it filled.  A slot that was *)
(* filled stays filled, so lookups need not ask again, and an empty one is *)
(* never notified: the worker that has yet to fill it is not disturbed.    *)
(*                                                                         *)
(* Recovery and Lookup each model one side in full and the other by what   *)
(* it may do at any time; each implements this.                            *)
(***************************************************************************)
VARIABLES
    filled,           \* the slot holds a resolver
    permit            \* its Notify holds a permit

vars == <<filled, permit>>

Init == filled \in BOOLEAN /\ permit = FALSE

\* A resolver is built, the first for this slot.
Fill ==
    /\ ~filled
    /\ filled' = TRUE
    /\ UNCHANGED permit

\* A query through the resolver failed; a permit already there is not doubled.
Notify ==
    /\ filled
    /\ permit' = TRUE
    /\ UNCHANGED filled

\* The worker's select takes the permit.
Consume ==
    /\ permit
    /\ permit' = FALSE
    /\ UNCHANGED filled

Next == Fill \/ Notify \/ Consume

Spec == Init /\ [][Next]_vars

=============================================================================
