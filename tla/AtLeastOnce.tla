------------------------------ MODULE AtLeastOnce ------------------------------
(***************************************************************************)
(* What a pipeline that forwards items from a durable source promises: the *)
(* source is told to forget an item only after the item, or one that       *)
(* stands for it, has been delivered.  An item may be delivered any number *)
(* of times, before and after.  What may be dropped instead is given from  *)
(* outside and may change at any time.                                     *)
(***************************************************************************)
CONSTANTS
    Items,      \* what the source holds
    StandsFor   \* StandsFor[i]: the items whose delivery counts for i

VARIABLES
    delivered,  \* items the receiver has accepted
    released,   \* items the source will not offer again
    droppable   \* input: items that may now be forgotten undelivered

Forgettable(i) == i \in droppable \/ StandsFor[i] \cap delivered # {}

\* The receiver accepts some items.
Deliver ==
    /\ delivered' \in SUBSET Items
    /\ delivered \subseteq delivered'
    /\ UNCHANGED released

\* The source forgets some items.
Release ==
    /\ released' \in SUBSET Items
    /\ released \subseteq released'
    /\ \A i \in released' \ released : Forgettable(i)
    /\ UNCHANGED delivered

Init == delivered = {} /\ released = {}

Spec == Init /\ [][Deliver \/ Release]_<<delivered, released>>
=============================================================================
