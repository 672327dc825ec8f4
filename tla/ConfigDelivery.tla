--------------------------- MODULE ConfigDelivery ---------------------------
(***************************************************************************)
(* What the delivery of a filter configuration promises, whatever the      *)
(* Secrets, volumes, files and polls in between: configurations are        *)
(* published one after the other, and a running external processor works   *)
(* with one that was published, never moving to an older one.              *)
(***************************************************************************)
EXTENDS Naturals

CONSTANT Versions

VARIABLES
    published,  \* the configurations published so far
    running     \* the one the external processor runs with, 0: none

Init == published = {} /\ running = 0

Publish ==
    \E v \in Versions :
        /\ \A u \in published : u < v
        /\ published' = published \cup {v}
        /\ UNCHANGED running

Deliver ==
    \E v \in published :
        /\ running <= v
        /\ running' = v
        /\ UNCHANGED published

Stop == running' = 0 /\ UNCHANGED published

Next == Publish \/ Deliver \/ Stop

Spec == Init /\ [][Next]_<<published, running>>
=============================================================================
