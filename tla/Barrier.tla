-------------------------------- MODULE Barrier --------------------------------
(***************************************************************************)
(* What a team barrier promises: nobody leaves its k-th barrier before     *)
(* everybody has entered theirs.                                           *)
(***************************************************************************)
EXTENDS Naturals

CONSTANT Members
VARIABLES entered, left     \* per member: barriers entered, barriers left

Init == entered = [p \in Members |-> 0] /\ left = [p \in Members |-> 0]

Enter(p) ==
    /\ entered[p] = left[p]
    /\ entered' = [entered EXCEPT ![p] = @ + 1]
    /\ UNCHANGED left

Leave(p) ==
    /\ entered[p] = left[p] + 1
    /\ \A o \in Members : entered[o] >= entered[p]
    /\ left' = [left EXCEPT ![p] = @ + 1]
    /\ UNCHANGED entered

Next == \E p \in Members : Enter(p) \/ Leave(p)
Spec == Init /\ [][Next]_<<entered, left>>
=============================================================================
