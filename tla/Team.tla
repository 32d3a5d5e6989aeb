---------------------------------- MODULE Team ---------------------------------
(***************************************************************************)
(* The team on which a barrier of the IPC backend works: N PEs from        *)
(* PE_start on, Stride apart, as Team::tinfo_wrt_world gives them.         *)
(***************************************************************************)
EXTENDS Integers

CONSTANTS
    PE_start, Stride,   \* the team's PEs in the world
    N,                  \* PE_size
    DirectLimit,        \* 64: from this size on the arrivals are counted
    MaxRounds           \* bound on the barriers a PE enters

ASSUME TeamAssumption ==
    /\ PE_start \in Nat /\ Stride \in Nat \ {0} /\ N \in Nat \ {0}
    /\ DirectLimit \in Nat /\ MaxRounds \in Nat

Offsets == 0..(N - 1)
Target(i) == PE_start + i * Stride
Members == {Target(i) : i \in Offsets}
pe_offset(pe) == (pe - PE_start) \div Stride
=============================================================================
