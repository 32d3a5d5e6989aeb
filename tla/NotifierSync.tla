----------------------------- MODULE NotifierSync -----------------------------
(***************************************************************************)
(* Notifier::sync (memory/notifier.hpp): a barrier of the thread blocks of *)
(* a grid.  The first thread of each block counts it in; the last to       *)
(* arrive resets the count and advances the signal the others wait for.    *)
(***************************************************************************)
EXTENDS Naturals, FiniteSets

CONSTANTS
    Blocks,     \* the grid
    SigMod,     \* 2^32, the range of signal_
    MaxSync     \* no block enters more barriers than this

NotifierAssumption ==
    IsFiniteSet(Blocks) /\ Blocks # {} /\ SigMod \in Nat \ {0, 1} /\ MaxSync \in Nat

VARIABLES signal_, count_, pc, done, entered, left

vars == <<signal_, count_, pc, done, entered, left>>

Init ==
    /\ signal_ = 0 /\ count_ = 0
    /\ pc = [b \in Blocks |-> "idle"]
    /\ done = [b \in Blocks |-> 0]
    /\ entered = [b \in Blocks |-> 0] /\ left = [b \in Blocks |-> 0]

Goto(b, from, to) == pc[b] = from /\ pc' = [pc EXCEPT ![b] = to]

(* The value the signal will have is computed before the block is counted. *)
Enter(b) ==
    /\ entered[b] < MaxSync
    /\ Goto(b, "idle", "count")
    /\ done' = [done EXCEPT ![b] = (signal_ + 1) % SigMod]
    /\ entered' = [entered EXCEPT ![b] = @ + 1]
    /\ UNCHANGED <<signal_, count_, left>>

Arrive(b) ==
    /\ Goto(b, "count", IF count_ = Cardinality(Blocks) - 1 THEN "reset" ELSE "wait")
    /\ count_' = count_ + 1
    /\ UNCHANGED <<signal_, done, entered, left>>

Reset(b) ==
    /\ Goto(b, "reset", "signal")
    /\ count_' = 0
    /\ UNCHANGED <<signal_, done, entered, left>>

Signal(b) ==
    /\ Goto(b, "signal", "wait")
    /\ signal_' = (signal_ + 1) % SigMod
    /\ UNCHANGED <<count_, done, entered, left>>

Leave(b) ==
    /\ signal_ = done[b]
    /\ Goto(b, "wait", "idle")
    /\ left' = [left EXCEPT ![b] = @ + 1]
    /\ UNCHANGED <<signal_, count_, done, entered>>

Advance(b) == Arrive(b) \/ Reset(b) \/ Signal(b) \/ Leave(b)

Next == \E b \in Blocks : Enter(b) \/ Advance(b)

Spec == Init /\ [][Next]_vars

(* The blocks are resident and run, and the grid calls sync as a whole.    *)
FairSpec == Spec /\ \A b \in Blocks : WF_vars(Enter(b)) /\ WF_vars(Advance(b))

-----------------------------------------------------------------------------
TypeOK ==
    /\ signal_ \in 0..(SigMod - 1) /\ count_ \in 0..Cardinality(Blocks)
    /\ pc \in [Blocks -> {"idle", "count", "reset", "signal", "wait"}]
    /\ done \in [Blocks -> 0..(SigMod - 1)]
    /\ entered \in [Blocks -> 0..MaxSync] /\ left \in [Blocks -> 0..MaxSync]

Abstract == INSTANCE Barrier WITH Members <- Blocks

(* No block leaves its k-th sync before every block of the grid entered    *)
(* its own, for any number of rounds of the signal.                        *)
ImplementsBarrier == Abstract!Spec
-----------------------------------------------------------------------------
(* Why the count works.  After r advances of the signal every block is     *)
(* between its r-th sync and the end of its next one, and waits for the    *)
(* value the signal had or will have; the count is the number of blocks    *)
(* that arrived, until the one that made it full has reset it.             *)
Arrived(r) ==
    {b \in Blocks : pc[b] \in {"wait", "reset", "signal"} /\ entered[b] = r + 1}

BlockIn(b, r) ==
    /\ pc[b] = "idle" => entered[b] = r /\ left[b] = r
    /\ pc[b] # "idle" => /\ entered[b] = left[b] + 1
                         /\ done[b] = entered[b] % SigMod
    /\ pc[b] \in {"count", "reset", "signal"} => entered[b] = r + 1
    /\ pc[b] = "wait" => entered[b] \in {r, r + 1}

Last == {b \in Blocks : pc[b] \in {"reset", "signal"}}

RoundIs(r) ==
    /\ signal_ = r % SigMod
    /\ \A b \in Blocks : BlockIn(b, r)
    /\ \A b, o \in Last : b = o
    /\ Last # {} <=> Arrived(r) = Blocks
    /\ count_ = IF \E b \in Blocks : pc[b] = "signal" THEN 0
                ELSE Cardinality(Arrived(r))

IInv == TypeOK /\ \E r \in 0..MaxSync : RoundIs(r)
=============================================================================
