------------------------------ MODULE IPCBarrier ------------------------------
(***************************************************************************)
(* The barrier of the IPC backend (ipc/context_ipc_device_coll.cpp): the   *)
(* first PE of the team collects the others' arrivals in its pSync array   *)
(* and announces the release in word 0 of theirs.  Small teams have a word *)
(* per member, large ones count arrivals in one word.  A put or an atomic  *)
(* is a store to the target's memory mapped by IPC.                        *)
(*                                                                         *)
(* One thread per PE executes the barrier: the wave and work-group forms   *)
(* elect it and put __syncthreads around the call.                         *)
(***************************************************************************)
EXTENDS Team

VARIABLES
    pSync,          \* per PE: the team's barrier_pSync
    pc,             \* per PE: where it is
    i,              \* the root's loop index
    entered, left   \* history: barriers entered and left

vars == <<pSync, pc, i, entered, left>>

Init ==
    /\ pSync = [p \in Members |-> [o \in Offsets |-> 0]]
    /\ pc = [p \in Members |-> "idle"]
    /\ i = 0
    /\ entered = [p \in Members |-> 0] /\ left = [p \in Members |-> 0]

Goto(p, l) == pc' = [pc EXCEPT ![p] = l]
Store(p, o, v) == pSync' = [pSync EXCEPT ![p][o] = v]
Leave(p) == Goto(p, "idle") /\ left' = [left EXCEPT ![p] = @ + 1]

(* internal_sync: the root and the others, by the size of the team.        *)
internal_sync(p) ==
    /\ pc[p] = "idle" /\ entered[p] < MaxRounds
    /\ entered' = [entered EXCEPT ![p] = @ + 1]
    /\ IF p = PE_start
       THEN Goto(p, IF N < DirectLimit THEN "collect" ELSE "count") /\ i' = 1
       ELSE Goto(p, IF N < DirectLimit THEN "arrive" ELSE "add") /\ UNCHANGED i
    /\ UNCHANGED <<pSync, left>>
-----------------------------------------------------------------------------
(* internal_direct_barrier at the root: wait for each word, reset it ...   *)
Collect ==
    /\ pc[PE_start] = "collect"
    /\ IF i < N
       THEN /\ pSync[PE_start][i] = 1
            /\ Goto(PE_start, "clear") /\ UNCHANGED i
       ELSE Goto(PE_start, "announce") /\ i' = 1
    /\ UNCHANGED <<pSync, entered, left>>

(* Mutant: a word that was seen is not reset.                              *)
ForgetClear ==
    /\ pc[PE_start] = "clear"
    /\ Goto(PE_start, "collect") /\ i' = i + 1
    /\ UNCHANGED <<pSync, entered, left>>

Clear ==
    /\ pc[PE_start] = "clear"
    /\ Store(PE_start, i, 0)
    /\ Goto(PE_start, "collect") /\ i' = i + 1
    /\ UNCHANGED <<entered, left>>

(* ... then announce the release to every other PE.                        *)
Announce ==
    /\ pc[PE_start] = "announce"
    /\ IF i < N
       THEN /\ Store(Target(i), 0, 1) /\ i' = i + 1
            /\ UNCHANGED <<pc, left>>
       ELSE Leave(PE_start) /\ i' = 0 /\ UNCHANGED pSync
    /\ UNCHANGED entered

(* The other PEs: mark the offset as reached, wait, reset the own word.    *)
Arrive(p) ==
    /\ pc[p] = "arrive"
    /\ Store(PE_start, pe_offset(p), 1)
    /\ Goto(p, "wait")
    /\ UNCHANGED <<i, entered, left>>

wait_until(p) ==
    /\ pc[p] = "wait" /\ pSync[p][0] = 1
    /\ Goto(p, "reset")
    /\ UNCHANGED <<pSync, i, entered, left>>

(* Mutant: the release word is not reset.                                  *)
ForgetReset(p) ==
    /\ pc[p] = "reset"
    /\ Leave(p)
    /\ UNCHANGED <<pSync, i, entered>>

Reset(p) ==
    /\ pc[p] = "reset"
    /\ Store(p, 0, 0) /\ Leave(p)
    /\ UNCHANGED <<i, entered>>
-----------------------------------------------------------------------------
(* Mutant: the root does not count to the last arrival.                    *)
CountShort ==
    /\ pc[PE_start] = "count" /\ pSync[PE_start][0] = N - 2
    /\ Goto(PE_start, "zero")
    /\ UNCHANGED <<pSync, i, entered, left>>

(* internal_atomic_barrier at the root: wait for the count; the word is    *)
(* reset before anybody is released.                                       *)
Count ==
    /\ pc[PE_start] = "count" /\ pSync[PE_start][0] = N - 1
    /\ Goto(PE_start, "zero")
    /\ UNCHANGED <<pSync, i, entered, left>>

Zero ==
    /\ pc[PE_start] = "zero"
    /\ Store(PE_start, 0, 0)
    /\ Goto(PE_start, "announce")
    /\ UNCHANGED <<i, entered, left>>

amo_add(p) ==
    /\ pc[p] = "add"
    /\ Store(PE_start, 0, pSync[PE_start][0] + 1)
    /\ Goto(p, "wait")
    /\ UNCHANGED <<i, entered, left>>
-----------------------------------------------------------------------------
Root == Collect \/ Clear \/ Announce \/ Count \/ Zero
Other(p) == Arrive(p) \/ amo_add(p) \/ wait_until(p) \/ Reset(p)

Next == Root \/ \E p \in Members : internal_sync(p) \/ Other(p)

(* Barriers are collective: every PE calls them and its threads run.       *)
Fairness == WF_vars(Root) /\ \A p \in Members : WF_vars(internal_sync(p))
                                              /\ WF_vars(Other(p))
Spec == Init /\ [][Next]_vars
FairSpec == Spec /\ Fairness
-----------------------------------------------------------------------------
Pcs == {"idle", "collect", "clear", "announce", "count", "zero", "arrive",
        "add", "wait", "reset"}

TypeOK ==
    /\ pSync \in [Members -> [Offsets -> Nat]]
    /\ pc \in [Members -> Pcs]
    /\ i \in Nat /\ i <= N
    /\ entered \in [Members -> Nat] /\ left \in [Members -> Nat]

(* Nobody leaves a barrier that somebody has not entered, although a fast  *)
(* PE may be one barrier ahead of a slow one with the same pSync words.    *)
NobodyLeavesEarly ==
    \A p, o \in Members : left[p] <= entered[o]

(* After a barrier the words are as before it: pSync can be reused.        *)
QuiescentIsClean ==
    (\A p \in Members : pc[p] = "idle" /\ left[p] = left[PE_start])
        => pSync = [p \in Members |-> [o \in Offsets |-> 0]]

(* Every PE leaves every barrier it has entered.                           *)
EveryBarrierReturns ==
    \A p \in Members : pc[p] # "idle" ~> pc[p] = "idle"

(* The barrier does what Barrier says of entering and leaving.             *)
B == INSTANCE Barrier
ImplementsBarrier == B!Spec
-----------------------------------------------------------------------------
(* The inductive invariant of the direct barrier.  announced and collected *)
(* count, for the member at offset o, the releases stored in its word and  *)
(* the arrivals the root has taken out of its own.                         *)
announced(o) == left[PE_start] +
    (IF pc[PE_start] = "announce" /\ o < i THEN 1 ELSE 0)
collected(o) == left[PE_start] +
    (IF pc[PE_start] = "announce"
        \/ (pc[PE_start] \in {"collect", "clear"} /\ o < i) THEN 1 ELSE 0)

RootInv ==
    /\ pc[PE_start] \in {"idle", "collect", "clear", "announce"}
    /\ entered[PE_start] = left[PE_start]
                           + (IF pc[PE_start] = "idle" THEN 0 ELSE 1)
    /\ pc[PE_start] # "idle" => i >= 1
    /\ pc[PE_start] = "clear" => i < N /\ pSync[PE_start][i] = 1

MemberOK(o) ==
    LET p == Target(o)
        arrival == pSync[PE_start][o]
        release == pSync[p][0]
    IN  /\ release \in {0, 1} /\ arrival \in {0, 1}
        /\ pc[p] \in {"idle", "arrive", "wait", "reset"}
        /\ pc[p] = "idle" =>
             /\ left[p] = announced(o) /\ entered[p] = announced(o)
             /\ collected(o) = announced(o) /\ release = 0 /\ arrival = 0
        /\ pc[p] = "arrive" =>
             /\ left[p] = announced(o) /\ entered[p] = announced(o) + 1
             /\ collected(o) = announced(o) /\ release = 0 /\ arrival = 0
        /\ pc[p] = "wait" /\ release = 0 =>
             /\ left[p] = announced(o) /\ entered[p] = announced(o) + 1
             /\ collected(o) + arrival = announced(o) + 1
        /\ (pc[p] = "wait" /\ release = 1) \/ pc[p] = "reset" =>
             /\ left[p] = announced(o) - 1 /\ entered[p] = announced(o)
             /\ collected(o) = announced(o) /\ release = 1 /\ arrival = 0

MemberInv == \A o \in Offsets \ {0} : MemberOK(o)

DirectInv == N < DirectLimit => TypeOK /\ RootInv /\ MemberInv
=============================================================================
