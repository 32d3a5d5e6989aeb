--------------------------- MODULE IPCBarrierProofs ---------------------------
(***************************************************************************)
(* The team barrier of the IPC backend is safe, implements Barrier and     *)
(* leaves pSync clean, for every team size, start and stride, any number   *)
(* of barriers on the same pSync and both of its forms: the direct one     *)
(* below DirectLimit PEs, a flag for each member, and the counted one, a   *)
(* single word the members add to.                                         *)
(***************************************************************************)
EXTENDS IPCBarrier, FiniteSetTheorems, TLAPS

(* pe_offset undoes the stepping of the announcement loop.                 *)
LEMMA OffsetOfTarget ==
    ASSUME NEW k \in Nat
    PROVE  pe_offset(Target(k)) = k /\ Target(k) \in Nat
<1>1. k * Stride \in Nat
  BY TeamAssumption
<1>2. Target(k) - PE_start = k * Stride /\ Target(k) \in Nat
  BY <1>1, TeamAssumption DEF Target
<1>3. (k * Stride) \div Stride = k
  BY <1>1, TeamAssumption
<1> QED
  BY <1>2, <1>3 DEF pe_offset

(* Two offsets of the team name two PEs.                                   *)
LEMMA TargetIsInjective ==
    ASSUME NEW k \in Nat, NEW l \in Nat, Target(k) = Target(l)
    PROVE  k = l
BY OffsetOfTarget

(* The root is the member at offset 0.                                     *)
LEMMA RootIsTarget == Target(0) = PE_start /\ PE_start \in Members
<1>1. Target(0) = PE_start
  BY TeamAssumption DEF Target
<1>2. 0 \in Offsets
  BY TeamAssumption DEF Offsets
<1> QED
  BY <1>1, <1>2 DEF Members

(* The members other than the root, by their offset.                       *)
LEMMA OffsetFacts ==
    ASSUME NEW o \in Offsets \ {0}
    PROVE  /\ o \in Nat /\ o >= 1 /\ o < N /\ o \in Offsets /\ 0 \in Offsets
           /\ Target(o) \in Members /\ Target(o) # PE_start
           /\ pe_offset(Target(o)) = o
<1>1. o \in Nat /\ o >= 1 /\ o < N /\ o \in Offsets /\ 0 \in Offsets
  BY TeamAssumption DEF Offsets
<1>2. Target(o) \in Members
  BY <1>1 DEF Members
<1>3. Target(o) # PE_start
  BY <1>1, TargetIsInjective, RootIsTarget
<1> QED
  BY <1>1, <1>2, <1>3, OffsetOfTarget

(* Every other member has an offset of its own.                            *)
LEMMA MemberHasOffset ==
    ASSUME NEW p \in Members, p # PE_start
    PROVE  \E o \in Offsets \ {0} : p = Target(o)
BY RootIsTarget DEF Members
-----------------------------------------------------------------------------
IInv == TypeOK /\ RootInv /\ MemberInv

(* A step that touches neither the words of a member, nor its place, nor   *)
(* what the root has done for it keeps the member as it is.                *)
LEMMA MemberFrame ==
    ASSUME NEW o \in Offsets \ {0}, MemberOK(o),
           pc'[Target(o)] = pc[Target(o)],
           left'[Target(o)] = left[Target(o)],
           entered'[Target(o)] = entered[Target(o)],
           pSync'[PE_start][o] = pSync[PE_start][o],
           pSync'[Target(o)][0] = pSync[Target(o)][0],
           announced(o)' = announced(o), collected(o)' = collected(o)
    PROVE  MemberOK(o)'
BY DEF MemberOK

(* The invariant of the direct form holds initially.                       *)
LEMMA InitInv ==
    ASSUME Init
    PROVE  IInv
<1>1. TypeOK
  BY TeamAssumption DEF Init, TypeOK, Pcs
<1>2. RootInv
  BY RootIsTarget DEF Init, RootInv
<1>3. MemberInv
  <2> SUFFICES ASSUME NEW o \in Offsets \ {0} PROVE MemberOK(o)
    BY DEF MemberInv
  <2>1. announced(o) = 0 /\ collected(o) = 0
    BY RootIsTarget DEF Init, announced, collected
  <2> QED
    BY <2>1, OffsetFacts, RootIsTarget DEF Init, MemberOK
<1> QED
  BY <1>1, <1>2, <1>3 DEF IInv

(* Entering the barrier.                                                   *)
LEMMA EnterStep ==
    ASSUME IInv, N < DirectLimit, NEW p \in Members, internal_sync(p)
    PROVE  IInv'
<1> USE RootIsTarget
<1>1. TypeOK'
  BY TeamAssumption DEF IInv, TypeOK, internal_sync, Goto, Pcs
<1>2. CASE p = PE_start
  <2>1. RootInv'
    BY <1>2, TeamAssumption DEF IInv, TypeOK, RootInv, internal_sync, Goto
  <2>2. MemberInv'
    <3> SUFFICES ASSUME NEW o \in Offsets \ {0} PROVE MemberOK(o)'
      BY DEF MemberInv
    <3>1. announced(o)' = announced(o) /\ collected(o)' = collected(o)
      BY <1>2, OffsetFacts DEF IInv, TypeOK, RootInv, internal_sync, Goto, announced, collected
    <3>2. MemberOK(o)
      BY DEF IInv, MemberInv
    <3> QED
      BY <1>2, <3>1, <3>2, OffsetFacts, MemberFrame
      DEF IInv, TypeOK, internal_sync, Goto
  <2> QED
    BY <1>1, <2>1, <2>2 DEF IInv
<1>3. CASE p # PE_start
  <2>1. RootInv'
    BY <1>3 DEF IInv, TypeOK, RootInv, internal_sync, Goto
  <2>2. MemberInv'
    <3> SUFFICES ASSUME NEW o \in Offsets \ {0} PROVE MemberOK(o)'
      BY DEF MemberInv
    <3>1. announced(o)' = announced(o) /\ collected(o)' = collected(o)
      BY <1>3 DEF IInv, TypeOK, internal_sync, Goto, announced, collected
    <3>2. MemberOK(o)
      BY DEF IInv, MemberInv
    <3>3. CASE p = Target(o)
      BY <1>3, <3>1, <3>2, <3>3, OffsetFacts
      DEF IInv, TypeOK, internal_sync, Goto, MemberOK
    <3>4. CASE p # Target(o)
      BY <3>1, <3>2, <3>4, OffsetFacts, MemberFrame
      DEF IInv, TypeOK, internal_sync, Goto
    <3> QED
      BY <3>3, <3>4
  <2> QED
    BY <1>1, <2>1, <2>2 DEF IInv
<1> QED
  BY <1>2, <1>3

(* The root takes the arrivals: it passes a word, or the last one.         *)
LEMMA CollectStep ==
    ASSUME IInv, Collect
    PROVE  IInv'
<1> USE RootIsTarget
<1>1. TypeOK'
  BY TeamAssumption DEF IInv, TypeOK, Collect, Goto, Pcs
<1>2. RootInv'
  BY TeamAssumption DEF IInv, TypeOK, RootInv, Collect, Goto
<1>3. MemberInv'
  <2> SUFFICES ASSUME NEW o \in Offsets \ {0} PROVE MemberOK(o)'
    BY DEF MemberInv
  <2>1. announced(o)' = announced(o) /\ collected(o)' = collected(o)
    <3>1. pc[PE_start] = "collect" /\ left' = left /\ i \in Nat
      BY DEF IInv, TypeOK, Collect
    <3>2. CASE i < N
      BY <3>1, <3>2 DEF IInv, TypeOK, Collect, Goto, announced, collected
    <3>3. CASE ~(i < N)
      <4>1. pc'[PE_start] = "announce" /\ i' = 1
        BY <3>3 DEF IInv, TypeOK, Collect, Goto
      <4>2. o < i /\ ~(o < 1)
        BY <3>1, <3>3, OffsetFacts, TeamAssumption
      <4> QED
        BY <3>1, <4>1, <4>2 DEF announced, collected
    <3> QED
      BY <3>2, <3>3
  <2>2. MemberOK(o)
    BY DEF IInv, MemberInv
  <2> QED
    BY <2>1, <2>2, OffsetFacts, MemberFrame DEF IInv, TypeOK, Collect, Goto
<1> QED
  BY <1>1, <1>2, <1>3 DEF IInv

(* The root clears the words it has read.                                  *)
LEMMA ClearStep ==
    ASSUME IInv, Clear
    PROVE  IInv'
<1> USE RootIsTarget
<1>0. i \in Offsets \ {0} /\ i < N /\ i \in Nat /\ pSync[PE_start][i] = 1
  BY TeamAssumption DEF IInv, TypeOK, RootInv, Clear, Offsets
<1>1. TypeOK'
  BY <1>0, TeamAssumption DEF IInv, TypeOK, Clear, Goto, Store, Pcs
<1>2. RootInv'
  BY <1>0 DEF IInv, TypeOK, RootInv, Clear, Goto, Store
<1>3. MemberInv'
  <2> SUFFICES ASSUME NEW o \in Offsets \ {0} PROVE MemberOK(o)'
    BY DEF MemberInv
  <2>1. announced(o)' = announced(o)
    BY DEF IInv, TypeOK, Clear, Goto, announced
  <2>2. MemberOK(o)
    BY DEF IInv, MemberInv
  <2>3. /\ pc'[Target(o)] = pc[Target(o)]
        /\ pSync'[Target(o)][0] = pSync[Target(o)][0]
        /\ left' = left /\ entered' = entered
    BY <1>0, OffsetFacts DEF IInv, TypeOK, Clear, Goto, Store
  <2>4. CASE o = i
    <3>1. pSync[PE_start][o] = 1 /\ pSync'[PE_start][o] = 0
      BY <1>0, <2>4 DEF IInv, TypeOK, Clear, Store
    <3>2. collected(o)' = collected(o) + 1
      BY <1>0, <2>4 DEF IInv, TypeOK, Clear, Goto, collected
    <3>3. pc[Target(o)] = "wait" /\ pSync[Target(o)][0] = 0
      BY <2>2, <3>1 DEF MemberOK
    <3>4. announced(o) \in Int /\ collected(o) \in Int
      BY DEF IInv, TypeOK, announced, collected
    <3> QED
      BY <2>1, <2>2, <2>3, <3>1, <3>2, <3>3, <3>4 DEF MemberOK
  <2>5. CASE o # i
    <3>1. collected(o)' = collected(o)
      BY <1>0, <2>5, OffsetFacts DEF IInv, TypeOK, Clear, Goto, collected
    <3>2. pSync'[PE_start][o] = pSync[PE_start][o]
      BY <1>0, <2>5 DEF IInv, TypeOK, Clear, Store
    <3> QED
      BY <2>1, <2>2, <2>3, <3>1, <3>2, MemberFrame
  <2> QED
    BY <2>4, <2>5
<1> QED
  BY <1>1, <1>2, <1>3 DEF IInv

(* The root releases the members in turn.                                  *)
LEMMA AnnounceStep ==
    ASSUME IInv, Announce
    PROVE  IInv'
<1> USE RootIsTarget
<1>0. pc[PE_start] = "announce" /\ i \in Nat /\ i >= 1 /\ 0 \in Offsets
  BY TeamAssumption DEF IInv, RootInv, TypeOK, Announce, Offsets
<1>1. CASE i < N
  <2>0. i \in Offsets \ {0}
    BY <1>0, <1>1, TeamAssumption DEF Offsets
  <2>a. /\ pSync' = [pSync EXCEPT ![Target(i)][0] = 1] /\ i' = i + 1
        /\ pc' = pc /\ left' = left /\ entered' = entered
    BY <1>0, <1>1 DEF Announce, Store
  <2>1. TypeOK'
    <3>1. pSync' \in [Members -> [Offsets -> Nat]]
      BY <1>0, <2>0, <2>a, OffsetFacts DEF IInv, TypeOK
    <3> QED
      BY <3>1, <1>0, <1>1, <2>a, TeamAssumption DEF IInv, TypeOK
  <2>2. RootInv'
    BY <1>0, <2>a DEF IInv, RootInv, TypeOK
  <2>3. MemberInv'
    <3> SUFFICES ASSUME NEW o \in Offsets \ {0} PROVE MemberOK(o)'
      BY DEF MemberInv
    <3>1. MemberOK(o) /\ o \in Nat /\ o \in Offsets
      BY OffsetFacts DEF IInv, MemberInv
    <3>2. collected(o)' = collected(o)
      BY <1>0, <2>a DEF collected
    <3>3. pSync'[PE_start][o] = pSync[PE_start][o]
      BY <2>0, <2>a, OffsetFacts DEF IInv, TypeOK
    <3>4. CASE o = i
      <4>1. /\ announced(o) = left[PE_start]
            /\ collected(o) = left[PE_start] + 1
            /\ announced(o)' = left[PE_start] + 1
            /\ left[PE_start] \in Nat
        BY <1>0, <2>a, <3>4 DEF IInv, TypeOK, announced, collected
      <4>2. /\ pc[Target(o)] = "wait" /\ pSync[Target(o)][0] = 0
            /\ pSync[PE_start][o] = 0
        BY <3>1, <4>1 DEF MemberOK
      <4>3. pSync'[Target(o)][0] = 1
        BY <1>0, <2>a, <2>0, <3>4, OffsetFacts DEF IInv, TypeOK
      <4> QED
        BY <2>a, <3>1, <3>2, <3>3, <4>1, <4>2, <4>3 DEF MemberOK
    <3>5. CASE o # i
      <4>1. Target(o) # Target(i)
        BY <1>0, <3>1, <3>5, TargetIsInjective
      <4>2. announced(o)' = announced(o)
        BY <1>0, <2>a, <3>1, <3>5 DEF announced
      <4>3. pSync'[Target(o)] = pSync[Target(o)]
        BY <2>a, <4>1, OffsetFacts DEF IInv, TypeOK
      <4> QED
        BY <2>a, <3>1, <3>2, <3>3, <4>2, <4>3, MemberFrame
    <3> QED
      BY <3>4, <3>5
  <2> QED
    BY <2>1, <2>2, <2>3 DEF IInv
<1>2. CASE ~(i < N)
  <2>a. /\ pSync' = pSync /\ i' = 0 /\ entered' = entered
        /\ pc' = [pc EXCEPT ![PE_start] = "idle"]
        /\ left' = [left EXCEPT ![PE_start] = left[PE_start] + 1]
    BY <1>0, <1>2 DEF Announce, Leave, Goto
  <2>1. TypeOK'
    BY <2>a, TeamAssumption DEF IInv, TypeOK, Pcs
  <2>2. RootInv'
    BY <1>0, <2>a DEF IInv, RootInv, TypeOK
  <2>3. MemberInv'
    <3> SUFFICES ASSUME NEW o \in Offsets \ {0} PROVE MemberOK(o)'
      BY DEF MemberInv
    <3>1. o < i
      BY <1>0, <1>2, OffsetFacts, TeamAssumption
    <3>2. announced(o)' = announced(o) /\ collected(o)' = collected(o)
      BY <1>0, <2>a, <3>1 DEF IInv, TypeOK, announced, collected
    <3>3. MemberOK(o)
      BY DEF IInv, MemberInv
    <3> QED
      BY <2>a, <3>2, <3>3, OffsetFacts, MemberFrame DEF IInv, TypeOK
  <2> QED
    BY <2>1, <2>2, <2>3 DEF IInv
<1> QED
  BY <1>1, <1>2

(* A member other than the root marks its offset, sees the release, and    *)
(* resets its word.                                                        *)
LEMMA OtherStep ==
    ASSUME IInv, NEW p \in Members,
           Arrive(p) \/ wait_until(p) \/ Reset(p)
    PROVE  IInv'
<1> USE RootIsTarget
<1>0. p # PE_start
  BY DEF IInv, RootInv, Arrive, wait_until, Reset
<1>1. PICK k \in Offsets \ {0} : p = Target(k)
  BY <1>0, MemberHasOffset
<1>2. pe_offset(p) = k /\ k \in Offsets /\ 0 \in Offsets
  BY <1>1, OffsetFacts
<1>3. MemberOK(k)
  BY DEF IInv, MemberInv
<1>4. /\ i' = i /\ entered' = entered
      /\ pc'[PE_start] = pc[PE_start] /\ left'[PE_start] = left[PE_start]
      /\ pc' = [pc EXCEPT ![p] = pc'[p]]
      /\ left' = [left EXCEPT ![p] = left'[p]]
  BY <1>0 DEF IInv, TypeOK, Arrive, wait_until, Reset, Goto, Leave
<1>5. \A o : announced(o)' = announced(o) /\ collected(o)' = collected(o)
  BY <1>4 DEF announced, collected
<1>6. pc[PE_start] = "clear" => i \in Offsets \ {0} /\ pSync[PE_start][i] = 1
  BY TeamAssumption DEF IInv, TypeOK, RootInv, Offsets
<1>7. CASE Arrive(p)
  <2>1. /\ pSync' = [pSync EXCEPT ![PE_start][k] = 1]
        /\ pc' = [pc EXCEPT ![p] = "wait"] /\ left' = left
    BY <1>2, <1>7 DEF Arrive, Store, Goto
  <2>2. TypeOK'
    <3>1. pSync' \in [Members -> [Offsets -> Nat]]
      BY <1>2, <2>1 DEF IInv, TypeOK
    <3> QED
      BY <1>4, <2>1, <3>1 DEF IInv, TypeOK, Pcs
  <2>3. RootInv'
    <3>1. pc[PE_start] = "clear" => pSync'[PE_start][i] = 1
      BY <1>2, <1>6, <2>1 DEF IInv, TypeOK
    <3> QED
      BY <1>4, <3>1 DEF IInv, RootInv
  <2>4. MemberInv'
    <3> SUFFICES ASSUME NEW o \in Offsets \ {0} PROVE MemberOK(o)'
      BY DEF MemberInv
    <3>1. CASE o = k
      <4>1. /\ pSync'[PE_start][o] = 1
            /\ pSync'[Target(o)][0] = pSync[Target(o)][0]
            /\ pc'[Target(o)] = "wait" /\ pc[Target(o)] = "arrive"
        BY <1>0, <1>1, <1>2, <1>7, <2>1, <3>1, OffsetFacts
        DEF IInv, TypeOK, Arrive
      <4>2. announced(o) \in Int /\ collected(o) \in Int
        BY DEF IInv, TypeOK, announced, collected
      <4> QED
        BY <1>3, <1>4, <1>5, <2>1, <3>1, <4>1, <4>2 DEF MemberOK
    <3>2. CASE o # k
      <4>1. Target(o) # p
        BY <1>1, <3>2, OffsetFacts, TargetIsInjective
      <4>2. /\ pSync'[PE_start][o] = pSync[PE_start][o]
            /\ pSync'[Target(o)][0] = pSync[Target(o)][0]
            /\ pc'[Target(o)] = pc[Target(o)]
        BY <1>2, <2>1, <3>2, <4>1, OffsetFacts DEF IInv, TypeOK
      <4>3. MemberOK(o)
        BY DEF IInv, MemberInv
      <4> QED
        BY <1>4, <1>5, <2>1, <4>2, <4>3, MemberFrame
    <3> QED
      BY <3>1, <3>2
  <2> QED
    BY <2>2, <2>3, <2>4 DEF IInv
<1>8. CASE wait_until(p)
  <2>1. /\ pSync' = pSync /\ pc' = [pc EXCEPT ![p] = "reset"] /\ left' = left
        /\ pc[p] = "wait" /\ pSync[p][0] = 1
    BY <1>8 DEF wait_until, Goto
  <2>2. TypeOK'
    BY <1>4, <2>1 DEF IInv, TypeOK, Pcs
  <2>3. RootInv'
    BY <1>4, <2>1 DEF IInv, RootInv
  <2>4. MemberInv'
    <3> SUFFICES ASSUME NEW o \in Offsets \ {0} PROVE MemberOK(o)'
      BY DEF MemberInv
    <3>1. CASE o = k
      <4>1. pc'[Target(o)] = "reset"
        BY <1>1, <2>1, <3>1 DEF IInv, TypeOK
      <4> QED
        BY <1>1, <1>3, <1>4, <1>5, <2>1, <3>1, <4>1 DEF MemberOK
    <3>2. CASE o # k
      <4>1. Target(o) # p
        BY <1>1, <3>2, OffsetFacts, TargetIsInjective
      <4>2. MemberOK(o) /\ pc'[Target(o)] = pc[Target(o)]
        BY <2>1, <4>1, OffsetFacts DEF IInv, MemberInv, TypeOK
      <4> QED
        BY <1>4, <1>5, <2>1, <4>2, MemberFrame
    <3> QED
      BY <3>1, <3>2
  <2> QED
    BY <2>2, <2>3, <2>4 DEF IInv
<1>9. CASE Reset(p)
  <2>1. /\ pSync' = [pSync EXCEPT ![p][0] = 0] /\ pc[p] = "reset"
        /\ pc' = [pc EXCEPT ![p] = "idle"]
        /\ left' = [left EXCEPT ![p] = left[p] + 1]
    BY <1>9 DEF Reset, Store, Leave, Goto
  <2>2. TypeOK'
    <3>1. pSync' \in [Members -> [Offsets -> Nat]]
      BY <1>2, <2>1 DEF IInv, TypeOK
    <3> QED
      BY <1>4, <2>1, <3>1 DEF IInv, TypeOK, Pcs
  <2>3. RootInv'
    <3>1. pSync'[PE_start] = pSync[PE_start]
      BY <1>0, <2>1 DEF IInv, TypeOK
    <3> QED
      BY <1>4, <3>1 DEF IInv, RootInv
  <2>4. MemberInv'
    <3> SUFFICES ASSUME NEW o \in Offsets \ {0} PROVE MemberOK(o)'
      BY DEF MemberInv
    <3>0. pSync'[PE_start][o] = pSync[PE_start][o]
      BY <1>0, <2>1 DEF IInv, TypeOK
    <3>1. CASE o = k
      <4>1. /\ pSync'[Target(o)][0] = 0 /\ pc'[Target(o)] = "idle"
            /\ left'[Target(o)] = left[Target(o)] + 1
            /\ pc[Target(o)] = "reset"
        BY <1>1, <1>2, <2>1, <3>1 DEF IInv, TypeOK
      <4>2. announced(o) \in Int /\ collected(o) \in Int
        BY DEF IInv, TypeOK, announced, collected
      <4> QED
        BY <1>3, <1>4, <1>5, <3>0, <3>1, <4>1, <4>2 DEF MemberOK
    <3>2. CASE o # k
      <4>1. Target(o) # p
        BY <1>1, <3>2, OffsetFacts, TargetIsInjective
      <4>2. /\ pSync'[Target(o)] = pSync[Target(o)]
            /\ pc'[Target(o)] = pc[Target(o)]
            /\ left'[Target(o)] = left[Target(o)]
        BY <2>1, <4>1, OffsetFacts DEF IInv, TypeOK
      <4>3. MemberOK(o)
        BY DEF IInv, MemberInv
      <4> QED
        BY <1>4, <1>5, <3>0, <4>2, <4>3, MemberFrame
    <3> QED
      BY <3>1, <3>2
  <2> QED
    BY <2>2, <2>3, <2>4 DEF IInv
<1> QED
  BY <1>7, <1>8, <1>9
-----------------------------------------------------------------------------
(* Every step of the direct form preserves its invariant.                  *)
LEMMA NextStep ==
    ASSUME IInv, N < DirectLimit, [Next]_vars
    PROVE  IInv'
<1>1. CASE UNCHANGED vars
  BY <1>1 DEF vars, IInv, TypeOK, RootInv, MemberInv, MemberOK, announced,
              collected
<1>2. CASE Root
  <2>1. ~Count /\ ~Zero
    BY DEF IInv, RootInv, Count, Zero
  <2> QED
    BY <1>2, <2>1, CollectStep, ClearStep, AnnounceStep DEF Root
<1>3. ASSUME NEW p \in Members, internal_sync(p) \/ Other(p)
      PROVE  IInv'
  <2>1. ~amo_add(p)
    <3>1. CASE p = PE_start
      BY <3>1 DEF IInv, RootInv, amo_add
    <3>2. CASE p # PE_start
      <4>1. PICK k \in Offsets \ {0} : p = Target(k)
        BY <3>2, MemberHasOffset
      <4>2. MemberOK(k)
        BY DEF IInv, MemberInv
      <4> QED
        BY <4>1, <4>2 DEF MemberOK, amo_add
    <3> QED
      BY <3>1, <3>2
  <2> QED
    BY <1>3, <2>1, EnterStep, OtherStep DEF Other
<1> QED
  BY <1>1, <1>2, <1>3 DEF Next
-----------------------------------------------------------------------------
(*                          The counted arrivals                           *)

(* The member at offset o has added its arrival and is not released yet.   *)
Waiting(o) == pc[Target(o)] = "wait" /\ pSync[Target(o)][0] = 0

(* The arrivals the root's word counts: once it has been reset, those of   *)
(* members that were released already and have come to the next barrier.   *)
Arrivals ==
    {o \in Offsets \ {0} : Waiting(o) /\ (pc[PE_start] = "announce" => o < i)}

CountInv ==
    /\ pc[PE_start] \in {"idle", "count", "zero", "announce"}
    /\ entered[PE_start] = left[PE_start]
                           + (IF pc[PE_start] = "idle" THEN 0 ELSE 1)
    /\ pc[PE_start] # "idle" => i >= 1
    /\ pc[PE_start] \in {"count", "zero"} => i = 1
    /\ pSync[PE_start][0] = Cardinality(Arrivals)

CountedOK(o) ==
    LET p == Target(o)
        release == pSync[p][0]
    IN  /\ release \in {0, 1}
        /\ pc[p] \in {"idle", "add", "wait", "reset"}
        /\ pc[p] = "idle" =>
             left[p] = announced(o) /\ entered[p] = announced(o) /\ release = 0
        /\ pc[p] = "add" =>
             left[p] = announced(o) /\ entered[p] = announced(o) + 1 /\ release = 0
        /\ pc[p] = "wait" /\ release = 0 =>
             left[p] = announced(o) /\ entered[p] = announced(o) + 1
        /\ (pc[p] = "wait" /\ release = 1) \/ pc[p] = "reset" =>
             left[p] = announced(o) - 1 /\ entered[p] = announced(o) /\ release = 1
        /\ pc[PE_start] = "zero" \/ (pc[PE_start] = "announce" /\ o >= i)
             => Waiting(o)

CountedInv == \A o \in Offsets \ {0} : CountedOK(o)

CInv == TypeOK /\ CountInv /\ CountedInv

(* There are N - 1 members besides the root.                               *)
LEMMA OtherOffsets ==
    /\ IsFiniteSet(Offsets \ {0}) /\ Cardinality(Offsets \ {0}) = N - 1
<1>1. Offsets \ {0} = 1..(N - 1) /\ N - 1 \in Nat
  BY TeamAssumption DEF Offsets
<1>2. IsFiniteSet(1..(N - 1)) /\ Cardinality(1..(N - 1)) = N - 1
  <2>1. 1 \in Int /\ N - 1 \in Int /\ ~(1 > N - 1) => (N - 1) - 1 + 1 = N - 1
    BY <1>1
  <2>2. 1 > N - 1 => N - 1 = 0
    BY TeamAssumption
  <2> QED
    BY <1>1, <2>1, <2>2, FS_Interval
<1> QED
  BY <1>1, <1>2, Zenon

(* When N - 1 members have arrived, all of them have.                      *)
LEMMA ArrivalsFinite ==
    /\ Arrivals \in SUBSET (Offsets \ {0}) /\ IsFiniteSet(Arrivals)
    /\ Cardinality(Arrivals) = N - 1 => Arrivals = Offsets \ {0}
<1>1. Arrivals \in SUBSET (Offsets \ {0})
  BY DEF Arrivals
<1>2. PICK A : A = Arrivals
  OBVIOUS
<1> QED
  BY <1>1, <1>2, OtherOffsets, FS_Subset

(* A member nothing happens to.                                            *)
LEMMA CountedFrame ==
    ASSUME NEW o \in Offsets \ {0}, CountedOK(o),
           pc'[Target(o)] = pc[Target(o)],
           left'[Target(o)] = left[Target(o)],
           entered'[Target(o)] = entered[Target(o)],
           pSync'[Target(o)][0] = pSync[Target(o)][0],
           announced(o)' = announced(o),
           pc'[PE_start] = "zero" \/ (pc'[PE_start] = "announce" /\ o >= i')
             => Waiting(o)
    PROVE  CountedOK(o)'
BY DEF CountedOK, Waiting

(* The invariant of the counted form holds initially.                      *)
LEMMA CInit ==
    ASSUME Init
    PROVE  CInv
<1> USE RootIsTarget
<1>1. TypeOK
  BY TeamAssumption DEF Init, TypeOK, Pcs
<1>2. ASSUME NEW o \in Offsets \ {0} PROVE ~Waiting(o)
  BY OffsetFacts DEF Init, Waiting
<1>3. Cardinality(Arrivals) = 0
  <2>1. Arrivals = {}
    BY <1>2 DEF Arrivals
  <2> QED
    BY <2>1, FS_EmptySet
<1>4. CountInv
  <2>1. pSync[PE_start][0] = 0
    BY TeamAssumption DEF Init, Offsets
  <2> QED
    BY <1>3, <2>1 DEF Init, CountInv
<1>5. CountedInv
  <2> SUFFICES ASSUME NEW o \in Offsets \ {0} PROVE CountedOK(o)
    BY DEF CountedInv
  <2>1. announced(o) = 0
    BY DEF Init, announced
  <2> QED
    BY <2>1, OffsetFacts DEF Init, CountedOK
<1> QED
  BY <1>1, <1>4, <1>5 DEF CInv

(* A member enters the counted barrier.                                    *)
LEMMA CEnter ==
    ASSUME CInv, ~(N < DirectLimit), NEW p \in Members, internal_sync(p)
    PROVE  CInv'
<1> USE RootIsTarget
<1>1. TypeOK'
  BY TeamAssumption DEF CInv, TypeOK, internal_sync, Goto, Pcs
<1>0. /\ UNCHANGED <<pSync, left>> /\ pc[p] = "idle"
      /\ entered' = [entered EXCEPT ![p] = @ + 1]
      /\ p = PE_start => pc' = [pc EXCEPT ![p] = "count"] /\ i' = 1
      /\ p # PE_start => pc' = [pc EXCEPT ![p] = "add"] /\ i' = i
      /\ pc \in [Members -> Pcs] /\ entered \in [Members -> Nat]
      /\ left \in [Members -> Nat]
  BY DEF CInv, TypeOK, internal_sync, Goto
<1>2. ASSUME NEW o \in Offsets \ {0} PROVE Waiting(o)' <=> Waiting(o)
  BY <1>0, OffsetFacts DEF Waiting
<1>3. Arrivals' = Arrivals
  <2>1. ASSUME NEW o \in Offsets \ {0}
        PROVE  (pc'[PE_start] = "announce" => o < i') <=> (pc[PE_start] = "announce" => o < i)
    BY <1>0
  <2> QED
    BY <1>2, <2>1, Zenon DEF Arrivals
<1>4. CountInv'
  BY <1>0, <1>3 DEF CInv, CountInv
<1>5. ASSUME NEW o \in Offsets \ {0} PROVE CountedOK(o)'
  <2>1. CountedOK(o) /\ announced(o)' = announced(o)
    BY <1>0 DEF CInv, CountedInv, announced
  <2>2. pc'[PE_start] = "zero" \/ (pc'[PE_start] = "announce" /\ o >= i') => Waiting(o)
    BY <1>0, <2>1 DEF CountedOK
  <2>3. CASE p = Target(o)
    <3>1. /\ pc'[p] = "add" /\ entered'[p] = entered[p] + 1 /\ left'[p] = left[p]
          /\ pSync'[p][0] = pSync[p][0] /\ ~Waiting(o)
      BY <1>0, <2>3, OffsetFacts DEF Waiting
    <3> QED
      BY <1>0, <2>1, <2>2, <2>3, <3>1 DEF CountedOK
  <2>4. CASE p # Target(o)
    BY <1>0, <2>1, <2>2, <2>4, OffsetFacts, CountedFrame
  <2> QED
    BY <2>3, <2>4
<1> QED
  BY <1>1, <1>4, <1>5 DEF CInv, CountedInv

(* The root sees that the counter has reached N - 1.                       *)
LEMMA CCount ==
    ASSUME CInv, Count
    PROVE  CInv'
<1> USE RootIsTarget
<1>1. TypeOK'
  BY DEF CInv, TypeOK, Count, Goto, Pcs
<1>0. /\ UNCHANGED <<pSync, i, entered, left>> /\ pc[PE_start] = "count"
      /\ pc'[PE_start] = "zero" /\ \A q \in Members \ {PE_start} : pc'[q] = pc[q]
  BY DEF CInv, TypeOK, Count, Goto
<1>2. ASSUME NEW o \in Offsets \ {0} PROVE Waiting(o)
  <2>1. Arrivals = Offsets \ {0}
    BY ArrivalsFinite DEF CInv, CountInv, Count
  <2> QED
    BY <2>1 DEF Arrivals
<1>3. ASSUME NEW o \in Offsets \ {0} PROVE Waiting(o)' <=> Waiting(o)
  BY <1>0, OffsetFacts DEF Waiting
<1>4. Arrivals' = Arrivals
  BY <1>0, <1>3, Zenon DEF Arrivals
<1>5. CountInv'
  BY <1>0, <1>4 DEF CInv, CountInv
<1>6. ASSUME NEW o \in Offsets \ {0} PROVE CountedOK(o)'
  <2>1. CountedOK(o) /\ announced(o)' = announced(o)
    BY <1>0 DEF CInv, CountedInv, announced
  <2> QED
    BY <1>0, <1>2, <2>1, OffsetFacts, CountedFrame
<1> QED
  BY <1>1, <1>5, <1>6 DEF CInv, CountedInv

(* The root clears the counter.                                            *)
LEMMA CZero ==
    ASSUME CInv, Zero
    PROVE  CInv'
<1> USE RootIsTarget
<1>0. /\ UNCHANGED <<i, entered, left>> /\ pc[PE_start] = "zero" /\ i = 1
      /\ pc'[PE_start] = "announce" /\ \A q \in Members \ {PE_start} : pc'[q] = pc[q]
      /\ pSync'[PE_start][0] = 0
      /\ \A q \in Members \ {PE_start} : pSync'[q] = pSync[q]
  BY TeamAssumption DEF CInv, TypeOK, CountInv, Zero, Goto, Store, Offsets
<1>1. TypeOK'
  <2>0. 0 \in Offsets
    BY TeamAssumption DEF Offsets
  <2>1. pSync' \in [Members -> [Offsets -> Nat]]
    BY <2>0 DEF CInv, TypeOK, Zero, Store
  <2>2. pc' \in [Members -> Pcs]
    BY DEF CInv, TypeOK, Zero, Goto, Pcs
  <2> QED
    BY <1>0, <2>1, <2>2 DEF CInv, TypeOK
<1>2. Cardinality(Arrivals') = 0
  <2>1. Arrivals' = {}
    BY <1>0, OffsetFacts DEF Arrivals
  <2> QED
    BY <2>1, FS_EmptySet
<1>3. CountInv'
  BY <1>0, <1>2 DEF CInv, CountInv
<1>4. ASSUME NEW o \in Offsets \ {0} PROVE CountedOK(o)'
  <2>1. CountedOK(o) /\ announced(o)' = announced(o)
    BY <1>0, OffsetFacts DEF CInv, CountedInv, announced
  <2>2. Waiting(o)
    BY <1>0, <2>1 DEF CountedOK
  <2> QED
    BY <1>0, <2>1, <2>2, OffsetFacts, CountedFrame
<1> QED
  BY <1>1, <1>3, <1>4 DEF CInv, CountedInv

(* The root writes the release word of one member after the other.         *)
LEMMA CAnnounce ==
    ASSUME CInv, Announce
    PROVE  CInv'
<1> USE RootIsTarget
<1>0. /\ pc[PE_start] = "announce" /\ entered' = entered /\ i \in Nat /\ i >= 1
      /\ pc \in [Members -> Pcs] /\ left \in [Members -> Nat]
      /\ pSync \in [Members -> [Offsets -> Nat]] /\ entered \in [Members -> Nat]
  BY DEF CInv, TypeOK, CountInv, Announce
<1>1. CASE i < N
  <2>0. i \in Offsets \ {0}
    BY <1>0, <1>1, TeamAssumption DEF Offsets
  <2>1. /\ i' = i + 1 /\ UNCHANGED <<pc, left>>
        /\ pSync' = [pSync EXCEPT ![Target(i)][0] = 1]
    BY <1>1 DEF Announce, Store
  <2>2. /\ pSync'[Target(i)][0] = 1
        /\ \A q \in Members \ {Target(i)} : pSync'[q] = pSync[q]
        /\ pSync'[PE_start] = pSync[PE_start]
    BY <1>0, <2>0, <2>1, OffsetFacts
  <2>3. TypeOK'
    <3>1. pSync' \in [Members -> [Offsets -> Nat]]
      BY <1>0, <2>0, <2>1, OffsetFacts
    <3>2. i' \in Nat /\ i' <= N
      BY <1>0, <1>1, <2>1, TeamAssumption
    <3> QED
      BY <1>0, <2>1, <3>1, <3>2 DEF TypeOK
  <2>4. ASSUME NEW o \in Offsets \ {0}, o # i
        PROVE  /\ Target(o) # Target(i) /\ pSync'[Target(o)][0] = pSync[Target(o)][0]
               /\ (o < i' <=> o < i) /\ (o >= i' => o >= i)
               /\ (Waiting(o)' <=> Waiting(o))
    <3>1. Target(o) # Target(i)
      BY <2>0, <2>4, OffsetFacts, TargetIsInjective
    <3>2. pSync'[Target(o)] = pSync[Target(o)]
      BY <2>2, <3>1, OffsetFacts
    <3>3. (o < i' <=> o < i) /\ (o >= i' => o >= i)
      <4>1. o \in Nat
        BY OffsetFacts
      <4> QED
        BY <1>0, <2>1, <2>4, <4>1
    <3> QED
      BY <2>1, <3>1, <3>2, <3>3 DEF Waiting
  <2>6. ASSUME NEW o \in Offsets \ {0}
        PROVE  /\ Waiting(o)' /\ (pc'[PE_start] = "announce" => o < i')
               <=> /\ Waiting(o) /\ (pc[PE_start] = "announce" => o < i)
    <3>1. CASE o = i
      <4>1. ~Waiting(o)'
        BY <2>2, <3>1 DEF Waiting
      <4> QED
        BY <1>0, <3>1, <4>1
    <3>2. CASE o # i
      BY <2>1, <2>4, <3>2
    <3> QED
      BY <3>1, <3>2
  <2>7. Arrivals' = Arrivals
    BY <2>6, Zenon DEF Arrivals
  <2>8. CountInv'
    BY <1>0, <2>1, <2>2, <2>7 DEF CInv, CountInv
  <2>9. ASSUME NEW o \in Offsets \ {0} PROVE CountedOK(o)'
    <3>1. CountedOK(o)
      BY DEF CInv, CountedInv
    <3>2. CASE o # i
      <4>1. announced(o)' = announced(o)
        BY <1>0, <2>1, <2>4, <3>2 DEF announced
      <4>2. pc'[PE_start] = "zero" \/ (pc'[PE_start] = "announce" /\ o >= i') => Waiting(o)
        BY <1>0, <2>1, <2>4, <3>1, <3>2 DEF CountedOK
      <4> QED
        BY <1>0, <2>1, <2>4, <3>1, <3>2, <4>1, <4>2, CountedFrame
    <3>3. CASE o = i
      <4>1. /\ announced(o) = left[PE_start] /\ announced(o)' = left[PE_start] + 1
            /\ left[PE_start] \in Nat
        BY <1>0, <2>1, <3>3, OffsetFacts DEF announced
      <4>2. Waiting(o)
        BY <1>0, <3>1, <3>3, OffsetFacts DEF CountedOK
      <4>3. left[Target(o)] = announced(o) /\ entered[Target(o)] = announced(o) + 1
        BY <3>1, <4>2 DEF CountedOK, Waiting
      <4>4. ~(pc'[PE_start] = "zero") /\ ~(o >= i')
        BY <1>0, <2>1, <3>3
      <4>5. /\ pc'[Target(o)] = "wait" /\ pSync'[Target(o)][0] = 1
            /\ left'[Target(o)] = announced(o)' - 1
            /\ entered'[Target(o)] = announced(o)'
        BY <1>0, <2>1, <2>2, <3>3, <4>1, <4>2, <4>3 DEF Waiting
      <4> QED
        BY <4>4, <4>5 DEF CountedOK
    <3> QED
      BY <3>2, <3>3
  <2> QED
    BY <2>3, <2>8, <2>9 DEF CInv, CountedInv
<1>2. CASE ~(i < N)
  <2>1. /\ i' = 0 /\ pSync' = pSync
        /\ pc'[PE_start] = "idle" /\ \A q \in Members \ {PE_start} : pc'[q] = pc[q]
        /\ left'[PE_start] = left[PE_start] + 1 /\ left[PE_start] \in Nat
        /\ \A q \in Members \ {PE_start} : left'[q] = left[q]
    BY <1>0, <1>2 DEF Announce, Leave, Goto
  <2>2. TypeOK'
    <3>1. pc' \in [Members -> Pcs] /\ left' \in [Members -> Nat]
      BY <1>0, <1>2 DEF Announce, Leave, Goto, Pcs
    <3> QED
      BY <1>0, <2>1, <3>1, TeamAssumption DEF TypeOK
  <2>3. ASSUME NEW o \in Offsets \ {0}
        PROVE  (Waiting(o)' <=> Waiting(o)) /\ o < i
    <3>1. o \in Nat /\ o < N /\ Target(o) \in Members \ {PE_start}
      BY OffsetFacts
    <3>2. o < i
      BY <1>0, <1>2, <3>1, TeamAssumption
    <3> QED
      BY <2>1, <3>1, <3>2 DEF Waiting
  <2>4. Arrivals' = Arrivals
    BY <2>1, <2>3, Zenon DEF Arrivals
  <2>5. CountInv'
    BY <1>0, <2>1, <2>4 DEF CInv, CountInv
  <2>6. ASSUME NEW o \in Offsets \ {0} PROVE CountedOK(o)'
    <3>1. CountedOK(o)
      BY DEF CInv, CountedInv
    <3>2. announced(o)' = announced(o)
      BY <1>0, <2>1, <2>3 DEF announced
    <3> QED
      BY <1>0, <2>1, <3>1, <3>2, OffsetFacts, CountedFrame
  <2> QED
    BY <2>2, <2>5, <2>6 DEF CInv, CountedInv
<1> QED
  BY <1>1, <1>2

(* One more arrival is counted.                                            *)
LEMMA CAdd ==
    ASSUME CInv, NEW p \in Members, amo_add(p)
    PROVE  CInv'
<1> USE RootIsTarget
<1>0. /\ pc[p] = "add" /\ UNCHANGED <<i, entered, left>>
      /\ pc' = [pc EXCEPT ![p] = "wait"]
      /\ pSync' = [pSync EXCEPT ![PE_start][0] = pSync[PE_start][0] + 1]
      /\ pc \in [Members -> Pcs] /\ left \in [Members -> Nat] /\ i \in Nat
      /\ pSync \in [Members -> [Offsets -> Nat]] /\ entered \in [Members -> Nat]
  BY DEF CInv, TypeOK, amo_add, Goto, Store
<1>a. 0 \in Offsets
  BY TeamAssumption DEF Offsets
<1>1. p # PE_start
  BY <1>0 DEF CInv, CountInv
<1>2. PICK k \in Offsets \ {0} : p = Target(k)
  BY <1>1, MemberHasOffset
<1>3. /\ pc'[p] = "wait" /\ \A q \in Members \ {p} : pc'[q] = pc[q]
      /\ pSync'[PE_start][0] = pSync[PE_start][0] + 1
      /\ \A q \in Members \ {PE_start} : pSync'[q] = pSync[q]
      /\ pc'[PE_start] = pc[PE_start]
  BY <1>0, <1>a, <1>1
<1>4. TypeOK'
  <2>1. pSync' \in [Members -> [Offsets -> Nat]]
    BY <1>0, <1>a
  <2>2. pc' \in [Members -> Pcs]
    BY <1>0 DEF Pcs
  <2> QED
    BY <1>0, <2>1, <2>2 DEF CInv, TypeOK
<1>5. CountedOK(k) /\ ~Waiting(k) /\ pSync[p][0] = 0
  BY <1>0, <1>2 DEF CInv, CountedInv, CountedOK, Waiting
<1>6. /\ pc[PE_start] # "zero"
      /\ pc[PE_start] = "announce" => k < i
  BY <1>0, <1>5, OffsetFacts DEF CountedOK
<1>7. Waiting(k)'
  BY <1>1, <1>2, <1>3, <1>5 DEF Waiting
<1>8. ASSUME NEW o \in Offsets \ {0}, o # k PROVE Waiting(o)' <=> Waiting(o)
  <2>1. Target(o) \in Members \ {p, PE_start}
    BY <1>2, <1>8, OffsetFacts, TargetIsInjective
  <2> QED
    BY <1>3, <2>1 DEF Waiting
<1>9. Arrivals' = Arrivals \cup {k} /\ k \notin Arrivals
  <2>1. k \notin Arrivals
    BY <1>5 DEF Arrivals
  <2>2. ASSUME NEW o \in Offsets \ {0} PROVE o \in Arrivals' <=> o \in Arrivals \cup {k}
    <3>1. CASE o = k
      BY <1>0, <1>3, <1>6, <1>7, <3>1 DEF Arrivals
    <3>2. CASE o # k
      BY <1>0, <1>3, <1>8, <3>2 DEF Arrivals
    <3> QED
      BY <3>1, <3>2
  <2>3. Arrivals' \subseteq Offsets \ {0} /\ Arrivals \subseteq Offsets \ {0}
    BY DEF Arrivals
  <2> QED
    BY <2>1, <2>2, <2>3
<1>10. Cardinality(Arrivals') = Cardinality(Arrivals) + 1
  <2>1. PICK A : A = Arrivals /\ Arrivals' = A \cup {k}
    BY <1>9
  <2>2. IsFiniteSet(A) /\ k \notin A
    BY <1>9, <2>1, ArrivalsFinite
  <2>3. Cardinality(A \cup {k}) = Cardinality(A) + 1
    BY <2>2, FS_AddElement, Zenon
  <2> QED
    BY <2>1, <2>3
<1>11. CountInv'
  BY <1>0, <1>1, <1>3, <1>10 DEF CInv, CountInv
<1>12. ASSUME NEW o \in Offsets \ {0} PROVE CountedOK(o)'
  <2>1. CountedOK(o) /\ announced(o)' = announced(o)
    BY <1>0, <1>3 DEF CInv, CountedInv, announced
  <2>2. CASE o = k
    <3>1. /\ pc'[p] = "wait" /\ pSync'[p][0] = 0 /\ left'[p] = announced(o)'
          /\ entered'[p] = announced(o)' + 1
      BY <1>0, <1>1, <1>2, <1>3, <1>5, <2>1, <2>2 DEF CountedOK
    <3> QED
      BY <1>2, <1>7, <2>2, <3>1 DEF CountedOK
  <2>3. CASE o # k
    <3>1. Target(o) \in Members \ {p, PE_start}
      BY <1>2, <2>3, OffsetFacts, TargetIsInjective
    <3>2. pc'[PE_start] = "zero" \/ (pc'[PE_start] = "announce" /\ o >= i') => Waiting(o)
      BY <1>0, <1>3, <2>1 DEF CountedOK
    <3> QED
      BY <1>0, <1>3, <2>1, <3>1, <3>2, CountedFrame
  <2> QED
    BY <2>2, <2>3
<1> QED
  BY <1>4, <1>11, <1>12 DEF CInv, CountedInv

(* A released member takes note and clears its word.                       *)
LEMMA CRelease ==
    ASSUME CInv, NEW p \in Members, wait_until(p) \/ Reset(p)
    PROVE  CInv'
<1> USE RootIsTarget
<1>0. /\ UNCHANGED <<i, entered>>
      /\ pc \in [Members -> Pcs] /\ left \in [Members -> Nat] /\ i \in Nat
      /\ pSync \in [Members -> [Offsets -> Nat]] /\ entered \in [Members -> Nat]
  BY DEF CInv, TypeOK, wait_until, Reset
<1>a. 0 \in Offsets
  BY TeamAssumption DEF Offsets
<1>1. p # PE_start
  BY DEF CInv, CountInv, wait_until, Reset
<1>2. PICK k \in Offsets \ {0} : p = Target(k)
  BY <1>1, MemberHasOffset
<1>3. /\ \A q \in Members \ {p} : pc'[q] = pc[q] /\ pSync'[q] = pSync[q]
                                  /\ left'[q] = left[q]
      /\ \/ /\ pc[p] = "wait" /\ pSync[p][0] = 1 /\ pSync' = pSync /\ left' = left
            /\ pc'[p] = "reset"
         \/ /\ pc[p] = "reset" /\ pc'[p] = "idle" /\ left'[p] = left[p] + 1
            /\ pSync'[p][0] = 0
  <2>1. CASE wait_until(p)
    BY <1>0, <2>1 DEF wait_until, Goto
  <2>2. CASE Reset(p)
    BY <1>0, <1>a, <2>2 DEF Reset, Goto, Store, Leave
  <2> QED
    BY <2>1, <2>2
<1>4. TypeOK'
  <2>1. pSync' \in [Members -> [Offsets -> Nat]]
    <3>1. CASE wait_until(p)
      BY <1>0, <3>1 DEF wait_until
    <3>2. CASE Reset(p)
      BY <1>0, <1>a, <3>2 DEF Reset, Store
    <3> QED
      BY <3>1, <3>2
  <2>2. pc' \in [Members -> Pcs] /\ left' \in [Members -> Nat]
    <3>1. CASE wait_until(p)
      BY <1>0, <3>1 DEF wait_until, Goto, Pcs
    <3>2. CASE Reset(p)
      BY <1>0, <3>2 DEF Reset, Leave, Goto, Pcs
    <3> QED
      BY <3>1, <3>2
  <2> QED
    BY <1>0, <2>1, <2>2 DEF CInv, TypeOK
<1>5. CountedOK(k) /\ ~Waiting(k) /\ ~Waiting(k)'
  BY <1>2, <1>3 DEF CInv, CountedInv, Waiting
<1>6. ASSUME NEW o \in Offsets \ {0} PROVE Waiting(o)' <=> Waiting(o)
  <2>1. CASE o = k
    BY <1>5, <2>1
  <2>2. CASE o # k
    <3>1. Target(o) \in Members \ {p}
      BY <1>2, <2>2, OffsetFacts, TargetIsInjective
    <3> QED
      BY <1>3, <3>1 DEF Waiting
  <2> QED
    BY <2>1, <2>2
<1>7. /\ pc'[PE_start] = pc[PE_start] /\ pSync'[PE_start] = pSync[PE_start]
      /\ left'[PE_start] = left[PE_start]
  BY <1>1, <1>3
<1>8. Arrivals' = Arrivals
  BY <1>0, <1>6, <1>7, Zenon DEF Arrivals
<1>9. CountInv'
  BY <1>0, <1>7, <1>8 DEF CInv, CountInv
<1>10. ASSUME NEW o \in Offsets \ {0} PROVE CountedOK(o)'
  <2>1. CountedOK(o) /\ announced(o)' = announced(o)
    BY <1>0, <1>7 DEF CInv, CountedInv, announced
  <2>2. pc'[PE_start] = "zero" \/ (pc'[PE_start] = "announce" /\ o >= i') => Waiting(o)
    BY <1>0, <1>7, <2>1 DEF CountedOK
  <2>3. CASE o = k
    <3>1. /\ left[p] = announced(o) - 1 /\ entered[p] = announced(o)
          /\ pSync[p][0] = 1
      BY <1>2, <1>3, <2>1, <2>3 DEF CountedOK
    <3>2. announced(o) \in Int
      BY <1>0 DEF announced
    <3>3. ~(pc'[PE_start] = "zero" \/ (pc'[PE_start] = "announce" /\ o >= i'))
      BY <1>5, <2>2, <2>3
    <3>4. CASE pc'[p] = "reset"
      BY <1>0, <1>2, <1>3, <2>1, <2>3, <3>1, <3>3, <3>4 DEF CountedOK
    <3>5. CASE pc'[p] = "idle"
      <4>1. /\ left'[p] = announced(o)' /\ entered'[p] = announced(o)'
            /\ pSync'[p][0] = 0
        BY <1>0, <1>3, <2>1, <3>1, <3>2, <3>5
      <4> QED
        BY <1>2, <2>3, <3>3, <3>5, <4>1 DEF CountedOK
    <3> QED
      BY <1>3, <3>4, <3>5
  <2>4. CASE o # k
    <3>1. Target(o) \in Members \ {p}
      BY <1>2, <2>4, OffsetFacts, TargetIsInjective
    <3> QED
      BY <1>0, <1>3, <2>1, <2>2, <3>1, CountedFrame
  <2> QED
    BY <2>3, <2>4
<1> QED
  BY <1>4, <1>9, <1>10 DEF CInv, CountedInv

(* Every step of the counted form preserves its invariant.                 *)
LEMMA CNext ==
    ASSUME CInv, ~(N < DirectLimit), [Next]_vars
    PROVE  CInv'
<1> USE RootIsTarget
<1>1. CASE UNCHANGED vars
  <2>1. Arrivals' = Arrivals
    BY <1>1 DEF vars, Arrivals, Waiting
  <2> QED
    BY <1>1, <2>1 DEF vars, CInv, TypeOK, CountInv, CountedInv, CountedOK, Waiting, announced
<1>2. CASE Root
  <2>1. ~Collect /\ ~Clear
    BY DEF CInv, CountInv, Collect, Clear
  <2> QED
    BY <1>2, <2>1, CCount, CZero, CAnnounce DEF Root
<1>3. ASSUME NEW p \in Members, internal_sync(p) \/ Other(p)
      PROVE  CInv'
  <2>1. ~Arrive(p)
    <3>1. CASE p = PE_start
      BY <3>1 DEF CInv, CountInv, Arrive
    <3>2. CASE p # PE_start
      <4>1. PICK k \in Offsets \ {0} : p = Target(k)
        BY <3>2, MemberHasOffset
      <4>2. CountedOK(k)
        BY DEF CInv, CountedInv
      <4> QED
        BY <4>1, <4>2 DEF CountedOK, Arrive
    <3> QED
      BY <3>1, <3>2
  <2> QED
    BY <1>3, <2>1, CEnter, CAdd, CRelease DEF Other
<1> QED
  BY <1>1, <1>2, <1>3 DEF Next
-----------------------------------------------------------------------------
(*                       What both forms have in common                    *)

(* The barriers the root has released at least one member from.            *)
Released == left[PE_start] + (IF pc[PE_start] = "announce" THEN 1 ELSE 0)

(* What the root releases, it has collected from everybody.                *)
LEMMA EverybodyEntered ==
    ASSUME IInv, NEW q \in Members
    PROVE  entered[q] >= Released /\ entered[q] \in Nat /\ Released \in Nat
<1> USE RootIsTarget
<1>0. left[PE_start] \in Nat /\ Released \in Nat /\ entered[q] \in Nat
  BY DEF IInv, TypeOK, Released
<1>1. CASE q = PE_start
  BY <1>0, <1>1 DEF IInv, RootInv, Released
<1>2. CASE q # PE_start
  <2>1. PICK k \in Offsets \ {0} : q = Target(k)
    BY <1>2, MemberHasOffset
  <2>2. MemberOK(k)
    BY DEF IInv, MemberInv
  <2>3. collected(k) \in Int /\ collected(k) >= Released
    BY <1>0 DEF collected, Released
  <2>4. announced(k) \in Int
    BY <1>0 DEF announced
  <2>5. entered[q] >= collected(k)
    BY <2>1, <2>2, <2>3, <2>4 DEF MemberOK
  <2> QED
    BY <1>0, <2>3, <2>5
<1> QED
  BY <1>1, <1>2

(* What a member has left, the root has released.                          *)
LEMMA LeftIsReleased ==
    ASSUME IInv, NEW p \in Members
    PROVE  /\ left[p] <= Released /\ left[p] \in Nat
           /\ pc[p] = "reset" => entered[p] <= Released
                                 /\ entered[p] = left[p] + 1
           /\ pc[p] = "idle" => entered[p] = left[p]
<1> USE RootIsTarget
<1>0. left[PE_start] \in Nat /\ Released \in Nat /\ left[p] \in Nat
  BY DEF IInv, TypeOK, Released
<1>1. CASE p = PE_start
  BY <1>0, <1>1 DEF IInv, RootInv, Released
<1>2. CASE p # PE_start
  <2>1. PICK k \in Offsets \ {0} : p = Target(k)
    BY <1>2, MemberHasOffset
  <2>2. MemberOK(k)
    BY DEF IInv, MemberInv
  <2>3. announced(k) \in Int /\ announced(k) <= Released
    BY <1>0 DEF announced, Released
  <2>4. left[p] <= announced(k)
    BY <2>1, <2>2, <2>3 DEF MemberOK
  <2>5. pc[p] = "reset" => entered[p] = announced(k) /\ left[p] = announced(k) - 1
    BY <2>1, <2>2 DEF MemberOK
  <2>6. pc[p] = "idle" => entered[p] = left[p]
    BY <2>1, <2>2 DEF MemberOK
  <2> QED
    BY <1>0, <2>3, <2>4, <2>5, <2>6
<1> QED
  BY <1>1, <1>2

(* The same of the counted barrier.                                        *)
LEMMA CEverybodyEntered ==
    ASSUME CInv, NEW q \in Members
    PROVE  entered[q] >= Released /\ entered[q] \in Nat /\ Released \in Nat
<1> USE RootIsTarget
<1>0. left[PE_start] \in Nat /\ Released \in Nat /\ entered[q] \in Nat /\ i \in Nat
  BY DEF CInv, TypeOK, Released
<1>1. CASE q = PE_start
  BY <1>0, <1>1 DEF CInv, CountInv, Released
<1>2. CASE q # PE_start
  <2>1. PICK k \in Offsets \ {0} : q = Target(k)
    BY <1>2, MemberHasOffset
  <2>2. CountedOK(k) /\ k \in Nat
    BY OffsetFacts DEF CInv, CountedInv
  <2>3. announced(k) \in Int
    BY <1>0 DEF announced
  <2>4. entered[q] >= announced(k)
    BY <2>1, <2>2, <2>3 DEF CountedOK
  <2>5. CASE pc[PE_start] = "announce" /\ ~(k < i)
    <3>1. Waiting(k)
      BY <1>0, <2>2, <2>5 DEF CountedOK
    <3>2. entered[q] = announced(k) + 1
      BY <2>1, <2>2, <3>1 DEF CountedOK, Waiting
    <3> QED
      BY <1>0, <2>5, <3>2 DEF announced, Released
  <2>6. CASE ~(pc[PE_start] = "announce" /\ ~(k < i))
    BY <1>0, <2>4, <2>6 DEF announced, Released
  <2> QED
    BY <2>5, <2>6
<1> QED
  BY <1>1, <1>2

(* A member has left no more barriers than the root has released.          *)
LEMMA CLeftIsReleased ==
    ASSUME CInv, NEW p \in Members
    PROVE  /\ left[p] <= Released /\ left[p] \in Nat
           /\ pc[p] = "reset" => entered[p] <= Released
                                 /\ entered[p] = left[p] + 1
           /\ pc[p] = "idle" => entered[p] = left[p]
<1> USE RootIsTarget
<1>0. left[PE_start] \in Nat /\ Released \in Nat /\ left[p] \in Nat
  BY DEF CInv, TypeOK, Released
<1>1. CASE p = PE_start
  BY <1>0, <1>1 DEF CInv, CountInv, Released
<1>2. CASE p # PE_start
  <2>1. PICK k \in Offsets \ {0} : p = Target(k)
    BY <1>2, MemberHasOffset
  <2>2. CountedOK(k)
    BY DEF CInv, CountedInv
  <2>3. announced(k) \in Int /\ announced(k) <= Released
    BY <1>0 DEF announced, Released
  <2>4. left[p] <= announced(k)
    BY <2>1, <2>2, <2>3 DEF CountedOK
  <2>5. pc[p] = "reset" => entered[p] = announced(k) /\ left[p] = announced(k) - 1
    BY <2>1, <2>2 DEF CountedOK
  <2>6. pc[p] = "idle" => entered[p] = left[p]
    BY <2>1, <2>2 DEF CountedOK
  <2> QED
    BY <1>0, <2>3, <2>4, <2>5, <2>6
<1> QED
  BY <1>1, <1>2

(* The invariant of the form the team's size selects.                      *)
BarrierInv == IF N < DirectLimit THEN IInv ELSE CInv

(* The invariant of either form holds initially.                           *)
LEMMA BarrierInit ==
    ASSUME Init
    PROVE  BarrierInv
BY InitInv, CInit DEF BarrierInv

(* Every step of either form preserves its invariant.                      *)
LEMMA BarrierStep ==
    ASSUME BarrierInv, [Next]_vars
    PROVE  BarrierInv'
<1>1. CASE N < DirectLimit
  BY <1>1, NextStep DEF BarrierInv
<1>2. CASE ~(N < DirectLimit)
  BY <1>2, CNext DEF BarrierInv
<1> QED
  BY <1>1, <1>2

(* Nobody is ahead of what the root released, nobody behind.               *)
LEMMA InStep ==
    ASSUME BarrierInv, NEW p \in Members
    PROVE  /\ entered[p] >= Released /\ entered[p] \in Nat /\ Released \in Nat
           /\ left[p] <= Released /\ left[p] \in Nat
           /\ pc[p] = "reset" => entered[p] <= Released
                                 /\ entered[p] = left[p] + 1
           /\ pc[p] = "idle" => entered[p] = left[p]
           /\ pc[PE_start] = "announce" => entered[PE_start] = left[PE_start] + 1
<1>1. CASE N < DirectLimit
  <2>1. IInv
    BY <1>1 DEF BarrierInv
  <2>2. pc[PE_start] = "announce" => entered[PE_start] = left[PE_start] + 1
    BY <2>1 DEF IInv, RootInv
  <2> QED
    BY <2>1, <2>2, EverybodyEntered, LeftIsReleased
<1>2. CASE ~(N < DirectLimit)
  <2>1. CInv
    BY <1>2 DEF BarrierInv
  <2>2. pc[PE_start] = "announce" => entered[PE_start] = left[PE_start] + 1
    BY <2>1 DEF CInv, CountInv
  <2> QED
    BY <2>1, <2>2, CEverybodyEntered, CLeftIsReleased
<1> QED
  BY <1>1, <1>2

(* The invariant of either form implies that nobody leaves early.          *)
LEMMA InvIsSafe ==
    ASSUME BarrierInv
    PROVE  NobodyLeavesEarly
<1>1. ASSUME NEW p \in Members, NEW o \in Members
      PROVE  left[p] <= entered[o]
  <2>1. entered[o] >= Released /\ entered[o] \in Nat /\ Released \in Nat
    BY InStep
  <2>2. left[p] <= Released /\ left[p] \in Nat
    BY InStep
  <2> QED
    BY <2>1, <2>2
<1> QED
  BY <1>1 DEF NobodyLeavesEarly

(* A step of the barrier is an Enter, a Leave or a stutter.                *)
LEMMA StepRefines ==
    ASSUME BarrierInv, [Next]_vars
    PROVE  [B!Next]_<<entered, left>>
<1> USE RootIsTarget
<1>1. ASSUME NEW p \in Members, internal_sync(p)
      PROVE  B!Enter(p)
  BY <1>1, InStep DEF B!Enter, internal_sync
<1>2. ASSUME Announce, ~(i < N)
      PROVE  B!Leave(PE_start)
  <2>1. /\ entered[PE_start] = left[PE_start] + 1
        /\ Released = left[PE_start] + 1
    BY <1>2, InStep DEF Announce, Released
  <2>2. \A o \in Members : entered[o] >= entered[PE_start]
    BY <2>1, InStep
  <2> QED
    BY <1>2, <2>1, <2>2 DEF Announce, Leave, B!Leave
<1>3. ASSUME NEW p \in Members, Reset(p)
      PROVE  B!Leave(p)
  <2>1. /\ entered[p] <= Released /\ entered[p] = left[p] + 1
        /\ left[p] \in Nat
    BY <1>3, InStep DEF Reset
  <2>2. \A o \in Members : entered[o] >= entered[p]
    <3> TAKE o \in Members
    <3>1. entered[o] >= Released /\ entered[o] \in Nat /\ Released \in Nat
      BY InStep
    <3> QED
      BY <2>1, <3>1
  <2> QED
    BY <1>3, <2>1, <2>2 DEF Reset, Leave, B!Leave
<1>4. ASSUME \/ UNCHANGED vars \/ Collect \/ Clear \/ Count \/ Zero
             \/ Announce /\ i < N
             \/ \E p \in Members : Arrive(p) \/ amo_add(p) \/ wait_until(p)
      PROVE  UNCHANGED <<entered, left>>
  BY <1>4 DEF vars, Collect, Clear, Count, Zero, Announce, Arrive, amo_add,
              wait_until
<1>5. CASE Root
  BY <1>5, <1>2, <1>4 DEF Root, B!Next
<1>6. ASSUME NEW p \in Members, internal_sync(p) \/ Other(p)
      PROVE  [B!Next]_<<entered, left>>
  BY <1>6, <1>1, <1>3, <1>4 DEF Other, B!Next
<1> QED
  BY <1>4, <1>5, <1>6 DEF Next
-----------------------------------------------------------------------------
(*                        The words after a barrier                        *)

(* The words no member ever waits on stay zero.                            *)
UnusedInv ==
    /\ \A p \in Members \ {PE_start}, o \in Offsets \ {0} : pSync[p][o] = 0
    /\ N < DirectLimit => pSync[PE_start][0] = 0
    /\ N >= DirectLimit => \A o \in Offsets \ {0} : pSync[PE_start][o] = 0

(* No step writes a word of pSync that its form does not use.              *)
LEMMA UnusedStep ==
    ASSUME BarrierInv, UnusedInv, [Next]_vars
    PROVE  UnusedInv'
<1> USE RootIsTarget
<1>0. pSync \in [Members -> [Offsets -> Nat]] /\ i \in Nat /\ 0 \in Offsets
      /\ N \in Nat /\ DirectLimit \in Nat
  BY TeamAssumption DEF BarrierInv, IInv, CInv, TypeOK, Offsets
<1>1. ASSUME UNCHANGED pSync PROVE UnusedInv'
  BY <1>1 DEF UnusedInv
<1>2. ASSUME NEW p \in Members \ {PE_start}, NEW v, Store(p, 0, v) PROVE UnusedInv'
  <2>1. /\ pSync'[PE_start] = pSync[PE_start]
        /\ \A q \in Members, o \in Offsets \ {0} : pSync'[q][o] = pSync[q][o]
    BY <1>0, <1>2 DEF Store
  <2> QED
    BY <2>1 DEF UnusedInv
<1>3. ASSUME NEW o \in Offsets \ {0}, NEW v, Store(PE_start, o, v), N < DirectLimit
      PROVE  UnusedInv'
  <2>1. /\ pSync'[PE_start][0] = pSync[PE_start][0]
        /\ \A q \in Members \ {PE_start} : pSync'[q] = pSync[q]
    BY <1>0, <1>3 DEF Store
  <2>2. ~(N >= DirectLimit)
    BY <1>0, <1>3
  <2> QED
    BY <2>1, <2>2 DEF UnusedInv
<1>4. ASSUME NEW v, Store(PE_start, 0, v), ~(N < DirectLimit)
      PROVE  UnusedInv'
  <2>1. /\ \A o \in Offsets \ {0} : pSync'[PE_start][o] = pSync[PE_start][o]
        /\ \A q \in Members \ {PE_start} : pSync'[q] = pSync[q]
    BY <1>0, <1>4 DEF Store
  <2> QED
    BY <1>4, <2>1 DEF UnusedInv
<1>5. CASE Collect \/ Count \/ UNCHANGED vars
  BY <1>1, <1>5 DEF Collect, Count, vars
<1>6. CASE Clear
  <2>1. N < DirectLimit
    BY <1>6 DEF Clear, BarrierInv, CInv, CountInv
  <2>2. i \in Offsets \ {0}
    BY <1>0, <1>6, <2>1 DEF Clear, BarrierInv, IInv, RootInv, Offsets
  <2> QED
    BY <1>3, <1>6, <2>1, <2>2 DEF Clear
<1>7. CASE Zero
  <2>1. ~(N < DirectLimit)
    BY <1>7 DEF Zero, BarrierInv, IInv, RootInv
  <2> QED
    BY <1>4, <1>7, <2>1 DEF Zero
<1>8. CASE Announce
  <2>1. i >= 1
    BY <1>8 DEF Announce, BarrierInv, IInv, RootInv, CInv, CountInv
  <2>2. i < N => Target(i) \in Members \ {PE_start}
    <3>1. i < N => i \in Offsets \ {0}
      BY <1>0, <2>1 DEF Offsets
    <3> QED
      BY <3>1, OffsetFacts
  <2> QED
    BY <1>1, <1>2, <1>8, <2>2 DEF Announce
<1>9. ASSUME NEW p \in Members, internal_sync(p) \/ wait_until(p) PROVE UnusedInv'
  BY <1>1, <1>9 DEF internal_sync, wait_until
<1>10. ASSUME NEW p \in Members, Arrive(p) \/ amo_add(p) \/ Reset(p) PROVE UnusedInv'
  <2>1. p # PE_start
    BY <1>10 DEF Arrive, amo_add, Reset, BarrierInv, IInv, RootInv, CInv, CountInv
  <2>2. PICK k \in Offsets \ {0} : p = Target(k)
    BY <2>1, MemberHasOffset
  <2>3. pe_offset(p) \in Offsets \ {0}
    BY <2>2, OffsetFacts
  <2>4. Arrive(p) => N < DirectLimit
    BY <2>2 DEF Arrive, BarrierInv, CInv, CountedInv, CountedOK
  <2>5. amo_add(p) => ~(N < DirectLimit)
    BY <2>2 DEF amo_add, BarrierInv, IInv, MemberInv, MemberOK
  <2> QED
    BY <1>2, <1>3, <1>4, <1>10, <2>1, <2>3, <2>4, <2>5 DEF Arrive, amo_add, Reset
<1> QED
  BY <1>5, <1>6, <1>7, <1>8, <1>9, <1>10 DEF Next, Root, Other

(* When every member is idle, all words of pSync are zero.                 *)
LEMMA IdleIsClean ==
    ASSUME BarrierInv, UnusedInv, \A p \in Members : pc[p] = "idle"
    PROVE  pSync = [p \in Members |-> [o \in Offsets |-> 0]]
<1> USE RootIsTarget
<1>0. pSync \in [Members -> [Offsets -> Nat]] /\ N \in Nat /\ DirectLimit \in Nat
  BY TeamAssumption DEF BarrierInv, IInv, CInv, TypeOK
<1>1. ASSUME NEW k \in Offsets \ {0} PROVE pSync[Target(k)][0] = 0
  BY <1>1, OffsetFacts DEF BarrierInv, IInv, MemberInv, MemberOK, CInv, CountedInv,
     CountedOK
<1>2. ASSUME NEW k \in Offsets \ {0} PROVE pSync[PE_start][k] = 0
  <2>1. CASE N < DirectLimit
    BY <2>1, OffsetFacts DEF BarrierInv, IInv, MemberInv, MemberOK
  <2>2. CASE ~(N < DirectLimit)
    BY <1>0, <2>2 DEF UnusedInv
  <2> QED
    BY <2>1, <2>2
<1>3. pSync[PE_start][0] = 0
  <2>1. CASE N < DirectLimit
    BY <2>1 DEF UnusedInv
  <2>2. CASE ~(N < DirectLimit)
    <3>1. Arrivals = {}
      BY OffsetFacts DEF Arrivals, Waiting
    <3>2. pSync[PE_start][0] = Cardinality({})
      BY <2>2, <3>1 DEF BarrierInv, CInv, CountInv
    <3> QED
      BY <3>2, FS_EmptySet
  <2> QED
    BY <2>1, <2>2
<1>4. ASSUME NEW p \in Members, NEW o \in Offsets PROVE pSync[p][o] = 0
  <2>1. CASE p = PE_start
    BY <1>2, <1>3, <2>1
  <2>2. CASE p # PE_start /\ o # 0
    BY <2>2 DEF UnusedInv
  <2>3. CASE p # PE_start /\ o = 0
    <3>1. PICK k \in Offsets \ {0} : p = Target(k)
      BY <2>3, MemberHasOffset
    <3> QED
      BY <1>1, <2>3, <3>1
  <2> QED
    BY <2>1, <2>2, <2>3
<1> QED
  BY <1>0, <1>4
-----------------------------------------------------------------------------
(* The inductive invariant of the direct barrier holds for every team of   *)
(* fewer than DirectLimit PEs.                                             *)
THEOREM DirectBarrierInductive ==
    ASSUME N < DirectLimit
    PROVE  Spec => []DirectInv
<1>1. Init => IInv
  BY InitInv
<1>2. IInv /\ [Next]_vars => IInv'
  BY NextStep
<1>3. IInv => DirectInv
  BY DEF IInv, DirectInv
<1> QED
  BY <1>1, <1>2, <1>3, PTL DEF Spec

(* The one of the barrier that counts arrivals, for every larger team:     *)
(* the root's word is the number of members that wait and that it has not  *)
(* yet released, although fast members already arrive for the next one.    *)
THEOREM CountedBarrierInductive ==
    ASSUME ~(N < DirectLimit)
    PROVE  Spec => []CInv
<1>1. Init => CInv
  BY CInit
<1>2. CInv /\ [Next]_vars => CInv'
  BY CNext
<1> QED
  BY <1>1, <1>2, PTL DEF Spec

(* No PE leaves a barrier before every PE of the team has entered it, for  *)
(* every team size and both forms of internal_sync.                        *)
THEOREM BarrierSafe == Spec => []NobodyLeavesEarly
<1>1. Init => BarrierInv
  BY BarrierInit
<1>2. BarrierInv /\ [Next]_vars => BarrierInv'
  BY BarrierStep
<1>3. BarrierInv => NobodyLeavesEarly
  BY InvIsSafe
<1> QED
  BY <1>1, <1>2, <1>3, PTL DEF Spec

(* Both forms implement Barrier: entering and leaving are as that          *)
(* specification says, for every team.                                     *)
THEOREM BarrierImplements == Spec => ImplementsBarrier
<1>1. Init => BarrierInv
  BY BarrierInit
<1>2. BarrierInv /\ [Next]_vars => BarrierInv'
  BY BarrierStep
<1>3. Init => B!Init
  BY DEF Init, B!Init
<1>4. BarrierInv /\ [Next]_vars => [B!Next]_<<entered, left>>
  BY StepRefines
<1> QED
  BY <1>1, <1>2, <1>3, <1>4, PTL DEF Spec, ImplementsBarrier, B!Spec

(* Whenever all PEs are outside a barrier, every word of pSync is zero     *)
(* again, so the next barrier finds what it relies on.                     *)
THEOREM BarrierLeavesClean == Spec => []QuiescentIsClean
<1>1. Init => BarrierInv /\ UnusedInv
  <2> SUFFICES ASSUME Init PROVE UnusedInv
    BY BarrierInit
  <2> QED
    BY RootIsTarget, TeamAssumption DEF Init, UnusedInv, Offsets
<1>2. BarrierInv /\ UnusedInv /\ [Next]_vars => BarrierInv' /\ UnusedInv'
  BY BarrierStep, UnusedStep
<1>3. BarrierInv /\ UnusedInv => QuiescentIsClean
  BY IdleIsClean DEF QuiescentIsClean
<1> QED
  BY <1>1, <1>2, <1>3, PTL DEF Spec
===============================================================================
