--------------------------- MODULE GDABarrierProofs ---------------------------
(***************************************************************************)
(* The team barriers of the GDA backend that have a word per member, the   *)
(* direct one and the one of a work-group, are safe, implement Barrier and *)
(* leave pSync clean: for every team, any number of wavefronts and of      *)
(* barriers on the same pSync, values that are copied into the work        *)
(* request or read later, and an adapter that executes them at any time.   *)
(***************************************************************************)
EXTENDS GDABarrier, RingTheorems, TLAPS

(* The forms with a word per member.  The wavefronts of a work-group       *)
(* address the members correctly only where the stride is 1 or there is    *)
(* one wavefront.                                                          *)
WordPerMember ==
    /\ GDAAssumption
    /\ Form \in {"direct", "wg"}
    /\ Form = "wg" => Stride = 1 \/ Wfs = 1

(* The assumption, as facts about single constants.                        *)
LEMMA GdaConstants ==
    ASSUME GDAAssumption
    PROVE  /\ World \in Nat /\ PE_start \in Nat /\ MaxRounds \in Nat
           /\ Stride \in Nat /\ Stride >= 1 /\ N \in Nat /\ N >= 1
           /\ Wfs \in Nat /\ Wfs >= 1
           /\ PE_start + (N - 1) * Stride < World
BY DEF GDAAssumption

(* The PE at an offset of the team, and its offset.                        *)
LEMMA GdaTarget ==
    ASSUME GDAAssumption, NEW k \in Offsets
    PROVE  /\ Target(k) \in PEs /\ Target(k) \in Members
           /\ pe_offset(Target(k)) = k
           /\ Target(0) = PE_start
<1> USE GdaConstants
<1>1. k \in Nat /\ N - 1 \in Nat /\ k <= N - 1
  BY DEF Offsets
<1>2. k * Stride \in Nat /\ k * Stride <= (N - 1) * Stride
  <2>1. PICK d \in Nat : d = (N - 1) - k
    BY <1>1
  <2>2. (N - 1) * Stride = k * Stride + d * Stride /\ d * Stride \in Nat
    BY <1>1, <2>1
  <2> QED
    BY <1>1, <2>2
<1>3. Target(k) \in PEs
  <2>1. (N - 1) * Stride \in Nat
    BY <1>1
  <2> HIDE GdaConstants
  <2>2. PICK x \in Nat, y \in Nat : x = k * Stride /\ y = (N - 1) * Stride
    BY <1>2, <2>1
  <2>3. PE_start + x \in 0..(World - 1)
    BY <1>2, <2>2, GdaConstants
  <2> QED
    BY <2>2, <2>3 DEF Target, PEs
<1>4. Target(k) \in Members
  BY DEF Members
<1>5. pe_offset(Target(k)) = k
  <2>1. Target(k) - PE_start = k * Stride
    BY <1>2 DEF Target
  <2>2. (k * Stride) \div Stride = k
    BY <1>1
  <2> QED
    BY <2>1, <2>2 DEF pe_offset
<1>6. Target(0) = PE_start
  BY DEF Target
<1> QED
  BY <1>3, <1>4, <1>5, <1>6

(* Two offsets name two PEs.                                               *)
LEMMA GdaInjective ==
    ASSUME GDAAssumption, NEW k \in Offsets, NEW l \in Offsets,
           Target(k) = Target(l)
    PROVE  k = l
BY GdaTarget

(* The root is the member at offset 0.                                     *)
LEMMA GdaRoot ==
    ASSUME GDAAssumption
    PROVE  0 \in Offsets /\ PE_start \in PEs /\ PE_start \in Members
<1>1. 0 \in Offsets
  BY GdaConstants DEF Offsets
<1> QED
  BY <1>1, GdaTarget

(* The other members, by their offset.                                     *)
LEMMA GdaOther ==
    ASSUME GDAAssumption, NEW o \in Others
    PROVE  /\ o \in Nat /\ o >= 1 /\ o < N /\ o \in Offsets
           /\ Target(o) \in PEs /\ Target(o) \in Members
           /\ Target(o) # PE_start /\ pe_offset(Target(o)) = o
<1>1. o \in Nat /\ o >= 1 /\ o < N /\ o \in Offsets /\ 0 \in Offsets /\ o # 0
  BY GdaConstants DEF Others, Offsets
<1>2. Target(0) = PE_start
  BY <1>1, GdaTarget
<1>3. Target(o) # PE_start
  BY <1>1, <1>2, GdaInjective
<1> QED
  BY <1>1, <1>3, GdaTarget

(* A member is the root or one of the others.                              *)
LEMMA GdaMember ==
    ASSUME GDAAssumption, NEW p \in Members
    PROVE  p = PE_start \/ \E o \in Others : p = Target(o)
<1>1. PICK k \in Offsets : p = Target(k)
  BY DEF Members
<1>2. k = 0 \/ k \in Others
  BY GdaConstants DEF Offsets, Others
<1>3. Target(0) = PE_start
  BY GdaTarget
<1> QED
  BY <1>1, <1>2, <1>3

(* Two indices of a wavefront are a multiple of wf_count apart.            *)
LEMMA GdaApart ==
    ASSUME NEW W \in Nat \ {0}, NEW x \in Nat, NEW y \in Nat, x >= 1, x < y,
           (x - 1) % W = (y - 1) % W
    PROVE  x + W <= y
<1> SUFFICES ASSUME x + W > y PROVE FALSE
  OBVIOUS
<1>1. PICK a \in Nat, b \in Nat : a = x - 1 /\ b = y - 1
  OBVIOUS
<1>2. a <= b /\ b < a + W /\ a % W = b % W
  BY <1>1
<1>3. a = b
  BY <1>2, OneRevolution
<1> QED
  BY <1>1, <1>3

(* Division with remainder.                                                *)
LEMMA GdaDivision ==
    ASSUME NEW W \in Nat \ {0}, NEW a \in Nat
    PROVE  /\ \E q \in Int : a = (a % W) + W * q
           /\ a % W \in 0..(W - 1) /\ a % W <= a
<1>1. (a \div W) \in Int /\ a % W \in Int /\ a = W * (a \div W) + (a % W)
      /\ 0 <= a % W /\ a % W < W
  OBVIOUS
<1>2. a \div W >= 0
  OBVIOUS
<1>3. PICK q \in Int, r \in Int : q = a \div W /\ r = a % W
  BY <1>1
<1>4. q >= 0 /\ a = W * q + r /\ 0 <= r /\ r < W
  BY <1>1, <1>2, <1>3
<1>5. PICK x \in Int : x = W * q
  BY <1>3
<1>6. x >= 0
  BY <1>4, <1>5
<1>7. a = r + x /\ r <= a /\ r \in 0..(W - 1)
  BY <1>4, <1>5, <1>6
<1> QED
  BY <1>3, <1>5, <1>7

(* The first index of a wavefront, and the one after an index.             *)
LEMMA GdaIndexes ==
    ASSUME NEW W \in Nat \ {0}
    PROVE  /\ \A w \in 0..(W - 1) : ((w + 1) - 1) % W = w
           /\ \A x \in Nat : x >= 1 => /\ ((x + W) - 1) % W = (x - 1) % W
                                       /\ (x - 1) % W \in 0..(W - 1)
                                       /\ ((x - 1) % W) + 1 <= x
<1>1. ASSUME NEW w \in 0..(W - 1) PROVE ((w + 1) - 1) % W = w
  OBVIOUS
<1>2. ASSUME NEW x \in Nat, x >= 1
      PROVE  /\ ((x + W) - 1) % W = (x - 1) % W
             /\ (x - 1) % W \in 0..(W - 1)
             /\ ((x - 1) % W) + 1 <= x
  <2>1. PICK a \in Nat : a = x - 1
    BY <1>2
  <2>2. PICK q \in Int : a = (a % W) + W * q
    BY GdaDivision
  <2>3. PICK r \in Int : r = a % W /\ 0 <= r /\ r < W /\ r <= a
    <3>1. a % W \in 0..(W - 1) /\ a % W <= a
      BY GdaDivision
    <3> QED
      BY <3>1
  <2>4. PICK t \in Int : t = q + 1
    BY <2>2
  <2>5. (r + W * t) % W = r
    BY <2>3, RemainderOf
  <2>6. r + W * t = a + W
    <3>1. PICK y \in Int : y = W * q
      BY <2>2
    <3>2. W * t = y + W
      BY <2>4, <3>1
    <3>3. a = r + y
      BY <2>2, <2>3, <3>1
    <3> QED
      BY <3>2, <3>3
  <2>7. (a + W) % W = a % W
    BY <2>3, <2>5, <2>6
  <2>8. (x + W) - 1 = a + W
    BY <2>1
  <2> QED
    BY <2>1, <2>3, <2>7, <2>8
<1> QED
  BY <1>1, <1>2

(* Where the stride is 1 or there is one wavefront, a wavefront announces  *)
(* to the member its index names.                                          *)
LEMMA GdaWgTarget ==
    ASSUME WordPerMember, Form = "wg", NEW k \in Others,
           NEW w \in Waves, (k - 1) % Wfs = w
    PROVE  WgTarget(w, k) = Target(k)
<1>0. /\ GDAAssumption /\ (Stride = 1 \/ Wfs = 1)
      /\ k \in Nat /\ k >= 1 /\ w \in Nat /\ w < Wfs
  BY GdaConstants, GdaOther DEF WordPerMember, Waves
<1>1. /\ PE_start \in Nat /\ Stride \in Nat /\ Wfs \in Nat \ {0}
  BY <1>0, GdaConstants
<1>2. PICK a \in Nat : a = k - 1
  BY <1>0
<1>3. PICK q \in Int : a = (a % Wfs) + Wfs * q
  BY <1>1, GdaDivision
<1>4. PICK x \in Int : x = Wfs * q
  BY <1>1, <1>3
<1>5. k - (w + 1) = x
  BY <1>0, <1>2, <1>3, <1>4
<1>6. x \div Wfs = q
  BY <1>1, <1>3, <1>4
<1>7. WgTarget(w, k) = PE_start + Stride + w + q * (Wfs * Stride)
  BY <1>5, <1>6 DEF WgTarget
<1>8. CASE Stride = 1
  <2>1. q * (Wfs * 1) = x /\ k * 1 = k
    BY <1>0, <1>1, <1>3, <1>4
  <2>2. PE_start + 1 + w + x = PE_start + k
    BY <1>0, <1>1, <1>4, <1>5
  <2> QED
    BY <1>7, <1>8, <2>1, <2>2 DEF Target
<1>9. CASE Wfs = 1
  <2>1. w = 0 /\ q = k - 1
    BY <1>0, <1>3, <1>4, <1>5, <1>9
  <2>2. PICK y \in Int : y = (k - 1) * Stride
    BY <1>0, <1>1
  <2>3. k * Stride = y + Stride /\ q * (1 * Stride) = y
    BY <1>0, <1>1, <2>1, <2>2
  <2>4. PE_start + Stride + 0 + y = PE_start + (y + Stride)
    BY <1>1, <2>2
  <2> QED
    BY <1>7, <1>9, <2>1, <2>3, <2>4 DEF Target
<1> QED
  BY <1>0, <1>8, <1>9

(* The operations that may be on their way can be told apart.              *)
LEMMA GdaMessages ==
    ASSUME GDAAssumption, NEW o \in Others, NEW q \in Others
    PROVE  /\ Arrival(o) = Arrival(q) => o = q
           /\ Announcement(o) = Announcement(q) => o = q
           /\ Arrival(o) # Announcement(q)
<1>1. Arrival(o).o = o /\ Arrival(q).o = q /\ Arrival(o).to = PE_start
  BY DEF Arrival, Write
<1>2. /\ Announcement(o).to = Target(o)
      /\ Announcement(q).to = Target(q)
  BY DEF Announcement, Write
<1> QED
  BY <1>1, <1>2, GdaOther, GdaInjective

(* The wavefront of the root that deals with an offset.                    *)
WaveOf(x) == (x - 1) % Wfs

(* The wavefront of an index, as far as the proofs need it.                *)
LEMMA GdaWaves ==
    ASSUME GDAAssumption
    PROVE  /\ 0 \in Waves
           /\ \A w \in Waves : w \in Nat /\ WaveOf(w + 1) = w
           /\ \A x \in Nat : x >= 1 => /\ WaveOf(x) \in Waves /\ WaveOf(x) + 1 <= x
                                       /\ WaveOf(x + Wfs) = WaveOf(x)
           /\ \A x, y \in Nat : /\ x >= 1 /\ x < y /\ WaveOf(x) = WaveOf(y)
                                => x + Wfs <= y
<1>1. Wfs \in Nat \ {0}
  BY GdaConstants
<1>2. 0 \in Waves /\ \A w \in Waves : w \in Nat /\ WaveOf(w + 1) = w
  BY <1>1, GdaIndexes DEF Waves, WaveOf
<1>3. \A x \in Nat : x >= 1 => /\ WaveOf(x) \in Waves /\ WaveOf(x) + 1 <= x
                               /\ WaveOf(x + Wfs) = WaveOf(x)
  BY <1>1, GdaIndexes DEF Waves, WaveOf
<1>4. \A x, y \in Nat : /\ x >= 1 /\ x < y /\ WaveOf(x) = WaveOf(y)
                        => x + Wfs <= y
  BY <1>1, GdaApart DEF WaveOf
<1> QED
  BY <1>2, <1>3, <1>4

(* What the invariant says of an operation on its way.                     *)
LEMMA GdaInFlight ==
    ASSUME GDAAssumption, FlightIs, NEW o \in Others
    PROVE  /\ Arrival(o) \in flight => pc[Target(o)] = "arrived"
           /\ Announcement(o) \in flight =>
                \/ pc[PE_start] = "announced" /\ i[0] = o
                \/ pc[PE_start] = "announce_wg" /\ Index(o) > o
BY GdaMessages DEF FlightIs

(* The constructor of the team cleared the words; nobody is in a barrier.  *)
LEMMA GdaInit ==
    ASSUME WordPerMember, Init
    PROVE  IInv
<1>0. GDAAssumption
  BY DEF WordPerMember
<1> USE <1>0, GdaRoot
<1>1. Types
  BY DEF Init, Types
<1>2. Counts
  BY GdaOther DEF Init, Counts
<1>3. RootIs
  <2>1. 0 \in Waves
    BY GdaConstants DEF Waves
  <2> QED
    BY <2>1 DEF Init, RootIs
<1>4. WordsAre
  BY GdaOther DEF Init, WordsAre
<1>5. FlightIs
  BY DEF Init, FlightIs
<1>6. ASSUME NEW o \in Others PROVE MemberIn(o)
  <2>1. ~Pending(o) /\ Released(o) /\ Arrival(o) \notin flight
    BY DEF Init, Pending, Released, Posted
  <2> QED
    BY <2>1, GdaOther DEF Init, MemberIn, MemberIs, Leaving
<1> QED
  BY <1>1, <1>2, <1>3, <1>4, <1>5, <1>6 DEF IInv

(* A step of the member at offset a: it moves to l, may post its arrival   *)
(* and leaves f in its own words.                                          *)
LEMMA GdaMemberStep ==
    ASSUME WordPerMember, IInv, NEW a \in Others,
           NEW l, NEW e \in Nat, NEW k \in Nat, NEW f \in [Offsets -> {0, 1}],
           pc' = [pc EXCEPT ![Target(a)] = l],
           entered' = [entered EXCEPT ![Target(a)] = e],
           left' = [left EXCEPT ![Target(a)] = k],
           pSync' = [pSync EXCEPT ![Target(a)] = f],
           i' = i,
           flight' = flight \/ flight' = flight \cup {Arrival(a)},
           Arrival(a) \in flight' => l = "arrived",
           l \in {"idle", "arrive", "arrived", "wait", "reset"} \cup
                 (IF Form = "wg" THEN {} ELSE {"mark", "unmark"}),
           e = IF l = "idle" THEN k ELSE k + 1,
           f[a] = IF Form # "wg" /\ l \notin {"idle", "mark"} THEN 1 ELSE 0,
           \A o \in Offsets \ {0, a} : f[o] = pSync[Target(a)][o],
           MemberIs(Pending(a), Released(a), Arrival(a) \in flight',
                        entered[PE_start], e, l, pSync[PE_start][a], f[0])
    PROVE  IInv'
<1>0. GDAAssumption
  BY DEF WordPerMember
<1> USE <1>0, GdaRoot
<1>1. /\ Types /\ Counts /\ RootIs /\ WordsAre /\ FlightIs
      /\ \A o \in Others : MemberIn(o)
  BY DEF IInv
<1>2. /\ pc'[PE_start] = pc[PE_start]
      /\ entered'[PE_start] = entered[PE_start]
      /\ pSync'[PE_start] = pSync[PE_start]
      /\ pc'[Target(a)] = l /\ entered'[Target(a)] = e
      /\ left'[Target(a)] = k /\ pSync'[Target(a)] = f
  BY <1>1, GdaOther DEF Types
<1>3. ASSUME NEW o \in Others, o # a
      PROVE  /\ pc'[Target(o)] = pc[Target(o)]
             /\ entered'[Target(o)] = entered[Target(o)]
             /\ pSync'[Target(o)] = pSync[Target(o)]
             /\ Arrival(o) \in flight' <=> Arrival(o) \in flight
  <2>1. Target(o) # Target(a)
    BY <1>3, GdaOther, GdaInjective
  <2>2. Arrival(o) # Arrival(a)
    BY <1>3, GdaMessages
  <2> QED
    BY <1>1, <2>1, <2>2, GdaOther DEF Types
<1>4. ASSUME NEW o \in Others
      PROVE  /\ Announcement(o) \in flight' <=> Announcement(o) \in flight
             /\ Pending(o)' <=> Pending(o)
             /\ Released(o)' <=> Released(o)
  <2>1. Announcement(o) \in flight' <=> Announcement(o) \in flight
    BY GdaMessages
  <2> QED
    BY <1>2, <2>1 DEF Pending, Released, Posted, Index
<1>5. Types'
  BY <1>1, <1>2, GdaOther DEF Types
<1>6. Counts'
  <2>1. \A o \in Others : pc'[Target(o)] \in
         {"idle", "arrive", "arrived", "wait", "reset"} \cup
         (IF Form = "wg" THEN {} ELSE {"mark", "unmark"})
    BY <1>1, <1>2, <1>3 DEF Counts
  <2>2. \A p \in Members : entered'[p] =
          IF pc'[p] = "idle" THEN left'[p] ELSE left'[p] + 1
    BY <1>1, <1>2, GdaOther DEF Types, Counts
  <2> QED
    BY <2>1, <2>2 DEF Counts
<1>7. RootIs'
  BY <1>1, <1>2 DEF RootIs
<1>8. WordsAre'
  <2>1. ASSUME NEW o \in Others
        PROVE  pSync'[Target(o)][o] =
                 IF Form # "wg" /\ pc'[Target(o)] \notin {"idle", "mark"}
                 THEN 1 ELSE 0
    BY <1>1, <1>2, <1>3 DEF WordsAre
  <2>2. ASSUME NEW p \in PEs \ {PE_start}, NEW o \in Offsets
        PROVE  pSync'[p][o] = 0 \/ \E q \in Others : p = Target(q) /\ o \in {0, q}
    <3>1. CASE p = Target(a)
      <4>1. CASE o \in {0, a}
        BY <3>1, <4>1
      <4>2. CASE o \notin {0, a}
        BY <1>1, <1>2, <3>1, <4>2 DEF WordsAre
      <4> QED
        BY <4>1, <4>2
    <3>2. CASE p # Target(a)
      BY <1>1, <3>2 DEF WordsAre, Types
    <3> QED
      BY <3>1, <3>2
  <2> QED
    BY <2>1, <2>2 DEF WordsAre
<1>9. FlightIs'
  <2> SUFFICES ASSUME NEW m \in flight'
               PROVE  \E o \in Others :
                        \/ m = Arrival(o) /\ pc'[Target(o)] = "arrived"
                        \/ /\ m = Announcement(o)
                           /\ \/ pc'[PE_start] = "announced" /\ i'[0] = o
                              \/ pc'[PE_start] = "announce_wg" /\ Index(o)' > o
    BY DEF FlightIs, Arrival, Announcement
  <2>1. CASE m = Arrival(a)
    BY <1>2, <2>1
  <2>2. CASE m # Arrival(a)
    <3>1. m \in flight
      BY <2>2
    <3>2. PICK o \in Others :
            \/ m = Arrival(o) /\ pc[Target(o)] = "arrived"
            \/ /\ m = Announcement(o)
               /\ \/ pc[PE_start] = "announced" /\ i[0] = o
                  \/ pc[PE_start] = "announce_wg" /\ Index(o) > o
      BY <1>1, <3>1 DEF FlightIs
    <3>3. Index(o)' = Index(o)
      BY DEF Index
    <3> QED
      BY <1>2, <1>3, <2>2, <3>2, <3>3
  <2> QED
    BY <2>1, <2>2
<1>10. ASSUME NEW o \in Others PROVE MemberIn(o)'
  <2>1. CASE o = a
    BY <1>2, <1>4, <2>1 
    DEF MemberIn, MemberIs, Waiting, Leaving, Entered, Arrival
  <2>2. CASE o # a
    BY <1>1, <1>2, <1>3, <1>4, <2>2 
    DEF MemberIn, MemberIs, Waiting, Leaving, Entered, Arrival
  <2> QED
    BY <2>1, <2>2
<1> QED
  BY <1>5, <1>6, <1>7, <1>8, <1>9, <1>10 DEF IInv

(* The state a member's step starts from.                                  *)
LEMMA GdaMemberState ==
    ASSUME WordPerMember, IInv, NEW a \in Others
    PROVE  /\ GDAAssumption /\ Form # "atomic"
           /\ pSync[Target(a)] \in [Offsets -> {0, 1}]
           /\ a \in Offsets /\ 0 \in Offsets /\ a # 0
           /\ Target(a) # PE_start /\ pe_offset(Target(a)) = a
           /\ entered[Target(a)] \in Nat /\ left[Target(a)] \in Nat
           /\ entered[Target(a)] =
                IF pc[Target(a)] = "idle" THEN left[Target(a)]
                ELSE left[Target(a)] + 1
           /\ entered[PE_start] \in Nat
           /\ pc[Target(a)] \in
                {"idle", "arrive", "arrived", "wait", "reset"} \cup
                (IF Form = "wg" THEN {} ELSE {"mark", "unmark"})
           /\ pSync[Target(a)][a] =
                IF Form # "wg" /\ pc[Target(a)] \notin {"idle", "mark"}
                THEN 1 ELSE 0
           /\ MemberIs(Pending(a), Released(a), Arrival(a) \in flight,
                 entered[PE_start], entered[Target(a)],
                 pc[Target(a)], pSync[PE_start][a],
                 pSync[Target(a)][0])
           /\ Arrival(a) \in flight => pc[Target(a)] = "arrived"
<1>1. GDAAssumption /\ Form # "atomic"
  BY DEF WordPerMember
<1>2. a \in Offsets /\ 0 \in Offsets /\ a # 0
  BY <1>1, GdaOther, GdaRoot
<1>3. Types /\ Counts /\ WordsAre /\ FlightIs /\ MemberIn(a)
  BY DEF IInv
<1>4. /\ pSync[Target(a)] \in [Offsets -> {0, 1}]
      /\ entered[Target(a)] \in Nat /\ left[Target(a)] \in Nat
      /\ entered[PE_start] \in Nat
  BY <1>1, <1>3, GdaOther, GdaRoot DEF Types
<1>5. /\ entered[Target(a)] =
                IF pc[Target(a)] = "idle" THEN left[Target(a)]
                ELSE left[Target(a)] + 1
      /\ pc[Target(a)] \in
                {"idle", "arrive", "arrived", "wait", "reset"} \cup
                (IF Form = "wg" THEN {} ELSE {"mark", "unmark"})
      /\ pSync[Target(a)][a] =
                IF Form # "wg" /\ pc[Target(a)] \notin {"idle", "mark"}
                THEN 1 ELSE 0
  BY <1>1, <1>3, GdaOther DEF Counts, WordsAre
<1>6. MemberIs(Pending(a), Released(a), Arrival(a) \in flight,
                 entered[PE_start], entered[Target(a)],
                 pc[Target(a)], pSync[PE_start][a],
                 pSync[Target(a)][0])
  BY <1>3 DEF MemberIn
<1>7. Arrival(a) \in flight => pc[Target(a)] = "arrived"
  BY <1>1, <1>3, GdaInFlight
<1> QED
  BY <1>1, <1>2, <1>4, <1>5, <1>6, <1>7, GdaOther

(* A step in which a member only moves on, before it leaves.               *)
LEMMA GdaMoves ==
    ASSUME WordPerMember, IInv, NEW a \in Others, NEW l,
           pc[Target(a)] \notin {"idle", "mark"},
           l \in {"arrive", "arrived", "wait", "reset"},
           pc' = [pc EXCEPT ![Target(a)] = l],
           UNCHANGED <<pSync, i, entered, left>>,
           flight' = flight \/ flight' = flight \cup {Arrival(a)},
           Arrival(a) \in flight' => l = "arrived",
           MemberIs(Pending(a), Released(a), Arrival(a) \in flight',
                 entered[PE_start], entered[Target(a)], l,
                 pSync[PE_start][a], pSync[Target(a)][0])
    PROVE  IInv'
<1> DEFINE t == Target(a)
<1>1. Types
  BY DEF IInv
<1>2. /\ pSync' = [pSync EXCEPT ![t] = pSync[t]]
      /\ entered' = [entered EXCEPT ![t] = entered[t]]
      /\ left' = [left EXCEPT ![t] = left[t]]
  BY <1>1 DEF Types
<1>3. /\ entered[t] = IF l = "idle" THEN left[t] ELSE left[t] + 1
      /\ pSync[t][a] = IF Form # "wg" /\ l \notin {"idle", "mark"} THEN 1 ELSE 0
      /\ pSync[t] \in [Offsets -> {0, 1}]
      /\ entered[t] \in Nat /\ left[t] \in Nat
  BY GdaMemberState
<1> QED
  BY <1>2, <1>3, GdaMemberStep, ZenonT(60)

(* internal_sync, called by a member that is not the root.                 *)
LEMMA GdaEnters ==
    ASSUME WordPerMember, IInv, NEW a \in Others,
           internal_sync(Target(a))
    PROVE  IInv'
<1> DEFINE t == Target(a)
           l == IF Form = "wg" THEN "arrive" ELSE "mark"
<1>1. Types
  BY DEF IInv
<1>2. /\ pSync' = [pSync EXCEPT ![t] = pSync[t]]
      /\ left' = [left EXCEPT ![t] = left[t]]
      /\ entered' = [entered EXCEPT ![t] = entered[t] + 1]
      /\ flight' = flight /\ i' = i /\ pc[t] = "idle"
  BY <1>1, GdaMemberState DEF Types, internal_sync
<1>3. pc' = [pc EXCEPT ![t] = l]
  BY GdaMemberState DEF internal_sync, Goto, WordPerMember
<1>4. MemberIs(Pending(a), Released(a), Arrival(a) \in flight,
           entered[PE_start], entered[t] + 1, l, pSync[PE_start][a],
           pSync[t][0])
  BY <1>2, GdaMemberState DEF MemberIs, Waiting, Leaving, Entered
<1>5. Arrival(a) \notin flight
  BY <1>2, GdaMemberState
<1>6. entered[t] + 1 \in Nat /\ entered[t] + 1 = left[t] + 1
      /\ pSync[t][a] = 0
  BY <1>2, GdaMemberState
<1> QED
  BY <1>2, <1>3, <1>4, <1>5, <1>6, GdaMemberState, GdaMemberStep, ZenonT(60)

(* It sets its own word before it sends it.                                *)
LEMMA GdaMarks ==
    ASSUME WordPerMember, IInv, NEW a \in Others, Mark(Target(a))
    PROVE  IInv'
<1> DEFINE t == Target(a)
           f == [pSync[t] EXCEPT ![a] = 1]
<1>1. Types
  BY DEF IInv
<1>2. /\ pSync' = [pSync EXCEPT ![t] = f]
      /\ left' = [left EXCEPT ![t] = left[t]]
      /\ entered' = [entered EXCEPT ![t] = entered[t]]
      /\ flight' = flight /\ i' = i /\ pc[t] = "mark"
      /\ pc' = [pc EXCEPT ![t] = "arrive"]
  BY <1>1, GdaMemberState DEF Types, Mark, Step, Goto, Store
<1>3. /\ f \in [Offsets -> {0, 1}] /\ f[a] = 1 /\ f[0] = pSync[t][0]
      /\ \A o \in Offsets \ {0, a} : f[o] = pSync[t][o]
  BY GdaMemberState
<1>4. MemberIs(Pending(a), Released(a), Arrival(a) \in flight,
           entered[PE_start], entered[t], "arrive", pSync[PE_start][a],
           f[0])
  BY <1>2, <1>3, GdaMemberState
  DEF MemberIs, Waiting, Leaving, Entered
<1>5. Arrival(a) \notin flight
  BY <1>2, GdaMemberState
<1>6. entered[t] = left[t] + 1 /\ Form # "wg"
  BY <1>2, GdaMemberState
<1> QED
  BY <1>2, <1>3, <1>4, <1>5, <1>6, GdaMemberState, GdaMemberStep, ZenonT(60)

(* The put of the arrival, its completion and the wait for the release.    *)
LEMMA GdaArrives ==
    ASSUME WordPerMember, IInv, NEW a \in Others,
           \/ Arrive(Target(a)) \/ Arrived(Target(a))
           \/ wait_until(Target(a))
    PROVE  IInv'
<1> DEFINE t == Target(a)
<1>1. CASE Arrive(t)
  <2>1. /\ UNCHANGED <<pSync, i, entered, left>>
        /\ pc[t] = "arrive" /\ pc' = [pc EXCEPT ![t] = "arrived"]
    BY <1>1 DEF Arrive, Step, Goto
  <2>2. Form # "wg" => pSync[t][a] = 1
    BY <2>1, GdaMemberState
  <2>3. flight' = flight \cup {Arrival(a)}
    BY <1>1, <2>2, GdaMemberState
    DEF Arrive, put_nbi, Arrival, Value, Source
  <2>4. MemberIs(Pending(a), Released(a), Arrival(a) \in flight',
             entered[PE_start], entered[t], "arrived", pSync[PE_start][a],
             pSync[t][0])
    BY <2>1, <2>3, GdaMemberState
    DEF MemberIs, Waiting, Leaving, Entered
  <2> QED
    BY <2>1, <2>3, <2>4, GdaMoves, ZenonT(60)
<1>2. CASE Arrived(t)
  <2>1. /\ UNCHANGED <<pSync, i, entered, left>> /\ flight' = flight
        /\ pc[t] = "arrived" /\ pc' = [pc EXCEPT ![t] = "wait"]
    BY <1>2 DEF Arrived, Step, Goto
  <2>2. Arrival(a) \notin flight
    BY <1>2 DEF Arrived, Quiet, Arrival, Write
  <2>3. MemberIs(Pending(a), Released(a), Arrival(a) \in flight',
             entered[PE_start], entered[t], "wait", pSync[PE_start][a],
             pSync[t][0])
    BY <2>1, <2>2, GdaMemberState
    DEF MemberIs, Waiting, Leaving, Entered
  <2> QED
    BY <2>1, <2>2, <2>3, GdaMoves, ZenonT(60)
<1>3. CASE wait_until(t)
  <2>1. /\ UNCHANGED <<pSync, i, entered, left>> /\ flight' = flight
        /\ pc[t] = "wait" /\ pc' = [pc EXCEPT ![t] = "reset"]
        /\ pSync[t][0] = 1
    BY <1>3 DEF wait_until, Step, Goto
  <2>2. Arrival(a) \notin flight
    BY <2>1, GdaMemberState
  <2>3. MemberIs(Pending(a), Released(a), Arrival(a) \in flight',
             entered[PE_start], entered[t], "reset", pSync[PE_start][a],
             pSync[t][0])
    BY <2>1, <2>2, GdaMemberState
    DEF MemberIs, Waiting, Leaving, Entered
  <2> QED
    BY <2>1, <2>2, <2>3, GdaMoves, ZenonT(60)
<1> QED
  BY <1>1, <1>2, <1>3

(* The member resets the word it was released with, and then its own.      *)
LEMMA GdaLeaves ==
    ASSUME WordPerMember, IInv, NEW a \in Others,
           Reset(Target(a)) \/ Unmark(Target(a))
    PROVE  IInv'
<1> DEFINE t == Target(a)
<1>1. Types
  BY DEF IInv
<1>2. CASE Reset(t)
  <2> DEFINE f == [pSync[t] EXCEPT ![0] = 0]
             l == IF Form = "wg" THEN "idle" ELSE "unmark"
             k == IF Form = "wg" THEN left[t] + 1 ELSE left[t]
  <2>1. /\ pSync' = [pSync EXCEPT ![t] = f]
        /\ left' = [left EXCEPT ![t] = k]
        /\ entered' = [entered EXCEPT ![t] = entered[t]]
        /\ flight' = flight /\ i' = i /\ pc[t] = "reset"
        /\ pc' = [pc EXCEPT ![t] = l]
    BY <1>1, <1>2, GdaMemberState
    DEF Types, Reset, Leave, Goto, Store, WordPerMember
  <2>2. /\ f \in [Offsets -> {0, 1}] /\ f[a] = pSync[t][a] /\ f[0] = 0
        /\ \A o \in Offsets \ {0, a} : f[o] = pSync[t][o]
    BY GdaMemberState
  <2>3. MemberIs(Pending(a), Released(a), Arrival(a) \in flight,
             entered[PE_start], entered[t], l, pSync[PE_start][a], f[0])
    BY <2>1, <2>2, GdaMemberState
    DEF MemberIs, Waiting, Leaving, Entered
  <2>4. /\ Arrival(a) \notin flight /\ k \in Nat /\ entered[t] \in Nat
        /\ entered[t] = IF l = "idle" THEN k ELSE k + 1
        /\ f[a] = IF Form # "wg" /\ l \notin {"idle", "mark"} THEN 1 ELSE 0
        /\ l \in {"idle", "arrive", "arrived", "wait", "reset"} \cup
             (IF Form = "wg" THEN {} ELSE {"mark", "unmark"})
    BY <2>1, <2>2, GdaMemberState
  <2> HIDE DEF f, l, k
  <2> QED
    BY <2>1, <2>2, <2>3, <2>4, GdaMemberStep
<1>3. CASE Unmark(t)
  <2> DEFINE f == [pSync[t] EXCEPT ![a] = 0]
             l == "idle"
             k == left[t] + 1
  <2>1. /\ pSync' = [pSync EXCEPT ![t] = f]
        /\ left' = [left EXCEPT ![t] = k]
        /\ entered' = [entered EXCEPT ![t] = entered[t]]
        /\ flight' = flight /\ i' = i /\ pc[t] = "unmark"
        /\ pc' = [pc EXCEPT ![t] = l]
    BY <1>1, <1>3, GdaMemberState
    DEF Types, Unmark, Leave, Goto, Store
  <2>2. /\ f \in [Offsets -> {0, 1}] /\ f[a] = 0 /\ f[0] = pSync[t][0]
        /\ \A o \in Offsets \ {0, a} : f[o] = pSync[t][o]
    BY GdaMemberState
  <2>3. MemberIs(Pending(a), Released(a), Arrival(a) \in flight,
             entered[PE_start], entered[t], l, pSync[PE_start][a], f[0])
    BY <2>1, <2>2, GdaMemberState
    DEF MemberIs, Waiting, Leaving, Entered
  <2>4. /\ Arrival(a) \notin flight /\ k \in Nat /\ entered[t] \in Nat
        /\ entered[t] = IF l = "idle" THEN k ELSE k + 1
        /\ f[a] = IF Form # "wg" /\ l \notin {"idle", "mark"} THEN 1 ELSE 0
        /\ l \in {"idle", "arrive", "arrived", "wait", "reset"} \cup
             (IF Form = "wg" THEN {} ELSE {"mark", "unmark"})
    BY <2>1, <2>2, GdaMemberState
  <2> HIDE DEF f, l, k
  <2> QED
    BY <2>1, <2>2, <2>3, <2>4, GdaMemberStep, ZenonT(60)
<1> QED
  BY <1>2, <1>3

(* A step of the root: its words become f and flight may get an            *)
(* announcement.                                                           *)
LEMMA GdaRootStep ==
    ASSUME WordPerMember, IInv, NEW l, NEW e \in Nat, NEW k \in Nat,
           NEW f \in [Offsets -> {0, 1}],
           pc' = [pc EXCEPT ![PE_start] = l],
           entered' = [entered EXCEPT ![PE_start] = e],
           left' = [left EXCEPT ![PE_start] = k],
           pSync' = [pSync EXCEPT ![PE_start] = f],
           DOMAIN i' = Waves,
           e = IF l = "idle" THEN k ELSE k + 1,
           \A o \in Others : Arrival(o) \in flight' <=> Arrival(o) \in flight,
           RootIs', FlightIs',
           \A o \in Others :
             MemberIs(Pending(o)', Released(o)', Arrival(o) \in flight,
                 e, entered[Target(o)], pc[Target(o)], f[o],
                 pSync[Target(o)][0])
    PROVE  IInv'
<1>0. GDAAssumption
  BY DEF WordPerMember
<1> USE <1>0, GdaRoot
<1>1. Types /\ Counts /\ WordsAre
  BY DEF IInv
<1>2. /\ entered'[PE_start] = e /\ pSync'[PE_start] = f
      /\ pc'[PE_start] = l /\ left'[PE_start] = k
  BY <1>1 DEF Types
<1>3. ASSUME NEW o \in Others
      PROVE  /\ pc'[Target(o)] = pc[Target(o)]
             /\ entered'[Target(o)] = entered[Target(o)]
             /\ pSync'[Target(o)] = pSync[Target(o)]
  BY <1>1, GdaOther DEF Types
<1>4. Types'
  BY <1>1, ZenonT(60) DEF Types
<1>5. Counts'
  <2>1. \A o \in Others : pc'[Target(o)] \in
         {"idle", "arrive", "arrived", "wait", "reset"} \cup
         (IF Form = "wg" THEN {} ELSE {"mark", "unmark"})
    BY <1>1, <1>3 DEF Counts
  <2>2. \A p \in Members : entered'[p] =
          IF pc'[p] = "idle" THEN left'[p] ELSE left'[p] + 1
    BY <1>1, <1>2 DEF Types, Counts
  <2> QED
    BY <2>1, <2>2 DEF Counts
<1>6. WordsAre'
  <2>1. ASSUME NEW o \in Others
        PROVE  pSync'[Target(o)][o] =
                 IF Form # "wg" /\ pc'[Target(o)] \notin {"idle", "mark"}
                 THEN 1 ELSE 0
    BY <1>1, <1>3 DEF WordsAre
  <2>2. ASSUME NEW p \in PEs \ {PE_start}, NEW o \in Offsets
        PROVE  pSync'[p][o] = 0 \/ \E q \in Others : p = Target(q) /\ o \in {0, q}
    BY <1>1 DEF WordsAre, Types
  <2> QED
    BY <2>1, <2>2 DEF WordsAre
<1>7. ASSUME NEW o \in Others PROVE MemberIn(o)'
  <2>1. Arrival(o)' = Arrival(o)
    BY DEF Arrival
  <2> QED
    BY <1>2, <1>3, <2>1
    DEF MemberIn, MemberIs, Waiting, Leaving, Entered
<1> QED
  BY <1>4, <1>5, <1>6, <1>7 DEF IInv

(* The state a step of the root starts from.                               *)
LEMMA GdaRootState ==
    ASSUME WordPerMember, IInv
    PROVE  /\ GDAAssumption /\ Form \in {"direct", "wg"}
           /\ pSync[PE_start] \in [Offsets -> {0, 1}] /\ 0 \in Offsets
           /\ entered[PE_start] \in Nat /\ left[PE_start] \in Nat
           /\ entered[PE_start] =
                IF pc[PE_start] = "idle" THEN left[PE_start]
                ELSE left[PE_start] + 1
           /\ DOMAIN i = Waves /\ 0 \in Waves
           /\ pSync = [pSync EXCEPT ![PE_start] = pSync[PE_start]]
           /\ entered = [entered EXCEPT ![PE_start] = entered[PE_start]]
           /\ left = [left EXCEPT ![PE_start] = left[PE_start]]
           /\ Types /\ RootIs /\ FlightIs
<1>1. GDAAssumption /\ Form \in {"direct", "wg"}
  BY DEF WordPerMember
<1>2. Types /\ RootIs /\ FlightIs /\ Counts
  BY DEF IInv
<1>3. 0 \in Waves
  BY <1>1, GdaConstants DEF Waves
<1> QED
  BY <1>1, <1>2, <1>3, GdaRoot DEF Types, Counts

(* In the direct form the root is in one place of one loop.  No            *)
(* announcement is on its way when it takes a step.                        *)
LEMMA GdaDirectState ==
    ASSUME WordPerMember, IInv, Form = "direct", NEW o \in Others,
           Announcement(o) \notin flight
    PROVE  /\ o \in Nat /\ o >= 1 /\ o < N /\ o \in Offsets /\ i[0] \in Nat
           /\ entered[PE_start] \in Nat /\ entered[Target(o)] \in Nat
           /\ MemberIs(pc[PE_start] \in {"collect", "clear"} /\ i[0] <= o,
                \/ pc[PE_start] = "idle"
                \/ pc[PE_start] \in {"source", "announce"} /\ i[0] > o
                \/ pc[PE_start] = "announced" /\ i[0] >= o,
                Arrival(o) \in flight, entered[PE_start],
                entered[Target(o)], pc[Target(o)],
                pSync[PE_start][o], pSync[Target(o)][0])
<1>1. GDAAssumption /\ RootIs /\ entered[PE_start] \in Nat
  BY GdaRootState
<1>2. /\ i[0] \in Nat /\ pc[PE_start] # "collect_wg"
      /\ pc[PE_start] # "announce_wg"
  BY <1>1 DEF RootIs
<1>3. o \in Nat /\ o >= 1 /\ o < N /\ o \in Offsets
  BY <1>1, GdaOther
<1>4. Index(o) = i[0]
  BY DEF Index
<1>5. Pending(o) <=> pc[PE_start] \in {"collect", "clear"} /\ i[0] <= o
  BY <1>2, <1>4 DEF Pending
<1>6. Released(o) <=>
                \/ pc[PE_start] = "idle"
                \/ pc[PE_start] \in {"source", "announce"} /\ i[0] > o
                \/ pc[PE_start] = "announced" /\ i[0] >= o
  BY <1>2, <1>3, <1>4 DEF Released, Posted
<1>7. MemberIn(o) /\ entered[Target(o)] \in Nat
  BY <1>1, GdaOther DEF IInv, Types
<1> QED
  BY <1>1, <1>2, <1>3, <1>5, <1>6, <1>7
  DEF MemberIn, MemberIs, Waiting, Leaving, Entered

(* The root's place l and index n in the direct form, its words f, and what *)
(* a member is to it.                                                      *)
DirectRootIs(l, n, f) ==
    /\ l \in {"idle", "collect", "clear", "source", "announce", "announced"}
    /\ n \in Nat /\ f \in [Offsets -> {0, 1}]
    /\ l # "idle" => n \in 1..N
    /\ l \in {"clear", "announce", "announced"} => n < N
    /\ l = "clear" => f[n] = 1
    /\ f[0] = IF l \in {"announce", "announced"} \/ (l = "source" /\ n > 1)
              THEN 1 ELSE 0
DirectMemberIs(o, l, n, e, word) ==
    MemberIs(l \in {"collect", "clear"} /\ n <= o,
             \/ l = "idle"
             \/ l \in {"source", "announce", "announced"} /\ n > o,
             Arrival(o) \in flight,
             e, entered[Target(o)], pc[Target(o)], word,
             pSync[Target(o)][0])
DirectPosts(l, n) ==
    /\ \A o \in Others : Announcement(o) \notin flight
    /\ flight' = IF l = "announced" THEN flight \cup {Announcement(n)} ELSE flight
InBarrier(l, e, k) == e \in Nat /\ k \in Nat /\ e = IF l = "idle" THEN k ELSE k + 1

(* A step of the root in the direct form; its index becomes n.             *)
LEMMA GdaDirectStep ==
    ASSUME WordPerMember, IInv, Form = "direct",
           NEW l, NEW e, NEW k, NEW n, NEW f,
           pc' = [pc EXCEPT ![PE_start] = l],
           entered' = [entered EXCEPT ![PE_start] = e],
           left' = [left EXCEPT ![PE_start] = k],
           pSync' = [pSync EXCEPT ![PE_start] = f],
           DOMAIN i' = Waves, i'[0] = n,
           InBarrier(l, e, k), DirectRootIs(l, n, f), DirectPosts(l, n),
           \A o \in Others : DirectMemberIs(o, l, n, e, f[o])
    PROVE  IInv'
<1> USE DEF InBarrier, DirectRootIs, DirectPosts, DirectMemberIs
<1>1. /\ GDAAssumption /\ PE_start \in Members /\ PE_start \in PEs
      /\ Types /\ FlightIs
  BY GdaRootState, GdaRoot
<1>2. pc'[PE_start] = l /\ pSync'[PE_start] = f
  BY <1>1 DEF Types
<1>3. RootIs'
  BY <1>2 DEF RootIs
<1>4. ASSUME NEW o \in Others
      PROVE  pc'[Target(o)] = pc[Target(o)] /\ Target(o) # PE_start
  BY <1>1, GdaOther DEF Types
<1>5. l = "announced" => n \in Others
  BY <1>1, GdaConstants DEF Others
<1>6. \A o \in Others : Arrival(o) \in flight' <=> Arrival(o) \in flight
  BY <1>1, <1>5, GdaMessages
<1>7. FlightIs'
  <2> SUFFICES ASSUME NEW m \in flight'
               PROVE  \E o \in Others :
                        \/ m = Arrival(o) /\ pc'[Target(o)] = "arrived"
                        \/ /\ m = Announcement(o)
                           /\ \/ pc'[PE_start] = "announced" /\ i'[0] = o
                              \/ pc'[PE_start] = "announce_wg" /\ Index(o)' > o
    BY DEF FlightIs, Arrival, Announcement
  <2>1. CASE m \in flight
    <3>1. PICK o \in Others :
             m = Arrival(o) /\ pc[Target(o)] = "arrived"
      BY <1>1, <2>1 DEF FlightIs
    <3> QED
      BY <1>4, <3>1
  <2>2. CASE m \notin flight
    BY <1>2, <1>5, <2>2
  <2> QED
    BY <2>1, <2>2
<1>8. ASSUME NEW o \in Others
      PROVE  /\ Pending(o)' <=> l \in {"collect", "clear"} /\ n <= o
             /\ Released(o)' <=>
                  \/ l = "idle"
                  \/ l \in {"source", "announce", "announced"} /\ n > o
  <2>1. Index(o)' = n /\ o \in Nat
    BY <1>1, GdaOther DEF Index
  <2>2. Announcement(o) \in flight' <=> l = "announced" /\ n = o
    BY <1>1, <1>5, GdaMessages
  <2>3. Announcement(o)' = Announcement(o)
    BY DEF Announcement
  <2> QED
    BY <1>2, <2>1, <2>2, <2>3 DEF Pending, Released, Posted
<1>9. \A o \in Others :
        MemberIs(Pending(o)', Released(o)', Arrival(o) \in flight,
                 e, entered[Target(o)], pc[Target(o)], f[o],
                 pSync[Target(o)][0])
  BY <1>8 DEF MemberIs
<1> QED
  BY <1>3, <1>6, <1>7, <1>9, GdaRootStep

(* Between an announcement and its quiet the root takes no other step.     *)
LEMMA GdaNothingAnnounced ==
    ASSUME WordPerMember, IInv, NEW o \in Others,
           pc[PE_start] \notin {"announced", "announce_wg"}
    PROVE  Announcement(o) \notin flight
BY GdaRootState, GdaInFlight

(* The root's place in the direct form.                                    *)
LEMMA GdaDirectRoot ==
    ASSUME WordPerMember, IInv, Form = "direct"
    PROVE  /\ i[0] \in Nat /\ N \in Nat /\ N >= 1
           /\ pc[PE_start] # "idle" => i[0] \in 1..N
           /\ pc[PE_start] \in {"clear", "announce", "announced"} => i[0] < N
           /\ pc[PE_start] = "clear" => pSync[PE_start][i[0]] = 1
           /\ pSync[PE_start][0] =
              IF \/ pc[PE_start] \in {"announce", "announced"}
                 \/ pc[PE_start] = "source" /\ i[0] > 1 THEN 1 ELSE 0
BY GdaRootState, GdaConstants DEF RootIs

(* internal_sync, called by the root.                                      *)
LEMMA GdaRootEntersDirect ==
    ASSUME WordPerMember, IInv, Form = "direct", internal_sync(PE_start)
    PROVE  IInv'
<1> DEFINE l == "collect"
           n == 1
           e == entered[PE_start] + 1
           k == left[PE_start]
           f == pSync[PE_start]
<1>1. /\ pc[PE_start] = "idle" /\ pc' = [pc EXCEPT ![PE_start] = l]
      /\ entered' = [entered EXCEPT ![PE_start] = e]
      /\ i' = [w \in Waves |-> w + 1]
      /\ UNCHANGED <<pSync, flight, left>>
  BY GdaRootState DEF internal_sync, Goto
<1>2. DOMAIN i' = Waves /\ i'[0] = n
  BY <1>1, GdaRootState
<1>3. \A o \in Others : Announcement(o) \notin flight
  BY <1>1, GdaNothingAnnounced
<1>4. ASSUME NEW o \in Others PROVE DirectMemberIs(o, l, n, e, f[o])
  BY <1>1, <1>3, GdaDirectState
  DEF DirectMemberIs, MemberIs, Waiting, Leaving, Entered
<1>5. /\ pSync' = [pSync EXCEPT ![PE_start] = f]
      /\ left' = [left EXCEPT ![PE_start] = k]
  BY <1>1, GdaRootState
<1>6. InBarrier(l, e, k) /\ DirectRootIs(l, n, f) /\ DirectPosts(l, n)
  BY <1>1, <1>3, GdaRootState, GdaDirectRoot DEF InBarrier, DirectRootIs, DirectPosts
<1> HIDE DEF e, f, k, l, n
<1> QED
  BY <1>1, <1>2, <1>4, <1>5, <1>6, GdaDirectStep

(* The loop over the words of the members: wait.                           *)
LEMMA GdaCollects ==
    ASSUME WordPerMember, IInv, Form = "direct", Collect
    PROVE  IInv'
<1> DEFINE l == IF i[0] < N THEN "clear" ELSE "source"
           n == IF i[0] < N THEN i[0] ELSE 1
           e == entered[PE_start]
           k == left[PE_start]
           f == pSync[PE_start]
<1>1. /\ pc[PE_start] = "collect" /\ pc' = [pc EXCEPT ![PE_start] = l]
      /\ i[0] < N => f[i[0]] = 1
      /\ UNCHANGED <<pSync, flight, left, entered>>
  BY DEF Collect, Goto
<1>2. DOMAIN i' = Waves /\ i'[0] = n
  BY GdaRootState DEF Collect
<1>3. \A o \in Others : Announcement(o) \notin flight
  BY <1>1, GdaNothingAnnounced
<1>4. ASSUME NEW o \in Others PROVE DirectMemberIs(o, l, n, e, f[o])
  BY <1>1, <1>3, GdaDirectState, GdaDirectRoot
  DEF DirectMemberIs, MemberIs, Waiting, Leaving, Entered
<1>5. /\ pSync' = [pSync EXCEPT ![PE_start] = f]
      /\ left' = [left EXCEPT ![PE_start] = k]
      /\ entered' = [entered EXCEPT ![PE_start] = e]
  BY <1>1, GdaRootState
<1>6. InBarrier(l, e, k) /\ DirectRootIs(l, n, f) /\ DirectPosts(l, n)
  BY <1>1, <1>3, GdaRootState, GdaDirectRoot DEF InBarrier, DirectRootIs, DirectPosts
<1> HIDE DEF e, f, k, l, n
<1> QED
  BY <1>1, <1>2, <1>4, <1>5, <1>6, GdaDirectStep

(* A word that was seen is reset.                                          *)
LEMMA GdaClears ==
    ASSUME WordPerMember, IInv, Form = "direct", Clear
    PROVE  IInv'
<1> DEFINE l == "collect"
           n == i[0] + 1
           e == entered[PE_start]
           k == left[PE_start]
           f == [pSync[PE_start] EXCEPT ![i[0]] = 0]
<1>1. /\ pc[PE_start] = "clear" /\ pc' = [pc EXCEPT ![PE_start] = l]
      /\ pSync' = [pSync EXCEPT ![PE_start] = f]
      /\ UNCHANGED <<flight, left, entered>>
  BY GdaRootState, GdaRoot DEF Clear, Step, Goto, Store, Types
<1>2. DOMAIN i' = Waves /\ i'[0] = n
  BY GdaRootState DEF Clear
<1>3. \A o \in Others : Announcement(o) \notin flight
  BY <1>1, GdaNothingAnnounced
<1>4. /\ i[0] \in Nat /\ 1 <= i[0] /\ i[0] < N
      /\ pSync[PE_start][i[0]] = 1 /\ pSync[PE_start][0] = 0
  BY <1>1, GdaDirectRoot
<1>5. /\ f \in [Offsets -> {0, 1}] /\ f[0] = 0
      /\ \A o \in Offsets : f[o] = IF o = i[0] THEN 0 ELSE pSync[PE_start][o]
  BY <1>4, GdaRootState
<1> HIDE DEF f
<1>6. ASSUME NEW o \in Others PROVE DirectMemberIs(o, l, n, e, f[o])
  BY <1>1, <1>3, <1>4, <1>5, GdaDirectState
  DEF DirectMemberIs, MemberIs, Waiting, Leaving, Entered
<1>7. /\ left' = [left EXCEPT ![PE_start] = k]
      /\ entered' = [entered EXCEPT ![PE_start] = e]
  BY <1>1, GdaRootState
<1>8. InBarrier(l, e, k) /\ DirectRootIs(l, n, f) /\ DirectPosts(l, n)
  BY <1>1, <1>3, <1>4, <1>5, GdaRootState, GdaDirectRoot
  DEF InBarrier, DirectRootIs, DirectPosts
<1> HIDE DEF e, k, l, n
<1> QED
  BY <1>1, <1>2, <1>6, <1>7, <1>8, GdaDirectStep

(* The word the announcements are sent from.                               *)
LEMMA GdaSetsSource ==
    ASSUME WordPerMember, IInv, Form = "direct", SetSource
    PROVE  IInv'
<1> DEFINE l == "announce"
           n == i[0]
           e == entered[PE_start]
           k == left[PE_start]
           f == [pSync[PE_start] EXCEPT ![0] = 1]
<1>1. /\ pc[PE_start] = "source" /\ pc' = [pc EXCEPT ![PE_start] = l]
      /\ pSync' = [pSync EXCEPT ![PE_start] = f] /\ i[0] < N
      /\ UNCHANGED <<flight, left, entered, i>>
  BY GdaRootState, GdaRoot DEF SetSource, Goto, Store, Types
<1>2. DOMAIN i' = Waves /\ i'[0] = n
  BY <1>1, GdaRootState
<1>3. \A o \in Others : Announcement(o) \notin flight
  BY <1>1, GdaNothingAnnounced
<1>4. /\ f \in [Offsets -> {0, 1}] /\ f[0] = 1
      /\ \A o \in Offsets : f[o] = IF o = 0 THEN 1 ELSE pSync[PE_start][o]
  BY GdaRootState
<1> HIDE DEF f
<1>5. ASSUME NEW o \in Others PROVE DirectMemberIs(o, l, n, e, f[o])
  BY <1>1, <1>3, <1>4, GdaDirectState
  DEF DirectMemberIs, MemberIs, Waiting, Leaving, Entered
<1>6. /\ left' = [left EXCEPT ![PE_start] = k]
      /\ entered' = [entered EXCEPT ![PE_start] = e]
  BY <1>1, GdaRootState
<1>7. InBarrier(l, e, k) /\ DirectRootIs(l, n, f) /\ DirectPosts(l, n)
  BY <1>1, <1>3, <1>4, GdaRootState, GdaDirectRoot
  DEF InBarrier, DirectRootIs, DirectPosts
<1> HIDE DEF e, k, l, n
<1> QED
  BY <1>1, <1>2, <1>5, <1>6, <1>7, GdaDirectStep

(* The put of an announcement.                                             *)
LEMMA GdaAnnounces ==
    ASSUME WordPerMember, IInv, Form = "direct", Announce
    PROVE  IInv'
<1> DEFINE l == "announced"
           n == i[0]
           e == entered[PE_start]
           k == left[PE_start]
           f == pSync[PE_start]
<1>1. /\ pc[PE_start] = "announce" /\ pc' = [pc EXCEPT ![PE_start] = l]
      /\ UNCHANGED <<pSync, left, entered, i>>
  BY DEF Announce, Goto, Step
<1>2. DOMAIN i' = Waves /\ i'[0] = n
  BY <1>1, GdaRootState
<1>3. \A o \in Others : Announcement(o) \notin flight
  BY <1>1, GdaNothingAnnounced
<1>4. f[0] = 1
  BY <1>1, GdaDirectRoot
<1>5. flight' = flight \cup {Announcement(n)}
  BY <1>4 DEF Announce, put_nbi, Announcement, Value, Source
<1>6. ASSUME NEW o \in Others PROVE DirectMemberIs(o, l, n, e, f[o])
  BY <1>1, <1>3, GdaDirectState
  DEF DirectMemberIs, MemberIs, Waiting, Leaving, Entered
<1>7. /\ pSync' = [pSync EXCEPT ![PE_start] = f]
      /\ left' = [left EXCEPT ![PE_start] = k]
      /\ entered' = [entered EXCEPT ![PE_start] = e]
  BY <1>1, GdaRootState
<1>8. InBarrier(l, e, k) /\ DirectRootIs(l, n, f) /\ DirectPosts(l, n)
  BY <1>1, <1>3, <1>4, <1>5, GdaRootState, GdaDirectRoot
  DEF InBarrier, DirectRootIs, DirectPosts
<1> HIDE DEF e, f, k, l, n
<1> QED
  BY <1>1, <1>2, <1>6, <1>7, <1>8, GdaDirectStep

(* Its quiet: the announcement has landed.                                 *)
LEMMA GdaAnnounced ==
    ASSUME WordPerMember, IInv, Form = "direct", Announced
    PROVE  IInv'
<1> DEFINE l == "source"
           n == i[0] + 1
           e == entered[PE_start]
           k == left[PE_start]
           f == pSync[PE_start]
<1>1. /\ pc[PE_start] = "announced" /\ pc' = [pc EXCEPT ![PE_start] = l]
      /\ UNCHANGED <<pSync, left, entered, flight>>
  BY DEF Announced, Goto, Step
<1>2. DOMAIN i' = Waves /\ i'[0] = n
  BY GdaRootState DEF Announced
<1>3. \A o \in Others : Announcement(o) \notin flight
  <2>1. Announcement(i[0]) \notin flight
    BY DEF Announced, Quiet, Announcement, Write
  <2> QED
    BY <1>1, <2>1, GdaRootState, GdaInFlight
<1>4. ASSUME NEW o \in Others PROVE DirectMemberIs(o, l, n, e, f[o])
  BY <1>1, <1>3, GdaDirectState
  DEF DirectMemberIs, MemberIs, Waiting, Leaving, Entered
<1>5. /\ pSync' = [pSync EXCEPT ![PE_start] = f]
      /\ left' = [left EXCEPT ![PE_start] = k]
      /\ entered' = [entered EXCEPT ![PE_start] = e]
  BY <1>1, GdaRootState
<1>6. InBarrier(l, e, k) /\ DirectRootIs(l, n, f) /\ DirectPosts(l, n)
  BY <1>1, <1>3, GdaRootState, GdaDirectRoot
  DEF InBarrier, DirectRootIs, DirectPosts
<1> HIDE DEF e, f, k, l, n
<1> QED
  BY <1>1, <1>2, <1>4, <1>5, <1>6, GdaDirectStep

(* The root resets the source word and leaves.                             *)
LEMMA GdaFinishes ==
    ASSUME WordPerMember, IInv, Form = "direct", Finish
    PROVE  IInv'
<1> DEFINE l == "idle"
           n == i[0]
           e == entered[PE_start]
           k == left[PE_start] + 1
           f == [pSync[PE_start] EXCEPT ![0] = 0]
<1>1. /\ pc[PE_start] = "source" /\ pc' = [pc EXCEPT ![PE_start] = l]
      /\ pSync' = [pSync EXCEPT ![PE_start] = f] /\ i[0] >= N
      /\ left' = [left EXCEPT ![PE_start] = k]
      /\ UNCHANGED <<flight, entered, i>>
  BY GdaRootState, GdaRoot DEF Finish, Goto, Leave, Store, Types
<1>2. DOMAIN i' = Waves /\ i'[0] = n
  BY <1>1, GdaRootState
<1>3. \A o \in Others : Announcement(o) \notin flight
  BY <1>1, GdaNothingAnnounced
<1>4. /\ f \in [Offsets -> {0, 1}] /\ f[0] = 0
      /\ \A o \in Offsets : f[o] = IF o = 0 THEN 0 ELSE pSync[PE_start][o]
  BY GdaRootState
<1> HIDE DEF f
<1>5. ASSUME NEW o \in Others PROVE DirectMemberIs(o, l, n, e, f[o])
  BY <1>1, <1>3, <1>4, GdaDirectState, GdaDirectRoot
  DEF DirectMemberIs, MemberIs, Waiting, Leaving, Entered
<1>6. entered' = [entered EXCEPT ![PE_start] = e]
  BY <1>1, GdaRootState
<1>7. InBarrier(l, e, k) /\ DirectRootIs(l, n, f) /\ DirectPosts(l, n)
  BY <1>1, <1>3, <1>4, GdaRootState, GdaDirectRoot
  DEF InBarrier, DirectRootIs, DirectPosts
<1> HIDE DEF e, k, l, n
<1> QED
  BY <1>1, <1>2, <1>5, <1>6, <1>7, GdaDirectStep

(* The wavefronts of the root's work-group, each in its own loop.          *)
LEMMA GdaWgRoot ==
    ASSUME WordPerMember, IInv, Form = "wg"
    PROVE  /\ GDAAssumption /\ Wfs \in Nat \ {0} /\ N \in Nat
           /\ pSync[PE_start][0] = 0
           /\ pc[PE_start] \in {"idle", "collect_wg", "announce_wg"}
           /\ \A w \in Waves : i[w] \in Nat
           /\ pc[PE_start] # "idle" =>
                \A w \in Waves : i[w] > 0 /\ WaveOf(i[w]) = w
BY GdaRootState, GdaConstants DEF RootIs, WaveOf

(* The wavefront that deals with a member.                                 *)
LEMMA GdaWgIndex ==
    ASSUME WordPerMember, IInv, Form = "wg", NEW o \in Others
    PROVE  /\ o \in Nat /\ o >= 1 /\ o < N /\ o \in Offsets
           /\ WaveOf(o) \in Waves /\ Index(o) = i[WaveOf(o)]
           /\ Index(o)' = i'[WaveOf(o)] /\ Index(o) \in Nat
           /\ Announcement(o)' = Announcement(o)
<1>1. o \in Nat /\ o >= 1 /\ o < N /\ o \in Offsets
  BY GdaRootState, GdaOther
<1>2. WaveOf(o) \in Waves
  BY <1>1, GdaRootState, GdaWaves
<1>3. /\ Index(o) = i[WaveOf(o)] /\ Index(o)' = i'[WaveOf(o)]
      /\ Announcement(o)' = Announcement(o)
  BY DEF Index, Announcement, WaveOf
<1>4. Index(o) \in Nat
  BY <1>2, <1>3, GdaWgRoot
<1> QED
  BY <1>1, <1>2, <1>3, <1>4

(* What a member is to the root.                                           *)
LEMMA GdaWgMember ==
    ASSUME WordPerMember, IInv, NEW o \in Others
    PROVE  /\ entered[PE_start] \in Nat /\ entered[Target(o)] \in Nat
           /\ MemberIs(Pending(o), Released(o), Arrival(o) \in flight,
                entered[PE_start], entered[Target(o)], pc[Target(o)],
                pSync[PE_start][o], pSync[Target(o)][0])
<1>1. MemberIn(o) /\ entered[Target(o)] \in Nat /\ entered[PE_start] \in Nat
  BY GdaRootState, GdaOther, GdaRoot DEF IInv, Types
<1> QED
  BY <1>1 DEF MemberIn

(* Nothing is announced and nothing is posted.                             *)
LEMMA GdaFlightKept ==
    ASSUME FlightIs, flight' = flight,
           \A o \in Others : /\ Announcement(o) \notin flight
                             /\ pc'[Target(o)] = pc[Target(o)]
    PROVE  FlightIs'
<1> SUFFICES ASSUME NEW m \in flight
             PROVE  \E o \in Others :
                      m = Arrival(o) /\ pc'[Target(o)] = "arrived"
  BY DEF FlightIs, Arrival
<1> QED
  BY DEF FlightIs

(* What a member is when the root is at l and the index of the member's    *)
(* wavefront is x; nothing is announced.                                   *)
WgMemberIs(o, l, x, e, word) ==
    MemberIs(l = "collect_wg" /\ x <= o,
             l = "idle" \/ (l = "announce_wg" /\ x > o),
             Arrival(o) \in flight, e, entered[Target(o)],
             pc[Target(o)], word, pSync[Target(o)][0])

(* A step of the root in the wg form that posts nothing: its place becomes *)
(* l and the indices of its wavefronts j.                                  *)
LEMMA GdaWgStep ==
    ASSUME WordPerMember, IInv, Form = "wg",
           NEW l \in {"idle", "collect_wg", "announce_wg"}, NEW e, NEW k, NEW f, NEW j,
           pc' = [pc EXCEPT ![PE_start] = l],
           entered' = [entered EXCEPT ![PE_start] = e],
           left' = [left EXCEPT ![PE_start] = k],
           pSync' = [pSync EXCEPT ![PE_start] = f],
           i' = j, DOMAIN j = Waves, \A w \in Waves : j[w] \in Nat,
           l # "idle" => \A w \in Waves : j[w] > 0 /\ WaveOf(j[w]) = w,
           InBarrier(l, e, k), f \in [Offsets -> {0, 1}], f[0] = 0,
           flight' = flight, \A o \in Others : Announcement(o) \notin flight,
           \A o \in Others : WgMemberIs(o, l, j[WaveOf(o)], e, f[o])
    PROVE  IInv'
<1>1. /\ GDAAssumption /\ PE_start \in Members /\ PE_start \in PEs
      /\ Types /\ FlightIs
  BY GdaRootState, GdaRoot
<1>2. pc'[PE_start] = l /\ pSync'[PE_start] = f
  BY <1>1 DEF Types
<1>3. RootIs'
  BY <1>2 DEF RootIs, WaveOf
<1>4. \A o \in Others : pc'[Target(o)] = pc[Target(o)]
  BY <1>1, GdaOther DEF Types
<1>5. FlightIs'
  BY <1>1, <1>4, GdaFlightKept
<1>6. ASSUME NEW o \in Others
      PROVE  /\ Pending(o)' <=> l = "collect_wg" /\ j[WaveOf(o)] <= o
             /\ Released(o)' <=>
                  l = "idle" \/ (l = "announce_wg" /\ j[WaveOf(o)] > o)
  BY <1>2, GdaWgIndex DEF Pending, Released, Posted
<1>7. \A o \in Others :
        MemberIs(Pending(o)', Released(o)', Arrival(o) \in flight,
                 e, entered[Target(o)], pc[Target(o)], f[o],
                 pSync[Target(o)][0])
  BY <1>6 DEF WgMemberIs, MemberIs
<1>8. e \in Nat /\ k \in Nat /\ e = IF l = "idle" THEN k ELSE k + 1
  BY DEF InBarrier
<1> QED
  BY <1>3, <1>5, <1>7, <1>8, GdaRootStep, ZenonT(60)

(* internal_sync_wg, called by the root.                                   *)
LEMMA GdaRootEntersWg ==
    ASSUME WordPerMember, IInv, Form = "wg", internal_sync(PE_start)
    PROVE  IInv'
<1> DEFINE l == "collect_wg"
           e == entered[PE_start] + 1
           k == left[PE_start]
           f == pSync[PE_start]
           j == [w \in Waves |-> w + 1]
<1>1. /\ pc[PE_start] = "idle" /\ pc' = [pc EXCEPT ![PE_start] = l]
      /\ entered' = [entered EXCEPT ![PE_start] = e]
      /\ i' = j /\ UNCHANGED <<pSync, flight, left>>
  BY GdaRootState DEF internal_sync, Goto
<1>2. /\ DOMAIN j = Waves
      /\ \A w \in Waves : j[w] \in Nat /\ j[w] > 0 /\ WaveOf(j[w]) = w
  BY GdaWgRoot, GdaWaves
<1>3. \A o \in Others : Announcement(o) \notin flight
  BY <1>1, GdaNothingAnnounced
<1>4. ASSUME NEW o \in Others PROVE WgMemberIs(o, l, j[WaveOf(o)], e, f[o])
  <2>1. o \in Nat /\ j[WaveOf(o)] \in Nat /\ j[WaveOf(o)] <= o
    BY <1>2, GdaWgIndex, GdaWgRoot, GdaWaves
  <2>2. ~Pending(o) /\ Released(o)
    BY <1>1, <1>3 DEF Pending, Released, Posted
  <2> HIDE DEF j
  <2> QED
    BY <2>1, <2>2, GdaWgMember
    DEF WgMemberIs, MemberIs, Waiting, Leaving, Entered
<1>5. /\ pSync' = [pSync EXCEPT ![PE_start] = f]
      /\ left' = [left EXCEPT ![PE_start] = k]
      /\ f \in [Offsets -> {0, 1}] /\ f[0] = 0 /\ InBarrier(l, e, k)
  BY <1>1, GdaRootState, GdaWgRoot DEF InBarrier
<1> HIDE DEF e, f, k, j
<1> QED
  BY <1>1, <1>2, <1>3, <1>4, <1>5, GdaWgStep, ZenonT(60)

(* A wavefront takes an arrival and goes on to its next member.            *)
LEMMA GdaCollectsWg ==
    ASSUME WordPerMember, IInv, Form = "wg", NEW w \in Waves,
           CollectWg(w)
    PROVE  IInv'
<1> DEFINE l == "collect_wg"
           e == entered[PE_start]
           k == left[PE_start]
           f == [pSync[PE_start] EXCEPT ![i[w]] = 0]
           j == [i EXCEPT ![w] = @ + Wfs]
<1>1. /\ pc[PE_start] = l /\ pSync' = [pSync EXCEPT ![PE_start] = f]
      /\ i' = j /\ UNCHANGED <<pc, entered, flight, left>>
      /\ i[w] < N /\ pSync[PE_start][i[w]] = 1
  BY GdaRootState, GdaRoot DEF CollectWg, Store, Types
<1>2. i[w] \in Nat /\ i[w] > 0 /\ WaveOf(i[w]) = w
  BY <1>1, GdaWgRoot
<1>3. /\ DOMAIN j = Waves
      /\ \A v \in Waves : j[v] = IF v = w THEN i[w] + Wfs ELSE i[v]
      /\ \A v \in Waves : j[v] \in Nat /\ j[v] > 0
  BY <1>1, <1>2, GdaRootState, GdaWgRoot
<1>4. \A v \in Waves : WaveOf(j[v]) = v
  <2>1. WaveOf(i[w] + Wfs) = w
    BY <1>2, GdaWgRoot, GdaWaves
  <2> QED
    BY <1>1, <1>3, <2>1, GdaWgRoot
<1>5. \A o \in Others : Announcement(o) \notin flight
  BY <1>1, GdaNothingAnnounced
<1>6. /\ f \in [Offsets -> {0, 1}] /\ f[0] = 0
      /\ \A o \in Offsets : f[o] = IF o = i[w] THEN 0 ELSE pSync[PE_start][o]
  BY <1>2, GdaRootState, GdaWgRoot, ZenonT(60)
<1> HIDE DEF f, j
<1>7. ASSUME NEW o \in Others PROVE WgMemberIs(o, l, j[WaveOf(o)], e, f[o])
  <2>1. Pending(o) <=> i[WaveOf(o)] <= o
    BY <1>1, GdaWgIndex DEF Pending
  <2>2. ~Released(o)
    BY <1>1 DEF Released, Posted
  <2>3. CASE o = i[w]
    <3>1. WaveOf(o) = w /\ j[w] = o + Wfs /\ f[o] = 0 /\ pSync[PE_start][o] = 1
      BY <1>1, <1>2, <1>3, <1>6, <2>3, GdaWgIndex
    <3>2. ~(j[w] <= o) /\ i[w] <= o
      BY <2>3, <3>1, GdaWgIndex, GdaWgRoot
    <3>3. \/ Leaving(e - 1, Arrival(o) \in flight, entered[Target(o)],
                     pc[Target(o)], 1, pSync[Target(o)][0])
          \/ Entered(e, Arrival(o) \in flight, entered[Target(o)],
                     pc[Target(o)], 1, pSync[Target(o)][0])
      BY <2>1, <2>2, <3>1, <3>2, GdaWgMember DEF MemberIs
    <3>4. Waiting(e, Arrival(o) \in flight, entered[Target(o)],
                  pc[Target(o)], 0, pSync[Target(o)][0])
      BY <3>3 DEF Waiting, Leaving, Entered
    <3> QED
      BY <3>1, <3>2, <3>4 DEF WgMemberIs, MemberIs
  <2>4. CASE o # i[w]
    <3>1. f[o] = pSync[PE_start][o]
      BY <1>6, <2>4, GdaWgIndex
    <3>2. j[WaveOf(o)] <= o <=> i[WaveOf(o)] <= o
      <4>1. CASE WaveOf(o) = w
        <5>1. i[w] < o => i[w] + Wfs <= o
          BY <1>2, <4>1, GdaWgIndex, GdaWgRoot, GdaWaves
        <5> QED
          BY <1>2, <1>3, <2>4, <4>1, <5>1, GdaWgIndex, GdaWgRoot
      <4>2. CASE WaveOf(o) # w
        BY <1>3, <4>2, GdaWgIndex
      <4> QED
        BY <4>1, <4>2
    <3> QED
      BY <2>1, <2>2, <3>1, <3>2, GdaWgMember DEF WgMemberIs, MemberIs
  <2> QED
    BY <2>3, <2>4
<1>8. /\ entered' = [entered EXCEPT ![PE_start] = e]
      /\ left' = [left EXCEPT ![PE_start] = k]
      /\ pc' = [pc EXCEPT ![PE_start] = l] /\ InBarrier(l, e, k)
  BY <1>1, GdaRootState DEF InBarrier, Types
<1> HIDE DEF e, k
<1> QED
  BY <1>1, <1>3, <1>4, <1>5, <1>6, <1>7, <1>8, GdaWgStep

(* The wavefronts meet, and turn to the announcements.                     *)
LEMMA GdaMeets ==
    ASSUME WordPerMember, IInv, Form = "wg", Syncthreads
    PROVE  IInv'
<1> DEFINE l == "announce_wg"
           e == entered[PE_start]
           k == left[PE_start]
           f == pSync[PE_start]
           j == [w \in Waves |-> w + 1]
<1>1. /\ pc[PE_start] = "collect_wg" /\ pc' = [pc EXCEPT ![PE_start] = l]
      /\ i' = j /\ UNCHANGED <<pSync, entered, flight, left>>
      /\ \A w \in Waves : i[w] >= N
  BY DEF Syncthreads, Goto
<1>2. /\ DOMAIN j = Waves
      /\ \A w \in Waves : j[w] \in Nat /\ j[w] > 0 /\ WaveOf(j[w]) = w
  BY GdaWgRoot, GdaWaves
<1>3. \A o \in Others : Announcement(o) \notin flight
  BY <1>1, GdaNothingAnnounced
<1>4. ASSUME NEW o \in Others PROVE WgMemberIs(o, l, j[WaveOf(o)], e, f[o])
  <2>1. o \in Nat /\ j[WaveOf(o)] \in Nat /\ j[WaveOf(o)] <= o
    BY <1>2, GdaWgIndex, GdaWgRoot, GdaWaves
  <2>2. Index(o) > o
    <3>1. PICK v \in Waves : Index(o) = i[v]
      BY GdaWgIndex
    <3>2. i[v] >= N /\ i[v] \in Nat /\ N \in Nat /\ o < N /\ o \in Nat
      BY <1>1, GdaWgIndex, GdaWgRoot
    <3> QED
      BY <3>1, <3>2
  <2>3. ~Pending(o) /\ ~Released(o)
    BY <1>1, <2>2, GdaWgIndex DEF Pending, Released, Posted
  <2> HIDE DEF j
  <2> QED
    BY <2>1, <2>3, GdaWgMember
    DEF WgMemberIs, MemberIs, Waiting, Leaving, Entered
<1>5. /\ pSync' = [pSync EXCEPT ![PE_start] = f]
      /\ left' = [left EXCEPT ![PE_start] = k]
      /\ entered' = [entered EXCEPT ![PE_start] = e]
      /\ f \in [Offsets -> {0, 1}] /\ f[0] = 0 /\ InBarrier(l, e, k)
  BY <1>1, GdaRootState, GdaWgRoot DEF InBarrier
<1> HIDE DEF e, f, k, j
<1> QED
  BY <1>1, <1>2, <1>3, <1>4, <1>5, GdaWgStep, ZenonT(60)

(* Thread 0 resets pSync when every queue pair is quiet, and leaves.       *)
LEMMA GdaFinishesWg ==
    ASSUME WordPerMember, IInv, Form = "wg", FinishWg
    PROVE  IInv'
<1> DEFINE l == "idle"
           e == entered[PE_start]
           k == left[PE_start] + 1
           f == [pSync[PE_start] EXCEPT ![0] = 0]
           j == i
<1>1. /\ pc[PE_start] = "announce_wg" /\ pc' = [pc EXCEPT ![PE_start] = l]
      /\ pSync' = [pSync EXCEPT ![PE_start] = f]
      /\ left' = [left EXCEPT ![PE_start] = k]
      /\ i' = j /\ UNCHANGED <<entered, flight>>
      /\ \A w \in Waves : i[w] >= N
  BY GdaRootState, GdaRoot DEF FinishWg, Goto, Leave, Store, Types
<1>2. DOMAIN j = Waves /\ \A w \in Waves : j[w] \in Nat
  BY GdaRootState, GdaWgRoot
<1>3. ASSUME NEW o \in Others PROVE Announcement(o) \notin flight
  <2>1. Target(o) \in PEs
    BY GdaWgRoot, GdaOther
  <2> QED
    BY <2>1 DEF FinishWg, Quiet, Announcement, Write
<1>4. /\ f \in [Offsets -> {0, 1}] /\ f[0] = 0
      /\ \A o \in Offsets : f[o] = IF o = 0 THEN 0 ELSE pSync[PE_start][o]
  BY GdaRootState
<1> HIDE DEF f
<1>5. ASSUME NEW o \in Others PROVE WgMemberIs(o, l, j[WaveOf(o)], e, f[o])
  <2>1. Index(o) > o
    BY <1>1, GdaWgIndex, GdaWgRoot
  <2>2. ~Pending(o) /\ Released(o)
    BY <1>1, <1>3, <2>1, GdaWgIndex DEF Pending, Released, Posted
  <2>3. f[o] = pSync[PE_start][o]
    BY <1>4, GdaWgIndex
  <2> HIDE DEF j
  <2> QED
    BY <2>2, <2>3, GdaWgMember
    DEF WgMemberIs, MemberIs, Waiting, Leaving, Entered
<1>6. /\ entered' = [entered EXCEPT ![PE_start] = e] /\ InBarrier(l, e, k)
  BY <1>1, GdaRootState, GdaWgRoot DEF InBarrier
<1> HIDE DEF e, k, j
<1> QED
  BY <1>1, <1>2, <1>3, <1>4, <1>5, <1>6, GdaWgStep, ZenonT(60)

(* A wavefront posts an announcement and goes on to its next member.       *)
LEMMA GdaAnnouncesWg ==
    ASSUME WordPerMember, IInv, Form = "wg", NEW w \in Waves,
           AnnounceWg(w)
    PROVE  IInv'
<1> DEFINE l == "announce_wg"
           e == entered[PE_start]
           k == left[PE_start]
           f == pSync[PE_start]
           j == [i EXCEPT ![w] = @ + Wfs]
<1>1. /\ pc[PE_start] = l /\ i[w] < N /\ i' = j
      /\ UNCHANGED <<pc, pSync, entered, left>>
  BY DEF AnnounceWg
<1>2. i[w] \in Nat /\ i[w] > 0 /\ WaveOf(i[w]) = w
  BY <1>1, GdaWgRoot
<1>3. PICK q \in Others : q = i[w] /\ WaveOf(q) = w
  BY <1>1, <1>2, GdaWgRoot DEF Others
<1>4. flight' = flight \cup {Announcement(q)}
  <2>1. WgTarget(w, q) = Target(q)
    BY <1>3, GdaWgTarget DEF WaveOf
  <2> QED
    BY <1>3, <2>1 DEF AnnounceWg, put_nbi, Announcement, Value
<1>5. /\ DOMAIN j = Waves
      /\ \A v \in Waves : j[v] = IF v = w THEN q + Wfs ELSE i[v]
      /\ \A v \in Waves : j[v] \in Nat /\ j[v] > 0
  BY <1>1, <1>2, <1>3, GdaRootState, GdaWgRoot
<1>6. \A v \in Waves : WaveOf(j[v]) = v
  <2>1. Wfs \in Nat \ {0} /\ q \in Nat /\ q >= 1
    BY GdaWgRoot, GdaWgIndex
  <2>2. WaveOf(q + Wfs) = WaveOf(q)
    BY <2>1, GdaWgRoot, GdaWaves
  <2> QED
    BY <1>1, <1>3, <1>5, <2>2, GdaWgRoot
<1> HIDE DEF j
<1>7. ASSUME NEW o \in Others
      PROVE  /\ Index(o)' \in Nat /\ Index(o)' >= Index(o)
             /\ o # q => (Index(o)' > o <=> Index(o) > o)
             /\ Index(q)' > q /\ ~(Index(q) > q)
  <2>1. PICK v \in Waves : /\ v = WaveOf(o) /\ Index(o) = i[v]
                           /\ Index(o)' = j[v]
    BY <1>1, GdaWgIndex
  <2>2. Index(q)' = q + Wfs /\ Index(q) = q
    BY <1>1, <1>3, <1>5, GdaWgIndex
  <2>3. /\ o \in Nat /\ q \in Nat /\ q >= 1 /\ Wfs \in Nat \ {0} /\ i[v] \in Nat
    BY GdaWgIndex, GdaWgRoot
  <2>4. CASE v = w
    <3>1. i[v] = q /\ j[v] = q + Wfs
      BY <1>3, <1>5, <2>4
    <3>2. q < o => q + Wfs <= o
      BY <1>3, <2>1, <2>3, <2>4, GdaWgRoot, GdaWaves, ZenonT(60)
    <3> QED
      BY <2>1, <2>2, <2>3, <3>1, <3>2
  <2>5. CASE v # w
    <3>1. j[v] = i[v]
      BY <1>5, <2>5
    <3> QED
      BY <2>1, <2>2, <2>3, <3>1
  <2> QED
    BY <2>4, <2>5
<1>8. ASSUME NEW o \in Others
      PROVE  /\ Pending(o)' <=> Pending(o)
             /\ Released(o)' <=> Released(o)
             /\ Arrival(o) \in flight' <=> Arrival(o) \in flight
  <2>1. /\ Arrival(o) # Announcement(q)
        /\ o # q => Announcement(o) # Announcement(q)
    BY GdaWgRoot, GdaMessages
  <2>2. Announcement(o)' = Announcement(o) /\ Index(o) \in Nat /\ o \in Nat
    BY GdaWgIndex
  <2> QED
    BY <1>1, <1>4, <1>7, <2>1, <2>2 DEF Pending, Released, Posted
<1>9. FlightIs'
  <2> SUFFICES ASSUME NEW m \in flight'
               PROVE  \E o \in Others :
                        \/ m = Arrival(o) /\ pc'[Target(o)] = "arrived"
                        \/ /\ m = Announcement(o)
                           /\ \/ pc'[PE_start] = "announced" /\ i'[0] = o
                              \/ pc'[PE_start] = "announce_wg" /\ Index(o)' > o
    BY DEF FlightIs, Arrival, Announcement
  <2>1. CASE m = Announcement(q)
    BY <1>1, <1>7, <2>1
  <2>2. CASE m # Announcement(q)
    <3>1. PICK o \in Others :
            \/ m = Arrival(o) /\ pc[Target(o)] = "arrived"
            \/ /\ m = Announcement(o)
               /\ \/ pc[PE_start] = "announced" /\ i[0] = o
                  \/ pc[PE_start] = "announce_wg" /\ Index(o) > o
      BY <1>4, <2>2, GdaRootState DEF FlightIs
    <3>2. Index(o) \in Nat /\ o \in Nat
      BY GdaWgIndex
    <3> QED
      BY <1>1, <1>7, <3>1, <3>2
  <2> QED
    BY <2>1, <2>2
<1>10. /\ pc' = [pc EXCEPT ![PE_start] = l]
       /\ entered' = [entered EXCEPT ![PE_start] = e]
       /\ left' = [left EXCEPT ![PE_start] = k]
       /\ pSync' = [pSync EXCEPT ![PE_start] = f]
       /\ e \in Nat /\ k \in Nat /\ f \in [Offsets -> {0, 1}]
       /\ e = IF l = "idle" THEN k ELSE k + 1
  BY <1>1, GdaRootState, GdaRoot DEF Types
<1>11. RootIs'
  BY <1>1, <1>5, <1>6, GdaWgRoot DEF RootIs, WaveOf
<1>12. \A o \in Others :
        MemberIs(Pending(o)', Released(o)', Arrival(o) \in flight,
                 e, entered[Target(o)], pc[Target(o)], f[o],
                 pSync[Target(o)][0])
  BY <1>8, GdaWgMember DEF MemberIs
<1>13. /\ DOMAIN i' = Waves
       /\ \A o \in Others : Arrival(o) \in flight' <=> Arrival(o) \in flight
  BY <1>1, <1>5, <1>8
<1> HIDE DEF e, f, k, l
<1> QED
  BY <1>9, <1>10, <1>11, <1>12, <1>13, GdaRootStep, ZenonT(60)

(* What an operation on its way is.                                        *)
LEMMA GdaOperation ==
    ASSUME NEW o \in Others
    PROVE  /\ Arrival(o).from = Target(o) /\ Arrival(o).to = PE_start
           /\ Arrival(o).o = o /\ Arrival(o).op = "write"
           /\ Arrival(o).source = Value
           /\ Announcement(o).from = PE_start
           /\ Announcement(o).to = Target(o)
           /\ Announcement(o).o = 0 /\ Announcement(o).op = "write"
           /\ Announcement(o).source = Value
BY DEF Arrival, Announcement, Write

(* The adapter executes the arrival of the member at offset a: the root's  *)
(* word for it becomes 1.                                                  *)
LEMMA GdaArrivalLands ==
    ASSUME WordPerMember, IInv, NEW a \in Others,
           Arrival(a) \in flight, Execute(Arrival(a))
    PROVE  IInv'
<1> DEFINE f == [pSync[PE_start] EXCEPT ![a] = 1]
           l == pc[PE_start]
           e == entered[PE_start]
           k == left[PE_start]
<1>1. /\ flight' = flight \ {Arrival(a)}
      /\ UNCHANGED <<pc, i, entered, left>>
  BY DEF Execute
<1>2. pc[Target(a)] = "arrived" /\ a \in Offsets /\ a # 0
  BY GdaMemberState
<1>3. pSync' = [pSync EXCEPT ![PE_start] = f]
  <2>1. Form # "wg" => pSync[Target(a)][a] = 1
    BY <1>2, GdaMemberState
  <2>2. (IF Value = Unread THEN pSync[Target(a)][a] ELSE Value) = 1
    BY <2>1 DEF Value, Unread
  <2> QED
    BY <2>2, GdaOperation, GdaRootState, GdaRoot DEF Execute, Store, Types
<1>4. /\ f \in [Offsets -> {0, 1}]
      /\ \A o \in Offsets : f[o] = IF o = a THEN 1 ELSE pSync[PE_start][o]
  BY <1>2, GdaRootState
<1> HIDE DEF f
<1>5. ASSUME NEW o \in Others
      PROVE  /\ Announcement(o) \in flight' <=> Announcement(o) \in flight
             /\ Arrival(o) \in flight' <=> Arrival(o) \in flight /\ o # a
  BY <1>1, GdaRootState, GdaMessages
<1>6. ASSUME NEW o \in Others
      PROVE  /\ Pending(o)' <=> Pending(o)
             /\ Released(o)' <=> Released(o)
             /\ Arrival(o)' = Arrival(o)
             /\ entered'[PE_start] = e
             /\ pSync'[Target(o)] = pSync[Target(o)]
             /\ pSync'[PE_start][o] = IF o = a THEN 1 ELSE pSync[PE_start][o]
             /\ o \in Offsets
  <2>1. Announcement(o)' = Announcement(o) /\ Arrival(o)' = Arrival(o)
    BY DEF Announcement, Arrival
  <2>2. o \in Offsets /\ Target(o) # PE_start /\ PE_start \in PEs
    BY GdaRootState, GdaOther, GdaRoot
  <2>3. Index(o)' = Index(o)
    BY <1>1 DEF Index
  <2> QED
    BY <1>1, <1>3, <1>4, <1>5, <2>1, <2>2, <2>3, GdaRootState
    DEF Pending, Released, Posted, Types
<1>7. Types' /\ Counts'
  BY <1>1, <1>3, <1>4, GdaRootState, GdaRoot DEF IInv, Types, Counts
<1>8. RootIs'
  <2>1. pSync'[PE_start] = f
    BY <1>3, GdaRootState, GdaRoot DEF Types
  <2>2. f[0] = pSync[PE_start][0]
    BY <1>2, <1>4, GdaRootState
  <2>3. ASSUME l = "clear", Form # "wg" PROVE f[i[0]] = 1
    <3>1. Form = "direct"
      BY <2>3, GdaRootState
    <3>2. i[0] \in Offsets /\ pSync[PE_start][i[0]] = 1
      BY <2>3, <3>1, GdaDirectRoot DEF Offsets
    <3> QED
      BY <1>4, <3>2
  <2> QED
    BY <1>1, <2>1, <2>2, <2>3, GdaRootState DEF RootIs
<1>9. WordsAre'
  <2>1. \A p \in PEs \ {PE_start} : pSync'[p] = pSync[p]
    BY <1>3, GdaRootState DEF Types
  <2>2. \A o \in Others : Target(o) \in PEs \ {PE_start}
    BY GdaRootState, GdaOther
  <2> QED
    BY <1>1, <2>1, <2>2 DEF IInv, WordsAre
<1>10. FlightIs'
  <2>1. flight' \subseteq flight
    BY <1>1
  <2> QED
    BY <1>1, <2>1, GdaRootState DEF FlightIs, Arrival, Announcement, Index
<1>11. ASSUME NEW o \in Others PROVE MemberIn(o)'
  <2>1. MemberIn(o)
    BY DEF IInv
  <2>2. CASE o = a
    BY <1>1, <1>2, <1>5, <1>6, <2>1, <2>2
    DEF MemberIn, MemberIs, Waiting, Leaving, Entered
  <2>3. CASE o # a
    BY <1>1, <1>5, <1>6, <2>1, <2>3
    DEF MemberIn, MemberIs, Waiting, Leaving, Entered
  <2> QED
    BY <2>2, <2>3
<1> QED
  BY <1>7, <1>8, <1>9, <1>10, <1>11 DEF IInv

(* The adapter executes the announcement to the member at offset a: the    *)
(* member is released.                                                     *)
LEMMA GdaAnnouncementLands ==
    ASSUME WordPerMember, IInv, NEW a \in Others,
           Announcement(a) \in flight, Execute(Announcement(a))
    PROVE  IInv'
<1> DEFINE t == Target(a)
           f == [pSync[t] EXCEPT ![0] = 1]
<1>1. /\ flight' = flight \ {Announcement(a)}
      /\ UNCHANGED <<pc, i, entered, left>>
  BY DEF Execute
<1>2. /\ \/ pc[PE_start] = "announced" /\ i[0] = a
         \/ pc[PE_start] = "announce_wg" /\ Index(a) > a
      /\ a \in Offsets /\ a # 0 /\ 0 \in Offsets /\ t # PE_start /\ t \in PEs
  BY GdaRootState, GdaInFlight, GdaOther
<1>3. Form # "wg" => pSync[PE_start][0] = 1 /\ Index(a) = a
  <2> SUFFICES ASSUME Form # "wg" PROVE pSync[PE_start][0] = 1 /\ Index(a) = a
    OBVIOUS
  <2>1. Form = "direct"
    BY GdaRootState
  <2>2. pc[PE_start] = "announced" /\ i[0] = a
    BY <1>2, <2>1, GdaRootState DEF RootIs
  <2> QED
    BY <2>1, <2>2, GdaDirectRoot DEF Index
<1>4. pSync' = [pSync EXCEPT ![t] = f]
  <2>1. (IF Value = Unread THEN pSync[PE_start][0] ELSE Value) = 1
    BY <1>3 DEF Value, Unread
  <2> QED
    BY <1>2, <2>1, GdaOperation, GdaRootState, ZenonT(60) DEF Execute, Store, Types
<1>5. /\ f \in [Offsets -> {0, 1}]
      /\ \A o \in Offsets : f[o] = IF o = 0 THEN 1 ELSE pSync[t][o]
  BY <1>2, GdaMemberState
<1> HIDE DEF f
<1>6. ASSUME NEW o \in Others
      PROVE  /\ Announcement(o) \in flight' <=> Announcement(o) \in flight /\ o # a
             /\ Arrival(o) \in flight' <=> Arrival(o) \in flight
             /\ Announcement(o)' = Announcement(o)
             /\ Arrival(o)' = Arrival(o) /\ Index(o)' = Index(o)
             /\ pSync'[PE_start] = pSync[PE_start]
             /\ o # a => pSync'[Target(o)] = pSync[Target(o)]
             /\ pSync'[t] = f
             /\ Pending(o)' <=> Pending(o)
             /\ o # a => (Released(o)' <=> Released(o))
  <2>1. /\ Announcement(o)' = Announcement(o)
        /\ Arrival(o)' = Arrival(o)
        /\ Index(o)' = Index(o)
    BY <1>1 DEF Announcement, Arrival, Index
  <2>2. /\ Announcement(o) \in flight' <=> Announcement(o) \in flight /\ o # a
        /\ Arrival(o) \in flight' <=> Arrival(o) \in flight
    BY <1>1, GdaRootState, GdaMessages
  <2>3. o # a => Target(o) # t
    BY GdaRootState, GdaOther, GdaInjective
  <2>4. /\ pSync'[PE_start] = pSync[PE_start]
        /\ o # a => pSync'[Target(o)] = pSync[Target(o)]
        /\ pSync'[t] = f
    BY <1>2, <1>4, <2>3, GdaRootState, GdaRoot, GdaOther DEF Types
  <2> QED
    BY <1>1, <2>1, <2>2, <2>4 DEF Pending, Released, Posted
<1>7. Types' /\ Counts'
  BY <1>1, <1>2, <1>4, <1>5, GdaRootState DEF IInv, Types, Counts
<1>8. RootIs'
  BY <1>1, <1>6, GdaRootState DEF RootIs
<1>9. WordsAre'
  <2>1. ASSUME NEW o \in Others
        PROVE  pSync'[Target(o)][o] = pSync[Target(o)][o]
    BY <1>2, <1>5, <1>6
  <2>2. ASSUME NEW p \in PEs \ {PE_start}, NEW o \in Offsets
        PROVE  pSync'[p][o] = 0 \/ \E q \in Others : p = Target(q) /\ o \in {0, q}
    <3>1. CASE p = t /\ o = 0
      BY <3>1
    <3>2. CASE p # t \/ o # 0
      <4>1. pSync'[p][o] = pSync[p][o]
        BY <1>2, <1>4, <1>5, <3>2, GdaRootState DEF Types
      <4> QED
        BY <4>1 DEF IInv, WordsAre
    <3> QED
      BY <3>1, <3>2
  <2> QED
    BY <1>1, <2>1, <2>2 DEF IInv, WordsAre
<1>10. FlightIs'
  <2>1. flight' \subseteq flight
    BY <1>1
  <2> QED
    BY <1>1, <2>1, GdaRootState DEF FlightIs, Arrival, Announcement, Index
<1>11. ASSUME NEW o \in Others PROVE MemberIn(o)'
  <2>1. MemberIn(o)
    BY DEF IInv
  <2>2. CASE o = a
    <3>1. ~Pending(a) /\ ~Released(a)
      BY <1>2 DEF Pending, Released
    <3>2. Released(a)'
      BY <1>1, <1>2, <1>3, <1>6, GdaRootState DEF Released, Posted, RootIs
    <3>3. pSync'[t][0] = 1
      BY <1>2, <1>5, <1>6
    <3> QED
      BY <1>1, <1>6, <2>1, <2>2, <3>1, <3>2, <3>3
      DEF MemberIn, MemberIs, Waiting, Leaving
  <2>3. CASE o # a
    BY <1>1, <1>6, <2>1, <2>3
    DEF MemberIn, MemberIs, Waiting, Leaving, Entered
  <2> QED
    BY <2>2, <2>3
<1> QED
  BY <1>7, <1>8, <1>9, <1>10, <1>11 DEF IInv

(* Every step preserves the invariant; the actions of the counted form and *)
(* those of the other members at the root cannot happen.                   *)
LEMMA GdaStep ==
    ASSUME WordPerMember, IInv, Next
    PROVE  IInv'
<1>0. GDAAssumption /\ Form \in {"direct", "wg"} /\ RootIs
  BY GdaRootState
<1>1. /\ Form = "wg" => pc[PE_start] \in {"idle", "collect_wg", "announce_wg"}
      /\ Form # "wg" => pc[PE_start] \in
           {"idle", "collect", "clear", "source", "announce", "announced"}
  BY <1>0 DEF RootIs
<1>2. CASE Root
  <2>1. CASE Collect
    <3>1. Form = "direct"
      BY <1>0, <1>1, <2>1 DEF Collect
    <3> QED
      BY <2>1, <3>1, GdaCollects
  <2>2. CASE Clear
    <3>1. Form = "direct"
      BY <1>0, <1>1, <2>2 DEF Clear, Step
    <3> QED
      BY <2>2, <3>1, GdaClears
  <2>3. CASE SetSource
    <3>1. Form = "direct"
      BY <1>0, <1>1, <2>3 DEF SetSource
    <3> QED
      BY <2>3, <3>1, GdaSetsSource
  <2>4. CASE Announce
    <3>1. Form = "direct"
      BY <1>0, <1>1, <2>4 DEF Announce, Step
    <3> QED
      BY <2>4, <3>1, GdaAnnounces
  <2>5. CASE Announced
    <3>1. Form = "direct"
      BY <1>0, <1>1, <2>5 DEF Announced, Step
    <3> QED
      BY <2>5, <3>1, GdaAnnounced
  <2>6. CASE Finish
    <3>1. Form = "direct"
      BY <1>0, <1>1, <2>6 DEF Finish
    <3> QED
      BY <2>6, <3>1, GdaFinishes
  <2>7. CASE Syncthreads
    <3>1. Form = "wg"
      BY <1>1, <2>7 DEF Syncthreads
    <3> QED
      BY <2>7, <3>1, GdaMeets
  <2>8. CASE FinishWg
    <3>1. Form = "wg"
      BY <1>1, <2>8 DEF FinishWg
    <3> QED
      BY <2>8, <3>1, GdaFinishesWg
  <2>9. ~(Count \/ Zero \/ Flag \/ Send \/ QuietAndReset)
    BY <1>1 DEF Count, Zero, Flag, Send, QuietAndReset, Step
  <2> QED
    BY <1>2, <2>1, <2>2, <2>3, <2>4, <2>5, <2>6, <2>7, <2>8, <2>9 DEF Root
<1>3. CASE Adapter
  <2>1. PICK m \in flight : Execute(m)
    BY <1>3 DEF Adapter
  <2>2. PICK a \in Others : m = Arrival(a) \/ m = Announcement(a)
    BY GdaRootState DEF FlightIs
  <2> QED
    BY <2>1, <2>2, GdaArrivalLands, GdaAnnouncementLands
<1>4. ASSUME NEW w \in Waves, Wave(w) PROVE IInv'
  <2>1. CASE CollectWg(w)
    <3>1. Form = "wg"
      BY <1>1, <2>1 DEF CollectWg
    <3> QED
      BY <2>1, <3>1, GdaCollectsWg
  <2>2. CASE AnnounceWg(w)
    <3>1. Form = "wg"
      BY <1>1, <2>2 DEF AnnounceWg
    <3> QED
      BY <2>2, <3>1, GdaAnnouncesWg
  <2> QED
    BY <1>4, <2>1, <2>2 DEF Wave
<1>5. CASE internal_sync(PE_start)
  BY <1>0, <1>5, GdaRootEntersDirect, GdaRootEntersWg
<1>6. ~Other(PE_start)
  BY <1>1 DEF Other, Mark, Arrive, Arrived, amo_add,
              wait_until, Reset, Unmark, Step
<1>7. ASSUME NEW a \in Others,
             internal_sync(Target(a)) \/ Other(Target(a))
      PROVE  IInv'
  <2>1. ~amo_add(Target(a))
    BY GdaMemberState DEF amo_add, Step
  <2> QED
    BY <1>7, <2>1, GdaEnters, GdaMarks, GdaArrives, GdaLeaves DEF Other
<1>8. ASSUME NEW p \in Members, internal_sync(p) \/ Other(p)
      PROVE  IInv'
  BY <1>0, <1>5, <1>6, <1>7, <1>8, GdaMember
<1> QED
  BY <1>2, <1>3, <1>4, <1>8 DEF Next

(* A step that changes nothing preserves the invariant.                    *)
LEMMA GdaStutter ==
    ASSUME IInv, UNCHANGED vars
    PROVE  IInv'
<1>1. /\ pSync' = pSync /\ flight' = flight /\ pc' = pc
      /\ i' = i /\ entered' = entered /\ left' = left
  BY DEF vars
<1>2. Types' /\ Counts' /\ RootIs'
  BY <1>1 DEF IInv, Types, Counts, RootIs
<1>3. WordsAre' /\ FlightIs'
  BY <1>1 DEF IInv, WordsAre, FlightIs, Arrival, Announcement, Index
<1>4. \A o \in Others : MemberIn(o)'
  BY <1>1 DEF IInv, MemberIn, Pending, Released, Posted,
              Arrival, Announcement, Index
<1> QED
  BY <1>2, <1>3, <1>4 DEF IInv

(* The barriers of the GDA backend with a word per member, internal_direct *)
(* _barrier and internal_direct_barrier_wg, keep the invariant: at every   *)
(* moment a member is still leaving the round before, has arrived, waits   *)
(* for its release or has it, and the root's words and the writes on their *)
(* way say which.                                                          *)
THEOREM GdaInductive == WordPerMember /\ Spec => []IInv
<1> SUFFICES ASSUME WordPerMember PROVE Spec => []IInv
  OBVIOUS
<1>1. Init => IInv
  BY GdaInit
<1>2. IInv /\ [Next]_vars => IInv'
  BY GdaStep, GdaStutter
<1> QED
  BY <1>1, <1>2, PTL DEF Spec

(* How far apart the members may be.  The round of a member that is not    *)
(* collected yet may be the one before the root's, but then nobody has     *)
(* been released from the root's.                                          *)
LEMMA GdaRounds ==
    ASSUME WordPerMember, IInv, NEW o \in Others
    PROVE  LET r == entered[PE_start]
               e == entered[Target(o)]
               k == left[Target(o)]
               l == pc[Target(o)]
               collecting == pc[PE_start] \in {"collect", "clear", "collect_wg"}
           IN  /\ r \in Nat /\ e \in Nat /\ k \in Nat
               /\ e = IF l = "idle" THEN k ELSE k + 1
               /\ e >= r - 1 /\ k <= r
               /\ e < r => collecting /\ Pending(o)
               /\ collecting => k <= r - 1
               /\ l \in {"reset", "unmark"} => e <= r /\ (collecting => e = r - 1)
               /\ ~Pending(o) => e >= r
               /\ e = r /\ l = "idle" => /\ pSync[PE_start][o] = 0
                                         /\ pSync[Target(o)][0] = 0
<1> DEFINE r == entered[PE_start]
           e == entered[Target(o)]
           k == left[Target(o)]
           l == pc[Target(o)]
           collecting == pc[PE_start] \in {"collect", "clear", "collect_wg"}
           x == pSync[PE_start][o]
           y == pSync[Target(o)][0]
           b == Arrival(o) \in flight
<1>1. Pending(o) => collecting
  BY DEF Pending
<1>2. Released(o) => ~collecting
  BY DEF Released, Posted
<1>3. /\ r \in Nat /\ e \in Nat /\ k \in Nat /\ e = IF l = "idle" THEN k ELSE k + 1
      /\ MemberIs(Pending(o), Released(o), b, r, e, l, x, y)
  BY GdaMemberState
<1> SUFFICES /\ e >= r - 1 /\ k <= r
             /\ e < r => collecting /\ Pending(o)
             /\ collecting => k <= r - 1
             /\ l \in {"reset", "unmark"} => e <= r /\ (collecting => e = r - 1)
             /\ ~Pending(o) => e >= r
             /\ e = r /\ l = "idle" => x = 0 /\ y = 0
  BY <1>3, Zenon
<1> HIDE DEF r, e, k, l, collecting, x, y, b
<1>4. CASE ~Pending(o) /\ ~Released(o)
  <2>1. e = r /\ l \in {"arrived", "wait"}
    BY <1>3, <1>4 DEF MemberIs, Waiting
  <2>2. k = r - 1
    BY <1>3, <2>1
  <2> QED
    BY <1>3, <1>4, <2>1, <2>2
<1>5. CASE Pending(o)
  <2>1. ~Released(o)
    BY <1>1, <1>2, <1>5
  <2>2. \/ e = r - 1
        \/ e = r /\ l \notin {"idle", "reset", "unmark"}
    BY <1>3, <1>5, <2>1 DEF MemberIs, Leaving, Entered
  <2>3. e >= r - 1 /\ k <= r - 1 /\ (e = r => l \notin {"idle", "reset", "unmark"})
    BY <1>3, <2>2
  <2> QED
    BY <1>1, <1>3, <1>5, <2>3
<1>6. CASE ~Pending(o) /\ Released(o)
  <2>1. \/ e = r /\ (l = "idle" => x = 0 /\ y = 0)
        \/ e = r + 1 /\ l \notin {"idle", "reset", "unmark"}
    BY <1>3, <1>6 DEF MemberIs, Leaving, Entered
  <2>2. /\ e >= r /\ k <= r /\ (e = r /\ l = "idle" => x = 0 /\ y = 0)
        /\ l \in {"reset", "unmark"} => e = r
    BY <1>3, <2>1
  <2>3. ~collecting
    BY <1>2, <1>6
  <2> QED
    BY <1>3, <1>6, <2>2, <2>3
<1> QED
  BY <1>4, <1>5, <1>6

(* Hence nobody is a round ahead of somebody who has not entered it.       *)
LEMMA GdaNobodyLeavesEarly ==
    ASSUME WordPerMember, IInv
    PROVE  NobodyLeavesEarly
<1> SUFFICES ASSUME NEW p \in Members, NEW q \in Members
             PROVE  left[p] <= entered[q]
  BY DEF NobodyLeavesEarly
<1>1. GDAAssumption
  BY GdaRootState
<1>2. CASE p = PE_start /\ q = PE_start
  BY <1>2, GdaRootState
<1>3. CASE p = PE_start /\ q # PE_start
  <2>1. PICK o \in Others : q = Target(o)
    BY <1>1, <1>3, GdaMember
  <2> QED
    BY <1>3, <2>1, GdaRootState, GdaRounds
<1>4. CASE p # PE_start /\ q = PE_start
  <2>1. PICK o \in Others : p = Target(o)
    BY <1>1, <1>4, GdaMember
  <2> QED
    BY <1>4, <2>1, GdaRounds
<1>5. CASE p # PE_start /\ q # PE_start
  <2>1. PICK o \in Others, u \in Others : p = Target(o) /\ q = Target(u)
    BY <1>1, <1>5, GdaMember
  <2> QED
    BY <2>1, GdaRounds
<1> QED
  BY <1>2, <1>3, <1>4, <1>5

(* Nobody leaves a GDA barrier that somebody has not entered, for every    *)
(* team, any number of barriers on the same pSync, and writes that land at *)
(* any time after they were posted.                                        *)
THEOREM GdaSafe == WordPerMember /\ Spec => []NobodyLeavesEarly
<1> SUFFICES ASSUME WordPerMember PROVE Spec => []NobodyLeavesEarly
  OBVIOUS
<1>1. IInv => NobodyLeavesEarly
  BY GdaNobodyLeavesEarly
<1>2. Spec => []IInv
  BY GdaInductive
<1> QED
  BY <1>1, <1>2, PTL

(* When all have left the same round the words are clean.                  *)
LEMMA GdaQuiescentIsClean ==
    ASSUME WordPerMember, IInv
    PROVE  QuiescentIsClean
<1> SUFFICES ASSUME \A p \in Members : /\ pc[p] = "idle"
                                       /\ left[p] = left[PE_start]
             PROVE  /\ flight = {}
                    /\ pSync = [p \in PEs |-> [o \in Offsets |-> 0]]
  BY DEF QuiescentIsClean
<1>1. /\ GDAAssumption /\ pc[PE_start] = "idle" /\ Types /\ RootIs
      /\ FlightIs /\ entered[PE_start] = left[PE_start]
  BY GdaRootState, GdaRoot
<1>2. ASSUME NEW o \in Others
      PROVE  /\ pc[Target(o)] = "idle"
             /\ pSync[PE_start][o] = 0 /\ pSync[Target(o)][0] = 0
             /\ pSync[Target(o)][o] = 0
  <2>1. /\ pc[Target(o)] = "idle"
        /\ left[Target(o)] = left[PE_start]
    BY <1>1, GdaOther
  <2>2. entered[Target(o)] = entered[PE_start]
    BY <1>1, <2>1, GdaMemberState
  <2> QED
    BY <2>1, <2>2, GdaMemberState, GdaRounds
<1>3. flight = {}
  BY <1>1, <1>2 DEF FlightIs
<1>4. ASSUME NEW p \in PEs, NEW o \in Offsets PROVE pSync[p][o] = 0
  <2>1. CASE p = PE_start
    <3>1. pSync[PE_start][0] = 0
      BY <1>1 DEF RootIs
    <3>2. o = 0 \/ o \in Others
      BY <1>1, GdaConstants DEF Offsets, Others
    <3> QED
      BY <1>2, <2>1, <3>1, <3>2
  <2>2. CASE p # PE_start
    BY <1>2, <2>2 DEF IInv, WordsAre
  <2> QED
    BY <2>1, <2>2
<1>5. pSync = [p \in PEs |-> [o \in Offsets |-> 0]]
  <2>1. ASSUME NEW p \in PEs PROVE pSync[p] = [o \in Offsets |-> 0]
    BY <1>1, <1>4 DEF Types
  <2> QED
    BY <1>1, <2>1 DEF Types
<1> QED
  BY <1>3, <1>5

(* When everybody has left the same GDA barrier every word of pSync is 0   *)
(* again and no write to it is on its way: the team may be reused or freed. *)
THEOREM GdaLeavesClean == WordPerMember /\ Spec => []QuiescentIsClean
<1> SUFFICES ASSUME WordPerMember PROVE Spec => []QuiescentIsClean
  OBVIOUS
<1>1. IInv => QuiescentIsClean
  BY GdaQuiescentIsClean
<1>2. Spec => []IInv
  BY GdaInductive
<1> QED
  BY <1>1, <1>2, PTL

(* A member that leaves does so after everybody has entered.               *)
LEMMA GdaLeaveIsAllowed ==
    ASSUME WordPerMember, IInv, NEW p \in Members,
           \/ /\ p # PE_start /\ pc[p] \in {"reset", "unmark"}
           \/ /\ p = PE_start /\ pc[PE_start] \in {"source", "announce_wg"}
    PROVE  /\ entered[p] = left[p] + 1
           /\ \A q \in Members : entered[q] >= entered[p]
<1>1. GDAAssumption
  BY GdaRootState
<1>2. entered[p] = left[p] + 1
  <2>1. CASE p = PE_start
    BY <2>1, GdaRootState
  <2>2. CASE p # PE_start
    BY <1>1, <2>2, GdaMember, GdaMemberState
  <2> QED
    BY <2>1, <2>2
<1>3. ASSUME NEW q \in Members PROVE entered[q] >= entered[p]
  <2>1. CASE p = PE_start
    <3>1. CASE q = PE_start
      BY <2>1, <3>1, GdaRootState
    <3>2. CASE q # PE_start
      <4>1. PICK u \in Others : q = Target(u)
        BY <1>1, <3>2, GdaMember
      <4> QED
        BY <2>1, <4>1, GdaRounds
    <3> QED
      BY <3>1, <3>2
  <2>2. CASE p # PE_start
    <3>1. PICK o \in Others : p = Target(o)
      BY <1>1, <2>2, GdaMember
    <3>2. CASE q = PE_start
      BY <2>2, <3>1, <3>2, GdaRounds
    <3>3. CASE q # PE_start
      <4>1. PICK u \in Others : q = Target(u)
        BY <1>1, <3>3, GdaMember
      <4> QED
        BY <2>2, <3>1, <4>1, GdaRounds
    <3> QED
      BY <3>2, <3>3
  <2> QED
    BY <2>1, <2>2
<1> QED
  BY <1>2, <1>3

(* A step of the protocol as a step of Barrier.                            *)
LEMMA GdaStepIsBarrierStep ==
    ASSUME WordPerMember, IInv, Next
    PROVE  B!Next \/ UNCHANGED <<entered, left>>
<1>0. /\ GDAAssumption /\ PE_start \in Members
      /\ pc[PE_start] \notin {"reset", "unmark", "send"}
  BY GdaRootState, GdaRoot DEF RootIs
<1>1. ASSUME NEW p \in Members, internal_sync(p) PROVE B!Next
  <2>1. entered[p] = left[p]
    BY <1>1 DEF internal_sync, IInv, Counts
  <2> QED
    BY <1>1, <2>1 DEF internal_sync, B!Next, B!Enter
<1>2. ASSUME NEW p \in Members, Leave(p), UNCHANGED entered,
             \/ /\ p # PE_start /\ pc[p] \in {"reset", "unmark"}
             \/ /\ p = PE_start /\ pc[PE_start] \in {"source", "announce_wg"}
      PROVE  B!Next
  BY <1>2, GdaLeaveIsAllowed DEF Leave, B!Next, B!Leave
<1>3. CASE Root
  <2>1. CASE Finish
    BY <1>0, <1>2, <2>1 DEF Finish
  <2>2. CASE FinishWg
    BY <1>0, <1>2, <2>2 DEF FinishWg
  <2>3. ~QuietAndReset
    BY <1>0 DEF QuietAndReset
  <2>4. CASE ~(Finish \/ FinishWg \/ QuietAndReset)
    BY <1>3, <2>4 DEF Root, Collect, Clear, SetSource, Announce,
      Announced, Syncthreads, Count, Zero, Flag, Send
  <2> QED
    BY <2>1, <2>2, <2>3, <2>4
<1>4. CASE Adapter
  BY <1>4 DEF Adapter, Execute
<1>5. ASSUME NEW w \in Waves, Wave(w) PROVE UNCHANGED <<entered, left>>
  BY <1>5 DEF Wave, CollectWg, AnnounceWg
<1>6. ASSUME NEW p \in Members, Other(p)
      PROVE  B!Next \/ UNCHANGED <<entered, left>>
  <2>1. CASE Reset(p)
    BY <1>0, <1>2, <2>1 DEF Reset
  <2>2. CASE Unmark(p)
    BY <1>0, <1>2, <2>2 DEF Unmark
  <2>3. CASE ~(Reset(p) \/ Unmark(p))
    BY <1>6, <2>3 DEF Other, Mark, Arrive, Arrived, amo_add,
      wait_until
  <2> QED
    BY <2>1, <2>2, <2>3
<1> QED
  BY <1>1, <1>3, <1>4, <1>5, <1>6 DEF Next

(* The GDA barriers with a word per member do what Barrier promises: each  *)
(* step of the protocol enters, leaves after everybody has entered, or     *)
(* changes neither count.                                                  *)
THEOREM GdaImplementsBarrier == WordPerMember /\ Spec => ImplementsBarrier
<1> SUFFICES ASSUME WordPerMember PROVE Spec => ImplementsBarrier
  OBVIOUS
<1>1. Init => B!Init
  BY DEF Init, B!Init
<1>2. IInv /\ [Next]_vars
        => [B!Next]_<<entered, left>>
  BY GdaStepIsBarrierStep DEF vars
<1>3. Spec => []IInv
  BY GdaInductive
<1> QED
  BY <1>1, <1>2, <1>3, PTL DEF ImplementsBarrier, B!Spec, Spec
=============================================================================
