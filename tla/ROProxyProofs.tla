---------------------------- MODULE ROProxyProofs ----------------------------
(***************************************************************************)
(* The ring of the reverse-offload path is safe for any number of          *)
(* wavefronts, lanes, handles and slots, when every handle has a ring of   *)
(* its own.  The second part states the invariant of the completion        *)
(* protocol that ROCompletionProofs proves, and shows that the steps of    *)
(* the wavefronts, of their lanes and of the worker thread preserve it.    *)
(***************************************************************************)
EXTENDS ROProxy, RingTheorems, TLAPS

(* An index always selects a slot of the ring.                             *)
LEMMA SlotInRange ==
    ASSUME NEW n \in Nat PROVE n % QueueSize \in Slots
BY SizesAssumption DEF Slots

(* The constructors establish the invariant: nothing is in flight.         *)
LEMMA InitRing == Init => RingInv
<1> SUFFICES ASSUME Init PROVE RingInv
    OBVIOUS
<1> USE SizesAssumption, HandlesAssumption
<1>1. EmptySlot \in Elements
    BY DEF EmptySlot, Elements, NoReq, Statuses
<1>2. IdleWave \in WaveStates
    BY DEF IdleWave, WaveStates
<1>3. RingTypeOK
  <2>1. ring \in [Rings -> [Slots -> Elements]]
      BY <1>1 DEF Init
  <2>2. wave \in [Waves -> WaveStates]
      BY <1>2 DEF Init
  <2>3. \A w \in Waves : wave[w].pc = "idle"
      BY DEF Init, IdleWave
  <2>4. lane \in [Waves \X LaneIds ->
                  {"out", "fill", "publish", "poll", "reset", "done"}]
      BY DEF Init
  <2>5. \A w \in Waves, i \in LaneIds : lane[<<w, i>>] = "out"
      BY DEF Init
  <2>6. /\ write_index \in [Handles -> Nat] /\ read_index \in [Handles -> Nat]
        /\ lock \in [Handles -> {0, 1}] /\ host_read_index \in [Rings -> Nat]
        /\ pool \subseteq Buffers
      BY DEF Init
  <2>7. cpu \in [pc : {"next_element", "clear_valid", "increment_read_index"},
                i : Rings, request_count : Nat]
      BY DEF Init, Rings
  <2> QED
      BY <2>1, <2>2, <2>3, <2>4, <2>5, <2>6, <2>7 DEF RingTypeOK
<1>4. \A w \in Waves : wave[w].pc = "idle"
    BY DEF Init, IdleWave
<1>5. \A w \in Waves, i \in LaneIds : lane[<<w, i>>] = "out"
    BY DEF Init
<1>6. \A r \in Rings, s \in Slots : ~ring[r][s].valid
    BY DEF Init, EmptySlot
<1>7. LockInv
    BY <1>4 DEF LockInv, InSection
<1>8. IndexInv
    BY <1>4 DEF IndexInv, Init, NextUnread
<1>9. LaneInv
    BY <1>5 DEF LaneInv, HasSlot
<1>10. SlotInv
    BY <1>6 DEF SlotInv, Init
<1> QED
    BY <1>3, <1>7, <1>8, <1>9, <1>10 DEF RingInv

(* What is known of a lane that has a slot.                                *)
LEMMA LaneFacts ==
    ASSUME RingInv, NEW v \in Waves, NEW i \in LaneIds, HasSlot(v, i)
    PROVE  /\ wave[v].h \in Handles /\ MyRing(v) \in Rings
           /\ Index(v, i) \in Nat /\ MySlot(v, i) \in Slots
           /\ NextUnread(MyRing(v)) <= Index(v, i)
           /\ Index(v, i) < write_index[wave[v].h]
<1>1. wave[v].h \in Handles
    BY DEF HasSlot, RingInv, RingTypeOK
<1>2. wave[v].base \in Nat /\ i \in Nat /\ i >= 1
    BY DEF RingInv, RingTypeOK, WaveStates, LaneIds
<1>3. MyRing(v) \in Rings /\ Index(v, i) \in Nat
    BY <1>1, <1>2, HandlesAssumption DEF MyRing, Index
<1>4. MySlot(v, i) \in Slots
    BY <1>3, SlotInRange DEF MySlot
<1> QED
    BY <1>1, <1>3, <1>4 DEF RingInv, LaneInv

(* The indices in flight of a handle span at most one revolution, so the   *)
(* slot determines the index.                                              *)
LEMMA SlotDeterminesIndex ==
    ASSUME RingInv, NEW h \in Handles, NEW a \in Int, NEW b \in Int,
           NextUnread(RingOf[h]) <= a, a < write_index[h],
           NextUnread(RingOf[h]) <= b, b < write_index[h],
           a % QueueSize = b % QueueSize
    PROVE  a = b
<1> USE SizesAssumption, HandlesAssumption
<1> DEFINE r == RingOf[h]
<1>1. /\ host_read_index[r] \in Nat /\ write_index[h] \in Nat
      /\ read_index[h] \in Nat
    BY DEF RingInv, RingTypeOK
<1>2. NextUnread(r) >= host_read_index[r] /\ NextUnread(r) \in Nat
    BY <1>1 DEF NextUnread
<1>3. write_index[h] <= NextUnread(r) + QueueSize
    BY <1>1, <1>2 DEF RingInv, IndexInv
<1>4. a \in Nat /\ b \in Nat /\ a < b + QueueSize /\ b < a + QueueSize
    BY <1>1, <1>2, <1>3
<1> HIDE DEF r
<1>5. CASE a <= b
    BY <1>4, <1>5, OneRevolution, Zenon
<1>6. CASE b <= a
    BY <1>4, <1>6, OneRevolution, Zenon
<1> QED
    BY <1>4, <1>5, <1>6

(* What is known of a published element of a handle's ring.                *)
LEMMA ValidFacts ==
    ASSUME RingInv, NEW h \in Handles, NEW s \in Slots,
           ring[RingOf[h]][s].valid
    PROVE  /\ ring[RingOf[h]][s].req.idx \in Int
           /\ NextUnread(RingOf[h]) <= ring[RingOf[h]][s].req.idx
           /\ ring[RingOf[h]][s].req.idx < write_index[h]
           /\ ring[RingOf[h]][s].req.idx % QueueSize = s
           /\ \A v \in Waves, i \in LaneIds :
                HasSlot(v, i) /\ wave[v].h = h
                  => Index(v, i) # ring[RingOf[h]][s].req.idx
<1>1. ring[RingOf[h]][s] \in Elements
    BY HandlesAssumption DEF RingInv, RingTypeOK
<1>2. ring[RingOf[h]][s].req.idx \in Int
    BY <1>1 DEF Elements
<1> QED
    BY <1>2 DEF RingInv, SlotInv

(* The parts of the invariant that speak of one lane or two.               *)
LEMMA LanesApart ==
    ASSUME RingInv, NEW v \in Waves, NEW i \in LaneIds, HasSlot(v, i),
           NEW u \in Waves, NEW j \in LaneIds, HasSlot(u, j),
           wave[v].h = wave[u].h, Index(v, i) = Index(u, j)
    PROVE  v = u /\ i = j
BY DEF RingInv, LaneInv

(* A lane about to publish has its own index in its slot.                  *)
LEMMA PublishedIndex ==
    ASSUME RingInv, NEW v \in Waves, NEW i \in LaneIds,
           lane[<<v, i>>] = "publish"
    PROVE  HasSlot(v, i) /\ ring[MyRing(v)][MySlot(v, i)].req.idx = Index(v, i)
BY DEF RingInv, LaneInv, HasSlot

(* Only lanes of a wavefront that writes an element are in a call.         *)
LEMMA LaneIsIn ==
    ASSUME RingInv, NEW v \in Waves, NEW i \in LaneIds,
           lane[<<v, i>>] # "out"
    PROVE  wave[v].pc = "element" /\ i <= wave[v].n
BY DEF RingInv, RingTypeOK

(* The element the worker has copied is still marked valid.                *)
LEMMA TakenIsValid ==
    ASSUME RingInv, cpu.pc = "clear_valid"
    PROVE  ring[cpu.i][ReadSlot(cpu.i)].valid
BY DEF RingInv, SlotInv

(* What the host threads and MPI do beyond the ring leaves it alone.       *)
LEMMA ElsewhereKeepsRing ==
    ASSUME RingInv,
           UNCHANGED <<write_index, read_index, lock, ring, host_read_index,
                       wave, lane, pool, cpu>>
    PROVE  RingInv'
<1>1. RingTypeOK'
    BY DEF RingInv, RingTypeOK
<1>2. LockInv'
    BY DEF RingInv, LockInv, InSection
<1>3. IndexInv'
    BY Zenon DEF RingInv, IndexInv, NextUnread
<1>4. LaneInv'
    BY Zenon DEF RingInv, LaneInv, NextUnread, HasSlot, Index, MyRing, MySlot
<1>5. SlotInv'
    BY DEF RingInv, SlotInv, NextUnread, HasSlot, Index, ReadSlot
<1> QED
    BY <1>1, <1>2, <1>3, <1>4, <1>5 DEF RingInv

(* A wavefront outside build_queue_element's element section owns no slot, *)
(* so changes to its own record leave what the lanes own unchanged.        *)
LEMMA OutsideKeepsLanes ==
    ASSUME RingInv, NEW w \in Waves, wave[w].pc # "element",
           wave' \in [Waves -> WaveStates],
           \A v \in Waves \ {w} : wave'[v] = wave[v],
           UNCHANGED <<write_index, ring, host_read_index, lane, cpu>>
    PROVE  LaneInv' /\ SlotInv'
<1>1. \A v \in Waves, i \in LaneIds : HasSlot(v, i)' => HasSlot(v, i) /\ v # w
    BY DEF HasSlot, RingInv, RingTypeOK
<1>2. \A v \in Waves \ {w}, i \in LaneIds :
        /\ Index(v, i)' = Index(v, i) /\ MyRing(v)' = MyRing(v)
        /\ MySlot(v, i)' = MySlot(v, i) /\ wave'[v].h = wave[v].h
    BY DEF Index, MyRing, MySlot
<1>3. \A r \in Rings : NextUnread(r)' = NextUnread(r)
    BY DEF NextUnread
<1>4. \A v \in Waves, i \in LaneIds : HasSlot(v, i) => MyRing(v) \in Rings
    BY HandlesAssumption, Zenon DEF HasSlot, RingInv, RingTypeOK, MyRing
<1>5. LaneInv'
  <2>1. LaneInv
      BY DEF RingInv
  <2>2. \A v \in Waves, i \in LaneIds : lane'[<<v, i>>] = "publish" => HasSlot(v, i)'
      BY DEF HasSlot
  <2> QED
      BY <1>1, <1>2, <1>3, <1>4, <2>1, <2>2 DEF LaneInv
<1>6. SlotInv'
  <2>1. ASSUME NEW h \in Handles, NEW t \in Slots, ring'[RingOf[h]][t].valid
        PROVE  /\ NextUnread(RingOf[h])' <= ring'[RingOf[h]][t].req.idx
               /\ ring'[RingOf[h]][t].req.idx < write_index'[h]
               /\ ring'[RingOf[h]][t].req.idx % QueueSize = t
               /\ \A v \in Waves, i \in LaneIds :
                    HasSlot(v, i)' /\ wave'[v].h = h
                      => Index(v, i)' # ring'[RingOf[h]][t].req.idx
    <3>1. ring[RingOf[h]][t].valid /\ RingOf[h] \in Rings
        BY <2>1, HandlesAssumption, Zenon
    <3>2. /\ NextUnread(RingOf[h]) <= ring[RingOf[h]][t].req.idx
          /\ ring[RingOf[h]][t].req.idx < write_index[h]
          /\ ring[RingOf[h]][t].req.idx % QueueSize = t
          /\ \A v \in Waves, i \in LaneIds : HasSlot(v, i) /\ wave[v].h = h
               => Index(v, i) # ring[RingOf[h]][t].req.idx
        BY <3>1, ValidFacts
    <3>3. NextUnread(RingOf[h])' = NextUnread(RingOf[h])
        BY <3>1, <1>3, Zenon
    <3>4. \A v \in Waves, i \in LaneIds : HasSlot(v, i)' /\ wave'[v].h = h
            => Index(v, i)' # ring[RingOf[h]][t].req.idx
        BY <3>2, <1>1, <1>2
    <3> QED
        BY <3>2, <3>3, <3>4
  <2>2. (cpu.pc = "clear_valid" => ring[cpu.i][ReadSlot(cpu.i)].valid)'
      BY TakenIsValid DEF ReadSlot
  <2> QED
      BY <2>1, <2>2 DEF SlotInv
<1> QED
    BY <1>5, <1>6

(* Entering the interface.                                                 *)
LEMMA CallKeepsRing ==
    ASSUME RingInv, NEW w \in Waves, NEW h \in HandlesOf[w],
           NEW n \in LaneIds, NEW type \in Types,
           NEW comm \in Comms \cup {NULL}, Call(w, h, n, type, comm)
    PROVE  RingInv'
<1> USE SizesAssumption, HandlesAssumption
<1>1. h \in Handles /\ n \in Nat
    BY DEF LaneIds
<1>2. PICK buf \in Buffers \cup {NULL} :
        wave' = [wave EXCEPT ![w] =
                   [pc |-> "acquire_lock", h |-> h, n |-> n, type |-> type,
                    comm |-> comm, base |-> 0, buf |-> buf]]
    BY Zenon DEF Call, RingInv, RingTypeOK
<1>3. [pc |-> "acquire_lock", h |-> h, n |-> n, type |-> type,
       comm |-> comm, base |-> 0, buf |-> buf] \in WaveStates
    BY <1>1 DEF WaveStates
<1>4. wave' \in [Waves -> WaveStates]
    BY <1>2, <1>3 DEF RingInv, RingTypeOK
<1>5. /\ wave[w].pc = "idle" /\ wave'[w].pc = "acquire_lock"
      /\ wave'[w].h = h /\ wave'[w].n = n
      /\ \A v \in Waves \ {w} : wave'[v] = wave[v]
    BY <1>2 DEF Call, RingInv, RingTypeOK
<1>6. /\ UNCHANGED <<write_index, read_index, lock, ring, host_read_index>>
      /\ UNCHANGED <<lane, cpu>>
    BY DEF Call, ringVars
<1>7. RingTypeOK'
    BY <1>1, <1>4, <1>5, <1>6 DEF RingInv, RingTypeOK, Call
<1>8. LockInv'
    BY <1>5, <1>6 DEF RingInv, LockInv, InSection
<1>9. IndexInv'
    BY <1>5, <1>6 DEF RingInv, IndexInv, NextUnread
<1>10. LaneInv' /\ SlotInv'
    BY <1>4, <1>5, <1>6, OutsideKeepsLanes
<1> QED
    BY <1>7, <1>8, <1>9, <1>10 DEF RingInv

(* Taking the lock: it was free, so no other wavefront is in the section.  *)
LEMMA AcquireKeepsRing ==
    ASSUME RingInv, NEW w \in Waves, acquire_lock(w)
    PROVE  RingInv'
<1>1. /\ wave[w].pc = "acquire_lock" /\ wave[w].h \in Handles
      /\ wave \in [Waves -> WaveStates]
    BY DEF acquire_lock, RingInv, RingTypeOK
<1>2. wave' = [wave EXCEPT ![w] =
                 [wave[w] EXCEPT !.pc = "wait_until_space_available"]]
    BY DEF acquire_lock
<1>3. wave' \in [Waves -> WaveStates]
    BY <1>1, <1>2 DEF WaveStates
<1>4. /\ wave'[w].pc = "wait_until_space_available"
      /\ wave'[w].h = wave[w].h /\ wave'[w].n = wave[w].n
      /\ \A v \in Waves \ {w} : wave'[v] = wave[v]
    BY <1>1, <1>2 DEF WaveStates
<1>5. UNCHANGED <<write_index, read_index, ring, host_read_index, lane, pool, cpu>>
    BY DEF acquire_lock
<1>6. RingTypeOK'
  <2>1. lock' \in [Handles -> {0, 1}]
      BY DEF acquire_lock, RingInv, RingTypeOK
  <2>2. \A v \in Waves : wave'[v].pc # "idle"
         => wave'[v].h \in Handles /\ wave'[v].n \in LaneIds
      BY <1>1, <1>4 DEF RingInv, RingTypeOK
  <2>3. \A v \in Waves, i \in LaneIds : lane'[<<v, i>>] # "out"
         => wave'[v].pc = "element" /\ i <= wave'[v].n
      BY <1>1, <1>4, <1>5 DEF RingInv, RingTypeOK
  <2> QED
      BY <1>3, <1>5, <2>1, <2>2, <2>3 DEF RingInv, RingTypeOK
<1>7. LockInv'
    BY <1>1, <1>4 DEF RingInv, RingTypeOK, LockInv, InSection, acquire_lock
<1>8. IndexInv'
    BY <1>4, <1>5 DEF RingInv, IndexInv, NextUnread
<1>9. LaneInv' /\ SlotInv'
    BY <1>1, <1>3, <1>4, <1>5, OutsideKeepsLanes
<1> QED
    BY <1>6, <1>7, <1>8, <1>9 DEF RingInv

(* Refreshing the GPU's copy of the read index only makes it larger.       *)
LEMMA RefreshKeepsRing ==
    ASSUME RingInv, NEW w \in Waves, wait_until_space_available(w)
    PROVE  RingInv'
<1> USE SizesAssumption, HandlesAssumption
<1> DEFINE h == wave[w].h
<1>1. /\ wave[w].pc = "wait_until_space_available" /\ h \in Handles
      /\ wave \in [Waves -> WaveStates]
    BY DEF wait_until_space_available, RingInv, RingTypeOK
<1>2. read_index' = [read_index EXCEPT ![h] = host_read_index[RingOf[h]]]
    BY DEF wait_until_space_available
<1>3. UNCHANGED <<write_index, lock, ring, host_read_index, wave, lane, pool, cpu>>
    BY DEF wait_until_space_available, gpuVars
<1>4. /\ read_index \in [Handles -> Nat] /\ host_read_index \in [Rings -> Nat]
      /\ write_index \in [Handles -> Nat]
    BY DEF RingInv, RingTypeOK
<1>5. RingTypeOK'
    BY <1>1, <1>2, <1>3, <1>4 DEF RingInv, RingTypeOK
<1>6. LockInv'
    BY <1>3, Zenon DEF RingInv, LockInv, InSection
<1>7. IndexInv'
  <2>1. \A g \in Handles : read_index[g] <= read_index'[g]
                          /\ read_index'[g] <= host_read_index[RingOf[g]]
      BY <1>1, <1>2, <1>4 DEF RingInv, IndexInv
  <2>2. \A g \in Handles : read_index'[g] \in Nat /\ read_index[g] \in Nat
                          /\ write_index[g] \in Nat
      BY <1>5, <1>4 DEF RingTypeOK
  <2>3. \A v \in Waves : wave[v].pc = "next_write_slot"
                         => wave[v].h \in Handles /\ wave[v].n \in Nat
      BY DEF RingInv, RingTypeOK, LaneIds
  <2>4. \A r \in Rings : NextUnread(r)' = NextUnread(r)
      BY <1>3 DEF NextUnread
  <2>5. \A g \in Handles : NextUnread(RingOf[g])' <= write_index'[g]
      BY <1>3, <2>4 DEF RingInv, IndexInv
  <2>6. \A g \in Handles : write_index'[g] <= read_index'[g] + QueueSize
      BY <1>3, <2>1, <2>2 DEF RingInv, IndexInv
  <2>7. \A v \in Waves : wave'[v].pc = "next_write_slot"
          => write_index'[wave'[v].h] + wave'[v].n
               <= read_index'[wave'[v].h] + QueueSize
      BY <1>3, <2>1, <2>2, <2>3 DEF RingInv, IndexInv
  <2> QED
      BY <1>3, <2>1, <2>5, <2>6, <2>7 DEF IndexInv
<1>8. LaneInv' /\ SlotInv'
    BY <1>1, <1>3, OutsideKeepsLanes
<1> QED
    BY <1>5, <1>6, <1>7, <1>8 DEF RingInv

(* The space test establishes the bound that next_write_slot relies on.    *)
LEMMA SpaceKeepsRing ==
    ASSUME RingInv, NEW w \in Waves, space_available(w)
    PROVE  RingInv'
<1> USE SizesAssumption, HandlesAssumption
<1>1. /\ wave[w].pc = "wait_until_space_available" /\ wave[w].h \in Handles
      /\ wave \in [Waves -> WaveStates] /\ wave[w].n \in Nat
    BY DEF space_available, RingInv, RingTypeOK, LaneIds
<1>2. wave' = [wave EXCEPT ![w] = [wave[w] EXCEPT !.pc = "next_write_slot"]]
    BY DEF space_available
<1>3. wave' \in [Waves -> WaveStates]
    BY <1>1, <1>2 DEF WaveStates
<1>4. /\ wave'[w].pc = "next_write_slot"
      /\ wave'[w].h = wave[w].h /\ wave'[w].n = wave[w].n
      /\ \A v \in Waves \ {w} : wave'[v] = wave[v]
    BY <1>1, <1>2 DEF WaveStates
<1>5. UNCHANGED <<write_index, read_index, lock, ring, host_read_index, lane, pool, cpu>>
    BY DEF space_available, ringVars
<1>6. RingTypeOK'
  <2>1. \A v \in Waves : wave'[v].pc # "idle"
         => wave'[v].h \in Handles /\ wave'[v].n \in LaneIds
      BY <1>1, <1>4, Zenon DEF RingInv, RingTypeOK
  <2>2. \A v \in Waves, i \in LaneIds : lane'[<<v, i>>] # "out"
         => wave'[v].pc = "element" /\ i <= wave'[v].n
      BY <1>1, <1>4, <1>5 DEF RingInv, RingTypeOK
  <2> QED
      BY <1>3, <1>5, <2>1, <2>2, Zenon DEF RingInv, RingTypeOK
<1>7. LockInv'
    BY <1>1, <1>4, <1>5, SMTT(30) DEF RingInv, LockInv, InSection
<1>8. IndexInv'
  <2>1. write_index[wave[w].h] + wave[w].n <= read_index[wave[w].h] + QueueSize
      BY <1>1 DEF space_available, enough_space, RingInv, RingTypeOK
  <2> QED
      BY <1>4, <1>5, <2>1 DEF RingInv, IndexInv, NextUnread
<1>9. LaneInv' /\ SlotInv'
    BY <1>1, <1>3, <1>4, <1>5, OutsideKeepsLanes
<1> QED
    BY <1>6, <1>7, <1>8, <1>9 DEF RingInv

(* Taking the slots: the new indices are beyond every index in flight and  *)
(* still within one revolution.                                            *)
LEMMA TakeKeepsRing ==
    ASSUME RingInv, NEW w \in Waves, next_write_slot(w)
    PROVE  RingInv'
<1> USE SizesAssumption, HandlesAssumption
<1> DEFINE h == wave[w].h
           n == wave[w].n
<1>1. /\ wave[w].pc = "next_write_slot" /\ h \in Handles
      /\ n \in LaneIds /\ n \in Nat /\ wave \in [Waves -> WaveStates]
      /\ write_index \in [Handles -> Nat] /\ read_index \in [Handles -> Nat]
      /\ host_read_index \in [Rings -> Nat]
    BY DEF next_write_slot, RingInv, RingTypeOK, LaneIds
<1>2. wave' = [wave EXCEPT ![w] = [wave[w] EXCEPT !.pc = "element",
                                                 !.base = write_index[h]]]
    BY Zenon DEF next_write_slot
<1>3. wave' \in [Waves -> WaveStates]
  <2>1. write_index[h] \in Nat /\ wave[w] \in WaveStates
      BY <1>1
  <2>2. [wave[w] EXCEPT !.pc = "element", !.base = write_index[h]] \in WaveStates
      BY <2>1, Zenon DEF WaveStates
  <2> QED
      BY <1>1, <1>2, <2>2
<1>4. /\ wave'[w].pc = "element" /\ wave'[w].base = write_index[h]
      /\ wave'[w].h = h /\ wave'[w].n = n
      /\ \A v \in Waves \ {w} : wave'[v] = wave[v]
    BY <1>1, <1>2 DEF WaveStates
<1>5. UNCHANGED <<read_index, ring, host_read_index, pool, cpu>>
    BY DEF next_write_slot
<1>6. write_index' = [write_index EXCEPT ![h] = write_index[h] + n]
    BY DEF next_write_slot
<1>7. \A v \in Waves, i \in LaneIds :
        lane'[<<v, i>>] = IF v = w /\ i <= n THEN "fill" ELSE lane[<<v, i>>]
    BY DEF next_write_slot
<1>8. \A i \in LaneIds : lane[<<w, i>>] = "out"
    BY <1>1 DEF RingInv, RingTypeOK
<1>9. RingTypeOK'
  <2>1. lane' \in [Waves \X LaneIds ->
                  {"out", "fill", "publish", "poll", "reset", "done"}]
      BY DEF next_write_slot, RingInv, RingTypeOK
  <2>2. lock' \in [Handles -> {0, 1}] /\ write_index' \in [Handles -> Nat]
      BY <1>1, <1>6 DEF next_write_slot, RingInv, RingTypeOK
  <2>3. \A v \in Waves : wave'[v].pc # "idle"
         => wave'[v].h \in Handles /\ wave'[v].n \in LaneIds
      BY <1>1, <1>4, Zenon DEF RingInv, RingTypeOK
  <2>4. \A v \in Waves, i \in LaneIds : lane'[<<v, i>>] # "out"
         => wave'[v].pc = "element" /\ i <= wave'[v].n
      BY <1>4, <1>7, <1>8, SMTT(30) DEF RingInv, RingTypeOK
  <2> QED
      BY <1>3, <1>5, <2>1, <2>2, <2>3, <2>4 DEF RingInv, RingTypeOK
<1>10. LockInv'
  <2>1. \A v \in Waves : InSection(v)' => v # w /\ InSection(v)
      BY <1>4 DEF InSection
  <2>2. \A v \in Waves : InSection(v) /\ v # w => wave[v].h # h
      BY <1>1 DEF RingInv, LockInv, InSection
  <2>3. \A v \in Waves : InSection(v) => wave[v].h \in Handles /\ lock[wave[v].h] = 1
      BY DEF RingInv, LockInv, InSection, RingTypeOK
  <2>4. \A g \in Handles \ {h} : lock'[g] = lock[g]
      BY <1>1 DEF next_write_slot, RingInv, RingTypeOK
  <2> QED
      BY <1>4, <2>1, <2>2, <2>3, <2>4 DEF RingInv, LockInv
<1>11. \A g \in Handles : write_index[g] <= write_index'[g] /\ write_index'[g] \in Nat
    BY <1>1, <1>6
<1>12. \A r \in Rings : NextUnread(r)' = NextUnread(r) /\ NextUnread(r) \in Nat
    BY <1>1, <1>5 DEF NextUnread
<1>13. IndexInv'
  <2>1. \A g \in Handles : write_index'[g] <= read_index'[g] + QueueSize
      BY <1>1, <1>5, <1>6 DEF RingInv, IndexInv
  <2>2. \A g \in Handles : NextUnread(RingOf[g])' <= write_index'[g]
      BY <1>1, <1>11, <1>12 DEF RingInv, IndexInv
  <2>3. \A v \in Waves : wave'[v].pc = "next_write_slot"
          => v # w /\ wave[v].h # h /\ wave[v].h \in Handles
      BY <1>1, <1>4 DEF RingInv, LockInv, InSection, RingTypeOK
  <2>4. \A v \in Waves : wave'[v].pc = "next_write_slot"
          => write_index'[wave'[v].h] + wave'[v].n
               <= read_index'[wave'[v].h] + QueueSize
      BY <1>1, <1>4, <1>5, <1>6, <2>3 DEF RingInv, IndexInv
  <2> QED
      BY <1>5, <2>1, <2>2, <2>4 DEF RingInv, IndexInv
<1>14. \A v \in Waves, i \in LaneIds :
         HasSlot(v, i)' => (v = w /\ i <= n) \/ (v # w /\ HasSlot(v, i))
    BY <1>7, <1>8, Zenon DEF HasSlot
<1>15. \A i \in LaneIds : /\ Index(w, i)' = write_index[h] + i - 1
                          /\ i \in Nat /\ i >= 1
    BY <1>4 DEF Index, LaneIds
<1>16. \A v \in Waves \ {w}, i \in LaneIds :
         /\ Index(v, i)' = Index(v, i) /\ MyRing(v)' = MyRing(v)
         /\ MySlot(v, i)' = MySlot(v, i) /\ wave'[v].h = wave[v].h
    BY <1>4 DEF Index, MyRing, MySlot
<1>17. MyRing(w)' = RingOf[h] /\ RingOf[h] \in Rings
    BY <1>1, <1>4 DEF MyRing
<1>18. \A v \in Waves, i \in LaneIds : HasSlot(v, i) =>
         /\ wave[v].h \in Handles /\ MyRing(v) \in Rings
         /\ Index(v, i) \in Int /\ NextUnread(MyRing(v)) <= Index(v, i)
         /\ Index(v, i) < write_index[wave[v].h]
    BY LaneFacts
<1>19. LaneInv'
  <2>1. ASSUME NEW v \in Waves, NEW i \in LaneIds, HasSlot(v, i)'
        PROVE  NextUnread(MyRing(v))' <= Index(v, i)'
                 /\ Index(v, i)' < write_index'[wave'[v].h]
    <3>1. CASE v = w
      <4>1. i <= n
          BY <3>1, <2>1, <1>14
      <4>2. /\ Index(w, i)' = write_index[h] + i - 1 /\ i \in Nat /\ i >= 1
            /\ write_index[h] \in Nat /\ write_index'[h] = write_index[h] + n
          BY <1>1, <1>6, <1>15
      <4>3. NextUnread(RingOf[h]) <= write_index[h]
          BY <1>1 DEF RingInv, IndexInv
      <4>4. /\ NextUnread(MyRing(w))' = NextUnread(RingOf[h])
            /\ NextUnread(RingOf[h]) \in Nat
          BY <1>12, <1>17
      <4>5. wave'[w].h = h
          BY <1>4, Zenon
      <4> QED
          BY <3>1, <1>1, <4>1, <4>2, <4>3, <4>4, <4>5
    <3>2. CASE v # w
      <4>1. HasSlot(v, i)
          BY <3>2, <2>1, <1>14, Zenon
      <4>2. /\ wave[v].h \in Handles /\ MyRing(v) \in Rings
            /\ Index(v, i) \in Nat /\ NextUnread(MyRing(v)) <= Index(v, i)
            /\ Index(v, i) < write_index[wave[v].h]
          BY <4>1, LaneFacts, Zenon
      <4>3. /\ Index(v, i)' = Index(v, i) /\ MyRing(v)' = MyRing(v)
            /\ wave'[v].h = wave[v].h
          BY <3>2, <1>16, Zenon
      <4>4. /\ write_index[wave[v].h] <= write_index'[wave[v].h]
            /\ write_index'[wave[v].h] \in Nat
            /\ write_index[wave[v].h] \in Nat
          BY <4>2, <1>1, <1>11, Zenon
      <4>5. NextUnread(MyRing(v))' = NextUnread(MyRing(v))
          BY <4>2, <4>3, <1>12
      <4> QED
          BY <4>2, <4>3, <4>4, <4>5
    <3> QED
        BY <3>1, <3>2, Zenon
  <2>2. ASSUME NEW v \in Waves, NEW u \in Waves,
               NEW i \in LaneIds, NEW j \in LaneIds,
               HasSlot(v, i)', HasSlot(u, j)', wave'[v].h = wave'[u].h,
               Index(v, i)' = Index(u, j)'
        PROVE  v = u /\ i = j
    <3>1. CASE v = w /\ u = w
        BY <3>1, <2>2, <1>1, <1>15, SMTT(30)
    <3>2. CASE v = w /\ u # w
        BY <3>2, <2>2, <1>1, <1>4, <1>14, <1>15, <1>16, <1>18, SMTT(30)
    <3>3. CASE v # w /\ u = w
        BY <3>3, <2>2, <1>1, <1>4, <1>14, <1>15, <1>16, <1>18, SMTT(30)
    <3>4. CASE v # w /\ u # w
        BY <3>4, <2>2, <1>14, <1>16, LanesApart
    <3> QED
        BY <3>1, <3>2, <3>3, <3>4
  <2>3. ASSUME NEW v \in Waves, NEW i \in LaneIds, lane'[<<v, i>>] = "publish"
        PROVE  (ring[MyRing(v)][MySlot(v, i)].req.idx = Index(v, i))'
    <3>1. v # w /\ lane[<<v, i>>] = "publish"
        BY <2>3, <1>7, <1>8, Zenon
    <3> QED
        BY <3>1, <1>5, <1>16, PublishedIndex
  <2> QED
      BY <2>1, <2>2, <2>3, Zenon DEF LaneInv
<1>20. SlotInv'
  <2> SUFFICES ASSUME NEW g \in Handles, NEW s \in Slots,
                      ring[RingOf[g]][s].valid
               PROVE  /\ NextUnread(RingOf[g]) <= ring[RingOf[g]][s].req.idx
                      /\ ring[RingOf[g]][s].req.idx < write_index'[g]
                      /\ ring[RingOf[g]][s].req.idx % QueueSize = s
                      /\ \A v \in Waves, i \in LaneIds :
                           HasSlot(v, i)' /\ wave'[v].h = g
                             => Index(v, i)' # ring[RingOf[g]][s].req.idx
    <3>1. \A g \in Handles : RingOf[g] \in Rings
        BY Zenon
    <3>2. (cpu.pc = "clear_valid" => ring[cpu.i][ReadSlot(cpu.i)].valid)'
        BY <1>5, Zenon DEF RingInv, SlotInv, ReadSlot
    <3> QED
        BY <3>1, <3>2, <1>5, <1>12, Zenon DEF SlotInv
  <2> DEFINE e == ring[RingOf[g]][s]
  <2>1. /\ NextUnread(RingOf[g]) <= e.req.idx /\ e.req.idx < write_index[g]
        /\ e.req.idx % QueueSize = s /\ e.req.idx \in Int
      BY ValidFacts, Zenon
  <2>2. e.req.idx < write_index'[g]
      BY <2>1, <1>1, <1>11
  <2>3. ASSUME NEW v \in Waves, NEW i \in LaneIds, HasSlot(v, i)', wave'[v].h = g
        PROVE  Index(v, i)' # e.req.idx
    <3>1. CASE v = w
        BY <3>1, <2>3, <2>1, <1>1, <1>4, <1>15, SMTT(30)
    <3>2. CASE v # w
        BY <3>2, <2>3, <1>14, <1>16, ValidFacts, SMTT(30)
    <3> QED
        BY <3>1, <3>2, Zenon
  <2> QED
      BY <2>1, <2>2, <2>3, Zenon
<1> QED
    BY <1>9, <1>10, <1>13, <1>19, <1>20 DEF RingInv

(* The slot a lane owns never holds a published element.                   *)
LEMMA OwnedSlotIsFree ==
    ASSUME RingInv, NEW v \in Waves, NEW i \in LaneIds, HasSlot(v, i)
    PROVE  ~ring[MyRing(v)][MySlot(v, i)].valid
<1> SUFFICES ASSUME ring[MyRing(v)][MySlot(v, i)].valid PROVE FALSE
    OBVIOUS
<1> DEFINE h == wave[v].h
           s == MySlot(v, i)
           x == ring[RingOf[h]][s].req.idx
<1>1. /\ h \in Handles /\ Index(v, i) \in Int /\ s \in Slots
      /\ NextUnread(RingOf[h]) <= Index(v, i) /\ Index(v, i) < write_index[h]
    BY LaneFacts DEF MyRing
<1>2. ring[RingOf[h]][s].valid
    BY Zenon DEF MyRing
<1>3. /\ x \in Int /\ NextUnread(RingOf[h]) <= x /\ x < write_index[h]
      /\ x % QueueSize = s /\ Index(v, i) # x
    BY <1>1, <1>2, ValidFacts, Zenon
<1>4. Index(v, i) % QueueSize = s
    BY Zenon DEF MySlot
<1> HIDE DEF h, x
<1> QED
    BY <1>1, <1>3, <1>4, SlotDeterminesIndex

(* Two lanes that own a slot of one ring own different slots.              *)
LEMMA OwnersAreApart ==
    ASSUME RingInv, PrivateRings,
           NEW v \in Waves, NEW i \in LaneIds, HasSlot(v, i),
           NEW u \in Waves, NEW j \in LaneIds, HasSlot(u, j),
           MyRing(v) = MyRing(u), MySlot(v, i) = MySlot(u, j)
    PROVE  v = u /\ i = j
<1>1. /\ wave[v].h \in Handles /\ Index(v, i) \in Int
      /\ NextUnread(MyRing(v)) <= Index(v, i)
      /\ Index(v, i) < write_index[wave[v].h]
    BY LaneFacts
<1>2. /\ wave[u].h \in Handles /\ Index(u, j) \in Int
      /\ NextUnread(MyRing(u)) <= Index(u, j)
      /\ Index(u, j) < write_index[wave[u].h]
    BY LaneFacts
<1>3. wave[v].h = wave[u].h
    BY <1>1, <1>2 DEF PrivateRings, MyRing
<1>4. Index(v, i) % QueueSize = Index(u, j) % QueueSize
    BY Zenon DEF MySlot
<1>5. Index(v, i) = Index(u, j)
    BY <1>1, <1>2, <1>3, <1>4, SlotDeterminesIndex, Zenon DEF MyRing
<1> QED
    BY <1>3, <1>5 DEF RingInv, LaneInv

(* Giving slots up, with nothing written, keeps what the others own.       *)
LEMMA FewerLanes ==
    ASSUME RingInv,
           \A v \in Waves, i \in LaneIds :
             /\ HasSlot(v, i)' => HasSlot(v, i) /\ wave'[v] = wave[v]
             /\ lane'[<<v, i>>] = "publish" => lane[<<v, i>>] = "publish"
                                               /\ HasSlot(v, i)',
           \A r \in Rings : NextUnread(r)' = NextUnread(r),
           (cpu.pc = "clear_valid" => ring[cpu.i][ReadSlot(cpu.i)].valid)',
           UNCHANGED <<write_index, ring>>
    PROVE  LaneInv' /\ SlotInv'
<1>1. \A v \in Waves, i \in LaneIds : HasSlot(v, i)' =>
        /\ HasSlot(v, i) /\ wave'[v].h = wave[v].h
        /\ Index(v, i)' = Index(v, i) /\ MyRing(v)' = MyRing(v)
        /\ MySlot(v, i)' = MySlot(v, i)
    BY Zenon DEF Index, MyRing, MySlot
<1>2. \A v \in Waves, i \in LaneIds : HasSlot(v, i) => MyRing(v) \in Rings
    BY LaneFacts, SMTT(30)
<1>3. LaneInv'
  <2>1. ASSUME NEW v \in Waves, NEW i \in LaneIds, HasSlot(v, i)'
        PROVE  (NextUnread(MyRing(v)) <= Index(v, i)
                 /\ Index(v, i) < write_index[wave[v].h])'
    <3>1. /\ HasSlot(v, i) /\ wave'[v].h = wave[v].h
          /\ Index(v, i)' = Index(v, i) /\ MyRing(v)' = MyRing(v)
        BY <2>1, <1>1, Zenon
    <3>2. /\ MyRing(v) \in Rings /\ NextUnread(MyRing(v)) <= Index(v, i)
          /\ Index(v, i) < write_index[wave[v].h]
        BY <3>1, LaneFacts, Zenon
    <3> QED
        BY <3>1, <3>2
  <2>2. ASSUME NEW v \in Waves, NEW i \in LaneIds, HasSlot(v, i)',
               NEW u \in Waves, NEW j \in LaneIds, HasSlot(u, j)',
               wave'[v].h = wave'[u].h, Index(v, i)' = Index(u, j)'
        PROVE  v = u /\ i = j
    <3>1. /\ HasSlot(v, i) /\ HasSlot(u, j) /\ wave[v].h = wave[u].h
          /\ Index(v, i) = Index(u, j)
        BY <2>2, <1>1
    <3> QED
        BY <3>1, LanesApart, Zenon
  <2>3. ASSUME NEW v \in Waves, NEW i \in LaneIds, lane'[<<v, i>>] = "publish"
        PROVE  (ring[MyRing(v)][MySlot(v, i)].req.idx = Index(v, i))'
    <3>1. lane[<<v, i>>] = "publish" /\ HasSlot(v, i)'
        BY <2>3, Zenon
    <3>2. ring[MyRing(v)][MySlot(v, i)].req.idx = Index(v, i)
        BY <3>1, PublishedIndex, Zenon
    <3> QED
        BY <3>1, <3>2, <1>1, Zenon
  <2> QED
      BY <2>1, <2>2, <2>3 DEF LaneInv
<1>4. SlotInv'
  <2>1. ASSUME NEW h \in Handles, NEW t \in Slots, ring'[RingOf[h]][t].valid
        PROVE  /\ NextUnread(RingOf[h])' <= ring'[RingOf[h]][t].req.idx
               /\ ring'[RingOf[h]][t].req.idx < write_index'[h]
               /\ ring'[RingOf[h]][t].req.idx % QueueSize = t
               /\ \A v \in Waves, i \in LaneIds :
                    HasSlot(v, i)' /\ wave'[v].h = h
                      => Index(v, i)' # ring'[RingOf[h]][t].req.idx
    <3>1. ring[RingOf[h]][t].valid /\ RingOf[h] \in Rings
        BY <2>1, HandlesAssumption, Zenon
    <3>2. /\ NextUnread(RingOf[h]) <= ring[RingOf[h]][t].req.idx
          /\ ring[RingOf[h]][t].req.idx < write_index[h]
          /\ ring[RingOf[h]][t].req.idx % QueueSize = t
          /\ \A v \in Waves, i \in LaneIds : HasSlot(v, i) /\ wave[v].h = h
               => Index(v, i) # ring[RingOf[h]][t].req.idx
        BY <3>1, ValidFacts, Zenon
    <3>3. NextUnread(RingOf[h])' = NextUnread(RingOf[h])
        BY <3>1, Zenon
    <3>4. \A v \in Waves, i \in LaneIds : HasSlot(v, i)' /\ wave'[v].h = h
            => Index(v, i)' # ring[RingOf[h]][t].req.idx
        BY <3>2, <1>1, ZenonT(40)
    <3> QED
        BY <3>2, <3>3, <3>4, Zenon
  <2> QED
      BY <2>1, Zenon DEF SlotInv
<1> QED
    BY <1>3, <1>4

(* Filling an element writes a slot that only this lane owns.              *)
LEMMA FillKeepsRing ==
    ASSUME RingInv, PrivateRings, NEW w \in Waves, NEW i \in LaneIds,
           FillElement(w, i)
    PROVE  RingInv'
<1> USE SizesAssumption, HandlesAssumption
<1> DEFINE r == MyRing(w)
           s == MySlot(w, i)
<1>1. lane[<<w, i>>] = "fill" /\ HasSlot(w, i)
    BY DEF FillElement, HasSlot
<1>2. /\ wave[w].h \in Handles /\ r \in Rings /\ s \in Slots
      /\ Index(w, i) \in Nat
    BY <1>1, LaneFacts
<1>3. UNCHANGED <<write_index, read_index, lock, host_read_index, wave, pool, cpu>>
    BY DEF FillElement
<1>4. PICK e : /\ ring' = [ring EXCEPT ![r][s] = e]
               /\ e \in Elements /\ e.valid = ring[r][s].valid
               /\ e.req.idx = Index(w, i)
  <2> DEFINE old == ring[r][s]
             st == IF Blocking(wave[w].type) THEN get_status_flag(w, i)
                   ELSE old.status
             tc == IF wave[w].type \in TeamTypes \ {"BARRIER"}
                   THEN wave[w].comm ELSE old.team_comm
             rq == [h |-> wave[w].h, idx |-> Index(w, i), comm |-> wave[w].comm]
             new == [old EXCEPT !.type = wave[w].type, !.status = st,
                                !.team_comm = tc, !.req = rq]
  <2>1. old \in Elements /\ wave[w] \in WaveStates
      BY <1>2 DEF RingInv, RingTypeOK
  <2>2. /\ wave[w].type \in Types \cup {NULL} /\ wave[w].comm \in Comms \cup {NULL}
        /\ wave[w].buf \in Buffers \cup {NULL}
      BY <2>1 DEF WaveStates
  <2>3. st \in Statuses
    <3>1. old.status \in Statuses
        BY <2>1, Zenon DEF Elements
    <3>2. (IF wave[w].h \in DefaultHandles THEN wave[w].buf ELSE w)
            \in Waves \cup Buffers \cup {NULL}
        BY <2>2, Zenon
    <3>3. get_status_flag(w, i) \in Statuses
        BY <1>2, <3>2, Zenon DEF Statuses, get_status_flag
    <3> QED
        BY <3>1, <3>3, Zenon
  <2>4. tc \in Comms \cup {NULL}
      BY <2>1, <2>2, Zenon DEF Elements
  <2>5. rq \in [h : Handles \cup {NULL}, idx : Int, comm : Comms \cup {NULL}]
      BY <1>2, <2>2
  <2>6. ring' = [ring EXCEPT ![r][s] = new]
      BY DEF FillElement
  <2> HIDE DEF st, tc
  <2>7. new \in Elements /\ new.valid = old.valid /\ new.req = rq
      BY <2>1, <2>2, <2>3, <2>4, <2>5, Zenon DEF Elements
  <2>8. new.req.idx = Index(w, i)
      BY <2>7
  <2> HIDE DEF new
  <2> QED
      BY <2>6, <2>7, <2>8, Zenon
<1>5. lane' = [lane EXCEPT ![<<w, i>>] = "publish"]
    BY DEF FillElement
<1>6. ring \in [Rings -> [Slots -> Elements]]
    BY DEF RingInv, RingTypeOK
<1>7. /\ ring'[r][s] = e
      /\ \A q1 \in Rings, t \in Slots : q1 # r \/ t # s
           => ring'[q1][t] = ring[q1][t]
    BY <1>2, <1>4, <1>6
<1>8. \A q1 \in Rings, t \in Slots : ring'[q1][t].valid = ring[q1][t].valid
    BY <1>2, <1>4, <1>7
<1>9. ~ring[r][s].valid
    BY <1>1, OwnedSlotIsFree
<1>10. \A v \in Waves, j \in LaneIds :
         lane'[<<v, j>>] = IF v = w /\ j = i THEN "publish" ELSE lane[<<v, j>>]
    BY <1>5, Zenon DEF RingInv, RingTypeOK
<1>11. \A v \in Waves, j \in LaneIds : HasSlot(v, j)' <=> HasSlot(v, j)
    BY <1>1, <1>10, Zenon DEF HasSlot
<1>12. RingTypeOK'
  <2>1. ring' \in [Rings -> [Slots -> Elements]]
      BY <1>2, <1>4, <1>6
  <2>2. lane' \in [Waves \X LaneIds ->
                  {"out", "fill", "publish", "poll", "reset", "done"}]
      BY <1>5, Zenon DEF RingInv, RingTypeOK
  <2>3. \A v \in Waves, j \in LaneIds : lane'[<<v, j>>] # "out"
         => wave'[v].pc = "element" /\ j <= wave'[v].n
      BY <1>1, <1>3, <1>10, LaneIsIn, Zenon
  <2> QED
      BY <1>3, <2>1, <2>2, <2>3, Zenon DEF RingInv, RingTypeOK
<1>13. LockInv'
    BY <1>3, Zenon DEF RingInv, LockInv, InSection
<1>14. IndexInv'
    BY <1>3, Zenon DEF RingInv, IndexInv, NextUnread
<1>15. /\ \A v \in Waves, j \in LaneIds :
            /\ Index(v, j)' = Index(v, j) /\ MySlot(v, j)' = MySlot(v, j)
            /\ MyRing(v)' = MyRing(v) /\ wave'[v].h = wave[v].h
       /\ \A q1 \in Rings : NextUnread(q1)' = NextUnread(q1)
    BY <1>3, Zenon DEF Index, MySlot, MyRing, NextUnread
<1>16. LaneInv'
  <2>1. \A v \in Waves, j \in LaneIds : HasSlot(v, j)'
         => (NextUnread(MyRing(v)) <= Index(v, j)
              /\ Index(v, j) < write_index[wave[v].h])'
      BY <1>3, <1>11, <1>15, LaneFacts
  <2>2. ASSUME NEW v \in Waves, NEW j \in LaneIds, HasSlot(v, j)',
               NEW u \in Waves, NEW k \in LaneIds, HasSlot(u, k)',
               wave'[v].h = wave'[u].h, Index(v, j)' = Index(u, k)'
        PROVE  v = u /\ j = k
    <3>1. /\ HasSlot(v, j) /\ HasSlot(u, k) /\ wave[v].h = wave[u].h
          /\ Index(v, j) = Index(u, k)
        BY <2>2, <1>11, <1>15
    <3> QED
        BY <3>1, LanesApart, SMTT(30)
  <2>3. ASSUME NEW v \in Waves, NEW j \in LaneIds, lane'[<<v, j>>] = "publish"
        PROVE  (ring[MyRing(v)][MySlot(v, j)].req.idx = Index(v, j))'
    <3>1. CASE v = w /\ j = i
        BY <3>1, <1>4, <1>7, <1>15, Zenon
    <3>2. CASE ~(v = w /\ j = i)
      <4>1. lane[<<v, j>>] = "publish" /\ HasSlot(v, j)
          BY <3>2, <2>3, <1>10, PublishedIndex, Zenon
      <4>2. MyRing(v) # r \/ MySlot(v, j) # s
          BY <4>1, <3>2, <1>1, OwnersAreApart, Zenon
      <4>3. MyRing(v) \in Rings /\ MySlot(v, j) \in Slots
          BY <4>1, LaneFacts, Zenon
      <4>4. ring[MyRing(v)][MySlot(v, j)].req.idx = Index(v, j)
          BY <4>1, PublishedIndex, Zenon
      <4> QED
          BY <4>2, <4>3, <4>4, <1>7, <1>15
    <3> QED
        BY <3>1, <3>2
  <2> QED
      BY <2>1, <2>2, <2>3, Zenon DEF LaneInv
<1>17. SlotInv'
  <2>1. ASSUME NEW h \in Handles, NEW t \in Slots, ring'[RingOf[h]][t].valid
        PROVE  /\ NextUnread(RingOf[h])' <= ring'[RingOf[h]][t].req.idx
               /\ ring'[RingOf[h]][t].req.idx < write_index'[h]
               /\ ring'[RingOf[h]][t].req.idx % QueueSize = t
               /\ \A v \in Waves, j \in LaneIds :
                    HasSlot(v, j)' /\ wave'[v].h = h
                      => Index(v, j)' # ring'[RingOf[h]][t].req.idx
    <3>1. RingOf[h] \in Rings /\ ring[RingOf[h]][t].valid
        BY <2>1, <1>8, Zenon
    <3>2. ring'[RingOf[h]][t] = ring[RingOf[h]][t]
        BY <3>1, <1>7, <1>9, Zenon
    <3>3. /\ NextUnread(RingOf[h]) <= ring[RingOf[h]][t].req.idx
          /\ ring[RingOf[h]][t].req.idx < write_index[h]
          /\ ring[RingOf[h]][t].req.idx % QueueSize = t
          /\ \A v \in Waves, j \in LaneIds : HasSlot(v, j) /\ wave[v].h = h
               => Index(v, j) # ring[RingOf[h]][t].req.idx
        BY <3>1, ValidFacts
    <3>4. NextUnread(RingOf[h])' = NextUnread(RingOf[h]) /\ write_index' = write_index
        BY <3>1, <1>3, <1>15, Zenon
    <3>5. \A v \in Waves, j \in LaneIds : HasSlot(v, j)' /\ wave'[v].h = h
            => Index(v, j)' # ring[RingOf[h]][t].req.idx
        BY <3>3, <1>11, <1>15, Zenon
    <3> QED
        BY <3>2, <3>3, <3>4, <3>5, Zenon
  <2>2. (cpu.pc = "clear_valid" => ring[cpu.i][ReadSlot(cpu.i)].valid)'
    <3>1. cpu.i \in Rings /\ ReadSlot(cpu.i) \in Slots
        BY SlotInRange, Zenon DEF RingInv, RingTypeOK, ReadSlot
    <3>2. cpu' = cpu /\ ReadSlot(cpu.i)' = ReadSlot(cpu.i)
        BY <1>3 DEF ReadSlot
    <3> QED
        BY <3>1, <3>2, <1>8, TakenIsValid
  <2> QED
      BY <2>1, <2>2, Zenon DEF SlotInv
<1> QED
    BY <1>12, <1>13, <1>14, <1>16, <1>17 DEF RingInv

(* Publishing hands the lane's index over to its slot.                     *)
LEMMA PublishKeepsRing ==
    ASSUME RingInv, PrivateRings, NEW w \in Waves, NEW i \in LaneIds,
           PublishElement(w, i)
    PROVE  RingInv'
<1> USE SizesAssumption, HandlesAssumption
<1> DEFINE r == MyRing(w)
           s == MySlot(w, i)
<1>1. lane[<<w, i>>] = "publish" /\ HasSlot(w, i)
    BY Zenon DEF PublishElement, HasSlot
<1>2. /\ wave[w].h \in Handles /\ r \in Rings /\ s \in Slots
      /\ Index(w, i) \in Nat /\ NextUnread(r) <= Index(w, i)
      /\ Index(w, i) < write_index[wave[w].h]
    BY <1>1, LaneFacts
<1>3. UNCHANGED <<write_index, read_index, lock, host_read_index, wave, pool, cpu>>
    BY DEF PublishElement
<1>4. ring \in [Rings -> [Slots -> Elements]]
    BY DEF RingInv, RingTypeOK
<1>5. ring' = [ring EXCEPT ![r][s] = [ring[r][s] EXCEPT !.valid = TRUE]]
    BY <1>2, <1>4 DEF PublishElement
<1>6. /\ [ring[r][s] EXCEPT !.valid = TRUE] \in Elements
      /\ [ring[r][s] EXCEPT !.valid = TRUE].req = ring[r][s].req
      /\ [ring[r][s] EXCEPT !.valid = TRUE].valid = TRUE
  <2>1. PICK e \in Elements : e = ring[r][s]
      BY <1>2, <1>4
  <2>2. /\ [e EXCEPT !.valid = TRUE] \in Elements
        /\ [e EXCEPT !.valid = TRUE].req = e.req
        /\ [e EXCEPT !.valid = TRUE].valid = TRUE
      BY Zenon DEF Elements
  <2> QED
      BY <2>1, <2>2, Zenon
<1>7. /\ ring'[r][s].valid = TRUE /\ ring'[r][s].req = ring[r][s].req
      /\ \A q1 \in Rings, t \in Slots : q1 # r \/ t # s
           => ring'[q1][t] = ring[q1][t]
    BY <1>2, <1>4, <1>5, <1>6
<1>8. PICK l \in {"poll", "done"} : lane' = [lane EXCEPT ![<<w, i>>] = l]
    BY Zenon DEF PublishElement
<1>9. \A v \in Waves, j \in LaneIds :
        lane'[<<v, j>>] = IF v = w /\ j = i THEN l ELSE lane[<<v, j>>]
    BY <1>8, Zenon DEF RingInv, RingTypeOK
<1>10. \A v \in Waves, j \in LaneIds :
         HasSlot(v, j)' => HasSlot(v, j) /\ ~(v = w /\ j = i)
    BY <1>9, Zenon DEF HasSlot
<1>11. RingTypeOK'
  <2>1. ring' \in [Rings -> [Slots -> Elements]]
      BY <1>2, <1>4, <1>5, <1>6
  <2>2. lane' \in [Waves \X LaneIds ->
                  {"out", "fill", "publish", "poll", "reset", "done"}]
      BY <1>8, Zenon DEF RingInv, RingTypeOK
  <2>3. \A v \in Waves, j \in LaneIds : lane'[<<v, j>>] # "out"
         => wave'[v].pc = "element" /\ j <= wave'[v].n
      BY <1>1, <1>3, <1>9, LaneIsIn, Zenon
  <2> QED
      BY <1>3, <2>1, <2>2, <2>3 DEF RingInv, RingTypeOK
<1>12. LockInv'
    BY <1>3, Zenon DEF RingInv, LockInv, InSection
<1>13. IndexInv'
    BY <1>3, Zenon DEF RingInv, IndexInv, NextUnread
<1>14. /\ \A v \in Waves, j \in LaneIds :
            /\ Index(v, j)' = Index(v, j) /\ MySlot(v, j)' = MySlot(v, j)
            /\ MyRing(v)' = MyRing(v) /\ wave'[v].h = wave[v].h
       /\ \A q1 \in Rings : NextUnread(q1)' = NextUnread(q1)
    BY <1>3, Zenon DEF Index, MySlot, MyRing, NextUnread
<1>15. ring[r][s].req.idx = Index(w, i)
    BY <1>1, PublishedIndex, Zenon
<1>16. LaneInv'
  <2>1. \A v \in Waves, j \in LaneIds : HasSlot(v, j)'
         => (NextUnread(MyRing(v)) <= Index(v, j)
              /\ Index(v, j) < write_index[wave[v].h])'
      BY <1>3, <1>10, <1>14, LaneFacts, Zenon
  <2>2. ASSUME NEW v \in Waves, NEW j \in LaneIds, HasSlot(v, j)',
               NEW u \in Waves, NEW k \in LaneIds, HasSlot(u, k)',
               wave'[v].h = wave'[u].h, Index(v, j)' = Index(u, k)'
        PROVE  v = u /\ j = k
    <3>1. /\ HasSlot(v, j) /\ HasSlot(u, k) /\ wave[v].h = wave[u].h
          /\ Index(v, j) = Index(u, k)
        BY <2>2, <1>10, <1>14, Zenon
    <3> QED
        BY <3>1, LanesApart
  <2>3. ASSUME NEW v \in Waves, NEW j \in LaneIds, lane'[<<v, j>>] = "publish"
        PROVE  (ring[MyRing(v)][MySlot(v, j)].req.idx = Index(v, j))'
    <3>1. lane[<<v, j>>] = "publish" /\ HasSlot(v, j) /\ ~(v = w /\ j = i)
        BY <2>3, <1>8, <1>9, Zenon DEF HasSlot
    <3>2. MyRing(v) # r \/ MySlot(v, j) # s
        BY <3>1, <1>1, OwnersAreApart, Zenon
    <3>3. MyRing(v) \in Rings /\ MySlot(v, j) \in Slots
        BY <3>1, LaneFacts, Zenon
    <3>4. ring[MyRing(v)][MySlot(v, j)].req.idx = Index(v, j)
        BY <3>1, PublishedIndex, Zenon
    <3> QED
        BY <3>2, <3>3, <3>4, <1>7, <1>14
  <2> QED
      BY <2>1, <2>2, <2>3, Zenon DEF LaneInv
<1>17. SlotInv'
  <2>1. ASSUME NEW h \in Handles, NEW t \in Slots, ring'[RingOf[h]][t].valid
        PROVE  /\ NextUnread(RingOf[h])' <= ring'[RingOf[h]][t].req.idx
               /\ ring'[RingOf[h]][t].req.idx < write_index'[h]
               /\ ring'[RingOf[h]][t].req.idx % QueueSize = t
               /\ \A v \in Waves, j \in LaneIds :
                    HasSlot(v, j)' /\ wave'[v].h = h
                      => Index(v, j)' # ring'[RingOf[h]][t].req.idx
    <3>0. RingOf[h] \in Rings
        BY Zenon
    <3>1. CASE RingOf[h] = r /\ t = s
      <4>1. h = wave[w].h
          BY <3>1, <1>2, Zenon DEF PrivateRings, MyRing
      <4>2. ring'[RingOf[h]][t].req.idx = Index(w, i)
          BY <3>1, <1>7, <1>15
      <4>3. Index(w, i) % QueueSize = t
          BY <3>1, Zenon DEF MySlot
      <4>4. ASSUME NEW v \in Waves, NEW j \in LaneIds, HasSlot(v, j)',
                   wave'[v].h = h
            PROVE  Index(v, j)' # Index(w, i)
        <5>1. /\ HasSlot(v, j) /\ ~(v = w /\ j = i) /\ wave[v].h = wave[w].h
              /\ Index(v, j)' = Index(v, j)
            BY <4>1, <4>4, <1>10, <1>14, Zenon
        <5> QED
            BY <5>1, <1>1, LanesApart, Zenon
      <4> QED
          BY <4>1, <4>2, <4>3, <4>4, <3>1, <1>2, <1>3, <1>14, Zenon
    <3>2. CASE ~(RingOf[h] = r /\ t = s)
      <4>1. ring'[RingOf[h]][t] = ring[RingOf[h]][t]
          BY <3>0, <3>2, <1>7, Zenon
      <4>2. ring[RingOf[h]][t].valid
          BY <4>1, <2>1, Zenon
      <4>3. /\ NextUnread(RingOf[h]) <= ring[RingOf[h]][t].req.idx
            /\ ring[RingOf[h]][t].req.idx < write_index[h]
            /\ ring[RingOf[h]][t].req.idx % QueueSize = t
            /\ \A v \in Waves, j \in LaneIds : HasSlot(v, j) /\ wave[v].h = h
                 => Index(v, j) # ring[RingOf[h]][t].req.idx
          BY <4>2, ValidFacts
      <4>4. NextUnread(RingOf[h])' = NextUnread(RingOf[h]) /\ write_index' = write_index
          BY <3>0, <1>3, <1>14, Zenon
      <4>5. \A v \in Waves, j \in LaneIds : HasSlot(v, j)' /\ wave'[v].h = h
              => Index(v, j)' # ring[RingOf[h]][t].req.idx
          BY <4>3, <1>10, <1>14, Zenon
      <4> QED
          BY <4>1, <4>3, <4>4, <4>5, Zenon
    <3> QED
        BY <3>1, <3>2, Zenon
  <2>2. (cpu.pc = "clear_valid" => ring[cpu.i][ReadSlot(cpu.i)].valid)'
    <3>1. cpu.i \in Rings /\ ReadSlot(cpu.i) \in Slots
        BY SlotInRange DEF RingInv, RingTypeOK, ReadSlot
    <3>2. cpu' = cpu /\ ReadSlot(cpu.i)' = ReadSlot(cpu.i)
        BY <1>3 DEF ReadSlot
    <3> QED
        BY <3>1, <3>2, <1>7, TakenIsValid
  <2> QED
      BY <2>1, <2>2, Zenon DEF SlotInv
<1> QED
    BY <1>11, <1>12, <1>13, <1>16, <1>17 DEF RingInv

(* Seeing the status byte, or resetting it, touches no slot.               *)
LEMMA StatusKeepsRing ==
    ASSUME RingInv, NEW w \in Waves, NEW i \in LaneIds,
           PollStatus(w, i) \/ ResetStatus(w, i)
    PROVE  RingInv'
<1>1. PICK l \in {"reset", "done"} : lane' = [lane EXCEPT ![<<w, i>>] = l]
    BY DEF PollStatus, ResetStatus
<1>2. UNCHANGED <<write_index, read_index, lock, ring, host_read_index, wave, pool, cpu>>
    BY DEF PollStatus, ResetStatus, ringVars
<1>3. lane[<<w, i>>] # "out"
    BY DEF PollStatus, ResetStatus
<1>4. \A v \in Waves, j \in LaneIds :
        lane'[<<v, j>>] = IF v = w /\ j = i THEN l ELSE lane[<<v, j>>]
    BY <1>1, Zenon DEF RingInv, RingTypeOK
<1>5. RingTypeOK'
  <2>1. lane' \in [Waves \X LaneIds ->
                  {"out", "fill", "publish", "poll", "reset", "done"}]
      BY <1>1, Zenon DEF RingInv, RingTypeOK
  <2>2. \A v \in Waves, j \in LaneIds : lane'[<<v, j>>] # "out"
         => wave'[v].pc = "element" /\ j <= wave'[v].n
      BY <1>2, <1>3, <1>4, LaneIsIn, Zenon
  <2> QED
      BY <1>2, <2>1, <2>2, Zenon DEF RingInv, RingTypeOK
<1>6. LockInv'
    BY <1>2, Zenon DEF RingInv, LockInv, InSection
<1>7. IndexInv'
    BY <1>2, Zenon DEF RingInv, IndexInv, NextUnread
<1>8. \A v \in Waves, j \in LaneIds :
        /\ HasSlot(v, j)' => HasSlot(v, j) /\ wave'[v] = wave[v]
        /\ lane'[<<v, j>>] = "publish" => lane[<<v, j>>] = "publish"
                                          /\ HasSlot(v, j)'
    BY <1>2, <1>4, Zenon DEF HasSlot
<1>9. \A r \in Rings : NextUnread(r)' = NextUnread(r)
    BY <1>2, Zenon DEF NextUnread
<1>10. (cpu.pc = "clear_valid" => ring[cpu.i][ReadSlot(cpu.i)].valid)'
    BY <1>2, Zenon DEF RingInv, SlotInv, ReadSlot
<1>11. LaneInv' /\ SlotInv'
    BY <1>2, <1>8, <1>9, <1>10, FewerLanes, Zenon
<1> QED
    BY <1>5, <1>6, <1>7, <1>11 DEF RingInv

(* Returning from the interface.                                           *)
LEMMA ReturnKeepsRing ==
    ASSUME RingInv, NEW w \in Waves, Return(w)
    PROVE  RingInv'
<1>1. wave' = [wave EXCEPT ![w] = IdleWave] /\ IdleWave \in WaveStates
    BY Zenon DEF Return, IdleWave, WaveStates
<1>2. /\ wave' \in [Waves -> WaveStates] /\ wave'[w].pc = "idle"
      /\ \A v \in Waves \ {w} : wave'[v] = wave[v]
    BY <1>1, Zenon DEF RingInv, RingTypeOK, IdleWave
<1>3. UNCHANGED <<write_index, read_index, lock, ring, host_read_index, cpu>>
    BY Zenon DEF Return, ringVars
<1>4. \A v \in Waves, j \in LaneIds :
        lane'[<<v, j>>] = IF v = w THEN "out" ELSE lane[<<v, j>>]
    BY Zenon DEF Return
<1>5. RingTypeOK'
  <2>1. lane' \in [Waves \X LaneIds ->
                  {"out", "fill", "publish", "poll", "reset", "done"}]
      BY Zenon DEF Return, RingInv, RingTypeOK
  <2>2. \A v \in Waves, j \in LaneIds : lane'[<<v, j>>] # "out"
         => wave'[v].pc = "element" /\ j <= wave'[v].n
      BY <1>2, <1>4, LaneIsIn, Zenon
  <2>3. \A v \in Waves : wave'[v].pc # "idle"
         => wave'[v].h \in Handles /\ wave'[v].n \in LaneIds
      BY <1>2, Zenon DEF RingInv, RingTypeOK
  <2>4. pool' \subseteq Buffers
    <3>1. wave[w].buf \in Buffers \cup {NULL}
        BY Zenon DEF RingInv, RingTypeOK, WaveStates
    <3> QED
        BY <3>1, Zenon DEF Return, RingInv, RingTypeOK
  <2> QED
      BY <1>2, <1>3, <2>1, <2>2, <2>3, <2>4, Zenon DEF RingInv, RingTypeOK
<1>6. LockInv'
    BY <1>2, <1>3, Zenon DEF RingInv, LockInv, InSection
<1>7. IndexInv'
    BY <1>2, <1>3, Zenon DEF RingInv, IndexInv, NextUnread
<1>8. \A v \in Waves, j \in LaneIds :
        /\ HasSlot(v, j)' => HasSlot(v, j) /\ wave'[v] = wave[v]
        /\ lane'[<<v, j>>] = "publish" => lane[<<v, j>>] = "publish"
                                          /\ HasSlot(v, j)'
    BY <1>2, <1>4, Zenon DEF HasSlot
<1>9. \A r \in Rings : NextUnread(r)' = NextUnread(r)
    BY <1>3, Zenon DEF NextUnread
<1>10. (cpu.pc = "clear_valid" => ring[cpu.i][ReadSlot(cpu.i)].valid)'
    BY <1>3, Zenon DEF RingInv, SlotInv, ReadSlot
<1>11. LaneInv' /\ SlotInv'
    BY <1>3, <1>8, <1>9, <1>10, FewerLanes, Zenon
<1> QED
    BY <1>5, <1>6, <1>7, <1>11 DEF RingInv

(* The worker's record stays well formed when it moves to the next ring.   *)
LEMMA NextRingType ==
    ASSUME RingInv
    PROVE  /\ NextRing \in [pc : {"next_element", "clear_valid",
                                "increment_read_index"},
                           i : Rings, request_count : Nat]
           /\ NextRing.pc = "next_element"
<1>1. cpu.i \in Nat
    BY SizesAssumption DEF RingInv, RingTypeOK, Rings
<1>2. (cpu.i + 1) % NumRings \in Rings
    BY <1>1, SizesAssumption DEF Rings
<1> QED
    BY <1>2 DEF NextRing

(* The worker thread's steps that do not write the ring.                   *)
LEMMA WorkerKeepsRing ==
    ASSUME RingInv, process_empty \/ insertRequest \/ increment_read_index
    PROVE  RingInv'
<1> USE SizesAssumption, HandlesAssumption
<1> DEFINE Workers == [pc : {"next_element", "clear_valid",
                             "increment_read_index"},
                       i : Rings, request_count : Nat]
<1>1. UNCHANGED <<write_index, read_index, lock, ring, wave, lane, pool>>
    BY Zenon DEF process_empty, insertRequest, increment_read_index, ringVars, gpuVars
<1>2. cpu \in Workers /\ host_read_index \in [Rings -> Nat]
    BY DEF RingInv, RingTypeOK
<1>3. cpu' \in Workers /\ host_read_index' \in [Rings -> Nat]
  <2>1. CASE process_empty
      BY <2>1, <1>2, NextRingType DEF process_empty, ringVars
  <2>2. CASE insertRequest
      BY <2>2, <1>2, Zenon DEF insertRequest, ringVars
  <2>3. CASE increment_read_index
    <3>1. host_read_index' \in [Rings -> Nat]
        BY <2>3, <1>2 DEF increment_read_index
    <3>2. [cpu EXCEPT !.pc = "next_element",
                      !.request_count = cpu.request_count + 1] \in Workers
      <4>1. PICK n \in Nat : n = cpu.request_count + 1
          BY <1>2
      <4>2. [cpu EXCEPT !.pc = "next_element", !.request_count = n] \in Workers
          BY <1>2, Zenon
      <4> QED
          BY <4>1, <4>2
    <3>3. \/ cpu' = [cpu EXCEPT !.pc = "next_element",
                               !.request_count = cpu.request_count + 1]
          \/ cpu' = NextRing
        BY <2>3 DEF increment_read_index
    <3> QED
        BY <3>1, <3>2, <3>3, NextRingType, Zenon
  <2> QED
      BY <2>1, <2>2, <2>3, Zenon
<1>4. \A r \in Rings : /\ NextUnread(r)' = NextUnread(r)
                       /\ host_read_index[r] <= host_read_index'[r]
  <2>1. CASE process_empty
      BY <2>1, <1>2, NextRingType DEF process_empty, ringVars, NextUnread
  <2>2. CASE insertRequest
      BY <2>2, <1>2 DEF insertRequest, ringVars, NextUnread
  <2>3. CASE increment_read_index
    <3>1. cpu'.pc = "next_element" /\ cpu.pc = "increment_read_index"
        BY <2>3, <1>2, NextRingType DEF increment_read_index
    <3>2. host_read_index' = [host_read_index EXCEPT
                                ![cpu.i] = host_read_index[cpu.i] + 1]
        BY <2>3, Zenon DEF increment_read_index
    <3> QED
        BY <3>1, <3>2, <1>2 DEF NextUnread
  <2> QED
      BY <2>1, <2>2, <2>3
<1>5. (cpu.pc = "clear_valid" => ring[cpu.i][ReadSlot(cpu.i)].valid)'
  <2>1. CASE process_empty
      BY <2>1, NextRingType DEF process_empty
  <2>2. CASE insertRequest
      BY <2>2, <1>1, <1>2 DEF insertRequest, ringVars, ReadSlot
  <2>3. CASE increment_read_index
      BY <2>3, <1>2, NextRingType, Zenon DEF increment_read_index
  <2> QED
      BY <2>1, <2>2, <2>3, Zenon
<1>6. RingTypeOK'
    BY <1>1, <1>3, Zenon DEF RingInv, RingTypeOK
<1>7. LockInv'
    BY <1>1, Zenon DEF RingInv, LockInv, InSection
<1>8. IndexInv'
  <2>1. \A h \in Handles : RingOf[h] \in Rings /\ read_index[h] \in Nat
      BY Zenon DEF RingInv, RingTypeOK
  <2>2. \A h \in Handles : read_index'[h] <= host_read_index'[RingOf[h]]
      BY <1>1, <1>2, <1>3, <1>4, <2>1 DEF RingInv, IndexInv
  <2> QED
      BY <1>1, <1>4, <2>1, <2>2, Zenon DEF RingInv, IndexInv
<1>9. \A v \in Waves, j \in LaneIds :
        /\ HasSlot(v, j)' => HasSlot(v, j) /\ wave'[v] = wave[v]
        /\ lane'[<<v, j>>] = "publish" => lane[<<v, j>>] = "publish"
                                          /\ HasSlot(v, j)'
    BY <1>1, Zenon DEF HasSlot
<1>10. LaneInv' /\ SlotInv'
    BY <1>1, <1>4, <1>5, <1>9, FewerLanes, Zenon
<1> QED
    BY <1>6, <1>7, <1>8, <1>10 DEF RingInv

(* A published element in the slot under the read index is the one whose   *)
(* turn it is.                                                             *)
LEMMA NextElement ==
    ASSUME RingInv, NEW h \in Handles,
           ring[RingOf[h]][ReadSlot(RingOf[h])].valid
    PROVE  /\ ring[RingOf[h]][ReadSlot(RingOf[h])].req.idx
                = host_read_index[RingOf[h]]
           /\ host_read_index[RingOf[h]] < write_index[h]
<1> USE SizesAssumption, HandlesAssumption
<1> DEFINE r == RingOf[h]
           s == ReadSlot(r)
           x == ring[RingOf[h]][s].req.idx
           y == host_read_index[r]
<1>1. /\ r \in Rings /\ y \in Nat /\ write_index[h] \in Nat
      /\ read_index[h] \in Nat
    BY Zenon DEF RingInv, RingTypeOK
<1>2. s \in Slots /\ y % QueueSize = s
    BY <1>1, SlotInRange DEF ReadSlot
<1>3. ring[RingOf[h]][s].valid
    BY Zenon
<1>4. /\ x \in Int /\ NextUnread(RingOf[h]) <= x /\ x < write_index[h]
      /\ x % QueueSize = s
    BY <1>2, <1>3, ValidFacts, Zenon
<1>5. y <= NextUnread(RingOf[h]) /\ NextUnread(RingOf[h]) \in Nat
  <2>1. host_read_index[RingOf[h]] \in Nat
      BY <1>1, Zenon
  <2> HIDE DEF x, s
  <2> QED
      BY <2>1 DEF NextUnread
<1>6. write_index[h] <= y + QueueSize
    BY <1>1 DEF RingInv, IndexInv
<1> HIDE DEF x, y, r, s
<1>7. y <= x /\ x \in Nat /\ x < y + QueueSize /\ y \in Nat
    BY <1>1, <1>4, <1>5, <1>6
<1>8. y = x
    BY <1>2, <1>4, <1>7, OneRevolution, Zenon
<1> QED
    BY <1>4, <1>8, Zenon DEF x, y, r, s

(* Taking an element: no lane and no other slot has its index.             *)
LEMMA ClearKeepsRing ==
    ASSUME RingInv, PrivateRings, clear_valid
    PROVE  RingInv'
<1> USE SizesAssumption, HandlesAssumption
<1> DEFINE c == cpu.i
           s == ReadSlot(c)
           new == [ring[c][s] EXCEPT !.valid = FALSE, !.req = NoReq]
<1>1. UNCHANGED <<write_index, read_index, lock, host_read_index, wave, lane, pool>>
    BY DEF clear_valid, gpuVars
<1>2. /\ cpu.pc = "clear_valid"
      /\ cpu \in [pc : {"next_element", "clear_valid", "increment_read_index"},
                  i : Rings, request_count : Nat]
      /\ host_read_index \in [Rings -> Nat] /\ write_index \in [Handles -> Nat]
      /\ ring \in [Rings -> [Slots -> Elements]]
    BY DEF clear_valid, RingInv, RingTypeOK
<1>3. c \in Rings /\ s \in Slots /\ host_read_index[c] \in Nat
    BY <1>2, SlotInRange, SMTT(30) DEF ReadSlot
<1>4. ring[c][s].valid
    BY <1>2 DEF RingInv, SlotInv
<1>5. ring' = [ring EXCEPT ![c][s] = new]
    BY DEF clear_valid
<1>6. new \in Elements /\ new.valid = FALSE
  <2>1. PICK e \in Elements : e = ring[c][s]
      BY <1>2, <1>3
  <2>2. NoReq \in [h : Handles \cup {NULL}, idx : Int, comm : Comms \cup {NULL}]
      BY DEF NoReq
  <2>3. /\ [e EXCEPT !.valid = FALSE, !.req = NoReq] \in Elements
        /\ [e EXCEPT !.valid = FALSE, !.req = NoReq].valid = FALSE
      BY <2>2, Zenon DEF Elements
  <2> QED
      BY <2>1, <2>3
<1> HIDE DEF new
<1>7. /\ ~ring'[c][s].valid
      /\ \A r \in Rings, t \in Slots : r # c \/ t # s => ring'[r][t] = ring[r][t]
    BY <1>2, <1>3, <1>5, <1>6
<1>8. cpu' = [cpu EXCEPT !.pc = "increment_read_index"]
    BY DEF clear_valid
<1>9. /\ cpu'.pc = "increment_read_index" /\ cpu'.i = c
      /\ cpu' \in [pc : {"next_element", "clear_valid", "increment_read_index"},
                   i : Rings, request_count : Nat]
    BY <1>2, <1>8
<1>10. /\ \A r \in Rings : NextUnread(r) = host_read_index[r]
       /\ \A r \in Rings : NextUnread(r)' = IF r = c THEN host_read_index[r] + 1
                                                    ELSE host_read_index[r]
    BY <1>1, <1>2, <1>9, SMTT(30) DEF NextUnread
<1>11. \A h \in Handles : RingOf[h] = c =>
         /\ ring[c][s].req.idx = host_read_index[c]
         /\ host_read_index[c] < write_index[h]
    BY <1>4, NextElement
<1>12. RingTypeOK'
  <2>1. ring' \in [Rings -> [Slots -> Elements]]
      BY <1>2, <1>3, <1>5, <1>6, Zenon
  <2> QED
      BY <1>1, <1>9, <2>1, Zenon DEF RingInv, RingTypeOK
<1>13. LockInv'
    BY <1>1, Zenon DEF RingInv, LockInv, InSection
<1>14. IndexInv'
  <2>1. ASSUME NEW h \in Handles
        PROVE  NextUnread(RingOf[h])' <= write_index'[h]
    <3>1. /\ RingOf[h] \in Rings /\ write_index'[h] = write_index[h]
          /\ write_index[h] \in Nat /\ host_read_index[RingOf[h]] \in Nat
        BY <1>1, <1>2, Zenon
    <3>2. NextUnread(RingOf[h]) <= write_index[h]
        BY Zenon DEF RingInv, IndexInv
    <3>3. RingOf[h] = c => host_read_index[c] < write_index[h]
        BY <1>11, Zenon
    <3> QED
        BY <3>1, <3>2, <3>3, <1>10
  <2> QED
      BY <1>1, <2>1, Zenon DEF RingInv, IndexInv
<1>15. \A v \in Waves, j \in LaneIds :
         /\ HasSlot(v, j)' <=> HasSlot(v, j)
         /\ Index(v, j)' = Index(v, j) /\ MySlot(v, j)' = MySlot(v, j)
         /\ MyRing(v)' = MyRing(v) /\ wave'[v].h = wave[v].h
    BY <1>1, Zenon DEF HasSlot, Index, MySlot, MyRing
<1>16. ASSUME NEW v \in Waves, NEW j \in LaneIds, HasSlot(v, j)
       PROVE  /\ NextUnread(MyRing(v))' <= Index(v, j)
              /\ MyRing(v) # c \/ MySlot(v, j) # s
  <2>1. /\ wave[v].h \in Handles /\ MyRing(v) \in Rings /\ Index(v, j) \in Nat
        /\ NextUnread(MyRing(v)) <= Index(v, j)
      BY <1>16, LaneFacts, Zenon
  <2>2. MyRing(v) # c \/ MySlot(v, j) # s
      BY <1>4, <1>16, OwnedSlotIsFree, Zenon
  <2>3. MyRing(v) = c => Index(v, j) # host_read_index[c]
    <3> SUFFICES ASSUME MyRing(v) = c PROVE Index(v, j) # host_read_index[c]
        OBVIOUS
    <3>1. RingOf[wave[v].h] = c
        BY Zenon DEF MyRing
    <3>2. ring[c][s].req.idx = host_read_index[c]
        BY <2>1, <3>1, <1>11, Zenon
    <3>3. ring[RingOf[wave[v].h]][s].valid
        BY <1>4, <3>1, Zenon
    <3>4. Index(v, j) # ring[RingOf[wave[v].h]][s].req.idx
        BY <1>16, <1>3, <2>1, <3>3, ValidFacts, Zenon
    <3> QED
        BY <3>1, <3>2, <3>4, Zenon
  <2>4. host_read_index[MyRing(v)] \in Nat
      BY <1>2, <2>1
  <2>5. NextUnread(MyRing(v))' = IF MyRing(v) = c THEN host_read_index[MyRing(v)] + 1
                                                 ELSE host_read_index[MyRing(v)]
      BY <1>1, <1>9, Zenon DEF NextUnread, MyRing
  <2>6. NextUnread(MyRing(v)) = host_read_index[MyRing(v)]
      BY <1>10, <2>1, Zenon
  <2> HIDE DEF c, s
  <2> QED
      BY <2>1, <2>2, <2>3, <2>4, <2>5, <2>6
<1>17. LaneInv'
  <2>1. \A v \in Waves, j \in LaneIds : HasSlot(v, j)'
         => (NextUnread(MyRing(v)) <= Index(v, j)
              /\ Index(v, j) < write_index[wave[v].h])'
    <3>1. \A v \in Waves, j \in LaneIds : HasSlot(v, j)
           => Index(v, j) < write_index[wave[v].h]
        BY Zenon DEF RingInv, LaneInv
    <3>2. \A v \in Waves : (NextUnread(MyRing(v)))' = NextUnread(MyRing(v))'
        BY Zenon
    <3> QED
        BY <1>1, <1>15, <1>16, <3>1, Zenon
  <2>2. \A v, u \in Waves, j, k \in LaneIds :
         /\ HasSlot(v, j)' /\ HasSlot(u, k)'
         /\ wave'[v].h = wave'[u].h /\ Index(v, j)' = Index(u, k)'
         => v = u /\ j = k
      BY <1>15, Zenon DEF RingInv, LaneInv
  <2>3. ASSUME NEW v \in Waves, NEW j \in LaneIds, lane'[<<v, j>>] = "publish"
        PROVE  (ring[MyRing(v)][MySlot(v, j)].req.idx = Index(v, j))'
    <3>1. lane[<<v, j>>] = "publish" /\ HasSlot(v, j)
        BY <2>3, <1>1, Zenon DEF HasSlot
    <3>2. MyRing(v) \in Rings /\ MySlot(v, j) \in Slots
        BY <3>1, LaneFacts, Zenon
    <3>3. ring[MyRing(v)][MySlot(v, j)].req.idx = Index(v, j)
        BY <3>1, Zenon DEF RingInv, LaneInv
    <3>4. MyRing(v) # c \/ MySlot(v, j) # s
        BY <3>1, <1>16, Zenon
    <3> QED
        BY <3>2, <3>3, <3>4, <1>7, <1>15, Zenon
  <2> QED
      BY <2>1, <2>2, <2>3, Zenon DEF LaneInv
<1>18. SlotInv'
  <2>1. ASSUME NEW h \in Handles, NEW t \in Slots, ring'[RingOf[h]][t].valid
        PROVE  /\ NextUnread(RingOf[h])' <= ring'[RingOf[h]][t].req.idx
               /\ ring'[RingOf[h]][t].req.idx < write_index'[h]
               /\ ring'[RingOf[h]][t].req.idx % QueueSize = t
               /\ \A v \in Waves, j \in LaneIds :
                    HasSlot(v, j)' /\ wave'[v].h = h
                      => Index(v, j)' # ring'[RingOf[h]][t].req.idx
    <3> DEFINE x == ring[RingOf[h]][t].req.idx
    <3>1. RingOf[h] \in Rings /\ (RingOf[h] # c \/ t # s)
        BY <2>1, <1>7, Zenon
    <3>2. ring'[RingOf[h]][t] = ring[RingOf[h]][t]
        BY <3>1, <1>7
    <3>3. ring[RingOf[h]][t].valid
        BY <3>2, <2>1, Zenon
    <3>4. /\ x \in Int /\ NextUnread(RingOf[h]) <= x /\ x < write_index[h]
          /\ x % QueueSize = t
          /\ \A v \in Waves, j \in LaneIds :
               HasSlot(v, j) /\ wave[v].h = h => Index(v, j) # x
        BY <3>3, ValidFacts, Zenon
    <3>5. RingOf[h] = c => x # host_read_index[c]
        BY <3>1, <3>4, Zenon DEF ReadSlot
    <3>6. NextUnread(RingOf[h])' <= x
      <4>1. host_read_index[RingOf[h]] \in Nat
          BY <1>2, <3>1, Zenon
      <4> HIDE DEF x
      <4> QED
          BY <4>1, <3>1, <3>4, <3>5, <1>10
    <3> QED
        BY <3>2, <3>4, <3>6, <1>1, <1>15, Zenon
  <2>2. (cpu.pc = "clear_valid" => ring[cpu.i][ReadSlot(cpu.i)].valid)'
      BY <1>9
  <2> QED
      BY <2>1, <2>2, Zenon DEF SlotInv
<1> QED
    BY <1>12, <1>13, <1>14, <1>17, <1>18 DEF RingInv

(* Submission, progress and MPI work on the transport's own state.         *)
LEMMA TransportKeepsRing ==
    ASSUME RingInv,
           \/ submitRequestsToMPI \/ progress
           \/ \E k \in 1..Len(requests) : MPICompletes(k)
    PROVE  RingInv'
<1>1. UNCHANGED <<ringVars, gpuVars, cpu>>
    BY Zenon DEF submitRequestsToMPI, progress, MPICompletes
<1> QED
    BY <1>1, ElsewhereKeepsRing DEF ringVars, gpuVars

(* The ring invariant holds in every reachable state: each index between   *)
(* the next one the CPU reads and write_index is either with the lane that *)
(* took it or in its slot, and they fit into one revolution.               *)
THEOREM RingInductive == ASSUME PrivateRings PROVE Spec => []RingInv
<1>1. Init => RingInv
    BY InitRing
<1>2. RingInv /\ [Next]_vars => RingInv'
  <2> SUFFICES ASSUME RingInv, [Next]_vars PROVE RingInv'
      OBVIOUS
  <2>1. CASE UNCHANGED vars
      BY <2>1, ElsewhereKeepsRing DEF vars, ringVars, gpuVars
  <2>2. CASE \E w \in Waves : \E h \in HandlesOf[w], n \in LaneIds,
               type \in Types, comm \in Comms \cup {NULL} :
               Call(w, h, n, type, comm)
      BY <2>2, CallKeepsRing
  <2>3. CASE \E w \in Waves : WaveStep(w)
      BY <2>3, AcquireKeepsRing, RefreshKeepsRing, SpaceKeepsRing,
         TakeKeepsRing, ReturnKeepsRing DEF WaveStep
  <2>4. CASE \E w \in Waves, i \in LaneIds : LaneStep(w, i)
      BY <2>4, FillKeepsRing, PublishKeepsRing, StatusKeepsRing DEF LaneStep
  <2>5. CASE ro_net_poll
      BY <2>5, WorkerKeepsRing, ClearKeepsRing DEF ro_net_poll
  <2>6. CASE \/ submitRequestsToMPI \/ progress
             \/ \E k \in 1..Len(requests) : MPICompletes(k)
      BY <2>6, TransportKeepsRing
  <2> QED
      BY <2>1, <2>2, <2>3, <2>4, <2>5, <2>6 DEF Next
<1> QED
    BY <1>1, <1>2, PTL DEF Spec

(* A lane that writes an element never writes one the CPU has yet to take. *)
THEOREM RingSafe == ASSUME PrivateRings PROVE Spec => []NoElementOverwritten
<1>1. RingInv => NoElementOverwritten
    BY OwnedSlotIsFree, Zenon DEF NoElementOverwritten, HasSlot
<1> QED
    BY <1>1, RingInductive, PTL

(* The CPU takes the commands of a ring in the order of write_index.       *)
THEOREM RingOrdered == ASSUME PrivateRings PROVE Spec => []TakenInOrder
<1>1. RingInv => TakenInOrder
    BY NextElement DEF TakenInOrder
<1> QED
    BY <1>1, RingInductive, PTL
-----------------------------------------------------------------------------
(*                  The completion protocol: its invariant                 *)

(* A context is used by one wavefront.                                     *)
OneWavePerHandle ==
    \A w, v \in Waves : HandlesOf[w] \cap HandlesOf[v] # {} => w = v

(* The first index of ring r that is not in the transport yet.             *)
Taken(r) ==
    IF cpu.i = r /\ cpu.pc # "next_element"
    THEN host_read_index[r] + 1 ELSE host_read_index[r]

Entries == [elem : Elements, wgid : Rings]
Posted ==
    [status : Statuses, ctx : Rings, blocking : BOOLEAN,
     req : [h : Handles \cup {NULL}, idx : Int, comm : Comms \cup {NULL}],
     done : BOOLEAN]

TransportTypeOK ==
    /\ q \in Seq(Entries)
    /\ requests \in Seq(Posted)
    /\ waiting_quiet \in [Rings -> Seq(Elements)]
    /\ outstanding \in [Rings -> Int]

(* A command is in the ring of the handle it was written through.          *)
Home(r, x) == x.h \in Handles /\ RingOf[x.h] = r

(* Commands leave a ring, and then the transport's queue, in the order of  *)
(* their indices.                                                          *)
OrderInv ==
    /\ \A r \in Rings, s \in Slots :
         ring[r][s].valid => Home(r, ring[r][s].req)
    /\ \A k \in 1..Len(q) :
         /\ Home(q[k].wgid, q[k].elem.req)
         /\ q[k].elem.req.idx < Taken(q[k].wgid)
    /\ \A k, l \in 1..Len(q) :
         k < l /\ q[k].wgid = q[l].wgid => q[k].elem.req.idx < q[l].elem.req.idx
    /\ \A k \in 1..Len(requests) :
         /\ Home(requests[k].ctx, requests[k].req)
         /\ requests[k].req.idx < Taken(requests[k].ctx)
         /\ \A l \in 1..Len(q) : q[l].wgid = requests[k].ctx
              => requests[k].req.idx < q[l].elem.req.idx
    /\ \A r \in Rings : \A k \in 1..Len(waiting_quiet[r]) :
         /\ Home(r, waiting_quiet[r][k].req)
         /\ waiting_quiet[r][k].req.idx < Taken(r)
         /\ \A l \in 1..Len(q) : q[l].wgid = r
              => waiting_quiet[r][k].req.idx < q[l].elem.req.idx

(* The request that answers a blocking command is all of that command.     *)
AloneInv ==
    \A k \in 1..Len(requests) : requests[k].blocking =>
        /\ \A l \in (1..Len(requests)) \ {k} :
             requests[l].ctx = requests[k].ctx
               => requests[l].req.idx # requests[k].req.idx
        /\ \A l \in 1..Len(waiting_quiet[requests[k].ctx]) :
             waiting_quiet[requests[k].ctx][l].req.idx # requests[k].req.idx

(* A lane that has published its command and waits for this status byte.   *)
Awaits(w, i, status, x) ==
    /\ lane[<<w, i>>] = "poll"
    /\ Blocking(wave[w].type)
    /\ status = get_status_flag(w, i)
    /\ x.h = wave[w].h /\ x.idx = Index(w, i)

Drains(type) == type \in {"QUIET", "BARRIER"}

(* Whoever will be notified is a lane that still waits.                    *)
RingOwners ==
    \A r \in Rings : \A s \in Unread(r) : Blocking(ring[r][s].type) =>
        \E w \in Waves, i \in LaneIds :
           /\ Awaits(w, i, ring[r][s].status, ring[r][s].req)
           /\ wave[w].type = ring[r][s].type

QueueOwners ==
    \A k \in 1..Len(q) : Blocking(q[k].elem.type) =>
        \E w \in Waves, i \in LaneIds :
           /\ Awaits(w, i, q[k].elem.status, q[k].elem.req)
           /\ wave[w].type = q[k].elem.type

RequestOwners ==
    \A k \in 1..Len(requests) : requests[k].blocking =>
        \E w \in Waves, i \in LaneIds :
           /\ Awaits(w, i, requests[k].status, requests[k].req)
           /\ ~Drains(wave[w].type)

QuietOwners ==
    \A r \in Rings : \A k \in 1..Len(waiting_quiet[r]) :
        \E w \in Waves, i \in LaneIds :
           Awaits(w, i, waiting_quiet[r][k].status, waiting_quiet[r][k].req)

OwnerInv == RingOwners /\ QueueOwners /\ RequestOwners /\ QuietOwners

(* Command x is none of those an answered lane has to have behind it.      *)
Behind(w, i, x) ==
    x.h = wave[w].h => /\ x.idx # Index(w, i)
                       /\ Drains(wave[w].type) => x.idx > Index(w, i)

(* A later command of the same handle is behind this one.                  *)
LEMMA LaterIsBehind ==
    ASSUME NEW w, NEW i, NEW x, Index(w, i) \in Int, x.idx \in Int,
           x.h = wave[w].h => Index(w, i) < x.idx
    PROVE  Behind(w, i, x)
BY DEF Behind

(* A raised status byte belongs to a lane that waits for it or has seen    *)
(* it, and the command of that lane is over.                               *)
FlagOwners ==
    \A s \in raised : \E w \in Waves, i \in LaneIds :
        lane[<<w, i>>] \in {"poll", "reset"} /\ s = get_status_flag(w, i)

Over(w, i) ==
    /\ Index(w, i) < Taken(MyRing(w))
    /\ \A k \in 1..Len(q) : Behind(w, i, q[k].elem.req)
    /\ \A k \in 1..Len(requests) : Behind(w, i, requests[k].req)
    /\ \A r \in Rings : \A k \in 1..Len(waiting_quiet[r]) :
         Behind(w, i, waiting_quiet[r][k].req)

AnsweredInv ==
    /\ FlagOwners
    /\ \A w \in Waves, i \in LaneIds :
         lane[<<w, i>>] \in {"poll", "reset"} /\ get_status_flag(w, i) \in raised
           => Over(w, i)
    /\ \A w \in Waves, i \in LaneIds :
         lane[<<w, i>>] = "reset" => get_status_flag(w, i) \in raised

(* What a lane published stays in its slot while it polls.                 *)
PublishedInv ==
    /\ \A w \in Waves : wave[w].pc # "idle" => wave[w].h \in HandlesOf[w]
    /\ \A w \in Waves : wave[w].pc = "element" => wave[w].n <= QueueSize
    /\ \A w \in Waves, i \in LaneIds : lane[<<w, i>>] \in {"poll", "reset"}
         => Blocking(wave[w].type)
    /\ \A w \in Waves, i \in LaneIds :
         lane[<<w, i>>] \in {"publish", "poll", "reset"} /\ Blocking(wave[w].type)
           => ring[MyRing(w)][MySlot(w, i)].status = get_status_flag(w, i)
    /\ \A w \in Waves, i \in LaneIds : lane[<<w, i>>] = "publish"
         => /\ ring[MyRing(w)][MySlot(w, i)].type = wave[w].type
            /\ ring[MyRing(w)][MySlot(w, i)].req.h = wave[w].h

CompletionInv ==
    /\ TransportTypeOK /\ QuietIsNeverStranded /\ OrderInv /\ AloneInv
    /\ OwnerInv /\ AnsweredInv /\ PublishedInv
-----------------------------------------------------------------------------
(*                 Lanes, their flags and their slots                      *)

(* What is known of a lane in a call: its handle, ring, index and slot.    *)
LEMMA ActiveLane ==
    ASSUME RingInv, NEW v \in Waves, NEW j \in LaneIds, lane[<<v, j>>] # "out"
    PROVE  /\ wave[v].pc = "element" /\ wave[v].h \in Handles
           /\ MyRing(v) \in Rings /\ Index(v, j) \in Nat /\ MySlot(v, j) \in Slots
           /\ wave[v].n \in Nat /\ j \in Nat /\ 1 <= j /\ j <= wave[v].n
<1>1. wave[v].pc = "element" /\ j <= wave[v].n
    BY LaneIsIn
<1>2. wave[v].h \in Handles /\ wave[v].n \in LaneIds
    BY <1>1 DEF RingInv, RingTypeOK
<1>3. wave[v].base \in Nat /\ wave[v].n \in Nat /\ j \in Nat /\ 1 <= j
    BY <1>2, SizesAssumption DEF RingInv, RingTypeOK, WaveStates, LaneIds
<1>4. Index(v, j) \in Nat
    BY <1>3 DEF Index
<1>5. MySlot(v, j) \in Slots
    BY <1>4, SlotInRange DEF MySlot
<1>6. MyRing(v) \in Rings
    BY <1>2, HandlesAssumption DEF MyRing
<1> QED
    BY <1>1, <1>2, <1>3, <1>4, <1>5, <1>6

(* A handle has one wavefront.                                             *)
LEMMA HandleDeterminesWave ==
    ASSUME RingInv, PublishedInv, OneWavePerHandle,
           NEW w \in Waves, NEW v \in Waves,
           wave[w].pc # "idle", wave[v].pc # "idle", wave[w].h = wave[v].h
    PROVE  w = v
BY DEF PublishedInv, OneWavePerHandle

(* No two lanes share a status byte.                                       *)
LEMMA FlagIsOwn ==
    ASSUME RingInv, PublishedInv, OneWavePerHandle,
           NEW w \in Waves, NEW i \in LaneIds, lane[<<w, i>>] # "out"
    PROVE  \A v \in Waves, j \in LaneIds :
             lane[<<v, j>>] # "out" /\ get_status_flag(v, j) = get_status_flag(w, i)
               => v = w /\ j = i
<1> SUFFICES ASSUME NEW v \in Waves, NEW j \in LaneIds, lane[<<v, j>>] # "out",
                    get_status_flag(v, j) = get_status_flag(w, i)
             PROVE  v = w /\ j = i
    OBVIOUS
<1>1. wave[v].h = wave[w].h /\ j = i
    BY DEF get_status_flag
<1>2. wave[v].pc # "idle" /\ wave[w].pc # "idle"
    BY ActiveLane
<1> QED
    BY <1>1, <1>2, HandleDeterminesWave

(* No two lanes that are within a call use the same slot.                  *)
LEMMA SlotDeterminesLane ==
    ASSUME RingInv, PublishedInv, OneWavePerHandle, PrivateRings,
           NEW w \in Waves, NEW i \in LaneIds, lane[<<w, i>>] # "out",
           NEW v \in Waves, NEW j \in LaneIds, lane[<<v, j>>] # "out",
           MyRing(w) = MyRing(v), MySlot(w, i) = MySlot(v, j)
    PROVE  w = v /\ i = j
<1>1. /\ wave[w].pc = "element" /\ wave[v].pc = "element"
      /\ wave[w].h \in Handles /\ wave[v].h \in Handles
      /\ Index(w, i) \in Nat /\ Index(v, j) \in Nat
      /\ wave[w].n \in Nat /\ i \in Nat /\ j \in Nat /\ 1 <= i /\ 1 <= j
      /\ i <= wave[w].n /\ j <= wave[v].n
    BY ActiveLane
<1>2. w = v
  <2>1. wave[w].h = wave[v].h
    <3>1. RingOf[wave[w].h] = RingOf[wave[v].h]
        BY Zenon DEF MyRing
    <3> QED
        BY <1>1, <3>1, Zenon DEF PrivateRings
  <2> QED
      BY <1>1, <2>1, HandleDeterminesWave, Zenon
<1>3. wave[w].n <= QueueSize /\ wave[w].base \in Nat
    BY <1>1 DEF PublishedInv, RingInv, RingTypeOK, WaveStates
<1>4. Index(w, i) % QueueSize = Index(w, j) % QueueSize
    BY <1>2 DEF MySlot
<1>5. /\ wave[w].base <= Index(w, i) /\ Index(w, i) < wave[w].base + QueueSize
      /\ wave[w].base <= Index(w, j) /\ Index(w, j) < wave[w].base + QueueSize
    BY <1>1, <1>2, <1>3, SizesAssumption DEF Index
<1>6. Index(w, i) = Index(w, j)
    BY <1>1, <1>2, <1>3, <1>4, <1>5, SamePosition, SizesAssumption, Zenon
<1>7. i = j
    BY <1>1, <1>3, <1>6, SMTT(30) DEF Index
<1> QED
    BY <1>2, <1>7

(* What the worker thread has still to take is later than what it took.    *)
LEMMA UnreadIsLater ==
    ASSUME RingInv, OrderInv, NEW r \in Rings, NEW s \in Unread(r)
    PROVE  /\ s \in Slots /\ ring[r][s].valid /\ Home(r, ring[r][s].req)
           /\ ring[r][s].req.idx \in Int /\ Taken(r) <= ring[r][s].req.idx
<1> DEFINE x == ring[r][s].req
<1>1. s \in Slots /\ ring[r][s].valid
      /\ ~(cpu.pc = "clear_valid" /\ cpu.i = r /\ s = ReadSlot(r))
    BY DEF Unread
<1>2. x.h \in Handles /\ RingOf[x.h] = r
  <2>1. Home(r, ring[r][s].req)
      BY <1>1, Zenon DEF OrderInv
  <2> QED
      BY <2>1, Zenon DEF Home
<1>3. x.idx \in Int /\ NextUnread(r) <= x.idx /\ x.idx % QueueSize = s
  <2> DEFINE h == x.h
  <2>1. h \in Handles /\ ring[RingOf[h]][s].valid
      BY <1>1, <1>2
  <2> QED
      BY <1>1, <1>2, <2>1, ValidFacts
<1>4. host_read_index[r] \in Nat
    BY DEF RingInv, RingTypeOK
<1>5. Taken(r) <= x.idx
  <2>1. cpu.pc \in {"next_element", "clear_valid", "increment_read_index"}
      BY DEF RingInv, RingTypeOK
  <2>2. x.idx = host_read_index[r] => s = ReadSlot(r)
      BY <1>3 DEF ReadSlot
  <2> HIDE DEF x
  <2> QED
      BY <1>1, <1>3, <1>4, <2>1, <2>2 DEF Taken, NextUnread
<1> QED
    BY <1>1, <1>2, <1>3, <1>5 DEF Home

(* So is what the lanes have still to publish.                             *)
LEMMA OwnedIsLater ==
    ASSUME RingInv, NEW w \in Waves, NEW i \in LaneIds, HasSlot(w, i)
    PROVE  Taken(MyRing(w)) <= Index(w, i)
<1> DEFINE h == wave[w].h
           r == MyRing(w)
<1>1. /\ h \in Handles /\ r \in Rings /\ Index(w, i) \in Nat
      /\ NextUnread(r) <= Index(w, i)
    BY LaneFacts
<1>2. host_read_index[r] \in Nat /\ r = RingOf[h]
    BY <1>1, Zenon DEF RingInv, RingTypeOK, MyRing
<1>3. CASE cpu.pc = "clear_valid" /\ cpu.i = r
  <2>1. ring[r][ReadSlot(r)].valid /\ ReadSlot(r) \in Slots
      BY <1>2, <1>3, TakenIsValid, SlotInRange, Zenon DEF ReadSlot
  <2>2. ring[r][ReadSlot(r)].req.idx = host_read_index[r]
      BY <1>1, <1>2, <2>1, NextElement, Zenon
  <2>3. Index(w, i) # ring[r][ReadSlot(r)].req.idx
    <3>1. ring[RingOf[h]][ReadSlot(r)].valid
        BY <1>2, <2>1, Zenon
    <3>2. \A v \in Waves, j \in LaneIds : HasSlot(v, j) /\ wave[v].h = h
            => Index(v, j) # ring[RingOf[h]][ReadSlot(r)].req.idx
        BY <1>1, <2>1, <3>1, ValidFacts, ZenonT(40)
    <3> QED
        BY <1>2, <3>2, Zenon
  <2> QED
      BY <1>1, <1>2, <1>3, <2>2, <2>3 DEF Taken, NextUnread
<1>4. CASE ~(cpu.pc = "clear_valid" /\ cpu.i = r)
  <2>1. cpu.pc \in {"next_element", "clear_valid", "increment_read_index"}
      BY DEF RingInv, RingTypeOK
  <2> QED
      BY <1>1, <1>2, <1>4, <2>1 DEF Taken, NextUnread
<1> QED
    BY <1>3, <1>4
-----------------------------------------------------------------------------
(*              What a step that leaves a part alone preserves             *)

(* What a lane waits for depends on its wavefront's record alone.          *)
LEMMA SameWave ==
    ASSUME NEW v \in Waves, NEW j \in LaneIds, wave'[v] = wave[v]
    PROVE  /\ Index(v, j)' = Index(v, j) /\ MySlot(v, j)' = MySlot(v, j)
           /\ MyRing(v)' = MyRing(v)
           /\ get_status_flag(v, j)' = get_status_flag(v, j)
BY DEF Index, MySlot, MyRing, get_status_flag

(* The types of what the transport's records carry.                        *)
LEMMA CarrierTypes ==
    ASSUME TransportTypeOK
    PROVE  /\ \A k \in 1..Len(q) : q[k] \in Entries /\ q[k].wgid \in Rings
                /\ q[k].elem \in Elements /\ q[k].elem.req.idx \in Int
           /\ \A k \in 1..Len(requests) : requests[k] \in Posted
                /\ requests[k].ctx \in Rings /\ requests[k].req.idx \in Int
                /\ requests[k].blocking \in BOOLEAN
           /\ \A r \in Rings : \A k \in 1..Len(waiting_quiet[r]) :
                waiting_quiet[r][k] \in Elements
                /\ waiting_quiet[r][k].req.idx \in Int
<1>1. /\ q \in Seq(Entries) /\ requests \in Seq(Posted)
      /\ \A r \in Rings : waiting_quiet[r] \in Seq(Elements)
    BY DEF TransportTypeOK
<1>2. \A k \in 1..Len(q) : q[k] \in Entries
    BY <1>1
<1>3. \A k \in 1..Len(requests) : requests[k] \in Posted
    BY <1>1
<1>4. \A r \in Rings : \A k \in 1..Len(waiting_quiet[r]) :
        waiting_quiet[r][k] \in Elements
    BY <1>1
<1>5. \A e \in Elements : e.req.idx \in Int
    BY DEF Elements
<1>6. \A x \in Entries : x.elem \in Elements /\ x.wgid \in Rings
    BY DEF Entries
<1>7. \A x \in Posted : x.ctx \in Rings /\ x.req.idx \in Int
                        /\ x.blocking \in BOOLEAN
    BY DEF Posted
<1> QED
    BY <1>2, <1>3, <1>4, <1>5, <1>6, <1>7

SameTaken == \A r \in Rings : Taken(r)' = Taken(r)

(* Steps of the GPU and of the worker thread leave the transport alone.    *)
LEMMA TransportKept ==
    ASSUME TransportTypeOK, QuietIsNeverStranded, OrderInv, AloneInv,
           UNCHANGED <<q, mpiVars>>, SameTaken,
           \A r \in Rings, s \in Slots :
             ring'[r][s].valid => Home(r, ring'[r][s].req)
    PROVE  TransportTypeOK' /\ QuietIsNeverStranded' /\ OrderInv' /\ AloneInv'
<1> USE DEF mpiVars
<1>1. TransportTypeOK'
    BY DEF TransportTypeOK
<1>2. QuietIsNeverStranded'
    BY ZenonT(40) DEF QuietIsNeverStranded
<1>3. OrderInv'
  <2>1. q' = q /\ requests' = requests /\ waiting_quiet' = waiting_quiet
      OBVIOUS
  <2>2. (\A k \in 1..Len(q) : /\ Home(q[k].wgid, q[k].elem.req)
                              /\ q[k].elem.req.idx < Taken(q[k].wgid))'
      BY <2>1, CarrierTypes DEF OrderInv, SameTaken
  <2>3. (\A k, l \in 1..Len(q) : k < l /\ q[k].wgid = q[l].wgid
                                  => q[k].elem.req.idx < q[l].elem.req.idx)'
      BY <2>1, Zenon DEF OrderInv
  <2>4. (\A k \in 1..Len(requests) :
           /\ Home(requests[k].ctx, requests[k].req)
           /\ requests[k].req.idx < Taken(requests[k].ctx)
           /\ \A l \in 1..Len(q) : q[l].wgid = requests[k].ctx
                => requests[k].req.idx < q[l].elem.req.idx)'
      BY <2>1, CarrierTypes DEF OrderInv, SameTaken
  <2>5. (\A r \in Rings : \A k \in 1..Len(waiting_quiet[r]) :
           /\ Home(r, waiting_quiet[r][k].req)
           /\ waiting_quiet[r][k].req.idx < Taken(r)
           /\ \A l \in 1..Len(q) : q[l].wgid = r
                => waiting_quiet[r][k].req.idx < q[l].elem.req.idx)'
      BY <2>1 DEF OrderInv, SameTaken
  <2> QED
      BY <2>2, <2>3, <2>4, <2>5, Zenon DEF OrderInv
<1>4. AloneInv'
    BY DEF AloneInv
<1> QED
    BY <1>1, <1>2, <1>3, <1>4

(* Whoever waits goes on waiting.                                          *)
AwaitsKept ==
    \A v \in Waves, j \in LaneIds : \A s, x :
        Awaits(v, j, s, x) => Awaits(v, j, s, x)' /\ wave'[v] = wave[v]

(* Unread elements keep their owners when the owners go on waiting.        *)
LEMMA RingOwnersKept ==
    ASSUME RingOwners, AwaitsKept,
           \A r \in Rings : Unread(r)' \subseteq Unread(r),
           \A r \in Rings : \A s \in Unread(r)' : ring'[r][s] = ring[r][s]
    PROVE  RingOwners'
<1> SUFFICES ASSUME NEW r \in Rings, NEW s \in Unread(r)',
                    Blocking(ring'[r][s].type)
             PROVE  \E w \in Waves, i \in LaneIds :
                      /\ Awaits(w, i, ring[r][s].status, ring[r][s].req)'
                      /\ wave'[w].type = ring'[r][s].type
    BY Zenon DEF RingOwners
<1>1. s \in Unread(r) /\ ring'[r][s] = ring[r][s]
    BY SMTT(30)
<1>2. PICK w \in Waves, i \in LaneIds :
        /\ Awaits(w, i, ring[r][s].status, ring[r][s].req)
        /\ wave[w].type = ring[r][s].type
    BY <1>1 DEF RingOwners
<1>3. PICK e : e = ring[r][s]
    OBVIOUS
<1>4. Awaits(w, i, e.status, e.req)' /\ wave'[w] = wave[w]
    BY <1>2, <1>3, SMTT(30) DEF AwaitsKept
<1> QED
    BY <1>1, <1>2, <1>3, <1>4, Zenon

(* So do the commands of the transport's queue.                            *)
LEMMA QueueOwnersKept ==
    ASSUME QueueOwners, AwaitsKept, UNCHANGED q
    PROVE  QueueOwners'
BY DEF QueueOwners, AwaitsKept

(* And the requests posted and the quiets put aside.                       *)
LEMMA MpiOwnersKept ==
    ASSUME RequestOwners, QuietOwners, AwaitsKept, UNCHANGED mpiVars
    PROVE  RequestOwners' /\ QuietOwners'
<1>1. RequestOwners'
    BY DEF RequestOwners, AwaitsKept, mpiVars
<1>2. QuietOwners'
    BY DEF QuietOwners, AwaitsKept, mpiVars
<1> QED
    BY <1>1, <1>2, SMTT(30)

(* A raised byte still means a command that is over if the transport does  *)
(* not change and no lane starts to wait on a raised byte.                 *)
LEMMA AnsweredKept ==
    ASSUME AnsweredInv, RingInv, UNCHANGED <<q, mpiVars>>, SameTaken,
           raised' \subseteq raised, FlagOwners',
           \A v \in Waves, j \in LaneIds :
             lane'[<<v, j>>] \in {"poll", "reset"}
             /\ get_status_flag(v, j)' \in raised'
               => lane[<<v, j>>] \in {"poll", "reset"} /\ wave'[v] = wave[v],
           \A v \in Waves, j \in LaneIds :
             lane'[<<v, j>>] = "reset" => get_status_flag(v, j)' \in raised'
    PROVE  AnsweredInv'
<1>1. ASSUME NEW w \in Waves, NEW i \in LaneIds,
             lane'[<<w, i>>] \in {"poll", "reset"},
             get_status_flag(w, i)' \in raised'
      PROVE  Over(w, i)'
  <2>1. lane[<<w, i>>] \in {"poll", "reset"} /\ wave'[w] = wave[w]
      BY <1>1
  <2>2. /\ Index(w, i)' = Index(w, i) /\ MyRing(w)' = MyRing(w)
        /\ get_status_flag(w, i)' = get_status_flag(w, i)
      BY <2>1, SameWave, Zenon
  <2>3. Over(w, i) /\ MyRing(w) \in Rings
      BY <1>1, <2>1, <2>2, ActiveLane DEF AnsweredInv
  <2>4. Index(w, i)' < Taken(MyRing(w))'
      BY <2>2, <2>3, Zenon DEF Over, SameTaken
  <2> QED
      BY <2>1, <2>2, <2>3, <2>4, ZenonT(40) DEF Over, Behind, mpiVars
<1> QED
    BY <1>1, Zenon DEF AnsweredInv

(* What is known of one lane's element, and when it stays so.              *)
LEMMA PublishedLane ==
    ASSUME PublishedInv, NEW v \in Waves, NEW j \in LaneIds
    PROVE  /\ lane[<<v, j>>] \in {"poll", "reset"} => Blocking(wave[v].type)
           /\ lane[<<v, j>>] \in {"publish", "poll", "reset"} /\ Blocking(wave[v].type)
                => ring[MyRing(v)][MySlot(v, j)].status = get_status_flag(v, j)
           /\ lane[<<v, j>>] = "publish"
                => /\ ring[MyRing(v)][MySlot(v, j)].type = wave[v].type
                   /\ ring[MyRing(v)][MySlot(v, j)].req.h = wave[v].h
BY Zenon DEF PublishedInv

(* The published elements stay what their lanes wrote.                     *)
LEMMA PublishedKept ==
    ASSUME PublishedInv, wave' = wave,
           \A v \in Waves, j \in LaneIds :
             lane'[<<v, j>>] \in {"poll", "reset"} => Blocking(wave[v].type),
           \A v \in Waves, j \in LaneIds :
             lane'[<<v, j>>] \in {"publish", "poll", "reset"} /\ Blocking(wave[v].type)
               => ring'[MyRing(v)][MySlot(v, j)].status = get_status_flag(v, j),
           \A v \in Waves, j \in LaneIds : lane'[<<v, j>>] = "publish"
             => /\ ring'[MyRing(v)][MySlot(v, j)].type = wave[v].type
                /\ ring'[MyRing(v)][MySlot(v, j)].req.h = wave[v].h
    PROVE  PublishedInv'
<1>1. \A v \in Waves, j \in LaneIds :
        /\ MySlot(v, j)' = MySlot(v, j) /\ MyRing(v)' = MyRing(v)
        /\ get_status_flag(v, j)' = get_status_flag(v, j)
    BY SameWave, Zenon
<1>2. /\ \A v \in Waves : wave'[v].pc # "idle" => wave'[v].h \in HandlesOf[v]
      /\ \A v \in Waves : wave'[v].pc = "element" => wave'[v].n <= QueueSize
    BY Zenon DEF PublishedInv
<1>3. \A v \in Waves, j \in LaneIds : lane'[<<v, j>>] \in {"poll", "reset"}
        => Blocking(wave'[v].type)
    BY Zenon
<1>4. \A v \in Waves, j \in LaneIds :
        lane'[<<v, j>>] \in {"publish", "poll", "reset"} /\ Blocking(wave'[v].type)
          => ring'[MyRing(v)'][MySlot(v, j)'].status = get_status_flag(v, j)'
    BY <1>1, Zenon
<1>5. \A v \in Waves, j \in LaneIds : lane'[<<v, j>>] = "publish"
        => /\ ring'[MyRing(v)'][MySlot(v, j)'].type = wave'[v].type
           /\ ring'[MyRing(v)'][MySlot(v, j)'].req.h = wave'[v].h
    BY <1>1, ZenonT(40)
<1> QED
    BY <1>2, <1>3, <1>4, <1>5, Zenon DEF PublishedInv
-----------------------------------------------------------------------------
(*                  Steps of a wavefront outside its element               *)

Busy == {"publish", "poll", "reset"}

(* Lanes that are neither publishing nor polling do not matter.            *)
LEMMA IdleLanesDoNotMatter ==
    ASSUME RingInv, CompletionInv,
           \A v \in Waves, j \in LaneIds :
             lane[<<v, j>>] \in Busy \/ lane'[<<v, j>>] \in Busy
               => lane'[<<v, j>>] = lane[<<v, j>>] /\ wave'[v] = wave[v],
           \A v \in Waves : wave'[v].pc # "idle" => wave'[v].h \in HandlesOf[v],
           \A v \in Waves : wave'[v].pc = "element" => wave'[v].n <= QueueSize,
           UNCHANGED <<ring, host_read_index, raised, cpu, q, mpiVars>>
    PROVE  CompletionInv'
<1>1. SameTaken
    BY DEF SameTaken, Taken
<1>2. TransportTypeOK' /\ QuietIsNeverStranded' /\ OrderInv' /\ AloneInv'
  <2>1. \A r \in Rings, s \in Slots : ring'[r][s].valid => Home(r, ring'[r][s].req)
      BY DEF CompletionInv, OrderInv
  <2> QED
      BY <1>1, <2>1, TransportKept, ZenonT(40) DEF CompletionInv
<1>3. AwaitsKept
  <2> SUFFICES ASSUME NEW v \in Waves, NEW j \in LaneIds, NEW s, NEW x,
                      Awaits(v, j, s, x)
               PROVE  Awaits(v, j, s, x)' /\ wave'[v] = wave[v]
      BY Zenon DEF AwaitsKept
  <2>1. lane'[<<v, j>>] = lane[<<v, j>>] /\ wave'[v] = wave[v]
      BY ZenonT(40) DEF Awaits, Busy
  <2> QED
      BY <2>1, SameWave, Zenon DEF Awaits
<1>4. OwnerInv'
  <2>1. RingOwners'
    <3>1. \A r \in Rings : Unread(r)' = Unread(r)
        BY DEF Unread, ReadSlot
    <3> QED
        BY <1>3, <3>1, RingOwnersKept DEF CompletionInv, OwnerInv
  <2> QED
      BY <1>3, <2>1, QueueOwnersKept, MpiOwnersKept, ZenonT(40) DEF CompletionInv, OwnerInv
<1>5. AnsweredInv'
  <2>1. ASSUME NEW v \in Waves, NEW j \in LaneIds,
               lane[<<v, j>>] \in Busy \/ lane'[<<v, j>>] \in Busy
        PROVE  /\ lane'[<<v, j>>] = lane[<<v, j>>] /\ wave'[v] = wave[v]
               /\ get_status_flag(v, j)' = get_status_flag(v, j)
    <3>1. lane'[<<v, j>>] = lane[<<v, j>>] /\ wave'[v] = wave[v]
        BY <2>1, Zenon
    <3> QED
        BY <3>1, SameWave, Zenon
  <2>2. FlagOwners'
    <3> SUFFICES ASSUME NEW s \in raised
                 PROVE  (\E v \in Waves, j \in LaneIds :
                           /\ lane[<<v, j>>] \in {"poll", "reset"}
                           /\ s = get_status_flag(v, j))'
        BY DEF FlagOwners
    <3>1. PICK v \in Waves, j \in LaneIds :
            lane[<<v, j>>] \in {"poll", "reset"} /\ s = get_status_flag(v, j)
        BY Zenon DEF CompletionInv, AnsweredInv, FlagOwners
    <3>2. lane'[<<v, j>>] = lane[<<v, j>>] /\ get_status_flag(v, j)' = s
        BY <2>1, <3>1, Zenon DEF Busy
    <3> QED
        BY <3>1, <3>2, Zenon
  <2>3. \A v \in Waves, j \in LaneIds : lane'[<<v, j>>] \in {"poll", "reset"}
          => lane[<<v, j>>] \in {"poll", "reset"} /\ wave'[v] = wave[v]
      BY <2>1, Zenon DEF Busy
  <2>4. \A v \in Waves, j \in LaneIds :
          lane'[<<v, j>>] = "reset" => get_status_flag(v, j)' \in raised'
      BY <2>1 DEF CompletionInv, AnsweredInv, Busy
  <2> QED
      BY <1>1, <2>2, <2>3, <2>4, AnsweredKept, ZenonT(40) DEF CompletionInv
<1>6. PublishedInv'
    BY SameWave, ZenonT(40) DEF CompletionInv, PublishedInv, Busy
<1> QED
    BY <1>2, <1>4, <1>5, <1>6, Zenon DEF CompletionInv

(* Steps of one wavefront with no lane between publishing and resetting.   *)
LEMMA OneWaveOutside ==
    ASSUME RingInv, CompletionInv, NEW w \in Waves,
           \A v \in Waves \ {w} : wave'[v] = wave[v],
           \A v \in Waves \ {w}, j \in LaneIds : lane'[<<v, j>>] = lane[<<v, j>>],
           \A j \in LaneIds : lane[<<w, j>>] \notin Busy /\ lane'[<<w, j>>] \notin Busy,
           wave'[w].pc # "idle" => wave'[w].h \in HandlesOf[w],
           wave'[w].pc = "element" => wave'[w].n <= QueueSize,
           UNCHANGED <<ring, host_read_index, raised, cpu, q, mpiVars>>
    PROVE  CompletionInv'
<1>1. \A v \in Waves, j \in LaneIds :
        lane[<<v, j>>] \in Busy \/ lane'[<<v, j>>] \in Busy
          => lane'[<<v, j>>] = lane[<<v, j>>] /\ wave'[v] = wave[v]
    BY Zenon
<1>2. \A v \in Waves : wave'[v].pc # "idle" => wave'[v].h \in HandlesOf[v]
    BY DEF CompletionInv, PublishedInv
<1>3. \A v \in Waves : wave'[v].pc = "element" => wave'[v].n <= QueueSize
    BY DEF CompletionInv, PublishedInv
<1> QED
    BY <1>1, <1>2, <1>3, IdleLanesDoNotMatter

(* The lanes of a wavefront outside an element are idle.                   *)
LEMMA OutsideElement ==
    ASSUME RingInv, NEW w \in Waves, wave[w].pc # "element"
    PROVE  \A j \in LaneIds : lane[<<w, j>>] = "out" /\ lane[<<w, j>>] \notin Busy
BY LaneIsIn, Zenon DEF Busy

(* Entering a call preserves the invariant.                                *)
LEMMA CallKeepsCompletion ==
    ASSUME RingInv, CompletionInv, NEW w \in Waves, NEW h \in HandlesOf[w],
           NEW n \in LaneIds, NEW type \in Types,
           NEW comm \in Comms \cup {NULL}, Call(w, h, n, type, comm)
    PROVE  CompletionInv'
<1> USE SizesAssumption, HandlesAssumption
<1>1. PICK buf \in Buffers \cup {NULL} : wave' = [wave EXCEPT ![w] =
                   [pc |-> "acquire_lock", h |-> h, n |-> n, type |-> type,
                    comm |-> comm, base |-> 0, buf |-> buf]]
    BY Zenon DEF Call, RingInv, RingTypeOK
<1>2. wave \in [Waves -> WaveStates] /\ wave[w].pc = "idle"
    BY Zenon DEF Call, RingInv, RingTypeOK
<1>3. /\ wave'[w].pc = "acquire_lock" /\ wave'[w].h = h
      /\ \A v \in Waves \ {w} : wave'[v] = wave[v]
    BY <1>1, <1>2, Zenon
<1>4. /\ UNCHANGED <<ring, host_read_index, raised, cpu, q, mpiVars>>
      /\ UNCHANGED lane
    BY Zenon DEF Call, ringVars
<1>5. \A j \in LaneIds : lane[<<w, j>>] \notin Busy
    BY <1>2, OutsideElement, ZenonT(40)
<1> QED
    BY <1>3, <1>4, <1>5, OneWaveOutside

(* Taking the lock and waiting for room preserve the invariant.            *)
LEMMA LockKeepsCompletion ==
    ASSUME RingInv, CompletionInv, NEW w \in Waves,
           acquire_lock(w) \/ wait_until_space_available(w) \/ space_available(w)
    PROVE  CompletionInv'
<1>1. /\ wave \in [Waves -> WaveStates]
      /\ wave[w].pc \in {"acquire_lock", "wait_until_space_available"}
    BY ZenonT(40) DEF acquire_lock, wait_until_space_available, space_available, RingInv,
           RingTypeOK
<1>2. wave[w].h \in HandlesOf[w]
    BY <1>1, SMTT(30) DEF CompletionInv, PublishedInv
<1>3. /\ wave'[w].pc \in {"wait_until_space_available", "next_write_slot"}
      /\ wave'[w].h = wave[w].h
      /\ \A v \in Waves \ {w} : wave'[v] = wave[v]
  <2>1. CASE acquire_lock(w)
    <3>1. wave' = [wave EXCEPT ![w] =
                     [wave[w] EXCEPT !.pc = "wait_until_space_available"]]
        BY <2>1, Zenon DEF acquire_lock
    <3> QED
        BY <1>1, <3>1 DEF WaveStates
  <2>2. CASE wait_until_space_available(w)
      BY <2>2, <1>1 DEF wait_until_space_available, gpuVars
  <2>3. CASE space_available(w)
    <3>1. wave' = [wave EXCEPT ![w] = [wave[w] EXCEPT !.pc = "next_write_slot"]]
        BY <2>3 DEF space_available
    <3> QED
        BY <1>1, <3>1 DEF WaveStates
  <2> QED
      BY <2>1, <2>2, <2>3
<1>4. /\ UNCHANGED <<ring, host_read_index, raised, cpu, q, mpiVars>>
      /\ UNCHANGED lane
    BY DEF acquire_lock, wait_until_space_available, space_available, ringVars,
           gpuVars
<1>5. \A j \in LaneIds : lane[<<w, j>>] \notin Busy
    BY <1>1, OutsideElement
<1> QED
    BY <1>2, <1>3, <1>4, <1>5, OneWaveOutside

(* The slots of one call fit into the ring.                                *)
LEMMA TakeKeepsCompletion ==
    ASSUME RingInv, CompletionInv, NEW w \in Waves, next_write_slot(w)
    PROVE  CompletionInv'
<1> DEFINE h == wave[w].h
           n == wave[w].n
<1>1. /\ wave[w].pc = "next_write_slot" /\ h \in Handles
      /\ n \in Nat /\ wave \in [Waves -> WaveStates]
      /\ write_index[h] \in Nat /\ read_index[h] \in Nat
      /\ host_read_index[RingOf[h]] \in Nat
  <2>1. /\ wave[w].pc = "next_write_slot" /\ h \in Handles /\ n \in LaneIds
        /\ wave \in [Waves -> WaveStates]
      BY DEF next_write_slot, RingInv, RingTypeOK
  <2>2. RingOf[h] \in Rings
      BY <2>1, HandlesAssumption
  <2> QED
      BY <2>1, <2>2, SizesAssumption DEF RingInv, RingTypeOK, LaneIds
<1>2. wave' = [wave EXCEPT ![w] = [wave[w] EXCEPT !.pc = "element",
                                                 !.base = write_index[h]]]
    BY <1>1, Zenon DEF next_write_slot
<1>3. /\ wave'[w].pc = "element" /\ wave'[w].h = h /\ wave'[w].n = n
      /\ \A v \in Waves \ {w} : wave'[v] = wave[v]
    BY <1>1, <1>2, SMTT(30) DEF WaveStates
<1>4. n <= QueueSize
  <2>1. /\ write_index[h] + n <= read_index[h] + QueueSize
        /\ read_index[h] <= host_read_index[RingOf[h]]
        /\ NextUnread(RingOf[h]) <= write_index[h]
      BY <1>1, Zenon DEF RingInv, IndexInv
  <2>2. host_read_index[RingOf[h]] <= NextUnread(RingOf[h])
        /\ NextUnread(RingOf[h]) \in Nat
      BY <1>1 DEF NextUnread
  <2> HIDE DEF h, n
  <2> QED
      BY <1>1, <2>1, <2>2, SizesAssumption
<1>5. h \in HandlesOf[w]
    BY <1>1, Zenon DEF CompletionInv, PublishedInv
<1>6. \A j \in LaneIds : lane[<<w, j>>] = "out" /\ lane[<<w, j>>] \notin Busy
    BY <1>1, OutsideElement
<1>7. \A v \in Waves, i \in LaneIds :
        lane'[<<v, i>>] = IF v = w /\ i <= n THEN "fill" ELSE lane[<<v, i>>]
    BY DEF next_write_slot
<1>8. UNCHANGED <<ring, host_read_index, raised, cpu, q, mpiVars>>
    BY DEF next_write_slot
<1>9. \A j \in LaneIds : lane'[<<w, j>>] \notin Busy
    BY <1>6, <1>7 DEF Busy
<1>10. ASSUME NEW v \in Waves \ {w}, NEW j \in LaneIds
       PROVE  lane'[<<v, j>>] = lane[<<v, j>>]
    BY <1>7, Zenon
<1> HIDE DEF h, n
<1> QED
    BY <1>3, <1>4, <1>5, <1>6, <1>8, <1>9, <1>10, OneWaveOutside, Zenon

(* Returning from a call preserves the invariant.                          *)
LEMMA ReturnKeepsCompletion ==
    ASSUME RingInv, CompletionInv, NEW w \in Waves, Return(w)
    PROVE  CompletionInv'
<1>1. wave' = [wave EXCEPT ![w] = IdleWave]
    BY Zenon DEF Return
<1>2. /\ wave'[w].pc = "idle" /\ \A v \in Waves \ {w} : wave'[v] = wave[v]
    BY <1>1, Zenon DEF RingInv, RingTypeOK, IdleWave
<1>3. UNCHANGED <<ring, host_read_index, raised, cpu, q, mpiVars>>
    BY Zenon DEF Return, ringVars
<1>4. \A v \in Waves, j \in LaneIds :
        lane'[<<v, j>>] = IF v = w THEN "out" ELSE lane[<<v, j>>]
    BY DEF Return
<1>5. ASSUME NEW j \in LaneIds PROVE lane[<<w, j>>] \notin Busy
  <2>1. CASE lane[<<w, j>>] = "out"
      BY <2>1 DEF Busy
  <2>2. CASE lane[<<w, j>>] # "out"
    <3>1. j \in Nat /\ wave[w].n \in Nat /\ 1 <= j /\ j <= wave[w].n
        BY <2>2, ActiveLane, Zenon
    <3>2. lane[<<w, j>>] = "done"
        BY <3>1 DEF Return
    <3> QED
        BY <3>2 DEF Busy
  <2> QED
      BY <2>1, <2>2
<1>6. \A j \in LaneIds : lane'[<<w, j>>] \notin Busy
    BY <1>4 DEF Busy
<1>7. ASSUME NEW v \in Waves \ {w}, NEW j \in LaneIds
      PROVE  lane'[<<v, j>>] = lane[<<v, j>>]
    BY <1>4
<1> QED
    BY <1>2, <1>3, <1>5, <1>6, <1>7, OneWaveOutside, Zenon
-----------------------------------------------------------------------------
(*                          Steps of a lane                                *)

(* The places a lane can be in.                                            *)
LEMMA LaneType ==
    ASSUME RingInv
    PROVE  lane \in [Waves \X LaneIds ->
                      {"out", "fill", "publish", "poll", "reset", "done"}]
BY Zenon DEF RingInv, RingTypeOK

(* What FillElement writes, and that it writes one slot only.              *)
LEMMA FillEffect ==
    ASSUME RingInv, NEW w \in Waves, NEW i \in LaneIds, FillElement(w, i)
    PROVE  LET e == ring'[MyRing(w)][MySlot(w, i)] IN
           /\ e.status = (IF Blocking(wave[w].type) THEN get_status_flag(w, i)
                          ELSE ring[MyRing(w)][MySlot(w, i)].status)
           /\ e.type = wave[w].type /\ e.req.h = wave[w].h
           /\ e.valid = ring[MyRing(w)][MySlot(w, i)].valid
           /\ \A r \in Rings, t \in Slots : r # MyRing(w) \/ t # MySlot(w, i)
                => ring'[r][t] = ring[r][t]
<1> DEFINE r == MyRing(w)
           s == MySlot(w, i)
           st == IF Blocking(wave[w].type) THEN get_status_flag(w, i)
                 ELSE ring[r][s].status
           tc == IF wave[w].type \in TeamTypes \ {"BARRIER"}
                 THEN wave[w].comm ELSE ring[r][s].team_comm
           rq == [h |-> wave[w].h, idx |-> Index(w, i), comm |-> wave[w].comm]
           new == [ring[r][s] EXCEPT !.type = wave[w].type, !.status = st,
                                     !.team_comm = tc, !.req = rq]
<1>1. lane[<<w, i>>] # "out"
    BY Zenon DEF FillElement
<1>2. r \in Rings /\ s \in Slots
    BY <1>1, ActiveLane, Zenon
<1>3. ring \in [Rings -> [Slots -> Elements]] /\ ring[r][s] \in Elements
    BY <1>2 DEF RingInv, RingTypeOK
<1>4. ring' = [ring EXCEPT ![r][s] = new]
    BY DEF FillElement
<1>5. /\ new.type = wave[w].type /\ new.status = st /\ new.req = rq
      /\ new.valid = ring[r][s].valid
  <2> HIDE DEF st, tc, rq
  <2> QED
      BY <1>3 DEF Elements
<1>6. new.req.h = wave[w].h
    BY <1>5
<1> HIDE DEF new, r, s
<1>7. /\ ring'[r][s] = new
      /\ \A q1 \in Rings, t \in Slots : q1 # r \/ t # s => ring'[q1][t] = ring[q1][t]
    BY <1>2, <1>3, <1>4
<1> QED
    BY <1>5, <1>6, <1>7, Zenon DEF r, s

(* Nobody else's slot is written, and nothing is published yet.            *)
LEMMA FillKeepsCompletion ==
    ASSUME RingInv, CompletionInv, PrivateRings, OneWavePerHandle,
           NEW w \in Waves, NEW i \in LaneIds, FillElement(w, i)
    PROVE  CompletionInv'
<1> DEFINE r == MyRing(w)
           s == MySlot(w, i)
<1>1. /\ lane[<<w, i>>] = "fill" /\ HasSlot(w, i)
      /\ UNCHANGED <<host_read_index, wave, raised, cpu, q, mpiVars>>
    BY ZenonT(40) DEF FillElement, HasSlot
<1>2. r \in Rings /\ s \in Slots /\ ~ring[r][s].valid
    BY <1>1, ActiveLane, OwnedSlotIsFree, Zenon
<1>3. /\ lane'[<<w, i>>] = "publish"
      /\ \A v \in Waves, j \in LaneIds :
           v # w \/ j # i => lane'[<<v, j>>] = lane[<<v, j>>]
  <2>1. lane' = [lane EXCEPT ![<<w, i>>] = "publish"]
      BY Zenon DEF FillElement
  <2> QED
      BY <2>1, LaneType
<1>4. \A v \in Waves, j \in LaneIds :
        /\ Index(v, j)' = Index(v, j) /\ MySlot(v, j)' = MySlot(v, j)
        /\ MyRing(v)' = MyRing(v)
        /\ get_status_flag(v, j)' = get_status_flag(v, j)
    BY <1>1, SameWave, Zenon
<1>5. /\ ring'[r][s].status = (IF Blocking(wave[w].type) THEN get_status_flag(w, i)
                               ELSE ring[r][s].status)
      /\ ring'[r][s].type = wave[w].type /\ ring'[r][s].req.h = wave[w].h
      /\ ~ring'[r][s].valid
      /\ \A q1 \in Rings, t \in Slots : q1 # r \/ t # s => ring'[q1][t] = ring[q1][t]
    BY <1>2, FillEffect, Zenon
<1>6. \A q1 \in Rings, t \in Slots :
        ring'[q1][t].valid => ring[q1][t].valid /\ ring'[q1][t] = ring[q1][t]
    BY <1>5, Zenon
<1>7. SameTaken
    BY <1>1, SMTT(30) DEF SameTaken, Taken
<1>8. TransportTypeOK' /\ QuietIsNeverStranded' /\ OrderInv' /\ AloneInv'
  <2>1. \A q1 \in Rings, t \in Slots :
          ring'[q1][t].valid => Home(q1, ring'[q1][t].req)
      BY <1>6, Zenon DEF CompletionInv, OrderInv
  <2> QED
      BY <1>1, <1>7, <2>1, TransportKept DEF CompletionInv
<1>9. AwaitsKept
    BY <1>1, <1>3, <1>4, Zenon DEF AwaitsKept, Awaits
<1>10. OwnerInv'
  <2>1. \A q1 \in Rings : \A t \in Unread(q1)' :
          t \in Unread(q1) /\ ring'[q1][t] = ring[q1][t]
      BY <1>1, <1>6, Zenon DEF Unread, ReadSlot
  <2>2. RingOwners'
      BY <1>9, <2>1, RingOwnersKept, Zenon DEF CompletionInv, OwnerInv
  <2> QED
      BY <1>1, <1>9, <2>2, QueueOwnersKept, MpiOwnersKept, Zenon DEF CompletionInv, OwnerInv
<1>11. AnsweredInv'
  <2>1. FlagOwners'
    <3>1. FlagOwners
        BY Zenon DEF CompletionInv, AnsweredInv
    <3> QED
        BY <1>1, <1>3, <1>4, <3>1, Zenon DEF FlagOwners
  <2>2. \A v \in Waves, j \in LaneIds : lane'[<<v, j>>] \in {"poll", "reset"}
          => lane[<<v, j>>] \in {"poll", "reset"} /\ wave'[v] = wave[v]
      BY <1>1, <1>3, Zenon
  <2>3. \A v \in Waves, j \in LaneIds :
          lane'[<<v, j>>] = "reset" => get_status_flag(v, j)' \in raised'
    <3> TAKE v \in Waves, j \in LaneIds
    <3> HAVE lane'[<<v, j>>] = "reset"
    <3>1. lane[<<v, j>>] = "reset"
        BY <1>1, <1>3, Zenon
    <3>2. get_status_flag(v, j) \in raised
        BY <3>1, Zenon DEF CompletionInv, AnsweredInv
    <3> QED
        BY <1>1, <1>4, <3>2, Zenon
  <2> QED
      BY <1>1, <1>7, <2>1, <2>2, <2>3, AnsweredKept, Zenon DEF CompletionInv
<1>12. PublishedInv'
  <2>1. ASSUME NEW v \in Waves, NEW j \in LaneIds, lane[<<v, j>>] # "out",
               ~(v = w /\ j = i)
        PROVE  ring'[MyRing(v)][MySlot(v, j)] = ring[MyRing(v)][MySlot(v, j)]
    <3>1. MyRing(v) \in Rings /\ MySlot(v, j) \in Slots
        BY <2>1, ActiveLane, Zenon
    <3>2. PublishedInv /\ lane[<<w, i>>] # "out"
        BY <1>1, SMTT(30) DEF CompletionInv
    <3>3. ~(MyRing(w) = MyRing(v) /\ MySlot(w, i) = MySlot(v, j))
      <4> SUFFICES ASSUME MyRing(w) = MyRing(v), MySlot(w, i) = MySlot(v, j)
                   PROVE  FALSE
          OBVIOUS
      <4>1. w = v /\ i = j
          BY <2>1, <3>2, SlotDeterminesLane, Zenon
      <4> QED
          BY <2>1, <4>1
    <3> QED
        BY <1>5, <3>1, <3>3, Zenon
  <2>2. \A v \in Waves, j \in LaneIds : lane'[<<v, j>>] \in {"poll", "reset"}
         => Blocking(wave'[v].type)
      BY <1>1, <1>3, Zenon DEF CompletionInv, PublishedInv
  <2>3. ASSUME NEW v \in Waves, NEW j \in LaneIds,
               lane'[<<v, j>>] \in {"publish", "poll", "reset"},
               Blocking(wave'[v].type)
        PROVE  ring'[MyRing(v)][MySlot(v, j)].status = get_status_flag(v, j)
    <3>1. CASE v = w /\ j = i
        BY <1>1, <1>5, <2>3, <3>1, Zenon
    <3>2. CASE ~(v = w /\ j = i)
        BY <1>1, <1>3, <2>1, <2>3, <3>2, Zenon DEF CompletionInv, PublishedInv
    <3> QED
        BY <3>1, <3>2, Zenon
  <2>4. ASSUME NEW v \in Waves, NEW j \in LaneIds, lane'[<<v, j>>] = "publish"
        PROVE  /\ ring'[MyRing(v)][MySlot(v, j)].type = wave[v].type
               /\ ring'[MyRing(v)][MySlot(v, j)].req.h = wave[v].h
    <3>1. CASE v = w /\ j = i
        BY <1>5, <3>1, Zenon
    <3>2. CASE ~(v = w /\ j = i)
      <4>1. lane[<<v, j>>] = "publish" /\ PublishedInv
          BY <1>3, <2>4, <3>2, Zenon DEF CompletionInv
      <4>2. ring'[MyRing(v)][MySlot(v, j)] = ring[MyRing(v)][MySlot(v, j)]
        <5>1. lane[<<v, j>>] # "out"
            BY <4>1
        <5> QED
            BY <2>1, <3>2, <5>1, Zenon
      <4> QED
          BY <4>1, <4>2, PublishedLane, Zenon
    <3> QED
        BY <3>1, <3>2, Zenon
  <2>5. wave' = wave /\ PublishedInv
      BY <1>1, Zenon DEF CompletionInv
  <2> QED
      BY <2>2, <2>3, <2>4, <2>5, PublishedKept, Zenon
<1> QED
    BY <1>8, <1>10, <1>11, <1>12 DEF CompletionInv

(* Publishing sets the valid mark of one element and nothing else.         *)
LEMMA PublishEffect ==
    ASSUME RingInv, NEW w \in Waves, NEW i \in LaneIds, PublishElement(w, i)
    PROVE  LET old == ring[MyRing(w)][MySlot(w, i)]
               new == ring'[MyRing(w)][MySlot(w, i)] IN
           /\ new.status = old.status /\ new.type = old.type /\ new.req = old.req
           /\ new.valid
           /\ \A r \in Rings, t \in Slots : r # MyRing(w) \/ t # MySlot(w, i)
                => ring'[r][t] = ring[r][t]
<1> DEFINE r == MyRing(w)
           s == MySlot(w, i)
           new == [ring[r][s] EXCEPT !.valid = TRUE]
<1>1. lane[<<w, i>>] # "out"
    BY SMTT(30) DEF PublishElement
<1>2. r \in Rings /\ s \in Slots
    BY <1>1, ActiveLane
<1>3. ring \in [Rings -> [Slots -> Elements]] /\ ring[r][s] \in Elements
    BY <1>2 DEF RingInv, RingTypeOK
<1>4. ring' = [ring EXCEPT ![r][s] = new]
    BY DEF PublishElement
<1>5. /\ new.type = ring[r][s].type /\ new.status = ring[r][s].status
      /\ new.req = ring[r][s].req /\ new.valid = TRUE
    BY <1>3 DEF Elements
<1> HIDE DEF new, r, s
<1>6. /\ ring'[r][s] = new
      /\ \A q1 \in Rings, t \in Slots : q1 # r \/ t # s => ring'[q1][t] = ring[q1][t]
    BY <1>2, <1>3, <1>4
<1> QED
    BY <1>5, <1>6, Zenon DEF r, s

(* The lane that publishes a blocking command is the owner of the new      *)
(* element, and its status byte is not raised yet.                         *)
LEMMA PublishKeepsCompletion ==
    ASSUME RingInv, CompletionInv, PrivateRings, OneWavePerHandle,
           NEW w \in Waves, NEW i \in LaneIds, PublishElement(w, i)
    PROVE  CompletionInv'
<1> DEFINE r == MyRing(w)
           s == MySlot(w, i)
           l == IF Blocking(wave[w].type) THEN "poll" ELSE "done"
<1>1. /\ lane[<<w, i>>] = "publish" /\ HasSlot(w, i)
      /\ UNCHANGED <<host_read_index, wave, raised, cpu, q, mpiVars>>
    BY SMTT(30) DEF PublishElement, HasSlot
<1>2. r \in Rings /\ s \in Slots /\ ~ring[r][s].valid /\ wave[w].h \in Handles
    BY <1>1, ActiveLane, OwnedSlotIsFree
<1>3. /\ lane'[<<w, i>>] = l
      /\ \A v \in Waves, j \in LaneIds :
           v # w \/ j # i => lane'[<<v, j>>] = lane[<<v, j>>]
  <2>1. lane' = [lane EXCEPT ![<<w, i>>] = l]
      BY Zenon DEF PublishElement
  <2> HIDE DEF l
  <2> QED
      BY <2>1, LaneType
<1>4. \A v \in Waves, j \in LaneIds :
        /\ Index(v, j)' = Index(v, j) /\ MySlot(v, j)' = MySlot(v, j)
        /\ MyRing(v)' = MyRing(v)
        /\ get_status_flag(v, j)' = get_status_flag(v, j)
    BY <1>1, SameWave, Zenon
<1>5. /\ ring'[r][s].status = ring[r][s].status /\ ring'[r][s].type = ring[r][s].type
      /\ ring'[r][s].req = ring[r][s].req /\ ring'[r][s].valid
      /\ \A q1 \in Rings, t \in Slots : q1 # r \/ t # s => ring'[q1][t] = ring[q1][t]
    BY PublishEffect, Zenon
<1>6. /\ ring[r][s].type = wave[w].type
      /\ ring[r][s].req.h = wave[w].h /\ ring[r][s].req.idx = Index(w, i)
      /\ Blocking(wave[w].type) => ring[r][s].status = get_status_flag(w, i)
    BY <1>1, PublishedIndex, Zenon DEF CompletionInv, PublishedInv
<1>7. SameTaken
    BY <1>1, Zenon DEF SameTaken, Taken
<1>8. TransportTypeOK' /\ QuietIsNeverStranded' /\ OrderInv' /\ AloneInv'
  <2>1. Home(r, ring'[r][s].req)
    <3>1. ring'[r][s].req.h = wave[w].h
        BY <1>5, <1>6, Zenon
    <3> QED
        BY <1>2, <3>1, Zenon DEF Home, MyRing
  <2>2. \A q1 \in Rings, t \in Slots :
          ring'[q1][t].valid => Home(q1, ring'[q1][t].req)
      BY <1>5, <2>1, Zenon DEF CompletionInv, OrderInv
  <2> QED
      BY <1>1, <1>7, <2>2, TransportKept, Zenon DEF CompletionInv
<1>9. AwaitsKept
    BY <1>1, <1>3, <1>4, Zenon DEF AwaitsKept, Awaits
<1>10. OwnerInv'
  <2>1. RingOwners'
    <3> SUFFICES ASSUME NEW q1 \in Rings, NEW t \in Unread(q1)',
                        Blocking(ring'[q1][t].type)
                 PROVE  \E v \in Waves, j \in LaneIds :
                          /\ Awaits(v, j, ring[q1][t].status, ring[q1][t].req)'
                          /\ wave'[v].type = ring'[q1][t].type
        BY Zenon DEF RingOwners
    <3>1. t \in Slots /\ ring'[q1][t].valid
        BY Zenon DEF Unread
    <3>2. CASE q1 = r /\ t = s
      <4>1. Blocking(wave[w].type)
          BY <1>5, <1>6, <3>2, Zenon
      <4>2. Awaits(w, i, ring[q1][t].status, ring[q1][t].req)'
          BY <1>1, <1>3, <1>4, <1>5, <1>6, <3>2, <4>1, Zenon DEF Awaits
      <4>3. wave'[w].type = ring'[q1][t].type
          BY <1>1, <1>5, <1>6, <3>2, Zenon
      <4> QED
          BY <4>2, <4>3, Zenon
    <3>3. CASE q1 # r \/ t # s
      <4>1. ring'[q1][t] = ring[q1][t] /\ t \in Unread(q1)
          BY <1>1, <1>5, <3>1, <3>3, Zenon DEF Unread, ReadSlot
      <4>2. PICK v \in Waves, j \in LaneIds :
              /\ Awaits(v, j, ring[q1][t].status, ring[q1][t].req)
              /\ wave[v].type = ring[q1][t].type
          BY <4>1, Zenon DEF CompletionInv, OwnerInv, RingOwners
      <4>3. lane'[<<v, j>>] = "poll"
          BY <1>1, <1>3, <4>2, Zenon DEF Awaits
      <4>4. Awaits(v, j, ring[q1][t].status, ring[q1][t].req)'
          BY <1>1, <1>4, <4>1, <4>2, <4>3, Zenon DEF Awaits
      <4>5. wave'[v].type = ring'[q1][t].type
          BY <1>1, <4>1, <4>2, ZenonT(40)
      <4> QED
          BY <4>4, <4>5, Zenon
    <3> QED
        BY <3>2, <3>3, Zenon
  <2> QED
      BY <1>1, <1>9, <2>1, QueueOwnersKept, MpiOwnersKept, Zenon DEF CompletionInv, OwnerInv
<1>11. get_status_flag(w, i) \notin raised
  <2> SUFFICES ASSUME get_status_flag(w, i) \in raised PROVE FALSE
      OBVIOUS
  <2>1. PICK v \in Waves, j \in LaneIds :
          /\ lane[<<v, j>>] \in {"poll", "reset"}
          /\ get_status_flag(w, i) = get_status_flag(v, j)
      BY Zenon DEF CompletionInv, AnsweredInv, FlagOwners
  <2>2. PublishedInv /\ lane[<<w, i>>] # "out" /\ lane[<<v, j>>] # "out"
      BY <1>1, <2>1, Zenon DEF CompletionInv
  <2>3. w = v /\ i = j
    <3>1. \A u \in Waves, k \in LaneIds :
            lane[<<u, k>>] # "out" /\ get_status_flag(u, k) = get_status_flag(w, i)
              => u = w /\ k = i
        BY <2>2, FlagIsOwn, Zenon
    <3> QED
        BY <2>1, <2>2, <3>1
  <2> QED
      BY <1>1, <2>1, <2>3
<1>12. AnsweredInv'
  <2>1. FlagOwners'
    <3> SUFFICES ASSUME NEW st \in raised'
                 PROVE  \E v \in Waves, j \in LaneIds :
                          /\ lane'[<<v, j>>] \in {"poll", "reset"}
                          /\ st = get_status_flag(v, j)'
        BY SMTT(30) DEF FlagOwners
    <3>1. PICK v \in Waves, j \in LaneIds :
            lane[<<v, j>>] \in {"poll", "reset"} /\ st = get_status_flag(v, j)
      <4>1. FlagOwners /\ st \in raised
          BY <1>1 DEF CompletionInv, AnsweredInv
      <4> QED
          BY <4>1, Zenon DEF FlagOwners
    <3>2. lane'[<<v, j>>] = lane[<<v, j>>]
        BY <1>1, <1>3, <3>1, Zenon
    <3> QED
        BY <1>4, <3>1, <3>2, Zenon
  <2>2. ASSUME NEW v \in Waves, NEW j \in LaneIds,
               lane'[<<v, j>>] \in {"poll", "reset"},
               get_status_flag(v, j)' \in raised'
        PROVE  lane[<<v, j>>] \in {"poll", "reset"} /\ wave'[v] = wave[v]
    <3>1. ~(v = w /\ j = i)
        BY <1>1, <1>4, <1>11, <2>2, Zenon
    <3> QED
        BY <1>1, <1>3, <2>2, <3>1, Zenon
  <2>3. \A v \in Waves, j \in LaneIds :
          lane'[<<v, j>>] = "reset" => get_status_flag(v, j)' \in raised'
    <3> TAKE v \in Waves, j \in LaneIds
    <3> HAVE lane'[<<v, j>>] = "reset"
    <3>1. lane[<<v, j>>] = "reset"
        BY <1>1, <1>3, Zenon
    <3>2. get_status_flag(v, j) \in raised
        BY <3>1, Zenon DEF CompletionInv, AnsweredInv
    <3> QED
        BY <1>1, <1>4, <3>2, Zenon
  <2> QED
      BY <1>1, <1>7, <2>1, <2>2, <2>3, AnsweredKept, Zenon DEF CompletionInv
<1>13. PublishedInv'
  <2>1. ASSUME NEW v \in Waves, NEW j \in LaneIds, lane[<<v, j>>] # "out"
        PROVE  /\ ring'[MyRing(v)][MySlot(v, j)].status
                    = ring[MyRing(v)][MySlot(v, j)].status
               /\ ring'[MyRing(v)][MySlot(v, j)].type
                    = ring[MyRing(v)][MySlot(v, j)].type
               /\ ring'[MyRing(v)][MySlot(v, j)].req
                    = ring[MyRing(v)][MySlot(v, j)].req
    <3>1. MyRing(v) \in Rings /\ MySlot(v, j) \in Slots
        BY <2>1, ActiveLane, SMTT(30)
    <3> QED
        BY <1>5, <3>1, Zenon
  <2>2. ASSUME NEW v \in Waves, NEW j \in LaneIds,
               lane'[<<v, j>>] \in {"publish", "poll", "reset"}
        PROVE  /\ lane[<<v, j>>] \in {"publish", "poll", "reset"}
               /\ lane'[<<v, j>>] = "publish" => lane[<<v, j>>] = "publish"
      BY <1>1, <1>3, <2>2
  <2>3. \A v \in Waves, j \in LaneIds : lane'[<<v, j>>] \in {"poll", "reset"}
         => Blocking(wave'[v].type)
      BY <1>1, <1>3, Zenon DEF CompletionInv, PublishedInv
  <2>4. \A v \in Waves, j \in LaneIds :
         lane'[<<v, j>>] \in {"publish", "poll", "reset"} /\ Blocking(wave'[v].type)
           => ring'[MyRing(v)][MySlot(v, j)].status = get_status_flag(v, j)
    <3> TAKE v \in Waves, j \in LaneIds
    <3> HAVE lane'[<<v, j>>] \in {"publish", "poll", "reset"} /\ Blocking(wave'[v].type)
    <3>1. lane[<<v, j>>] \in {"publish", "poll", "reset"} /\ Blocking(wave[v].type)
        BY <1>1, <2>2, Zenon
    <3>2. PublishedInv /\ lane[<<v, j>>] # "out"
        BY <3>1 DEF CompletionInv
    <3>3. ring'[MyRing(v)][MySlot(v, j)].status = ring[MyRing(v)][MySlot(v, j)].status
        BY <2>1, <3>2, Zenon
    <3> QED
        BY <3>1, <3>2, <3>3, PublishedLane, Zenon
  <2>5. \A v \in Waves, j \in LaneIds : lane'[<<v, j>>] = "publish"
         => /\ ring'[MyRing(v)][MySlot(v, j)].type = wave[v].type
            /\ ring'[MyRing(v)][MySlot(v, j)].req.h = wave[v].h
    <3> TAKE v \in Waves, j \in LaneIds
    <3> HAVE lane'[<<v, j>>] = "publish"
    <3>1. lane[<<v, j>>] = "publish" /\ PublishedInv
        BY <2>2, Zenon DEF CompletionInv
    <3>2. lane[<<v, j>>] # "out"
        BY <3>1
    <3>3. /\ ring'[MyRing(v)][MySlot(v, j)].type = ring[MyRing(v)][MySlot(v, j)].type
          /\ ring'[MyRing(v)][MySlot(v, j)].req = ring[MyRing(v)][MySlot(v, j)].req
        BY <2>1, <3>2, Zenon
    <3> QED
        BY <3>1, <3>3, PublishedLane, Zenon
  <2>6. wave' = wave /\ PublishedInv
      BY <1>1, Zenon DEF CompletionInv
  <2> QED
      BY <2>3, <2>4, <2>5, <2>6, PublishedKept, Zenon
<1> QED
    BY <1>8, <1>10, <1>12, <1>13 DEF CompletionInv

(* A lane whose command is over owns nothing that is still under way.      *)
LEMMA OverOwnsNothing ==
    ASSUME RingInv, OrderInv, NEW w \in Waves, NEW i \in LaneIds,
           lane[<<w, i>>] # "out", Over(w, i)
    PROVE  /\ \A r \in Rings : \A s \in Unread(r) :
                ~Awaits(w, i, ring[r][s].status, ring[r][s].req)
           /\ \A k \in 1..Len(q) : ~Awaits(w, i, q[k].elem.status, q[k].elem.req)
           /\ \A k \in 1..Len(requests) :
                ~Awaits(w, i, requests[k].status, requests[k].req)
           /\ \A r \in Rings : \A k \in 1..Len(waiting_quiet[r]) :
                ~Awaits(w, i, waiting_quiet[r][k].status, waiting_quiet[r][k].req)
<1>1. ASSUME NEW r \in Rings, NEW s \in Unread(r),
             Awaits(w, i, ring[r][s].status, ring[r][s].req)
      PROVE  FALSE
  <2>1. ring[r][s].req.h = wave[w].h /\ ring[r][s].req.idx = Index(w, i)
      BY <1>1, Zenon DEF Awaits
  <2>2. Home(r, ring[r][s].req) /\ Taken(r) <= ring[r][s].req.idx
      BY UnreadIsLater, Zenon
  <2>3. r = MyRing(w)
      BY <2>1, <2>2, Zenon DEF Home, MyRing
  <2>4. Index(w, i) < Taken(r) /\ Index(w, i) \in Nat
      BY <2>3, ActiveLane, Zenon DEF Over
  <2>5. Taken(r) \in Nat
      BY DEF Taken, RingInv, RingTypeOK
  <2>6. Taken(r) <= Index(w, i)
      BY <2>1, <2>2, Zenon
  <2> QED
      BY <2>4, <2>5, <2>6, NotBelow, Zenon
<1>2. \A k \in 1..Len(q) : ~Awaits(w, i, q[k].elem.status, q[k].elem.req)
    BY Zenon DEF Awaits, Over, Behind
<1>3. \A k \in 1..Len(requests) : ~Awaits(w, i, requests[k].status, requests[k].req)
    BY Zenon DEF Awaits, Over, Behind
<1>4. \A r \in Rings : \A k \in 1..Len(waiting_quiet[r]) :
        ~Awaits(w, i, waiting_quiet[r][k].status, waiting_quiet[r][k].req)
    BY Zenon DEF Awaits, Over, Behind
<1> QED
    BY <1>1, <1>2, <1>3, <1>4, Zenon

(* So it may stop waiting.                                                 *)
LEMMA OverMayLeave ==
    ASSUME RingInv, OrderInv, OwnerInv, NEW w \in Waves, NEW i \in LaneIds,
           lane[<<w, i>>] # "out", Over(w, i),
           \A v \in Waves, j \in LaneIds :
             v # w \/ j # i => lane'[<<v, j>>] = lane[<<v, j>>],
           UNCHANGED <<ringVars, wave, cpu, q, mpiVars>>
    PROVE  OwnerInv'
<1>1. ASSUME NEW v \in Waves, NEW j \in LaneIds, NEW st, NEW x,
             Awaits(v, j, st, x), ~Awaits(w, i, st, x)
      PROVE  Awaits(v, j, st, x)'
  <2>1. v # w \/ j # i
      BY <1>1, Zenon
  <2>2. lane'[<<v, j>>] = lane[<<v, j>>] /\ wave'[v] = wave[v]
      BY <2>1, Zenon
  <2> QED
      BY <1>1, <2>2, SameWave, Zenon DEF Awaits
<1>2. RingOwners'
  <2> SUFFICES ASSUME NEW r \in Rings, NEW s \in Unread(r)',
                      Blocking(ring'[r][s].type)
               PROVE  \E v \in Waves, j \in LaneIds :
                        /\ Awaits(v, j, ring[r][s].status, ring[r][s].req)'
                        /\ wave'[v].type = ring'[r][s].type
      BY Zenon DEF RingOwners
  <2>1. s \in Unread(r) /\ ring'[r][s] = ring[r][s]
      BY Zenon DEF Unread, ReadSlot, ringVars
  <2>2. PICK v \in Waves, j \in LaneIds :
          /\ Awaits(v, j, ring[r][s].status, ring[r][s].req)
          /\ wave[v].type = ring[r][s].type
      BY <2>1, Zenon DEF OwnerInv, RingOwners, ringVars
  <2>3. PICK e : e = ring[r][s]
      BY Zenon
  <2>4. Awaits(v, j, e.status, e.req) /\ ~Awaits(w, i, e.status, e.req)
      BY <2>1, <2>2, <2>3, OverOwnsNothing, Zenon
  <2>5. Awaits(v, j, e.status, e.req)'
      BY <1>1, <2>4, Zenon
  <2> QED
      BY <2>1, <2>2, <2>3, <2>5, Zenon
<1>3. QueueOwners'
  <2> SUFFICES ASSUME NEW k \in 1..Len(q'), Blocking(q'[k].elem.type)
               PROVE  \E v \in Waves, j \in LaneIds :
                        /\ Awaits(v, j, q[k].elem.status, q[k].elem.req)'
                        /\ wave'[v].type = q'[k].elem.type
      BY Zenon DEF QueueOwners
  <2>1. k \in 1..Len(q)
      BY Zenon
  <2>2. PICK v \in Waves, j \in LaneIds :
          /\ Awaits(v, j, q[k].elem.status, q[k].elem.req)
          /\ wave[v].type = q[k].elem.type
      BY <2>1, Zenon DEF OwnerInv, QueueOwners
  <2>3. PICK e : e = q[k].elem
      BY Zenon
  <2>4. Awaits(v, j, e.status, e.req) /\ ~Awaits(w, i, e.status, e.req)
      BY <2>1, <2>2, <2>3, OverOwnsNothing, Zenon
  <2>5. Awaits(v, j, e.status, e.req)'
      BY <1>1, <2>4, Zenon
  <2> QED
      BY <2>2, <2>3, <2>5, Zenon
<1>4. RequestOwners'
  <2> SUFFICES ASSUME NEW k \in 1..Len(requests'), requests'[k].blocking
               PROVE  \E v \in Waves, j \in LaneIds :
                        /\ Awaits(v, j, requests[k].status, requests[k].req)'
                        /\ ~Drains(wave'[v].type)
      BY Zenon DEF RequestOwners
  <2>1. k \in 1..Len(requests) /\ requests[k].blocking
      BY Zenon DEF mpiVars
  <2>2. PICK v \in Waves, j \in LaneIds :
          /\ Awaits(v, j, requests[k].status, requests[k].req)
          /\ ~Drains(wave[v].type)
      BY <2>1, Zenon DEF OwnerInv, RequestOwners
  <2>3. PICK e : e = requests[k]
      BY Zenon
  <2>4. Awaits(v, j, e.status, e.req) /\ ~Awaits(w, i, e.status, e.req)
      BY <2>1, <2>2, <2>3, OverOwnsNothing, Zenon
  <2>5. Awaits(v, j, e.status, e.req)'
      BY <1>1, <2>4, Zenon
  <2> QED
      BY <2>2, <2>3, <2>5, Zenon DEF mpiVars
<1>5. QuietOwners'
  <2> SUFFICES ASSUME NEW r \in Rings, NEW k \in 1..Len(waiting_quiet'[r])
               PROVE  \E v \in Waves, j \in LaneIds :
                        Awaits(v, j, waiting_quiet[r][k].status,
                                     waiting_quiet[r][k].req)'
      BY DEF QuietOwners
  <2>1. k \in 1..Len(waiting_quiet[r])
      BY Zenon DEF mpiVars
  <2>2. PICK v \in Waves, j \in LaneIds :
          Awaits(v, j, waiting_quiet[r][k].status, waiting_quiet[r][k].req)
      BY <2>1, Zenon DEF OwnerInv, QuietOwners
  <2>3. PICK e : e = waiting_quiet[r][k]
      BY Zenon
  <2>4. Awaits(v, j, e.status, e.req) /\ ~Awaits(w, i, e.status, e.req)
      BY <2>1, <2>2, <2>3, OverOwnsNothing, Zenon
  <2>5. Awaits(v, j, e.status, e.req)'
      BY <1>1, <2>4, Zenon
  <2> QED
      BY <2>3, <2>5, ZenonT(40) DEF mpiVars
<1> QED
    BY <1>2, <1>3, <1>4, <1>5, Zenon DEF OwnerInv

(* The slot still names the lane's own status byte, so a lane that stops   *)
(* polling has been answered.                                              *)
LEMMA PollKeepsCompletion ==
    ASSUME RingInv, CompletionInv, NEW w \in Waves, NEW i \in LaneIds,
           PollStatus(w, i)
    PROVE  CompletionInv'
<1>1. /\ lane[<<w, i>>] = "poll"
      /\ ring[MyRing(w)][MySlot(w, i)].status \in raised
      /\ UNCHANGED <<ringVars, wave, raised, cpu, q, mpiVars>>
    BY Zenon DEF PollStatus
<1>2. get_status_flag(w, i) \in raised /\ Over(w, i)
    BY <1>1, Zenon DEF CompletionInv, PublishedInv, AnsweredInv
<1>3. /\ lane'[<<w, i>>] = "reset"
      /\ \A v \in Waves, j \in LaneIds :
           v # w \/ j # i => lane'[<<v, j>>] = lane[<<v, j>>]
  <2>1. lane' = [lane EXCEPT ![<<w, i>>] = "reset"]
      BY Zenon DEF PollStatus
  <2> QED
      BY <2>1, LaneType
<1>4. \A v \in Waves, j \in LaneIds :
        /\ Index(v, j)' = Index(v, j) /\ MySlot(v, j)' = MySlot(v, j)
        /\ MyRing(v)' = MyRing(v)
        /\ get_status_flag(v, j)' = get_status_flag(v, j)
    BY <1>1, SameWave, Zenon
<1>5. SameTaken
    BY <1>1, Zenon DEF SameTaken, Taken, ringVars
<1>6. TransportTypeOK' /\ QuietIsNeverStranded' /\ OrderInv' /\ AloneInv'
  <2>1. \A r \in Rings, s \in Slots : ring'[r][s].valid => Home(r, ring'[r][s].req)
      BY <1>1, Zenon DEF CompletionInv, OrderInv, ringVars
  <2> QED
      BY <1>1, <1>5, <2>1, TransportKept, Zenon DEF CompletionInv
<1>7. OwnerInv'
  <2>1. OrderInv /\ OwnerInv /\ lane[<<w, i>>] # "out"
      BY <1>1, Zenon DEF CompletionInv
  <2> QED
      BY <1>1, <1>2, <1>3, <2>1, OverMayLeave, Zenon
<1>8. \A v \in Waves, j \in LaneIds :
        lane'[<<v, j>>] # lane[<<v, j>>]
          => lane'[<<v, j>>] = "reset" /\ lane[<<v, j>>] = "poll"
  <2> TAKE v \in Waves, j \in LaneIds
  <2>1. CASE v = w /\ j = i
      BY <1>1, <1>3, <2>1, Zenon
  <2>2. CASE v # w \/ j # i
      BY <1>3, <2>2, Zenon
  <2> QED
      BY <2>1, <2>2, Zenon
<1>9. AnsweredInv'
  <2>1. FlagOwners'
    <3> SUFFICES ASSUME NEW st \in raised'
                 PROVE  \E v \in Waves, j \in LaneIds :
                          /\ lane'[<<v, j>>] \in {"poll", "reset"}
                          /\ st = get_status_flag(v, j)'
        BY Zenon DEF FlagOwners
    <3>1. FlagOwners /\ st \in raised
        BY <1>1, Zenon DEF CompletionInv, AnsweredInv
    <3>2. PICK v \in Waves, j \in LaneIds :
            lane[<<v, j>>] \in {"poll", "reset"} /\ st = get_status_flag(v, j)
        BY <3>1, Zenon DEF FlagOwners
    <3> QED
        BY <1>4, <1>8, <3>2
  <2>2. \A v \in Waves, j \in LaneIds :
          lane'[<<v, j>>] = "reset" => get_status_flag(v, j)' \in raised'
      BY <1>1, <1>2, <1>3, <1>4, ZenonT(40) DEF CompletionInv, AnsweredInv
  <2>3. \A v \in Waves, j \in LaneIds : lane'[<<v, j>>] \in {"poll", "reset"}
          => lane[<<v, j>>] \in {"poll", "reset"} /\ wave'[v] = wave[v]
      BY <1>1, <1>8, Zenon
  <2> QED
      BY <1>1, <1>5, <2>1, <2>2, <2>3, AnsweredKept, ZenonT(40) DEF CompletionInv
<1>10. PublishedInv'
  <2>1. ring' = ring /\ wave' = wave
      BY <1>1, Zenon DEF ringVars
  <2>2. PublishedInv
      BY DEF CompletionInv
  <2>3. \A v \in Waves, j \in LaneIds :
          lane'[<<v, j>>] \in {"publish", "poll", "reset"}
            => /\ lane[<<v, j>>] \in {"publish", "poll", "reset"}
               /\ lane[<<v, j>>] = "publish" <=> lane'[<<v, j>>] = "publish"
               /\ lane'[<<v, j>>] \in {"poll", "reset"}
                    => lane[<<v, j>>] \in {"poll", "reset"}
      BY <1>8, Zenon
  <2> QED
      BY <2>1, <2>2, <2>3, PublishedLane, PublishedKept, Zenon
<1> QED
    BY <1>6, <1>7, <1>9, <1>10, Zenon DEF CompletionInv

(* The byte that is cleared is the lane's own.                             *)
LEMMA ResetKeepsCompletion ==
    ASSUME RingInv, CompletionInv, OneWavePerHandle,
           NEW w \in Waves, NEW i \in LaneIds, ResetStatus(w, i)
    PROVE  CompletionInv'
<1>1. /\ lane[<<w, i>>] = "reset"
      /\ raised' = raised \ {ring[MyRing(w)][MySlot(w, i)].status}
      /\ UNCHANGED <<ringVars, wave, cpu, q, mpiVars>>
    BY DEF ResetStatus
<1>2. raised' = raised \ {get_status_flag(w, i)}
    BY <1>1, Zenon DEF CompletionInv, PublishedInv
<1>3. /\ lane'[<<w, i>>] = "done"
      /\ \A v \in Waves, j \in LaneIds :
           v # w \/ j # i => lane'[<<v, j>>] = lane[<<v, j>>]
  <2>1. lane' = [lane EXCEPT ![<<w, i>>] = "done"]
      BY Zenon DEF ResetStatus
  <2> QED
      BY <2>1, LaneType
<1>4. \A v \in Waves, j \in LaneIds :
        /\ Index(v, j)' = Index(v, j) /\ MySlot(v, j)' = MySlot(v, j)
        /\ MyRing(v)' = MyRing(v)
        /\ get_status_flag(v, j)' = get_status_flag(v, j)
    BY <1>1, SameWave, Zenon
<1>5. SameTaken
    BY <1>1, Zenon DEF SameTaken, Taken, ringVars
<1>6. TransportTypeOK' /\ QuietIsNeverStranded' /\ OrderInv' /\ AloneInv'
  <2>1. \A r \in Rings, s \in Slots : ring'[r][s].valid => Home(r, ring'[r][s].req)
      BY <1>1, Zenon DEF CompletionInv, OrderInv, ringVars
  <2> QED
      BY <1>1, <1>5, <2>1, TransportKept, Zenon DEF CompletionInv
<1>7. OwnerInv'
  <2>1. AwaitsKept
    <3> SUFFICES ASSUME NEW v \in Waves, NEW j \in LaneIds, NEW s, NEW x,
                        Awaits(v, j, s, x)
                 PROVE  Awaits(v, j, s, x)' /\ wave'[v] = wave[v]
        BY Zenon DEF AwaitsKept
    <3>1. lane'[<<v, j>>] = lane[<<v, j>>]
        BY <1>1, <1>3, Zenon DEF Awaits
    <3> QED
        BY <1>1, <1>4, <3>1, Zenon DEF Awaits
  <2>2. RingOwners'
    <3>1. \A r \in Rings : Unread(r)' = Unread(r) /\ ring' = ring
        BY <1>1, Zenon DEF Unread, ReadSlot, ringVars
    <3> QED
        BY <2>1, <3>1, RingOwnersKept, Zenon DEF CompletionInv, OwnerInv
  <2> QED
      BY <1>1, <2>1, <2>2, QueueOwnersKept, MpiOwnersKept, Zenon DEF CompletionInv, OwnerInv
<1>8. \A v \in Waves, j \in LaneIds :
        lane'[<<v, j>>] \in {"publish", "poll", "reset"}
          => lane[<<v, j>>] = lane'[<<v, j>>] /\ (v # w \/ j # i)
    BY <1>1, <1>3, Zenon
<1>9. AnsweredInv'
  <2>1. FlagOwners'
    <3> SUFFICES ASSUME NEW st \in raised'
                 PROVE  \E v \in Waves, j \in LaneIds :
                          /\ lane'[<<v, j>>] \in {"poll", "reset"}
                          /\ st = get_status_flag(v, j)'
        BY Zenon DEF FlagOwners
    <3>1. FlagOwners /\ st \in raised /\ st # get_status_flag(w, i)
        BY <1>2, Zenon DEF CompletionInv, AnsweredInv
    <3>2. PICK v \in Waves, j \in LaneIds :
            lane[<<v, j>>] \in {"poll", "reset"} /\ st = get_status_flag(v, j)
        BY <3>1, Zenon DEF FlagOwners
    <3>3. lane'[<<v, j>>] = lane[<<v, j>>]
        BY <1>3, <3>1, <3>2, Zenon
    <3> QED
        BY <1>4, <3>2, <3>3, Zenon
  <2>2. ASSUME NEW v \in Waves, NEW j \in LaneIds, lane'[<<v, j>>] = "reset"
        PROVE  get_status_flag(v, j)' \in raised'
    <3>1. lane[<<v, j>>] = "reset" /\ ~(v = w /\ j = i)
        BY <1>8, <2>2, Zenon
    <3>2. get_status_flag(v, j) \in raised
        BY <3>1, Zenon DEF CompletionInv, AnsweredInv
    <3>3. PublishedInv /\ lane[<<w, i>>] # "out" /\ lane[<<v, j>>] # "out"
        BY <1>1, <3>1, Zenon DEF CompletionInv
    <3>4. get_status_flag(v, j) = get_status_flag(w, i) => v = w /\ j = i
        BY <3>3, FlagIsOwn, Zenon
    <3> QED
        BY <1>2, <1>4, <3>1, <3>2, <3>4, Zenon
  <2>3. \A v \in Waves, j \in LaneIds : lane'[<<v, j>>] \in {"poll", "reset"}
          => lane[<<v, j>>] \in {"poll", "reset"} /\ wave'[v] = wave[v]
      BY <1>1, <1>8, Zenon
  <2>4. raised' \subseteq raised
      BY <1>2, Zenon
  <2> QED
      BY <1>1, <1>5, <2>1, <2>2, <2>3, <2>4, AnsweredKept, Zenon DEF CompletionInv
<1>10. PublishedInv'
  <2>1. ring' = ring /\ wave' = wave
      BY <1>1 DEF ringVars
  <2>2. PublishedInv
      BY DEF CompletionInv
  <2>3. \A v \in Waves, j \in LaneIds :
          lane'[<<v, j>>] \in {"publish", "poll", "reset"}
            => /\ lane[<<v, j>>] \in {"publish", "poll", "reset"}
               /\ lane[<<v, j>>] = "publish" <=> lane'[<<v, j>>] = "publish"
               /\ lane'[<<v, j>>] \in {"poll", "reset"}
                    => lane[<<v, j>>] \in {"poll", "reset"}
      BY <1>8, Zenon
  <2> QED
      BY <2>1, <2>2, <2>3, PublishedLane, PublishedKept, Zenon
<1> QED
    BY <1>6, <1>7, <1>9, <1>10 DEF CompletionInv
-----------------------------------------------------------------------------
(*                       Steps of the worker thread                        *)

(* A step of the host leaves the lanes and what they wait for alone.       *)
LEMMA HostKeepsLanes ==
    ASSUME UNCHANGED <<wave, lane>>
    PROVE  /\ AwaitsKept
           /\ \A v \in Waves, j \in LaneIds :
                /\ Index(v, j)' = Index(v, j) /\ MySlot(v, j)' = MySlot(v, j)
                /\ MyRing(v)' = MyRing(v)
                /\ get_status_flag(v, j)' = get_status_flag(v, j)
<1>1. \A v \in Waves, j \in LaneIds :
        /\ Index(v, j)' = Index(v, j) /\ MySlot(v, j)' = MySlot(v, j)
        /\ MyRing(v)' = MyRing(v)
        /\ get_status_flag(v, j)' = get_status_flag(v, j)
    BY SameWave
<1>2. AwaitsKept
    BY <1>1, Zenon DEF AwaitsKept, Awaits
<1> QED
    BY <1>1, <1>2

(* The owners of the raised bytes stay when lanes and bytes do.            *)
LEMMA FlagOwnersKept ==
    ASSUME FlagOwners, UNCHANGED <<wave, lane, raised>>
    PROVE  FlagOwners'
BY HostKeepsLanes DEF FlagOwners

(* A step that neither takes nor publishes a command.                      *)
LEMMA SilentWorker ==
    ASSUME RingInv, CompletionInv, UNCHANGED <<wave, lane, raised, q, mpiVars>>,
           SameTaken,
           \A r \in Rings, s \in Slots :
             ring'[r][s].valid => ring[r][s].valid /\ ring'[r][s] = ring[r][s],
           \A r \in Rings : Unread(r)' \subseteq Unread(r),
           \A v \in Waves, j \in LaneIds : lane[<<v, j>>] # "out"
             => ring'[MyRing(v)][MySlot(v, j)].status
                  = ring[MyRing(v)][MySlot(v, j)].status,
           \A v \in Waves, j \in LaneIds : lane[<<v, j>>] = "publish"
             => ring'[MyRing(v)][MySlot(v, j)] = ring[MyRing(v)][MySlot(v, j)]
    PROVE  CompletionInv'
<1>1. TransportTypeOK' /\ QuietIsNeverStranded' /\ OrderInv' /\ AloneInv'
  <2>1. \A r \in Rings, s \in Slots : ring'[r][s].valid => Home(r, ring'[r][s].req)
      BY Zenon DEF CompletionInv, OrderInv
  <2> QED
      BY <2>1, TransportKept, Zenon DEF CompletionInv
<1>2. OwnerInv'
  <2>1. AwaitsKept
      BY HostKeepsLanes, Zenon
  <2>2. \A r \in Rings : \A s \in Unread(r)' : ring'[r][s] = ring[r][s]
      BY Zenon DEF Unread
  <2>3. RingOwners'
      BY <2>1, <2>2, RingOwnersKept, Zenon DEF CompletionInv, OwnerInv
  <2> QED
      BY <2>1, <2>3, QueueOwnersKept, MpiOwnersKept, Zenon DEF CompletionInv, OwnerInv
<1>3. AnsweredInv'
  <2>1. FlagOwners'
      BY FlagOwnersKept, Zenon DEF CompletionInv, AnsweredInv
  <2>2. \A v \in Waves, j \in LaneIds :
          lane'[<<v, j>>] = "reset" => get_status_flag(v, j)' \in raised'
      BY HostKeepsLanes, Zenon DEF CompletionInv, AnsweredInv
  <2> QED
      BY <2>1, <2>2, AnsweredKept, Zenon DEF CompletionInv
<1>4. PublishedInv'
  <2>1. PublishedInv
      BY Zenon DEF CompletionInv
  <2>2. \A v \in Waves, j \in LaneIds :
          lane[<<v, j>>] \in {"publish", "poll", "reset"} => lane[<<v, j>>] # "out"
      OBVIOUS
  <2>3. \A v \in Waves, j \in LaneIds :
          lane'[<<v, j>>] \in {"poll", "reset"} => Blocking(wave[v].type)
      BY <2>1, PublishedLane, Zenon
  <2>4. \A v \in Waves, j \in LaneIds :
          lane'[<<v, j>>] \in {"publish", "poll", "reset"} /\ Blocking(wave[v].type)
            => ring'[MyRing(v)][MySlot(v, j)].status = get_status_flag(v, j)
      BY <2>1, <2>2, PublishedLane, ZenonT(40)
  <2>5. \A v \in Waves, j \in LaneIds : lane'[<<v, j>>] = "publish"
          => /\ ring'[MyRing(v)][MySlot(v, j)].type = wave[v].type
             /\ ring'[MyRing(v)][MySlot(v, j)].req.h = wave[v].h
    <3> TAKE v \in Waves, j \in LaneIds
    <3> HAVE lane'[<<v, j>>] = "publish"
    <3>1. lane[<<v, j>>] = "publish"
        BY Zenon
    <3>2. ring'[MyRing(v)][MySlot(v, j)] = ring[MyRing(v)][MySlot(v, j)]
        BY <3>1, Zenon
    <3>3. /\ ring[MyRing(v)][MySlot(v, j)].type = wave[v].type
          /\ ring[MyRing(v)][MySlot(v, j)].req.h = wave[v].h
        BY <2>1, <3>1, PublishedLane, Zenon
    <3> QED
        BY <3>2, <3>3, Zenon
  <2> QED
      BY <2>1, <2>3, <2>4, <2>5, PublishedKept, Zenon
<1> QED
    BY <1>1, <1>2, <1>3, <1>4, Zenon DEF CompletionInv

(* Passing an empty ring preserves the invariant.                          *)
LEMMA EmptyKeepsCompletion ==
    ASSUME RingInv, CompletionInv, process_empty
    PROVE  CompletionInv'
<1>1. /\ cpu.pc = "next_element" /\ cpu'.pc = "next_element"
      /\ UNCHANGED <<ring, host_read_index, wave, lane, raised, q, mpiVars>>
    BY NextRingType DEF process_empty, ringVars, gpuVars
<1>2. SameTaken
    BY <1>1, Zenon DEF SameTaken, Taken
<1>3. \A r \in Rings : Unread(r)' \subseteq Unread(r)
    BY <1>1, Zenon DEF Unread
<1> QED
    BY <1>1, <1>2, <1>3, SilentWorker, ZenonT(40)

(* Advancing the read index preserves the invariant.                       *)
LEMMA IncrementKeepsCompletion ==
    ASSUME RingInv, CompletionInv, increment_read_index
    PROVE  CompletionInv'
<1>1. /\ cpu.pc = "increment_read_index" /\ cpu.i \in Rings
      /\ host_read_index \in [Rings -> Nat]
      /\ host_read_index' = [host_read_index EXCEPT ![cpu.i] = @ + 1]
      /\ UNCHANGED <<ring, wave, lane, raised, q, mpiVars>>
    BY DEF increment_read_index, gpuVars, RingInv, RingTypeOK
<1>2. cpu'.pc = "next_element"
  <2>1. CASE cpu.request_count + 1 < PollMax
      BY <2>1 DEF increment_read_index, RingInv, RingTypeOK
  <2>2. CASE ~(cpu.request_count + 1 < PollMax)
      BY <2>2, NextRingType, Zenon DEF increment_read_index
  <2> QED
      BY <2>1, <2>2
<1>3. SameTaken
    BY <1>1, <1>2, Zenon DEF SameTaken, Taken
<1>4. \A r \in Rings : Unread(r)' \subseteq Unread(r)
    BY <1>1, <1>2, Zenon DEF Unread
<1> QED
    BY <1>1, <1>3, <1>4, SilentWorker, Zenon

(* The slot is cleared that the worker thread took; no lane owns it.       *)
LEMMA ClearKeepsCompletion ==
    ASSUME RingInv, CompletionInv, clear_valid
    PROVE  CompletionInv'
<1> DEFINE r == cpu.i
           s == ReadSlot(cpu.i)
           new == [ring[r][s] EXCEPT !.valid = FALSE, !.req = NoReq]
<1>1. /\ cpu.pc = "clear_valid" /\ cpu'.pc = "increment_read_index"
      /\ cpu'.i = cpu.i
      /\ UNCHANGED <<host_read_index, wave, lane, raised, q, mpiVars>>
    BY Zenon DEF clear_valid, gpuVars, RingInv, RingTypeOK
<1>2. /\ r \in Rings /\ s \in Slots /\ ring[r][s].valid
      /\ ring \in [Rings -> [Slots -> Elements]] /\ ring[r][s] \in Elements
  <2>1. r \in Rings /\ host_read_index[r] \in Nat
        /\ ring \in [Rings -> [Slots -> Elements]]
      BY DEF RingInv, RingTypeOK
  <2> QED
      BY <1>1, <2>1, SlotInRange, TakenIsValid, Zenon DEF ReadSlot
<1>3. new.status = ring[r][s].status /\ ~new.valid
    BY <1>2 DEF Elements
<1>4. ring' = [ring EXCEPT ![r][s] = new]
    BY DEF clear_valid
<1> HIDE DEF new, r, s
<1>5. /\ ring'[r][s] = new
      /\ \A q1 \in Rings, t \in Slots : q1 # r \/ t # s => ring'[q1][t] = ring[q1][t]
    BY <1>2, <1>4, Zenon
<1>6. SameTaken
    BY <1>1, Zenon DEF SameTaken, Taken
<1>7. \A q1 \in Rings, t \in Slots :
        ring'[q1][t].valid => ring[q1][t].valid /\ ring'[q1][t] = ring[q1][t]
    BY <1>3, <1>5, Zenon
<1>8. \A q1 \in Rings : Unread(q1)' \subseteq Unread(q1)
  <2> SUFFICES ASSUME NEW q1 \in Rings, NEW t \in Slots, ring'[q1][t].valid
               PROVE  ring[q1][t].valid /\ ~(cpu.i = q1 /\ t = ReadSlot(q1))
      BY Zenon DEF Unread
  <2> QED
      BY <1>3, <1>5 DEF r, s
<1>9. ASSUME NEW v \in Waves, NEW j \in LaneIds, lane[<<v, j>>] # "out"
      PROVE  ring'[MyRing(v)][MySlot(v, j)].status
               = ring[MyRing(v)][MySlot(v, j)].status
  <2>1. MyRing(v) \in Rings /\ MySlot(v, j) \in Slots
      BY <1>9, ActiveLane, Zenon
  <2> QED
      BY <1>3, <1>5, <2>1, Zenon
<1>10. ASSUME NEW v \in Waves, NEW j \in LaneIds, lane[<<v, j>>] = "publish"
       PROVE  ring'[MyRing(v)][MySlot(v, j)] = ring[MyRing(v)][MySlot(v, j)]
  <2>1. MyRing(v) \in Rings /\ MySlot(v, j) \in Slots
      BY <1>10, ActiveLane, Zenon
  <2>2. ~ring[MyRing(v)][MySlot(v, j)].valid
      BY <1>10, OwnedSlotIsFree DEF HasSlot
  <2> QED
      BY <1>2, <1>5, <2>1, <2>2, Zenon
<1> QED
    BY <1>1, <1>6, <1>7, <1>8, <1>9, <1>10, SilentWorker, Zenon

(* The command that is taken is the one whose turn it is, so it is later   *)
(* than all the transport has; its owner goes on waiting for it.           *)
LEMMA InsertKeepsCompletion ==
    ASSUME RingInv, CompletionInv, PrivateRings, insertRequest
    PROVE  CompletionInv'
<1> DEFINE r == cpu.i
           s == ReadSlot(cpu.i)
           e == ring[cpu.i][ReadSlot(cpu.i)]
           item == [elem |-> e, wgid |-> r]
<1>1. /\ cpu.pc = "next_element" /\ e.valid
      /\ q' = Append(q, item)
      /\ UNCHANGED <<ring, host_read_index, wave, lane, raised, mpiVars>>
      /\ cpu'.pc = "clear_valid" /\ cpu'.i = cpu.i
    BY DEF insertRequest, ringVars, gpuVars, RingInv, RingTypeOK
<1>2. /\ r \in Rings /\ s \in Slots /\ e \in Elements
      /\ host_read_index \in [Rings -> Nat]
  <2>1. r \in Rings /\ host_read_index \in [Rings -> Nat]
        /\ ring \in [Rings -> [Slots -> Elements]]
      BY DEF RingInv, RingTypeOK
  <2>2. s \in Slots
      BY <2>1, SlotInRange, Zenon DEF ReadSlot
  <2> QED
      BY <2>1, <2>2, Zenon
<1>3. Home(r, e.req) /\ e.req.idx = host_read_index[r]
  <2>1. Home(r, e.req)
      BY <1>1, <1>2, Zenon DEF CompletionInv, OrderInv
  <2>2. e.req.h \in Handles /\ RingOf[e.req.h] = r
      BY <2>1, Zenon DEF Home
  <2> DEFINE h == e.req.h
  <2>3. h \in Handles /\ RingOf[h] = r
      BY <2>2, Zenon
  <2> HIDE DEF h
  <2>4. ring[RingOf[h]][ReadSlot(RingOf[h])].valid
      BY <1>1, <2>3, Zenon
  <2>5. ring[RingOf[h]][ReadSlot(RingOf[h])].req.idx = host_read_index[RingOf[h]]
      BY <2>3, <2>4, NextElement, Zenon
  <2> QED
      BY <2>1, <2>3, <2>5, Zenon
<1>4. /\ Taken(r) = e.req.idx /\ Taken(r)' = Taken(r) + 1 /\ Taken(r) \in Nat
      /\ \A q1 \in Rings : Taken(q1) \in Nat /\ Taken(q1) <= Taken(q1)'
                           /\ Taken(q1)' \in Nat
  <2>1. Taken(r) = host_read_index[r] /\ Taken(r)' = host_read_index[r] + 1
      BY <1>1, Zenon DEF Taken
  <2>2. \A q1 \in Rings :
          /\ Taken(q1) = host_read_index[q1]
          /\ \/ Taken(q1)' = host_read_index[q1]
             \/ Taken(q1)' = host_read_index[q1] + 1
      BY <1>1, Zenon DEF Taken
  <2>3. \A q1 \in Rings : host_read_index[q1] \in Nat
      BY <1>2, Zenon
  <2>4. ASSUME NEW q1 \in Rings
        PROVE  Taken(q1) \in Nat /\ Taken(q1) <= Taken(q1)' /\ Taken(q1)' \in Nat
    <3>1. Taken(q1)' = Taken(q1) \/ Taken(q1)' = Taken(q1) + 1
        BY <2>2, Zenon
    <3>2. Taken(q1) \in Nat
        BY <2>2, <2>3, Zenon
    <3> QED
        BY <3>1, <3>2
  <2>5. Taken(r) = e.req.idx /\ Taken(r)' = Taken(r) + 1 /\ Taken(r) \in Nat
      BY <1>2, <1>3, <2>1, <2>4, Zenon
  <2> QED
      BY <2>4, <2>5, Zenon
<1>5. TransportTypeOK
    BY DEF CompletionInv
<1> HIDE DEF r, s, e
<1>6. /\ q \in Seq(Entries) /\ item \in Entries /\ Len(q) \in Nat
      /\ item.elem = e /\ item.wgid = r
    BY <1>2, <1>5 DEF TransportTypeOK, Entries
<1> HIDE DEF item
<1>7. /\ q' \in Seq(Entries) /\ Len(q') = Len(q) + 1 /\ q'[Len(q) + 1] = item
      /\ \A k \in 1..Len(q) : q'[k] = q[k]
    BY <1>1, <1>6
<1>8. \A k \in 1..Len(q') : k \in 1..Len(q) \/ k = Len(q) + 1
    BY <1>6, <1>7
<1>9. TransportTypeOK'
    BY <1>1, <1>5, <1>7 DEF TransportTypeOK, mpiVars
<1>10. QuietIsNeverStranded' /\ AloneInv'
  <2>1. QuietIsNeverStranded'
      BY <1>1, Zenon DEF CompletionInv, QuietIsNeverStranded, mpiVars
  <2>2. AloneInv'
      BY <1>1, Zenon DEF CompletionInv, AloneInv, mpiVars
  <2> QED
      BY <2>1, <2>2, Zenon
<1>11. OrderInv
    BY DEF CompletionInv
<1>12. OrderInv'
  <2>1. \A q1 \in Rings, t \in Slots : ring'[q1][t].valid => Home(q1, ring'[q1][t].req)
      BY <1>1, <1>11, Zenon DEF OrderInv
  <2>2. ASSUME NEW k \in 1..Len(q')
        PROVE  /\ Home(q'[k].wgid, q'[k].elem.req)
               /\ (q[k].elem.req.idx < Taken(q[k].wgid))'
    <3>1. CASE k \in 1..Len(q)
      <4>1. PICK c : c = q[k].wgid
          BY Zenon
      <4>2. /\ c \in Rings /\ q[k].elem.req.idx \in Int
            /\ Home(c, q[k].elem.req) /\ q[k].elem.req.idx < Taken(c)
          BY <1>5, <1>11, <3>1, <4>1, CarrierTypes, Zenon DEF OrderInv
      <4>3. q[k].elem.req.idx < Taken(c)'
          BY <1>4, <4>2
      <4> QED
          BY <1>7, <3>1, <4>1, <4>2, <4>3
    <3>2. CASE k = Len(q) + 1
      <4>1. PICK c : c = r
          OBVIOUS
      <4>2. q'[k].wgid = c /\ q'[k].elem.req = e.req
          BY <1>6, <1>7, <3>2, <4>1, Zenon
      <4>3. Home(c, e.req) /\ e.req.idx < Taken(c)'
          BY <1>1, <1>3, <1>4, <4>1 DEF r
      <4> QED
          BY <4>2, <4>3
    <3> QED
        BY <1>8, <3>1, <3>2, Zenon
  <2>3. ASSUME NEW k \in 1..Len(q'), NEW l \in 1..Len(q'), k < l,
               q'[k].wgid = q'[l].wgid
        PROVE  q'[k].elem.req.idx < q'[l].elem.req.idx
    <3>1. k \in 1..Len(q) /\ q'[k] = q[k]
        BY <1>6, <1>7, <1>8, <2>3
    <3>2. CASE l \in 1..Len(q)
        BY <1>7, <1>11, <2>3, <3>1, <3>2, Zenon DEF OrderInv
    <3>3. CASE l = Len(q) + 1
      <4>1. q[k].wgid = r /\ q'[l].elem.req.idx = Taken(r)
          BY <1>4, <1>6, <1>7, <2>3, <3>1, <3>3, Zenon
      <4>2. q[k].elem.req.idx < Taken(r)
          BY <1>11, <3>1, <4>1, Zenon DEF OrderInv
      <4> QED
          BY <3>1, <4>1, <4>2, Zenon
    <3> QED
        BY <1>8, <3>2, <3>3, Zenon
  <2>4. ASSUME NEW k \in 1..Len(requests)
        PROVE  /\ Home(requests[k].ctx, requests[k].req)
               /\ (requests[k].req.idx < Taken(requests[k].ctx))'
               /\ \A l \in 1..Len(q') : q'[l].wgid = requests[k].ctx
                    => requests[k].req.idx < q'[l].elem.req.idx
    <3>1. /\ requests[k].ctx \in Rings /\ requests[k].req.idx \in Int
          /\ Home(requests[k].ctx, requests[k].req)
          /\ requests[k].req.idx < Taken(requests[k].ctx)
          /\ \A l \in 1..Len(q) : q[l].wgid = requests[k].ctx
               => requests[k].req.idx < q[l].elem.req.idx
        BY <1>5, <1>11, CarrierTypes, Zenon DEF OrderInv
    <3>2. (requests[k].req.idx < Taken(requests[k].ctx))'
      <4>1. PICK c : c = requests[k].ctx
          BY Zenon
      <4>2. requests[k].req.idx < Taken(c)'
          BY <1>4, <3>1, <4>1
      <4> QED
          BY <1>1, <4>1, <4>2, Zenon DEF mpiVars
    <3>3. ASSUME NEW l \in 1..Len(q'), q'[l].wgid = requests[k].ctx
          PROVE  requests[k].req.idx < q'[l].elem.req.idx
      <4>1. CASE l \in 1..Len(q)
          BY <1>7, <3>1, <3>3, <4>1, Zenon
      <4>2. CASE l = Len(q) + 1
          BY <1>4, <1>6, <1>7, <3>1, <3>3, <4>2, Zenon
      <4> QED
          BY <1>8, <4>1, <4>2, Zenon
    <3> QED
        BY <3>1, <3>2, <3>3, Zenon
  <2>5. ASSUME NEW q1 \in Rings, NEW k \in 1..Len(waiting_quiet[q1])
        PROVE  /\ Home(q1, waiting_quiet[q1][k].req)
               /\ waiting_quiet[q1][k].req.idx < Taken(q1)'
               /\ \A l \in 1..Len(q') : q'[l].wgid = q1
                    => waiting_quiet[q1][k].req.idx < q'[l].elem.req.idx
    <3>1. /\ waiting_quiet[q1][k].req.idx \in Int
          /\ Home(q1, waiting_quiet[q1][k].req)
          /\ waiting_quiet[q1][k].req.idx < Taken(q1)
          /\ \A l \in 1..Len(q) : q[l].wgid = q1
               => waiting_quiet[q1][k].req.idx < q[l].elem.req.idx
        BY <1>5, <1>11, CarrierTypes, Zenon DEF OrderInv
    <3>2. waiting_quiet[q1][k].req.idx < Taken(q1)'
        BY <1>4, <3>1
    <3>3. ASSUME NEW l \in 1..Len(q'), q'[l].wgid = q1
          PROVE  waiting_quiet[q1][k].req.idx < q'[l].elem.req.idx
      <4>1. CASE l \in 1..Len(q)
          BY <1>7, <3>1, <3>3, <4>1, Zenon
      <4>2. CASE l = Len(q) + 1
          BY <1>4, <1>6, <1>7, <3>1, <3>3, <4>2, Zenon
      <4> QED
          BY <1>8, <4>1, <4>2, Zenon
    <3> QED
        BY <3>1, <3>2, <3>3, Zenon
  <2>6. requests' = requests /\ waiting_quiet' = waiting_quiet
      BY <1>1, ZenonT(40) DEF mpiVars
  <2> QED
      BY <2>1, <2>2, <2>3, <2>4, <2>5, <2>6, Zenon DEF OrderInv, Home
<1>13. AwaitsKept
    BY <1>1, HostKeepsLanes
<1>14. OwnerInv
    BY DEF CompletionInv
<1>15. OwnerInv'
  <2>1. \A q1 \in Rings : Unread(q1)' \subseteq Unread(q1)
      BY <1>1, Zenon DEF Unread
  <2>2. RingOwners'
      BY <1>1, <1>13, <1>14, <2>1, RingOwnersKept, Zenon DEF OwnerInv
  <2>3. QueueOwners'
    <3> SUFFICES ASSUME NEW k \in 1..Len(q'), Blocking(q'[k].elem.type)
                 PROVE  \E v \in Waves, j \in LaneIds :
                          /\ Awaits(v, j, q[k].elem.status, q[k].elem.req)'
                          /\ wave'[v].type = q'[k].elem.type
        BY DEF QueueOwners
    <3>1. PICK x : x = q'[k].elem
        BY Zenon
    <3>2. \E v \in Waves, j \in LaneIds :
            Awaits(v, j, x.status, x.req) /\ wave[v].type = x.type
      <4>1. CASE k \in 1..Len(q)
          BY <1>7, <1>14, <3>1, <4>1, Zenon DEF OwnerInv, QueueOwners
      <4>2. CASE k = Len(q) + 1
        <5>1. s \in Unread(r) /\ x = ring[r][s]
            BY <1>1, <1>2, <1>6, <1>7, <3>1, <4>2, Zenon DEF Unread, r, s, e
        <5>2. Blocking(ring[r][s].type)
            BY <3>1, <5>1, Zenon
        <5> QED
            BY <1>2, <1>14, <5>1, <5>2, Zenon DEF OwnerInv, RingOwners
      <4> QED
          BY <1>8, <4>1, <4>2, Zenon
    <3>3. PICK v \in Waves, j \in LaneIds :
            Awaits(v, j, x.status, x.req) /\ wave[v].type = x.type
        BY <3>2, Zenon
    <3>4. Awaits(v, j, x.status, x.req)' /\ wave'[v] = wave[v]
        BY <1>13, <3>3, Zenon DEF AwaitsKept
    <3> QED
        BY <3>1, <3>3, <3>4, ZenonT(40)
  <2> QED
      BY <1>1, <1>13, <1>14, <2>2, <2>3, MpiOwnersKept DEF OwnerInv
<1>16. AnsweredInv'
  <2>1. AnsweredInv
      BY Zenon DEF CompletionInv
  <2>2. FlagOwners'
      BY <1>1, <2>1, FlagOwnersKept, Zenon DEF AnsweredInv
  <2>3. ASSUME NEW v \in Waves, NEW j \in LaneIds,
               lane[<<v, j>>] \in {"poll", "reset"},
               get_status_flag(v, j) \in raised
        PROVE  Over(v, j)'
    <3>1. /\ Over(v, j) /\ MyRing(v) \in Rings /\ Index(v, j) \in Nat
          /\ wave[v].h \in Handles
        BY <2>1, <2>3, ActiveLane, Zenon DEF AnsweredInv
    <3>2. Index(v, j) < Taken(MyRing(v))'
      <4>1. PICK c : c = MyRing(v)
          BY ZenonT(40)
      <4>2. Index(v, j) < Taken(c)'
        <5>1. Index(v, j) < Taken(c) /\ c \in Rings
            BY <3>1, <4>1, Zenon DEF Over
        <5>2. Taken(c) \in Nat /\ Taken(c)' \in Nat /\ Taken(c) <= Taken(c)'
            BY <1>4, <5>1, Zenon
        <5> QED
            BY <3>1, <5>1, <5>2
      <4>3. MyRing(v)' = c
          BY <1>1, <4>1, HostKeepsLanes, Zenon
      <4> QED
          BY <4>2, <4>3
    <3>3. ASSUME NEW k \in 1..Len(q') PROVE Behind(v, j, q'[k].elem.req)
      <4>1. CASE k \in 1..Len(q)
          BY <1>7, <3>1, <4>1, ZenonT(40) DEF Over
      <4>2. CASE k = Len(q) + 1
        <5>1. q'[k].elem.req = e.req
            BY <1>6, <1>7, <4>2, Zenon
        <5>2. e.req.h = wave[v].h => r = MyRing(v)
            BY <1>3, Zenon DEF Home, MyRing
        <5>3. e.req.h = wave[v].h => Index(v, j) < e.req.idx
            BY <1>4, <3>1, <5>2, Zenon DEF Over
        <5>4. Index(v, j) \in Nat /\ e.req.idx \in Nat
            BY <1>4, <3>1, Zenon
        <5>5. e.req.h = wave[v].h
                => e.req.idx # Index(v, j) /\ e.req.idx > Index(v, j)
            BY <5>3, <5>4, LaterDiffers, Zenon
        <5> QED
            BY <5>1, <5>5, Zenon DEF Behind
      <4> QED
          BY <1>8, <4>1, <4>2, Zenon
    <3>4. Index(v, j)' = Index(v, j) /\ MyRing(v)' = MyRing(v)
        BY <1>1, HostKeepsLanes, Zenon
    <3> QED
        BY <1>1, <3>1, <3>2, <3>3, <3>4, Zenon DEF Over, Behind, mpiVars
  <2> QED
      BY <1>1, <2>1, <2>2, <2>3, HostKeepsLanes, Zenon DEF AnsweredInv
<1>17. PublishedInv'
    BY <1>1, HostKeepsLanes, ZenonT(40) DEF CompletionInv, PublishedInv
<1> QED
    BY <1>9, <1>10, <1>12, <1>15, <1>16, <1>17, Zenon DEF CompletionInv

-----------------------------------------------------------------------------
(*               What settling requests preserves                          *)

(* What a step of MPI or of the progress loop does: requests disappear,    *)
(* those of F among them, the quiets of the contexts in D with them, and   *)
(* nobody else is answered.                                                *)
Settles(pos, F, D) ==
    /\ pos \in [1..Len(requests') -> (1..Len(requests)) \ F]
    /\ \A i, j \in 1..Len(requests') : pos[i] = pos[j] => i = j
    /\ \A j \in 1..Len(requests') :
         /\ requests'[j].ctx = requests[pos[j]].ctx
         /\ requests'[j].req = requests[pos[j]].req
         /\ requests'[j].status = requests[pos[j]].status
         /\ requests'[j].blocking => requests[pos[j]].blocking
         /\ requests'[j].ctx \notin D
    /\ \A c \in D : waiting_quiet'[c] = << >>
    /\ \A c \in Rings \ D : waiting_quiet'[c] = waiting_quiet[c]
    /\ raised \subseteq raised'
    /\ \A st \in raised' :
         \/ st \in raised
         \/ \E k \in F : requests[k].blocking /\ st = requests[k].status
         \/ \E c \in D : \E k \in 1..Len(waiting_quiet[c]) :
              st = waiting_quiet[c][k].status
    /\ UNCHANGED <<ring, host_read_index, wave, lane, cpu, q>>

(* What is left after settling was there before.                           *)
LEMMA SettleKeepsOld ==
    ASSUME NEW F, NEW D \in SUBSET Rings, NEW pos, Settles(pos, F, D)
    PROVE  /\ \A j \in 1..Len(requests') : pos[j] \in (1..Len(requests)) \ F
           /\ \A r \in Rings : \A k \in 1..Len(waiting_quiet'[r]) :
                /\ r \notin D /\ k \in 1..Len(waiting_quiet[r])
                /\ waiting_quiet'[r][k] = waiting_quiet[r][k]
<1>1. \A j \in 1..Len(requests') : pos[j] \in (1..Len(requests)) \ F
    BY DEF Settles
<1>2. ASSUME NEW r \in Rings, NEW k \in 1..Len(waiting_quiet'[r])
      PROVE  /\ r \notin D /\ k \in 1..Len(waiting_quiet[r])
             /\ waiting_quiet'[r][k] = waiting_quiet[r][k]
  <2>1. r \notin D
    <3> SUFFICES ASSUME r \in D PROVE FALSE
        BY Zenon
    <3>1. waiting_quiet'[r] = << >>
        BY DEF Settles
    <3>2. Len(waiting_quiet'[r]) = 0
        BY <3>1
    <3> QED
        BY <3>2
  <2>2. waiting_quiet'[r] = waiting_quiet[r]
      BY <2>1 DEF Settles
  <2> QED
      BY <2>1, <2>2
<1> QED
    BY <1>1, <1>2, Zenon

(* Settling keeps the order of what is left.                               *)
LEMMA SettleKeepsOrder ==
    ASSUME TransportTypeOK, OrderInv, AloneInv, NEW F, NEW D \in SUBSET Rings,
           NEW pos, Settles(pos, F, D)
    PROVE  OrderInv' /\ AloneInv'
<1>1. UNCHANGED <<ring, host_read_index, cpu, q>>
    BY DEF Settles
<1>2. \A r \in Rings : Taken(r)' = Taken(r)
    BY <1>1, Zenon DEF Taken
<1>3. \A j \in 1..Len(requests') :
        /\ pos[j] \in 1..Len(requests)
        /\ requests'[j].ctx = requests[pos[j]].ctx
        /\ requests'[j].req = requests[pos[j]].req
        /\ requests'[j].blocking => requests[pos[j]].blocking
    BY DEF Settles
<1>4. \A r \in Rings : \A k \in 1..Len(waiting_quiet'[r]) :
        k \in 1..Len(waiting_quiet[r]) /\ waiting_quiet'[r][k] = waiting_quiet[r][k]
    BY SettleKeepsOld, Zenon
<1>5. OrderInv'
  <2>1. \A r \in Rings, s \in Slots : ring'[r][s].valid => Home(r, ring'[r][s].req)
      BY <1>1, Zenon DEF OrderInv
  <2>2. ASSUME NEW k \in 1..Len(q')
        PROVE  Home(q'[k].wgid, q'[k].elem.req)
               /\ (q[k].elem.req.idx < Taken(q[k].wgid))'
    <3>1. PICK r : r = q[k].wgid
        BY Zenon
    <3>2. r \in Rings /\ Home(r, q[k].elem.req) /\ q[k].elem.req.idx < Taken(r)
        BY <1>1, <3>1, CarrierTypes, Zenon DEF OrderInv
    <3> QED
        BY <1>1, <1>2, <3>1, <3>2, Zenon
  <2>3. \A k, l \in 1..Len(q') :
          k < l /\ q'[k].wgid = q'[l].wgid => q'[k].elem.req.idx < q'[l].elem.req.idx
      BY <1>1, Zenon DEF OrderInv
  <2>4. ASSUME NEW j \in 1..Len(requests')
        PROVE  /\ Home(requests'[j].ctx, requests'[j].req)
               /\ (requests[j].req.idx < Taken(requests[j].ctx))'
               /\ \A l \in 1..Len(q') : q'[l].wgid = requests'[j].ctx
                    => requests'[j].req.idx < q'[l].elem.req.idx
    <3>1. PICK k \in 1..Len(requests) : /\ requests'[j].ctx = requests[k].ctx
                                        /\ requests'[j].req = requests[k].req
        BY <1>3
    <3>2. PICK r : r = requests[k].ctx
        BY Zenon
    <3>3. /\ r \in Rings /\ Home(r, requests[k].req) /\ requests[k].req.idx < Taken(r)
        BY <3>2, CarrierTypes, Zenon DEF OrderInv
    <3>4. \A l \in 1..Len(q') : q'[l].wgid = r => requests[k].req.idx < q'[l].elem.req.idx
        BY <1>1, <3>2, Zenon DEF OrderInv
    <3> QED
        BY <1>2, <3>1, <3>2, <3>3, <3>4, ZenonT(40)
  <2>5. ASSUME NEW r \in Rings, NEW k \in 1..Len(waiting_quiet'[r])
        PROVE  /\ Home(r, waiting_quiet'[r][k].req)
               /\ waiting_quiet'[r][k].req.idx < Taken(r)'
               /\ \A l \in 1..Len(q') : q'[l].wgid = r
                    => waiting_quiet'[r][k].req.idx < q'[l].elem.req.idx
    <3>1. k \in 1..Len(waiting_quiet[r]) /\ waiting_quiet'[r][k] = waiting_quiet[r][k]
        BY <1>4, Zenon
    <3>2. /\ Home(r, waiting_quiet[r][k].req)
          /\ waiting_quiet[r][k].req.idx < Taken(r)
          /\ \A l \in 1..Len(q) : q[l].wgid = r
               => waiting_quiet[r][k].req.idx < q[l].elem.req.idx
        BY <3>1, Zenon DEF OrderInv
    <3> QED
        BY <1>1, <1>2, <3>1, <3>2, Zenon
  <2> QED
      BY <2>1, <2>2, <2>3, <2>4, <2>5, Zenon DEF OrderInv, Home
<1>6. AloneInv'
  <2>1. ASSUME NEW j \in 1..Len(requests'), requests'[j].blocking,
               NEW l \in (1..Len(requests')) \ {j},
               requests'[l].ctx = requests'[j].ctx
        PROVE  requests'[l].req.idx # requests'[j].req.idx
    <3>1. pos[l] # pos[j]
        BY <2>1, Zenon DEF Settles
    <3>2. /\ pos[j] \in 1..Len(requests) /\ pos[l] \in (1..Len(requests)) \ {pos[j]}
          /\ requests[pos[j]].blocking
          /\ requests[pos[l]].ctx = requests[pos[j]].ctx
        BY <1>3, <2>1, <3>1, Zenon
    <3>3. requests[pos[l]].req.idx # requests[pos[j]].req.idx
        BY <3>2, ZenonT(40) DEF AloneInv
    <3> QED
        BY <1>3, <2>1, <3>3, Zenon
  <2>2. ASSUME NEW j \in 1..Len(requests'), requests'[j].blocking,
               NEW r \in Rings, r = requests'[j].ctx,
               NEW l \in 1..Len(waiting_quiet'[r])
        PROVE  waiting_quiet'[r][l].req.idx # requests'[j].req.idx
    <3>1. /\ pos[j] \in 1..Len(requests) /\ requests[pos[j]].blocking
          /\ r = requests[pos[j]].ctx /\ requests'[j].req = requests[pos[j]].req
        BY <1>3, <2>2, Zenon
    <3>2. l \in 1..Len(waiting_quiet[r]) /\ waiting_quiet'[r][l] = waiting_quiet[r][l]
        BY <1>4, Zenon
    <3>3. waiting_quiet[r][l].req.idx # requests[pos[j]].req.idx
        BY <3>1, <3>2, Zenon DEF AloneInv
    <3> QED
        BY <3>1, <3>2, <3>3
  <2>3. \A j \in 1..Len(requests') : requests'[j].ctx \in Rings
      BY <1>3, CarrierTypes, SMTT(30)
  <2> QED
      BY <2>1, <2>2, <2>3, Zenon DEF AloneInv
<1> QED
    BY <1>5, <1>6, Zenon

(* Settling keeps the owners of what is left.                              *)
LEMMA SettleKeepsOwners ==
    ASSUME OwnerInv, NEW F, NEW D \in SUBSET Rings, NEW pos, Settles(pos, F, D)
    PROVE  OwnerInv'
<1>1. UNCHANGED <<ring, host_read_index, wave, lane, cpu, q>>
    BY DEF Settles
<1>2. AwaitsKept
    BY <1>1, HostKeepsLanes, Zenon
<1>3. RingOwners'
  <2>1. \A r \in Rings : Unread(r)' = Unread(r)
      BY <1>1 DEF Unread, ReadSlot
  <2> QED
      BY <1>1, <1>2, <2>1, RingOwnersKept, Zenon DEF OwnerInv
<1>4. QueueOwners'
    BY <1>1, <1>2, QueueOwnersKept, Zenon DEF OwnerInv
<1>5. RequestOwners'
  <2> SUFFICES ASSUME NEW j \in 1..Len(requests'), requests'[j].blocking
               PROVE  \E v \in Waves, i \in LaneIds :
                        /\ Awaits(v, i, requests[j].status, requests[j].req)'
                        /\ ~Drains(wave'[v].type)
      BY Zenon DEF RequestOwners
  <2>1. PICK k \in 1..Len(requests) :
          /\ requests'[j].req = requests[k].req
          /\ requests'[j].status = requests[k].status /\ requests[k].blocking
    <3>1. /\ pos[j] \in 1..Len(requests)
          /\ requests'[j].req = requests[pos[j]].req
          /\ requests'[j].status = requests[pos[j]].status
        BY Zenon DEF Settles
    <3>2. requests[pos[j]].blocking
        BY DEF Settles
    <3> QED
        BY <3>1, <3>2, Zenon
  <2>2. PICK x : x = requests[k]
      BY Zenon
  <2>3. PICK v \in Waves, i \in LaneIds :
          Awaits(v, i, x.status, x.req) /\ ~Drains(wave[v].type)
      BY <2>1, <2>2, Zenon DEF OwnerInv, RequestOwners
  <2>4. Awaits(v, i, x.status, x.req)' /\ wave'[v] = wave[v]
      BY <1>2, <2>3, Zenon DEF AwaitsKept
  <2> QED
      BY <2>1, <2>2, <2>3, <2>4, Zenon
<1>6. QuietOwners'
  <2> SUFFICES ASSUME NEW r \in Rings, NEW k \in 1..Len(waiting_quiet'[r])
               PROVE  \E v \in Waves, j \in LaneIds :
                        Awaits(v, j, waiting_quiet[r][k].status,
                                     waiting_quiet[r][k].req)'
      BY DEF QuietOwners
  <2>1. k \in 1..Len(waiting_quiet[r]) /\ waiting_quiet'[r][k] = waiting_quiet[r][k]
      BY SettleKeepsOld, Zenon
  <2>2. PICK x : x = waiting_quiet[r][k]
      BY Zenon
  <2>3. PICK v \in Waves, j \in LaneIds : Awaits(v, j, x.status, x.req)
      BY <2>1, <2>2, Zenon DEF OwnerInv, QuietOwners
  <2>4. Awaits(v, j, x.status, x.req)'
      BY <1>2, <2>3, Zenon DEF AwaitsKept
  <2> QED
      BY <2>1, <2>2, <2>4, ZenonT(40)
<1> QED
    BY <1>3, <1>4, <1>5, <1>6, Zenon DEF OwnerInv

(* A lane whose own ring holds nothing more of its command is answered     *)
(* rightly: other rings carry the commands of other handles.               *)
LEMMA OverInOwnRing ==
    ASSUME RingInv, TransportTypeOK, OrderInv,
           NEW F, NEW D \in SUBSET Rings, NEW pos, Settles(pos, F, D),
           TransportTypeOK', OrderInv',
           NEW w \in Waves, NEW i \in LaneIds, NEW c \in Rings,
           MyRing(w) = c, Index(w, i) \in Int, Index(w, i) < Taken(c),
           \A l \in 1..Len(q) : q[l].wgid = c => Index(w, i) < q[l].elem.req.idx,
           \A j \in 1..Len(requests') : requests'[j].ctx = c
             => Behind(w, i, requests'[j].req),
           \A l \in 1..Len(waiting_quiet'[c]) : Behind(w, i, waiting_quiet'[c][l].req)
    PROVE  Over(w, i)'
<1>1. UNCHANGED <<ring, host_read_index, wave, lane, cpu, q>>
    BY Zenon DEF Settles
<1>2. /\ Index(w, i)' = Index(w, i) /\ MyRing(w)' = c /\ wave'[w] = wave[w]
    BY <1>1, HostKeepsLanes, Zenon
<1>3. Taken(c)' = Taken(c)
    BY <1>1, Zenon DEF Taken
<1>4. ASSUME NEW k \in 1..Len(q') PROVE Behind(w, i, q'[k].elem.req)
  <2>1. k \in 1..Len(q) /\ q'[k] = q[k]
      BY <1>1, Zenon
  <2>2. Home(q[k].wgid, q[k].elem.req) /\ q[k].elem.req.idx \in Int
      BY <2>1, CarrierTypes, Zenon DEF OrderInv
  <2>3. q[k].elem.req.h = wave[w].h => q[k].wgid = c
      BY <2>2, Zenon DEF Home, MyRing
  <2>4. q[k].elem.req.h = wave[w].h => Index(w, i) < q[k].elem.req.idx
      BY <2>1, <2>3, Zenon
  <2> QED
      BY <2>1, <2>2, <2>4, LaterIsBehind, Zenon
<1>5. ASSUME NEW k \in 1..Len(requests') PROVE Behind(w, i, requests'[k].req)
  <2>1. Home(requests'[k].ctx, requests'[k].req)
      BY Zenon DEF OrderInv, Home
  <2>2. requests'[k].req.h = wave[w].h => requests'[k].ctx = c
      BY <2>1, Zenon DEF Home, MyRing
  <2> QED
      BY <2>2, Zenon DEF Behind
<1>6. ASSUME NEW r \in Rings, NEW k \in 1..Len(waiting_quiet'[r])
      PROVE  Behind(w, i, waiting_quiet'[r][k].req)
  <2>1. Home(r, waiting_quiet'[r][k].req)
      BY Zenon DEF OrderInv, Home
  <2>2. waiting_quiet'[r][k].req.h = wave[w].h => r = c
      BY <2>1, Zenon DEF Home, MyRing
  <2> QED
      BY <2>2, Zenon DEF Behind
<1>7. Index(w, i)' < Taken(MyRing(w))'
    BY <1>2, <1>3, Zenon
<1> QED
    BY <1>2, <1>4, <1>5, <1>6, <1>7, Zenon DEF Over, Behind

(* The progress loop answers the caller of the request that finished.      *)
LEMMA OverByRequest ==
    ASSUME RingInv, CompletionInv, OneWavePerHandle,
           NEW F \in SUBSET (1..Len(requests)), NEW D \in SUBSET Rings,
           NEW pos, Settles(pos, F, D), TransportTypeOK', OrderInv',
           NEW k \in F, requests[k].blocking,
           NEW w \in Waves, NEW i \in LaneIds, lane[<<w, i>>] # "out",
           get_status_flag(w, i) = requests[k].status
    PROVE  Over(w, i)'
<1>1. TransportTypeOK /\ OrderInv /\ AloneInv /\ OwnerInv /\ PublishedInv
    BY Zenon DEF CompletionInv
<1>2. PICK x : x = requests[k]
    BY Zenon
<1>3. x.req.h = wave[w].h /\ x.req.idx = Index(w, i) /\ ~Drains(wave[w].type)
  <2>1. PICK v \in Waves, j \in LaneIds :
          Awaits(v, j, x.status, x.req) /\ ~Drains(wave[v].type)
      BY <1>1, <1>2, ZenonT(40) DEF OwnerInv, RequestOwners
  <2>2. lane[<<v, j>>] # "out" /\ get_status_flag(v, j) = get_status_flag(w, i)
      BY <1>2, <2>1 DEF Awaits
  <2>3. v = w /\ j = i
      BY <1>1, <2>2, FlagIsOwn, Zenon
  <2> QED
      BY <2>1, <2>3, Zenon DEF Awaits
<1>4. PICK c \in Rings : c = x.ctx
    BY <1>1, <1>2, CarrierTypes, Zenon
<1>5. /\ Home(c, x.req) /\ x.req.idx \in Int /\ x.req.idx < Taken(c)
      /\ \A l \in 1..Len(q) : q[l].wgid = c => x.req.idx < q[l].elem.req.idx
    BY <1>1, <1>2, <1>4, CarrierTypes, Zenon DEF OrderInv
<1>6. MyRing(w) = c
    BY <1>3, <1>5, Zenon DEF Home, MyRing
<1>7. ASSUME NEW j \in 1..Len(requests'), requests'[j].ctx = c
      PROVE  Behind(w, i, requests'[j].req)
  <2>1. /\ pos[j] \in (1..Len(requests)) \ F
        /\ requests'[j].ctx = requests[pos[j]].ctx
        /\ requests'[j].req = requests[pos[j]].req
      BY Zenon DEF Settles
  <2>2. pos[j] \in (1..Len(requests)) \ {k}
      BY <2>1, Zenon
  <2>3. requests[pos[j]].ctx = requests[k].ctx /\ k \in 1..Len(requests)
      BY <1>2, <1>4, <1>7, <2>1, Zenon
  <2>4. requests[pos[j]].req.idx # requests[k].req.idx
      BY <1>1, <2>2, <2>3, Zenon DEF AloneInv
  <2> QED
      BY <1>2, <1>3, <2>1, <2>4, Zenon DEF Behind
<1>8. ASSUME NEW l \in 1..Len(waiting_quiet'[c])
      PROVE  Behind(w, i, waiting_quiet'[c][l].req)
  <2>1. l \in 1..Len(waiting_quiet[c]) /\ waiting_quiet'[c][l] = waiting_quiet[c][l]
    <3>1. c \notin D
      <4> SUFFICES ASSUME c \in D PROVE FALSE
          BY ZenonT(40)
      <4>1. Len(waiting_quiet'[c]) = 0
          BY DEF Settles
      <4> QED
          BY <4>1
    <3>2. waiting_quiet'[c] = waiting_quiet[c]
        BY <3>1, Zenon DEF Settles
    <3> QED
        BY <3>2, Zenon
  <2>2. waiting_quiet[c][l].req.idx # x.req.idx
      BY <1>1, <1>2, <1>4, <2>1, Zenon DEF AloneInv
  <2> QED
      BY <1>3, <2>1, <2>2, Zenon DEF Behind
<1>9. /\ Index(w, i) \in Int /\ Index(w, i) < Taken(c)
      /\ \A l \in 1..Len(q) : q[l].wgid = c => Index(w, i) < q[l].elem.req.idx
    BY <1>3, <1>5, Zenon
<1> QED
    BY <1>1, <1>6, <1>7, <1>8, <1>9, OverInOwnRing, Zenon

(* It answers the quiets of a context whose last request has finished.     *)
LEMMA OverByDrain ==
    ASSUME RingInv, CompletionInv, OneWavePerHandle,
           NEW F, NEW D \in SUBSET Rings,
           NEW pos, Settles(pos, F, D), TransportTypeOK', OrderInv',
           NEW c \in D, NEW k \in 1..Len(waiting_quiet[c]),
           NEW w \in Waves, NEW i \in LaneIds, lane[<<w, i>>] # "out",
           get_status_flag(w, i) = waiting_quiet[c][k].status
    PROVE  Over(w, i)'
<1>1. TransportTypeOK /\ OrderInv /\ OwnerInv /\ PublishedInv /\ c \in Rings
    BY Zenon DEF CompletionInv
<1>2. PICK x : x = waiting_quiet[c][k]
    BY Zenon
<1>3. x.req.h = wave[w].h /\ x.req.idx = Index(w, i)
  <2>1. PICK v \in Waves, j \in LaneIds : Awaits(v, j, x.status, x.req)
      BY <1>1, <1>2, Zenon DEF OwnerInv, QuietOwners
  <2>2. lane[<<v, j>>] # "out" /\ get_status_flag(v, j) = get_status_flag(w, i)
      BY <1>2, <2>1, Zenon DEF Awaits
  <2>3. v = w /\ j = i
      BY <1>1, <2>2, FlagIsOwn, Zenon
  <2> QED
      BY <2>1, <2>3, Zenon DEF Awaits
<1>4. /\ Home(c, x.req) /\ x.req.idx \in Int /\ x.req.idx < Taken(c)
      /\ \A l \in 1..Len(q) : q[l].wgid = c => x.req.idx < q[l].elem.req.idx
    BY <1>1, <1>2, CarrierTypes, Zenon DEF OrderInv
<1>5. MyRing(w) = c
    BY <1>3, <1>4, Zenon DEF Home, MyRing
<1>6. \A j \in 1..Len(requests') : requests'[j].ctx = c => Behind(w, i, requests'[j].req)
    BY Zenon DEF Settles
<1>7. \A l \in 1..Len(waiting_quiet'[c]) : Behind(w, i, waiting_quiet'[c][l].req)
    BY <1>1, SettleKeepsOld, Zenon
<1>8. /\ Index(w, i) \in Int /\ Index(w, i) < Taken(c)
      /\ \A l \in 1..Len(q) : q[l].wgid = c => Index(w, i) < q[l].elem.req.idx
    BY <1>3, <1>4, Zenon
<1> QED
    BY <1>1, <1>5, <1>6, <1>7, <1>8, OverInOwnRing, Zenon

(* Settling raises a status byte only for a command that is over.          *)
LEMMA SettleKeepsAnswered ==
    ASSUME RingInv, CompletionInv, OneWavePerHandle,
           NEW F \in SUBSET (1..Len(requests)), NEW D \in SUBSET Rings,
           NEW pos, Settles(pos, F, D), TransportTypeOK', OrderInv'
    PROVE  AnsweredInv'
<1>1. TransportTypeOK /\ OwnerInv /\ AnsweredInv
    BY Zenon DEF CompletionInv
<1>2. /\ UNCHANGED <<ring, host_read_index, wave, lane, cpu, q>>
      /\ raised \subseteq raised'
    BY Zenon DEF Settles
<1>3. \A v \in Waves, j \in LaneIds :
        /\ Index(v, j)' = Index(v, j) /\ MyRing(v)' = MyRing(v)
        /\ get_status_flag(v, j)' = get_status_flag(v, j)
    BY <1>2, HostKeepsLanes, Zenon
<1>4. \A st \in raised' :
        \/ st \in raised
        \/ \E k \in F : requests[k].blocking /\ st = requests[k].status
        \/ \E c \in D : \E k \in 1..Len(waiting_quiet[c]) :
             st = waiting_quiet[c][k].status
    BY Zenon DEF Settles
<1>5. FlagOwners'
  <2> SUFFICES ASSUME NEW st, st \in raised'
               PROVE  \E v \in Waves, j \in LaneIds :
                        /\ lane'[<<v, j>>] \in {"poll", "reset"}
                        /\ st = get_status_flag(v, j)'
      BY Zenon DEF FlagOwners
  <2>1. \E v \in Waves, j \in LaneIds :
          lane[<<v, j>>] \in {"poll", "reset"} /\ st = get_status_flag(v, j)
    <3>1. CASE st \in raised
      <4>1. FlagOwners
          BY <1>1, Zenon DEF AnsweredInv
      <4> QED
          BY <3>1, <4>1, Zenon DEF FlagOwners
    <3>2. CASE \E k \in F : requests[k].blocking /\ st = requests[k].status
      <4>1. PICK k \in F : requests[k].blocking /\ st = requests[k].status
          BY <3>2, Zenon
      <4>2. PICK v \in Waves, j \in LaneIds :
              Awaits(v, j, requests[k].status, requests[k].req)
          BY <1>1, <4>1, Zenon DEF OwnerInv, RequestOwners
      <4> QED
          BY <4>1, <4>2, Zenon DEF Awaits
    <3>3. CASE \E c \in D : \E k \in 1..Len(waiting_quiet[c]) :
                 st = waiting_quiet[c][k].status
      <4>1. PICK c \in D : \E k \in 1..Len(waiting_quiet[c]) :
              st = waiting_quiet[c][k].status
          BY <3>3, Zenon
      <4>2. PICK k \in 1..Len(waiting_quiet[c]) : st = waiting_quiet[c][k].status
          BY <4>1, Zenon
      <4>3. PICK v \in Waves, j \in LaneIds :
              Awaits(v, j, waiting_quiet[c][k].status, waiting_quiet[c][k].req)
          BY <1>1, <4>1, Zenon DEF OwnerInv, QuietOwners
      <4> QED
          BY <4>2, <4>3, Zenon DEF Awaits
    <3> QED
        BY <1>4, <3>1, <3>2, <3>3, Zenon
  <2> QED
      BY <1>2, <1>3, <2>1, Zenon
<1>6. ASSUME NEW w \in Waves, NEW i \in LaneIds,
             lane[<<w, i>>] \in {"poll", "reset"}, get_status_flag(w, i) \in raised
      PROVE  Over(w, i)'
  <2>1. Over(w, i)
      BY <1>1, <1>6, Zenon DEF AnsweredInv
  <2>2. Index(w, i)' < Taken(MyRing(w))'
    <3>1. PICK r : r = MyRing(w)
        BY Zenon
    <3>2. Taken(r)' = Taken(r)
        BY <1>2, Zenon DEF Taken
    <3> QED
        BY <1>3, <2>1, <3>1, <3>2, Zenon DEF Over
  <2>3. \A k \in 1..Len(q') : Behind(w, i, q'[k].elem.req)
      BY <1>2, <2>1, Zenon DEF Over
  <2>4. ASSUME NEW j \in 1..Len(requests') PROVE Behind(w, i, requests'[j].req)
    <3>1. pos[j] \in 1..Len(requests) /\ requests'[j].req = requests[pos[j]].req
        BY Zenon DEF Settles
    <3> QED
        BY <2>1, <3>1, Zenon DEF Over
  <2>5. ASSUME NEW r \in Rings, NEW k \in 1..Len(waiting_quiet'[r])
        PROVE  Behind(w, i, waiting_quiet'[r][k].req)
    <3>1. \A c \in Rings : \A m \in 1..Len(waiting_quiet'[c]) :
            m \in 1..Len(waiting_quiet[c]) /\ waiting_quiet'[c][m] = waiting_quiet[c][m]
        BY SettleKeepsOld, Zenon
    <3> QED
        BY <2>1, <3>1 DEF Over
  <2> QED
      BY <1>2, <1>3, <2>2, <2>3, <2>4, <2>5, Zenon DEF Over, Behind
<1>7. ASSUME NEW w \in Waves, NEW i \in LaneIds,
             lane'[<<w, i>>] \in {"poll", "reset"}, get_status_flag(w, i)' \in raised'
      PROVE  Over(w, i)'
  <2>1. PICK st : st = get_status_flag(w, i)
      BY Zenon
  <2>2. lane[<<w, i>>] \in {"poll", "reset"} /\ st \in raised'
      BY <1>2, <1>3, <1>7, <2>1, Zenon
  <2>3. lane[<<w, i>>] # "out"
      BY <2>2, Zenon
  <2>4. CASE st \in raised
      BY <1>6, <2>1, <2>2, <2>4
  <2>5. CASE \E k \in F : requests[k].blocking /\ st = requests[k].status
    <3>1. PICK k \in F : requests[k].blocking /\ st = requests[k].status
        BY <2>5
    <3> QED
        BY <2>1, <2>3, <3>1, OverByRequest, Zenon
  <2>6. CASE \E c \in D : \E k \in 1..Len(waiting_quiet[c]) :
               st = waiting_quiet[c][k].status
    <3>1. PICK c \in D : \E k \in 1..Len(waiting_quiet[c]) :
            st = waiting_quiet[c][k].status
        BY <2>6, Zenon
    <3>2. PICK k \in 1..Len(waiting_quiet[c]) : st = waiting_quiet[c][k].status
        BY <3>1, Zenon
    <3> QED
        BY <2>1, <2>3, <3>2, OverByDrain, Zenon
  <2> QED
      BY <1>4, <2>2, <2>4, <2>5, <2>6, Zenon
<1>8. \A v \in Waves, j \in LaneIds :
        lane'[<<v, j>>] = "reset" => get_status_flag(v, j)' \in raised'
    BY <1>1, <1>2, <1>3, Zenon DEF AnsweredInv
<1> QED
    BY <1>5, <1>7, <1>8, Zenon DEF AnsweredInv

(* Settling preserves the invariant.                                       *)
LEMMA SettleKeepsCompletion ==
    ASSUME RingInv, CompletionInv, OneWavePerHandle,
           NEW F \in SUBSET (1..Len(requests)), NEW D \in SUBSET Rings,
           NEW pos, Settles(pos, F, D), TransportTypeOK', QuietIsNeverStranded'
    PROVE  CompletionInv'
<1>1. TransportTypeOK /\ OrderInv /\ AloneInv /\ OwnerInv /\ PublishedInv
    BY DEF CompletionInv
<1>2. OrderInv' /\ AloneInv'
    BY <1>1, SettleKeepsOrder
<1>3. OwnerInv'
    BY <1>1, SettleKeepsOwners
<1>4. AnsweredInv'
    BY <1>2, SettleKeepsAnswered, Zenon
<1>5. PublishedInv'
  <2>1. UNCHANGED <<ring, wave, lane>>
      BY Zenon DEF Settles
  <2> QED
      BY <1>1, <2>1, HostKeepsLanes, Zenon DEF PublishedInv
<1> QED
    BY <1>2, <1>3, <1>4, <1>5, Zenon DEF CompletionInv
=============================================================================
