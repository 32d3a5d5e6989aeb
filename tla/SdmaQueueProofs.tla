--------------------------- MODULE SdmaQueueProofs ---------------------------
(***************************************************************************)
(* The multi-producer SDMA queue hands the engine complete packets and     *)
(* never overruns it, for any number of threads, ring size and packet      *)
(* sizes; a packet never runs over the end of the ring, and as long as     *)
(* space is reserved and not announced, some thread has the turn.          *)
(* The contexts that share such queues keep their marks right, for any     *)
(* number of threads, PEs, channels and packets: as long as no two threads *)
(* use one context, quiet and fence cover the caller's copies, a blocking  *)
(* copy has been consumed when it returns and no copy is forgotten.        *)
(***************************************************************************)
EXTENDS SdmaQueue, RingTheorems, FiniteSetTheorems

(* The constructor establishes the invariant.                              *)
LEMMA InitQueue == Init => QueueInv
<1> SUFFICES ASSUME Init PROVE QueueInv
    OBVIOUS
<1> USE QueueAssumption
<1>1. IdleThread \in ThreadStates
    BY DEF IdleThread, ThreadStates, ThreadPcs
<1>2. \A t \in Threads : th[t].pc = "idle"
    BY DEF Init, IdleThread
<1>3. TypeOK
    BY <1>1 DEF Init, TypeOK
<1>4. OrderInv
    BY DEF Init, OrderInv
<1>5. RoomInv
    BY <1>2 DEF RoomInv
<1>6. HoldInv
    BY <1>2 DEF HoldInv, Holds, Publishes, Init
<1>7. PlacedInv
    BY <1>2 DEF PlacedInv, Init
<1>8. AnnouncedIsPlaced
    BY DEF AnnouncedIsPlaced, Init
<1> QED
    BY <1>3, <1>4, <1>5, <1>6, <1>7, <1>8 DEF QueueInv

(* A step of a thread that holds no reservation, before or after it,       *)
(* leaves the reservations and the ring alone.                             *)
LEMMA OutsideStep ==
    ASSUME QueueInv, NEW t \in Threads, ~Holds(t), ~Holds(t)',
           \A u \in Threads \ {t} : th'[u] = th[u],
           UNCHANGED <<regs, cachedWptr, committedWptr, queueBuf>>
    PROVE  HoldInv' /\ PlacedInv' /\ AnnouncedIsPlaced'
<1>1. \A u \in Threads : /\ Holds(u)' <=> Holds(u)
                         /\ Publishes(u)' <=> Publishes(u)
                         /\ Holds(u) => u # t /\ th'[u] = th[u]
                         /\ Held(u)' = Held(u) \/ ~Holds(u)
    BY DEF Holds, Publishes, Held
<1>2. HoldInv'
  <2>1. HoldInv
      BY DEF QueueInv
  <2>2. \A u \in Threads : Publishes(u) => Holds(u)
      BY DEF Publishes, Holds
  <2> QED
      BY <1>1, <2>1, <2>2 DEF HoldInv, regs
<1>3. PlacedInv'
  <2>1. PlacedInv
      BY DEF QueueInv
  <2>2. \A u \in Threads :
          /\ th'[u].pc \in {"submit", "doorbell", "commit"} => Holds(u)'
          /\ th'[u].pc = "place" => Holds(u)'
      BY DEF Holds
  <2> QED
      BY <1>1, <2>1, <2>2 DEF PlacedInv, regs
<1>4. AnnouncedIsPlaced'
    BY DEF QueueInv, AnnouncedIsPlaced, regs
<1> QED
    BY <1>2, <1>3, <1>4

(* Local steps of a thread without a reservation: the calls, the load of   *)
(* the write index, the space test and the polling loops.                  *)
LEMMA LocalStep ==
    ASSUME QueueInv, NEW t \in Threads,
           \/ \E size \in Sizes : put(t, size)
           \/ LoadIndex(t) \/ CanWriteCached(t) \/ ReadRptr(t) \/ StoreRptr(t)
           \/ CanWriteRetest(t)
           \/ StoreMax(t) \/ flushTo(t) \/ quietAll(t) \/ PollRptr(t) \/ Return(t)
    PROVE  QueueInv'
<1> USE QueueAssumption
<1>1. TypeOK /\ OrderInv /\ RoomInv /\ th \in [Threads -> ThreadStates]
    BY DEF QueueInv, TypeOK
<1>2. PICK n : th' = [th EXCEPT ![t] = n]
    BY DEF put, LoadIndex, CanWriteCached, ReadRptr, StoreRptr, CanWriteRetest, StoreMax,
           flushTo, quietAll, PollRptr, Return, Goto
<1>3. \A u \in Threads \ {t} : th'[u] = th[u]
    BY <1>1, <1>2
<1>4. UNCHANGED <<regs, cachedWptr, committedWptr, queueBuf>>
    BY DEF put, LoadIndex, CanWriteCached, ReadRptr, StoreRptr, CanWriteRetest, StoreMax,
           flushTo, quietAll, PollRptr, Return
<1> DEFINE Facts ==
      /\ th'[t] \in ThreadStates /\ ~Holds(t) /\ ~Holds(t)'
      /\ cachedHwReadIndex' \in Nat /\ cachedHwReadIndex' <= rptr
      /\ maxWritePtr' \in Nat
      /\ th'[t].pc = "cas" => th'[t].new_index < rptr + QueueSize
                               /\ th'[t].cur_index < th'[t].new_index
      /\ th'[t].pc \in {"can_write", "read_rptr", "store_rptr", "retest"}
           => th'[t].cur_index < th'[t].new_index
      /\ th'[t].pc \in {"load", "can_write", "read_rptr", "store_rptr", "retest", "cas"}
           => th'[t].size > 0
      /\ th'[t].pc = "store_rptr" => th'[t].target <= rptr
<1> DEFINE Same == /\ th'[t] \in ThreadStates
                   /\ th'[t].size = th[t].size
                   /\ th'[t].cur_index = th[t].cur_index
                   /\ th'[t].new_index = th[t].new_index
<1>5. Facts
  <2>0. /\ th[t] \in ThreadStates /\ rptr \in Nat /\ cachedWptr \in Nat
        /\ maxWritePtr \in Nat /\ cachedHwReadIndex \in Nat
        /\ cachedHwReadIndex <= rptr
      BY <1>1 DEF TypeOK, OrderInv
  <2>1. CASE \E size \in Sizes : put(t, size)
    <3>1. PICK size \in Sizes : put(t, size)
        BY <2>1
    <3>2. size \in Nat /\ size > 0
        OBVIOUS
    <3>3. /\ th'[t] = [th[t] EXCEPT !.pc = "load", !.size = size]
          /\ th[t].pc = "idle" /\ UNCHANGED <<cachedHwReadIndex, maxWritePtr>>
        BY <3>1, <1>1 DEF put
    <3> QED
        BY <3>2, <3>3, <2>0 DEF Holds, ThreadStates, ThreadPcs
  <2>2. CASE LoadIndex(t)
    <3> DEFINE off == Pad(cachedWptr, th[t].size)
    <3>1. th[t].pc = "load" /\ th[t].size > 0 /\ th[t].size \in Nat
        BY <2>2, <2>0, <1>1 DEF LoadIndex, RoomInv, ThreadStates
    <3>2. off \in Nat
        BY <2>0, <3>1 DEF Pad, WrapIntoRing
    <3>3. /\ th'[t] = [th[t] EXCEPT !.pc = "can_write", !.cur_index = cachedWptr,
                       !.offset = off, !.new_index = cachedWptr + th[t].size + off]
          /\ UNCHANGED <<cachedHwReadIndex, maxWritePtr>>
        BY <2>2, <1>1 DEF LoadIndex
    <3> HIDE DEF off
    <3>4. PICK new \in Nat : new = cachedWptr + th[t].size + off /\ cachedWptr < new
        BY <3>1, <3>2, <2>0
    <3> QED
        BY <3>1, <3>2, <3>3, <3>4, <2>0 DEF Holds, ThreadStates, ThreadPcs
  <2>3. CASE CanWriteCached(t)
    <3>1. /\ th[t].pc = "can_write" /\ th[t].size > 0
          /\ UNCHANGED <<cachedHwReadIndex, maxWritePtr>>
          /\ th[t].cur_index < th[t].new_index
        BY <2>3, <1>1 DEF CanWriteCached, RoomInv
    <3>2. CASE Fits(th[t].new_index, cachedHwReadIndex)
      <4>1. th'[t] = [th[t] EXCEPT !.pc = "cas"]
          BY <3>2, <2>3, <1>1 DEF CanWriteCached, Goto
      <4>2. th[t].new_index < rptr + QueueSize
          BY <3>2, <2>0 DEF Fits, ThreadStates
      <4>9. Same
          BY <4>1, <4>2, <3>1, <2>0 DEF ThreadStates, ThreadPcs
      <4> QED
          BY <4>9, <4>1, <4>2, <3>1, <2>0 DEF Holds, ThreadStates
    <3>3. CASE ~Fits(th[t].new_index, cachedHwReadIndex)
      <4>1. th'[t] = [th[t] EXCEPT !.pc = "read_rptr"]
          BY <3>3, <2>3, <1>1 DEF CanWriteCached, Goto
      <4>9. Same
          BY <4>1, <3>1, <2>0 DEF ThreadStates, ThreadPcs
      <4> QED
          BY <4>9, <4>1, <3>1, <2>0 DEF Holds, ThreadStates
    <3> QED
        BY <3>2, <3>3
  <2>4. CASE ReadRptr(t)
    <3>1. /\ th[t].pc = "read_rptr" /\ th[t].size > 0
          /\ UNCHANGED <<cachedHwReadIndex, maxWritePtr>>
          /\ th[t].cur_index < th[t].new_index
          /\ th'[t] = [th[t] EXCEPT !.pc = "store_rptr", !.target = rptr]
        BY <2>4, <1>1 DEF ReadRptr, RoomInv
    <3>9. Same
        BY <3>1, <2>0 DEF ThreadStates, ThreadPcs
    <3> QED
        BY <3>9, <3>1, <2>0 DEF Holds, ThreadStates
  <2>5. CASE StoreRptr(t)
    <3>1. /\ th[t].pc = "store_rptr" /\ th[t].size > 0 /\ UNCHANGED maxWritePtr
          /\ th[t].cur_index < th[t].new_index /\ th[t].target <= rptr
          /\ cachedHwReadIndex' = th[t].target
          /\ th'[t] = [th[t] EXCEPT !.target = 0, !.pc = "retest"]
        BY <2>5, <1>1 DEF StoreRptr, RoomInv
    <3>8. th[t] \in ThreadStates /\ 0 \in Nat
        BY <2>0
    <3>9. Same
        BY <3>1, <3>8 DEF ThreadStates, ThreadPcs
    <3> QED
        BY <3>9, <3>1, <2>0 DEF Holds, ThreadStates
  <2>11. CASE CanWriteRetest(t)
    <3>1. /\ th[t].pc = "retest" /\ th[t].size > 0
          /\ UNCHANGED <<cachedHwReadIndex, maxWritePtr>>
          /\ th[t].cur_index < th[t].new_index
        BY <2>11, <1>1 DEF CanWriteRetest, RoomInv
    <3>2. CASE Fits(th[t].new_index, cachedHwReadIndex)
      <4>1. th'[t] = [th[t] EXCEPT !.pc = "cas"]
          BY <3>2, <2>11, <1>1 DEF CanWriteRetest, Goto
      <4>2. th[t].new_index < rptr + QueueSize
          BY <3>2, <2>0 DEF Fits, ThreadStates
      <4>9. Same
          BY <4>1, <2>0 DEF ThreadStates, ThreadPcs
      <4> QED
          BY <4>9, <4>1, <4>2, <3>1, <2>0 DEF Holds, ThreadStates
    <3>3. CASE ~Fits(th[t].new_index, cachedHwReadIndex)
      <4>1. th'[t] = [th[t] EXCEPT !.pc = "load"]
          BY <3>3, <2>11, <1>1 DEF CanWriteRetest, Goto
      <4>9. Same
          BY <4>1, <2>0 DEF ThreadStates, ThreadPcs
      <4> QED
          BY <4>9, <4>1, <3>1, <2>0 DEF Holds, ThreadStates
    <3> QED
        BY <3>2, <3>3
  <2>6. CASE StoreMax(t)
    <3>1. /\ th[t].pc = "max" /\ maxWritePtr' = th[t].new_index
          /\ UNCHANGED cachedHwReadIndex
          /\ th'[t] = [IdleThread EXCEPT !.submitted = th[t].new_index]
        BY <2>6, <1>1 DEF StoreMax
    <3> QED
        BY <3>1, <2>0 DEF Holds, ThreadStates, ThreadPcs, IdleThread
  <2>7. CASE flushTo(t)
    <3>1. /\ th[t].pc = "idle" /\ UNCHANGED <<cachedHwReadIndex, maxWritePtr>>
          /\ th'[t] = [th[t] EXCEPT !.pc = "flush", !.target = th[t].submitted]
        BY <2>7, <1>1 DEF flushTo
    <3>9. Same
        BY <3>1, <2>0 DEF ThreadStates, ThreadPcs
    <3> QED
        BY <3>9, <3>1, <2>0 DEF Holds, ThreadStates
  <2>8. CASE quietAll(t)
    <3>1. /\ th[t].pc = "idle" /\ UNCHANGED <<cachedHwReadIndex, maxWritePtr>>
          /\ th'[t] = [th[t] EXCEPT !.pc = "quiet", !.target = maxWritePtr]
        BY <2>8, <1>1 DEF quietAll
    <3>9. Same
        BY <3>1, <2>0 DEF ThreadStates, ThreadPcs
    <3> QED
        BY <3>9, <3>1, <2>0 DEF Holds, ThreadStates
  <2>9. CASE PollRptr(t)
    <3>1. PICK pc \in {"flushed", "quieted"} :
            /\ th[t].pc \in {"flush", "quiet"}
            /\ UNCHANGED <<cachedHwReadIndex, maxWritePtr>>
            /\ th'[t] = [th[t] EXCEPT !.pc = pc]
        BY <2>9, <1>1 DEF PollRptr, Goto
    <3>9. Same
        BY <3>1, <2>0 DEF ThreadStates, ThreadPcs
    <3> QED
        BY <3>9, <3>1, <2>0 DEF Holds, ThreadStates
  <2>10. CASE Return(t)
    <3>1. /\ th[t].pc \in {"flushed", "quieted"}
          /\ UNCHANGED <<cachedHwReadIndex, maxWritePtr>>
          /\ th'[t] = [th[t] EXCEPT !.pc = "idle", !.target = 0]
        BY <2>10, <1>1 DEF Return
    <3>8. th[t] \in ThreadStates /\ 0 \in Nat
        BY <2>0
    <3>9. Same
        BY <3>1, <3>8 DEF ThreadStates, ThreadPcs
    <3> QED
        BY <3>9, <3>1, <2>0 DEF Holds, ThreadStates
  <2> QED
      BY <2>1, <2>2, <2>3, <2>4, <2>5, <2>6, <2>7, <2>8, <2>9, <2>10, <2>11
<1>6. TypeOK'
  <2>1. th' \in [Threads -> ThreadStates]
      BY <1>1, <1>2, <1>3, <1>5
  <2> QED
      BY <1>1, <1>4, <1>5, <2>1 DEF TypeOK, regs
<1>7. OrderInv'
    BY <1>1, <1>4, <1>5 DEF OrderInv, regs
<1>8. RoomInv'
    BY <1>1, <1>3, <1>4, <1>5 DEF RoomInv, regs
<1>9. HoldInv' /\ PlacedInv' /\ AnnouncedIsPlaced'
    BY <1>3, <1>4, <1>5, OutsideStep
<1> QED
    BY <1>6, <1>7, <1>8, <1>9 DEF QueueInv

(* A thread that moves on keeps its local variables, and the others theirs. *)
LEMMA MovesOn ==
    ASSUME QueueInv, NEW t \in Threads, NEW pc \in ThreadPcs, Goto(t, pc)
    PROVE  /\ th' \in [Threads -> ThreadStates] /\ th'[t].pc = pc
           /\ \A u \in Threads \ {t} : th'[u] = th[u]
           /\ \A u \in Threads : /\ th'[u].cur_index = th[u].cur_index
                                 /\ th'[u].new_index = th[u].new_index
                                 /\ th'[u].size = th[u].size
                                 /\ th'[u].target = th[u].target
                                 /\ Held(u)' = Held(u)
<1>1. th \in [Threads -> ThreadStates] /\ th[t] \in ThreadStates
    BY DEF QueueInv, TypeOK
<1>2. th'[t] = [th[t] EXCEPT !.pc = pc] /\ \A u \in Threads \ {t} : th'[u] = th[u]
    BY <1>1 DEF Goto
<1>3. /\ th'[t] \in ThreadStates /\ th'[t].pc = pc
      /\ th'[t].cur_index = th[t].cur_index /\ th'[t].new_index = th[t].new_index
      /\ th'[t].size = th[t].size /\ th'[t].target = th[t].target
    BY <1>1, <1>2 DEF ThreadStates
<1>4. th' \in [Threads -> ThreadStates]
    BY <1>1, <1>2, <1>3 DEF Goto
<1> QED
    BY <1>2, <1>3, <1>4 DEF Held

(* The indices of every thread are naturals, and so are the registers.     *)
LEMMA Numbers ==
    ASSUME QueueInv
    PROVE  /\ \A u \in Threads : /\ th[u].cur_index \in Nat
                                 /\ th[u].new_index \in Nat
           /\ rptr \in Nat /\ wptr \in Nat /\ doorbell \in Nat
           /\ cachedWptr \in Nat /\ committedWptr \in Nat
           /\ queueBuf \in [Positions -> Int]
           /\ OrderInv /\ RoomInv /\ HoldInv /\ PlacedInv /\ AnnouncedIsPlaced
<1>1. \A u \in Threads : th[u] \in ThreadStates
    BY DEF QueueInv, TypeOK
<1> QED
    BY <1>1 DEF QueueInv, TypeOK, ThreadStates

(* The reservation: the swap succeeds only if nobody reserved since the    *)
(* load, and the space test still holds because the engine only advances.  *)
LEMMA ReserveStep ==
    ASSUME QueueInv, NEW t \in Threads, CompareExchange(t)
    PROVE  QueueInv'
<1> USE QueueAssumption
<1>0. "place" \in ThreadPcs /\ "load" \in ThreadPcs
    BY DEF ThreadPcs
<1>1. th[t].pc = "cas" /\ UNCHANGED <<regs, committedWptr, cachedHwReadIndex,
                                      maxWritePtr, queueBuf>>
    BY DEF CompareExchange
<1>2. CASE cachedWptr # th[t].cur_index
  <2>1. UNCHANGED cachedWptr /\ Goto(t, "load")
      BY <1>2 DEF CompareExchange
  <2>2. /\ th' \in [Threads -> ThreadStates] /\ th'[t].pc = "load"
        /\ \A u \in Threads \ {t} : th'[u] = th[u]
        /\ th'[t].size = th[t].size
      BY <2>1, <1>0, MovesOn
  <2>3. ~Holds(t) /\ ~Holds(t)'
      BY <1>1, <2>2 DEF Holds
  <2>4. HoldInv' /\ PlacedInv' /\ AnnouncedIsPlaced'
      BY <1>1, <2>1, <2>2, <2>3, OutsideStep
  <2>5. TypeOK' /\ OrderInv'
      BY <1>1, <2>1, <2>2 DEF QueueInv, TypeOK, OrderInv, regs
  <2>6. RoomInv'
      BY <1>1, <2>2 DEF QueueInv, RoomInv, regs
  <2> QED
      BY <2>4, <2>5, <2>6 DEF QueueInv
<1>3. CASE cachedWptr = th[t].cur_index
  <2>1. cachedWptr' = th[t].new_index /\ Goto(t, "place")
      BY <1>3 DEF CompareExchange
  <2>2. /\ th' \in [Threads -> ThreadStates] /\ th'[t].pc = "place"
        /\ \A u \in Threads \ {t} : th'[u] = th[u]
        /\ \A u \in Threads : /\ th'[u].cur_index = th[u].cur_index
                              /\ th'[u].new_index = th[u].new_index
                              /\ Held(u)' = Held(u)
      BY <2>1, <1>0, MovesOn
  <2>3. th[t].new_index < rptr + QueueSize /\ cachedWptr < th[t].new_index
      BY <1>1, <1>3, Numbers DEF RoomInv
  <2>4. TypeOK'
      BY <1>1, <2>1, <2>2, Numbers DEF QueueInv, TypeOK, regs
  <2>5. OrderInv'
      BY <1>1, <2>1, <2>3, Numbers DEF OrderInv, regs
  <2>6. RoomInv'
      BY <1>1, <2>2 DEF QueueInv, RoomInv, regs
  <2>7. \A u \in Threads : /\ u # t => (Holds(u)' <=> Holds(u))
                           /\ Publishes(u)' <=> Publishes(u)
                           /\ Publishes(u) => u # t /\ Holds(u)
      BY <1>1, <2>2 DEF Holds, Publishes
  <2>8. HoldInv'
    <3>1. committedWptr <= th[t].cur_index
        BY <1>3, Numbers DEF OrderInv
    <3>2. \A u \in Threads \ {t} : Holds(u)' =>
             th[u].new_index <= th[t].cur_index /\ th[u].new_index <= cachedWptr'
        BY <1>3, <2>1, <2>3, <2>7, Numbers DEF HoldInv
    <3>3. \A u \in Threads : Holds(u)'
            => /\ committedWptr' <= th'[u].cur_index
               /\ th'[u].cur_index < th'[u].new_index
               /\ th'[u].new_index <= cachedWptr'
        BY <1>1, <1>3, <2>1, <2>2, <2>3, <2>7, <3>1, <3>2, Numbers DEF HoldInv
    <3>4. \A u, v \in Threads : Holds(u)' /\ Holds(v)' /\ u # v
            => th'[u].new_index <= th'[v].cur_index
                 \/ th'[v].new_index <= th'[u].cur_index
        BY <2>2, <2>7, <3>2, Numbers DEF HoldInv
    <3>5. \A u \in Threads : Publishes(u)'
            => th'[u].cur_index = committedWptr' /\ wptr' = th'[u].new_index
        BY <1>1, <2>2, <2>7, Numbers DEF HoldInv, regs
    <3>6. (\A u \in Threads : ~Publishes(u)') => wptr' = committedWptr'
        BY <1>1, <2>7, Numbers DEF HoldInv, regs
    <3> QED
        BY <3>3, <3>4, <3>5, <3>6 DEF HoldInv
  <2>9. PlacedInv'
    <3>1. \A k \in Held(t) : k >= cachedWptr /\ k \in Int
        BY <1>3, Numbers DEF Held
    <3>2. \A p \in Positions : queueBuf[p] < cachedWptr /\ queueBuf[p] \in Int
        BY Numbers DEF PlacedInv
    <3>3. \A k \in Held(t), p \in Positions : queueBuf[p] # k
        BY <3>1, <3>2, Numbers
    <3>4. \A p \in Positions : queueBuf[p] < cachedWptr'
        BY <2>1, <2>3, <3>2, Numbers
    <3> QED
        BY <1>1, <2>2, <3>3, <3>4, Numbers DEF PlacedInv, regs
  <2>10. AnnouncedIsPlaced'
      BY <1>1, Numbers DEF AnnouncedIsPlaced, regs
  <2> QED
      BY <2>4, <2>5, <2>6, <2>8, <2>9, <2>10 DEF QueueInv
<1> QED
    BY <1>2, <1>3

(* What is published lies before every reservation that is not, so the     *)
(* positions of two reservations are apart: everything reserved and not    *)
(* consumed is less than one revolution.                                   *)
LEMMA Apart ==
    ASSUME QueueInv, NEW t \in Threads, th[t].pc = "place"
    PROVE  /\ wptr <= th[t].cur_index
           /\ \A j \in Held(t) : j \in Nat /\ wptr <= j /\ j < cachedWptr
           /\ \A j \in Held(t), k \in Nat :
                rptr <= k /\ k < cachedWptr /\ j # k
                  => WrapIntoRing(j) # WrapIntoRing(k)
           /\ \A u \in Threads \ {t} : Holds(u) => Held(u) \cap Held(t) = {}
<1> USE QueueAssumption
<1>1. Holds(t) /\ ~Publishes(t) /\ \A u \in Threads : Publishes(u) => Holds(u)
    BY DEF Holds, Publishes
<1>2. /\ committedWptr <= th[t].cur_index
      /\ th[t].cur_index < th[t].new_index /\ th[t].new_index <= cachedWptr
    BY <1>1, Numbers DEF HoldInv
<1>3. wptr <= th[t].cur_index
  <2>1. CASE \A u \in Threads : ~Publishes(u)
      BY <2>1, <1>2, Numbers DEF HoldInv
  <2>2. CASE \E u \in Threads : Publishes(u)
    <3>1. PICK u \in Threads : Publishes(u)
        BY <2>2
    <3>2. th[u].cur_index = committedWptr /\ wptr = th[u].new_index
        BY <3>1, Numbers DEF HoldInv
    <3>3. th[t].new_index <= th[u].cur_index \/ th[u].new_index <= th[t].cur_index
        BY <3>1, <1>1, Numbers DEF HoldInv
    <3> QED
        BY <3>2, <3>3, <1>2, Numbers
  <2> QED
      BY <2>1, <2>2
<1>4. \A j \in Held(t) : j \in Nat /\ wptr <= j /\ j < cachedWptr
    BY <1>2, <1>3, Numbers DEF Held
<1>5. ASSUME NEW j \in Held(t), NEW k \in Nat, rptr <= k, k < cachedWptr, j # k
      PROVE  WrapIntoRing(j) # WrapIntoRing(k)
  <2>1. rptr <= j /\ j < rptr + QueueSize /\ k < rptr + QueueSize /\ j \in Nat
      BY <1>4, <1>5, Numbers DEF OrderInv
  <2>2. QueueSize \in Nat \ {0} /\ rptr \in Nat
      BY Numbers
  <2> QED
      BY <2>1, <2>2, <1>5, SamePosition DEF WrapIntoRing
<1>6. ASSUME NEW u \in Threads \ {t}, Holds(u) PROVE Held(u) \cap Held(t) = {}
  <2>1. th[t].new_index <= th[u].cur_index \/ th[u].new_index <= th[t].cur_index
      BY <1>1, <1>6, Numbers DEF HoldInv
  <2> QED
      BY <2>1, Numbers DEF Held
<1> QED
    BY <1>3, <1>4, <1>5, <1>6

(* The packets land on positions nobody else's dwords are in.              *)
LEMMA PlaceStep ==
    ASSUME QueueInv, NEW t \in Threads, placePacket(t)
    PROVE  QueueInv'
<1> USE QueueAssumption
<1>1. /\ th[t].pc = "place" /\ Goto(t, "submit")
      /\ UNCHANGED <<regs, cachedWptr, committedWptr, cachedHwReadIndex,
                     maxWritePtr>>
    BY DEF placePacket
<1>2. /\ th' \in [Threads -> ThreadStates] /\ th'[t].pc = "submit"
      /\ \A u \in Threads \ {t} : th'[u] = th[u]
      /\ \A u \in Threads : /\ th'[u].cur_index = th[u].cur_index
                            /\ th'[u].new_index = th[u].new_index
                            /\ Held(u)' = Held(u)
  <2>1. "submit" \in ThreadPcs
      BY DEF ThreadPcs
  <2> QED
      BY <1>1, <2>1, MovesOn
<1>3. /\ \A j \in Held(t) : j \in Nat /\ wptr <= j /\ j < cachedWptr
      /\ \A j \in Held(t), k \in Nat :
           rptr <= k /\ k < cachedWptr /\ j # k => WrapIntoRing(j) # WrapIntoRing(k)
      /\ \A u \in Threads \ {t} : Holds(u) => Held(u) \cap Held(t) = {}
    BY <1>1, Apart
<1>4. \A k \in Nat : WrapIntoRing(k) \in Positions
    BY DEF WrapIntoRing, Positions
<1>5. ASSUME NEW p \in Positions
      PROVE  \/ queueBuf'[p] \in Held(t) /\ WrapIntoRing(queueBuf'[p]) = p
             \/ queueBuf'[p] = queueBuf[p]
                /\ \A j \in Held(t) : WrapIntoRing(j) # p
  <2>1. queueBuf'[p] = IF \E k \in Held(t) : WrapIntoRing(k) = p
                       THEN CHOOSE k \in Held(t) : WrapIntoRing(k) = p
                       ELSE queueBuf[p]
      BY DEF placePacket
  <2>2. CASE \E k \in Held(t) : WrapIntoRing(k) = p
      BY <2>1, <2>2
  <2>3. CASE ~\E k \in Held(t) : WrapIntoRing(k) = p
      BY <2>1, <2>3
  <2> QED
      BY <2>2, <2>3
<1>6. queueBuf' \in [Positions -> Int]
  <2>1. \A p \in Positions : queueBuf'[p] \in Int
      BY <1>3, <1>5, Numbers
  <2> QED
      BY <2>1 DEF placePacket
<1>7. \A j \in Held(t) : queueBuf'[WrapIntoRing(j)] = j
  <2> SUFFICES ASSUME NEW j \in Held(t) PROVE queueBuf'[WrapIntoRing(j)] = j
      OBVIOUS
  <2>1. WrapIntoRing(j) \in Positions /\ j \in Nat
      BY <1>3, <1>4
  <2>2. PICK i \in Held(t) : i = queueBuf'[WrapIntoRing(j)]
                             /\ WrapIntoRing(i) = WrapIntoRing(j)
      BY <2>1, <1>5
  <2>3. rptr <= j /\ j < cachedWptr
      BY <1>3, <2>1, Numbers DEF OrderInv
  <2> QED
      BY <2>1, <2>2, <2>3, <1>3
<1>8. \A k \in Nat : rptr <= k /\ k < cachedWptr /\ k \notin Held(t)
        => queueBuf'[WrapIntoRing(k)] = queueBuf[WrapIntoRing(k)]
    BY <1>3, <1>4, <1>5
<1>9. TypeOK'
    BY <1>1, <1>2, <1>6 DEF QueueInv, TypeOK, regs
<1>10. OrderInv' /\ RoomInv'
    BY <1>1, <1>2, Numbers DEF OrderInv, RoomInv, regs
<1>11. \A u \in Threads : /\ Holds(u)' <=> Holds(u)
                          /\ Publishes(u)' <=> Publishes(u)
    BY <1>1, <1>2 DEF Holds, Publishes
<1>12. HoldInv'
    BY <1>1, <1>2, <1>11, Numbers DEF HoldInv, regs
<1>13. PlacedInv'
  <2>1. ASSUME NEW u \in Threads, th'[u].pc \in {"submit", "doorbell", "commit"},
               NEW k \in Held(u), k >= rptr
        PROVE  queueBuf'[WrapIntoRing(k)] = k
    <3>1. CASE u = t
        BY <3>1, <2>1, <1>7
    <3>2. CASE u # t
      <4>1. Holds(u) /\ th[u].pc \in {"submit", "doorbell", "commit"}
          BY <3>2, <2>1, <1>2 DEF Holds
      <4>2. k \in Nat /\ k < cachedWptr /\ k \notin Held(t)
          BY <4>1, <3>2, <2>1, <1>3, Numbers DEF HoldInv, Held
      <4>3. queueBuf[WrapIntoRing(k)] = k
          BY <4>1, <2>1, Numbers DEF PlacedInv
      <4> QED
          BY <4>2, <4>3, <2>1, <1>8
    <3> QED
        BY <3>1, <3>2
  <2>2. ASSUME NEW p \in Positions
        PROVE  /\ queueBuf'[p] < cachedWptr
               /\ queueBuf'[p] \in Nat => WrapIntoRing(queueBuf'[p]) = p
      BY <1>3, <1>5, Numbers DEF PlacedInv
  <2>3. ASSUME NEW u \in Threads, th'[u].pc = "place", NEW k \in Held(u),
               NEW p \in Positions
        PROVE  queueBuf'[p] # k
    <3>1. u # t /\ Holds(u) /\ th[u].pc = "place"
        BY <2>3, <1>2 DEF Holds
    <3>2. k \notin Held(t)
        BY <3>1, <2>3, <1>3
    <3>3. queueBuf[p] # k
        BY <3>1, <2>3, Numbers DEF PlacedInv
    <3> QED
        BY <3>2, <3>3, <1>5
  <2> QED
      BY <1>1, <1>2, <2>1, <2>2, <2>3 DEF PlacedInv, regs
<1>14. AnnouncedIsPlaced'
  <2> SUFFICES ASSUME NEW k \in rptr..(wptr - 1)
               PROVE  queueBuf'[WrapIntoRing(k)] = k
      BY <1>1 DEF AnnouncedIsPlaced, regs
  <2>1. k \in Nat /\ rptr <= k /\ k < wptr /\ k < cachedWptr
      BY Numbers DEF OrderInv
  <2>2. k \notin Held(t)
      BY <2>1, <1>3, Numbers
  <2>3. queueBuf[WrapIntoRing(k)] = k
      BY Numbers DEF AnnouncedIsPlaced
  <2> QED
      BY <2>1, <2>2, <2>3, <1>8
<1> QED
    BY <1>9, <1>10, <1>12, <1>13, <1>14 DEF QueueInv

(* At most one thread has the turn: two reservations do not start at the   *)
(* same index.                                                             *)
LEMMA OneTurn ==
    ASSUME QueueInv, NEW t \in Threads, Holds(t),
           th[t].cur_index = committedWptr
    PROVE  \A u \in Threads \ {t} :
             Holds(u) => th[t].new_index <= th[u].cur_index /\ ~Publishes(u)
<1> SUFFICES ASSUME NEW u \in Threads \ {t}, Holds(u)
             PROVE  th[t].new_index <= th[u].cur_index /\ ~Publishes(u)
    OBVIOUS
<1>1. /\ th[t].cur_index < th[t].new_index /\ th[u].cur_index < th[u].new_index
      /\ committedWptr <= th[u].cur_index
    BY Numbers DEF HoldInv
<1>2. th[t].new_index <= th[u].cur_index \/ th[u].new_index <= th[t].cur_index
    BY Numbers DEF HoldInv
<1>3. Publishes(u) => th[u].cur_index = committedWptr
    BY Numbers DEF HoldInv
<1> QED
    BY <1>1, <1>2, <1>3, Numbers

(* The three stores of submitPacket, in turn.                              *)
LEMMA SubmitStep ==
    ASSUME QueueInv, NEW t \in Threads, submitPacket(t)
    PROVE  QueueInv'
<1>1. /\ th[t].pc = "submit" /\ Goto(t, "doorbell") /\ wptr' = th[t].new_index
      /\ committedWptr = th[t].cur_index
      /\ UNCHANGED <<rptr, doorbell, cachedWptr, committedWptr,
                     cachedHwReadIndex, maxWritePtr, queueBuf>>
    BY DEF submitPacket
<1>2. /\ th' \in [Threads -> ThreadStates] /\ th'[t].pc = "doorbell"
      /\ \A u \in Threads \ {t} : th'[u] = th[u]
      /\ \A u \in Threads : /\ th'[u].cur_index = th[u].cur_index
                            /\ th'[u].new_index = th[u].new_index
                            /\ Held(u)' = Held(u)
  <2>1. "doorbell" \in ThreadPcs
      BY DEF ThreadPcs
  <2> QED
      BY <1>1, <2>1, MovesOn
<1>3. Holds(t) /\ ~Publishes(t)
    BY <1>1 DEF Holds, Publishes
<1>4. \A u \in Threads : ~Publishes(u)
  <2>1. \A u \in Threads : Publishes(u) => Holds(u)
      BY DEF Holds, Publishes
  <2> QED
      BY <1>1, <1>3, <2>1, OneTurn
<1>5. /\ wptr = th[t].cur_index /\ th[t].cur_index < th[t].new_index
      /\ th[t].new_index <= cachedWptr
    BY <1>1, <1>3, <1>4, Numbers DEF HoldInv
<1>6. TypeOK'
    BY <1>1, <1>2, Numbers DEF QueueInv, TypeOK
<1>7. OrderInv'
    BY <1>1, <1>5, Numbers DEF OrderInv
<1>8. RoomInv'
    BY <1>1, <1>2, Numbers DEF RoomInv
<1>9. \A u \in Threads : /\ Holds(u)' <=> Holds(u)
                         /\ Publishes(u)' <=> u = t
    BY <1>1, <1>2, <1>4 DEF Holds, Publishes
<1>10. HoldInv'
    BY <1>1, <1>2, <1>9, Numbers DEF HoldInv
<1>11. PlacedInv'
    BY <1>1, <1>2, Numbers DEF PlacedInv
<1>12. AnnouncedIsPlaced'
  <2> SUFFICES ASSUME NEW k \in rptr..(th[t].new_index - 1)
               PROVE  queueBuf[WrapIntoRing(k)] = k
      BY <1>1 DEF AnnouncedIsPlaced
  <2>1. CASE k < wptr
      BY <2>1, Numbers DEF AnnouncedIsPlaced
  <2>2. CASE ~(k < wptr)
    <3>1. k \in Held(t) /\ k >= rptr
        BY <2>2, <1>5, Numbers DEF Held
    <3> QED
        BY <3>1, <1>1, Numbers DEF PlacedInv
  <2> QED
      BY <2>1, <2>2
<1> QED
    BY <1>6, <1>7, <1>8, <1>10, <1>11, <1>12 DEF QueueInv

(* Ringing the doorbell preserves the invariant.                           *)
LEMMA DoorbellStep ==
    ASSUME QueueInv, NEW t \in Threads, RingDoorbell(t)
    PROVE  QueueInv'
<1>1. /\ th[t].pc = "doorbell" /\ Goto(t, "commit") /\ doorbell' = th[t].new_index
      /\ UNCHANGED <<rptr, wptr, cachedWptr, committedWptr, cachedHwReadIndex,
                     maxWritePtr, queueBuf>>
    BY DEF RingDoorbell
<1>2. /\ th' \in [Threads -> ThreadStates] /\ th'[t].pc = "commit"
      /\ \A u \in Threads \ {t} : th'[u] = th[u]
      /\ \A u \in Threads : /\ th'[u].cur_index = th[u].cur_index
                            /\ th'[u].new_index = th[u].new_index
                            /\ Held(u)' = Held(u)
  <2>1. "commit" \in ThreadPcs
      BY DEF ThreadPcs
  <2> QED
      BY <1>1, <2>1, MovesOn
<1>3. wptr = th[t].new_index
    BY <1>1, Numbers DEF HoldInv, Publishes
<1>4. \A u \in Threads : /\ Holds(u)' <=> Holds(u)
                         /\ Publishes(u)' <=> Publishes(u)
    BY <1>1, <1>2 DEF Holds, Publishes
<1>5. TypeOK'
    BY <1>1, <1>2, Numbers DEF QueueInv, TypeOK
<1>6. OrderInv' /\ RoomInv'
    BY <1>1, <1>2, <1>3, Numbers DEF OrderInv, RoomInv
<1>7. HoldInv'
    BY <1>1, <1>2, <1>4, Numbers DEF HoldInv
<1>8. PlacedInv'
    BY <1>1, <1>2, Numbers DEF PlacedInv
<1>9. AnnouncedIsPlaced'
    BY <1>1, Numbers DEF AnnouncedIsPlaced
<1> QED
    BY <1>5, <1>6, <1>7, <1>8, <1>9 DEF QueueInv

(* Handing on the turn preserves the invariant.                            *)
LEMMA CommitStep ==
    ASSUME QueueInv, NEW t \in Threads, Commit(t)
    PROVE  QueueInv'
<1>1. /\ th[t].pc = "commit" /\ Goto(t, "max") /\ committedWptr' = th[t].new_index
      /\ UNCHANGED <<rptr, wptr, doorbell, cachedWptr, cachedHwReadIndex,
                     maxWritePtr, queueBuf>>
    BY DEF Commit, regs
<1>2. /\ th' \in [Threads -> ThreadStates] /\ th'[t].pc = "max"
      /\ \A u \in Threads \ {t} : th'[u] = th[u]
      /\ \A u \in Threads : /\ th'[u].cur_index = th[u].cur_index
                            /\ th'[u].new_index = th[u].new_index
                            /\ Held(u)' = Held(u)
  <2>1. "max" \in ThreadPcs
      BY DEF ThreadPcs
  <2> QED
      BY <1>1, <2>1, MovesOn
<1>3. Holds(t) /\ wptr = th[t].new_index /\ th[t].cur_index = committedWptr
    BY <1>1, Numbers DEF HoldInv, Publishes, Holds
<1>4. \A u \in Threads \ {t} :
        Holds(u) => th[t].new_index <= th[u].cur_index /\ ~Publishes(u)
    BY <1>3, OneTurn
<1>5. \A u \in Threads : /\ Holds(u)' <=> Holds(u) /\ u # t
                         /\ ~Publishes(u)'
  <2>1. \A u \in Threads : Publishes(u) => Holds(u)
      BY DEF Holds, Publishes
  <2> QED
      BY <1>1, <1>2, <1>4, <2>1 DEF Holds, Publishes
<1>6. TypeOK'
    BY <1>1, <1>2, Numbers DEF QueueInv, TypeOK
<1>7. OrderInv' /\ RoomInv'
    BY <1>1, <1>2, <1>3, Numbers DEF OrderInv, RoomInv
<1>8. HoldInv'
    BY <1>1, <1>2, <1>3, <1>4, <1>5, Numbers DEF HoldInv
<1>9. PlacedInv'
    BY <1>1, <1>2, Numbers DEF PlacedInv
<1>10. AnnouncedIsPlaced'
    BY <1>1, Numbers DEF AnnouncedIsPlaced
<1> QED
    BY <1>6, <1>7, <1>8, <1>9, <1>10 DEF QueueInv

(* The engine advances within what was announced.                          *)
LEMMA ConsumeStep == ASSUME QueueInv, Consume PROVE QueueInv'
<1> USE QueueAssumption
<1>1. rptr < doorbell /\ rptr' = rptr + 1 /\ rptr' \in Nat
      /\ UNCHANGED <<wptr, doorbell, cachedWptr, committedWptr,
                     cachedHwReadIndex, maxWritePtr, queueBuf, th>>
    BY Numbers DEF Consume
<1>2. TypeOK'
    BY <1>1 DEF QueueInv, TypeOK
<1>3. OrderInv'
  <2>1. cachedHwReadIndex \in Nat
      BY DEF QueueInv, TypeOK
  <2> QED
      BY <1>1, <2>1, Numbers DEF OrderInv
<1>4. RoomInv'
  <2>1. \A u \in Threads : th[u].target \in Nat
    <3>1. \A u \in Threads : th[u] \in ThreadStates
        BY DEF QueueInv, TypeOK
    <3> QED
        BY <3>1 DEF ThreadStates
  <2> QED
      BY <1>1, <2>1, Numbers DEF RoomInv
<1>5. HoldInv'
    BY <1>1, Numbers DEF HoldInv, Holds, Publishes
<1>6. PlacedInv'
  <2>1. \A u \in Threads : Held(u)' = Held(u)
      BY <1>1 DEF Held
  <2>2. \A u \in Threads : \A k \in Held(u) : k \in Int
      BY Numbers DEF Held
  <2>3. ASSUME NEW u \in Threads, th[u].pc \in {"submit", "doorbell", "commit"},
               NEW k \in Held(u), k >= rptr'
        PROVE  queueBuf[WrapIntoRing(k)] = k
    <3>1. k >= rptr
        BY <2>2, <2>3, <1>1, Numbers
    <3> QED
        BY <3>1, <2>3, Numbers DEF PlacedInv
  <2> QED
      BY <1>1, <2>1, <2>3, Numbers DEF PlacedInv
<1>7. AnnouncedIsPlaced'
    BY <1>1, Numbers DEF AnnouncedIsPlaced
<1> QED
    BY <1>2, <1>3, <1>4, <1>5, <1>6, <1>7 DEF QueueInv

(* QueueInv is an inductive invariant of the queue.                        *)
THEOREM QueueInductive == Spec => []QueueInv
<1>1. QueueInv /\ [Next]_vars => QueueInv'
  <2> SUFFICES ASSUME QueueInv, [Next]_vars PROVE QueueInv'
      OBVIOUS
  <2>1. CASE UNCHANGED vars
    <3>1. UNCHANGED <<rptr, wptr, doorbell, cachedWptr, committedWptr,
                      cachedHwReadIndex, maxWritePtr, queueBuf, th>>
        BY <2>1 DEF vars, regs
    <3> QED
        BY <3>1 DEF QueueInv, TypeOK, OrderInv, RoomInv, HoldInv, PlacedInv,
                    AnnouncedIsPlaced, Holds, Publishes, Held
  <2>2. CASE Consume
      BY <2>2, ConsumeStep
  <2>3. ASSUME NEW t \in Threads,
               \/ \E size \in Sizes : put(t, size)
               \/ flushTo(t) \/ quietAll(t) \/ Step(t)
        PROVE  QueueInv'
      BY <2>3, LocalStep, ReserveStep, PlaceStep, SubmitStep, DoorbellStep,
         CommitStep DEF Step
  <2> QED
      BY <2>1, <2>2, <2>3 DEF Next
<1> QED
    BY <1>1, InitQueue, PTL DEF Spec

(* The engine is only ever told to read complete packets that belong to    *)
(* the indices it reads (placePacket before submitPacket's turn).          *)
THEOREM QueueSafe == Spec => []AnnouncedIsPlaced
<1>1. QueueInv => AnnouncedIsPlaced
    BY DEF QueueInv
<1> QED
    BY <1>1, QueueInductive, PTL

(* A thread never places its packets over dwords that are not consumed.    *)
THEOREM QueueNoOverrun == Spec => []NoOverrun
<1>1. QueueInv => NoOverrun
  <2> SUFFICES ASSUME QueueInv, NEW t \in Threads, th[t].pc = "place",
                      NEW k \in Held(t)
               PROVE  queueBuf[WrapIntoRing(k)] < rptr
      BY DEF NoOverrun
  <2> USE QueueAssumption
  <2>1. k \in Nat /\ WrapIntoRing(k) \in Positions
      BY Apart, Numbers DEF WrapIntoRing, Positions
  <2>2. PICK v \in Int : v = queueBuf[WrapIntoRing(k)]
      BY <2>1, Numbers
  <2>3. /\ v < cachedWptr /\ v # k
        /\ v \in Nat => WrapIntoRing(v) = WrapIntoRing(k)
      BY <2>1, <2>2, Numbers DEF PlacedInv
  <2>4. CASE rptr <= v
    <3>1. v \in Nat
        BY <2>4, Numbers
    <3> QED
        BY <2>3, <2>4, <3>1, Apart
  <2>5. CASE ~(rptr <= v)
      BY <2>5, <2>2, Numbers
  <2> QED
      BY <2>4, <2>5
<1> QED
    BY <1>1, QueueInductive, PTL
-----------------------------------------------------------------------------
(*                     Padding at the end of the ring                      *)

Reserving == {"can_write", "read_rptr", "store_rptr", "retest", "cas",
              "place", "submit", "doorbell", "commit"}

(* From the moment the padding is computed, the packets lie behind it and  *)
(* before the end of the ring.                                             *)
PadInv ==
    \A t \in Threads :
        /\ th[t].pc \in Reserving \cup {"load"} => th[t].size \in Sizes
        /\ th[t].pc \in Reserving
             => WrapIntoRing(th[t].cur_index + th[t].offset) + th[t].size <= QueueSize

(* Padding ends where the ring begins again.                               *)
LEMMA PadReachesTheStart ==
    ASSUME NEW cur \in Nat, NEW size \in Sizes
    PROVE  WrapIntoRing(cur + Pad(cur, size)) + size <= QueueSize
<1> USE QueueAssumption
<1>1. size \in Nat /\ size <= QueueSize
    OBVIOUS
<1>2. PICK r \in Int, d \in Int : /\ r = cur % QueueSize /\ cur = QueueSize * d + r
                                  /\ 0 <= r /\ r < QueueSize
  <2>1. /\ cur % QueueSize \in Int /\ cur \div QueueSize \in Int
        /\ cur = (QueueSize * (cur \div QueueSize)) + (cur % QueueSize)
        /\ 0 <= cur % QueueSize /\ cur % QueueSize < QueueSize
      OBVIOUS
  <2> QED
      BY <2>1, Zenon
<1>3. CASE r + size > QueueSize
  <2>1. Pad(cur, size) = QueueSize - r
      BY <1>2, <1>3 DEF Pad, WrapIntoRing
  <2>2. cur + Pad(cur, size) = 0 + QueueSize * (d + 1)
      BY <1>2, <2>1
  <2>3. (0 + QueueSize * (d + 1)) % QueueSize = 0
      BY RemainderOf
  <2> QED
      BY <1>1, <2>2, <2>3 DEF WrapIntoRing
<1>4. CASE ~(r + size > QueueSize)
  <2>1. Pad(cur, size) = 0
      BY <1>2, <1>4 DEF Pad, WrapIntoRing
  <2> QED
      BY <1>1, <1>2, <1>4, <2>1 DEF WrapIntoRing
<1> QED
    BY <1>3, <1>4

(* Every step keeps the padding of a reservation exact.                    *)
LEMMA PadStep ==
    ASSUME QueueInv, PadInv, [Next]_vars
    PROVE  PadInv'
<1> USE QueueAssumption
<1>1. th \in [Threads -> ThreadStates] /\ cachedWptr \in Nat
    BY DEF QueueInv, TypeOK
<1>2. CASE UNCHANGED th
    BY <1>2 DEF PadInv
<1>3. ASSUME NEW t \in Threads, \A u \in Threads \ {t} : th'[u] = th[u],
             \/ th'[t].pc \notin Reserving \cup {"load"}
             \/ /\ th'[t].pc \in Reserving /\ th[t].pc \in Reserving
                /\ th'[t].size = th[t].size /\ th'[t].cur_index = th[t].cur_index
                /\ th'[t].offset = th[t].offset
             \/ th'[t].pc = "load" /\ th'[t].size \in Sizes
             \/ /\ th'[t].pc \in Reserving /\ th'[t].size \in Sizes
                /\ WrapIntoRing(th'[t].cur_index + th'[t].offset) + th'[t].size
                     <= QueueSize
      PROVE  PadInv'
  <2> SUFFICES ASSUME NEW u \in Threads
               PROVE  /\ th'[u].pc \in Reserving \cup {"load"} => th'[u].size \in Sizes
                      /\ th'[u].pc \in Reserving
                           => WrapIntoRing(th'[u].cur_index + th'[u].offset)
                                + th'[u].size <= QueueSize
      BY DEF PadInv, WrapIntoRing
  <2>1. CASE u # t
      BY <1>3, <2>1 DEF PadInv
  <2>2. CASE u = t
      BY <1>3, <2>2 DEF PadInv, Reserving
  <2> QED
      BY <2>1, <2>2
<1>4. ASSUME NEW t \in Threads, NEW size \in Sizes, put(t, size) PROVE PadInv'
  <2>1. /\ th'[t] = [th[t] EXCEPT !.pc = "load", !.size = size]
        /\ \A u \in Threads \ {t} : th'[u] = th[u]
      BY <1>1, <1>4 DEF put
  <2>2. th'[t].pc = "load" /\ th'[t].size = size
      BY <1>1, <2>1 DEF ThreadStates
  <2>3. th'[t].pc = "load" /\ th'[t].size \in Sizes
      BY <2>2
  <2> QED
      BY <1>3, <2>1, <2>3, Zenon
<1>5. ASSUME NEW t \in Threads, LoadIndex(t) PROVE PadInv'
  <2>1. /\ th[t].pc = "load" /\ \A u \in Threads \ {t} : th'[u] = th[u]
        /\ th'[t].pc = "can_write" /\ th'[t].size = th[t].size
        /\ th'[t].cur_index = cachedWptr
        /\ th'[t].offset = Pad(cachedWptr, th[t].size)
      BY <1>1, <1>5 DEF LoadIndex, ThreadStates
  <2>2. th[t].size \in Sizes
      BY <2>1 DEF PadInv
  <2>3. WrapIntoRing(cachedWptr + Pad(cachedWptr, th[t].size)) + th[t].size <= QueueSize
      BY <1>1, <2>2, PadReachesTheStart, Zenon
  <2> QED
      BY <1>3, <2>1, <2>2, <2>3 DEF Reserving
<1>6. ASSUME NEW t \in Threads,
             \/ CanWriteCached(t) \/ ReadRptr(t) \/ StoreRptr(t) \/ CanWriteRetest(t)
             \/ CompareExchange(t) \/ placePacket(t) \/ submitPacket(t)
             \/ RingDoorbell(t) \/ Commit(t)
      PROVE  PadInv'
  <2>1. /\ th[t].pc \in Reserving /\ \A u \in Threads \ {t} : th'[u] = th[u]
        /\ th'[t].size = th[t].size /\ th'[t].cur_index = th[t].cur_index
        /\ th'[t].offset = th[t].offset
        /\ th'[t].pc \in Reserving \cup {"load", "max"}
      BY <1>1, <1>6 DEF CanWriteCached, ReadRptr, StoreRptr, CanWriteRetest,
         CompareExchange, placePacket, submitPacket, RingDoorbell, Commit, Goto,
         Reserving, ThreadStates
  <2>2. th[t].size \in Sizes
      BY <2>1 DEF PadInv
  <2>3. th'[t].pc = "max" => th'[t].pc \notin Reserving \cup {"load"}
      BY DEF Reserving
  <2> QED
      BY <1>3, <2>1, <2>2, <2>3
<1>7. ASSUME NEW t \in Threads,
             StoreMax(t) \/ flushTo(t) \/ quietAll(t) \/ PollRptr(t) \/ Return(t)
      PROVE  PadInv'
  <2>1. /\ \A u \in Threads \ {t} : th'[u] = th[u]
        /\ th'[t].pc \in {"idle", "flush", "quiet", "flushed", "quieted"}
      BY <1>1, <1>7 DEF StoreMax, flushTo, quietAll, PollRptr, Return, Goto,
         ThreadStates, IdleThread
  <2> QED
      BY <1>3, <2>1 DEF Reserving
<1> QED
    BY <1>2, <1>4, <1>5, <1>6, <1>7 DEF Next, Step, vars, Consume

(* No packet crosses the end of the ring, so the engine never finds half a *)
(* packet before the wrap (the padding of ReserveQueueSpace).              *)
THEOREM QueuePacketsContiguous == Spec => []PacketsAreContiguous
<1>1. Init => PadInv
  <2>1. ASSUME Init, NEW t \in Threads
        PROVE  th[t].pc \notin Reserving \cup {"load"}
      BY <2>1 DEF Init, IdleThread, Reserving
  <2> QED
      BY <2>1, Zenon DEF PadInv
<1>2. QueueInv /\ PadInv /\ [Next]_vars => PadInv'
    BY PadStep
<1>3. PadInv => PacketsAreContiguous
    BY DEF PadInv, PacketsAreContiguous, Reserving
<1> QED
    BY <1>1, <1>2, <1>3, QueueInductive, PTL DEF Spec
-----------------------------------------------------------------------------
(*                          Nobody's turn is lost                          *)

(* The reservations follow one another without a gap up to cachedWptr.     *)
ChainInv ==
    /\ TurnIsHeld
    /\ \A t \in Threads : Holds(t) =>
         \/ th[t].new_index = cachedWptr
         \/ \E u \in Threads : Holds(u) /\ th[u].cur_index = th[t].new_index

(* A step that leaves the reservations and both write indices alone.       *)
LEMMA ChainKept ==
    ASSUME ChainInv, UNCHANGED <<cachedWptr, committedWptr>>,
           \A u \in Threads : /\ Holds(u)' <=> Holds(u)
                              /\ Holds(u) => /\ th'[u].cur_index = th[u].cur_index
                                             /\ th'[u].new_index = th[u].new_index
    PROVE  ChainInv'
<1>1. TurnIsHeld'
    BY DEF ChainInv, TurnIsHeld
<1>2. ASSUME NEW t \in Threads, Holds(t)'
      PROVE  \/ th'[t].new_index = cachedWptr'
             \/ \E u \in Threads : Holds(u)' /\ th'[u].cur_index = th'[t].new_index
    BY <1>2 DEF ChainInv
<1> QED
    BY <1>1, <1>2 DEF ChainInv

(* A reservation begins where the one before it ends.                      *)
LEMMA ReserveKeepsChain ==
    ASSUME QueueInv, ChainInv, NEW t \in Threads, CompareExchange(t)
    PROVE  ChainInv'
<1>1. th \in [Threads -> ThreadStates] /\ th[t].pc = "cas"
    BY DEF QueueInv, TypeOK, CompareExchange
<1>2. CASE cachedWptr # th[t].cur_index
  <2>1. /\ UNCHANGED <<cachedWptr, committedWptr>> /\ ~Holds(t) /\ ~Holds(t)'
        /\ \A u \in Threads \ {t} : th'[u] = th[u]
      BY <1>1, <1>2 DEF CompareExchange, Goto, Holds, ThreadStates
  <2> QED
      BY <2>1, ChainKept DEF Holds
<1>3. CASE cachedWptr = th[t].cur_index
  <2>1. /\ cachedWptr' = th[t].new_index /\ UNCHANGED committedWptr
        /\ \A u \in Threads \ {t} : th'[u] = th[u]
        /\ ~Holds(t) /\ Holds(t)'
        /\ th'[t].cur_index = cachedWptr /\ th'[t].new_index = cachedWptr'
      BY <1>1, <1>3 DEF CompareExchange, Goto, Holds, ThreadStates
  <2>2. \A u \in Threads \ {t} : Holds(u)' <=> Holds(u)
      BY <2>1 DEF Holds
  <2>3. TurnIsHeld'
    <3>1. CASE committedWptr < cachedWptr
      <4>1. PICK u \in Threads : Holds(u) /\ th[u].cur_index = committedWptr
          BY <3>1 DEF ChainInv, TurnIsHeld
      <4>2. u # t
          BY <2>1, <4>1
      <4> QED
          BY <2>1, <2>2, <4>1, <4>2 DEF TurnIsHeld
    <3>2. CASE ~(committedWptr < cachedWptr)
      <4>1. committedWptr = cachedWptr
          BY <3>2 DEF QueueInv, OrderInv, TypeOK
      <4> QED
          BY <2>1, <4>1 DEF TurnIsHeld
    <3> QED
        BY <3>1, <3>2
  <2>4. ASSUME NEW v \in Threads, Holds(v)'
        PROVE  \/ th'[v].new_index = cachedWptr'
               \/ \E u \in Threads : Holds(u)' /\ th'[u].cur_index = th'[v].new_index
    <3>1. CASE v = t
        BY <2>1, <3>1
    <3>2. CASE v # t /\ th[v].new_index = cachedWptr
        BY <2>1, <3>2
    <3>3. CASE v # t /\ th[v].new_index # cachedWptr
      <4>1. Holds(v)
          BY <2>2, <2>4, <3>3
      <4>2. PICK u \in Threads : Holds(u) /\ th[u].cur_index = th[v].new_index
          BY <3>3, <4>1 DEF ChainInv
      <4>3. u # t
          BY <2>1, <4>2
      <4> QED
          BY <2>1, <2>2, <3>3, <4>2, <4>3
    <3> QED
        BY <3>1, <3>2, <3>3
  <2> QED
      BY <2>3, <2>4 DEF ChainInv
<1> QED
    BY <1>2, <1>3

(* The turn passes from a reservation to the one behind it.                *)
LEMMA CommitKeepsChain ==
    ASSUME QueueInv, ChainInv, NEW t \in Threads, Commit(t)
    PROVE  ChainInv'
<1>1. /\ th \in [Threads -> ThreadStates] /\ committedWptr \in Nat
      /\ cachedWptr \in Nat /\ HoldInv
    BY DEF QueueInv, TypeOK
<1>2. /\ th[t].pc = "commit" /\ committedWptr' = th[t].new_index
      /\ UNCHANGED cachedWptr /\ \A u \in Threads \ {t} : th'[u] = th[u]
      /\ th'[t].pc = "max"
    BY <1>1 DEF Commit, Goto, ThreadStates
<1>3. /\ Holds(t) /\ ~Holds(t)' /\ th[t].cur_index = committedWptr
      /\ th[t].new_index <= cachedWptr
      /\ \A u \in Threads \ {t} : Holds(u)' <=> Holds(u)
    BY <1>1, <1>2 DEF Holds, HoldInv, Publishes
<1>4. TurnIsHeld'
  <2> SUFFICES ASSUME th[t].new_index # cachedWptr
               PROVE  \E u \in Threads : Holds(u)' /\ th'[u].cur_index = committedWptr'
      BY <1>1, <1>2, <1>3 DEF TurnIsHeld, ThreadStates
  <2>1. PICK u \in Threads : Holds(u) /\ th[u].cur_index = th[t].new_index
      BY <1>3 DEF ChainInv
  <2>2. th[t].cur_index < th[t].new_index
      BY <1>1, <1>3 DEF HoldInv
  <2>3. u # t
      BY <1>1, <2>1, <2>2 DEF ThreadStates
  <2> QED
      BY <1>2, <1>3, <2>1, <2>3
<1>5. ASSUME NEW v \in Threads, Holds(v)'
      PROVE  \/ th'[v].new_index = cachedWptr'
             \/ \E u \in Threads : Holds(u)' /\ th'[u].cur_index = th'[v].new_index
  <2>1. v # t /\ Holds(v) /\ th'[v] = th[v]
      BY <1>2, <1>3, <1>5
  <2>2. CASE th[v].new_index = cachedWptr
      BY <1>2, <2>1, <2>2
  <2>3. CASE th[v].new_index # cachedWptr
    <3>1. PICK u \in Threads : Holds(u) /\ th[u].cur_index = th[v].new_index
        BY <2>1, <2>3 DEF ChainInv
    <3>2. committedWptr <= th[v].cur_index /\ th[v].cur_index < th[v].new_index
        BY <1>1, <2>1 DEF HoldInv
    <3>3. u # t
        BY <1>1, <1>3, <3>1, <3>2 DEF ThreadStates
    <3> QED
        BY <1>2, <1>3, <2>1, <3>1, <3>3
  <2> QED
      BY <2>2, <2>3
<1> QED
    BY <1>4, <1>5 DEF ChainInv

(* While something is reserved and not committed, the thread whose turn it *)
(* is still holds its reservation: the spinning threads of submitPacket    *)
(* always wait for somebody.                                               *)
THEOREM QueueTurnIsHeld == Spec => []TurnIsHeld
<1>1. Init => ChainInv
    BY DEF Init, ChainInv, TurnIsHeld, Holds, IdleThread
<1>2. QueueInv /\ ChainInv /\ [Next]_vars => ChainInv'
  <2> SUFFICES ASSUME QueueInv, ChainInv, [Next]_vars PROVE ChainInv'
      OBVIOUS
  <2>1. th \in [Threads -> ThreadStates]
      BY DEF QueueInv, TypeOK
  <2>2. CASE UNCHANGED vars \/ Consume
    <3>1. UNCHANGED <<cachedWptr, committedWptr, th>>
        BY <2>2 DEF vars, Consume
    <3> QED
        BY <3>1, ChainKept DEF Holds
  <2>3. ASSUME NEW t \in Threads,
               \/ \E size \in Sizes : put(t, size)
               \/ LoadIndex(t) \/ CanWriteCached(t) \/ ReadRptr(t) \/ StoreRptr(t)
               \/ CanWriteRetest(t)
               \/ StoreMax(t) \/ flushTo(t) \/ quietAll(t) \/ PollRptr(t) \/ Return(t)
        PROVE  ChainInv'
    <3>1. ASSUME NEW size \in Sizes, put(t, size) PROVE ChainInv'
      <4>1. /\ UNCHANGED <<cachedWptr, committedWptr>>
            /\ \A u \in Threads \ {t} : th'[u] = th[u]
            /\ ~Holds(t) /\ ~Holds(t)'
          BY <2>1, <3>1 DEF put, Holds, ThreadStates
      <4> QED
          BY <4>1, ChainKept DEF Holds
    <3>3. CASE CanWriteCached(t) \/ ReadRptr(t) \/ StoreRptr(t) \/ CanWriteRetest(t)
      <4>1. /\ UNCHANGED <<cachedWptr, committedWptr>>
            /\ \A u \in Threads \ {t} : th'[u] = th[u]
            /\ ~Holds(t) /\ ~Holds(t)'
          BY <2>1, <3>3 DEF CanWriteCached, ReadRptr, StoreRptr, CanWriteRetest,
             Goto, Holds, ThreadStates
      <4> QED
          BY <4>1, ChainKept DEF Holds
    <3>2. CASE StoreMax(t) \/ flushTo(t) \/ quietAll(t) \/ PollRptr(t) \/ Return(t)
      <4>1. /\ UNCHANGED <<cachedWptr, committedWptr>>
            /\ \A u \in Threads \ {t} : th'[u] = th[u]
            /\ ~Holds(t) /\ ~Holds(t)'
          BY <2>1, <3>2 DEF StoreMax, flushTo, quietAll, PollRptr, Return, Goto,
             Holds, ThreadStates, IdleThread
      <4> QED
          BY <4>1, ChainKept DEF Holds
    <3>4. CASE LoadIndex(t)
      <4>1. /\ UNCHANGED <<cachedWptr, committedWptr>>
            /\ \A u \in Threads \ {t} : th'[u] = th[u]
            /\ th[t].pc = "load" /\ th'[t].pc = "can_write"
          BY <2>1, <3>4 DEF LoadIndex, ThreadStates
      <4> QED
          BY <4>1, ChainKept DEF Holds
    <3> QED
        BY <2>3, <3>1, <3>2, <3>3, <3>4
  <2>4. ASSUME NEW t \in Threads, placePacket(t) \/ submitPacket(t) \/ RingDoorbell(t)
        PROVE  ChainInv'
    <3>1. /\ UNCHANGED <<cachedWptr, committedWptr>>
          /\ \A u \in Threads \ {t} : th'[u] = th[u]
          /\ Holds(t) /\ Holds(t)'
          /\ th'[t].cur_index = th[t].cur_index /\ th'[t].new_index = th[t].new_index
        BY <2>1, <2>4 DEF placePacket, submitPacket, RingDoorbell, Goto, Holds,
           ThreadStates
    <3> QED
        BY <3>1, ChainKept DEF Holds
  <2> QED
      BY <2>2, <2>3, <2>4, ReserveKeepsChain, CommitKeepsChain DEF Next, Step
<1>3. ChainInv => TurnIsHeld
    BY DEF ChainInv
<1> QED
    BY <1>1, <1>2, <1>3, QueueInductive, PTL DEF Spec

(* What a thread that flushes waits for is the end of its last put.        *)
FlushInv ==
    \A t \in Threads :
        /\ th[t].pc = "flush" => th[t].target = th[t].submitted
        /\ th[t].pc = "flushed" => rptr >= th[t].submitted

(* flushTo returns only after the engine has consumed the caller's last    *)
(* put, whatever the other threads reserve and submit meanwhile.           *)
THEOREM QueueFlushCovers == Spec => []FlushCoversPut
<1>1. Init => FlushInv
  <2> SUFFICES ASSUME Init, NEW t \in Threads
               PROVE  th[t].pc \notin {"flush", "flushed"}
      BY DEF FlushInv
  <2>1. th[t].pc = "idle"
      BY DEF Init, IdleThread
  <2> QED
      BY <2>1
<1>2. QueueInv /\ FlushInv /\ [Next]_vars => FlushInv'
  <2> SUFFICES ASSUME QueueInv, FlushInv, [Next]_vars, NEW u \in Threads
               PROVE  /\ th'[u].pc = "flush" => th'[u].target = th'[u].submitted
                      /\ th'[u].pc = "flushed" => rptr' >= th'[u].submitted
      BY DEF FlushInv
  <2>1. /\ th \in [Threads -> ThreadStates] /\ rptr \in Nat
        /\ th[u].target \in Nat /\ th[u].submitted \in Nat
      BY DEF QueueInv, TypeOK, ThreadStates
  <2>2. /\ th[u].pc = "flush" => th[u].target = th[u].submitted
        /\ th[u].pc = "flushed" => rptr >= th[u].submitted
      BY DEF FlushInv
  <2>3. CASE UNCHANGED vars
      BY <2>2, <2>3 DEF vars, regs
  <2>4. CASE Consume
      BY <2>1, <2>2, <2>4 DEF Consume
  <2>5. ASSUME NEW t \in Threads, NEW size \in Sizes, put(t, size)
        PROVE  /\ th'[u].pc = "flush" => th'[u].target = th'[u].submitted
               /\ th'[u].pc = "flushed" => rptr' >= th'[u].submitted
      BY <2>1, <2>2, <2>5 DEF put, regs
  <2>6. ASSUME NEW t \in Threads, flushTo(t) \/ quietAll(t) \/ Step(t)
        PROVE  /\ th'[u].pc = "flush" => th'[u].target = th'[u].submitted
               /\ th'[u].pc = "flushed" => rptr' >= th'[u].submitted
    <3>1. rptr' = rptr
        BY <2>6 DEF flushTo, quietAll, Step, LoadIndex, CanWriteCached, ReadRptr,
                    StoreRptr, CanWriteRetest, CompareExchange, placePacket,
                    submitPacket, RingDoorbell, Commit, StoreMax, PollRptr,
                    Return, regs
    <3>2. CASE t # u
      <4>1. th'[u] = th[u]
          BY <2>1, <2>6, <3>2
             DEF flushTo, quietAll, Step, LoadIndex, CanWriteCached, ReadRptr,
                 StoreRptr, CanWriteRetest, CompareExchange, placePacket,
                 submitPacket, RingDoorbell, Commit, StoreMax, PollRptr,
                 Return, Goto
      <4> QED
          BY <2>2, <3>1, <4>1
    <3>3. CASE t = u /\ PollRptr(u)
      <4>1. /\ th'[u].pc = IF th[u].pc = "flush" THEN "flushed" ELSE "quieted"
            /\ th'[u].submitted = th[u].submitted /\ rptr >= th[u].target
          BY <2>1, <3>3 DEF PollRptr, Goto
      <4> QED
          BY <2>2, <3>1, <4>1
    <3>4. CASE t = u /\ flushTo(u)
        BY <2>1, <3>4 DEF flushTo
    <3>5. CASE t = u /\ ~PollRptr(u) /\ ~flushTo(u)
      <4>1. quietAll(u) => th'[u].pc = "quiet"
          BY <2>1 DEF quietAll
      <4>2. LoadIndex(u) => th'[u].pc = "can_write"
          BY <2>1 DEF LoadIndex
      <4>3. CanWriteCached(u) => th'[u].pc = "cas" \/ th'[u].pc = "read_rptr"
          BY <2>1 DEF CanWriteCached, Goto
      <4>4. ReadRptr(u) => th'[u].pc = "store_rptr"
          BY <2>1 DEF ReadRptr
      <4>5. StoreRptr(u) => th'[u].pc = "retest"
          BY <2>1 DEF StoreRptr
      <4>6. CanWriteRetest(u) => th'[u].pc = "cas" \/ th'[u].pc = "load"
          BY <2>1 DEF CanWriteRetest, Goto
      <4>7. CompareExchange(u) => th'[u].pc = "place" \/ th'[u].pc = "load"
        <5>1. \A l : Goto(u, l) => th'[u].pc = l
            BY <2>1 DEF Goto
        <5>2. CompareExchange(u) => Goto(u, "place") \/ Goto(u, "load")
            BY Zenon DEF CompareExchange
        <5> QED
            BY <5>1, <5>2
      <4>8. placePacket(u) => th'[u].pc = "submit"
          BY <2>1 DEF placePacket, Goto
      <4>9. submitPacket(u) => th'[u].pc = "doorbell"
          BY <2>1 DEF submitPacket, Goto
      <4>10. RingDoorbell(u) => th'[u].pc = "commit"
          BY <2>1 DEF RingDoorbell, Goto
      <4>11. Commit(u) => th'[u].pc = "max"
          BY <2>1 DEF Commit, Goto
      <4>12. StoreMax(u) => th'[u].pc = "idle"
          BY <2>1 DEF StoreMax, IdleThread
      <4>13. Return(u) => th'[u].pc = "idle"
          BY <2>1 DEF Return
      <4> QED
          BY <2>6, <3>5, <4>1, <4>2, <4>3, <4>4, <4>5, <4>6,
             <4>7, <4>8, <4>9, <4>10, <4>11, <4>12, <4>13 DEF Step
    <3> QED
        BY <3>2, <3>3, <3>4, <3>5
  <2> QED
      BY <2>3, <2>4, <2>5, <2>6 DEF Next
<1>3. FlushInv => FlushCoversPut
    BY DEF FlushInv, FlushCoversPut
<1> QED
    BY <1>1, <1>2, <1>3, QueueInductive, PTL DEF Spec
-----------------------------------------------------------------------------
(* The contexts that share such queues (SdmaPolicy): constants and state.  *)
CONSTANTS CtxOf, WfOf, PEs, NumChannels, SpreadChannels, MaxPuts
VARIABLES sent, done, sdmaDirty, caller, todo, awaited, issued

P == INSTANCE SdmaPolicy WITH th <- caller, target <- awaited

(* No two threads use the same context at a time.                          *)
OneThreadPerContext ==
    \A t, u \in Threads : CtxOf[t] = CtxOf[u] => t = u

(* Every set of naturals that is not empty has a least element.            *)
LEMMA LeastNatural ==
    ASSUME NEW T \in SUBSET Nat, T # {}
    PROVE  \E n \in T : \A m \in T : n <= m
<1> DEFINE Below(n) == 0..(n - 1)
           B == {Below(n) : n \in T}
           R == StrictSubsetOrdering(Nat)
           F == FiniteSubsetsOf(Nat)
<1>1. IsWellFoundedOn(R, F)
  BY FS_StrictSubsetOrderingWellFounded
<1>2. B \subseteq F
  <2>1. ASSUME NEW n \in T PROVE Below(n) \in F
    <3>1. Below(n) \subseteq Nat
      OBVIOUS
    <3>2. IsFiniteSet(Below(n))
      BY FS_Interval
    <3> QED
      BY <3>1, <3>2 DEF FiniteSubsetsOf
  <2> HIDE DEF F, Below
  <2> QED
    BY <2>1
<1>3. B # {}
  <2>1. PICK n : n \in T
    BY Zenon
  <2>2. Below(n) \in B
    <3> HIDE DEF Below
    <3> QED
      BY <2>1
  <2> QED
    BY <2>2
<1>4. PICK b \in B : \A c \in B : ~(<<c, b>> \in R)
  <2> HIDE DEF B, R, F
  <2> QED
    BY <1>1, <1>2, <1>3, WFMin, Zenon
<1>5. PICK n \in T : b = Below(n)
  BY <1>4
<1>6. ASSUME NEW m \in T PROVE n <= m
  <2>1. ~(<<Below(m), Below(n)>> \in R)
    <3>1. Below(m) \in B
      <4> HIDE DEF Below
      <4> QED
        OBVIOUS
    <3> HIDE DEF B, R, Below
    <3> QED
      BY <1>4, <1>5, <3>1
  <2>2. SUFFICES ASSUME m < n PROVE FALSE
    BY <1>5
  <2>3. Below(m) \subseteq Below(n) /\ Below(n) \subseteq Nat /\ Below(m) \subseteq Nat
    BY <1>5, <2>2
  <2>4. m \in Below(n) /\ m \notin Below(m)
    BY <1>5, <2>2
  <2>5. Below(m) # Below(n)
    BY <2>4
  <2> HIDE DEF Below
  <2> QED
    BY <2>1, <2>3, <2>5 DEF StrictSubsetOrdering
<1> QED
  BY <1>5, <1>6

Bit(qu) == qu[1] * NumChannels + qu[2]

(* There is a lowest bit among those set.                                  *)
LEMMA FirstBitIsSet ==
    ASSUME P!PolicyAssumption, NEW S \in SUBSET P!Queues, S # {}
    PROVE  P!FirstBit(S) \in S
<1>1. ASSUME NEW qu \in P!Queues PROVE Bit(qu) \in Nat
  <2>1. PICK p \in PEs, c \in P!Channels : qu = <<p, c>>
    BY DEF P!Queues
  <2>2. p \in Nat /\ c \in Nat /\ NumChannels \in Nat
    BY DEF P!PolicyAssumption, P!Channels
  <2>3. p * NumChannels \in Nat
    BY <2>2
  <2> QED
    BY <2>1, <2>2, <2>3 DEF Bit
<1> DEFINE T == {Bit(qu) : qu \in S}
<1>2. T \subseteq Nat
  BY <1>1
<1>3. T # {}
  <2>1. PICK qu : qu \in S
    BY Zenon
  <2>2. Bit(qu) \in T
    BY <2>1
  <2> QED
    BY <2>2
<1>4. PICK n \in T : \A m \in T : n <= m
  <2> HIDE DEF T
  <2> QED
    BY <1>2, <1>3, LeastNatural
<1>5. PICK qu \in S : n = Bit(qu)
  BY <1>4
<1>6. \A o \in S : Bit(qu) <= Bit(o)
  BY <1>4, <1>5
<1> QED
  BY <1>6 DEF P!FirstBit, Bit

(* The channel chosen is one of the channels there are.                    *)
LEMMA ChannelInRange ==
    ASSUME P!PolicyAssumption, NEW t \in Threads
    PROVE  P!effective_channel(t) \in P!Channels
<1> DEFINE a == (CtxOf[t] % NumChannels) + P!sdmaChannelStride(CtxOf[t]) * WfOf[t]
<1>1. NumChannels \in Nat \ {0} /\ CtxOf[t] \in Nat /\ WfOf[t] \in Nat
  BY DEF P!PolicyAssumption
<1>2. P!sdmaChannelStride(CtxOf[t]) \in {0, 1}
  BY DEF P!sdmaChannelStride
<1>3. P!sdmaChannelStride(CtxOf[t]) * WfOf[t] \in Nat
  BY <1>1, <1>2
<1>4. CtxOf[t] % NumChannels \in Nat
  BY <1>1
<1>5. a \in Nat
  BY <1>3, <1>4
<1>6. a % NumChannels \in 0..(NumChannels - 1)
  <2> HIDE DEF a
  <2> QED
    BY <1>1, <1>5
<1> QED
  BY <1>6 DEF P!effective_channel, P!Channels
-----------------------------------------------------------------------------
Draining == {"drain", "poll"}
Copies == {"copy", "copy_blocking"}

(* What a thread waits for: only while it drains, and up to its own last   *)
(* packet at least.  A quiet has cleared the marks of the queues it looks  *)
(* at, and only the thread itself could set them again.                    *)
ThreadOK(t) ==
    /\ todo[t] # {} => caller[t].pc \in Draining
    /\ caller[t].pc = "poll" =>
         todo[t] # {} /\ awaited[t] >= issued[t][P!FirstBit(todo[t])]
    /\ caller[t].pc = "put" => caller[t].call \in Copies
    /\ caller[t].pc = "mark" => caller[t].call = "copy"
    /\ caller[t].pc \in {"test", "take"} => caller[t].call \notin Copies
    /\ caller[t].pc \in Draining /\ caller[t].call \notin Copies
         => P!MyDirty(t) \cap P!mask(t) = {}
    /\ caller[t].pc \in Draining /\ caller[t].call \in Copies
         => caller[t].call = "copy_blocking"
            /\ (P!MyQueue(t) \notin todo[t] =>
                  done[P!MyQueue(t)] >= issued[t][P!MyQueue(t)])

PacketsOK ==
    \A qu \in P!Queues : /\ done[qu] <= sent[qu]
                         /\ \A t \in Threads : issued[t][qu] <= sent[qu]

(* The properties, thread by thread.                                       *)
Remembered(t) ==
    \A qu \in P!Queues : done[qu] < issued[t][qu] =>
        \/ qu \in P!MyDirty(t) \/ qu \in todo[t]
        \/ caller[t].pc = "mark" /\ qu = P!MyQueue(t)
Covered(t) ==
    /\ caller[t].pc = "returned" /\ caller[t].call \notin Copies
         => \A qu \in P!mask(t) : done[qu] >= issued[t][qu]
    /\ caller[t].pc = "returned" /\ caller[t].call = "copy_blocking"
         => done[P!MyQueue(t)] >= issued[t][P!MyQueue(t)]

Good(t) == ThreadOK(t) /\ Remembered(t) /\ Covered(t)
PolicyInv == P!TypeOK /\ PacketsOK /\ \A t \in Threads : Good(t)

(* The invariant holds initially.                                          *)
LEMMA PolicyInit ==
    ASSUME P!PolicyAssumption, P!Init
    PROVE  PolicyInv
<1>1. P!TypeOK
  BY DEF P!PolicyAssumption, P!Init, P!TypeOK, P!Calls
<1>2. PacketsOK
  BY DEF P!Init, PacketsOK
<1>3. ASSUME NEW t \in Threads PROVE Good(t)
  BY DEF P!Init, Good, ThreadOK, Remembered, Covered, Draining
<1> QED
  BY <1>1, <1>2, <1>3 DEF PolicyInv

(* A thread stays as it is while others act: their marks are in other      *)
(* contexts, and what is consumed stays consumed.                          *)
LEMMA ThreadFrame ==
    ASSUME P!TypeOK, P!TypeOK', NEW u \in Threads, Good(u), P!PolicyAssumption,
           caller'[u] = caller[u], todo'[u] = todo[u], awaited'[u] = awaited[u],
           issued'[u] = issued[u], sdmaDirty'[CtxOf[u]] = sdmaDirty[CtxOf[u]],
           \A qu \in P!Queues : done[qu] <= done'[qu]
    PROVE  Good(u)'
<1>0. /\ \A qu \in P!Queues : done[qu] \in Nat /\ done'[qu] \in Nat /\ issued[u][qu] \in Nat
      /\ caller[u].pe \in PEs
  BY DEF P!TypeOK, P!PolicyAssumption
<1>1. /\ P!MyQueue(u)' = P!MyQueue(u) /\ P!MyDirty(u)' = P!MyDirty(u)
      /\ P!mask(u)' = P!mask(u)
      /\ P!MyQueue(u) \in P!Queues
  BY <1>0, ChannelInRange DEF P!MyQueue, P!MyDirty, P!mask, P!Queues
<1>2. ThreadOK(u)'
  <2>1. P!FirstBit(todo[u])' = P!FirstBit(todo[u])
    OBVIOUS
  <2>2. done[P!MyQueue(u)] >= issued[u][P!MyQueue(u)]
          => done'[P!MyQueue(u)] >= issued'[u][P!MyQueue(u)]
    BY <1>0, <1>1
  <2>3. ThreadOK(u)
    BY DEF Good
  <2> QED
    BY <1>1, <2>1, <2>2, <2>3 DEF ThreadOK
<1>3. Remembered(u)'
  <2>1. ASSUME NEW qu \in P!Queues, done'[qu] < issued[u][qu]
        PROVE  done[qu] < issued[u][qu]
    BY <1>0, <2>1
  <2>2. Remembered(u)
    BY DEF Good
  <2> QED
    BY <1>1, <2>1, <2>2 DEF Remembered
<1>4. Covered(u)'
  <2>1. \A qu \in P!mask(u) : qu \in P!Queues
    BY DEF P!mask
  <2> QED
    BY <1>0, <1>1, <2>1 DEF Good, Covered
<1> QED
  BY <1>2, <1>3, <1>4 DEF Good

(* The same for all threads but t.                                         *)
LEMMA OthersKept ==
    ASSUME PolicyInv, P!TypeOK', P!PolicyAssumption, OneThreadPerContext,
           NEW t \in Threads,
           \A u \in Threads \ {t} :
              /\ caller'[u] = caller[u] /\ todo'[u] = todo[u]
              /\ awaited'[u] = awaited[u]
              /\ issued'[u] = issued[u],
           \A c \in P!Contexts : c # CtxOf[t] => sdmaDirty'[c] = sdmaDirty[c],
           done' = done,
           Good(t)'
    PROVE  \A u \in Threads : Good(u)'
<1> SUFFICES ASSUME NEW u \in Threads, u # t PROVE Good(u)'
  OBVIOUS
<1>1. CtxOf[u] \in P!Contexts /\ CtxOf[u] # CtxOf[t]
  BY DEF P!Contexts, OneThreadPerContext
<1>2. \A qu \in P!Queues : done[qu] <= done'[qu]
  BY DEF PolicyInv, P!TypeOK
<1> QED
  BY <1>1, <1>2, ThreadFrame DEF PolicyInv
-----------------------------------------------------------------------------
PCs == {"idle", "put", "mark", "test", "take", "drain", "poll", "returned"}

(* What moving a thread changes.                                           *)
LEMMA GotoType ==
    ASSUME P!TypeOK, NEW t \in Threads, NEW pc \in PCs, P!Goto(t, pc)
    PROVE  /\ caller' \in [Threads -> [pc : PCs, call : P!Calls, pe : PEs]]
           /\ caller'[t].pc = pc /\ caller'[t].call = caller[t].call
           /\ caller'[t].pe = caller[t].pe
           /\ \A u \in Threads \ {t} : caller'[u] = caller[u]
<1>1. caller \in [Threads -> [pc : PCs, call : P!Calls, pe : PEs]]
  BY DEF P!TypeOK, PCs
<1> QED
  BY <1>1 DEF P!Goto

(* Every thread has a context.                                             *)
LEMMA ContextOf ==
    ASSUME NEW t \in Threads
    PROVE  CtxOf[t] \in P!Contexts
BY DEF P!Contexts

(* Steps that only move a thread.                                          *)
LEMMA MoveStep ==
    ASSUME PolicyInv, P!PolicyAssumption, OneThreadPerContext, NEW t \in Threads,
           \/ \E call \in P!Calls, pe \in PEs : P!Call(t, call, pe)
           \/ P!ipcQuiet(t) \/ P!Drained(t) \/ P!Return(t)
    PROVE  PolicyInv'
<1>0. /\ P!TypeOK /\ Good(t) /\ PacketsOK /\ 0 \in PEs
      /\ \A qu \in P!Queues : done[qu] \in Nat /\ issued[t][qu] \in Nat
  BY DEF PolicyInv, P!PolicyAssumption, P!TypeOK
<1>1. /\ UNCHANGED <<sent, done, sdmaDirty, todo, awaited, issued>>
      /\ \A u \in Threads \ {t} : caller'[u] = caller[u]
  BY <1>0 DEF P!Call, P!ipcQuiet, P!Drained, P!Return, P!Goto, P!TypeOK
<1>2. P!TypeOK'
  <2>1. caller \in [Threads -> [pc : PCs, call : P!Calls, pe : PEs]]
    BY <1>0 DEF P!TypeOK, PCs
  <2>2. ASSUME NEW r \in [pc : PCs, call : P!Calls, pe : PEs]
        PROVE  [caller EXCEPT ![t] = r] \in [Threads -> [pc : PCs, call : P!Calls, pe : PEs]]
    BY <2>1
  <2>3. ASSUME NEW call \in P!Calls, NEW pe \in PEs, P!Call(t, call, pe)
        PROVE  caller' \in [Threads -> [pc : PCs, call : P!Calls, pe : PEs]]
    <3>1. [call |-> call, pe |-> pe, pc |->
             IF call \in {"copy", "copy_blocking"} THEN "put" ELSE "test"]
            \in [pc : PCs, call : P!Calls, pe : PEs]
      BY DEF PCs
    <3> QED
      BY <2>2, <2>3, <3>1, Zenon DEF P!Call
  <2>4. ASSUME P!Return(t)
        PROVE  caller' \in [Threads -> [pc : PCs, call : P!Calls, pe : PEs]]
    <3>1. [pc |-> "idle", call |-> "quiet", pe |-> 0]
            \in [pc : PCs, call : P!Calls, pe : PEs]
      BY <1>0 DEF PCs, P!Calls
    <3> QED
      BY <2>2, <2>4, <3>1, Zenon DEF P!Return
  <2>5. ASSUME P!ipcQuiet(t) \/ P!Drained(t)
        PROVE  caller' \in [Threads -> [pc : PCs, call : P!Calls, pe : PEs]]
    <3>1. P!Goto(t, "returned") \/ P!Goto(t, "take")
      BY <2>5 DEF P!ipcQuiet, P!Drained
    <3> QED
      BY <1>0, <3>1, GotoType DEF PCs
  <2>6. caller' \in [Threads -> [pc : PCs, call : P!Calls, pe : PEs]]
    BY <2>3, <2>4, <2>5
  <2> QED
    BY <1>0, <1>1, <2>6 DEF P!TypeOK, PCs
<1>3. PacketsOK'
  BY <1>0, <1>1 DEF PacketsOK
<1>4. P!MyDirty(t)' = P!MyDirty(t) /\ \A qu \in P!mask(t) : qu \in P!Queues
  BY <1>1 DEF P!MyDirty, P!mask
<1>5. Good(t)'
  <2>1. CASE \E call \in P!Calls, pe \in PEs : P!Call(t, call, pe)
    <3>1. PICK call \in P!Calls, pe \in PEs : P!Call(t, call, pe)
      BY <2>1
    <3>2. /\ caller[t].pc = "idle" /\ caller'[t].call = call
          /\ caller'[t].pc = IF call \in Copies THEN "put" ELSE "test"
      BY <1>0, <3>1 DEF P!Call, P!TypeOK, Copies
    <3>3. todo[t] = {}
      BY <1>0, <3>2 DEF Good, ThreadOK, Draining
    <3> QED
      BY <1>0, <1>1, <1>4, <3>2, <3>3
         DEF Good, ThreadOK, Remembered, Covered, Draining
  <2>2. CASE P!ipcQuiet(t)
    <3>1. /\ caller[t].pc = "test" /\ caller'[t].call = caller[t].call
          /\ caller'[t].pe = caller[t].pe
          /\ caller'[t].pc = IF P!MyDirty(t) \cap P!mask(t) = {} THEN "returned" ELSE "take"
      BY <1>0, <2>2 DEF P!ipcQuiet, P!Goto, P!TypeOK
    <3>2. todo[t] = {} /\ caller[t].call \notin Copies
      BY <1>0, <3>1 DEF Good, ThreadOK, Draining
    <3>3. P!mask(t)' = P!mask(t)
      BY <3>1 DEF P!mask
    <3>4. P!MyDirty(t) \cap P!mask(t) = {}
             => \A qu \in P!mask(t) : done[qu] >= issued[t][qu]
      BY <1>0, <1>4, <3>1, <3>2 DEF Good, Remembered
    <3>5. Covered(t)'
      BY <1>1, <3>1, <3>2, <3>3, <3>4 DEF Covered, Copies
    <3>6. Remembered(t)'
      BY <1>0, <1>1, <1>4, <3>1, <3>2 DEF Good, Remembered
    <3> QED
      BY <1>1, <3>1, <3>2, <3>5, <3>6 DEF Good, ThreadOK, Draining
  <2>3. CASE P!Drained(t)
    <3>1. /\ caller[t].pc = "drain" /\ caller'[t].call = caller[t].call
          /\ caller'[t].pe = caller[t].pe
          /\ caller'[t].pc = "returned" /\ todo[t] = {}
      BY <1>0, <2>3 DEF P!Drained, P!Goto, P!TypeOK
    <3>2. P!mask(t)' = P!mask(t) /\ P!MyQueue(t)' = P!MyQueue(t)
      BY <3>1 DEF P!mask, P!MyQueue
    <3>3. caller[t].call \notin Copies => \A qu \in P!mask(t) : done[qu] >= issued[t][qu]
      <4> SUFFICES ASSUME caller[t].call \notin Copies, NEW qu \in P!mask(t)
                   PROVE  done[qu] >= issued[t][qu]
        OBVIOUS
      <4>1. P!MyDirty(t) \cap P!mask(t) = {}
        BY <1>0, <3>1 DEF Good, ThreadOK, Draining
      <4>2. qu \in P!Queues /\ qu \notin P!MyDirty(t) /\ qu \notin todo[t]
        BY <1>4, <3>1, <4>1
      <4>3. ~(done[qu] < issued[t][qu])
        BY <1>0, <3>1, <4>2 DEF Good, Remembered
      <4>4. done[qu] \in Nat /\ issued[t][qu] \in Nat
        BY <1>0, <4>2
      <4> QED
        BY <4>3, <4>4
    <3>4. caller[t].call = "copy_blocking" => done[P!MyQueue(t)] >= issued[t][P!MyQueue(t)]
      BY <1>0, <3>1 DEF Good, ThreadOK, Draining, Copies
    <3>5. Covered(t)'
      BY <1>1, <3>1, <3>2, <3>3, <3>4 DEF Covered
    <3>6. Remembered(t)'
      BY <1>0, <1>1, <1>4, <3>1 DEF Good, Remembered
    <3> QED
      BY <1>1, <3>1, <3>5, <3>6 DEF Good, ThreadOK, Draining
  <2>4. CASE P!Return(t)
    <3>1. caller[t].pc = "returned" /\ caller'[t].pc = "idle"
      BY <1>0, <2>4 DEF P!Return, P!TypeOK
    <3>2. todo[t] = {}
      BY <1>0, <3>1 DEF Good, ThreadOK, Draining
    <3> QED
      BY <1>0, <1>1, <1>4, <3>1, <3>2
         DEF Good, ThreadOK, Remembered, Covered, Draining
  <2> QED
    BY <2>1, <2>2, <2>3, <2>4
<1>6. \A u \in Threads : Good(u)'
  <2>1. \A u \in Threads \ {t} :
           /\ caller'[u] = caller[u] /\ todo'[u] = todo[u] /\ awaited'[u] = awaited[u]
           /\ issued'[u] = issued[u]
    BY <1>1
  <2>2. \A c \in P!Contexts : c # CtxOf[t] => sdmaDirty'[c] = sdmaDirty[c]
    BY <1>1
  <2>3. done' = done
    BY <1>1
  <2> QED
    BY <1>2, <1>5, <2>1, <2>2, <2>3, OthersKept
<1> QED
  BY <1>2, <1>3, <1>6 DEF PolicyInv

(* A copy is remembered from the moment its packet is submitted.           *)
LEMMA PutStep ==
    ASSUME PolicyInv, P!PolicyAssumption, OneThreadPerContext, NEW t \in Threads,
           P!put(t)
    PROVE  PolicyInv'
<1> DEFINE qu == P!MyQueue(t)
<1>0. /\ P!TypeOK /\ Good(t) /\ PacketsOK /\ caller[t].pe \in PEs /\ MaxPuts \in Nat
      /\ \A q \in P!Queues : /\ done[q] \in Nat /\ issued[t][q] \in Nat
                             /\ sent[q] \in Nat
  BY DEF PolicyInv, P!PolicyAssumption, P!TypeOK
<1>1. qu \in P!Queues
  BY <1>0, ChannelInRange DEF P!MyQueue, P!Queues
<1>2. /\ caller[t].pc = "put" /\ sent[qu] < MaxPuts
      /\ sent' = [sent EXCEPT ![qu] = @ + 1]
      /\ issued' = [issued EXCEPT ![t][qu] = sent[qu] + 1]
      /\ UNCHANGED <<done, sdmaDirty, awaited>>
      /\ caller'[t].call = caller[t].call /\ caller'[t].pe = caller[t].pe
      /\ \A u \in Threads \ {t} : caller'[u] = caller[u] /\ todo'[u] = todo[u]
  BY <1>0 DEF P!put, P!Goto, P!TypeOK
<1>3. todo[t] = {} /\ caller[t].call \in Copies
  BY <1>0, <1>2 DEF Good, ThreadOK, Draining
<1>4. /\ caller[t].call # "copy_blocking" => caller[t].call = "copy"
      /\ caller[t].call = "copy_blocking" => caller'[t].pc = "drain" /\ todo'[t] = {qu}
      /\ caller[t].call # "copy_blocking" => caller'[t].pc = "mark" /\ todo'[t] = todo[t]
  BY <1>0, <1>3 DEF P!put, P!Goto, P!TypeOK, Copies
<1>5. P!TypeOK'
  <2>1. todo' \in [Threads -> SUBSET P!Queues]
    <3>1. todo' = [todo EXCEPT ![t] = {qu}] \/ todo' = todo
      BY DEF P!put
    <3>2. {qu} \in SUBSET P!Queues
      BY <1>1
    <3> QED
      BY <1>0, <3>1, <3>2, Zenon DEF P!TypeOK
  <2>2. caller' \in [Threads -> [pc : {"idle", "put", "mark", "test", "take", "drain",
                                   "poll", "returned"},
                             call : P!Calls, pe : PEs]]
    <3>1. P!Goto(t, "drain") \/ P!Goto(t, "mark")
      BY DEF P!put
    <3> QED
      BY <1>0, <3>1, GotoType DEF PCs
  <2>3. sent' \in [P!Queues -> 0..MaxPuts] /\ sent[qu] + 1 \in 0..MaxPuts
    BY <1>0, <1>1, <1>2 DEF P!TypeOK
  <2>4. issued' \in [Threads -> [P!Queues -> 0..MaxPuts]]
    BY <1>0, <1>1, <1>2, <2>3 DEF P!TypeOK
  <2> QED
    BY <1>0, <1>2, <2>1, <2>2, <2>3, <2>4 DEF P!TypeOK
<1>6. /\ \A q \in P!Queues : sent'[q] = IF q = qu THEN sent[qu] + 1 ELSE sent[q]
      /\ \A q \in P!Queues : issued'[t][q] = IF q = qu THEN sent[qu] + 1 ELSE issued[t][q]
      /\ \A u \in Threads \ {t} : issued'[u] = issued[u]
  BY <1>0, <1>1, <1>2 DEF P!TypeOK
<1>7. PacketsOK'
  <2> SUFFICES ASSUME NEW q \in P!Queues
               PROVE  /\ done'[q] <= sent'[q]
                      /\ \A u \in Threads : issued'[u][q] <= sent'[q]
    BY DEF PacketsOK
  <2>1. done[q] <= sent[q] /\ \A u \in Threads : issued[u][q] <= sent[q] /\ issued[u][q] \in Nat
    BY <1>0 DEF PacketsOK, P!TypeOK
  <2> QED
    BY <1>0, <1>2, <1>6, <2>1
<1>8. P!MyQueue(t)' = qu /\ P!MyDirty(t)' = P!MyDirty(t)
  BY <1>2 DEF P!MyQueue, P!MyDirty
<1>9. Good(t)'
  <2>1. Remembered(t)'
    BY <1>0, <1>1, <1>2, <1>3, <1>4, <1>6, <1>8 DEF Good, Remembered, Copies
  <2>2. ThreadOK(t)' /\ Covered(t)'
    BY <1>2, <1>3, <1>4, <1>8 DEF ThreadOK, Covered, Copies, Draining
  <2> QED
    BY <2>1, <2>2 DEF Good
<1>10. \A u \in Threads : Good(u)'
  <2>1. \A u \in Threads \ {t} :
           /\ caller'[u] = caller[u] /\ todo'[u] = todo[u] /\ awaited'[u] = awaited[u]
           /\ issued'[u] = issued[u]
    BY <1>2, <1>6
  <2>2. \A c \in P!Contexts : c # CtxOf[t] => sdmaDirty'[c] = sdmaDirty[c]
    BY <1>2
  <2>3. done' = done
    BY <1>2
  <2> QED
    BY <1>5, <1>9, <2>1, <2>2, <2>3, OthersKept
<1> QED
  BY <1>5, <1>7, <1>10 DEF PolicyInv

(* Marking a PE remembers the copy just submitted.                         *)
LEMMA MarkStep ==
    ASSUME PolicyInv, P!PolicyAssumption, OneThreadPerContext, NEW t \in Threads,
           P!mark(t)
    PROVE  PolicyInv'
<1>0. /\ P!TypeOK /\ Good(t) /\ PacketsOK /\ caller[t].pe \in PEs
      /\ CtxOf[t] \in P!Contexts
  BY ContextOf DEF PolicyInv, P!TypeOK
<1>1. P!MyQueue(t) \in P!Queues
  BY <1>0, ChannelInRange DEF P!MyQueue, P!Queues
<1>2. /\ caller[t].pc = "mark" /\ UNCHANGED <<sent, done, todo, awaited, issued>>
      /\ caller'[t].pc = "returned" /\ caller'[t].call = caller[t].call
      /\ \A u \in Threads \ {t} : caller'[u] = caller[u]
  BY <1>0 DEF P!mark, P!Goto, P!TypeOK
<1>3. P!TypeOK'
  BY <1>0, <1>1 DEF P!mark, P!Goto, P!TypeOK
<1>4. /\ P!MyDirty(t)' = P!MyDirty(t) \cup {P!MyQueue(t)}
      /\ \A c \in P!Contexts : c # CtxOf[t] => sdmaDirty'[c] = sdmaDirty[c]
  BY <1>0 DEF P!mark, P!MyDirty, P!TypeOK
<1>5. PacketsOK'
  BY <1>0, <1>2 DEF PacketsOK
<1>6. Good(t)'
  <2>1. todo[t] = {} /\ caller[t].call = "copy"
    BY <1>0, <1>2 DEF Good, ThreadOK, Draining
  <2>2. Remembered(t)'
    BY <1>0, <1>2, <1>4 DEF Good, Remembered
  <2> QED
    BY <1>2, <2>1, <2>2 DEF Good, ThreadOK, Covered, Draining, Copies
<1>7. \A u \in Threads : Good(u)'
  <2>1. \A u \in Threads \ {t} :
           /\ caller'[u] = caller[u] /\ todo'[u] = todo[u] /\ awaited'[u] = awaited[u]
           /\ issued'[u] = issued[u]
    BY <1>2
  <2>2. done' = done
    BY <1>2
  <2> QED
    BY <1>3, <1>4, <1>6, <2>1, <2>2, OthersKept
<1> QED
  BY <1>3, <1>5, <1>7 DEF PolicyInv

(* The marks that are cleared are those that will be waited for.           *)
LEMMA TakeStep ==
    ASSUME PolicyInv, P!PolicyAssumption, OneThreadPerContext, NEW t \in Threads,
           P!take(t)
    PROVE  PolicyInv'
<1>0. /\ P!TypeOK /\ Good(t) /\ PacketsOK /\ CtxOf[t] \in P!Contexts
      /\ P!MyDirty(t) \in SUBSET P!Queues
  BY ContextOf DEF PolicyInv, P!TypeOK, P!MyDirty
<1>1. /\ caller[t].pc = "take" /\ UNCHANGED <<sent, done, awaited, issued>>
      /\ caller'[t].pc = "drain" /\ caller'[t].call = caller[t].call
      /\ caller'[t].pe = caller[t].pe
      /\ todo'[t] = P!MyDirty(t) \cap P!mask(t)
      /\ \A u \in Threads \ {t} : caller'[u] = caller[u] /\ todo'[u] = todo[u]
  BY <1>0 DEF P!take, P!Goto, P!TypeOK
<1>2. P!TypeOK'
  <2>1. P!MyDirty(t) \cap P!mask(t) \in SUBSET P!Queues
        /\ sdmaDirty[CtxOf[t]] \ P!mask(t) \in SUBSET P!Queues
    BY <1>0 DEF P!MyDirty
  <2>2. caller' \in [Threads -> [pc : PCs, call : P!Calls, pe : PEs]]
    BY <1>0, GotoType DEF P!take, PCs
  <2>3. /\ todo' \in [Threads -> SUBSET P!Queues]
        /\ sdmaDirty' \in [P!Contexts -> SUBSET P!Queues]
    BY <1>0, <2>1 DEF P!take, P!TypeOK
  <2> QED
    BY <1>0, <1>1, <2>2, <2>3 DEF P!TypeOK, PCs
<1>3. /\ P!MyDirty(t)' = P!MyDirty(t) \ P!mask(t)
      /\ \A c \in P!Contexts : c # CtxOf[t] => sdmaDirty'[c] = sdmaDirty[c]
      /\ P!mask(t)' = P!mask(t)
  BY <1>0, <1>1 DEF P!take, P!MyDirty, P!mask, P!TypeOK
<1>4. PacketsOK'
  BY <1>0, <1>1 DEF PacketsOK
<1>5. Good(t)'
  <2>1. todo[t] = {} /\ caller[t].call \notin Copies
    BY <1>0, <1>1 DEF Good, ThreadOK, Draining
  <2>2. Remembered(t)'
    <3>1. ASSUME NEW q \in P!Queues, done[q] < issued[t][q]
          PROVE  q \in P!MyDirty(t)
      BY <1>0, <1>1, <2>1, <3>1 DEF Good, Remembered
    <3>2. ASSUME NEW q \in P!Queues, done[q] < issued[t][q]
          PROVE  q \in P!MyDirty(t)' \/ q \in todo'[t]
      BY <1>1, <1>3, <3>1, <3>2
    <3> QED
      BY <1>1, <3>2 DEF Remembered
  <2> QED
    BY <1>1, <1>3, <2>1, <2>2 DEF Good, ThreadOK, Covered, Draining
<1>6. \A u \in Threads : Good(u)'
  <2>1. \A u \in Threads \ {t} :
           /\ caller'[u] = caller[u] /\ todo'[u] = todo[u] /\ awaited'[u] = awaited[u]
           /\ issued'[u] = issued[u]
    BY <1>1
  <2>2. done' = done
    BY <1>1
  <2> QED
    BY <1>2, <1>3, <1>5, <2>1, <2>2, OthersKept
<1> QED
  BY <1>2, <1>4, <1>6 DEF PolicyInv

(* The target of a drain covers the caller's last packet on the queue.     *)
LEMMA DrainStep ==
    ASSUME PolicyInv, P!PolicyAssumption, OneThreadPerContext, NEW t \in Threads,
           P!quietAll(t) \/ P!PollRptr(t)
    PROVE  PolicyInv'
<1> DEFINE first == P!FirstBit(todo[t])
<1>0. /\ P!TypeOK /\ Good(t) /\ PacketsOK
      /\ \A q \in P!Queues : done[q] \in Nat /\ issued[t][q] \in Nat /\ sent[q] \in 0..MaxPuts
      /\ todo[t] \in SUBSET P!Queues /\ awaited[t] \in Nat /\ MaxPuts \in Nat
      /\ caller[t].pe \in PEs
  BY DEF PolicyInv, P!TypeOK, P!PolicyAssumption
<1>1. todo[t] # {}
  BY <1>0 DEF P!quietAll, P!PollRptr, Good, ThreadOK
<1>2. first \in todo[t] /\ first \in P!Queues
  BY <1>0, <1>1, FirstBitIsSet
<1> HIDE DEF first
<1>3. /\ UNCHANGED <<sent, done, sdmaDirty, issued>>
      /\ caller'[t].call = caller[t].call /\ caller'[t].pe = caller[t].pe
      /\ caller[t].pc \in Draining /\ caller'[t].pc \in Draining
      /\ \A u \in Threads \ {t} :
            caller'[u] = caller[u] /\ todo'[u] = todo[u] /\ awaited'[u] = awaited[u]
  BY <1>0 DEF P!quietAll, P!PollRptr, P!Goto, P!TypeOK, Draining
<1>4. P!TypeOK'
  <2>1. sent[first] \in 0..MaxPuts /\ 0 \in 0..MaxPuts
        /\ todo[t] \ {first} \in SUBSET P!Queues
    BY <1>0, <1>2
  <2>2. caller' \in [Threads -> [pc : PCs, call : P!Calls, pe : PEs]]
    BY <1>0, GotoType DEF P!quietAll, P!PollRptr, PCs
  <2>3. /\ todo' \in [Threads -> SUBSET P!Queues]
        /\ awaited' \in [Threads -> 0..MaxPuts]
    <3>1. CASE P!quietAll(t)
      <4>1. UNCHANGED todo /\ awaited' = [awaited EXCEPT ![t] = sent[first]]
        BY <3>1 DEF P!quietAll, first
      <4> QED
        BY <1>0, <2>1, <4>1 DEF P!TypeOK
    <3>2. CASE P!PollRptr(t)
      <4>1. /\ todo' = [todo EXCEPT ![t] = todo[t] \ {first}]
            /\ awaited' = [awaited EXCEPT ![t] = 0]
        BY <3>2 DEF P!PollRptr, first
      <4> QED
        BY <1>0, <2>1, <4>1 DEF P!TypeOK
    <3> QED
      BY <3>1, <3>2
  <2> QED
    BY <1>0, <1>3, <2>2, <2>3 DEF P!TypeOK, PCs
<1>5. /\ P!MyQueue(t)' = P!MyQueue(t) /\ P!MyDirty(t)' = P!MyDirty(t)
      /\ P!mask(t)' = P!mask(t)
      /\ P!MyQueue(t) \in P!Queues
  BY <1>0, <1>3, ChannelInRange DEF P!MyQueue, P!MyDirty, P!mask, P!Queues
<1>6. PacketsOK'
  BY <1>0, <1>3 DEF PacketsOK
<1>7. Good(t)'
  <2>1. CASE P!quietAll(t)
    <3>1. caller'[t].pc = "poll" /\ todo'[t] = todo[t] /\ awaited'[t] = sent[first]
      BY <1>0, <2>1 DEF P!quietAll, P!Goto, P!TypeOK, first
    <3>2. sent[first] >= issued[t][first]
      BY <1>0, <1>2, SMTT(30) DEF PacketsOK
    <3>3. ThreadOK(t)'
      <4>1. P!FirstBit(todo[t])' = first
        BY <3>1 DEF first
      <4> QED
        BY <1>0, <1>1, <1>3, <1>5, <3>1, <3>2, <4>1 DEF Good, ThreadOK, Draining
    <3>4. Remembered(t)' /\ Covered(t)'
      BY <1>0, <1>3, <1>5, <3>1 DEF Good, Remembered, Covered, Draining
    <3> QED
      BY <3>3, <3>4 DEF Good
  <2>2. CASE P!PollRptr(t)
    <3>1. /\ caller[t].pc = "poll" /\ done[first] >= awaited[t]
          /\ caller'[t].pc = "drain" /\ todo'[t] = todo[t] \ {first}
      BY <1>0, <2>2, SMTT(30) DEF P!PollRptr, P!Goto, P!TypeOK, first
    <3>2. done[first] >= issued[t][first]
      <4>1. awaited[t] >= issued[t][first]
        BY <1>0, <3>1 DEF Good, ThreadOK, first
      <4>2. awaited[t] \in Nat /\ done[first] \in Nat /\ issued[t][first] \in Nat
        BY <1>0, <1>2
      <4>3. done[first] >= awaited[t]
        BY <3>1
      <4>4. ASSUME NEW x \in Nat, NEW y \in Nat, NEW z \in Nat, x >= y, y >= z
            PROVE  x >= z
        BY <4>4
      <4> QED
        BY <4>1, <4>2, <4>3, <4>4, Zenon
    <3>3. ThreadOK(t)'
      <4>1. /\ caller[t].call \notin Copies => P!MyDirty(t) \cap P!mask(t) = {}
            /\ caller[t].call \in Copies => caller[t].call = "copy_blocking"
            /\ caller[t].call \in Copies /\ P!MyQueue(t) \notin todo[t]
                 => done[P!MyQueue(t)] >= issued[t][P!MyQueue(t)]
        BY <1>0, <1>3 DEF Good, ThreadOK
      <4>2. caller[t].call \in Copies /\ P!MyQueue(t) \notin todo'[t]
              => done[P!MyQueue(t)] >= issued[t][P!MyQueue(t)]
        BY <3>1, <3>2, <4>1
      <4> QED
        BY <1>3, <1>5, <3>1, <4>1, <4>2 DEF ThreadOK, Draining
    <3>4. Remembered(t)' /\ Covered(t)'
      <4>1. ASSUME NEW q \in P!Queues, done[q] < issued[t][q]
            PROVE  q \in P!MyDirty(t) \/ q \in todo'[t]
        <5>1. q # first
          BY <1>0, <3>2, <4>1
        <5>2. q \in P!MyDirty(t) \/ q \in todo[t]
          BY <1>0, <3>1, <4>1 DEF Good, Remembered
        <5> QED
          BY <3>1, <5>1, <5>2
      <4>2. Remembered(t)'
        BY <1>3, <1>5, <4>1 DEF Remembered
      <4> QED
        BY <3>1, <4>2 DEF Covered
    <3> QED
      BY <3>3, <3>4 DEF Good
  <2> QED
    BY <2>1, <2>2
<1>8. \A u \in Threads : Good(u)'
  <2>1. \A u \in Threads \ {t} :
           /\ caller'[u] = caller[u] /\ todo'[u] = todo[u] /\ awaited'[u] = awaited[u]
           /\ issued'[u] = issued[u]
    BY <1>3
  <2>2. \A c \in P!Contexts : c # CtxOf[t] => sdmaDirty'[c] = sdmaDirty[c]
    BY <1>3
  <2>3. done' = done
    BY <1>3
  <2> QED
    BY <1>4, <1>7, <2>1, <2>2, <2>3, OthersKept
<1> QED
  BY <1>4, <1>6, <1>8 DEF PolicyInv

(* A copy finished by the engine preserves the invariant.                  *)
LEMMA PolicyConsumes ==
    ASSUME PolicyInv, P!PolicyAssumption, NEW qu \in P!Queues, P!Consume(qu)
    PROVE  PolicyInv'
<1>0. /\ P!TypeOK /\ PacketsOK /\ MaxPuts \in Nat
      /\ \A q \in P!Queues : done[q] \in 0..MaxPuts /\ sent[q] \in 0..MaxPuts
  BY DEF PolicyInv, P!TypeOK, P!PolicyAssumption
<1>1. /\ UNCHANGED <<sent, sdmaDirty, caller, todo, awaited, issued>>
      /\ done[qu] < sent[qu]
      /\ \A q \in P!Queues : done'[q] = IF q = qu THEN done[qu] + 1 ELSE done[q]
  BY <1>0 DEF P!Consume, P!TypeOK
<1>2. P!TypeOK'
  <2>1. done[qu] + 1 \in 0..MaxPuts
    BY <1>0, <1>1
  <2> QED
    BY <1>0, <1>1, <2>1 DEF P!Consume, P!TypeOK
<1>3. PacketsOK'
  BY <1>0, <1>1 DEF PacketsOK
<1>4. \A q \in P!Queues : done[q] <= done'[q]
  BY <1>0, <1>1
<1>5. ASSUME NEW u \in Threads PROVE Good(u)'
  BY <1>0, <1>1, <1>2, <1>4, ThreadFrame DEF PolicyInv
<1> QED
  BY <1>2, <1>3, <1>5 DEF PolicyInv

(* Every step preserves the invariant.                                     *)
LEMMA PolicyNext ==
    ASSUME PolicyInv, P!PolicyAssumption, OneThreadPerContext, [P!Next]_(P!vars)
    PROVE  PolicyInv'
<1>1. CASE UNCHANGED P!vars
  <2>1. P!TypeOK' /\ PacketsOK'
    BY <1>1 DEF PolicyInv, P!vars, P!TypeOK, PacketsOK
  <2>2. ASSUME NEW u \in Threads PROVE Good(u)'
    <3>1. \A q \in P!Queues : done[q] <= done'[q]
      BY <1>1 DEF PolicyInv, P!TypeOK, P!vars
    <3> QED
      BY <1>1, <2>1, <3>1, ThreadFrame DEF PolicyInv, P!vars
  <2> QED
    BY <2>1, <2>2 DEF PolicyInv
<1>2. ASSUME NEW t \in Threads,
             (\E call \in P!Calls, pe \in PEs : P!Call(t, call, pe)) \/ P!Step(t)
      PROVE  PolicyInv'
  BY <1>2, MoveStep, PutStep, MarkStep, TakeStep, DrainStep DEF P!Step
<1> QED
  BY <1>1, <1>2, PolicyConsumes DEF P!Next

(* The invariant implies the three properties.                             *)
LEMMA PolicyIsSafe ==
    ASSUME PolicyInv
    PROVE  P!QuietCoversOwnCopies /\ P!BlockingCopyIsDone /\ P!OutstandingIsRemembered
BY DEF PolicyInv, Good, Covered, Remembered, Copies, P!QuietCoversOwnCopies,
       P!BlockingCopyIsDone, P!OutstandingIsRemembered
-----------------------------------------------------------------------------
(* The inductive invariant of the marks holds, for any number of contexts  *)
(* that are used by one thread each.                                       *)
THEOREM PolicyInductive ==
    ASSUME P!PolicyAssumption, OneThreadPerContext
    PROVE  P!Spec => []PolicyInv
<1>1. P!Init => PolicyInv
  BY PolicyInit
<1>2. PolicyInv /\ [P!Next]_(P!vars) => PolicyInv'
  BY PolicyNext
<1> QED
  BY <1>1, <1>2, PTL DEF P!Spec

(* sdmaQuiet, sdmaQuietAll and the fences return only when the copies the  *)
(* caller made before are consumed, on every queue the call is about,      *)
(* however many contexts share the queues.                                 *)
THEOREM PolicyQuietCovers ==
    ASSUME P!PolicyAssumption, OneThreadPerContext
    PROVE  P!Spec => []P!QuietCoversOwnCopies
<1>1. PolicyInv => P!QuietCoversOwnCopies
  BY PolicyIsSafe
<1> QED
  BY <1>1, PolicyInductive, PTL

(* A blocking sdmaCopy, which sets no mark, has been consumed when it      *)
(* returns.                                                                *)
THEOREM PolicyBlockingIsDone ==
    ASSUME P!PolicyAssumption, OneThreadPerContext
    PROVE  P!Spec => []P!BlockingCopyIsDone
<1>1. PolicyInv => P!BlockingCopyIsDone
  BY PolicyIsSafe
<1> QED
  BY <1>1, PolicyInductive, PTL

(* A copy that is not consumed is marked in its context, about to be, or   *)
(* waited for: no sequence of copies, quiets of one PE and quiets of all   *)
(* loses one.                                                              *)
THEOREM PolicyRemembers ==
    ASSUME P!PolicyAssumption, OneThreadPerContext
    PROVE  P!Spec => []P!OutstandingIsRemembered
<1>1. PolicyInv => P!OutstandingIsRemembered
  BY PolicyIsSafe
<1> QED
  BY <1>1, PolicyInductive, PTL
=============================================================================
