------------------------------ MODULE SdmaQueue ------------------------------
(***************************************************************************)
(* A multi-producer SDMA queue (sdma/anvil_device.hpp): GPU threads        *)
(* reserve ring space with a compare-and-swap, write their packets without *)
(* further synchronisation, and publish them in the order of reservation   *)
(* through committedWptr.  The engine consumes what the doorbell           *)
(* announces.                                                              *)
(*                                                                         *)
(* The unit is one dword; indices grow for ever and select position        *)
(* index % QueueSize.  queueBuf holds, for every position, the index of    *)
(* the dword last written there, which is all the properties need of it.   *)
(***************************************************************************)
EXTENDS Integers

CONSTANTS
    Threads,        \* GPU threads that use the queue
    QueueSize,      \* SDMA_QUEUE_SIZE
    Sizes,          \* dwords of one put: its copy, signal and counter packets
    MaxIndex        \* bound on the write index

ASSUME QueueAssumption ==
    /\ QueueSize \in Nat \ {0} /\ MaxIndex \in Nat
    /\ Sizes \subseteq Nat \ {0}
    /\ \A n \in Sizes : 2 * n <= QueueSize

VARIABLES
    rptr, wptr, doorbell,   \* the engine's registers
    cachedWptr,             \* reserved up to here
    committedWptr,          \* published up to here: whose turn it is
    cachedHwReadIndex,      \* an earlier value of rptr
    maxWritePtr,            \* what quietAll waits for
    queueBuf,
    th                      \* each thread's pc and local variables

regs == <<rptr, wptr, doorbell>>
vars == <<regs, cachedWptr, committedWptr, cachedHwReadIndex, maxWritePtr,
          queueBuf, th>>

Positions == 0..(QueueSize - 1)
WrapIntoRing(index) == index % QueueSize

IdleThread == [pc |-> "idle", size |-> 0, cur_index |-> 0, offset |-> 0,
               new_index |-> 0, target |-> 0, submitted |-> 0]

(* The queue's constructor, on a fresh queue.                              *)
Init ==
    /\ rptr = 0 /\ wptr = 0 /\ doorbell = 0
    /\ cachedWptr = 0 /\ committedWptr = 0
    /\ cachedHwReadIndex = 0 /\ maxWritePtr = 0
    /\ queueBuf = [p \in Positions |-> -1]
    /\ th = [t \in Threads |-> IdleThread]

Goto(t, pc) == th' = [th EXCEPT ![t].pc = pc]

(* A put with its signal and counter packets reserves for all of them.     *)
put(t, size) ==
    /\ th[t].pc = "idle"
    /\ cachedWptr + 2 * size <= MaxIndex
    /\ th' = [th EXCEPT ![t].pc = "load", ![t].size = size]
    /\ UNCHANGED <<regs, cachedWptr, committedWptr, cachedHwReadIndex,
                   maxWritePtr, queueBuf>>

(* Mutant: a put that would cross the end of the ring is not padded.       *)
NoPad(cur, size) == 0

(* The NOP padding that keeps the packets from crossing the ring's end.    *)
Pad(cur, size) ==
    IF WrapIntoRing(cur) + size > QueueSize
    THEN QueueSize - WrapIntoRing(cur) ELSE 0

(* ReserveQueueSpace: load the write index, compute the new one.           *)
LoadIndex(t) ==
    LET cur == cachedWptr
        off == Pad(cur, th[t].size)
    IN
    /\ th[t].pc = "load"
    /\ th' = [th EXCEPT ![t] = [@ EXCEPT !.pc = "can_write", !.cur_index = cur,
                !.offset = off, !.new_index = cur + th[t].size + off]]
    /\ UNCHANGED <<regs, cachedWptr, committedWptr, cachedHwReadIndex,
                   maxWritePtr, queueBuf>>

(* Mutant: off by one, the ring may be filled completely and then some.    *)
FitsOffByOne(upto, cached) ==
    upto >= cached /\ upto - cached <= QueueSize + 1

(* Unsigned: an index behind the cached read index gives a huge distance.  *)
Fits(upto, cached) == upto >= cached /\ upto - cached < QueueSize

(* CanWriteUpto on the cached read index.                                  *)
CanWriteCached(t) ==
    /\ th[t].pc = "can_write"
    /\ Goto(t, IF Fits(th[t].new_index, cachedHwReadIndex)
               THEN "cas" ELSE "read_rptr")
    /\ UNCHANGED <<regs, cachedWptr, committedWptr, cachedHwReadIndex,
                   maxWritePtr, queueBuf>>

(* The queue looks full: read the engine's register.                       *)
ReadRptr(t) ==
    /\ th[t].pc = "read_rptr"
    /\ th' = [th EXCEPT ![t].pc = "store_rptr", ![t].target = rptr]
    /\ UNCHANGED <<regs, cachedWptr, committedWptr, cachedHwReadIndex,
                   maxWritePtr, queueBuf>>

(* The unsynchronised store to the shared cachedHwReadIndex ...            *)
StoreRptr(t) ==
    /\ th[t].pc = "store_rptr"
    /\ cachedHwReadIndex' = th[t].target
    /\ th' = [th EXCEPT ![t].target = 0, ![t].pc = "retest"]
    /\ UNCHANGED <<regs, cachedWptr, committedWptr, maxWritePtr, queueBuf>>

(* ... and, after the compiler fence, the test on what it holds by then,   *)
(* which may be another thread's older value.                              *)
CanWriteRetest(t) ==
    /\ th[t].pc = "retest"
    /\ Goto(t, IF Fits(th[t].new_index, cachedHwReadIndex) THEN "cas" ELSE "load")
    /\ UNCHANGED <<regs, cachedWptr, committedWptr, cachedHwReadIndex,
                   maxWritePtr, queueBuf>>

(* The compare-and-swap that reserves [cur_index, new_index), or a retry.  *)
CompareExchange(t) ==
    /\ th[t].pc = "cas"
    /\ IF cachedWptr = th[t].cur_index
       THEN cachedWptr' = th[t].new_index /\ Goto(t, "place")
       ELSE UNCHANGED cachedWptr /\ Goto(t, "load")
    /\ UNCHANGED <<regs, committedWptr, cachedHwReadIndex, maxWritePtr,
                   queueBuf>>

Held(t) == th[t].cur_index..(th[t].new_index - 1)

(* placePacket: the padding and the packets.  Nobody reads these positions *)
(* before the doorbell, so the stores are one step.                        *)
placePacket(t) ==
    /\ th[t].pc = "place"
    /\ queueBuf' = [p \in Positions |->
         IF \E k \in Held(t) : WrapIntoRing(k) = p
         THEN CHOOSE k \in Held(t) : WrapIntoRing(k) = p
         ELSE queueBuf[p]]
    /\ Goto(t, "submit")
    /\ UNCHANGED <<regs, cachedWptr, committedWptr, cachedHwReadIndex,
                   maxWritePtr>>

(* Mutant: the write pointer is stored without waiting for the turn.       *)
SubmitOutOfTurn(t) ==
    /\ th[t].pc = "submit"
    /\ wptr' = th[t].new_index
    /\ Goto(t, "doorbell")
    /\ UNCHANGED <<rptr, doorbell, cachedWptr, committedWptr,
                   cachedHwReadIndex, maxWritePtr, queueBuf>>

(* submitPacket: wait for the turn, then four ordered stores.              *)
submitPacket(t) ==
    /\ th[t].pc = "submit"
    /\ committedWptr = th[t].cur_index
    /\ wptr' = th[t].new_index
    /\ Goto(t, "doorbell")
    /\ UNCHANGED <<rptr, doorbell, cachedWptr, committedWptr,
                   cachedHwReadIndex, maxWritePtr, queueBuf>>

RingDoorbell(t) ==
    /\ th[t].pc = "doorbell"
    /\ doorbell' = th[t].new_index
    /\ Goto(t, "commit")
    /\ UNCHANGED <<rptr, wptr, cachedWptr, committedWptr, cachedHwReadIndex,
                   maxWritePtr, queueBuf>>

(* Mutant: the turn passes to the end of the packets, without the padding. *)
CommitWithoutPad(t) ==
    /\ th[t].pc = "commit"
    /\ committedWptr' = th[t].new_index - th[t].offset
    /\ Goto(t, "max")
    /\ UNCHANGED <<regs, cachedWptr, cachedHwReadIndex, maxWritePtr, queueBuf>>

Commit(t) ==
    /\ th[t].pc = "commit"
    /\ committedWptr' = th[t].new_index
    /\ Goto(t, "max")
    /\ UNCHANGED <<regs, cachedWptr, cachedHwReadIndex, maxWritePtr, queueBuf>>

(* maxWritePtr is stored after the turn has passed on.                     *)
StoreMax(t) ==
    /\ th[t].pc = "max"
    /\ maxWritePtr' = th[t].new_index
    /\ th' = [th EXCEPT ![t] = [IdleThread EXCEPT
                                  !.submitted = th[t].new_index]]
    /\ UNCHANGED <<regs, cachedWptr, committedWptr, cachedHwReadIndex,
                   queueBuf>>

(* flushTo the thread's last put.                                          *)
flushTo(t) ==
    /\ th[t].pc = "idle"
    /\ th' = [th EXCEPT ![t].pc = "flush", ![t].target = th[t].submitted]
    /\ UNCHANGED <<regs, cachedWptr, committedWptr, cachedHwReadIndex,
                   maxWritePtr, queueBuf>>

(* quietAll: the target is loaded once.                                    *)
quietAll(t) ==
    /\ th[t].pc = "idle"
    /\ th' = [th EXCEPT ![t].pc = "quiet", ![t].target = maxWritePtr]
    /\ UNCHANGED <<regs, cachedWptr, committedWptr, cachedHwReadIndex,
                   maxWritePtr, queueBuf>>

(* The polling loops end when the engine has passed the target.            *)
PollRptr(t) ==
    /\ th[t].pc \in {"flush", "quiet"}
    /\ rptr >= th[t].target
    /\ Goto(t, IF th[t].pc = "flush" THEN "flushed" ELSE "quieted")
    /\ UNCHANGED <<regs, cachedWptr, committedWptr, cachedHwReadIndex,
                   maxWritePtr, queueBuf>>

Return(t) ==
    /\ th[t].pc \in {"flushed", "quieted"}
    /\ th' = [th EXCEPT ![t].pc = "idle", ![t].target = 0]
    /\ UNCHANGED <<regs, cachedWptr, committedWptr, cachedHwReadIndex,
                   maxWritePtr, queueBuf>>

(* The engine consumes what the doorbell announced.                        *)
Consume ==
    /\ rptr < doorbell
    /\ rptr' = rptr + 1
    /\ UNCHANGED <<wptr, doorbell, cachedWptr, committedWptr,
                   cachedHwReadIndex, maxWritePtr, queueBuf, th>>

Step(t) ==
    \/ LoadIndex(t) \/ CanWriteCached(t) \/ ReadRptr(t) \/ StoreRptr(t)
    \/ CanWriteRetest(t) \/ CompareExchange(t) \/ placePacket(t) \/ submitPacket(t)
    \/ RingDoorbell(t) \/ Commit(t) \/ StoreMax(t) \/ PollRptr(t) \/ Return(t)

Next ==
    \/ \E t \in Threads : \/ \E size \in Sizes : put(t, size)
                          \/ flushTo(t) \/ quietAll(t) \/ Step(t)
    \/ Consume

Spec == Init /\ [][Next]_vars

(* A resident thread keeps running and the engine keeps consuming.         *)
Fairness == WF_vars(Consume) /\ \A t \in Threads : WF_vars(Step(t))
FairSpec == Spec /\ Fairness
-----------------------------------------------------------------------------
(*                               Properties                                *)

ThreadPcs ==
    {"idle", "load", "can_write", "read_rptr", "store_rptr", "retest", "cas",
     "place", "submit", "doorbell", "commit", "max", "flush", "flushed",
     "quiet", "quieted"}

ThreadStates ==
    [pc : ThreadPcs,
     size : Nat, cur_index : Nat, offset : Nat, new_index : Nat,
     target : Nat, submitted : Nat]

TypeOK ==
    /\ rptr \in Nat /\ wptr \in Nat /\ doorbell \in Nat
    /\ cachedWptr \in Nat /\ committedWptr \in Nat
    /\ cachedHwReadIndex \in Nat /\ maxWritePtr \in Nat
    /\ queueBuf \in [Positions -> Int]
    /\ th \in [Threads -> ThreadStates]

(* What the engine is told to read is complete and its own: every dword    *)
(* from the read pointer to the write pointer is the one reserved for that *)
(* index, although threads place packets without synchronisation.          *)
AnnouncedIsPlaced ==
    \A k \in rptr..(wptr - 1) : queueBuf[WrapIntoRing(k)] = k

(* A thread about to place its packets never writes over dwords the engine *)
(* has not consumed, nor over another thread's.                            *)
NoOverrun ==
    \A t \in Threads : th[t].pc = "place" =>
        \A k \in Held(t) : queueBuf[WrapIntoRing(k)] < rptr

(* No packet crosses the end of the ring.                                  *)
PacketsAreContiguous ==
    \A t \in Threads : th[t].pc \in {"place", "submit", "doorbell", "commit"}
        => LET first == th[t].cur_index + th[t].offset IN
           WrapIntoRing(first) + th[t].size <= QueueSize

(* flushTo returns only after the engine has consumed the caller's put.    *)
FlushCoversPut ==
    \A t \in Threads : th[t].pc = "flushed" => rptr >= th[t].submitted

(* "Spin-poll rptr until HW has consumed all submitted packets": quietAll  *)
(* covers at least the caller's own.                                       *)
QuietCoversOwnPuts ==
    \A t \in Threads : th[t].pc = "quieted" => rptr >= th[t].submitted

(* Every reservation, flush and quiet comes to an end.                     *)
EveryCallReturns == \A t \in Threads : th[t].pc # "idle" ~> th[t].pc = "idle"
-----------------------------------------------------------------------------
(* The inductive invariant.                                                *)

Holds(t) == th[t].pc \in {"place", "submit", "doorbell", "commit"}
Publishes(t) == th[t].pc \in {"doorbell", "commit"}

(* The pointers follow one another, less than one revolution apart.        *)
OrderInv ==
    /\ cachedHwReadIndex <= rptr /\ rptr <= doorbell /\ doorbell <= wptr
    /\ wptr <= cachedWptr /\ committedWptr <= wptr
    /\ cachedWptr < rptr + QueueSize

(* A thread that passed the space test still has room when it swaps.       *)
RoomInv ==
    \A t \in Threads :
        /\ th[t].pc = "cas" => th[t].new_index < rptr + QueueSize
                               /\ th[t].cur_index < th[t].new_index
        /\ th[t].pc \in {"can_write", "read_rptr", "store_rptr", "retest"}
             => th[t].cur_index < th[t].new_index
        /\ th[t].pc \in {"load", "can_write", "read_rptr", "store_rptr",
                        "retest", "cas"}
             => th[t].size > 0
        /\ th[t].pc = "store_rptr" => th[t].target <= rptr

(* The reservations are disjoint and lie between what is committed and     *)
(* what is reserved; the publishing thread is the one whose turn it is.    *)
HoldInv ==
    /\ \A t \in Threads : Holds(t)
         => /\ committedWptr <= th[t].cur_index
            /\ th[t].cur_index < th[t].new_index
            /\ th[t].new_index <= cachedWptr
    /\ \A t, u \in Threads : Holds(t) /\ Holds(u) /\ t # u
         => th[t].new_index <= th[u].cur_index
              \/ th[u].new_index <= th[t].cur_index
    /\ \A t \in Threads : Publishes(t)
         => th[t].cur_index = committedWptr /\ wptr = th[t].new_index
    /\ (\A t \in Threads : ~Publishes(t)) => wptr = committedWptr

(* A placed reservation stays placed until the engine has consumed it.     *)
PlacedInv ==
    /\ \A t \in Threads : th[t].pc \in {"submit", "doorbell", "commit"}
         => \A k \in Held(t) : k >= rptr => queueBuf[WrapIntoRing(k)] = k
    /\ \A p \in Positions : /\ queueBuf[p] < cachedWptr
                            /\ queueBuf[p] \in Nat => WrapIntoRing(queueBuf[p]) = p
    /\ \A t \in Threads : th[t].pc = "place"
         => \A k \in Held(t), p \in Positions : queueBuf[p] # k

QueueInv ==
    TypeOK /\ OrderInv /\ RoomInv /\ HoldInv /\ PlacedInv /\ AnnouncedIsPlaced

(* Nobody's turn is ever lost: while something is reserved and not         *)
(* committed, some thread holds the reservation whose turn it is.          *)
TurnIsHeld ==
    committedWptr < cachedWptr =>
        \E t \in Threads : Holds(t) /\ th[t].cur_index = committedWptr
=============================================================================
