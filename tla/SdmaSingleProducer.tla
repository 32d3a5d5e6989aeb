-------------------------- MODULE SdmaSingleProducer --------------------------
(***************************************************************************)
(* The single-producer view of an SDMA queue (sdma/anvil_device.hpp): no   *)
(* compare-and-swap, no turn; a put that would cross the end of the ring   *)
(* first submits the padding as a packet of its own.                       *)
(***************************************************************************)
EXTENDS Integers

CONSTANTS
    QueueSize,      \* SDMA_QUEUE_SIZE
    Sizes,          \* dwords of one put
    MaxIndex        \* bound on the write index

VARIABLES rptr, wptr, doorbell, cachedWptr, committedWptr, cachedHwReadIndex,
          maxWritePtr, pc, size, base

regs == <<rptr, wptr, doorbell>>
locals == <<size, base>>
vars == <<regs, cachedWptr, committedWptr, cachedHwReadIndex, maxWritePtr,
          pc, locals>>

WrapIntoRing(index) == index % QueueSize
NextLap(cur) == cur + QueueSize - WrapIntoRing(cur)

Init ==
    /\ rptr = 0 /\ wptr = 0 /\ doorbell = 0
    /\ cachedWptr = 0 /\ committedWptr = 0 /\ cachedHwReadIndex = 0
    /\ maxWritePtr = 0
    /\ pc = "idle" /\ size = 0 /\ base = 0

put(n) ==
    /\ pc = "idle" /\ cachedWptr + QueueSize + n <= MaxIndex
    /\ pc' = "reserve" /\ size' = n
    /\ UNCHANGED <<regs, cachedWptr, committedWptr, cachedHwReadIndex,
                   maxWritePtr, base>>

(* CanWriteUpto refreshes the cached read index only when it looks full.   *)
Refreshed(upto) ==
    IF upto - cachedHwReadIndex < QueueSize THEN cachedHwReadIndex ELSE rptr

CanWriteUpto(upto) == upto - Refreshed(upto) < QueueSize

Crosses(cur) == WrapIntoRing(cur) + size > QueueSize

(* PadRingToEnd, up to its call of submitPacket; without room the caller's *)
(* loop comes back.                                                        *)
PadRingToEnd ==
    LET cur == cachedWptr IN
    /\ pc = "reserve" /\ Crosses(cur)
    /\ cachedHwReadIndex' = Refreshed(NextLap(cur))
    /\ IF CanWriteUpto(NextLap(cur))
       THEN /\ cachedWptr' = NextLap(cur)
            /\ base' = cur /\ pc' = "pad"
       ELSE UNCHANGED <<cachedWptr, base, pc>>
    /\ UNCHANGED <<regs, committedWptr, maxWritePtr, size>>

(* The padding goes through the multi-producer submitPacket, which waits   *)
(* for its turn in committedWptr.                                          *)
SubmitPadding ==
    /\ pc = "pad" /\ committedWptr = base
    /\ wptr' = cachedWptr /\ doorbell' = cachedWptr
    /\ committedWptr' = cachedWptr /\ maxWritePtr' = cachedWptr
    /\ pc' = "reserve"
    /\ UNCHANGED <<rptr, cachedWptr, cachedHwReadIndex, locals>>

(* ReserveQueueSpace, and the packets written into the reservation.        *)
ReserveQueueSpace ==
    LET cur == cachedWptr IN
    /\ pc = "reserve" /\ ~Crosses(cur)
    /\ cachedHwReadIndex' = Refreshed(cur + size)
    /\ IF CanWriteUpto(cur + size)
       THEN /\ cachedWptr' = cur + size
            /\ base' = cur /\ pc' = "submit"
       ELSE UNCHANGED <<cachedWptr, base, pc>>
    /\ UNCHANGED <<regs, committedWptr, maxWritePtr, size>>

(* The single-producer submitPacket leaves committedWptr alone.            *)
submitPacket ==
    /\ pc = "submit"
    /\ wptr' = base + size /\ doorbell' = base + size
    /\ maxWritePtr' = base + size
    /\ pc' = "idle"
    /\ UNCHANGED <<rptr, cachedWptr, committedWptr, cachedHwReadIndex,
                   locals>>

Consume ==
    /\ rptr < doorbell /\ rptr' = rptr + 1
    /\ UNCHANGED <<wptr, doorbell, cachedWptr, committedWptr,
                   cachedHwReadIndex, maxWritePtr, pc, locals>>

Step == PadRingToEnd \/ SubmitPadding \/ ReserveQueueSpace \/ submitPacket
Next == Step \/ Consume \/ \E n \in Sizes : put(n)

(* The producer's thread keeps running and the engine keeps consuming.     *)
Spec == Init /\ [][Next]_vars /\ WF_vars(Step) /\ WF_vars(Consume)
-----------------------------------------------------------------------------
(* "ring wrap uses PadRingToEnd": a put that meets the end of the ring     *)
(* gets past it.                                                           *)
EveryPutReturns == pc # "idle" ~> pc = "idle"
=============================================================================
