------------------------------ MODULE BnxtQueue ------------------------------
(***************************************************************************)
(* The send queue of a bnxt queue pair driven from the GPU                 *)
(* (gda/bnxt/queue_pair_bnxt.cpp).  A work queue entry (WQE) takes         *)
(* SlotCount slots.  The queue keeps no count of posted WQEs: its tail is  *)
(* a slot index, the adapter reports the index of the WQE it is at, and    *)
(* both wrap, so that a full queue and an empty one look alike.  The lanes *)
(* of a wavefront post one after the other while the first holds the lock. *)
(***************************************************************************)
EXTENDS Integers

CONSTANTS
    Waves,      \* wavefronts that share the queue pair
    NWqe,       \* WQEs the queue holds
    SlotCount,  \* GDA_BNXT_WQE_SLOT_COUNT
    MsnTblSz,   \* bnxt_sq.msn_tbl_sz
    PsnMod,     \* 2^24
    Mtu, Lengths, \* bnxt_sq.mtu, and the message lengths
    Lanes,      \* numbers of lanes of a wavefront that post together
    FetchCnt,   \* FETCHING_ATOMIC_CNT
    Ops,        \* the operations the wavefronts call
    MaxPost,    \* no operation starts after this many WQEs
    NoWave

BnxtAssumption ==
    /\ {NWqe, SlotCount, MsnTblSz, PsnMod, Mtu, FetchCnt} \subseteq Nat \ {0}
    /\ Lanes \subseteq Nat \ {0} /\ Lengths \subseteq Nat /\ MaxPost \in Nat
    /\ NoWave \notin Waves

VARIABLES
    lock, tail, flags,      \* bnxt_sq: lock, next free slot, epoch of tail
    psn, msn, msntbl,       \* and the table of packet numbers
    buf,                    \* bnxt_sq.buf
    fetching_atomic_idx, fetching_atomic,
    con_indx,               \* of the one completion entry
    posted,                 \* number of WQEs written (not in the code)
    rung, done,             \* the WQEs the adapter knows of, has completed
    wv                      \* each wavefront's pc and local variables

sq == <<tail, flags, psn, msn, msntbl, buf, fetching_atomic_idx, posted>>
adapter == <<con_indx, done, fetching_atomic>>
vars == <<lock, sq, adapter, rung, wv>>

depth == NWqe * SlotCount
NoSlot == -1
Empty == [id |-> -1, ret |-> NoSlot]

IdleWave == [pc |-> "idle", n |-> 1, left |-> 0, fetching |-> FALSE,
             amo |-> FALSE, ring |-> TRUE, wait |-> FALSE, quiet |-> FALSE,
             head |-> 0, own |-> 0, idx |-> 0]

Init ==
    /\ lock = NoWave /\ tail = 0 /\ flags = 0 /\ psn = 0 /\ msn = 0
    /\ msntbl = [m \in 0..(MsnTblSz - 1) |-> [st |-> 0, start |-> 0, next |-> 0]]
    /\ buf = [s \in 0..(depth - 1) |-> Empty]
    /\ fetching_atomic_idx = 0
    /\ fetching_atomic = [s \in 0..(FetchCnt - 1) |-> -1]
    /\ con_indx = 0 /\ posted = 0 /\ rung = 0 /\ done = 0
    /\ wv = [w \in Waves |-> IdleWave]

Goto(w, pc) == wv' = [wv EXCEPT ![w].pc = pc]

-----------------------------------------------------------------------------
(* The entry points.  putmem and getmem follow their post by quiet, the    *)
(* nbi forms do not; a put posted without ringing the doorbell is always   *)
(* followed by a non-fetching atomic of the same lane, which rings it.     *)

Start(w, n, amo, fetching, ring, wait) ==
    /\ wv[w].pc = "idle"
    /\ wv[w].ring => posted < MaxPost
    /\ wv' = [wv EXCEPT ![w] = [@ EXCEPT !.pc = "lock", !.n = n, !.left = n,
                !.amo = amo, !.fetching = fetching, !.ring = ring,
                !.wait = wait, !.quiet = FALSE]]
    /\ UNCHANGED <<lock, sq, adapter, rung>>

bnxt_post_wqe_rma(w) ==
    \E n \in Lanes, wait \in BOOLEAN :
        /\ (IF wait THEN "put" ELSE "put_nbi") \in Ops
        /\ wv[w].ring
        /\ Start(w, n, FALSE, FALSE, TRUE, wait)

bnxt_post_wqe_rma_single(w) ==
    /\ "single" \in Ops /\ wv[w].ring
    /\ Start(w, 1, FALSE, FALSE, FALSE, FALSE)

bnxt_post_wqe_amo(w) ==
    \E n \in Lanes, fetching \in BOOLEAN :
        /\ (IF fetching THEN "fetch" ELSE "amo_nbi") \in Ops
        /\ wv[w].ring
        /\ Start(w, n, TRUE, fetching, TRUE, fetching)

bnxt_post_wqe_amo_single(w) ==
    /\ "single" \in Ops
    /\ Start(w, 1, TRUE, FALSE, TRUE, TRUE)

bnxt_quiet(w) ==
    /\ "quiet" \in Ops
    /\ wv[w].pc = "idle" /\ wv[w].ring
    /\ wv' = [wv EXCEPT ![w].pc = "poll", ![w].quiet = TRUE,
                        ![w].fetching = FALSE]
    /\ UNCHANGED <<lock, sq, adapter, rung>>

-----------------------------------------------------------------------------
Lock(w) ==
    /\ wv[w].pc = "lock" /\ lock = NoWave
    /\ lock' = w
    /\ Goto(w, "poll")
    /\ UNCHANGED <<sq, adapter, rung>>

(* bnxt_poll_cq_until reads the index of the adapter, then the tail.       *)
bnxt_poll_cq_until(w) ==
    /\ wv[w].pc = "poll"
    /\ wv' = [wv EXCEPT ![w].head = (con_indx * SlotCount) % depth,
                        ![w].pc = "tail"]
    /\ UNCHANGED <<lock, sq, adapter, rung>>

requested_available_slots(w) == IF wv[w].quiet THEN depth ELSE SlotCount

consumed_slots(w) == (tail - wv[w].head + depth) % depth

(* Mutant: quiet is content with room for one WQE.                         *)
PollForRoom(w) ==
    /\ wv[w].pc = "tail"
    /\ Goto(w, IF depth - consumed_slots(w) < SlotCount THEN "poll"
               ELSE IF wv[w].quiet THEN "ret" ELSE "write")
    /\ UNCHANGED <<lock, sq, adapter, rung>>

PollTail(w) ==
    /\ wv[w].pc = "tail"
    /\ Goto(w, IF depth - consumed_slots(w) < requested_available_slots(w)
               THEN "poll" ELSE IF wv[w].quiet THEN "ret" ELSE "write")
    /\ UNCHANGED <<lock, sq, adapter, rung>>

bnxt_re_get_hwqe(i) == IF tail + i >= depth THEN tail + i - depth ELSE tail + i

(* Packets of a message; an empty one still takes a packet number.         *)
pkt_cnt(msg_len) ==
    IF msg_len = 0 THEN 1
    ELSE msg_len \div Mtu + IF msg_len % Mtu = 0 THEN 0 ELSE 1

bnxt_re_fill_psns_for_msntbl(msg_len) ==
    /\ psn' = (psn + pkt_cnt(msg_len)) % PsnMod
    /\ msntbl' = [msntbl EXCEPT ![msn] =
                    [st |-> tail, start |-> psn, next |-> psn']]
    /\ msn' = (msn + 1) % MsnTblSz

(* Mutant: the tail does not wrap.                                         *)
IncrTailNoWrap ==
    /\ tail' = tail + SlotCount
    /\ flags' = IF tail + SlotCount >= depth THEN 1 - flags ELSE flags

bnxt_re_incr_tail ==
    /\ tail' = (tail + SlotCount) % depth
    /\ flags' = IF tail + SlotCount >= depth THEN 1 - flags ELSE flags

WqeAt(w) ==
    [id |-> posted,
     ret |-> IF wv[w].fetching THEN fetching_atomic_idx % FetchCnt ELSE NoSlot]

(* bnxt_write_rma_wqe and bnxt_write_amo_wqe after their poll for room.    *)
bnxt_write_wqe(w) ==
    /\ wv[w].pc = "write"
    /\ \E len \in IF wv[w].amo THEN {1} ELSE Lengths :
         bnxt_re_fill_psns_for_msntbl(len)
    /\ buf' = [s \in DOMAIN buf |->
         IF \E i \in 0..(SlotCount - 1) : s = bnxt_re_get_hwqe(i)
         THEN WqeAt(w) ELSE buf[s]]
    /\ bnxt_re_incr_tail
    /\ posted' = posted + 1
    /\ fetching_atomic_idx' =
         IF wv[w].fetching THEN fetching_atomic_idx + 1 ELSE fetching_atomic_idx
    /\ wv' = [wv EXCEPT ![w].pc = "ring", ![w].own = posted + 1,
                        ![w].idx = fetching_atomic_idx]
    /\ UNCHANGED <<lock, adapter, rung>>

(* What the adapter makes of a slot index and an epoch: it cannot be more  *)
(* than two rounds behind.                                                 *)
Announced(slot_idx, epoch) ==
    rung + ((slot_idx \div SlotCount + NWqe * epoch - rung) % (2 * NWqe))

(* Mutant: an atomic does not ring the doorbell.                           *)
RingForPutsOnly(w) ==
    /\ wv[w].pc = "ring"
    /\ rung' = IF wv[w].ring /\ ~wv[w].amo THEN Announced(tail, flags) ELSE rung
    /\ wv' = [wv EXCEPT ![w].left = @ - 1,
                        ![w].pc = IF wv[w].left > 1 THEN "poll" ELSE "unlock"]
    /\ UNCHANGED <<lock, sq, adapter>>

(* The doorbell; then it is the next lane's turn, or the lock is released. *)
bnxt_ring_doorbell(w) ==
    /\ wv[w].pc = "ring"
    /\ rung' = IF wv[w].ring THEN Announced(tail, flags) ELSE rung
    /\ wv' = [wv EXCEPT ![w].left = @ - 1,
                        ![w].pc = IF wv[w].left > 1 THEN "poll" ELSE "unlock"]
    /\ UNCHANGED <<lock, sq, adapter>>

Unlock(w) ==
    /\ wv[w].pc = "unlock"
    /\ lock' = NoWave
    /\ wv' = [wv EXCEPT ![w].quiet = wv[w].wait,
                        ![w].pc = IF wv[w].wait THEN "poll" ELSE "idle"]
    /\ UNCHANGED <<sq, adapter, rung>>

Return(w) ==
    /\ wv[w].pc = "ret"
    /\ Goto(w, "idle")
    /\ UNCHANGED <<lock, sq, adapter, rung>>

(* The adapter executes the next WQE it knows of.                          *)
Complete ==
    LET wqe == buf[(done * SlotCount) % depth] IN
    /\ done < rung
    /\ done' = done + 1
    /\ con_indx' = (done + 1) % NWqe
    /\ fetching_atomic' = IF wqe.ret = NoSlot THEN fetching_atomic
                          ELSE [fetching_atomic EXCEPT ![wqe.ret] = wqe.id]
    /\ UNCHANGED <<lock, sq, rung, wv>>

Begin(w) ==
    \/ bnxt_post_wqe_rma(w) \/ bnxt_post_wqe_rma_single(w)
    \/ bnxt_post_wqe_amo(w) \/ bnxt_quiet(w)

Advance(w) ==
    \/ Lock(w) \/ bnxt_poll_cq_until(w) \/ PollTail(w) \/ bnxt_write_wqe(w)
    \/ bnxt_ring_doorbell(w) \/ Unlock(w) \/ Return(w)

Next ==
    \/ \E w \in Waves : Begin(w) \/ bnxt_post_wqe_amo_single(w) \/ Advance(w)
    \/ Complete

Spec == Init /\ [][Next]_vars

(* Every wavefront keeps running, and finishes the pair of a put without   *)
(* doorbell and its atomic; the adapter executes what it was told of.      *)
Fairness ==
    /\ WF_vars(Complete)
    /\ \A w \in Waves :
         /\ WF_vars(Advance(w))
         /\ WF_vars(~wv[w].ring /\ bnxt_post_wqe_amo_single(w))

FairSpec == Spec /\ Fairness

-----------------------------------------------------------------------------
TypeOK ==
    /\ lock \in Waves \cup {NoWave}
    /\ tail \in 0..(depth - 1) /\ flags \in {0, 1}
    /\ psn \in 0..(PsnMod - 1) /\ msn \in 0..(MsnTblSz - 1)
    /\ con_indx \in 0..(NWqe - 1)
    /\ posted \in Nat /\ rung \in Nat /\ done \in Nat
    /\ \A s \in DOMAIN buf : buf[s].ret \in {NoSlot} \cup 0..(FetchCnt - 1)
    /\ \A w \in Waves : wv[w].head \in 0..(depth - 1)

(* Every WQE posted and not completed is whole, in its slots, and every    *)
(* doorbell announced exactly the WQEs below the tail: a post never        *)
(* overwrites one the adapter has still to execute.                        *)
PostedIntact ==
    /\ done <= rung /\ rung <= posted
    /\ \A i \in done..(posted - 1), k \in 0..(SlotCount - 1) :
         buf[(i * SlotCount + k) % depth].id = i

(* The table of packet numbers has, for every WQE the adapter may have to  *)
(* send again, the slot it starts at, and where its packets end those of   *)
(* the next one begin.                                                     *)
MsnTableCovers ==
    \A i \in done..(posted - 1) :
        LET entry == msntbl[i % MsnTblSz] IN
        /\ entry.st = (i * SlotCount) % depth
        /\ entry.next = IF i + 1 < posted THEN msntbl[(i + 1) % MsnTblSz].start
                        ELSE psn

(* When quiet, or the wait of a blocking operation, is over, the adapter   *)
(* has completed every WQE of the wavefront.                               *)
QuietCompletes ==
    \A w \in Waves : wv[w].pc = "ret" => wv[w].own <= done

(* A fetching atomic of one lane returns the value its own WQE fetched,    *)
(* while fewer than FetchCnt fetches were started since.                   *)
ReturnIsOwnInTime ==
    \A w \in Waves :
        /\ wv[w].pc = "ret" /\ wv[w].fetching
        /\ fetching_atomic_idx <= wv[w].idx + FetchCnt
        => fetching_atomic[wv[w].idx % FetchCnt] = wv[w].own - 1

(* No wait for room and no quiet hangs.                                    *)
EveryPollReturns ==
    \A w \in Waves : wv[w].pc = "poll" ~> wv[w].pc \in {"write", "ret"}
=============================================================================
