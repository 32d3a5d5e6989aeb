----------------------------- MODULE IonicQueue -----------------------------
(***************************************************************************)
(* The send and completion queues of an ionic queue pair driven from the   *)
(* GPU (gda/ionic/queue_pair_ionic.cpp).  A wavefront first claims a range *)
(* of positions with an atomic addition, then waits until the range fits,  *)
(* writes its work queue entries (WQEs) and rings the doorbell unless a    *)
(* later wavefront already has: a color bit in each WQE tells the adapter  *)
(* whether an announced WQE is written.  The wait reads completion entries *)
(* (CQEs) under a lock, or, when the adapter keeps a single collapsed CQE  *)
(* (cq_mask = 0), only that one.                                           *)
(***************************************************************************)
EXTENDS Integers, Sequences

CONSTANTS
    Waves,      \* wavefronts that share the queue pair
    SqSize,     \* sq_mask + 1
    CqSize,     \* cq_mask + 1; 1 when the CQE is collapsed
    MsnMod,     \* 2^24, the range of message sequence numbers
    CqGrace,    \* 100, consumed CQEs that are announced together
    Lanes,      \* numbers of lanes of a wavefront that post together
    Buffers,    \* fetching_atomic in pieces of one wavefront, in list order
    Ops,        \* the operations the wavefronts call
    MaxPost,    \* no operation starts after this many WQEs
    NoWave

IonicAssumption ==
    /\ {SqSize, CqSize, MsnMod, CqGrace} \subseteq Nat \ {0}
    /\ Lanes \subseteq Nat \ {0} /\ MaxPost \in Nat
    /\ Buffers \in Seq(Nat) /\ NoWave \notin Waves

VARIABLES
    sq_prod, sq_dbprod, sq_lock, \* claimed, announced, and the doorbell's lock
    sq_msn, cq_pos, cq_dbpos, cq_lock,
    sq_buf, cq_buf,             \* ionic_sq_buf, ionic_cq_buf
    freelist,                   \* fetching_atomic_freelist
    fetching_atomic,
    rung, done, cq_prod,        \* adapter: announced, executed WQEs, CQEs
    cq_seen,                    \* adapter: CQEs it knows to be consumed
    wv                          \* each wavefront's pc and local variables

sq == <<sq_prod, sq_buf>>
doorbell == <<sq_dbprod, sq_lock, rung>>
cq == <<sq_msn, cq_pos, cq_dbpos, cq_lock, cq_seen>>
adapter == <<done, cq_prod, cq_buf, fetching_atomic>>
vars == <<sq, doorbell, cq, adapter, freelist, wv>>

MaxLanes == CHOOSE n \in Lanes : \A m \in Lanes : m <= n
NoBuf == -1
Blank == [id |-> -1, color |-> 0, sig |-> FALSE, buf |-> NoBuf, lane |-> 0]

IdleWave == [pc |-> "idle", n |-> 1, k |-> 0, single |-> FALSE, amo |-> FALSE,
             fetching |-> FALSE, ring |-> TRUE, prod |-> 0, cons |-> 0,
             after |-> "idle", buf |-> NoBuf, own |-> 0]

Init ==
    /\ sq_prod = 0 /\ sq_dbprod = 0 /\ sq_lock = NoWave
    /\ sq_msn = 0 /\ cq_pos = 0 /\ cq_dbpos = 0 /\ cq_lock = NoWave
    /\ sq_buf = [s \in 0..(SqSize - 1) |-> Blank]
    /\ cq_buf = [s \in 0..(CqSize - 1) |-> [color |-> 0, msn |-> 0]]
    /\ freelist = Buffers
    /\ fetching_atomic = [i \in 1..Len(Buffers) |->
                            [l \in 0..(MaxLanes - 1) |-> -1]]
    /\ rung = 0 /\ done = 0 /\ cq_prod = 0 /\ cq_seen = 0
    /\ wv = [w \in Waves |-> IdleWave]

(* Locals that the next operation sets anew are forgotten.                 *)
Finished(w) == [IdleWave EXCEPT !.own = wv[w].own, !.ring = wv[w].ring]

Goto(w, pc) == wv' = [wv EXCEPT ![w].pc = pc]

-----------------------------------------------------------------------------
(* reserve_sq: claim the positions, then wait until the last of them is    *)
(* less than a whole queue ahead of what is complete.                      *)
reserve_sq(w, n, single, amo, fetching, ring) ==
    /\ wv[w].pc = "idle"
    /\ sq_prod' = sq_prod + n
    /\ wv' = [wv EXCEPT ![w] = [@ EXCEPT !.pc = "wait", !.n = n, !.k = 0,
                !.single = single, !.amo = amo, !.fetching = fetching,
                !.ring = ring, !.prod = sq_prod,
                !.cons = sq_prod + n - (SqSize - 1),
                !.after = IF fetching THEN "pop" ELSE "write"]]
    /\ UNCHANGED <<sq_buf, doorbell, cq, adapter, freelist>>

MayStart(w) == wv[w].ring /\ sq_prod < MaxPost

ionic_post_wqe_rma(w) ==
    /\ "rma" \in Ops /\ MayStart(w)
    /\ \E n \in Lanes : reserve_sq(w, n, FALSE, FALSE, FALSE, TRUE)

(* A put posted without ringing the doorbell is always followed by an      *)
(* atomic of the same lane, which rings it.                                *)
ionic_post_wqe_rma_single(w) ==
    /\ "single" \in Ops /\ MayStart(w)
    /\ \E ring \in BOOLEAN : reserve_sq(w, 1, TRUE, FALSE, FALSE, ring)

ionic_post_wqe_amo(w) ==
    /\ "amo" \in Ops /\ MayStart(w)
    /\ \E n \in Lanes, fetching \in BOOLEAN :
         reserve_sq(w, n, FALSE, TRUE, fetching, TRUE)

ionic_post_wqe_amo_single(w) ==
    /\ "single" \in Ops /\ (~wv[w].ring \/ sq_prod < MaxPost)
    /\ \E fetching \in BOOLEAN :
         reserve_sq(w, 1, TRUE, TRUE, fetching, TRUE)

(* quiet and quiet_single wait for the positions claimed so far.           *)
ionic_quiet(w) ==
    /\ "quiet" \in Ops /\ wv[w].pc = "idle" /\ wv[w].ring
    /\ \E single \in {s \in BOOLEAN : s => "single" \in Ops} :
         wv' = [wv EXCEPT ![w] = [@ EXCEPT !.pc = "wait", !.single = single,
                 !.n = 1, !.fetching = FALSE, !.cons = sq_prod,
                 !.after = "ret"]]
    /\ UNCHANGED <<sq, doorbell, cq, adapter, freelist>>

-----------------------------------------------------------------------------
(* Sequence numbers are compared by the sign of their 24-bit difference.   *)
Behind(msn, cons) == (msn - cons) % MsnMod >= MsnMod \div 2

(* The collapsed completion: the waves poll the one CQE.                   *)
ionic_quiet_internal_ccqe(w) ==
    /\ wv[w].pc = "wait" /\ (wv[w].single \/ CqSize = 1)
    /\ ~Behind(cq_buf[0].msn, wv[w].cons)
    /\ Goto(w, wv[w].after)
    /\ UNCHANGED <<sq, doorbell, cq, adapter, freelist>>

(* Otherwise one wave at a time reads CQEs, for everybody.                 *)
ionic_quiet_internal(w) ==
    /\ wv[w].pc = "wait" /\ ~wv[w].single /\ CqSize > 1
    /\ IF Behind(sq_msn, wv[w].cons)
       THEN /\ cq_lock = NoWave
            /\ cq_lock' = w
            /\ Goto(w, "poll")
       ELSE /\ Goto(w, wv[w].after)
            /\ UNCHANGED cq_lock
    /\ UNCHANGED <<sq, doorbell, sq_msn, cq_pos, cq_dbpos, cq_seen, adapter,
                   freelist>>

ColorAt(pos, size) == IF (pos \div size) % 2 = 0 THEN 1 ELSE 0

Ready(pos) == cq_buf[pos % CqSize].color = ColorAt(pos, CqSize)

(* Lane l of the wave looks at CQE cq_pos + l; the furthest that is there  *)
(* counts, since a completion covers all earlier WQEs.                     *)
PollNoDoorbell(w, pos) == \* Mutant: consumed CQEs are never announced
    /\ pos \in cq_pos..(cq_pos + wv[w].n - 1)
    /\ Ready(pos)
    /\ \A p \in (pos + 1)..(cq_pos + wv[w].n - 1) : ~Ready(p)
    /\ cq_pos' = pos + 1
    /\ sq_msn' = cq_buf[pos % CqSize].msn
    /\ UNCHANGED <<cq_dbpos, cq_seen>>

poll_wave_cqes(w, pos) ==
    /\ pos \in cq_pos..(cq_pos + wv[w].n - 1)
    /\ Ready(pos)
    /\ \A p \in (pos + 1)..(cq_pos + wv[w].n - 1) : ~Ready(p)
    /\ cq_pos' = pos + 1
    /\ IF (pos + 1 - cq_dbpos) % CqSize >= CqGrace
       THEN cq_dbpos' = pos + 1 /\ cq_seen' = pos + 1
       ELSE UNCHANGED <<cq_dbpos, cq_seen>>
    /\ sq_msn' = cq_buf[pos % CqSize].msn

Poll(w) ==
    /\ wv[w].pc = "poll" /\ Behind(sq_msn, wv[w].cons)
    /\ \E l \in 0..(wv[w].n - 1) : poll_wave_cqes(w, cq_pos + l)
    /\ UNCHANGED <<sq, doorbell, cq_lock, adapter, freelist, wv>>

Polled(w) ==
    /\ wv[w].pc = "poll" /\ ~Behind(sq_msn, wv[w].cons)
    /\ cq_lock' = NoWave
    /\ Goto(w, wv[w].after)
    /\ UNCHANGED <<sq, doorbell, sq_msn, cq_pos, cq_dbpos, cq_seen, adapter,
                   freelist>>

-----------------------------------------------------------------------------
(* The buffer a fetching wavefront's results go to; it spins for one.      *)
pop_front(w) ==
    /\ wv[w].pc = "pop" /\ freelist # <<>>
    /\ freelist' = Tail(freelist)
    /\ wv' = [wv EXCEPT ![w].buf = Head(freelist), ![w].pc = "write"]
    /\ UNCHANGED <<sq, doorbell, cq, adapter>>

dbprod(w) == wv[w].prod + wv[w].n

WqeAt(w) ==
    LET pos == wv[w].prod + wv[w].k IN
    [id |-> pos, color |-> ColorAt(pos, SqSize), sig |-> wv[w].k = wv[w].n - 1,
     buf |-> IF wv[w].fetching THEN wv[w].buf ELSE NoBuf, lane |-> wv[w].k]

(* The lanes fill their WQEs; storing the flags, with the color, makes one *)
(* visible to the adapter.                                                 *)
WriteWqe(w) ==
    /\ wv[w].pc = "write"
    /\ sq_buf' = [sq_buf EXCEPT ![(wv[w].prod + wv[w].k) % SqSize] = WqeAt(w)]
    /\ wv' = [wv EXCEPT ![w] =
         IF wv[w].k = wv[w].n - 1 /\ ~wv[w].ring
         THEN [Finished(w) EXCEPT !.own = dbprod(w)]
         ELSE [@ EXCEPT !.k = @ + 1, !.own = dbprod(w),
                !.pc = IF wv[w].k < wv[w].n - 1 THEN "write" ELSE "commit"]]
    /\ UNCHANGED <<sq_prod, doorbell, cq, adapter, freelist>>

spin_lock_acquire(w) ==
    /\ wv[w].pc = "commit" /\ sq_lock = NoWave
    /\ sq_lock' = w
    /\ Goto(w, "ring")
    /\ UNCHANGED <<sq, sq_dbprod, rung, cq, adapter, freelist>>

(* The doorbell carries the position modulo the queue size.                *)
ionic_ring_doorbell(pos) == rung' = rung + ((pos - rung) % SqSize)

RingAlways(w) == \* Mutant: rings even if a later position was announced
    /\ wv[w].pc = "ring"
    /\ sq_dbprod' = dbprod(w)
    /\ ionic_ring_doorbell(dbprod(w))
    /\ sq_lock' = NoWave
    /\ wv' = [wv EXCEPT ![w] =
         IF ~wv[w].fetching THEN Finished(w)
         ELSE [@ EXCEPT !.pc = "wait", !.cons = dbprod(w), !.after = "ret"]]
    /\ UNCHANGED <<sq, cq, adapter, freelist>>

CommitReturnsStart(w) == \* Mutant: waits for the start of its range
    /\ wv[w].pc = "ring"
    /\ IF sq_dbprod < dbprod(w)
       THEN sq_dbprod' = dbprod(w) /\ ionic_ring_doorbell(dbprod(w))
       ELSE UNCHANGED <<sq_dbprod, rung>>
    /\ sq_lock' = NoWave
    /\ wv' = [wv EXCEPT ![w] =
         IF ~wv[w].fetching THEN Finished(w)
         ELSE [@ EXCEPT !.pc = "wait", !.cons = wv[w].prod, !.after = "ret"]]
    /\ UNCHANGED <<sq, cq, adapter, freelist>>

commit_sq(w) ==
    /\ wv[w].pc = "ring"
    /\ IF sq_dbprod < dbprod(w)
       THEN sq_dbprod' = dbprod(w) /\ ionic_ring_doorbell(dbprod(w))
       ELSE UNCHANGED <<sq_dbprod, rung>>
    /\ sq_lock' = NoWave
    /\ wv' = [wv EXCEPT ![w] =
         IF ~wv[w].fetching THEN Finished(w)
         ELSE [@ EXCEPT !.pc = "wait", !.cons = dbprod(w), !.after = "ret"]]
    /\ UNCHANGED <<sq, cq, adapter, freelist>>

(* The wait of quiet or of a fetching atomic is over; the latter reads its *)
(* buffer and gives it back.                                               *)
Return(w) ==
    /\ wv[w].pc = "ret"
    /\ freelist' = IF wv[w].fetching THEN Append(freelist, wv[w].buf)
                   ELSE freelist
    /\ wv' = [wv EXCEPT ![w] = Finished(w)]
    /\ UNCHANGED <<sq, doorbell, cq, adapter>>

-----------------------------------------------------------------------------
(* The adapter executes the next announced WQE once it has its color, and  *)
(* completes a signalled one with its sequence number, if there is room.   *)
CqFull == CqSize > 1 /\ cq_prod - cq_seen >= CqSize

Complete ==
    LET wqe == sq_buf[done % SqSize] IN
    /\ done < rung /\ wqe.color = ColorAt(done, SqSize)
    /\ wqe.sig => ~CqFull
    /\ done' = done + 1
    /\ fetching_atomic' =
         IF wqe.buf = NoBuf THEN fetching_atomic
         ELSE [fetching_atomic EXCEPT ![wqe.buf][wqe.lane] = wqe.id]
    /\ cq_prod' = IF wqe.sig THEN cq_prod + 1 ELSE cq_prod
    /\ cq_buf' = IF ~wqe.sig THEN cq_buf
                 ELSE [cq_buf EXCEPT ![cq_prod % CqSize] =
                        [color |-> ColorAt(cq_prod, CqSize),
                         msn |-> (done + 1) % MsnMod]]
    /\ UNCHANGED <<sq, doorbell, cq, freelist, wv>>

Begin(w) ==
    \/ ionic_post_wqe_rma(w) \/ ionic_post_wqe_rma_single(w)
    \/ ionic_post_wqe_amo(w) \/ ionic_quiet(w)

Advance(w) ==
    \/ ionic_quiet_internal_ccqe(w) \/ ionic_quiet_internal(w)
    \/ Poll(w) \/ Polled(w) \/ pop_front(w) \/ WriteWqe(w)
    \/ spin_lock_acquire(w) \/ commit_sq(w) \/ Return(w)

Next ==
    \/ \E w \in Waves : Begin(w) \/ ionic_post_wqe_amo_single(w) \/ Advance(w)
    \/ Complete

Spec == Init /\ [][Next]_vars

(* Every wavefront keeps running, and finishes the pair of a put without   *)
(* doorbell and its atomic; the adapter executes what it was told of.      *)
Fairness ==
    /\ WF_vars(Complete)
    /\ \A w \in Waves :
         /\ WF_vars(Advance(w))
         /\ WF_vars(~wv[w].ring /\ ionic_post_wqe_amo_single(w))

FairSpec == Spec /\ Fairness

-----------------------------------------------------------------------------
TypeOK ==
    /\ {sq_lock, cq_lock} \subseteq Waves \cup {NoWave}
    /\ sq_msn \in 0..(MsnMod - 1)
    /\ \A c \in {sq_prod, sq_dbprod, cq_pos, cq_dbpos, rung, done, cq_prod,
                 cq_seen} : c \in Nat
    /\ \A s \in DOMAIN cq_buf : cq_buf[s].msn \in 0..(MsnMod - 1)
    /\ freelist \in Seq(1..Len(Buffers))
    /\ \A w \in Waves : wv[w].buf \in {NoBuf} \cup 1..Len(Buffers)

(* What the adapter would execute next is the WQE posted at that position: *)
(* it neither takes a WQE of the previous lap for it nor skips one, though *)
(* a doorbell may announce WQEs that other wavefronts have yet to write.   *)
ExecutesInOrder ==
    /\ rung <= sq_prod
    /\ (done < rung /\ sq_buf[done % SqSize].color = ColorAt(done, SqSize))
       => sq_buf[done % SqSize].id = done

(* No wavefront's write destroys a WQE that is not complete: positions     *)
(* that wavefronts may write are less than a queue ahead of the adapter.   *)
NoOverwrite ==
    \A w \in Waves :
        wv[w].pc \in {"pop", "write"} => wv[w].prod + wv[w].n - done < SqSize

(* When quiet or the wait of a fetching atomic is over, the adapter has    *)
(* completed every WQE of the wavefront.                                   *)
QuietCompletes ==
    \A w \in Waves : wv[w].pc = "ret" => wv[w].own <= done

(* Every lane of a fetching atomic reads the value its own WQE fetched:    *)
(* its buffer belongs to no other wavefront meanwhile.                     *)
ReturnIsOwn ==
    \A w \in Waves :
        wv[w].pc = "ret" /\ wv[w].fetching =>
            \A l \in 0..(wv[w].n - 1) :
                fetching_atomic[wv[w].buf][l] = wv[w].prod + l

(* Consumed CQEs are announced often enough: a completion always finds     *)
(* room in the completion queue (poll_wave_cqes, "avoid cq full").         *)
CqNeverFull == ~CqFull

(* No wait for room, for a buffer, for a lock or for completion hangs.     *)
EveryOperationEnds ==
    \A w \in Waves : wv[w].pc # "idle" ~> wv[w].pc = "idle"
=============================================================================
