------------------------------ MODULE Mlx5Queue ------------------------------
(***************************************************************************)
(* The send queue of an mlx5 queue pair driven from the GPU                *)
(* (gda/mlx5/queue_pair_mlx5.cpp).  Wavefronts post work queue entries     *)
(* (WQEs) under a lock, after polling the completion queue until there is  *)
(* room; quiet polls the same, one-entry, completion queue without the     *)
(* lock.  The lanes of a wavefront that use the queue run in lockstep, so  *)
(* a wavefront is one process that posts n WQEs at once.                   *)
(*                                                                         *)
(* WQEs are numbered from 0 for ever (post is a 64-bit counter); the       *)
(* adapter reports the number of the last completed one in 16 bits, here   *)
(* modulo CtrMod.  A slot of the queue holds the number of the WQE in it,  *)
(* where it returns the fetched value, and whether it asks for a           *)
(* completion.                                                             *)
(***************************************************************************)
EXTENDS Integers

CONSTANTS
    Waves,      \* wavefronts that share the queue pair
    Depth,      \* mlx5_sq.depth
    CtrMod,     \* 2^16
    Lanes,      \* numbers of lanes of a wavefront that post together
    FetchCnt,   \* FETCHING_ATOMIC_CNT
    Ops,        \* the operations the wavefronts call
    MaxPost,    \* no operation starts after this many WQEs
    NoWave

ASSUME Mlx5Assumption ==
    /\ Depth \in Nat \ {0} /\ CtrMod \in Nat /\ Depth < CtrMod
    /\ CtrMod % Depth = 0
    /\ Lanes \subseteq 1..Depth
    /\ FetchCnt \in Nat \ {0} /\ MaxPost \in Nat
    /\ NoWave \notin Waves

VARIABLES
    lock, post,             \* mlx5_sq.lock, mlx5_sq.post
    rung,                   \* the adapter knows of the WQEs below this one
    done,                   \* and has completed those below this one
    cqe,                    \* wqe_counter of the one completion entry
    buf,                    \* mlx5_sq.buf
    fetching_atomic_idx, fetching_atomic,
    wv                      \* each wavefront's pc and local variables

vars == <<lock, post, rung, done, cqe, buf, fetching_atomic_idx,
          fetching_atomic, wv>>

Invalid == -1       \* MLX5_CQE_INVALID, and a slot never written
NoSlot == -1        \* the atomic returns nothing

IdleWave == [pc |-> "idle", n |-> 1, fetching |-> FALSE, ring |-> TRUE,
             signal |-> TRUE, quiet |-> FALSE, snap |-> 0, base |-> 0,
             slot |-> 0, own |-> 0]

Init ==
    /\ lock = NoWave /\ post = 0 /\ rung = 0 /\ done = 0 /\ cqe = Invalid
    /\ buf = [s \in 0..(Depth - 1) |->
                [id |-> Invalid, ret |-> NoSlot, signal |-> TRUE]]
    /\ fetching_atomic_idx = 0
    /\ fetching_atomic = [s \in 0..(FetchCnt - 1) |-> Invalid]
    /\ wv = [w \in Waves |-> IdleWave]

queue == <<post, rung, done, cqe, buf, fetching_atomic_idx, fetching_atomic>>

Goto(w, pc) == wv' = [wv EXCEPT ![w].pc = pc]

-----------------------------------------------------------------------------
(* The entry points.  A put posted without ringing the doorbell is always  *)
(* followed by a non-fetching atomic of the same lane, which rings it.     *)

Start(w, n, fetching, ring, signal) ==
    /\ wv[w].pc = "idle"
    /\ wv[w].ring => post < MaxPost
    /\ wv' = [wv EXCEPT ![w] = [@ EXCEPT !.pc = "lock", !.n = n,
                !.fetching = fetching, !.ring = ring, !.signal = signal,
                !.quiet = FALSE]]
    /\ UNCHANGED <<lock, queue>>

mlx5_post_wqe_rma(w) ==
    /\ "rma" \in Ops /\ wv[w].ring
    /\ \E n \in Lanes : Start(w, n, FALSE, TRUE, TRUE)

mlx5_post_wqe_rma_single(w) ==
    /\ "single" \in Ops /\ wv[w].ring
    /\ \E ring_db \in BOOLEAN : Start(w, 1, FALSE, ring_db, TRUE)

mlx5_post_wqe_amo(w) ==
    /\ "amo" \in Ops /\ wv[w].ring
    /\ \E n \in Lanes, fetching \in BOOLEAN : Start(w, n, fetching, TRUE, TRUE)

mlx5_post_wqe_amo_single(w) ==
    /\ "single" \in Ops
    /\ \E fetching \in BOOLEAN :
         /\ fetching => wv[w].ring
         /\ Start(w, 1, fetching, TRUE, TRUE)

mlx5_post_wqe_rma_dp_single_lane(w) ==
    /\ "dp" \in Ops /\ wv[w].ring
    /\ Start(w, 1, FALSE, TRUE, FALSE)

mlx5_quiet(w) ==
    /\ "quiet" \in Ops
    /\ wv[w].pc = "idle" /\ wv[w].ring
    /\ wv' = [wv EXCEPT ![w].pc = "poll", ![w].quiet = TRUE,
                        ![w].fetching = FALSE]
    /\ UNCHANGED <<lock, queue>>

-----------------------------------------------------------------------------
(* acquire_lock; only the data-path posts skip the poll for space.         *)
acquire_lock(w) ==
    /\ wv[w].pc = "lock" /\ lock = NoWave
    /\ lock' = w
    /\ Goto(w, IF wv[w].signal THEN "poll" ELSE "write")
    /\ UNCHANGED queue

requested_available_slots(w) == IF wv[w].quiet THEN Depth ELSE wv[w].n

AfterPoll(w) == IF wv[w].quiet THEN "ret" ELSE "write"

(* Mutant: the shortcut forgets the slots that are asked for.              *)
EnterGreedy(w) ==
    /\ wv[w].pc = "poll"
    /\ wv' = [wv EXCEPT ![w].snap = post,
                ![w].pc = IF post <= Depth THEN AfterPoll(w) ELSE "spin"]
    /\ UNCHANGED <<lock, queue>>

(* mlx5_poll_cq_until loads post once; a queue that was never full needs   *)
(* no look at the completion queue.                                        *)
mlx5_poll_cq_until(w) ==
    /\ wv[w].pc = "poll"
    /\ wv' = [wv EXCEPT ![w].snap = post,
                ![w].pc = IF post + requested_available_slots(w) <= Depth
                          THEN AfterPoll(w) ELSE "spin"]
    /\ UNCHANGED <<lock, queue>>

(* 16-bit difference of the posted and the completed WQEs.                 *)
consumed_slots(w) == (wv[w].snap - (cqe + 1)) % CtrMod

(* Mutant: the counter of the last completed WQE is taken for their number *)
(* plus one.                                                               *)
SpinCountsOneMore(w) ==
    /\ wv[w].pc = "spin"
    /\ cqe # Invalid
    /\ LET consumed == (wv[w].snap - (cqe + 2)) % CtrMod
       IN consumed > Depth \/ Depth - consumed >= requested_available_slots(w)
    /\ Goto(w, AfterPoll(w))
    /\ UNCHANGED <<lock, queue>>

(* The loop reads the completion entry until it shows enough free slots.   *)
Spin(w) ==
    /\ wv[w].pc = "spin"
    /\ cqe # Invalid
    /\ \/ consumed_slots(w) > Depth
       \/ Depth - consumed_slots(w) >= requested_available_slots(w)
    /\ Goto(w, AfterPoll(w))
    /\ UNCHANGED <<lock, queue>>

mlx5_wqe_idx(i) == (post + i) % CtrMod
mlx5_sq_idx(wqe_idx) == wqe_idx % Depth

atomic_idx(i) == (fetching_atomic_idx + i) % FetchCnt

LanesAt(w, s) == {i \in 0..(wv[w].n - 1) : mlx5_sq_idx(mlx5_wqe_idx(i)) = s}

gda_mlx5_wqe(w, i) ==
    [id |-> post + i,
     ret |-> IF wv[w].fetching THEN atomic_idx(i) ELSE NoSlot,
     signal |-> wv[w].signal]

(* Every lane copies its WQE into the queue.                               *)
WriteWqes(w) ==
    /\ wv[w].pc = "write"
    /\ buf' = [s \in DOMAIN buf |->
         IF LanesAt(w, s) = {} THEN buf[s]
         ELSE gda_mlx5_wqe(w, CHOOSE i \in LanesAt(w, s) : TRUE)]
    /\ wv' = [wv EXCEPT ![w].pc = "publish", ![w].base = post,
                        ![w].slot = fetching_atomic_idx]
    /\ UNCHANGED <<lock, post, rung, done, cqe, fetching_atomic_idx,
                   fetching_atomic>>

(* Mutant: all fetching lanes of the next wavefront start at the old index.*)
PublishKeepsIndex(w) ==
    /\ wv[w].pc = "publish"
    /\ post' = post + wv[w].n
    /\ wv' = [wv EXCEPT ![w].own = post', ![w].pc = "ring"]
    /\ UNCHANGED <<lock, rung, done, cqe, buf, fetching_atomic_idx,
                   fetching_atomic>>

(* The last lane advances the counters ...                                 *)
Publish(w) ==
    /\ wv[w].pc = "publish"
    /\ post' = post + wv[w].n
    /\ fetching_atomic_idx' =
         fetching_atomic_idx + IF wv[w].fetching THEN wv[w].n ELSE 0
    /\ wv' = [wv EXCEPT ![w].own = post', ![w].pc = "ring"]
    /\ UNCHANGED <<lock, rung, done, cqe, buf, fetching_atomic>>

(* Mutant: the doorbell carries the counter before the increment.          *)
RingOld(w) ==
    /\ wv[w].pc = "ring"
    /\ rung' = IF wv[w].ring THEN wv[w].base ELSE rung
    /\ Goto(w, "unlock")
    /\ UNCHANGED <<lock, post, done, cqe, buf, fetching_atomic_idx,
                   fetching_atomic>>

(* ... and rings the doorbell.                                             *)
mlx5_ring_doorbell(w) ==
    /\ wv[w].pc = "ring"
    /\ rung' = IF wv[w].ring THEN post ELSE rung
    /\ Goto(w, "unlock")
    /\ UNCHANGED <<lock, post, done, cqe, buf, fetching_atomic_idx,
                   fetching_atomic>>

(* release_lock, and the wait of a fetching atomic.                        *)
release_lock(w) ==
    /\ wv[w].pc = "unlock"
    /\ lock' = NoWave
    /\ wv' = [wv EXCEPT ![w].quiet = wv[w].fetching,
                ![w].pc = IF wv[w].fetching THEN "poll" ELSE "idle"]
    /\ UNCHANGED queue

(* The read of the fetched values, and the return.                         *)
Return(w) ==
    /\ wv[w].pc = "ret"
    /\ Goto(w, "idle")
    /\ UNCHANGED <<lock, queue>>

(* The adapter executes the next WQE it knows of and, if asked, overwrites *)
(* the completion entry.                                                   *)
Complete ==
    LET wqe == buf[done % Depth] IN
    /\ done < rung
    /\ done' = done + 1
    /\ cqe' = IF wqe.signal THEN done % CtrMod ELSE cqe
    /\ fetching_atomic' = IF wqe.ret = NoSlot THEN fetching_atomic
                          ELSE [fetching_atomic EXCEPT ![wqe.ret] = wqe.id]
    /\ UNCHANGED <<lock, post, rung, buf, fetching_atomic_idx, wv>>

Begin(w) ==
    \/ mlx5_post_wqe_rma(w) \/ mlx5_post_wqe_rma_single(w)
    \/ mlx5_post_wqe_amo(w) \/ mlx5_post_wqe_rma_dp_single_lane(w)
    \/ mlx5_quiet(w)

Advance(w) ==
    \/ acquire_lock(w) \/ mlx5_poll_cq_until(w) \/ Spin(w) \/ WriteWqes(w)
    \/ Publish(w) \/ mlx5_ring_doorbell(w) \/ release_lock(w) \/ Return(w)

Next ==
    \/ \E w \in Waves : Begin(w) \/ mlx5_post_wqe_amo_single(w) \/ Advance(w)
    \/ Complete

Spec == Init /\ [][Next]_vars

(* Every wavefront keeps running, and finishes the pair of a put without   *)
(* doorbell and its atomic; the adapter executes what it was told of.      *)
Fairness ==
    /\ WF_vars(Complete)
    /\ \A w \in Waves :
         /\ WF_vars(Advance(w))
         /\ WF_vars(~wv[w].ring /\ mlx5_post_wqe_amo_single(w))

FairSpec == Spec /\ Fairness

-----------------------------------------------------------------------------
WaveState ==
    [pc : {"idle", "lock", "poll", "spin", "write", "publish", "ring",
           "unlock", "ret"},
     n : 1..Depth, fetching : BOOLEAN, ring : BOOLEAN, signal : BOOLEAN,
     quiet : BOOLEAN, snap : Nat, base : Nat, slot : Nat, own : Nat]

Wqe == [id : Nat \cup {Invalid}, ret : (0..(FetchCnt - 1)) \cup {NoSlot},
        signal : BOOLEAN]

TypeOK ==
    /\ lock \in Waves \cup {NoWave}
    /\ post \in Nat /\ rung \in Nat /\ done \in Nat
    /\ cqe \in (0..(CtrMod - 1)) \cup {Invalid}
    /\ buf \in [0..(Depth - 1) -> Wqe]
    /\ fetching_atomic_idx \in Nat
    /\ fetching_atomic \in [0..(FetchCnt - 1) -> Nat \cup {Invalid}]
    /\ wv \in [Waves -> WaveState]

(* Every WQE that is posted and not completed is in its slot: a post never *)
(* overwrites one the adapter has still to execute, so each is executed    *)
(* once and in order.                                                      *)
PostedIntact ==
    /\ done <= rung /\ rung <= post /\ post <= done + Depth
    /\ \A i \in done..(post - 1) : buf[i % Depth].id = i

(* When quiet, or the wait inside a fetching atomic, is over, the adapter  *)
(* has completed everything posted before it began, the wavefront's own    *)
(* WQEs in particular.                                                     *)
QuietCompletes ==
    \A w \in Waves :
        wv[w].pc = "ret" => wv[w].own <= wv[w].snap /\ wv[w].snap <= done

(* A fetching atomic returns the value its own WQE fetched.                *)
ReturnIsOwn ==
    \A w \in Waves : wv[w].pc = "ret" /\ wv[w].fetching =>
        \A i \in 0..(wv[w].n - 1) :
            fetching_atomic[(wv[w].slot + i) % FetchCnt] = wv[w].base + i

(* The same while fewer than FetchCnt fetches were started since: the ring *)
(* of return slots is reused without asking whether the reader is done.    *)
ReturnIsOwnInTime ==
    \A w \in Waves :
        /\ wv[w].pc = "ret" /\ wv[w].fetching
        /\ fetching_atomic_idx <= wv[w].slot + FetchCnt
        => \A i \in 0..(wv[w].n - 1) :
             fetching_atomic[(wv[w].slot + i) % FetchCnt] = wv[w].base + i

(* A wavefront that waits misses no more completions than the counter can  *)
(* tell apart.                                                             *)
InTime == \A w \in Waves : wv[w].pc = "spin" => done - wv[w].snap < CtrMod - Depth

(* Nobody waits for nothing: while an operation is under way, a put not    *)
(* yet announced included, the adapter or a wavefront can go on.           *)
NothingHangs ==
    InTime /\ (\E w \in Waves : wv[w].pc # "idle" \/ ~wv[w].ring)
    => ENABLED (Complete \/ \E w \in Waves : Advance(w) \/ mlx5_post_wqe_amo_single(w))

(* A poll of the completion queue ends: neither the wait for room nor      *)
(* quiet hangs.                                                            *)
EveryPollReturns ==
    \A w \in Waves : wv[w].pc = "spin" ~> wv[w].pc # "spin"
-----------------------------------------------------------------------------
(* What holds of a wavefront on its way through the queue: it owns the     *)
(* lock from the poll for room to the doorbell, what it polled for is      *)
(* still free when it writes, and its snapshot covers its own WQEs.        *)
WaveInv(w) ==
    /\ wv[w].signal
    /\ \/ wv[w].pc \in {"write", "publish", "ring", "unlock"}
       \/ wv[w].pc \in {"poll", "spin"} /\ ~wv[w].quiet
       => lock = w
    /\ wv[w].own <= post /\ wv[w].snap <= post
    /\ wv[w].pc = "spin" /\ ~wv[w].quiet => wv[w].snap = post
    /\ wv[w].pc \in {"write", "publish"} => post + wv[w].n <= done + Depth
    /\ wv[w].pc = "publish" =>
         /\ wv[w].base = post
         /\ \A i \in 0..(wv[w].n - 1) : buf[(post + i) % Depth].id = post + i
    /\ wv[w].pc = "spin" /\ wv[w].quiet => wv[w].own <= wv[w].snap
    /\ wv[w].pc = "ret" => wv[w].own <= wv[w].snap /\ wv[w].snap <= done
    /\ wv[w].pc = "ret" => wv[w].quiet

(* The completion entry shows the last completed WQE, in 16 bits.          *)
EntryIsLast ==
    /\ \A s \in DOMAIN buf : buf[s].signal
    /\ cqe = IF done = 0 THEN Invalid ELSE (done - 1) % CtrMod

(* The inductive invariant of the queue used without the data-path posts:  *)
(* slots intact, the completion entry exact, every wavefront consistent.   *)
QueueInv ==
    /\ PostedIntact
    /\ EntryIsLast
    /\ \A w \in Waves : WaveInv(w)
=============================================================================
