------------------------------ MODULE ShcaQueue ------------------------------
(***************************************************************************)
(* The send and completion queues of an SHCA queue pair driven from the    *)
(* GPU (gda/shca/queue_pair_shca.cpp and queue_pair_shca_multiqp.cpp).     *)
(* Wavefronts draw tickets (numbers of work queue entries, WQEs) from      *)
(* sq_posted without a lock, wait for room, write their WQEs in any order  *)
(* and ring the doorbell in ticket order.  quiet hands out completion      *)
(* entries (CQEs) to wavefronts, which retire them in order.  The single-  *)
(* lane forms serialise on a lock instead, and have a quiet of their own.  *)
(*                                                                         *)
(* The lanes of a wavefront that use the queue run in lockstep, so a       *)
(* wavefront is one process with n lanes.  Loads and stores take effect in *)
(* program order.                                                          *)
(***************************************************************************)
EXTENDS Integers, FiniteSets

CONSTANTS
    Waves,      \* wavefronts that share the queue pair
    sq_wqe_cnt, cq_cnt,
    Lanes,      \* numbers of lanes of a wavefront that post together
    Buffers,    \* return buffers of fetching atomics
    Ops,        \* the operations the wavefronts call
    MaxPost,    \* no operation starts after this many WQEs
    NoWave, NoBuffer

ShcaAssumption ==
    /\ sq_wqe_cnt \in Nat \ {0} /\ cq_cnt \in Nat \ {0} /\ MaxPost \in Nat
    /\ \A n \in Lanes : n \in 1..sq_wqe_cnt /\ n <= cq_cnt
    /\ NoWave \notin Waves /\ NoBuffer \notin Buffers

VARIABLES
    sq_lock,
    sq_posted, sq_db_touched, sq_sunk,
    quiet_posted, quiet_active, quiet_completed, cq_consumer,
    sq_buf,             \* the WQE (ticket and return buffer) of every slot
    cq_buf,             \* the CQE (ticket or Invalid, owner bit)
    freelist,           \* fetching_atomic_freelist
    fetched,            \* the ticket that wrote each return buffer last
    rung, done,         \* the WQEs the adapter knows of, has completed
    wv                  \* each wavefront's pc and local variables

ticketing == <<sq_posted, sq_db_touched>>
quieting == <<sq_sunk, quiet_active, quiet_completed, cq_consumer>>
adapter == <<fetched, done>>
vars == <<sq_lock, ticketing, quieting, quiet_posted, sq_buf, cq_buf, freelist,
          adapter, rung, wv>>

Invalid == -1

IdleWave == [pc |-> "idle", n |-> 1, single |-> FALSE, fetching |-> FALSE,
             ticket |-> 0, buffer |-> NoBuffer, own |-> 0, back |-> "idle",
             db |-> 0, active |-> 0, posted |-> 0, amount |-> 0,
             consumer |-> 0, id |-> 0]

Init ==
    /\ sq_lock = NoWave
    /\ sq_posted = 0 /\ sq_db_touched = 0 /\ sq_sunk = 0
    /\ quiet_posted = 0 /\ quiet_active = 0 /\ quiet_completed = 0
    /\ cq_consumer = 0
    /\ sq_buf = [s \in 0..(sq_wqe_cnt - 1) |-> [id |-> Invalid, ret |-> NoBuffer]]
    /\ cq_buf = [s \in 0..(cq_cnt - 1) |-> [id |-> Invalid, owner |-> 0]]
    /\ freelist = Buffers /\ fetched = [b \in Buffers |-> Invalid]
    /\ rung = 0 /\ done = 0
    /\ wv = [w \in Waves |-> IdleWave]

Goto(w, pc) == wv' = [wv EXCEPT ![w].pc = pc]

(* The locals of a round of quiet, and of an operation, end with it.       *)
NextRound(r, pc) == [r EXCEPT !.pc = pc, !.active = 0, !.posted = 0,
                     !.amount = 0, !.consumer = 0, !.id = 0]
Finished(r) == [IdleWave EXCEPT !.own = r.own]

larger(a, b) == IF a < b THEN b ELSE a
smaller(a, b) == IF a < b THEN a ELSE b

-----------------------------------------------------------------------------
(* Entry points of a whole wavefront, and of a single lane.                *)

Start(w, op, pc, n, single, fetching) ==
    /\ op \in Ops /\ wv[w].pc = "idle" /\ sq_posted < MaxPost
    /\ wv' = [wv EXCEPT ![w] = [@ EXCEPT !.pc = pc, !.n = n,
                !.single = single, !.fetching = fetching]]
    /\ UNCHANGED <<sq_lock, ticketing, quieting, quiet_posted, sq_buf, cq_buf,
                   freelist, adapter, rung>>

shca_post_wqe_rma(w) ==
    \E n \in Lanes : Start(w, "rma", "take", n, FALSE, FALSE)

shca_post_wqe_amo(w) ==
    \E n \in Lanes, fetching \in BOOLEAN :
        Start(w, "amo", "take", n, FALSE, fetching)

shca_post_wqe_rma_single(w) == Start(w, "rma_single", "lock", 1, TRUE, FALSE)

shca_post_wqe_amo_single(w) ==
    \E fetching \in BOOLEAN :
        Start(w, "amo_single", "lock", 1, TRUE, fetching)

EnterQuiet(w, op, pc) ==
    /\ op \in Ops /\ wv[w].pc = "idle"
    /\ wv' = [wv EXCEPT ![w].pc = pc, ![w].n = 1, ![w].back = "ret",
                        ![w].fetching = FALSE]
    /\ UNCHANGED <<sq_lock, ticketing, quieting, quiet_posted, sq_buf, cq_buf,
                   freelist, adapter, rung>>

Quiet(w) == EnterQuiet(w, "quiet", "active")
QuietSingle(w) == EnterQuiet(w, "quiet_single", "single_completed")

-----------------------------------------------------------------------------
(* Posting.                                                                *)

acquire_lock(w) ==
    /\ wv[w].pc = "lock" /\ sq_lock = NoWave
    /\ sq_lock' = w
    /\ Goto(w, "load")
    /\ UNCHANGED <<ticketing, quieting, quiet_posted, sq_buf, cq_buf, freelist,
                   adapter, rung>>

(* The leader draws the tickets of its wavefront with one atomic addition. *)
TakeTickets(w) ==
    /\ wv[w].pc = "take"
    /\ sq_posted' = sq_posted + wv[w].n
    /\ wv' = [wv EXCEPT ![w].ticket = sq_posted, ![w].pc = "touched"]
    /\ UNCHANGED <<sq_lock, sq_db_touched, quieting, quiet_posted, sq_buf,
                   cq_buf, freelist, adapter, rung>>

(* A single lane increments sq_posted by a load and a store.               *)
LoadTicket(w) ==
    /\ wv[w].pc = "load"
    /\ wv' = [wv EXCEPT ![w].ticket = sq_posted, ![w].pc = "store"]
    /\ UNCHANGED <<sq_lock, ticketing, quieting, quiet_posted, sq_buf, cq_buf,
                   freelist, adapter, rung>>

StoreTicket(w) ==
    /\ wv[w].pc = "store"
    /\ sq_posted' = wv[w].ticket + 1
    /\ Goto(w, "touched")
    /\ UNCHANGED <<sq_lock, sq_db_touched, quieting, quiet_posted, sq_buf,
                   cq_buf, freelist, adapter, rung>>

(* shca_wait_for_free_sq_slots loads sq_db_touched ...                     *)
LoadTouched(w) ==
    /\ wv[w].pc = "touched"
    /\ wv' = [wv EXCEPT ![w].db = sq_db_touched, ![w].pc = "sunk"]
    /\ UNCHANGED <<sq_lock, ticketing, quieting, quiet_posted, sq_buf, cq_buf,
                   freelist, adapter, rung>>

num_active_sq_entries(w) == wv[w].db - sq_sunk
num_free_entries(w) == smaller(sq_wqe_cnt, cq_cnt) - num_active_sq_entries(w)

num_entries_until_wave_last_entry(w) == wv[w].ticket + wv[w].n - wv[w].db

(* Mutant: the SQ alone bounds the WQEs outstanding.                       *)
WaitForSqOnly(w) ==
    /\ wv[w].pc = "sunk"
    /\ wv' = [wv EXCEPT ![w].back = "touched",
         ![w].pc =
           IF num_active_sq_entries(w) < 0 THEN "touched"
           ELSE IF sq_wqe_cnt - num_active_sq_entries(w)
                     >= num_entries_until_wave_last_entry(w)
           THEN IF wv[w].fetching THEN "pop" ELSE "build" ELSE "active"]
    /\ UNCHANGED <<sq_lock, ticketing, quieting, quiet_posted, sq_buf, cq_buf,
                   freelist, adapter, rung>>

(* ... then sq_sunk, and calls quiet while its last WQE would not fit.     *)
shca_wait_for_free_sq_slots(w) ==
    /\ wv[w].pc = "sunk"
    /\ wv' = [wv EXCEPT ![w].back = "touched",
         ![w].pc =
           IF num_active_sq_entries(w) < 0 THEN "touched"
           ELSE IF num_free_entries(w) >= num_entries_until_wave_last_entry(w)
           THEN IF wv[w].fetching THEN "pop" ELSE "build" ELSE "active"]
    /\ UNCHANGED <<sq_lock, ticketing, quieting, quiet_posted, sq_buf, cq_buf,
                   freelist, adapter, rung>>

(* A return buffer for the wavefront, taken in ticket order; a single lane *)
(* takes its own under the lock.                                           *)
shca_allocate_wave_fetching_atomic_buffer(w) ==
    /\ wv[w].pc = "pop"
    /\ wv[w].single \/ sq_db_touched = wv[w].ticket
    /\ \E b \in freelist :
         /\ freelist' = freelist \ {b}
         /\ wv' = [wv EXCEPT ![w].buffer = b, ![w].pc = "build"]
    /\ UNCHANGED <<sq_lock, ticketing, quieting, quiet_posted, sq_buf, cq_buf,
                   adapter, rung>>

(* shca_build_rma_wqe and shca_build_amo_wqe on every lane.                *)
BuildWqes(w) ==
    /\ wv[w].pc = "build"
    /\ sq_buf' = [s \in DOMAIN sq_buf |->
         LET mine == {i \in 0..(wv[w].n - 1) : (wv[w].ticket + i) % sq_wqe_cnt = s}
         IN IF mine = {} THEN sq_buf[s]
            ELSE [id |-> wv[w].ticket + CHOOSE i \in mine : TRUE,
                  ret |-> wv[w].buffer]]
    /\ Goto(w, "ring")
    /\ UNCHANGED <<sq_lock, ticketing, quieting, quiet_posted, cq_buf, freelist,
                   adapter, rung>>

(* shca_ring_doorbell: in ticket order, the doorbell, the count of what    *)
(* quiet has to wait for, and the turn of the next ticket.                 *)
shca_write_doorbell(w) ==
    /\ wv[w].pc = "ring" /\ sq_db_touched = wv[w].ticket
    /\ rung' = wv[w].ticket + wv[w].n
    /\ Goto(w, "count")
    /\ UNCHANGED <<sq_lock, ticketing, quieting, quiet_posted, sq_buf, cq_buf,
                   freelist, adapter>>

CountPosted(w) ==
    /\ wv[w].pc = "count"
    /\ quiet_posted' = quiet_posted + wv[w].n
    /\ Goto(w, "touch")
    /\ UNCHANGED <<sq_lock, ticketing, quieting, sq_buf, cq_buf, freelist,
                   adapter, rung>>

shca_ring_doorbell(w) ==
    /\ wv[w].pc = "touch"
    /\ sq_db_touched' = wv[w].ticket + wv[w].n
    /\ LET r == [wv[w] EXCEPT !.own = wv[w].ticket + wv[w].n, !.back = "read"]
       IN wv' = [wv EXCEPT ![w] =
            IF wv[w].single THEN [r EXCEPT !.pc = "unlock"]
            ELSE IF wv[w].fetching THEN [r EXCEPT !.pc = "active"]
            ELSE Finished(r)]
    /\ UNCHANGED <<sq_lock, sq_posted, quieting, quiet_posted, sq_buf, cq_buf,
                   freelist, adapter, rung>>

release_lock(w) ==
    /\ wv[w].pc = "unlock"
    /\ sq_lock' = NoWave
    /\ wv' = [wv EXCEPT ![w] =
         IF wv[w].fetching THEN [@ EXCEPT !.pc = "single_completed"]
         ELSE Finished(@)]
    /\ UNCHANGED <<ticketing, quieting, quiet_posted, sq_buf, cq_buf, freelist,
                   adapter, rung>>

(* The fetched values are read, and the buffer goes back.                  *)
ReadFetched(w) ==
    /\ wv[w].pc = "read"
    /\ freelist' = freelist \cup {wv[w].buffer}
    /\ wv' = [wv EXCEPT ![w] = Finished(@)]
    /\ UNCHANGED <<sq_lock, ticketing, quieting, quiet_posted, sq_buf, cq_buf,
                   adapter, rung>>

Return(w) ==
    /\ wv[w].pc = "ret"
    /\ wv' = [wv EXCEPT ![w] = Finished(@)]
    /\ UNCHANGED <<sq_lock, ticketing, quieting, quiet_posted, sq_buf, cq_buf,
                   freelist, adapter, rung>>

-----------------------------------------------------------------------------
(* quiet of a wavefront: CQEs are handed out by a compare-and-swap on      *)
(* quiet_active and an addition on cq_consumer, and retired in order.      *)

LoadActive(w) ==
    /\ wv[w].pc = "active"
    /\ wv' = [wv EXCEPT ![w].active = quiet_active, ![w].pc = "posted"]
    /\ UNCHANGED <<sq_lock, ticketing, quieting, quiet_posted, sq_buf, cq_buf,
                   freelist, adapter, rung>>

LoadPosted(w) ==
    /\ wv[w].pc = "posted"
    /\ wv' = [wv EXCEPT ![w].posted = quiet_posted, ![w].pc = "completed"]
    /\ UNCHANGED <<sq_lock, ticketing, quieting, quiet_posted, sq_buf, cq_buf,
                   freelist, adapter, rung>>

shca_quiet(w) ==
    LET quiet_val == wv[w].posted - wv[w].active IN
    /\ wv[w].pc = "completed"
    /\ wv' = [wv EXCEPT ![w] =
         IF wv[w].posted = quiet_completed THEN NextRound(@, wv[w].back)
         ELSE IF quiet_val <= 0 THEN NextRound(@, "active")
         ELSE [@ EXCEPT !.amount = smaller(wv[w].n, quiet_val), !.pc = "cas"]]
    /\ UNCHANGED <<sq_lock, ticketing, quieting, quiet_posted, sq_buf, cq_buf,
                   freelist, adapter, rung>>

ClaimCqes(w) ==
    /\ wv[w].pc = "cas"
    /\ IF quiet_active = wv[w].active
       THEN /\ quiet_active' = quiet_active + wv[w].amount
            /\ Goto(w, "consumer")
       ELSE /\ wv' = [wv EXCEPT ![w] = NextRound(@, "active")]
            /\ UNCHANGED quiet_active
    /\ UNCHANGED <<sq_lock, ticketing, sq_sunk, quiet_completed, cq_consumer,
                   quiet_posted, sq_buf, cq_buf, freelist, adapter, rung>>

TakeConsumer(w) ==
    /\ wv[w].pc = "consumer"
    /\ cq_consumer' = cq_consumer + wv[w].amount
    /\ wv' = [wv EXCEPT ![w].consumer = cq_consumer, ![w].pc = "cqe"]
    /\ UNCHANGED <<sq_lock, ticketing, sq_sunk, quiet_active, quiet_completed,
                   quiet_posted, sq_buf, cq_buf, freelist, adapter, rung>>

owner_bit(consumer) == (consumer \div cq_cnt) % 2

Arrived(consumer) ==
    LET cqe == cq_buf[consumer % cq_cnt] IN
    cqe.owner # owner_bit(consumer) /\ cqe.id # Invalid

Consumed(consumer) == [id |-> Invalid, owner |-> owner_bit(consumer)]

(* The wavefront waits until all its CQEs have arrived, notes the highest  *)
(* ticket among them and marks them invalid.                               *)
ReadCqes(w) ==
    LET mine == wv[w].consumer..(wv[w].consumer + wv[w].amount - 1)
        last == CHOOSE c \in mine : \A d \in mine :
                  cq_buf[d % cq_cnt].id <= cq_buf[c % cq_cnt].id IN
    /\ wv[w].pc = "cqe"
    /\ \A c \in mine : Arrived(c)
    /\ cq_buf' = [s \in DOMAIN cq_buf |->
         IF \E c \in mine : c % cq_cnt = s
         THEN Consumed(CHOOSE c \in mine : c % cq_cnt = s) ELSE cq_buf[s]]
    /\ wv' = [wv EXCEPT ![w].id = cq_buf[last % cq_cnt].id, ![w].pc = "turn"]
    /\ UNCHANGED <<sq_lock, ticketing, quieting, quiet_posted, sq_buf, freelist,
                   adapter, rung>>

(* When all CQEs before are retired, sq_sunk frees the slots ...           *)
AwaitTurn(w) ==
    /\ wv[w].pc = "turn" /\ quiet_completed = wv[w].consumer
    /\ sq_sunk' = larger(sq_sunk, wv[w].id + 1)
    /\ Goto(w, "retire")
    /\ UNCHANGED <<sq_lock, ticketing, quiet_active, quiet_completed,
                   cq_consumer, quiet_posted, sq_buf, cq_buf, freelist, adapter,
                   rung>>

(* ... and quiet_completed counts them.                                    *)
Retire(w) ==
    /\ wv[w].pc = "retire"
    /\ quiet_completed' = quiet_completed + wv[w].amount
    /\ wv' = [wv EXCEPT ![w] = NextRound(@, "active")]
    /\ UNCHANGED <<sq_lock, ticketing, sq_sunk, quiet_active, cq_consumer,
                   quiet_posted, sq_buf, cq_buf, freelist, adapter, rung>>

-----------------------------------------------------------------------------
(* quiet of a single lane uses quiet_completed as its consumer index and   *)
(* touches neither quiet_active nor cq_consumer.                           *)

SingleLoadCompleted(w) ==
    /\ wv[w].pc = "single_completed"
    /\ wv' = [wv EXCEPT ![w].consumer = quiet_completed,
                        ![w].pc = "single_posted"]
    /\ UNCHANGED <<sq_lock, ticketing, quieting, quiet_posted, sq_buf, cq_buf,
                   freelist, adapter, rung>>

shca_quiet_single(w) ==
    /\ wv[w].pc = "single_posted"
    /\ wv' = [wv EXCEPT ![w] =
         IF quiet_posted = wv[w].consumer THEN NextRound(@, wv[w].back)
         ELSE [@ EXCEPT !.pc = "single_cqe"]]
    /\ UNCHANGED <<sq_lock, ticketing, quieting, quiet_posted, sq_buf, cq_buf,
                   freelist, adapter, rung>>

SingleReadCqe(w) ==
    LET s == wv[w].consumer % cq_cnt IN
    /\ wv[w].pc = "single_cqe" /\ Arrived(wv[w].consumer)
    /\ cq_buf' = [cq_buf EXCEPT ![s] = Consumed(wv[w].consumer)]
    /\ wv' = [wv EXCEPT ![w].id = cq_buf[s].id, ![w].pc = "single_sunk"]
    /\ UNCHANGED <<sq_lock, ticketing, quieting, quiet_posted, sq_buf, freelist,
                   adapter, rung>>

SingleSunk(w) ==
    /\ wv[w].pc = "single_sunk"
    /\ sq_sunk' = larger(sq_sunk, wv[w].id + 1)
    /\ Goto(w, "single_retire")
    /\ UNCHANGED <<sq_lock, ticketing, quiet_active, quiet_completed,
                   cq_consumer, quiet_posted, sq_buf, cq_buf, freelist, adapter,
                   rung>>

SingleRetire(w) ==
    /\ wv[w].pc = "single_retire"
    /\ quiet_completed' = wv[w].consumer + 1
    /\ wv' = [wv EXCEPT ![w] = NextRound(@, "single_completed")]
    /\ UNCHANGED <<sq_lock, ticketing, sq_sunk, quiet_active, cq_consumer,
                   quiet_posted, sq_buf, cq_buf, freelist, adapter, rung>>

-----------------------------------------------------------------------------
(* The adapter executes the next WQE it knows of and writes its CQE.       *)
Complete ==
    LET wqe == sq_buf[done % sq_wqe_cnt] IN
    /\ done < rung
    /\ done' = done + 1
    /\ cq_buf' = [cq_buf EXCEPT ![done % cq_cnt] =
                    [id |-> wqe.id, owner |-> 1 - owner_bit(done)]]
    /\ fetched' = IF wqe.ret = NoBuffer THEN fetched
                  ELSE [fetched EXCEPT ![wqe.ret] = wqe.id]
    /\ UNCHANGED <<sq_lock, ticketing, quieting, quiet_posted, sq_buf, freelist,
                   rung, wv>>

Begin(w) ==
    \/ shca_post_wqe_rma(w) \/ shca_post_wqe_amo(w) \/ Quiet(w)
    \/ shca_post_wqe_rma_single(w) \/ shca_post_wqe_amo_single(w)
    \/ QuietSingle(w)

Post(w) ==
    \/ acquire_lock(w) \/ TakeTickets(w) \/ LoadTicket(w) \/ StoreTicket(w)
    \/ LoadTouched(w) \/ shca_wait_for_free_sq_slots(w)
    \/ shca_allocate_wave_fetching_atomic_buffer(w) \/ BuildWqes(w)
    \/ shca_write_doorbell(w) \/ CountPosted(w) \/ shca_ring_doorbell(w)
    \/ release_lock(w) \/ ReadFetched(w) \/ Return(w)

Drain(w) ==
    \/ LoadActive(w) \/ LoadPosted(w) \/ shca_quiet(w) \/ ClaimCqes(w)
    \/ TakeConsumer(w) \/ ReadCqes(w) \/ AwaitTurn(w) \/ Retire(w)

DrainSingle(w) ==
    \/ SingleLoadCompleted(w) \/ shca_quiet_single(w) \/ SingleReadCqe(w)
    \/ SingleSunk(w) \/ SingleRetire(w)

Step(w) == Post(w) \/ Drain(w) \/ DrainSingle(w)

Next ==
    \/ \E w \in Waves : Begin(w) \/ Step(w)
    \/ Complete

Spec == Init /\ [][Next]_vars

(* Every wavefront keeps running; the adapter executes what it was told.   *)
Fairness == WF_vars(Complete) /\ \A w \in Waves : WF_vars(Step(w))

FairSpec == Spec /\ Fairness

-----------------------------------------------------------------------------
TypeOK ==
    /\ sq_lock \in Waves \cup {NoWave}
    /\ {sq_posted, sq_db_touched, sq_sunk, quiet_posted, quiet_active,
        quiet_completed, cq_consumer, rung, done} \subseteq Nat
    /\ freelist \subseteq Buffers
    /\ \A w \in Waves : wv[w].pc = "cqe" => wv[w].amount \in 1..wv[w].n

(* A WQE the adapter has still to execute is in its slot, and a CQE that   *)
(* is not retired is never overwritten: the tickets drawn without a lock   *)
(* stay within the room of both queues.                                    *)
PostedIntact ==
    /\ done <= rung /\ rung <= sq_posted
    /\ \A i \in done..(rung - 1) : sq_buf[i % sq_wqe_cnt].id = i
    /\ done <= sq_sunk + cq_cnt
    /\ \A i \in sq_sunk..(done - 1) : cq_buf[i % cq_cnt].id \in {i, Invalid}

(* quiet accounts for every CQE once: what is retired was handed out, what *)
(* was handed out was posted, and the slots of retired WQEs are free.      *)
CountersInOrder ==
    /\ quiet_completed <= cq_consumer /\ cq_consumer <= quiet_active
    /\ quiet_active <= quiet_posted /\ quiet_posted <= rung
    /\ quiet_completed <= sq_sunk /\ sq_sunk <= done

(* No two wavefronts hold the same ticket, so that each writes and rings   *)
(* its own SQ entries.                                                     *)
TicketsDisjoint ==
    LET Holding(w) == wv[w].pc \in {"touched", "sunk", "pop", "build", "ring"}
    IN \A v, w \in Waves : v # w /\ Holding(v) /\ Holding(w) =>
         \/ wv[v].ticket + wv[v].n <= wv[w].ticket
         \/ wv[w].ticket + wv[w].n <= wv[v].ticket

(* When quiet is over, the adapter has completed all WQEs the wavefront    *)
(* posted before it.                                                       *)
QuietCompletes ==
    \A w \in Waves : wv[w].pc \in {"ret", "read"} => wv[w].own <= done

(* A fetching atomic returns the values of its own WQEs: no other          *)
(* wavefront writes its buffer before it goes back to the free list.       *)
ReturnIsOwn ==
    \A w \in Waves : wv[w].pc = "read" =>
        fetched[wv[w].buffer] = wv[w].own - 1

(* Every operation comes to its end: no ticket is skipped, no CQE waited   *)
(* for in vain, and wavefronts that wait for room help to make it.         *)
EveryOperationEnds ==
    \A w \in Waves : wv[w].pc # "idle" ~> wv[w].pc = "idle"
=============================================================================
