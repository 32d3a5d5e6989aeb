--------------------------- MODULE Mlx5QueueProofs ---------------------------
(***************************************************************************)
(* The mlx5 send queue, for every number of wavefronts, depth, counter     *)
(* width and lane count: no posted WQE is overwritten before it completes, *)
(* quiet covers everything posted before it, and a fetching atomic whose   *)
(* return slot has not been handed out again returns its own value.  The   *)
(* data-path posts are excluded: they neither poll for room nor ask for a  *)
(* completion.                                                             *)
(***************************************************************************)
EXTENDS Mlx5Queue, RingTheorems, TLAPS

Inv == TypeOK /\ QueueInv

(* The sizes of the rings.                                                 *)
LEMMA Sizes ==
    /\ Depth \in Nat \ {0} /\ CtrMod \in Nat \ {0} /\ Depth < CtrMod
    /\ FetchCnt \in Nat \ {0}
BY Mlx5Assumption

(* The slot of a WQE survives the truncation of its number to 16 bits.     *)
LEMMA TruncationKeepsSlot ==
    ASSUME NEW i \in Nat
    PROVE  (i % CtrMod) % Depth = i % Depth
<1>1. Depth \in Nat \ {0} /\ CtrMod \in Nat \ {0} /\ CtrMod % Depth = 0
    BY Mlx5Assumption
<1> QED
    BY <1>1, RemainderOfRemainder

(* What a wavefront in the middle of a post, or of a quiet, may rely on.   *)
LEMMA WaveFacts ==
    ASSUME QueueInv, NEW w \in Waves
    PROVE  WaveInv(w)
BY DEF QueueInv

(* The lock has one owner: no other wavefront is between poll and unlock.  *)
LEMMA OneWriter ==
    ASSUME TypeOK, QueueInv, NEW w \in Waves, NEW v \in Waves, v # w, lock = w
    PROVE  /\ wv[v].pc \notin {"write", "publish", "ring", "unlock"}
           /\ wv[v].pc \in {"poll", "spin"} => wv[v].quiet
BY WaveFacts DEF WaveInv

(* The types hold initially.                                               *)
LEMMA InitType == Init => TypeOK
BY Sizes DEF Init, TypeOK, WaveState, Wqe, IdleWave, Invalid, NoSlot

(* The queue invariant holds initially.                                    *)
LEMMA InitInv == Init => QueueInv
BY Sizes DEF Init, QueueInv, PostedIntact, EntryIsLast, WaveInv, IdleWave, Invalid

(* What the loop of mlx5_poll_cq_until has established when it ends.       *)
LEMMA SpinShows ==
    ASSUME TypeOK, QueueInv, NEW w \in Waves, Spin(w)
    PROVE  \/ wv[w].snap <= done
           \/ wv[w].snap - done + requested_available_slots(w) <= Depth
<1>1. /\ done \in Nat /\ post \in Nat /\ wv[w].snap \in Nat
      /\ wv[w].snap <= post /\ post <= done + Depth
      /\ requested_available_slots(w) \in Nat
    BY WaveFacts, Sizes DEF TypeOK, WaveState, QueueInv, PostedIntact, WaveInv,
                     requested_available_slots
<1>2. done # 0 /\ cqe = (done - 1) % CtrMod
    BY DEF Spin, QueueInv, EntryIsLast, Invalid
<1>3. CASE wv[w].snap > done
  <2>1. /\ CtrMod \in Nat \ {0} /\ done \in Nat \ {0}
        /\ done <= wv[w].snap /\ wv[w].snap - done < CtrMod
      BY <1>1, <1>2, <1>3, Sizes
  <2>2. consumed_slots(w) = wv[w].snap - done
      BY <1>1, <1>2, <2>1, CloseDifference DEF consumed_slots
  <2>3. consumed_slots(w) > Depth \/ Depth - consumed_slots(w) >= requested_available_slots(w)
      BY DEF Spin
  <2> QED
      BY <1>1, <1>3, <2>2, <2>3, Sizes
<1> QED
    BY <1>1, <1>3

-----------------------------------------------------------------------------
(* Types.                                                                  *)

(* The entry of a post changes nothing but its own wavefront.              *)
LEMMA StartType ==
    ASSUME TypeOK, NEW w \in Waves, NEW n \in 1..Depth, NEW f \in BOOLEAN,
           NEW r \in BOOLEAN, NEW s \in BOOLEAN, Start(w, n, f, r, s)
    PROVE  TypeOK'
<1>1. PICK x \in WaveState : x = wv[w]
    BY DEF TypeOK
<1>2. [x EXCEPT !.pc = "lock", !.n = n, !.fetching = f, !.ring = r,
          !.signal = s, !.quiet = FALSE] \in WaveState
    BY DEF WaveState
<1>3. wv' \in [Waves -> WaveState]
    BY <1>1, <1>2 DEF TypeOK, Start
<1>4. UNCHANGED <<lock, queue>>
    BY DEF Start
<1> QED
    BY <1>3, <1>4 DEF TypeOK, queue

(* A step that only moves a wavefront's pc, or takes its snapshot.         *)
LEMMA GotoType ==
    ASSUME TypeOK, NEW w \in Waves,
           NEW c \in {"idle", "lock", "poll", "spin", "write", "publish",
                      "ring", "unlock", "ret"},
           Goto(w, c)
    PROVE  wv' \in [Waves -> WaveState]
<1>1. PICK x \in WaveState : x = wv[w]
    BY DEF TypeOK
<1>2. [x EXCEPT !.pc = c] \in WaveState
    BY DEF WaveState
<1> QED
    BY <1>1, <1>2 DEF TypeOK, Goto

(* Beginning an operation keeps the types.                                 *)
LEMMA BeginType ==
    ASSUME TypeOK, NEW w \in Waves, Begin(w) \/ mlx5_post_wqe_amo_single(w)
    PROVE  TypeOK'
<1>0. 1 \in 1..Depth /\ Lanes \subseteq 1..Depth
    BY Mlx5Assumption
<1>1. CASE mlx5_post_wqe_rma(w)
    BY <1>0, <1>1, StartType DEF mlx5_post_wqe_rma
<1>2. CASE mlx5_post_wqe_rma_single(w)
    BY <1>0, <1>2, StartType DEF mlx5_post_wqe_rma_single
<1>3. CASE mlx5_post_wqe_amo(w)
    BY <1>0, <1>3, StartType DEF mlx5_post_wqe_amo
<1>4. CASE mlx5_post_wqe_rma_dp_single_lane(w)
    BY <1>0, <1>4, StartType DEF mlx5_post_wqe_rma_dp_single_lane
<1>5. CASE mlx5_post_wqe_amo_single(w)
    BY <1>0, <1>5, StartType DEF mlx5_post_wqe_amo_single
<1>6. CASE mlx5_quiet(w)
  <2>1. PICK x \in WaveState : x = wv[w]
      BY DEF TypeOK
  <2>2. [x EXCEPT !.pc = "poll", !.quiet = TRUE, !.fetching = FALSE] \in WaveState
      BY DEF WaveState
  <2>3. wv' = [wv EXCEPT ![w] = [x EXCEPT !.pc = "poll", !.quiet = TRUE,
                                          !.fetching = FALSE]]
      BY <1>6, <2>1 DEF mlx5_quiet, TypeOK
  <2>4. wv' \in [Waves -> WaveState]
      BY <2>2, <2>3 DEF TypeOK
  <2>5. UNCHANGED <<lock, queue>>
      BY <1>6 DEF mlx5_quiet
  <2> QED
      BY <2>4, <2>5 DEF TypeOK, queue
<1> QED
    BY <1>1, <1>2, <1>3, <1>4, <1>5, <1>6 DEF Begin

(* A remainder selects a position of each ring.                            *)
LEMMA InRing ==
    ASSUME NEW x \in Nat
    PROVE  x % Depth \in 0..(Depth - 1) /\ x % FetchCnt \in 0..(FetchCnt - 1)
           /\ x % CtrMod \in 0..(CtrMod - 1)
BY Sizes

(* A slot holds, after the write, what it held or the WQE of a lane.       *)
LEMMA SlotWritten ==
    ASSUME TypeOK, NEW w \in Waves, WriteWqes(w), NEW s \in 0..(Depth - 1)
    PROVE  \/ buf'[s] = buf[s] /\ LanesAt(w, s) = {}
           \/ \E i \in 0..(wv[w].n - 1) :
                /\ (post + i) % Depth = s
                /\ buf'[s] = gda_mlx5_wqe(w, i)
<1>1. CASE LanesAt(w, s) = {}
    BY <1>1 DEF WriteWqes, TypeOK
<1>2. CASE LanesAt(w, s) # {}
  <2>1. PICK i \in LanesAt(w, s) : i = CHOOSE j \in LanesAt(w, s) : TRUE
      BY <1>2
  <2>2. buf'[s] = gda_mlx5_wqe(w, i)
      BY <1>2, <2>1 DEF WriteWqes, TypeOK
  <2>3. /\ i \in 0..(wv[w].n - 1) /\ post + i \in Nat
        /\ mlx5_sq_idx(mlx5_wqe_idx(i)) = s
      BY DEF LanesAt, TypeOK, WaveState
  <2>4. (post + i) % Depth = s
      BY <2>3, TruncationKeepsSlot DEF mlx5_sq_idx, mlx5_wqe_idx
  <2> QED
      BY <2>2, <2>3, <2>4
<1> QED
    BY <1>1, <1>2

(* Writing the WQEs keeps the types.                                       *)
LEMMA WriteType ==
    ASSUME TypeOK, NEW w \in Waves, WriteWqes(w)
    PROVE  TypeOK'
<1>1. PICK x \in WaveState : x = wv[w]
    BY DEF TypeOK
<1>2. [x EXCEPT !.pc = "publish", !.base = post, !.slot = fetching_atomic_idx]
        \in WaveState
    BY DEF WaveState, TypeOK
<1>3. wv' = [wv EXCEPT ![w] = [x EXCEPT !.pc = "publish", !.base = post,
                                        !.slot = fetching_atomic_idx]]
    BY <1>1 DEF WriteWqes, TypeOK
<1>4. wv' \in [Waves -> WaveState]
    BY <1>2, <1>3 DEF TypeOK
<1>5. ASSUME NEW i \in 0..(wv[w].n - 1) PROVE gda_mlx5_wqe(w, i) \in Wqe
  <2>1. fetching_atomic_idx + i \in Nat /\ post + i \in Nat /\ wv[w].signal \in BOOLEAN
      BY DEF TypeOK, WaveState
  <2>2. atomic_idx(i) \in 0..(FetchCnt - 1)
      BY <2>1, InRing DEF atomic_idx
  <2> QED
      BY <2>1, <2>2 DEF gda_mlx5_wqe, Wqe
<1>6. ASSUME NEW s \in 0..(Depth - 1) PROVE buf'[s] \in Wqe
    BY <1>5, SlotWritten DEF TypeOK
<1>7. buf' \in [0..(Depth - 1) -> Wqe]
    BY <1>6 DEF WriteWqes, TypeOK
<1>8. UNCHANGED <<lock, post, rung, done, cqe, fetching_atomic_idx, fetching_atomic>>
    BY DEF WriteWqes
<1> QED
    BY <1>4, <1>7, <1>8 DEF TypeOK

(* Every step of a posting wavefront keeps the types.                      *)
LEMMA AdvanceType ==
    ASSUME TypeOK, NEW w \in Waves, Advance(w)
    PROVE  TypeOK'
<1>0. PICK x \in WaveState : x = wv[w]
    BY DEF TypeOK
<1>1. CASE acquire_lock(w)
    BY <1>1, GotoType DEF acquire_lock, TypeOK, queue
<1>2. CASE mlx5_poll_cq_until(w)
  <2>1. ASSUME NEW c \in {"ret", "write", "spin"}
        PROVE  [x EXCEPT !.snap = post, !.pc = c] \in WaveState
      BY DEF WaveState, TypeOK
  <2> DEFINE c == IF post + requested_available_slots(w) <= Depth
                  THEN AfterPoll(w) ELSE "spin"
  <2>2. /\ c \in {"ret", "write", "spin"}
        /\ wv' = [wv EXCEPT ![w] = [x EXCEPT !.snap = post, !.pc = c]]
    <3>1. c \in {"ret", "write", "spin"}
        BY DEF AfterPoll
    <3>2. wv' = [wv EXCEPT ![w] = [x EXCEPT !.snap = post, !.pc = c]]
        BY <1>0, <1>2 DEF mlx5_poll_cq_until, TypeOK
    <3> QED
        BY <3>1, <3>2
  <2> HIDE DEF c
  <2>5. PICK y \in WaveState : y = [x EXCEPT !.snap = post, !.pc = c]
      BY <2>1, <2>2
  <2>3. wv' \in [Waves -> WaveState]
      BY <2>2, <2>5 DEF TypeOK
  <2>4. UNCHANGED <<lock, queue>>
      BY <1>2 DEF mlx5_poll_cq_until
  <2> QED
      BY <2>3, <2>4 DEF TypeOK, queue
<1>3. CASE Spin(w)
    BY <1>3, GotoType DEF Spin, AfterPoll, TypeOK, queue
<1>4. CASE WriteWqes(w)
    BY <1>4, WriteType
<1>5. CASE Publish(w)
  <2>1. post' \in Nat /\ fetching_atomic_idx' \in Nat
    <3>1. wv[w].n \in Nat /\ post \in Nat /\ fetching_atomic_idx \in Nat
        BY Sizes DEF TypeOK, WaveState
    <3> QED
        BY <3>1, <1>5 DEF Publish
  <2>2. [x EXCEPT !.own = post', !.pc = "ring"] \in WaveState
      BY <2>1 DEF WaveState
  <2>3. wv' = [wv EXCEPT ![w] = [x EXCEPT !.own = post', !.pc = "ring"]]
      BY <1>0, <1>5 DEF Publish, TypeOK
  <2>4. wv' \in [Waves -> WaveState]
      BY <2>2, <2>3 DEF TypeOK
  <2>5. UNCHANGED <<lock, rung, done, cqe, buf, fetching_atomic>>
      BY <1>5 DEF Publish
  <2> QED
      BY <2>1, <2>4, <2>5 DEF TypeOK
<1>6. CASE mlx5_ring_doorbell(w)
    BY <1>6, GotoType DEF mlx5_ring_doorbell, TypeOK
<1>7. CASE release_lock(w)
  <2>1. ASSUME NEW c \in {"poll", "idle"}
        PROVE  [x EXCEPT !.quiet = x.fetching, !.pc = c] \in WaveState
      BY DEF WaveState
  <2>2. PICK c \in {"poll", "idle"} :
          wv' = [wv EXCEPT ![w] = [x EXCEPT !.quiet = x.fetching, !.pc = c]]
      BY <1>0, <1>7 DEF release_lock, TypeOK
  <2>3. wv' \in [Waves -> WaveState]
      BY <2>1, <2>2 DEF TypeOK
  <2>4. lock' = NoWave /\ UNCHANGED queue
      BY <1>7 DEF release_lock
  <2> QED
      BY <2>3, <2>4 DEF TypeOK, queue
<1>8. CASE Return(w)
    BY <1>8, GotoType DEF Return, TypeOK, queue
<1> QED
    BY <1>1, <1>2, <1>3, <1>4, <1>5, <1>6, <1>7, <1>8 DEF Advance

(* A completion keeps the types.                                           *)
LEMMA CompleteType ==
    ASSUME TypeOK, Complete
    PROVE  TypeOK'
<1>1. done % Depth \in 0..(Depth - 1) /\ done % CtrMod \in 0..(CtrMod - 1)
    BY InRing DEF TypeOK
<1>2. PICK x \in Wqe : x = buf[done % Depth]
    BY <1>1 DEF TypeOK
<1>3. cqe' \in (0..(CtrMod - 1)) \cup {Invalid}
    BY <1>1 DEF Complete, TypeOK
<1>4. fetching_atomic' \in [0..(FetchCnt - 1) -> Nat \cup {Invalid}]
    BY <1>2 DEF Complete, TypeOK, Wqe
<1>5. done' \in Nat /\ UNCHANGED <<lock, post, rung, buf, fetching_atomic_idx, wv>>
    BY DEF Complete, TypeOK
<1> QED
    BY <1>3, <1>4, <1>5 DEF TypeOK

(* Every step keeps the types.                                             *)
LEMMA NextType ==
    ASSUME TypeOK, [Next]_vars
    PROVE  TypeOK'
<1>1. CASE UNCHANGED vars
    BY <1>1 DEF TypeOK, vars
<1> QED
    BY <1>1, BeginType, AdvanceType, CompleteType DEF Next

-----------------------------------------------------------------------------
(* The invariant.                                                          *)

(* Whoever does not move keeps its part while the queue does not move.     *)
LEMMA OtherKeeps ==
    ASSUME QueueInv, NEW v \in Waves, wv'[v] = wv[v],
           UNCHANGED <<lock, post, done, buf>>
    PROVE  WaveInv(v)'
BY WaveFacts DEF WaveInv

(* A step that leaves the queue alone keeps what is posted and the last    *)
(* entry.                                                                  *)
LEMMA QueueKeeps ==
    ASSUME QueueInv, UNCHANGED queue
    PROVE  PostedIntact' /\ EntryIsLast'
BY DEF QueueInv, PostedIntact, EntryIsLast, queue

(* Starting an operation preserves the queue invariant.                    *)
LEMMA StartInv ==
    ASSUME TypeOK, QueueInv, NEW w \in Waves, NEW n \in 1..Depth,
           NEW f \in BOOLEAN, NEW r \in BOOLEAN, Start(w, n, f, r, TRUE)
    PROVE  QueueInv'
<1>1. /\ UNCHANGED <<lock, queue>>
      /\ \A v \in Waves : v # w => wv'[v] = wv[v]
      /\ wv'[w].pc = "lock" /\ wv'[w].signal /\ wv'[w].own = wv[w].own
      /\ wv'[w].snap = wv[w].snap
    BY DEF Start, TypeOK, WaveState
<1>2. WaveInv(w)'
    BY <1>1, WaveFacts DEF WaveInv, queue
<1>3. ASSUME NEW v \in Waves PROVE WaveInv(v)'
    BY <1>1, <1>2, OtherKeeps DEF queue
<1> QED
    BY <1>1, <1>3, QueueKeeps DEF QueueInv

(* Beginning an operation preserves the queue invariant.                   *)
LEMMA BeginInv ==
    ASSUME "dp" \notin Ops, TypeOK, QueueInv, NEW w \in Waves,
           Begin(w) \/ mlx5_post_wqe_amo_single(w)
    PROVE  QueueInv'
<1>0. 1 \in 1..Depth /\ Lanes \subseteq 1..Depth
    BY Mlx5Assumption
<1>1. CASE mlx5_post_wqe_rma(w)
    BY <1>0, <1>1, StartInv DEF mlx5_post_wqe_rma
<1>2. CASE mlx5_post_wqe_rma_single(w)
    BY <1>0, <1>2, StartInv DEF mlx5_post_wqe_rma_single
<1>3. CASE mlx5_post_wqe_amo(w)
    BY <1>0, <1>3, StartInv DEF mlx5_post_wqe_amo
<1>4. CASE mlx5_post_wqe_amo_single(w)
    BY <1>0, <1>4, StartInv DEF mlx5_post_wqe_amo_single
<1>5. CASE mlx5_quiet(w)
  <2>1. /\ UNCHANGED <<lock, queue>>
        /\ \A v \in Waves : v # w => wv'[v] = wv[v]
        /\ wv'[w].pc = "poll" /\ wv'[w].quiet /\ wv'[w].signal = wv[w].signal
        /\ wv'[w].own = wv[w].own /\ wv'[w].snap = wv[w].snap
      BY <1>5 DEF mlx5_quiet, TypeOK, WaveState
  <2>2. WaveInv(w)'
      BY <2>1, WaveFacts DEF WaveInv, queue
  <2>3. ASSUME NEW v \in Waves PROVE WaveInv(v)'
      BY <2>1, <2>2, OtherKeeps DEF queue
  <2> QED
      BY <2>1, <2>3, QueueKeeps DEF QueueInv
<1> QED
    BY <1>1, <1>2, <1>3, <1>4, <1>5 DEF Begin, mlx5_post_wqe_rma_dp_single_lane

(* So does taking the lock,                                                *)
LEMMA AcquireInv ==
    ASSUME TypeOK, QueueInv, NEW w \in Waves, acquire_lock(w)
    PROVE  QueueInv'
<1>1. /\ UNCHANGED queue /\ lock = NoWave /\ lock' = w
      /\ \A v \in Waves : v # w => wv'[v] = wv[v]
    BY DEF acquire_lock, Goto, TypeOK, WaveState
<1>2. wv[w].signal
    BY WaveFacts DEF WaveInv
<1>3. /\ wv'[w].pc = "poll" /\ wv'[w].signal
      /\ wv'[w].own = wv[w].own /\ wv'[w].snap = wv[w].snap
      /\ wv[w].pc = "lock"
    BY <1>2 DEF acquire_lock, Goto, TypeOK, WaveState
<1>4. WaveInv(w)'
    BY <1>1, <1>3, WaveFacts DEF WaveInv, queue
<1>5. ASSUME NEW v \in Waves, v # w PROVE WaveInv(v)'
  <2>1. WaveInv(v) /\ wv'[v] = wv[v] /\ lock # v
      BY <1>1, <1>5, WaveFacts, Mlx5Assumption
  <2> QED
      BY <2>1, <1>1 DEF WaveInv, queue
<1> QED
    BY <1>1, <1>4, <1>5, QueueKeeps DEF QueueInv

(* reading the completion queue,                                           *)
LEMMA PollInv ==
    ASSUME TypeOK, QueueInv, NEW w \in Waves, mlx5_poll_cq_until(w)
    PROVE  QueueInv'
<1>0. /\ wv[w].n \in 1..Depth /\ post \in Nat /\ done \in Nat
      /\ wv[w].own \in Nat
    BY DEF TypeOK, WaveState
<1>1. /\ UNCHANGED <<lock, queue>>
      /\ \A v \in Waves : v # w => wv'[v] = wv[v]
      /\ wv'[w].n = wv[w].n /\ wv'[w].quiet = wv[w].quiet
      /\ wv'[w].signal = wv[w].signal /\ wv'[w].own = wv[w].own
      /\ wv'[w].snap = post /\ wv[w].pc = "poll"
    BY DEF mlx5_poll_cq_until, TypeOK, WaveState
<1>2. wv'[w].pc = IF post + requested_available_slots(w) <= Depth
                  THEN AfterPoll(w) ELSE "spin"
    BY DEF mlx5_poll_cq_until, TypeOK, WaveState
<1>3. WaveInv(w)'
  <2>1. CASE wv'[w].pc = "spin"
      BY <1>0, <1>1, <2>1, WaveFacts DEF WaveInv, queue
  <2>2. CASE wv'[w].pc = "ret"
    <3>1. wv[w].quiet /\ post = 0
        BY <1>0, <1>2, <2>2, Sizes DEF requested_available_slots, AfterPoll
    <3> QED
        BY <1>0, <1>1, <2>2, <3>1, WaveFacts DEF WaveInv, queue
  <2>3. CASE wv'[w].pc = "write"
    <3>1. ~wv[w].quiet /\ post + wv[w].n <= done + Depth
        BY <1>0, <1>2, <2>3, Sizes DEF requested_available_slots, AfterPoll
    <3> QED
        BY <1>0, <1>1, <2>3, <3>1, WaveFacts DEF WaveInv, queue
  <2> QED
      BY <1>2, <2>1, <2>2, <2>3 DEF AfterPoll
<1>4. ASSUME NEW v \in Waves PROVE WaveInv(v)'
    BY <1>1, <1>3, OtherKeeps DEF queue
<1> QED
    BY <1>1, <1>4, QueueKeeps DEF QueueInv

(* reading it again,                                                       *)
LEMMA SpinInv ==
    ASSUME TypeOK, QueueInv, NEW w \in Waves, Spin(w)
    PROVE  QueueInv'
<1>0. /\ wv[w].n \in 1..Depth /\ post \in Nat /\ done \in Nat
      /\ wv[w].own \in Nat /\ wv[w].snap \in Nat
    BY DEF TypeOK, WaveState
<1>1. /\ UNCHANGED <<lock, queue>>
      /\ \A v \in Waves : v # w => wv'[v] = wv[v]
      /\ wv'[w].n = wv[w].n /\ wv'[w].quiet = wv[w].quiet
      /\ wv'[w].signal = wv[w].signal /\ wv'[w].own = wv[w].own
      /\ wv'[w].snap = wv[w].snap /\ wv[w].pc = "spin"
      /\ wv'[w].pc = AfterPoll(w)
    BY DEF Spin, Goto, TypeOK, WaveState
<1>2. CASE wv[w].quiet
  <2>1. wv'[w].pc = "ret" /\ wv[w].snap <= done
      BY <1>0, <1>1, <1>2, SpinShows, Sizes
         DEF AfterPoll, requested_available_slots
  <2> QED
      BY <1>0, <1>1, <1>2, <2>1, WaveFacts, OtherKeeps, QueueKeeps
         DEF WaveInv, queue, QueueInv
<1>3. CASE ~wv[w].quiet
  <2>1. wv'[w].pc = "write" /\ wv[w].snap = post
      BY <1>1, <1>3, WaveFacts DEF AfterPoll, WaveInv
  <2>2. post + wv[w].n <= done + Depth
      BY <1>0, <1>3, <2>1, SpinShows, Sizes DEF requested_available_slots
  <2>3. WaveInv(w)'
      BY <1>0, <1>1, <1>3, <2>1, <2>2, WaveFacts DEF WaveInv, queue
  <2>4. ASSUME NEW v \in Waves PROVE WaveInv(v)'
      BY <1>1, <2>3, OtherKeeps DEF queue
  <2> QED
      BY <1>1, <2>4, QueueKeeps DEF QueueInv
<1> QED
    BY <1>2, <1>3

(* The slots a wavefront writes hold no WQE that is still to be executed.  *)
LEMMA WriteInv ==
    ASSUME TypeOK, QueueInv, NEW w \in Waves, WriteWqes(w)
    PROVE  QueueInv'
<1>0. /\ wv[w].n \in 1..Depth /\ post \in Nat /\ done \in Nat
      /\ rung \in Nat /\ Depth \in Nat \ {0}
    BY Sizes DEF TypeOK, WaveState
<1>1. /\ UNCHANGED <<lock, post, rung, done, cqe>>
      /\ \A v \in Waves : v # w => wv'[v] = wv[v]
      /\ wv'[w].pc = "publish" /\ wv'[w].base = post
      /\ wv'[w].n = wv[w].n /\ wv'[w].quiet = wv[w].quiet
      /\ wv'[w].signal = wv[w].signal /\ wv'[w].own = wv[w].own
      /\ wv'[w].snap = wv[w].snap /\ wv[w].pc = "write"
    BY DEF WriteWqes, TypeOK, WaveState
<1>2. /\ lock = w /\ wv[w].signal /\ post + wv[w].n <= done + Depth
      /\ wv[w].own <= post /\ wv[w].snap <= post
    BY <1>1, WaveFacts DEF WaveInv
<1>3. ASSUME NEW i \in done..(post - 1) PROVE buf'[i % Depth].id = i
  <2>1. i % Depth \in 0..(Depth - 1) /\ buf[i % Depth].id = i /\ i \in Nat
    <3>1. i \in Nat
        BY <1>0
    <3> QED
        BY <3>1, InRing DEF QueueInv, PostedIntact
  <2>2. ASSUME NEW j \in 0..(wv[w].n - 1), (post + j) % Depth = i % Depth
        PROVE  FALSE
    <3>1. /\ post + j \in Nat /\ i < post + j /\ post + j < i + Depth
        BY <1>0, <1>2, <2>1
    <3>2. i <= post + j /\ i % Depth = (post + j) % Depth
        BY <2>1, <2>2, <3>1
    <3>3. i = post + j
        BY <1>0, <2>1, <3>1, <3>2, OneRevolution
    <3> QED
        BY <2>1, <3>1, <3>3
  <2> QED
      BY <2>1, <2>2, SlotWritten
<1>4. PostedIntact'
    BY <1>1, <1>3 DEF QueueInv, PostedIntact
<1>5. EntryIsLast'
  <2>1. ASSUME NEW s \in 0..(Depth - 1) PROVE buf'[s].signal
    <3>1. buf[s].signal
        BY DEF QueueInv, EntryIsLast, TypeOK
    <3>2. ASSUME NEW i \in 0..(wv[w].n - 1), buf'[s] = gda_mlx5_wqe(w, i)
          PROVE  buf'[s].signal
        BY <1>2, <3>2 DEF gda_mlx5_wqe
    <3> QED
        BY <3>1, <3>2, SlotWritten
  <2>2. DOMAIN buf' = 0..(Depth - 1)
      BY DEF WriteWqes, TypeOK
  <2> QED
      BY <1>1, <2>1, <2>2 DEF QueueInv, EntryIsLast
<1>6. ASSUME NEW i \in 0..(wv[w].n - 1)
      PROVE  buf'[(post + i) % Depth].id = post + i
  <2>1. post + i \in Nat /\ (post + i) % Depth \in 0..(Depth - 1) /\ i \in Nat
      BY <1>0, InRing
  <2>2. i \in LanesAt(w, (post + i) % Depth)
      BY <2>1, TruncationKeepsSlot DEF LanesAt, mlx5_sq_idx, mlx5_wqe_idx
  <2>3. PICK j \in 0..(wv[w].n - 1) :
          /\ (post + j) % Depth = (post + i) % Depth
          /\ buf'[(post + i) % Depth] = gda_mlx5_wqe(w, j)
      BY <2>1, <2>2, SlotWritten
  <2>4. post + j = post + i
    <3>1. /\ post + j \in Nat /\ post <= post + j /\ post + j < post + Depth
          /\ post <= post + i /\ post + i < post + Depth
        BY <1>0, <2>1
    <3> QED
        BY <1>0, <2>1, <2>3, <3>1, SamePosition
  <2> QED
      BY <2>3, <2>4 DEF gda_mlx5_wqe
<1>7. WaveInv(w)'
    BY <1>0, <1>1, <1>2, <1>6 DEF WaveInv
<1>8. ASSUME NEW v \in Waves, v # w PROVE WaveInv(v)'
  <2>1. WaveInv(v) /\ wv'[v] = wv[v] /\ wv[v].pc # "publish"
      BY <1>1, <1>2, <1>8, WaveFacts, OneWriter
  <2> QED
      BY <2>1, <1>1 DEF WaveInv
<1> QED
    BY <1>4, <1>5, <1>7, <1>8 DEF QueueInv

(* publishing the WQEs,                                                    *)
LEMMA PublishInv ==
    ASSUME TypeOK, QueueInv, NEW w \in Waves, Publish(w)
    PROVE  QueueInv'
<1>0. /\ wv[w].n \in 1..Depth /\ post \in Nat /\ done \in Nat
      /\ rung \in Nat /\ Depth \in Nat \ {0} /\ wv[w].n \in Nat
    BY Sizes DEF TypeOK, WaveState
<1>1. /\ UNCHANGED <<lock, rung, done, cqe, buf>> /\ post' = post + wv[w].n
      /\ \A v \in Waves : v # w => wv'[v] = wv[v]
      /\ wv'[w].pc = "ring" /\ wv'[w].own = post' /\ wv[w].pc = "publish"
      /\ wv'[w].signal = wv[w].signal /\ wv'[w].snap = wv[w].snap
    BY DEF Publish, TypeOK, WaveState
<1>2. /\ lock = w /\ wv[w].signal /\ post + wv[w].n <= done + Depth
      /\ wv[w].snap <= post
      /\ \A i \in 0..(wv[w].n - 1) : buf[(post + i) % Depth].id = post + i
    BY <1>1, WaveFacts DEF WaveInv
<1>3. ASSUME NEW i \in done..(post' - 1) PROVE buf'[i % Depth].id = i
  <2>1. CASE i < post
      BY <1>0, <1>1, <2>1 DEF QueueInv, PostedIntact
  <2>2. CASE i >= post
    <3>1. i - post \in 0..(wv[w].n - 1) /\ post + (i - post) = i
        BY <1>0, <1>1, <2>2
    <3> QED
        BY <1>1, <1>2, <3>1
  <2> QED
      BY <1>0, <2>1, <2>2
<1>4. PostedIntact'
  <2>1. done' <= rung' /\ rung' <= post' /\ post' <= done' + Depth
      BY <1>0, <1>1, <1>2 DEF QueueInv, PostedIntact
  <2> QED
      BY <1>1, <1>3, <2>1 DEF PostedIntact
<1>5. EntryIsLast'
    BY <1>1 DEF QueueInv, EntryIsLast
<1>6. WaveInv(w)'
  <2>1. wv'[w].snap <= post' /\ wv'[w].own <= post'
      BY <1>0, <1>1, <1>2 DEF TypeOK, WaveState
  <2> QED
      BY <1>1, <1>2, <2>1 DEF WaveInv
<1>7. ASSUME NEW v \in Waves, v # w PROVE WaveInv(v)'
  <2>1. /\ WaveInv(v) /\ wv'[v] = wv[v]
        /\ wv[v].pc \notin {"write", "publish"}
        /\ wv[v].pc = "spin" => wv[v].quiet
      BY <1>1, <1>2, <1>7, WaveFacts, OneWriter
  <2>2. wv[v].own <= post' /\ wv[v].snap <= post'
      BY <1>0, <1>1, <2>1 DEF WaveInv, TypeOK, WaveState
  <2> QED
      BY <2>1, <2>2, <1>1 DEF WaveInv
<1> QED
    BY <1>4, <1>5, <1>6, <1>7 DEF QueueInv

(* ringing the doorbell,                                                   *)
LEMMA RingInv ==
    ASSUME TypeOK, QueueInv, NEW w \in Waves, mlx5_ring_doorbell(w)
    PROVE  QueueInv'
<1>1. /\ UNCHANGED <<lock, post, done, cqe, buf>>
      /\ \A v \in Waves : v # w => wv'[v] = wv[v]
      /\ wv'[w].pc = "unlock" /\ wv[w].pc = "ring" /\ wv'[w].own = wv[w].own
      /\ wv'[w].signal = wv[w].signal /\ wv'[w].snap = wv[w].snap
    BY DEF mlx5_ring_doorbell, Goto, TypeOK, WaveState
<1>2. done <= rung' /\ rung' <= post
    BY DEF mlx5_ring_doorbell, QueueInv, PostedIntact, TypeOK
<1>3. PostedIntact' /\ EntryIsLast'
    BY <1>1, <1>2 DEF QueueInv, PostedIntact, EntryIsLast
<1>4. WaveInv(w)'
    BY <1>1, WaveFacts DEF WaveInv
<1>5. ASSUME NEW v \in Waves PROVE WaveInv(v)'
    BY <1>1, <1>4, OtherKeeps
<1> QED
    BY <1>3, <1>5 DEF QueueInv

(* releasing the lock,                                                     *)
LEMMA ReleaseInv ==
    ASSUME TypeOK, QueueInv, NEW w \in Waves, release_lock(w)
    PROVE  QueueInv'
<1>1. /\ UNCHANGED queue /\ lock' = NoWave
      /\ \A v \in Waves : v # w => wv'[v] = wv[v]
      /\ wv'[w].pc \in {"poll", "idle"} /\ wv'[w].own = wv[w].own
      /\ wv'[w].pc = "poll" => wv'[w].quiet
      /\ wv'[w].signal = wv[w].signal /\ wv'[w].snap = wv[w].snap
      /\ wv[w].pc = "unlock"
    BY DEF release_lock, TypeOK, WaveState
<1>2. lock = w
    BY <1>1, WaveFacts DEF WaveInv
<1>3. WaveInv(w)'
    BY <1>1, WaveFacts DEF WaveInv, queue
<1>4. ASSUME NEW v \in Waves, v # w PROVE WaveInv(v)'
  <2>1. /\ WaveInv(v) /\ wv'[v] = wv[v]
        /\ wv[v].pc \notin {"write", "publish", "ring", "unlock"}
        /\ wv[v].pc \in {"poll", "spin"} => wv[v].quiet
      BY <1>1, <1>2, <1>4, WaveFacts, OneWriter
  <2> QED
      BY <2>1, <1>1 DEF WaveInv, queue
<1> QED
    BY <1>1, <1>3, <1>4, QueueKeeps DEF QueueInv

(* returning,                                                              *)
LEMMA ReturnInv ==
    ASSUME TypeOK, QueueInv, NEW w \in Waves, Return(w)
    PROVE  QueueInv'
<1>1. /\ UNCHANGED <<lock, queue>>
      /\ \A v \in Waves : v # w => wv'[v] = wv[v]
      /\ wv'[w].pc = "idle" /\ wv'[w].own = wv[w].own
      /\ wv'[w].signal = wv[w].signal /\ wv'[w].snap = wv[w].snap
    BY DEF Return, Goto, TypeOK, WaveState
<1>2. WaveInv(w)'
    BY <1>1, WaveFacts DEF WaveInv, queue
<1>3. ASSUME NEW v \in Waves PROVE WaveInv(v)'
    BY <1>1, <1>2, OtherKeeps DEF queue
<1> QED
    BY <1>1, <1>3, QueueKeeps DEF QueueInv

(* and a completion by the adapter.                                        *)
LEMMA CompleteInv ==
    ASSUME TypeOK, QueueInv, Complete
    PROVE  QueueInv'
<1>0. done \in Nat /\ post \in Nat /\ rung \in Nat /\ Depth \in Nat \ {0}
    BY Sizes DEF TypeOK
<1>1. /\ done < rung /\ done' = done + 1
      /\ UNCHANGED <<lock, post, rung, buf, wv>>
    BY DEF Complete
<1>2. PostedIntact'
    BY <1>0, <1>1 DEF QueueInv, PostedIntact
<1>3. EntryIsLast'
  <2>1. done % Depth \in DOMAIN buf
      BY <1>0, InRing DEF TypeOK
  <2>2. cqe' = done % CtrMod
      BY <2>1 DEF Complete, QueueInv, EntryIsLast
  <2>3. done' # 0 /\ done' - 1 = done
      BY <1>0, <1>1
  <2> QED
      BY <1>1, <2>2, <2>3 DEF QueueInv, EntryIsLast
<1>4. ASSUME NEW v \in Waves PROVE WaveInv(v)'
  <2>1. WaveInv(v) /\ wv[v].snap \in Nat /\ wv[v].n \in Nat
      BY WaveFacts, Sizes DEF TypeOK, WaveState
  <2>2. wv[v].snap <= done => wv[v].snap <= done'
      BY <1>0, <1>1, <2>1
  <2>3. post + wv[v].n <= done + Depth => post + wv[v].n <= done' + Depth
      BY <1>0, <1>1, <2>1
  <2> QED
      BY <1>1, <2>1, <2>2, <2>3 DEF WaveInv
<1> QED
    BY <1>2, <1>3, <1>4 DEF QueueInv

-----------------------------------------------------------------------------
(* Every reachable state of the queue is well typed and satisfies the      *)
(* inductive invariant, as long as nobody uses the data-path posts.        *)
THEOREM Mlx5Inductive ==
    ASSUME "dp" \notin Ops
    PROVE  Spec => []QueueInv
<1>1. Init => Inv
    BY InitType, InitInv DEF Inv
<1>2. Inv /\ [Next]_vars => Inv'
  <2> SUFFICES ASSUME TypeOK, QueueInv, [Next]_vars PROVE QueueInv'
      BY NextType DEF Inv
  <2>1. CASE UNCHANGED vars
      BY <2>1 DEF QueueInv, PostedIntact, EntryIsLast, WaveInv, vars
  <2>2. ASSUME NEW w \in Waves, Advance(w) PROVE QueueInv'
      BY <2>2, AcquireInv, PollInv, SpinInv, WriteInv, PublishInv, RingInv,
         ReleaseInv, ReturnInv DEF Advance
  <2>3. ASSUME NEW w \in Waves, Begin(w) \/ mlx5_post_wqe_amo_single(w)
        PROVE  QueueInv'
      BY <2>3, BeginInv
  <2> QED
      BY <2>1, <2>2, <2>3, CompleteInv DEF Next
<1>3. Inv => QueueInv
    BY DEF Inv
<1> QED
    BY <1>1, <1>2, <1>3, PTL DEF Spec

(* A posted WQE stays in its slot until the adapter has completed it: the  *)
(* poll under the lock never lets a post overrun the queue.                *)
THEOREM Mlx5PostedIntact ==
    ASSUME "dp" \notin Ops
    PROVE  Spec => []PostedIntact
<1>1. QueueInv => PostedIntact
    BY DEF QueueInv
<1> QED
    BY <1>1, Mlx5Inductive, PTL

(* When quiet or a fetching atomic stops waiting, everything posted before *)
(* the wait began is complete, whatever the 16-bit counter has wrapped.    *)
THEOREM Mlx5QuietCompletes ==
    ASSUME "dp" \notin Ops
    PROVE  Spec => []QuietCompletes
<1>1. QueueInv => QuietCompletes
    BY WaveFacts DEF QuietCompletes, WaveInv
<1> QED
    BY <1>1, Mlx5Inductive, PTL
-----------------------------------------------------------------------------
(*                  The return slots of fetching atomics                   *)

(* A wavefront has posted fetching atomics and has not yet read what they  *)
(* return.                                                                 *)
Awaits(w) ==
    /\ wv[w].fetching
    /\ \/ wv[w].pc \in {"ring", "unlock", "ret"}
       \/ wv[w].pc \in {"poll", "spin"} /\ wv[w].quiet

(* The return slots of such a wavefront, as long as they are not handed    *)
(* out again: a completed atomic's slot holds its value, an atomic still   *)
(* queued names its slot, and no WQE queued behind it names the same.      *)
SlotsOwn(w) ==
    \A i \in 0..(wv[w].n - 1) :
        LET s == (wv[w].slot + i) % FetchCnt IN
        /\ wv[w].base + i < done => fetching_atomic[s] = wv[w].base + i
        /\ wv[w].base + i >= done => buf[(wv[w].base + i) % Depth].ret = s
        /\ \A k \in done..(post - 1) : buf[k % Depth].ret = s => k <= wv[w].base + i

FetchInv(w) ==
    /\ wv[w].pc = "lock" => ~wv[w].quiet
    /\ wv[w].pc = "publish" =>
         /\ wv[w].slot = fetching_atomic_idx
         /\ \A i \in 0..(wv[w].n - 1) : buf[(post + i) % Depth].ret =
              IF wv[w].fetching THEN (fetching_atomic_idx + i) % FetchCnt ELSE NoSlot
    /\ Awaits(w) =>
         /\ wv[w].own = wv[w].base + wv[w].n
         /\ wv[w].slot + wv[w].n <= fetching_atomic_idx
         /\ fetching_atomic_idx <= wv[w].slot + FetchCnt => SlotsOwn(w)

FetchesInv == \A w \in Waves : FetchInv(w)

(* The numbers a wavefront's state is made of.                             *)
LEMMA WaveNumbers ==
    ASSUME TypeOK, NEW w \in Waves
    PROVE  /\ post \in Nat /\ done \in Nat /\ fetching_atomic_idx \in Nat
           /\ wv[w].n \in Nat /\ wv[w].n > 0 /\ wv[w].n <= Depth
           /\ wv[w].base \in Nat /\ wv[w].slot \in Nat /\ wv[w].own \in Nat
           /\ wv[w].snap \in Nat
BY Sizes DEF TypeOK, WaveState

(* A wavefront that goes on to something else, or waits on.                *)
LEMMA FetchStays ==
    ASSUME NEW w \in Waves, FetchInv(w),
           UNCHANGED <<post, done, buf, fetching_atomic_idx, fetching_atomic>>,
           wv'[w].pc = "lock" => ~wv'[w].quiet,
           wv'[w].pc # "publish",
           Awaits(w)' => /\ Awaits(w) /\ wv'[w].n = wv[w].n
                         /\ wv'[w].base = wv[w].base /\ wv'[w].slot = wv[w].slot
                         /\ wv'[w].own = wv[w].own
    PROVE  FetchInv(w)'
<1> SUFFICES ASSUME Awaits(w)'
             PROVE  /\ wv'[w].own = wv'[w].base + wv'[w].n
                    /\ wv'[w].slot + wv'[w].n <= fetching_atomic_idx'
                    /\ fetching_atomic_idx' <= wv'[w].slot + FetchCnt => SlotsOwn(w)'
    BY DEF FetchInv
<1>1. SlotsOwn(w) => SlotsOwn(w)'
    BY DEF SlotsOwn
<1> QED
    BY <1>1 DEF FetchInv

(* A wavefront that does not move, while the queue does not.               *)
LEMMA FetchOthers ==
    ASSUME NEW v \in Waves, FetchInv(v), wv'[v] = wv[v],
           UNCHANGED <<post, done, buf, fetching_atomic_idx, fetching_atomic>>
    PROVE  FetchInv(v)'
BY DEF FetchInv, Awaits, SlotsOwn

(* Beginning an operation keeps the return slots of the fetching atomics   *)
(* apart.                                                                  *)
LEMMA BeginFetch ==
    ASSUME TypeOK, QueueInv, FetchesInv, NEW w \in Waves,
           Begin(w) \/ mlx5_post_wqe_amo_single(w)
    PROVE  FetchesInv'
<1>1. /\ UNCHANGED queue /\ \A v \in Waves : v # w => wv'[v] = wv[v]
      /\ \/ wv'[w].pc = "lock" /\ ~wv'[w].quiet
         \/ wv'[w].pc = "poll" /\ ~wv'[w].fetching
  <2>1. ASSUME NEW n, NEW f, NEW r, NEW s, Start(w, n, f, r, s)
        PROVE  /\ UNCHANGED queue /\ \A v \in Waves : v # w => wv'[v] = wv[v]
               /\ wv'[w].pc = "lock" /\ wv'[w].quiet = FALSE
      BY <2>1 DEF Start, TypeOK, WaveState
  <2>2. CASE mlx5_quiet(w)
      BY <2>2 DEF mlx5_quiet, TypeOK, WaveState
  <2>3. CASE ~mlx5_quiet(w)
    <3>1. \E n, f, r, s : Start(w, n, f, r, s)
        BY <2>3, Zenon DEF Begin, mlx5_post_wqe_rma, mlx5_post_wqe_rma_single,
           mlx5_post_wqe_amo, mlx5_post_wqe_amo_single,
           mlx5_post_wqe_rma_dp_single_lane
    <3> QED
        BY <2>1, <3>1, Zenon
  <2> QED
      BY <2>2, <2>3
<1>2. ~Awaits(w)' /\ wv'[w].pc # "publish"
    BY <1>1 DEF Awaits
<1>3. FetchInv(w)'
    BY <1>1, <1>2 DEF FetchInv
<1>4. ASSUME NEW v \in Waves, v # w PROVE FetchInv(v)'
    BY <1>1, <1>4, FetchOthers DEF FetchesInv, queue
<1> QED
    BY <1>3, <1>4 DEF FetchesInv

(* The steps of a wavefront that write neither the queue nor the counters. *)
LEMMA WaitFetch ==
    ASSUME TypeOK, QueueInv, FetchesInv, NEW w \in Waves,
           \/ acquire_lock(w) \/ mlx5_poll_cq_until(w) \/ Spin(w)
           \/ mlx5_ring_doorbell(w) \/ release_lock(w) \/ Return(w)
    PROVE  FetchesInv'
<1>0. /\ UNCHANGED <<post, done, buf, fetching_atomic_idx, fetching_atomic>>
      /\ \A v \in Waves : v # w => wv'[v] = wv[v]
      /\ wv'[w].n = wv[w].n /\ wv'[w].base = wv[w].base
      /\ wv'[w].slot = wv[w].slot /\ wv'[w].own = wv[w].own
      /\ wv'[w].fetching = wv[w].fetching
    BY DEF acquire_lock, mlx5_poll_cq_until, Spin, mlx5_ring_doorbell, release_lock,
           Return, Goto, queue, TypeOK, WaveState
<1>1. wv[w].pc = "lock" => ~wv[w].quiet
    BY DEF FetchesInv, FetchInv
<1>2. /\ wv'[w].pc \notin {"lock", "publish"}
      /\ Awaits(w)' => Awaits(w)
  <2>1. CASE acquire_lock(w)
    <3>1. wv'[w].pc \in {"poll", "write"} /\ wv'[w].quiet = wv[w].quiet
          /\ wv[w].pc = "lock"
        BY <2>1 DEF acquire_lock, Goto, TypeOK, WaveState
    <3> QED
        BY <1>1, <3>1 DEF Awaits
  <2>2. CASE mlx5_poll_cq_until(w)
    <3>1. /\ wv'[w].pc \in {"spin", IF wv[w].quiet THEN "ret" ELSE "write"}
          /\ wv'[w].quiet = wv[w].quiet /\ wv[w].pc = "poll"
        BY <2>2 DEF mlx5_poll_cq_until, AfterPoll, TypeOK, WaveState
    <3> QED
        BY <1>0, <3>1 DEF Awaits
  <2>3. CASE Spin(w)
    <3>1. /\ wv'[w].pc = IF wv[w].quiet THEN "ret" ELSE "write"
          /\ wv'[w].quiet = wv[w].quiet /\ wv[w].pc = "spin"
        BY <2>3 DEF Spin, Goto, AfterPoll, TypeOK, WaveState
    <3> QED
        BY <1>0, <3>1 DEF Awaits
  <2>4. CASE mlx5_ring_doorbell(w)
    <3>1. wv'[w].pc = "unlock" /\ wv[w].pc = "ring"
        BY <2>4 DEF mlx5_ring_doorbell, Goto, TypeOK, WaveState
    <3> QED
        BY <1>0, <3>1 DEF Awaits
  <2>5. CASE release_lock(w)
    <3>1. wv'[w].pc \in {"poll", "idle"} /\ wv[w].pc = "unlock"
        BY <2>5 DEF release_lock, TypeOK, WaveState
    <3> QED
        BY <1>0, <3>1 DEF Awaits
  <2>6. CASE Return(w)
    <3>1. wv'[w].pc = "idle"
        BY <2>6 DEF Return, Goto, TypeOK, WaveState
    <3> QED
        BY <3>1 DEF Awaits
  <2> QED
      BY <2>1, <2>2, <2>3, <2>4, <2>5, <2>6
<1>3. FetchInv(w)'
    BY <1>0, <1>2, FetchStays DEF FetchesInv
<1>4. ASSUME NEW v \in Waves, v # w PROVE FetchInv(v)'
    BY <1>0, <1>4, FetchOthers DEF FetchesInv
<1> QED
    BY <1>3, <1>4 DEF FetchesInv

(* What the copy of the WQEs leaves alone, and what it writes.             *)
LEMMA WriteKeepsPosted ==
    ASSUME TypeOK, QueueInv, NEW w \in Waves, WriteWqes(w)
    PROVE  /\ \A k \in done..(post - 1) : buf'[k % Depth] = buf[k % Depth]
           /\ \A i \in 0..(wv[w].n - 1) : buf'[(post + i) % Depth].ret =
                IF wv[w].fetching THEN (fetching_atomic_idx + i) % FetchCnt ELSE NoSlot
<1>0. /\ wv[w].n \in 1..Depth /\ post \in Nat /\ done \in Nat /\ Depth \in Nat \ {0}
    BY Sizes DEF TypeOK, WaveState
<1>1. post + wv[w].n <= done + Depth
    BY WaveFacts DEF WaveInv, WriteWqes
<1>2. ASSUME NEW k \in done..(post - 1) PROVE buf'[k % Depth] = buf[k % Depth]
  <2>1. k \in Nat /\ k % Depth \in 0..(Depth - 1)
      BY <1>0, InRing
  <2>2. ASSUME NEW j \in 0..(wv[w].n - 1), (post + j) % Depth = k % Depth
        PROVE  FALSE
    <3>1. /\ post + j \in Nat /\ k < post + j /\ post + j < k + Depth
        BY <1>0, <1>1, <2>1
    <3>2. k <= post + j /\ k % Depth = (post + j) % Depth
        BY <2>1, <2>2, <3>1
    <3>3. k = post + j
        BY <1>0, <2>1, <3>1, <3>2, OneRevolution, Zenon
    <3> QED
        BY <2>1, <3>1, <3>3
  <2> QED
      BY <2>1, <2>2, SlotWritten
<1>3. ASSUME NEW i \in 0..(wv[w].n - 1)
      PROVE  buf'[(post + i) % Depth].ret =
               IF wv[w].fetching THEN (fetching_atomic_idx + i) % FetchCnt ELSE NoSlot
  <2>1. post + i \in Nat /\ (post + i) % Depth \in 0..(Depth - 1) /\ i \in Nat
      BY <1>0, InRing
  <2>2. i \in LanesAt(w, (post + i) % Depth)
      BY <2>1, TruncationKeepsSlot DEF LanesAt, mlx5_sq_idx, mlx5_wqe_idx
  <2>3. PICK j \in 0..(wv[w].n - 1) :
          /\ (post + j) % Depth = (post + i) % Depth
          /\ buf'[(post + i) % Depth] = gda_mlx5_wqe(w, j)
      BY <2>1, <2>2, SlotWritten
  <2>4. post + j = post + i
    <3>1. /\ post + j \in Nat /\ post <= post + j /\ post + j < post + Depth
          /\ post <= post + i /\ post + i < post + Depth
        BY <1>0, <2>1
    <3> QED
        BY <1>0, <2>1, <2>3, <3>1, SamePosition, Zenon
  <2>5. j = i
      BY <1>0, <2>4
  <2> QED
      BY <2>3, <2>5 DEF gda_mlx5_wqe, atomic_idx
<1> QED
    BY <1>2, <1>3

(* Writing the WQEs keeps them apart: the new slots are unused.            *)
LEMMA WriteFetch ==
    ASSUME TypeOK, QueueInv, FetchesInv, NEW w \in Waves, WriteWqes(w)
    PROVE  FetchesInv'
<1>0. /\ UNCHANGED <<post, done, fetching_atomic_idx, fetching_atomic>>
      /\ \A v \in Waves : v # w => wv'[v] = wv[v]
      /\ wv[w].pc = "write" /\ wv'[w].pc = "publish" /\ wv'[w].n = wv[w].n
      /\ wv'[w].slot = fetching_atomic_idx /\ wv'[w].fetching = wv[w].fetching
    BY DEF WriteWqes, TypeOK, WaveState
<1>1. lock = w
    BY <1>0, WaveFacts DEF WaveInv
<1>2. FetchInv(w)'
  <2>1. ~Awaits(w)'
      BY <1>0 DEF Awaits
  <2>2. \A i \in 0..(wv'[w].n - 1) : buf'[(post' + i) % Depth].ret =
          IF wv'[w].fetching THEN (fetching_atomic_idx' + i) % FetchCnt ELSE NoSlot
      BY <1>0, WriteKeepsPosted
  <2> QED
      BY <1>0, <2>1, <2>2 DEF FetchInv
<1>3. ASSUME NEW v \in Waves, v # w PROVE FetchInv(v)'
  <2>1. FetchInv(v) /\ wv'[v] = wv[v] /\ wv[v].pc # "publish"
      BY <1>0, <1>1, <1>3, OneWriter DEF FetchesInv
  <2>2. Awaits(v)' <=> Awaits(v)
      BY <2>1 DEF Awaits
  <2>3. ASSUME Awaits(v), SlotsOwn(v) PROVE SlotsOwn(v)'
    <3>1. /\ wv[v].own <= post /\ wv[v].own = wv[v].base + wv[v].n
        BY <2>1, <2>3, WaveFacts DEF WaveInv, FetchInv
    <3>2. ASSUME NEW i \in 0..(wv[v].n - 1), wv[v].base + i >= done
          PROVE  wv[v].base + i \in done..(post - 1)
        BY <3>1, <3>2, WaveNumbers
    <3>3. \A k \in done..(post - 1) : buf'[k % Depth] = buf[k % Depth]
        BY WriteKeepsPosted
    <3> QED
        BY <1>0, <2>1, <2>3, <3>2, <3>3 DEF SlotsOwn
  <2> QED
      BY <1>0, <2>1, <2>2, <2>3 DEF FetchInv
<1> QED
    BY <1>2, <1>3 DEF FetchesInv

(* Two return slots of one turn of the ring differ.                        *)
LEMMA SlotsDiffer ==
    ASSUME NEW a \in Nat, NEW b \in Nat, NEW r \in Nat,
           r <= a, a < b, b < r + FetchCnt
    PROVE  a % FetchCnt # b % FetchCnt
<1> SUFFICES ASSUME a % FetchCnt = b % FetchCnt PROVE FALSE
    OBVIOUS
<1>1. a = b
  <2>1. FetchCnt \in Nat \ {0} /\ a <= b /\ b < a + FetchCnt
      BY Sizes
  <2> QED
      BY <2>1, OneRevolution, Zenon
<1> QED
    BY <1>1

(* What the published WQEs name as their return slots.                     *)
LEMMA PublishedSlots ==
    ASSUME TypeOK, QueueInv, FetchesInv, NEW w \in Waves, Publish(w),
           NEW k \in post..(post + wv[w].n - 1)
    PROVE  \/ buf[k % Depth].ret = NoSlot /\ ~wv[w].fetching
           \/ /\ wv[w].fetching
              /\ buf[k % Depth].ret = (fetching_atomic_idx + (k - post)) % FetchCnt
<1>1. /\ k - post \in 0..(wv[w].n - 1) /\ post + (k - post) = k
    BY WaveNumbers
<1>2. buf[(post + (k - post)) % Depth].ret =
        IF wv[w].fetching THEN (fetching_atomic_idx + (k - post)) % FetchCnt ELSE NoSlot
    BY <1>1 DEF Publish, FetchesInv, FetchInv
<1> QED
    BY <1>1, <1>2

(* Publishing keeps them apart and advances the slot index with the WQEs.  *)
LEMMA PublishFetch ==
    ASSUME TypeOK, QueueInv, FetchesInv, NEW w \in Waves, Publish(w)
    PROVE  FetchesInv'
<1>0. /\ UNCHANGED <<done, fetching_atomic, buf>>
      /\ post' = post + wv[w].n
      /\ fetching_atomic_idx' = fetching_atomic_idx + IF wv[w].fetching THEN wv[w].n ELSE 0
      /\ \A v \in Waves : v # w => wv'[v] = wv[v]
      /\ wv[w].pc = "publish" /\ wv'[w].pc = "ring" /\ wv'[w].n = wv[w].n
      /\ wv'[w].slot = wv[w].slot /\ wv'[w].fetching = wv[w].fetching
      /\ wv'[w].base = wv[w].base /\ wv'[w].own = post'
    BY DEF Publish, TypeOK, WaveState
<1>1. lock = w /\ wv[w].base = post /\ wv[w].slot = fetching_atomic_idx
    BY <1>0, WaveFacts DEF WaveInv, FetchesInv, FetchInv
<1>2. /\ post \in Nat /\ done \in Nat /\ fetching_atomic_idx \in Nat /\ wv[w].n \in Nat
      /\ wv[w].n > 0 /\ done <= post /\ FetchCnt \in Nat \ {0}
    BY WaveNumbers, Sizes DEF QueueInv, PostedIntact, TypeOK
<1>3. FetchInv(w)'
  <2> SUFFICES ASSUME wv[w].fetching
               PROVE  /\ wv'[w].own = wv'[w].base + wv'[w].n
                      /\ wv'[w].slot + wv'[w].n <= fetching_atomic_idx'
                      /\ fetching_atomic_idx' <= wv'[w].slot + FetchCnt => SlotsOwn(w)'
      BY <1>0 DEF FetchInv, Awaits
  <2>1. /\ wv'[w].own = wv'[w].base + wv'[w].n
        /\ wv'[w].slot + wv'[w].n = fetching_atomic_idx'
      BY <1>0, <1>1, <1>2
  <2>2. ASSUME fetching_atomic_idx' <= wv'[w].slot + FetchCnt,
               NEW i \in 0..(wv[w].n - 1)
        PROVE  /\ ~(post + i < done)
               /\ buf[(post + i) % Depth].ret = (wv[w].slot + i) % FetchCnt
               /\ \A k \in done..(post + wv[w].n - 1) :
                    buf[k % Depth].ret = (wv[w].slot + i) % FetchCnt => k <= post + i
    <3>1. i \in Nat /\ post + i \in post..(post + wv[w].n - 1) /\ ~(post + i < done)
          /\ wv[w].n <= FetchCnt /\ i < wv[w].n /\ (post + i) - post = i
        BY <1>0, <1>1, <1>2, <2>1, <2>2
    <3>2. buf[(post + i) % Depth].ret = (wv[w].slot + i) % FetchCnt
        BY <1>1, <3>1, PublishedSlots
    <3>3. ASSUME NEW k \in done..(post + wv[w].n - 1), k > post + i
          PROVE  buf[k % Depth].ret # (wv[w].slot + i) % FetchCnt
      <4>1. k \in post..(post + wv[w].n - 1)
          BY <1>2, <3>1, <3>3
      <4>2. buf[k % Depth].ret = (fetching_atomic_idx + (k - post)) % FetchCnt
          BY <4>1, PublishedSlots
      <4>3. PICK a \in Nat, b \in Nat : /\ a = fetching_atomic_idx + i
                                        /\ b = fetching_atomic_idx + (k - post)
          BY <1>2, <3>1, <4>1
      <4>4. fetching_atomic_idx <= a /\ a < b /\ b < fetching_atomic_idx + FetchCnt
          BY <1>2, <3>1, <3>3, <4>1, <4>3
      <4>5. a % FetchCnt # b % FetchCnt
          BY <1>2, <4>4, SlotsDiffer, Zenon
      <4> QED
          BY <1>1, <4>2, <4>3, <4>5
    <3>4. \A k \in done..(post + wv[w].n - 1) : k \in Int
        BY <1>2
    <3> QED
        BY <1>2, <3>1, <3>2, <3>3, <3>4
  <2>3. fetching_atomic_idx' <= wv'[w].slot + FetchCnt => SlotsOwn(w)'
    <3> SUFFICES ASSUME fetching_atomic_idx' <= wv'[w].slot + FetchCnt PROVE SlotsOwn(w)'
        OBVIOUS
    <3>1. ASSUME NEW i \in 0..(wv'[w].n - 1)
          PROVE  /\ wv'[w].base + i < done' =>
                      fetching_atomic'[(wv'[w].slot + i) % FetchCnt] = wv'[w].base + i
                 /\ wv'[w].base + i >= done' =>
                      buf'[(wv'[w].base + i) % Depth].ret = (wv'[w].slot + i) % FetchCnt
                 /\ \A k \in done'..(post' - 1) :
                      buf'[k % Depth].ret = (wv'[w].slot + i) % FetchCnt
                        => k <= wv'[w].base + i
      <4>1. i \in 0..(wv[w].n - 1)
          BY <1>0
      <4>2. /\ ~(post + i < done)
            /\ buf[(post + i) % Depth].ret = (wv[w].slot + i) % FetchCnt
            /\ \A k \in done..(post + wv[w].n - 1) :
                 buf[k % Depth].ret = (wv[w].slot + i) % FetchCnt => k <= post + i
          BY <2>2, <4>1
      <4>3. done'..(post' - 1) = done..(post + wv[w].n - 1)
          BY <1>0, <1>2
      <4>4. /\ wv'[w].base + i = post + i /\ wv'[w].slot + i = wv[w].slot + i
            /\ done' = done /\ buf' = buf
          BY <1>0, <1>1
      <4> QED
          BY <4>2, <4>3, <4>4, Zenon
    <3> QED
        BY <3>1 DEF SlotsOwn
  <2> QED
      BY <1>2, <2>1, <2>3, <1>0
<1>4. ASSUME NEW v \in Waves, v # w PROVE FetchInv(v)'
  <2>1. /\ FetchInv(v) /\ wv'[v] = wv[v] /\ wv[v].pc # "publish"
        /\ wv[v].n \in Nat /\ wv[v].slot \in Nat /\ wv[v].base \in Nat
      BY <1>0, <1>1, <1>4, OneWriter, WaveNumbers DEF FetchesInv
  <2>2. Awaits(v)' <=> Awaits(v)
      BY <2>1 DEF Awaits
  <2> SUFFICES ASSUME Awaits(v)
               PROVE  /\ wv[v].slot + wv[v].n <= fetching_atomic_idx'
                      /\ fetching_atomic_idx' <= wv[v].slot + FetchCnt => SlotsOwn(v)'
      BY <1>0, <2>1, <2>2 DEF FetchInv
  <2>3. /\ wv[v].own = wv[v].base + wv[v].n /\ wv[v].own <= post
        /\ wv[v].slot + wv[v].n <= fetching_atomic_idx
        /\ fetching_atomic_idx <= fetching_atomic_idx' /\ fetching_atomic_idx' \in Nat
      BY <1>0, <1>2, <2>1, WaveFacts DEF FetchInv, WaveInv
  <2>4. ASSUME fetching_atomic_idx' <= wv[v].slot + FetchCnt,
               NEW i \in 0..(wv[v].n - 1),
               NEW k \in post..(post + wv[w].n - 1)
        PROVE  buf[k % Depth].ret # (wv[v].slot + i) % FetchCnt
    <3>1. CASE ~wv[w].fetching
      <4>1. buf[k % Depth].ret = NoSlot
          BY <3>1, PublishedSlots
      <4>2. wv[v].slot + i \in Nat
          BY <2>1
      <4> QED
          BY <4>1, <4>2, InRing, <1>2 DEF NoSlot
    <3>2. CASE wv[w].fetching
      <4>1. buf[k % Depth].ret = (fetching_atomic_idx + (k - post)) % FetchCnt
          BY <3>2, PublishedSlots
      <4>2. PICK a \in Nat, b \in Nat : /\ a = wv[v].slot + i
                                        /\ b = fetching_atomic_idx + (k - post)
          BY <1>2, <2>1
      <4>3. wv[v].slot <= a /\ a < b /\ b < wv[v].slot + FetchCnt
          BY <1>0, <1>2, <2>1, <2>3, <2>4, <3>2, <4>2
      <4>4. a % FetchCnt # b % FetchCnt
          BY <2>1, <4>3, SlotsDiffer
      <4> QED
          BY <4>1, <4>2, <4>4
    <3> QED
        BY <3>1, <3>2
  <2>5. ASSUME fetching_atomic_idx' <= wv[v].slot + FetchCnt PROVE SlotsOwn(v)'
    <3>1. SlotsOwn(v)
        BY <1>2, <2>1, <2>3, <2>5 DEF FetchInv
    <3>2. ASSUME NEW i \in 0..(wv[v].n - 1), NEW k \in done..(post + wv[w].n - 1),
                 buf[k % Depth].ret = (wv[v].slot + i) % FetchCnt
          PROVE  k <= wv[v].base + i
      <4>1. k \notin post..(post + wv[w].n - 1)
          BY <2>4, <2>5, <3>2
      <4>2. k \in done..(post - 1)
          BY <1>2, <4>1
      <4> QED
          BY <3>1, <3>2, <4>2 DEF SlotsOwn
    <3>3. ASSUME NEW i \in 0..(wv'[v].n - 1)
          PROVE  /\ wv'[v].base + i < done' =>
                      fetching_atomic'[(wv'[v].slot + i) % FetchCnt] = wv'[v].base + i
                 /\ wv'[v].base + i >= done' =>
                      buf'[(wv'[v].base + i) % Depth].ret = (wv'[v].slot + i) % FetchCnt
                 /\ \A k \in done'..(post' - 1) :
                      buf'[k % Depth].ret = (wv'[v].slot + i) % FetchCnt
                        => k <= wv'[v].base + i
      <4>1. i \in 0..(wv[v].n - 1)
          BY <2>1
      <4>2. /\ wv[v].base + i < done =>
                 fetching_atomic[(wv[v].slot + i) % FetchCnt] = wv[v].base + i
            /\ wv[v].base + i >= done =>
                 buf[(wv[v].base + i) % Depth].ret = (wv[v].slot + i) % FetchCnt
          BY <3>1, <4>1 DEF SlotsOwn
      <4>3. \A k \in done..(post + wv[w].n - 1) :
              buf[k % Depth].ret = (wv[v].slot + i) % FetchCnt => k <= wv[v].base + i
          BY <3>2, <4>1
      <4>4. done'..(post' - 1) = done..(post + wv[w].n - 1)
          BY <1>0, <1>2
      <4>5. /\ wv'[v] = wv[v] /\ done' = done /\ buf' = buf
            /\ fetching_atomic' = fetching_atomic
          BY <1>0, <2>1
      <4> QED
          BY <4>2, <4>3, <4>4, <4>5, Zenon
    <3> QED
        BY <3>3 DEF SlotsOwn
  <2> QED
      BY <2>1, <2>3, <2>5, <1>2
<1> QED
    BY <1>3, <1>4 DEF FetchesInv

(* A completion writes the slot of its own WQE only.                       *)
LEMMA CompleteFetch ==
    ASSUME TypeOK, QueueInv, FetchesInv, Complete
    PROVE  FetchesInv'
<1>0. /\ done \in Nat /\ post \in Nat /\ rung \in Nat /\ done < post /\ done' = done + 1
      /\ UNCHANGED <<post, buf, fetching_atomic_idx, wv>>
    BY DEF Complete, TypeOK, QueueInv, PostedIntact
<1>1. /\ done % Depth \in 0..(Depth - 1) /\ buf[done % Depth].id = done
      /\ done \in done..(post - 1)
    BY <1>0, InRing DEF QueueInv, PostedIntact
<1>2. ASSUME NEW s \in 0..(FetchCnt - 1)
      PROVE  /\ buf[done % Depth].ret = s => fetching_atomic'[s] = done
             /\ buf[done % Depth].ret # s => fetching_atomic'[s] = fetching_atomic[s]
  <2>1. s # NoSlot
      BY Sizes DEF NoSlot
  <2> QED
      BY <1>1, <2>1 DEF Complete, TypeOK
<1>3. ASSUME NEW v \in Waves PROVE FetchInv(v)'
  <2>1. /\ FetchInv(v) /\ (Awaits(v)' <=> Awaits(v))
        /\ wv[v].base \in Nat /\ wv[v].n \in Nat /\ wv[v].slot \in Nat
      BY <1>0, WaveNumbers DEF FetchesInv, Awaits
  <2>2. ASSUME SlotsOwn(v), NEW i \in 0..(wv[v].n - 1)
        PROVE  LET s == (wv[v].slot + i) % FetchCnt IN
               /\ wv[v].base + i < done + 1 => fetching_atomic'[s] = wv[v].base + i
               /\ wv[v].base + i >= done + 1 => buf[(wv[v].base + i) % Depth].ret = s
               /\ \A k \in (done + 1)..(post - 1) :
                    buf[k % Depth].ret = s => k <= wv[v].base + i
    <3>1. PICK s \in 0..(FetchCnt - 1), b \in Nat :
            s = (wv[v].slot + i) % FetchCnt /\ b = wv[v].base + i
      <4>1. wv[v].slot + i \in Nat /\ wv[v].base + i \in Nat
          BY <2>1
      <4> QED
          BY <4>1, InRing
    <3>2. /\ b < done => fetching_atomic[s] = b
          /\ b >= done => buf[b % Depth].ret = s
          /\ \A k \in done..(post - 1) : buf[k % Depth].ret = s => k <= b
        BY <2>2, <3>1 DEF SlotsOwn
    <3>3. b < done + 1 => fetching_atomic'[s] = b
      <4>1. CASE b = done
          BY <1>0, <1>2, <3>2, <4>1
      <4>2. CASE b < done
        <5>1. buf[done % Depth].ret # s
            BY <1>0, <1>1, <3>2, <4>2
        <5> QED
            BY <1>2, <3>2, <4>2, <5>1
      <4> QED
          BY <1>0, <4>1, <4>2
    <3>4. /\ b >= done + 1 => buf[b % Depth].ret = s
          /\ \A k \in (done + 1)..(post - 1) : buf[k % Depth].ret = s => k <= b
        BY <1>0, <3>2
    <3> QED
        BY <3>1, <3>3, <3>4
  <2>3. SlotsOwn(v) => SlotsOwn(v)'
      BY <1>0, <2>2 DEF SlotsOwn
  <2> QED
      BY <1>0, <2>1, <2>3 DEF FetchInv
<1> QED
    BY <1>3 DEF FetchesInv

(* A fetching atomic returns what its own WQE fetched, as long as no more  *)
(* than FETCHING_ATOMIC_CNT fetches were handed a return slot since.       *)
THEOREM Mlx5ReturnIsOwn ==
    ASSUME "dp" \notin Ops
    PROVE  Spec => []ReturnIsOwnInTime
<1>1. Init => Inv /\ FetchesInv
  <2>1. Init => FetchesInv
    <3>1. ASSUME Init, NEW w \in Waves PROVE wv[w].pc = "idle"
        BY <3>1 DEF Init, IdleWave
    <3>2. ASSUME NEW w \in Waves, wv[w].pc = "idle" PROVE FetchInv(w)
        BY <3>2 DEF FetchInv, Awaits
    <3> QED
        BY <3>1, <3>2, Zenon DEF FetchesInv
  <2> QED
      BY <2>1, InitType, InitInv DEF Inv
<1>2. Inv /\ QueueInv' /\ FetchesInv /\ [Next]_vars => Inv' /\ FetchesInv'
  <2> SUFFICES ASSUME TypeOK, QueueInv, FetchesInv, [Next]_vars PROVE FetchesInv'
      BY NextType DEF Inv
  <2>1. CASE UNCHANGED vars
      BY <2>1, FetchOthers DEF FetchesInv, vars
  <2>2. ASSUME NEW w \in Waves, Advance(w) PROVE FetchesInv'
      BY <2>2, WaitFetch, WriteFetch, PublishFetch DEF Advance
  <2>3. ASSUME NEW w \in Waves, Begin(w) \/ mlx5_post_wqe_amo_single(w)
        PROVE  FetchesInv'
      BY <2>3, BeginFetch
  <2> QED
      BY <2>1, <2>2, <2>3, CompleteFetch DEF Next
<1>3. Inv /\ FetchesInv => ReturnIsOwnInTime
  <2> SUFFICES ASSUME TypeOK, QueueInv, FetchesInv, NEW w \in Waves,
                      wv[w].pc = "ret", wv[w].fetching,
                      fetching_atomic_idx <= wv[w].slot + FetchCnt,
                      NEW i \in 0..(wv[w].n - 1)
               PROVE  fetching_atomic[(wv[w].slot + i) % FetchCnt] = wv[w].base + i
      BY DEF Inv, ReturnIsOwnInTime
  <2>1. SlotsOwn(w) /\ wv[w].own = wv[w].base + wv[w].n
      BY DEF FetchesInv, FetchInv, Awaits
  <2>2. wv[w].own <= wv[w].snap /\ wv[w].snap <= done
      BY WaveFacts DEF WaveInv
  <2>3. wv[w].base + i < done
      BY <2>1, <2>2, WaveNumbers
  <2> QED
      BY <2>1, <2>3 DEF SlotsOwn
<1> QED
    BY <1>1, <1>2, <1>3, Mlx5Inductive, PTL DEF Spec
=============================================================================
