---------------------------- MODULE AtomicWFQueue ----------------------------
(***************************************************************************)
(* The queue of result buffers and status flags that the wavefronts of the *)
(* default context share (containers/atomic_wf_queue_impl.hpp), and how an *)
(* RO context uses it: take a buffer, let the CPU write a result into it,  *)
(* give it back, read the result.  Dequeuers and enqueuers have a lock     *)
(* each and meet only in curr_size_.  The locks pass in ticket order       *)
(* (FifoLock): each is the line of wavefronts that drew a ticket.          *)
(***************************************************************************)
EXTENDS Integers, Sequences, FiniteSets

CONSTANTS Waves, Buffers, NoBuf

size_ == Len(Buffers)

WFQueueAssumption ==
    /\ IsFiniteSet(Waves)
    /\ size_ \in Nat \ {0} /\ Buffers = [i \in 1..size_ |-> Buffers[i]]
    /\ \A i, j \in 1..size_ : Buffers[i] = Buffers[j] => i = j
    /\ \A i \in 1..size_ : Buffers[i] # NoBuf

VARIABLES head_, tail_, curr_size_, queue_,
          dequeue_mutex_, enqueue_mutex_,
          contents,     \* whose result is in each buffer
          pc, buf       \* of each wavefront

ring == <<head_, tail_, curr_size_, queue_>>
vars == <<ring, dequeue_mutex_, enqueue_mutex_, contents, pc, buf>>

BufferSet == {Buffers[i] : i \in 1..size_}

(* allocate_queue, then one push per buffer: the queue is exactly full.    *)
Init ==
    /\ head_ = 0 /\ tail_ = 0 /\ curr_size_ = size_
    /\ queue_ = [i \in 0..(size_ - 1) |-> Buffers[i + 1]]
    /\ dequeue_mutex_ = << >> /\ enqueue_mutex_ = << >>
    /\ contents = [b \in BufferSet |-> NoBuf]
    /\ pc = [w \in Waves |-> "idle"]
    /\ buf = [w \in Waves |-> NoBuf]

Holds(w, mutex) == mutex # << >> /\ Head(mutex) = w

Goto(w, from, to) == pc[w] = from /\ pc' = [pc EXCEPT ![w] = to]

-----------------------------------------------------------------------------
(* dequeue: lock, wait for an element, take it, count it off and unlock.   *)
LockDequeue(w) ==
    /\ Goto(w, "idle", "empty")
    /\ dequeue_mutex_' = Append(dequeue_mutex_, w)
    /\ UNCHANGED <<ring, enqueue_mutex_, contents, buf>>

is_empty == curr_size_ = 0

WaitNotEmpty(w) ==
    /\ Holds(w, dequeue_mutex_) /\ ~is_empty
    /\ Goto(w, "empty", "take")
    /\ UNCHANGED <<ring, dequeue_mutex_, enqueue_mutex_, contents, buf>>

dequeue(w) ==
    /\ Goto(w, "take", "count_off")
    /\ buf' = [buf EXCEPT ![w] = queue_[head_]]
    /\ head_' = (head_ + 1) % size_
    /\ UNCHANGED <<tail_, curr_size_, queue_, dequeue_mutex_, enqueue_mutex_,
                   contents>>

KeepDequeueLock(w) == \* Mutant: the lock is not released
    /\ Goto(w, "count_off", "call")
    /\ curr_size_' = curr_size_ - 1
    /\ UNCHANGED <<head_, tail_, queue_, dequeue_mutex_, enqueue_mutex_,
                   contents, buf>>

CountOff(w) ==
    /\ Goto(w, "count_off", "call")
    /\ curr_size_' = curr_size_ - 1
    /\ dequeue_mutex_' = Tail(dequeue_mutex_)
    /\ UNCHANGED <<head_, tail_, queue_, enqueue_mutex_, contents, buf>>

(* The blocking command of g or of an atomic: the CPU stores the result.   *)
Result(w) ==
    /\ Goto(w, "call", "give")
    /\ contents' = [contents EXCEPT ![buf[w]] = w]
    /\ UNCHANGED <<ring, dequeue_mutex_, enqueue_mutex_, buf>>

(* enqueue: lock, check that there is room, put it there, count, unlock.   *)
LockEnqueue(w) ==
    /\ Goto(w, "give", "full")
    /\ enqueue_mutex_' = Append(enqueue_mutex_, w)
    /\ UNCHANGED <<ring, dequeue_mutex_, contents, buf>>

is_full == curr_size_ = size_

AssertNotFull(w) ==
    /\ Holds(w, enqueue_mutex_) /\ ~is_full
    /\ Goto(w, "full", "put")
    /\ UNCHANGED <<ring, dequeue_mutex_, enqueue_mutex_, contents, buf>>

enqueue(w) ==
    /\ Goto(w, "put", "count")
    /\ queue_' = [queue_ EXCEPT ![tail_] = buf[w]]
    /\ tail_' = (tail_ + 1) % size_
    /\ UNCHANGED <<head_, curr_size_, dequeue_mutex_, enqueue_mutex_,
                   contents, buf>>

Count(w) ==
    /\ Goto(w, "count", "read")
    /\ curr_size_' = curr_size_ + 1
    /\ enqueue_mutex_' = Tail(enqueue_mutex_)
    /\ UNCHANGED <<head_, tail_, queue_, dequeue_mutex_, contents, buf>>

(* Only now g and the fetching atomics load the result and return it.      *)
Read(w) ==
    /\ Goto(w, "read", "idle")
    /\ buf' = [buf EXCEPT ![w] = NoBuf]
    /\ UNCHANGED <<ring, dequeue_mutex_, enqueue_mutex_, contents>>

Advance(w) ==
    \/ WaitNotEmpty(w) \/ dequeue(w) \/ CountOff(w) \/ Result(w)
    \/ LockEnqueue(w) \/ AssertNotFull(w) \/ enqueue(w) \/ Count(w) \/ Read(w)

Next == \E w \in Waves : LockDequeue(w) \/ Advance(w)

Spec == Init /\ [][Next]_vars

(* Wavefronts keep running and the CPU answers their commands.             *)
FairSpec == Spec /\ \A w \in Waves : WF_vars(Advance(w))

-----------------------------------------------------------------------------
TypeOK ==
    /\ {head_, tail_} \subseteq 0..(size_ - 1)
    /\ curr_size_ \in 0..size_
    /\ queue_ \in [0..(size_ - 1) -> BufferSet]
    /\ contents \in [BufferSet -> Waves \cup {NoBuf}]
    /\ buf \in [Waves -> BufferSet \cup {NoBuf}]
    /\ {dequeue_mutex_, enqueue_mutex_} \subseteq Seq(Waves)
    /\ pc \in [Waves -> {"idle", "empty", "take", "count_off", "call", "give",
                         "full", "put", "count", "read"}]

Owns(w) == pc[w] \in {"count_off", "call", "give", "full", "put", "count"}

(* enqueue's assertion: "There should always be space available."          *)
SpaceAvailable ==
    \A w \in Waves : pc[w] = "full" /\ Holds(w, enqueue_mutex_) => ~is_full

(* g and the fetching atomics return the result of their own command.      *)
ReturnIsOwn == \A w \in Waves : pc[w] = "read" => contents[buf[w]] = w

(* Every wavefront gets a buffer and returns, even with more wavefronts    *)
(* than buffers.                                                           *)
EveryCallReturns == \A w \in Waves : pc[w] = "empty" ~> pc[w] = "idle"

(* The elements that are in the queue: one that was taken may still be     *)
(* counted, one that was put may not be counted yet.                       *)
InQueue ==
    curr_size_ - IF \E w \in Waves : pc[w] = "count_off" THEN 1 ELSE 0

Slot(k) == (head_ + k) % size_
Elements == [i \in 1..InQueue |-> queue_[Slot(i - 1)]]
Held == [w \in Waves |-> IF Owns(w) THEN buf[w] ELSE NoBuf]

Pool == INSTANCE BufferPool WITH pool <- Elements, held <- Held

(* Ring, two locks and shared count together are a first-in first-out pool *)
(* that loses, doubles and reorders nothing.                               *)
ImplementsPool == Pool!Spec

-----------------------------------------------------------------------------
(* Why the queue works.  One wavefront at a time is between a lock and its *)
(* unlock; what is not in the queue is with a wavefront, so that a         *)
(* wavefront with a buffer finds room; and the tail is where the elements  *)
(* end, one further once an element was put there and not counted yet.     *)
Owners == {w \in Waves : Owns(w)}
Uncounted == IF \E w \in Waves : pc[w] = "count" THEN 1 ELSE 0

LocksHeld ==
    \A w \in Waves :
        /\ pc[w] \in {"take", "count_off"} => Holds(w, dequeue_mutex_)
        /\ pc[w] \in {"put", "count"} => Holds(w, enqueue_mutex_)

Balanced ==
    /\ InQueue \in 0..size_ /\ InQueue + Cardinality(Owners) = size_
    /\ \A w \in Waves : /\ pc[w] = "take" => InQueue > 0
                        /\ Owns(w) => buf[w] # NoBuf

Placed ==
    /\ tail_ = Slot(InQueue + Uncounted)
    /\ \A w \in Waves : pc[w] = "count" => queue_[Slot(InQueue)] = buf[w]

IInv == TypeOK /\ LocksHeld /\ Balanced /\ Placed
=============================================================================
