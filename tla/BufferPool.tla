------------------------------ MODULE BufferPool ------------------------------
(***************************************************************************)
(* What AtomicWFQueue and FreeList promise their users: a first-in         *)
(* first-out pool of buffers, each of which is in the pool or with one     *)
(* wavefront.                                                              *)
(***************************************************************************)
EXTENDS Naturals, Sequences

CONSTANTS Waves, Buffers, NoBuf     \* Buffers: a sequence without repetition
VARIABLES pool, held

Init == pool = Buffers /\ held = [w \in Waves |-> NoBuf]

Take(w) ==
    /\ held[w] = NoBuf /\ pool # << >>
    /\ held' = [held EXCEPT ![w] = Head(pool)]
    /\ pool' = Tail(pool)

Give(w) ==
    /\ held[w] # NoBuf
    /\ pool' = Append(pool, held[w])
    /\ held' = [held EXCEPT ![w] = NoBuf]

Next == \E w \in Waves : Take(w) \/ Give(w)
Spec == Init /\ [][Next]_<<pool, held>>
-----------------------------------------------------------------------------
(* Every buffer is at one place: once in the pool, or with one wavefront.  *)
Exclusive ==
    /\ \A i, j \in 1..Len(pool) : pool[i] = pool[j] => i = j
    /\ \A w \in Waves : held[w] # NoBuf =>
         /\ \A i \in 1..Len(pool) : pool[i] # held[w]
         /\ \A u \in Waves : held[u] = held[w] => u = w
=============================================================================
