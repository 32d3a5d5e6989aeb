------------------------------ MODULE FifoLock ------------------------------
(***************************************************************************)
(* What ABQLBlockMutex promises its users (FreeList, AtomicWFQueue): one   *)
(* holder at a time, and the lock passes from thread to thread in the      *)
(* order in which lock() drew the tickets.                                 *)
(*                                                                         *)
(* line is the queue of threads that have drawn a ticket and not yet       *)
(* called unlock(); holding says that its head has left lock().            *)
(***************************************************************************)
EXTENDS Naturals, Sequences

CONSTANT Threads

VARIABLES line, holding

vars == <<line, holding>>

Init ==
    /\ line = << >>
    /\ holding = FALSE

InLine(t) == \E i \in 1..Len(line) : line[i] = t

Draw(t) ==
    /\ ~InLine(t)
    /\ line' = Append(line, t)
    /\ UNCHANGED holding

Enter(t) ==
    /\ line # << >>
    /\ Head(line) = t
    /\ ~holding
    /\ holding' = TRUE
    /\ UNCHANGED line

Leave(t) ==
    /\ holding
    /\ Head(line) = t
    /\ holding' = FALSE
    /\ line' = Tail(line)

Next == \E t \in Threads : Draw(t) \/ Enter(t) \/ Leave(t)

Spec == Init /\ [][Next]_vars
=============================================================================
