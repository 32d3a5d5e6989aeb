--------------------------- MODULE ABQLBlockMutex ---------------------------
(***************************************************************************)
(* The array-based queue lock of src/src/sync/abql_block_mutex.{hpp,cpp}.  *)
(* lock() draws a ticket with an atomic add and spins on the turn stored   *)
(* in the memory channel of that ticket; unlock() stores the next turn in  *)
(* the next channel.  A channel is shared by every ticket of its residue   *)
(* class, so old turns stay in the array until they are overwritten.       *)
(***************************************************************************)
EXTENDS Integers, FiniteSets

CONSTANTS
    Threads,        \* the leader threads of the blocks that use the mutex
    Channels,       \* memory_channels_
    MaxTicket       \* bound on the tickets drawn (the code's are uint64_t)

ASSUME ChannelsAssumption == Channels \in Nat \ {0}
ASSUME MaxTicketAssumption == MaxTicket \in Nat

VARIABLES
    ticket_,        \* the next ticket to hand out
    turns_,         \* turns_[c].vol_, the turn last signalled on channel c
    pc,             \* where each thread is: "idle", "wait_turn" or "locked"
    my_ticket       \* the ticket lock() returned, or is about to return

vars == <<ticket_, turns_, pc, my_ticket>>

Init ==
    /\ ticket_ = 0
    /\ turns_ = [c \in 0..(Channels - 1) |-> 0]
    /\ pc = [t \in Threads |-> "idle"]
    /\ my_ticket = [t \in Threads |-> 0]

(* Mutant: the comparison of the channel with the ticket is off by one     *)
(* revolution, any turn of the residue class lets the ticket in.           *)
AnyTurnOfTheChannel(ticket) ==
    turns_[ticket % Channels] % Channels = ticket % Channels

(* is_turn_: the channel of the ticket carries exactly this ticket.        *)
is_turn_(ticket) == turns_[ticket % Channels] = ticket

(* Mutant: the ticket is read and incremented without the atomic.          *)
GrabWithoutAtomic(t) ==
    /\ pc[t] = "idle"
    /\ ticket_ < MaxTicket
    /\ my_ticket' = [my_ticket EXCEPT ![t] = ticket_]
    /\ ticket_' \in {ticket_, ticket_ + 1}
    /\ pc' = [pc EXCEPT ![t] = "wait_turn"]
    /\ UNCHANGED turns_

(* lock(), first half: grab_ticket_ is one atomic add.                     *)
grab_ticket_(t) ==
    /\ pc[t] = "idle"
    /\ ticket_ < MaxTicket
    /\ my_ticket' = [my_ticket EXCEPT ![t] = ticket_]
    /\ ticket_' = ticket_ + 1
    /\ pc' = [pc EXCEPT ![t] = "wait_turn"]
    /\ UNCHANGED turns_

(* lock(), second half: the iteration of the spin loop that sees its turn. *)
wait_turn_(t) ==
    /\ pc[t] = "wait_turn"
    /\ is_turn_(my_ticket[t])
    /\ pc' = [pc EXCEPT ![t] = "locked"]
    /\ UNCHANGED <<ticket_, turns_, my_ticket>>

(* signal_next_: the store that hands the turn to a ticket.                *)
signal_next_(ticket) ==
    turns_' = [turns_ EXCEPT ![ticket % Channels] = ticket]

unlock(t) ==
    /\ pc[t] = "locked"
    /\ signal_next_(my_ticket[t] + 1)
    /\ pc' = [pc EXCEPT ![t] = "idle"]
    /\ UNCHANGED <<ticket_, my_ticket>>

Next == \E t \in Threads : grab_ticket_(t) \/ wait_turn_(t) \/ unlock(t)

Spec == Init /\ [][Next]_vars

(* A spinning wave keeps polling, and the sections guarded by the mutex    *)
(* are straight-line code that reaches unlock.                             *)
Fairness == \A t \in Threads : WF_vars(wait_turn_(t)) /\ WF_vars(unlock(t))

FairSpec == Spec /\ Fairness
-----------------------------------------------------------------------------
Holders == {t \in Threads : pc[t] # "idle"}

(* The four variables have the types the class declares.                   *)
TypeOK ==
    /\ ticket_ \in Nat
    /\ turns_ \in [0..(Channels - 1) -> Nat]
    /\ pc \in [Threads -> {"idle", "wait_turn", "locked"}]
    /\ my_ticket \in [Threads -> Nat]

(* At most one thread is between the return of lock() and the store of     *)
(* unlock(), however often the channels have been reused.                  *)
MutualExclusion ==
    \A t, u \in Threads : pc[t] = "locked" /\ pc[u] = "locked" => t = u

(* The lock is granted in ticket order: lock() never returns to a thread   *)
(* while another thread still holds or waits with an earlier ticket.       *)
FirstComeFirstServed ==
    [][\A t, u \in Threads :
         /\ pc[t] = "wait_turn" /\ pc'[t] = "locked"
         /\ u \in Holders /\ u # t
         => my_ticket[t] < my_ticket[u]]_vars

-----------------------------------------------------------------------------
(* Why the array works.  Behind every state there is a turn s: it is in    *)
(* its channel, no channel holds a later one, the tickets outstanding are  *)
(* exactly s..ticket_-1, one per thread, and only ticket s is in.          *)
TurnIs(s) ==
    /\ s <= ticket_
    /\ turns_[s % Channels] = s
    /\ \A c \in 0..(Channels - 1) : turns_[c] <= s
    /\ \A t \in Holders : s <= my_ticket[t] /\ my_ticket[t] < ticket_
    /\ \A t \in Threads : pc[t] = "locked" => my_ticket[t] = s

TicketsDistinct ==
    \A t, u \in Holders : my_ticket[t] = my_ticket[u] => t = u

TicketsHeld(s) ==
    \A n \in s..(ticket_ - 1) : \E t \in Holders : my_ticket[t] = n

IInv ==
    /\ TypeOK
    /\ TicketsDistinct
    /\ \E s \in Nat : TurnIs(s) /\ TicketsHeld(s)

-----------------------------------------------------------------------------
(* The latest turn that was signalled, and the threads whose tickets are   *)
(* outstanding from it on.                                                 *)
Turn == CHOOSE s \in 0..ticket_ :
    /\ turns_[s % Channels] = s
    /\ \A c \in 0..(Channels - 1) : turns_[c] <= s

TicketLine ==
    [n \in 1..(ticket_ - Turn) |->
        CHOOSE t \in Holders : my_ticket[t] = Turn + n - 1]

Abstract == INSTANCE FifoLock WITH
    line <- TicketLine,
    holding <- \E t \in Threads : pc[t] = "locked"

(* Every step of the mutex is a step of the first-in first-out lock: the   *)
(* atomic add joins the line, seeing the turn enters, the store leaves.    *)
ImplementsFifoLock == Abstract!Spec
=============================================================================
