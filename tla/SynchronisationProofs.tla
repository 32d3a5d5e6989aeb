------------------------ MODULE SynchronisationProofs ------------------------
(***************************************************************************)
(* The synchronisation primitives of one GPU, for any number of threads.   *)
(* ABQLBlockMutex excludes, serves in the order of its tickets and         *)
(* implements FifoLock, for any number of channels.  NotifierSync          *)
(* implements Barrier for a grid of any size, wrapping signal_ included.   *)
(* AtomicWFQueue, whose mutexes are the lock above, implements BufferPool  *)
(* for any set of buffers.                                                 *)
(***************************************************************************)
EXTENDS ABQLBlockMutex, Sequences, RingTheorems, FiniteSetTheorems, TLAPS

(* A ticket always selects one of the channels of turns_.                  *)
LEMMA ChannelInRange ==
    ASSUME NEW n \in Nat
    PROVE  n % Channels \in 0..(Channels - 1)
BY ChannelsAssumption

(* The constructor establishes the invariant, with turn 0.                 *)
LEMMA InitEstablishesIInv == Init => IInv
<1> SUFFICES ASSUME Init PROVE IInv
    OBVIOUS
<1>1. TypeOK
    BY ChannelsAssumption DEF Init, TypeOK
<1>2. Holders = {}
    BY DEF Init, Holders
<1>3. TicketsDistinct
    BY <1>2 DEF TicketsDistinct
<1>4. TurnIs(0)
    BY <1>2, ChannelInRange DEF Init, TurnIs
<1>5. TicketsHeld(0)
    BY DEF Init, TicketsHeld
<1> QED
    BY <1>1, <1>3, <1>4, <1>5 DEF IInv

(* Under the invariant the turn test identifies the turn: a waiting thread *)
(* whose channel shows its ticket holds ticket s.                          *)
LEMMA TurnTestExact ==
    ASSUME TypeOK, NEW s \in Nat, TurnIs(s),
           NEW t \in Threads, pc[t] = "wait_turn", is_turn_(my_ticket[t])
    PROVE  my_ticket[t] = s
<1>1. my_ticket[t] \in Nat /\ t \in Holders
    BY DEF TypeOK, Holders
<1>2. s <= my_ticket[t]
    BY <1>1 DEF TurnIs
<1>3. my_ticket[t] % Channels \in 0..(Channels - 1)
    BY <1>1, ChannelInRange
<1>4. turns_[my_ticket[t] % Channels] <= s
    BY <1>3 DEF TurnIs
<1> QED
    BY <1>1, <1>2, <1>4 DEF is_turn_

(* Drawing a ticket preserves the invariant with the same turn.            *)
LEMMA GrabPreserves ==
    ASSUME IInv, NEW t \in Threads, grab_ticket_(t)
    PROVE  IInv'
<1>1. PICK s \in Nat : TurnIs(s) /\ TicketsHeld(s)
    BY DEF IInv
<1>2. TypeOK /\ TicketsDistinct
    BY DEF IInv
<1>3. TypeOK'
    BY <1>2 DEF TypeOK, grab_ticket_
<1>4. Holders' = Holders \cup {t} /\ t \notin Holders
    BY <1>2 DEF Holders, TypeOK, grab_ticket_
<1>5. \A u \in Holders : my_ticket'[u] = my_ticket[u] /\ u # t
    BY <1>2, <1>4 DEF Holders, TypeOK, grab_ticket_
<1>6. my_ticket'[t] = ticket_ /\ ticket_' = ticket_ + 1 /\ ticket_ \in Nat
    BY <1>2 DEF TypeOK, grab_ticket_
<1>7. \A u \in Holders : my_ticket[u] \in Nat /\ my_ticket[u] < ticket_
                         /\ s <= my_ticket[u]
    BY <1>1, <1>2 DEF TurnIs, TypeOK, Holders
<1>8. TicketsDistinct'
    BY <1>2, <1>4, <1>5, <1>6, <1>7 DEF TicketsDistinct
<1>9. TurnIs(s)'
  <2>1. s <= ticket_ /\ s <= ticket_'
      BY <1>1, <1>6 DEF TurnIs
  <2>2. turns_' = turns_
      BY DEF grab_ticket_
  <2>3. \A u \in Holders' : s <= my_ticket'[u] /\ my_ticket'[u] < ticket_'
      BY <2>1, <1>4, <1>5, <1>6, <1>7
  <2>4. \A u \in Threads : pc'[u] = "locked" => my_ticket'[u] = s
      BY <1>1, <1>2 DEF TurnIs, TypeOK, grab_ticket_
  <2> QED
      BY <1>1, <2>1, <2>2, <2>3, <2>4 DEF TurnIs
<1>10. TicketsHeld(s)'
  <2> SUFFICES ASSUME NEW n \in s..(ticket_' - 1)
               PROVE  \E u \in Holders' : my_ticket'[u] = n
      BY DEF TicketsHeld
  <2>1. CASE n = ticket_
      BY <2>1, <1>4, <1>6
  <2>2. CASE n # ticket_
    <3>1. n \in s..(ticket_ - 1)
        BY <2>2, <1>6
    <3>2. PICK u \in Holders : my_ticket[u] = n
        BY <3>1, <1>1 DEF TicketsHeld
    <3> QED
        BY <3>2, <1>4, <1>5
  <2> QED
      BY <2>1, <2>2
<1> QED
    BY <1>3, <1>8, <1>9, <1>10 DEF IInv

(* Leaving the spin loop preserves the invariant: the thread has ticket s. *)
LEMMA WaitPreserves ==
    ASSUME IInv, NEW t \in Threads, wait_turn_(t)
    PROVE  IInv'
<1>1. PICK s \in Nat : TurnIs(s) /\ TicketsHeld(s)
    BY DEF IInv
<1>2. TypeOK /\ TicketsDistinct
    BY DEF IInv
<1>3. TypeOK'
    BY <1>2 DEF TypeOK, wait_turn_
<1>4. my_ticket[t] = s
    BY <1>1, <1>2, TurnTestExact DEF wait_turn_
<1>5. Holders' = Holders
    BY <1>2 DEF Holders, TypeOK, wait_turn_
<1>6. my_ticket' = my_ticket /\ ticket_' = ticket_ /\ turns_' = turns_
    BY DEF wait_turn_
<1>7. \A u \in Threads : pc'[u] = "locked" => my_ticket'[u] = s
    BY <1>1, <1>2, <1>4, <1>6 DEF TurnIs, TypeOK, wait_turn_
<1>8. TurnIs(s)'
    BY <1>1, <1>5, <1>6, <1>7 DEF TurnIs
<1>9. TicketsDistinct' /\ TicketsHeld(s)'
    BY <1>1, <1>2, <1>5, <1>6 DEF TicketsDistinct, TicketsHeld
<1> QED
    BY <1>3, <1>8, <1>9 DEF IInv

(* unlock moves the turn from s to s + 1: the ticket s leaves, and nothing *)
(* later than s + 1 is in any channel.                                     *)
LEMMA UnlockPreserves ==
    ASSUME IInv, NEW t \in Threads, unlock(t)
    PROVE  IInv'
<1>1. PICK s \in Nat : TurnIs(s) /\ TicketsHeld(s)
    BY DEF IInv
<1>2. TypeOK /\ TicketsDistinct
    BY DEF IInv
<1>3. my_ticket[t] = s /\ t \in Holders /\ pc[t] = "locked"
    BY <1>1 DEF unlock, TurnIs, Holders
<1>4. (s + 1) % Channels \in 0..(Channels - 1)
    BY ChannelInRange
<1>5. turns_' = [turns_ EXCEPT ![(s + 1) % Channels] = s + 1]
    BY <1>3 DEF unlock, signal_next_
<1>6. TypeOK'
    BY <1>2, <1>4, <1>5 DEF TypeOK, unlock
<1>7. Holders' = Holders \ {t}
    BY <1>2 DEF Holders, TypeOK, unlock
<1>8. my_ticket' = my_ticket /\ ticket_' = ticket_ /\ ticket_ \in Nat
    BY <1>2 DEF unlock, TypeOK
<1>9. \A u \in Holders : my_ticket[u] \in Nat /\ my_ticket[u] < ticket_
                         /\ s <= my_ticket[u]
    BY <1>1, <1>2 DEF TurnIs, TypeOK, Holders
<1>10. \A u \in Holders \ {t} : s + 1 <= my_ticket[u]
    BY <1>2, <1>3, <1>9 DEF TicketsDistinct
<1>11. \A u \in Threads : pc'[u] = "locked" => u = t
    BY <1>1, <1>2, <1>3 DEF TurnIs, TicketsDistinct, Holders, TypeOK, unlock
<1>12. TurnIs(s + 1)'
  <2>1. s + 1 <= ticket_'
      BY <1>3, <1>8, <1>9
  <2>2. turns_'[(s + 1) % Channels] = s + 1
      BY <1>2, <1>4, <1>5 DEF TypeOK
  <2>3. \A c \in 0..(Channels - 1) : turns_'[c] <= s + 1
      BY <1>1, <1>2, <1>5 DEF TurnIs, TypeOK
  <2>4. \A u \in Holders' : s + 1 <= my_ticket'[u] /\ my_ticket'[u] < ticket_'
      BY <1>7, <1>8, <1>9, <1>10
  <2>5. \A u \in Threads : pc'[u] = "locked" => my_ticket'[u] = s + 1
      BY <1>11, <1>2 DEF TypeOK, unlock
  <2> QED
      BY <2>1, <2>2, <2>3, <2>4, <2>5 DEF TurnIs
<1>13. TicketsHeld(s + 1)'
  <2> SUFFICES ASSUME NEW n \in (s + 1)..(ticket_' - 1)
               PROVE  \E u \in Holders' : my_ticket'[u] = n
      BY DEF TicketsHeld
  <2>1. n \in s..(ticket_ - 1) /\ n # s
      BY <1>8
  <2>2. PICK u \in Holders : my_ticket[u] = n
      BY <2>1, <1>1 DEF TicketsHeld
  <2> QED
      BY <2>1, <2>2, <1>3, <1>7, <1>8
<1>14. TicketsDistinct'
    BY <1>2, <1>7, <1>8 DEF TicketsDistinct
<1>15. s + 1 \in Nat
    OBVIOUS
<1> QED
    BY <1>6, <1>12, <1>13, <1>14, <1>15 DEF IInv

(* The strengthened invariant holds in every reachable state: there is     *)
(* always exactly one turn, and the tickets outstanding start at it.       *)
THEOREM InductiveInvariant == Spec => []IInv
<1>1. IInv /\ [Next]_vars => IInv'
  <2> SUFFICES ASSUME IInv, [Next]_vars PROVE IInv'
      OBVIOUS
  <2>1. CASE UNCHANGED vars
      BY <2>1 DEF vars, IInv, TypeOK, TicketsDistinct, TurnIs, TicketsHeld,
                  Holders
  <2>2. ASSUME NEW t \in Threads, grab_ticket_(t) PROVE IInv'
      BY <2>2, GrabPreserves
  <2>3. ASSUME NEW t \in Threads, wait_turn_(t) PROVE IInv'
      BY <2>3, WaitPreserves
  <2>4. ASSUME NEW t \in Threads, unlock(t) PROVE IInv'
      BY <2>4, UnlockPreserves
  <2> QED
      BY <2>1, <2>2, <2>3, <2>4 DEF Next
<1> QED
    BY <1>1, InitEstablishesIInv, PTL DEF Spec

(* Two threads are never both between lock() and unlock(): they would both *)
(* hold ticket s, and the atomic add never hands out a ticket twice.       *)
THEOREM MutexSafe == Spec => []MutualExclusion
<1>1. IInv => MutualExclusion
    BY DEF IInv, TurnIs, TicketsDistinct, MutualExclusion, Holders
<1> QED
    BY <1>1, InductiveInvariant, PTL

(* lock() returns in ticket order: the thread that leaves the spin loop    *)
(* has the earliest ticket outstanding.                                    *)
THEOREM MutexFair == Spec => FirstComeFirstServed
<1> DEFINE Order == \A t, u \in Threads :
                       /\ pc[t] = "wait_turn" /\ pc'[t] = "locked"
                       /\ u \in Holders /\ u # t
                       => my_ticket[t] < my_ticket[u]
<1>1. IInv /\ [Next]_vars => [Order]_vars
  <2> SUFFICES ASSUME IInv, [Next]_vars,
                      NEW t \in Threads, NEW u \in Threads,
                      pc[t] = "wait_turn", pc'[t] = "locked",
                      u \in Holders, u # t
               PROVE  my_ticket[t] < my_ticket[u]
      BY DEF vars
  <2>1. PICK s \in Nat : TurnIs(s)
      BY DEF IInv
  <2>2. TypeOK /\ TicketsDistinct
      BY DEF IInv
  <2>3. wait_turn_(t)
      BY <2>2 DEF Next, vars, grab_ticket_, wait_turn_, unlock, TypeOK
  <2>4. my_ticket[t] = s
      BY <2>1, <2>2, <2>3, TurnTestExact DEF wait_turn_
  <2>5. my_ticket[t] # my_ticket[u] /\ s <= my_ticket[u]
      BY <2>1, <2>2 DEF TurnIs, TicketsDistinct, Holders
  <2> QED
      BY <2>2, <2>4, <2>5 DEF TypeOK
<1> QED
    BY <1>1, InductiveInvariant, PTL DEF Spec, FirstComeFirstServed

-----------------------------------------------------------------------------
(* The tickets outstanding are a line of distinct threads: its n-th thread *)
(* has the n-th ticket from the turn on.                                   *)
LineIsTickets ==
    /\ Turn \in Nat /\ TurnIs(Turn)
    /\ TicketLine \in Seq(Threads) /\ Len(TicketLine) = ticket_ - Turn
    /\ \A n \in 1..Len(TicketLine) :
         /\ TicketLine[n] \in Holders
         /\ my_ticket[TicketLine[n]] = Turn + n - 1

(* The latest turn in the channels is the turn of the invariant.           *)
LEMMA TurnExact ==
    ASSUME TypeOK, NEW s \in Nat, TurnIs(s)
    PROVE  Turn = s
<1> DEFINE Latest(x) == /\ turns_[x % Channels] = x
                        /\ \A c \in 0..(Channels - 1) : turns_[c] <= x
<1>1. s \in 0..ticket_ /\ Latest(s)
    BY DEF TurnIs, TypeOK
<1>2. ASSUME NEW x \in 0..ticket_, Latest(x) PROVE x = s
  <2>1. x \in Nat
      BY DEF TypeOK
  <2>2. x % Channels \in 0..(Channels - 1) /\ s % Channels \in 0..(Channels - 1)
      BY <2>1, ChannelInRange
  <2>3. x <= s /\ s <= x
      BY <1>1, <1>2, <2>2
  <2> QED
      BY <2>1, <2>3
<1>3. Turn = CHOOSE x \in 0..ticket_ : Latest(x)
    BY DEF Turn
<1> HIDE DEF Latest
<1> QED
    BY <1>1, <1>2, <1>3

LEMMA LineOfTickets == IInv => LineIsTickets
<1> SUFFICES ASSUME IInv PROVE LineIsTickets
    OBVIOUS
<1>1. PICK s \in Nat : TurnIs(s) /\ TicketsHeld(s)
    BY DEF IInv
<1>2. TypeOK
    BY DEF IInv
<1>3. Turn = s
    BY <1>1, <1>2, TurnExact
<1>4. ticket_ - s \in Nat
    BY <1>1, <1>2 DEF TurnIs, TypeOK
<1>5. ASSUME NEW n \in 1..(ticket_ - s)
      PROVE  TicketLine[n] \in Holders /\ my_ticket[TicketLine[n]] = s + n - 1
  <2>1. s + n - 1 \in s..(ticket_ - 1)
      BY <1>2, <1>4 DEF TypeOK
  <2>2. \E t \in Holders : my_ticket[t] = s + n - 1
      BY <2>1, <1>1 DEF TicketsHeld
  <2>3. TicketLine[n] = CHOOSE t \in Holders : my_ticket[t] = s + n - 1
      BY <1>3 DEF TicketLine
  <2> QED
      BY <2>2, <2>3
<1>6. DOMAIN TicketLine = 1..(ticket_ - s)
    BY <1>3 DEF TicketLine
<1>7. TicketLine = [n \in 1..(ticket_ - s) |-> TicketLine[n]]
    BY <1>3 DEF TicketLine
<1>8. TicketLine \in [1..(ticket_ - s) -> Threads]
    BY <1>5, <1>7 DEF Holders
<1>9. TicketLine \in Seq(Threads) /\ Len(TicketLine) = ticket_ - s
    BY <1>4, <1>8
<1> QED
    BY <1>1, <1>3, <1>5, <1>9 DEF LineIsTickets

(* Threads in line at the same place are the same thread.                  *)
LEMMA PlaceInLine ==
    ASSUME IInv, LineIsTickets, NEW t \in Holders,
           NEW n \in 1..Len(TicketLine), my_ticket[t] = Turn + n - 1
    PROVE  TicketLine[n] = t
BY DEF IInv, TicketsDistinct, LineIsTickets

LEMMA SameSeq ==
    ASSUME NEW S, NEW a \in Seq(S), NEW b \in Seq(S), Len(a) = Len(b),
           \A n \in 1..Len(a) : a[n] = b[n]
    PROVE  a = b
OBVIOUS

(* Drawing a ticket joins the line at its end.                             *)
LEMMA GrabDraws ==
    ASSUME IInv, IInv', NEW t \in Threads, grab_ticket_(t)
    PROVE  Abstract!Draw(t)
<1>1. LineIsTickets /\ LineIsTickets'
    BY LineOfTickets, PTL
<1>2. TypeOK /\ TypeOK' /\ TicketsDistinct'
    BY DEF IInv
<1>3. Turn' = Turn
  <2>1. Turn' % Channels \in 0..(Channels - 1) /\ Turn % Channels \in 0..(Channels - 1)
      BY <1>1, ChannelInRange DEF LineIsTickets
  <2>2. Turn' <= Turn /\ Turn <= Turn'
      BY <1>1, <2>1 DEF LineIsTickets, TurnIs, grab_ticket_
  <2> QED
      BY <1>1, <2>2 DEF LineIsTickets
<1>4. Len(TicketLine') = Len(TicketLine) + 1
    BY <1>1, <1>2, <1>3 DEF LineIsTickets, TypeOK, grab_ticket_
<1>5. t \notin Holders /\ t \in Holders' /\ my_ticket'[t] = ticket_
    BY <1>2 DEF Holders, TypeOK, grab_ticket_
<1>6. ~Abstract!InLine(t)
    BY <1>1, <1>5 DEF Abstract!InLine, LineIsTickets
<1>7. ASSUME NEW n \in 1..Len(TicketLine) PROVE TicketLine'[n] = TicketLine[n]
  <2>1. TicketLine[n] \in Holders' /\ my_ticket'[TicketLine[n]] = Turn + n - 1
      BY <1>1, <1>2, <1>5 DEF LineIsTickets, Holders, TypeOK, grab_ticket_
  <2>2. n \in 1..Len(TicketLine')
      BY <1>1, <1>4 DEF LineIsTickets
  <2>3. TicketLine'[n] \in Holders' /\ my_ticket'[TicketLine'[n]] = Turn + n - 1
      BY <1>1, <1>3, <2>2 DEF LineIsTickets
  <2> QED
      BY <1>2, <2>1, <2>3 DEF TicketsDistinct
<1>8. TicketLine'[Len(TicketLine) + 1] = t
  <2>1. Len(TicketLine) + 1 \in 1..Len(TicketLine')
      BY <1>1, <1>4 DEF LineIsTickets
  <2>2. /\ TicketLine'[Len(TicketLine) + 1] \in Holders'
        /\ my_ticket'[TicketLine'[Len(TicketLine) + 1]] = Turn + (Len(TicketLine) + 1) - 1
      BY <1>1, <1>3, <2>1 DEF LineIsTickets
  <2>3. Turn + (Len(TicketLine) + 1) - 1 = ticket_
      BY <1>1, <1>2 DEF LineIsTickets, TypeOK
  <2> QED
      BY <1>2, <1>5, <2>2, <2>3 DEF TicketsDistinct
<1>9. TicketLine' = Append(TicketLine, t)
  <2>1. /\ TicketLine \in Seq(Threads) /\ TicketLine' \in Seq(Threads)
        /\ Append(TicketLine, t) \in Seq(Threads)
      BY <1>1 DEF LineIsTickets
  <2>2. Len(TicketLine') = Len(Append(TicketLine, t))
      BY <1>4, <2>1
  <2>3. ASSUME NEW n \in 1..Len(TicketLine')
        PROVE  TicketLine'[n] = Append(TicketLine, t)[n]
      BY <1>4, <1>7, <1>8, <2>1
  <2> HIDE DEF TicketLine
  <2> QED
      BY <2>1, <2>2, <2>3, SameSeq
<1>10. (\E u \in Threads : pc[u] = "locked")' = (\E u \in Threads : pc[u] = "locked")
    BY <1>2 DEF TypeOK, grab_ticket_
<1> QED
    BY <1>6, <1>9, <1>10 DEF Abstract!Draw

(* Seeing the turn enters: the thread is the first in line.                *)
LEMMA WaitEnters ==
    ASSUME IInv, IInv', NEW t \in Threads, wait_turn_(t)
    PROVE  Abstract!Enter(t)
<1>1. LineIsTickets
    BY LineOfTickets, PTL
<1>2. TypeOK /\ TicketsDistinct
    BY DEF IInv
<1>3. my_ticket[t] = Turn /\ t \in Holders
    BY <1>1, <1>2, TurnTestExact DEF LineIsTickets, wait_turn_, Holders
<1>4. 1 \in 1..Len(TicketLine)
    BY <1>1, <1>2, <1>3 DEF LineIsTickets, TurnIs, TypeOK
<1>5. TicketLine[1] = t
  <2>1. my_ticket[t] = Turn + 1 - 1
      BY <1>1, <1>3 DEF LineIsTickets
  <2> QED
      BY <1>1, <1>3, <1>4, <2>1, PlaceInLine
<1>6. TicketLine # << >> /\ Head(TicketLine) = t
    BY <1>1, <1>4, <1>5 DEF LineIsTickets
<1>7. ~ \E u \in Threads : pc[u] = "locked"
  <2> SUFFICES ASSUME NEW u \in Threads, pc[u] = "locked" PROVE FALSE
      OBVIOUS
  <2>1. my_ticket[u] = Turn /\ u \in Holders
      BY <1>1 DEF LineIsTickets, TurnIs, Holders
  <2> QED
      BY <1>2, <1>3, <2>1 DEF TicketsDistinct, wait_turn_
<1>8. (\E u \in Threads : pc[u] = "locked")'
    BY <1>2 DEF TypeOK, wait_turn_
<1>9. Holders' = Holders
    BY <1>2 DEF Holders, TypeOK, wait_turn_
<1>10. Turn' = Turn
    BY DEF Turn, wait_turn_
<1>11. TicketLine' = TicketLine
    BY <1>9, <1>10 DEF TicketLine, wait_turn_
<1> QED
    BY <1>6, <1>7, <1>8, <1>11 DEF Abstract!Enter

(* The store of unlock takes the first thread out of the line.             *)
LEMMA UnlockLeaves ==
    ASSUME IInv, IInv', NEW t \in Threads, unlock(t)
    PROVE  Abstract!Leave(t)
<1>1. LineIsTickets /\ LineIsTickets'
    BY LineOfTickets, PTL
<1>2. TypeOK /\ TypeOK' /\ TicketsDistinct /\ TicketsDistinct'
    BY DEF IInv
<1>3. my_ticket[t] = Turn /\ t \in Holders /\ pc[t] = "locked"
    BY <1>1 DEF LineIsTickets, TurnIs, unlock, Holders
<1>4. 1 \in 1..Len(TicketLine)
    BY <1>1, <1>2, <1>3 DEF LineIsTickets, TurnIs, TypeOK
<1>5. TicketLine[1] = t
  <2>1. my_ticket[t] = Turn + 1 - 1
      BY <1>1, <1>3 DEF LineIsTickets
  <2> QED
      BY <1>1, <1>3, <1>4, <2>1, PlaceInLine
<1>6. Head(TicketLine) = t
    BY <1>1, <1>4, <1>5 DEF LineIsTickets
<1>7. Turn' = Turn + 1
  <2>1. Turn + 1 \in Nat
      BY <1>1 DEF LineIsTickets
  <2>2. /\ Turn' % Channels \in 0..(Channels - 1)
        /\ (Turn + 1) % Channels \in 0..(Channels - 1)
      BY <1>1, <2>1, ChannelInRange DEF LineIsTickets
  <2>3. turns_' = [turns_ EXCEPT ![(Turn + 1) % Channels] = Turn + 1]
      BY <1>3 DEF unlock, signal_next_
  <2>4. turns_'[(Turn + 1) % Channels] = Turn + 1
      BY <1>2, <2>2, <2>3 DEF TypeOK
  <2>5. Turn + 1 <= Turn'
      BY <1>1, <2>2, <2>4 DEF LineIsTickets, TurnIs
  <2>6. turns_'[Turn' % Channels] <= Turn + 1
      BY <1>1, <1>2, <2>2, <2>3 DEF LineIsTickets, TurnIs, TypeOK
  <2>7. Turn' <= Turn + 1
      BY <1>1, <2>6 DEF LineIsTickets, TurnIs
  <2> QED
      BY <1>1, <2>5, <2>7 DEF LineIsTickets
<1>8. Len(TicketLine') = Len(TicketLine) - 1
    BY <1>1, <1>2, <1>7 DEF LineIsTickets, TypeOK, unlock
<1>9. ASSUME NEW n \in 1..Len(TicketLine') PROVE TicketLine'[n] = TicketLine[n + 1]
  <2>1. n + 1 \in 1..Len(TicketLine) /\ n + 1 # 1
      BY <1>1, <1>8 DEF LineIsTickets
  <2>2. TicketLine[n + 1] \in Holders /\ my_ticket[TicketLine[n + 1]] = Turn + n
      BY <1>1, <2>1 DEF LineIsTickets
  <2>3. TicketLine[n + 1] # t
      BY <1>1, <1>3, <2>2 DEF LineIsTickets
  <2>4. TicketLine[n + 1] \in Holders' /\ my_ticket'[TicketLine[n + 1]] = Turn + n
      BY <1>2, <2>2, <2>3 DEF Holders, TypeOK, unlock
  <2>5. TicketLine'[n] \in Holders' /\ my_ticket'[TicketLine'[n]] = Turn + n
      BY <1>1, <1>7 DEF LineIsTickets
  <2> QED
      BY <1>2, <2>4, <2>5 DEF TicketsDistinct
<1>10. TicketLine' = Tail(TicketLine)
  <2>1. /\ TicketLine \in Seq(Threads) /\ TicketLine' \in Seq(Threads)
        /\ Tail(TicketLine) \in Seq(Threads)
        /\ Len(Tail(TicketLine)) = Len(TicketLine) - 1
      BY <1>1, <1>4 DEF LineIsTickets
  <2>2. ASSUME NEW n \in 1..Len(TicketLine')
        PROVE  TicketLine'[n] = Tail(TicketLine)[n]
      BY <1>4, <1>8, <1>9, <2>1
  <2> QED
      BY <1>8, <2>1, <2>2, SameSeq
<1>11. \E u \in Threads : pc[u] = "locked"
    BY <1>3
<1>12. (~ \E u \in Threads : pc[u] = "locked")'
  <2> SUFFICES ASSUME NEW u \in Threads, pc'[u] = "locked" PROVE FALSE
      OBVIOUS
  <2>1. u # t /\ pc[u] = "locked"
      BY <1>2 DEF TypeOK, unlock
  <2>2. my_ticket[u] = Turn /\ u \in Holders
      BY <1>1, <2>1 DEF LineIsTickets, TurnIs, Holders
  <2> QED
      BY <1>2, <1>3, <2>1, <2>2 DEF TicketsDistinct
<1> QED
    BY <1>6, <1>10, <1>11, <1>12 DEF Abstract!Leave

(* The mutex is a first-in first-out lock: grab_ticket_ joins its line,    *)
(* wait_turn_ lets the first in line in and unlock takes it out.  This is  *)
(* what the wavefront queue and the free list rely on.                     *)
THEOREM MutexImplementsFifoLock == Spec => ImplementsFifoLock
<1>1. Init => Abstract!Init
  <2> SUFFICES ASSUME Init PROVE Abstract!Init
      OBVIOUS
  <2>1. LineIsTickets /\ TypeOK
      BY InitEstablishesIInv, LineOfTickets, PTL DEF IInv
  <2>2. Len(TicketLine) = 0 /\ TicketLine \in Seq(Threads)
      BY <2>1 DEF LineIsTickets, TurnIs, Init
  <2>3. TicketLine = << >>
      BY <2>2
  <2>4. (\E t \in Threads : pc[t] = "locked") = FALSE
      BY DEF Init
  <2> QED
      BY <2>3, <2>4 DEF Abstract!Init
<1>2. IInv /\ IInv' /\ [Next]_vars => [Abstract!Next]_(Abstract!vars)
  <2> SUFFICES ASSUME IInv, IInv', [Next]_vars
               PROVE  [Abstract!Next]_(Abstract!vars)
      OBVIOUS
  <2>1. CASE UNCHANGED vars
    <3>1. UNCHANGED <<ticket_, turns_, pc, my_ticket>>
        BY <2>1 DEF vars
    <3>2. Turn' = Turn /\ Holders' = Holders
        BY <3>1 DEF Turn, Holders
    <3>3. TicketLine' = TicketLine
        BY <3>1, <3>2 DEF TicketLine
    <3> QED
        BY <3>1, <3>3 DEF Abstract!vars
  <2>2. ASSUME NEW t \in Threads, grab_ticket_(t) PROVE Abstract!Next
      BY <2>2, GrabDraws DEF Abstract!Next
  <2>3. ASSUME NEW t \in Threads, wait_turn_(t) PROVE Abstract!Next
      BY <2>3, WaitEnters DEF Abstract!Next
  <2>4. ASSUME NEW t \in Threads, unlock(t) PROVE Abstract!Next
      BY <2>4, UnlockLeaves DEF Abstract!Next
  <2> QED
      BY <2>1, <2>2, <2>3, <2>4 DEF Next
<1> QED
    BY <1>1, <1>2, InductiveInvariant, PTL DEF Spec, ImplementsFifoLock, Abstract!Spec

-----------------------------------------------------------------------------
(* The notifier, with the variables of its own blocks.                     *)
CONSTANTS Blocks, SigMod, MaxSync

VARIABLES signal_, count_, done, block_entered, block_left, block_pc

Notifier == INSTANCE NotifierSync WITH
    pc <- block_pc, entered <- block_entered, left <- block_left

(* The instance has its own names for the operators of FiniteSets.         *)
LEMMA SameCount ==
    ASSUME NEW S
    PROVE  /\ Notifier!IsFiniteSet(S) <=> IsFiniteSet(S)
           /\ Notifier!Cardinality(S) = Cardinality(S)
<1>1. Notifier!IsFiniteSet(S) <=> IsFiniteSet(S)
    BY DEF Notifier!IsFiniteSet, IsFiniteSet
<1>2. Notifier!Cardinality(S) = Cardinality(S)
    BY DEF Notifier!Cardinality, Cardinality
<1> QED
    BY <1>1, <1>2

(* The blocks that arrived can be counted.                                 *)
LEMMA ArrivedFinite ==
    ASSUME Notifier!NotifierAssumption, NEW S \in SUBSET Blocks
    PROVE  /\ Notifier!Cardinality(S) \in Nat
           /\ Notifier!Cardinality(Blocks) \in Nat
           /\ Notifier!Cardinality(S) <= Notifier!Cardinality(Blocks)
           /\ Notifier!Cardinality(S) = Notifier!Cardinality(Blocks) => S = Blocks
           /\ \A b \in Blocks \ S : Notifier!Cardinality(S \cup {b}) = Notifier!Cardinality(S) + 1
<1>1. IsFiniteSet(Blocks)
    BY SameCount DEF Notifier!NotifierAssumption
<1>2. /\ IsFiniteSet(S) /\ Cardinality(S) <= Cardinality(Blocks)
      /\ Cardinality(Blocks) = Cardinality(S) => Blocks = S
    BY <1>1, FS_Subset
<1>3. Cardinality(S) \in Nat /\ Cardinality(Blocks) \in Nat
    BY <1>1, <1>2, FS_CardinalityType
<1>4. \A b \in Blocks \ S : Cardinality(S \cup {b}) = Cardinality(S) + 1
    BY <1>2, FS_AddElement
<1> QED
    BY <1>2, <1>3, <1>4, SameCount

LEMMA NotifierInit ==
    ASSUME Notifier!NotifierAssumption, Notifier!Init
    PROVE  Notifier!TypeOK /\ Notifier!RoundIs(0)
<1>1. Blocks # {} /\ SigMod \in Nat \ {0, 1} /\ MaxSync \in Nat
    BY DEF Notifier!NotifierAssumption
<1>2. Notifier!Cardinality(Blocks) \in Nat
    BY ArrivedFinite
<1>3. Notifier!TypeOK
    BY <1>1, <1>2 DEF Notifier!TypeOK, Notifier!Init
<1>4. Notifier!Arrived(0) = {} /\ Notifier!Last = {}
    BY DEF Notifier!Init, Notifier!Arrived, Notifier!Last
<1>5. \A b \in Blocks : Notifier!BlockIn(b, 0)
    BY DEF Notifier!Init, Notifier!BlockIn
<1>6. signal_ = 0 % SigMod /\ count_ = 0
    BY <1>1 DEF Notifier!Init
<1>7. Notifier!Cardinality({}) = 0
    BY FS_EmptySet, SameCount
<1> QED
    BY <1>1, <1>3, <1>4, <1>5, <1>6, <1>7 DEF Notifier!RoundIs

(* A block that enters is not counted yet, and will wait for the next      *)
(* value of the signal.                                                    *)
LEMMA NotifierEnter ==
    ASSUME Notifier!NotifierAssumption, Notifier!TypeOK,
           NEW r \in 0..MaxSync, Notifier!RoundIs(r),
           NEW b \in Blocks, Notifier!Enter(b)
    PROVE  Notifier!TypeOK' /\ Notifier!RoundIs(r)'
<1>1. SigMod \in Nat \ {0, 1} /\ MaxSync \in Nat /\ r \in Nat
    BY DEF Notifier!NotifierAssumption
<1>2. /\ block_pc[b] = "idle" /\ block_entered[b] = r /\ block_left[b] = r
      /\ block_pc' = [block_pc EXCEPT ![b] = "count"]
      /\ done' = [done EXCEPT ![b] = (signal_ + 1) % SigMod]
      /\ block_entered' = [block_entered EXCEPT ![b] = r + 1]
      /\ signal_' = signal_ /\ count_' = count_ /\ block_left' = block_left
      /\ r < MaxSync
    BY DEF Notifier!RoundIs, Notifier!BlockIn, Notifier!Enter, Notifier!Goto
<1>3. (signal_ + 1) % SigMod = (r + 1) % SigMod
    BY <1>1, PlusRemainder DEF Notifier!RoundIs
<1>4. (r + 1) % SigMod \in 0..(SigMod - 1)
    BY <1>1
<1>5. Notifier!TypeOK'
    BY <1>1, <1>2, <1>3, <1>4 DEF Notifier!TypeOK
<1>6. Notifier!Arrived(r) # Blocks /\ Notifier!Last = {}
    BY <1>2 DEF Notifier!RoundIs, Notifier!Arrived
<1>7. Notifier!Arrived(r)' = Notifier!Arrived(r) /\ Notifier!Last' = Notifier!Last
    BY <1>2 DEF Notifier!Arrived, Notifier!Last, Notifier!TypeOK
<1>8. ASSUME NEW o \in Blocks PROVE Notifier!BlockIn(o, r)'
    BY <1>1, <1>2, <1>3 DEF Notifier!RoundIs, Notifier!BlockIn, Notifier!TypeOK
<1>9. /\ ~ \E o \in Blocks : block_pc[o] = "signal"
      /\ ~ \E o \in Blocks : block_pc'[o] = "signal"
    BY <1>6, <1>7 DEF Notifier!Last
<1> QED
    BY <1>2, <1>5, <1>6, <1>7, <1>8, <1>9 DEF Notifier!RoundIs

(* The block that makes the count full is the last of its round.           *)
LEMMA NotifierArrive ==
    ASSUME Notifier!NotifierAssumption, Notifier!TypeOK,
           NEW r \in 0..MaxSync, Notifier!RoundIs(r),
           NEW b \in Blocks, Notifier!Arrive(b)
    PROVE  Notifier!TypeOK' /\ Notifier!RoundIs(r)'
<1> DEFINE full == count_ = Notifier!Cardinality(Blocks) - 1
<1>1. SigMod \in Nat \ {0, 1} /\ MaxSync \in Nat /\ r \in Nat
    BY DEF Notifier!NotifierAssumption
<1>2. /\ block_pc[b] = "count" /\ block_entered[b] = r + 1
      /\ block_pc' = [block_pc EXCEPT ![b] = IF full THEN "reset" ELSE "wait"]
      /\ count_' = count_ + 1
      /\ UNCHANGED <<signal_, done, block_entered, block_left>>
    BY DEF Notifier!RoundIs, Notifier!BlockIn, Notifier!Arrive, Notifier!Goto
<1>3. b \notin Notifier!Arrived(r) /\ Notifier!Last = {}
    BY <1>2 DEF Notifier!RoundIs, Notifier!Arrived
<1>4. Notifier!Arrived(r)' = Notifier!Arrived(r) \cup {b}
    BY <1>2 DEF Notifier!Arrived, Notifier!TypeOK
<1>5. ~ \E o \in Blocks : block_pc[o] = "signal"
    BY <1>3 DEF Notifier!Last
<1>6. ~ \E o \in Blocks : block_pc'[o] = "signal"
    BY <1>2, <1>5 DEF Notifier!TypeOK
<1>7. count_ = Notifier!Cardinality(Notifier!Arrived(r))
    BY <1>5 DEF Notifier!RoundIs
<1>8. /\ Notifier!Arrived(r) \in SUBSET Blocks
      /\ Notifier!Arrived(r)' \in SUBSET Blocks
    BY DEF Notifier!Arrived
<1>9. Notifier!Cardinality(Notifier!Arrived(r)') = count_ + 1
    BY <1>3, <1>4, <1>7, <1>8, ArrivedFinite
<1>10. /\ count_ + 1 \in Nat /\ count_ + 1 <= Notifier!Cardinality(Blocks)
       /\ Notifier!Cardinality(Blocks) \in Nat
       /\ count_ + 1 = Notifier!Cardinality(Blocks) => Notifier!Arrived(r)' = Blocks
    BY <1>8, <1>9, ArrivedFinite
<1>11. Notifier!TypeOK'
    BY <1>2, <1>10 DEF Notifier!TypeOK
<1>12. Notifier!Last' = IF full THEN {b} ELSE {}
    BY <1>2, <1>3 DEF Notifier!Last, Notifier!TypeOK
<1>13. full <=> Notifier!Arrived(r)' = Blocks
    BY <1>9, <1>10 DEF Notifier!TypeOK
<1>14. ASSUME NEW o \in Blocks PROVE Notifier!BlockIn(o, r)'
    BY <1>2 DEF Notifier!RoundIs, Notifier!BlockIn, Notifier!TypeOK
<1> HIDE DEF full
<1> QED
    BY <1>2, <1>6, <1>9, <1>11, <1>12, <1>13, <1>14 DEF Notifier!RoundIs

LEMMA NotifierReset ==
    ASSUME Notifier!NotifierAssumption, Notifier!TypeOK,
           NEW r \in 0..MaxSync, Notifier!RoundIs(r),
           NEW b \in Blocks, Notifier!Reset(b)
    PROVE  Notifier!TypeOK' /\ Notifier!RoundIs(r)'
<1>1. /\ block_pc[b] = "reset" /\ block_pc' = [block_pc EXCEPT ![b] = "signal"]
      /\ count_' = 0
      /\ UNCHANGED <<signal_, done, block_entered, block_left>>
    BY DEF Notifier!Reset, Notifier!Goto
<1>2. Notifier!Cardinality(Blocks) \in Nat
    BY ArrivedFinite
<1>3. Notifier!TypeOK'
    BY <1>1, <1>2 DEF Notifier!TypeOK
<1>4. Notifier!Arrived(r)' = Notifier!Arrived(r) /\ Notifier!Last' = Notifier!Last
    BY <1>1 DEF Notifier!Arrived, Notifier!Last, Notifier!TypeOK
<1>5. ASSUME NEW o \in Blocks PROVE Notifier!BlockIn(o, r)'
    BY <1>1 DEF Notifier!RoundIs, Notifier!BlockIn, Notifier!TypeOK
<1>6. \E o \in Blocks : block_pc'[o] = "signal"
    BY <1>1 DEF Notifier!TypeOK
<1> QED
    BY <1>1, <1>3, <1>4, <1>5, <1>6 DEF Notifier!RoundIs

(* Advancing the signal ends the round: every block has arrived.           *)
LEMMA NotifierSignal ==
    ASSUME Notifier!NotifierAssumption, Notifier!TypeOK,
           NEW r \in 0..MaxSync, Notifier!RoundIs(r),
           NEW b \in Blocks, Notifier!Signal(b)
    PROVE  Notifier!TypeOK' /\ r + 1 \in 0..MaxSync /\ Notifier!RoundIs(r + 1)'
<1>1. SigMod \in Nat \ {0, 1} /\ MaxSync \in Nat /\ r \in Nat
    BY DEF Notifier!NotifierAssumption
<1>2. /\ block_pc[b] = "signal" /\ block_pc' = [block_pc EXCEPT ![b] = "wait"]
      /\ signal_' = (signal_ + 1) % SigMod
      /\ UNCHANGED <<count_, done, block_entered, block_left>>
    BY DEF Notifier!Signal, Notifier!Goto
<1>3. (signal_ + 1) % SigMod = (r + 1) % SigMod
    BY <1>1, PlusRemainder DEF Notifier!RoundIs
<1>4. (r + 1) % SigMod \in 0..(SigMod - 1)
    BY <1>1
<1>5. Notifier!TypeOK'
    BY <1>2, <1>3, <1>4 DEF Notifier!TypeOK
<1>6. b \in Notifier!Last
    BY <1>2 DEF Notifier!Last
<1>7. Notifier!Arrived(r) = Blocks /\ \A o \in Notifier!Last : o = b
    BY <1>6 DEF Notifier!RoundIs
<1>8. \A o \in Blocks : block_entered[o] = r + 1 /\ block_pc'[o] = "wait"
    BY <1>2, <1>7 DEF Notifier!Arrived, Notifier!Last, Notifier!TypeOK
<1>9. r + 1 \in 0..MaxSync
    BY <1>1, <1>8 DEF Notifier!TypeOK
<1>10. ASSUME NEW o \in Blocks PROVE Notifier!BlockIn(o, r + 1)'
  <2>1. block_pc[o] # "idle"
      BY <1>7 DEF Notifier!Arrived
  <2> QED
      BY <1>1, <1>2, <1>8, <2>1 DEF Notifier!RoundIs, Notifier!BlockIn
<1>11. Notifier!Arrived(r + 1)' = {}
    BY <1>1, <1>2, <1>8 DEF Notifier!Arrived
<1>12. Notifier!Last' = {}
    BY <1>8 DEF Notifier!Last
<1>13. count_' = 0 /\ Notifier!Cardinality({}) = 0
    BY <1>2, FS_EmptySet, SameCount DEF Notifier!RoundIs
<1>14. ~ \E o \in Blocks : block_pc'[o] = "signal"
    BY <1>8
<1>15. Blocks # {}
    OBVIOUS
<1> QED
    BY <1>2, <1>3, <1>5, <1>9, <1>10, <1>11, <1>12, <1>13, <1>14, <1>15
       DEF Notifier!RoundIs

(* A block that sees its signal entered the round that has ended: the      *)
(* value of the round under way differs from it.                           *)
LEMMA SignalExact ==
    ASSUME Notifier!NotifierAssumption, Notifier!TypeOK,
           NEW r \in 0..MaxSync, Notifier!RoundIs(r),
           NEW b \in Blocks, Notifier!Leave(b)
    PROVE  block_pc[b] = "wait" /\ block_entered[b] = r /\ block_left[b] + 1 = r
<1>1. SigMod \in Nat \ {0, 1} /\ r \in Nat
    BY DEF Notifier!NotifierAssumption
<1>2. block_pc[b] = "wait" /\ signal_ = done[b]
    BY DEF Notifier!Leave, Notifier!Goto
<1>3. /\ signal_ = r % SigMod /\ done[b] = block_entered[b] % SigMod
      /\ block_entered[b] \in {r, r + 1} /\ block_entered[b] = block_left[b] + 1
    BY <1>2 DEF Notifier!RoundIs, Notifier!BlockIn
<1>4. (r + 1) % SigMod # r % SigMod
    BY <1>1, NextDiffers
<1> QED
    BY <1>2, <1>3, <1>4

LEMMA NotifierLeave ==
    ASSUME Notifier!NotifierAssumption, Notifier!TypeOK,
           NEW r \in 0..MaxSync, Notifier!RoundIs(r),
           NEW b \in Blocks, Notifier!Leave(b)
    PROVE  Notifier!TypeOK' /\ Notifier!RoundIs(r)'
<1>1. MaxSync \in Nat /\ r \in Nat
    BY DEF Notifier!NotifierAssumption
<1>2. block_pc[b] = "wait" /\ block_entered[b] = r /\ block_left[b] + 1 = r
    BY SignalExact
<1>3. /\ block_pc' = [block_pc EXCEPT ![b] = "idle"]
      /\ block_left' = [block_left EXCEPT ![b] = r]
      /\ UNCHANGED <<signal_, count_, done, block_entered>>
    BY <1>2 DEF Notifier!Leave, Notifier!Goto
<1>4. Notifier!TypeOK'
    BY <1>1, <1>2, <1>3 DEF Notifier!TypeOK
<1>5. Notifier!Arrived(r)' = Notifier!Arrived(r) /\ Notifier!Last' = Notifier!Last
    BY <1>1, <1>2, <1>3 DEF Notifier!Arrived, Notifier!Last, Notifier!TypeOK
<1>6. ASSUME NEW o \in Blocks PROVE Notifier!BlockIn(o, r)'
    BY <1>2, <1>3 DEF Notifier!RoundIs, Notifier!BlockIn, Notifier!TypeOK
<1>7. (\E o \in Blocks : block_pc'[o] = "signal")
      <=> \E o \in Blocks : block_pc[o] = "signal"
    BY <1>2, <1>3 DEF Notifier!TypeOK
<1> QED
    BY <1>3, <1>4, <1>5, <1>6, <1>7 DEF Notifier!RoundIs

(* In every state some number of rounds has ended, every block is at most  *)
(* one sync from it, and the count is the number of blocks that arrived.   *)
THEOREM NotifierInductive ==
    Notifier!NotifierAssumption /\ Notifier!Spec => []Notifier!IInv
<1> SUFFICES ASSUME Notifier!NotifierAssumption
             PROVE  Notifier!Spec => []Notifier!IInv
    OBVIOUS
<1>1. Notifier!Init => Notifier!IInv
  <2>1. 0 \in 0..MaxSync
      BY DEF Notifier!NotifierAssumption
  <2> QED
      BY <2>1, NotifierInit DEF Notifier!IInv
<1>2. Notifier!IInv /\ [Notifier!Next]_(Notifier!vars) => Notifier!IInv'
  <2> SUFFICES ASSUME Notifier!IInv, [Notifier!Next]_(Notifier!vars)
               PROVE  Notifier!IInv'
      OBVIOUS
  <2>1. PICK r \in 0..MaxSync : Notifier!RoundIs(r)
      BY DEF Notifier!IInv
  <2>2. Notifier!TypeOK
      BY DEF Notifier!IInv
  <2>3. CASE UNCHANGED Notifier!vars
    <3>1. UNCHANGED <<signal_, count_, block_pc, done, block_entered, block_left>>
        BY <2>3 DEF Notifier!vars
    <3>2. Notifier!TypeOK'
        BY <2>2, <3>1 DEF Notifier!TypeOK
    <3>3. Notifier!Arrived(r)' = Notifier!Arrived(r) /\ Notifier!Last' = Notifier!Last
        BY <3>1 DEF Notifier!Arrived, Notifier!Last
    <3>4. \A b \in Blocks : Notifier!BlockIn(b, r)'
        BY <2>1, <3>1 DEF Notifier!RoundIs, Notifier!BlockIn
    <3>5. Notifier!RoundIs(r)'
        BY <2>1, <3>1, <3>3, <3>4 DEF Notifier!RoundIs
    <3> QED
        BY <3>2, <3>5 DEF Notifier!IInv
  <2>4. ASSUME NEW b \in Blocks, Notifier!Enter(b) PROVE Notifier!IInv'
      BY <2>1, <2>2, <2>4, NotifierEnter DEF Notifier!IInv
  <2>5. ASSUME NEW b \in Blocks, Notifier!Arrive(b) PROVE Notifier!IInv'
      BY <2>1, <2>2, <2>5, NotifierArrive DEF Notifier!IInv
  <2>6. ASSUME NEW b \in Blocks, Notifier!Reset(b) PROVE Notifier!IInv'
      BY <2>1, <2>2, <2>6, NotifierReset DEF Notifier!IInv
  <2>7. ASSUME NEW b \in Blocks, Notifier!Signal(b) PROVE Notifier!IInv'
      BY <2>1, <2>2, <2>7, NotifierSignal DEF Notifier!IInv
  <2>8. ASSUME NEW b \in Blocks, Notifier!Leave(b) PROVE Notifier!IInv'
      BY <2>1, <2>2, <2>8, NotifierLeave DEF Notifier!IInv
  <2> QED
      BY <2>3, <2>4, <2>5, <2>6, <2>7, <2>8 DEF Notifier!Next, Notifier!Advance
<1> QED
    BY <1>1, <1>2, PTL DEF Notifier!Spec

(* Notifier::sync is a barrier of the blocks of a grid of any size, and    *)
(* stays one when signal_ wraps: no block leaves its k-th sync before      *)
(* every block has entered its own.                                        *)
THEOREM NotifierImplementsBarrier ==
    Notifier!NotifierAssumption /\ Notifier!Spec => Notifier!ImplementsBarrier
<1> SUFFICES ASSUME Notifier!NotifierAssumption
             PROVE  Notifier!Spec => Notifier!ImplementsBarrier
    OBVIOUS
<1>1. Notifier!Init => Notifier!Abstract!Init
    BY DEF Notifier!Init, Notifier!Abstract!Init
<1>2. Notifier!IInv /\ [Notifier!Next]_(Notifier!vars)
        => [Notifier!Abstract!Next]_<<block_entered, block_left>>
  <2> SUFFICES ASSUME Notifier!IInv, [Notifier!Next]_(Notifier!vars)
               PROVE  [Notifier!Abstract!Next]_<<block_entered, block_left>>
      OBVIOUS
  <2>1. PICK r \in 0..MaxSync : Notifier!RoundIs(r)
      BY DEF Notifier!IInv
  <2>2. Notifier!TypeOK
      BY DEF Notifier!IInv
  <2>3. CASE UNCHANGED Notifier!vars
      BY <2>3 DEF Notifier!vars
  <2>4. ASSUME NEW b \in Blocks, Notifier!Enter(b)
        PROVE  Notifier!Abstract!Enter(b)
      BY <2>1, <2>4 DEF Notifier!RoundIs, Notifier!BlockIn, Notifier!Enter,
                        Notifier!Goto, Notifier!Abstract!Enter
  <2>5. ASSUME NEW b \in Blocks,
               Notifier!Arrive(b) \/ Notifier!Reset(b) \/ Notifier!Signal(b)
        PROVE  UNCHANGED <<block_entered, block_left>>
      BY <2>5 DEF Notifier!Arrive, Notifier!Reset, Notifier!Signal
  <2>6. ASSUME NEW b \in Blocks, Notifier!Leave(b)
        PROVE  Notifier!Abstract!Leave(b)
    <3>1. block_entered[b] = r /\ block_left[b] + 1 = r
        BY <2>1, <2>2, <2>6, SignalExact
    <3>2. ASSUME NEW o \in Blocks PROVE block_entered[o] >= r
        BY <2>1, <2>2 DEF Notifier!RoundIs, Notifier!BlockIn, Notifier!TypeOK
    <3> QED
        BY <2>6, <3>1, <3>2 DEF Notifier!Leave, Notifier!Abstract!Leave
  <2> QED
      BY <2>3, <2>4, <2>5, <2>6
         DEF Notifier!Next, Notifier!Advance, Notifier!Abstract!Next
<1> QED
    BY <1>1, <1>2, NotifierInductive, PTL
       DEF Notifier!Spec, Notifier!ImplementsBarrier, Notifier!Abstract!Spec

-----------------------------------------------------------------------------
(* The wavefront queue, with the variables of its own wavefronts.          *)
CONSTANTS Waves, Buffers, NoBuf

VARIABLES head_, tail_, curr_size_, queue_, dequeue_mutex_, enqueue_mutex_,
          contents, queue_pc, queue_buf

Queue == INSTANCE AtomicWFQueue WITH pc <- queue_pc, buf <- queue_buf

(* A set of wavefronts can be counted.                                     *)
LEMMA WavesFinite ==
    ASSUME Queue!WFQueueAssumption, NEW S \in SUBSET Waves
    PROVE  /\ Queue!Cardinality(S) \in Nat
           /\ S # {} => Queue!Cardinality(S) > 0
           /\ Queue!Cardinality({}) = 0
           /\ \A w \in Waves \ S :
                Queue!Cardinality(S \cup {w}) = Queue!Cardinality(S) + 1
           /\ \A w \in S : Queue!Cardinality(S \ {w}) = Queue!Cardinality(S) - 1
<1>1. ASSUME NEW T PROVE Queue!IsFiniteSet(T) <=> IsFiniteSet(T)
    BY DEF Queue!IsFiniteSet, IsFiniteSet
<1>2. ASSUME NEW T PROVE Queue!Cardinality(T) = Cardinality(T)
    BY DEF Queue!Cardinality, Cardinality
<1>3. IsFiniteSet(Waves)
    BY <1>1 DEF Queue!WFQueueAssumption
<1>4. IsFiniteSet(S)
    BY <1>3, FS_Subset
<1>5. Cardinality(S) \in Nat /\ (S # {} => Cardinality(S) # 0) /\ Cardinality({}) = 0
    BY <1>4, FS_CardinalityType, FS_EmptySet
<1>6. \A w \in Waves \ S : Cardinality(S \cup {w}) = Cardinality(S) + 1
    BY <1>4, FS_AddElement
<1>7. \A w \in S : Cardinality(S \ {w}) = Cardinality(S) - 1
    BY <1>4, FS_RemoveElement
<1> QED
    BY <1>2, <1>5, <1>6, <1>7

(* The ring has a positive size.                                           *)
LEMMA SizeIsPositive ==
    ASSUME Queue!WFQueueAssumption
    PROVE  /\ Queue!size_ \in Nat \ {0} /\ Queue!size_ \in Int
           /\ \A b \in Queue!BufferSet : b # NoBuf
BY DEF Queue!WFQueueAssumption, Queue!BufferSet

(* The positions of the ring.                                              *)
LEMMA SlotInRing ==
    ASSUME Queue!WFQueueAssumption, Queue!TypeOK, NEW k \in Nat
    PROVE  /\ Queue!Slot(k) \in 0..(Queue!size_ - 1) /\ Queue!Slot(k) \in Nat
           /\ (Queue!Slot(k) + 1) % Queue!size_ = Queue!Slot(k + 1)
<1>1. Queue!size_ \in Nat \ {0} /\ head_ \in Nat /\ head_ + k \in Nat
    BY SizeIsPositive DEF Queue!TypeOK
<1>2. Queue!Slot(k) \in 0..(Queue!size_ - 1) /\ Queue!Slot(k) \in Nat
    BY <1>1 DEF Queue!Slot
<1>3. (((head_ + k) % Queue!size_) + 1) % Queue!size_ = ((head_ + k) + 1) % Queue!size_
    BY <1>1, PlusRemainder
<1> QED
    BY <1>1, <1>2, <1>3 DEF Queue!Slot

LEMMA SlotsDiffer ==
    ASSUME Queue!WFQueueAssumption, Queue!TypeOK,
           NEW j \in Nat, NEW k \in Nat, j < k, k < j + Queue!size_
    PROVE  Queue!Slot(j) # Queue!Slot(k)
<1>1. Queue!size_ \in Nat \ {0} /\ head_ \in Nat
    BY SizeIsPositive DEF Queue!TypeOK
<1> DEFINE a == head_ + j
           b == head_ + k
<1>2. a \in Nat /\ b \in Nat /\ a <= b /\ b < a + Queue!size_ /\ a # b
    BY <1>1
<1> HIDE DEF a, b
<1>3. a % Queue!size_ # b % Queue!size_
    BY <1>1, <1>2, OneRevolution
<1> QED
    BY <1>3 DEF Queue!Slot, a, b

(* Taking an element moves every position by one.                          *)
LEMMA SlotsMove ==
    ASSUME Queue!WFQueueAssumption, Queue!TypeOK, NEW k \in Nat,
           head_' = (head_ + 1) % Queue!size_
    PROVE  Queue!Slot(k)' = Queue!Slot(k + 1)
<1>1. Queue!size_ \in Nat \ {0} /\ head_ \in Nat /\ head_ + 1 \in Nat
    BY SizeIsPositive DEF Queue!TypeOK
<1>2. (((head_ + 1) % Queue!size_) + k) % Queue!size_ = ((head_ + 1) + k) % Queue!size_
    BY <1>1, PlusRemainder
<1>3. (head_ + 1) + k = head_ + (k + 1)
    BY <1>1
<1> QED
    BY <1>2, <1>3 DEF Queue!Slot

(* Only the wavefront at the head of the line is inside a lock.            *)
LEMMA OneInside ==
    ASSUME Queue!LocksHeld, NEW w \in Waves, NEW u \in Waves
    PROVE  /\ queue_pc[w] \in {"take", "count_off"}
                /\ queue_pc[u] \in {"take", "count_off"} => u = w
           /\ queue_pc[w] \in {"put", "count"}
                /\ queue_pc[u] \in {"put", "count"} => u = w
BY DEF Queue!LocksHeld, Queue!Holds

(* How many elements are in the queue.                                     *)
LEMMA InQueueIs ==
    /\ (\E w \in Waves : queue_pc[w] = "count_off") => Queue!InQueue = curr_size_ - 1
    /\ (~ \E w \in Waves : queue_pc[w] = "count_off") => Queue!InQueue = curr_size_ - 0
BY DEF Queue!InQueue

(* The elements in the queue, from the head on.                            *)
ElementsInOrder ==
    /\ Queue!InQueue \in Nat
    /\ Queue!Elements \in Seq(Queue!BufferSet) /\ Len(Queue!Elements) = Queue!InQueue
    /\ \A i \in 1..Queue!InQueue : Queue!Elements[i] = queue_[Queue!Slot(i - 1)]

LEMMA ElementsAre == Queue!WFQueueAssumption /\ Queue!IInv => ElementsInOrder
<1> SUFFICES ASSUME Queue!WFQueueAssumption, Queue!IInv PROVE ElementsInOrder
    OBVIOUS
<1>1. Queue!TypeOK /\ Queue!InQueue \in Nat
    BY SizeIsPositive DEF Queue!IInv, Queue!Balanced
<1>2. ASSUME NEW i \in 1..Queue!InQueue
      PROVE  queue_[Queue!Slot(i - 1)] \in Queue!BufferSet
  <2>1. i - 1 \in Nat
      BY <1>1
  <2>2. Queue!Slot(i - 1) \in 0..(Queue!size_ - 1)
      BY <1>1, <2>1, SlotInRing
  <2> QED
      BY <1>1, <2>2 DEF Queue!TypeOK
<1>3. Queue!Elements = [i \in 1..Queue!InQueue |-> queue_[Queue!Slot(i - 1)]]
    BY DEF Queue!Elements
<1>4. Queue!Elements \in Seq(Queue!BufferSet) /\ Len(Queue!Elements) = Queue!InQueue
    BY <1>1, <1>2, <1>3
<1> QED
    BY <1>1, <1>3, <1>4 DEF ElementsInOrder

(* A step that leaves the elements where they are.                         *)
LEMMA SameRing ==
    ASSUME Queue!Balanced, Queue!Placed,
           UNCHANGED <<head_, tail_, queue_>>, Queue!InQueue' = Queue!InQueue,
           \A u \in Waves :
              /\ queue_pc'[u] = "count" <=> queue_pc[u] = "count"
              /\ Queue!Owns(u)' <=> Queue!Owns(u)
              /\ Queue!Owns(u) => queue_buf'[u] = queue_buf[u]
              /\ queue_pc'[u] = "take" => Queue!InQueue > 0
    PROVE  /\ Queue!Elements' = Queue!Elements /\ Queue!Held' = Queue!Held
           /\ Queue!Balanced' /\ Queue!Placed'
<1>1. Queue!Owners' = Queue!Owners
    BY DEF Queue!Owners
<1>2. Queue!InQueue' = Queue!InQueue /\ Queue!Uncounted' = Queue!Uncounted
    BY DEF Queue!Uncounted
<1>3. ASSUME NEW k PROVE Queue!Slot(k)' = Queue!Slot(k)
    BY DEF Queue!Slot
<1>4. Queue!Elements' = Queue!Elements
    BY <1>2, <1>3 DEF Queue!Elements
<1>5. Queue!Held' = Queue!Held
    BY DEF Queue!Held
<1>6. Queue!Balanced'
    BY <1>1, <1>2 DEF Queue!Balanced
<1>7. Queue!Placed'
  <2>1. tail_' = Queue!Slot(Queue!InQueue + Queue!Uncounted)'
      BY <1>2, <1>3 DEF Queue!Placed
  <2>2. ASSUME NEW u \in Waves, queue_pc'[u] = "count"
        PROVE  queue_'[Queue!Slot(Queue!InQueue)'] = queue_buf'[u]
    <3>1. queue_pc[u] = "count" /\ Queue!Owns(u)
        BY <2>2 DEF Queue!Owns
    <3> QED
        BY <1>2, <1>3, <3>1 DEF Queue!Placed
  <2> QED
      BY <2>1, <2>2 DEF Queue!Placed
<1> QED
    BY <1>4, <1>5, <1>6, <1>7

(* A step that neither takes, puts nor counts an element.                  *)
LEMMA Undisturbed ==
    ASSUME Queue!Balanced, Queue!Placed,
           UNCHANGED <<head_, tail_, curr_size_, queue_>>,
           \A u \in Waves :
              /\ queue_pc'[u] = "count_off" <=> queue_pc[u] = "count_off"
              /\ queue_pc'[u] = "count" <=> queue_pc[u] = "count"
              /\ Queue!Owns(u)' <=> Queue!Owns(u)
              /\ Queue!Owns(u) => queue_buf'[u] = queue_buf[u]
              /\ queue_pc'[u] = "take" => Queue!InQueue > 0
    PROVE  /\ Queue!Elements' = Queue!Elements /\ Queue!Held' = Queue!Held
           /\ Queue!Balanced' /\ Queue!Placed'
<1>1. Queue!InQueue' = Queue!InQueue
    BY DEF Queue!InQueue
<1> QED
    BY <1>1, SameRing

LEMMA QueueLockDequeue ==
    ASSUME Queue!WFQueueAssumption, Queue!IInv, NEW w \in Waves, Queue!LockDequeue(w)
    PROVE  Queue!IInv' /\ UNCHANGED <<Queue!Elements, Queue!Held>>
<1>1. Queue!TypeOK /\ Queue!LocksHeld /\ Queue!Balanced /\ Queue!Placed
    BY DEF Queue!IInv
<1>2. /\ queue_pc[w] = "idle" /\ queue_pc' = [queue_pc EXCEPT ![w] = "empty"]
      /\ dequeue_mutex_' = Append(dequeue_mutex_, w)
      /\ UNCHANGED <<head_, tail_, curr_size_, queue_,
                     enqueue_mutex_, contents, queue_buf>>
    BY DEF Queue!LockDequeue, Queue!Goto, Queue!ring
<1>3. Queue!TypeOK'
    BY <1>1, <1>2 DEF Queue!TypeOK
<1>4. Queue!LocksHeld'
    BY <1>1, <1>2 DEF Queue!LocksHeld, Queue!Holds, Queue!TypeOK
<1>5. ASSUME NEW u \in Waves
      PROVE  /\ queue_pc'[u] = "count_off" <=> queue_pc[u] = "count_off"
             /\ queue_pc'[u] = "count" <=> queue_pc[u] = "count"
             /\ Queue!Owns(u)' <=> Queue!Owns(u)
             /\ Queue!Owns(u) => queue_buf'[u] = queue_buf[u]
             /\ queue_pc'[u] = "take" => Queue!InQueue > 0
    BY <1>1, <1>2 DEF Queue!TypeOK, Queue!Owns, Queue!Balanced
<1> QED
    BY <1>1, <1>2, <1>3, <1>4, <1>5, Undisturbed DEF Queue!IInv

LEMMA QueueWaitNotEmpty ==
    ASSUME Queue!WFQueueAssumption, Queue!IInv, NEW w \in Waves, Queue!WaitNotEmpty(w)
    PROVE  Queue!IInv' /\ UNCHANGED <<Queue!Elements, Queue!Held>>
<1>1. Queue!TypeOK /\ Queue!LocksHeld /\ Queue!Balanced /\ Queue!Placed
    BY DEF Queue!IInv
<1>2. /\ queue_pc[w] = "empty" /\ queue_pc' = [queue_pc EXCEPT ![w] = "take"]
      /\ Queue!Holds(w, dequeue_mutex_) /\ curr_size_ # 0
      /\ UNCHANGED <<head_, tail_, curr_size_, queue_,
                     dequeue_mutex_, enqueue_mutex_, contents, queue_buf>>
    BY DEF Queue!WaitNotEmpty, Queue!Goto, Queue!ring, Queue!is_empty
<1>3. Queue!TypeOK'
    BY <1>1, <1>2 DEF Queue!TypeOK
<1>4. Queue!LocksHeld'
    BY <1>1, <1>2 DEF Queue!LocksHeld, Queue!Holds, Queue!TypeOK
<1>5. Queue!InQueue > 0
  <2>1. ~ \E u \in Waves : queue_pc[u] = "count_off"
      BY <1>1, <1>2 DEF Queue!LocksHeld, Queue!Holds
  <2>2. Queue!InQueue = curr_size_ - 0
      BY <2>1, InQueueIs
  <2> QED
      BY <1>1, <1>2, <2>2, SizeIsPositive DEF Queue!TypeOK
<1>6. ASSUME NEW u \in Waves
      PROVE  /\ queue_pc'[u] = "count_off" <=> queue_pc[u] = "count_off"
             /\ queue_pc'[u] = "count" <=> queue_pc[u] = "count"
             /\ Queue!Owns(u)' <=> Queue!Owns(u)
             /\ Queue!Owns(u) => queue_buf'[u] = queue_buf[u]
             /\ queue_pc'[u] = "take" => Queue!InQueue > 0
    BY <1>1, <1>2, <1>5 DEF Queue!TypeOK, Queue!Owns
<1> QED
    BY <1>1, <1>2, <1>3, <1>4, <1>6, Undisturbed DEF Queue!IInv

LEMMA QueueResult ==
    ASSUME Queue!WFQueueAssumption, Queue!IInv, NEW w \in Waves, Queue!Result(w)
    PROVE  Queue!IInv' /\ UNCHANGED <<Queue!Elements, Queue!Held>>
<1>1. Queue!TypeOK /\ Queue!LocksHeld /\ Queue!Balanced /\ Queue!Placed
    BY DEF Queue!IInv
<1>2. /\ queue_pc[w] = "call" /\ queue_pc' = [queue_pc EXCEPT ![w] = "give"]
      /\ contents' = [contents EXCEPT ![queue_buf[w]] = w]
      /\ UNCHANGED <<head_, tail_, curr_size_, queue_,
                     dequeue_mutex_, enqueue_mutex_, queue_buf>>
    BY DEF Queue!Result, Queue!Goto, Queue!ring
<1>3. Queue!TypeOK'
    BY <1>1, <1>2 DEF Queue!TypeOK
<1>4. Queue!LocksHeld'
    BY <1>1, <1>2 DEF Queue!LocksHeld, Queue!Holds, Queue!TypeOK
<1>5. ASSUME NEW u \in Waves
      PROVE  /\ queue_pc'[u] = "count_off" <=> queue_pc[u] = "count_off"
             /\ queue_pc'[u] = "count" <=> queue_pc[u] = "count"
             /\ Queue!Owns(u)' <=> Queue!Owns(u)
             /\ Queue!Owns(u) => queue_buf'[u] = queue_buf[u]
             /\ queue_pc'[u] = "take" => Queue!InQueue > 0
    BY <1>1, <1>2 DEF Queue!TypeOK, Queue!Owns, Queue!Balanced
<1> QED
    BY <1>1, <1>2, <1>3, <1>4, <1>5, Undisturbed DEF Queue!IInv

LEMMA QueueLockEnqueue ==
    ASSUME Queue!WFQueueAssumption, Queue!IInv, NEW w \in Waves, Queue!LockEnqueue(w)
    PROVE  Queue!IInv' /\ UNCHANGED <<Queue!Elements, Queue!Held>>
<1>1. Queue!TypeOK /\ Queue!LocksHeld /\ Queue!Balanced /\ Queue!Placed
    BY DEF Queue!IInv
<1>2. /\ queue_pc[w] = "give" /\ queue_pc' = [queue_pc EXCEPT ![w] = "full"]
      /\ enqueue_mutex_' = Append(enqueue_mutex_, w)
      /\ UNCHANGED <<head_, tail_, curr_size_, queue_,
                     dequeue_mutex_, contents, queue_buf>>
    BY DEF Queue!LockEnqueue, Queue!Goto, Queue!ring
<1>3. Queue!TypeOK'
    BY <1>1, <1>2 DEF Queue!TypeOK
<1>4. Queue!LocksHeld'
    BY <1>1, <1>2 DEF Queue!LocksHeld, Queue!Holds, Queue!TypeOK
<1>5. ASSUME NEW u \in Waves
      PROVE  /\ queue_pc'[u] = "count_off" <=> queue_pc[u] = "count_off"
             /\ queue_pc'[u] = "count" <=> queue_pc[u] = "count"
             /\ Queue!Owns(u)' <=> Queue!Owns(u)
             /\ Queue!Owns(u) => queue_buf'[u] = queue_buf[u]
             /\ queue_pc'[u] = "take" => Queue!InQueue > 0
    BY <1>1, <1>2 DEF Queue!TypeOK, Queue!Owns, Queue!Balanced
<1> QED
    BY <1>1, <1>2, <1>3, <1>4, <1>5, Undisturbed DEF Queue!IInv

LEMMA QueueAssertNotFull ==
    ASSUME Queue!WFQueueAssumption, Queue!IInv, NEW w \in Waves, Queue!AssertNotFull(w)
    PROVE  Queue!IInv' /\ UNCHANGED <<Queue!Elements, Queue!Held>>
<1>1. Queue!TypeOK /\ Queue!LocksHeld /\ Queue!Balanced /\ Queue!Placed
    BY DEF Queue!IInv
<1>2. /\ queue_pc[w] = "full" /\ queue_pc' = [queue_pc EXCEPT ![w] = "put"]
      /\ Queue!Holds(w, enqueue_mutex_)
      /\ UNCHANGED <<head_, tail_, curr_size_, queue_,
                     dequeue_mutex_, enqueue_mutex_, contents, queue_buf>>
    BY DEF Queue!AssertNotFull, Queue!Goto, Queue!ring
<1>3. Queue!TypeOK'
    BY <1>1, <1>2 DEF Queue!TypeOK
<1>4. Queue!LocksHeld'
    BY <1>1, <1>2 DEF Queue!LocksHeld, Queue!Holds, Queue!TypeOK
<1>5. ASSUME NEW u \in Waves
      PROVE  /\ queue_pc'[u] = "count_off" <=> queue_pc[u] = "count_off"
             /\ queue_pc'[u] = "count" <=> queue_pc[u] = "count"
             /\ Queue!Owns(u)' <=> Queue!Owns(u)
             /\ Queue!Owns(u) => queue_buf'[u] = queue_buf[u]
             /\ queue_pc'[u] = "take" => Queue!InQueue > 0
    BY <1>1, <1>2 DEF Queue!TypeOK, Queue!Owns, Queue!Balanced
<1> QED
    BY <1>1, <1>2, <1>3, <1>4, <1>5, Undisturbed DEF Queue!IInv

LEMMA QueueRead ==
    ASSUME Queue!WFQueueAssumption, Queue!IInv, NEW w \in Waves, Queue!Read(w)
    PROVE  Queue!IInv' /\ UNCHANGED <<Queue!Elements, Queue!Held>>
<1>1. Queue!TypeOK /\ Queue!LocksHeld /\ Queue!Balanced /\ Queue!Placed
    BY DEF Queue!IInv
<1>2. /\ queue_pc[w] = "read" /\ queue_pc' = [queue_pc EXCEPT ![w] = "idle"]
      /\ queue_buf' = [queue_buf EXCEPT ![w] = NoBuf]
      /\ UNCHANGED <<head_, tail_, curr_size_, queue_,
                     dequeue_mutex_, enqueue_mutex_, contents>>
    BY DEF Queue!Read, Queue!Goto, Queue!ring
<1>3. Queue!TypeOK'
    BY <1>1, <1>2 DEF Queue!TypeOK
<1>4. Queue!LocksHeld'
    BY <1>1, <1>2 DEF Queue!LocksHeld, Queue!Holds, Queue!TypeOK
<1>5. ASSUME NEW u \in Waves
      PROVE  /\ queue_pc'[u] = "count_off" <=> queue_pc[u] = "count_off"
             /\ queue_pc'[u] = "count" <=> queue_pc[u] = "count"
             /\ Queue!Owns(u)' <=> Queue!Owns(u)
             /\ Queue!Owns(u) => queue_buf'[u] = queue_buf[u]
             /\ queue_pc'[u] = "take" => Queue!InQueue > 0
    BY <1>1, <1>2 DEF Queue!TypeOK, Queue!Owns, Queue!Balanced
<1> QED
    BY <1>1, <1>2, <1>3, <1>4, <1>5, Undisturbed DEF Queue!IInv

(* Taking the element at the head: it leaves the queue at once, although   *)
(* it is counted until the lock is released.                               *)
LEMMA QueueDequeue ==
    ASSUME Queue!WFQueueAssumption, Queue!IInv, NEW w \in Waves, Queue!dequeue(w)
    PROVE  Queue!IInv' /\ Queue!Pool!Take(w)
<1>1. Queue!TypeOK /\ Queue!LocksHeld /\ Queue!Balanced /\ Queue!Placed
    BY DEF Queue!IInv
<1>2. /\ queue_pc[w] = "take" /\ queue_pc' = [queue_pc EXCEPT ![w] = "count_off"]
      /\ queue_buf' = [queue_buf EXCEPT ![w] = queue_[head_]]
      /\ head_' = (head_ + 1) % Queue!size_
      /\ UNCHANGED <<tail_, curr_size_, queue_, dequeue_mutex_, enqueue_mutex_,
                     contents>>
    BY DEF Queue!dequeue, Queue!Goto
<1>3. Queue!size_ \in Nat \ {0} /\ head_ \in 0..(Queue!size_ - 1)
    BY <1>1, SizeIsPositive DEF Queue!TypeOK
<1>4. queue_[head_] \in Queue!BufferSet /\ queue_[head_] # NoBuf
    BY <1>1, <1>3, SizeIsPositive DEF Queue!TypeOK
<1>5. (head_ + 1) % Queue!size_ \in 0..(Queue!size_ - 1)
    BY <1>3
<1>6. Queue!TypeOK'
    BY <1>1, <1>2, <1>4, <1>5 DEF Queue!TypeOK
<1>7. Queue!LocksHeld'
    BY <1>1, <1>2 DEF Queue!LocksHeld, Queue!Holds, Queue!TypeOK
<1>8. /\ ~ \E u \in Waves : queue_pc[u] = "count_off"
      /\ \E u \in Waves : queue_pc'[u] = "count_off"
      /\ \A u \in Waves : queue_pc'[u] # "take"
  <2>1. \A u \in Waves : queue_pc[u] \in {"take", "count_off"} => u = w
      BY <1>1, <1>2, OneInside
  <2> QED
      BY <1>1, <1>2, <2>1 DEF Queue!TypeOK
<1>9. PICK n \in Nat : /\ n = Queue!InQueue /\ n - 1 = Queue!InQueue'
                       /\ n > 0 /\ n <= Queue!size_
  <2>1. curr_size_ \in Nat
      BY <1>1, <1>3 DEF Queue!TypeOK
  <2>2. Queue!InQueue = curr_size_ - 0 /\ Queue!InQueue' = curr_size_' - 1
      BY <1>8 DEF Queue!InQueue
  <2>3. Queue!InQueue > 0 /\ Queue!InQueue \in 0..Queue!size_
      BY <1>1, <1>2 DEF Queue!Balanced
  <2> QED
      BY <1>2, <1>3, <2>1, <2>2, <2>3
<1>10. Queue!Owners' = Queue!Owners \cup {w} /\ w \notin Queue!Owners
    BY <1>1, <1>2 DEF Queue!Owners, Queue!Owns, Queue!TypeOK
<1>11. Queue!Balanced'
  <2>1. Queue!Cardinality(Queue!Owners') = Queue!Cardinality(Queue!Owners) + 1
        /\ Queue!Cardinality(Queue!Owners) \in Nat
    <3>1. Queue!Owners \in SUBSET Waves
        BY DEF Queue!Owners
    <3> QED
        BY <1>10, <3>1, WavesFinite
  <2>2. n + Queue!Cardinality(Queue!Owners) = Queue!size_
      BY <1>1, <1>9 DEF Queue!Balanced
  <2>3. (n - 1) + Queue!Cardinality(Queue!Owners') = Queue!size_
      BY <1>9, <2>1, <2>2
  <2>4. n - 1 \in 0..Queue!size_
      BY <1>3, <1>9
  <2>5. ASSUME NEW u \in Waves, Queue!Owns(u)' PROVE queue_buf'[u] # NoBuf
      BY <1>1, <1>2, <1>4, <2>5 DEF Queue!Balanced, Queue!Owns, Queue!TypeOK
  <2> QED
      BY <1>8, <1>9, <2>3, <2>4, <2>5 DEF Queue!Balanced
<1>12. ASSUME NEW k \in Nat PROVE Queue!Slot(k)' = Queue!Slot(k + 1)
    BY <1>1, <1>2, SlotsMove
<1>13. PICK c \in {0, 1} : c = Queue!Uncounted /\ c = Queue!Uncounted'
  <2>1. (\E u \in Waves : queue_pc'[u] = "count") <=> \E u \in Waves : queue_pc[u] = "count"
      BY <1>1, <1>2 DEF Queue!TypeOK
  <2> QED
      BY <2>1 DEF Queue!Uncounted
<1>14. Queue!Placed'
  <2>1. Queue!Slot((n - 1) + c)' = Queue!Slot(n + c)
    <3>1. (n - 1) + c \in Nat /\ ((n - 1) + c) + 1 = n + c
        BY <1>9
    <3> QED
        BY <1>12, <3>1
  <2>2. Queue!Slot(n - 1)' = Queue!Slot(n)
    <3>1. n - 1 \in Nat /\ (n - 1) + 1 = n
        BY <1>9
    <3> QED
        BY <1>12, <3>1
  <2>3. tail_' = Queue!Slot(Queue!InQueue + Queue!Uncounted)'
      BY <1>1, <1>2, <1>9, <1>13, <2>1 DEF Queue!Placed
  <2>4. ASSUME NEW u \in Waves, queue_pc'[u] = "count"
        PROVE  queue_'[Queue!Slot(Queue!InQueue)'] = queue_buf'[u]
    <3>1. queue_pc[u] = "count" /\ u # w /\ queue_buf'[u] = queue_buf[u]
        BY <1>1, <1>2, <2>4 DEF Queue!TypeOK
    <3> QED
        BY <1>1, <1>2, <1>9, <2>2, <3>1 DEF Queue!Placed
  <2> QED
      BY <2>3, <2>4 DEF Queue!Placed
<1>15. Queue!IInv'
    BY <1>6, <1>7, <1>11, <1>14 DEF Queue!IInv
<1>16. ElementsInOrder /\ ElementsInOrder'
    BY <1>15, ElementsAre, PTL
<1>17. Queue!Elements # << >> /\ Head(Queue!Elements) = queue_[head_]
  <2>1. Queue!Slot(0) = head_
    <3>1. head_ + 0 = head_ /\ head_ % Queue!size_ = head_
        BY <1>3
    <3> QED
        BY <3>1 DEF Queue!Slot
  <2>2. 1 \in 1..n /\ 1 - 1 = 0
      BY <1>9
  <2>3. Queue!Elements[1] = queue_[head_] /\ Len(Queue!Elements) = n
      BY <1>9, <1>16, <2>1, <2>2 DEF ElementsInOrder
  <2> QED
      BY <1>9, <1>16, <2>3 DEF ElementsInOrder
<1>18. Queue!Elements' = Tail(Queue!Elements)
  <2>1. /\ Tail(Queue!Elements) \in Seq(Queue!BufferSet)
        /\ Len(Tail(Queue!Elements)) = n - 1
        /\ \A i \in 1..(n - 1) : Tail(Queue!Elements)[i] = Queue!Elements[i + 1]
      BY <1>9, <1>16 DEF ElementsInOrder
  <2>2. Queue!Elements' \in Seq(Queue!BufferSet) /\ Len(Queue!Elements') = n - 1
    <3>1. Queue!BufferSet' = Queue!BufferSet
        BY DEF Queue!BufferSet, Queue!size_
    <3> QED
        BY <1>9, <1>16, <3>1 DEF ElementsInOrder
  <2>3. ASSUME NEW i \in 1..(n - 1) PROVE Queue!Elements'[i] = Queue!Elements[i + 1]
    <3>1. i - 1 \in Nat /\ (i - 1) + 1 = i /\ i + 1 \in 1..n /\ (i + 1) - 1 = i
        BY <1>9
    <3>2. Queue!Elements'[i] = queue_[Queue!Slot(i - 1)']
        BY <1>2, <1>9, <1>16 DEF ElementsInOrder
    <3>3. Queue!Slot(i - 1)' = Queue!Slot(i)
        BY <1>12, <3>1
    <3>4. Queue!Elements[i + 1] = queue_[Queue!Slot(i)]
        BY <1>9, <1>16, <3>1 DEF ElementsInOrder
    <3> QED
        BY <3>2, <3>3, <3>4
  <2> QED
      BY <2>1, <2>2, <2>3, SameSeq
<1>19. Queue!Held[w] = NoBuf /\ Queue!Held' = [Queue!Held EXCEPT ![w] = queue_[head_]]
    BY <1>1, <1>2 DEF Queue!Held, Queue!Owns, Queue!TypeOK
<1>20. Queue!Pool!Take(w)
    BY <1>17, <1>18, <1>19 DEF Queue!Pool!Take
<1> QED
    BY <1>15, <1>20

(* Counting off an element that was taken, and releasing the lock.         *)
LEMMA QueueCountOff ==
    ASSUME Queue!WFQueueAssumption, Queue!IInv, NEW w \in Waves, Queue!CountOff(w)
    PROVE  Queue!IInv' /\ UNCHANGED <<Queue!Elements, Queue!Held>>
<1>1. Queue!TypeOK /\ Queue!LocksHeld /\ Queue!Balanced /\ Queue!Placed
    BY DEF Queue!IInv
<1>2. /\ queue_pc[w] = "count_off" /\ queue_pc' = [queue_pc EXCEPT ![w] = "call"]
      /\ curr_size_' = curr_size_ - 1 /\ dequeue_mutex_' = Tail(dequeue_mutex_)
      /\ UNCHANGED <<head_, tail_, queue_, enqueue_mutex_, contents, queue_buf>>
    BY DEF Queue!CountOff, Queue!Goto
<1>3. \A u \in Waves : queue_pc'[u] \notin {"take", "count_off"}
  <2>1. \A u \in Waves : queue_pc[u] \in {"take", "count_off"} => u = w
      BY <1>1, <1>2, OneInside
  <2> QED
      BY <1>1, <1>2, <2>1 DEF Queue!TypeOK
<1>4. Queue!InQueue = curr_size_ - 1 /\ Queue!InQueue' = curr_size_' - 0
    BY <1>2, <1>3 DEF Queue!InQueue
<1>5. Queue!InQueue' = Queue!InQueue /\ curr_size_' \in 0..Queue!size_
  <2>1. curr_size_ \in Int /\ Queue!InQueue \in 0..Queue!size_
      BY <1>1, SizeIsPositive DEF Queue!TypeOK, Queue!Balanced
  <2> QED
      BY <1>2, <1>4, <2>1
<1>6. dequeue_mutex_ # << >> /\ dequeue_mutex_ \in Seq(Waves)
    BY <1>1, <1>2 DEF Queue!LocksHeld, Queue!Holds, Queue!TypeOK
<1>7. Queue!TypeOK'
    BY <1>1, <1>2, <1>5, <1>6 DEF Queue!TypeOK
<1>8. Queue!LocksHeld'
    BY <1>1, <1>2, <1>3 DEF Queue!LocksHeld, Queue!TypeOK
<1>9. ASSUME NEW u \in Waves
      PROVE  /\ queue_pc'[u] = "count" <=> queue_pc[u] = "count"
             /\ Queue!Owns(u)' <=> Queue!Owns(u)
             /\ Queue!Owns(u) => queue_buf'[u] = queue_buf[u]
             /\ queue_pc'[u] = "take" => Queue!InQueue > 0
    BY <1>1, <1>2, <1>3 DEF Queue!TypeOK, Queue!Owns
<1> QED
    BY <1>1, <1>2, <1>5, <1>7, <1>8, <1>9, SameRing DEF Queue!IInv

(* A wavefront that holds a buffer leaves a place in the ring free.        *)
LEMMA OwnerLeavesRoom ==
    ASSUME Queue!WFQueueAssumption, Queue!Balanced, NEW w \in Waves, Queue!Owns(w)
    PROVE  Queue!InQueue \in Nat /\ Queue!InQueue < Queue!size_
<1>1. w \in Queue!Owners /\ Queue!Owners \in SUBSET Waves
    BY DEF Queue!Owners
<1>2. Queue!Cardinality(Queue!Owners) \in Nat /\ Queue!Cardinality(Queue!Owners) > 0
    BY <1>1, WavesFinite
<1> QED
    BY <1>2, SizeIsPositive DEF Queue!Balanced

(* Putting an element at the tail does not touch those that are there.     *)
LEMMA QueueEnqueue ==
    ASSUME Queue!WFQueueAssumption, Queue!IInv, NEW w \in Waves, Queue!enqueue(w)
    PROVE  Queue!IInv' /\ UNCHANGED <<Queue!Elements, Queue!Held>>
<1>1. Queue!TypeOK /\ Queue!LocksHeld /\ Queue!Balanced /\ Queue!Placed
    BY DEF Queue!IInv
<1>2. /\ queue_pc[w] = "put" /\ queue_pc' = [queue_pc EXCEPT ![w] = "count"]
      /\ queue_' = [queue_ EXCEPT ![tail_] = queue_buf[w]]
      /\ tail_' = (tail_ + 1) % Queue!size_
      /\ UNCHANGED <<head_, curr_size_, dequeue_mutex_, enqueue_mutex_, contents,
                     queue_buf>>
    BY DEF Queue!enqueue, Queue!Goto
<1>3. /\ \A u \in Waves : queue_pc[u] # "count"
      /\ \A u \in Waves : queue_pc'[u] = "count" <=> u = w
  <2>1. \A u \in Waves : queue_pc[u] \in {"put", "count"} => u = w
      BY <1>1, <1>2, OneInside
  <2> QED
      BY <1>1, <1>2, <2>1 DEF Queue!TypeOK
<1>4. Queue!Owns(w)
    BY <1>2 DEF Queue!Owns
<1>5. PICK n \in Nat : n = Queue!InQueue /\ n < Queue!size_
    BY <1>1, <1>4, OwnerLeavesRoom
<1>6. Queue!InQueue' = n
  <2>1. (\E u \in Waves : queue_pc'[u] = "count_off")
        <=> \E u \in Waves : queue_pc[u] = "count_off"
      BY <1>1, <1>2 DEF Queue!TypeOK
  <2> QED
      BY <1>2, <1>5, <2>1 DEF Queue!InQueue
<1>7. Queue!Uncounted = 0 /\ Queue!Uncounted' = 1
    BY <1>3 DEF Queue!Uncounted
<1>8. ASSUME NEW k PROVE Queue!Slot(k)' = Queue!Slot(k)
    BY <1>2 DEF Queue!Slot
<1>9. /\ tail_ = Queue!Slot(n) /\ tail_' = Queue!Slot(n + 1)
      /\ tail_ \in 0..(Queue!size_ - 1) /\ tail_' \in 0..(Queue!size_ - 1)
  <2>1. n + 0 = n /\ n + 1 \in Nat
      OBVIOUS
  <2>2. tail_ = Queue!Slot(n)
      BY <1>1, <1>5, <1>7, <2>1 DEF Queue!Placed
  <2> QED
      BY <1>1, <1>2, <2>1, <2>2, SlotInRing
<1>10. queue_buf[w] \in Queue!BufferSet
    BY <1>1, <1>4 DEF Queue!Balanced, Queue!TypeOK
<1>11. Queue!TypeOK'
    BY <1>1, <1>2, <1>9, <1>10 DEF Queue!TypeOK
<1>12. Queue!LocksHeld'
    BY <1>1, <1>2 DEF Queue!LocksHeld, Queue!Holds, Queue!TypeOK
<1>13. \A u \in Waves : Queue!Owns(u)' <=> Queue!Owns(u)
    BY <1>1, <1>2 DEF Queue!TypeOK, Queue!Owns
<1>14. Queue!Balanced'
  <2>1. Queue!Owners' = Queue!Owners
      BY <1>13 DEF Queue!Owners
  <2>2. \A u \in Waves : queue_pc'[u] = "take" => queue_pc[u] = "take"
      BY <1>1, <1>2 DEF Queue!TypeOK
  <2> QED
      BY <1>1, <1>2, <1>5, <1>6, <1>13, <2>1, <2>2 DEF Queue!Balanced
<1>15. Queue!Placed'
  <2>1. tail_' = Queue!Slot(Queue!InQueue + Queue!Uncounted)'
      BY <1>6, <1>7, <1>8, <1>9
  <2>2. queue_'[Queue!Slot(n)] = queue_buf[w]
      BY <1>1, <1>2, <1>9 DEF Queue!TypeOK
  <2> QED
      BY <1>2, <1>3, <1>6, <1>8, <2>1, <2>2 DEF Queue!Placed
<1>16. Queue!Elements' = Queue!Elements
  <2>1. ASSUME NEW i \in 1..n PROVE queue_'[Queue!Slot(i - 1)'] = queue_[Queue!Slot(i - 1)]
    <3>1. i - 1 \in Nat /\ i - 1 < n /\ n < (i - 1) + Queue!size_
        BY <1>5, SizeIsPositive
    <3>2. Queue!Slot(i - 1) # tail_ /\ Queue!Slot(i - 1) \in 0..(Queue!size_ - 1)
        BY <1>1, <1>9, <3>1, SlotsDiffer, SlotInRing
    <3> QED
        BY <1>1, <1>2, <1>8, <3>2 DEF Queue!TypeOK
  <2> QED
      BY <1>5, <1>6, <2>1 DEF Queue!Elements
<1>17. Queue!Held' = Queue!Held
    BY <1>2, <1>13 DEF Queue!Held
<1> QED
    BY <1>11, <1>12, <1>14, <1>15, <1>16, <1>17 DEF Queue!IInv

(* Counting an element that was put: it joins the elements at their end.   *)
LEMMA QueueCount ==
    ASSUME Queue!WFQueueAssumption, Queue!IInv, NEW w \in Waves, Queue!Count(w)
    PROVE  Queue!IInv' /\ Queue!Pool!Give(w)
<1>1. Queue!TypeOK /\ Queue!LocksHeld /\ Queue!Balanced /\ Queue!Placed
    BY DEF Queue!IInv
<1>2. /\ queue_pc[w] = "count" /\ queue_pc' = [queue_pc EXCEPT ![w] = "read"]
      /\ curr_size_' = curr_size_ + 1 /\ enqueue_mutex_' = Tail(enqueue_mutex_)
      /\ UNCHANGED <<head_, tail_, queue_, dequeue_mutex_, contents, queue_buf>>
    BY DEF Queue!Count, Queue!Goto
<1>3. \A u \in Waves : queue_pc'[u] \notin {"put", "count"}
  <2>1. \A u \in Waves : queue_pc[u] \in {"put", "count"} => u = w
      BY <1>1, <1>2, OneInside
  <2> QED
      BY <1>1, <1>2, <2>1 DEF Queue!TypeOK
<1>4. Queue!Owns(w)
    BY <1>2 DEF Queue!Owns
<1>5. PICK n \in Nat : n = Queue!InQueue /\ n < Queue!size_
    BY <1>1, <1>4, OwnerLeavesRoom
<1>6. curr_size_ \in Nat /\ Queue!size_ \in Nat \ {0}
    BY <1>1, SizeIsPositive DEF Queue!TypeOK
<1>7. /\ Queue!InQueue' = n + 1
      /\ curr_size_' = n + 1 \/ \E u \in Waves : Queue!Owns(u)' /\ curr_size_' = n + 2
  <2>1. \A u \in Waves : queue_pc'[u] = "count_off" <=> queue_pc[u] = "count_off"
      BY <1>1, <1>2 DEF Queue!TypeOK
  <2>2. CASE \E u \in Waves : queue_pc[u] = "count_off"
    <3>1. n = curr_size_ - 1 /\ Queue!InQueue' = curr_size_' - 1
        BY <1>5, <2>1, <2>2 DEF Queue!InQueue
    <3>2. \E u \in Waves : Queue!Owns(u)'
        BY <2>1, <2>2 DEF Queue!Owns
    <3> QED
        BY <1>2, <1>6, <3>1, <3>2
  <2>3. CASE ~ \E u \in Waves : queue_pc[u] = "count_off"
    <3>1. n = curr_size_ - 0 /\ Queue!InQueue' = curr_size_' - 0
        BY <1>5, <2>1, <2>3 DEF Queue!InQueue
    <3> QED
        BY <1>2, <1>6, <3>1
  <2> QED
      BY <2>2, <2>3
<1>8. Queue!Owners' = Queue!Owners \ {w} /\ w \in Queue!Owners
    BY <1>1, <1>2, <1>4 DEF Queue!Owners, Queue!Owns, Queue!TypeOK
<1>9. /\ Queue!Cardinality(Queue!Owners') \in Nat
      /\ (n + 1) + Queue!Cardinality(Queue!Owners') = Queue!size_
      /\ Queue!Owners' # {} => Queue!Cardinality(Queue!Owners') > 0
  <2>1. Queue!Owners \in SUBSET Waves /\ Queue!Owners' \in SUBSET Waves
      BY DEF Queue!Owners
  <2>2. /\ Queue!Cardinality(Queue!Owners) \in Nat
        /\ Queue!Cardinality(Queue!Owners') = Queue!Cardinality(Queue!Owners) - 1
      BY <1>8, <2>1, WavesFinite
  <2>3. /\ Queue!Cardinality(Queue!Owners') \in Nat
        /\ Queue!Owners' # {} => Queue!Cardinality(Queue!Owners') > 0
      BY <2>1, WavesFinite
  <2>4. n + Queue!Cardinality(Queue!Owners) = Queue!size_
      BY <1>1, <1>5 DEF Queue!Balanced
  <2> QED
      BY <1>6, <2>2, <2>3, <2>4
<1>10. curr_size_' \in 0..Queue!size_
  <2>1. CASE curr_size_' = n + 1
      BY <1>5, <1>6, <2>1
  <2>2. CASE \E u \in Waves : Queue!Owns(u)' /\ curr_size_' = n + 2
    <3>1. Queue!Owners' # {}
        BY <2>2 DEF Queue!Owners
    <3> QED
        BY <1>6, <1>9, <2>2, <3>1
  <2> QED
      BY <1>7, <2>1, <2>2
<1>11. enqueue_mutex_ # << >> /\ enqueue_mutex_ \in Seq(Waves)
    BY <1>1, <1>2 DEF Queue!LocksHeld, Queue!Holds, Queue!TypeOK
<1>12. Queue!TypeOK'
    BY <1>1, <1>2, <1>10, <1>11 DEF Queue!TypeOK
<1>13. Queue!LocksHeld'
    BY <1>1, <1>2, <1>3 DEF Queue!LocksHeld, Queue!TypeOK
<1>14. Queue!Balanced'
  <2>1. n + 1 \in 0..Queue!size_ /\ n + 1 > 0
      BY <1>5, <1>6
  <2>2. ASSUME NEW u \in Waves, Queue!Owns(u)' PROVE queue_buf'[u] # NoBuf
    <3>1. Queue!Owns(u)
        BY <1>1, <1>2, <1>4, <2>2 DEF Queue!Owns, Queue!TypeOK
    <3> QED
        BY <1>1, <1>2, <3>1 DEF Queue!Balanced
  <2> QED
      BY <1>7, <1>9, <2>1, <2>2 DEF Queue!Balanced
<1>15. ASSUME NEW k PROVE Queue!Slot(k)' = Queue!Slot(k)
    BY <1>2 DEF Queue!Slot
<1>16. Queue!Placed'
  <2>1. Queue!Uncounted = 1 /\ Queue!Uncounted' = 0
      BY <1>2, <1>3 DEF Queue!Uncounted
  <2>2. tail_ = Queue!Slot(n + 1) /\ (n + 1) + 0 = n + 1
      BY <1>1, <1>5, <2>1 DEF Queue!Placed
  <2>3. tail_' = Queue!Slot(Queue!InQueue + Queue!Uncounted)'
      BY <1>2, <1>7, <1>15, <2>1, <2>2
  <2> QED
      BY <1>3, <2>3 DEF Queue!Placed
<1>17. Queue!IInv'
    BY <1>12, <1>13, <1>14, <1>16 DEF Queue!IInv
<1>18. ElementsInOrder /\ ElementsInOrder' /\ Queue!BufferSet' = Queue!BufferSet
  <2>1. ElementsInOrder /\ ElementsInOrder'
      BY <1>17, ElementsAre, PTL
  <2> QED
      BY <2>1 DEF Queue!BufferSet, Queue!size_
<1>19. queue_buf[w] \in Queue!BufferSet /\ queue_buf[w] # NoBuf
    BY <1>1, <1>4 DEF Queue!Balanced, Queue!TypeOK
<1>20. Queue!Elements' = Append(Queue!Elements, queue_buf[w])
  <2>1. /\ Append(Queue!Elements, queue_buf[w]) \in Seq(Queue!BufferSet)
        /\ Len(Append(Queue!Elements, queue_buf[w])) = n + 1
        /\ \A i \in 1..n : Append(Queue!Elements, queue_buf[w])[i] = Queue!Elements[i]
        /\ Append(Queue!Elements, queue_buf[w])[n + 1] = queue_buf[w]
      BY <1>5, <1>18, <1>19 DEF ElementsInOrder
  <2>2. Queue!Elements' \in Seq(Queue!BufferSet) /\ Len(Queue!Elements') = n + 1
      BY <1>7, <1>18 DEF ElementsInOrder
  <2>3. ASSUME NEW i \in 1..(n + 1) PROVE Queue!Elements'[i] = queue_[Queue!Slot(i - 1)]
      BY <1>2, <1>7, <1>15, <1>18 DEF ElementsInOrder
  <2>4. ASSUME NEW i \in 1..n PROVE Queue!Elements'[i] = Queue!Elements[i]
      BY <1>5, <1>18, <2>3 DEF ElementsInOrder
  <2>5. Queue!Elements'[n + 1] = queue_buf[w]
    <3>1. n + 1 \in 1..(n + 1) /\ (n + 1) - 1 = n
        OBVIOUS
    <3> QED
        BY <1>1, <1>2, <1>5, <2>3, <3>1 DEF Queue!Placed
  <2>6. \A i \in 1..(n + 1) : Queue!Elements'[i] = Append(Queue!Elements, queue_buf[w])[i]
      BY <2>1, <2>4, <2>5
  <2> QED
      BY <2>1, <2>2, <2>6, SameSeq
<1>21. /\ Queue!Held[w] = queue_buf[w]
       /\ Queue!Held' = [Queue!Held EXCEPT ![w] = NoBuf]
    BY <1>1, <1>2 DEF Queue!Held, Queue!Owns, Queue!TypeOK
<1>22. Queue!Pool!Give(w)
    BY <1>19, <1>20, <1>21 DEF Queue!Pool!Give
<1> QED
    BY <1>17, <1>22

(* The constructor fills the queue exactly.                                *)
LEMMA QueueInit ==
    ASSUME Queue!WFQueueAssumption, Queue!Init
    PROVE  Queue!IInv /\ Queue!Pool!Init
<1>1. Queue!size_ \in Nat \ {0}
    BY SizeIsPositive
<1>2. Queue!TypeOK
  <2>1. ASSUME NEW i \in 0..(Queue!size_ - 1) PROVE Buffers[i + 1] \in Queue!BufferSet
    <3>1. i + 1 \in 1..Queue!size_
        BY <1>1
    <3> QED
        BY <3>1 DEF Queue!BufferSet
  <2>2. queue_ \in [0..(Queue!size_ - 1) -> Queue!BufferSet]
      BY <2>1 DEF Queue!Init
  <2> QED
      BY <1>1, <2>2 DEF Queue!Init, Queue!TypeOK
<1>3. Queue!LocksHeld
    BY DEF Queue!Init, Queue!LocksHeld
<1>4. Queue!InQueue = Queue!size_ /\ Queue!Uncounted = 0 /\ Queue!Owners = {}
  <2>1. Queue!InQueue = curr_size_ - 0 /\ Queue!Uncounted = 0 /\ Queue!Owners = {}
      BY DEF Queue!Init, Queue!InQueue, Queue!Uncounted, Queue!Owners, Queue!Owns
  <2> QED
      BY <1>1, <2>1 DEF Queue!Init
<1>5. Queue!Balanced
  <2>1. Queue!Cardinality({}) = 0
      BY WavesFinite
  <2>2. \A w \in Waves : queue_pc[w] # "take" /\ ~Queue!Owns(w)
      BY DEF Queue!Init, Queue!Owns
  <2> QED
      BY <1>1, <1>4, <2>1, <2>2 DEF Queue!Balanced
<1>6. Queue!Placed
  <2>1. Queue!Slot(Queue!size_ + 0) = 0
    <3>1. ASSUME NEW m \in Nat \ {0} PROVE (0 + (m + 0)) % m = 0
        OBVIOUS
    <3> QED
        BY <1>1, <3>1 DEF Queue!Slot, Queue!Init
  <2> QED
      BY <1>4, <2>1 DEF Queue!Placed, Queue!Init
<1>7. Queue!Elements = Buffers
  <2>1. ASSUME NEW i \in 1..Queue!size_ PROVE queue_[Queue!Slot(i - 1)] = Buffers[i]
    <3>1. i - 1 \in 0..(Queue!size_ - 1) /\ (i - 1) + 1 = i /\ 0 + (i - 1) = i - 1
        BY <1>1
    <3>2. ASSUME NEW m \in Nat \ {0}, NEW x \in 0..(m - 1) PROVE (0 + x) % m = x
        OBVIOUS
    <3>3. Queue!Slot(i - 1) = i - 1
        BY <1>1, <3>1, <3>2 DEF Queue!Slot, Queue!Init
    <3> QED
        BY <3>1, <3>3 DEF Queue!Init
  <2>2. Buffers = [i \in 1..Queue!size_ |-> Buffers[i]]
      BY DEF Queue!WFQueueAssumption
  <2>3. Queue!Elements = [i \in 1..Queue!size_ |-> queue_[Queue!Slot(i - 1)]]
      BY <1>4 DEF Queue!Elements
  <2>4. Queue!Elements = [i \in 1..Queue!size_ |-> Buffers[i]]
      BY <2>1, <2>3
  <2> QED
      BY <2>2, <2>4
<1>8. Queue!Held = [w \in Waves |-> NoBuf]
    BY DEF Queue!Held, Queue!Owns, Queue!Init
<1> QED
    BY <1>2, <1>3, <1>5, <1>6, <1>7, <1>8 DEF Queue!IInv, Queue!Pool!Init

(* One step of the queue: the invariant is kept, and the elements and what *)
(* the wavefronts hold change as the pool says.                            *)
LEMMA QueueStep ==
    ASSUME Queue!WFQueueAssumption, Queue!IInv, [Queue!Next]_(Queue!vars)
    PROVE  Queue!IInv' /\ [Queue!Pool!Next]_<<Queue!Elements, Queue!Held>>
<1>1. CASE UNCHANGED Queue!vars
  <2>1. UNCHANGED <<head_, tail_, curr_size_, queue_, dequeue_mutex_,
                    enqueue_mutex_, contents, queue_pc, queue_buf>>
      BY <1>1 DEF Queue!vars, Queue!ring
  <2>2. Queue!TypeOK' /\ Queue!LocksHeld'
      BY <2>1 DEF Queue!IInv, Queue!TypeOK, Queue!LocksHeld, Queue!Holds
  <2>3. ASSUME NEW u \in Waves
        PROVE  /\ queue_pc'[u] = "count_off" <=> queue_pc[u] = "count_off"
               /\ queue_pc'[u] = "count" <=> queue_pc[u] = "count"
               /\ Queue!Owns(u)' <=> Queue!Owns(u)
               /\ Queue!Owns(u) => queue_buf'[u] = queue_buf[u]
               /\ queue_pc'[u] = "take" => Queue!InQueue > 0
      BY <2>1 DEF Queue!IInv, Queue!Owns, Queue!Balanced
  <2> QED
      BY <2>1, <2>2, <2>3, Undisturbed DEF Queue!IInv
<1>2. ASSUME NEW w \in Waves,
             \/ Queue!LockDequeue(w) \/ Queue!WaitNotEmpty(w) \/ Queue!CountOff(w)
             \/ Queue!Result(w) \/ Queue!LockEnqueue(w) \/ Queue!AssertNotFull(w)
             \/ Queue!enqueue(w) \/ Queue!Read(w)
      PROVE  Queue!IInv' /\ UNCHANGED <<Queue!Elements, Queue!Held>>
    BY <1>2, QueueLockDequeue, QueueWaitNotEmpty, QueueCountOff, QueueResult,
       QueueLockEnqueue, QueueAssertNotFull, QueueEnqueue, QueueRead
<1>3. ASSUME NEW w \in Waves, Queue!dequeue(w)
      PROVE  Queue!IInv' /\ Queue!Pool!Next
    BY <1>3, QueueDequeue DEF Queue!Pool!Next
<1>4. ASSUME NEW w \in Waves, Queue!Count(w)
      PROVE  Queue!IInv' /\ Queue!Pool!Next
    BY <1>4, QueueCount DEF Queue!Pool!Next
<1> QED
    BY <1>1, <1>2, <1>3, <1>4 DEF Queue!Next, Queue!Advance

(* Whatever the interleaving of dequeuers and enqueuers, the counts of     *)
(* elements and of buffers in use add up to the size of the ring.          *)
THEOREM WFQueueInductive ==
    Queue!WFQueueAssumption /\ Queue!Spec => []Queue!IInv
<1> SUFFICES ASSUME Queue!WFQueueAssumption PROVE Queue!Spec => []Queue!IInv
    OBVIOUS
<1>1. Queue!Init => Queue!IInv
    BY QueueInit
<1>2. Queue!IInv /\ [Queue!Next]_(Queue!vars) => Queue!IInv'
    BY QueueStep
<1> QED
    BY <1>1, <1>2, PTL DEF Queue!Spec

(* enqueue's assertion never fails: "There should always be space          *)
(* available", although dequeuers change curr_size_ meanwhile.             *)
THEOREM WFQueueHasSpace ==
    Queue!WFQueueAssumption /\ Queue!Spec => []Queue!SpaceAvailable
<1> SUFFICES ASSUME Queue!WFQueueAssumption
             PROVE  Queue!Spec => []Queue!SpaceAvailable
    OBVIOUS
<1>1. Queue!IInv => Queue!SpaceAvailable
  <2> SUFFICES ASSUME Queue!IInv, NEW w \in Waves, queue_pc[w] = "full"
               PROVE  curr_size_ # Queue!size_
      BY DEF Queue!SpaceAvailable, Queue!is_full
  <2>1. Queue!TypeOK /\ Queue!Balanced
      BY DEF Queue!IInv
  <2>2. curr_size_ \in Nat /\ Queue!size_ \in Nat \ {0}
      BY <2>1, SizeIsPositive DEF Queue!TypeOK
  <2>3. w \in Queue!Owners /\ Queue!Owners \in SUBSET Waves
      BY DEF Queue!Owners, Queue!Owns
  <2>4. /\ Queue!Cardinality(Queue!Owners) \in Nat /\ Queue!Cardinality(Queue!Owners) > 0
        /\ Queue!Cardinality(Queue!Owners \ {w}) = Queue!Cardinality(Queue!Owners) - 1
      BY <2>3, WavesFinite
  <2>5. Queue!InQueue \in Nat /\ Queue!InQueue + Queue!Cardinality(Queue!Owners) = Queue!size_
      BY <2>1, <2>2 DEF Queue!Balanced
  <2>6. CASE ~ \E u \in Waves : queue_pc[u] = "count_off"
    <3>1. Queue!InQueue = curr_size_ - 0
        BY <2>6, InQueueIs
    <3> QED
        BY <2>2, <2>4, <2>5, <3>1
  <2>7. CASE \E u \in Waves : queue_pc[u] = "count_off"
    <3>1. Queue!Owners \ {w} # {} /\ Queue!Owners \ {w} \in SUBSET Waves
        BY <2>7 DEF Queue!Owners, Queue!Owns
    <3>2. Queue!Cardinality(Queue!Owners \ {w}) > 0
        BY <3>1, WavesFinite
    <3>3. Queue!InQueue = curr_size_ - 1
        BY <2>7, InQueueIs
    <3> QED
        BY <2>2, <2>4, <2>5, <3>2, <3>3
  <2> QED
      BY <2>6, <2>7
<1> QED
    BY <1>1, WFQueueInductive, PTL

(* The queue is a first-in first-out pool: a dequeue takes the buffer that *)
(* was given back first, and none is lost, doubled or overtaken.           *)
THEOREM WFQueueImplementsPool ==
    Queue!WFQueueAssumption /\ Queue!Spec => Queue!ImplementsPool
<1> SUFFICES ASSUME Queue!WFQueueAssumption
             PROVE  Queue!Spec => Queue!ImplementsPool
    OBVIOUS
<1>1. Queue!Init => Queue!Pool!Init
    BY QueueInit
<1>2. Queue!IInv /\ [Queue!Next]_(Queue!vars)
        => [Queue!Pool!Next]_<<Queue!Elements, Queue!Held>>
    BY QueueStep
<1> QED
    BY <1>1, <1>2, WFQueueInductive, PTL
       DEF Queue!Spec, Queue!ImplementsPool, Queue!Pool!Spec

(* Two wavefronts never have the same result buffer or status flag, and    *)
(* none of them is in the queue while a wavefront uses it.                 *)
THEOREM WFQueueExclusive ==
    Queue!WFQueueAssumption /\ Queue!Spec => []Queue!Pool!Exclusive
<1> SUFFICES ASSUME Queue!WFQueueAssumption
             PROVE  Queue!Spec => []Queue!Pool!Exclusive
    OBVIOUS
<1>1. Queue!Init => Queue!Pool!Exclusive
  <2> SUFFICES ASSUME Queue!Init PROVE Queue!Pool!Exclusive
      OBVIOUS
  <2>1. Queue!Elements = Buffers /\ Queue!Held = [w \in Waves |-> NoBuf]
      BY QueueInit DEF Queue!Pool!Init
  <2> QED
      BY <2>1 DEF Queue!Pool!Exclusive, Queue!WFQueueAssumption, Queue!size_
<1>2. /\ Queue!IInv /\ Queue!IInv' /\ Queue!Pool!Exclusive
      /\ [Queue!Pool!Next]_<<Queue!Elements, Queue!Held>>
      => Queue!Pool!Exclusive'
  <2> SUFFICES ASSUME Queue!IInv, Queue!IInv', Queue!Pool!Exclusive,
                      [Queue!Pool!Next]_<<Queue!Elements, Queue!Held>>
               PROVE  Queue!Pool!Exclusive'
      OBVIOUS
  <2>1. Queue!Elements \in Seq(Queue!BufferSet)
      BY ElementsAre DEF ElementsInOrder
  <2>2. \A i \in 1..Len(Queue!Elements) : Queue!Elements[i] # NoBuf
      BY <2>1, SizeIsPositive
  <2>3. Queue!Held = [w \in Waves |-> Queue!Held[w]]
      BY DEF Queue!Held
  <2>4. CASE UNCHANGED <<Queue!Elements, Queue!Held>>
      BY <2>4 DEF Queue!Pool!Exclusive
  <2>5. ASSUME NEW w \in Waves, Queue!Pool!Take(w) PROVE Queue!Pool!Exclusive'
    <3>1. /\ Queue!Held[w] = NoBuf /\ Queue!Elements # << >>
          /\ Queue!Held' = [Queue!Held EXCEPT ![w] = Head(Queue!Elements)]
          /\ Queue!Elements' = Tail(Queue!Elements)
        BY <2>5 DEF Queue!Pool!Take
    <3>2. PICK n \in Nat : n = Len(Queue!Elements) /\ n > 0
        BY <2>1, <3>1
    <3>3. /\ Len(Queue!Elements') = n - 1
          /\ \A i \in 1..(n - 1) : Queue!Elements'[i] = Queue!Elements[i + 1]
        BY <2>1, <3>1, <3>2
    <3>4. /\ Queue!Held'[w] = Queue!Elements[1]
          /\ \A u \in Waves : u # w => Queue!Held'[u] = Queue!Held[u]
        BY <2>1, <2>3, <3>1, <3>2
    <3>5. \A i, j \in 1..(n - 1) : Queue!Elements'[i] = Queue!Elements'[j] => i = j
      <4> SUFFICES ASSUME NEW i \in 1..(n - 1), NEW j \in 1..(n - 1),
                          Queue!Elements'[i] = Queue!Elements'[j]
                   PROVE  i = j
          OBVIOUS
      <4>1. i + 1 \in 1..n /\ j + 1 \in 1..n
          BY <3>2
      <4>2. i + 1 = j + 1
          BY <3>2, <3>3, <4>1 DEF Queue!Pool!Exclusive
      <4> QED
          BY <4>2
    <3>6. ASSUME NEW i \in 1..(n - 1) PROVE Queue!Elements'[i] # Queue!Held'[w]
      <4>1. i + 1 \in 1..n /\ 1 \in 1..n /\ i + 1 # 1
          BY <3>2
      <4> QED
          BY <3>2, <3>3, <3>4, <4>1 DEF Queue!Pool!Exclusive
    <3>7. ASSUME NEW u \in Waves, u # w, Queue!Held'[u] # NoBuf,
                 NEW i \in 1..(n - 1)
          PROVE  Queue!Elements'[i] # Queue!Held'[u]
      <4>1. i + 1 \in 1..n
          BY <3>2
      <4> QED
          BY <3>2, <3>3, <3>4, <3>7, <4>1 DEF Queue!Pool!Exclusive
    <3>8. ASSUME NEW u \in Waves, NEW v \in Waves, Queue!Held'[u] # NoBuf,
                 Queue!Held'[v] = Queue!Held'[u]
          PROVE  v = u
      <4>1. 1 \in 1..Len(Queue!Elements)
          BY <3>2
      <4> QED
          BY <3>4, <3>8, <4>1 DEF Queue!Pool!Exclusive
    <3> QED
        BY <3>3, <3>5, <3>6, <3>7, <3>8 DEF Queue!Pool!Exclusive
  <2>6. ASSUME NEW w \in Waves, Queue!Pool!Give(w) PROVE Queue!Pool!Exclusive'
    <3>1. /\ Queue!Held[w] # NoBuf
          /\ Queue!Elements' = Append(Queue!Elements, Queue!Held[w])
          /\ Queue!Held' = [Queue!Held EXCEPT ![w] = NoBuf]
        BY <2>6 DEF Queue!Pool!Give
    <3>2. PICK n \in Nat : n = Len(Queue!Elements)
        BY <2>1
    <3>3. /\ Len(Queue!Elements') = n + 1 /\ Queue!Elements'[n + 1] = Queue!Held[w]
          /\ \A i \in 1..n : Queue!Elements'[i] = Queue!Elements[i]
        BY <2>1, <3>1, <3>2
    <3>4. /\ Queue!Held'[w] = NoBuf
          /\ \A u \in Waves : u # w => Queue!Held'[u] = Queue!Held[u]
        BY <2>3, <3>1
    <3>5. \A i \in 1..(n + 1) : i \in 1..n \/ i = n + 1
        OBVIOUS
    <3>6. \A i, j \in 1..(n + 1) : Queue!Elements'[i] = Queue!Elements'[j] => i = j
        BY <3>1, <3>2, <3>3, <3>5 DEF Queue!Pool!Exclusive
    <3>7. ASSUME NEW u \in Waves, Queue!Held'[u] # NoBuf, NEW i \in 1..(n + 1)
          PROVE  Queue!Elements'[i] # Queue!Held'[u]
        BY <3>1, <3>2, <3>3, <3>4, <3>5, <3>7 DEF Queue!Pool!Exclusive
    <3>8. ASSUME NEW u \in Waves, NEW v \in Waves, Queue!Held'[u] # NoBuf,
                 Queue!Held'[v] = Queue!Held'[u]
          PROVE  v = u
        BY <3>4, <3>8 DEF Queue!Pool!Exclusive
    <3> QED
        BY <3>3, <3>6, <3>7, <3>8 DEF Queue!Pool!Exclusive
  <2> QED
      BY <2>4, <2>5, <2>6 DEF Queue!Pool!Next
<1> QED
    BY <1>1, <1>2, WFQueueInductive, WFQueueImplementsPool, PTL
       DEF Queue!Spec, Queue!ImplementsPool, Queue!Pool!Spec
=============================================================================
