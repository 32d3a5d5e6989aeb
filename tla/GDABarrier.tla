------------------------------ MODULE GDABarrier ------------------------------
(***************************************************************************)
(* The barriers of the GDA backend (gda/context_gda_device_coll.cpp).  The *)
(* protocol is the one of the IPC backend, but a put is an RDMA write: it  *)
(* is posted, lands later, and reads its source word when the adapter      *)
(* executes it unless the value was copied into the work request.          *)
(***************************************************************************)
EXTENDS Integers

CONSTANTS
    World,              \* the PEs, 0..World-1
    PE_start, Stride, N,
    DirectLimit,        \* 64: from this size on the arrivals are counted
    Wg,                 \* the call is sync_wg: the root's wavefronts share it
    Wfs,                \* wf_count: wavefronts of the root's work-group
    Inline,             \* the adapter's work requests carry small values
    MaxRounds           \* bound on the barriers a PE enters

PEs == 0..(World - 1)
Offsets == 0..(N - 1)
Waves == 0..(Wfs - 1)
Target(k) == PE_start + k * Stride
Members == {Target(k) : k \in Offsets}
pe_offset(pe) == (pe - PE_start) \div Stride

VARIABLES
    pSync,          \* per PE: the team's barrier_pSync
    flight,         \* RDMA operations posted and not yet executed
    pc,             \* per member
    i,              \* the root's loop index, per wavefront
    entered, left   \* history: barriers entered and left

vars == <<pSync, flight, pc, i, entered, left>>

Init ==
    /\ pSync = [p \in PEs |-> [o \in Offsets |-> 0]]
    /\ flight = {}
    /\ pc = [p \in Members |-> "idle"]
    /\ i = [w \in Waves |-> 0]
    /\ entered = [p \in Members |-> 0] /\ left = [p \in Members |-> 0]

Goto(p, l) == pc' = [pc EXCEPT ![p] = l]
Step(p, from, to) == pc[p] = from /\ Goto(p, to)
Store(p, o, v) == pSync' = [pSync EXCEPT ![p][o] = v]
Leave(p) == Goto(p, "idle") /\ left' = [left EXCEPT ![p] = @ + 1]

(* put_nbi of the word o to the same word of pe.  A request without a value *)
(* reads the sender's word when it is executed.                            *)
Unread == -1
Write(p, pe, o, source) ==
    [from |-> p, to |-> pe, o |-> o, op |-> "write", source |-> source]
Source(p, o) == IF Inline THEN pSync[p][o] ELSE Unread
put_nbi(m) == flight' = flight \cup {m}

(* quiet of the queue pairs to the PEs in S.                               *)
Quiet(p, S) == ~ \E m \in flight : m.from = p /\ m.to \in S

(* The adapter executes an operation; each PE has its own queue pair.      *)
Execute(m) ==
    /\ flight' = flight \ {m}
    /\ LET v == IF m.source = Unread THEN pSync[m.from][m.o] ELSE m.source
       IN  Store(m.to, m.o, IF m.op = "add" THEN pSync[m.to][m.o] + v ELSE v)
    /\ UNCHANGED <<pc, i, entered, left>>
-----------------------------------------------------------------------------
Form == IF N >= DirectLimit THEN "atomic" ELSE IF Wg THEN "wg" ELSE "direct"

(* internal_sync, internal_sync_wave and internal_sync_wg.                 *)
internal_sync(p) ==
    /\ pc[p] = "idle" /\ entered[p] < MaxRounds
    /\ entered' = [entered EXCEPT ![p] = @ + 1]
    /\ IF p = PE_start
       THEN /\ i' = [w \in Waves |-> w + 1]
            /\ Goto(p, CASE Form = "direct" -> "collect"
                         [] Form = "wg"     -> "collect_wg"
                         [] Form = "atomic" -> "count")
       ELSE /\ UNCHANGED i
            /\ Goto(p, CASE Form = "direct" -> "mark"
                         [] Form = "wg"     -> "arrive"
                         [] Form = "atomic" -> "add")
    /\ UNCHANGED <<pSync, flight, left>>
-----------------------------------------------------------------------------
(* internal_direct_barrier, the root.  Wait for each word and reset it.    *)
Collect ==
    /\ pc[PE_start] = "collect"
    /\ IF i[0] < N
       THEN pSync[PE_start][i[0]] = 1 /\ Goto(PE_start, "clear") /\ UNCHANGED i
       ELSE Goto(PE_start, "source") /\ i' = [i EXCEPT ![0] = 1]
    /\ UNCHANGED <<pSync, flight, entered, left>>

(* Mutant: a word that was seen is not reset.                              *)
ForgetClear ==
    /\ Step(PE_start, "clear", "collect")
    /\ i' = [i EXCEPT ![0] = @ + 1]
    /\ UNCHANGED <<pSync, flight, entered, left>>

Clear ==
    /\ Step(PE_start, "clear", "collect")
    /\ Store(PE_start, i[0], 0) /\ i' = [i EXCEPT ![0] = @ + 1]
    /\ UNCHANGED <<flight, entered, left>>

SetSource ==
    /\ pc[PE_start] = "source" /\ i[0] < N
    /\ Store(PE_start, 0, 1)
    /\ Goto(PE_start, "announce")
    /\ UNCHANGED <<flight, i, entered, left>>

(* Each announcement is a blocking put: post, then quiet.                  *)
Announce ==
    /\ Step(PE_start, "announce", "announced")
    /\ put_nbi(Write(PE_start, Target(i[0]), 0, Source(PE_start, 0)))
    /\ UNCHANGED <<pSync, i, entered, left>>

Announced ==
    /\ Step(PE_start, "announced", "source")
    /\ Quiet(PE_start, {Target(i[0])})
    /\ i' = [i EXCEPT ![0] = @ + 1]
    /\ UNCHANGED <<pSync, flight, entered, left>>

Finish ==
    /\ pc[PE_start] = "source" /\ i[0] >= N
    /\ Store(PE_start, 0, 0) /\ Leave(PE_start)
    /\ UNCHANGED <<flight, i, entered>>

(* The others: the arrival is put from the own word of the same offset.    *)
Mark(p) ==
    /\ Step(p, "mark", "arrive")
    /\ Store(p, pe_offset(p), 1)
    /\ UNCHANGED <<flight, i, entered, left>>

Arrive(p) ==
    /\ Step(p, "arrive", "arrived")
    /\ put_nbi(Write(p, PE_start, pe_offset(p),
                     IF Form = "wg" THEN 1 ELSE Source(p, pe_offset(p))))
    /\ UNCHANGED <<pSync, i, entered, left>>

Arrived(p) ==
    /\ Step(p, "arrived", "wait") /\ Quiet(p, {PE_start})
    /\ UNCHANGED <<pSync, flight, i, entered, left>>

wait_until(p) ==
    /\ Step(p, "wait", "reset") /\ pSync[p][0] = 1
    /\ UNCHANGED <<pSync, flight, i, entered, left>>

Reset(p) ==
    /\ pc[p] = "reset"
    /\ Store(p, 0, 0)
    /\ IF Form = "direct" THEN Goto(p, "unmark") /\ UNCHANGED left ELSE Leave(p)
    /\ UNCHANGED <<flight, i, entered>>

Unmark(p) ==
    /\ pc[p] = "unmark"
    /\ Store(p, pe_offset(p), 0) /\ Leave(p)
    /\ UNCHANGED <<flight, i, entered>>
-----------------------------------------------------------------------------
(* internal_direct_barrier_wg, the root: each wavefront takes every        *)
(* wf_count-th member.  The wait and the reset are one step: the member     *)
(* does not touch a word it has set until it is released.                  *)
CollectWg(w) ==
    /\ pc[PE_start] = "collect_wg" /\ i[w] < N
    /\ pSync[PE_start][i[w]] = 1
    /\ Store(PE_start, i[w], 0) /\ i' = [i EXCEPT ![w] = @ + Wfs]
    /\ UNCHANGED <<flight, pc, entered, left>>

Syncthreads ==
    /\ pc[PE_start] = "collect_wg" /\ \A w \in Waves : i[w] >= N
    /\ Goto(PE_start, "announce_wg") /\ i' = [w \in Waves |-> w + 1]
    /\ UNCHANGED <<pSync, flight, entered, left>>

(* The PE a wavefront announces to when its index is k: j starts at        *)
(* PE_start + stride + wf_id and advances by wf_count * stride.            *)
WgTarget(w, k) ==
    PE_start + Stride + w + ((k - (w + 1)) \div Wfs) * (Wfs * Stride)

AnnounceWg(w) ==
    /\ pc[PE_start] = "announce_wg" /\ i[w] < N
    /\ put_nbi(Write(PE_start, WgTarget(w, i[w]), 0, 1))
    /\ i' = [i EXCEPT ![w] = @ + Wfs]
    /\ UNCHANGED <<pSync, pc, entered, left>>

(* Every wavefront has waited for its queue pairs; thread 0 resets pSync.  *)
FinishWg ==
    /\ pc[PE_start] = "announce_wg" /\ \A w \in Waves : i[w] >= N
    /\ Quiet(PE_start, PEs)
    /\ Store(PE_start, 0, 0) /\ Leave(PE_start)
    /\ UNCHANGED <<flight, i, entered>>
-----------------------------------------------------------------------------
(* Mutant: the root does not count to the last arrival.                    *)
CountShort ==
    /\ Step(PE_start, "count", "zero") /\ pSync[PE_start][0] = N - 2
    /\ UNCHANGED <<pSync, flight, i, entered, left>>

(* internal_atomic_barrier: the word that counts the arrivals is also the  *)
(* word the announcement is sent from.                                     *)
Count ==
    /\ Step(PE_start, "count", "zero") /\ pSync[PE_start][0] = N - 1
    /\ UNCHANGED <<pSync, flight, i, entered, left>>

Zero ==
    /\ Step(PE_start, "zero", "flag")
    /\ Store(PE_start, 0, 0)
    /\ UNCHANGED <<flight, i, entered, left>>

Flag ==
    /\ Step(PE_start, "flag", "send")
    /\ Store(PE_start, 0, 1)
    /\ UNCHANGED <<flight, i, entered, left>>

Send ==
    /\ pc[PE_start] = "send" /\ i[0] < N
    /\ put_nbi(Write(PE_start, Target(i[0]), 0, Source(PE_start, 0)))
    /\ i' = [i EXCEPT ![0] = @ + 1]
    /\ UNCHANGED <<pSync, pc, entered, left>>

QuietAndReset ==
    /\ pc[PE_start] = "send" /\ i[0] >= N
    /\ Quiet(PE_start, PEs)
    /\ Store(PE_start, 0, 0) /\ Leave(PE_start)
    /\ UNCHANGED <<flight, i, entered>>

amo_add(p) ==
    /\ Step(p, "add", "wait")
    /\ put_nbi([from |-> p, to |-> PE_start, o |-> 0, op |-> "add",
                source |-> 1])
    /\ UNCHANGED <<pSync, i, entered, left>>
-----------------------------------------------------------------------------
Root == \/ Collect \/ Clear \/ SetSource \/ Announce \/ Announced \/ Finish
        \/ Syncthreads \/ FinishWg
        \/ Count \/ Zero \/ Flag \/ Send \/ QuietAndReset
Wave(w) == CollectWg(w) \/ AnnounceWg(w)
Other(p) == \/ Mark(p) \/ Arrive(p) \/ Arrived(p) \/ amo_add(p)
            \/ wait_until(p) \/ Reset(p) \/ Unmark(p)
Adapter == \E m \in flight : Execute(m)

Next == \/ Root \/ Adapter
        \/ \E w \in Waves : Wave(w)
        \/ \E p \in Members : internal_sync(p) \/ Other(p)

(* Barriers are collective: every PE calls them, its wavefronts run and    *)
(* its adapter executes what was posted.                                   *)
Fairness ==
    /\ WF_vars(Root) /\ WF_vars(Adapter)
    /\ \A w \in Waves : WF_vars(Wave(w))
    /\ \A p \in Members : WF_vars(internal_sync(p)) /\ WF_vars(Other(p))
Spec == Init /\ [][Next]_vars /\ Fairness
-----------------------------------------------------------------------------
TypeOK ==
    /\ pSync \in [PEs -> [Offsets -> 0..N]]
    /\ \A m \in flight : m.from \in Members /\ m.to \in PEs /\ m.o \in Offsets
    /\ i \in [Waves -> 0..(N + Wfs)]
    /\ entered \in [Members -> 0..MaxRounds] /\ left \in [Members -> 0..MaxRounds]

(* Nobody leaves a barrier that somebody has not entered.                  *)
NobodyLeavesEarly ==
    \A p, o \in Members : left[p] <= entered[o]

(* When everybody has left the same barrier the words are as before it,    *)
(* and no write to them is on its way.                                     *)
QuiescentIsClean ==
    (\A p \in Members : pc[p] = "idle" /\ left[p] = left[PE_start])
        => flight = {} /\ pSync = [p \in PEs |-> [o \in Offsets |-> 0]]

(* Every PE leaves every barrier it has entered.                           *)
EveryBarrierReturns ==
    \A p \in Members : pc[p] # "idle" ~> pc[p] = "idle"

(* The barrier does what Barrier says of entering and leaving.             *)
B == INSTANCE Barrier
ImplementsBarrier == B!Spec
-----------------------------------------------------------------------------
(* Why the barrier with a word per member works, in its direct and its wg  *)
(* form.  The root deals with each member once per round: its word is      *)
(* pending until it was seen and reset, and the member is released when    *)
(* the announcement to it was posted and has landed.                       *)
GDAAssumption ==
    /\ {World, PE_start, DirectLimit, MaxRounds} \subseteq Nat
    /\ {Stride, N, Wfs} \subseteq Nat \ {0}
    /\ PE_start + (N - 1) * Stride < World
    /\ {Wg, Inline} \subseteq BOOLEAN

Others == 1..(N - 1)
Value == IF Form = "wg" \/ Inline THEN 1 ELSE Unread
Arrival(o) == Write(Target(o), PE_start, o, Value)
Announcement(o) == Write(PE_start, Target(o), 0, Value)

(* The index of the wavefront that deals with a member.                    *)
Index(o) == i[IF Form = "wg" THEN (o - 1) % Wfs ELSE 0]

Pending(o) == pc[PE_start] \in {"collect", "clear", "collect_wg"} /\ Index(o) <= o

Posted(o) ==
    \/ pc[PE_start] = "idle"
    \/ /\ pc[PE_start] \in {"source", "announce", "announced", "announce_wg"}
       /\ Index(o) > o
    \/ pc[PE_start] = "announced" /\ Index(o) = o

Released(o) == Posted(o) /\ Announcement(o) \notin flight

(* A member that was collected waits.  Before and after that it is still   *)
(* leaving the barrier it was last released from, or has entered the next. *)
Waiting(round, arriving, e, l, word, flag) ==
    /\ e = round /\ l \in {"arrived", "wait"} /\ ~arriving /\ word = 0 /\ flag = 0
Leaving(round, arriving, e, l, word, flag) ==
    /\ e = round /\ ~arriving /\ word = 0
    /\ \/ l \in {"arrived", "wait", "reset"} /\ flag = 1
       \/ l \in {"unmark", "idle"} /\ flag = 0
Entered(round, arriving, e, l, word, flag) ==
    /\ e = round /\ flag = 0
    /\ \/ l \in {"mark", "arrive"} /\ ~arriving /\ word = 0
       \/ l = "arrived" /\ arriving /\ word = 0
       \/ l \in {"arrived", "wait"} /\ ~arriving /\ word = 1

MemberIs(pending, released, arriving, round, e, l, word, flag) ==
    /\ ~pending /\ ~released => Waiting(round, arriving, e, l, word, flag)
    /\ pending /\ ~released => \/ Leaving(round - 1, arriving, e, l, word, flag)
                               \/ Entered(round, arriving, e, l, word, flag)
    /\ ~pending /\ released => \/ Leaving(round, arriving, e, l, word, flag)
                               \/ Entered(round + 1, arriving, e, l, word, flag)

MemberIn(o) ==
    MemberIs(Pending(o), Released(o), Arrival(o) \in flight, entered[PE_start],
             entered[Target(o)], pc[Target(o)], pSync[PE_start][o],
             pSync[Target(o)][0])

(* What is on its way, and by whom it was posted.                          *)
FlightIs ==
    \A m \in flight : \E o \in Others :
        \/ m = Arrival(o) /\ pc[Target(o)] = "arrived"
        \/ /\ m = Announcement(o)
           /\ \/ pc[PE_start] = "announced" /\ i[0] = o
              \/ pc[PE_start] = "announce_wg" /\ Index(o) > o

(* The root's index, and the words that are only a source.                 *)
RootIs ==
    /\ pc[PE_start] \in {"idle"} \cup
         (IF Form = "wg" THEN {"collect_wg", "announce_wg"}
          ELSE {"collect", "clear", "source", "announce", "announced"})
    /\ Form = "wg" => /\ pSync[PE_start][0] = 0
                      /\ \A w \in Waves : i[w] \in Nat
                      /\ pc[PE_start] # "idle" =>
                           \A w \in Waves : i[w] > 0 /\ (i[w] - 1) % Wfs = w
    /\ Form # "wg" =>
         /\ i[0] \in Nat
         /\ pc[PE_start] # "idle" => i[0] \in 1..N
         /\ pc[PE_start] \in {"clear", "announce", "announced"} => i[0] < N
         /\ pc[PE_start] = "clear" => pSync[PE_start][i[0]] = 1
         /\ pSync[PE_start][0] =
              IF \/ pc[PE_start] \in {"announce", "announced"}
                 \/ pc[PE_start] = "source" /\ i[0] > 1 THEN 1 ELSE 0

WordsAre ==
    /\ \A o \in Others : pSync[Target(o)][o] =
         IF Form # "wg" /\ pc[Target(o)] \notin {"idle", "mark"} THEN 1 ELSE 0
    /\ \A p \in PEs \ {PE_start}, k \in Offsets :
         pSync[p][k] = 0 \/ \E o \in Others : p = Target(o) /\ k \in {0, o}

Counts ==
    /\ \A o \in Others : pc[Target(o)] \in
         {"idle", "arrive", "arrived", "wait", "reset"} \cup
         (IF Form = "wg" THEN {} ELSE {"mark", "unmark"})
    /\ \A p \in Members :
         entered[p] = IF pc[p] = "idle" THEN left[p] ELSE left[p] + 1

Types ==
    /\ pSync \in [PEs -> [Offsets -> {0, 1}]]
    /\ pc = [p \in Members |-> pc[p]] /\ DOMAIN i = Waves
    /\ entered \in [Members -> Nat] /\ left \in [Members -> Nat]

IInv ==
    /\ Types /\ Counts /\ RootIs /\ WordsAre /\ FlightIs
    /\ \A o \in Others : MemberIn(o)
=============================================================================
