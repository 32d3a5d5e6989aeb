------------------------------ MODULE ROProxy -------------------------------
(***************************************************************************)
(* The reverse-offload data path of one PE.  Wavefronts of the GPU write   *)
(* commands into the ring of their context (context_ro_device.cpp), the    *)
(* worker thread moves them to the transport's queue (backend_ro.cpp,      *)
(* queue.cpp), and the progress thread submits them to MPI, collects the   *)
(* completions and raises the status byte the wavefront polls              *)
(* (mpi_transport.cpp).                                                    *)
(*                                                                         *)
(* Data is abstracted away: a command is its type, the status byte it      *)
(* names and the communicator it carries.  The record field req is not in  *)
(* the code: it names the command for the properties (its handle, its      *)
(* write index and the communicator its caller passed).                    *)
(***************************************************************************)
EXTENDS Integers, Sequences, FiniteSets

CONSTANTS
    Waves,          \* wavefronts that issue commands
    Lanes,          \* most lanes of a wavefront active in one call
    Handles,        \* BlockHandles
    HandlesOf,      \* the handles of the contexts each wavefront uses
    DefaultHandles, \* those of the default context (status bytes pooled)
    NumRings,       \* poll_block_count_ = max_num_contexts
    RingOf,         \* the ring a BlockHandle was constructed with
    QueueSize,      \* queue_size_
    Buffers,        \* wavefront buffers of default_ctx_status_
    Types,          \* the command types the instance explores
    Comms,          \* communicators of teams other than the world
    MaxWrites,      \* bound on the commands written through one handle
    PollMax,        \* max_count of ro_net_poll
    TestWindow,     \* testsome_indices.size()
    NumPes          \* PEs of a team collective

NULL == "NULL"
NoStatus == << >>   \* a null status pointer
Rings == 0..(NumRings - 1)
Slots == 0..(QueueSize - 1)
LaneIds == 1..Lanes
Items(seq) == {seq[k] : k \in DOMAIN seq}

ASSUME SizesAssumption ==
    /\ QueueSize \in Nat \ {0} /\ Lanes \in Nat \ {0}
    /\ NumRings \in Nat \ {0} /\ PollMax \in Nat \ {0}
    /\ MaxWrites \in Nat /\ TestWindow \in Nat \ {0}
    /\ NumPes \in Nat \ {0}
ASSUME HandlesAssumption ==
    /\ RingOf \in [Handles -> Rings]
    /\ DefaultHandles \subseteq Handles
    /\ HandlesOf \in [Waves -> SUBSET Handles]

VARIABLES
    write_index,    \* BlockHandle::write_index
    read_index,     \* BlockHandle::read_index, the GPU's copy
    lock,           \* BlockHandle::lock
    ring,           \* the queue elements of every ring
    host_read_index,\* queue_desc::read_index
    wave,           \* each wavefront's call: pc and local variables
    lane,           \* each lane's pc within build_queue_element
    raised,         \* the status bytes that are 1
    pool,           \* default_ctx_status_: the free wavefront buffers
    cpu,            \* the worker thread: pc, ring polled, request_count
    q,              \* MPITransport::q and q_wgid
    requests,       \* MPITransport::requests
    outstanding,    \* MPITransport::outstanding
    waiting_quiet   \* MPITransport::waiting_quiet

ringVars == <<write_index, read_index, lock, ring, host_read_index>>
gpuVars == <<wave, lane, pool>>
mpiVars == <<requests, outstanding, waiting_quiet>>
vars == <<ringVars, gpuVars, raised, cpu, q, mpiVars>>

NonBlocking == {"PUT_NBI", "GET_NBI"}
Blocking(type) == type \notin NonBlocking
Collectives == {"TEAM_REDUCE", "TEAM_BROADCAST", "ALLTOALL"}
TeamTypes == Collectives \cup {"SYNC", "BARRIER"}

NoReq == [h |-> NULL, idx |-> 0, comm |-> NULL]
EmptySlot == [valid |-> FALSE, type |-> NULL, status |-> NoStatus,
              team_comm |-> NULL, req |-> NoReq]
IdleWave == [pc |-> "idle", h |-> NULL, n |-> 0, type |-> NULL,
             comm |-> NULL, base |-> 0, buf |-> NULL]

(* The constructors: zeroed rings and indices, every buffer in the pool.   *)
Init ==
    /\ write_index = [h \in Handles |-> 0]
    /\ read_index = [h \in Handles |-> 0]
    /\ lock = [h \in Handles |-> 0]
    /\ ring = [r \in Rings |-> [s \in Slots |-> EmptySlot]]
    /\ host_read_index = [r \in Rings |-> 0]
    /\ wave = [w \in Waves |-> IdleWave]
    /\ lane = [l \in Waves \X LaneIds |-> "out"]
    /\ raised = {}
    /\ pool = Buffers
    /\ cpu = [pc |-> "next_element", i |-> 0, request_count |-> 0]
    /\ q = << >>
    /\ requests = << >>
    /\ outstanding = [r \in Rings |-> 0]
    /\ waiting_quiet = [r \in Rings |-> << >>]
-----------------------------------------------------------------------------
(*                     The GPU: build_queue_element                        *)

(* The status byte of a lane: a byte of the pooled wavefront buffer in the *)
(* default context, the byte of the thread in every other context.         *)
get_status_flag(w, i) ==
    <<wave[w].h, IF wave[w].h \in DefaultHandles THEN wave[w].buf ELSE w, i>>

(* A call of the context interface with n active lanes.  The arguments are *)
(* evaluated first, so a blocking call on the default context waits for a  *)
(* wavefront buffer before it asks for a slot.                             *)
Call(w, h, n, type, comm) ==
    /\ wave[w].pc = "idle"
    /\ write_index[h] + n <= MaxWrites
    /\ comm # NULL => type \in TeamTypes
    /\ type \in TeamTypes => n = 1
    /\ \E buf \in IF Blocking(type) /\ h \in DefaultHandles
                  THEN pool ELSE {NULL} :
         /\ wave' = [wave EXCEPT ![w] =
                       [pc |-> "acquire_lock", h |-> h, n |-> n, type |-> type,
                        comm |-> comm, base |-> 0, buf |-> buf]]
         /\ pool' = pool \ {buf}
    /\ UNCHANGED <<ringVars, lane, raised, cpu, q, mpiVars>>

acquire_lock(w) ==
    /\ wave[w].pc = "acquire_lock"
    /\ lock[wave[w].h] = 0
    /\ lock' = [lock EXCEPT ![wave[w].h] = 1]
    /\ wave' = [wave EXCEPT ![w].pc = "wait_until_space_available"]
    /\ UNCHANGED <<write_index, read_index, ring, host_read_index, lane, pool,
                   raised, cpu, q, mpiVars>>

(* Mutant: off by one, one command too many fits.                          *)
EnoughSpaceOffByOne(h, required) ==
    QueueSize - (write_index[h] - read_index[h]) + 1 >= required

(* Mutant: the last free slot is never used.                               *)
EnoughSpaceStrict(h, required) ==
    QueueSize - (write_index[h] - read_index[h]) > required

enough_space(h, required) ==
    QueueSize - (write_index[h] - read_index[h]) >= required

(* One turn of the loop that refreshes the GPU's copy of the read index.   *)
wait_until_space_available(w) ==
    LET h == wave[w].h IN
    /\ wave[w].pc = "wait_until_space_available"
    /\ ~enough_space(h, wave[w].n)
    /\ read_index' = [read_index EXCEPT ![h] = host_read_index[RingOf[h]]]
    /\ UNCHANGED <<write_index, lock, ring, host_read_index, gpuVars, raised,
                   cpu, q, mpiVars>>

(* The turn of the loop that finds room for every active lane.             *)
space_available(w) ==
    /\ wave[w].pc = "wait_until_space_available"
    /\ enough_space(wave[w].h, wave[w].n)
    /\ wave' = [wave EXCEPT ![w].pc = "next_write_slot"]
    /\ UNCHANGED <<ringVars, lane, pool, raised, cpu, q, mpiVars>>

(* The rest of next_write_slot_o_m_m: the lowest lane takes a slot for     *)
(* every active lane, releases the lock and broadcasts the first slot.     *)
next_write_slot(w) ==
    LET h == wave[w].h IN
    /\ wave[w].pc = "next_write_slot"
    /\ write_index' = [write_index EXCEPT ![h] = @ + wave[w].n]
    /\ lock' = [lock EXCEPT ![h] = 0]
    /\ wave' = [wave EXCEPT ![w].pc = "element", ![w].base = write_index[h]]
    /\ lane' = [l \in Waves \X LaneIds |->
                  IF l[1] = w /\ l[2] <= wave[w].n THEN "fill" ELSE lane[l]]
    /\ UNCHANGED <<read_index, ring, host_read_index, pool, raised, cpu, q,
                   mpiVars>>

Index(w, i) == wave[w].base + i - 1
MySlot(w, i) == Index(w, i) % QueueSize
MyRing(w) == RingOf[wave[w].h]

(* The stores to the element that precede the first fence.  A field that   *)
(* the command type does not use keeps what an earlier command left there. *)
FillElement(w, i) ==
    LET old == ring[MyRing(w)][MySlot(w, i)] IN
    /\ lane[<<w, i>>] = "fill"
    /\ lane' = [lane EXCEPT ![<<w, i>>] = "publish"]
    /\ ring' = [ring EXCEPT ![MyRing(w)][MySlot(w, i)] =
         [old EXCEPT !.type = wave[w].type,
                     !.status = IF Blocking(wave[w].type)
                                THEN get_status_flag(w, i) ELSE old.status,
                     !.team_comm = IF wave[w].type \in TeamTypes \ {"BARRIER"}
                                   THEN wave[w].comm ELSE old.team_comm,
                     !.req = [h |-> wave[w].h, idx |-> Index(w, i),
                              comm |-> wave[w].comm]]]
    /\ UNCHANGED <<write_index, read_index, lock, host_read_index, wave, pool,
                   raised, cpu, q, mpiVars>>

(* notify_cpu.valid = 1; a non-blocking command is over for the lane.      *)
PublishElement(w, i) ==
    /\ lane[<<w, i>>] = "publish"
    /\ ring' = [ring EXCEPT ![MyRing(w)][MySlot(w, i)].valid = TRUE]
    /\ lane' = [lane EXCEPT ![<<w, i>>] =
                  IF Blocking(wave[w].type) THEN "poll" ELSE "done"]
    /\ UNCHANGED <<write_index, read_index, lock, host_read_index, wave, pool,
                   raised, cpu, q, mpiVars>>

(* The polling loop reads the status pointer from the ring element, not    *)
(* from the parameter.                                                     *)
PollStatus(w, i) ==
    /\ lane[<<w, i>>] = "poll"
    /\ ring[MyRing(w)][MySlot(w, i)].status \in raised
    /\ lane' = [lane EXCEPT ![<<w, i>>] = "reset"]
    /\ UNCHANGED <<ringVars, wave, pool, raised, cpu, q, mpiVars>>

(* Mutant: the status byte is left raised.                                 *)
ForgetReset(w, i) ==
    /\ lane[<<w, i>>] = "reset"
    /\ lane' = [lane EXCEPT ![<<w, i>>] = "done"]
    /\ UNCHANGED <<ringVars, wave, pool, raised, cpu, q, mpiVars>>

ResetStatus(w, i) ==
    /\ lane[<<w, i>>] = "reset"
    /\ raised' = raised \ {ring[MyRing(w)][MySlot(w, i)].status}
    /\ lane' = [lane EXCEPT ![<<w, i>>] = "done"]
    /\ UNCHANGED <<ringVars, wave, pool, cpu, q, mpiVars>>

(* The lanes reconverge; the default context gets its buffer back.         *)
Return(w) ==
    /\ wave[w].pc = "element"
    /\ \A i \in 1..wave[w].n : lane[<<w, i>>] = "done"
    /\ pool' = pool \cup ({wave[w].buf} \ {NULL})
    /\ wave' = [wave EXCEPT ![w] = IdleWave]
    /\ lane' = [l \in Waves \X LaneIds |->
                  IF l[1] = w THEN "out" ELSE lane[l]]
    /\ UNCHANGED <<ringVars, raised, cpu, q, mpiVars>>
-----------------------------------------------------------------------------
(*              The worker thread: ro_net_poll, Queue::process             *)

ReadSlot(r) == host_read_index[r] % QueueSize

NextRing == [pc |-> "next_element", i |-> (cpu.i + 1) % NumRings,
             request_count |-> 0]

(* An invalid element ends the visit to the ring.                          *)
process_empty ==
    /\ cpu.pc = "next_element"
    /\ ~ring[cpu.i][ReadSlot(cpu.i)].valid
    /\ cpu' = NextRing
    /\ UNCHANGED <<ringVars, gpuVars, raised, q, mpiVars>>

(* A valid element is copied to the transport's queue.                     *)
insertRequest ==
    /\ cpu.pc = "next_element"
    /\ ring[cpu.i][ReadSlot(cpu.i)].valid
    /\ q' = Append(q, [elem |-> ring[cpu.i][ReadSlot(cpu.i)], wgid |-> cpu.i])
    /\ cpu' = [cpu EXCEPT !.pc = "clear_valid"]
    /\ UNCHANGED <<ringVars, gpuVars, raised, mpiVars>>

clear_valid ==
    /\ cpu.pc = "clear_valid"
    /\ ring' = [ring EXCEPT ![cpu.i][ReadSlot(cpu.i)] =
                  [@ EXCEPT !.valid = FALSE, !.req = NoReq]]
    /\ cpu' = [cpu EXCEPT !.pc = "increment_read_index"]
    /\ UNCHANGED <<write_index, read_index, lock, host_read_index, gpuVars,
                   raised, q, mpiVars>>

(* At most PollMax commands are taken from a ring before the next one.     *)
increment_read_index ==
    /\ cpu.pc = "increment_read_index"
    /\ host_read_index' = [host_read_index EXCEPT ![cpu.i] = @ + 1]
    /\ cpu' = IF cpu.request_count + 1 < PollMax
              THEN [cpu EXCEPT !.pc = "next_element", !.request_count = @ + 1]
              ELSE NextRing
    /\ UNCHANGED <<write_index, read_index, lock, ring, gpuVars, raised, q,
                   mpiVars>>
-----------------------------------------------------------------------------
(*        The progress thread: submitRequestsToMPI and progress            *)

Elem == Head(q).elem
Ctx == Head(q).wgid

notify(statuses) == raised' = raised \cup (statuses \ {NoStatus})

Request(status, blocking) ==
    [status |-> status, ctx |-> Ctx, blocking |-> blocking, req |-> Elem.req,
     done |-> FALSE]

Post(rs) ==
    /\ requests' = requests \o rs
    /\ outstanding' = [outstanding EXCEPT ![Ctx] = @ + Len(rs)]

(* Mutant: quiet answers at once.                                          *)
QuietNotifiesAtOnce ==
    notify({Elem.status}) /\ UNCHANGED waiting_quiet

(* Mutant: quiet always waits for a completion.                            *)
QuietAlwaysWaits ==
    /\ waiting_quiet' = [waiting_quiet EXCEPT ![Ctx] = Append(@, Elem)]
    /\ UNCHANGED raised

(* quiet(): answered now when the context has nothing in flight.           *)
quiet ==
    IF outstanding'[Ctx] = 0
    THEN notify({Elem.status}) /\ UNCHANGED waiting_quiet
    ELSE /\ waiting_quiet' = [waiting_quiet EXCEPT ![Ctx] = Append(@, Elem)]
         /\ UNCHANGED raised

(* Mutant: the caller is answered when the put is posted.                  *)
PutNotifiesAtOnce ==
    /\ Post(<<Request(Elem.status, FALSE)>>)
    /\ notify({Elem.status})
    /\ UNCHANGED waiting_quiet

(* putMem: Rput followed by Win_flush_all, the request tests complete      *)
(* later.  getMem: an Rget.  Both with the blocking flag of the command.   *)
putMem ==
    /\ Post(<<Request(Elem.status, Elem.type = "PUT")>>)
    /\ UNCHANGED <<raised, waiting_quiet>>

getMem ==
    /\ Post(<<Request(Elem.status, Elem.type = "GET")>>)
    /\ UNCHANGED <<raised, waiting_quiet>>

(* amoFOP and amoFCAS: flushed and notified before they return.            *)
amoFOP ==
    /\ notify({Elem.status})
    /\ UNCHANGED mpiVars

(* barrier(): an Ibarrier; with do_quiet it answers through quiet.         *)
barrier(do_quiet) ==
    IF do_quiet
    THEN Post(<<Request(NoStatus, FALSE)>>) /\ quiet
    ELSE Post(<<Request(Elem.status, TRUE)>>)
         /\ UNCHANGED <<raised, waiting_quiet>>

team_reduction ==
    /\ Post(<<Request(Elem.status, TRUE)>>)
    /\ UNCHANGED <<raised, waiting_quiet>>

(* An Rget from the root, a flush, an Ibarrier and a quiet.                *)
team_broadcast ==
    /\ Post(<<Request(NoStatus, FALSE), Request(NoStatus, FALSE)>>)
    /\ quiet

(* One Rput for every PE of the team, a flush and a quiet (fcollect too).  *)
alltoall ==
    /\ Post([k \in 1..NumPes |-> Request(NoStatus, FALSE)])
    /\ quiet

submitRequestsToMPI ==
    /\ q # << >>
    /\ q' = Tail(q)
    /\ \/ Elem.type \in {"PUT", "PUT_NBI"} /\ putMem
       \/ Elem.type \in {"GET", "GET_NBI"} /\ getMem
       \/ Elem.type = "AMO" /\ amoFOP
       \/ Elem.type = "QUIET" /\ UNCHANGED <<requests, outstanding>> /\ quiet
       \/ Elem.type = "BARRIER" /\ barrier(TRUE)
       \/ Elem.type = "SYNC" /\ barrier(FALSE)
       \/ Elem.type = "TEAM_REDUCE" /\ team_reduction
       \/ Elem.type = "TEAM_BROADCAST" /\ team_broadcast
       \/ Elem.type = "ALLTOALL" /\ alltoall
    /\ UNCHANGED <<ringVars, gpuVars, cpu>>

Tested == 1..(IF Len(requests) < TestWindow THEN Len(requests) ELSE TestWindow)

(* The element of rank j of a set of positions.                            *)
Nth(S, j) == CHOOSE k \in S : Cardinality({m \in S : m <= k}) = j

(* The completed positions are erased and the others close up, in order.   *)
Erase(seq, gone) ==
    LET rest == (1..Len(seq)) \ gone IN
    [j \in 1..Cardinality(rest) |-> seq[Nth(rest, j)]]

(* Testsome over the first requests; every completion decrements its       *)
(* context's count, answers a blocking caller, and answers the quiets of a *)
(* context whose count has reached zero; the completed ones are erased.    *)
progress ==
    LET finished == {k \in Tested : requests[k].done}
        left(c) == outstanding[c]
                     - Cardinality({k \in finished : requests[k].ctx = c})
        drained == {c \in Rings : left(c) = 0 /\
                       \E k \in finished : requests[k].ctx = c}
    IN
    /\ finished # {}
    /\ outstanding' = [c \in Rings |-> left(c)]
    /\ notify({requests[k].status : k \in {k \in finished : requests[k].blocking}}
              \cup UNION {{e.status : e \in Items(waiting_quiet[c])} : c \in drained})
    /\ waiting_quiet' = [c \in Rings |->
                           IF c \in drained THEN << >> ELSE waiting_quiet[c]]
    /\ requests' = Erase(requests, finished)
    /\ UNCHANGED <<ringVars, gpuVars, cpu, q>>

(* MPI completes a request: the transfer is done, or every process has     *)
(* entered the collective.                                                 *)
MPICompletes(k) ==
    /\ k \in 1..Len(requests)
    /\ ~requests[k].done
    /\ requests' = [requests EXCEPT ![k].done = TRUE]
    /\ UNCHANGED <<ringVars, gpuVars, raised, cpu, q, outstanding,
                   waiting_quiet>>
-----------------------------------------------------------------------------
WaveStep(w) ==
    \/ acquire_lock(w) \/ wait_until_space_available(w) \/ space_available(w)
    \/ next_write_slot(w) \/ Return(w)

LaneStep(w, i) ==
    \/ FillElement(w, i) \/ PublishElement(w, i)
    \/ PollStatus(w, i) \/ ResetStatus(w, i)

ro_net_poll ==
    process_empty \/ insertRequest \/ clear_valid \/ increment_read_index

Next ==
    \/ \E w \in Waves : \E h \in HandlesOf[w], n \in LaneIds, type \in Types,
            comm \in Comms \cup {NULL} : Call(w, h, n, type, comm)
    \/ \E w \in Waves : WaveStep(w)
    \/ \E w \in Waves, i \in LaneIds : LaneStep(w, i)
    \/ ro_net_poll
    \/ submitRequestsToMPI
    \/ progress
    \/ \E k \in 1..Len(requests) : MPICompletes(k)

Spec == Init /\ [][Next]_vars

(* Resident wavefronts keep running, both host threads loop for ever, each *)
(* turn of the progress loop submits and tests, and MPI completes what was *)
(* posted.  Nothing obliges a wavefront to make a call.                    *)
Fairness ==
    /\ \A w \in Waves : WF_vars(WaveStep(w))
    /\ \A w \in Waves, i \in LaneIds : WF_vars(LaneStep(w, i))
    /\ WF_vars(ro_net_poll)
    /\ WF_vars(submitRequestsToMPI)
    /\ WF_vars(progress)
    /\ WF_vars(\E k \in 1..Len(requests) : MPICompletes(k))

FairSpec == Spec /\ Fairness
-----------------------------------------------------------------------------
MyReq(w, i) == [h |-> wave[w].h, idx |-> Index(w, i), comm |-> wave[w].comm]

(* The elements the CPU has still to take from a ring.                     *)
Unread(r) == {s \in Slots : ring[r][s].valid
                /\ ~(cpu.pc = "clear_valid" /\ cpu.i = r /\ s = ReadSlot(r))}

(* The commands that are somewhere between the ring and their completion.  *)
Pending ==
    (UNION {{ring[r][s].req : s \in Unread(r)} : r \in Rings})
    \cup {x.elem.req : x \in Items(q)}
    \cup {x.req : x \in Items(requests)}
    \cup (UNION {{x.req : x \in Items(waiting_quiet[r])} : r \in Rings})

(* The variables stay within the ranges the declarations give them.        *)
TypeOK ==
    /\ write_index \in [Handles -> Nat]
    /\ read_index \in [Handles -> Nat]
    /\ lock \in [Handles -> {0, 1}]
    /\ host_read_index \in [Rings -> Nat]
    /\ \A r \in Rings, s \in Slots : ring[r][s].valid \in BOOLEAN
    /\ lane \in [Waves \X LaneIds ->
                  {"out", "fill", "publish", "poll", "reset", "done"}]
    /\ pool \subseteq Buffers
    /\ cpu.i \in Rings /\ cpu.request_count \in 0..(PollMax - 1)
    /\ outstanding \in [Rings -> Nat]

(* next_write_slot never hands out the slot of a command that the CPU has  *)
(* not taken yet, although the GPU only sees a stale copy of read_index.   *)
NoElementOverwritten ==
    \A w \in Waves, i \in LaneIds :
        lane[<<w, i>>] \in {"fill", "publish"}
            => ~ring[MyRing(w)][MySlot(w, i)].valid

(* The CPU takes the commands of a ring in the order of their write        *)
(* indices, each exactly once: the element it finds valid is the one whose *)
(* turn it is, however late the lanes publish.                             *)
TakenInOrder ==
    \A h \in Handles : LET r == RingOf[h] IN
        ring[r][ReadSlot(r)].valid
            => ring[r][ReadSlot(r)].req.idx = host_read_index[r]

(* "Blocking requires the CPU to complete the operation": a lane that has  *)
(* seen its status byte has no part of its command left in the ring, the   *)
(* transport's queue or MPI.                                               *)
BlockingCallIsComplete ==
    \A w \in Waves, i \in LaneIds :
        lane[<<w, i>>] = "reset" => MyReq(w, i) \notin Pending

(* When quiet or a barrier returns, every command written to the context   *)
(* before it has completed, the non-blocking ones included.                *)
QuietCoversEarlierCommands ==
    \A w \in Waves, i \in LaneIds :
        lane[<<w, i>>] = "reset" /\ wave[w].type \in {"QUIET", "BARRIER"}
            => \A x \in Pending : x.h = wave[w].h => x.idx > Index(w, i)

(* A blocking command never starts with its status byte already raised:    *)
(* a leftover completion would end the wait of the next command.           *)
StatusByteIsClean ==
    \A w \in Waves, i \in LaneIds :
        lane[<<w, i>>] \in {"fill", "publish"} /\ Blocking(wave[w].type)
            => get_status_flag(w, i) \notin raised

(* A quiet that was put aside always has a request of its context left     *)
(* whose completion will answer it.                                        *)
QuietIsNeverStranded ==
    \A r \in Rings :
        /\ outstanding[r] = Cardinality({k \in 1..Len(requests) : requests[k].ctx = r})
        /\ waiting_quiet[r] # << >> => outstanding[r] > 0

(* Every call returns: no command is lost between the ring and MPI, and    *)
(* no wavefront waits for a status byte nobody will raise.                 *)
EveryCallReturns ==
    \A w \in Waves : (wave[w].pc # "idle") ~> (wave[w].pc = "idle")
-----------------------------------------------------------------------------
(* The inductive invariant behind NoElementOverwritten and TakenInOrder,   *)
(* for rings that belong to one handle each.  Every index from the next    *)
(* unread one up to write_index is either still with the lane that took it *)
(* or in its slot, and they all fit into one revolution of the ring.       *)
PrivateRings == \A g, h \in Handles : RingOf[g] = RingOf[h] => g = h

Statuses ==
    {NoStatus} \cup
    ((Handles \cup {NULL}) \X (Waves \cup Buffers \cup {NULL}) \X LaneIds)

Elements ==
    [valid : BOOLEAN, type : Types \cup {NULL}, status : Statuses,
     team_comm : Comms \cup {NULL},
     req : [h : Handles \cup {NULL}, idx : Int, comm : Comms \cup {NULL}]]

WaveStates ==
    [pc : {"idle", "acquire_lock", "wait_until_space_available",
           "next_write_slot", "element"},
     h : Handles \cup {NULL}, n : Nat, type : Types \cup {NULL},
     comm : Comms \cup {NULL}, base : Nat, buf : Buffers \cup {NULL}]

RingTypeOK ==
    /\ write_index \in [Handles -> Nat]
    /\ read_index \in [Handles -> Nat]
    /\ lock \in [Handles -> {0, 1}]
    /\ host_read_index \in [Rings -> Nat]
    /\ ring \in [Rings -> [Slots -> Elements]]
    /\ wave \in [Waves -> WaveStates]
    /\ lane \in [Waves \X LaneIds ->
                  {"out", "fill", "publish", "poll", "reset", "done"}]
    /\ pool \subseteq Buffers
    /\ cpu \in [pc : {"next_element", "clear_valid", "increment_read_index"},
                i : Rings, request_count : Nat]
    /\ \A w \in Waves : wave[w].pc # "idle"
         => wave[w].h \in Handles /\ wave[w].n \in LaneIds
    /\ \A w \in Waves, i \in LaneIds : lane[<<w, i>>] # "out"
         => wave[w].pc = "element" /\ i <= wave[w].n

InSection(w) ==
    wave[w].pc \in {"wait_until_space_available", "next_write_slot"}

LockInv ==
    /\ \A w \in Waves : InSection(w) => lock[wave[w].h] = 1
    /\ \A w, v \in Waves :
         InSection(w) /\ InSection(v) /\ wave[w].h = wave[v].h => w = v

(* The first index of the ring that the CPU has not taken.                 *)
NextUnread(r) ==
    IF cpu.pc = "increment_read_index" /\ cpu.i = r
    THEN host_read_index[r] + 1 ELSE host_read_index[r]

IndexInv ==
    /\ \A h \in Handles :
         /\ read_index[h] <= host_read_index[RingOf[h]]
         /\ NextUnread(RingOf[h]) <= write_index[h]
         /\ write_index[h] <= read_index[h] + QueueSize
    /\ \A w \in Waves : wave[w].pc = "next_write_slot"
         => write_index[wave[w].h] + wave[w].n
              <= read_index[wave[w].h] + QueueSize

HasSlot(w, i) == lane[<<w, i>>] \in {"fill", "publish"}

LaneInv ==
    /\ \A w \in Waves, i \in LaneIds : HasSlot(w, i)
         => NextUnread(MyRing(w)) <= Index(w, i)
              /\ Index(w, i) < write_index[wave[w].h]
    /\ \A w, v \in Waves, i, j \in LaneIds :
         /\ HasSlot(w, i) /\ HasSlot(v, j)
         /\ wave[w].h = wave[v].h /\ Index(w, i) = Index(v, j)
         => w = v /\ i = j
    /\ \A w \in Waves, i \in LaneIds : lane[<<w, i>>] = "publish"
         => ring[MyRing(w)][MySlot(w, i)].req.idx = Index(w, i)

SlotInv ==
    /\ \A h \in Handles, s \in Slots :
         LET e == ring[RingOf[h]][s] IN
         e.valid =>
           /\ NextUnread(RingOf[h]) <= e.req.idx
           /\ e.req.idx < write_index[h]
           /\ e.req.idx % QueueSize = s
           /\ \A w \in Waves, i \in LaneIds :
                HasSlot(w, i) /\ wave[w].h = h => Index(w, i) # e.req.idx
    /\ cpu.pc = "clear_valid" => ring[cpu.i][ReadSlot(cpu.i)].valid

(* Every index in flight is accounted for once: with a lane, or in its     *)
(* slot of the ring, within one revolution.                                *)
RingInv == RingTypeOK /\ LockInv /\ IndexInv /\ LaneInv /\ SlotInv
=============================================================================
