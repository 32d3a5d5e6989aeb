------------------------------ MODULE MPIContexts ------------------------------
(***************************************************************************)
(* The contexts whose operations the host carries out with MPI: those of   *)
(* kernels in the reverse-offload backend, and those of the host           *)
(* interface.                                                              *)
(***************************************************************************)
EXTENDS CommSteps

CONSTANT WindowMPI          \* the window of a host context is a WindowInfoMPI
-----------------------------------------------------------------------------
(* The calls of the reverse-offload backend.  A call for memory that is    *)
(* not mapped is a command in the ring of the block, which the progress    *)
(* thread of the host takes in order and gives to MPI: a put is complete   *)
(* at its target before the next command is taken (Win_flush_all), a get   *)
(* is left outstanding and completes later.  How commands, status bytes    *)
(* and quiets work is in module ROProxy; here a ring is one queue of       *)
(* operations, and outstanding gets are on queues of their own.            *)

Ring == <<0, 0>>
Outstanding(k) == <<1, k>>      \* an Rget that was started from the ring
Command(q, wqe) == <<Fence, PostOn(Ring, q, wqe)>>

PutCommand(c) ==
    Command(c.pe, [what |-> "put", to |-> c.to, of |-> Same(0..(c.n - 1))])
GetCommand(c, k) ==             \* started in order, carried out later
    Command(c.pe, [what |-> "start", on |-> Outstanding(k),
                   get |-> [what |-> "get", pe |-> c.pe, to |-> c.to,
                            of |-> Same(0..(c.n - 1))]])
(* The MPI requests a command has left outstanding are complete.           *)
Complete == Quiet({Ring})
CompleteGet(k) == Quiet({Ring, Outstanding(k)})
CompleteAll == Quiet(all_qps)

ro_putmem(p, c) ==
    IF isIpcAvailable(p, c.pe) THEN ipc_putmem(c)
    ELSE PutCommand(c) \o <<Complete>>
ro_getmem(p, c, k) ==
    IF isIpcAvailable(p, c.pe) THEN ipc_getmem(c)
    ELSE GetCommand(c, k) \o <<CompleteGet(k)>>
ro_putmem_nbi(p, c) ==
    IF isIpcAvailable(p, c.pe) THEN ipc_putmem(c) ELSE PutCommand(c)
ro_getmem_nbi(p, c, k) ==
    IF isIpcAvailable(p, c.pe) THEN ipc_getmem(c) ELSE GetCommand(c, k)
ro_putmem_wave(p, c) ==
    IF isIpcAvailable(p, c.pe) THEN ipc_putmem_wave(c)
    ELSE PutCommand(c) \o <<Complete>>
ro_getmem_wave(p, c, k) ==
    IF isIpcAvailable(p, c.pe) THEN ipc_getmem_wave(c)
    ELSE GetCommand(c, k) \o <<CompleteGet(k)>>
ro_putmem_nbi_wave(p, c) ==
    IF isIpcAvailable(p, c.pe) THEN ipc_putmem_wave(c) ELSE PutCommand(c)
ro_getmem_nbi_wave(p, c, k) ==
    IF isIpcAvailable(p, c.pe) THEN ipc_getmem_wave(c) ELSE GetCommand(c, k)
ro_putmem_wg(p, w, c) ==
    (IF isIpcAvailable(p, c.pe) THEN ipc_putmem_nbi_wg(w, c)
     ELSE When(w = 0, PutCommand(c) \o <<Complete>>)) \o <<s_barrier>>
ro_getmem_wg(p, w, c, k) ==
    (IF isIpcAvailable(p, c.pe) THEN ipc_getmem_nbi_wg(w, c)
     ELSE When(w = 0, GetCommand(c, k) \o <<CompleteGet(k)>>)) \o <<s_barrier>>
ro_putmem_nbi_wg(p, w, c) ==
    (IF isIpcAvailable(p, c.pe) THEN ipc_putmem_nbi_wg(w, c)
     ELSE When(w = 0, PutCommand(c))) \o <<s_barrier>>
ro_getmem_nbi_wg(p, w, c, k) ==
    (IF isIpcAvailable(p, c.pe) THEN ipc_getmem_nbi_wg(w, c)
     ELSE When(w = 0, GetCommand(c, k))) \o <<s_barrier>>

ro_p(p, c) ==
    IF isIpcAvailable(p, c.pe) THEN ipc_p(c)
    ELSE Command(c.pe, [what |-> "value", cell |-> <<c.to, 0>>, v |-> c.v])
         \o <<Complete>>
get_g_ret_buf == "g_ret"
ro_g(p, c, k) ==
    IF isIpcAvailable(p, c.pe) THEN ipc_g(c)
    ELSE ro_getmem(p, [c EXCEPT !.to = get_g_ret_buf, !.n = 1], k)
         \o <<LoadValue(p, <<get_g_ret_buf, 0>>)>>

ro_fence == <<Fence, CompleteAll>> \o ipc_fence
ro_fence_pe == <<Fence, CompleteAll>> \o ipc_fence
ro_quiet == <<Fence, CompleteAll>> \o ipc_quiet
ro_pe_quiet == ro_quiet
ro_shmem_ptr(p, c) ==
    <<Return(IF isIpcAvailable(p, c.pe) THEN "mapped" ELSE "null")>>

(* Atomics are MPI's, for mapped memory too; the forms that return nothing *)
(* drop what the fetching ones give.                                       *)
amoFOP(f, c) == <<Fence, FetchOn(Ring, TRUE, f, c.pe, <<"word", c.word>>, c.v, 0)>>
ro_amo_fetch_cas(c) ==
    <<Fence, FetchOn(Ring, TRUE, "fetch_cas", c.pe, <<"word", c.word>>, c.v,
                     c.cond)>>
ro_amo_fetch_add(c) == amoFOP("fetch_add", c)
ro_amo_swap(c) == amoFOP("swap", c)
ro_amo_fetch_and(c) == amoFOP("fetch_and", c)
ro_amo_fetch_or(c) == amoFOP("fetch_or", c)
ro_amo_fetch_xor(c) == amoFOP("fetch_xor", c)
ro_amo(c) ==
    CASE c.op \in {"add", "fetch_add"} -> ro_amo_fetch_add(c)
      [] c.op \in {"set", "swap"} -> ro_amo_swap(c)
      [] c.op \in {"and", "fetch_and"} -> ro_amo_fetch_and(c)
      [] c.op \in {"or", "fetch_or"} -> ro_amo_fetch_or(c)
      [] c.op \in {"xor", "fetch_xor"} -> ro_amo_fetch_xor(c)
      [] c.op = "fetch_cas" -> ro_amo_fetch_cas(c)

ro_putmem_signal(p, c) == ro_putmem(p, c) \o ro_fence \o ro_amo(c)
ro_putmem_signal_wave(p, c) == ro_putmem_wave(p, c) \o ro_fence \o ro_amo(c)
ro_putmem_signal_wg(p, w, c) ==
    ro_putmem_wg(p, w, c) \o ro_fence \o When(w = 0, ro_amo(c))
ro_signal_fetch(p, c) ==
    ro_amo_fetch_add([c EXCEPT !.pe = p, !.v = 0])
ro_signal_fetch_wg(p, w, c) ==
    When(w = 0, ro_signal_fetch(p, c)) \o <<s_barrier>>
-----------------------------------------------------------------------------
(* Collectives of a team with the ranks of the MPI communicator: the first *)
(* PE is pe_start = 0 here.  c.by "wg" meets the work-group at the end.    *)
Meets(c) == When(c.by = "wg", <<s_barrier>>)
Thread0(w, s) == When(w = 0, s)

ro_barrier(w, c) ==         \* Ibarrier, then a quiet of the context
    Thread0(w, <<Fence, Complete, Mpi("barrier", c.team_pes, 0, 0),
                 CompleteAll>>) \o Meets(c)
ro_sync(w, c) ==
    Thread0(w, <<Fence, Complete, Mpi("barrier", c.team_pes, 0, 0)>>)
    \o Meets(c)
ro_reduce_wg(w, c) ==
    Thread0(w, <<Fence, Complete, Mpi("allreduce", c.team_pes, c.n, 0)>>)
    \o <<s_barrier>>
ro_reduce_scatter_wg(w, c) ==
    Thread0(w, <<Fence, Complete, Mpi("reduce_scatter", c.team_pes, c.n, 0)>>)
    \o <<s_barrier>>
team_broadcast(w, c) ==     \* every PE gets it from the root, then a barrier
    Thread0(w, Command(c.root, [what |-> "get", to |-> c.to,
                                of |-> Same(0..(c.n - 1))])
               \o <<Complete, Mpi("barrier", c.team_pes, 0, 0), CompleteAll>>)
    \o <<s_barrier>>
PutsTo(p, c, pairs(_)) ==   \* one command, a put to each PE from p on
    <<Fence>> \o [i \in 1..num_pes |->
        LET target == (p + i - 1) % num_pes
        IN  PostOn(Ring, target,
                   [what |-> "put", to |-> c.to, of |-> pairs(target)])]
ro_wave_collective == <<Return("ROCSHMEM_ERROR")>>      \* not implemented
alltoall(p, w, c) ==
    Thread0(w, PutsTo(p, c, LAMBDA t : {<<p * c.n + j, t * c.n + j>> :
                                          j \in 0..(c.n - 1)})
               \o <<CompleteAll>>) \o <<s_barrier>>
fcollect(p, w, c) ==
    Thread0(w, PutsTo(p, c, LAMBDA t : {<<p * c.n + j, j>> : j \in 0..(c.n - 1)})
               \o <<CompleteAll>>) \o <<s_barrier>>
-----------------------------------------------------------------------------
(* The calls of the host interface.  With an MPI window they are MPI's     *)
(* one-sided operations, of which nothing is ordered before it is flushed: *)
(* a blocking put is complete locally, so its data is on its way like a    *)
(* store, the other operations are on a lane of their own until then.      *)
(* Without one, the IPC backend copies on a stream of the context, in      *)
(* order, and every other call aborts.  The communicator of a collective   *)
(* is its set of PEs.                                                      *)

OrAbort(s) == IF WindowMPI THEN s ELSE <<abort>>
PutTo(c) == [what |-> "put", to |-> c.to, of |-> Same(0..(c.n - 1))]
GetFrom(c) == [what |-> "get", to |-> c.to, of |-> Same(0..(c.n - 1))]
complete_all == <<Fence, Quiet(host_lanes)>>

host_putmem_nbi(c, k) ==
    OrAbort(<<PostOn(host_lane(c.pe, k), c.pe, PutTo(c))>>)
host_getmem_nbi(c, k) ==
    OrAbort(<<PostOn(host_lane(c.pe, k), c.pe, GetFrom(c))>>)
host_putmem(c) ==           \* flushed locally: element by element on its way
    OrAbort(<<Store(c.pe, c.to, {{<<i, i>>} : i \in 0..(c.n - 1)})>>)
host_getmem(c, k) ==
    OrAbort(host_getmem_nbi(c, k) \o <<Quiet({host_lane(c.pe, k)})>>)
host_p(c) == OrAbort(<<StoreValue(c.pe, <<c.to, 0>>, c.v)>>)
host_g(c) == OrAbort(<<LoadValue(c.pe, <<"src", 0>>)>>)
host_fence == OrAbort(complete_all)
host_quiet == OrAbort(complete_all)
host_amo_fetch_add(c, k) ==
    OrAbort(<<FetchOn(host_lane(c.pe, k), TRUE, "fetch_add", c.pe,
                      <<"word", c.word>>, c.v, 0)>>)
host_amo_fetch_cas(c, k) ==
    OrAbort(<<FetchOn(host_lane(c.pe, k), TRUE, "fetch_cas", c.pe,
                      <<"word", c.word>>, c.v, c.cond)>>)
host_amo_add(c, k) == host_amo_fetch_add(c, k)
host_amo_cas(c, k) == host_amo_fetch_cas(c, k)

host_sync_all == <<Mpi("barrier", PEs, 0, 0)>>
host_sync(c) == <<Mpi("barrier", c.team_pes, 0, 0)>>
host_barrier_all == When(WindowMPI, complete_all) \o <<Mpi("barrier", PEs, 0, 0)>>
host_barrier(c) ==
    When(WindowMPI, complete_all) \o <<Mpi("barrier", c.team_pes, 0, 0)>>

get_mpi_comm(c) ==          \* the active set, cached or made with MPI
    {c.start + i * (2 ^ c.log_stride) : i \in 0..(c.size - 1)}
broadcast_internal(pes, c) ==       \* the root is a rank of the communicator
    <<Mpi("bcast", pes, c.n, SetToSortSeq(pes, <)[c.root + 1])>>
to_all_internal(pes, c) == <<Mpi("allreduce", pes, c.n, 0)>>
host_broadcast_active_set(c) == broadcast_internal(get_mpi_comm(c), c)
host_broadcast(c) == broadcast_internal(c.team_pes, c)
host_to_all(c) == to_all_internal(get_mpi_comm(c), c)
host_reduce(c) == to_all_internal(c.team_pes, c)
host_reduce_scatter(c) ==
    IF WindowMPI THEN <<Mpi("reduce_scatter", c.team_pes, c.n, 0)>>
    ELSE <<Return("ROCSHMEM_ERROR")>>

(* Waits look at the words whose status is zero, from the first on.        *)
host_status_entry(c) ==
    IF c.status = <<>> THEN 0
    ELSE LET zero == {i \in 1..c.n : c.status[i] = 0}
         IN  IF zero = {} THEN c.n ELSE Min(zero) - 1
HostWords(c) ==
    LET is == SetToSortSeq({i \in host_status_entry(c)..(c.n - 1) :
                               c.status = <<>> \/ c.status[i + 1] = 0}, <)
    IN  [j \in DOMAIN is |-> <<is[j], c.vals[is[j] + 1]>>]
AllTheSame(c) == [c EXCEPT !.vals = [i \in 1..c.n |-> c.v]]
Nothing(c) == c.n = 0 \/ host_status_entry(c) = c.n
host_wait_until(c) == <<Wait(<<"word", c.word>>, c.cmp, c.v)>>
host_wait_until_all_vector(c) ==
    When(~Nothing(c), [j \in DOMAIN HostWords(c) |->
        Wait(<<"word", HostWords(c)[j][1]>>, c.cmp, HostWords(c)[j][2])])
host_wait_until_any_vector(c) ==
    IF Nothing(c) THEN <<Return("SIZE_MAX")>>
    ELSE <<Scan(HostWords(c), 1, c.cmp, FALSE)>>
host_wait_until_some_vector(c) ==
    IF Nothing(c) THEN <<Return({})>>
    ELSE <<Scan(HostWords(c), 1, c.cmp, TRUE)>>
host_wait_until_all(c) == host_wait_until_all_vector(AllTheSame(c))
host_wait_until_any(c) == host_wait_until_any_vector(AllTheSame(c))
host_wait_until_some(c) == host_wait_until_some_vector(AllTheSame(c))
-----------------------------------------------------------------------------
(* IPCHostContext without an MPI window: ctx_stream_ carries copies and    *)
(* the kernels of the atomics out one after the other.                     *)
ctx_stream == host_lane(0, 0)
hipStreamSynchronize == <<Quiet({ctx_stream})>>
ipc_fadd(c, f) == <<PostOn(ctx_stream, c.pe, [what |-> "atomic", f |-> f,
                           cell |-> <<"word", c.word>>, v |-> c.v])>>
ipc_amo_fadd(c, fetch) ==
    IF ~fetch THEN ipc_fadd(c, "add")
    ELSE <<FetchOn(ctx_stream, TRUE, "fetch_add", c.pe, <<"word", c.word>>,
                   c.v, 0)>>
ipc_amo_fcas(c) ==
    <<FetchOn(ctx_stream, TRUE, "fetch_cas", c.pe, <<"word", c.word>>, c.v,
              c.cond)>>
ipc_host_putmem(c) ==
    IF WindowMPI THEN host_putmem(c)
    ELSE <<PostOn(ctx_stream, c.pe, PutTo(c))>> \o hipStreamSynchronize
ipc_host_getmem(c, k) ==
    IF WindowMPI THEN host_getmem(c, k)
    ELSE <<PostOn(ctx_stream, c.pe, GetFrom(c))>> \o hipStreamSynchronize
ipc_host_fence == IF WindowMPI THEN host_fence ELSE <<>>
ipc_host_quiet == IF WindowMPI THEN host_quiet ELSE hipStreamSynchronize
ipc_host_amo_add(c, k) ==
    IF WindowMPI THEN host_amo_add(c, k) ELSE ipc_amo_fadd(c, FALSE)
ipc_host_amo_fetch_add(c, k) ==
    IF WindowMPI THEN host_amo_fetch_add(c, k) ELSE ipc_amo_fadd(c, TRUE)
ipc_host_amo_fetch_cas(c, k) ==
    IF WindowMPI THEN host_amo_fetch_cas(c, k) ELSE ipc_amo_fcas(c)
-----------------------------------------------------------------------------
(* Every host context holds the host interface and forwards its calls to   *)
(* it.  A context takes what the interface would do, and has a way of its  *)
(* own for some of the calls.                                              *)
host_typed(c, k) ==
    CASE c.f = "p" -> host_p(c)
      [] c.f = "g" -> host_g(c)
      [] c.f = "put" -> host_putmem(c)
      [] c.f = "get" -> host_getmem(c, k)
      [] c.f = "put_nbi" -> host_putmem_nbi(c, k)
      [] c.f = "get_nbi" -> host_getmem_nbi(c, k)
host_amo(c, k) ==
    CASE c.op = "add" -> host_amo_add(c, k)
      [] c.op = "cas" -> host_amo_cas(c, k)
      [] c.op = "fetch_add" -> host_amo_fetch_add(c, k)
      [] c.op = "fetch_cas" -> host_amo_fetch_cas(c, k)
host_wait(c) ==
    CASE c.f = "wait_until" -> host_wait_until(c)
      [] c.f = "wait_until_all" -> host_wait_until_all(c)
      [] c.f = "wait_until_any" -> host_wait_until_any(c)
      [] c.f = "wait_until_some" -> host_wait_until_some(c)
      [] c.f = "wait_until_all_vector" -> host_wait_until_all_vector(c)
      [] c.f = "wait_until_any_vector" -> host_wait_until_any_vector(c)
      [] c.f = "wait_until_some_vector" -> host_wait_until_some_vector(c)
WaitOrAbort(c) ==           \* nothing to wait for is seen before the window
    IF ~WindowMPI /\ (c.f = "wait_until" \/ ~Nothing(c)) THEN <<abort>>
    ELSE host_wait(c)
IPCHostContext_wait(c) == host_wait(c)          \* the same, on plain loads

IPCHostContext(c, k, interface) ==
    CASE c.by = "stream" -> interface
      [] c.by = "host" /\ c.f = "putmem" -> ipc_host_putmem(c)
      [] c.by = "host" /\ c.f = "getmem" -> ipc_host_getmem(c, k)
      [] c.by = "host" /\ c.f = "fence" -> ipc_host_fence
      [] c.by = "host" /\ c.f = "quiet" -> ipc_host_quiet
      [] OTHER -> interface
IPCHostContext_typed(c, k, interface) ==
    CASE c.f = "atomic" /\ c.op = "add" -> ipc_host_amo_add(c, k)
      [] c.f = "atomic" /\ c.op = "fetch_add" -> ipc_host_amo_fetch_add(c, k)
      [] c.f = "atomic" /\ c.op = "fetch_cas" -> ipc_host_amo_fetch_cas(c, k)
      [] OTHER -> interface

GDAHostContext(interface) == interface
GDAHostContext_typed(interface) == interface

barrier_for_sync == <<Mpi("barrier", PEs, 0, 0)>>
ro_host_barrier_all == host_fence \o barrier_for_sync
ROHostContext(c, interface) ==
    IF c.f = "barrier_all" THEN ro_host_barrier_all ELSE interface
ROHostContext_typed(interface) == interface     \* has no to_all and no reduce
=============================================================================
