------------------------------- MODULE CommSteps -------------------------------
(***************************************************************************)
(* The steps that calls of the communication interface are made of, the    *)
(* chunks in which the threads of a wavefront or a work-group copy, and    *)
(* the calls of the IPC backend: copies to and from memory that is mapped, *)
(* which the other backends use for the PEs of the same node too.          *)
(***************************************************************************)
EXTENDS Integers, Sequences, FiniteSets, SequencesExt

CONSTANTS
    num_pes,
    Mapped,                 \* [PE -> PEs whose memory it stores to directly]
    num_qps_per_pe, HostLanes,
    Wfs, WfSize,            \* wavefronts of a work-group, lanes of a wavefront
    Rounds                  \* sizes of chunks: powers of two from 1 on

PEs == 0..(num_pes - 1)
Waves == 0..(Wfs - 1)
InSomeOrder(S) == FoldSet(LAMBDA x, seq : Append(seq, x), <<>>, S)
-----------------------------------------------------------------------------
(* Steps of a wavefront.  A cell is a buffer and an index in it.           *)
Store(q, to, S) == [op |-> "store", pe |-> q, to |-> to, of |-> S]
Load(q, to, S) == [op |-> "load", pe |-> q, to |-> to, of |-> S]
StoreValue(q, c, v) == [op |-> "value", pe |-> q, cell |-> c, v |-> v]
LoadValue(q, c) == [op |-> "read", pe |-> q, cell |-> c]
Fence == [op |-> "fence"]
s_barrier == [op |-> "s_barrier"]
Atomic(f, q, c, v, cond) ==
    [op |-> "atomic", f |-> f, pe |-> q, cell |-> c, v |-> v, cond |-> cond]
PostOn(qp, q, wqe) == [op |-> "post", qp |-> qp, wqe |-> [pe |-> q] @@ wqe]
Post(q, k, wqe) == PostOn(<<q, k>>, q, wqe)
FetchOn(qp, native, f, q, c, v, cond) ==    \* post it, wait for the old value
    [op |-> "fetch", native |-> native, f |-> f, qp |-> qp, pe |-> q,
     cell |-> c, v |-> v, cond |-> cond]
Fetch(f, q, k, c, v, cond) ==
    FetchOn(<<q, k>>, f \in {"fetch_add", "fetch_cas"}, f, q, c, v, cond)
Quiet(Q) == [op |-> "quiet", on |-> Q]
Wait(c, cmp, v) == [op |-> "wait", cell |-> c, cmp |-> cmp, v |-> v]
Scan(words, pos, cmp, some) ==      \* words: <<index, value>> to look at
    [op |-> "scan", words |-> words, pos |-> pos, cmp |-> cmp,
     some |-> some, found |-> {}]
Return(v) == [op |-> "return", v |-> v]
SetSource(n, v) == [op |-> "source", n |-> n, v |-> v]
abort == [op |-> "abort"]
Mpi(what, pes, n, root) ==          \* a collective of MPI or the bootstrap
    [op |-> "mpi", what |-> what, pes |-> pes, n |-> n, root |-> root]
Join == [op |-> "join"]             \* the host waits for the stream

When(c, s) == IF c THEN s ELSE <<>>

-----------------------------------------------------------------------------
(* A copy of n elements goes in rounds of chunks, from the largest a lane  *)
(* copies at once down to one element.  Chunk i of a round is the i % T-th *)
(* of T threads' to copy.                                                  *)
Largest == Max(Rounds)
Chunks(n, j) == IF j = Largest THEN n \div j ELSE (n % (2 * j)) \div j
Start(n, j) == IF j = Largest THEN 0 ELSE n - (n % (2 * j))
Same(S) == {<<i, i>> : i \in S}
ChunksOf(n, T, ts) ==
    {Same({Start(n, ji[1]) + ji[1] * ji[2] + b : b \in 0..(ji[1] - 1)}) :
        ji \in {x \in Rounds \X (0..n) :
                  x[2] < Chunks(n, x[1]) /\ x[2] % T \in ts}}
memcpy_lane(n) == ChunksOf(n, 1, {0})
memcpy_wave(n, lanes) == ChunksOf(n, WfSize, lanes)
memcpy_wg(n, w, lanes) ==
    ChunksOf(n, Wfs * WfSize, {w * WfSize + l : l \in lanes})
AllLanes == 0..(WfSize - 1)
isIpcAvailable(p, q) == q \in Mapped[p]
ipcCopy(Kind, q, to, S) ==
    When(S # {}, <<IF Kind = "Put" THEN Store(q, to, S) ELSE Load(q, to, S)>>)
-----------------------------------------------------------------------------
(* The queue pairs to a PE: posted operations of one are carried out in    *)
(* order.  Host operations have HostLanes lanes to each PE of their own.   *)
qps_of(q) == {<<q, k>> : k \in 0..(num_qps_per_pe - 1)}
all_qps == UNION {qps_of(q) : q \in PEs}
host_lane(q, k) == <<q, num_qps_per_pe + k>>
host_lanes == {host_lane(q, k) : q \in PEs, k \in 0..(HostLanes - 1)}
-----------------------------------------------------------------------------
(* IPCContext: the memory of every PE is mapped.                           *)
ipc_putmem(c) == ipcCopy("Put", c.pe, c.to, memcpy_lane(c.n))
ipc_getmem(c) == ipcCopy("Get", c.pe, c.to, memcpy_lane(c.n))
ipc_putmem_wave(c) == ipcCopy("Put", c.pe, c.to, memcpy_wave(c.n, AllLanes))
ipc_getmem_wave(c) == ipcCopy("Get", c.pe, c.to, memcpy_wave(c.n, AllLanes))
ipc_putmem_nbi_wg(w, c) ==
    ipcCopy("Put", c.pe, c.to, memcpy_wg(c.n, w, AllLanes))
ipc_getmem_nbi_wg(w, c) ==
    ipcCopy("Get", c.pe, c.to, memcpy_wg(c.n, w, AllLanes))
ipc_putmem_wg(w, c) == ipc_putmem_nbi_wg(w, c) \o <<s_barrier>>
ipc_getmem_wg(w, c) == ipc_getmem_nbi_wg(w, c) \o <<s_barrier>>
ipc_p(c) == <<StoreValue(c.pe, <<c.to, 0>>, c.v)>>
ipc_g(c) == <<LoadValue(c.pe, <<"src", 0>>)>>
ipc_fence == <<Fence>>
ipc_quiet == <<Fence>>
ipc_amo(c) == <<Atomic(c.op, c.pe, <<"word", c.word>>, c.v, c.cond)>>
ipc_putmem_signal(c) == ipc_putmem(c) \o ipc_fence \o ipc_amo(c)
ipc_putmem_signal_wave(c) == ipc_putmem_wave(c) \o ipc_fence \o ipc_amo(c)
ipc_putmem_signal_wg(w, c) ==
    ipc_putmem_wg(w, c) \o ipc_fence \o When(w = 0, ipc_amo(c))
ipc_signal_fetch(p, c) == <<Atomic("fetch_add", p, <<"word", c.word>>, 0, 0)>>
ipc_signal_fetch_wg(p, w, c) ==
    When(w = 0, ipc_signal_fetch(p, c)) \o <<s_barrier>>
=============================================================================
