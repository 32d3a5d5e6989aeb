---------------------------- MODULE GDACollectives ----------------------------
(***************************************************************************)
(* Collectives of the GDA backend (gda/context_gda_device_coll*.cpp and    *)
(* gda/context_gda_tmpl_device*.hpp, built with USE_DAS, the default, or   *)
(* without).  The PEs of a node store to each other directly, an operation *)
(* for another node is posted to a queue pair.  The arrays "barrier",      *)
(* "reduce", "bcast" and "alltoall" are the pSync arrays of the team,      *)
(* "seq" and "rseq" its alltoall_sequence_number and                       *)
(* reduce_sequence_number.  An operator gives the steps PE p makes in the  *)
(* function it is named after.                                             *)
(***************************************************************************)
EXTENDS Collectives

CONSTANTS
    USE_DAS,                \* the build
    num_pes,                \* PEs of the program
    ipc_shm_size,           \* PEs of a node (1: no IPC)
    num_qps_per_pe,
    WfCount,                \* wavefronts of a work-group
    FirstWave,              \* the calling wavefront holds thread 0 of its block
    AtomicBarrier,          \* team size from which barriers count (64)
    WrkSize, SyncSize,      \* ROCSHMEM_REDUCE_MIN_WRKDATA_SIZE, _SYNC_SIZE
    DirectMax,              \* DIRECT_MAX_NELEMS of reduce_das
    HierarchicalMin,        \* elements of kHierarchicalMinBytes
    ProxyElems,             \* elements of MIN_BYTES_PER_PROXY and _PER_RAIL
    HybridMin,              \* elements above which reduce-scatter is hybrid
    ChunkElems              \* elements of a chunk (collective_chunk_elems)

GDAAssumption ==
    /\ USE_DAS \in BOOLEAN /\ FirstWave \in BOOLEAN
    /\ PE_start \in Nat /\ Stride \in Nat \ {0} /\ N \in Nat \ {0}
    /\ PE_start + (N - 1) * Stride < num_pes
    /\ \A k \in {ipc_shm_size, num_qps_per_pe, WfCount, WrkSize, ProxyElems,
                 ChunkElems} : k \in Nat \ {0}

Least(a, b) == IF a < b THEN a ELSE b
Most(a, b) == IF a > b THEN a ELSE b
Ceil(a, b) == (a + b - 1) \div b
Counter(p, t, counter) == Word(p, <<counter, t * TeamSpan>>)
local_slot(p) == p % ipc_shm_size
ipc_first_pe(p) == p - local_slot(p)
isIpcAvailable(p, q) == q \in Mapped[p]
QueuePairs(Q) == {<<q, k>> : q \in Q, k \in 0..(num_qps_per_pe - 1)}

(* The first queue pair of PE q, the one a round robin hands out, and the  *)
(* one of the team.                                                        *)
get_qp_index(k) == k % num_qps_per_pe

(* A blocking operation: posted, then waited for.                          *)
Blocking(p, step) ==
    <<step>> \o When(~ByStore(p, step), <<Quiet({<<step.pe, step.qp>>})>>)
internal_quiet(Q) == Quiet({<<q, 0>> : q \in Q})
fence(Q) == When(num_qps_per_pe > 1, <<Quiet(QueuePairs(Q))>>)
-----------------------------------------------------------------------------
internal_direct_barrier(p, array) ==
    Thread(IF p = PE_start
           THEN For(1, N - 1, LAMBDA i : <<Wait("EQ", array, i, 1),
                                           Set(array, i, 0)>>)
                \o For(1, N - 1, LAMBDA i :
                         <<Set(array, 0, 1)>> \o
                         Blocking(p, Flag(get_pe_in_world(i), array, 0, 1)))
                \o <<Set(array, 0, 0)>>
           ELSE <<Set(array, Rank(p), 1)>>
                \o Blocking(p, Flag(PE_start, array, Rank(p), 1))
                \o <<Wait("EQ", array, 0, 1), Set(array, 0, 0),
                     Set(array, Rank(p), 0)>>)

(* The wavefronts of PE_start share out the members.  A wavefront starts   *)
(* at PE_start + stride + wf_id and goes on by wf_count * stride.          *)
internal_direct_barrier_wg(p, array) ==
    LET Of(w, F(_, _)) ==
            For(0, Ceil(N - 1 - w, WfCount) - 1, LAMBDA k :
                F(w + 1 + k * WfCount,
                  PE_start + Stride + w + k * WfCount * Stride))
    IN  IF p = PE_start
        THEN Threads(WfCount, LAMBDA w : Of(w, LAMBDA i, j :
                       <<Wait("EQ", array, i, 1), Set(array, i, 0)>>))
             \o Threads(WfCount, LAMBDA w :
                  Of(w, LAMBDA i, j : <<Flag(j, array, 0, 1)>>)
                  \o Of(w, LAMBDA i, j : <<internal_quiet({j})>>))
             \o Thread(<<Set(array, 0, 0)>>)
        ELSE Thread(Blocking(p, Flag(PE_start, array, Rank(p), 1))
                    \o <<Wait("EQ", array, 0, 1), Set(array, 0, 0)>>)

internal_atomic_barrier(p, array) ==
    Thread(IF p = PE_start
           THEN <<Wait("EQ", array, 0, N - 1), Set(array, 0, 0),
                  Set(array, 0, 1)>>
                \o For(1, N - 1, LAMBDA i :
                         <<Flag(get_pe_in_world(i), array, 0, 1)>>)
                \o <<Quiet(QueuePairs(0..(num_pes - 1))), Set(array, 0, 0)>>
           ELSE <<Add(PE_start, array, 0), Wait("EQ", array, 0, 1),
                  Set(array, 0, 0)>>)

internal_sync_wave(p, array) ==
    IF N < AtomicBarrier THEN internal_direct_barrier(p, array)
                         ELSE internal_atomic_barrier(p, array)
internal_sync_wg(p, array) ==
    IF N < AtomicBarrier THEN internal_direct_barrier_wg(p, array)
                         ELSE internal_atomic_barrier(p, array)

barrier_wave(p) ==
    Thread(<<Quiet(QueuePairs(0..(num_pes - 1)))>>)
    \o internal_sync_wave(p, "barrier")
barrier_wg(p) ==
    Thread(<<Quiet(QueuePairs(0..(num_pes - 1)))>>)
    \o internal_sync_wg(p, "barrier")
-----------------------------------------------------------------------------
(* Everybody's elements into everybody's scratch, a flag each, by the PE's *)
(* number in the world.                                                    *)
internal_direct_allreduce_wg(p, first, n) ==
    Thread(<<Copy(dst(first), src(first), n)>>
           \o ForEach(Others(p), LAMBDA q :
                Blocking(p, Put(q, wrk(p * n), src(first), n))
                \o Blocking(p, Flag(q, "reduce", p, 1)))
           \o ForEach(Others(p), LAMBDA q :
                <<Wait("EQ", "reduce", q, 1), Calc(dst(first), wrk(q * n), n)>>)
           \o For(0, num_pes - 1, LAMBDA i : <<Set("reduce", i, 0)>>))

(* The slots of a node reduce what its PEs contribute, reading their       *)
(* sources directly.                                                       *)
internal_fused_ipc_reduce(p, to, from, count) ==
    <<Copy(to, from, count)>>
    \o For(0, ipc_shm_size - 1, LAMBDA slot :
         When(slot # local_slot(p),
              <<Pull(ipc_first_pe(p) + slot, to, from, count)>>))

(* Segments are reduced by the proxies of every node, by those of the      *)
(* first node across the nodes, fetched by the others and put together.    *)
internal_proxy_allreduce(p, n) ==
    LET on_root_node == ipc_first_pe(p) = PE_start
        proxies == Least(ipc_shm_size, Ceil(n, ProxyElems))
        proxy_chunk == Ceil(n, proxies)
        slot == local_slot(p)
        Begin(s) == s * proxy_chunk
        Count(s) == Least(proxy_chunk, n - Begin(s))
        mine == dst(Begin(slot))
        Remote(node) == PE_start + node * ipc_shm_size + slot
        Tile(node, k) ==
            LET at == dst(Begin(slot) + k * WrkSize)
                tile == Least(WrkSize, Count(slot) - k * WrkSize)
            IN  Blocking(p, Get(Remote(node), wrk(0), at, tile))
                \o <<Calc(at, wrk(0), tile)>>
    IN  Thread(When(slot < proxies,
          internal_fused_ipc_reduce(p, mine, src(Begin(slot)), Count(slot))))
        \o internal_sync_wg(p, "reduce")
        \o Thread(When(on_root_node /\ slot < proxies,
             For(1, N \div ipc_shm_size - 1, LAMBDA node :
               For(0, Ceil(Count(slot), WrkSize) - 1, LAMBDA k : Tile(node, k)))))
        \o internal_sync_wg(p, "reduce")
        \o Thread(When(~on_root_node /\ slot < proxies,
             Blocking(p, Get(PE_start + slot, mine, mine, Count(slot)))))
        \o internal_sync_wg(p, "reduce")
        \o Thread(For(0, proxies - 1, LAMBDA s : When(s # slot,
             Blocking(p, Get(ipc_first_pe(p) + s, dst(Begin(s)), dst(Begin(s)),
                             Count(s))))))
        \o internal_sync_wg(p, "reduce")

(* The flags of a ring are numbered through and never reset.               *)
internal_ring_allreduce_das(p, first, n, n_seg, seg_size, chunk_size, base) ==
    LET r == Rank(p)
        next == get_pe_in_world((r + 1) % N)
        Off(k) == ((k + 2 * N) % N) * chunk_size
        At_(seg, k) == dst(first + seg * seg_size + Off(k))
        Send(seg, iter, to) ==
            <<On(get_qp_index(iter),
                 Put(next, to, At_(seg, r + 1 - iter), chunk_size))>>
            \o Blocking(p, On(get_qp_index(iter),
                              Flag(next, "reduce", iter, base + seg + 1)))
            \o <<Wait("EQ", "reduce", iter, base + seg + 1)>>
    IN  Thread(<<Copy(dst(first), src(first), n)>>
          \o For(0, n_seg - 1, LAMBDA seg :
               For(0, N - 2, LAMBDA iter :
                 Send(seg, iter, wrk(Off(r + 1 - iter)))
                 \o <<Calc(At_(seg, r - iter), wrk(Off(r - iter)), chunk_size)>>)
               \o For(N - 1, 2 * N - 3, LAMBDA iter :
                    Send(seg, iter, At_(seg, r + 1 - iter))))
          \o <<Set("rseq", 0, base + n_seg)>>)

reduce_das(p, t, n) ==
    LET use_proxy == /\ n >= HierarchicalMin /\ Stride = 1 /\ ipc_shm_size > 1
                     /\ PE_start % ipc_shm_size = 0 /\ N % ipc_shm_size = 0
                     /\ N > ipc_shm_size
        use_direct == WrkSize >= N * n /\ SyncSize >= N /\ n <= DirectMax
        chunk_size == WrkSize \div N
        seg_size == chunk_size * N
        n_seg == n \div seg_size
        done == n_seg * seg_size
        p_chunk == (n - done) \div N
        tail == n - done - p_chunk * N
        base == Counter(p, t, "rseq")
    IN  (IF use_proxy THEN internal_proxy_allreduce(p, n)
         ELSE IF use_direct THEN internal_direct_allreduce_wg(p, 0, n)
         ELSE IF 2 * N > SyncSize THEN <<>>      \* ROCSHMEM_ERROR
         ELSE When(n_seg > 0,
                internal_ring_allreduce_das(p, 0, n, n_seg, seg_size,
                                            chunk_size, base))
              \o When(p_chunk > 0,
                   internal_ring_allreduce_das(p, done, p_chunk * N, 1,
                                               p_chunk * N, p_chunk,
                                               base + n_seg))
              \o When(tail > 0,
                   internal_direct_allreduce_wg(p, done + p_chunk * N, tail)))
        \o barrier_wg(p)

(* The wavefront's forms, and the work-group's of a build without USE_DAS. *)
(* The ring numbers the flags by the segment and resets them.              *)
internal_direct_allreduce_wave(p, first, n) ==
    Thread(<<Copy(dst(first), src(first), n)>>
           \o ForEach(Others(p), LAMBDA q :
                <<Put(q, wrk(p * n), src(first), n), internal_quiet({q})>>
                \o Blocking(p, Flag(q, "reduce", p, 1)))
           \o ForEach(Others(p), LAMBDA q :
                <<Wait("EQ", "reduce", q, 1), Calc(dst(first), wrk(q * n), n)>>)
           \o For(0, num_pes - 1, LAMBDA i : <<Set("reduce", i, 0)>>))

RingAllreduce(p, first, n, n_seg, seg_size, chunk_size, Put1(_), Put2(_)) ==
    LET r == Rank(p)
        next == get_pe_in_world((r + 1) % N)
        Off(k) == ((k + 2 * N) % N) * chunk_size
        At_(seg, k) == dst(first + seg * seg_size + Off(k))
        Tell(iter, v) ==
            Blocking(p, Flag(next, "reduce", iter, v))
            \o <<Wait("EQ", "reduce", iter, v)>>
        Round1(seg, iter) ==
            Put1(Put(next, wrk(Off(r + 1 - iter)), At_(seg, r + 1 - iter),
                     chunk_size))
            \o Tell(iter, seg + 100)
            \o <<Calc(At_(seg, r - iter), wrk(Off(r - iter)), chunk_size)>>
        Round2(seg, iter) ==
            Put2(Put(next, At_(seg, r + 1 - iter), At_(seg, r + 1 - iter),
                     chunk_size))
            \o Tell(iter, seg + 10)
    IN  Thread(<<Copy(dst(first), src(first), n)>>
          \o For(0, n_seg - 1, LAMBDA seg :
               For(0, N - 2, LAMBDA iter : Round1(seg, iter))
               \o For(N - 1, 2 * N - 3, LAMBDA iter : Round2(seg, iter)))
          \o For(0, 2 * num_pes - 3, LAMBDA i : <<Set("reduce", i, 0)>>))
internal_ring_allreduce_wave(p, first, n, n_seg, seg_size, chunk_size) ==
    LET QuietPut(put) == <<put, internal_quiet({put.pe})>>
    IN  RingAllreduce(p, first, n, n_seg, seg_size, chunk_size, QuietPut, QuietPut)
internal_ring_allreduce_wg(p, first, n, n_seg, seg_size, chunk_size) ==
    RingAllreduce(p, first, n, n_seg, seg_size, chunk_size,
                  LAMBDA put : Blocking(p, put) \o fence(0..(num_pes - 1)),
                  LAMBDA put : <<put>> \o fence(0..(num_pes - 1)))

AllReduce(p, n, Direct_(_, _), Ring(_, _, _, _, _)) ==
    LET use_direct == Most(n \div 2 + 1, WrkSize) >= N * n /\ SyncSize >= N
        chunk_size == WrkSize \div N
        seg_size == chunk_size * N
        n_seg == n \div seg_size
        done == n_seg * seg_size
        p_chunk == (n - done) \div N
        tail == n - done - p_chunk * N
    IN  IF use_direct THEN Direct_(0, n)
        ELSE When(n_seg > 0, Ring(0, n, n_seg, seg_size, chunk_size))
             \o When(p_chunk > 0,
                     Ring(done, p_chunk * N, 1, p_chunk * N, p_chunk))
             \o When(tail > 0, Direct_(done + p_chunk * N, tail))
Supported(n) ==     \* ROCSHMEM_ERROR otherwise
    (Most(n \div 2 + 1, WrkSize) >= N * n /\ SyncSize >= N) \/ 2 * N <= SyncSize
reduce_wave(p, n) ==
    When(Supported(n),
         AllReduce(p, n,
                   LAMBDA first, k : internal_direct_allreduce_wave(p, first, k),
                   LAMBDA first, k, segs, size, chunk :
                     internal_ring_allreduce_wave(p, first, k, segs, size, chunk))
         \o barrier_wave(p))
reduce_wg(p, n) ==
    IF USE_DAS THEN reduce_das(p, 0, n)
    ELSE When(Supported(n),
         AllReduce(p, n,
                   LAMBDA first, k : internal_direct_allreduce_wg(p, first, k),
                   LAMBDA first, k, segs, size, chunk :
                     internal_ring_allreduce_wg(p, first, k, segs, size, chunk))
         \o barrier_wg(p))
-----------------------------------------------------------------------------
(* Reduce-scatter: a contribution to every member's scratch, a flag behind *)
(* it on the same queue pair, chunk by chunk.                              *)
reduce_scatter_chunk(p, n, chunk_size, elem_offset, c, count, Send(_, _)) ==
    LET r == Rank(p)
        offset == elem_offset + c * chunk_size
    IN  <<Copy(dst(offset), src(r * n + offset), count)>>
        \o ForEach(Others(p), LAMBDA q :
             Send(Put(q, wrk(r * chunk_size), src(Rank(q) * n + offset), count),
                  Flag(q, "reduce", r, 1)))
        \o ForEach(Others(p), LAMBDA q :
             <<Wait("EQ", "reduce", Rank(q), 1),
               Calc(dst(offset), wrk(Rank(q) * chunk_size), count)>>)
        \o For(0, N - 1, LAMBDA i : <<Set("reduce", i, 0)>>)
reduce_scatter_wave(p, n) ==
    LET chunk_size == Most(1, WrkSize \div N)
    IN  For(0, Ceil(n, chunk_size) - 1, LAMBDA c :
          Thread(reduce_scatter_chunk(p, n, chunk_size, 0, c,
                    Least(chunk_size, n - c * chunk_size),
                    LAMBDA put, flag : Blocking(p, put) \o Blocking(p, flag))
                 \o <<internal_quiet(Members \ {p})>>)
          \o internal_sync_wave(p, "barrier"))

(* The slots of a node reduce a block for every node, and the slots with   *)
(* the same number pass the blocks around the ring of the nodes.           *)
hybrid_reduce_scatter_wg(p, n, elem_offset, elem_count) ==
    LET nodes == N \div ipc_shm_size
        node_id == Rank(p) \div ipc_shm_size
        slot == local_slot(p)
        chunk_size == Least(ChunkElems, Most(1, WrkSize \div nodes))
        left_node == (node_id - 1 + nodes) % nodes
        right_pe == PE_start + ((node_id + 1) % nodes) * ipc_shm_size + slot
        Block(node) == wrk(node * chunk_size)
        Index(step) == (node_id - step - 1 + nodes) % nodes
        Ring(step, offset, count) ==
            Thread(<<On(get_qp_index(step),
                        Put(right_pe, dst(offset), Block(Index(step)), count))>>
              \o Blocking(p, On(get_qp_index(step),
                                Flag(right_pe, "reduce", node_id, 1)))
              \o <<Wait("EQ", "reduce", left_node, 1),
                   Calc(Block(Index(step + 1)), dst(offset), count)>>
              \o When(step = nodes - 2,
                      <<Copy(dst(offset), Block(node_id), count)>>)
              \o <<Set("reduce", left_node, 0)>>)
            \o barrier_wg(p)
    IN  For(0, Ceil(elem_count, chunk_size) - 1, LAMBDA c :
          LET offset == elem_offset + c * chunk_size
              count == Least(chunk_size, elem_count - c * chunk_size)
          IN  Thread(For(0, nodes - 1, LAMBDA node :
                internal_fused_ipc_reduce(p, Block(node),
                  src((node * ipc_shm_size + slot) * n + offset), count)))
              \o For(0, nodes - 2, LAMBDA step : Ring(step, offset, count)))

reduce_scatter_wg_das(p, n, elem_offset, elem_count) ==
    LET use_hybrid == /\ ipc_shm_size > 1 /\ Stride = 1
                      /\ PE_start % ipc_shm_size = 0 /\ N > ipc_shm_size
                      /\ N % ipc_shm_size = 0 /\ n > HybridMin
        chunk_size == Most(1, WrkSize \div N)
    IN  IF use_hybrid THEN hybrid_reduce_scatter_wg(p, n, elem_offset, elem_count)
        ELSE For(0, Ceil(elem_count, chunk_size) - 1, LAMBDA c :
               Thread(reduce_scatter_chunk(p, n, chunk_size, elem_offset, c,
                        Least(chunk_size, elem_count - c * chunk_size),
                        LAMBDA put, flag : <<put>> \o Blocking(p, flag)))
               \o barrier_wg(p))

reduce_scatter_wg(p, n) ==
    LET chunk_size == Most(1, WrkSize \div N)
    IN  IF USE_DAS THEN reduce_scatter_wg_das(p, n, 0, n)
        ELSE For(0, Ceil(n, chunk_size) - 1, LAMBDA c :
               Thread(reduce_scatter_chunk(p, n, chunk_size, 0, c,
                        Least(chunk_size, n - c * chunk_size),
                        LAMBDA put, flag : Blocking(p, put)
                          \o fence(0..(num_pes - 1)) \o Blocking(p, flag)))
               \o barrier_wg(p))
-----------------------------------------------------------------------------
(* The root posts a put to everybody and waits for none of them.           *)
internal_put_broadcastmem(p, n, root) ==
    Thread(When(p = root,
        ForEach(Others(p), LAMBDA q : <<Put(q, dst(0), src(0), n)>>)
        \o <<Copy(dst(0), src(0), n)>>))

internal_get_broadcastmem_wave(p, n, root) ==
    Thread(IF p = root THEN <<Copy(dst(0), src(0), n)>>
           ELSE Blocking(p, Get(root, dst(0), src(0), n)))

internal_broadcastmem_wave(p, n, root) ==
    (IF num_pes < 4 THEN internal_put_broadcastmem(p, n, root)
     ELSE internal_get_broadcastmem_wave(p, n, root))
    \o internal_sync_wave(p, "bcast")
internal_broadcast_wave(p, n, root) == internal_broadcastmem_wave(p, n, root)
broadcastmem_wave(p, n, root) == internal_broadcastmem_wave(p, n, root)
broadcast_wave(p, n, root) == internal_broadcast_wave(p, n, root)

(* A get from another node is striped over the queue pairs.                *)
internal_get_broadcastmem_wg_das(p, to, n, root) ==
    LET rails == Least(num_qps_per_pe, Most(1, Ceil(n, ProxyElems)))
        chunk == Ceil(n, rails)
        Rail(k) == When(k * chunk < n,
            <<On(k, Get(root, dst(to + k * chunk), src(k * chunk),
                        Least(chunk, n - k * chunk)))>>)
    IN  Thread(IF p = root THEN <<Copy(dst(to), src(0), n)>>
               ELSE IF isIpcAvailable(p, root)
               THEN <<Get(root, dst(to), src(0), n)>>
               ELSE For(0, rails - 1, Rail)
                    \o <<Quiet({<<root, k>> : k \in 0..(rails - 1)})>>)

(* The proxies of the root's node fetch a segment each, the proxies of the *)
(* other nodes fetch it from them, and every PE puts the segments together.*)
internal_proxy_broadcast(p, to, n, root, array) ==
    LET proxies == Least(ipc_shm_size, Ceil(n, ProxyElems))
        chunk == Ceil(n, proxies)
        slot == local_slot(p)
        Begin(s) == s * chunk
        Length(s) == Least(chunk, n - Begin(s))
        Segment(s, q, from) ==
            When(Begin(s) < n,
                 Blocking(p, Get(q, dst(to + Begin(s)), from, Length(s))))
        on_root_node == ipc_first_pe(p) = ipc_first_pe(root)
    IN  Thread(IF p = root THEN <<Copy(dst(to), src(0), n)>>
               ELSE When(on_root_node /\ slot < proxies,
                         Segment(slot, root, src(Begin(slot)))))
        \o internal_sync_wg(p, array)
        \o Thread(When(~on_root_node /\ slot < proxies,
             Segment(slot, ipc_first_pe(root) + slot, dst(to + Begin(slot)))))
        \o internal_sync_wg(p, array)
        \o Thread(For(0, proxies - 1, LAMBDA s : When(s # slot,
             Segment(s, ipc_first_pe(p) + s, dst(to + Begin(s))))))
        \o internal_sync_wg(p, array)

(* The first member of every node fetches the message, the others of the   *)
(* node take its copy.                                                     *)
internal_broadcastmem_wg_das(p, to, n, root, array) ==
    LET use_proxy == /\ n >= HierarchicalMin /\ Stride = 1 /\ ipc_shm_size > 1
                     /\ PE_start % ipc_shm_size = 0 /\ N % ipc_shm_size = 0
                     /\ N > ipc_shm_size
        node_leader == SelectSeq(Team, LAMBDA q :
                         q = p \/ isIpcAvailable(p, q))[1]
    IN  IF num_pes < 4
        THEN internal_put_broadcastmem(p, n, root) \o internal_sync_wg(p, array)
        ELSE IF use_proxy THEN internal_proxy_broadcast(p, to, n, root, array)
        ELSE When(p = root \/ p = node_leader,
                  internal_get_broadcastmem_wg_das(p, to, n, root))
             \o internal_sync_wg(p, array)
             \o Thread(When(p # node_leader /\ p # root,
                  Blocking(p, Get(node_leader, dst(to), dst(to), n))))
             \o internal_sync_wg(p, array)

internal_broadcastmem_wg(p, n, root) ==
    IF USE_DAS THEN internal_broadcastmem_wg_das(p, 0, n, root, "bcast")
    ELSE (IF num_pes < 4 THEN internal_put_broadcastmem(p, n, root)
          ELSE internal_get_broadcastmem_wave(p, n, root))
         \o internal_sync_wg(p, "bcast")
broadcastmem_wg(p, n, root) == internal_broadcastmem_wg(p, n, root)
broadcast_wg(p, n, root) == internal_broadcastmem_wg(p, n, root)
-----------------------------------------------------------------------------
(* Mutant: the puts are not waited for before the members are told.        *)
AlltoallWithoutQuiet(p, n, elem_offset, elem_count) ==
    LET Peers(w) == SelectSeq(Team, LAMBDA q : Rank(q) % WfCount = w)
    IN  Threads(WfCount, LAMBDA w : ForEach(Peers(w), LAMBDA q :
          <<Put(q, dst(Rank(p) * n + elem_offset), src(Rank(q) * n + elem_offset),
                elem_count)>>))
        \o internal_sync_wg(p, "alltoall")

(* Puts to everybody, chunk by chunk, the wavefronts sharing the peers.    *)
alltoall_linear_wg_das(p, n, elem_offset, elem_count) ==
    LET Peers(w) == SelectSeq(Team, LAMBDA q : Rank(q) % WfCount = w)
        Chunk(w, c) ==
            LET count == Least(ChunkElems, elem_count - c * ChunkElems)
                offset == elem_offset + c * ChunkElems
            IN  ForEach(Peers(w), LAMBDA q :
                  <<Put(q, dst(Rank(p) * n + offset), src(Rank(q) * n + offset),
                        count)>>)
                \o ForEach(Peers(w), LAMBDA q : <<internal_quiet({q})>>)
    IN  Threads(WfCount, LAMBDA w :
          For(0, Ceil(elem_count, ChunkElems) - 1, LAMBDA c : Chunk(w, c)))
        \o internal_sync_wg(p, "alltoall")

(* Every peer by the NIC, its flag counted up behind the data; two sets of *)
(* flags alternate between calls.                                          *)
alltoallmem_linear_thread_puts_wg(p, n) ==
    LET set == (Counter(p, 0, "seq") % 2) * N
    IN  Thread(ForEach(Team, LAMBDA q :
                 <<ByNic(0, Put(q, dst(Rank(p) * n), src(Rank(q) * n), n)),
                   ByNic(0, Add(q, "alltoall", set + Rank(p)))>>)
          \o ForEach(Team, LAMBDA q :
               <<Wait("EQ", "alltoall", set + Rank(q), 1), internal_quiet({q}),
                 Set("alltoall", set + Rank(q), 0)>>)
          \o <<Set("seq", 0, Counter(p, 0, "seq") + 1)>>)
alltoallmem_linear_thread_puts_wave(p, n) ==
    alltoallmem_linear_thread_puts_wg(p, n) \o internal_sync_wave(p, "barrier")
alltoallmem_wg(p, n) == alltoallmem_linear_thread_puts_wg(p, n)
alltoallmem_wave(p, n) == alltoallmem_linear_thread_puts_wave(p, n)
alltoall_wave(p, n) == alltoallmem_linear_thread_puts_wave(p, n)
alltoall_wg_das(p, n, elem_offset, elem_count) ==
    alltoall_linear_wg_das(p, n, elem_offset, elem_count)
alltoall_wg(p, n) == IF USE_DAS THEN alltoall_wg_das(p, n, 0, n)
                     ELSE alltoallmem_linear_thread_puts_wg(p, n)

(* Blocks go through slots of pWrk at the receiver.                        *)
alltoallv_copy_das(p, t, call, wg_id, wg_count) ==
    LET r == Rank(p)
        sn == Counter(p, t, "seq")
        set == (sn % 2) * N
        completion_count == sn \div 2 + 1
        tmp_buf_off == WrkSize \div N
        Part(nelems) == split_wg_range(nelems, wg_id, wg_count)
    IN  Thread(ForEach(Team, LAMBDA q :
                 LET k == Part(source_nelems(call, r, Rank(q)))
                 IN  When(k.count > 0, <<ByNic(0, Put(q, wrk(r * tmp_buf_off),
                       src(source_displs(call, r, Rank(q)) + k.offset), k.count))>>)
                     \o <<ByNic(0, Flag(q, "alltoall", set + r,
                                        completion_count))>>)
          \o ForEach(Team, LAMBDA q :
               <<Wait("GE", "alltoall", set + Rank(q), completion_count),
                 internal_quiet({q})>>))
        \o Thread(ForEach(Team, LAMBDA q :
             LET k == Part(dest_nelems(call, r, Rank(q)))
             IN  When(k.count > 0,
                      <<Copy(dst(dest_displs(call, r, Rank(q)) + k.offset),
                             wrk(Rank(q) * tmp_buf_off), k.count)>>))
          \o <<Set("seq", 0, sn + 1)>>)

(* "ctrl" is the start of pWrk: a word of sequence and displacement from   *)
(* every PE.                                                               *)
alltoallv_get_das(p, t, call, wg_id, wg_count) ==
    LET r == Rank(p)
        sn == Counter(p, t, "seq")
        set == (sn % 2) * N
        completion_count == sn \div 2 + 1
    IN  Thread(ForEach(Team, LAMBDA q :
          <<ByNic(0, Flag(q, "ctrl", p, (sn + 1) % 2^16)), internal_quiet({q})>>))
        \o Thread(ForEach(Team, LAMBDA q :
             LET k == split_wg_range(dest_nelems(call, r, Rank(q)), wg_id, wg_count)
             IN  <<Wait("EQ", "ctrl", q, (sn + 1) % 2^16)>>
                 \o When(k.count > 0, <<ByNic(0,
                      Get(q, dst(dest_displs(call, r, Rank(q)) + k.offset),
                          src(source_displs(call, Rank(q), r) + k.offset),
                          k.count))>>)
                 \o <<ByNic(0, Flag(q, "alltoall", set + r,
                                    completion_count))>>))
        \o Thread(ForEach(Team, LAMBDA q :
             <<Wait("GE", "alltoall", set + Rank(q), completion_count),
               internal_quiet({q})>>)
          \o <<Set("seq", 0, sn + 1)>>)

alltoallv_das(p, t, call, wg_id, wg_count) ==
    LET all == split_wg_range(call.n, wg_id, wg_count)
    IN  IF RegularLayout(call, Rank(p))
        THEN alltoall_wg_das(p, call.n, all.offset, all.count)
        ELSE IF call.f = "alltoallv_copy"
        THEN alltoallv_copy_das(p, t, call, wg_id, wg_count)
        ELSE alltoallv_get_das(p, t, call, wg_id, wg_count)

(* A build without USE_DAS counts the flags up and resets them; its get    *)
(* deals with one peer after the other.                                    *)
alltoallv_copy(p, call) ==
    LET r == Rank(p)
        set == (Counter(p, 0, "seq") % 2) * N
        tmp_buf_off == WrkSize \div N
    IN  Thread(ForEach(Team, LAMBDA q :
                 LET k == source_nelems(call, r, Rank(q))
                 IN  When(k > 0, <<ByNic(0, Put(q, wrk(r * tmp_buf_off),
                           src(source_displs(call, r, Rank(q))), k))>>)
                     \o <<ByNic(0, Add(q, "alltoall", set + r))>>)
          \o ForEach(Team, LAMBDA q :
               <<Wait("EQ", "alltoall", set + Rank(q), 1), internal_quiet({q}),
                 Set("alltoall", set + Rank(q), 0)>>))
        \o Thread(ForEach(Team, LAMBDA q :
             LET k == dest_nelems(call, r, Rank(q))
             IN  When(k > 0, <<Copy(dst(dest_displs(call, r, Rank(q))),
                                    wrk(Rank(q) * tmp_buf_off), k)>>))
          \o <<Set("seq", 0, Counter(p, 0, "seq") + 1)>>)
alltoallv_get(p, call) ==
    LET r == Rank(p)
        sn == Counter(p, 0, "seq")
        set == (sn % 2) * N
        Lane(q) ==
            <<ByNic(0, Flag(q, "ctrl", r, (sn + 1) % 2^16)),
              Wait("EQ", "ctrl", Rank(q), (sn + 1) % 2^16),
              ByNic(0, Get(q, dst(dest_displs(call, r, Rank(q))),
                           src(source_displs(call, Rank(q), r)),
                           dest_nelems(call, r, Rank(q)))),
              ByNic(0, Add(q, "alltoall", set + r)),
              Wait("EQ", "alltoall", set + Rank(q), 1), internal_quiet({q}),
              Set("alltoall", set + Rank(q), 0)>>
    IN  Threads(N, LAMBDA k : Lane(Team[k + 1]))
        \o Thread(<<Set("seq", 0, sn + 1)>>)
alltoallv(p, call) ==
    IF USE_DAS THEN alltoallv_das(p, 0, call, 0, 1)
    ELSE IF call.f = "alltoallv_copy" THEN alltoallv_copy(p, call)
    ELSE alltoallv_get(p, call)

fcollect_linear_das(p, n, elem_offset, elem_count) ==
    IF N >= 4 /\ elem_count >= HierarchicalMin
    THEN For(0, N - 1, LAMBDA j : Shifted(elem_offset,
           internal_broadcastmem_wg_das(p, j * n, elem_count, get_pe_in_world(j),
                                        "alltoall")))
    ELSE For(0, Ceil(elem_count, ChunkElems) - 1, LAMBDA c :
           Thread(ForEach(Team, LAMBDA q :
                    <<Put(q, dst(Rank(p) * n + elem_offset + c * ChunkElems),
                          src(elem_offset + c * ChunkElems),
                          Least(ChunkElems, elem_count - c * ChunkElems))>>)
                  \o <<internal_quiet(Members)>>))
         \o internal_sync_wg(p, "alltoall")

(* The wavefront's quiet is thread 0 of the block's.                       *)
fcollectmem_linear_wave(p, n) ==
    Thread(ForEach(Team, LAMBDA q : <<Put(q, dst(Rank(p) * n), src(0), n)>>)
           \o When(FirstWave, <<internal_quiet(Members)>>))
    \o internal_sync_wave(p, "alltoall")
fcollectmem_linear_wg(p, n) ==
    Thread(ForEach(Team, LAMBDA q : <<Put(q, dst(Rank(p) * n), src(0), n)>>)
           \o <<internal_quiet(Members)>>)
    \o internal_sync_wg(p, "alltoall")
fcollectmem_wave(p, n) == fcollectmem_linear_wave(p, n)
fcollect_wave(p, n) == fcollectmem_linear_wave(p, n)
fcollectmem_wg(p, n) == fcollectmem_linear_wg(p, n)
fcollect_wg(p, n) ==
    IF USE_DAS THEN fcollect_linear_das(p, n, 0, n) ELSE fcollectmem_linear_wg(p, n)
-----------------------------------------------------------------------------
(* A segment of the tile into the PE's slot of the root's scratch.         *)
tile_reduce_typed_impl(p, root, first, count, capacity) ==
    IF p = root THEN <<Copy(wrk(Rank(p) * capacity), src(first), count)>>
    ELSE <<ByNic(get_qp_index(1), Put(root, wrk(Rank(p) * capacity), src(first),
                                      count)),
           Quiet({<<root, get_qp_index(1)>>})>>
tile_reduce_root_compute(p, root, first, count, capacity) ==
    When(p = root, <<Copy(dst(first), wrk(0), count)>> \o
         For(1, N - 1, LAMBDA i : <<Calc(dst(first), wrk(i * capacity), count)>>))
tile_reduce_reset_psync(p, root) ==
    When(p = root, For(0, N - 1, LAMBDA i : <<Set("reduce", i, 0)>>))

(* Threads, wavefronts and work-groups differ in how they synchronise.     *)
TileReduce(p, n, root, sync_) ==
    LET capacity == WrkSize \div N
        Segment(k) ==
            LET first == k * capacity
                count == Least(capacity, n - first)
            IN  Thread(tile_reduce_typed_impl(p, root, first, count, capacity)
                  \o (IF p = root
                      THEN <<Set("reduce", Rank(p), k + 1)>>
                           \o For(0, N - 1, LAMBDA i :
                                <<Wait("EQ", "reduce", i, k + 1)>>)
                      ELSE fence({root})
                           \o Blocking(p, Flag(root, "reduce", Rank(p), k + 1)))
                  \o tile_reduce_root_compute(p, root, first, count, capacity))
                \o sync_
    IN  When(n > 0 /\ capacity > 0 /\ N <= SyncSize,
             For(0, Ceil(n, capacity) - 1, Segment)
             \o Thread(tile_reduce_reset_psync(p, root)) \o sync_)
tile_reduce_typed(p, n, root) ==
    TileReduce(p, n, root, internal_sync_wave(p, "barrier"))
tile_reduce_typed_wave(p, n, root) ==
    TileReduce(p, n, root, internal_sync_wave(p, "barrier"))
tile_reduce_typed_wg(p, n, root) ==
    TileReduce(p, n, root, internal_sync_wg(p, "barrier"))

(* By element type; an unknown one is an error on every PE.  The reduction *)
(* is a sum, a maximum or a minimum.                                       *)
gda_tile_reduce_dispatch(p, call, root) ==
    CASE call.f = "tile_reduce" -> tile_reduce_typed(p, call.n, root)
      [] call.f = "tile_reduce_wave" -> tile_reduce_typed_wave(p, call.n, root)
      [] call.f = "tile_reduce_wg" -> tile_reduce_typed_wg(p, call.n, root)
tile_sum_reduce(p, call, root) == gda_tile_reduce_dispatch(p, call, root)

TileGet(p, q, to, n) == Blocking(p, On(get_qp_index(1), Get(q, to, src(0), n)))
TileAllgather(p, n, sync_) ==
    Thread(ForEach(Team, LAMBDA q : TileGet(p, q, dst(Rank(q) * n), n))) \o sync_
tile_allgather(p, n) == TileAllgather(p, n, internal_sync_wave(p, "barrier"))
tile_allgather_wave(p, n) == TileAllgather(p, n, internal_sync_wave(p, "barrier"))
tile_allgather_wg(p, n) == TileAllgather(p, n, internal_sync_wg(p, "barrier"))

TileBroadcast(p, n, root, sync_) ==
    Thread(When(p # root, TileGet(p, root, dst(0), n))) \o sync_
tile_broadcast(p, n, root) ==
    TileBroadcast(p, n, root, internal_sync_wave(p, "barrier"))
tile_broadcast_wave(p, n, root) ==
    TileBroadcast(p, n, root, internal_sync_wave(p, "barrier"))
tile_broadcast_wg(p, n, root) ==
    TileBroadcast(p, n, root, internal_sync_wg(p, "barrier"))
-----------------------------------------------------------------------------
rocshmem_tile_allgather(p, call) ==
    CASE call.f = "tile_allgather" -> tile_allgather(p, call.n)
      [] call.f = "tile_allgather_wave" -> tile_allgather_wave(p, call.n)
      [] call.f = "tile_allgather_wg" -> tile_allgather_wg(p, call.n)
rocshmem_tile_broadcast(p, call, root) ==
    CASE call.f = "tile_broadcast" -> tile_broadcast(p, call.n, root)
      [] call.f = "tile_broadcast_wave" -> tile_broadcast_wave(p, call.n, root)
      [] call.f = "tile_broadcast_wg" -> tile_broadcast_wg(p, call.n, root)
rocshmem_tile_reduce(p, call, root) == tile_sum_reduce(p, call, root)
TileProgram(p, call, root) ==
    CASE call.f \in {"tile_reduce", "tile_reduce_wave", "tile_reduce_wg"} ->
            rocshmem_tile_reduce(p, call, root)
      [] call.f \in {"tile_allgather", "tile_allgather_wave", "tile_allgather_wg"} ->
            rocshmem_tile_allgather(p, call)
      [] call.f \in {"tile_broadcast", "tile_broadcast_wave", "tile_broadcast_wg"} ->
            rocshmem_tile_broadcast(p, call, root)

(* Work-group wg_id of the kernel of a call on a stream.                   *)
MultiWgKernel(p, call, wg_id, wg_count) ==
    LET n == call.n
        root == get_pe_in_world(call.root)
    IN  CASE call.f = "reduce_wg" ->
                rocshmem_reduce_on_stream_multi_wg_kernel(n, wg_id, wg_count,
                  LAMBDA t, k : reduce_das(p, t, k))
          [] call.f = "broadcast_wg" ->
                rocshmem_broadcastmem_multi_wg_kernel(n, wg_id, wg_count,
                  LAMBDA k : broadcast_wg(p, k, root))
          [] call.f = "reduce_scatter_wg" ->
                rocshmem_reduce_scatter_on_stream_multi_wg_kernel(n, wg_id, wg_count,
                  LAMBDA t, first, k : reduce_scatter_wg_das(p, n, first, k))
          [] call.f = "alltoall_wg" ->
                rocshmem_alltoall_multi_wg_kernel(n, wg_id, wg_count,
                  LAMBDA t, first, k : alltoall_wg_das(p, n, first, k))
          [] call.f \in {"alltoallv_copy", "alltoallv_get"} ->
                rocshmem_alltoallv_on_stream_multi_wg_kernel(wg_id, wg_count,
                  LAMBDA t, id, wgs : alltoallv_das(p, t, call, id, wgs))
          [] call.f = "fcollect_wg" ->
                rocshmem_fcollect_on_stream_multi_wg_kernel(n, wg_id, wg_count,
                  LAMBDA t, first, k : fcollect_linear_das(p, n, first, k))

(* A function of a kernel, by its name.                                    *)
Function(p, call) ==
    LET n == call.n
        f == call.f
        root == get_pe_in_world(call.root)
    IN  IF NothingToDo(call) THEN <<>>
        ELSE CASE f = "reduce_wg" -> reduce_wg(p, n)
               [] f = "reduce_wave" -> reduce_wave(p, n)
               [] f = "reduce_scatter_wg" -> reduce_scatter_wg(p, n)
               [] f = "reduce_scatter_wave" -> reduce_scatter_wave(p, n)
               [] f = "broadcast_wg" -> broadcast_wg(p, n, root)
               [] f = "broadcastmem_wg" -> broadcastmem_wg(p, n, root)
               [] f = "broadcast_wave" -> broadcast_wave(p, n, root)
               [] f = "broadcastmem_wave" -> broadcastmem_wave(p, n, root)
               [] f = "alltoall_wg" -> alltoall_wg(p, n)
               [] f = "alltoallmem_wg" -> alltoallmem_wg(p, n)
               [] f = "alltoall_wave" -> alltoall_wave(p, n)
               [] f = "alltoallmem_wave" -> alltoallmem_wave(p, n)
               [] f \in {"alltoallv_copy", "alltoallv_get"} -> alltoallv(p, call)
               [] f = "fcollect_wg" -> fcollect_wg(p, n)
               [] f = "fcollectmem_wg" -> fcollectmem_wg(p, n)
               [] f = "fcollect_wave" -> fcollect_wave(p, n)
               [] f = "fcollectmem_wave" -> fcollectmem_wave(p, n)
               [] call.f \in TileCollectives -> TileProgram(p, call, root)
               [] f = "sync" -> internal_sync_wave(p, "barrier")
               [] f = "barrier_wave" -> barrier_wave(p)
               [] f = "barrier_wg" -> barrier_wg(p)

Program(p, call) ==
    Launched(call, Function(p, call),
             Threads(num_wgs(call),
                     LAMBDA wg_id : MultiWgKernel(p, call, wg_id, num_wgs(call))))

Go(p) == Enter(p, Program) \/ Run(p)
Next == \E p \in Members : Go(p) \/ Deliver(p)
Spec == Init /\ [][Next]_vars
=============================================================================
