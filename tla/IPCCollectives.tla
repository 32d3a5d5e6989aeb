---------------------------- MODULE IPCCollectives ----------------------------
(***************************************************************************)
(* Collectives of the IPC backend (ipc/context_ipc_device_coll*.cpp and    *)
(* ipc/context_ipc_tmpl_device*.hpp, built with USE_DAS, the default, or   *)
(* without).  The arrays "barrier", "reduce", "bcast" and "alltoall" are   *)
(* the pSync arrays of the team, "seq" its alltoall_sequence_number.  An   *)
(* operator gives the steps PE p makes in the function it is named after.  *)
(***************************************************************************)
EXTENDS Collectives

CONSTANTS
    USE_DAS,                \* the build
    num_pes,                \* PEs of the program
    BlockSize, WfSize,      \* threads of a work-group, of a wavefront
    AtomicBarrier,          \* team size from which barriers count (64)
    WrkSize, SyncSize,      \* ROCSHMEM_REDUCE_MIN_WRKDATA_SIZE, _SYNC_SIZE
    DirectMax,              \* DIRECT_MAX_NELEMS of reduce_das
    ScatterMin,             \* least block of reduce_das by reduce-scatter
    SmallMax,               \* elements up to which an alltoall is small
    BcastDirectMax,         \* DIRECT_MAX_BYTES of a broadcast
    ChunkElems              \* elements of ROCSHMEM_CHUNK_BYTES

IPCAssumption ==
    /\ USE_DAS \in BOOLEAN
    /\ PE_start \in Nat /\ Stride \in Nat \ {0} /\ N \in Nat \ {0}
    /\ num_pes \in Nat /\ PE_start + (N - 1) * Stride < num_pes
    /\ \A k \in {BlockSize, WfSize, WrkSize, SyncSize, ChunkElems} :
         k \in Nat \ {0}

num_waves == (BlockSize + WfSize - 1) \div WfSize
Least(a, b) == IF a < b THEN a ELSE b
Most(a, b) == IF a > b THEN a ELSE b
MySeq(p, t) == Word(p, <<"seq", t * TeamSpan>>)
-----------------------------------------------------------------------------
internal_direct_barrier(p, array, base) ==
    Thread(IF p = PE_start
           THEN For(1, N - 1, LAMBDA i : <<Wait("EQ", array, base + i, 1),
                                           Set(array, base + i, 0)>>)
                \o For(1, N - 1, LAMBDA i :
                         <<Flag(get_pe_in_world(i), array, base, 1)>>)
           ELSE <<Flag(PE_start, array, base + Rank(p), 1),
                  Wait("EQ", array, base, 1), Set(array, base, 0)>>)

internal_atomic_barrier(p, array, base) ==
    Thread(IF p = PE_start
           THEN <<Wait("EQ", array, base, N - 1), Set(array, base, 0)>>
                \o For(1, N - 1, LAMBDA i :
                         <<Flag(get_pe_in_world(i), array, base, 1)>>)
           ELSE <<Add(PE_start, array, base), Wait("EQ", array, base, 1),
                  Set(array, base, 0)>>)

internal_sync(p, array, base) ==
    IF N < AtomicBarrier THEN internal_direct_barrier(p, array, base)
                         ELSE internal_atomic_barrier(p, array, base)

(* Stores are complete where the quiet of a barrier stands.                *)
barrier(p) == internal_sync(p, "barrier", 0)
-----------------------------------------------------------------------------
(* Everybody's elements into everybody's scratch, a flag each.  Scratch    *)
(* and flags go by the PE's number in the world; the work-group resets the *)
(* first N flags, the wavefront one for every PE of the program.           *)
internal_direct_allreduce(p, first, n, words) ==
    Thread(<<Copy(dst(first), src(first), n)>>
           \o ForEach(Others(p), LAMBDA q :
                <<Put(q, wrk(p * n), src(first), n), Flag(q, "reduce", p, 1)>>)
           \o ForEach(Others(p), LAMBDA q :
                <<Wait("EQ", "reduce", q, 1), Calc(dst(first), wrk(q * n), n)>>)
           \o For(0, words - 1, LAMBDA i : <<Set("reduce", i, 0)>>))

(* N - 1 rounds in which a chunk travels along the ring and is reduced,    *)
(* N - 1 that hand the result on.                                          *)
internal_ring_allreduce(p, first, n, n_seg, seg_size, chunk_size, words) ==
    LET r == Rank(p)
        next == get_pe_in_world((r + 1) % N)
        Off(k) == ((k + 2 * N) % N) * chunk_size
        Round1(seg, iter) ==
            <<Put(next, wrk(Off(r + 1 - iter)),
                  dst(first + seg * seg_size + Off(r + 1 - iter)), chunk_size),
              Flag(next, "reduce", iter, seg + 100),
              Wait("EQ", "reduce", iter, seg + 100),
              Calc(dst(first + seg * seg_size + Off(r - iter)),
                   wrk(Off(r - iter)), chunk_size)>>
        Round2(seg, iter) ==
            LET d == dst(first + seg * seg_size + Off(r + 1 - iter))
            IN  <<Put(next, d, d, chunk_size),
                  Flag(next, "reduce", iter, seg + 10),
                  Wait("EQ", "reduce", iter, seg + 10)>>
    IN  Thread(<<Copy(dst(first), src(first), n)>>
               \o For(0, n_seg - 1, LAMBDA seg :
                    For(0, N - 2, LAMBDA iter : Round1(seg, iter))
                    \o For(N - 1, 2 * N - 3, LAMBDA iter : Round2(seg, iter)))
               \o For(0, words - 1, LAMBDA i : <<Set("reduce", i, 0)>>))

internal_ring_allreduce_das(p, first, n, n_seg, seg_size, chunk_size, words) ==
    internal_ring_allreduce(p, first, n, n_seg, seg_size, chunk_size, words)

(* Rings over n_seg segments of the scratch, a ring over what is left of   *)
(* them, the last few elements directly.                                   *)
ByRing(p, n, between, Ring(_, _, _, _, _, _, _), ring_words, direct_words) ==
    LET chunk_size == WrkSize \div N
        seg_size == chunk_size * N
        n_seg == n \div seg_size
        done == n_seg * seg_size
        p_chunk == (n - done) \div N
        tail == n - done - p_chunk * N
    IN  When(n_seg > 0,
             Ring(p, 0, n, n_seg, seg_size, chunk_size, ring_words))
        \o When(p_chunk > 0, between \o
             Ring(p, done, p_chunk * N, 1, p_chunk * N, p_chunk, ring_words))
        \o When(tail > 0, between \o
             internal_direct_allreduce(p, done + p_chunk * N, tail,
                                       direct_words))

(* Directly where the scratch holds everybody's elements.  A team too      *)
(* large for the flags of a ring is an error.                              *)
AllReduce(p, n, ring_words, direct_words) ==
    IF Most(n \div 2 + 1, WrkSize) >= N * n /\ SyncSize >= N
    THEN internal_direct_allreduce(p, 0, n, direct_words) \o barrier(p)
    ELSE When(2 * N <= SyncSize,
              ByRing(p, n, barrier(p), internal_ring_allreduce, ring_words,
                     direct_words) \o barrier(p))
reduce_wave(p, n) == AllReduce(p, n, 2 * num_pes - 2, num_pes)

(* Words of reduce_pSync: 0.. data flags, N.. acknowledgements, 2N the     *)
(* generation, which is never reset.                                       *)
reduce_scatter_wg_das(p, t, to, n, elem_offset, elem_count) ==
    LET r == Rank(p)
        chunk_size == Most(1, WrkSize \div Most(1, N - 1))
        num_chunks == (elem_count + chunk_size - 1) \div chunk_size
        generation == Word(p, <<"reduce", t * TeamSpan + 2 * N>>)
        Slot(k, o) == IF k > o THEN k - 1 ELSE k
        Chunk(c) ==
            LET flag_val == generation + 1 + c
                offset == elem_offset + c * chunk_size
                count == Least(chunk_size, elem_offset + elem_count - offset)
                Send(q) == <<Put(q, wrk(Slot(r, Rank(q)) * chunk_size),
                                 src(Rank(q) * n + offset), count),
                             Flag(q, "reduce", r, flag_val)>>
                Await(q) == <<Wait("EQ", "reduce", Rank(q), flag_val)>>
                Waves(F(_)) ==
                    IF N - 1 <= num_waves
                    THEN Threads(N - 1, LAMBDA k : F(Others(p)[k + 1]))
                    ELSE Thread(ForEach(Others(p), F))
            IN  Waves(Send) \o Waves(Await)
                \o Thread(<<Copy(dst(to + offset), src(r * n + offset), count)>>
                     \o ForEach(Others(p), LAMBDA q :
                          <<Calc(dst(to + offset),
                                 wrk(Slot(Rank(q), r) * chunk_size), count)>>)
                     \o ForEach(Others(p), LAMBDA q :
                          <<Flag(q, "reduce", N + r, flag_val)>>)
                     \o ForEach(Others(p), LAMBDA q :
                          <<Wait("EQ", "reduce", N + Rank(q), flag_val)>>))
    IN  Thread(<<Set("reduce", 2 * N, generation + num_chunks)>>)
        \o For(0, num_chunks - 1, Chunk)

reduce_scatter_wave(p, n) ==
    LET r == Rank(p)
        chunk_size == Most(1, WrkSize \div N)
        Chunk(c) ==
            LET offset == c * chunk_size
                count == Least(chunk_size, n - offset)
            IN  Thread(<<Copy(dst(offset), src(r * n + offset), count)>>
                  \o ForEach(Others(p), LAMBDA q :
                       <<Put(q, wrk(r * chunk_size), src(Rank(q) * n + offset),
                             count),
                         Flag(q, "reduce", r, c + 1)>>)
                  \o ForEach(Others(p), LAMBDA q :
                       <<Wait("EQ", "reduce", Rank(q), c + 1),
                         Calc(dst(offset), wrk(Rank(q) * chunk_size), count)>>))
                \o barrier(p)
    IN  For(0, (n + chunk_size - 1) \div chunk_size - 1, Chunk)
        \o Thread(For(0, N - 1, LAMBDA i : <<Set("reduce", i, 0)>>))
        \o barrier(p) \o barrier(p)

(* The work-group's function of a build without USE_DAS.                   *)
ReduceScatterWg(p, n) ==
    LET r == Rank(p)
        chunk_size == Most(1, WrkSize \div N)
        Chunk(c) ==
            LET offset == c * chunk_size
                count == Least(chunk_size, n - offset)
            IN  Thread(<<Copy(dst(offset), src(r * n + offset), count)>>
                  \o ForEach(Others(p), LAMBDA q :
                       <<Put(q, wrk(r * chunk_size), src(Rank(q) * n + offset),
                             count),
                         Flag(q, "reduce", r, 1)>>)
                  \o ForEach(Others(p), LAMBDA q :
                       <<Wait("EQ", "reduce", Rank(q), 1),
                         Calc(dst(offset), wrk(Rank(q) * chunk_size), count)>>)
                  \o For(0, N - 1, LAMBDA i : <<Set("reduce", i, 0)>>))
                \o barrier(p)
    IN  For(0, (n + chunk_size - 1) \div chunk_size - 1, Chunk)
reduce_scatter_wg(p, n) ==
    IF USE_DAS THEN reduce_scatter_wg_das(p, 0, 0, n, 0, n)
               ELSE ReduceScatterWg(p, n)

reduce_das(p, t, n) ==
    LET use_direct == /\ WrkSize >= N * n /\ SyncSize >= N /\ n <= DirectMax
        block_count == n \div N
        mine == dst(Rank(p) * block_count)
    IN  IF ~use_direct /\ n % N = 0 /\ block_count >= ScatterMin
        THEN reduce_scatter_wg_das(p, t, Rank(p) * block_count, block_count, 0,
                                   block_count)
             \o Thread(ForEach(Others(p), LAMBDA q :
                         <<Put(q, mine, mine, block_count)>>))
             \o internal_sync(p, "alltoall", 0)
        ELSE When(use_direct, internal_direct_allreduce(p, 0, n, N))
             \o When(~use_direct,
                     ByRing(p, n, <<>>, internal_ring_allreduce_das, 2 * N - 2, N))
             \o barrier(p)
reduce_wg(p, n) ==
    IF USE_DAS THEN reduce_das(p, 0, n) ELSE AllReduce(p, n, 2 * N - 2, N)
-----------------------------------------------------------------------------
(* The root's put to everybody, or everybody's get from the root.          *)
internal_put_broadcast(p, n, root) ==
    When(p = root, Thread(ForEach(Team, LAMBDA q :
                            <<Put(q, dst(0), src(0), n)>>)))
internal_get_broadcast(p, n, root) == Thread(<<Get(root, dst(0), src(0), n)>>)

internal_broadcast_wave(p, n, root) ==
    (IF num_pes < 4 THEN internal_put_broadcast(p, n, root)
                    ELSE internal_get_broadcast(p, n, root))
    \o internal_sync(p, "bcast", 0)
internal_broadcastmem_wave(p, n, root) == internal_broadcast_wave(p, n, root)
internal_broadcastmem_wg(p, n, root) == internal_broadcast_wave(p, n, root)
broadcast_wave(p, n, root) == internal_broadcast_wave(p, n, root)
broadcastmem_wave(p, n, root) == internal_broadcastmem_wave(p, n, root)

(* Chunks handed along the chain that starts at the root; word 0 of        *)
(* bcast_pSync counts the chunks that have arrived, the words behind it    *)
(* are the final barrier's.                                                *)
internal_chain_broadcast(p, n, root) ==
    LET virtual_rank == (Rank(p) - Rank(root) + N) % N
        next_pe == get_pe_in_world((Rank(p) + 1) % N)
        num_chunks == (n + ChunkElems - 1) \div ChunkElems
        Chunk(c) ==
            LET offset == c * ChunkElems
                count == Least(ChunkElems, n - offset)
                from == IF virtual_rank = 0 THEN src(offset) ELSE dst(offset)
            IN  When(virtual_rank > 0, <<Wait("GE", "bcast", 0, c + 1)>>)
                \o When(virtual_rank < N - 1,
                        <<Put(next_pe, dst(offset), from, count),
                          Flag(next_pe, "bcast", 0, c + 1)>>)
    IN  Thread(When(virtual_rank = 0, <<Get(root, dst(0), src(0), n)>>)
               \o For(0, num_chunks - 1, Chunk))
        \o internal_sync(p, "bcast", 1)
        \o Thread(<<Set("bcast", 0, 0)>>)

internal_broadcastmem_wg_das(p, n, root) ==
    IF N <= 2 \/ n <= BcastDirectMax
    THEN internal_put_broadcast(p, n, root) \o internal_sync(p, "bcast", 0)
    ELSE internal_chain_broadcast(p, n, root)
broadcastmem_wg(p, n, root) ==
    IF USE_DAS THEN internal_broadcastmem_wg_das(p, n, root)
               ELSE internal_broadcastmem_wg(p, n, root)
broadcast_wg(p, n, root) == broadcastmem_wg(p, n, root)
-----------------------------------------------------------------------------
(* Waves share out the peers; a large message goes in chunks.              *)
PutToAll(p, From(_), to, elem_offset, elem_count) ==
    LET Peers(k) == SelectSeq(Team, LAMBDA q : Rank(q) % num_waves = k)
        Chunk(k, c) ==
            LET offset == elem_offset + c * ChunkElems
                count == Least(ChunkElems, elem_offset + elem_count - offset)
            IN  ForEach(Peers(k), LAMBDA q :
                  <<Put(q, dst(to + offset), src(From(q) + offset), count)>>)
        chunks == (elem_count + ChunkElems - 1) \div ChunkElems
    IN  Threads(num_waves, LAMBDA k :
          For(0, chunks - 1, LAMBDA c : Chunk(k, c)))

alltoall_linear_wg_das(p, n, elem_offset, elem_count) ==
    PutToAll(p, LAMBDA q : Rank(q) * n, Rank(p) * n, elem_offset, elem_count)
    \o internal_sync(p, "alltoall", 0)

(* Thread by thread; flags from word "set" on are counted up.              *)
ThreadPuts(p, t, n, elem_offset, elem_count, threads, set) ==
    LET step_size == Least(BlockSize, WfSize)
        Mine(tid, F(_)) ==
            ForEach(SelectSeq(Team, LAMBDA q :
                      Rank(q) >= tid /\ (Rank(q) - tid) % step_size = 0), F)
    IN  Threads(threads, LAMBDA tid :
          Mine(tid, LAMBDA q : <<Put(q, dst(Rank(p) * n + elem_offset),
                                     src(Rank(q) * n + elem_offset), elem_count)>>)
          \o Mine(tid, LAMBDA q : <<Add(q, "alltoall", set + Rank(p))>>)
          \o Mine(tid, LAMBDA q : <<Wait("EQ", "alltoall", set + Rank(q), 1),
                                    Set("alltoall", set + Rank(q), 0)>>)
          \o When(tid = 0, <<Set("seq", 0, MySeq(p, t) + 1)>>))

(* Mutant: the flags of the call before are used again.                    *)
OneSetOfFlags(p, t, n, elem_offset, elem_count, threads) ==
    ThreadPuts(p, t, n, elem_offset, elem_count, threads, 0)

(* Two sets of flags alternate between calls.                              *)
alltoall_linear_thread_puts(p, t, n, elem_offset, elem_count, threads) ==
    ThreadPuts(p, t, n, elem_offset, elem_count, threads, (MySeq(p, t) % 2) * N)

alltoall_linear(p, n) ==
    Thread(ForEach(Team, LAMBDA q :
             <<Put(q, dst(Rank(p) * n), src(Rank(q) * n), n)>>))
    \o internal_sync(p, "alltoall", 0)

(* The forms of the work-group, of the wavefront and of USE_DAS.           *)
alltoall_linear_thread_puts_wg(p, n) ==
    alltoall_linear_thread_puts(p, 0, n, 0, n, BlockSize)
alltoallmem_wg_linear_thread_puts(p, n) ==
    alltoall_linear_thread_puts(p, 0, n, 0, n, BlockSize)
alltoall_linear_thread_puts_das(p, t, n, elem_offset, elem_count) ==
    alltoall_linear_thread_puts(p, t, n, elem_offset, elem_count, BlockSize)
alltoallmem_linear_thread_puts_wave(p, n) ==
    alltoall_linear_thread_puts(p, 0, n, 0, n, Least(BlockSize, WfSize)) \o barrier(p)
alltoallmem_wg_linear(p, n) == alltoall_linear(p, n)
alltoallmem_linear_wave(p, n) == alltoall_linear(p, n)

(* A small message goes thread by thread.                                  *)
alltoallmem_wg(p, n) == IF n < SmallMax THEN alltoallmem_wg_linear_thread_puts(p, n)
                        ELSE alltoallmem_wg_linear(p, n)
alltoallmem_wave(p, n) == IF n < SmallMax THEN alltoallmem_linear_thread_puts_wave(p, n)
                          ELSE alltoallmem_linear_wave(p, n)
alltoall_wave(p, n) == alltoallmem_wave(p, n)
alltoall_wg_das(p, t, n, elem_offset, elem_count) ==
    IF elem_count < SmallMax
    THEN alltoall_linear_thread_puts_das(p, t, n, elem_offset, elem_count)
    ELSE alltoall_linear_wg_das(p, n, elem_offset, elem_count)
alltoall_wg(p, n) ==
    IF USE_DAS THEN alltoall_wg_das(p, 0, n, 0, n)
    ELSE IF n < SmallMax THEN alltoall_linear_thread_puts_wg(p, n)
    ELSE alltoall_linear(p, n)

(* A block goes where the sender's own dest_displs place its rank.         *)
alltoallv_das(p, t, call, wg_id, wg_count) ==
    LET r == Rank(p)
        all == split_wg_range(call.n, wg_id, wg_count)
        Peers(k) == SelectSeq(Team, LAMBDA q : Rank(q) % num_waves = k)
        Block(q) ==
            LET mine == split_wg_range(source_nelems(call, r, Rank(q)), wg_id,
                                       wg_count)
            IN  When(mine.count > 0,
                     <<Put(q, dst(dest_displs(call, r, r) + mine.offset),
                           src(source_displs(call, r, Rank(q)) + mine.offset),
                           mine.count)>>)
    IN  IF RegularLayout(call, r)
        THEN alltoall_wg_das(p, t, call.n, all.offset, all.count)
        ELSE Threads(num_waves, LAMBDA k : ForEach(Peers(k), Block))
             \o internal_sync(p, "alltoall", 0)

fcollect_linear_das(p, n, elem_offset, elem_count) ==
    PutToAll(p, LAMBDA q : 0, Rank(p) * n, elem_offset, elem_count)
    \o internal_sync(p, "alltoall", 0)
fcollectmem_linear_wg(p, n) ==
    Thread(ForEach(Team, LAMBDA q : <<Put(q, dst(Rank(p) * n), src(0), n)>>))
    \o internal_sync(p, "alltoall", 0)
fcollectmem_linear_wave(p, n) == fcollectmem_linear_wg(p, n)
fcollectmem_wg(p, n) == fcollectmem_linear_wg(p, n)
fcollectmem_wave(p, n) == fcollectmem_linear_wave(p, n)
fcollect_wave(p, n) == fcollectmem_linear_wave(p, n)
fcollect_wg(p, n) ==
    IF USE_DAS THEN fcollect_linear_das(p, n, 0, n) ELSE fcollectmem_linear_wg(p, n)
-----------------------------------------------------------------------------
(* A segment of the tile into the PE's slot of the root's scratch.         *)
tile_reduce_typed_impl(p, root, first, count, capacity) ==
    IF p = root THEN <<Copy(wrk(Rank(p) * capacity), src(first), count)>>
    ELSE <<Put(root, wrk(Rank(p) * capacity), src(first), count)>>
tile_reduce_root_compute(p, root, first, count, capacity) ==
    When(p = root, <<Copy(dst(first), wrk(0), count)>> \o
         For(1, N - 1, LAMBDA i : <<Calc(dst(first), wrk(i * capacity), count)>>))
tile_reduce_reset_psync(p, root) ==
    When(p = root, For(0, N - 1, LAMBDA i : <<Set("reduce", i, 0)>>))

tile_reduce_typed(p, n, root) ==
    LET capacity == WrkSize \div N
        Segment(k) ==
            LET first == k * capacity
                count == Least(capacity, n - first)
            IN  Thread(tile_reduce_typed_impl(p, root, first, count, capacity)
                  \o (IF p = root
                      THEN <<Set("reduce", Rank(p), k + 1)>>
                           \o For(0, N - 1, LAMBDA i :
                                <<Wait("EQ", "reduce", i, k + 1)>>)
                      ELSE <<Flag(root, "reduce", Rank(p), k + 1)>>)
                  \o tile_reduce_root_compute(p, root, first, count, capacity))
                \o barrier(p)
    IN  When(n > 0 /\ capacity > 0 /\ N <= SyncSize,
             For(0, (n + capacity - 1) \div capacity - 1, Segment)
             \o Thread(tile_reduce_reset_psync(p, root)) \o barrier(p))
tile_reduce_typed_wave(p, n, root) == tile_reduce_typed(p, n, root)
tile_reduce_typed_wg(p, n, root) == tile_reduce_typed(p, n, root)

(* By element type; an unknown one is an error on every PE.  The reduction *)
(* is a sum, a maximum or a minimum.                                       *)
ipc_tile_reduce_dispatch(p, call, root) ==
    CASE call.f = "tile_reduce" -> tile_reduce_typed(p, call.n, root)
      [] call.f = "tile_reduce_wave" -> tile_reduce_typed_wave(p, call.n, root)
      [] call.f = "tile_reduce_wg" -> tile_reduce_typed_wg(p, call.n, root)
tile_sum_reduce(p, call, root) == ipc_tile_reduce_dispatch(p, call, root)

(* Threads, wavefronts and work-groups make the same steps.                *)
TileAllgather(p, n) ==
    Thread(ForEach(Team, LAMBDA q : <<Get(q, dst(Rank(q) * n), src(0), n)>>))
    \o barrier(p)
tile_allgather(p, n) == TileAllgather(p, n)
tile_allgather_wave(p, n) == TileAllgather(p, n)
tile_allgather_wg(p, n) == TileAllgather(p, n)

TileBroadcast(p, n, root) ==
    Thread(When(p # root, <<Get(root, dst(0), src(0), n)>>)) \o barrier(p)
tile_broadcast(p, n, root) == TileBroadcast(p, n, root)
tile_broadcast_wave(p, n, root) == TileBroadcast(p, n, root)
tile_broadcast_wg(p, n, root) == TileBroadcast(p, n, root)
-----------------------------------------------------------------------------
rocshmem_tile_allgather(p, call) ==
    CASE call.f = "tile_allgather" -> tile_allgather(p, call.n)
      [] call.f = "tile_allgather_wave" -> tile_allgather_wave(p, call.n)
      [] call.f = "tile_allgather_wg" -> tile_allgather_wg(p, call.n)
rocshmem_tile_broadcast(p, call, root) ==
    CASE call.f = "tile_broadcast" -> tile_broadcast(p, call.n, root)
      [] call.f = "tile_broadcast_wave" -> tile_broadcast_wave(p, call.n, root)
      [] call.f = "tile_broadcast_wg" -> tile_broadcast_wg(p, call.n, root)
rocshmem_tile_reduce(p, call, root) == tile_sum_reduce(p, call, root)
TileProgram(p, call, root) ==
    CASE call.f \in {"tile_reduce", "tile_reduce_wave", "tile_reduce_wg"} ->
            rocshmem_tile_reduce(p, call, root)
      [] call.f \in {"tile_allgather", "tile_allgather_wave", "tile_allgather_wg"} ->
            rocshmem_tile_allgather(p, call)
      [] call.f \in {"tile_broadcast", "tile_broadcast_wave", "tile_broadcast_wg"} ->
            rocshmem_tile_broadcast(p, call, root)

(* Work-group wg_id of the kernel of a call on a stream.                   *)
MultiWgKernel(p, call, wg_id, wg_count) ==
    LET n == call.n
        root == get_pe_in_world(call.root)
    IN  CASE call.f = "reduce_wg" ->
                rocshmem_reduce_on_stream_multi_wg_kernel(n, wg_id, wg_count,
                  LAMBDA t, k : reduce_das(p, t, k))
          [] call.f = "broadcast_wg" ->
                rocshmem_broadcastmem_multi_wg_kernel(n, wg_id, wg_count,
                  LAMBDA k : broadcast_wg(p, k, root))
          [] call.f = "reduce_scatter_wg" ->
                rocshmem_reduce_scatter_on_stream_multi_wg_kernel(n, wg_id, wg_count,
                  LAMBDA t, first, k : reduce_scatter_wg_das(p, t, 0, n, first, k))
          [] call.f = "alltoall_wg" ->
                rocshmem_alltoall_multi_wg_kernel(n, wg_id, wg_count,
                  LAMBDA t, first, k : alltoall_wg_das(p, t, n, first, k))
          [] call.f = "alltoallv" ->
                rocshmem_alltoallv_on_stream_multi_wg_kernel(wg_id, wg_count,
                  LAMBDA t, id, wgs : alltoallv_das(p, t, call, id, wgs))
          [] call.f = "fcollect_wg" ->
                rocshmem_fcollect_on_stream_multi_wg_kernel(n, wg_id, wg_count,
                  LAMBDA t, first, k : fcollect_linear_das(p, n, first, k))

(* A function of a kernel, by its name.                                    *)
Function(p, call) ==
    LET n == call.n
        f == call.f
        root == get_pe_in_world(call.root)
    IN  IF NothingToDo(call) THEN <<>>
        ELSE CASE f = "reduce_wg" -> reduce_wg(p, n)
               [] f = "reduce_wave" -> reduce_wave(p, n)
               [] f = "reduce_scatter_wg" -> reduce_scatter_wg(p, n)
               [] f = "reduce_scatter_wave" -> reduce_scatter_wave(p, n)
               [] f = "broadcast_wg" -> broadcast_wg(p, n, root)
               [] f = "broadcastmem_wg" -> broadcastmem_wg(p, n, root)
               [] f = "broadcast_wave" -> broadcast_wave(p, n, root)
               [] f = "broadcastmem_wave" -> broadcastmem_wave(p, n, root)
               [] f = "alltoall_wg" -> alltoall_wg(p, n)
               [] f = "alltoallmem_wg" -> alltoallmem_wg(p, n)
               [] f = "alltoall_wave" -> alltoall_wave(p, n)
               [] f = "alltoallmem_wave" -> alltoallmem_wave(p, n)
               [] f = "alltoallv" -> alltoallv_das(p, 0, call, 0, 1)
               [] f = "fcollect_wg" -> fcollect_wg(p, n)
               [] f = "fcollectmem_wg" -> fcollectmem_wg(p, n)
               [] f = "fcollect_wave" -> fcollect_wave(p, n)
               [] f = "fcollectmem_wave" -> fcollectmem_wave(p, n)
               [] call.f \in TileCollectives -> TileProgram(p, call, root)
               [] f \in {"sync", "barrier_wave", "barrier_wg"} -> barrier(p)

Program(p, call) ==
    Launched(call, Function(p, call),
             Threads(num_wgs(call),
                     LAMBDA wg_id : MultiWgKernel(p, call, wg_id, num_wgs(call))))

Go(p) == Enter(p, Program) \/ Run(p)
Next == \E p \in Members : Go(p)
Spec == Init /\ [][Next]_vars
=============================================================================
