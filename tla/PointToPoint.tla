------------------------------ MODULE PointToPoint ------------------------------
(***************************************************************************)
(* Point-to-point communication from device code, from the functions a     *)
(* kernel calls (rocshmem_gpu.cpp) to the contexts of the IPC and GDA      *)
(* backends: puts and gets of a thread, a wavefront and a work-group,      *)
(* fence and quiet, signals, atomics and the waits of the receiver.        *)
(*                                                                         *)
(* Every PE runs one work-group.  A store to the mapped memory of another  *)
(* PE is issued and lands later, in any order, until a fence or an atomic  *)
(* of the wavefront that issued it waits for it.  An operation for an      *)
(* adapter is posted to a queue pair, which carries its operations out in  *)
(* order; a put reads its source when it is carried out.                   *)
(*                                                                         *)
(* An element is a byte; the chunks a lane copies at once are 16 in the    *)
(* code and Rounds here.                                                   *)
(***************************************************************************)
EXTENDS MPIContexts, Integers, Sequences, FiniteSets, SequencesExt, Bitwise

CONSTANTS
    Backend,                \* "IPC", "GDA" or "RO"
    SourceSize,             \* elements of each PE's source buffer
    pe_start, stride,       \* the team a team context was created from
    kMinSlice,              \* the least a worker takes of a contiguous tile
    Plans                   \* [PE -> sequence of calls] a kernel may make

GDA == Backend = "GDA"
RO == Backend = "RO"

VARIABLES
    plan,       \* the calls of each PE's kernel
    calls,      \* per wavefront: the calls it has entered
    todo,       \* per wavefront: the steps left of the current call
    mem,        \* per PE: the cells of the symmetric heap that are not 0
    stores,     \* per wavefront: stores that have not landed
    flight,     \* per PE and queue pair: posted operations
    ret         \* per wavefront: what its calls returned

vars == <<plan, calls, todo, mem, stores, flight, ret>>
-----------------------------------------------------------------------------
(* How a tile of a strided tensor of one or two dimensions is divided      *)
(* into contiguous copies, and the copies among the workers of a call      *)
(* (tile_layout.hpp, tile_memcpy_device.hpp, the tile functions of         *)
(* GDAContext).  A copy is a set of pairs of an element of the destination *)
(* and one of the source.  A call t has put, ndim and, for each dimension, *)
(* the strides of both tensors, start_coord and boundary.                  *)

(* Put applies start_coord to the destination, get to the source.          *)
tile_make_view(t) ==
    LET offset(s) == IF t.ndim = 2
                     THEN (t.start_coord[1] * s[1]) + (t.start_coord[2] * s[2])
                     ELSE t.start_coord[1] * s[1]
        extent(d) == IF d <= t.ndim THEN t.boundary[d] - t.start_coord[d]
                     ELSE 0
        along(s, d) == IF d <= t.ndim THEN s[d] ELSE 0
    IN  [ndim |-> t.ndim, ext0 |-> extent(1), ext1 |-> extent(2),
         dst_base |-> IF t.put THEN offset(t.dst_strides) ELSE 0,
         src_base |-> IF t.put THEN 0 ELSE offset(t.src_strides),
         src_s0 |-> along(t.src_strides, 1), src_s1 |-> along(t.src_strides, 2),
         dst_s0 |-> along(t.dst_strides, 1), dst_s1 |-> along(t.dst_strides, 2)]

tile_classify_2d(v) ==
    LET row_contig == v.src_s1 = 1 /\ v.dst_s1 = 1
        col_contig == v.src_s0 = 1 /\ v.dst_s0 = 1
        packed == v.src_s0 = v.ext1 /\ v.dst_s0 = v.ext1
    IN  CASE row_contig /\ packed -> "Contiguous"
          [] row_contig /\ ~packed -> "RowContig"
          [] ~row_contig /\ col_contig -> "ColContig"
          [] OTHER -> "Strided"
tile_classify(v) ==
    IF v.ndim = 2 THEN tile_classify_2d(v)
    ELSE IF v.src_s0 = 1 /\ v.dst_s0 = 1 THEN "Contiguous" ELSE "Strided"
-----------------------------------------------------------------------------
(* n elements in a row, from the element at coordinates i, j on.           *)
Run(v, i, j, n) ==
    {<<v.dst_base + (i * v.dst_s0) + (j * v.dst_s1) + b,
       v.src_base + (i * v.src_s0) + (j * v.src_s1) + b>> : b \in 0..(n - 1)}
Size(v) == IF v.ndim = 2 THEN v.ext0 * v.ext1 ELSE v.ext0
Whole(v) == Run(v, 0, 0, Size(v))

(* The contiguous copies a tile that is not contiguous is made of.         *)
Pieces(v) ==
    CASE v.ndim = 1 -> [i \in 1..v.ext0 |-> Run(v, i - 1, 0, 1)]
      [] v.ndim = 2 /\ tile_classify(v) = "RowContig" ->
            [i \in 1..v.ext0 |-> Run(v, i - 1, 0, v.ext1)]
      [] v.ndim = 2 /\ tile_classify(v) = "ColContig" ->
            [j \in 1..v.ext1 |-> Run(v, 0, j - 1, v.ext0)]
      [] OTHER ->
            [x \in 1..(v.ext0 * v.ext1) |->
                Run(v, (x - 1) \div v.ext1, (x - 1) % v.ext1, 1)]
Dealt(pieces, worker_id, worker_count) ==
    {pieces[x] : x \in {y \in DOMAIN pieces :
                          (y - 1) % worker_count = worker_id}}
-----------------------------------------------------------------------------
(* Copies a worker posts to a queue pair.                                  *)
tile_contig_slices_nbi(v, worker_id, worker_count) ==
    LET bytes == Size(v)
        chunk == bytes \div worker_count
        start == worker_id * chunk
        len == IF worker_id = worker_count - 1 THEN bytes - start ELSE chunk
        slice == {<<v.dst_base + start + b, v.src_base + start + b>> :
                     b \in 0..(len - 1)}
    IN  IF worker_count = 1 \/ bytes < kMinSlice * worker_count
        THEN IF worker_id = 0 /\ bytes # 0 THEN {Whole(v)} ELSE {}
        ELSE IF len # 0 THEN {slice} ELSE {}

gda_tile_use_multi_wqe(num_chunks, worker_count) ==
    worker_count > 1 /\ num_chunks >= worker_count

tile_gda_workers(v, worker_id, worker_count) ==
    LET pieces == Pieces(v)
    IN  CASE tile_classify(v) = "Contiguous" ->
                tile_contig_slices_nbi(v, worker_id, worker_count)
          [] tile_classify(v) # "Contiguous"
             /\ gda_tile_use_multi_wqe(Len(pieces), worker_count) ->
                Dealt(pieces, worker_id, worker_count)
          [] OTHER -> IF worker_id = 0 THEN Dealt(pieces, 0, 1) ELSE {}

(* Copies of a thread on its own.                                          *)
tile_rma(v) ==
    IF tile_classify(v) = "Contiguous" THEN {Whole(v)} ELSE Dealt(Pieces(v), 0, 1)

(* Copies of a worker to mapped memory; a contiguous tile is one copy of   *)
(* the wavefront together, or of the first thread of the work-group.       *)
tile_memcpy_rma(v, worker_id, worker_count) ==
    IF tile_classify(v) = "Contiguous"
    THEN IF worker_id = 0 THEN {Whole(v)} ELSE {}
    ELSE Dealt(Pieces(v), worker_id, worker_count)
-----------------------------------------------------------------------------
(* What the call promises, element by element: coordinates of the tile in  *)
(* the tensor the offset applies to, from its start in the other.          *)
Promised(t) ==
    LET dims == 1..t.ndim
        coords == {c \in [dims -> 0..4] : \A d \in dims :
                      c[d] >= t.start_coord[d] /\ c[d] < t.boundary[d]}
        at(c, s) == IF t.ndim = 2 THEN (c[1] * s[1]) + (c[2] * s[2])
                    ELSE c[1] * s[1]
        from0(c) == [d \in dims |-> c[d] - t.start_coord[d]]
    IN  {IF t.put THEN <<at(c, t.dst_strides), at(from0(c), t.src_strides)>>
         ELSE <<at(from0(c), t.dst_strides), at(c, t.src_strides)>> :
            c \in coords}
-----------------------------------------------------------------------------
(* Steps of a wavefront.  A cell is a buffer and an index in it.           *)
Cell(q, c) == IF c \in DOMAIN mem[q] THEN mem[q][c] ELSE 0

(* What a bitwise, arithmetic or comparing atomic stores.                  *)
Result(f, old, v, cond) ==
    CASE f \in {"set", "swap"} -> v
      [] f \in {"add", "fetch_add"} -> old + v
      [] f \in {"and", "fetch_and"} -> old & v
      [] f \in {"or", "fetch_or"} -> old | v
      [] f \in {"xor", "fetch_xor"} -> old ^^ v
      [] f \in {"cas", "fetch_cas"} -> IF old = cond THEN v ELSE old

(* Context::test.                                                          *)
test(p, c, cmp, v) ==
    LET x == Cell(p, c)
    IN  CASE cmp = "EQ" -> x = v [] cmp = "NE" -> x # v [] cmp = "GT" -> x > v
          [] cmp = "GE" -> x >= v [] cmp = "LT" -> x < v [] cmp = "LE" -> x <= v
-----------------------------------------------------------------------------
(* GDAContext: the memory of PEs of the node may be mapped, a queue pair k *)
(* of num_qps_per_pe leads to any PE.                                      *)
put_nbi(c, k) ==
    Post(c.pe, k, [what |-> "put", to |-> c.to, of |-> Same(0..(c.n - 1))])
get_nbi(c, k) ==
    Post(c.pe, k, [what |-> "get", to |-> c.to, of |-> Same(0..(c.n - 1))])

gda_putmem(p, c, k) ==
    IF isIpcAvailable(p, c.pe) THEN ipc_putmem(c)
    ELSE <<put_nbi(c, k), Quiet({<<c.pe, k>>})>>
gda_getmem(p, c, k) ==
    IF isIpcAvailable(p, c.pe) THEN ipc_getmem(c)
    ELSE <<get_nbi(c, k), Quiet({<<c.pe, k>>})>>
gda_putmem_nbi(p, c, k) ==
    IF isIpcAvailable(p, c.pe) THEN ipc_putmem(c) ELSE <<put_nbi(c, k)>>
gda_getmem_nbi(p, c, k) ==
    IF isIpcAvailable(p, c.pe) THEN ipc_getmem(c) ELSE <<get_nbi(c, k)>>
gda_putmem_wave(p, c, k) ==
    IF isIpcAvailable(p, c.pe) THEN ipc_putmem_wave(c)
    ELSE <<put_nbi(c, k), Quiet({<<c.pe, k>>})>>
gda_getmem_wave(p, c, k) ==
    IF isIpcAvailable(p, c.pe) THEN ipc_getmem_wave(c)
    ELSE <<get_nbi(c, k), Quiet({<<c.pe, k>>})>>
gda_putmem_nbi_wave(p, c, k) ==
    IF isIpcAvailable(p, c.pe) THEN ipc_putmem_wave(c) ELSE <<put_nbi(c, k)>>
gda_getmem_nbi_wave(p, c, k) ==
    IF isIpcAvailable(p, c.pe) THEN ipc_getmem_wave(c) ELSE <<get_nbi(c, k)>>
gda_putmem_wg(p, w, c, k) ==
    IF isIpcAvailable(p, c.pe) THEN ipc_putmem_nbi_wg(w, c)
    ELSE When(w = 0, <<put_nbi(c, k), Quiet({<<c.pe, k>>})>>)
gda_getmem_wg(p, w, c, k) ==
    IF isIpcAvailable(p, c.pe) THEN ipc_getmem_nbi_wg(w, c)
    ELSE When(w = 0, <<get_nbi(c, k), Quiet({<<c.pe, k>>})>>)
gda_putmem_nbi_wg(p, w, c, k) ==
    IF isIpcAvailable(p, c.pe) THEN ipc_putmem_nbi_wg(w, c)
    ELSE When(w = 0, <<put_nbi(c, k)>>)
gda_getmem_nbi_wg(p, w, c, k) ==
    IF isIpcAvailable(p, c.pe) THEN ipc_getmem_nbi_wg(w, c)
    ELSE When(w = 0, <<get_nbi(c, k)>>)
putmem_nbi_wave_dp(c) == <<put_nbi(c, c.qp)>>

gda_p(p, c, k) ==
    IF isIpcAvailable(p, c.pe) THEN ipc_p(c)
    ELSE <<Post(c.pe, k, [what |-> "value", cell |-> <<c.to, 0>>, v |-> c.v])>>
gda_g(p, c) == IF isIpcAvailable(p, c.pe) THEN ipc_g(c) ELSE <<abort>>

(* Atomics through a queue pair: an add and a compare-and-swap are the     *)
(* adapter's own, the others are a compare-and-swap that is tried again    *)
(* with the value it found.                                                *)
gda_amo_add(p, c, k) ==
    IF isIpcAvailable(p, c.pe) THEN ipc_amo(c)
    ELSE <<Post(c.pe, k, [what |-> "atomic", f |-> "add",
                          cell |-> <<"word", c.word>>, v |-> c.v])>>
amo_add_dp(c) ==
    <<Post(c.pe, c.qp, [what |-> "atomic", f |-> "add",
                        cell |-> <<"word", c.word>>, v |-> c.v])>>
gda_amo_swap(p, c, k) ==
    IF isIpcAvailable(p, c.pe) THEN ipc_amo(c)
    ELSE <<Fetch("swap", c.pe, k, <<"word", c.word>>, c.v, 0)>>
gda_amo_set(p, c, k) == gda_amo_swap(p, c, k)
gda_amo_fetch_and(p, c, k) ==
    IF isIpcAvailable(p, c.pe) THEN ipc_amo(c)
    ELSE <<Fetch("fetch_and", c.pe, k, <<"word", c.word>>, c.v, 0)>>
gda_amo_fetch_or(p, c, k) ==
    IF isIpcAvailable(p, c.pe) THEN ipc_amo(c)
    ELSE <<Fetch("fetch_or", c.pe, k, <<"word", c.word>>, c.v, 0)>>
gda_amo_fetch_xor(p, c, k) ==
    IF isIpcAvailable(p, c.pe) THEN ipc_amo(c)
    ELSE <<Fetch("fetch_xor", c.pe, k, <<"word", c.word>>, c.v, 0)>>
gda_amo_fetch_add(p, c, k) ==
    IF isIpcAvailable(p, c.pe) THEN ipc_amo(c)
    ELSE <<Fetch("fetch_add", c.pe, k, <<"word", c.word>>, c.v, 0)>>
gda_amo_fetch_cas(p, c, k) ==
    IF isIpcAvailable(p, c.pe) THEN ipc_amo(c)
    ELSE <<Fetch("fetch_cas", c.pe, k, <<"word", c.word>>, c.v, c.cond)>>

(* Ordering: a single queue pair per PE is in order by itself.             *)
gda_fence(p) ==
    When(num_qps_per_pe > 1, <<Quiet(all_qps)>>) \o
    When(Mapped[p] # {}, ipc_fence)
FenceOfOneQp(p, q) ==
    When(num_qps_per_pe > 1, <<Quiet({<<q, 0>>})>>) \o
    When(isIpcAvailable(p, q), ipc_fence)
gda_fence_pe(p, q) ==
    When(num_qps_per_pe > 1, <<Quiet(qps_of(q))>>) \o
    When(isIpcAvailable(p, q), ipc_fence)
gda_quiet == <<Quiet(all_qps)>> \o ipc_quiet
gda_pe_quiet(q) == <<Quiet(qps_of(q))>> \o ipc_quiet
qp_quiet(c) == <<Quiet({<<c.pe, c.qp>>})>>

(* Put with signal, of which the group forms are all done by one thread.   *)
internal_amo_swap(p, c, k) ==
    IF isIpcAvailable(p, c.pe) THEN ipc_amo(c)
    ELSE <<Fetch("swap", c.pe, k, <<"word", c.word>>, c.v, 0)>>
internal_amo_add(p, c, k) ==
    IF isIpcAvailable(p, c.pe) THEN ipc_amo(c)
    ELSE <<Post(c.pe, k, [what |-> "atomic", f |-> "add",
                          cell |-> <<"word", c.word>>, v |-> c.v])>>
internal_amo_fetch_add(p, c, k) ==
    IF isIpcAvailable(p, c.pe) THEN ipc_amo(c)
    ELSE <<Fetch("fetch_add", c.pe, k, <<"word", c.word>>, c.v, 0)>>
gda_signal(p, c, k) ==
    IF c.op = "set" THEN internal_amo_swap(p, c, k)
    ELSE internal_amo_add(p, c, k)
internal_putmem(p, c, k) == gda_putmem(p, c, k)
internal_putmem_wave(p, c, k) ==    \* lane 0 is the only active one
    IF isIpcAvailable(p, c.pe)
    THEN ipcCopy("Put", c.pe, c.to, memcpy_wave(c.n, {0}))
    ELSE <<put_nbi(c, k), Quiet({<<c.pe, k>>})>>
internal_putmem_wg(p, c, k) ==      \* thread 0 is the only active one
    IF isIpcAvailable(p, c.pe)
    THEN ipcCopy("Put", c.pe, c.to, memcpy_wg(c.n, 0, {0}))
    ELSE <<put_nbi(c, k), Quiet({<<c.pe, k>>})>>
gda_putmem_signal(p, c, k) ==
    internal_putmem(p, c, k) \o <<Quiet({<<c.pe, k>>})>> \o gda_signal(p, c, k)
gda_putmem_signal_wave(p, c, k) ==
    internal_putmem_wave(p, c, k) \o <<Quiet({<<c.pe, k>>})>>
    \o gda_signal(p, c, k)
gda_putmem_signal_wg(p, w, c, k) ==
    When(w = 0, internal_putmem_wg(p, c, k) \o <<Quiet({<<c.pe, k>>})>>
                \o gda_signal(p, c, k))
gda_signal_fetch(p, c, k) ==
    internal_amo_fetch_add(
        p, [c EXCEPT !.pe = p, !.op = "fetch_add", !.v = 0], k)
gda_signal_fetch_wg(p, w, c, k) ==
    When(w = 0, gda_signal_fetch(p, c, k)) \o <<s_barrier>>

(* The queue pair a call may use: the counter that deals them out is       *)
(* incremented without synchronisation.                                    *)
get_qp_index == 0..(num_qps_per_pe - 1)
-----------------------------------------------------------------------------
(* Which steps a call is, on wavefront w: the forms for a thread and for a *)
(* wavefront are called by wavefront 0.                                    *)
Is(c, f, by) == c.f = f /\ c.by = by
ipc_mem(w, c) ==
    CASE c.f \in {"put", "put_nbi"} /\ c.by = "thread" -> ipc_putmem(c)
      [] c.f \in {"get", "get_nbi"} /\ c.by = "thread" -> ipc_getmem(c)
      [] c.f \in {"put", "put_nbi"} /\ c.by = "wave" -> ipc_putmem_wave(c)
      [] c.f \in {"get", "get_nbi"} /\ c.by = "wave" -> ipc_getmem_wave(c)
      [] Is(c, "put", "wg") -> ipc_putmem_wg(w, c)
      [] Is(c, "get", "wg") -> ipc_getmem_wg(w, c)
      [] Is(c, "put_nbi", "wg") -> ipc_putmem_nbi_wg(w, c)
      [] Is(c, "get_nbi", "wg") -> ipc_getmem_nbi_wg(w, c)
gda_mem(p, w, c, k) ==
    CASE Is(c, "put", "thread") -> gda_putmem(p, c, k)
      [] Is(c, "get", "thread") -> gda_getmem(p, c, k)
      [] Is(c, "put_nbi", "thread") -> gda_putmem_nbi(p, c, k)
      [] Is(c, "get_nbi", "thread") -> gda_getmem_nbi(p, c, k)
      [] Is(c, "put", "wave") -> gda_putmem_wave(p, c, k)
      [] Is(c, "get", "wave") -> gda_getmem_wave(p, c, k)
      [] Is(c, "put_nbi", "wave") -> gda_putmem_nbi_wave(p, c, k)
      [] Is(c, "get_nbi", "wave") -> gda_getmem_nbi_wave(p, c, k)
      [] Is(c, "put", "wg") -> gda_putmem_wg(p, w, c, k)
      [] Is(c, "get", "wg") -> gda_getmem_wg(p, w, c, k)
      [] Is(c, "put_nbi", "wg") -> gda_putmem_nbi_wg(p, w, c, k)
      [] Is(c, "get_nbi", "wg") -> gda_getmem_nbi_wg(p, w, c, k)
ro_mem(p, w, c, k) ==
    CASE Is(c, "put", "thread") -> ro_putmem(p, c)
      [] Is(c, "get", "thread") -> ro_getmem(p, c, k)
      [] Is(c, "put_nbi", "thread") -> ro_putmem_nbi(p, c)
      [] Is(c, "get_nbi", "thread") -> ro_getmem_nbi(p, c, k)
      [] Is(c, "put", "wave") -> ro_putmem_wave(p, c)
      [] Is(c, "get", "wave") -> ro_getmem_wave(p, c, k)
      [] Is(c, "put_nbi", "wave") -> ro_putmem_nbi_wave(p, c)
      [] Is(c, "get_nbi", "wave") -> ro_getmem_nbi_wave(p, c, k)
      [] Is(c, "put", "wg") -> ro_putmem_wg(p, w, c)
      [] Is(c, "get", "wg") -> ro_getmem_wg(p, w, c, k)
      [] Is(c, "put_nbi", "wg") -> ro_putmem_nbi_wg(p, w, c)
      [] Is(c, "get_nbi", "wg") -> ro_getmem_nbi_wg(p, w, c, k)
By(ipc, gda, ro) == CASE Backend = "IPC" -> ipc [] GDA -> gda [] RO -> ro
direct_ctx_mem(p, w, c, k) ==       \* nothing at all for no elements
    When(c.n # 0, By(ipc_mem(w, c), gda_mem(p, w, c, k), ro_mem(p, w, c, k)))

translate_pe(c) == IF c.team THEN pe_start + stride * c.pe ELSE c.pe
InWorld(c) == [c EXCEPT !.pe = translate_pe(c)]

rocshmem_ctx_rma(p, c, k) == direct_ctx_mem(p, 0, InWorld(c), k)
rocshmem_ctx_rma_group(p, w, c, k) == direct_ctx_mem(p, w, c, k)
rocshmem_p(p, c, k) ==
    By(ipc_p(InWorld(c)), gda_p(p, InWorld(c), k), ro_p(p, InWorld(c)))
rocshmem_g(p, c, k) ==
    By(ipc_g(InWorld(c)), gda_g(p, InWorld(c)), ro_g(p, InWorld(c), k))
rocshmem_ctx_fence(p) == By(ipc_fence, gda_fence(p), ro_fence)
rocshmem_ctx_fence_pe(p, c) ==
    By(ipc_fence, gda_fence_pe(p, translate_pe(c)), ro_fence_pe)
rocshmem_ctx_quiet == By(ipc_quiet, gda_quiet, ro_quiet)
rocshmem_ctx_pe_quiet(c) ==
    By(ipc_quiet, gda_pe_quiet(translate_pe(c)), ro_pe_quiet)
gda_shmem_ptr(p, c) ==
    <<Return(IF isIpcAvailable(p, c.pe) THEN "mapped" ELSE "null")>>
rocshmem_ptr(p, c) ==
    By(<<Return("mapped")>>, gda_shmem_ptr(p, c), ro_shmem_ptr(p, c))

direct_ctx_amo(p, c, k) ==
    IF ~GDA THEN By(ipc_amo(c), <<>>, ro_amo(c))
    ELSE CASE c.op = "add" -> gda_amo_add(p, c, k)
           [] c.op = "set" -> gda_amo_set(p, c, k)
           [] c.op = "swap" -> gda_amo_swap(p, c, k)
           [] c.op \in {"and", "fetch_and"} -> gda_amo_fetch_and(p, c, k)
           [] c.op \in {"or", "fetch_or"} -> gda_amo_fetch_or(p, c, k)
           [] c.op \in {"xor", "fetch_xor"} -> gda_amo_fetch_xor(p, c, k)
           [] c.op = "fetch_add" -> gda_amo_fetch_add(p, c, k)
           [] c.op = "fetch_cas" -> gda_amo_fetch_cas(p, c, k)
rocshmem_atomic(p, c, k) ==
    CASE c.op = "inc" -> direct_ctx_amo(p, [c EXCEPT !.op = "add", !.v = 1], k)
      [] c.op = "fetch_inc" ->
            direct_ctx_amo(p, [c EXCEPT !.op = "fetch_add", !.v = 1], k)
      [] c.op = "fetch" ->
            direct_ctx_amo(p, [c EXCEPT !.op = "fetch_add", !.v = 0], k)
      [] OTHER -> direct_ctx_amo(p, c, k)

direct_ctx_put_signal(p, w, c, k) ==
    CASE c.n = 0 -> <<>>
      [] c.by = "thread" ->
            By(ipc_putmem_signal(c), gda_putmem_signal(p, c, k),
               ro_putmem_signal(p, c))
      [] c.by = "wave" ->
            By(ipc_putmem_signal_wave(c), gda_putmem_signal_wave(p, c, k),
               ro_putmem_signal_wave(p, c))
      [] c.by = "wg" ->
            By(ipc_putmem_signal_wg(w, c), gda_putmem_signal_wg(p, w, c, k),
               ro_putmem_signal_wg(p, w, c))
rocshmem_ctx_put_signal(p, w, c, k) == direct_ctx_put_signal(p, w, c, k)
rocshmem_signal_fetch(p, w, c, k) ==
    IF c.by = "wg"
    THEN By(ipc_signal_fetch_wg(p, w, c), gda_signal_fetch_wg(p, w, c, k),
            ro_signal_fetch_wg(p, w, c))
    ELSE By(ipc_signal_fetch(p, c), gda_signal_fetch(p, c, k),
            ro_signal_fetch(p, c))

(* Barriers and collectives of the reverse-offload backend; those of the   *)
(* others are in modules of their own, and a barrier is one of module      *)
(* Barrier, which theirs implement.                                        *)
direct_ctx_barrier(w, c) ==
    IF RO THEN ro_barrier(w, c)
    ELSE rocshmem_ctx_quiet \o <<Mpi("barrier", c.team_pes, 0, 0)>>
direct_ctx_sync(w, c) ==
    IF RO THEN ro_sync(w, c) ELSE <<Mpi("barrier", c.team_pes, 0, 0)>>
rocshmem_barrier(w, c) == direct_ctx_barrier(w, c)
(* Every form of rocshmem_ctx_sync calls sync_wg.                          *)
rocshmem_sync(w, c) == direct_ctx_sync(w, [c EXCEPT !.by = "wg"])
ro_collective(p, w, c) ==
    CASE c.by = "wave" -> ro_wave_collective
      [] c.f = "reduce" -> ro_reduce_wg(w, c)
      [] c.f = "reduce_scatter" -> ro_reduce_scatter_wg(w, c)
      [] c.f = "broadcast" -> team_broadcast(w, c)
      [] c.f = "alltoall" -> alltoall(p, w, c)
      [] c.f = "fcollect" -> fcollect(p, w, c)
-----------------------------------------------------------------------------
(* Waiting for several words: words 0..c.n - 1, each for its own value.    *)
status_entry(c) ==
    IF c.status = <<>> THEN 0
    ELSE LET set == {i \in 1..c.n : c.status[i] # 0}
         IN  IF set = {} THEN c.n ELSE Min(set) - 1
Considered(c) ==            \* indices from the entry whose status is zero
    SetToSortSeq({i \in status_entry(c)..(c.n - 1) :
                     c.status = <<>> \/ c.status[i + 1] = 0}, <)
Words(c) == [j \in DOMAIN Considered(c) |->
                <<Considered(c)[j], c.vals[Considered(c)[j] + 1]>>]

wait_until(c) == <<Wait(<<"word", c.word>>, c.cmp, c.v)>>
wait_until_all(c) ==
    [j \in DOMAIN Words(c) |->
        Wait(<<"word", Words(c)[j][1]>>, c.cmp, Words(c)[j][2])]
wait_until_any(c) ==
    IF c.n = 0 \/ status_entry(c) = c.n THEN <<Return("SIZE_MAX")>>
    ELSE <<Scan(Words(c), 1, c.cmp, FALSE)>>
wait_until_some(c) ==
    IF c.n = 0 \/ status_entry(c) = c.n THEN <<Return({})>>
    ELSE <<Scan(Words(c), 1, c.cmp, TRUE)>>
-----------------------------------------------------------------------------
(* Tiles.  Threads of wavefront w are the workers w * WfSize.. of a        *)
(* work-group, and 0..WfSize - 1 of a wavefront on its own.                *)
Workers(c, w) ==
    IF c.by = "wg" THEN {(w * WfSize) + l : l \in AllLanes} ELSE AllLanes
WorkerCount(c) == IF c.by = "wg" THEN Wfs * WfSize ELSE WfSize
View(c) == tile_make_view(c.tile)
tile_copy(c, S) ==
    When(S # {}, <<IF c.tile.put THEN Store(c.pe, c.to, S)
                   ELSE Load(c.pe, c.to, S)>>)
tile_post(c, S, k) ==
    LET all == InSomeOrder(S)
    IN  [x \in DOMAIN all |->
            Post(c.pe, k, [what |-> IF c.tile.put THEN "put" ELSE "get",
                           to |-> c.to, of |-> all[x]])]

ipc_tile(c) == tile_copy(c, tile_rma(View(c))) \o ipc_quiet
ipc_tile_group(w, c) ==
    tile_copy(c, UNION {tile_memcpy_rma(View(c), x, WorkerCount(c)) :
                          x \in Workers(c, w)})
    \o (IF c.by = "wave" THEN ipc_quiet
        ELSE When(w = 0, ipc_quiet) \o <<s_barrier>>)

gda_tile(p, c, k) ==
    IF isIpcAvailable(p, c.pe) THEN ipc_tile(c)
    ELSE tile_post(c, tile_rma(View(c)), k) \o <<Quiet({<<c.pe, k>>})>>
tile_qp_index_for_worker(c, w, k) ==
    IF WorkerCount(c) <= WfSize THEN k ELSE w % num_qps_per_pe
tile_quiet_gda_workers(c, w, k) ==
    IF WorkerCount(c) <= WfSize THEN <<Quiet({<<c.pe, k>>})>>
    ELSE <<s_barrier>> \o When(w = 0, <<Quiet(qps_of(c.pe))>>)
gda_tile_group(p, w, c, k) ==
    IF isIpcAvailable(p, c.pe) THEN ipc_tile_group(w, c)
    ELSE tile_post(c, UNION {tile_gda_workers(View(c), x, WorkerCount(c)) :
                               x \in Workers(c, w)},
                   tile_qp_index_for_worker(c, w, k))
         \o tile_quiet_gda_workers(c, w, k)
         \o When(c.by = "wg", <<s_barrier>>)
Context_tile(p, w, c, k) ==
    CASE ~GDA /\ c.by = "thread" -> ipc_tile(c)
      [] ~GDA /\ c.by # "thread" -> ipc_tile_group(w, c)
      [] GDA /\ c.by = "thread" -> gda_tile(p, c, k)
      [] GDA /\ c.by # "thread" -> gda_tile_group(p, w, c, k)
rocshmem_ctx_tile(p, w, c, k) == Context_tile(p, w, c, k)
-----------------------------------------------------------------------------
(* Calls of the host, sent to the context of the backend.                  *)
HOST_DISPATCH(c, k, interface) ==
    By(IPCHostContext(c, k, interface), GDAHostContext(interface),
       ROHostContext(c, interface))
HOST_DISPATCH_typed(c, k, interface) ==
    By(IPCHostContext_typed(c, k, interface), GDAHostContext_typed(interface),
       ROHostContext_typed(interface))

Context_mem(c, k) ==
    When(c.n # 0, HOST_DISPATCH(c, k,
        CASE c.f = "putmem" -> host_putmem(c)
          [] c.f = "getmem" -> host_getmem(c, k)
          [] c.f = "putmem_nbi" -> host_putmem_nbi(c, k)
          [] c.f = "getmem_nbi" -> host_getmem_nbi(c, k)))
Context_typed(c, k) ==
    When(c.n # 0 \/ c.f \in {"p", "g"},
         HOST_DISPATCH_typed(c, k, host_typed(c, k)))
Context_order(c, k) ==
    HOST_DISPATCH(c, k, IF c.f = "fence" THEN host_fence ELSE host_quiet)
Context_amo(c, k) == HOST_DISPATCH_typed(c, k, host_amo(c, k))
Context_sync(c, k) ==
    HOST_DISPATCH(c, k,
        CASE c.f = "sync_all" -> host_sync_all
          [] c.f = "sync" -> host_sync(c)
          [] c.f = "barrier_all" -> host_barrier_all
          [] c.f = "barrier" -> host_barrier(c))
Context_collective(c, k) ==
    When(c.n # 0, HOST_DISPATCH_typed(c, k,
        CASE c.f = "broadcast" /\ c.active_set -> host_broadcast_active_set(c)
          [] c.f = "broadcast" /\ ~c.active_set -> host_broadcast(c)
          [] c.f = "to_all" -> host_to_all(c)
          [] c.f = "reduce" -> host_reduce(c)
          [] c.f = "reduce_scatter" -> host_reduce_scatter(c)))
Context_wait(c) == By(IPCHostContext_wait(c), WaitOrAbort(c), WaitOrAbort(c))

rocshmem_host_rma(c, k) ==
    IF c.f \in {"putmem", "getmem", "putmem_nbi", "getmem_nbi"}
    THEN Context_mem(c, k) ELSE Context_typed(c, k)
rocshmem_host_atomic(c, k) ==
    LET amo(op, v) == Context_amo([c EXCEPT !.op = op, !.v = v], k)
    IN  CASE c.op = "fetch_inc" -> amo("fetch_add", 1)
          [] c.op = "fetch" -> amo("fetch_add", 0)
          [] c.op = "inc" -> amo("add", 1)
          [] OTHER -> amo(c.op, c.v)
rocshmem_host_order(c, k) ==
    IF c.f \in {"fence", "quiet"} THEN Context_order(c, k) ELSE Context_sync(c, k)
rocshmem_host_collective(c, k) == Context_collective(c, k)
rocshmem_host_wait(c) == Context_wait(c)
HostProgram(c, k) ==
    CASE c.f \in {"putmem", "getmem", "putmem_nbi", "getmem_nbi", "p", "g",
                  "put", "get", "put_nbi", "get_nbi"} ->
            rocshmem_host_rma(c, k)
      [] c.f = "atomic" -> rocshmem_host_atomic(c, k)
      [] c.f \in {"fence", "quiet", "sync_all", "sync", "barrier_all",
                  "barrier"} -> rocshmem_host_order(c, k)
      [] c.f \in {"broadcast", "to_all", "reduce", "reduce_scatter"} ->
            rocshmem_host_collective(c, k)
      [] c.f \in {"wait_until", "wait_until_all", "wait_until_any",
                  "wait_until_some", "wait_until_all_vector",
                  "wait_until_any_vector", "wait_until_some_vector"} ->
            rocshmem_host_wait(c)
      [] c.f = "stream_synchronize" -> <<Join>>        \* the program's own
      [] c.f = "source" -> <<SetSource(c.n, c.v)>>

(* Calls that launch a kernel of one work-group on a stream: wavefront 1   *)
(* stands for the stream, and the work-group has no other wavefront.  The  *)
(* end of a kernel waits for its stores.                                   *)
OnWave(c) == [c EXCEPT !.by = "wave"]
rocshmem_putmem_kernel(p, c, k) ==
    rocshmem_ctx_rma_group(p, 0, [OnWave(c) EXCEPT !.f = "put"], k)
rocshmem_getmem_kernel(p, c, k) ==
    rocshmem_ctx_rma_group(p, 0, [OnWave(c) EXCEPT !.f = "get"], k)
rocshmem_putmem_signal_kernel(p, c, k) ==
    IF GDA THEN When(c.n # 0, gda_putmem_signal_wg(p, 0, c, k))
    ELSE rocshmem_ctx_put_signal(p, 0, OnWave(c), k)
rocshmem_signal_wait_until_kernel(c) == wait_until(c)
rocshmem_barrier_kernel(c) == rocshmem_barrier(0, OnWave(c))
rocshmem_sync_kernel(c) == direct_ctx_sync(0, OnWave(c))
rocshmem_quiet_kernel == rocshmem_ctx_quiet
team_on_stream(c) ==
    CASE c.f = "barrier" -> rocshmem_barrier_kernel(c)
      [] c.f = "sync" -> rocshmem_sync_kernel(c)
      [] c.f = "quiet" -> rocshmem_quiet_kernel
mem_on_stream(p, c, k) ==
    CASE c.f = "putmem" -> rocshmem_putmem_kernel(p, c, k)
      [] c.f = "getmem" -> rocshmem_getmem_kernel(p, c, k)
      [] c.f = "put_signal" -> rocshmem_putmem_signal_kernel(p, c, k)
      [] c.f = "wait_until" -> rocshmem_signal_wait_until_kernel(c)
Context_on_stream(p, c, k) ==
    HOST_DISPATCH(c, k, IF c.f \in {"barrier", "sync", "quiet"}
                        THEN team_on_stream(c) ELSE mem_on_stream(p, c, k))
    \o <<Fence>>
on_stream_impl(p, c, k) == Context_on_stream(p, c, k)
rocshmem_on_stream(p, c, k) == on_stream_impl(p, c, k)
-----------------------------------------------------------------------------
Stream == 1
OneWavefront(w, c) ==
    CASE c.by = "wg" -> TRUE
      [] c.by = "stream" -> w = Stream
      [] OTHER -> w = 0

(* Calls of a kernel, by what they are for.                                *)
RmaCalls(p, w, c, k) ==
    CASE c.f = "p" -> rocshmem_p(p, c, k)
      [] c.f = "g" -> rocshmem_g(p, c, k)
      [] c.f = "put_nbi_wave_dp" -> putmem_nbi_wave_dp(c)
      [] OTHER -> IF c.by = "thread" THEN rocshmem_ctx_rma(p, c, k)
                  ELSE rocshmem_ctx_rma_group(p, w, c, k)
OrderCalls(p, c) ==
    CASE c.f = "fence" -> rocshmem_ctx_fence(p)
      [] c.f = "fence_pe" -> rocshmem_ctx_fence_pe(p, c)
      [] c.f = "quiet" -> rocshmem_ctx_quiet
      [] c.f = "pe_quiet" -> rocshmem_ctx_pe_quiet(c)
      [] c.f = "qp_quiet" -> qp_quiet(c)
AmoCalls(p, c, k) ==
    IF c.f = "atomic_add_dp" THEN amo_add_dp(c) ELSE rocshmem_atomic(p, c, k)
SignalCalls(p, w, c, k) ==
    IF c.f = "put_signal" THEN rocshmem_ctx_put_signal(p, w, c, k)
    ELSE rocshmem_signal_fetch(p, w, c, k)
direct_ctx_wait(c) ==
    CASE c.f = "wait_until" -> wait_until(c)
      [] c.f = "wait_until_all" -> wait_until_all(c)
      [] c.f = "wait_until_any" -> wait_until_any(c)
      [] c.f = "wait_until_some" -> wait_until_some(c)
WaitCalls(c) == direct_ctx_wait(c)
CollectiveCalls(p, w, c) ==
    CASE c.f = "barrier" -> rocshmem_barrier(w, c)
      [] c.f = "sync" -> rocshmem_sync(w, c)
      [] OTHER -> ro_collective(p, w, c)

Program(p, w, c, k) ==
    CASE ~OneWavefront(w, c) -> <<>>
      [] c.by = "host" -> HostProgram(c, k)
      [] c.by = "stream" -> rocshmem_on_stream(p, c, k)
      [] c.f \in {"put", "get", "put_nbi", "get_nbi", "put_nbi_wave_dp", "p",
                  "g"} -> RmaCalls(p, w, c, k)
      [] c.f \in {"fence", "fence_pe", "quiet", "pe_quiet", "qp_quiet"} ->
            OrderCalls(p, c)
      [] c.f = "ptr" -> rocshmem_ptr(p, c)
      [] c.f \in {"atomic", "atomic_add_dp"} -> AmoCalls(p, c, k)
      [] c.f \in {"put_signal", "signal_fetch"} -> SignalCalls(p, w, c, k)
      [] c.f \in {"wait_until", "wait_until_all", "wait_until_any",
                  "wait_until_some"} -> WaitCalls(c)
      [] c.f = "tile" -> rocshmem_ctx_tile(p, w, c, k)
      [] c.f \in {"barrier", "sync", "reduce", "reduce_scatter", "broadcast",
                  "alltoall", "fcollect"} -> CollectiveCalls(p, w, c)
      [] c.f = "source" -> <<SetSource(c.n, c.v)>>     \* the kernel's own
      [] c.f = "syncthreads" -> <<s_barrier>>
-----------------------------------------------------------------------------
(* The machine.                                                            *)
Source(p) == [c \in {<<"src", i>> : i \in 0..(SourceSize - 1)} |->
                SourceSize * p + c[2] + 1]

Lanes == all_qps \cup host_lanes

Init ==
    /\ plan \in Plans
    /\ calls = [p \in PEs |-> [w \in Waves |-> 0]]
    /\ todo = [p \in PEs |-> [w \in Waves |-> <<>>]]
    /\ mem = [p \in PEs |-> Source(p)]
    /\ stores = [p \in PEs |-> [w \in Waves |-> <<>>]]
    /\ flight = [p \in PEs |-> [qp \in Lanes |-> <<>>]]
    /\ ret = [p \in PEs |-> <<>>]

StepOf(p, w) == Head(todo[p][w])
At(p, w, op) == todo[p][w] # <<>> /\ StepOf(p, w).op = op
Advance(p, w) == todo' = [todo EXCEPT ![p][w] = Tail(@)]
Set(m, q, new) == [m EXCEPT ![q] = new @@ @]
One(c, v) == [x \in {c} |-> v]
Copy(o, to, S) ==           \* S: elements of the destination and the source
    [c \in {<<to, x[1]>> : x \in S} |->
        Cell(o, <<"src", (CHOOSE x \in S : x[1] = c[2])[2]>>)]
Gives(p, w, v) == ret' = [ret EXCEPT ![p] = One(calls[p][w], v) @@ @]

Enter(p, w) ==
    /\ todo[p][w] = <<>> /\ calls[p][w] < Len(plan[p])
    /\ LET c == plan[p][calls[p][w] + 1]   \* a kernel that was launched
       IN  (c.by = "stream" /\ w = Stream) => calls[p][0] > calls[p][w]
    /\ calls' = [calls EXCEPT ![p][w] = @ + 1]
    /\ \E k \in get_qp_index :
          todo' = [todo EXCEPT ![p][w] =
                     Program(p, w, plan[p][calls[p][w] + 1], k)]
    /\ UNCHANGED <<plan, mem, stores, flight, ret>>

IssueStore(p, w) ==
    /\ \/ At(p, w, "store")
       \/ At(p, w, "value")
    /\ LET s == StepOf(p, w)
           new == IF s.op = "value" THEN {One(s.cell, s.v)}
                  ELSE {Copy(p, s.to, chunk) : chunk \in s.of}
       IN  stores' = [stores EXCEPT ![p][w] =
                        @ \o InSomeOrder({[pe |-> s.pe, new |-> x] : x \in new})]
    /\ Advance(p, w)
    /\ UNCHANGED <<plan, calls, mem, flight, ret>>

Land(p, w) ==               \* in any order, except to the same cells
    \E i \in DOMAIN stores[p][w] :
       LET s == stores[p][w][i]
       IN  /\ \A j \in 1..(i - 1) :
                 \/ stores[p][w][j].pe # s.pe
                 \/ DOMAIN stores[p][w][j].new \cap DOMAIN s.new = {}
           /\ mem' = Set(mem, s.pe, s.new)
           /\ stores' = [stores EXCEPT ![p][w] = RemoveAt(@, i)]
           /\ UNCHANGED <<plan, calls, todo, flight, ret>>

LoadStep(p, w) ==
    /\ At(p, w, "load")
    /\ LET s == StepOf(p, w) IN mem' = Set(mem, p, Copy(s.pe, s.to, UNION s.of))
    /\ Advance(p, w)
    /\ UNCHANGED <<plan, calls, stores, flight, ret>>

ReadStep(p, w) ==
    /\ At(p, w, "read")
    /\ Gives(p, w, Cell(StepOf(p, w).pe, StepOf(p, w).cell))
    /\ Advance(p, w)
    /\ UNCHANGED <<plan, calls, mem, stores, flight>>

FenceStep(p, w) ==
    /\ At(p, w, "fence") /\ stores[p][w] = <<>>
    /\ Advance(p, w)
    /\ UNCHANGED <<plan, calls, mem, stores, flight, ret>>

Meet(p) ==                  \* a barrier of the work-group
    /\ \A w \in Waves : At(p, w, "s_barrier")
    /\ todo' = [todo EXCEPT ![p] = [w \in Waves |-> Tail(@[w])]]
    /\ UNCHANGED <<plan, calls, mem, stores, flight, ret>>

Fetching(f) == f \in {"swap", "fetch_add", "fetch_and", "fetch_or",
                      "fetch_xor", "fetch_cas"}

AtomicStep(p, w) ==         \* seq_cst: after the wavefront's own stores
    /\ At(p, w, "atomic") /\ stores[p][w] = <<>>
    /\ LET s == StepOf(p, w)
           old == Cell(s.pe, s.cell)
       IN  /\ mem' = Set(mem, s.pe,
                         One(s.cell, Result(s.f, old, s.v, s.cond)))
           /\ IF Fetching(s.f) THEN Gives(p, w, old) ELSE UNCHANGED ret
    /\ Advance(p, w)
    /\ UNCHANGED <<plan, calls, stores, flight>>

PostStep(p, w) ==
    /\ At(p, w, "post")
    /\ LET s == StepOf(p, w)
       IN  flight' = [flight EXCEPT ![p][s.qp] = Append(@, s.wqe)]
    /\ Advance(p, w)
    /\ UNCHANGED <<plan, calls, mem, stores, ret>>

(* What the adapter or MPI has no operation for is tried as a compare-and- *)
(* swap.                                                                   *)
FetchStep(p, w) ==
    /\ At(p, w, "fetch")
    /\ LET s == StepOf(p, w)
           wqe == [what |-> "fetch", pe |-> s.pe, w |-> w, cell |-> s.cell,
                   cond |-> s.cond,
                   f |-> IF s.native THEN s.f ELSE "fetch_cas",
                   v |-> IF s.native THEN s.v
                         ELSE Result(s.f, s.cond, s.v, 0)]
       IN  flight' = [flight EXCEPT ![p][s.qp] = Append(@, wqe)]
    /\ todo' = [todo EXCEPT ![p][w][1].op = "await"]
    /\ UNCHANGED <<plan, calls, mem, stores, ret>>

FetchWithoutRetry(p, w) ==
    /\ At(p, w, "got")
    /\ Gives(p, w, StepOf(p, w).old) /\ Advance(p, w)
    /\ UNCHANGED <<plan, calls, mem, stores, flight>>
FetchDone(p, w) ==
    /\ At(p, w, "got")
    /\ LET s == StepOf(p, w)
       IN  IF s.native \/ s.old = s.cond
           THEN Gives(p, w, s.old) /\ Advance(p, w)
           ELSE /\ todo' = [todo EXCEPT ![p][w][1] =
                              [s EXCEPT !.op = "fetch", !.cond = s.old]]
                /\ UNCHANGED ret
    /\ UNCHANGED <<plan, calls, mem, stores, flight>>

CarryOut(p, qp) ==
    /\ flight[p][qp] # <<>>
    /\ LET o == Head(flight[p][qp])
           q == o.pe
       IN  /\ mem' = CASE o.what = "put" -> Set(mem, q, Copy(p, o.to, o.of))
                       [] o.what = "get" -> Set(mem, p, Copy(q, o.to, o.of))
                       [] o.what = "value" -> Set(mem, q, One(o.cell, o.v))
                       [] o.what = "atomic" ->
                             Set(mem, q, One(o.cell,
                                 Result(o.f, Cell(q, o.cell), o.v, 0)))
                       [] o.what = "fetch" ->
                             Set(mem, q, One(o.cell,
                                 Result(o.f, Cell(q, o.cell), o.v, o.cond)))
                       [] o.what = "start" -> mem
           /\ IF o.what = "fetch"
              THEN todo' = [todo EXCEPT ![p][o.w][1] =
                              [old |-> Cell(q, o.cell), op |-> "got"] @@ @]
              ELSE UNCHANGED todo
           /\ flight' =
                IF o.what = "start"
                THEN [flight EXCEPT ![p][qp] = Tail(@),
                                    ![p][o.on] = Append(@, o.get)]
                ELSE [flight EXCEPT ![p][qp] = Tail(@)]
    /\ UNCHANGED <<plan, calls, stores, ret>>

(* A collective of MPI or the bootstrap: every PE of it is there, and what *)
(* it is told is done at once.                                             *)
Sum(pes, i) == FoldSet(LAMBDA q, x : x + Cell(q, <<"src", i>>), 0, pes)
Combined(s, p) ==
    LET own == IF s.what = "reduce_scatter" THEN s.n * p ELSE 0
        into == [c \in {<<"dst", i>> : i \in 0..(s.n - 1)} |->
                   IF s.what = "bcast" THEN Cell(s.root, <<"src", c[2]>>)
                   ELSE Sum(s.pes, own + c[2])]
    IN  IF s.what = "barrier" \/ (s.what = "bcast" /\ p = s.root) THEN <<>>
        ELSE into
There(q, s) == {w \in Waves : At(q, w, "mpi") /\ StepOf(q, w) = s}
MpiStep(p, w) ==
    /\ At(p, w, "mpi")
    /\ LET s == StepOf(p, w)
       IN  /\ p = Min(s.pes) /\ \A q \in s.pes : There(q, s) # {}
           /\ mem' = [q \in PEs |-> IF q \in s.pes THEN Combined(s, q) @@ mem[q]
                                    ELSE mem[q]]
           /\ todo' = [q \in PEs |->
                IF q \notin s.pes THEN todo[q]
                ELSE [todo[q] EXCEPT ![Min(There(q, s))] = Tail(@)]]
    /\ UNCHANGED <<plan, calls, stores, flight, ret>>

(* hipStreamSynchronize: the kernels launched so far are done.             *)
Launched(p) == calls[p][Stream] >= calls[p][0] - 1 /\ todo[p][Stream] = <<>>
JoinStep(p, w) ==
    /\ At(p, w, "join") /\ Launched(p)
    /\ Advance(p, w)
    /\ UNCHANGED <<plan, calls, mem, stores, flight, ret>>

QuietStep(p, w) ==
    /\ At(p, w, "quiet") /\ \A qp \in StepOf(p, w).on : flight[p][qp] = <<>>
    /\ Advance(p, w)
    /\ UNCHANGED <<plan, calls, mem, stores, flight, ret>>

WaitStep(p, w) ==
    /\ At(p, w, "wait")
    /\ LET s == StepOf(p, w) IN test(p, s.cell, s.cmp, s.v)
    /\ Advance(p, w)
    /\ UNCHANGED <<plan, calls, mem, stores, flight, ret>>

(* One word of a scan; at the end of a round of wait_until_some it returns *)
(* if it has found any.                                                    *)
ScanStep(p, w) ==
    /\ At(p, w, "scan")
    /\ LET s == StepOf(p, w)
           i == s.words[s.pos][1]
           ok == test(p, <<"word", i>>, s.cmp, s.words[s.pos][2])
           found == IF ok THEN s.found \cup {i} ELSE s.found
           last == s.pos = Len(s.words)
           again == [s EXCEPT !.pos = IF last THEN 1 ELSE @ + 1,
                              !.found = found]
       IN  IF (ok /\ ~s.some) \/ (last /\ found # {})
           THEN Gives(p, w, IF s.some THEN found ELSE i) /\ Advance(p, w)
           ELSE todo' = [todo EXCEPT ![p][w][1] = again] /\ UNCHANGED ret
    /\ UNCHANGED <<plan, calls, mem, stores, flight>>

ReturnStep(p, w) ==
    /\ At(p, w, "return")
    /\ Gives(p, w, StepOf(p, w).v) /\ Advance(p, w)
    /\ UNCHANGED <<plan, calls, mem, stores, flight>>

SourceStep(p, w) ==
    /\ At(p, w, "source")
    /\ LET s == StepOf(p, w)
       IN  mem' = Set(mem, p,
                       [c \in {<<"src", i>> : i \in 0..(s.n - 1)} |-> s.v])
    /\ Advance(p, w)
    /\ UNCHANGED <<plan, calls, stores, flight, ret>>

Step(p, w) ==
    \/ Enter(p, w) \/ IssueStore(p, w) \/ Land(p, w) \/ LoadStep(p, w)
    \/ ReadStep(p, w) \/ FenceStep(p, w) \/ AtomicStep(p, w) \/ PostStep(p, w)
    \/ FetchStep(p, w) \/ FetchDone(p, w) \/ QuietStep(p, w) \/ WaitStep(p, w)
    \/ ScanStep(p, w) \/ ReturnStep(p, w) \/ SourceStep(p, w)
    \/ MpiStep(p, w) \/ JoinStep(p, w)

Next ==
    \E p \in PEs :
       \/ Meet(p)
       \/ \E w \in Waves : Step(p, w)
       \/ \E qp \in Lanes : CarryOut(p, qp)

Spec == Init /\ [][Next]_vars
-----------------------------------------------------------------------------
(* Calls carry what the program may rely on once they have returned.       *)
Returned(p, w, i) ==
    i < calls[p][w] \/ (i = calls[p][w] /\ todo[p][w] = <<>>)

CompletionHolds ==
    \A p \in PEs, w \in Waves : \A i \in 1..calls[p][w] :
        (Returned(p, w, i) /\ OneWavefront(w, plan[p][i])) =>
            /\ \A t \in plan[p][i].then : Cell(t[1], t[2]) = t[3]
            /\ (w = 0 /\ plan[p][i].gives # {}) =>
                  ret[p][i] \in plan[p][i].gives

(* The atomics on one word.                                                *)
AtomicCalls(q, word) ==
    {pi \in PEs \X (1..10) :
        /\ pi[2] \in DOMAIN plan[pi[1]]
        /\ LET c == plan[pi[1]][pi[2]]
           IN  /\ c.f \in {"atomic", "atomic_add_dp", "put_signal"}
               /\ c.pe = q /\ c.word = word}
Value(c, old) ==
    CASE c.op \in {"inc", "fetch_inc"} -> old + 1
      [] c.op = "fetch" -> old
      [] OTHER -> Result(c.op, old, c.v, c.cond)
AllDone ==
    /\ \A p \in PEs, w \in Waves :
          /\ calls[p][w] = Len(plan[p]) /\ todo[p][w] = <<>>
          /\ stores[p][w] = <<>>
    /\ \A p \in PEs : \A qp \in DOMAIN flight[p] : flight[p][qp] = <<>>

(* In the end the atomics on a word have taken effect in some order: each  *)
(* returned what the ones before it left, an earlier one that returned a   *)
(* value comes before a later one of the same PE, and the word holds what  *)
(* the last one left.                                                      *)
AtomicsAreExact ==
    AllDone => \A q \in PEs, word \in 0..1 :
        AtomicCalls(q, word) # {} =>
        \E order \in SetToSeqs(AtomicCalls(q, word)) :
            LET call(j) == plan[order[j][1]][order[j][2]]
                value[j \in 0..Len(order)] ==
                    IF j = 0 THEN 0 ELSE Value(call(j), value[j - 1])
                given(j) == order[j][2] \in DOMAIN ret[order[j][1]]
            IN  /\ Cell(q, <<"word", word>>) = value[Len(order)]
                /\ \A j \in DOMAIN order : given(j) /\ call(j).f = "atomic" =>
                      ret[order[j][1]][order[j][2]] = value[j - 1]
                /\ \A i, j \in DOMAIN order :
                      (order[i][1] = order[j][1] /\ order[i][2] < order[j][2]
                       /\ given(i)) => i < j

(* Every wavefront gets to the end of its calls: as long as one is not     *)
(* there, something can still happen.                                      *)
CanMove(p, w) ==
    \/ /\ todo[p][w] = <<>> /\ calls[p][w] < Len(plan[p])
       /\ LET c == plan[p][calls[p][w] + 1]
          IN  (c.by = "stream" /\ w = Stream) => calls[p][0] > calls[p][w]
    \/ /\ todo[p][w] # <<>>
       /\ LET s == StepOf(p, w)
          IN  CASE s.op = "wait" -> test(p, s.cell, s.cmp, s.v)
                [] s.op = "scan" -> \E j \in DOMAIN s.words :
                     test(p, <<"word", s.words[j][1]>>, s.cmp, s.words[j][2])
                [] s.op = "s_barrier" -> \A x \in Waves : At(p, x, "s_barrier")
                [] s.op = "mpi" -> \A q \in s.pes : There(q, s) # {}
                [] s.op = "join" -> Launched(p)
                [] s.op \in {"await", "abort"} -> FALSE
                [] OTHER -> TRUE
NobodyIsStuck ==
    (\E p \in PEs, w \in Waves : todo[p][w] # <<>>) =>
        \E p \in PEs :
            \/ \E qp \in DOMAIN flight[p] : flight[p][qp] # <<>>
            \/ \E w \in Waves : stores[p][w] # <<>> \/ CanMove(p, w)
=============================================================================
