-------------------------------- MODULE Heap --------------------------------
(***************************************************************************)
(* The symmetric heap: rocshmem_malloc, _align, _calloc and _free of every *)
(* PE, on the dlmalloc space each PE keeps in its own heap memory.         *)
(*                                                                         *)
(* Nothing is exchanged: an object is symmetric only because all PEs make  *)
(* the same calls and the allocator gives the same answers.  Allocation    *)
(* ends, and release begins, with a barrier, and a PE may be one call      *)
(* ahead of another.                                                       *)
(*                                                                         *)
(* Addresses and sizes are bytes.  A heap is a record: the heads of its    *)
(* chunks, the sizes stored at the feet of free chunks, the bins, the      *)
(* designated victim dv and the top chunk.  What lies inside a chunk       *)
(* belongs to the program, so heads and feet found there are dropped.      *)
(***************************************************************************)
EXTENDS Integers, Sequences, FiniteSets, TLC, SequencesExt, FiniteSetsExt

CONSTANTS N,         \* number of PEs
          Base,      \* Base[p]: address of the heap memory of PE p
          Size,      \* ROCSHMEM_HEAP_SIZE
          Slots,     \* names for the program's pointers
          Requests,  \* calls the program chooses from when it has no script
          Probes     \* sizes for which every heap's choice is examined

VARIABLES script,    \* calls still to be made, or Free: any of Requests
          calls,     \* calls some PE has begun and some PE has not ended
          host,      \* host[p]: call it is in, and how far
          heap,      \* heap[p]: the mspace of PE p
          ptr        \* ptr[p][s]: what the program holds in slot s

vars == <<script, calls, host, heap, ptr>>

PEs == 0 .. N - 1
Free == <<[op |-> "any"]>>
NULL == 0
-----------------------------------------------------------------------------
(* Sizes of the build: 64-bit words, MALLOC_ALIGNMENT = ALIGNMENT.         *)
SIZE_T_SIZE == 8
MALLOC_ALIGNMENT == 128
MIN_CHUNK_SIZE == 128
CHUNK_OVERHEAD == SIZE_T_SIZE
TWO_SIZE_T_SIZES == 16
MAX_SMALL_REQUEST == 255 - (MALLOC_ALIGNMENT - 1) - CHUNK_OVERHEAD
SIZE_MAX == 2 ^ 16 - 1            \* bound: width of a size_t
MAX_REQUEST == SIZE_MAX + 1 - 4 * MIN_CHUNK_SIZE
Size_t(x) == x % (SIZE_MAX + 1)

RoundUp(x, a) == ((x + a - 1) \div a) * a
pad_request(bytes) == RoundUp(bytes + CHUNK_OVERHEAD, MALLOC_ALIGNMENT)
request2size(bytes) ==
    IF bytes < MIN_CHUNK_SIZE - CHUNK_OVERHEAD - 1 THEN MIN_CHUNK_SIZE
    ELSE pad_request(bytes)
chunk2mem(p) == p + TWO_SIZE_T_SIZES
mem2chunk(mem) == mem - TWO_SIZE_T_SIZES
align_as_chunk(a) == mem2chunk(RoundUp(chunk2mem(a), MALLOC_ALIGNMENT))

MallocStateSize == pad_request(936)     \* sizeof(struct malloc_state)
TOP_FOOT_SIZE == (MALLOC_ALIGNMENT - TWO_SIZE_T_SIZES) + pad_request(32)
                   + MIN_CHUNK_SIZE
TrimThreshold == 2 ^ 10                 \* bound: DEFAULT_TRIM_THRESHOLD
-----------------------------------------------------------------------------
(* Which bin a chunk goes to: the small ones by exact size, the large ones *)
(* two per power of two, each a trie on the bits of the size below.        *)
is_small(s) == s \div 8 < 32
small_index(s) == s \div 8
small_index2size(i) == 8 * i
Bit(s, b) == (s \div 2 ^ b) % 2

compute_tree_index(s) ==
    LET x == s \div 256
        k == CHOOSE j \in 0 .. 15 : 2 ^ j <= x /\ x < 2 ^ (j + 1)
    IN  IF x = 0 THEN 0 ELSE 2 * k + Bit(s, k + 7)

(* BitTooLow is bit_for_tree_index shifted one place too far. *)
BitTooLow(i) == (i \div 2) + 5

(* The bit by which the root of bin i tells its children apart *)
bit_for_tree_index(i) == (i \div 2) + 6

SmallBins == {small_index(s) : s \in {MIN_CHUNK_SIZE}}
TreeBins == 0 .. compute_tree_index(Size)

Nil == [size |-> 0, ring |-> <<>>, child |-> <<>>]
IsLeaf(t) == t.child[1] = Nil /\ t.child[2] = Nil

(* Chunks of one size form a ring behind the node of that size. *)
RECURSIVE insert_tree(_, _, _, _)
insert_tree(t, x, s, b) ==
    IF t = Nil THEN [size |-> s, ring |-> <<x>>, child |-> <<Nil, Nil>>]
    ELSE IF t.size = s THEN [t EXCEPT !.ring = <<Head(@), x>> \o Tail(@)]
    ELSE [t EXCEPT !.child[Bit(s, b) + 1] = insert_tree(@, x, s, b - 1)]

RECURSIVE Members(_)
Members(t) == IF t = Nil THEN {}
              ELSE ToSet(t.ring) \cup Members(t.child[1]) \cup Members(t.child[2])

RECURSIVE RightmostLeaf(_)
RightmostLeaf(t) ==
    IF IsLeaf(t) THEN t
    ELSE RightmostLeaf(t.child[IF t.child[2] # Nil THEN 2 ELSE 1])

RECURSIVE WithoutLeaf(_)
WithoutLeaf(t) ==
    IF IsLeaf(t) THEN Nil
    ELSE [t EXCEPT !.child[IF t.child[2] # Nil THEN 2 ELSE 1] = WithoutLeaf(@)]

(* The last chunk of a ring leaves: a leaf takes its place in the tree.    *)
Replaced(t) ==
    IF IsLeaf(t) THEN Nil
    ELSE [RightmostLeaf(t) EXCEPT !.child = WithoutLeaf(t).child]

RECURSIVE unlink_tree(_, _)
unlink_tree(t, x) ==
    CASE t.ring = <<x>> -> Replaced(t)
      [] x = Head(t.ring) /\ Len(t.ring) > 1 ->
           [t EXCEPT !.ring = <<Last(@)>> \o SubSeq(@, 2, Len(@) - 1)]
      [] x # Head(t.ring) /\ x \in ToSet(t.ring) -> [t EXCEPT !.ring = Remove(@, x)]
      [] OTHER -> LET i == CHOOSE j \in {1, 2} : x \in Members(t.child[j])
                  IN  [t EXCEPT !.child[i] = unlink_tree(@, x)]
-----------------------------------------------------------------------------
(* Heads and feet.                                                         *)
chunksize(m, p) == m.head[p].size
cinuse(m, p) == m.head[p].cinuse
pinuse(m, p) == m.head[p].pinuse

SetHead(m, p, s, c, i) ==
    [m EXCEPT !.head = (p :> [size |-> s, cinuse |-> c, pinuse |-> i]) @@ @]
SetFoot(m, p, s) == [m EXCEPT !.foot = ((p + s) :> s) @@ @]
SetPinuse(m, p, i) ==
    IF p \in DOMAIN m.head THEN [m EXCEPT !.head[p].pinuse = i]
    ELSE SetHead(m, p, 0, FALSE, i)

set_inuse(m, p, s) ==
    SetPinuse(SetHead(m, p, s, TRUE, p \in DOMAIN m.head /\ pinuse(m, p)), p + s, TRUE)
set_inuse_and_pinuse(m, p, s) == SetPinuse(SetHead(m, p, s, TRUE, TRUE), p + s, TRUE)
set_size_and_pinuse_of_inuse_chunk(m, p, s) == SetHead(m, p, s, TRUE, TRUE)
set_size_and_pinuse_of_free_chunk(m, p, s) == SetFoot(SetHead(m, p, s, FALSE, TRUE), p, s)
set_free_with_pinuse(m, p, s, n) ==
    set_size_and_pinuse_of_free_chunk(SetPinuse(m, n, FALSE), p, s)
-----------------------------------------------------------------------------
(* Bins.                                                                   *)
insert_small_chunk(m, p, s) ==
    [m EXCEPT !.smallbins[small_index(s)] = <<p>> \o @,
              !.smallmap = @ \cup {small_index(s)}]

unlink_small_chunk(m, p, s) ==
    LET i == small_index(s)
        rest == Remove(m.smallbins[i], p)
    IN  [m EXCEPT !.smallbins[i] = rest,
                  !.smallmap = IF rest = <<>> THEN @ \ {i} ELSE @]

insert_large_chunk(m, x, s) ==
    LET i == compute_tree_index(s)
    IN  [m EXCEPT !.treebins[i] = insert_tree(@, x, s, bit_for_tree_index(i)),
                  !.treemap = @ \cup {i}]

unlink_large_chunk(m, x) ==
    LET i == compute_tree_index(chunksize(m, x))
        t == unlink_tree(m.treebins[i], x)
    IN  [m EXCEPT !.treebins[i] = t, !.treemap = IF t = Nil THEN @ \ {i} ELSE @]

insert_chunk(m, p, s) ==
    IF is_small(s) THEN insert_small_chunk(m, p, s) ELSE insert_large_chunk(m, p, s)
unlink_chunk(m, p, s) ==
    IF is_small(s) THEN unlink_small_chunk(m, p, s) ELSE unlink_large_chunk(m, p)

(* The old victim goes to a bin; used only when it is small.               *)
replace_dv(m, p, s) ==
    LET old == IF m.dvsize # 0 THEN insert_small_chunk(m, m.dv, m.dvsize) ELSE m
    IN  [old EXCEPT !.dv = p, !.dvsize = s]
-----------------------------------------------------------------------------
(* The chunks of a heap, as internal_mallinfo walks over them.             *)
RECURSIVE ChunksFrom(_, _)
ChunksFrom(m, p) == IF p = m.top THEN {} ELSE {p} \cup ChunksFrom(m, p + chunksize(m, p))
Chunks(m) == ChunksFrom(m, align_as_chunk(m.base))

Sum(m, S) == FoldSet(LAMBDA p, n : n + chunksize(m, p), 0, S)

mspace_avail(m) ==
    m.topsize + TOP_FOOT_SIZE + Sum(m, {p \in Chunks(m) : ~cinuse(m, p)})
mspace_used(m) == m.footprint - mspace_avail(m)

(* What is left of heads and feet when the program owns the rest *)
Swept(m) ==
    LET real == Chunks(m) \cup {m.top}
    IN  [m EXCEPT !.head = [p \in real |-> m.head[p]],
                  !.foot = [p \in {q \in real : ~pinuse(m, q)} |-> m.foot[p]]]

init_top(m, p, psize) ==
    SetHead([m EXCEPT !.top = p, !.topsize = psize, !.trim_check = TrimThreshold],
            p, psize, FALSE, TRUE)

create_mspace_with_base(base, capacity) ==
    LET msp == align_as_chunk(base)
        mn == msp + MallocStateSize
        m == [base |-> base, footprint |-> capacity,
              head |-> (msp :> [size |-> MallocStateSize, cinuse |-> TRUE, pinuse |-> TRUE]),
              foot |-> <<>>, smallbins |-> [i \in SmallBins |-> <<>>], smallmap |-> {},
              treebins |-> [i \in TreeBins |-> Nil], treemap |-> {},
              dv |-> NULL, dvsize |-> 0, top |-> NULL, topsize |-> 0,
              trim_check |-> 0, aborted |-> FALSE]
    IN  init_top(m, mn, (base + capacity) - mn - TOP_FOOT_SIZE)
-----------------------------------------------------------------------------
(* Allocation.  A result is the heap and the address, NULL on failure.     *)
Got(m, p) == [m |-> m, mem |-> chunk2mem(p)]
Nothing(m) == [m |-> m, mem |-> NULL]

(* Down the trie along the bits of nb: the best fit on the way, and the    *)
(* deepest right subtree not taken, which holds the sizes just above nb.   *)
RECURSIVE Descend(_, _, _, _, _)
Descend(t, nb, b, best, rst) ==
    LET trem == Size_t(t.size - nb)
        found == IF trem < best.rsize THEN [v |-> Head(t.ring), rsize |-> trem] ELSE best
        taken == t.child[Bit(nb, b) + 1]
        rt == t.child[2]
        right == IF rt # Nil /\ rt # taken THEN rt ELSE rst
    IN  IF found.rsize = 0 THEN [t |-> t, best |-> found]
        ELSE IF taken = Nil THEN [t |-> right, best |-> found]
        ELSE Descend(taken, nb, b - 1, found, right)

(* The smallest chunk of a trie is on the path of leftmost children.       *)
RECURSIVE Leftmost(_, _, _)
Leftmost(t, nb, best) ==
    LET trem == Size_t(t.size - nb)
        found == IF trem < best.rsize THEN [v |-> Head(t.ring), rsize |-> trem] ELSE best
    IN  IF t = Nil THEN best
        ELSE Leftmost(t.child[IF t.child[1] # Nil THEN 1 ELSE 2], nb, found)

(* Take nb bytes of the free chunk v, rsize larger than that; Rest says    *)
(* where a remainder that is a chunk goes.                                 *)
Split(m, v, nb, rsize, Rest(_, _, _)) ==
    IF rsize < MIN_CHUNK_SIZE THEN set_inuse_and_pinuse(m, v, rsize + nb)
    ELSE Rest(set_size_and_pinuse_of_free_chunk(
                set_size_and_pinuse_of_inuse_chunk(m, v, nb), v + nb, rsize), v + nb, rsize)

(* The best fit in the bin of nb, and the subtree to search after it.      *)
SearchBin(m, nb, idx, none) ==
    IF idx \notin TreeBins \/ m.treebins[idx] = Nil THEN [t |-> Nil, best |-> none]
    ELSE Descend(m.treebins[idx], nb, bit_for_tree_index(idx), none, Nil)

SmallestFit(m, nb, idx, own) ==
    LET leftbits == {i \in m.treemap : i > idx}
    IN  Leftmost(IF own.t = Nil /\ own.best.v = NULL /\ leftbits # {}
                 THEN m.treebins[Min(leftbits)] ELSE own.t, nb, own.best)

take_best(m, nb, best) ==
    IF best.v # NULL /\ best.rsize < Size_t(m.dvsize - nb)
    THEN Got(Split(unlink_large_chunk(m, best.v), best.v, nb, best.rsize, insert_chunk), best.v)
    ELSE Nothing(m)

tmalloc_large(m, nb) ==
    LET idx == compute_tree_index(nb)
        none == [v |-> NULL, rsize |-> Size_t(-nb)]
    IN  take_best(m, nb, SmallestFit(m, nb, idx, SearchBin(m, nb, idx, none)))

tmalloc_small(m, nb) ==
    LET root == m.treebins[Min(m.treemap)]
        best == Leftmost(root, nb, [v |-> NULL, rsize |-> SIZE_MAX])
    IN  Got(Split(unlink_large_chunk(m, best.v), best.v, nb, best.rsize, replace_dv), best.v)

SmallestBin(m, idx) == Min({i \in m.smallmap : i >= idx})
from_smallbin(m, i, nb) ==
    LET p == Head(m.smallbins[i])
    IN  Got(Split(unlink_small_chunk(m, p, small_index2size(i)), p, nb,
                  small_index2size(i) - nb, replace_dv), p)

from_dv(m, nb) ==
    LET Rest(h, r, s) == [h EXCEPT !.dv = r, !.dvsize = s]
        gone == [m EXCEPT !.dv = NULL, !.dvsize = 0]
    IN  Got(Split(gone, m.dv, nb, m.dvsize - nb, Rest), m.dv)

from_top(m, nb) ==
    LET r == m.top + nb
        rsize == m.topsize - nb
    IN  Got(set_size_and_pinuse_of_inuse_chunk(
              SetHead([m EXCEPT !.top = r, !.topsize = rsize], r, rsize, FALSE, TRUE),
              m.top, nb), m.top)

(* There is neither MORECORE nor MMAP to turn to.                          *)
sys_alloc(m, nb) == Nothing(m)

from_dv_or_top(m, nb) ==
    CASE nb <= m.dvsize -> from_dv(m, nb)
      [] nb > m.dvsize /\ nb < m.topsize -> from_top(m, nb)
      [] OTHER -> sys_alloc(m, nb)

mspace_malloc(m, bytes) ==
    LET small == bytes <= MAX_SMALL_REQUEST
        nb == IF small THEN request2size(bytes)
              ELSE IF bytes >= MAX_REQUEST THEN SIZE_MAX ELSE pad_request(bytes)
        idx == small_index(nb)
        OrElse(large) == IF large.mem # NULL THEN large ELSE from_dv_or_top(m, nb)
    IN  CASE small /\ m.smallmap \cap {idx, idx + 1} # {} ->
               from_smallbin(m, SmallestBin(m, idx), nb)
          [] small /\ m.smallmap \cap {idx, idx + 1} = {} /\ nb > m.dvsize
               /\ \E i \in m.smallmap : i > idx ->
               from_smallbin(m, SmallestBin(m, idx), nb)
          [] small /\ (\A i \in m.smallmap : i < idx) /\ nb > m.dvsize /\ m.treemap # {} ->
               tmalloc_small(m, nb)
          [] ~small /\ bytes < MAX_REQUEST /\ m.treemap # {} -> OrElse(tmalloc_large(m, nb))
          [] OTHER -> from_dv_or_top(m, nb)
-----------------------------------------------------------------------------
(* Release: merge with a free chunk before, then with one behind.          *)
merge_next(m, p, psize, nsize) ==
    set_size_and_pinuse_of_free_chunk(unlink_chunk(m, p + psize, nsize), p, psize + nsize)

dispose_merged(m, p, psize, next) ==
    CASE p = m.dv /\ cinuse(m, next) /\ pinuse(m, next) ->
           [set_free_with_pinuse(m, p, psize, next) EXCEPT !.dvsize = psize]
      [] next = m.top ->
           SetHead([m EXCEPT !.top = p, !.topsize = @ + psize,
                             !.dv = IF p = @ THEN NULL ELSE @,
                             !.dvsize = IF p = m.dv THEN 0 ELSE @],
                   p, m.topsize + psize, FALSE, TRUE)
      [] next # m.top /\ next = m.dv ->
           [set_size_and_pinuse_of_free_chunk(m, p, m.dvsize + psize)
              EXCEPT !.dv = p, !.dvsize = @ + psize]
      [] next # m.top /\ next # m.dv /\ ~cinuse(m, next) ->
           LET nsize == chunksize(m, next)
           IN  IF p = m.dv
               THEN [merge_next(m, p, psize, nsize) EXCEPT !.dvsize = psize + nsize]
               ELSE insert_chunk(merge_next(m, p, psize, nsize), p, psize + nsize)
      [] OTHER -> insert_chunk(set_free_with_pinuse(m, p, psize, next), p, psize)

dispose_chunk(m, p, psize) ==
    IF pinuse(m, p) THEN dispose_merged(m, p, psize, p + psize)
    ELSE LET prevsize == m.foot[p]
             prev == p - prevsize
         IN  dispose_merged(IF prev = m.dv THEN m ELSE unlink_chunk(m, prev, prevsize),
                            prev, prevsize + psize, p + psize)

(* Top cannot be given back to a system: a trim only turns itself off.     *)
sys_trim(m) == [m EXCEPT !.trim_check = SIZE_MAX]

mspace_free(m, mem) ==
    LET p == mem2chunk(mem)
        next == p + chunksize(m, p)
        Trimmed(freed) == IF next = m.top /\ freed.topsize > freed.trim_check
                          THEN sys_trim(freed) ELSE freed
    IN  IF ~(p >= m.base /\ p \in DOMAIN m.head /\ cinuse(m, p) /\ pinuse(m, next))
        THEN [m EXCEPT !.aborted = TRUE]
        ELSE Trimmed(dispose_chunk(m, p, chunksize(m, p)))

PowerOfTwo(a) == \E k \in 0 .. 15 : a = 2 ^ k

(* Enough for an aligned chunk with a whole chunk before it; what lies     *)
(* before and behind the aligned part is given back.                       *)
give_back_end(m, p, nb, size) ==
    Got(IF size > nb + MIN_CHUNK_SIZE
        THEN dispose_chunk(set_inuse(set_inuse(m, p, nb), p + nb, size - nb), p + nb, size - nb)
        ELSE m, p)

give_back_lead(m, p, newp) ==
    IF newp = p THEN m
    ELSE LET lead == newp - p
         IN  dispose_chunk(set_inuse(set_inuse(m, newp, chunksize(m, p) - lead), p, lead), p, lead)

AlignedIn(mem, alignment) ==
    LET br == mem2chunk(RoundUp(mem, alignment))
    IN  IF mem % alignment = 0 THEN mem2chunk(mem)
        ELSE IF br - mem2chunk(mem) >= MIN_CHUNK_SIZE THEN br ELSE br + alignment

AlignedPart(got, newp, nb) ==
    LET Trim(m) == give_back_end(m, newp, nb, chunksize(m, newp))
    IN  Trim(give_back_lead(got.m, mem2chunk(got.mem), newp))

internal_memalign(m, want, bytes) ==
    LET least == IF want < MIN_CHUNK_SIZE THEN MIN_CHUNK_SIZE ELSE want
        alignment == IF PowerOfTwo(least) THEN least
                     ELSE Min({2 ^ k : k \in {j \in 8 .. 16 : 2 ^ j >= least}})
        nb == request2size(bytes)
        Fit(got) == IF got.mem = NULL THEN Nothing(m)
                    ELSE AlignedPart(got, AlignedIn(got.mem, alignment), nb)
    IN  IF bytes >= MAX_REQUEST - alignment THEN Nothing(m)
        ELSE Fit(mspace_malloc(m, nb + alignment + MIN_CHUNK_SIZE - CHUNK_OVERHEAD))

mspace_memalign(m, alignment, bytes) ==
    IF alignment <= MALLOC_ALIGNMENT THEN mspace_malloc(m, bytes)
    ELSE internal_memalign(m, alignment, bytes)
-----------------------------------------------------------------------------
(* The collective calls.                                                   *)
None == [mem |-> NULL, bytes |-> 0, alignment |-> 1]
Idle == [at |-> 0, pc |-> "idle", got |-> None]

Init(scripts) ==
    /\ script \in scripts
    /\ calls = <<>>
    /\ host = [p \in PEs |-> Idle]
    /\ heap = [p \in PEs |-> create_mspace_with_base(Base[p], Size)]
    /\ ptr = [p \in PEs |-> [s \in Slots |-> None]]

valid_alignment(a) == a # 0 /\ PowerOfTwo(a) /\ a % SIZE_T_SIZE = 0
valid_args(count, size) == count # 0 /\ size # 0 /\ count <= SIZE_MAX \div size

rocshmem_malloc(m, bytes) == IF bytes = 0 THEN Nothing(m) ELSE mspace_malloc(m, bytes)
rocshmem_align(m, alignment, bytes) ==
    IF ~valid_alignment(alignment) \/ bytes = 0 THEN Nothing(m)
    ELSE mspace_memalign(m, alignment, bytes)
rocshmem_calloc(m, count, size) ==
    IF valid_args(count, size) THEN rocshmem_malloc(m, count * size) ELSE Nothing(m)

Allocated(m, c) ==
    CASE c.op = "malloc" -> rocshmem_malloc(m, c.bytes)
      [] c.op = "align" -> rocshmem_align(m, c.alignment, c.bytes)
      [] c.op = "calloc" -> rocshmem_calloc(m, c.count, c.bytes)

(* What the pointer promises if it is not NULL *)
Object(c, mem) ==
    IF mem = NULL THEN None
    ELSE [mem |-> mem, bytes |-> IF c.op = "calloc" THEN c.count * c.bytes ELSE c.bytes,
          alignment |-> IF c.op = "align" THEN c.alignment ELSE MALLOC_ALIGNMENT]

(* All PEs make the same calls: the first to come chooses.                 *)
NextCalls(p) ==
    IF host[p].at < Len(calls) THEN {calls[host[p].at + 1]}
    ELSE IF script = Free
    THEN {c \in Requests : (c.op = "free") <=> (ptr[p][c.slot] # None)}
    ELSE IF script = <<>> THEN {} ELSE {Head(script)}

(* Allocation is local; a release first waits for the others.              *)
Call(p) ==
    /\ host[p].pc = "idle"
    /\ \E c \in NextCalls(p) :
         /\ IF host[p].at < Len(calls) THEN UNCHANGED <<calls, script>>
            ELSE /\ calls' = Append(calls, c)
                 /\ script' = IF script = Free THEN script ELSE Tail(script)
         /\ IF c.op = "free"
            THEN /\ host' = [host EXCEPT ![p].pc = "barrier"]
                 /\ UNCHANGED heap
            ELSE \E r \in {Allocated(heap[p], c)} :
                     /\ host' = [host EXCEPT ![p].pc = "barrier", ![p].got = Object(c, r.mem)]
                     /\ heap' = [heap EXCEPT ![p] = Swept(r.m)]
    /\ UNCHANGED ptr

(* rocshmem_barrier_all: every PE has come to it in the same call.         *)
Met(p) == \A q \in PEs : \/ host[q].at > host[p].at
                         \/ host[q].at = host[p].at /\ host[q].pc # "idle"

(* The call ends on p; it is forgotten once it has ended everywhere.       *)
Ended(p) ==
    LET ended == [host EXCEPT ![p] = [Idle EXCEPT !.at = host[p].at + 1]]
    IN  IF \A q \in PEs : ended[q].at > 0
        THEN /\ calls' = Tail(calls)
             /\ host' = [q \in PEs |-> [ended[q] EXCEPT !.at = @ - 1]]
        ELSE UNCHANGED calls /\ host' = ended

Now(p) == calls[host[p].at + 1]

Return(p) ==
    /\ host[p].pc = "barrier" /\ Now(p).op # "free" /\ Met(p)
    /\ ptr' = [ptr EXCEPT ![p][Now(p).slot] = host[p].got]
    /\ Ended(p)
    /\ UNCHANGED <<script, heap>>

rocshmem_free(p) ==
    /\ host[p].pc = "barrier" /\ Now(p).op = "free" /\ Met(p)
    /\ heap' = [heap EXCEPT ![p] = IF ptr[p][Now(p).slot] = None THEN @
                                   ELSE Swept(mspace_free(@, ptr[p][Now(p).slot].mem))]
    /\ ptr' = [ptr EXCEPT ![p][Now(p).slot] = None]
    /\ Ended(p)
    /\ UNCHANGED script

Next == \E p \in PEs : Call(p) \/ Return(p) \/ rocshmem_free(p)
-----------------------------------------------------------------------------
(* Properties.                                                             *)
Objects(p) == ({ptr[p][s] : s \in Slots} \cup {host[p].got}) \ {None}
FreeChunks(m) == {c \in Chunks(m) : ~cinuse(m, c)}
Binned(m, c) == IF is_small(chunksize(m, c))
                THEN c \in ToSet(m.smallbins[small_index(chunksize(m, c))])
                ELSE c \in Members(m.treebins[compute_tree_index(chunksize(m, c))])

(* A node's subtrees hold the sizes that share its path of bits.           *)
RECURSIVE IsTrie(_, _, _)
IsTrie(m, t, b) ==
    t = Nil \/ /\ \A c \in ToSet(t.ring) : chunksize(m, c) = t.size
               /\ \A i \in {1, 2} : /\ \A c \in Members(t.child[i]) :
                                           Bit(chunksize(m, c), b) = i - 1
                                    /\ IsTrie(m, t.child[i], b - 1)

(* Chunks tile the heap and their flags and feet tell the truth about      *)
(* their neighbours; no two free chunks touch; a free chunk is the victim  *)
(* or in the bin of its size, once, and the maps mark the bins in use.     *)
ChunksAreConsistent(m) ==
    LET chunks == Chunks(m)
        first == align_as_chunk(m.base)
        End(c) == c + chunksize(m, c)
    IN  /\ ~m.aborted
        /\ m.top + m.topsize + TOP_FOOT_SIZE = m.base + m.footprint /\ m.topsize > 0
        /\ pinuse(m, m.top) /\ chunksize(m, m.top) = m.topsize
        /\ \A c \in chunks :
             /\ pinuse(m, c) <=> (c = first \/ \E d \in chunks : End(d) = c /\ cinuse(m, d))
             /\ ~cinuse(m, c) => /\ pinuse(m, c)
                                 /\ m.foot[End(c)] = chunksize(m, c)
                                 /\ (c = m.dv) # Binned(m, c)
        /\ m.dvsize = (IF m.dv = NULL THEN 0 ELSE chunksize(m, m.dv))
        /\ (m.dv = NULL) \/ (m.dv \in FreeChunks(m))
        /\ Cardinality(FreeChunks(m) \ {m.dv}) =
             FoldSet(LAMBDA i, n : n + Len(m.smallbins[i]), 0, SmallBins)
               + FoldSet(LAMBDA i, n : n + Cardinality(Members(m.treebins[i])), 0, TreeBins)
        /\ m.smallmap = {i \in SmallBins : m.smallbins[i] # <<>>}
        /\ m.treemap = {i \in TreeBins : m.treebins[i] # Nil}
        /\ \A i \in TreeBins : IsTrie(m, m.treebins[i], bit_for_tree_index(i))

(* The chunks in use are the space's own record and one for each object    *)
(* of the program, aligned and large enough; so objects never overlap and  *)
(* nothing leaks, and when the last one is freed all is top again.         *)
ObjectsHaveTheirChunks(p) ==
    LET m == heap[p]
        first == align_as_chunk(m.base)
        used == {c \in Chunks(m) : cinuse(m, c)} \ {first}
    IN  /\ used = {mem2chunk(o.mem) : o \in Objects(p)}
        /\ Cardinality(used) = Cardinality({s \in Slots : ptr[p][s] # None})
                                 + (IF host[p].got = None THEN 0 ELSE 1)
        /\ \A o \in Objects(p) :
             /\ o.mem % o.alignment = 0
             /\ o.bytes <= chunksize(m, mem2chunk(o.mem)) - CHUNK_OVERHEAD
        /\ used = {} => m.top = first + MallocStateSize /\ m.dv = NULL
        /\ mspace_used(m) = chunksize(m, first) + (first - m.base)
                              + Sum(m, used)

(* A request takes a free chunk if one fits, and a large one the smallest  *)
(* of them; otherwise it takes top, and fails only when top is too small.  *)
IsBestFit(m, nb, mem) ==
    LET c == mem2chunk(mem)
        fits == {chunksize(m, d) : d \in {e \in FreeChunks(m) : chunksize(m, e) >= nb}}
    IN  IF mem = NULL THEN fits = {} /\ m.topsize <= nb
        ELSE IF c = m.top THEN fits = {}
        ELSE c \in FreeChunks(m) /\ (~is_small(nb) => chunksize(m, c) = Min(fits))
BestFit(m, bytes) == IsBestFit(m, request2size(bytes), mspace_malloc(m, bytes).mem)

(* Whatever is allocated, aligned and freed in whatever order, the         *)
(* allocator's chunks, bins and tries stay consistent with each other and  *)
(* with the program's objects, and the best fit is found.                  *)
HeapIsSound ==
    \A p \in PEs : /\ ChunksAreConsistent(heap[p])
                   /\ ObjectsHaveTheirChunks(p)
                   /\ \A bytes \in Probes : BestFit(heap[p], bytes)

(* While a PE may use an object, from its return from the allocation until *)
(* its call of free, the object exists at the same offset on every PE.     *)
Holds(p, s) ==
    ptr[p][s] # None /\ ~(host[p].pc = "barrier" /\ Now(p).op = "free" /\ Now(p).slot = s)
ObjectsAreSymmetric ==
    \A p, q \in PEs : \A s \in Slots :
        Holds(p, s) => LET there == ptr[p][s].mem - Base[p] + Base[q]
                       IN  there \in {ptr[q][s].mem, host[q].got.mem}
=============================================================================
