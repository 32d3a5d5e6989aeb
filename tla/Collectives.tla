------------------------------ MODULE Collectives ------------------------------
(***************************************************************************)
(* The machine the collectives of both backends run on.  A collective is a *)
(* device function that every PE of a team executes: it puts data into the *)
(* buffers of other PEs, raises flags there, waits for flags of its own    *)
(* and combines what has arrived.  The modules that extend this one give,  *)
(* for every such function, the sequence of these steps PE p makes in it;  *)
(* this module says what a step does.                                      *)
(*                                                                         *)
(* A program is a sequence of phases separated by __syncthreads(), a phase *)
(* a sequence of threads, a thread a sequence of steps: thread 0 or all    *)
(* threads together, wavefronts, or single threads, as the code has it.    *)
(*                                                                         *)
(* An element is known by the call and the index of the source it comes    *)
(* from and by the ranks that have contributed to it.  Every call of a     *)
(* plan has its own source and destination; a source is ready before the   *)
(* first PE enters the call, which the collectives that get from it rely   *)
(* on, and is the program's again when the PE that owns it returns.        *)
(***************************************************************************)
EXTENDS Integers, Sequences, FiniteSets, SequencesExt

CONSTANTS
    PE_start, Stride, N,    \* the team
    Mapped,                 \* [PE -> PEs whose memory it stores to directly]
    Launcher,               \* limits of host/collective_launcher.hpp, in elements
    Plans                   \* sequences of calls a program may make

VARIABLES
    plan,       \* the calls every PE makes
    calls,      \* per PE: the calls it has entered
    todo,       \* per PE: what is left of the program of the current call
    sync,       \* per PE: the words of the team's pSync arrays and counters
    mem,        \* per PE: pWrk and the destinations
    flight      \* per PE: its posted operations, in order per queue pair

vars == <<plan, calls, todo, sync, mem, flight>>
-----------------------------------------------------------------------------
Ranks == 0..(N - 1)
get_pe_in_world(j) == PE_start + j * Stride
Members == {get_pe_in_world(j) : j \in Ranks}
Rank(p) == (p - PE_start) \div Stride
Team == [k \in 1..N |-> get_pe_in_world(k - 1)]
Others(p) == SelectSeq(Team, LAMBDA q : q # p)

Returned(p, c) == calls[p] > c \/ (calls[p] = c /\ todo[p] = <<>>)

(* The steps.  A place is a buffer and an index into it.                   *)
src(i) == <<"src", i>>
dst(i) == <<"dst", i>>
wrk(i) == <<"wrk", i>>
Put(q, to, from, n) ==
    [op |-> "put", pe |-> q, qp |-> 0, nic |-> FALSE,
     to |-> to, from |-> from, n |-> n]
Get(q, to, from, n) ==
    [op |-> "get", pe |-> q, qp |-> 0, nic |-> FALSE,
     to |-> to, from |-> from, n |-> n]
Pull(q, to, from, n) ==    \* reduces what it reads into its own element
    [op |-> "pull", pe |-> q, qp |-> 0, nic |-> FALSE,
     to |-> to, from |-> from, n |-> n]
Flag(q, array, i, v) ==
    [op |-> "flag", pe |-> q, qp |-> 0, nic |-> FALSE,
     word |-> <<array, i>>, v |-> v]
Add(q, array, i) ==
    [op |-> "add", pe |-> q, qp |-> 0, nic |-> FALSE,
     word |-> <<array, i>>, v |-> 1]
On(qp, step) == [step EXCEPT !.qp = qp]
ByNic(qp, step) == [step EXCEPT !.qp = qp, !.nic = TRUE]
Quiet(Q) == [op |-> "quiet", on |-> Q]
Wait(cmp, array, i, v) ==
    [op |-> "wait", cmp |-> cmp, word |-> <<array, i>>, v |-> v]
Set(array, i, v) == [op |-> "set", word |-> <<array, i>>, v |-> v]
Calc(to, from, n) == [op |-> "calc", to |-> to, from |-> from, n |-> n]
Copy(to, from, n) == [op |-> "copy", to |-> to, from |-> from, n |-> n]

(* Composition: s ; t is s \o t.                                           *)
Thread(steps) == << <<steps>> >>
Threads(K, F(_)) == << [k \in 1..K |-> F(k - 1)] >>
ForEach(s, F(_)) == FlattenSeq([k \in DOMAIN s |-> F(s[k])])
For(first, last, F(_)) ==
    FlattenSeq([k \in 1..(last - first + 1) |-> F(first + k - 1)])
When(c, s) == IF c THEN s ELSE <<>>
NonEmpty(program) ==
    SelectSeq(program, LAMBDA phase : \E k \in DOMAIN phase : phase[k] # <<>>)
-----------------------------------------------------------------------------
Nothing == [of |-> <<0, 0>>, from |-> {}]
Own(p, c, i) == [of |-> <<c, i>>, from |-> {Rank(p)}]

Word(p, w) == IF w \in DOMAIN sync[p] THEN sync[p][w] ELSE 0
SetWord(p, w, v) == [sync EXCEPT ![p] = [x \in {w} |-> v] @@ @]

(* What PE p holds in element i of a buffer of call c.                     *)
Element(p, c, place, i) ==
    IF place[1] = "src"
    THEN IF Returned(p, c) THEN Nothing ELSE Own(p, c, place[2] + i)
    ELSE LET l == <<place[1], IF place[1] = "dst" THEN c ELSE 0, place[2] + i>>
         IN  IF l \in DOMAIN mem[p] THEN mem[p][l] ELSE Nothing
SetElements(q, c, place, n, V(_)) ==
    [mem EXCEPT ![q] =
        [l \in {<<place[1], IF place[1] = "dst" THEN c ELSE 0, place[2] + i>> :
                i \in 0..(n - 1)} |-> V(l[3] - place[2])] @@ @]

(* The reduction of two elements.  Elements of different calls or indices, *)
(* and a contribution counted twice, make an element that is wrong.        *)
Reduce(a, b) ==
    IF a.of = b.of /\ a.from \cap b.from = {}
    THEN [a EXCEPT !.from = @ \cup b.from] ELSE Nothing

(* Effects.  A put reads its source when the operation is carried out.     *)
Apply(p, c, s) ==
    CASE s.op = "put" ->
            /\ mem' = SetElements(s.pe, c, s.to, s.n,
                                  LAMBDA i : Element(p, c, s.from, i))
            /\ UNCHANGED sync
      [] s.op = "get" ->
            /\ mem' = SetElements(p, c, s.to, s.n,
                                  LAMBDA i : Element(s.pe, c, s.from, i))
            /\ UNCHANGED sync
      [] s.op = "pull" ->
            /\ mem' = SetElements(p, c, s.to, s.n, LAMBDA i :
                        Reduce(Element(p, c, s.to, i),
                               Element(s.pe, c, s.from, i)))
            /\ UNCHANGED sync
      [] s.op = "flag" ->
            sync' = SetWord(s.pe, s.word, s.v) /\ UNCHANGED mem
      [] s.op = "add" ->
            /\ sync' = SetWord(s.pe, s.word, Word(s.pe, s.word) + s.v)
            /\ UNCHANGED mem

(* Thread t of PE p makes its next step, which must satisfy the guard.     *)
Advance(p, t) ==
    LET phase == [Head(todo[p]) EXCEPT ![t] = Tail(@)]
        rest == IF \A k \in DOMAIN phase : phase[k] = <<>>
                THEN Tail(todo[p]) ELSE <<phase>> \o Tail(todo[p])
    IN  todo' = [todo EXCEPT ![p] = rest] /\ UNCHANGED <<plan, calls>>
RemoteOps == {"put", "get", "pull", "flag", "add"}
At(p, t, ops) ==
    /\ todo[p] # <<>> /\ t \in DOMAIN Head(todo[p])
    /\ Head(todo[p])[t] # <<>> /\ Head(todo[p])[t][1].op \in ops
StepOf(p, t) == Head(todo[p])[t][1]
Holds(cmp, a, b) ==
    CASE cmp = "EQ" -> a = b [] cmp = "GE" -> a >= b [] cmp = "GT" -> a > b

(* A store to mapped memory is made at once (the fence of the code orders  *)
(* it before the next step); an operation for a NIC is posted to a queue   *)
(* pair, which carries its operations out in order.                        *)
ByStore(p, s) == s.pe \in Mapped[p] /\ ~s.nic
Direct(p, t) ==
    /\ At(p, t, RemoteOps)
    /\ ByStore(p, StepOf(p, t))
    /\ Apply(p, calls[p], StepOf(p, t)) /\ Advance(p, t) /\ UNCHANGED flight

Queue(p, s) == <<s.pe, s.qp>>
Post(p, t) ==
    /\ At(p, t, RemoteOps)
    /\ ~ByStore(p, StepOf(p, t))
    /\ flight' = [flight EXCEPT ![p] =
         Append(@, [step |-> StepOf(p, t), c |-> calls[p]])]
    /\ Advance(p, t) /\ UNCHANGED <<sync, mem>>

Deliver(p) ==
    \E k \in DOMAIN flight[p] :
        /\ \A j \in 1..(k - 1) :
             Queue(p, flight[p][j].step) # Queue(p, flight[p][k].step)
        /\ Apply(p, flight[p][k].c, flight[p][k].step)
        /\ flight' = [flight EXCEPT ![p] = RemoveAt(@, k)]
        /\ UNCHANGED <<plan, calls, todo>>

(* quiet waits for the completions of the queue pairs it is asked for.     *)
Quieten(p, t) ==
    /\ At(p, t, {"quiet"})
    /\ \A k \in DOMAIN flight[p] :
         Queue(p, flight[p][k].step) \notin StepOf(p, t).on
    /\ Advance(p, t) /\ UNCHANGED <<sync, mem, flight>>

wait_until(p, t) ==
    /\ At(p, t, {"wait"})
    /\ Holds(StepOf(p, t).cmp, Word(p, StepOf(p, t).word), StepOf(p, t).v)
    /\ Advance(p, t) /\ UNCHANGED <<sync, mem, flight>>

Local(p, t) ==
    /\ At(p, t, {"set", "calc", "copy"})
    /\ LET s == StepOf(p, t)
           c == calls[p]
       IN  IF s.op = "set"
           THEN sync' = SetWord(p, s.word, s.v) /\ UNCHANGED mem
           ELSE /\ mem' = SetElements(p, c, s.to, s.n, LAMBDA i :
                     LET e == Element(p, c, s.from, i)
                     IN  IF s.op = "copy" THEN e
                         ELSE Reduce(Element(p, c, s.to, i), e))
                /\ UNCHANGED sync
    /\ Advance(p, t) /\ UNCHANGED flight

Init ==
    /\ plan \in Plans
    /\ calls = [p \in Members |-> 0] /\ todo = [p \in Members |-> <<>>]
    /\ sync = [p \in Members |-> <<>>] /\ mem = [p \in Members |-> <<>>]
    /\ flight = [p \in Members |-> <<>>]

(* Most calls return at once for no elements.                              *)
NothingToDo(call) ==
    call.n = 0 /\ call.f \in
        {"reduce_wg", "reduce_wave", "reduce_scatter_wg", "reduce_scatter_wave",
         "broadcast_wg", "alltoall_wg", "alltoall_wave", "alltoallmem_wave",
         "fcollect_wg", "fcollect_wave", "fcollectmem_wg", "fcollectmem_wave"}
TileCollectives ==
    {"tile_reduce", "tile_reduce_wave", "tile_reduce_wg",
     "tile_allgather", "tile_allgather_wave", "tile_allgather_wg",
     "tile_broadcast", "tile_broadcast_wave", "tile_broadcast_wg"}

(* A collective on a stream.  From a size on the host launches a kernel of *)
(* several work-groups, each with a range of the elements and a duplicate  *)
(* of the team; the counts of an alltoallv are not known to the host.      *)
OnStream(call) == "stream" \in DOMAIN call
kUnknownWorkBytes == 1000000
compute_num_wgs(size) ==
    LET chunk_count == (size + Launcher.kBytesPerWg - 1) \div Launcher.kBytesPerWg
        max_teams == IF Launcher.max_num_teams > 1
                     THEN Launcher.max_num_teams - 1 ELSE 1
        wgs == {chunk_count, Launcher.max_num_wgs_on_stream, max_teams,
                Launcher.max_num_contexts}
        least == CHOOSE k \in wgs : \A j \in wgs : k <= j
    IN  IF least > 1 THEN least ELSE 1
use_single_wg(size) ==
    size < Launcher.kMultiBlockThreshold \/ compute_num_wgs(size) <= 1
split_wg_range(total, wg_id, wg_count) ==
    LET base == total \div wg_count
        remainder == total % wg_count
    IN  [offset |-> wg_id * base +
                    (IF wg_id < remainder THEN wg_id ELSE remainder),
         count |-> base + (IF wg_id < remainder THEN 1 ELSE 0)]

(* The words, the scratch and the queue pairs of team t begin TeamSpan     *)
(* behind those of team t - 1; team 0 is the caller's.                     *)
TeamSpan == 100
MovedTo(t, first, s) ==
    LET Place(l) == IF l[1] = "wrk" THEN wrk(l[2] + t * TeamSpan)
                    ELSE <<l[1], l[2] + first>>
        Numbered(x) == <<x[1], x[2] + t * TeamSpan>>
    IN  [k \in DOMAIN s |->
           CASE k \in {"to", "from"} -> Place(s[k])
             [] k = "word" -> Numbered(s.word)
             [] k = "qp" -> s.qp + t * TeamSpan
             [] k = "on" -> {Numbered(x) : x \in s.on}
             [] OTHER -> s[k]]

(* A work-group of such a kernel: it creates a context for its team and    *)
(* runs the program with buffers that start at element "first".  Its       *)
(* threads take turns here: next to it are the other work-groups.          *)
WorkGroup(t, first, program) ==
    LET steps == FlattenSeq(FlattenSeq(program))
    IN  [k \in DOMAIN steps |-> MovedTo(t, first, steps[k])]
Shifted(first, program) ==
    [ph \in DOMAIN program |-> [th \in DOMAIN program[ph] |->
        WorkGroup(0, first, << <<program[ph][th]>> >>)]]

(* The kernels.  An operator parameter is the device function, for a team, *)
(* a count or a count and a range of elements.                             *)
rocshmem_reduce_on_stream_multi_wg_kernel(n, wg_id, wg_count, reduce(_, _)) ==
    LET mine == split_wg_range(n, wg_id, wg_count)
        elems_per_chunk == Launcher.kChunkSize
        left(k) == mine.count - k * elems_per_chunk
        Chunk(k) ==
            WorkGroup(wg_id + 1, mine.offset + k * elems_per_chunk,
                      reduce(wg_id + 1, IF left(k) < elems_per_chunk THEN left(k)
                                        ELSE elems_per_chunk))
    IN  For(0, (mine.count + elems_per_chunk - 1) \div elems_per_chunk - 1, Chunk)
rocshmem_broadcastmem_multi_wg_kernel(n, wg_id, wg_count, broadcast(_)) ==
    LET mine == split_wg_range(n, wg_id, wg_count)
    IN  WorkGroup(wg_id + 1, mine.offset, broadcast(mine.count))
SlicedKernel(n, wg_id, wg_count, F(_, _, _)) ==
    LET mine == split_wg_range(n, wg_id, wg_count)
    IN  WorkGroup(wg_id + 1, 0, F(wg_id + 1, mine.offset, mine.count))
rocshmem_alltoall_multi_wg_kernel(n, wg_id, wg_count, alltoall(_, _, _)) ==
    SlicedKernel(n, wg_id, wg_count, alltoall)
rocshmem_reduce_scatter_on_stream_multi_wg_kernel(n, wg_id, wg_count,
                                                  scatter(_, _, _)) ==
    SlicedKernel(n, wg_id, wg_count, scatter)
rocshmem_fcollect_on_stream_multi_wg_kernel(n, wg_id, wg_count,
                                            fcollect(_, _, _)) ==
    SlicedKernel(n, wg_id, wg_count, fcollect)
rocshmem_alltoallv_on_stream_multi_wg_kernel(wg_id, wg_count, alltoallv(_, _, _)) ==
    WorkGroup(wg_id + 1, 0, alltoallv(wg_id + 1, wg_id, wg_count))

(* The host: the kernel of one work-group on the caller's team, or one of  *)
(* several, "multi", on the duplicates HostTeams makes.                    *)
Enqueue(size, single, multi) == IF use_single_wg(size) THEN single ELSE multi
INT_MAX == 2147483647
(* What the host passes to it: the size that decides, and whether there is *)
(* anything to launch.                                                     *)
alltoallmem_on_stream(call) == [size |-> call.n, launches |-> TRUE]
broadcastmem_on_stream(call) == [size |-> call.n, launches |-> TRUE]
reduce_on_stream(call) == [size |-> call.n, launches |-> call.n # 0]
reduce_scatter_on_stream(call) == [size |-> call.n, launches |-> call.n # 0]
fcollect_on_stream(call) ==
    [size |-> call.n, launches |-> call.n # 0 /\ call.n <= INT_MAX]
alltoallv_on_stream(call) == [size |-> kUnknownWorkBytes, launches |-> TRUE]
OnStreamArgs(call) ==
    CASE call.f = "alltoall_wg" -> alltoallmem_on_stream(call)
      [] call.f = "broadcast_wg" -> broadcastmem_on_stream(call)
      [] call.f = "reduce_wg" -> reduce_on_stream(call)
      [] call.f = "reduce_scatter_wg" -> reduce_scatter_on_stream(call)
      [] call.f = "fcollect_wg" -> fcollect_on_stream(call)
      [] call.f \in {"alltoallv", "alltoallv_copy", "alltoallv_get"} ->
            alltoallv_on_stream(call)
StreamProgram(call, single, multi) ==
    LET args == OnStreamArgs(call)
    IN  When(args.launches, Enqueue(args.size, single, multi))
num_wgs(call) == compute_num_wgs(OnStreamArgs(call).size)

(* The program of a call: a kernel of its own, or a kernel on a stream.    *)
Launched(call, single, multi) ==
    IF OnStream(call) THEN StreamProgram(call, single, multi) ELSE single

(* PE p enters its next call, whose program Program(p, call) gives.        *)
Enter(p, Program(_, _)) ==
    /\ todo[p] = <<>> /\ calls[p] < Len(plan)
    /\ calls' = [calls EXCEPT ![p] = @ + 1]
    /\ todo' = [todo EXCEPT ![p] = NonEmpty(Program(p, plan[calls[p] + 1]))]
    /\ UNCHANGED <<plan, sync, mem, flight>>

Run(p) ==
    \E t \in IF todo[p] = <<>> THEN {} ELSE DOMAIN Head(todo[p]) :
        Direct(p, t) \/ Post(p, t) \/ Quieten(p, t) \/ wait_until(p, t)
        \/ Local(p, t)
-----------------------------------------------------------------------------
(* The arguments of an alltoallv: the elements rank r sends to rank j and  *)
(* where they lie in its source and, for the elements rank r receives from *)
(* rank j, in its destination.  Blocks are packed one behind the other, or *)
(* start at the same slots on every PE ("slots").  In a "mixed" layout     *)
(* only rank 0 sees blocks of one size.                                    *)
source_nelems(call, r, j) ==
    CASE call.layout = "regular" -> call.n
      [] call.layout = "mixed" -> IF 0 \in {r, j} THEN call.n ELSE call.n - 1
      [] call.layout \in {"packed", "slots"} -> (r + 2 * j) % (call.n + 1)
dest_nelems(call, r, j) == source_nelems(call, j, r)
Displacement(call, j, Nelems(_)) ==
    IF call.layout = "slots" THEN j * call.n
    ELSE FoldFunction(+, 0, [k \in 0..(j - 1) |-> Nelems(k)])
source_displs(call, r, j) ==
    Displacement(call, j, LAMBDA k : source_nelems(call, r, k))
dest_displs(call, r, j) ==
    Displacement(call, j, LAMBDA k : dest_nelems(call, r, k))

(* What a PE tests to recognise an alltoall: its own blocks only.          *)
RegularLayout(call, r) ==
    \A j \in Ranks : /\ source_nelems(call, r, j) = source_nelems(call, r, 0)
                     /\ dest_nelems(call, r, j) = source_nelems(call, r, 0)
                     /\ source_displs(call, r, j) = j * source_nelems(call, r, 0)
                     /\ dest_displs(call, r, j) = j * source_nelems(call, r, 0)

(* What call c promises PE p: the elements of its destination.             *)
Full(c, i) == [of |-> <<c, i>>, from |-> Ranks]
Promise(p, c) ==
    LET call == plan[c]
        n == call.n
    IN  CASE call.f \in {"reduce_wg", "reduce_wave"} ->
                [i \in 0..(n - 1) |-> Full(c, i)]
          [] call.f \in {"tile_reduce", "tile_reduce_wave", "tile_reduce_wg"} ->
                [i \in IF Rank(p) = call.root THEN 0..(n - 1) ELSE {} |->
                    Full(c, i)]
          [] call.f \in {"reduce_scatter_wg", "reduce_scatter_wave"} ->
                [i \in 0..(n - 1) |-> Full(c, Rank(p) * n + i)]
          [] call.f \in {"broadcast_wg", "broadcast_wave", "broadcastmem_wg",
                         "broadcastmem_wave"} ->
                [i \in 0..(n - 1) |-> Own(get_pe_in_world(call.root), c, i)]
          [] call.f \in {"tile_broadcast", "tile_broadcast_wave",
                         "tile_broadcast_wg"} ->
                [i \in IF Rank(p) # call.root THEN 0..(n - 1) ELSE {} |->
                    Own(get_pe_in_world(call.root), c, i)]
          [] call.f \in {"alltoall_wg", "alltoallmem_wg", "alltoall_wave",
                         "alltoallmem_wave"} ->
                [i \in 0..(n * N - 1) |->
                    Own(get_pe_in_world(i \div n), c, Rank(p) * n + (i % n))]
          [] call.f \in {"alltoallv", "alltoallv_copy", "alltoallv_get"} ->
                LET r == Rank(p)
                    Block(j) == [i \in 0..(dest_nelems(call, r, j) - 1) |->
                        Own(get_pe_in_world(j), c, source_displs(call, j, r) + i)]
                IN  [i \in UNION {{dest_displs(call, r, j) + k :
                                  k \in DOMAIN Block(j)} : j \in Ranks} |->
                      LET j == CHOOSE j \in Ranks :
                                 i - dest_displs(call, r, j) \in DOMAIN Block(j)
                      IN  Block(j)[i - dest_displs(call, r, j)]]
          [] call.f \in {"fcollect_wg", "fcollect_wave", "fcollectmem_wg",
                         "fcollectmem_wave", "tile_allgather",
                         "tile_allgather_wave", "tile_allgather_wg"} ->
                [i \in 0..(n * N - 1) |->
                    Own(get_pe_in_world(i \div n), c, i % n)]
          [] OTHER -> <<>>

(* From the return of a call on, the destination holds what the call       *)
(* promises.                                                               *)
ResultsAreExact ==
    \A p \in Members : \A c \in 1..calls[p] : Returned(p, c) =>
        LET promised == Promise(p, c)
        IN  \A i \in DOMAIN promised : Element(p, c, dst(0), i) = promised[i]

(* Every PE returns from every call.  A call has finitely many steps, so   *)
(* it is enough that some step can be made as long as a PE is in a call.   *)
NobodyIsStuck ==
    (\E p \in Members : todo[p] # <<>>) =>
        \E p \in Members :
            \/ flight[p] # <<>>
            \/ todo[p] = <<>> /\ calls[p] < Len(plan)
            \/ todo[p] # <<>> /\ \E t \in DOMAIN Head(todo[p]) :
                 /\ Head(todo[p])[t] # <<>>
                 /\ LET s == StepOf(p, t)
                    IN  s.op = "wait" => Holds(s.cmp, Word(p, s.word), s.v)
=============================================================================
