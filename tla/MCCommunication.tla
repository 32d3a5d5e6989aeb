---------------------------- MODULE MCCommunication ----------------------------
(***************************************************************************)
(* What kernels communicate with: the collectives of the two backends on   *)
(* small teams (every function in one call, and pairs of calls that share  *)
(* the team's pSync and pWrk, in builds with and without USE_DAS), and     *)
(* puts, gets, fences, signals, waits and atomics between two PEs.  A      *)
(* behaviour uses one backend, build and set of PEs.                       *)
(***************************************************************************)
EXTENDS Integers, Sequences, TLC

VARIABLES use, plan, calls, todo, sync, mem, flight, ret

allvars == <<use, plan, calls, todo, sync, mem, flight, ret>>
-----------------------------------------------------------------------------
(* The collectives.  Sizes are scaled down: scratch for four elements,     *)
(* chunks of two, a direct allreduce up to two, a small alltoall of one.   *)
Call(f, n) == [f |-> f, n |-> n, root |-> 0]
CallV(f, n, layout) == [f |-> f, n |-> n, layout |-> layout]

Rooted == {"broadcast_wg", "broadcastmem_wg", "broadcast_wave",
           "broadcastmem_wave", "tile_reduce", "tile_reduce_wave",
           "tile_reduce_wg", "tile_broadcast", "tile_broadcast_wave",
           "tile_broadcast_wg"}
Unrooted == {"reduce_wave", "reduce_scatter_wg", "reduce_scatter_wave",
             "alltoall_wg", "alltoallmem_wg", "alltoall_wave",
             "alltoallmem_wave", "fcollect_wg", "fcollectmem_wg",
             "fcollect_wave", "fcollectmem_wave", "tile_allgather",
             "tile_allgather_wave", "tile_allgather_wg", "sync", "barrier_wave",
             "barrier_wg"}
Single(S) == {<<c>> : c \in S}
Pairs(S, Clash(_, _)) == {ab \in S \X S : ~Clash(ab[1], ab[2])}

(* Two uses of the words of alltoall_pSync do not go together: as flags    *)
(* that are counted up, and as the words of a barrier.  Of those of        *)
(* reduce_pSync, some functions leave values behind that others, which     *)
(* expect zeros, take for flags.                                           *)
ClashOn(Counts, Syncs, Leaves, Expects, a, b) ==
    \/ a \in Counts /\ b \in Syncs
    \/ a \in Syncs /\ b \in Counts
    \/ a \in Leaves /\ b \in Expects

Reductions == {Call("reduce_wg", 2), Call("reduce_wave", 4),
               Call("reduce_scatter_wave", 3), Call("tile_reduce", 3)}
OtherCalls == {Call("broadcast_wg", 2), Call("tile_allgather", 2)}

IpcClash(a, b) ==
    ClashOn({Call("alltoall_wg", 1), Call("alltoall_wave", 1)},
            {Call("alltoall_wg", 3), Call("fcollect_wg", 3),
             Call("reduce_wg", 6), CallV("alltoallv", 3, "slots")},
            {Call("reduce_scatter_wg", 3), Call("reduce_wg", 6)},
            Reductions, a, b)
IpcPairs ==
    Pairs(Reductions \cup OtherCalls \cup
          {Call("reduce_wg", 4), Call("reduce_wg", 6),
           Call("reduce_scatter_wg", 3), Call("alltoall_wg", 1),
           Call("alltoall_wg", 3), Call("alltoall_wave", 1),
           Call("fcollect_wg", 3), CallV("alltoallv", 3, "slots")}, IpcClash)

GdaClash(a, b) ==
    LET Counts == {Call("alltoallmem_wg", 1), Call("alltoall_wave", 1),
                   CallV("alltoallv_copy", 2, "packed"),
                   CallV("alltoallv_get", 2, "packed")}
        Scratch == Reductions \cup {Call("reduce_wg", 4),
                     Call("reduce_scatter_wg", 3),
                     CallV("alltoallv_copy", 2, "packed")}
    IN  \/ ClashOn(Counts, {Call("alltoall_wg", 3), Call("fcollect_wg", 3)},
                   {Call("reduce_wg", 4)},
                   Reductions \cup {Call("reduce_scatter_wg", 3)}, a, b)
        \/ a = CallV("alltoallv_copy", 2, "packed") /\ b \in Scratch
GdaPairs ==
    Pairs(Reductions \cup OtherCalls \cup
          {Call("reduce_wg", 4), Call("reduce_scatter_wg", 3),
           Call("alltoall_wg", 3), Call("alltoallmem_wg", 1),
           Call("alltoall_wave", 1), Call("fcollect_wg", 3),
           CallV("alltoallv_copy", 2, "packed"),
           CallV("alltoallv_get", 2, "packed")}, GdaClash)

(* Every function, every function again right after itself, and calls with *)
(* no elements.                                                            *)
Everything(n, root) ==
    {Call(f, n) : f \in Unrooted} \cup
    {[f |-> f, n |-> n, root |-> root] : f \in Rooted}
Empty == {<<Call(f, 0), Call("sync", 1)>> :
            f \in {"reduce_wg", "alltoall_wg", "fcollect_wg"}}
Repeated(n) == {<<c, c>> : c \in Everything(n, 0) \cup {Call("reduce_wg", 2),
                                                       Call("reduce_wg", 4)}}

(* Collectives on a stream: two work-groups from four elements on, a       *)
(* reduction in chunks of two, and one work-group below that.              *)
Limits == [kMultiBlockThreshold |-> 4, kBytesPerWg |-> 2, kChunkSize |-> 2,
           max_num_wgs_on_stream |-> 2, max_num_teams |-> 4,
           max_num_contexts |-> 3]
Stream(c) == [stream |-> TRUE] @@ c
StreamCalls(n) ==
    {Stream(Call(f, n)) : f \in {"reduce_wg", "broadcast_wg", "alltoall_wg",
                                 "reduce_scatter_wg", "fcollect_wg"}}
StreamRepeated(V) == {<<c, c>> : c \in StreamCalls(5) \cup V}
                     \cup {<<Stream(Call("reduce_wg", 0)), Stream(Call("reduce_wg", 2))>>}

(* A node of the IPC backend; n PEs, ring, chain and chunks as above.      *)
Ipc(das, n, plans) == INSTANCE IPCCollectives WITH
    PE_start <- 0, Stride <- 1, N <- n, num_pes <- n, Plans <- plans,
    Launcher <- Limits, Mapped <- [p \in 0..(n - 1) |-> 0..(n - 1)], USE_DAS <- das,
    BlockSize <- 4, WfSize <- 2, AtomicBarrier <- 64, WrkSize <- 4,
    SyncSize <- 256, DirectMax <- 2, ScatterMin <- 3, SmallMax <- 2,
    BcastDirectMax <- 2, ChunkElems <- 2

(* Nodes of shm PEs each, which map each other's memory if there are more  *)
(* than one; nq queue pairs for each PE.                                   *)
Nodes(n, shm) == [p \in 0..(n - 1) |->
                    {q \in 0..(n - 1) : shm > 1 /\ q \div shm = p \div shm}]
Gda(das, n, shm, nq, mapped, plans) == INSTANCE GDACollectives WITH
    PE_start <- 0, Stride <- 1, N <- n, num_pes <- n, Plans <- plans,
    Launcher <- Limits,
    Mapped <- mapped,
    USE_DAS <- das, ipc_shm_size <- shm, num_qps_per_pe <- nq, WfCount <- 2,
    FirstWave <- TRUE, AtomicBarrier <- 64, WrkSize <- 4, SyncSize <- 256,
    DirectMax <- 2, HierarchicalMin <- 4, ProxyElems <- 2, HybridMin <- 2,
    ChunkElems <- 2

ASSUME Ipc(TRUE, 2, {})!IPCAssumption /\ Ipc(TRUE, 3, {})!IPCAssumption
ASSUME /\ Gda(TRUE, 2, 1, 1, Nodes(2, 1), {})!GDAAssumption
       /\ Gda(TRUE, 4, 2, 2, Nodes(4, 2), {})!GDAAssumption

TeamPlans == Single(Everything(3, 1) \cup {Call("reduce_wg", n) : n \in {1, 3, 9}}
                    \cup {CallV("alltoallv", 3, "slots")})
NodePlans == Single({Call("reduce_wg", 4), Call("reduce_scatter_wg", 3),
                     Call("fcollect_wg", 4), Call("broadcast_wg", 1),
                     [f |-> "broadcast_wg", n |-> 4, root |-> 3],
                     [f |-> "broadcast_wave", n |-> 2, root |-> 3]})

-----------------------------------------------------------------------------
(* Point to point: PE 0 sends to PE 1, which waits; both use atomics on a  *)
(* word of PE 1.  The two wavefronts of a work-group have a lane each.     *)
C(f, by) ==
    [f |-> f, by |-> by, pe |-> 1, n |-> 5, team |-> FALSE, to |-> "dst",
     op |-> "set", word |-> 0, v |-> 1, cond |-> 0, cmp |-> "EQ",
     status |-> <<>>, vals |-> <<1, 1>>, qp |-> 0, then |-> {}, gives |-> {},
     team_pes |-> {0, 1}, root |-> 0, start |-> 0, log_stride |-> 0,
     size |-> 2, active_set |-> FALSE]
Forms == {"thread", "wave", "wg"}
Sync(by) == IF by = "wg" THEN <<C("syncthreads", "wg")>> ELSE <<>>
Arrived(to, n) == {<<1, <<to, i>>, i + 1>> : i \in 0..(n - 1)}
Fetched == {<<0, <<"dst", i>>, i + 6>> : i \in 0..4}
Flags == {[C("p", "thread") EXCEPT !.to = "word"], C("atomic", "thread"),
          [C("atomic", "thread") EXCEPT !.op = "add"]}
Orders == {"fence", "fence_pe", "quiet", "pe_quiet"}
Plan(send, receive) == (0 :> send) @@ (1 :> receive)
Reuse == [C("source", "thread") EXCEPT !.v = 9]
Receive(n) == <<[C("wait_until", "thread") EXCEPT !.then = Arrived("dst", n)]>>

Puts ==     \* put, order, flag
    {Plan(<<C("put", by)>> \o Sync(by) \o <<Reuse, C(order, by)>> \o Sync(by)
          \o <<flag>>, Receive(5)) :
        by \in Forms, order \in Orders, flag \in Flags} \cup
    {Plan(<<C("put_nbi", by), C(order, by)>> \o Sync(by) \o <<flag>>,
          Receive(5)) :
        by \in Forms, order \in Orders, flag \in Flags}
InTeam(c) == [c EXCEPT !.pe = 0, !.team = TRUE]
TeamPuts ==
    {Plan(<<InTeam(C("put_nbi", "thread")), InTeam(C(order, "thread")),
            InTeam([C("p", "thread") EXCEPT !.to = "word"])>>, Receive(5)) :
        order \in {"fence_pe", "pe_quiet"}}
Gets ==
    {Plan(<<[C("get", by) EXCEPT !.then = IF by = "wg" THEN {} ELSE Fetched]>>
          \o IF by = "wg"
             THEN <<[C("syncthreads", "wg") EXCEPT !.then = Fetched]>>
             ELSE <<>>, <<>>) : by \in Forms} \cup
    {Plan(<<C("get_nbi", by),
            [C(order, by) EXCEPT !.then = IF by = "wg" THEN {} ELSE Fetched]>>
          \o IF by = "wg"
             THEN <<[C("syncthreads", "wg") EXCEPT !.then = Fetched]>>
             ELSE <<>>, <<>>) : by \in Forms, order \in {"quiet", "pe_quiet"}}
SignalFetch(by) == [C("signal_fetch", by) EXCEPT !.gives = {1}]
Signals(n, forms) ==
    {Plan(<<[C("put_signal", by) EXCEPT !.n = n, !.op = op]>>,
          Receive(n) \o Sync("wg") \o <<SignalFetch(by)>>) :
        by \in forms, op \in {"set", "add"}}
TwoSignals(wait) ==
    Plan(<<[C("put_signal", "thread") EXCEPT !.n = 1],
           [C("put_signal", "thread") EXCEPT !.n = 1, !.to = "dst2",
                                             !.word = 1]>>,
         <<wait>>)
Waits ==
    {TwoSignals([C("wait_until_all", "thread") EXCEPT !.n = 2,
        !.then = Arrived("dst", 1) \cup Arrived("dst2", 1)]),
     TwoSignals([C("wait_until_all", "thread") EXCEPT !.n = 2,
        !.status = <<1, 0>>, !.then = Arrived("dst2", 1)]),
     TwoSignals([C("wait_until_any", "thread") EXCEPT !.n = 2,
        !.status = <<1, 0>>, !.gives = {1}, !.then = Arrived("dst2", 1)]),
     TwoSignals([C("wait_until_any", "thread") EXCEPT !.n = 2,
        !.gives = {0, 1}]),
     TwoSignals([C("wait_until_some", "thread") EXCEPT !.n = 2,
        !.gives = {{0}, {1}, {0, 1}}]),
     TwoSignals([C("wait_until_any", "thread") EXCEPT !.n = 0,
        !.gives = {"SIZE_MAX"}]),
     TwoSignals([C("wait_until_some", "thread") EXCEPT !.n = 0,
        !.gives = {{}}])}
Amo(op, v) == [C("atomic", "thread") EXCEPT !.op = op, !.v = v]
Cas(v, cond) ==
    [C("atomic", "thread") EXCEPT !.op = "fetch_cas", !.v = v, !.cond = cond]
Amos == {Amo("add", 2), Amo("inc", 0), Amo("set", 5), Amo("swap", 3),
         Amo("or", 6), Amo("fetch_or", 1), Amo("and", 5), Amo("fetch_and", 3),
         Amo("xor", 3), Amo("fetch_xor", 6), Amo("fetch_add", 1),
         Amo("fetch_inc", 0), Amo("fetch", 0), Cas(4, 0), Cas(2, 5)}
Atomics == {Plan(<<a, Amo("swap", 1)>>, <<b>>) : a \in Amos,
              b \in {Amo("add", 2), Amo("fetch_or", 1), Cas(4, 0)}}
Shared == Puts \cup TeamPuts \cup Gets \cup Waits \cup Atomics
Pointer(p) == {Plan(<<[C("ptr", "thread") EXCEPT !.gives = {p}]>>, <<>>)}
Direct == {Plan(<<[C("put_nbi_wave_dp", "wave") EXCEPT !.qp = 1],
                  [C("atomic_add_dp", "wave") EXCEPT !.qp = 1, !.op = "add"],
                  [C("qp_quiet", "wave") EXCEPT !.qp = 1,
                     !.then = Arrived("dst", 5)]>>,
                Receive(5))}
Got == {Plan(<<[C("g", "thread") EXCEPT !.gives = {6}]>>, <<>>)}

(* In the form "mpi" the host has a window, and a lane for each of two     *)
(* operations.  In the form "tile" two wavefronts of two lanes are up to   *)
(* four workers.                                                           *)
P2p(backend, mapped, nq, form, plans) == INSTANCE PointToPoint WITH
    Backend <- backend, num_pes <- 2, num_qps_per_pe <- nq, Wfs <- 2,
    WfSize <- IF form = "tile" THEN 2 ELSE 1, Rounds <- {1, 2},
    SourceSize <- IF form = "tile" THEN 18 ELSE 5, kMinSlice <- 1,
    Mapped <- mapped, stores <- sync,
    pe_start <- 1, stride <- 1, HostLanes <- IF form = "tile" THEN 0 ELSE 2,
    WindowMPI <- form = "mpi", Plans <- plans

T(put, ds, ss, start, end) ==
    [put |-> put, ndim |-> Len(ds), dst_strides |-> ds, src_strides |-> ss,
     start_coord |-> start, boundary |-> end]
Planes == {<<3, 1>>, <<4, 1>>, <<1, 3>>, <<6, 2>>}
TileShapes ==
    {T(put, ds, ss, start, <<2, 3>>) : put \in BOOLEAN, ds, ss \in Planes,
        start \in {<<0, 0>>, <<0, 1>>, <<1, 0>>}} \cup
    {T(put, <<3, 1>>, <<3, 1>>, <<0, 0>>, <<5, 2>>) : put \in BOOLEAN} \cup
    {T(put, ds, ss, start, <<5>>) : put \in BOOLEAN, ds, ss \in {<<1>>, <<2>>},
        start \in {<<0>>, <<1>>}}
TileAt(t, i) == \E x \in P2p("GDA", {}, 1, "tile", {})!Promised(t) : x[1] = i
TileFrom(t, i) ==
    (CHOOSE x \in P2p("GDA", {}, 1, "tile", {})!Promised(t) : x[1] = i)[2]
TileArrived(t) ==       \* every element of it, and nothing beside it
    {<<IF t.put THEN 1 ELSE 0, <<"dst", i>>,
       IF ~TileAt(t, i) THEN 0
       ELSE TileFrom(t, i) + (IF t.put THEN 1 ELSE 19)>> : i \in 0..24}
TileCall(by, t) == [tile |-> t] @@ C("tile", by)
TileOf(by, t) ==
    Plan(<<[TileCall(by, t) EXCEPT !.then = TileArrived(t)]>>, <<>>)
(* A work-group's copies to mapped memory have arrived once each of its    *)
(* wavefronts has fenced.                                                  *)
TileThenFence(t) ==
    Plan(<<TileCall("wg", t), C("fence", "wg"),
           [C("syncthreads", "wg") EXCEPT !.then = TileArrived(t)]>>, <<>>)
TilePlans == {TileOf(by, t) : by \in Forms, t \in TileShapes}
TileMappedPlans ==
    {TileOf(by, t) : by \in {"thread", "wave"}, t \in TileShapes} \cup
    {TileThenFence(t) : t \in {u \in TileShapes : u.put}} \cup
    {TileOf("wg", t) : t \in {u \in TileShapes : ~u.put}}

IpcPlans == Shared \cup Signals(5, {"thread", "wave"}) \cup Signals(1, {"wg"})
            \cup Got \cup Pointer("mapped")
GdaPlans == Shared \cup Signals(5, Forms) \cup Direct \cup Pointer("null")
(* Barriers and collectives of the reverse-offload backend.                *)
Both(c) == Plan(<<c>>, <<c>>)
Element(p, i) == 5 * p + i + 1
Filled(p, n, v(_)) == {<<p, <<"dst", i>>, v(i)>> : i \in 0..(n - 1)}
Reduced(p, n, first) ==
    Filled(p, n, LAMBDA i : Element(0, first + i) + Element(1, first + i))
Then(c, S) == [c EXCEPT !.then = S]
Of(f, by, n) == [C(f, by) EXCEPT !.n = n]
Nbi(barrier) ==
    {Plan(<<C("put_nbi", "thread"), barrier>>, <<Then(barrier, Arrived("dst", 5))>>),
     Plan(<<C("get_nbi", "thread"), Then(barrier, Fetched)>>, <<barrier>>)}
ROCollectives ==
    {Plan(<<Then(Of("reduce", "wg", 5), Reduced(0, 5, 0))>>,
          <<Then(Of("reduce", "wg", 5), Reduced(1, 5, 0))>>),
     Plan(<<Then(Of("reduce_scatter", "wg", 2), Reduced(0, 2, 0))>>,
          <<Then(Of("reduce_scatter", "wg", 2), Reduced(1, 2, 2))>>),
     Plan(<<Of("alltoall", "wg", 2), Then(C("sync", "wg"), Filled(0, 4,
              LAMBDA i : Element(i \div 2, i % 2)))>>,
          <<Of("alltoall", "wg", 2), Then(C("sync", "wg"), Filled(1, 4,
              LAMBDA i : Element(i \div 2, 2 + (i % 2))))>>),
     Plan(<<Of("fcollect", "wg", 2), Then(C("barrier", "wg"), Filled(0, 4,
              LAMBDA i : Element(i \div 2, i % 2)))>>,
          <<Of("fcollect", "wg", 2), Then(C("barrier", "wg"), Filled(1, 4,
              LAMBDA i : Element(i \div 2, i % 2)))>>),
     Plan(<<Reuse, C("barrier", "wg"), C("broadcast", "wg")>>,
          <<C("barrier", "wg"),
            Then(C("broadcast", "wg"), Filled(1, 5, LAMBDA i : 9))>>),
     Both([C("reduce", "wave") EXCEPT !.gives = {"ROCSHMEM_ERROR"}])}
ROPlans == Shared \cup Signals(5, Forms) \cup Got \cup Pointer("null")
           \cup ROCollectives \cup Nbi(C("barrier", "thread"))
RONodePlans == Gets \cup Signals(5, {"thread", "wave"}) \cup Signals(1, {"wg"})
               \cup Got \cup Pointer("mapped") \cup Nbi(C("barrier", "wave"))

(* The host: puts that are ordered before a flag, and collectives.         *)
H(f) == C(f, "host")
HostReceive == <<Then(H("wait_until"), Arrived("dst", 5))>>
HostFlags == {[H("p") EXCEPT !.to = "word"], [H("atomic") EXCEPT !.op = "add"]}
HostReuse == [H("source") EXCEPT !.v = 9]
HostAmo(op, v) == [H("atomic") EXCEPT !.op = op, !.v = v]
HostAmos == {HostAmo("fetch_add", 2), HostAmo("add", 1), HostAmo("inc", 0),
             HostAmo("fetch_inc", 0), HostAmo("fetch", 0),
             HostAmo("fetch_cas", 4)}
HostAtomics(S) == {Plan(<<a, HostAmo("fetch_add", 3)>>, <<b>>) : a, b \in S}
HostWaits ==
    {Plan(<<HostAmo("add", 1), [HostAmo("add", 1) EXCEPT !.word = 1], H("quiet")>>,
          <<w>>) :
        w \in {[Of(f, "host", 2) EXCEPT !.gives = {0, 1}] :
                 f \in {"wait_until_any", "wait_until_any_vector"}} \cup
              {[Of(f, "host", 2) EXCEPT !.gives = {{0}, {1}, {0, 1}}] :
                 f \in {"wait_until_some", "wait_until_some_vector"}} \cup
              {[Of(f, "host", 2) EXCEPT !.status = s,
                  !.then = {<<1, <<"word", i>>, 1>> : i \in is}] :
                 f \in {"wait_until_all", "wait_until_all_vector"},
                 s \in {<<>>}, is \in {0..1}} \cup
              {[Of("wait_until_any", "host", 2) EXCEPT !.status = <<1, 0>>,
                  !.gives = {1}],
               [Of("wait_until_any", "host", 0) EXCEPT !.gives = {"SIZE_MAX"}]}}
HostBarriers(put) ==
    {Plan(<<put, b>>, <<Then(b, Arrived("dst", 5))>>) :
        b \in {H("barrier_all"), H("barrier")}}
HostCollective(f, active) == [Of(f, "host", 2) EXCEPT !.active_set = active]
HostCollectives ==
    {Plan(<<Then(c, Reduced(0, 2, 0))>>, <<Then(c, Reduced(1, 2, 0))>>) :
        c \in {HostCollective("to_all", TRUE), HostCollective("reduce", FALSE)}}
    \cup
    {LET c == HostCollective("reduce_scatter", FALSE)
     IN  Plan(<<Then(c, Reduced(0, 2, 0))>>, <<Then(c, Reduced(1, 2, 2))>>)}
    \cup
    {LET c == HostCollective("broadcast", active)
     IN  Plan(<<HostReuse, c>>, <<Then(c, Filled(1, 2, LAMBDA i : 9))>>) :
        active \in BOOLEAN}
HostMpiPlans ==
    {Plan(<<put, order, flag>>, HostReceive) :
        put \in {H("putmem"), H("put"), H("putmem_nbi"), H("put_nbi")},
        order \in {H("fence"), H("quiet")}, flag \in HostFlags} \cup
    {Plan(<<H("put"), HostReuse, H("barrier_all")>>,
          <<Then(H("barrier_all"), Arrived("dst", 5))>>),
     Plan(<<Then(H("getmem"), Fetched)>>, <<>>),
     Plan(<<Then(H("get"), Fetched)>>, <<>>),
     Plan(<<H("get_nbi"), Then(H("quiet"), Fetched)>>, <<>>),
     Plan(<<H("getmem_nbi"), Then(H("barrier_all"), Fetched)>>,
          <<H("barrier_all")>>),
     Plan(<<HostReuse, H("sync_all"), H("sync")>>,
          <<H("sync_all"), [H("g") EXCEPT !.pe = 0, !.gives = {9}], H("sync")>>),
     Both(Of("putmem", "host", 0))}
    \cup HostBarriers(H("putmem_nbi")) \cup HostAtomics(HostAmos)
    \cup HostWaits \cup HostCollectives
HostRoPlans ==
    {Plan(<<H("put"), H("fence"), HostAmo("add", 1)>>, HostReceive),
     Plan(<<Then(H("get"), Fetched)>>, <<>>)}
    \cup HostBarriers(H("putmem_nbi"))
    \cup HostAtomics({HostAmo("fetch_inc", 0), HostAmo("fetch_cas", 4)})
    \cup {LET c == HostCollective("broadcast", active)
          IN  Plan(<<HostReuse, c>>, <<Then(c, Filled(1, 2, LAMBDA i : 9))>>) :
            active \in BOOLEAN}
HostIpcPlans ==
    {Plan(<<Then(H("putmem"), Arrived("dst", 5)), order, HostAmo("add", 1),
            H("quiet"), H("barrier_all")>>, HostReceive \o <<H("barrier_all")>>) :
        order \in {H("fence"), H("quiet")}} \cup
    {Plan(<<Then(H("getmem"), Fetched)>>, <<>>)}
    \cup HostBarriers(H("putmem")) \cup HostAtomics(HostAmos) \cup HostWaits

(* Kernels that the host launches on a stream.                             *)
St(f) == C(f, "stream")
StreamPlans(n) ==
    {Plan(<<St("putmem"), St(b), H("stream_synchronize"), HostReuse>>,
          <<St(b), Then(H("stream_synchronize"), Arrived("dst", 5))>>) :
        b \in {"barrier"}} \cup
    {Plan(<<St("putmem"), St("quiet"), St("sync")>>,
          <<Then(St("sync"), Arrived("dst", 5))>>),
     Plan(<<St("getmem"), Then(H("stream_synchronize"), Fetched)>>, <<>>)} \cup
    {Plan(<<[Of("put_signal", "stream", n) EXCEPT !.op = op]>>,
          <<Then(St("wait_until"), Arrived("dst", n)),
            Then(H("stream_synchronize"), Arrived("dst", n))>>) :
        op \in {"set", "add"}}

GdaNodePlans == Shared \cup Signals(5, {"thread"}) \cup Signals(1, Forms)
                \cup Got \cup Pointer("mapped")

(* USE_DAS and PEs; for GDA also PEs of a node and queue pairs for each    *)
(* PE; point to point, the backend, whether PEs share a node, queue pairs  *)
(* and the form.                                                           *)
IpcBuild == [ipc |-> <<TRUE, 2>>, ipc_stream |-> <<TRUE, 2>>, ipc_team |-> <<TRUE, 3>>,
             ipc_plain |-> <<FALSE, 2>>]
GdaBuild == [gda |-> <<TRUE, 2, 1, 1, Nodes(2, 1)>>,
             gda_stream |-> <<TRUE, 2, 1, 1, Nodes(2, 1)>>,
             gda_nodes |-> <<TRUE, 4, 2, 2, Nodes(4, 2)>>,
             gda_plain |-> <<FALSE, 2, 1, 1, Nodes(2, 1)>>]
Node == [p \in 0..1 |-> 0..1]
Apart == [p \in 0..1 |-> {}]
P2pBuild ==
    [p2p_ipc |-> <<"IPC", Node, 1, "kernel">>, p2p_gda |-> <<"GDA", Apart, 2, "kernel">>,
     p2p_gda_one_qp |-> <<"GDA", Apart, 1, "kernel">>,
     p2p_gda_node |-> <<"GDA", Node, 1, "kernel">>,
     p2p_ro |-> <<"RO", Apart, 1, "kernel">>, p2p_ro_node |-> <<"RO", Node, 1, "kernel">>,
     host_mpi |-> <<"GDA", Apart, 2, "mpi">>, host_ro |-> <<"RO", Apart, 2, "mpi">>,
     host_ipc |-> <<"IPC", Node, 1, "kernel">>, stream_ipc |-> <<"IPC", Node, 1, "kernel">>,
     stream_gda |-> <<"GDA", Apart, 1, "kernel">>,
     stream_gda_node |-> <<"GDA", Node, 1, "kernel">>,
     stream_ro |-> <<"RO", Apart, 1, "kernel">>, tile_ipc |-> <<"IPC", Node, 1, "tile">>,
     tile_gda |-> <<"GDA", Apart, 2, "tile">>, tile_gda_node |-> <<"GDA", Node, 1, "tile">>]

IpcCalls ==
    [ipc |-> IpcPairs, ipc_team |-> TeamPlans, ipc_plain |-> Repeated(3) \cup Empty,
     ipc_stream |-> StreamRepeated(
       {Stream(CallV("alltoallv", 3, l)) : l \in {"slots", "regular"}})]
GdaCalls ==
    [gda |-> GdaPairs, gda_nodes |-> NodePlans, gda_plain |-> Repeated(2) \cup Empty,
     gda_stream |-> Single(StreamCalls(4) \cup
                           {Stream(CallV("alltoallv_copy", 1, "packed"))})]
P2pCalls ==
    [p2p_ipc |-> IpcPlans, p2p_gda |-> GdaPlans, p2p_gda_one_qp |-> Puts,
     p2p_gda_node |-> GdaNodePlans, p2p_ro |-> ROPlans, p2p_ro_node |-> RONodePlans,
     host_mpi |-> HostMpiPlans, host_ro |-> HostRoPlans,
     host_ipc |-> HostIpcPlans, stream_ipc |-> StreamPlans(5),
     stream_gda |-> StreamPlans(5), stream_gda_node |-> StreamPlans(1),
     stream_ro |-> StreamPlans(5), tile_ipc |-> TileMappedPlans, tile_gda |-> TilePlans,
     tile_gda_node |-> TileMappedPlans]

OnIpc == use \in DOMAIN IpcBuild
OnGda == use \in DOMAIN GdaBuild
OnP2p == use \in DOMAIN P2pBuild

MCInit ==
    \/ /\ use \in DOMAIN IpcBuild /\ ret = <<>>
       /\ \E b \in {IpcBuild[use]}, P \in {IpcCalls[use]} : Ipc(b[1], b[2], P)!Init
    \/ /\ use \in DOMAIN GdaBuild /\ ret = <<>>
       /\ \E b \in {GdaBuild[use]}, P \in {GdaCalls[use]} :
            Gda(b[1], b[2], b[3], b[4], b[5], P)!Init
    \/ /\ use \in DOMAIN P2pBuild
       /\ \E b \in {P2pBuild[use]}, P \in {P2pCalls[use]} :
            P2p(b[1], b[2], b[3], b[4], P)!Init
MCNext ==
    /\ \/ /\ OnIpc /\ UNCHANGED ret
          /\ \E b \in {IpcBuild[use]} : Ipc(b[1], b[2], {})!Next
       \/ /\ OnGda /\ UNCHANGED ret
          /\ \E b \in {GdaBuild[use]} : Gda(b[1], b[2], b[3], b[4], b[5], {})!Next
       \/ OnP2p /\ \E b \in {P2pBuild[use]} : P2p(b[1], b[2], b[3], b[4], {})!Next
    /\ UNCHANGED use
MCSpec == MCInit /\ [][MCNext]_allvars
-----------------------------------------------------------------------------
(* When a PE returns from a reduction, broadcast, gather or all-to-all its *)
(* destination holds exactly the elements the call promises, and still     *)
(* does while other PEs are in this call and it is in the next one on the  *)
(* same pSync words and scratch.                                           *)
ResultsAreExact ==
    /\ OnIpc => \A b \in {IpcBuild[use]} : Ipc(b[1], b[2], {})!ResultsAreExact
    /\ OnGda => \A b \in {GdaBuild[use]} : Gda(b[1], b[2], b[3], b[4], b[5], {})!ResultsAreExact

(* Every PE returns from every call: as long as one is in a call, some PE  *)
(* can make its next step or some posted operation is carried out.         *)
NobodyIsStuck ==
    /\ OnIpc => \A b \in {IpcBuild[use]} : Ipc(b[1], b[2], {})!NobodyIsStuck
    /\ OnGda => \A b \in {GdaBuild[use]} : Gda(b[1], b[2], b[3], b[4], b[5], {})!NobodyIsStuck
    /\ OnP2p => P2p("GDA", {}, 1, "kernel", {})!NobodyIsStuck

(* What returns imply: the data of a put is there when the receiver sees   *)
(* the flag, word or signal that followed it (through a fence, a fence or  *)
(* quiet of the PE, a quiet, or as put_signal), never mixed with what was  *)
(* stored to the source after a blocking put; what a get returned is there *)
(* when it, or the quiet after it, returns; a wait for several words       *)
(* returns words whose data has arrived.                                   *)
CompletionHolds == OnP2p => P2p("GDA", {}, 1, "kernel", {})!CompletionHolds

(* Atomics of two PEs on one word, carried out by the GPU, by an adapter,  *)
(* or as a loop of compare-and-swaps through one, took effect one after    *)
(* the other: every result and the final value fit one order of them.      *)
AtomicsAreExact == OnP2p => P2p("GDA", {}, 1, "kernel", {})!AtomicsAreExact
=============================================================================
