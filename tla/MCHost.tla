------------------------------- MODULE MCHost -------------------------------
(***************************************************************************)
(* What the host does before, between and after the kernels: the TCP       *)
(* bootstrap, the set-up of a backend, registration of buffers, teams, and *)
(* the allocator of the symmetric heap.  A behaviour uses one of them, in  *)
(* one of its forms, and leaves the variables of the others empty.         *)
(***************************************************************************)
EXTENDS Integers, Sequences, FiniteSets

VARIABLES
    use,
    plan, todo, listening, backlog, stream, sock, buf, begun, out, dead,
    program, pe, said, heard, store, lanes

bootvars == <<plan, todo, listening, backlog, stream, sock, buf, begun, out, dead>>
pevars == <<program, pe, said, heard, store, lanes>>

NoBoot ==
    /\ plan = <<>> /\ todo = <<>> /\ listening = <<>> /\ backlog = <<>>
    /\ stream = <<>> /\ sock = <<>> /\ buf = <<>> /\ begun = <<>>
    /\ out = <<>> /\ dead = <<>>
NoPEs ==
    /\ program = <<>> /\ pe = <<>> /\ said = <<>> /\ heard = <<>>
    /\ store = <<>> /\ lanes = <<>>
-----------------------------------------------------------------------------
(* Bootstrap: three ranks on two hosts, the last one alone on its host.    *)
Interface(name, addr) == [name |-> name, family |-> "inet", addr |-> addr]
Interfaces == [h \in {"a", "b"} |->
    <<Interface("lo", 1), Interface("docker", 2),
      Interface("eth", IF h = "a" THEN 3 ELSE 4)>>]

Boot(absent, timeouts) == INSTANCE Bootstrap WITH
    N <- 3, Absent <- absent, Timeouts <- timeouts, Ifs <- Interfaces,
    Hosts <- [r \in 0 .. 2 |-> IF r = 2 THEN "b" ELSE "a"],
    Pods <- [r \in 0 .. 2 |-> 1], NoPod <- 0

Group(f, ranks) == [f |-> f, ranks |-> ranks, size |-> 1]
OfGroups == {"groupAllGather", "groupAllGatherStrided", "groupAlltoall", "groupBarrier"}
BootCalls ==
    {Group(f, <<0, 1, 2>>) :
       f \in OfGroups \cup {"allGather", "barrier", "getIpcCapableRanks"}}
    \cup {Group(f, g) : f \in OfGroups, g \in {<<0, 2>>, <<1, 2>>}}

Boots == {"boot", "boot_timeouts", "boot_absent"}
BootInit ==
    /\ \/ use = "boot" /\ \E c \in BootCalls : Boot({}, FALSE)!Init(<<c>>)
       \/ use = "boot_timeouts" /\ Boot({}, TRUE)!Init(<<>>)
       \/ use = "boot_absent" /\ Boot({1}, TRUE)!Init(<<>>)
    /\ NoPEs
-----------------------------------------------------------------------------
(* Set-up: GPUs and NICs in pairs, below one switch or one host bridge.    *)
Job(n) == INSTANCE Setup WITH N <- n, config <- program

Nic(name, path, vendor) ==
    [name |-> name, path |-> path, active |-> TRUE, vendor |-> vendor,
     supported |-> TRUE,
     gids |-> <<[type |-> 1, local |-> TRUE], [type |-> 1, local |-> FALSE],
                [type |-> 2, local |-> FALSE]>>]

Machine(v, n) ==
    [devs |-> <<Nic("n1", <<10, 101, 201>>, v), Nic("n2", <<20, 501, 601>>, v)>>,
     gpus |-> <<<<10, 101, 202>>, <<20, 501, 602>>>>, links |-> {},
     allowed |-> [names |-> {}, exclude |-> FALSE],
     hca |-> [exclude |-> {}, include |-> {}],
     gpu |-> [p \in 0 .. n - 1 |-> (p % 2) + 1], node |-> [p \in 0 .. n - 1 |-> p],
     requested_nic |-> "", force_merge |-> <<>>, merge_nics |-> FALSE,
     merge_level |-> "SYS", topo_file |-> <<>>, autotopo |-> FALSE, oam |-> <<>>,
     policy |-> "ROUND_ROBIN", qps_default_per_pe |-> 2, qps_default |-> 1,
     qps_usr |-> 1, contexts |-> 2, alternate |-> TRUE, teams |-> 3,
     requested_provider |-> "UNSET", libs |-> {v}, gid_index |-> 0,
     backend |-> "", mpi |-> FALSE, sq_size |-> 600, init |-> "uniqueid",
     initialized |-> FALSE, world_size |-> 0, allocator |-> "", disable_ipc |-> FALSE]

Vendors == {"BNXT", "IONIC", "MLX5", "SHCA"}
Mlx5 == Machine("MLX5", 2)
OneNode == [Mlx5 EXCEPT !.node = [p \in 0 .. 1 |-> 1]]

(* Four GPUs and four NICs below two switches, each on a port of its own.  *)
Behind(bridge, bus, port) ==
    <<bridge, bus * 100 + 1, (bus + 1) * 100 + 1, (bus + 2) * 100 + port,
      (bus + 2 + port) * 100>>
Switched(a, b) ==
    [OneNode EXCEPT
       !.gpus = <<Behind(10, 1, 1), Behind(10, 1, 3), Behind(20, 11, 1), Behind(20, 11, 3)>>,
       !.devs = <<Nic("n1", Behind(10, 1, 2), "MLX5"), Nic("n2", Behind(10, 1, 4), "MLX5"),
                  Nic("n3", Behind(20, 11, 2), "MLX5"), Nic("n4", Behind(20, 11, 4), "MLX5")>>,
       !.gpu = [p \in 0 .. 1 |-> IF p = 0 THEN a ELSE b], !.backend = "gda"]

Jobs2 ==
    UNION {{Machine(v, 2), [Machine(v, 2) EXCEPT !.merge_nics = TRUE],
            [Machine(v, 2) EXCEPT !.merge_nics = TRUE, !.policy = "PER_CONTEXT"]} :
             v \in Vendors}
    \cup {[OneNode EXCEPT !.backend = b] : b \in {"", "gda", "ro"}}
    \cup {[Mlx5 EXCEPT !.libs = {}, !.mpi = b] : b \in BOOLEAN}
    \cup {[Mlx5 EXCEPT !.backend = b, !.mpi = TRUE] : b \in {"ipc", "ro"}}
    \cup {[Mlx5 EXCEPT !.init = i, !.backend = "ro", !.mpi = TRUE,
                       !.initialized = ready, !.world_size = n] :
            i \in {"uniqueid", "uniqueid_with_mpi"}, ready \in BOOLEAN, n \in {2, 3}}
    \cup {[Mlx5 EXCEPT !.init = "comm", !.mpi = b, !.allocator = a] :
            b \in BOOLEAN, a \in {"", "vmm_posix"}}
    \cup {[Mlx5 EXCEPT !.init = i, !.mpi = TRUE, !.gpus = <<>>] :
            i \in {"comm", "uniqueid"}}
    \cup {[OneNode EXCEPT !.backend = "gda", !.disable_ipc = TRUE]}
    \cup {[Mlx5 EXCEPT !.requested_nic = n] : n \in {"n2", "n9"}}
    \cup {[Mlx5 EXCEPT !.sq_size = k] : k \in {1, 63, 64, 4095, 32768}}
    \cup {[Machine(v, 2) EXCEPT !.devs = [i \in 1 .. 2 |->
              [@[i] EXCEPT !.gids = <<[type |-> 3, local |-> FALSE]>>]]] : v \in {"MLX5", "SHCA"}}
    \cup {[Mlx5 EXCEPT !.allowed = [names |-> {"n1"}, exclude |-> b]] : b \in BOOLEAN}
    \cup {[Mlx5 EXCEPT !.force_merge = <<<<"n2">>, <<"n1">>>>],
          [Mlx5 EXCEPT !.topo_file = <<"n2">>],
          [Mlx5 EXCEPT !.gid_index = 2], [Mlx5 EXCEPT !.gid_index = 9],
          [Switched(1, 2) EXCEPT !.merge_nics = TRUE, !.merge_level = "PXB"],
          Switched(1, 2), [Switched(3, 4) EXCEPT !.devs = SubSeq(@, 1, 2)],
          [Switched(1, 4) EXCEPT !.devs[2].active = FALSE],
          [Switched(1, 3) EXCEPT !.links = {<<201, 1201>>, <<1201, 201>>}],
          [Switched(2, 3) EXCEPT !.autotopo = TRUE, !.oam = <<<<1, 2>>, <<3, 4>>>>]}

Nodes(a, b, c, d) == [p \in 0 .. 3 |-> <<a, b, c, d>>[p + 1]]
RoOn(nodes, n) ==
    [Machine("MLX5", n) EXCEPT !.node = nodes, !.backend = "ro", !.mpi = TRUE,
                               !.init = "comm"]
Jobs3 == {[Machine(v, 3) EXCEPT !.hca.exclude = {"n1"}] : v \in {"BNXT", "MLX5"}}
Jobs4 == {[Machine("BNXT", 4) EXCEPT !.merge_nics = TRUE, !.policy = po] :
            po \in {"ROUND_ROBIN", "PER_CONTEXT"}}
         \cup {RoOn(Nodes(1, 2, 1, 2), 4), RoOn(Nodes(1, 1, 2, 1), 4),
               RoOn(Nodes(1, 2, 2, 1), 4)}

Setups == {"setup2", "setup3", "setup4"}
SetupInit ==
    /\ \/ use = "setup2" /\ Job(2)!Init(Jobs2)
       \/ use = "setup3" /\ Job(3)!Init(Jobs3)
       \/ use = "setup4" /\ Job(4)!Init(Jobs4)
    /\ store = <<>> /\ lanes = <<>> /\ NoBoot
-----------------------------------------------------------------------------
(* Registration: two PEs and four buffers, the second and third of which   *)
(* overlap and the last of which leaves the memory of the process.         *)
Buffers ==
    [A |-> [start |-> 2, length |-> 2], B |-> [start |-> 4, length |-> 2],
     C |-> [start |-> 5, length |-> 2], Z |-> [start |-> 9, length |-> 2]]

Reg(backend, posix, mixed) == INSTANCE Registration WITH
    N <- 2, Backend <- backend, Node <- [p \in 0 .. 1 |-> 0 .. 1],
    MixedIpc <- mixed, Posix <- posix, Dmabuf <- TRUE, Nics <- 2, Qps <- 2,
    MaxRegions <- 2, MaxUser <- 2, AddrMax <- 10, Buffers <- Buffers,
    calls <- program, lookup <- store

Call(op) == [op |-> op]
On(op, b) == [op |-> op, buf |-> b]
Register(b, lengths) == [op |-> "register", buf |-> b, length |-> lengths]
Same(b) == Register(b, [p \in 0 .. 1 |-> Buffers[b].length])

Symmetric ==
    {<<Call("heap"), Same("A"), Same("B"), On("unregister", "A"), Same("C"),
       On("unregister", "B"), Same("A"), Call("finalize")>>,
     <<Call("heap"), Register("A", [p \in 0 .. 1 |-> 2 - p]), Same("Z"),
       On("unregister", "A"), Same("B"), Same("C"), On("unregister", "B"),
       On("unregister", "C"), Call("finalize")>>}
Local ==
    {<<On("buffer_register", "A"), On("buffer_register", "B"),
       On("buffer_register", "C"), On("buffer_unregister", "A"),
       On("buffer_register", "C"), On("buffer_unregister", "B"),
       On("buffer_register", "C"), On("buffer_register", "Z"),
       Call("buffer_unregister_all"), On("buffer_register", "A")>>}

Regs == {"reg_ipc", "reg_fabric", "reg_gda", "reg_nic"}
RegInit ==
    /\ use \in Regs /\ Reg("IPC", TRUE, TRUE)!Init(Symmetric \cup Local)
    /\ lanes = <<>> /\ NoBoot
-----------------------------------------------------------------------------
(* Teams: three PEs, room for three teams beside world and shared.         *)
Teams(clears, mpi) == INSTANCE HostTeams WITH
    N <- 3, Clears <- clears, Mpi <- mpi, MaxTeams <- 5, Streams <- {1, 2},
    calls <- program, host <- pe, word <- store, stream <- lanes

World == <<"world">>
Split(parent, start, stride, size, name) ==
    Teams(TRUE, TRUE)!Split(parent, start, stride, size, <<name>>)
Split2d(parent, xrange) ==
    [op |-> "split_2d", parent |-> parent, xrange |-> xrange,
     x |-> <<"x">>, y |-> <<"y">>]
Destroy(name) == [op |-> "destroy", team |-> <<name>>]
Launch(team, s, wgs) ==
    [op |-> "launch", team |-> team, stream |-> s, wgs |-> wgs, capture |-> FALSE]
Capture(team, s, wgs) == [Launch(team, s, wgs) EXCEPT !.capture = TRUE]

TeamPrograms ==
    {<<Split(World, 0, 1, 2, "a"), Launch(<<"a">>, 1, 0), Destroy("a"),
       Split(World, 1, 1, 2, "b"), Launch(<<"b">>, 2, 0), Call("finalize")>>,
     <<Launch(World, 1, 2), Launch(World, 2, 2), Capture(World, 1, 3),
       Launch(World, 2, 3), Call("finalize")>>,
     <<Split(World, 0, 2, 2, "a"), Launch(<<"a">>, 1, 2), Launch(<<"a">>, 2, 1),
       Destroy("a"), Split(World, 0, 1, 3, "b"), Launch(<<"b">>, 1, 2),
       Call("finalize")>>,
     <<Split2d(World, 2), Launch(<<"x">>, 1, 0), Launch(<<"y">>, 2, 0),
       Destroy("x"), Destroy("y"), Split2d(World, 5), Call("finalize")>>,
     <<Split(World, 1, 1, 2, "a"), Split(<<"a">>, 1, 1, 1, "b"),
       Split(<<"a">>, 0, 1, 3, "c"), Launch(<<"a">>, 1, 1),
       Launch(<<"b">>, 1, 0), Call("finalize")>>,
     <<Launch(World, 1, 2), Launch(World, 2, 4), Launch(World, 1, 2),
       Split(World, 0, 1, 2, "a"), Call("finalize")>>}

TeamUses == {"teams_gda", "teams_gda_mpi", "teams_ipc", "teams_ipc_mpi"}
TeamsInit ==
    /\ use \in TeamUses /\ Teams(TRUE, TRUE)!Init(TeamPrograms) /\ NoBoot
-----------------------------------------------------------------------------
(* The heap: calls chosen freely on a small one, alone and by two PEs, and *)
(* long pseudo-random sequences of calls on one large enough for its tree  *)
(* bins to fill.                                                           *)
Malloc(slot, bytes) == [op |-> "malloc", slot |-> slot, bytes |-> bytes]
Align(slot, alignment, bytes) ==
    [op |-> "align", slot |-> slot, alignment |-> alignment, bytes |-> bytes]
Calloc(slot, count, bytes) ==
    [op |-> "calloc", slot |-> slot, count |-> count, bytes |-> bytes]
Free(slot) == [op |-> "free", slot |-> slot]

CallsOn(slots) ==
    UNION {{Malloc(s, b) : b \in {100, 121, 500}} \cup {Align(s, 512, 1), Free(s)} :
             s \in 1 .. slots}
Sizes == {1, 121, 249, 500, 650, 1000}

(* The largest request a chunk of u times 128 bytes can hold.              *)
Units(u) == 128 * u - 8
OfUnits == <<1, 1, 2, 3, 4, 5, 6, 7, 8, 9, 10, 11, 8, 9, 10, 11>>

RECURSIVE Script(_, _, _)
Script(k, seed, held) ==
    IF k = 0 THEN <<>>
    ELSE LET r == (seed * 75 + 74) % 65537
             slot == (r % 9) + 1
             u == OfUnits[((r \div 64) % 16) + 1]
             kind == (r \div 9) % 11
             call == IF slot \in held THEN Free(slot)
                     ELSE IF kind = 0 THEN Align(slot, 512, Units(u))
                     ELSE IF kind = 1 THEN Calloc(slot, u, 128)
                     ELSE Malloc(slot, Units(u))
         IN  <<call>> \o Script(k - 1, r, IF slot \in held THEN held \ {slot}
                                          ELSE held \cup {slot})

Bases(n) == [p \in 0 .. n - 1 |-> 4096 * (p + 1)]

Alone == INSTANCE Heap WITH
    N <- 1, Base <- Bases(1), Size <- 2688, Slots <- 1 .. 3,
    Requests <- CallsOn(3), Probes <- Sizes,
    script <- program, calls <- said, host <- pe, heap <- store, ptr <- lanes
Shared == INSTANCE Heap WITH
    N <- 2, Base <- Bases(2), Size <- 2688, Slots <- 1 .. 2,
    Requests <- CallsOn(2), Probes <- Sizes,
    script <- program, calls <- said, host <- pe, heap <- store, ptr <- lanes
Long == INSTANCE Heap WITH
    N <- 1, Base <- Bases(1), Size <- 8704, Slots <- 1 .. 9,
    Requests <- {}, Probes <- {Units(u) : u \in 1 .. 12},
    script <- program, calls <- said, host <- pe, heap <- store, ptr <- lanes

HeapUses == {"heap", "heap_shared", "heap_long"}
HeapInit ==
    /\ \/ use = "heap" /\ Alone!Init({Alone!Free})
       \/ use = "heap_shared" /\ Shared!Init({Shared!Free})
       \/ use = "heap_long" /\ Long!Init({Script(30, i * 131, {}) : i \in 1 .. 200})
    /\ heard = <<>> /\ NoBoot
-----------------------------------------------------------------------------
HostInit == BootInit \/ SetupInit \/ RegInit \/ TeamsInit \/ HeapInit

Boot_(u, A) == use = u /\ A /\ UNCHANGED <<use, pevars>>
Job_(u, A) == use = u /\ A /\ UNCHANGED <<use, store, lanes, bootvars>>
Reg_(u, A) == use = u /\ A /\ UNCHANGED <<use, lanes, bootvars>>
Teams_(u, A) == use = u /\ A /\ UNCHANGED <<use, bootvars>>
Heap_(u, A) == use = u /\ A /\ UNCHANGED <<use, heard, bootvars>>

HostNext ==
    \/ Boot_("boot", Boot({}, FALSE)!Next)
    \/ Boot_("boot_timeouts", Boot({}, TRUE)!Next)
    \/ Boot_("boot_absent", Boot({1}, TRUE)!Next)
    \/ Job_("setup2", Job(2)!Next) \/ Job_("setup3", Job(3)!Next)
    \/ Job_("setup4", Job(4)!Next)
    \/ Reg_("reg_ipc", Reg("IPC", TRUE, TRUE)!Next)
    \/ Reg_("reg_fabric", Reg("IPC", FALSE, TRUE)!Next)
    \/ Reg_("reg_gda", Reg("GDA", TRUE, TRUE)!Next)
    \/ Reg_("reg_nic", Reg("GDA", TRUE, FALSE)!Next)
    \/ Teams_("teams_gda", Teams(TRUE, FALSE)!Next)
    \/ Teams_("teams_gda_mpi", Teams(TRUE, TRUE)!Next)
    \/ Teams_("teams_ipc", Teams(FALSE, FALSE)!Next)
    \/ Teams_("teams_ipc_mpi", Teams(FALSE, TRUE)!Next)
    \/ Heap_("heap", Alone!Next) \/ Heap_("heap_shared", Shared!Next)
    \/ Heap_("heap_long", Long!Next)
-----------------------------------------------------------------------------
(* Initialisation is exact.  The bootstrap returns on every rank or on     *)
(* none, and every call gives each rank what the others passed.  A job     *)
(* comes up whole: sync arrays apart and set on every PE, queue pairs      *)
(* connected to the right NIC with the right keys; and goes down clean.    *)
BringUpIsExact ==
    /\ use \in {"boot", "boot_timeouts"} =>
         Boot({}, TRUE)!BootstrapIsExact /\ Boot({}, TRUE)!InitialisationIsAllOrNothing
    /\ use = "boot_absent" => Boot({1}, TRUE)!InitialisationIsAllOrNothing
    /\ use = "setup2" => Job(2)!SetupIsSound
    /\ use = "setup3" => Job(3)!SetupIsSound
    /\ use = "setup4" => Job(4)!SetupIsSound

(* Nobody waits for ever: no rank in the bootstrap, whoever is missing or  *)
(* times out; no PE in a collective of a registration others are not in;   *)
(* no host call and no kernel of a team.                                   *)
NobodyWaits ==
    /\ use = "boot" => Boot({}, FALSE)!NobodyWaits
    /\ use = "boot_timeouts" => Boot({}, TRUE)!NobodyWaits
    /\ use = "boot_absent" => Boot({1}, TRUE)!NobodyWaits
    /\ use \in Regs => Reg("GDA", TRUE, TRUE)!GathersMatch
    /\ use \in TeamUses => Teams(TRUE, TRUE)!TeamsProgress

(* A registration succeeds on every PE or on none and leaves nothing       *)
(* behind; nothing is used once it is released; what a kernel looks up     *)
(* while the tables change is the region it asked for.                     *)
RegistrationIsSound ==
    /\ use = "reg_ipc" => Reg("IPC", TRUE, TRUE)!RegistrationIsSound
    /\ use = "reg_fabric" => Reg("IPC", FALSE, TRUE)!RegistrationIsSound
    /\ use = "reg_gda" => Reg("GDA", TRUE, TRUE)!RegistrationIsSound
    /\ use = "reg_nic" => Reg("GDA", TRUE, FALSE)!RegistrationIsSound

(* The members of a team agree on it and on an index nobody else uses, and *)
(* no kernel meets the sync words of a team that is gone.                  *)
TeamsAreExact ==
    /\ use \in {"teams_gda", "teams_gda_mpi"} => Teams(TRUE, TRUE)!TeamsAreSound
    /\ use \in {"teams_ipc", "teams_ipc_mpi"} => Teams(FALSE, TRUE)!TeamsAreSound

(* Objects of the heap are disjoint and at the same offset on every PE,    *)
(* the allocator's chunks and bins agree, and a request that fits is       *)
(* served from the smallest chunk that holds it.                           *)
HeapIsSound ==
    /\ use = "heap" => Alone!HeapIsSound /\ Alone!ObjectsAreSymmetric
    /\ use = "heap_shared" => Shared!HeapIsSound /\ Shared!ObjectsAreSymmetric
    /\ use = "heap_long" => Long!HeapIsSound /\ Long!ObjectsAreSymmetric
=============================================================================
