------------------------------- MODULE Setup --------------------------------
(***************************************************************************)
(* Bringing a job up and taking it down: every PE enters the library with  *)
(* an MPI communicator or over the bootstrap network and selects a backend,*)
(* the GDA backend then selects its NICs from the PCIe topology, carves    *)
(* its work and sync arrays, opens the devices, creates one queue pair per *)
(* (row, peer), exchanges their addresses row by row, connects them,       *)
(* registers the heap, hands the queue pairs to the GPU, and releases      *)
(* everything in its destructor.  The IPC backend exchanges handles of the *)
(* work and sync arrays instead.                                           *)
(*                                                                         *)
(* One action is the code of one PE between two collective calls.  The     *)
(* machine a job runs on, and its environment variables, are a record c    *)
(* (config) that Init takes from a set.  Devices, GPUs and NICs count from *)
(* 1 and 0 is the code's -1.                                               *)
(***************************************************************************)
EXTENDS Integers, Sequences, FiniteSets, TLC, SequencesExt, FiniteSetsExt

CONSTANT N            \* number of PEs

PEs == 0 .. N - 1

VARIABLES
  config,             \* the machine and the environment of the job
  pe,                 \* pe[p]: the state of PE p's backend
  said, heard         \* what the PEs bring to, and take from, a collective

vars == <<config, pe, said, heard>>

Nothing == <<>>

(* The elements of S in the total order `before`. *)
InOrder(S, before(_, _)) ==
  [k \in 1 .. Cardinality(S) |->
     CHOOSE x \in S : Cardinality({y \in S : before(y, x)}) = k - 1]

(***************************************************************************)
(* The PCIe tree.  A node is the path of addresses that leads to it from   *)
(* the root; an address below 10 names a sysfs directory, one below 100 a  *)
(* host bridge "pciDDDD:BB", any other the function of bus address \div    *)
(* 100.  A tree is a prefix-closed set of paths, some of them virtual      *)
(* links between two switches.                                             *)
(***************************************************************************)
Sysfs == <<0, 1, 2>>

Address(n) == IF n = <<>> THEN 0 ELSE Last(n)

HasColon(a) == a >= 10

ExtractBusNumber(a) == IF a >= 100 THEN a \div 100 ELSE -1

GetBusIdDistance(a, b) ==
  LET x == ExtractBusNumber(a)
      y == ExtractBusNumber(b)
  IN  CASE x < 0 \/ y < 0 -> -1 [] x < y -> y - x [] OTHER -> x - y

VirtualLinks(path, links) ==
  {Append(SubSeq(path, 1, k - 1), l[2]) :
     <<k, l>> \in {<<i, m>> \in (DOMAIN path) \X links : m[1] = path[i]}}

InsertPCIePathToTree(path, links) ==
  [nodes |-> Prefixes(path) \cup VirtualLinks(path, links),
   virtual |-> VirtualLinks(path, links)]

(* The node of S that a depth-first search meets first. *)
First(S) ==
  LET before(x, y) == \/ IsPrefix(x, y)
                      \/ \E k \in (DOMAIN x) \cap (DOMAIN y) :
                           x[k] < y[k] /\ \A j \in 1 .. k - 1 : x[j] = y[j]
  IN  CHOOSE x \in S : \A y \in S \ {x} : before(x, y)

(* below[n]: the children of n, by address. *)
GetPCIeTreeRoot(c) ==
  LET paths == {Sysfs \o c.devs[i].path : i \in {j \in DOMAIN c.devs : c.devs[j].active}}
                 \cup {Sysfs \o c.gpus[g] : g \in DOMAIN c.gpus}
      trees == {InsertPCIePathToTree(x, c.links) : x \in paths}
      nodes == UNION {t.nodes : t \in trees}
      below == [n \in nodes |->
                  InOrder({x \in nodes \ {<<>>} : Front(x) = n},
                          LAMBDA x, y : Last(x) < Last(y))]
  IN  [nodes |-> nodes, below |-> below,
       virtual |-> UNION {t.virtual : t \in trees}]

Children(t, n) == t.below[n]

GetPCIeNode(t, a) ==
  LET found == {n \in t.nodes : Address(n) = a}
  IN  IF found = {} THEN Nothing ELSE <<First(found)>>

GetLcaDepth(t, a) ==
  IF GetPCIeNode(t, a) = Nothing THEN -1 ELSE Len(GetPCIeNode(t, a)[1])

GetChildLeadingTo(t, n, a) ==
  LET leads == SelectSeq(Children(t, n), LAMBDA x :
                 \E y \in t.nodes : IsPrefix(x, y) /\ Address(y) = a)
  IN  IF leads = <<>> THEN Nothing ELSE <<leads[1]>>

(* A virtual link stands for the node of its address that has children. *)
ResolveVirtualP2Plinks(t, n) ==
  LET real == {x \in t.nodes : Address(x) = Address(n) /\ Children(t, x) # <<>>}
  IN  IF n \in t.virtual /\ Children(t, n) = <<>> /\ real # {}
      THEN First(real) ELSE n

RECURSIVE Reaches(_, _, _, _)
Reaches(t, n, a, b) ==
  LET under == {x \in t.nodes : IsPrefix(n, x)}
  IN  \/ \E x \in under : Address(x) \in {a, b}
      \/ \E x \in under \cap t.virtual :
           LET y == ResolveVirtualP2Plinks(t, x) IN y # x /\ Reaches(t, y, a, b)

(* The candidates below n: the search turns back at the second child that  *)
(* leads to one of the two devices.                                        *)
RECURSIVE GetLcaBetweenNodesRecursive(_, _, _, _)
GetLcaBetweenNodesRecursive(t, n, a, b) ==
  LET resolved == [k \in DOMAIN Children(t, n) |->
                     ResolveVirtualP2Plinks(t, Children(t, n)[k])]
      found == SelectSeq(resolved, LAMBDA x : Reaches(t, x, a, b))
      below(k) == GetLcaBetweenNodesRecursive(t, found[k], a, b)
  IN  IF Address(n) \in {a, b} \/ found = <<>> THEN <<>>
      ELSE IF Len(found) = 1 THEN below(1)
      ELSE below(1) \o below(2) \o <<n>>

(* The deepest candidate, the first one of that depth. *)
GetLcaBetweenNodes(t, a, b) ==
  LET depth(n) == GetLcaDepth(t, Address(n))
      Deepest(all) ==
        LET last == {k \in DOMAIN all : \A j \in DOMAIN all : depth(all[j]) <= depth(all[k])}
        IN  IF all = <<>> THEN Nothing ELSE <<all[Min(last)]>>
  IN  IF a = b THEN GetPCIeNode(t, a)
      ELSE Deepest(GetLcaBetweenNodesRecursive(t, <<>>, a, b))

(* candidates[i] is the address of device i, 0 when it may not be used.    *)
(* With `oam` the set also holds 0 when some candidate is too far away.    *)
WithLca(t, target, candidates) ==
  {<<i, GetLcaBetweenNodes(t, target, candidates[i])>> :
     i \in {j \in DOMAIN candidates : candidates[j] # 0}}

ClosestOf(near) ==
  LET deepest == {x \in near : \A y \in near : y.depth <= x.depth}
  IN  {x.nic : x \in {y \in deepest : \A z \in deepest : y.dist <= z.dist}}

GetNearestDevicesInTree(t, target, candidates, oam) ==
  LET Near(lcas) ==
        {[nic |-> x[1], depth |-> GetLcaDepth(t, Address(x[2][1])),
          dist |-> GetBusIdDistance(target, candidates[x[1]])] :
           x \in {y \in lcas : y[2] # Nothing}}
      Chosen(near) == IF oam THEN {IF x.depth >= 5 THEN x.nic ELSE 0 : x \in near}
                      ELSE ClosestOf(near)
  IN  Chosen(Near(WithLca(t, target, candidates)))

(***************************************************************************)
(* Which NICs a PE uses.                                                   *)
(***************************************************************************)
GetIbvDeviceList(c) ==
  SelectSeq(c.devs, LAMBDA d :
    \/ c.allowed.names = {}
    \/ (d.name \in c.allowed.names) # c.allowed.exclude)

BuildFilteredNicAddresses(c) ==
  [i \in DOMAIN c.devs |->
     LET name == c.devs[i].name
         is_excluded == \/ name \in c.hca.exclude
                        \/ c.hca.include # {} /\ name \notin c.hca.include
     IN  IF c.devs[i].active /\ ~is_excluded THEN Last(c.devs[i].path) ELSE 0]

SelectRankGroup(groups, rank) == groups[(rank % Len(groups)) + 1]

PathTypes == <<"PIX", "PXB", "PHB", "SYS">>

ParseNicMergeLevel(level) ==
  IF level \in Range(PathTypes)
  THEN CHOOSE k \in DOMAIN PathTypes : PathTypes[k] = level ELSE 4

PathTypeBelow(t, gpu, nic, lca) ==
  LET hops == GetLcaDepth(t, gpu) - GetLcaDepth(t, Address(lca))
      SameBus(x, y) == /\ x # Nothing /\ y # Nothing /\ x # y
                       /\ ExtractBusNumber(Address(x[1])) >= 0
                       /\ ExtractBusNumber(Address(x[1])) = ExtractBusNumber(Address(y[1]))
  IN  CASE ~HasColon(Address(lca)) \/ hops < 1 -> 4
        [] hops = 1 \/ SameBus(GetChildLeadingTo(t, lca, gpu), GetChildLeadingTo(t, lca, nic)) -> 1
        [] OTHER -> 2

ComputeGpuNicPathType(t, gpu, nic) ==
  LET Type(lca) == IF lca = Nothing THEN 4 ELSE PathTypeBelow(t, gpu, nic, lca[1])
  IN  Type(GetLcaBetweenNodes(t, gpu, nic))

GetClosestNicsToGpu(c, g) ==
  LET addresses == BuildFilteredNicAddresses(c)
      gpu == Last(c.gpus[g])
      far(d) == IF d >= 0 THEN d ELSE 9999
      Typed(t) == {[type |-> ComputeGpuNicPathType(t, gpu, addresses[i]),
                    dist |-> far(GetBusIdDistance(gpu, addresses[i])), nic |-> i] :
                     i \in {j \in DOMAIN addresses : addresses[j] # 0}}
      before(x, y) == \/ x.type < y.type
                      \/ x.type = y.type /\ x.dist < y.dist
                      \/ x.type = y.type /\ x.dist = y.dist /\ x.nic < y.nic
      Sorted(typed) ==
        InOrder({x \in typed : x.type <= ParseNicMergeLevel(c.merge_level)}, before)
      Nics(sorted) == [k \in DOMAIN sorted |-> sorted[k].nic]
  IN  Nics(Sorted(Typed(GetPCIeTreeRoot(c))))

(* Mode 2: the last NIC below a common root port, and the one before it as *)
(* a spare; in each pair of GPUs of a module, one without a NIC borrows.   *)
Primary(c, g) ==
  LET Last0(S) == IF S = {} THEN 0 ELSE Max(S)
      Two(near) == [nic |-> Last0(near), spare |-> Last0(near \ {Last0(near)})]
  IN  Two(GetNearestDevicesInTree(GetPCIeTreeRoot(c), Last(c.gpus[g]),
                                  BuildFilteredNicAddresses(c), TRUE))

transferNic(own, from, to) ==
  [own EXCEPT ![to].nic = own[from].nic,
              ![from].nic = IF own[from].spare # 0 THEN own[from].spare
                            ELSE @]

GetClosestNicToGpuFromOam(c) ==
  LET start == [own |-> [g \in DOMAIN c.gpus |-> Primary(c, g)],
                count |-> [i \in DOMAIN c.devs |-> 0]]
      pair(s, xy) ==
        LET x == xy[1]
            y == xy[2]
            own == CASE s.own[x].nic = 0 /\ s.own[y].nic # 0 -> transferNic(s.own, y, x)
                     [] s.own[y].nic = 0 /\ s.own[x].nic # 0 -> transferNic(s.own, x, y)
                     [] OTHER -> s.own
            claimed == {own[x].nic, own[y].nic} \ {0}
        IN  [own |-> own,
             count |-> [i \in DOMAIN s.count |->
                          s.count[i] + (IF i \in claimed THEN 1 ELSE 0)]]
  IN  FoldLeft(pair, start, c.oam)

(* Mode 3: the nearest NIC, the least used of several, an unused one if    *)
(* there is any; the bus distance decides when the tree does not.          *)
Nearest(gpu, addresses, usable) ==
  LET dist(j) == GetBusIdDistance(gpu, addresses[j])
      some == {j \in usable : dist(j) >= 0}
  IN  IF some = {} THEN 0
      ELSE Min({j \in some : \A k \in some : dist(j) <= dist(k)})

LeastUsed(S, count) == IF S = {} THEN 0
                       ELSE Min({i \in S : \A j \in S : count[i] <= count[j]})

(* A NIC in use already gives way to an unused one.                        *)
Spread(t, gpu, addresses, count, first) ==
  LET unused == {j \in DOMAIN addresses : addresses[j] # 0 /\ count[j] = 0}
      left == [j \in DOMAIN addresses |-> IF j \in unused THEN addresses[j] ELSE 0]
      Or(nic, otherwise) == IF nic # 0 THEN nic ELSE otherwise
      Instead(others) == IF others # {} THEN Min(others)
                         ELSE Or(Nearest(gpu, addresses, unused), first)
  IN  IF first = 0 \/ count[first] = 0 \/ unused = {} THEN first
      ELSE Instead(GetNearestDevicesInTree(t, gpu, left, FALSE))

AssignNic(c, t, s, g) ==
  LET addresses == BuildFilteredNicAddresses(c)
      gpu == Last(c.gpus[g])
      all == {j \in DOMAIN addresses : addresses[j] # 0}
      first == LeastUsed(GetNearestDevicesInTree(t, gpu, addresses, FALSE), s.count)
      Taken(nic) == [nic |-> Append(s.nic, nic),
                     count |-> [i \in DOMAIN s.count |->
                                  s.count[i] + (IF i = nic THEN 1 ELSE 0)]]
      OrNearest(nic) == IF nic # 0 THEN nic ELSE Nearest(gpu, addresses, all)
  IN  Taken(OrNearest(Spread(t, gpu, addresses, s.count, first)))

GetClosestNicToGpu(c, g) ==
  LET none == [i \in DOMAIN c.devs |-> 0]
      Table(t, count) == FoldLeft(LAMBDA s, i : AssignNic(c, t, s, i),
                                  [nic |-> <<>>, count |-> count],
                                  [i \in DOMAIN c.gpus |-> i])
      OfOam(oam) == IF oam.own[g].nic # 0 THEN oam.own[g].nic
                    ELSE Table(GetPCIeTreeRoot(c), oam.count).nic[g]
  IN  IF c.autotopo THEN OfOam(GetClosestNicToGpuFromOam(c))
      ELSE Table(GetPCIeTreeRoot(c), none).nic[g]

(* The names of the NICs of PE p, in order; <<>> ends the process.  A name *)
(* given in the environment or in the topology file is taken as it is.     *)
select_nics(job, p) ==
  LET c == [job EXCEPT !.devs = GetIbvDeviceList(job)]
      g == c.gpu[p]
      named(s) == [k \in DOMAIN s |-> c.devs[s[k]].name]
      One(nic) == IF nic = 0 THEN <<>> ELSE named(<<nic>>)
  IN  CASE c.requested_nic # "" -> <<c.requested_nic>>
        [] c.requested_nic = "" /\ c.force_merge # <<>> -> SelectRankGroup(c.force_merge, p)
        [] c.requested_nic = "" /\ c.force_merge = <<>> /\ c.merge_nics ->
             named(GetClosestNicsToGpu(c, g))
        [] OTHER -> IF c.topo_file # <<>>
                    THEN IF g \in DOMAIN c.topo_file THEN <<c.topo_file[g]>> ELSE <<>>
                    ELSE One(GetClosestNicToGpu(c, g))

(* Keeps only as many NICs as a context has rows. *)
configure_nic_policy(c, nics, dflt) ==
  LET limit == Max({dflt, c.qps_usr, 1})
  IN  IF c.policy = "PER_CONTEXT" \/ limit >= Len(nics) THEN nics
      ELSE SubSeq(nics, 1, limit)

(***************************************************************************)
(* The work and sync arrays: byte ranges cut off one pool, in this order.  *)
(***************************************************************************)
align_up(x, a) == ((x + a - 1) \div a) * a

Sync == 256           \* ROCSHMEM_BARRIER_, _REDUCE_ and _BCAST_SYNC_SIZE
WrkData == 1048576    \* ROCSHMEM_REDUCE_MIN_WRKDATA_SIZE

setup_wrk_sync_buffer(c) ==
  [size |-> align_up(8 * Sync + 8 * c.teams * (3 * Sync + (Sync + 1))
                       + 8 * c.teams * WrkData + 4 * N, 8),
   top |-> 0, regions |-> <<>>, ready |-> {}]

Carve(pool, name, bytes) ==
  [pool EXCEPT !.regions = Append(@, [name |-> name, from |-> pool.top,
                                      to |-> pool.top + bytes]),
               !.top = @ + bytes]

Aligned(pool) == [pool EXCEPT !.top = align_up(@, 8)]

Initialised(pool, names) == [pool EXCEPT !.ready = @ \cup names]

setup_collectives(pool) ==
  Initialised(Carve(Aligned(pool), "barrier_sync", 8 * Sync), {"barrier_sync"})

setup_teams(c, pool) ==
  LET cut == << <<"barrier_pSync", 8 * Sync>>, <<"reduce_pSync", 8 * Sync>>,
                <<"bcast_pSync", 8 * Sync>>, <<"alltoall_pSync", 8 * (Sync + 1)>>,
                <<"pWrk", 8 * WrkData>> >>
  IN  Initialised(FoldLeft(LAMBDA q, r : Carve(q, r[1], r[2] * c.teams),
                           Aligned(pool), cut),
                  {cut[k][1] : k \in 1 .. 4})

setup_fence_buffer(pool) == Carve(pool, "fence", 4 * N)

(***************************************************************************)
(* Queue pairs.  Slot i = row * N + peer of the arrays qps, cqs, bnxt_qps, *)
(* mlx5_qps ... holds what was created as number made.                     *)
(***************************************************************************)
qps_per_pe_default_ctx(c) == Max({c.qps_default_per_pe, 1 + (c.qps_default \div N)})

Rows(c) == qps_per_pe_default_ctx(c) + c.qps_usr * c.contexts

Slots(c) == 0 .. (Rows(c) * N - 1)

(* NicOfQpIndex is ComputeNicIdxForQp going by queue pair, not by row. *)
NicOfQpIndex(c, i, nics) == 1 + (i % nics)

ComputeNicIdxForQp(c, i, nics) ==
  LET default_block == qps_per_pe_default_ctx(c) * N
      ctx_id == IF i >= default_block /\ c.qps_usr > 0
                THEN 1 + ((i - default_block) \div (c.qps_usr * N)) ELSE 0
  IN  1 + (IF c.policy = "PER_CONTEXT" THEN ctx_id % nics ELSE (i \div N) % nics)

(* The queue pairs a context uses: rows of its own. *)
ContextSlots(c, id) ==
  LET dflt == qps_per_pe_default_ctx(c)
      rows == IF id = 0 THEN dflt ELSE c.qps_usr
      offset == (IF id = 0 THEN 0 ELSE dflt + c.qps_usr * (id - 1)) * N
  IN  offset .. (offset + rows * N - 1)

(* Each provider fills some of these, by the number of the queue pair. *)
Arrays == {"qps", "cqs", "bnxt_scqs", "bnxt_rcqs", "bnxt_qps", "mlx5_qps"}

Swapped(arrays, i, j) ==
  [a \in Arrays |-> [arrays[a] EXCEPT ![i] = arrays[a][j], ![j] = arrays[a][i]]]

(* In every second row, neighbours are exchanged. *)
alternate_qp_ports(c, arrays) ==
  LET pairs == {<<r * N + k, r * N + k + 1>> :
                  r \in {x \in 0 .. Rows(c) - 1 : x % 2 = 1},
                  k \in {x \in PEs : x % 2 = 0}}
      order == InOrder({x \in pairs : x[2] \in Slots(c)},
                            LAMBDA x, y : x[1] < y[1])
  IN  IF c.contexts = 1 \/ ~c.alternate THEN arrays
      ELSE FoldLeft(LAMBDA f, x : Swapped(f, x[1], x[2]), arrays, order)

(* The buffer of an mlx5 queue pair: work queue, one CQE, two doorbells.   *)
(* bit_ceil is taken of a 16-bit number and is one.                        *)
bit_ceil(x) == Min({2 ^ k : k \in {j \in 0 .. 16 : 2 ^ j >= x}}) % 65536
bit_floor(x) == Max({2 ^ k : k \in {j \in 0 .. 24 : 2 ^ j <= x}})

mlx5_qp_umem_alloc_info(requested) ==
  LET line == 128
      depth == requested % 65536
      wq_size_initial == align_up(bit_ceil(depth) * 64, line)
      umem_size == align_up(wq_size_initial + 3 * line, 4096)
      wq_size == bit_floor(umem_size - 3 * line)
  IN  [umem_size |-> umem_size, wq_size |-> wq_size, cq_offset |-> wq_size,
       qp_dbrec_offset |-> umem_size - 2 * line,
       cq_dbrec_offset |-> umem_size - line,
       sq_depth |-> (wq_size \div 64) % 65536]

(***************************************************************************)
(* What the verbs library holds for a PE: pairs of an object and of the    *)
(* objects it was created on.  Releasing an object another one still uses  *)
(* is refused (EBUSY), and the code ends the process.                      *)
(***************************************************************************)
Objects(live) == {x[1] : x \in live}

(* The objects are released in the order of ids. *)
ReleaseAll(s, ids) ==
  LET gone(k) == {ids[j] : j \in 1 .. k - 1}
      refused(k) == \/ ids[k] \notin Objects(s.live) \/ ids[k] \in gone(k)
                    \/ \E x \in s.live : ids[k] \in x[2] /\ x[1] \notin gone(k)
  IN  [s EXCEPT !.live = {x \in @ : x[1] \notin ToSet(ids)},
                !.refused = @ \/ \E k \in DOMAIN ids : refused(k)]

ionic_setup_parent_domain(n) == {<<<<"pd_uxdma", n, u>>, {<<"pd", n>>}>> : u \in 0 .. 1}

create_parent_domain(provider, n) ==
  {<<<<"pd_parent", n>>, {<<"pd", n>>}>>}
    \cup (IF provider = "IONIC" THEN ionic_setup_parent_domain(n) ELSE {})

(* The objects behind queue pair number i, on NIC n. *)
bnxt_create_cqs(i, n) ==
  LET cq(k) == {<<<<k, "buf", i>>, {}>>,
                <<<<k, "umem", i>>, {<<"context", n>>, <<k, "buf", i>>}>>,
                <<<<k, i>>, {<<"context", n>>, <<k, "umem", i>>}>>}
  IN  cq("scq") \cup cq("rcq")

bnxt_create_qps(i, n) ==
  LET q(k) == {<<<<k, "buf", i>>, {}>>,
               <<<<k, "umem", i>>, {<<"context", n>>, <<k, "buf", i>>}>>}
  IN  q("sq") \cup q("rq")
        \cup {<<<<"dbr", i>>, {<<"context", n>>}>>,
              <<<<"qp", i>>, {<<"pd", n>>, <<"scq", i>>, <<"rcq", i>>, <<"dbr", i>>,
                              <<"sq", "umem", i>>, <<"rq", "umem", i>>}>>}

mlx5_create_cq(i, n) == {<<<<"cq", i>>, {<<"context", n>>, <<"umem", i>>, <<"uar", i>>}>>}

mlx5_create_qp(i, n) ==
  {<<<<"qp", i>>, {<<"pd", n>>, <<"cq", i>>, <<"umem", i>>, <<"uar", i>>}>>}

(* mlx5dv_funcs_t::create_qp: one buffer for both, and the doorbell page *)
mlx5_create_qps(i, n) ==
  {<<<<"buf", i>>, {}>>, <<<<"umem", i>>, {<<"context", n>>, <<"buf", i>>}>>,
   <<<<"uar", i>>, {<<"context", n>>}>>}
    \cup mlx5_create_cq(i, n) \cup mlx5_create_qp(i, n)

ionic_create_cqs(i, n) == {<<<<"cq", i>>, {<<"pd_uxdma", n, i % 2>>}>>}
create_cqs(i, n) == {<<<<"cq", i>>, {<<"pd_parent", n>>}>>}
create_qps(provider, i, n) ==
  {<<<<"qp", i>>, {<<"cq", i>>, IF provider = "IONIC" THEN <<"pd_uxdma", n, i % 2>>
                                ELSE <<"pd_parent", n>>}>>}

mlx5_destroy_qp(m) ==
  << <<"qp", m>>, <<"cq", m>>, <<"uar", m>>, <<"umem", m>>, <<"buf", m>> >>

bnxt_releases(qp, q, scq, rcq) ==
  << <<"qp", qp>>, <<"dbr", q>>, <<"rq", "umem", q>>, <<"sq", "umem", q>>,
     <<"sq", "buf", q>>, <<"rq", "buf", q>>, <<"scq", scq>>, <<"rcq", rcq>>,
     <<"scq", "umem", scq>>, <<"rcq", "umem", rcq>>,
     <<"scq", "buf", scq>>, <<"rcq", "buf", rcq>> >>

QueueReleases(provider, a, i) ==
  CASE provider = "BNXT" ->
         bnxt_releases(a.qps[i], a.bnxt_qps[i], a.bnxt_scqs[i], a.bnxt_rcqs[i])
    [] provider = "MLX5" -> mlx5_destroy_qp(a.mlx5_qps[i])
    [] OTHER -> << <<"qp", a.qps[i]>>, <<"cq", a.cqs[i]>> >>

DeviceReleases(provider, n) ==
  (IF provider = "IONIC" THEN << <<"pd_uxdma", n, 0>>, <<"pd_uxdma", n, 1>> >>
   ELSE <<>>)
    \o (IF provider \in {"IONIC", "SHCA"} THEN << <<"pd_parent", n>> >> ELSE <<>>)
    \o << <<"pd", n>>, <<"context", n>> >>

(***************************************************************************)
(* Devices and providers.                                                  *)
(***************************************************************************)
Preference == <<"BNXT", "IONIC", "MLX5", "SHCA">>

has_active_ib_interface(c, provider) ==
  \E d \in Range(c.devs) : d.vendor = provider /\ d.active

Wanted(c, provider) == c.requested_provider \in {"UNSET", provider}

gda_can_run(c) ==
  \E v \in c.libs : Wanted(c, v) /\ has_active_ib_interface(c, v)

(* Only the last two also ask for a device. *)
open_dv_libs(c) ==
  LET usable == SelectSeq(Preference, LAMBDA v :
                  /\ v \in c.libs /\ Wanted(c, v)
                  /\ v \in {"MLX5", "SHCA"} => has_active_ib_interface(c, v))
  IN  IF usable = <<>> THEN "UNSET" ELSE usable[1]

(* 3 is an InfiniBand entry, 2 RoCE v2, 1 RoCE v1; 0 when none is usable,  *)
(* -1 when the one the user asks for is not there.                         *)
select_gid_index(d, user) ==
  LET types == [k \in DOMAIN d.gids |-> d.gids[k].type]
      ib == {k \in DOMAIN types : types[k] = 3}
      last == IF ib = {} THEN Len(types) ELSE Min(ib)
      global == {k \in 1 .. last : types[k] # 3 /\ ~d.gids[k].local}
  IN  CASE user # 0 -> IF user \in DOMAIN types THEN user ELSE -1
        [] user = 0 /\ ib # {} -> Min(ib)
        [] user = 0 /\ ib = {} /\ global = {} -> 0
        [] OTHER -> Min({k \in global : \A m \in global : types[m] <= types[k]})

Device(c, name) == SelectSeq(c.devs, LAMBDA d : d.name = name)

(* The device exists, is of the vendor, is supported, and a port is up. *)
validate_ib_device(c, provider, name) ==
  /\ Device(c, name) # <<>>
  /\ LET d == Device(c, name)[1]
     IN  d.active /\ (provider = "BNXT" => d.vendor = "BNXT" /\ d.supported)

(* nic.gid_type and portinfo.link_layer *)
gid_type(c, name) ==
  LET d == Device(c, name)[1]  k == select_gid_index(d, c.gid_index)
  IN  IF k = 0 THEN 1 ELSE d.gids[k].type
Ethernet(c, name) == ~ \E g \in Range(Device(c, name)[1].gids) : g.type = 3

(* What a peer connects to: the port of a NIC of a node. *)
Port(c, p, name) ==
  [lid |-> <<c.node[p], name>>,
   gid |-> <<c.node[p], name, select_gid_index(Device(c, name)[1], c.gid_index)>>]

(***************************************************************************)
(* The PEs.                                                                *)
(***************************************************************************)
Init(configs) ==
  /\ config \in configs
  /\ pe = [p \in PEs |-> [pc |-> "init", over |-> "", backend |-> "", live |-> {},
                         refused |-> FALSE]]
  /\ said = [p \in PEs |-> Nothing]
  /\ heard = [p \in PEs |-> Nothing]

With(r, more) == more @@ r

Local(p, r) ==
  /\ pe' = [pe EXCEPT ![p] = r]
  /\ heard' = [heard EXCEPT ![p] = Nothing]
  /\ UNCHANGED <<config, said>>

Exit(p) == Local(p, [pe[p] EXCEPT !.pc = "exited"])

(* p enters the collective `kind` with v and goes on as r once it returns. *)
Enter(p, kind, v, r) ==
  /\ pe' = [pe EXCEPT ![p] = r]
  /\ said' = [said EXCEPT ![p] = <<kind, v>>]
  /\ heard' = [heard EXCEPT ![p] = Nothing]
  /\ UNCHANGED config

At(p, pc) == pe[p].pc = pc /\ said[p] = Nothing

(* Barriers, all-gathers and, for the rows of queue pairs, all-to-alls. *)
Collective ==
  /\ \A p, q \in PEs : said[p] # Nothing /\ said[p][1] = said[q][1]
  /\ heard' = [p \in PEs |-> <<[q \in PEs |->
                 IF said[q][1][1] = "row" THEN said[q][2][p] ELSE said[q][2]]>>]
  /\ said' = [p \in PEs |-> Nothing]
  /\ UNCHANGED <<config, pe>>

Chosen(p, backend) ==
  Local(p, [pe[p] EXCEPT !.pc = backend, !.backend = backend])

(* Where library_init goes with a communicator, or over the bootstrap      *)
(* network; it exits without a GPU, and with a communicator also without   *)
(* the MPI library or when heap handles could not be passed on.            *)
library_init(c) == IF c.allocator # "vmm_posix" /\ c.gpus # <<>> /\ c.mpi
                   THEN "start" ELSE "exited"
library_init_bootstrap(c) == IF c.gpus # <<>> THEN "start" ELSE "exited"

Library(p, over, pc) == [pe[p] EXCEPT !.over = over, !.pc = pc]

(* Over the bootstrap network, with a communicator of the job's ranks: the *)
(* world of MPI, or a group of it, for which MPI has to be running already *)
(* and the ranks have to learn each other's.                               *)
library_init_subcomm(p) ==
  LET c == config
  IN  \/ /\ \/ At(p, "init") /\ c.init = "uniqueid_with_mpi"
            \/ At(p, "ro") /\ pe[p].over = "bootstrap"
         /\ IF ~c.mpi \/ (~c.initialized /\ c.world_size # N) THEN Exit(p)
            ELSE IF c.world_size = N THEN Local(p, Library(p, "comm", library_init(c)))
            ELSE Enter(p, <<"ranks">>, 0, [pe[p] EXCEPT !.pc = "sub_comm"])
      \/ At(p, "sub_comm") /\ Local(p, Library(p, "comm", library_init(c)))

rocshmem_init(p) ==
  /\ At(p, "init") /\ config.init = "comm"
  /\ Local(p, Library(p, "comm", library_init(config)))
rocshmem_init_attr(p) ==
  \/ /\ At(p, "init") /\ config.init = "uniqueid"
     /\ Local(p, Library(p, "bootstrap", library_init_bootstrap(config)))
  \/ library_init_subcomm(p)

(* The IPC backend runs when all PEs share a node, the others when this PE *)
(* finds a device and a library.                                           *)
ipc_can_run(p) ==
  heard[p] # Nothing /\ \A q \in PEs : heard[p][1][q] = config.node[p]
select_backend_type(p) ==
  LET c == config
      ipc == ipc_can_run(p)
  IN  \/ /\ At(p, "start") /\ c.backend \in {"", "ipc"}
         /\ Enter(p, <<"node">>, c.node[p], [pe[p] EXCEPT !.pc = "node"])
      \/ /\ \/ At(p, "node")
            \/ At(p, "start") /\ c.backend \notin {"", "ipc"}
         /\ CASE ipc -> Chosen(p, "ipc")
              [] ~ipc /\ c.backend \in {"", "gda"} /\ gda_can_run(c) -> Chosen(p, "gda")
              [] ~ipc /\ c.backend = "" /\ ~gda_can_run(c) /\ c.mpi -> Chosen(p, "ro")
              [] ~ipc /\ c.backend = "ro" /\ c.mpi -> Chosen(p, "ro")
              [] OTHER -> Exit(p)

(* ROCSHMEM_TEAM_SHARED: the PEs that share this one's memory, if a start  *)
(* and a stride describe them.                                             *)
pes_with_ipc_avail(c, p) ==
  IF c.disable_ipc THEN <<>>
  ELSE InOrder({q \in PEs : c.node[q] = c.node[p]}, LAMBDA x, y : x < y)
SharedTeam(start, stride, size) ==
  <<[start |-> start, stride |-> stride, size |-> size]>>
setup_team_shared(c, p) ==
  LET pes == pes_with_ipc_avail(c, p)
      stride == IF Len(pes) > 1 THEN pes[2] - pes[1] ELSE 1
      uniform == \A i \in 3 .. Len(pes) : pes[i] - pes[i - 1] = stride
  IN  IF pes = <<>> \/ ~uniform THEN Nothing
      ELSE SharedTeam(pes[1], stride, Len(pes))
ipc_team_shared == SharedTeam(0, 1, N)

(* ROBackend makes its windows, which all PEs take part in. *)
StartRO(p) ==
  /\ At(p, "ro") /\ pe[p].over = "comm"
  /\ Enter(p, <<"windows">>, 0,
           With(pe[p], [pc |-> "windows", shared |-> setup_team_shared(config, p)]))

(* GDABackend::init up to its first barrier *)
StartGDA(p) ==
  LET c == config
  IN  /\ At(p, "gda")
      /\ \E names \in {select_nics(c, p)} :
           IF names = <<>> THEN Exit(p)
           ELSE Enter(p, <<"collectives">>, 0,
                  With(pe[p], [pc |-> "collectives",
                    nics |-> configure_nic_policy(c, names, qps_per_pe_default_ctx(c)),
                    pool |-> setup_collectives(setup_wrk_sync_buffer(c))]))

(* IPCBackend::setup_wrk_sync_buffers: the handles of the pools go round. *)
StartIPC(p) ==
  /\ At(p, "ipc")
  /\ Enter(p, <<"handles">>, <<"handle", p>>,
           With(pe[p], [pc |-> "handles", pool |-> setup_wrk_sync_buffer(config)]))

(* ... and are opened; rocshmem_collective_init *)
OpenPools(p) ==
  /\ At(p, "handles") /\ heard[p] # Nothing
  /\ Enter(p, <<"collectives">>, 0,
       With(pe[p], [pc |-> "collectives", pool |-> setup_collectives(pe[p].pool),
                    bases |-> [q \in PEs |-> IF q = p THEN p ELSE heard[p][1][q][2]]]))

Teams(p) ==
  /\ At(p, "collectives") /\ heard[p] # Nothing
  /\ Enter(p, <<"teams">>, 0, [pe[p] EXCEPT !.pc = "teams",
                                            !.pool = setup_teams(config, @)])

(* The IPC backend is now done; GDA meets once more. *)
World(p) ==
  /\ At(p, "teams") /\ heard[p] # Nothing
  /\ LET r == [pe[p] EXCEPT !.pool = setup_fence_buffer(@)]
     IN  IF pe[p].backend = "ipc"
         THEN Local(p, With([r EXCEPT !.pc = "ready"], [shared |-> ipc_team_shared]))
         ELSE Enter(p, <<"world">>, 0, [r EXCEPT !.pc = "world"])

NicOf(p, i) == pe[p].nics[ComputeNicIdxForQp(config, i, Len(pe[p].nics))]

QpArray(provider) == IF provider = "MLX5" THEN "mlx5_qps" ELSE "qps"

exchange_qp_dest_info(p, provider, arrays) ==
  [i \in Slots(config) |->
     With(Port(config, p, NicOf(p, i)),
          [qpn |-> <<p, arrays[QpArray(provider)][i]>>, psn |-> 0])]

(***************************************************************************)
(* A queue pair goes from RESET through INIT and RTR to RTS; the verbs     *)
(* library takes over all attributes, the DevX commands of mlx5 those that *)
(* belong to the transition.                                               *)
(***************************************************************************)
ibv_modify_qp(q, a) == With(q, a)

bit_log2(x) == CHOOSE k \in 0 .. 15 : 2 ^ k <= x /\ x < 2 ^ (k + 1)

mlx5_modify_qp_reset2init(q, a) == With(q, [state |-> "INIT", port |-> a.port])

(* The remote GID is set with a global route only, the LID for InfiniBand. *)
mlx5_modify_qp_init2rtr(q, a, type) ==
  With(q, [state |-> "RTR", dest |-> a.dest, rq_psn |-> a.rq_psn,
           path |-> IF (type = 3) = (a.path[1] = "lid") THEN a.path ELSE <<"none">>,
           max_dest_rd_atomic |-> 2 ^ bit_log2(a.max_dest_rd_atomic)])

mlx5_modify_qp_rtr2rts(q, a) ==
  With(q, [state |-> "RTS", sq_psn |-> a.sq_psn,
           max_rd_atomic |-> 2 ^ bit_log2(a.max_rd_atomic)])

mlx5_modify_qp(q, a, type) ==
  CASE a.state = "INIT" -> mlx5_modify_qp_reset2init(q, a)
    [] a.state = "RTR" -> mlx5_modify_qp_init2rtr(q, a, type)
    [] a.state = "RTS" -> mlx5_modify_qp_rtr2rts(q, a)

(* A step from the wrong state fails. *)
Transition(p, i, q, from, a) ==
  CASE q.state # from -> [q EXCEPT !.state = "ERR"]
    [] q.state = from /\ pe[p].provider = "MLX5" ->
         mlx5_modify_qp(q, a, gid_type(config, NicOf(p, i)))
    [] OTHER -> ibv_modify_qp(q, a)

rd_atomic(p) == IF pe[p].provider = "IONIC" THEN 15 ELSE 1

modify_qps_reset_to_init(p, qps) ==
  [i \in DOMAIN qps |->
     Transition(p, i, qps[i], "RESET", [state |-> "INIT", port |-> NicOf(p, i)])]

modify_qps_init_to_rtr(p, qps, dest) ==
  [i \in DOMAIN qps |->
     Transition(p, i, qps[i], "INIT",
       [state |-> "RTR", dest |-> dest[i].qpn, rq_psn |-> dest[i].psn,
        max_dest_rd_atomic |-> rd_atomic(p),
        path |-> IF Ethernet(config, NicOf(p, i)) THEN <<"gid", dest[i].gid>>
                 ELSE <<"lid", dest[i].lid>>])]

modify_qps_rtr_to_rts(p, qps, dest) ==
  [i \in DOMAIN qps |->
     Transition(p, i, qps[i], "RTR",
       [state |-> "RTS", sq_psn |-> dest[i].psn, max_rd_atomic |-> rd_atomic(p)])]

(* setup_ibv: libraries, devices, queues and what the peers need to know *)
open_ib_device(provider, nics) ==
  UNION {{<<<<"context", n>>, {}>>, <<<<"pd", n>>, {<<"context", n>>}>>}
           \cup (IF provider \in {"IONIC", "SHCA"} THEN create_parent_domain(provider, n)
                 ELSE {}) : n \in DOMAIN nics}

create_queues(c, provider, nics) ==
  UNION {LET n == ComputeNicIdxForQp(c, i, Len(nics))
         IN  CASE provider = "BNXT" -> bnxt_create_cqs(i, n) \cup bnxt_create_qps(i, n)
               [] provider = "IONIC" -> ionic_create_cqs(i, n) \cup create_qps(provider, i, n)
               [] provider = "MLX5" -> mlx5_create_qps(i, n)
               [] provider = "SHCA" -> create_cqs(i, n) \cup create_qps(provider, i, n) :
           i \in Slots(c)}

Row(f, r) == [q \in PEs |-> f[r * N + q]]

setup_ibv(p) ==
  LET c == config
      provider == open_dv_libs(c)
      nics == pe[p].nics
      bad(name) == \/ ~validate_ib_device(c, provider, name)
                   \/ select_gid_index(Device(c, name)[1], c.gid_index) = -1
      arrays == alternate_qp_ports(c, [a \in Arrays |-> [i \in Slots(c) |-> i]])
      dest == exchange_qp_dest_info(p, provider, arrays)
  IN  /\ At(p, "world") /\ heard[p] # Nothing
      /\ IF provider = "UNSET" \/ \E n \in DOMAIN nics : bad(nics[n])
         THEN Exit(p)
         ELSE Enter(p, <<"row", 0>>, Row(dest, 0),
                With(pe[p], [pc |-> "exchange", row |-> 0, provider |-> provider,
                             live |-> open_ib_device(provider, nics)
                                        \cup create_queues(c, provider, nics),
                             arrays |-> arrays, dest |-> dest]))

(* One row of addresses arrives; after the last one every queue pair is    *)
(* brought to RTS.                                                         *)
Exchange(p) ==
  LET r == pe[p].row
      dest == [i \in Slots(config) |->
                 IF i \div N = r THEN heard[p][1][i % N] ELSE pe[p].dest[i]]
      s == [pe[p] EXCEPT !.dest = dest, !.row = r + 1]
      reset == [i \in Slots(config) |->
                  [qp |-> s.arrays[QpArray(s.provider)][i], state |-> "RESET"]]
      rtr == modify_qps_init_to_rtr(p, modify_qps_reset_to_init(p, reset), dest)
  IN  /\ At(p, "exchange") /\ heard[p] # Nothing
      /\ IF r + 1 < Rows(config)
         THEN Enter(p, <<"row", r + 1>>, Row(dest, r + 1), s)
         ELSE Enter(p, <<"connected">>, 0,
                    With([s EXCEPT !.pc = "connected"],
                         [qps |-> modify_qps_rtr_to_rts(p, rtr, dest)]))

(* One memory region per NIC for the heap; the keys go round. *)
setup_heap_memory_rkey(p) ==
  LET nics == pe[p].nics
  IN  /\ At(p, "connected") /\ heard[p] # Nothing
      /\ Enter(p, <<"rkeys">>, [n \in DOMAIN nics |-> <<p, n>>],
           [pe[p] EXCEPT !.pc = "rkeys",
              !.live = @ \cup {<<<<"mr", n>>, {<<"pd", n>>}>> : n \in DOMAIN nics}])

(***************************************************************************)
(* The queue pairs as the GPU sees them: the queue pair, its completion    *)
(* queue and how many entries that has, its doorbell and the keys.         *)
(***************************************************************************)
bnxt_initialize_gpu_qp(a, i) ==
  [qp |-> a.qps[i], sq |-> <<"sq", "buf", a.bnxt_qps[i]>>,
   cq |-> <<"scq", a.bnxt_scqs[i]>>, cqes |-> 1, db |-> <<"dbr", a.bnxt_qps[i]>>]

ionic_initialize_gpu_qp(a, i) ==
  [qp |-> a.qps[i], sq |-> <<"qp", a.qps[i]>>, cq |-> <<"cq", a.cqs[i]>>,
   cqes |-> 2 * config.sq_size, db |-> <<"qp", a.qps[i]>>]

mlx5_initialize_gpu_qp(a, i) ==
  [qp |-> a.mlx5_qps[i], sq |-> <<"umem", a.mlx5_qps[i]>>,
   cq |-> <<"cq", a.mlx5_qps[i]>>, cqes |-> 1, db |-> <<"uar", a.mlx5_qps[i]>>]

shca_initialize_gpu_qp(a, i) ==
  [qp |-> a.qps[i], sq |-> <<"qp", a.qps[i]>>, cq |-> <<"cq", a.cqs[i]>>,
   cqes |-> config.sq_size, db |-> <<"qp", a.qps[i]>>]

initialize_gpu_qp(p, i) ==
  CASE pe[p].provider = "BNXT" -> bnxt_initialize_gpu_qp(pe[p].arrays, i)
    [] pe[p].provider = "IONIC" -> ionic_initialize_gpu_qp(pe[p].arrays, i)
    [] pe[p].provider = "MLX5" -> mlx5_initialize_gpu_qp(pe[p].arrays, i)
    [] pe[p].provider = "SHCA" -> shca_initialize_gpu_qp(pe[p].arrays, i)

setup_gpu_qps(p) ==
  LET idx(i) == ComputeNicIdxForQp(config, i, Len(pe[p].nics))
      keys(i) == [lkey |-> <<p, idx(i)>>, rkey |-> heard[p][1][i % N][idx(i)],
                  base |-> i % N, slice |-> <<i % N, idx(i)>>]
  IN  /\ At(p, "rkeys") /\ heard[p] # Nothing
      /\ Enter(p, <<"ready">>, 0,
           With([pe[p] EXCEPT !.pc = "contexts"],
             [gpu |-> [i \in Slots(config) |-> With(initialize_gpu_qp(p, i), keys(i))],
              shared |-> setup_team_shared(config, p)]))

Ready(p) ==
  /\ At(p, "contexts") /\ heard[p] # Nothing
  /\ Local(p, [pe[p] EXCEPT !.pc = "ready"])

(* ~GDABackend; a doorbell region goes back to the context of its slot. *)
cleanup_heap_memory_rkey(s) ==
  ReleaseAll(s, [n \in DOMAIN s.nics |-> <<"mr", n>>])

cleanup_ibv(s) ==
  LET idx(i) == ComputeNicIdxForQp(config, i, Len(s.nics))
      stray == /\ s.provider = "BNXT"
               /\ \E i \in Slots(config) : idx(i) # idx(s.arrays.bnxt_qps[i])
      queues == FoldLeft(LAMBDA r, i : ReleaseAll(r, QueueReleases(s.provider, s.arrays, i - 1)),
                         s, [i \in 1 .. Cardinality(Slots(config)) |-> i])
      all == FoldLeft(LAMBDA r, n : ReleaseAll(r, DeviceReleases(s.provider, n)),
                      queues, [n \in DOMAIN s.nics |-> n])
  IN  [all EXCEPT !.refused = @ \/ stray]

Destroy(p) ==
  /\ At(p, "ready")
  /\ LET s == [pe[p] EXCEPT !.pc = "closed"]
     IN  Local(p, IF s.backend = "ipc" THEN s
                  ELSE cleanup_ibv(cleanup_heap_memory_rkey(s)))

Next ==
  \/ Collective
  \/ \E p \in PEs :
       \/ rocshmem_init(p) \/ rocshmem_init_attr(p)
       \/ select_backend_type(p) \/ StartRO(p)
       \/ StartGDA(p) \/ StartIPC(p) \/ OpenPools(p)
       \/ Teams(p) \/ World(p) \/ setup_ibv(p) \/ Exchange(p)
       \/ setup_heap_memory_rkey(p) \/ setup_gpu_qps(p) \/ Ready(p) \/ Destroy(p)

(***************************************************************************)
(* Properties.                                                             *)
(***************************************************************************)
(* The work and sync arrays do not overlap, lie within the pool, and all   *)
(* but the fence array, whose elements are 32 bits wide, are 8-byte        *)
(* aligned, whatever the number of PEs and of teams.                       *)
PoolIsCarved(p) ==
  "pool" \in DOMAIN pe[p] =>
    LET r == pe[p].pool.regions
    IN  /\ \A i, j \in DOMAIN r : i < j => r[i].to <= r[j].from
        /\ \A i \in DOMAIN r : /\ r[i].to <= pe[p].pool.size
                               /\ r[i].name # "fence" => r[i].from % 8 = 0

(* When a PE's initialisation returns, every PE's sync words are set and   *)
(* it holds the pool of every peer: nothing a kernel writes can be         *)
(* overwritten by a peer's initialisation.                                 *)
EveryoneIsInitialised(p) ==
  pe[p].pc = "ready" =>
    \A q \in PEs :
      /\ pe[q].backend = pe[p].backend
      /\ {"barrier_sync", "barrier_pSync", "reduce_pSync", "bcast_pSync",
          "alltoall_pSync"} \subseteq pe[q].pool.ready
      /\ pe[p].backend = "ipc" => pe[p].bases[q] = q

(* ROCSHMEM_TEAM_SHARED holds the PEs of this one's node and no other; it  *)
(* is missing only when sharing is off or no team of a start and a stride  *)
(* holds just those.                                                       *)
SharedTeamIsTheNode(p) ==
  "shared" \in DOMAIN pe[p] =>
    LET node == {q \in PEs : config.node[q] = config.node[p]}
        members(a, b, n) == {a + b * i : i \in 0 .. n - 1}
    IN  IF pe[p].shared # Nothing
        THEN LET t == pe[p].shared[1] IN members(t.start, t.stride, t.size) = node
        ELSE config.disable_ipc \/
             \A a \in PEs, b, n \in 1 .. N : members(a, b, n) # node

(* When a PE's initialisation returns, each of its queue pairs is ready to *)
(* send to the peer's queue pair of the same row, by the address of the    *)
(* NIC that holds it, and the peer's back to it; packet numbers and        *)
(* outstanding reads agree.  The rings, doorbell, keys, heap base and      *)
(* registration slice the GPU uses belong to those queue pairs and NICs,   *)
(* and a completion queue that is not one compressed entry has one for     *)
(* every work request.                                                     *)
QueuePairsAreWired(p) ==
  pe[p].pc = "ready" /\ pe[p].backend = "gda" =>
    \A i \in Slots(config) :
      LET q == i % N
          j == (i \div N) * N + p
          at(x, m) == ComputeNicIdxForQp(config, m, Len(pe[x].nics))
          mine == pe[p].qps[i]
          its == pe[q].qps[j]
          ends(x, u, y, v) ==
            LET port == Port(config, y, NicOf(y, v.qp))
            IN  /\ u.state = "RTS" /\ u.port = NicOf(x, u.qp) /\ u.dest = <<y, v.qp>>
                /\ u.path = (IF Ethernet(config, u.port) THEN <<"gid", port.gid>>
                             ELSE <<"lid", port.lid>>)
                /\ u.sq_psn = v.rq_psn /\ u.max_rd_atomic <= v.max_dest_rd_atomic
          g == pe[p].gpu[i]
      IN  /\ ends(p, mine, q, its) /\ ends(q, its, p, mine)
          /\ g.qp = mine.qp /\ {Last(g.sq), Last(g.cq), Last(g.db)} = {mine.qp}
          /\ g.cqes = 1 \/ g.cqes >= config.sq_size
          /\ g.lkey = <<p, at(p, mine.qp)>> /\ g.rkey = <<q, at(q, its.qp)>>
          /\ g.base = q /\ g.slice = <<q, at(p, mine.qp)>>

(* The contexts share out the queue pairs, each has one row or more for    *)
(* every peer, and with PER_CONTEXT it stays on one NIC.                   *)
ContextsShareQueuePairs(p) ==
  "gpu" \in DOMAIN pe[p] =>
    LET ids == 0 .. (IF config.qps_usr = 0 THEN 0 ELSE config.contexts)
        idx(i) == ComputeNicIdxForQp(config, i, Len(pe[p].nics))
    IN  /\ UNION {ContextSlots(config, k) : k \in ids} = Slots(config)
        /\ \A k, m \in ids : k # m => ContextSlots(config, k) \cap ContextSlots(config, m) = {}
        /\ config.policy = "PER_CONTEXT" =>
             \A k \in ids : \A i, j \in ContextSlots(config, k) : idx(i) = idx(j)

(* The parts of an mlx5 queue pair's buffer do not overlap, and the queue  *)
(* is a power of two no shorter than the one asked for.                    *)
UmemPartsAreApart(p) ==
  "provider" \in DOMAIN pe[p] /\ pe[p].provider = "MLX5" =>
    LET u == mlx5_qp_umem_alloc_info(config.sq_size)
    IN  /\ u.cq_offset + 128 <= u.qp_dbrec_offset
        /\ u.sq_depth * 64 <= u.cq_offset
        /\ u.sq_depth >= config.sq_size
        /\ u.sq_depth = bit_ceil(u.sq_depth)

(* A NIC the topology chose is up and allowed; and two GPUs of a node      *)
(* share one, by PCIe distance, only when every such NIC is taken.         *)
NicsAreSpread(p) ==
  LET c == config
      d == [c EXCEPT !.devs = GetIbvDeviceList(c)]
      usable == {d.devs[i].name : i \in {j \in DOMAIN d.devs : BuildFilteredNicAddresses(d)[j] # 0}}
      auto == c.requested_nic = "" /\ c.force_merge = <<>> /\ c.topo_file = <<>>
      peers == {q \in PEs : c.node[q] = c.node[p] /\ "nics" \in DOMAIN pe[q]}
  IN  "nics" \in DOMAIN pe[p] /\ auto =>
        /\ Range(pe[p].nics) \subseteq usable
        /\ ~c.merge_nics /\ ~c.autotopo =>
             \A q \in peers :
               c.gpu[q] # c.gpu[p] /\ pe[q].nics = pe[p].nics =>
                 Cardinality(usable) < Len(c.gpus)

(* Every release succeeds and a closed backend holds nothing: queue pairs  *)
(* go before their completion queues, memory before its registration ends, *)
(* protection domains last.                                                *)
EverythingIsReleased(p) ==
  ~pe[p].refused /\ (pe[p].pc = "closed" => pe[p].live = {})

(* A job comes up whole: all of the above, on every PE. *)
SetupIsSound ==
  \A p \in PEs :
    /\ PoolIsCarved(p) /\ EveryoneIsInitialised(p) /\ SharedTeamIsTheNode(p)
    /\ QueuePairsAreWired(p)
    /\ ContextsShareQueuePairs(p) /\ UmemPartsAreApart(p) /\ NicsAreSpread(p)
    /\ EverythingIsReleased(p)
=============================================================================
