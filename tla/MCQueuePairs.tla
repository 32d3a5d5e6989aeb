---------------------------- MODULE MCQueuePairs ----------------------------
(***************************************************************************)
(* The queues a kernel posts to, on small instances: the queue pairs of    *)
(* the providers (those of mlx5 here only with data-path posts, see        *)
(* MCMlx5Queue) and the command rings of the reverse-offload backend (all  *)
(* its commands are in MCROProxy).  A behaviour chooses one of them, as    *)
(* the library does, and a way to use it at the start; the variables of    *)
(* the others keep their initial values.                                   *)
(***************************************************************************)
EXTENDS TLC

CONSTANTS Waves, NoWave, NoBuffer

VARIABLES
    use,        \* the provider, and the operations it is used for
    lock, post, rung, done, cqe, buf, fetching_atomic_idx, fetching_atomic, wv,
    tail, flags, psn, msn, msntbl, con_indx, posted, bnxt_lock, bnxt_buf,
    bnxt_fetching_atomic_idx, bnxt_fetching_atomic, bnxt_rung, bnxt_done,
    bnxt_wv,
    sq_posted, sq_db_touched, sq_sunk, quiet_posted, quiet_active,
    quiet_completed, cq_consumer, fetched, shca_sq_lock, shca_sq_buf,
    shca_cq_buf, shca_freelist, shca_rung, shca_done, shca_wv,
    sq_prod, sq_dbprod, sq_msn, cq_pos, cq_dbpos, cq_lock, cq_prod, cq_seen,
    ionic_sq_lock, ionic_sq_buf, ionic_cq_buf, ionic_freelist,
    ionic_fetching_atomic, ionic_rung, ionic_done, ionic_wv,
    write_index, read_index, ring_lock, ring, host_read_index, wave, lane,
    raised, pool, cpu, q, requests, outstanding, waiting_quiet

bnxtvars == <<tail, flags, psn, msn, msntbl, con_indx, posted, bnxt_lock,
              bnxt_buf, bnxt_fetching_atomic_idx, bnxt_fetching_atomic,
              bnxt_rung, bnxt_done, bnxt_wv>>
shcavars == <<sq_posted, sq_db_touched, sq_sunk, quiet_posted, quiet_active,
              quiet_completed, cq_consumer, fetched, shca_sq_lock,
              shca_sq_buf, shca_cq_buf, shca_freelist, shca_rung, shca_done,
              shca_wv>>
ionicvars == <<sq_prod, sq_dbprod, sq_msn, cq_pos, cq_dbpos, cq_lock, cq_prod,
               cq_seen, ionic_sq_lock, ionic_sq_buf, ionic_cq_buf,
               ionic_freelist, ionic_fetching_atomic, ionic_rung, ionic_done,
               ionic_wv>>
mlx5vars == <<lock, post, rung, done, cqe, buf, fetching_atomic_idx,
              fetching_atomic, wv>>
rovars == <<write_index, read_index, ring_lock, ring, host_read_index, wave,
            lane, raised, pool, cpu, q, requests, outstanding, waiting_quiet>>
allvars == <<use, mlx5vars, bnxtvars, shcavars, ionicvars, rovars>>

Mlx5 == INSTANCE Mlx5Queue WITH
    Depth <- 4, CtrMod <- 8, Lanes <- {1}, FetchCnt <- 2,
    Ops <- {"rma", "dp", "quiet"}, MaxPost <- 3

Bnxt == INSTANCE BnxtQueue WITH
    NWqe <- 5, SlotCount <- 3, MsnTblSz <- 5, PsnMod <- 8, Mtu <- 2,
    Lengths <- {0, 3}, Lanes <- {1, 2}, FetchCnt <- 3,
    Ops <- {"put", "fetch"}, MaxPost <- 3,
    lock <- bnxt_lock, buf <- bnxt_buf, rung <- bnxt_rung, done <- bnxt_done,
    fetching_atomic_idx <- bnxt_fetching_atomic_idx,
    fetching_atomic <- bnxt_fetching_atomic, wv <- bnxt_wv

Shca(ops) == INSTANCE ShcaQueue WITH
    sq_wqe_cnt <- 3, cq_cnt <- 2, Lanes <- {1, 2}, Buffers <- {1},
    Ops <- ops, MaxPost <- 3,
    sq_lock <- shca_sq_lock, sq_buf <- shca_sq_buf, cq_buf <- shca_cq_buf,
    freelist <- shca_freelist, rung <- shca_rung, done <- shca_done,
    wv <- shca_wv

(* SHCA operations of whole wavefronts, and of single lanes.               *)
ByWave == {"rma", "amo", "quiet"}
ByLane == {"rma_single", "amo_single", "quiet_single"}

(* ionic queue pairs with a completion queue ...                           *)
Ionic == INSTANCE IonicQueue WITH
    SqSize <- 4, CqSize <- 8, MsnMod <- 16, CqGrace <- 2, Lanes <- {1, 2},
    Buffers <- <<1, 2>>, Ops <- {"rma", "amo", "quiet"}, MaxPost <- 4,
    sq_lock <- ionic_sq_lock, sq_buf <- ionic_sq_buf, cq_buf <- ionic_cq_buf,
    freelist <- ionic_freelist, fetching_atomic <- ionic_fetching_atomic,
    rung <- ionic_rung, done <- ionic_done, wv <- ionic_wv

(* ... and with one collapsed entry, used by single lanes.                 *)
IonicCollapsed == INSTANCE IonicQueue WITH
    SqSize <- 4, CqSize <- 1, MsnMod <- 8, CqGrace <- 2, Lanes <- {1},
    Buffers <- <<1, 2>>, Ops <- {"single", "quiet"}, MaxPost <- 4,
    sq_lock <- ionic_sq_lock, sq_buf <- ionic_sq_buf, cq_buf <- ionic_cq_buf,
    freelist <- ionic_freelist, fetching_atomic <- ionic_fetching_atomic,
    rung <- ionic_rung, done <- ionic_done, wv <- ionic_wv

(* Command rings of one element: two wavefronts on the default context,    *)
(* one of which also uses a context of its own, and two status buffers.    *)
RO == INSTANCE ROProxy WITH
    Waves <- {"w1", "w2"}, Lanes <- 1, Handles <- {"default", "ctx1"},
    HandlesOf <- ("w1" :> {"default", "ctx1"} @@ "w2" :> {"default"}),
    DefaultHandles <- {"default"}, NumRings <- 2,
    RingOf <- ("default" :> 0 @@ "ctx1" :> 1), QueueSize <- 1,
    Buffers <- {"b1", "b2"}, Types <- {"PUT_NBI", "QUIET"}, Comms <- {},
    MaxWrites <- 2, PollMax <- 1, TestWindow <- 1, NumPes <- 2,
    lock <- ring_lock

ASSUME RO!SizesAssumption /\ RO!HandlesAssumption
ASSUME Bnxt!BnxtAssumption /\ Shca(ByWave)!ShcaAssumption
    /\ Ionic!IonicAssumption /\ IonicCollapsed!IonicAssumption

(* The variables of a queue that is not used have no value.                *)
Mlx5Unused ==
    /\ lock = <<>> /\ post = <<>> /\ rung = <<>> /\ done = <<>> /\ cqe = <<>>
    /\ buf = <<>> /\ fetching_atomic_idx = <<>> /\ fetching_atomic = <<>>
    /\ wv = <<>>
BnxtUnused ==
    /\ tail = <<>> /\ flags = <<>> /\ psn = <<>> /\ msn = <<>>
    /\ msntbl = <<>> /\ con_indx = <<>> /\ posted = <<>> /\ bnxt_lock = <<>>
    /\ bnxt_buf = <<>> /\ bnxt_fetching_atomic_idx = <<>>
    /\ bnxt_fetching_atomic = <<>> /\ bnxt_rung = <<>> /\ bnxt_done = <<>>
    /\ bnxt_wv = <<>>
ShcaUnused ==
    /\ sq_posted = <<>> /\ sq_db_touched = <<>> /\ sq_sunk = <<>>
    /\ quiet_posted = <<>> /\ quiet_active = <<>> /\ quiet_completed = <<>>
    /\ cq_consumer = <<>> /\ fetched = <<>> /\ shca_sq_lock = <<>>
    /\ shca_sq_buf = <<>> /\ shca_cq_buf = <<>> /\ shca_freelist = <<>>
    /\ shca_rung = <<>> /\ shca_done = <<>> /\ shca_wv = <<>>
IonicUnused ==
    /\ sq_prod = <<>> /\ sq_dbprod = <<>> /\ sq_msn = <<>> /\ cq_pos = <<>>
    /\ cq_dbpos = <<>> /\ cq_lock = <<>> /\ cq_prod = <<>> /\ cq_seen = <<>>
    /\ ionic_sq_lock = <<>> /\ ionic_sq_buf = <<>> /\ ionic_cq_buf = <<>>
    /\ ionic_freelist = <<>> /\ ionic_fetching_atomic = <<>>
    /\ ionic_rung = <<>> /\ ionic_done = <<>> /\ ionic_wv = <<>>
ROUnused ==
    /\ write_index = <<>> /\ read_index = <<>> /\ ring_lock = <<>>
    /\ ring = <<>> /\ host_read_index = <<>> /\ wave = <<>> /\ lane = <<>>
    /\ raised = <<>> /\ pool = <<>> /\ cpu = <<>> /\ q = <<>>
    /\ requests = <<>> /\ outstanding = <<>> /\ waiting_quiet = <<>>

ProvidersInit ==
    /\ use \in {"mlx5_dp", "bnxt", "shca", "shca_single", "ionic",
                "ionic_collapsed", "ro"}
    /\ \/ use = "mlx5_dp" /\ Mlx5!Init
       \/ use # "mlx5_dp" /\ Mlx5Unused
    /\ \/ use = "bnxt" /\ Bnxt!Init
       \/ use # "bnxt" /\ BnxtUnused
    /\ \/ use \in {"shca", "shca_single"} /\ Shca(ByWave)!Init
       \/ use \notin {"shca", "shca_single"} /\ ShcaUnused
    /\ \/ use = "ionic" /\ Ionic!Init
       \/ use = "ionic_collapsed" /\ IonicCollapsed!Init
       \/ use \notin {"ionic", "ionic_collapsed"} /\ IonicUnused
    /\ \/ use = "ro" /\ RO!Init
       \/ use # "ro" /\ ROUnused

Mlx5Step ==
    /\ use = "mlx5_dp" /\ Mlx5!Next
    /\ UNCHANGED <<use, bnxtvars, shcavars, ionicvars, rovars>>
BnxtStep ==
    /\ use = "bnxt" /\ Bnxt!Next
    /\ UNCHANGED <<use, mlx5vars, shcavars, ionicvars, rovars>>
ShcaStep ==
    /\ \/ use = "shca" /\ Shca(ByWave)!Next
       \/ use = "shca_single" /\ Shca(ByLane)!Next
    /\ UNCHANGED <<use, mlx5vars, bnxtvars, ionicvars, rovars>>
IonicStep ==
    /\ \/ use = "ionic" /\ Ionic!Next
       \/ use = "ionic_collapsed" /\ IonicCollapsed!Next
    /\ UNCHANGED <<use, mlx5vars, bnxtvars, shcavars, rovars>>
ROStep ==
    /\ use = "ro" /\ RO!Next
    /\ UNCHANGED <<use, mlx5vars, bnxtvars, shcavars, ionicvars>>

ProvidersSpec ==
    /\ ProvidersInit
    /\ [][Mlx5Step \/ BnxtStep \/ ShcaStep \/ IonicStep \/ ROStep]_allvars

Symmetry == Permutations(Waves)
-----------------------------------------------------------------------------
OnShca == use \in {"shca", "shca_single"}
OnIonic == use \in {"ionic", "ionic_collapsed"}

(* The variables of every provider have their types.                       *)
ProvidersTypeOK ==
    /\ use = "mlx5_dp" => Mlx5!TypeOK
    /\ use = "bnxt" => Bnxt!TypeOK
    /\ OnShca => Shca(ByWave)!TypeOK
    /\ OnIonic => Ionic!TypeOK

(* No post overwrites a WQE the adapter has still to execute (ionic: to    *)
(* complete), although wavefronts draw their places in the queue before    *)
(* they know that there is room, and no two hold the same SHCA ticket; and *)
(* next_write_slot never hands out the slot of an RO command the worker    *)
(* thread has not taken, although the GPU only sees a stale read_index.    *)
WqesIntact ==
    /\ use = "bnxt" => Bnxt!PostedIntact
    /\ OnIonic => Ionic!NoOverwrite
    /\ OnShca => Shca(ByWave)!PostedIntact /\ Shca(ByWave)!TicketsDisjoint
    /\ use = "ro" => RO!NoElementOverwritten

(* Quiet and the wait of a blocking operation return only when what the    *)
(* caller posted before is complete, the non-blocking commands of an RO    *)
(* context included (for mlx5, with data-path posts); and an RO quiet that *)
(* was put aside has a request of its own context left to answer it.       *)
QuietCompletes ==
    /\ use = "mlx5_dp" => Mlx5!QuietCompletes
    /\ use = "bnxt" => Bnxt!QuietCompletes
    /\ OnShca => Shca(ByWave)!QuietCompletes
    /\ OnIonic => Ionic!QuietCompletes
    /\ use = "ro" => RO!QuietCoversEarlierCommands /\ RO!QuietIsNeverStranded

(* A fetching atomic of SHCA or ionic returns the value its own WQE        *)
(* brought, although the result buffers are shared.                        *)
ReturnIsOwn ==
    /\ OnShca => Shca(ByWave)!ReturnIsOwn
    /\ OnIonic => Ionic!ReturnIsOwn

(* What an adapter relies on: bnxt's table of packet numbers covers every  *)
(* WQE that may have to be sent again, empty messages included; quiets of  *)
(* whole wavefronts account for every CQE of SHCA once; ionic never gets   *)
(* to execute a WQE of the previous lap, though a doorbell may announce    *)
(* WQEs that are not yet written; and the worker thread takes the RO       *)
(* commands of a ring in the order of their write indices, each once,      *)
(* however late the lanes publish them.                                    *)
AdapterStateInOrder ==
    /\ use = "bnxt" => Bnxt!MsnTableCovers
    /\ use = "shca" => Shca(ByWave)!CountersInOrder
    /\ OnIonic => Ionic!ExecutesInOrder
    /\ use = "ro" => RO!TakenInOrder
=============================================================================
