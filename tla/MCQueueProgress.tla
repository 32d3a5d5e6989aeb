-------------------------- MODULE MCQueueProgress ---------------------------
(***************************************************************************)
(* The queue pairs of MCQueuePairs used so that they fill up, under fair   *)
(* scheduling: does every wait end?                                        *)
(***************************************************************************)
EXTENDS MCQueuePairs

BnxtLive == INSTANCE BnxtQueue WITH
    NWqe <- 5, SlotCount <- 3, MsnTblSz <- 5, PsnMod <- 8, Mtu <- 2,
    Lengths <- {0}, Lanes <- {1}, FetchCnt <- 3,
    Ops <- {"put", "single", "quiet"}, MaxPost <- 5,
    lock <- bnxt_lock, buf <- bnxt_buf, rung <- bnxt_rung, done <- bnxt_done,
    fetching_atomic_idx <- bnxt_fetching_atomic_idx,
    fetching_atomic <- bnxt_fetching_atomic, wv <- bnxt_wv

ShcaLive == INSTANCE ShcaQueue WITH
    sq_wqe_cnt <- 2, cq_cnt <- 2, Lanes <- {1}, Buffers <- {1},
    Ops <- ByWave, MaxPost <- 2,
    sq_lock <- shca_sq_lock, sq_buf <- shca_sq_buf, cq_buf <- shca_cq_buf,
    freelist <- shca_freelist, rung <- shca_rung, done <- shca_done,
    wv <- shca_wv

IonicLive == INSTANCE IonicQueue WITH
    SqSize <- 2, CqSize <- 4, MsnMod <- 16, CqGrace <- 2,
    Lanes <- {1}, Buffers <- <<1, 2>>, Ops <- {"rma", "amo", "quiet"},
    MaxPost <- 4,
    sq_lock <- ionic_sq_lock, sq_buf <- ionic_sq_buf, cq_buf <- ionic_cq_buf,
    freelist <- ionic_freelist, fetching_atomic <- ionic_fetching_atomic,
    rung <- ionic_rung, done <- ionic_done, wv <- ionic_wv

ProgressInit ==
    /\ use \in {"bnxt", "shca", "ionic"}
    /\ BnxtLive!Init /\ ShcaLive!Init /\ IonicLive!Init
    /\ Mlx5Unused /\ ROUnused

Bnxt_(A) ==
    /\ use = "bnxt" /\ A
    /\ UNCHANGED <<use, mlx5vars, shcavars, ionicvars, rovars>>
Shca_(A) ==
    /\ use = "shca" /\ A
    /\ UNCHANGED <<use, mlx5vars, bnxtvars, ionicvars, rovars>>
Ionic_(A) ==
    /\ use = "ionic" /\ A
    /\ UNCHANGED <<use, mlx5vars, bnxtvars, shcavars, rovars>>

ProgressNext ==
    Bnxt_(BnxtLive!Next) \/ Shca_(ShcaLive!Next) \/ Ionic_(IonicLive!Next)

(* The adapter executes what it was told of.                               *)
AdapterStep ==
    \/ Bnxt_(BnxtLive!Complete) \/ Shca_(ShcaLive!Complete)
    \/ Ionic_(IonicLive!Complete)

(* A wavefront inside an operation goes on; a put without doorbell is      *)
(* followed by the atomic that rings it.                                   *)
WaveStep(w) ==
    \/ Bnxt_(BnxtLive!Advance(w)) \/ Shca_(ShcaLive!Step(w))
    \/ Ionic_(IonicLive!Advance(w))
    \/ ~bnxt_wv[w].ring /\ Bnxt_(BnxtLive!bnxt_post_wqe_amo_single(w))

ProgressSpec ==
    /\ ProgressInit /\ [][ProgressNext]_allvars
    /\ WF_allvars(AdapterStep)
    /\ \A w \in Waves : WF_allvars(WaveStep(w))
-----------------------------------------------------------------------------
InOperation(w) ==
    \/ bnxt_wv[w].pc # "idle" \/ ~bnxt_wv[w].ring
    \/ shca_wv[w].pc # "idle" \/ ionic_wv[w].pc # "idle"

(* Every post and every quiet ends: no wait for room, for a turn at the    *)
(* doorbell, for a result buffer or for completions hangs.                 *)
EveryOperationEnds == \A w \in Waves : InOperation(w) ~> ~InOperation(w)

(* ionic: consumed CQEs are announced often enough that a completion       *)
(* always finds room (poll_wave_cqes, "avoid cq full").                    *)
IonicCqNeverFull == IonicLive!CqNeverFull
=============================================================================
