-------------------------- MODULE MCSynchronisation --------------------------
(***************************************************************************)
(* What threads, blocks and PEs wait for each other with.  On one device,  *)
(* used by the same few wavefronts or blocks: the block mutex, the         *)
(* wavefront queue and the free list, which both rely on the mutex being a *)
(* FifoLock, and the notifier.  Between PEs: the barriers of IPC with a    *)
(* word per member and with counted arrivals, and the three forms of GDA.  *)
(* A behaviour uses one of them.                                           *)
(***************************************************************************)
EXTENDS ABQLBlockMutex, Team, Sequences

CONSTANTS Buffer1, Buffer2, NoBuf

VARIABLES
    use,
    head_, tail_, curr_size_, queue_, dequeue_mutex_, enqueue_mutex_,
    contents, queue_pc, queue_buf,
    list_head_, list_tail_, deallocated_nodes_, data, next, mutex_, freed,
    list_pc, list_buf,
    signal_, count_, done, block_entered, block_left, block_pc,
    ipc_pSync, ipc_pc, ipc_i, ipc_entered, ipc_left,
    gda_pSync, flight, gda_pc, gda_i, gda_entered, gda_left

queuevars == <<head_, tail_, curr_size_, queue_, dequeue_mutex_,
               enqueue_mutex_, contents, queue_pc, queue_buf>>
listvars == <<list_head_, list_tail_, deallocated_nodes_, data, next, mutex_,
              freed, list_pc, list_buf>>
notifiervars == <<signal_, count_, done, block_entered, block_left, block_pc>>
ipcvars == <<ipc_pSync, ipc_pc, ipc_i, ipc_entered, ipc_left>>
gdavars == <<gda_pSync, flight, gda_pc, gda_i, gda_entered, gda_left>>
allvars == <<use, vars, queuevars, listvars, notifiervars, ipcvars, gdavars>>

Queue == INSTANCE AtomicWFQueue WITH
    Waves <- Threads, Buffers <- <<Buffer1, Buffer2>>,
    pc <- queue_pc, buf <- queue_buf

List == INSTANCE FreeList WITH
    Waves <- Threads, Buffers <- <<Buffer1, Buffer2>>,
    head_ <- list_head_, tail_ <- list_tail_, pc <- list_pc, buf <- list_buf

Notifier == INSTANCE NotifierSync WITH
    Blocks <- Threads, SigMod <- 2, MaxSync <- 5, pc <- block_pc,
    entered <- block_entered, left <- block_left

Ipc == INSTANCE IPCBarrier WITH
    pSync <- ipc_pSync, pc <- ipc_pc, i <- ipc_i,
    entered <- ipc_entered, left <- ipc_left

Counted == INSTANCE IPCBarrier WITH
    DirectLimit <- 2, pSync <- ipc_pSync, pc <- ipc_pc, i <- ipc_i,
    entered <- ipc_entered, left <- ipc_left

(* The wavefronts of a work-group share the root's loops only in the wg    *)
(* form, whose values travel in the work requests.                         *)
Gda(limit, wg) == INSTANCE GDABarrier WITH
    World <- 5, PE_start <- 1, Stride <- 1, N <- 4, DirectLimit <- limit,
    Wg <- wg, Wfs <- 2, Inline <- wg, pSync <- gda_pSync, pc <- gda_pc,
    i <- gda_i, entered <- gda_entered, left <- gda_left

ASSUME Queue!WFQueueAssumption /\ List!FreeListAssumption
ASSUME Notifier!NotifierAssumption
ASSUME \A wg \in BOOLEAN : Gda(64, wg)!GDAAssumption

Uses == {"mutex", "queue", "list", "notifier", "ipc", "ipc_counted", "gda",
         "gda_wg", "gda_counted"}

SyncInit ==
    /\ use \in Uses
    /\ Init /\ Queue!Init /\ List!Init /\ Notifier!Init
    /\ Ipc!Init /\ Gda(64, FALSE)!Init

Using(u, A) == use = u /\ A /\ UNCHANGED use
Mutex_(A) ==
    /\ Using("mutex", A)
    /\ UNCHANGED <<queuevars, listvars, notifiervars, ipcvars, gdavars>>
Queue_(A) ==
    /\ Using("queue", A)
    /\ UNCHANGED <<vars, listvars, notifiervars, ipcvars, gdavars>>
List_(A) ==
    /\ Using("list", A)
    /\ UNCHANGED <<vars, queuevars, notifiervars, ipcvars, gdavars>>
Notifier_(A) ==
    /\ Using("notifier", A)
    /\ UNCHANGED <<vars, queuevars, listvars, ipcvars, gdavars>>
Ipc_(form, A) ==
    /\ Using(form, A)
    /\ UNCHANGED <<vars, queuevars, listvars, notifiervars, gdavars>>
Gda_(form, A) ==
    /\ Using(form, A)
    /\ UNCHANGED <<vars, queuevars, listvars, notifiervars, ipcvars>>

SyncNext ==
    \/ Mutex_(Next) \/ Queue_(Queue!Next) \/ List_(List!Next)
    \/ Notifier_(Notifier!Next)
    \/ Ipc_("ipc", Ipc!Next) \/ Ipc_("ipc_counted", Counted!Next)
    \/ Gda_("gda", Gda(64, FALSE)!Next) \/ Gda_("gda_wg", Gda(64, TRUE)!Next)
    \/ Gda_("gda_counted", Gda(2, FALSE)!Next)

(* A thread inside a call goes on; one that uses a buffer of the list      *)
(* brings it back; the grid calls the notifier's sync as a whole.          *)
ThreadGoes(t) ==
    \/ Mutex_(wait_turn_(t) \/ unlock(t))
    \/ Queue_(Queue!Advance(t))
    \/ List_(List!Advance(t))
    \/ list_pc[t] = "use" /\ List_(List!Lock(t))
    \/ Notifier_(Notifier!Enter(t) \/ Notifier!Advance(t))

(* Barriers are collective: every PE calls them, its wavefronts run and    *)
(* its adapter executes what was posted.                                   *)
IpcGoes(p) ==
    \/ Ipc_("ipc", Ipc!internal_sync(p) \/ Ipc!Other(p))
    \/ Ipc_("ipc_counted", Counted!internal_sync(p) \/ Counted!Other(p))
GdaGoes(p) ==
    \/ Gda_("gda", Gda(64, FALSE)!internal_sync(p) \/ Gda(64, FALSE)!Other(p))
    \/ Gda_("gda_wg", Gda(64, TRUE)!internal_sync(p) \/ Gda(64, TRUE)!Other(p))
RootGoes ==
    \/ Ipc_("ipc", Ipc!Root) \/ Ipc_("ipc_counted", Counted!Root)
    \/ Gda_("gda", Gda(64, FALSE)!Root)
    \/ Gda_("gda_wg", Gda(64, TRUE)!Root)
    \/ Gda_("gda_wg", \E w \in {0, 1} : Gda(64, TRUE)!Wave(w))
AdapterGoes ==
    \/ Gda_("gda", Gda(64, FALSE)!Adapter)
    \/ Gda_("gda_wg", Gda(64, TRUE)!Adapter)

SyncSpec ==
    /\ SyncInit /\ [][SyncNext]_allvars
    /\ \A t \in Threads : WF_allvars(ThreadGoes(t))
    /\ \A p \in Members : WF_allvars(IpcGoes(p))
    /\ \A p \in Gda(64, FALSE)!Members : WF_allvars(GdaGoes(p))
    /\ WF_allvars(RootGoes) /\ WF_allvars(AdapterGoes)
-----------------------------------------------------------------------------
(* Ring, two locks and shared count of the wavefront queue together are a  *)
(* first-in first-out pool that loses, doubles and reorders no buffer; so  *)
(* is the free list, until it is taken down.                               *)
PoolsAreFifo == Queue!ImplementsPool /\ List!ImplementsPool

(* Whenever nobody is inside, what the next call relies on is there: the   *)
(* sync words of an IPC or GDA barrier are back at zero when every PE has  *)
(* left it, with no write to them on its way, and enqueue finds room       *)
(* ("There should always be space available").                             *)
QuiescentIsClean ==
    Ipc!QuiescentIsClean /\ Gda(64, FALSE)!QuiescentIsClean /\ Queue!SpaceAvailable

GdaBarrier == INSTANCE Barrier WITH
    Members <- 1..4, entered <- gda_entered, left <- gda_left

(* Nobody leaves a barrier before everybody has entered it: the IPC        *)
(* barrier with words or with counted arrivals, every form of GDA's,       *)
(* although a fast PE may be in the next one and RDMA writes read their    *)
(* source late, and the notifier's sync of the blocks of a grid while its  *)
(* signal wraps.                                                           *)
ImplementsBarrier ==
    /\ Ipc!ImplementsBarrier
    /\ GdaBarrier!Spec
    /\ Notifier!ImplementsBarrier

InCall(t) ==
    \/ pc[t] = "wait_turn" \/ queue_pc[t] # "idle"
    \/ list_pc[t] \in {"pop", "push"} \/ block_pc[t] # "idle"

InBarrier ==
    \/ \E p \in Members : ipc_pc[p] # "idle"
    \/ use # "gda_counted"
       /\ \E p \in Gda(64, FALSE)!Members : gda_pc[p] # "idle"

(* Every lock, dequeue, enqueue, pop, push and sync returns, with more     *)
(* threads than channels and buffers, and every PE leaves every barrier it *)
(* has entered: the program comes to its last barrier and everybody leaves *)
(* it.                                                                     *)
EveryCallReturns ==
    /\ \A t \in Threads : InCall(t) ~> ~InCall(t)
    /\ InBarrier ~> ~InBarrier
=============================================================================
