-------------------------------- MODULE MCSdma --------------------------------
(***************************************************************************)
(* The copy engines: two threads on one multi-producer queue (SdmaQueue),  *)
(* or two contexts that share the queues of two local PEs (SdmaPolicy):    *)
(* the default one, which spreads its wavefronts over the channels, and    *)
(* context 1.  A behaviour uses one of the two.                            *)
(***************************************************************************)
EXTENDS SdmaQueue, TLC

CONSTANTS t1, t2

VARIABLES use, sent, done, sdmaDirty, caller, todo, awaited, issued

policyvars == <<sent, done, sdmaDirty, caller, todo, awaited, issued>>
allvars == <<use, vars, policyvars>>

Policy == INSTANCE SdmaPolicy WITH
    CtxOf <- (t1 :> 0 @@ t2 :> 1), WfOf <- (t1 :> 1 @@ t2 :> 0),
    PEs <- {0, 1}, NumChannels <- 2, SpreadChannels <- FALSE, MaxPuts <- 2,
    th <- caller, target <- awaited

ASSUME Policy!PolicyAssumption

Queue_(A) == use = "queue" /\ A /\ UNCHANGED <<use, policyvars>>
Policy_(A) == use = "policy" /\ A /\ UNCHANGED <<use, vars>>

SdmaInit == use \in {"queue", "policy"} /\ Init /\ Policy!Init
SdmaNext == Queue_(Next) \/ Policy_(Policy!Next)

Engines == Queue_(Consume) \/ Policy_(\E qu \in Policy!Queues : Policy!Consume(qu))

(* Resident threads keep running and the engines keep consuming.           *)
SdmaSpec ==
    /\ SdmaInit /\ [][SdmaNext]_allvars
    /\ \A t \in Threads : WF_allvars(Queue_(Step(t)) \/ Policy_(Policy!Step(t)))
    /\ WF_allvars(Engines)
-----------------------------------------------------------------------------
(* A quiet or fence of a context that returns has seen the caller's copies *)
(* consumed, on every queue it is asked about.                             *)
QuietCoversOwnCopies == Policy!QuietCoversOwnCopies

(* A copy that is not consumed is marked, about to be, or waited for.      *)
OutstandingIsRemembered == Policy!OutstandingIsRemembered

InOperation(t) ==
    \/ th[t].pc # "idle"
    \/ caller[t].pc \in {"test", "take", "drain", "poll"}

(* Every reservation, flush and quiet comes to an end, although others     *)
(* keep sending on the same queues.                                        *)
EveryOperationEnds == \A t \in Threads : InOperation(t) ~> ~InOperation(t)
=============================================================================
