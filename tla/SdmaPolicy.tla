------------------------------ MODULE SdmaPolicy ------------------------------
(***************************************************************************)
(* Contexts that copy through SDMA (sdma_policy.hpp, the SDMA part of      *)
(* ipc_policy.hpp).  Each context remembers in sdmaDirty which queues it   *)
(* has copies on, so that fence and quiet drain only those.  Contexts      *)
(* share the queues: one per (local PE, channel).                          *)
(*                                                                         *)
(* A queue is taken at its word (SdmaQueue): sent and done count packets,  *)
(* and quietAll waits for what was sent when it was called.                *)
(***************************************************************************)
EXTENDS Integers, FiniteSets

CONSTANTS
    Threads,        \* GPU threads that call the interface
    CtxOf,          \* the context (a ctx_id) each of them uses
    WfOf,           \* the wavefront of its block each of them is in
    PEs,            \* local PEs, numbered from 0
    NumChannels,    \* ROCSHMEM_SDMA_NUM_CHANNELS
    SpreadChannels, \* ROCSHMEM_SDMA_SPREAD_CHANNELS
    MaxPuts         \* bound on the packets sent on one queue

PolicyAssumption ==
    /\ NumChannels \in Nat \ {0} /\ MaxPuts \in Nat
    /\ CtxOf \in [Threads -> Nat] /\ WfOf \in [Threads -> Nat]
    /\ PEs \subseteq Nat /\ 0 \in PEs
    /\ SpreadChannels \in BOOLEAN

Channels == 0..(NumChannels - 1)
Queues == PEs \X Channels
Contexts == {CtxOf[t] : t \in Threads}

(* A fence drains as a quiet does; they differ in the memory order of the  *)
(* trailing threadfence only.                                              *)
Calls == {"copy", "copy_blocking", "quiet", "quiet_pe"}

VARIABLES
    sent, done,     \* per queue: packets submitted, packets consumed
    sdmaDirty,      \* per context: the queues marked
    th,             \* per thread: where it is, in which call, on which PE
    todo,           \* per thread: queues its quiet still has to drain
    target,         \* per thread: what it waits for on the queue it drains
    issued          \* per thread and queue: its last packet (history)

vars == <<sent, done, sdmaDirty, th, todo, target, issued>>

(* assignSdmaChannel and sdmaCopy's effective_channel.                     *)
sdmaChannelStride(c) == IF c = 0 \/ SpreadChannels THEN 1 ELSE 0
effective_channel(t) ==
    LET sdmaChannel == CtxOf[t] % NumChannels
    IN (sdmaChannel + sdmaChannelStride(CtxOf[t]) * WfOf[t]) % NumChannels

Init ==
    /\ sent = [qu \in Queues |-> 0] /\ done = [qu \in Queues |-> 0]
    /\ sdmaDirty = [c \in Contexts |-> {}]
    /\ th = [t \in Threads |-> [pc |-> "idle", call |-> "quiet", pe |-> 0]]
    /\ todo = [t \in Threads |-> {}]
    /\ target = [t \in Threads |-> 0]
    /\ issued = [t \in Threads |-> [qu \in Queues |-> 0]]

Goto(t, pc) == th' = [th EXCEPT ![t].pc = pc]
MyQueue(t) == <<th[t].pe, effective_channel(t)>>
MyDirty(t) == sdmaDirty[CtxOf[t]]

Call(t, call, pe) ==
    /\ th[t].pc = "idle" /\ (call = "quiet" => pe = 0)
    /\ th' = [th EXCEPT ![t] = [call |-> call, pe |-> pe, pc |->
                IF call \in {"copy", "copy_blocking"} THEN "put" ELSE "test"]]
    /\ UNCHANGED <<sent, done, sdmaDirty, todo, target, issued>>

(* sdmaCopy: the packet is submitted before the queue is marked; a         *)
(* blocking copy does not mark it and drains it at once.                   *)
put(t) ==
    LET qu == MyQueue(t) IN
    /\ th[t].pc = "put" /\ sent[qu] < MaxPuts
    /\ sent' = [sent EXCEPT ![qu] = @ + 1]
    /\ issued' = [issued EXCEPT ![t][qu] = sent[qu] + 1]
    /\ IF th[t].call = "copy_blocking"
       THEN Goto(t, "drain") /\ todo' = [todo EXCEPT ![t] = {qu}]
       ELSE Goto(t, "mark") /\ UNCHANGED todo
    /\ UNCHANGED <<done, sdmaDirty, target>>

(* Mutant: the bit of the context's base channel is set.                   *)
MarkBaseChannel(t) ==
    /\ th[t].pc = "mark"
    /\ sdmaDirty' = [sdmaDirty EXCEPT ![CtxOf[t]] =
                       @ \cup {<<th[t].pe, CtxOf[t] % NumChannels>>}]
    /\ Goto(t, "returned")
    /\ UNCHANGED <<sent, done, todo, target, issued>>

mark(t) ==
    /\ th[t].pc = "mark"
    /\ sdmaDirty' = [sdmaDirty EXCEPT ![CtxOf[t]] = @ \cup {MyQueue(t)}]
    /\ Goto(t, "returned")
    /\ UNCHANGED <<sent, done, todo, target, issued>>

(* The queues a call looks at: all of them, or those of one PE.            *)
mask(t) == {qu \in Queues : th[t].call = "quiet" \/ qu[1] = th[t].pe}

(* ipcQuiet and ipcFence: nothing marked, nothing to drain.                *)
ipcQuiet(t) ==
    /\ th[t].pc = "test"
    /\ Goto(t, IF MyDirty(t) \cap mask(t) = {} THEN "returned" ELSE "take")
    /\ UNCHANGED <<sent, done, sdmaDirty, todo, target, issued>>

(* Mutant: all marks are cleared whatever the call drains.                 *)
TakeAndClearAll(t) ==
    /\ th[t].pc = "take"
    /\ todo' = [todo EXCEPT ![t] = MyDirty(t) \cap mask(t)]
    /\ sdmaDirty' = [sdmaDirty EXCEPT ![CtxOf[t]] = {}]
    /\ Goto(t, "drain")
    /\ UNCHANGED <<sent, done, target, issued>>

(* sdmaQuiet and sdmaQuietAll: take the marks and clear them atomically.   *)
take(t) ==
    /\ th[t].pc = "take"
    /\ todo' = [todo EXCEPT ![t] = MyDirty(t) \cap mask(t)]
    /\ sdmaDirty' = [sdmaDirty EXCEPT ![CtxOf[t]] = @ \ mask(t)]
    /\ Goto(t, "drain")
    /\ UNCHANGED <<sent, done, target, issued>>

(* The queues are drained in the order of their bits, one quietAll each.   *)
FirstBit(S) == CHOOSE qu \in S : \A o \in S :
                 qu[1] * NumChannels + qu[2] <= o[1] * NumChannels + o[2]

quietAll(t) ==
    /\ th[t].pc = "drain" /\ todo[t] # {}
    /\ target' = [target EXCEPT ![t] = sent[FirstBit(todo[t])]]
    /\ Goto(t, "poll")
    /\ UNCHANGED <<sent, done, sdmaDirty, todo, issued>>

PollRptr(t) ==
    /\ th[t].pc = "poll" /\ done[FirstBit(todo[t])] >= target[t]
    /\ todo' = [todo EXCEPT ![t] = @ \ {FirstBit(@)}]
    /\ target' = [target EXCEPT ![t] = 0]
    /\ Goto(t, "drain")
    /\ UNCHANGED <<sent, done, sdmaDirty, issued>>

Drained(t) ==
    /\ th[t].pc = "drain" /\ todo[t] = {}
    /\ Goto(t, "returned")
    /\ UNCHANGED <<sent, done, sdmaDirty, todo, target, issued>>

Return(t) ==
    /\ th[t].pc = "returned"
    /\ th' = [th EXCEPT ![t] = [pc |-> "idle", call |-> "quiet", pe |-> 0]]
    /\ UNCHANGED <<sent, done, sdmaDirty, todo, target, issued>>

(* The engine behind a queue consumes packets in order.                    *)
Consume(qu) ==
    /\ done[qu] < sent[qu]
    /\ done' = [done EXCEPT ![qu] = @ + 1]
    /\ UNCHANGED <<sent, sdmaDirty, th, todo, target, issued>>

Step(t) == put(t) \/ mark(t) \/ ipcQuiet(t) \/ take(t) \/ quietAll(t)
           \/ PollRptr(t) \/ Drained(t) \/ Return(t)

Next ==
    \/ \E t \in Threads : \/ \E call \in Calls, pe \in PEs : Call(t, call, pe)
                          \/ Step(t)
    \/ \E qu \in Queues : Consume(qu)

(* Resident threads keep running and the engines keep consuming.           *)
Fairness == /\ \A t \in Threads : WF_vars(Step(t))
            /\ \A qu \in Queues : WF_vars(Consume(qu))
Spec == Init /\ [][Next]_vars /\ Fairness
-----------------------------------------------------------------------------
TypeOK ==
    /\ sent \in [Queues -> 0..MaxPuts] /\ done \in [Queues -> 0..MaxPuts]
    /\ sdmaDirty \in [Contexts -> SUBSET Queues]
    /\ th \in [Threads -> [pc : {"idle", "put", "mark", "test", "take", "drain",
                                 "poll", "returned"},
                           call : Calls, pe : PEs]]
    /\ todo \in [Threads -> SUBSET Queues]
    /\ target \in [Threads -> 0..MaxPuts]
    /\ issued \in [Threads -> [Queues -> 0..MaxPuts]]

(* "Wait for all SDMA completions across all PEs and channels": a quiet or *)
(* fence that returns has seen the caller's earlier copies consumed, on    *)
(* every queue it is asked about.                                          *)
QuietCoversOwnCopies ==
    \A t \in Threads :
        th[t].pc = "returned" /\ th[t].call \notin {"copy", "copy_blocking"}
          => \A qu \in mask(t) : done[qu] >= issued[t][qu]

(* A blocking copy has been consumed when it returns.                      *)
BlockingCopyIsDone ==
    \A t \in Threads : th[t].pc = "returned" /\ th[t].call = "copy_blocking"
        => done[MyQueue(t)] >= issued[t][MyQueue(t)]

(* No copy is forgotten: one that is not consumed is marked, about to be   *)
(* marked, or waited for.                                                  *)
OutstandingIsRemembered ==
    \A t \in Threads, qu \in Queues : done[qu] < issued[t][qu] =>
        \/ qu \in MyDirty(t) \/ qu \in todo[t]
        \/ th[t].pc = "mark" /\ qu = MyQueue(t)

=============================================================================
