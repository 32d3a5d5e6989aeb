---------------------------- MODULE Registration ----------------------------
(***************************************************************************)
(* Memory the network may touch: the symmetric heap that every PE exports  *)
(* to its node-local peers, the user buffers registered as symmetric       *)
(* objects by a collective call, and the local buffers registered with the *)
(* queue pairs of one PE.                                                  *)
(*                                                                         *)
(* A registration acquires resources one after the other (retained         *)
(* handles, address ranges, mappings, file descriptors, memory regions),   *)
(* any of these steps may fail on any PE, and what was acquired has to be  *)
(* given back on every PE.  Between its all-gathers a PE runs alone: one   *)
(* action is the code from one all-gather to the next.  The uploads of a   *)
(* table entry and of the table's count are separate actions, because a    *)
(* kernel may look an address up between them.                             *)
(***************************************************************************)
EXTENDS Integers, Sequences, FiniteSets, SequencesExt, FiniteSetsExt, Functions

CONSTANTS
  N,            \* number of PEs
  Backend,      \* "IPC" or "GDA"
  Node,         \* Node[p]: the PEs p reaches over IPC, p included
  MixedIpc,     \* GDA: node-local peers are reached over IPC as well
  Posix,        \* the VMM allocator exports file descriptors (else fabric)
  Dmabuf,       \* GDA: memory regions are registered from a dmabuf
  Nics,         \* GDA: number of NICs
  Qps,          \* GDA: number of queue pairs
  MaxRegions,   \* max_symm_regions_
  MaxUser,      \* num_user_buffers
  AddrMax,      \* UINTPTR_MAX
  Buffers       \* Buffers[b] = [start |-> address, length |-> bytes]

PEs == 0 .. N - 1

VARIABLES
  calls,        \* the collective calls of the program, the same on every PE
  pe,           \* pe[p]: the state of PE p's backend and of its current call
  said,         \* said[p]: what p brought to the all-gather it waits in
  heard,        \* heard[p]: what the all-gather p has left returned
  lookup        \* a kernel of PE 0 resolving an address

vars == <<calls, pe, said, heard, lookup>>

SUCCESS == "success"
ERROR == "error"
None == [local_base |-> 0]
Nothing == <<>>

(***************************************************************************)
(* Fallible calls: a step acquires `get`, on failure the code releases     *)
(* `undo`, and on success it releases `drop`.  Outcomes is what a sequence *)
(* of steps can leave behind.                                              *)
(***************************************************************************)
Step(get, undo, drop) == [get |-> get, undo |-> undo, drop |-> drop]

Kept(steps, k) == UNION {steps[i].get : i \in 1 .. k}
                    \ UNION {steps[i].drop : i \in 1 .. k}

Outcomes(steps) ==
  {[ok |-> TRUE, held |-> Kept(steps, Len(steps))]}
    \cup {[ok |-> FALSE, held |-> Kept(steps, k - 1) \ steps[k].undo] :
            k \in 1 .. Len(steps)}

VMMAlloc(m) ==
  LET h == <<"handle", m>>  v == <<"va", m>>  w == <<"mapped", m>>
  IN  << Step({h}, {}, {}), Step({v}, {h}, {}), Step({w}, {v, h}, {}),
         Step({}, {w, v, h}, {}) >>

VMMFree(m) == {<<"handle", m>>, <<"va", m>>, <<"mapped", m>>,
               <<"export_fd", m>>}

MapLocalAlias(a) ==
  LET h == <<"alias_handle", a>>  v == <<"va", a>>  w == <<"mapped", a>>
  IN  << Step({h}, {}, {}), Step({v}, {h}, {}), Step({w}, {v, h}, {}),
         Step({}, {w, v, h}, {h}) >>

UnmapLocalAlias(a) == {<<"va", a>>, <<"mapped", a>>}

GetIpcHandle(m) == << Step(IF Posix THEN {<<"export_fd", m>>} ELSE {}, {}, {}) >>

GetIpcHandleFromPtr(a) ==
  LET h == <<"export_handle", a>>
  IN  << Step({h}, {}, {}),
         Step(IF Posix THEN {<<"export_fd", a>>} ELSE {}, {h}, {h}) >>

CloseExportedHandle(a) == {<<"export_fd", a>>}

OpenIpcHandlePosix(a, q) ==
  LET P == <<"pid_fd", a, q>>     F == <<"open_fd", a, q>>
      I == <<"imported", a, q>>   V == <<"peer_va", a, q>>
      M == <<"peer_mapped", a, q>>
  IN  << Step({P}, {}, {}), Step({F}, {P}, {P}), Step({I}, {F}, {}),
         Step({V}, {F, I}, {}), Step({M}, {F, V, I}, {}),
         Step({}, {F, M, V, I}, {}) >>

OpenIpcHandleFabric(a, q) ==
  LET I == <<"imported", a, q>>   V == <<"peer_va", a, q>>
      M == <<"peer_mapped", a, q>>
  IN  << Step({I}, {}, {}), Step({V}, {I}, {}), Step({M}, {V, I}, {}),
         Step({}, {M, V, I}, {}) >>

OpenIpcHandle(a, q) ==
  IF Posix THEN OpenIpcHandlePosix(a, q) ELSE OpenIpcHandleFabric(a, q)

CloseIpcHandle(a, q) == {<<"open_fd", a, q>>, <<"imported", a, q>>,
                         <<"peer_va", a, q>>, <<"peer_mapped", a, q>>}

(* The peers whose handles p opens, in the order of their node-local index *)
Peers(p) == SetToSortSeq(Node[p] \ {p}, LAMBDA x, y : x < y)

(* Opening every peer's handle: the first failure closes those before it. *)
OpenPeers(p, a) ==
  LET opened(k) == UNION {Kept(OpenIpcHandle(a, Peers(p)[i]),
                               Len(OpenIpcHandle(a, Peers(p)[i]))) : i \in 1 .. k}
      closed(k) == UNION {CloseIpcHandle(a, Peers(p)[i]) : i \in 1 .. k}
  IN  {[ok |-> TRUE, held |-> opened(Len(Peers(p)))]}
        \cup UNION {{[ok |-> FALSE,
                      held |-> o.held \cup (opened(k - 1) \ closed(k - 1))] :
                       o \in {x \in Outcomes(OpenIpcHandle(a, Peers(p)[k])) : ~x.ok}} :
                    k \in 1 .. Len(Peers(p))}

ClosePeers(p, a) == UNION {CloseIpcHandle(a, q) : q \in Node[p] \ {p}}

register_symm_buffer_mr(a, n, dmabuf) ==
  LET F == <<"mr_fd", a, n>>   M == <<"mr", a, n>>
  IN  IF dmabuf THEN << Step({F}, {}, {}), Step({M}, {F}, {}) >>
                ELSE << Step({M}, {}, {}) >>

(* Memory regions on NICs 0 .. k - 1 *)
Mrs(a, k, dmabuf) ==
  UNION {LET steps == register_symm_buffer_mr(a, n, dmabuf)
         IN  Kept(steps, Len(steps)) : n \in 0 .. k - 1}

(* One memory region per NIC, from the retained handle when dmabuf is       *)
(* supported and the handle can be retained; the loop stops at a failure    *)
(* and the regions before it stay until the PEs have agreed.                *)
RegisterMrs(a) ==
  LET made(k, d) == Mrs(a, k, d) \cup (IF d THEN {<<"gen_handle", a>>} ELSE {})
  IN  UNION {{[ok |-> TRUE, nics |-> Nics, held |-> made(Nics, d)]}
             \cup UNION {{[ok |-> FALSE, nics |-> k, held |-> o.held \cup made(k, d)] :
                            o \in {x \in Outcomes(register_symm_buffer_mr(a, k, d)) : ~x.ok}} :
                         k \in 0 .. Nics - 1} :
             d \in IF Dmabuf THEN BOOLEAN ELSE {FALSE}}

(* dereg_mr and close for the NICs that were reached, hipMemRelease *)
release_symm_record_nic_resources(a, k) ==
  UNION {{<<"mr", a, n>>, <<"mr_fd", a, n>>} : n \in 0 .. k - 1}
    \cup {<<"gen_handle", a>>}

(***************************************************************************)
(* All-gathers.                                                            *)
(***************************************************************************)
(* p enters an all-gather with v; it leaves it when every PE has entered. *)
Say(p, v) == said' = [said EXCEPT ![p] = <<v>>] /\ heard' = [heard EXCEPT ![p] = Nothing]
Quiet(p) == said' = said /\ heard' = [heard EXCEPT ![p] = Nothing]

symm_allgather ==
  /\ \A q \in PEs : said[q] # Nothing
  /\ heard' = [p \in PEs |-> [q \in PEs |-> said[q][1]]]
  /\ said' = [p \in PEs |-> Nothing]
  /\ UNCHANGED <<calls, pe, lookup>>

Heard(p) == heard[p] # Nothing
Gathered(p) == heard[p]

all_pes_succeeded(p) == \A q \in PEs : Gathered(p)[q] = TRUE

symm_lengths_match(p) == \A q \in PEs : Gathered(p)[q] = Gathered(p)[p]

(***************************************************************************)
(* The state of one PE.                                                    *)
(***************************************************************************)
Put(f, x, v) == [y \in DOMAIN f \cup {x} |-> IF y = x THEN v ELSE f[y]]
Drop(f, x) == [y \in DOMAIN f \ {x} |-> f[y]]

Slots == 0 .. MaxRegions - 1
NoQp == [mrs |-> <<>>, info |-> [i \in 1 .. MaxUser |-> [addr |-> 0, length |-> 0, lkey |-> 0]]]
EmptyMap == [x \in {} |-> x]

InitialPe ==
  [ at |-> 0, pc |-> "idle", alias |-> 0, ok |-> FALSE, nics |-> 0,
    results |-> <<>>, bases |-> <<>>,
    held |-> {},                                 \* resources of this PE
    symm |-> EmptyMap,                           \* symm_buffer_regions
    orig |-> EmptyMap,                           \* symm_orig_regions
    count |-> 0, regions |-> [i \in Slots |-> None],      \* ipcImpl.symm_table
    ipc |-> EmptyMap,                            \* ipc_symm_records_
    host_count |-> 0, host_entries |-> [i \in Slots |-> None],
    dev_count |-> 0, entries |-> [i \in Slots |-> None],  \* symm_entries_
    gda |-> EmptyMap,                            \* gda_symm_records_
    user |-> EmptyMap,                           \* user_buffer_regions
    qps |-> [i \in 1 .. Qps |-> NoQp] ]

Init(plans) ==
  /\ calls \in plans
  /\ pe = [p \in PEs |-> InitialPe]
  /\ said = [p \in PEs |-> Nothing]
  /\ heard = [p \in PEs |-> Nothing]
  /\ lookup = [pc |-> "idle", budget |-> 0]

Call(p) == calls[pe[p].at]
Buffer(p) == Buffers[Call(p).buf]
HasIpcTable == Backend = "IPC" \/ MixedIpc

(* p's record with the fields of `r` replaced *)
With(s, r) == [f \in DOMAIN s |-> IF f \in DOMAIN r THEN r[f] ELSE s[f]]
Set(p, s) == pe' = [pe EXCEPT ![p] = s]
Returns(s, result) ==
  With(s, [pc |-> "idle", alias |-> 0, ok |-> FALSE, nics |-> 0, bases |-> Nothing,
           results |-> Append(s.results, result)])

(***************************************************************************)
(* Host-side bookkeeping of a symmetric registration (base class).         *)
(***************************************************************************)
Overlaps(regions, start, end) ==
  LET after == {s \in DOMAIN regions : s >= start}
      before == {s \in DOMAIN regions : s < start}
  IN  \/ after # {} /\ Min(after) < end
      \/ before # {} /\ Max(before) + regions[Max(before)] > start

(* ValidateVMMRegistration may reject any buffer, and rejects an empty one. *)
Backend_buffer_register_symmetric(s, a, start, length) ==
  LET failed == With(s, [ok |-> FALSE])
  IN  IF \/ length = 0 \/ Cardinality(DOMAIN s.symm) >= MaxRegions
         \/ start > AddrMax - length
         \/ Overlaps(s.orig, start, start + length)
      THEN {failed}
      ELSE {failed} \cup
           {IF o.ok THEN With(s, [ok |-> TRUE, alias |-> a,
                                  held |-> s.held \cup o.held,
                                  symm |-> Put(s.symm, a, [length |-> length, orig |-> start]),
                                  orig |-> Put(s.orig, start, length)])
            ELSE With(failed, [held |-> s.held \cup o.held]) :
              o \in Outcomes(MapLocalAlias(a))}

Backend_buffer_unregister_symmetric(s, a) ==
  With(s, [held |-> s.held \ UnmapLocalAlias(a),
           orig |-> Drop(s.orig, s.symm[a].orig),
           symm |-> Drop(s.symm, a)])

(* Registration fails on this PE after Stage 1 succeeded *)
FailStage(s) == Returns(Backend_buffer_unregister_symmetric(s, s.alias), ERROR)

(***************************************************************************)
(* buffer_register_symmetric                                               *)
(***************************************************************************)
Lengths(p) ==
  /\ pe[p].pc = "lengths" /\ Heard(p)
  /\ IF symm_lengths_match(p)
     THEN \E s \in Backend_buffer_register_symmetric(pe[p], pe[p].at,
                     Buffer(p).start, Call(p).length[p]) :
            /\ Set(p, With(s, [pc |-> "registered"]))
            /\ Say(p, s.ok)
     ELSE Set(p, Returns(pe[p], ERROR)) /\ Quiet(p)
  /\ UNCHANGED <<calls, lookup>>

Export(p, s) ==
  \E o \in Outcomes(GetIpcHandleFromPtr(s.alias)) :
    /\ Set(p, With(s, [pc |-> "exported", ok |-> o.ok, held |-> s.held \cup o.held]))
    /\ Say(p, o.ok)

Registered(p) ==
  LET s == pe[p]
  IN  /\ s.pc = "registered" /\ Heard(p)
      /\ IF ~ all_pes_succeeded(p)
         THEN /\ Set(p, IF s.ok THEN FailStage(s) ELSE Returns(s, ERROR))
              /\ Quiet(p)
         ELSE IF Backend = "IPC" THEN Export(p, s)
         ELSE \E o \in RegisterMrs(s.alias) :
                /\ Set(p, With(s, [pc |-> "mrs", ok |-> o.ok, nics |-> o.nics,
                                   held |-> s.held \cup o.held]))
                /\ Say(p, o.ok)
      /\ UNCHANGED <<calls, lookup>>

MrsRegistered(p) ==
  LET s == pe[p]
  IN  /\ s.pc = "mrs" /\ Heard(p)
      /\ IF all_pes_succeeded(p)
         THEN /\ Set(p, With(s, [pc |-> "rkeys"]))
              /\ Say(p, [base |-> <<p, s.alias>>,
                         rkeys |-> [n \in 0 .. Nics - 1 |-> <<p, s.alias, n>>]])
         ELSE /\ Set(p, FailStage(With(s, [held |-> s.held \
                       release_symm_record_nic_resources(s.alias, s.nics)])))
              /\ Quiet(p)
      /\ UNCHANGED <<calls, lookup>>

(* The entry of this registration for every (pe, nic) *)
QpSymmEntry(a, g) ==
  [local_base |-> a, remote_base |-> [q \in PEs |-> g[q].base],
   rkey |-> [q \in PEs |-> g[q].rkeys],
   lkey |-> [n \in 0 .. Nics - 1 |-> <<"mr", a, n>>]]

PublishEntry(p) ==
  LET s == pe[p]
      slot == s.host_count
      mirror == [s.host_entries EXCEPT ![slot] = QpSymmEntry(s.alias, Gathered(p))]
  IN  /\ s.pc = "rkeys" /\ Heard(p)
      /\ Set(p, IF slot >= MaxRegions
                THEN FailStage(With(s, [held |-> s.held \
                       release_symm_record_nic_resources(s.alias, s.nics)]))
                ELSE With(s, [pc |-> "publish", host_entries |-> mirror, entries |-> mirror]))
      /\ Quiet(p) /\ UNCHANGED <<calls, lookup>>

PublishCount(p) ==
  LET s == pe[p]
      slot == s.host_count
      t == With(s, [host_count |-> slot + 1, dev_count |-> slot + 1,
                    gda |-> Put(s.gda, s.alias, [slot |-> slot, nics |-> s.nics])])
  IN  /\ s.pc = "publish"
      /\ IF MixedIpc THEN Export(p, t)
                     ELSE Set(p, Returns(t, SUCCESS)) /\ Quiet(p)
      /\ UNCHANGED <<calls, lookup>>

(* register_ipc_symm_region failed on every PE: IPC drops the base state,   *)
(* GDA first withdraws the NIC state                                        *)
IpcFailed(s) ==
  IF Backend = "IPC" THEN FailStage(s)
  ELSE With(s, [pc |-> "nic_unregister", ok |-> FALSE])

Exported(p) ==
  LET s == pe[p]
  IN  /\ s.pc = "exported" /\ Heard(p)
      /\ IF all_pes_succeeded(p)
         THEN /\ Set(p, With(s, [pc |-> "handles"]))
              /\ Say(p, <<p, s.alias>>)
         ELSE /\ Set(p, IpcFailed(With(s, [held |-> IF s.ok
                       THEN s.held \ CloseExportedHandle(s.alias) ELSE s.held])))
              /\ Quiet(p)
      /\ UNCHANGED <<calls, lookup>>

OpenHandles(p) ==
  LET s == pe[p]
  IN  /\ s.pc = "handles" /\ Heard(p)
      /\ \E o \in OpenPeers(p, s.alias) :
           /\ Set(p, With(s, [pc |-> "opened", ok |-> o.ok, held |-> s.held \cup o.held,
                              bases |-> Restrict(Gathered(p), Node[p])]))
           /\ Say(p, o.ok)
      /\ UNCHANGED <<calls, lookup>>

PublishRegion(p) ==
  LET s == pe[p]
      slot == s.count
      closed == s.held \ ClosePeers(p, s.alias)
      failed == IpcFailed(With(s, [held |-> (IF s.ok THEN closed ELSE s.held)
                                              \ CloseExportedHandle(s.alias)]))
  IN  /\ s.pc = "opened" /\ Heard(p)
      /\ Set(p, IF ~ all_pes_succeeded(p) \/ slot >= MaxRegions THEN failed
                ELSE With(s, [pc |-> "ipc_publish",
                       regions |-> [s.regions EXCEPT ![slot] =
                         [local_base |-> s.alias,
                          peer_bases |-> s.bases]]]))
      /\ Quiet(p) /\ UNCHANGED <<calls, lookup>>

PublishRegionCount(p) ==
  LET s == pe[p]
  IN  /\ s.pc = "ipc_publish"
      /\ Set(p, Returns(With(s, [count |-> s.count + 1,
                                 ipc |-> Put(s.ipc, s.alias, [slot |-> s.count])]), SUCCESS))
      /\ Quiet(p) /\ UNCHANGED <<calls, lookup>>

(***************************************************************************)
(* buffer_unregister_symmetric                                             *)
(***************************************************************************)
(* MovedKeepsSlot is Moved leaving the record of the moved entry alone *)
MovedKeepsSlot(records, slot, last) == records

(* The records with the last slot's owner moved to the freed slot *)
Moved(records, slot, last) ==
  [a \in DOMAIN records |->
     IF slot # last /\ records[a].slot = last
     THEN [records[a] EXCEPT !.slot = slot] ELSE records[a]]

(* unregister_ipc_symm_region, up to the compaction of the table *)
IpcUnregister(p) ==
  LET s == pe[p]
      slot == s.ipc[s.alias].slot
      last == s.count - 1
  IN  /\ s.pc = "ipc_unregister"
      /\ Set(p, With(s, [pc |-> "ipc_shrink",
           held |-> s.held \ (ClosePeers(p, s.alias) \cup CloseExportedHandle(s.alias)),
           regions |-> [s.regions EXCEPT ![slot] = s.regions[last]],
           ipc |-> Moved(s.ipc, slot, last)]))
      /\ Quiet(p) /\ UNCHANGED <<calls, lookup>>

IpcShrink(p) ==
  LET s == pe[p]
      t == With(s, [count |-> s.count - 1, ipc |-> Drop(s.ipc, s.alias)])
  IN  /\ s.pc = "ipc_shrink"
      /\ Set(p, IF Backend = "IPC"
                THEN Returns(Backend_buffer_unregister_symmetric(t, s.alias), SUCCESS)
                ELSE With(t, [pc |-> "nic_unregister", ok |-> TRUE]))
      /\ Quiet(p) /\ UNCHANGED <<calls, lookup>>

(* gda_nic_unregister: entries first, then the count, then the resources *)
NicCompact(p) ==
  LET s == pe[p]
      slot == s.gda[s.alias].slot
      last == s.host_count - 1
      mirror == [s.host_entries EXCEPT ![slot] = s.host_entries[last]]
  IN  /\ s.pc = "nic_unregister"
      /\ Set(p, With(s, [pc |-> "nic_shrink", host_entries |-> mirror,
                         entries |-> mirror, gda |-> Moved(s.gda, slot, last)]))
      /\ Quiet(p) /\ UNCHANGED <<calls, lookup>>

NicShrink(p) ==
  LET s == pe[p]
  IN  /\ s.pc = "nic_shrink"
      /\ Set(p, With(s, [pc |-> "nic_release", host_count |-> s.host_count - 1,
                         dev_count |-> s.host_count - 1]))
      /\ Quiet(p) /\ UNCHANGED <<calls, lookup>>

NicRelease(p) ==
  LET s == pe[p]
      t == With(s, [gda |-> Drop(s.gda, s.alias),
                    held |-> s.held \ release_symm_record_nic_resources(
                                        s.alias, s.gda[s.alias].nics)])
  IN  /\ s.pc = "nic_release"
      /\ Set(p, Returns(Backend_buffer_unregister_symmetric(t, s.alias),
                        IF s.ok THEN SUCCESS ELSE ERROR))
      /\ Quiet(p) /\ UNCHANGED <<calls, lookup>>

(***************************************************************************)
(* The symmetric heap: allocated, exported and opened by the node's PEs.   *)
(* A failure here ends the program.                                        *)
(***************************************************************************)
Heap == 0

(* The allocation and, where peers are reached over IPC, ipcHostInit up to  *)
(* the exchange of the handles                                              *)
ipcHostInit(p, s) ==
  \E o \in Outcomes(VMMAlloc(Heap)), x \in Outcomes(GetIpcHandle(Heap)) :
    /\ Set(p, With(s,
         [pc |-> IF o.ok /\ x.ok THEN "heap_handles" ELSE "aborted",
          held |-> o.held \cup (IF o.ok /\ HasIpcTable THEN x.held ELSE {})]))
    /\ IF o.ok /\ x.ok THEN Say(p, <<p, Heap>>) ELSE Quiet(p)

OpenHeaps(p) ==
  LET s == pe[p]
  IN  /\ s.pc = "heap_handles" /\ Heard(p)
      /\ IF HasIpcTable
         THEN \E o \in OpenPeers(p, Heap) :
                Set(p, With(s, [pc |-> IF o.ok THEN "heap_opened" ELSE "aborted",
                                held |-> s.held \cup o.held]))
         ELSE Set(p, With(s, [pc |-> "heap_opened"]))
      /\ IF pe'[p].pc = "aborted" THEN Quiet(p) ELSE Say(p, TRUE)
      /\ UNCHANGED <<calls, lookup>>

(* The barrier that ends the initialisation *)
HeapReady(p) ==
  /\ pe[p].pc = "heap_opened" /\ Heard(p)
  /\ Set(p, Returns(pe[p], SUCCESS))
  /\ Quiet(p) /\ UNCHANGED <<calls, lookup>>

(* cleanup_symm_registration, ipcHostStop and the release of the heap *)
cleanup_symm_registration(p, s) ==
  LET released(a) == UnmapLocalAlias(a)
        \cup (IF a \in DOMAIN s.ipc THEN ClosePeers(p, a) \cup CloseExportedHandle(a) ELSE {})
        \cup (IF a \in DOMAIN s.gda
              THEN release_symm_record_nic_resources(a, s.gda[a].nics) ELSE {})
      known == IF Backend = "IPC" THEN DOMAIN s.ipc ELSE DOMAIN s.gda
  IN  With(s, [held |-> s.held \ (UNION {released(a) : a \in known}
                                    \cup ClosePeers(p, Heap) \cup VMMFree(Heap)),
               symm |-> Restrict(s.symm, DOMAIN s.symm \ known),
               orig |-> Restrict(s.orig, DOMAIN s.orig \ {s.symm[a].orig : a \in known}),
               ipc |-> EmptyMap, gda |-> EmptyMap,
               count |-> 0, host_count |-> 0, dev_count |-> 0])

(***************************************************************************)
(* Local buffers: buffer_register and its queue pairs.                     *)
(***************************************************************************)
is_ptr_in_range(a, length, b) == length # 0 /\ b >= a /\ b - a < length

QueuePair_buffer_register(q, addr, length, key) ==
  LET free == {i \in DOMAIN q.info : q.info[i].addr = 0}
      slot == IF free = {} THEN 0 ELSE Min(free)
  IN  [mrs |-> Put(q.mrs, addr, key),
       info |-> [i \in DOMAIN q.info |->
                   IF i = slot THEN [addr |-> addr, length |-> length, lkey |-> key]
                               ELSE q.info[i]]]

QueuePair_buffer_unregister(q, addr) ==
  LET hits == {i \in DOMAIN q.info : is_ptr_in_range(q.info[i].addr, q.info[i].length, addr)}
      slot == IF hits = {} THEN 0 ELSE Min(hits)
  IN  [mrs |-> Drop(q.mrs, addr),
       info |-> [i \in DOMAIN q.info |->
                   IF i = slot THEN [addr |-> 0, length |-> 0, lkey |-> 0] ELSE q.info[i]]]

QpIsFull(q) == Cardinality(DOMAIN q.mrs) >= MaxUser

(* GDABackend: a queue pair without room keeps what it has, and the call *)
(* fails after the others have registered.                               *)
QpsRegister(s, start, length) ==
  With(s, [qps |-> [i \in DOMAIN s.qps |->
    IF QpIsFull(s.qps[i]) THEN s.qps[i]
    ELSE QueuePair_buffer_register(s.qps[i], start, length, s.at)]])

QpsUnregister(s, target) ==
  With(s, [qps |-> [i \in DOMAIN s.qps |->
                      QueuePair_buffer_unregister(s.qps[i], target)]])

buffer_register(s, start, length) ==
  LET t == QpsRegister(s, start, length)
  IN  IF \/ start = 0 \/ length = 0 \/ start > AddrMax - length
         \/ Overlaps(s.user, start, start + length)
      THEN Returns(s, ERROR)
      ELSE IF \E i \in DOMAIN s.qps : QpIsFull(s.qps[i]) THEN Returns(t, ERROR)
      ELSE Returns(With(t, [user |-> Put(s.user, start, length)]), SUCCESS)

buffer_unregister(s, target) ==
  LET below == {a \in DOMAIN s.user : a <= target}
      start == Max(below)
  IN  IF below = {} \/ (below # {} /\ target >= start + s.user[start])
      THEN Returns(s, ERROR)
      ELSE Returns(With(QpsUnregister(s, target), [user |-> Drop(s.user, start)]), SUCCESS)

buffer_unregister_all(s) ==
  Returns(With(s, [user |-> EmptyMap, qps |-> [i \in DOMAIN s.qps |-> NoQp]]), SUCCESS)

(* get_lkey's search of the local buffers: 0 when none matches *)
get_lkey(q, addr) ==
  LET hits == {i \in DOMAIN q.info : is_ptr_in_range(q.info[i].addr, q.info[i].length, addr)}
  IN  IF hits = {} THEN 0 ELSE q.info[Min(hits)].lkey

(***************************************************************************)
(* The calls.                                                              *)
(***************************************************************************)
(* The address the program got for buffer b, if it is registered *)
AliasOf(s, b) == {a \in DOMAIN s.symm : s.symm[a].orig = Buffers[b].start}

StartCall(p, s, c) ==
  CASE c.op = "heap" -> ipcHostInit(p, s)
    [] c.op = "register" -> Set(p, With(s, [pc |-> "lengths"])) /\ Say(p, c.length[p])
    [] c.op = "unregister" ->
         /\ Set(p, IF AliasOf(s, c.buf) = {} THEN Returns(s, ERROR)
                   ELSE With(s, [alias |-> CHOOSE a \in AliasOf(s, c.buf) : TRUE, ok |-> TRUE,
                                 pc |-> IF HasIpcTable THEN "ipc_unregister"
                                                       ELSE "nic_unregister"]))
         /\ Quiet(p)
    [] c.op = "buffer_register" ->
         Set(p, buffer_register(s, Buffers[c.buf].start, Buffers[c.buf].length)) /\ Quiet(p)
    [] c.op = "buffer_unregister" ->
         Set(p, buffer_unregister(s, Buffers[c.buf].start)) /\ Quiet(p)
    [] c.op = "buffer_unregister_all" -> Set(p, buffer_unregister_all(s)) /\ Quiet(p)
    [] c.op = "finalize" ->
         Set(p, Returns(cleanup_symm_registration(p, s), SUCCESS)) /\ Quiet(p)

(* A program does not unregister what a kernel still uses, and a kernel's   *)
(* search overlaps with one change of the tables at most.                   *)
MayBegin(p, c) ==
  p # 0 \/ lookup.pc # "scan"
    \/ /\ lookup.budget > 0 /\ c.op # "finalize"
       /\ c.op = "unregister" => lookup.alias \notin AliasOf(pe[0], c.buf)

Begin(p) ==
  LET c == calls[pe[p].at + 1]
  IN  /\ pe[p].pc = "idle" /\ pe[p].at < Len(calls)
      /\ MayBegin(p, c)
      /\ StartCall(p, [pe[p] EXCEPT !.at = @ + 1], c)
      /\ lookup' = IF p = 0 THEN [lookup EXCEPT !.budget = 0] ELSE lookup
      /\ UNCHANGED calls

(***************************************************************************)
(* A kernel of PE 0 resolves an address of a registered buffer, reading    *)
(* the count once and then one entry after the other.                      *)
(***************************************************************************)
Live(s) == IF s.pc = "idle" THEN DOMAIN s.symm ELSE DOMAIN s.symm \ {s.alias}

ScanStart(table) ==
  LET s == pe[0]
  IN  /\ lookup.pc = "idle"
      /\ \E a \in Live(s) :
           lookup' = [pc |-> "scan", table |-> table, alias |-> a, i |-> 0,
                      n |-> IF table = "ipc" THEN s.count ELSE s.dev_count,
                      budget |-> IF s.pc = "idle" THEN 1 ELSE 0]
      /\ UNCHANGED <<calls, pe, said, heard>>

(* ipcPeerPtr reads the IPC table, get_raddr_info and get_lkey the entries *)
ipcPeerPtr == HasIpcTable /\ ScanStart("ipc")
get_raddr_info == Backend = "GDA" /\ ScanStart("gda")

Scan ==
  LET e == IF lookup.table = "ipc" THEN pe[0].regions[lookup.i] ELSE pe[0].entries[lookup.i]
      done(r) == [pc |-> "done", table |-> lookup.table, alias |-> lookup.alias,
                  found |-> r, budget |-> 0]
  IN  /\ lookup.pc = "scan"
      /\ lookup' = IF lookup.i >= lookup.n THEN done(None)
                   ELSE IF e.local_base = lookup.alias THEN done(e)
                   ELSE [lookup EXCEPT !.i = @ + 1]
      /\ UNCHANGED <<calls, pe, said, heard>>

ScanEnd ==
  /\ lookup.pc = "done"
  /\ lookup' = [pc |-> "idle", budget |-> 0]
  /\ UNCHANGED <<calls, pe, said, heard>>

Host(p) ==
  \/ Begin(p) \/ Lengths(p) \/ Registered(p) \/ MrsRegistered(p)
  \/ PublishEntry(p) \/ PublishCount(p) \/ Exported(p) \/ OpenHandles(p)
  \/ PublishRegion(p) \/ PublishRegionCount(p)
  \/ IpcUnregister(p) \/ IpcShrink(p) \/ NicCompact(p) \/ NicShrink(p) \/ NicRelease(p)
  \/ OpenHeaps(p) \/ HeapReady(p)

Kernel == ipcPeerPtr \/ get_raddr_info \/ Scan \/ ScanEnd

Next == symm_allgather \/ (\E p \in PEs : Host(p)) \/ Kernel

(***************************************************************************)
(* Properties.                                                             *)
(***************************************************************************)
Idle(p) == pe[p].pc = "idle"

(* The heap exists: its call has returned and finalize has not been called *)
HasHeap(p) ==
  /\ \E i \in 1 .. pe[p].at : calls[i].op = "heap"
  /\ \A i \in 1 .. pe[p].at : calls[i].op # "finalize"

(* What a PE keeps for memory m that its node-local peers can reach *)
SharedResources(p, m) ==
  IF ~ HasIpcTable THEN {}
  ELSE {<<"export_fd", m>> : x \in {1} \cap (IF Posix THEN {1} ELSE {})}
         \cup (({"imported", "peer_va", "peer_mapped"} \cup (IF Posix THEN {"open_fd"} ELSE {}))
                 \X {m} \X (Node[p] \ {p}))

Promised(p) ==
  (IF HasHeap(p) THEN {<<"handle", Heap>>, <<"va", Heap>>, <<"mapped", Heap>>}
                        \cup SharedResources(p, Heap) ELSE {})
    \cup UNION {{<<"va", a>>, <<"mapped", a>>} \cup SharedResources(p, a)
                  \cup (IF Backend = "GDA" THEN {"mr"} \X {a} \X (0 .. Nics - 1) ELSE {})
                  \cup (IF <<"gen_handle", a>> \in pe[p].held
                        THEN {<<"gen_handle", a>>} \cup ({"mr_fd"} \X {a} \X (0 .. Nics - 1))
                        ELSE {}) :
                a \in DOMAIN pe[p].symm}

(* The table's first `count` entries are the live registrations, each once, *)
(* at the slot its record names.                                            *)
TableMatches(records, count, table, s) ==
  /\ DOMAIN records = DOMAIN s.symm /\ count = Cardinality(DOMAIN s.symm)
  /\ \A a \in DOMAIN records :
       records[a].slot < count /\ table[records[a].slot].local_base = a

(* When buffer_register_symmetric returns, it has succeeded on every PE or  *)
(* on none, and between calls a PE holds exactly the resources of the heap  *)
(* and of its live registrations: whatever step failed on whatever PE,      *)
(* every mapping, descriptor, handle and memory region was given back, and  *)
(* the host records, the device tables and the overlap map agree.           *)
RegistrationIsAtomic ==
  /\ \A p, q \in PEs : \A i \in DOMAIN pe[p].results \cap DOMAIN pe[q].results :
       pe[p].results[i] = pe[q].results[i]
  /\ \A p \in PEs : Idle(p) =>
       LET s == pe[p]
       IN  /\ s.held = Promised(p)
           /\ HasIpcTable => TableMatches(s.ipc, s.count, s.regions, s)
           /\ Backend = "GDA" => /\ TableMatches(s.gda, s.dev_count, s.entries, s)
                                 /\ s.host_count = s.dev_count
                                 /\ s.host_entries = s.entries
           /\ DOMAIN s.orig = {s.symm[a].orig : a \in DOMAIN s.symm}
           /\ \A x, y \in DOMAIN s.orig : x < y => x + s.orig[x] <= y

(* A PE opens a peer's handle only while that peer keeps it exported, and a *)
(* device table never offers an entry whose memory regions are gone.        *)
NothingIsUsedAfterRelease ==
  \A p \in PEs :
    /\ (Posix /\ HasIpcTable /\ Heard(p) /\ pe[p].pc \in {"handles", "heap_handles"}) =>
         \A q \in Node[p] \ {p} :
           \/ pe[q].pc = "aborted"
           \/ <<"export_fd", IF pe[p].pc = "handles" THEN pe[p].alias ELSE Heap>> \in pe[q].held
    /\ \A i \in 0 .. pe[p].dev_count - 1 :
         {"mr"} \X {pe[p].entries[i].local_base} \X (0 .. Nics - 1) \subseteq pe[p].held

(* A kernel that resolves an address of a registered buffer finds the       *)
(* buffer's entry with the peers' addresses and keys, also while another    *)
(* buffer is being registered or unregistered: ipcPeerPtr, get_raddr_info.  *)
LookupIsExact ==
  lookup.pc = "done" =>
    /\ lookup.found.local_base = lookup.alias
    /\ IF lookup.table = "ipc"
       THEN lookup.found.peer_bases = [q \in Node[0] |-> <<q, lookup.alias>>]
       ELSE \A q \in PEs :
              /\ lookup.found.remote_base[q] = <<q, lookup.alias>>
              /\ \A n \in 0 .. Nics - 1 : lookup.found.rkey[q][n] = <<q, lookup.alias, n>>

(* Every address of a registered local buffer resolves to that buffer's key *)
(* on every queue pair, and no other address resolves: buffer_register,     *)
(* buffer_unregister, get_lkey.                                             *)
LocalBuffersResolve ==
  \A p \in PEs : Idle(p) =>
    \A i \in DOMAIN pe[p].qps :
      LET q == pe[p].qps[i]
          owner(x) == {a \in DOMAIN pe[p].user : a <= x /\ x < a + pe[p].user[a]}
      IN  /\ DOMAIN q.mrs = DOMAIN pe[p].user
          /\ \A x \in 1 .. AddrMax :
               /\ Cardinality(owner(x)) <= 1
               /\ get_lkey(q, x) = IF owner(x) = {} THEN 0
                                   ELSE q.mrs[CHOOSE a \in owner(x) : TRUE]

(* The PEs enter the same all-gathers: no PE has left a call in which       *)
(* another still waits for it, and the PEs that wait do so at the same      *)
(* point of the same call.  Every all-gather therefore completes unless a   *)
(* failed heap set-up has ended a process.                                  *)
GathersMatch ==
  \A p, q \in PEs : said[p] # Nothing =>
    /\ pe[q].pc = "idle" => pe[q].at < pe[p].at
    /\ said[q] # Nothing => pe[q].pc = pe[p].pc /\ pe[q].at = pe[p].at

(* The four above: registration leaves every PE with the same regions and  *)
(* no stray resource, whatever fails; no table entry names a resource that *)
(* was given back; a lookup of a registered address finds it; and a local  *)
(* buffer resolves to its own key on every queue pair.                     *)
RegistrationIsSound ==
  RegistrationIsAtomic /\ NothingIsUsedAfterRelease /\ LookupIsExact /\ LocalBuffersResolve
=============================================================================
