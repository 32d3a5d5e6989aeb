------------------------------- MODULE FreeList -------------------------------
(***************************************************************************)
(* The free list that hands contexts to work-groups and result buffers to  *)
(* fetching atomics (containers/free_list.hpp, free_list_impl.hpp): a      *)
(* linked list under an ABQLBlockMutex.  The device cannot allocate        *)
(* memory, so a popped node goes to a list of deallocated nodes, from      *)
(* which a push takes its node.  A caller that pops nothing is told so,    *)
(* and may try again; one that got an element uses it and pushes it back.  *)
(***************************************************************************)
EXTENDS Naturals, Sequences

CONSTANTS Waves, Buffers, NoBuf

NumNodes == Len(Buffers)
Nodes == 1..NumNodes
Null == 0

FreeListAssumption ==
    /\ \A i, j \in Nodes : Buffers[i] = Buffers[j] => i = j
    /\ \A i \in Nodes : Buffers[i] # NoBuf

VARIABLES head_, tail_, deallocated_nodes_,
          data, next,           \* of each node
          mutex_,               \* the line of ticket holders, see FifoLock
          freed,                \* nodes given back to the allocator
          pc, buf               \* of each wavefront

list == <<head_, tail_, deallocated_nodes_, data, next>>
vars == <<list, mutex_, freed, pc, buf>>

(* After the host has pushed every buffer (push_back_range).               *)
Init ==
    /\ head_ = IF NumNodes = 0 THEN Null ELSE 1
    /\ tail_ = NumNodes
    /\ deallocated_nodes_ = Null
    /\ data = Buffers
    /\ next = [n \in Nodes |-> IF n = NumNodes THEN Null ELSE n + 1]
    /\ mutex_ = << >>
    /\ freed = {}
    /\ pc = [w \in Waves |-> "idle"]
    /\ buf = [w \in Waves |-> NoBuf]

Goto(w, from, to) == pc[w] = from /\ pc' = [pc EXCEPT ![w] = to]

Holds(w) == mutex_ # << >> /\ Head(mutex_) = w

-----------------------------------------------------------------------------
rocshmem_wg_ctx_create(w) == Goto(w, "idle", "pop")
rocshmem_wg_ctx_destroy(w) == Goto(w, "use", "push")
Lock(w) ==
    /\ freed = {}
    /\ rocshmem_wg_ctx_create(w) \/ rocshmem_wg_ctx_destroy(w)
    /\ mutex_' = Append(mutex_, w)
    /\ UNCHANGED <<list, freed, buf>>

(* Mutant: the tail keeps pointing at the node that was popped last.       *)
PopKeepsTail(w) ==
    /\ Holds(w)
    /\ mutex_' = Tail(mutex_)
    /\ IF head_ = Null
       THEN Goto(w, "pop", "idle") /\ UNCHANGED <<list, buf>>
       ELSE /\ Goto(w, "pop", "use")
            /\ head_' = next[head_]
            /\ buf' = [buf EXCEPT ![w] = data[head_]]
            /\ next' = [next EXCEPT ![head_] = deallocated_nodes_]
            /\ deallocated_nodes_' = head_
            /\ UNCHANGED <<data, tail_>>
    /\ UNCHANGED freed

(* pop_front with deallocate_node; the guard's destructor unlocks.         *)
pop_front(w) ==
    /\ Holds(w)
    /\ mutex_' = Tail(mutex_)
    /\ IF head_ = Null
       THEN Goto(w, "pop", "idle") /\ UNCHANGED <<list, buf>>
       ELSE /\ Goto(w, "pop", "use")
            /\ head_' = next[head_]
            /\ tail_' = IF next[head_] = Null THEN Null ELSE tail_
            /\ buf' = [buf EXCEPT ![w] = data[head_]]
            /\ next' = [next EXCEPT ![head_] = deallocated_nodes_]
            /\ deallocated_nodes_' = head_
            /\ UNCHANGED data
    /\ UNCHANGED freed

insert_node_at_tail(node) ==
    /\ next' = [n \in Nodes |->
         IF n = tail_ THEN node ELSE IF n = node THEN Null ELSE next[n]]
    /\ tail_' = node
    /\ head_' = IF head_ = Null THEN node ELSE head_

(* push_back with allocate_node: without a deallocated node it fails, and  *)
(* the callers do not look at its result.                                  *)
push_back(w) ==
    /\ Holds(w)
    /\ mutex_' = Tail(mutex_)
    /\ Goto(w, "push", "idle")
    /\ IF deallocated_nodes_ = Null THEN UNCHANGED list
       ELSE /\ deallocated_nodes_' = next[deallocated_nodes_]
            /\ data' = [data EXCEPT ![deallocated_nodes_] = buf[w]]
            /\ insert_node_at_tail(deallocated_nodes_)
    /\ buf' = [buf EXCEPT ![w] = NoBuf]
    /\ UNCHANGED freed

(* The context of the backend that is in use.                              *)
create_ctx(w) == pop_front(w)
destroy_ctx(w) == push_back(w)
direct_create_ctx(w) == create_ctx(w)
direct_destroy_ctx(w) == destroy_ctx(w)

-----------------------------------------------------------------------------
(* The nodes from one on, at most k of them.                               *)
Chain(first) ==
    LET from[k \in 0..NumNodes] ==
          IF k = 0 THEN << >>
          ELSE IF from[k - 1] = << >>
               THEN IF k = 1 /\ first # Null THEN <<first>> ELSE << >>
          ELSE IF next[from[k - 1][Len(from[k - 1])]] = Null THEN from[k - 1]
          ELSE Append(from[k - 1], next[from[k - 1][Len(from[k - 1])]])
    IN from[NumNodes]

NodesOf(first) == {Chain(first)[i] : i \in 1..Len(Chain(first))}

(* The host takes the list down when no kernel runs.                       *)
deallocate_all_nodes ==
    /\ \A w \in Waves : pc[w] \in {"idle", "use"}
    /\ freed = {} /\ NumNodes > 0
    /\ freed' = NodesOf(head_) \cup NodesOf(deallocated_nodes_)
    /\ head_' = Null /\ tail_' = Null /\ deallocated_nodes_' = Null
    /\ UNCHANGED <<data, next, mutex_, pc, buf>>

Advance(w) == direct_create_ctx(w) \/ direct_destroy_ctx(w)

Next ==
    \/ \E w \in Waves : Lock(w) \/ Advance(w)
    \/ deallocate_all_nodes

Spec == Init /\ [][Next]_vars

(* Lock holders finish, and every wavefront that uses a buffer comes back. *)
FairSpec ==
    Spec /\ \A w \in Waves : WF_vars(Advance(w)) /\ WF_vars(pc[w] = "use" /\ Lock(w))

-----------------------------------------------------------------------------
TypeOK ==
    /\ {head_, tail_, deallocated_nodes_} \subseteq Nodes \cup {Null}
    /\ next \in [Nodes -> Nodes \cup {Null}]
    /\ freed \subseteq Nodes
    /\ pc \in [Waves -> {"idle", "pop", "use", "push"}]

(* pop_front and push_back return.                                         *)
EveryCallReturns ==
    \A w \in Waves : pc[w] \in {"pop", "push"} ~> pc[w] \notin {"pop", "push"}

Pool == INSTANCE BufferPool WITH
    pool <- IF freed = {} THEN [i \in 1..Len(Chain(head_)) |-> data[Chain(head_)[i]]]
            ELSE << >>,
    held <- [w \in Waves |-> buf[w]]

(* Until it is taken down, the list is a first-in first-out pool of the    *)
(* buffers.                                                                *)
ImplementsPool == Pool!Init /\ [][freed' = {} => Pool!Next]_<<list, buf>>
=============================================================================
