----------------------------- MODULE GDABarrierWg -----------------------------
(***************************************************************************)
(* barrier_all_wg and barrier_wg of the GDA backend, seen from one         *)
(* work-group: its wavefronts post puts on the queue pairs of the context, *)
(* then call the barrier together.  Thread 0 waits for the queue pairs;    *)
(* the wavefronts meet at the __syncthreads of internal_sync_wg.           *)
(***************************************************************************)
EXTENDS Naturals

CONSTANTS
    Wfs,        \* wavefronts of the work-group
    MaxPuts     \* bound on the puts of a wavefront

Waves == 0..(Wfs - 1)

VARIABLES
    posted,     \* per wavefront: the puts it has posted
    flight,     \* per wavefront: those the adapter has not executed
    pc

vars == <<posted, flight, pc>>

Init ==
    /\ posted = [w \in Waves |-> 0] /\ flight = [w \in Waves |-> 0]
    /\ pc = [w \in Waves |-> "idle"]

Goto(w, l) == pc' = [pc EXCEPT ![w] = l]

put_nbi(w) ==
    /\ pc[w] = "idle" /\ posted[w] < MaxPuts
    /\ posted' = [posted EXCEPT ![w] = @ + 1]
    /\ flight' = [flight EXCEPT ![w] = @ + 1]
    /\ UNCHANGED pc

Execute(w) ==
    /\ flight[w] > 0
    /\ flight' = [flight EXCEPT ![w] = @ - 1]
    /\ UNCHANGED <<posted, pc>>

(* Only thread 0 of the block calls quiet, before the wavefronts meet.     *)
barrier_all_wg(w) ==
    /\ pc[w] = "idle"
    /\ Goto(w, IF w = 0 THEN "quiet" ELSE "meet")
    /\ UNCHANGED <<posted, flight>>

(* quiet returns when the queue pairs have nothing outstanding.            *)
quiet ==
    /\ pc[0] = "quiet" /\ \A w \in Waves : flight[w] = 0
    /\ Goto(0, "meet")
    /\ UNCHANGED <<posted, flight>>

(* internal_sync_wg: __syncthreads, the barrier of the PEs, __syncthreads. *)
internal_sync_wg ==
    /\ \A w \in Waves : pc[w] = "meet"
    /\ pc' = [w \in Waves |-> "left"]
    /\ UNCHANGED <<posted, flight>>

Return(w) ==
    /\ pc[w] = "left" /\ Goto(w, "idle")
    /\ UNCHANGED <<posted, flight>>

Next == \/ quiet \/ internal_sync_wg
        \/ \E w \in Waves : \/ put_nbi(w) \/ Execute(w)
                            \/ barrier_all_wg(w) \/ Return(w)
Spec == Init /\ [][Next]_vars

(* docs/api/coll.rst:40: when the barrier is left, every put a wavefront   *)
(* of the work-group posted before calling it is complete.                 *)
UpdatesAreComplete ==
    (\A w \in Waves : pc[w] = "left") => \A w \in Waves : flight[w] = 0
=============================================================================
