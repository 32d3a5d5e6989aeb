---------------------------- MODULE MCMlx5Queue -----------------------------
(***************************************************************************)
(* The mlx5 send queue on small instances.  A behaviour uses either the    *)
(* posts that poll for room or the data-path posts, which do not: their    *)
(* callers stay within the depth of the queue.                             *)
(***************************************************************************)
EXTENDS Mlx5Queue, TLC

CONSTANTS w1, w2
VARIABLE use

Symmetry == Permutations(Waves)

DataPath == INSTANCE Mlx5Queue WITH Ops <- {"dp"}, MaxPost <- Depth - 1

UsesInit == Init /\ use \in {"polled", "data_path"}

UsesNext ==
    \/ use = "polled" /\ Next /\ UNCHANGED use
    \/ use = "data_path" /\ DataPath!Next /\ UNCHANGED use

UsesSpec == UsesInit /\ [][UsesNext]_<<vars, use>>
=============================================================================
