-------------------------- MODULE MCCheckpointStore --------------------------
(***************************************************************************)
(* Two callers of one thread.  MaxPerThread is small enough for evictions  *)
(* below a checkpoint that a caller still has in its config.               *)
(***************************************************************************)
EXTENDS CheckpointStore

CONSTANTS c1, c2

TwoClients == {c1, c2}

ClientSymmetry == Permutations(Clients)

=============================================================================
