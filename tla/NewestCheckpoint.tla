-------------------------- MODULE NewestCheckpoint --------------------------
(***************************************************************************)
(* What a checkpoint saver promises about the latest checkpoint of a       *)
(* thread, whatever is stored, evicted or written late below it: the head  *)
(* is replaced by newer checkpoints only, until the thread is deleted.     *)
(***************************************************************************)
EXTENDS Naturals

VARIABLE head       \* when the latest checkpoint was made; 0: there is none

Init == head = 0

Advance == head' \in Nat /\ head' > head

Forget == head' = 0

Spec == Init /\ [][Advance \/ Forget]_head

=============================================================================
