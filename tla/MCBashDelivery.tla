--------------------------- MODULE MCBashDelivery ---------------------------
(* Two commands that share the admission budget, the retention bound and the *)
(* delivery batches, in a conversation whose trunk forks into two branches   *)
(* the session goes back and forth between; for liveness one batch at a time. *)
EXTENDS BashDelivery, TLC

CONSTANTS j1, j2, b1, b2, west, east

MCJobs     == {j1, j2}
MCBatches  == {b1, b2}
MCBranches == {west, east}
LiveBatches == {b1}
Symmetric  == Permutations(MCJobs) \cup Permutations(MCBatches)
              \cup Permutations(MCBranches)
=============================================================================
