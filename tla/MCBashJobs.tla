----------------------------- MODULE MCBashJobs -----------------------------
(* One job in full detail: its shell, descendants, timers, sweep, ledger row  *)
(* and every registry lifetime. Jobs meet only in the admission budget and   *)
(* the eviction, which MCBashDelivery checks with several of them.           *)
EXTENDS BashJobs

CONSTANTS j1, b1

MCJobs    == {j1}
MCBatches == {b1}
=============================================================================
