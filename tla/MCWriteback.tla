----------------------------- MODULE MCWriteback -----------------------------
(* Batches of two texts, and one more than the backlog holds with the one in *)
(* flight.                                                                   *)
EXTENDS Writeback
=============================================================================
