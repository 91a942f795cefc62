--------------------------- MODULE MCDelegations ---------------------------
(* Delegations on a small instance.                                          *)
EXTENDS Delegations

CONSTANTS d1, d2, d3
=============================================================================
