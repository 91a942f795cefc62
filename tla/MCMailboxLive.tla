---------------------------- MODULE MCMailboxLive ----------------------------
(* One child, a report, two events, one more than are kept, and one reload:  *)
(* small enough for liveness.                                                *)
EXTENDS Mailbox

CONSTANTS c1, say, e1, e2, old, new

MCChildren   == {c1}
MCReports    == {say}
MCEvents     == {e1, e2}
MCTransports == {old, new}
MCOf         == [id \in {say, e1, e2} |-> c1]
=============================================================================
