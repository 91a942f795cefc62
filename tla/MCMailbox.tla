----------------------------- MODULE MCMailbox -----------------------------
(* One child; a request, a report and an event cross while the parent         *)
(* reloads or restarts once.                                                 *)
EXTENDS Mailbox

CONSTANTS c1, ask, say, ping, old, new

MCChildren   == {c1}
MCRequests   == {ask}
MCReports    == {say}
MCEvents     == {ping}
MCTransports == {old, new}
MCOf         == [id \in {ask, say, ping} |-> c1]
=============================================================================
