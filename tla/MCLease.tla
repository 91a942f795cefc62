------------------------------- MODULE MCLease -------------------------------
(* The lease of one panel child for TLC, and what the documents say of it      *)
(* without the exceptions of Lease.                                            *)
EXTENDS Lease

(* docs/pi-subagents/spec.md:437: a launch that was not confirmed allows no    *)
(* second runtime.                                                             *)
OneRuntimeAlways == \A r, s \in Writers : r = s

(* docs/pi-subagents/spec.md:407: the reload of a child keeps its binding.     *)
BoundAcrossReloads ==
  Quiet => \A r \in Runtimes : proc[r] = "serving" => record.runtime = r \/ "doubt" \in marks

(* docs/pi-subagents/spec.md:354: a child that was stopped never comes back by *)
(* itself.                                                                     *)
StoppedStaysDown == [][Acts /\ launch' # launch => record.intent = "active"]_leaseVars

(* docs/pi-subagents/spec.md:340-341: a stop never touches the panel of a      *)
(* process that went to another session.                                       *)
LeftIsLeftAlone ==
  [][StopCloses => \A r \in Runtimes : proc[r] = "left" => proc'[r] = "left"]_leaseVars

(* docs/pi-subagents/spec.md:420: while the host does not answer, the parent   *)
(* goes on waiting for its list, and what ended is settled with it.            *)
AlwaysRecorded == Overdue ~> ~Overdue

(* docs/pi-subagents/spec.md:411: a panel that the human closed while the host *)
(* lives is not brought back by itself.                                        *)
ClosedStaysClosed == generation = 1 => launch.by # "reconcile"
=============================================================================
