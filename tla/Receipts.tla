------------------------------ MODULE Receipts ------------------------------
(***************************************************************************)
(* packages/pi-subagents/src/receipts.ts: the table of the delegations of   *)
(* one parent to one child. A row is the durable record of one delegation;  *)
(* a write is one transaction that re-reads the row it changes. Rows of     *)
(* several children never meet, so one child is enough.                     *)
(*                                                                         *)
(* Task text, revision numbers, timestamps, side effects and the retry flag  *)
(* are left out: they only serve to look a delegation up.                   *)
(***************************************************************************)
EXTENDS Naturals, FiniteSets, FiniteSetsExt

CONSTANTS Delegations,  \* delegation ids
          None          \* NULL

ASSUME NoneAssumption == None \notin Nat \cup Delegations

VARIABLE row

Open == {"reserved", "dispatching", "accepted", "running"}
Final == {"completed", "blocked", "failed", "uncertain"}

NoRow == [status |-> "absent", waits |-> FALSE,
          boundary |-> None, control |-> None, answer |-> None]

(* What ended a turn or a compaction: the version of the turn or the id of   *)
(* the compaction, and what the child said. `by` and `text` stand for the     *)
(* message: who composed it and from which turn.                            *)
Settlement(version, control, status, by, text) ==
  [version |-> version, control |-> control, status |-> status, by |-> by, text |-> text]

MaxRunBoundary == Max({0} \cup ({row[d].boundary : d \in Delegations} \ {None}))

(* Reserved and, in the same call, dispatching.                              *)
Reserved(d, waits) ==
  [row EXCEPT ![d] = [NoRow EXCEPT !.status = "dispatching", !.waits = waits]]

Rewritten(d, status, boundary, control, answer) ==   \* mutant: no look at the stored status
  [row EXCEPT ![d].status = status, ![d].boundary = boundary,
              ![d].control = control, ![d].answer = answer]

(* An update of a row that is still being dispatched.                        *)
Updated(d, status, boundary, control, answer) ==
  IF row[d].status = "dispatching"
    THEN [row EXCEPT ![d].status = status, ![d].boundary = boundary,
                     ![d].control = control, ![d].answer = answer]
    ELSE row

Ended(ds, status, answer) ==
  [d \in Delegations |->
     IF d \in ds THEN [row[d] EXCEPT !.status = status, !.answer = answer] ELSE row[d]]

OpenRows == {d \in Delegations : row[d].status \in Open}

SettledByAny(event) ==   \* mutant: settles the open delegations of the child, whatever their turn
  {d \in OpenRows : row[d].boundary # None \/ row[d].control # None}

(* The rows an event settles: the ones bound to its own turn or operation.   *)
SettledBy(event) ==
  {d \in OpenRows :
     IF event.control = None
       THEN row[d].boundary = event.version /\ row[d].control = None
       ELSE row[d].control = event.control}

Settled(event) == Ended(SettledBy(event), event.status, event)

(* What the start of a session can no longer confirm.                        *)
SweptDispatches == {d \in Delegations : row[d].status = "dispatching"}
SweptControls == {d \in Delegations : row[d].status \in {"accepted", "running"} /\ row[d].control # None}
-----------------------------------------------------------------------------
(* The life of a row: bound at most once, to a turn or to a compaction, and  *)
(* ended at most once, after which nothing of it changes.                    *)
Bound(r) == r.boundary # None \/ r.control # None

Lawful(old, new) ==
  \/ old = NoRow /\ new.status = "dispatching" /\ ~Bound(new)
  \/ /\ old.status \in Open /\ new.status \in Open \cup Final
     /\ Bound(old) => new.boundary = old.boundary /\ new.control = old.control
     /\ new.status = "accepted" => Bound(new)
     /\ new.status # "dispatching"

RowsAreLawful == [][\A d \in Delegations : row'[d] # row[d] => Lawful(row[d], row'[d])]_row
=============================================================================
