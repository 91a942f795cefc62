---------------------------- MODULE Delegations ----------------------------
(***************************************************************************)
(* packages/pi-subagents/src/manager.ts around one child: how a delegation   *)
(* is dispatched, bound to a turn, settled, waited for and delivered.        *)
(*                                                                         *)
(* The manager numbers the turns of the child by the starts it has heard of  *)
(* (`mem.version`). A delegation is bound to the number the manager expects   *)
(* its turn to have, and the turn's answer settles every delegation bound to *)
(* that number. Operations of one child run one after the other (`chain`),   *)
(* but starts are counted when they arrive, reports of the child are         *)
(* answered at once, and a call waits outside the chain.                     *)
(*                                                                         *)
(* The child is external: it takes inputs into its turn, or starts one.      *)
(* Its process runs in the background, or survives a reload of the parent.    *)
(***************************************************************************)
EXTENDS Receipts, Sequences

CONSTANTS Compactions,  \* the delegations whose task is /compact
          Outcomes,     \* how a turn can end: "done", "blocked" (aborted), "error"
          MaxTurns,     \* bound: turns of the child
          MaxAsks,      \* bound: contact_parent calls of the child
          Faults,       \* what may happen to a run
          MaxFaults     \* bound: how often, all kinds together

ASSUME DelegationsAssumption ==
  /\ Compactions \subseteq Delegations
  /\ Outcomes \subseteq {"done", "blocked", "error"}
  /\ Faults \subseteq {"stop", "death", "restart", "throw", "refusal", "unread"}
  /\ {MaxTurns, MaxAsks, MaxFaults} \subseteq Nat

VARIABLES
  record,   \* the child's row in the registry: its state and intent
  mem,      \* the manager's maps for the child
  waiter,   \* the call that waits for an answer of the child
  report,   \* the automatic report: armed, or reading the child's answer
  chain,    \* operations of the child that were not run yet; the head runs
  call,     \* where the call of each delegation is
  child,    \* the child's process and session
  wire,     \* requests, acknowledgements and events under way
  latest,   \* latest[d]: the latest settlement when the call of d, not over, came
  pushed,   \* settlements this parent delivered to its conversation
  told,     \* settlements that ended a wait of this parent
  left      \* what is left of the bounds, and what cannot be undone

vars == <<row, record, mem, waiter, report, chain, call, child, wire, latest,
          pushed, told, left>>

States == {"running", "done", "blocked", "error"}
NoReport == [phase |-> "none", version |-> 0, state |-> "done", moved |-> FALSE, text |-> 0]
NoWaiter == [d |-> None, boundary |-> None]
FreshMemory == [version |-> 0, working |-> FALSE, recent |-> None, last |-> None,
                projector |-> FALSE, owned |-> FALSE, armed |-> FALSE]

Init ==
  /\ row = [d \in Delegations |-> NoRow]
  /\ record = [state |-> "done", intent |-> "active"]
  /\ mem = [FreshMemory EXCEPT !.projector = TRUE, !.owned = TRUE]
  /\ waiter = NoWaiter
  /\ report = NoReport
  /\ chain = <<>>
  /\ call = [d \in Delegations |-> "idle"]
  /\ child = [up |-> TRUE, busy |-> FALSE, turn |-> 0, said |-> 0,
              compaction |-> None, held |-> {}]
  /\ wire = [requests |-> {}, acks |-> {}, events |-> <<>>, exited |-> FALSE]
  /\ latest = [d \in Delegations |-> None]
  /\ pushed = {}
  /\ told = {}
  /\ left = [asks |-> MaxAsks, faults |-> MaxFaults, thrown |-> FALSE,
             restarted |-> FALSE, undelivered |-> FALSE, late |-> FALSE]

-----------------------------------------------------------------------------
(* A sign of life makes a report that is being read look again; only a new   *)
(* turn or a new input takes back one that is armed.                         *)
Bumped == IF report.phase = "none" THEN report ELSE [report EXCEPT !.moved = TRUE]

Fault(kind) == kind \in Faults /\ left.faults > 0
Spent == [left EXCEPT !.faults = @ - 1]

Enqueue(job) == chain' = Append(chain, job)
Running(op) == chain # <<>> /\ Head(chain).op = op
Done == chain' = Tail(chain)

(* The claim of a child goes with its process; a process that this parent     *)
(* started counts as alive until its exit was noticed.                      *)
SeemsAlive == child.up \/ (mem.owned /\ wire.exited)

(* A steer into a turn that started shares its number, anything else gets    *)
(* the next one.                                                            *)
NextClaim == IF mem.working /\ mem.version > 0 THEN mem.version ELSE mem.version + 1

AlwaysClaimed(rows) == waiter.d # None   \* mutant: any waiter owns any settlement
NeverShared(rows) == FALSE   \* mutant: a waiter owns nothing
(* Does the waiting call own a settlement of these rows?                     *)
ClaimedByWaiter(rows) ==
  \/ waiter.d \in rows
  \/ waiter.boundary # None /\ \E d \in rows : row[d].boundary = waiter.boundary

Answered(d) == call[d] = "waiting" /\ row[d].status \in Final
AnsweredWaiter == \E d \in Delegations : waiter.d = d /\ Answered(d)

(* Records a settlement and delivers it: to the waiting call, or to the      *)
(* conversation, which may refuse it. (A waiting call that was answered and   *)
(* did not return yet still claims what its turn says, and never tells it.)  *)
Delivers == {TRUE} \cup {~Fault("refusal")}
Settle(event, ok) ==
  LET claimed == ClaimedByWaiter(SettledBy(event))
  IN  /\ row' = Settled(event)
      /\ pushed' = IF ~claimed /\ ok THEN pushed \cup {event} ELSE pushed
      /\ left' = IF claimed THEN [left EXCEPT !.late = @ \/ AnsweredWaiter]
                 ELSE IF ok THEN left ELSE [Spent EXCEPT !.undelivered = TRUE]
-----------------------------------------------------------------------------
(* A call: the delegation gets its row, and its place in the chain. A second  *)
(* waiting call is refused before.                                          *)
Delegate(d, waits) ==
  /\ call[d] = "idle"
  /\ waits => waiter.d = None
  /\ row' = Reserved(d, waits)
  /\ waiter' = IF waits THEN [d |-> d, boundary |-> None] ELSE waiter
  /\ call' = [call EXCEPT ![d] = "queued"]
  /\ Enqueue([op |-> "send", d |-> d, claim |-> None])
  /\ report' = Bumped
  /\ mem' = [mem EXCEPT !.armed = FALSE]
  /\ latest' = [latest EXCEPT ![d] = mem.recent]
  /\ UNCHANGED <<record, child, wire, pushed, told, left>>

Sending(d, where) == Running("send") /\ Head(chain).d = d /\ call[d] = where

(* The claim is made before the request goes out.                            *)
Dispatch(d, claim) ==
  /\ chain' = [chain EXCEPT ![1].claim = IF d \in Compactions THEN None ELSE claim]
  /\ call' = [call EXCEPT ![d] = "sent"]
  /\ record' = [state |-> "running", intent |-> "active"]
  /\ UNCHANGED <<row, waiter, report, latest, pushed, told, left>>

SendRequest(d) ==
  /\ Sending(d, "queued") /\ child.up
  /\ Dispatch(d, NextClaim)
  /\ mem' = [mem EXCEPT !.working = TRUE]
  /\ wire' = [wire EXCEPT !.requests = @ \cup {d}]
  /\ UNCHANGED child

(* Reports of a runtime that ended are refused when they are heard.           *)
Outdated(types) ==
  [i \in DOMAIN wire.events |->
     IF wire.events[i].type \in types THEN [type |-> "stale"] ELSE wire.events[i]]

(* No process: it is started again. (What the new process says of itself when  *)
(* the dispatch is over, the job #adopt, is left out: its events say the same.) *)
Resume(d) ==
  /\ Sending(d, "queued") /\ ~SeemsAlive
  /\ LET version == Max({mem.version, MaxRunBoundary})
     IN  /\ Dispatch(d, version + 1)
         /\ mem' = [mem EXCEPT !.working = TRUE, !.version = version,
                               !.projector = TRUE, !.owned = TRUE]
  /\ child' = [child EXCEPT !.up = TRUE]
  /\ wire' = [wire EXCEPT !.requests = @ \cup {d}, !.events = Outdated({"report"}), !.exited = FALSE]

(* The call is over, and with it the occupancy of the child.                  *)
Leave(d) ==
  /\ waiter' = IF row[d].waits THEN NoWaiter ELSE waiter
  /\ call' = [call EXCEPT ![d] = "over"]
  /\ latest' = [latest EXCEPT ![d] = None]

(* The process may still be running, as far as this parent knows.            *)
SendDoubted(d) ==
  /\ Sending(d, "queued") /\ ~child.up /\ SeemsAlive
  /\ row' = Updated(d, "uncertain", None, None, None)
  /\ Leave(d)
  /\ Done
  /\ UNCHANGED <<record, mem, report, child, wire, pushed, told, left>>

(* The start failed: the session has no place and nothing was touched, or the  *)
(* launch failed, before there was a process or when nobody knows. A process    *)
(* of a failed launch is taken to be gone.                                   *)
ResumeFails(d) ==
  /\ Sending(d, "queued") /\ ~SeemsAlive
  /\ \/ /\ row' = Updated(d, "failed", None, None, None)
        /\ UNCHANGED <<record, mem>>
     \/ \E started \in BOOLEAN :
          /\ row' = Updated(d, IF started THEN "uncertain" ELSE "failed", None, None, None)
          /\ record' = [state |-> IF started THEN "error" ELSE record.state, intent |-> "active"]
          /\ mem' = [mem EXCEPT !.working = started \/ record.state \in {"running", "error"},
                               !.projector = TRUE]
  /\ Leave(d)
  /\ Done
  /\ UNCHANGED <<report, child, wire, pushed, told, left>>

NeverFails(d) == FALSE   \* mutant: a request has no deadline

(* The request was refused, or not answered in time; then it is withdrawn.   *)
SendFails(d) ==
  /\ Sending(d, "sent")
  /\ row' = Updated(d, "uncertain", None, None, None)
  /\ wire' = [wire EXCEPT !.requests = @ \ {d}, !.acks = {a \in @ : a.d # d}]
  /\ Leave(d)
  /\ Done
  /\ UNCHANGED <<record, mem, report, child, pushed, told, left>>

(* The registry refuses a read or a write before the request: the call        *)
(* returns a failure, and that is all it does.                               *)
SendThrows(d) ==
  /\ Fault("throw")
  /\ Sending(d, "queued")
  /\ call' = [call EXCEPT ![d] = "over"]
  /\ Done
  /\ left' = [Spent EXCEPT !.thrown = TRUE]
  /\ UNCHANGED <<row, record, mem, waiter, report, child, wire, latest, pushed, told>>

(* The acknowledgement binds the delegation, and ends it at once if the       *)
(* latest settlement is the one of its turn or operation.                    *)
Acknowledged(d) ==
  /\ Sending(d, "sent")
  /\ \E ack \in wire.acks :
       /\ ack.d = d
       /\ LET claim == Head(chain).claim
              early == /\ mem.recent # None
                       /\ mem.recent.control = ack.control
                       /\ ack.control = None => mem.recent.version = claim
              bound == IF early THEN Updated(d, mem.recent.status, claim, ack.control, mem.recent)
                                ELSE Updated(d, "accepted", claim, ack.control, None)
          IN  /\ row' = bound
              /\ IF row[d].waits /\ bound[d].status = "accepted"
                   THEN /\ call' = [call EXCEPT ![d] = "waiting"]
                        /\ waiter' = [waiter EXCEPT !.boundary = claim]
                        /\ UNCHANGED latest
                   ELSE Leave(d)
       /\ wire' = [wire EXCEPT !.acks = @ \ {ack}]
  /\ Done
  /\ UNCHANGED <<record, mem, report, child, pushed, told, left>>

(* The end of a wait: the delegation ended, or the caller gave up.           *)
Wake(d) ==
  /\ Answered(d)
  /\ told' = told \cup ({row[d].answer} \ {None})
  /\ Leave(d)
  /\ UNCHANGED <<row, record, mem, report, chain, child, wire, pushed, left>>

Cancel(d) ==
  /\ call[d] = "waiting" /\ row[d].status \in Open
  /\ Leave(d)
  /\ UNCHANGED <<row, record, mem, report, chain, child, wire, pushed, told, left>>
-----------------------------------------------------------------------------
(* The child. A steer joins the turn it meets, any other input opens one; a   *)
(* /compact joins the compaction it meets, and inputs wait for its end.       *)
parentSide == <<row, record, mem, waiter, report, chain, call, latest, pushed, told>>

Ack(d, control) == [wire EXCEPT !.requests = @ \ {d}, !.acks = @ \cup {[d |-> d, control |-> control]}]
Emit(w, event) == [w EXCEPT !.events = Append(@, event)]

StartTurn ==
  /\ child.turn < MaxTurns
  /\ child' = [child EXCEPT !.turn = @ + 1, !.busy = TRUE, !.compaction = None, !.held = {}]

Accept(d) ==
  /\ child.up /\ d \in wire.requests
  /\ \/ /\ d \in Compactions
        /\ LET control == IF child.compaction = None THEN d ELSE child.compaction
           IN  /\ child' = [child EXCEPT !.compaction = control]
               /\ wire' = Ack(d, control)
     \/ /\ d \notin Compactions /\ child.compaction # None
        /\ child' = [child EXCEPT !.held = @ \cup {d}]
        /\ wire' = Ack(d, None)
     \/ /\ d \notin Compactions /\ child.compaction = None /\ child.busy
        /\ wire' = Ack(d, None)
        /\ UNCHANGED child
     \/ /\ d \notin Compactions /\ child.compaction = None /\ ~child.busy
        /\ StartTurn
        /\ wire' = Emit(Ack(d, None), [type |-> "start"])
  /\ UNCHANGED <<parentSide, left>>

EndTurn(outcome) ==
  /\ child.up /\ child.busy
  /\ child' = [child EXCEPT !.busy = FALSE, !.said = IF outcome = "done" THEN child.turn ELSE @]
  /\ wire' = Emit(wire, [type |-> "settled", outcome |-> outcome])
  /\ UNCHANGED <<parentSide, left>>

(* contact_parent: the turn reports that it is blocked or failed, and goes on. *)
(* The calls left number its message; the end of a compaction is number 0.   *)
Ask(status) ==
  /\ child.up /\ child.busy /\ left.asks > 0
  /\ wire' = Emit(wire, [type |-> "report", status |-> status, control |-> None,
                              text |-> left.asks])
  /\ left' = [left EXCEPT !.asks = @ - 1]
  /\ UNCHANGED <<parentSide, child>>

CompactionEnds(status) ==
  /\ child.up /\ child.compaction # None
  /\ LET reported == Emit(wire, [type |-> "report", status |-> status,
                                 control |-> child.compaction, text |-> 0])
     IN  IF child.held = {} \/ child.busy
           THEN child' = [child EXCEPT !.compaction = None, !.held = {}] /\ wire' = reported
           ELSE StartTurn /\ wire' = Emit(reported, [type |-> "start"])
  /\ UNCHANGED <<parentSide, left>>

Dead == [child EXCEPT !.up = FALSE, !.busy = FALSE, !.compaction = None, !.held = {}]

ChildDies ==
  /\ child.up /\ Fault("death")
  /\ child' = Dead
  /\ wire' = [wire EXCEPT !.exited = TRUE]
  /\ left' = Spent
  /\ UNCHANGED parentSide
-----------------------------------------------------------------------------
(* What the parent hears, in the order the child sent it. A start counts at   *)
(* once, everything else of an event waits its turn in the chain.            *)
Hearing(type) == wire.events # <<>> /\ Head(wire.events).type = type
NextEvent == wire' = [wire EXCEPT !.events = Tail(@)]

HearStart ==
  /\ Hearing("start")
  /\ mem' = [mem EXCEPT !.version = @ + 1, !.working = TRUE, !.armed = FALSE]
  /\ Enqueue([op |-> "observe", type |-> "start", version |-> mem.version + 1, outcome |-> "running"])
  /\ report' = Bumped
  /\ NextEvent
  /\ UNCHANGED <<row, record, waiter, call, child, latest, pushed, told, left>>

HearSettled ==
  /\ Hearing("settled")
  /\ Enqueue([op |-> "observe", type |-> "settled", version |-> mem.version,
              outcome |-> Head(wire.events).outcome])
  /\ report' = Bumped
  /\ NextEvent
  /\ UNCHANGED <<row, record, mem, waiter, call, child, latest, pushed, told, left>>

HearExit ==
  /\ wire.exited
  /\ wire' = [wire EXCEPT !.exited = FALSE]
  /\ Enqueue([op |-> "ended"])
  /\ report' = Bumped
  /\ UNCHANGED <<row, record, mem, waiter, call, child, latest, pushed, told, left>>

HearStale ==
  /\ Hearing("stale")
  /\ NextEvent
  /\ UNCHANGED <<row, record, mem, waiter, report, chain, call, child, latest, pushed, told, left>>

(* A report of the child: settled and delivered at once, then written to the  *)
(* child's row, neither of it in the chain. Nothing else is heard meanwhile.  *)
ReportSettles ==
  /\ Hearing("report") /\ Head(wire.events).status # "failed"
  /\ LET e == Head(wire.events)
         event == IF e.control = None
                    THEN Settlement(mem.version, None, e.status, "child", e.text)
                    ELSE Settlement(None, e.control, e.status, "child", e.text)
     IN  /\ mem' = [mem EXCEPT !.recent = event]
         /\ \E ok \in Delivers :
              /\ Settle(event, ok)
              /\ IF ok \/ ClaimedByWaiter(SettledBy(event))
                   THEN wire' = [wire EXCEPT !.events[1].type = "update"]
                   ELSE NextEvent
  /\ UNCHANGED <<record, waiter, report, chain, call, child, latest, told>>

(* A failure that the child reports settles nothing: it is told, and the      *)
(* child counts as stopped.                                                  *)
ReportTells ==
  /\ Hearing("report") /\ Head(wire.events).status = "failed"
  /\ \E ok \in Delivers :
       IF ok THEN wire' = [wire EXCEPT !.events[1].type = "update"] /\ UNCHANGED left
             ELSE NextEvent /\ left' = Spent
  /\ UNCHANGED <<row, record, mem, waiter, report, chain, call, child, latest, pushed, told>>

ReportUpdates ==
  /\ Hearing("update")
  /\ LET status == Head(wire.events).status
     IN  IF status = "failed"
           THEN /\ record' = [state |-> "error", intent |-> "stopped"]
                /\ UNCHANGED mem
           ELSE /\ record' = [record EXCEPT !.state = IF status = "blocked" THEN "blocked" ELSE "done"]
                /\ mem' = [mem EXCEPT !.working = FALSE]
  /\ NextEvent
  /\ UNCHANGED <<row, waiter, report, chain, call, child, latest, pushed, told, left>>
-----------------------------------------------------------------------------
(* Operations of the chain.                                                 *)
Current(job) == job.version = mem.version

Observe ==
  /\ Running("observe")
  /\ LET job == Head(chain)
     IN  IF record.intent = "stopped" \/ ~mem.projector
           THEN UNCHANGED <<record, mem>>
           ELSE /\ record' = [record EXCEPT !.state = job.outcome]
                /\ mem' = IF ~Current(job) THEN mem
                          ELSE IF job.type = "settled"
                            THEN [mem EXCEPT !.working = FALSE, !.armed = TRUE]
                          ELSE IF record.state # job.outcome
                            THEN [mem EXCEPT !.working = TRUE]
                          ELSE mem
  /\ Done
  /\ UNCHANGED <<row, waiter, report, call, child, wire, latest, pushed, told, left>>

(* The timer of an automatic report: a child that works, runs or was stopped  *)
(* is not reported. Half a second is enough for an answered call to return.   *)
ReportFires ==
  /\ mem.armed /\ report = NoReport
  /\ \A d \in Delegations : ~Answered(d)
  /\ mem' = [mem EXCEPT !.armed = FALSE]
  /\ report' = IF mem.working \/ record.intent = "stopped" \/ record.state = "running"
                 THEN NoReport
                 ELSE [phase |-> "reading", version |-> mem.version, state |-> record.state,
                       moved |-> FALSE, text |-> 0]
  /\ UNCHANGED <<row, record, waiter, chain, call, child, wire, latest, pushed, told, left>>

(* The answer is read outside the chain; reading it may find nothing.        *)
ReportReads ==
  /\ report.phase = "reading"
  /\ \/ /\ report' = [report EXCEPT !.phase = "queued", !.text = child.said]
        /\ UNCHANGED left
     \/ /\ Fault("unread")
        /\ report' = [report EXCEPT !.phase = "queued"]
        /\ left' = Spent
  /\ Enqueue([op |-> "report"])
  /\ UNCHANGED <<row, record, mem, waiter, call, child, wire, latest, pushed, told>>

Quiet == record.intent # "stopped" /\ record.state # "running" /\ ~mem.working
Moved == report.moved \/ report.version # mem.version

ReportStatus ==
  LET states == {record.state, report.state}
  IN  IF "error" \in states THEN "failed"
      ELSE IF "blocked" \in states THEN "blocked" ELSE "completed"

Unanswered == ReportStatus = "completed" /\ report.text = 0

ReportEvent ==
  IF Unanswered THEN Settlement(report.version, None, "failed", "none", 0)
                ELSE Settlement(report.version, None, ReportStatus, "turn", report.text)

RunReport ==
  LET event == ReportEvent
      written == IF ReportStatus = "failed" THEN "error"
                 ELSE IF ReportStatus = "blocked" THEN "blocked" ELSE "done"
  IN  /\ Running("report")
      /\ Done
      /\ report' = NoReport
      /\ \/ /\ ~Quiet \/ Moved
            /\ mem' = [mem EXCEPT !.armed = @ \/ Quiet]
            /\ UNCHANGED <<row, record, pushed, left>>
         \/ /\ Quiet /\ ~Moved /\ event = mem.last
            /\ UNCHANGED <<row, record, mem, pushed, left>>
         \/ /\ Quiet /\ ~Moved /\ event # mem.last
            /\ record' = [record EXCEPT !.state = written]
            /\ IF Unanswered
                 THEN /\ row' = Settled(event)
                      /\ mem' = [mem EXCEPT !.recent = event]
                      /\ UNCHANGED <<pushed, left>>
                 ELSE \E ok \in Delivers :
                        /\ Settle(event, ok)
                        /\ mem' = [mem EXCEPT !.recent = event,
                                     !.last = IF ok \/ ClaimedByWaiter(SettledBy(event))
                                                THEN event ELSE @]
      /\ UNCHANGED <<waiter, call, child, wire, latest, told>>

StopCall ==
  /\ Fault("stop")
  /\ Enqueue([op |-> "stop"])
  /\ left' = Spent
  /\ UNCHANGED <<row, record, mem, waiter, report, call, child, wire, latest, pushed, told>>

(* A stop writes its intent first. Only a process that is gone ends what is   *)
(* open.                                                                    *)
RunStop ==
  /\ Running("stop")
  /\ Done
  /\ \/ /\ SeemsAlive
        /\ record' = [record EXCEPT !.intent = "stopped"]
        /\ UNCHANGED <<row, mem, report, child, wire>>
     \/ /\ record' = [state |-> "done", intent |-> "stopped"]
        /\ row' = Ended(OpenRows, "failed", None)
        /\ mem' = [mem EXCEPT !.projector = FALSE, !.owned = FALSE]
        /\ report' = Bumped
        /\ child' = Dead
        /\ wire' = [wire EXCEPT !.events = Outdated({"report"}), !.exited = @ \/ child.up]
  /\ UNCHANGED <<waiter, call, latest, pushed, told, left>>

(* The end of a process: the turn it was in is blocked, unless its session     *)
(* ends with an answer.                                                     *)
RunEnded ==
  /\ Running("ended")
  /\ Done
  /\ IF SeemsAlive
       THEN UNCHANGED <<record, mem, wire>>
       ELSE LET wasRunning == record.state = "running" /\ record.intent = "active"
            IN  /\ \E finished \in {FALSE, child.said > 0} :
                     record' = IF wasRunning
                                 THEN [record EXCEPT !.state = IF finished THEN "done" ELSE "blocked"]
                                 ELSE record
                /\ mem' = [mem EXCEPT !.working = FALSE, !.projector = FALSE, !.owned = FALSE,
                                      !.armed = @ \/ wasRunning]
                /\ wire' = [wire EXCEPT !.events = Outdated({"report"})]
  /\ UNCHANGED <<row, waiter, report, call, child, latest, pushed, told, left>>
-----------------------------------------------------------------------------
(* A new parent. After a reload the child is still there and is adopted; when  *)
(* the parent process ended, so did its child. Requests that wait are         *)
(* withdrawn by an orderly end and stay in the mailbox after a crash.          *)
Idle == ~child.busy /\ child.compaction = None

Restart(survives) ==
  /\ Fault("restart")
  /\ survives => child.up
  /\ LET swept == Ended(SweptDispatches \cup SweptControls, "uncertain", None)
         wasRunning == record.state = "running" /\ record.intent = "active"
         adopted == survives /\ record.intent = "active"
         gone == ~survives /\ wasRunning
         states == IF adopted THEN {IF Idle THEN "done" ELSE "running", "error"}
                   ELSE IF gone THEN {"done"} ELSE {record.state}
     IN  /\ row' = [d \in Delegations |->
                      IF gone /\ swept[d].status \in Open
                        THEN [swept[d] EXCEPT !.status = "failed"] ELSE swept[d]]
         /\ \E state \in states : record' = [record EXCEPT !.state = state]
         /\ mem' = [FreshMemory EXCEPT
                      !.version = IF adopted \/ gone THEN MaxRunBoundary ELSE 0,
                      !.working = adopted /\ ~Idle,
                      !.projector = adopted]
  /\ child' = IF survives THEN child ELSE Dead
  /\ \E kept \in SUBSET wire.requests :
       /\ survives => kept = {}
       /\ wire' = [requests |-> kept, acks |-> {}, exited |-> FALSE,
                   events |-> IF survives THEN wire.events ELSE Outdated({"report", "update"})]
  /\ waiter' = NoWaiter
  /\ report' = NoReport
  /\ chain' = <<>>
  /\ call' = [d \in Delegations |-> IF call[d] = "idle" THEN "idle" ELSE "over"]
  /\ left' = [Spent EXCEPT !.restarted = TRUE]
  /\ latest' = [d \in Delegations |-> None]
  /\ pushed' = {} /\ told' = {}
-----------------------------------------------------------------------------
Call == \E d \in Delegations, waits \in BOOLEAN : Delegate(d, waits)

SendStep == \E d \in Delegations :
  SendRequest(d) \/ Resume(d) \/ ResumeFails(d) \/ SendDoubted(d) \/ SendFails(d)

Chained == SendStep \/ (\E d \in Delegations : Acknowledged(d))
           \/ Observe \/ RunReport \/ RunStop \/ RunEnded

Hears == HearStart \/ HearSettled \/ HearExit \/ HearStale \/ ReportSettles \/ ReportTells \/ ReportUpdates
Reports == ReportFires \/ ReportReads
Wakes == \E d \in Delegations : Wake(d)

ChildStep ==
  \/ \E d \in Delegations : Accept(d)
  \/ \E outcome \in Outcomes : EndTurn(outcome)
  \/ \E status \in {"blocked", "failed"} : Ask(status)
  \/ \E status \in {"completed", "blocked"} : CompactionEnds(status)
  \/ ChildDies

Next ==
  \/ Call \/ Chained \/ Hears \/ Reports \/ Wakes \/ ChildStep \/ StopCall
  \/ \E d \in Delegations : SendThrows(d) \/ Cancel(d)
  \/ \E survives \in BOOLEAN : Restart(survives)

(* The parent's event loop runs the head of the chain. Nothing is assumed of   *)
(* the child, of its events, of timers or of callers.                       *)
Spec == Init /\ [][Next]_vars /\ WF_vars(Chained)
-----------------------------------------------------------------------------
Events == [version : Nat \cup {None}, control : Delegations \cup {None},
           status : Final, by : {"turn", "child", "none"}, text : Nat]

Jobs == [op : {"send"}, d : Delegations, claim : Nat \cup {None}]
        \cup [op : {"observe"}, type : {"start", "settled"}, version : Nat, outcome : States]
        \cup [op : {"report", "stop", "ended"}]

WireEvents == [type : {"start", "stale"}]
              \cup [type : {"settled"}, outcome : Outcomes]
              \cup [type : {"report", "update"}, status : {"completed", "blocked", "failed"},
                    control : Delegations \cup {None}, text : Nat]

Rows == [status : Open \cup Final \cup {"absent"}, waits : BOOLEAN,
         boundary : Nat \cup {None}, control : Delegations \cup {None},
         answer : Events \cup {None}]

Memories == [version : Nat, working : BOOLEAN, recent : Events \cup {None},
             last : Events \cup {None}, projector : BOOLEAN, owned : BOOLEAN, armed : BOOLEAN]

ReportStates == [phase : {"none", "reading", "queued"}, version : Nat, state : States,
                 moved : BOOLEAN, text : Nat]

Children == [up : BOOLEAN, busy : BOOLEAN, turn : Nat, said : Nat,
             compaction : Delegations \cup {None}, held : SUBSET Delegations]

Wires == [requests : SUBSET Delegations,
          acks : SUBSET [d : Delegations, control : Delegations \cup {None}],
          events : Seq(WireEvents), exited : BOOLEAN]

Budgets == [asks : Nat, faults : Nat, thrown : BOOLEAN, restarted : BOOLEAN,
            undelivered : BOOLEAN, late : BOOLEAN]

(* Every part of the state has its type, rows and memory alike.              *)
DelegationsTypeOK ==
  /\ row \in [Delegations -> Rows]
  /\ record \in [state : States, intent : {"active", "stopped"}]
  /\ mem \in Memories
  /\ waiter \in [d : Delegations \cup {None}, boundary : Nat \cup {None}]
  /\ report \in ReportStates
  /\ chain \in Seq(Jobs)
  /\ call \in [Delegations -> {"idle", "queued", "sent", "waiting", "over"}]
  /\ child \in Children
  /\ wire \in Wires
  /\ latest \in [Delegations -> Events \cup {None}]
  /\ pushed \subseteq Events /\ told \subseteq Events
  /\ left \in Budgets

(* The slot of a child that one waiting call may hold belongs to a call that  *)
(* has not ended, and a call that waits holds it with the number its turn has.*)
SlotIsOwned ==
  ~left.thrown =>
    /\ waiter.d # None => row[waiter.d].waits /\ call[waiter.d] \in {"queued", "sent", "waiting"}
    /\ \A d \in Delegations :
         call[d] = "waiting" => waiter = [d |-> d, boundary |-> row[d].boundary]

(* An answer that a delegation got reaches the parent: it was pushed, or told  *)
(* to a call, or a call is about to be told. Excepted are a conversation that  *)
(* refused it, a parent that ended, a turn that had no answer, and one that    *)
(* was left to a waiting call that had its own answer already.               *)
AnswersAreHeard ==
  \A d \in Delegations :
    LET answer == row[d].answer
    IN  \/ answer = None \/ left.undelivered \/ left.restarted \/ left.late
        \/ answer.by = "none" \/ answer \in pushed \cup told
        \/ \E w \in Delegations : call[w] = "waiting" /\ row[w].answer = answer

(* A settlement that answers a waiting call is not pushed to the conversation  *)
(* as well, whoever else it answers.                                         *)
OnePath ==
  [][\A d \in Delegations :
       call[d] = "waiting" /\ row'[d].answer # row[d].answer => pushed' = pushed]_vars

(* A delegation is answered by what it is bound to.                           *)
AnswerIsOfItsTurn ==
  \A d \in Delegations :
    LET r == row[d] IN
    r.answer # None =>
      IF r.control = None THEN r.answer.control = None /\ r.answer.version = r.boundary
                          ELSE r.answer.control = r.control

(* A dispatch comes to an end, whatever the child does: no call that was made  *)
(* stays in it. (Every delegation is called at most once.)                    *)
CallIsAnswered == []<>(\A d \in Delegations : call[d] \notin {"queued", "sent"})

(* A new task is not answered with the settlement of an earlier one that was   *)
(* already known when the task was given.                                    *)
NoStaleAnswer ==
  [][\A d \in Delegations :
       row'[d].answer # row[d].answer => row'[d].answer # latest[d]]_vars

(* When the child is idle and nothing is under way, no delegation is open.     *)
AtRest ==
  /\ chain = <<>> /\ wire.events = <<>> /\ wire.requests = {} /\ ~wire.exited
  /\ report = NoReport /\ ~mem.armed /\ Idle
NoResultIsLost == AtRest => OpenRows = {}
=============================================================================
