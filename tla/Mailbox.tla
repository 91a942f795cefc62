------------------------------ MODULE Mailbox ------------------------------
(***************************************************************************)
(* packages/pi-subagents/src/mailbox.ts over the commands table of           *)
(* state-db.ts: how a parent session and its child processes exchange        *)
(* requests, reports and events through one SQLite file.                     *)
(*                                                                         *)
(* Requests go to a child, reports and events to the parent. Who sends a     *)
(* request or a report waits for its answer by polling the row; a deadline,  *)
(* a cancellation or the end of its transport settles the wait and drops the *)
(* row. Every statement on the table is a transaction, so it is one action;  *)
(* the handlers are asynchronous and everybody else may act while one runs.  *)
(*                                                                         *)
(* A parent process serves its session through one transport at a time. A    *)
(* reload closes the transport and opens another in the same process: the    *)
(* loop over an already claimed batch goes on. A crash ends everything.      *)
(* Payloads are abstracted away; a handler either answers or fails. Left out *)
(* are the connection notices, which read the lock files and never the table.*)
(***************************************************************************)
EXTENDS Naturals, Sequences, SequencesExt, FiniteSetsExt, Selection

CONSTANTS Children, Requests, Reports, Events,  \* command ids are UUIDs: used once
          Of,           \* Of[id]: the child the command is about
          Transports,   \* the transports the parent opens, one after the other
          MaxClaim,     \* commands claimed per poll (LIMIT 20)
          MaxEvents,    \* DEFAULT_MAX_BUFFERED_EVENTS
          WritesFail,   \* an UPDATE or DELETE may fail (SQLITE_BUSY, full disk)
          None

Ids == Requests \cup Reports \cup Events

ASSUME MailboxAssumption ==
  /\ Requests \cap Reports = {} /\ Requests \cap Events = {} /\ Reports \cap Events = {}
  /\ Of \in [Ids -> Children]
  /\ MaxClaim \in Nat \ {0}
  /\ MaxEvents \in Nat
  /\ WritesFail \in BOOLEAN
  /\ None \notin Ids

VARIABLES table,    \* the ids of the rows, in the order they were inserted
          status,   \* status[id]: the row's status
          used,     \* ids sent so far
          faults,   \* a write has failed
          waiting,  \* ids somebody in a living process waits for
          answer,   \* answer[id]: what that caller was told
          runs,     \* runs[id]: how often a handler was called with it
          link,     \* link[t]: the life of transport t
          polling,  \* polling[t]: t is inside its poll
          batch,    \* batch[t]: commands t claimed and has not looked at yet
          current,  \* current[t]: the report whose handler t awaits
          spent,    \* spent[t]: events t has handled and not deleted yet
          lock,     \* the children whose process holds its lock
          busy,     \* busy[c]: the request the child's mailbox is answering
          active    \* active[c]: requests whose handler still runs in c's process

tableVars == <<table, status, used, faults>>
callerVars == <<waiting, answer>>
parentVars == <<link, polling, batch, current, spent>>
childVars == <<lock, busy, active>>
vars == <<tableVars, callerVars, runs, parentVars, childVars>>
-----------------------------------------------------------------------------
Status == {"none", "pending", "working", "done", "failed"}
Answers == {"none", "result", "error", "timeout", "cancelled", "unreadable"}

Rows == Range(table)
AnyDirection == Ids   \* mutant: rows are not told apart by direction
ToParent == Reports \cup Events

(* DELETE ... WHERE id IN gone                                               *)
Delete(gone) == /\ table' = Selected(table, Ids \ gone)
                /\ status' = [id \in Ids |-> IF id \in gone THEN "none" ELSE status[id]]

(* drop, of a waiter that gives up or has read: it may fail, the rows stay.  *)
Drop(ids) == \E kept \in SUBSET ids : /\ kept # {} => WritesFail
                                      /\ Delete(ids \ kept)
                                      /\ faults' = (faults \/ kept # {})

(* UPDATE ... WHERE id = ?: nothing happens to a row that is gone.           *)
Mark(ids, s) == [id \in Ids |-> IF id \in ids \cap Rows THEN s ELSE status[id]]

(* The oldest pending rows among `ids`, at most n of them.                   *)
Oldest(ids, n) ==
  LET ready == Selected(table, {id \in ids : status[id] = "pending"})
  IN  SubSeq(ready, 1, IF Len(ready) < n THEN Len(ready) ELSE n)

Open == {t \in Transports : link[t] = "open"}

Init == /\ table = <<>>
        /\ status = [id \in Ids |-> "none"]
        /\ used = {}
        /\ faults = FALSE
        /\ waiting = {}
        /\ answer = [id \in Ids |-> "none"]
        /\ runs = [id \in Ids |-> 0]
        /\ link = [t \in Transports |-> "unused"]
        /\ polling = [t \in Transports |-> FALSE]
        /\ batch = [t \in Transports |-> <<>>]
        /\ current = [t \in Transports |-> None]
        /\ spent = [t \in Transports |-> {}]
        /\ lock = {}
        /\ busy = [c \in Children |-> None]
        /\ active = [c \in Children |-> {}]

Enqueue(id) == /\ id \notin used
               /\ used' = used \cup {id}
               /\ table' = Append(table, id)
               /\ status' = [status EXCEPT ![id] = "pending"]
               /\ UNCHANGED faults
-----------------------------------------------------------------------------
(* The parent.                                                               *)

(* createMailboxTransport: whatever an earlier transport claimed is pending  *)
(* again, whatever is settled is deleted.                                    *)
OpenTransport(t) ==
  /\ Open = {} /\ link[t] = "unused"
  /\ link' = [link EXCEPT ![t] = "open"]
  /\ LET gone == {id \in Rows : status[id] \in {"done", "failed"}}
     IN  /\ table' = Selected(table, Ids \ gone)
         /\ status' = [id \in Ids |->
              IF id \in gone THEN "none"
              ELSE IF id \in ToParent /\ status[id] = "working" THEN "pending"
              ELSE status[id]]
  /\ UNCHANGED <<used, faults, callerVars, runs, polling, batch, current, spent, childVars>>

(* close: the lifetime aborts, every waiting request drops its row.          *)
CloseTransport(t) ==
  /\ link[t] = "open"
  /\ link' = [link EXCEPT ![t] = "closed"]
  /\ LET cut == waiting \cap Requests
     IN  /\ Drop(cut)
         /\ waiting' = waiting \ cut
         /\ answer' = [id \in Ids |-> IF id \in cut THEN "cancelled" ELSE answer[id]]
  /\ UNCHANGED <<used, runs, polling, batch, current, spent, childVars>>

ParentCrash ==
  /\ \E t \in Transports : link[t] \in {"open", "closed"}
  /\ link' = [t \in Transports |-> IF link[t] = "unused" THEN "unused" ELSE "dead"]
  /\ waiting' = waiting \ Requests
  /\ polling' = [t \in Transports |-> FALSE]
  /\ batch' = [t \in Transports |-> <<>>]
  /\ current' = [t \in Transports |-> None]
  /\ spent' = [t \in Transports |-> {}]
  /\ UNCHANGED <<tableVars, answer, runs, childVars>>

Request(id) ==
  /\ Open # {} /\ id \in Requests
  /\ Enqueue(id)
  /\ waiting' = waiting \cup {id}
  /\ UNCHANGED <<answer, runs, parentVars, childVars>>

(* takeParentCommands: claim a batch when there is anything to claim.        *)
Poll(t) ==
  /\ link[t] = "open" /\ ~polling[t]
  /\ LET claimed == Oldest(ToParent, MaxClaim)
     IN  /\ claimed # <<>>
         /\ polling' = [polling EXCEPT ![t] = TRUE]
         /\ batch' = [batch EXCEPT ![t] = claimed]
         /\ status' = Mark(Range(claimed), "working")
  /\ UNCHANGED <<table, used, faults, callerVars, runs, link, current, spent, childVars>>

NextCommand(t) == /\ polling[t] /\ current[t] = None /\ batch[t] # <<>>

HandleEvent(t) ==
  /\ NextCommand(t)
  /\ LET id == Head(batch[t])
     IN  /\ id \in Events
         /\ runs' = [runs EXCEPT ![id] = @ + 1]
         /\ spent' = [spent EXCEPT ![t] = @ \cup {id}]
  /\ batch' = [batch EXCEPT ![t] = Tail(@)]
  /\ UNCHANGED <<tableVars, callerVars, link, polling, current, childVars>>

(* The handled events go before a report is handed to its handler.           *)
BeginReport(t) ==
  /\ NextCommand(t)
  /\ LET id == Head(batch[t])
     IN  /\ id \in Reports
         /\ runs' = [runs EXCEPT ![id] = @ + 1]
         /\ current' = [current EXCEPT ![t] = id]
  /\ Delete(spent[t])
  /\ spent' = [spent EXCEPT ![t] = {}]
  /\ batch' = [batch EXCEPT ![t] = Tail(@)]
  /\ UNCHANGED <<used, faults, callerVars, link, polling, childVars>>

FinishReport(t) ==
  /\ current[t] # None
  /\ \E s \in {"done", "failed"} : status' = Mark({current[t]}, s)
  /\ current' = [current EXCEPT ![t] = None]
  /\ UNCHANGED <<table, used, faults, callerVars, runs, link, polling, batch, spent, childVars>>

EndBatchStuck(t) ==   \* mutant: the polling flag is not reset
  /\ polling[t] /\ current[t] = None /\ batch[t] = <<>> /\ spent[t] # {}
  /\ Delete(spent[t])
  /\ spent' = [spent EXCEPT ![t] = {}]
  /\ UNCHANGED <<used, faults, callerVars, runs, link, polling, batch, current, childVars>>

EndBatch(t) ==
  /\ polling[t] /\ current[t] = None /\ batch[t] = <<>>
  /\ Delete(spent[t])
  /\ spent' = [spent EXCEPT ![t] = {}]
  /\ polling' = [polling EXCEPT ![t] = FALSE]
  /\ UNCHANGED <<used, faults, callerVars, runs, link, batch, current, childVars>>

(* The table cannot be written: the loop ends with an error and what it      *)
(* claimed stays claimed.                                                    *)
WriteFails(t) ==
  /\ WritesFail /\ polling[t]
  /\ current[t] # None \/ spent[t] # {}
  /\ polling' = [polling EXCEPT ![t] = FALSE]
  /\ batch' = [batch EXCEPT ![t] = <<>>]
  /\ current' = [current EXCEPT ![t] = None]
  /\ spent' = [spent EXCEPT ![t] = {}]
  /\ faults' = TRUE
  /\ UNCHANGED <<table, status, used, callerVars, runs, link, childVars>>
-----------------------------------------------------------------------------
(* A child process.                                                          *)

(* start: the kernel lock admits one process per child.                      *)
Attach(c) ==
  /\ c \notin lock
  /\ lock' = lock \cup {c}
  /\ busy' = [busy EXCEPT ![c] = None]
  /\ UNCHANGED <<tableVars, callerVars, runs, parentVars, active>>

Report(id) ==
  /\ id \in Reports /\ Of[id] \in lock
  /\ Enqueue(id)
  /\ waiting' = waiting \cup {id}
  /\ UNCHANGED <<answer, runs, parentVars, childVars>>

SendUntrimmed(id) ==   \* mutant: the backlog is not trimmed
  /\ id \in Events /\ Of[id] \in lock
  /\ Enqueue(id)
  /\ UNCHANGED <<callerVars, runs, parentVars, childVars>>

(* sendEvent: insert, then keep only the newest pending events of the child. *)
SendEvent(id) ==
  /\ id \in Events /\ Of[id] \in lock
  /\ id \notin used
  /\ used' = used \cup {id}
  /\ LET queued == Selected(table, {e \in Events : Of[e] = Of[id] /\ status[e] = "pending"}) \o <<id>>
         trimmed == {queued[i] : i \in 1..(Len(queued) - MaxEvents)}
     IN  /\ table' = Selected(Append(table, id), Ids \ trimmed)
         /\ status' = [e \in Ids |-> IF e \in trimmed THEN "none"
                                    ELSE IF e = id THEN "pending" ELSE status[e]]
  /\ UNCHANGED <<faults, callerVars, runs, parentVars, childVars>>

(* tick: one request at a time, claimed before its handler is called.        *)
Take(c) ==
  /\ c \in lock /\ busy[c] = None
  /\ LET next == Oldest({id \in Requests : Of[id] = c}, 1)
     IN  /\ next # <<>>
         /\ status' = Mark(Range(next), "working")
         /\ busy' = [busy EXCEPT ![c] = Head(next)]
         /\ active' = [active EXCEPT ![c] = @ \cup {Head(next)}]
         /\ runs' = [runs EXCEPT ![Head(next)] = @ + 1]
  /\ UNCHANGED <<table, used, faults, callerVars, parentVars, lock>>

(* The outcome is stored, or that write fails and the row stays claimed.     *)
Answer(c, id) ==
  /\ id \in active[c]
  /\ \/ \E s \in {"done", "failed"} : status' = Mark({id}, s)
        /\ UNCHANGED faults
     \/ WritesFail /\ faults' = TRUE /\ UNCHANGED status
  /\ active' = [active EXCEPT ![c] = @ \ {id}]
  /\ busy' = [busy EXCEPT ![c] = IF @ = id THEN None ELSE @]
  /\ UNCHANGED <<table, used, callerVars, runs, parentVars, lock>>

ReportsOf(c) == {id \in Reports : Of[id] = c}

(* close (quit, reload, or leaving the session): waits end, the lock goes,   *)
(* a handler that runs is not interrupted.                                   *)
Detach(c) ==
  /\ c \in lock
  /\ lock' = lock \ {c}
  /\ LET cut == waiting \cap ReportsOf(c)
     IN  /\ Drop(cut)
         /\ waiting' = waiting \ cut
         /\ answer' = [id \in Ids |-> IF id \in cut THEN "cancelled" ELSE answer[id]]
  /\ busy' = [busy EXCEPT ![c] = None]
  /\ UNCHANGED <<used, runs, parentVars, active>>

ChildExit(c) ==
  /\ c \in lock \/ active[c] # {}
  /\ lock' = lock \ {c}
  /\ waiting' = waiting \ ReportsOf(c)
  /\ busy' = [busy EXCEPT ![c] = None]
  /\ active' = [active EXCEPT ![c] = {}]
  /\ UNCHANGED <<tableVars, answer, runs, parentVars>>
-----------------------------------------------------------------------------
(* waitForCommand, for either side.                                          *)

Settle(id, a) == /\ id \in waiting
                 /\ waiting' = waiting \ {id}
                 /\ answer' = [answer EXCEPT ![id] = a]
                 /\ UNCHANGED <<used, runs, parentVars, childVars>>

ReadAnswerEarly(id) ==   \* mutant: any row is taken for an answer
  /\ status[id] # "none"
  /\ Settle(id, IF status[id] = "done" THEN "result" ELSE "error")
  /\ Drop({id})

ReadAnswer(id) == /\ status[id] \in {"done", "failed"}
                  /\ Settle(id, IF status[id] = "done" THEN "result" ELSE "error")
                  /\ Drop({id})

ExpireExisting(id) ==   \* mutant: a row that is gone is waited for
  /\ status[id] \in {"pending", "working"}
  /\ Settle(id, "timeout")
  /\ Drop({id})

(* The deadline is read before the row: a row that is gone expires as well.  *)
Expire(id) == /\ status[id] \in {"none", "pending", "working"}
              /\ Settle(id, "timeout")
              /\ Drop({id})

CancelKeeps(id) ==   \* mutant: the row of a cancelled wait stays
  Settle(id, "cancelled") /\ UNCHANGED <<table, status, faults>>
Cancel(id) == Settle(id, "cancelled") /\ Drop({id})

(* The row cannot be read: the caller is told so, the row stays.             *)
ReadFails(id) == Settle(id, "unreadable") /\ UNCHANGED <<table, status, faults>>

Wait(id) == ReadAnswer(id) \/ Expire(id) \/ Cancel(id) \/ ReadFails(id)
-----------------------------------------------------------------------------
Loop(t) == \/ HandleEvent(t) \/ BeginReport(t) \/ FinishReport(t) \/ EndBatch(t)
           \/ WriteFails(t)

Next == \/ \E t \in Transports : OpenTransport(t) \/ CloseTransport(t) \/ Poll(t) \/ Loop(t)
        \/ ParentCrash
        \/ \E id \in Ids : Request(id) \/ Report(id) \/ SendEvent(id) \/ Wait(id)
        \/ \E c \in Children : Attach(c) \/ Take(c) \/ Detach(c) \/ ChildExit(c)
        \/ \E c \in Children, id \in Ids : Answer(c, id)

(* Interval timers fire while their process lives, and deadlines pass.       *)
Fairness == /\ \A t \in Transports : WF_vars(Poll(t)) /\ WF_vars(Loop(t))
            /\ \A id \in Requests \cup Reports : WF_vars(ReadAnswer(id) \/ Expire(id))

Spec == Init /\ [][Next]_vars
FairSpec == Spec /\ Fairness
-----------------------------------------------------------------------------
TypeOK == /\ Rows \subseteq used /\ used \subseteq Ids /\ IsInjective(table)
          /\ faults \in BOOLEAN
          /\ status \in [Ids -> Status]
          /\ \A id \in Ids : status[id] = "none" <=> id \notin Rows
          /\ waiting \subseteq used \ Events
          /\ answer \in [Ids -> Answers]
          /\ runs \in [Ids -> 0..Cardinality(Transports)]
          /\ link \in [Transports -> {"unused", "open", "closed", "dead"}]
          /\ polling \in [Transports -> BOOLEAN]
          /\ \A t \in Transports : Range(batch[t]) \subseteq ToParent
          /\ current \in [Transports -> Reports \cup {None}]
          /\ spent \in [Transports -> SUBSET Events]
          /\ lock \subseteq Children
          /\ busy \in [Children -> Requests \cup {None}]
          /\ active \in [Children -> SUBSET Requests]

(* A child never executes a request twice, whoever crashes, reloads or gives *)
(* up in between: the claim comes before the handler and nothing takes a     *)
(* claimed request back (claimCommand).                                      *)
RequestRunsOnce == \A id \in Requests : runs[id] <= 1

(* An answer is an answer: a caller told "result" or "error" asked for       *)
(* something whose handler was really called; late and duplicate writers     *)
(* never revive a row that was dropped (finishCommand).                      *)
AnswerIsReal ==
  \A id \in Ids : /\ answer[id] \in {"result", "error"} => runs[id] > 0
                  /\ answer[id] \notin {"none", "unreadable"} /\ ~faults
                        => id \notin Rows

(* What was given up does not happen: as long as no write has failed, a      *)
(* child starts a request only for a caller that waits, unless the caller    *)
(* died or could not read the table (waitForCommand, close).                 *)
NoUnattendedRequest ==
  [][\A id \in Requests : runs'[id] > runs[id] =>
        \/ id \in waiting \/ faults
        \/ answer[id] = "unreadable"
        \/ \E t \in Transports : link[t] = "dead"]_vars

(* Events are advisory and nobody waits for them, so they must not pile up:  *)
(* a child that nobody reads keeps its newest ones (trimEventBacklog), and a *)
(* takeover adds no more than what its predecessor had claimed, as long as   *)
(* no write has failed.                                                      *)
TakenOver == Cardinality({t \in Transports : link[t] # "unused"}) > 1
BacklogIsBounded ==
  \A c \in Children : ~faults =>
    Cardinality({id \in Events : Of[id] = c /\ status[id] = "pending"})
      <= MaxEvents + (IF TakenOver THEN MaxClaim ELSE 0)

(* Every wait ends, also when another writer deleted the row.                *)
WaitEnds == \A id \in Requests \cup Reports : (id \in waiting) ~> (id \notin waiting)

(* What a child sent is taken, or withdrawn by its sender, once some parent  *)
(* serves for good: whatever its predecessors claimed, left or failed at.    *)
SentIsTaken ==
  <>[](Open # {}) => \A id \in ToParent : status[id] = "pending" ~> status[id] # "pending"

(* docs/pi-subagents/spec.md:219: control requests and reports are kept until *)
(* their waiter has read the result.                                         *)
KeptUntilRead ==
  [][\A id \in waiting \cap waiting' : id \in Rows => id \in Rows']_vars

(* docs/pi-subagents/spec.md:260-261: a repeated claim of one command id shares    *)
(* the first result; side effects are not repeated. Parent restarts are      *)
(* excepted there, and here.                                                 *)
ReportRunsOnce ==
  (\A t \in Transports : link[t] # "dead") => \A id \in Reports : runs[id] <= 1
=============================================================================
