---------------------------- MODULE BashDelivery ----------------------------
(***************************************************************************)
(* packages/pi-bg-bash/src/bash-delivery.ts over the registry of BashJobs:   *)
(* how the results of background commands reach the parent session.          *)
(*                                                                         *)
(* A result is pending, then submitted (handed to the host in a batch), then *)
(* recorded (the host appended the batch to the conversation). The session   *)
(* is a tree the user navigates: a result belongs to the branch its command  *)
(* started on, its receipt lies on the branches that contain the append.     *)
(*                                                                         *)
(* The conversation has a trunk and branches that fork from it; the host's   *)
(* steer queue and the moment it appends are external. Commands here are     *)
(* quiet ones: no timeout, no descendants, exit code zero; BashJobs checks   *)
(* the rest one job at a time. Left out: reminders and the notice that a     *)
(* result waits elsewhere, which never touch the delivery state, and a       *)
(* session whose branch cannot be read.                                      *)
(***************************************************************************)
EXTENDS BashJobs

CONSTANTS Branches,       \* the branches that fork from the trunk
          Trunk,
          QueueSurvives,  \* the host's queue outlives a navigation and a reload
          HostLoses       \* the host may drop a message it accepted (abort)

ASSUME DeliveryAssumption ==
  /\ Trunk \notin Branches
  /\ QueueSurvives \in BOOLEAN
  /\ HostLoses \in BOOLEAN

VARIABLES cur,       \* the branch the session shows
          anchor,    \* anchor[j]: where job j was started
          receipts,  \* receipts[b]: the jobs reported by entries that b added
          queue,     \* queue[b]: the results of a batch in the host's steer queue
          wanted     \* a flush is requested and has not run

deliveryVars == <<vars, cur, anchor, receipts, queue, wanted>>

Places == Branches \cup {Trunk}

(* readBranch: the receipts found on the way to the current leaf, and the    *)
(* anchors that are ancestors of it (onCurrentBranch).                       *)
Seen(place) == receipts[Trunk] \cup receipts[place]
Here(j, place) == anchor[j] \in {Trunk, place}

(* pendingDeliveries *)
Undelivered == {j \in jobs : rec[j].phase = "released" /\ rec[j].delivery = "pending"}
Ready == {j \in Undelivered : Here(j, cur)}

NoQueue == [b \in Batches |-> {}]

(* Batch names are random; one is free for reuse when nobody refers to it.   *)
FreeBatches == {b \in Batches : queue[b] = {} /\ Submitted(b) = {}}
-----------------------------------------------------------------------------
DeliveryInit ==
  /\ Init
  /\ cur = Trunk
  /\ anchor = [j \in Jobs |-> Trunk]
  /\ receipts = [p \in Places |-> {}]
  /\ queue = NoQueue
  /\ wanted = FALSE

MatchedNever(js, r, ids) == r   \* mutant: receipts are not looked at

(* The reconciliation a schedule(false) makes of the records `r`.            *)
Matched(js, r, ids) ==
  [j \in Jobs |-> IF j \in js THEN Reconciled(r[j], j, ids, FALSE) ELSE r[j]]

(* session_start: the registry restores every row, then startBashDelivery    *)
(* schedules its first pass.                                                 *)
OpenSession ==
  /\ registry = "absent"
  /\ registry' = "open"
  /\ LET rows == {j \in Jobs : ledger[j] # NoRow}
         restored == [j \in Jobs |-> IF j \in rows THEN Restored(ledger[j]) ELSE Fresh]
     IN  Evict(rows, Matched(rows, restored, Seen(cur)))
  /\ wanted' = TRUE
  /\ UNCHANGED <<starting, ledger, proc, thrown, closing, cur, anchor, receipts, queue>>

(* bg_bash_spawn names the leaf it was called on as the job's anchor.        *)
StartHere(j) ==
  /\ StartIntent(j)
  /\ anchor' = [anchor EXCEPT ![j] = cur]
  /\ UNCHANGED <<cur, receipts, queue, wanted>>

SpawnQuiet(j) ==
  /\ StartSpawn(j)
  /\ rec'[j].timers = {}
  /\ proc'[j].desc = "none" /\ proc'[j].mortal
  /\ UNCHANGED <<cur, anchor, receipts, queue, wanted>>

Observe(j) ==
  /\ \/ ShellExits(j) /\ proc'[j].code = "zero"
     \/ ExitEvent(j)
     \/ CloseEvent(j)
  /\ UNCHANGED <<cur, anchor, receipts, queue, wanted>>

(* #release announces the result; the listener is schedule(false). After a   *)
(* dispose there are no listeners.                                           *)
ReleaseAndReport(j) ==
  /\ Idle
  /\ rec[j].phase = "draining" /\ rec[j].sweep # "running"
  /\ Save(j, Released(rec[j]).status, TRUE)
  /\ LET r == [rec EXCEPT ![j] = Released(@)]
     IN  Evict(jobs, IF registry = "open" THEN Matched(jobs, r, Seen(cur)) ELSE r)
  /\ wanted' = (wanted \/ registry = "open")
  /\ UNCHANGED <<registry, starting, proc, thrown, closing, cur, anchor, receipts, queue>>

AgentEventQuiet ==   \* mutant: no flush is requested
  /\ Idle /\ registry = "open"
  /\ ReconcileRecorded(Seen(cur), FALSE)
  /\ UNCHANGED <<cur, anchor, receipts, queue, wanted>>

(* agent_start and agent_settled: schedule(false).                           *)
AgentEvent ==
  /\ Idle /\ registry = "open"
  /\ ReconcileRecorded(Seen(cur), FALSE)
  /\ wanted' = TRUE
  /\ UNCHANGED <<cur, anchor, receipts, queue>>

(* session_tree: schedule(true) on the new branch.  A move back to an entry  *)
(* of the trunk begins one more branch, which sees what that entry sees.     *)
Navigate(place) ==
  /\ Idle /\ place # cur
  /\ cur' = place
  /\ queue' = IF QueueSurvives THEN queue ELSE NoQueue
  /\ IF registry = "open"
     THEN /\ ReconcileRecorded(Seen(place), TRUE)
          /\ wanted' = TRUE
     ELSE UNCHANGED <<vars, wanted>>
  /\ UNCHANGED <<anchor, receipts>>

(* flush: the ready results go out in batches (batchEvents cuts them where   *)
(* it must). Each batch is marked submitted, then sent; the host queues it,  *)
(* appends it within the call (`now`), or throws, which requeues it.         *)
Flush ==
  /\ wanted /\ Idle /\ registry = "open"
  /\ wanted' = FALSE
  /\ \E put \in [Ready -> FreeBatches \cup {NoBatch}] :
       LET used == {put[j] : j \in Ready} \ {NoBatch}
       IN \E now \in SUBSET used :
            /\ Evict(jobs, [j \in Jobs |->
                 IF j \notin Ready \/ (j \in Ready /\ put[j] = NoBatch) THEN rec[j]
                 ELSE IF put[j] \in now
                      THEN [rec[j] EXCEPT !.delivery = "recorded"]
                      ELSE [rec[j] EXCEPT !.delivery = "submitted", !.batch = put[j]]])
            /\ queue' = [b \in Batches |-> IF b \in used \ now
                                           THEN {j \in Ready : put[j] = b} ELSE queue[b]]
            /\ receipts' = [receipts EXCEPT ![cur] = @ \cup {j \in Ready : put[j] \in now}]
  /\ UNCHANGED <<registry, starting, ledger, proc, thrown, closing, cur, anchor>>

(* The host takes a batch from its queue, appends it and emits message_end.  *)
HostAppend(b) ==
  /\ starting = NoJob
  /\ queue[b] # {}
  /\ queue' = [queue EXCEPT ![b] = {}]
  /\ receipts' = [receipts EXCEPT ![cur] = @ \cup queue[b]]
  /\ IF registry = "open" THEN MarkRecorded(b) ELSE UNCHANGED vars
  /\ UNCHANGED <<cur, anchor, wanted>>

(* An abort clears the host's queue; nobody is told.                         *)
HostDrop ==
  /\ HostLoses
  /\ queue # NoQueue
  /\ queue' = NoQueue
  /\ UNCHANGED <<vars, cur, anchor, receipts, wanted>>

(* session_shutdown: delivery stops first, then the registry is disposed.    *)
CloseSession ==
  /\ Dispose
  /\ wanted' = FALSE
  /\ queue' = IF QueueSurvives THEN queue ELSE NoQueue
  /\ UNCHANGED <<cur, anchor, receipts>>

SessionClosed ==
  /\ DisposeEnds
  /\ UNCHANGED <<cur, anchor, receipts, queue, wanted>>

HostCrash ==
  /\ Crash
  /\ queue' = NoQueue
  /\ wanted' = FALSE
  /\ UNCHANGED <<cur, anchor, receipts>>

Unfinished(j) ==   \* what a disposal does to a command that is still running
  /\ GraceFires(j) \/ SweepAttempt(j)
  /\ UNCHANGED <<cur, anchor, receipts, queue, wanted>>

Work(j) == \/ StartHere(j) \/ SpawnQuiet(j) \/ Observe(j) \/ ReleaseAndReport(j)
           \/ Unfinished(j)

DeliveryNext ==
  \/ \E j \in Jobs : Work(j)
  \/ OpenSession \/ CloseSession \/ SessionClosed \/ HostCrash
  \/ AgentEvent \/ Flush \/ HostDrop
  \/ \E p \in Branches : Navigate(p)
  \/ \E b \in Batches : HostAppend(b)

(* The coordinator's microtask always runs; the host appends what it queued  *)
(* and its agent keeps starting and settling; it does not refuse forever.    *)
Accepted == /\ Flush
            /\ \A j \in Ready : j \notin jobs' \/ rec'[j].delivery # "pending"
DeliveryFairness ==
  /\ SF_deliveryVars(Accepted)
  /\ WF_deliveryVars(AgentEvent)
  /\ \A b \in Batches : WF_deliveryVars(HostAppend(b))
  /\ \A j \in Jobs : WF_deliveryVars(SpawnQuiet(j))

DeliverySpec == DeliveryInit /\ [][DeliveryNext]_deliveryVars
FairDeliverySpec == DeliverySpec /\ DeliveryFairness
-----------------------------------------------------------------------------
(* Types, together with those of the registry; only a submission has a batch. *)
DeliveryTypeOK == /\ TypeOK
                  /\ \A j \in Jobs : rec[j].batch # NoBatch => rec[j].delivery = "submitted"
                  /\ cur \in Places
                  /\ anchor \in [Jobs -> Places]
                  /\ receipts \in [Places -> SUBSET Jobs]
                  /\ queue \in [Batches -> SUBSET Jobs]
                  /\ wanted \in BOOLEAN

(* No result is lost and none is confirmed too early: whatever a serving     *)
(* registry no longer owes the current branch (evicted, or recorded) has its *)
(* receipt there (markRecorded, reconcileRecorded, #evict).                  *)
NothingLost ==
  registry = "open" =>
    \A j \in Jobs : (/\ ledger[j] # NoRow /\ starting # j
                     /\ j \notin jobs \/ rec[j].delivery = "recorded")
                    => j \in Seen(cur)

(* Nothing waits for a confirmation that cannot come: unless the host loses  *)
(* messages, a submitted result is still in the host's queue, under the      *)
(* batch the registry knows it by (markSubmitted, requeue, reconcile).       *)
NothingStuck ==
  registry = "open" /\ ~HostLoses =>
    \A j \in jobs : rec[j].delivery = "submitted" => j \in queue[rec[j].batch]

(* One report per branch: as long as the host never carries a queued message *)
(* over a navigation or a reload, a result whose receipt is on the current   *)
(* branch is not sent there again, whatever is evicted, restored or crashes. *)
NoRepeat ==
  [][\A j \in Jobs :
        (\E b \in Batches : j \in queue'[b] \ queue[b]) => j \notin Seen(cur)]_deliveryVars

(* A result is delivered on the branch it belongs to as long as the session  *)
(* serves that branch: rejected batches are tried again on the agent's next  *)
(* event, and so is what a navigation there finds undelivered.               *)
EventuallyDelivered ==
  \A j \in Jobs, p \in Places :
    (registry = "open" /\ cur = p /\ j \in Undelivered /\ Here(j, p))
      ~> (j \in Seen(p) \/ registry # "open" \/ cur # p)
=============================================================================
