------------------------------ MODULE BashJobs ------------------------------
(***************************************************************************)
(* packages/pi-bg-bash/src/bash-jobs.ts and bash-ledger.ts: the registry     *)
(* that owns background shell commands, the processes it started, and the    *)
(* SQLite ledger that outlives it.                                           *)
(*                                                                         *)
(* JavaScript runs one callback at a time, so each action is one callback.   *)
(* The two exceptions are the places where the host process may die between  *)
(* two synchronous effects that both outlive it (intent saved, then shell    *)
(* spawned): Start is split there, and while `starting` holds a job only the *)
(* second half, the operating system or a crash can act.                     *)
(*                                                                         *)
(* The POSIX build is modelled (process groups, SIGTERM then SIGKILL).       *)
(* Command text, output bytes and log contents are abstracted away; the log  *)
(* flush is kept as the delay between "draining" and the release.            *)
(***************************************************************************)
EXTENDS Naturals, FiniteSets

CONSTANTS Jobs,          \* job ids: nonce plus sequence number, never reused
          Batches,       \* ids of delivery batches
          MaxSweeps,     \* MAX_STOP_SWEEPS
          MaxPending,    \* MAX_PENDING_BASH_JOBS
          MaxRetained,   \* MAX_RETAINED_BASH_JOBS
          NoJob, NoBatch

ASSUME JobsAssumption ==
  /\ NoJob \notin Jobs
  /\ NoBatch \notin Batches
  /\ MaxSweeps \in Nat \ {0}
  /\ MaxPending \in Nat
  /\ MaxRetained \in Nat

VARIABLES registry,  \* "absent" | "open" | "closed": no host, serving, disposing
          starting,  \* the job whose intent is saved and whose shell is not spawned yet
          jobs,      \* the keys of #jobs
          rec,       \* rec[j]: the Job object of j, Fresh when it is not in the map
          thrown,    \* the jobs whose spawn threw back to the caller of start
          closing,   \* those of them whose discarded Job object still awaits its release
          ledger,    \* ledger[j]: the row of the execution table
          proc       \* proc[j]: the operating system's view of the shell and its group

vars == <<registry, starting, jobs, rec, thrown, closing, ledger, proc>>
-----------------------------------------------------------------------------
Active    == {"running", "stopping"}
Results   == {"completed", "failed", "cancelled", "timed_out", "unknown"}
Exits     == {"none", "zero", "nonzero", "signal"}
Timers    == {"timeout", "stream", "grace"}
Delivery  == {"none", "pending", "submitted", "recorded"}

JobRecord ==
  [status      : Active \cup Results,
   phase       : {"collecting", "draining", "released"},
   handle      : {"none", "pid", "nopid"},          \* job.process and its pid
   told        : {"nothing", "exit", "close"},      \* events already handled
   exit        : Exits,
   timers      : SUBSET Timers,
   timedOut    : BOOLEAN,
   spawnFailed : BOOLEAN,
   unconfirmed : BOOLEAN,                           \* cleanupUnconfirmed
   sweep       : {"none", "running", "done"},
   attempts    : 0..MaxSweeps,
   delivery    : Delivery,
   batch       : Batches \cup {NoBatch}]

Fresh ==
  [status |-> "running", phase |-> "collecting", handle |-> "none",
   told |-> "nothing", exit |-> "none", timers |-> {}, timedOut |-> FALSE,
   spawnFailed |-> FALSE, unconfirmed |-> FALSE, sweep |-> "none",
   attempts |-> 0, delivery |-> "none", batch |-> NoBatch]

(* Rows keep what the properties tell apart: the saved status and `settled`. *)
NoRow == [status |-> "none", settled |-> FALSE]
Row   == [status : Active \cup Results \cup {"none"}, settled : BOOLEAN]

(* `desc` are the shell's descendants; those that hold its stdio keep the    *)
(* "close" event back after the shell itself exited. A tree that is not      *)
(* `mortal` survives SIGKILL (uninterruptible sleep, foreign credentials).   *)
Process == [shell : {"none", "live", "dead"}, code : Exits,
            desc : {"none", "quiet", "holding"}, mortal : BOOLEAN]
NoProcess == [shell |-> "none", code |-> "none", desc |-> "none", mortal |-> TRUE]

GroupAlive(p) == p.shell = "live" \/ p.desc # "none"
-----------------------------------------------------------------------------
(* The ledger write that may fail: #save swallows the error (it only reports *)
(* it), a closed ledger always throws.                                       *)
Save(j, status, settled) ==
  \/ UNCHANGED ledger
  \/ /\ registry # "absent"
     /\ ledger' = [ledger EXCEPT ![j] = [status |-> status, settled |-> settled]]

(* Background jobs active or without a recorded report.                      *)
Reserved == {j \in jobs : \/ rec[j].status \in Active
                          \/ rec[j].delivery \in {"pending", "submitted"}}

EvictableAny(js, r) == {j \in js : r[j].phase = "released"}   \* mutant: delivery ignored
(* #evict, applied to the job map and records a step is about to leave: the  *)
(* excess of released, recorded jobs goes. The code drops the oldest ones;   *)
(* which ones is left open here.                                             *)
Evictable(js, r) == {j \in js : r[j].phase = "released"
                                /\ r[j].delivery \in {"none", "recorded"}}
Evict(js, r) ==
  \E gone \in SUBSET Evictable(js, r) :
     /\ Cardinality(gone) =
          IF Cardinality(Evictable(js, r)) > MaxRetained
          THEN Cardinality(Evictable(js, r)) - MaxRetained ELSE 0
     /\ jobs' = js \ gone
     /\ rec' = [j \in Jobs |-> IF j \in gone THEN Fresh ELSE r[j]]

OutcomeByIntent(r) ==   \* mutant: a requested stop wins over the exit code
  IF r.status = "stopping" THEN "cancelled"
  ELSE CASE r.exit = "zero" -> "completed" [] r.exit = "none" -> "unknown" [] OTHER -> "failed"

(* The status #terminalize derives from how the shell ended.                 *)
Outcome(r) ==
  LET stopped == IF r.timedOut THEN "timed_out" ELSE "cancelled"
  IN  CASE r.exit = "zero" -> IF r.spawnFailed THEN "failed" ELSE "completed"
        [] r.exit = "nonzero" -> "failed"
        [] r.exit = "signal" -> IF r.status = "stopping" THEN stopped ELSE "cancelled"
        [] r.exit = "none" -> IF ~r.spawnFailed THEN "unknown"
                              ELSE IF r.status = "stopping" THEN stopped ELSE "failed"

(* #terminalize: the timers go, the outcome is fixed and a delivery is       *)
(* reserved; the release still waits for the log and for a running sweep.    *)
Terminalized(r) ==
  IF r.phase # "collecting" THEN r
  ELSE [r EXCEPT !.timers = @ \cap {"grace"}, !.phase = "draining",
                 !.status = Outcome(r), !.delivery = "pending"]

StoppingPolitely(r) ==   \* mutant: SIGTERM without the sweep
  [r EXCEPT !.timers = @ \ {"timeout"}, !.status = "stopping"]

(* #requestStop on an active job with a process.                             *)
Stopping(r) ==
  IF r.status = "stopping" THEN [r EXCEPT !.timers = @ \ {"timeout"}]
  ELSE [r EXCEPT !.timers = @ \ {"timeout"}, !.status = "stopping",
                 !.sweep = IF r.handle = "pid" /\ r.sweep = "none"
                           THEN "running" ELSE r.sweep]

RestoredAsSaved(row) ==   \* mutant: a row left running is believed
  [Fresh EXCEPT !.status = row.status, !.phase = "released", !.delivery = "pending"]

(* recoverSnapshot and #restore: a row without reliable exit evidence reads  *)
(* as unknown; nothing of the old process is kept.                           *)
Restored(row) ==
  [Fresh EXCEPT !.status = IF row.settled THEN row.status ELSE "unknown",
                !.phase = "released", !.delivery = "pending"]
-----------------------------------------------------------------------------
Init == /\ registry = "absent"
        /\ starting = NoJob
        /\ jobs = {}
        /\ rec = [j \in Jobs |-> Fresh]
        /\ thrown = {}
        /\ closing = {}
        /\ ledger = [j \in Jobs |-> NoRow]
        /\ proc = [j \in Jobs |-> NoProcess]

Idle == registry # "absent" /\ starting = NoJob

(* session_start: the constructor restores every row as an undelivered       *)
(* result. The ledger's exclusive lock makes this the only registry.         *)
Open ==
  /\ registry = "absent"
  /\ registry' = "open"
  /\ jobs' = {j \in Jobs : ledger[j] # NoRow}
  /\ rec' = [j \in Jobs |-> IF ledger[j] # NoRow THEN Restored(ledger[j]) ELSE Fresh]
  /\ UNCHANGED <<starting, ledger, proc, thrown, closing>>

StartIntentUnsaved(j) ==   \* mutant: spawn first, save later
  /\ Idle /\ registry = "open"
  /\ ledger[j] = NoRow
  /\ starting' = j
  /\ UNCHANGED <<registry, jobs, rec, ledger, proc, thrown, closing>>

(* start, up to the durable intent. When that write fails nothing is         *)
(* spawned and the caller gets the error: the state does not change.         *)
StartIntent(j) ==
  /\ Idle /\ registry = "open"
  /\ ledger[j] = NoRow
  /\ Cardinality(Reserved) < MaxPending
  /\ ledger' = [ledger EXCEPT ![j] = [status |-> "running", settled |-> FALSE]]
  /\ starting' = j
  /\ UNCHANGED <<registry, jobs, rec, proc, thrown, closing>>

(* start, the spawn that succeeds. The shell may fork descendants, with or   *)
(* without its stdio; a timeout may be requested.                            *)
StartSpawn(j) ==
  /\ starting = j
  /\ starting' = NoJob
  /\ jobs' = jobs \cup {j}
  /\ \E t \in SUBSET {"timeout"} :
       rec' = [rec EXCEPT ![j] = [Fresh EXCEPT !.handle = "pid", !.timers = t]]
  /\ \E d \in {"none", "quiet", "holding"}, m \in BOOLEAN :
       proc' = [proc EXCEPT ![j] =
                  [shell |-> "live", code |-> "none", desc |-> d, mortal |-> m]]
  /\ UNCHANGED <<registry, ledger, thrown, closing>>

(* start, a spawn that reports its failure with an "error" event.            *)
StartNoPid(j) ==
  /\ starting = j
  /\ starting' = NoJob
  /\ jobs' = jobs \cup {j}
  /\ rec' = [rec EXCEPT ![j] = [Fresh EXCEPT !.handle = "nopid"]]
  /\ UNCHANGED <<registry, ledger, proc, thrown, closing>>

(* start, a spawn that throws: the caller gets the error, the record is      *)
(* terminalized and #discard takes it out of the map; the closure that       *)
(* #terminalize left behind releases it once the log is flushed.             *)
StartThrows(j) ==
  /\ starting = j
  /\ starting' = NoJob
  /\ thrown' = thrown \cup {j}
  /\ closing' = closing \cup {j}
  /\ UNCHANGED <<registry, jobs, rec, ledger, proc>>

(* stop (bg_bash_stop): #requestStop saves the stop intent, signals SIGTERM  *)
(* to the group and starts the sweep. What SIGTERM does to the shell is any  *)
(* ShellExits step, or nothing.                                              *)
Stop(j) ==
  /\ Idle /\ j \in jobs
  /\ rec[j].status \in Active
  /\ rec' = [rec EXCEPT ![j] = Stopping(rec[j])]
  /\ IF rec[j].status = "running" THEN Save(j, "stopping", FALSE)
                                  ELSE UNCHANGED ledger
  /\ UNCHANGED <<registry, starting, jobs, proc, thrown, closing>>

(* The command's own timeout: marks the record and stops it.                 *)
TimeoutFires(j) ==
  /\ Idle /\ j \in jobs
  /\ "timeout" \in rec[j].timers
  /\ rec' = [rec EXCEPT ![j] = Stopping([rec[j] EXCEPT !.timedOut = TRUE])]
  /\ Save(j, "stopping", FALSE)
  /\ UNCHANGED <<registry, starting, jobs, proc, thrown, closing>>

(* killProcessTree: SIGKILL to the group.                                    *)
Killed(p) ==
  IF ~p.mortal THEN p
  ELSE [p EXCEPT !.shell = "dead", !.desc = "none",
                 !.code = IF p.shell = "live" THEN "signal" ELSE p.code]

LastSweep(r) == r.attempts + 1 >= MaxSweeps

(* One attempt of #sweepGroup: done when the group is gone, otherwise        *)
(* SIGKILL; the last attempt gives up and records the uncertainty.           *)
SweepAttempt(j) ==
  /\ Idle
  /\ rec[j].sweep = "running"
  /\ IF ~GroupAlive(proc[j])
     THEN /\ rec' = [rec EXCEPT ![j].sweep = "done"]
          /\ UNCHANGED proc
     ELSE /\ LET r == rec[j]
             IN rec' = [rec EXCEPT ![j] =
                  [r EXCEPT !.attempts = r.attempts + 1,
                            !.unconfirmed = r.unconfirmed \/ LastSweep(r),
                            !.sweep = IF LastSweep(r) THEN "done" ELSE "running"]]
          /\ proc' = [proc EXCEPT ![j] = Killed(proc[j])]
  /\ UNCHANGED <<registry, starting, jobs, ledger, thrown, closing>>
-----------------------------------------------------------------------------
(* The child process's events. They reach only the registry that spawned it. *)

ErrorEvent(j) ==
  /\ Idle
  /\ rec[j].handle = "nopid" /\ rec[j].told = "nothing"
  /\ LET r == [rec[j] EXCEPT !.told = "close"]
     IN rec' = [rec EXCEPT ![j] =
          IF r.phase # "collecting" THEN r
          ELSE Terminalized([r EXCEPT !.spawnFailed = TRUE])]
  /\ UNCHANGED <<registry, starting, jobs, ledger, proc, thrown, closing>>

ExitEventWaits(j) ==   \* mutant: no deadline for the streams
  /\ Idle
  /\ rec[j].handle = "pid" /\ rec[j].told = "nothing"
  /\ proc[j].shell = "dead"
  /\ rec' = [rec EXCEPT ![j].told = "exit"]
  /\ UNCHANGED <<registry, starting, jobs, ledger, proc, thrown, closing>>

(* "exit": the timeout is off; a descendant may hold the streams, so they    *)
(* get STREAM_DRAIN_MS.                                                      *)
ExitEvent(j) ==
  /\ Idle
  /\ rec[j].handle = "pid" /\ rec[j].told = "nothing"
  /\ proc[j].shell = "dead"
  /\ LET r    == rec[j]
         left == r.timers \ {"timeout"}
     IN rec' = [rec EXCEPT ![j] =
          [r EXCEPT !.told = "exit",
                    !.timers = IF r.phase = "collecting"
                               THEN left \cup {"stream"} ELSE left]]
  /\ UNCHANGED <<registry, starting, jobs, ledger, proc, thrown, closing>>

StreamTimerFires(j) ==
  /\ Idle
  /\ "stream" \in rec[j].timers
  /\ rec' = [rec EXCEPT ![j] =
       Terminalized([rec[j] EXCEPT !.timers = rec[j].timers \ {"stream"},
                                   !.exit = proc[j].code])]
  /\ UNCHANGED <<registry, starting, jobs, ledger, proc, thrown, closing>>

(* "close": the shell exited and nobody holds its stdio any more (or the     *)
(* stream timer destroyed it).                                               *)
CloseEvent(j) ==
  /\ Idle
  /\ rec[j].handle = "pid" /\ rec[j].told = "exit"
  /\ proc[j].desc # "holding" \/ rec[j].phase # "collecting"
  /\ LET r == [rec[j] EXCEPT !.timers = rec[j].timers \ {"timeout", "stream"},
                             !.told = "close"]
     IN rec' = [rec EXCEPT ![j] =
          IF r.phase # "collecting" THEN r
          ELSE Terminalized([r EXCEPT !.exit = proc[j].code])]
  /\ UNCHANGED <<registry, starting, jobs, ledger, proc, thrown, closing>>

ReleasedAsIs(r) ==   \* mutant: an unconfirmed cleanup is forgotten
  [r EXCEPT !.phase = "released"]

(* #release, once the log is flushed and a requested sweep ended: an         *)
(* unconfirmed cleanup overrides the outcome, then the settled row is        *)
(* written.                                                                  *)
Released(r) == [r EXCEPT !.phase = "released",
                         !.status = IF r.unconfirmed THEN "unknown" ELSE r.status]
Release(j) ==
  /\ Idle
  /\ rec[j].phase = "draining"
  /\ rec[j].sweep # "running"
  /\ Save(j, Released(rec[j]).status, TRUE)
  /\ Evict(jobs, [rec EXCEPT ![j] = Released(rec[j])])
  /\ UNCHANGED <<registry, starting, proc, thrown, closing>>

(* The same #release for the record of a spawn that threw: it is out of the  *)
(* map already, its row still becomes a settled failure.                     *)
ReleaseDiscarded(j) ==
  /\ Idle
  /\ j \in closing
  /\ closing' = closing \ {j}
  /\ Save(j, Outcome([Fresh EXCEPT !.spawnFailed = TRUE]), TRUE)
  /\ Evict(jobs, rec)
  /\ UNCHANGED <<registry, starting, thrown, proc>>
-----------------------------------------------------------------------------
(* Delivery bookkeeping, called by bash-delivery.ts.                         *)

MarkSubmitted(ids, b) ==
  /\ Evict(jobs, [j \in Jobs |->
       IF j \in ids \cap jobs /\ rec[j].delivery = "pending"
       THEN [rec[j] EXCEPT !.delivery = "submitted", !.batch = b] ELSE rec[j]])
  /\ UNCHANGED <<registry, starting, ledger, proc, thrown, closing>>

Submitted(b) == {j \in jobs : rec[j].delivery = "submitted" /\ rec[j].batch = b}

MarkRecorded(b) ==
  /\ Evict(jobs, [j \in Jobs |->
       IF j \in Submitted(b)
       THEN [rec[j] EXCEPT !.delivery = "recorded", !.batch = NoBatch] ELSE rec[j]])
  /\ UNCHANGED <<registry, starting, ledger, proc, thrown, closing>>

Requeue(b) ==
  /\ rec' = [j \in Jobs |->
       IF j \in Submitted(b)
       THEN [rec[j] EXCEPT !.delivery = "pending", !.batch = NoBatch] ELSE rec[j]]
  /\ UNCHANGED <<registry, starting, jobs, ledger, proc, thrown, closing>>

ForgottenNever(ids) == {}   \* mutant: what left memory stays away on every branch

(* reconcileRecorded: the receipts on the branch decide. A branch change     *)
(* also brings back rows that left memory and submissions nobody confirmed.  *)
Forgotten(ids) == {j \in Jobs \ jobs : ledger[j] # NoRow /\ j \notin ids}
ReconciledHere(r, j, ids, branchChanged) ==   \* mutant: submissions survive a branch change
  IF r.phase # "released" THEN r
  ELSE IF j \in ids THEN [r EXCEPT !.delivery = "recorded", !.batch = NoBatch]
  ELSE IF r.delivery = "recorded" THEN [r EXCEPT !.delivery = "pending"] ELSE r
Reconciled(r, j, ids, branchChanged) ==
  IF r.phase # "released" THEN r
  ELSE IF j \in ids THEN [r EXCEPT !.delivery = "recorded", !.batch = NoBatch]
  ELSE IF r.delivery = "recorded" \/ (branchChanged /\ r.delivery = "submitted")
       THEN [r EXCEPT !.delivery = "pending", !.batch = NoBatch]
       ELSE r
ReconcileRecorded(ids, branchChanged) ==
  LET back == IF branchChanged THEN Forgotten(ids) ELSE {}
      seen == [j \in Jobs |-> IF j \in back THEN Restored(ledger[j]) ELSE rec[j]]
  IN  /\ Evict(jobs \cup back,
               [j \in Jobs |-> IF j \in jobs \cup back
                               THEN Reconciled(seen[j], j, ids, branchChanged)
                               ELSE rec[j]])
      /\ UNCHANGED <<registry, starting, ledger, proc, thrown, closing>>
-----------------------------------------------------------------------------
(* dispose: every active job is asked to stop and every record still         *)
(* collecting gets a grace deadline; stop intents are saved job by job.      *)
Dispose ==
  /\ Idle /\ registry = "open"
  /\ registry' = "closed"
  /\ rec' = [j \in Jobs |->
       IF j \notin jobs \/ rec[j].phase # "collecting" THEN rec[j]
       ELSE [Stopping(rec[j]) EXCEPT !.timers = Stopping(rec[j]).timers \cup {"grace"}]]
  /\ \E saved \in SUBSET {j \in jobs : rec[j].status = "running"} :
       ledger' = [j \in Jobs |-> IF j \in saved
                                 THEN [status |-> "stopping", settled |-> FALSE]
                                 ELSE ledger[j]]
  /\ UNCHANGED <<starting, jobs, proc, thrown, closing>>

GraceSkipsStopping(j) ==   \* mutant: a stopping job is left to its sweep
  /\ Idle
  /\ "grace" \in rec[j].timers
  /\ rec' = [rec EXCEPT ![j].timers = @ \ {"grace"}]
  /\ UNCHANGED <<registry, starting, jobs, ledger, proc, thrown, closing>>

(* #graceTerminalize: no exit was observed within SHUTDOWN_GRACE_MS.         *)
GraceFires(j) ==
  /\ Idle
  /\ "grace" \in rec[j].timers
  /\ LET r == [rec[j] EXCEPT !.timers = rec[j].timers \ {"grace"}]
     IN rec' = [rec EXCEPT ![j] =
          IF r.phase # "collecting" THEN r
          ELSE Terminalized([r EXCEPT !.unconfirmed = TRUE, !.exit = "none"])]
  /\ UNCHANGED <<registry, starting, jobs, ledger, proc, thrown, closing>>

(* Every record that was in the map is released: the map is cleared and the  *)
(* ledger closed. A discarded record is not waited for.                      *)
DisposeEnds ==
  /\ registry = "closed"
  /\ \A j \in jobs : rec[j].phase = "released"
  /\ registry' = "absent"
  /\ jobs' = {}
  /\ rec' = [j \in Jobs |-> Fresh]
  /\ closing' = {}
  /\ UNCHANGED <<starting, ledger, proc, thrown>>

(* The host process dies: memory is gone, shells and rows stay.              *)
Crash ==
  /\ registry # "absent"
  /\ registry' = "absent"
  /\ starting' = NoJob
  /\ jobs' = {}
  /\ rec' = [j \in Jobs |-> Fresh]
  /\ closing' = {}
  /\ UNCHANGED <<ledger, proc, thrown>>

(* The operating system.                                                     *)
ShellExits(j) ==
  /\ proc[j].shell = "live"
  /\ \E c \in {"zero", "nonzero", "signal"} :
       proc' = [proc EXCEPT ![j].shell = "dead", ![j].code = c]
  /\ UNCHANGED <<registry, starting, jobs, rec, ledger, thrown, closing>>

DescendantsExit(j) ==
  /\ proc[j].desc # "none"
  /\ proc' = [proc EXCEPT ![j].desc = "none"]
  /\ UNCHANGED <<registry, starting, jobs, rec, ledger, thrown, closing>>
-----------------------------------------------------------------------------
Start(j) == StartIntent(j) \/ StartSpawn(j) \/ StartNoPid(j) \/ StartThrows(j)

Events(j) == \/ ErrorEvent(j) \/ ExitEvent(j) \/ StreamTimerFires(j) \/ CloseEvent(j)
             \/ SweepAttempt(j) \/ GraceFires(j) \/ Release(j) \/ ReleaseDiscarded(j)

Execution(j) == \/ Start(j) \/ Stop(j) \/ TimeoutFires(j) \/ Events(j)
                \/ ShellExits(j) \/ DescendantsExit(j)

Lifecycle == Open \/ Dispose \/ DisposeEnds \/ Crash

(* The calls of a delivery channel that may do anything the interface lets   *)
(* it; BashDelivery.tla replaces them by what bash-delivery.ts does.         *)
Bookkeeping ==
  /\ Idle
  /\ \/ \E ids \in SUBSET Jobs, b \in Batches :
          ids # {} /\ Submitted(b) = {} /\ MarkSubmitted(ids, b)
     \/ \E b \in Batches : MarkRecorded(b) \/ Requeue(b)
     \/ \E ids \in SUBSET Jobs, moved \in BOOLEAN : ReconcileRecorded(ids, moved)

Next == Lifecycle \/ Bookkeeping \/ \E j \in Jobs : Execution(j)

(* Timers and child events always fire in a running event loop; exits,       *)
(* crashes and user calls need not happen.                                   *)
Fairness == /\ WF_vars(DisposeEnds)
            /\ \A j \in Jobs : /\ WF_vars(Events(j))
                               /\ WF_vars(StartSpawn(j) \/ StartNoPid(j) \/ StartThrows(j))

Spec == Init /\ [][Next]_vars
FairSpec == Spec /\ Fairness
-----------------------------------------------------------------------------
(* Types of the registry's variables.                                        *)
TypeOK == /\ registry \in {"absent", "open", "closed"}
          /\ starting \in Jobs \cup {NoJob}
          /\ jobs \subseteq Jobs
          /\ rec \in [Jobs -> JobRecord]
          /\ thrown \subseteq Jobs
          /\ closing \subseteq thrown
          /\ ledger \in [Jobs -> Row]
          /\ proc \in [Jobs -> Process]

(* CommandRecord is what the ledger and the operating system show of a job.  *)
Fact(j) == IF ledger[j] = NoRow THEN "absent"
           ELSE IF ledger[j].settled THEN ledger[j].status ELSE "intent"
Fate(p) == CASE p.shell = "none" -> "never"
             [] p.shell = "live" -> "live"
             [] OTHER -> p.code
Record == INSTANCE CommandRecord
            WITH fact <- [j \in Jobs |-> Fact(j)],
                 fate <- [j \in Jobs |-> Fate(proc[j])]

(* The registry implements the promise of CommandRecord: no shell before its *)
(* durable intent (start), never a second run, no settled row overwritten    *)
(* and none that contradicts how the shell ended (#terminalize, #release).   *)
ImplementsRecord == Record!Spec

(* SafeInv, with TypeOK, is inductive and is why the properties below hold.  *)
(* What every record keeps true of its process: events are only told of what   *)
(* happened, the timers of a command die with its collection, a sweep ends    *)
(* when the group is gone or is on record as unconfirmed.                    *)
ProcessOK(p) == /\ p.code # "none" <=> p.shell = "dead"
                /\ p.shell = "none" => p.desc = "none"

RecordOK(r, p) ==
  /\ r.phase = "collecting" <=> r.status \in Active
  /\ r.phase # "collecting" => Record!Truthful(r.status, Fate(p))
  /\ r.handle = "none" => r = Fresh \/ (r.phase = "released" /\ r.timers = {})
  /\ r.handle = "nopid" => p.shell = "none"
  /\ r.handle = "pid" => p.shell # "none" /\ ~r.spawnFailed
  /\ r.handle # "pid" => r.sweep = "none" /\ r.told # "exit"
  /\ \/ r.spawnFailed
     \/ r.exit # "none"
     \/ r.told = "close"
     \/ r.handle = "nopid" /\ r.told # "nothing"
     => r.phase # "collecting"
  /\ r.told # "nothing" /\ r.handle = "pid" => p.shell = "dead"
  /\ r.phase = "collecting" /\ r.told = "exit" => "stream" \in r.timers
  /\ r.timers \cap {"timeout", "stream"} # {} => r.phase = "collecting"
  /\ "stream" \in r.timers => r.told = "exit"
  /\ r.phase = "released" => r.sweep # "running" /\ (r.unconfirmed => r.status = "unknown")
  /\ r.sweep = "none" => r.attempts = 0
  /\ r.sweep = "running" => r.attempts < MaxSweeps
  /\ r.sweep = "done" => r.unconfirmed \/ ~GroupAlive(p)

RowOK(j) ==
  /\ ledger[j] = NoRow => j \notin jobs \cup thrown /\ proc[j] = NoProcess
  /\ ledger[j] # NoRow => ledger[j].status # "none"
  /\ ledger[j].settled => Record!Truthful(ledger[j].status, Fate(proc[j]))
  /\ j \in thrown => proc[j].shell = "none"

StartingOK ==
  starting # NoJob =>
     /\ registry = "open" /\ starting \notin jobs \cup thrown
     /\ proc[starting] = NoProcess
     /\ ledger[starting] # NoRow /\ ~ledger[starting].settled

SafeInv == /\ \A j \in Jobs : /\ ProcessOK(proc[j]) /\ RecordOK(rec[j], proc[j])
                              /\ RowOK(j)
                              /\ j \notin jobs <=> rec[j] = Fresh
           /\ StartingOK

(* A row is settled only once its record was released, so a settled row is   *)
(* never written again: what makes the first result on disk the last one     *)
(* (#release; the intent kept by start, #requestStop and dispose).           *)
SettledIsReleased ==
  /\ registry = "absent" => jobs = {} /\ closing = {}
  /\ \A j \in jobs : rec[j].phase # "released" => ~ledger[j].settled
  /\ \A j \in closing : ~ledger[j].settled
  /\ \A j \in thrown : rec[j].handle = "none"

(* A status the registry reports as final is justified by the shell's own    *)
(* end: a stop, a timeout, a spawn error, a shutdown grace or a recovery     *)
(* racing the exit never turns into an invented outcome (#terminalize).      *)
ReportedIsTruthful ==
  \A j \in jobs : rec[j].status \in Results => Record!Truthful(rec[j].status, Fate(proc[j]))

(* "Stopped" means the tree is gone: once a stop was requested, a record is  *)
(* released with a known outcome only when no member of the process group    *)
(* is alive (#sweepGroup, #release).                                         *)
StoppedTreeIsGone ==
  \A j \in jobs : /\ rec[j].sweep # "none"
                  /\ rec[j].phase = "released"
                  /\ rec[j].status # "unknown"
                  => ~GroupAlive(proc[j])

(* An active record has a live owner: it stands for a process this registry  *)
(* spawned and still observes, so nothing restored can ever look running     *)
(* (recoverSnapshot, #restore).                                              *)
ActiveIsOwned ==
  \A j \in jobs : rec[j].status \in Active =>
     /\ rec[j].handle # "none"
     /\ rec[j].phase = "collecting"
     /\ rec[j].handle = "pid" => \/ proc[j].shell = "live"
                                 \/ rec[j].told = "nothing"
                                 \/ "stream" \in rec[j].timers

(* A released record never changes its answer: late exits, sweeps, stops and *)
(* delivery bookkeeping leave its status alone.                              *)
AnswerIsFinal ==
  [][\A j \in jobs \cap jobs' : rec[j].phase = "released" =>
       /\ rec'[j].phase = "released"
       /\ rec'[j].status = rec[j].status]_vars

(* A stop of a tree that SIGKILL can kill always ends: the record is         *)
(* released even when descendants hold the shell's stdio (#sweepGroup,       *)
(* the stream timer).                                                        *)
StopEnds ==
  \A j \in Jobs : (j \in jobs /\ rec[j].status = "stopping" /\ proc[j].mortal)
                  ~> (j \notin jobs \/ rec[j].phase = "released")

(* An exit is always reported, whatever its descendants do with its stdio.   *)
ExitIsReported ==
  \A j \in Jobs : (j \in jobs /\ rec[j].handle = "pid" /\ proc[j].shell = "dead")
                  ~> (j \notin jobs \/ rec[j].phase = "released")

(* Session teardown never hangs, not even on an unkillable tree.             *)
TeardownEnds == registry = "closed" ~> registry = "absent"

(* The comment in start about a spawn that throws: "this is not a background *)
(* result: it reserves no delivery and leaves no running record behind".     *)
ThrownIsNoResult == thrown \cap jobs = {}
=============================================================================
