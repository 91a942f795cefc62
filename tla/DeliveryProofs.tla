--------------------------- MODULE DeliveryProofs ---------------------------
(***************************************************************************)
(* Delivery keeps what it promises for any commands, batches, branches and   *)
(* limits, over any crashes, reloads and navigations: no result is lost,     *)
(* none waits for a confirmation that cannot come, none is sent twice to the *)
(* branch that shows it.                                                     *)
(*                                                                         *)
(* DeliveryInv is inductive.  It adds to the invariant of the registry how   *)
(* far a command must be for each state of its delivery (Stages), because    *)
(* only what is recorded may be evicted; and how the host's queue and the    *)
(* registry agree: what is submitted under a batch still in the queue is in  *)
(* that batch (Covered), so an append confirms nothing it did not carry.     *)
(* That nothing is repeated needs the converse for a queue which ends with   *)
(* its branch and its session (Queued, Unsent).                              *)
(***************************************************************************)
EXTENDS BashDelivery, BashJobsProofs

(* How far a command is decides what may be said of its delivery.            *)
StageOK(r) ==
  /\ r.phase = "collecting" => r.delivery = "none"
  /\ r.phase = "draining" => r.delivery = "pending"
  /\ r.phase = "released" => r.delivery # "none"
  /\ r.batch # NoBatch <=> r.delivery = "submitted"

PlacesOK == /\ cur \in Places /\ anchor \in [Jobs -> Places]
            /\ receipts \in [Places -> SUBSET Jobs]
            /\ queue \in [Batches -> SUBSET Jobs]
            /\ wanted \in BOOLEAN

Stages == \A j \in Jobs : StageOK(rec[j])

(* What the registry has submitted in a batch the host still queues is in it. *)
Covered == \A b \in Batches : queue[b] # {} => Submitted(b) \subseteq queue[b]

(* When a queue does not outlive a navigation or a reload: what is queued    *)
(* waits for this very batch, or has its receipt already ...                 *)
Queued ==
  ~QueueSurvives => \A b \in Batches : \A j \in queue[b] :
     /\ registry = "open" /\ ledger[j] # NoRow /\ starting # j
     /\ j \in jobs => /\ rec[j].phase = "released"
                      /\ \/ rec[j].delivery = "recorded"
                         \/ rec[j].delivery = "submitted" /\ rec[j].batch = b

(* ... and what is still to be sent has no receipt.                          *)
Unsent ==
  ~QueueSurvives /\ registry = "open" =>
     \A j \in jobs : rec[j].phase = "released" /\ rec[j].delivery = "pending"
                        => j \notin Seen(cur)

DeliveryInv == /\ Inv /\ PlacesOK /\ Stages /\ Covered
               /\ NothingLost /\ NothingStuck /\ Queued /\ Unsent
-----------------------------------------------------------------------------
(* Records.                                                                  *)

LEMMA FreshStage == StageOK(Fresh) /\ Fresh.phase = "collecting"
  BY DEF StageOK, Fresh

LEMMA RestoredStage ==
  ASSUME NEW row \in Row
  PROVE  /\ StageOK(Restored(row))
         /\ Restored(row).phase = "released" /\ Restored(row).delivery = "pending"
  BY DEF StageOK, Restored, Fresh

LEMMA TerminalizedStage ==
  ASSUME NEW r \in JobRecord, StageOK(r), r.phase = "collecting"
  PROVE  StageOK(Terminalized(r)) /\ Terminalized(r).phase = "draining"
<1>1. r.delivery = "none" /\ r.batch = NoBatch
  BY DEF StageOK
<1>2. /\ Terminalized(r).phase = "draining" /\ Terminalized(r).delivery = "pending"
      /\ Terminalized(r).batch = r.batch
  BY DEF Terminalized, JobRecord
<1> QED BY <1>1, <1>2 DEF StageOK

LEMMA StoppingStage ==
  ASSUME NEW r \in JobRecord
  PROVE  /\ Stopping(r).phase = r.phase /\ Stopping(r).delivery = r.delivery
         /\ Stopping(r).batch = r.batch /\ Stopping(r) \in JobRecord
<1>1. CASE r.status = "stopping"
  <2>1. Stopping(r) = [r EXCEPT !.timers = r.timers \ {"timeout"}]
    BY <1>1 DEF Stopping
  <2> QED BY <2>1 DEF JobRecord
<1>2. CASE r.status # "stopping"
  <2> DEFINE w == IF r.handle = "pid" /\ r.sweep = "none" THEN "running" ELSE r.sweep
  <2>1. Stopping(r) = [r EXCEPT !.timers = r.timers \ {"timeout"}, !.status = "stopping",
                                !.sweep = w]
    BY <1>2 DEF Stopping
  <2>2. w \in {"none", "running", "done"}
    BY DEF JobRecord
  <2> DEFINE y == [r EXCEPT !.timers = r.timers \ {"timeout"}, !.status = "stopping"]
  <2>3. /\ y \in JobRecord /\ y.phase = r.phase /\ y.delivery = r.delivery
        /\ y.batch = r.batch
    BY DEF JobRecord, Active
  <2>4. Stopping(r) = [y EXCEPT !.sweep = w]
    BY <2>1 DEF JobRecord
  <2> HIDE DEF w, y
  <2> QED BY <2>2, <2>3, <2>4 DEF JobRecord
<1> QED BY <1>1, <1>2

(* What reconcileRecorded makes of a record.                                 *)
LEMMA ReconciledIs ==
  ASSUME NEW r \in JobRecord, StageOK(r), NEW j, NEW ids, NEW moved \in BOOLEAN
  PROVE  LET x == Reconciled(r, j, ids, moved)
         IN  /\ x \in JobRecord /\ StageOK(x) /\ x.phase = r.phase
             /\ r.phase = "released" =>
                  /\ x.delivery = "recorded" <=> j \in ids
                  /\ x.delivery = "submitted" => /\ r.delivery = "submitted" /\ x.batch = r.batch
                                                 /\ ~moved
                  /\ r.delivery = "submitted" /\ j \notin ids /\ ~moved => x = r
<1> DEFINE x == Reconciled(r, j, ids, moved)
<1>1. CASE r.phase # "released"
  BY <1>1 DEF Reconciled
<1>2. CASE r.phase = "released" /\ j \in ids
  <2>1. x = [r EXCEPT !.delivery = "recorded", !.batch = NoBatch]
    BY <1>2 DEF Reconciled
  <2>2. /\ x \in JobRecord /\ x.phase = "released" /\ x.delivery = "recorded"
        /\ x.batch = NoBatch
    BY <1>2, <2>1 DEF JobRecord, Delivery
  <2> QED BY <1>2, <2>2 DEF StageOK
<1>3. CASE /\ r.phase = "released" /\ j \notin ids
           /\ r.delivery = "recorded" \/ (moved /\ r.delivery = "submitted")
  <2>1. x = [r EXCEPT !.delivery = "pending", !.batch = NoBatch]
    BY <1>3 DEF Reconciled
  <2>2. /\ x \in JobRecord /\ x.phase = "released" /\ x.delivery = "pending"
        /\ x.batch = NoBatch
    BY <1>3, <2>1 DEF JobRecord, Delivery
  <2> QED BY <1>3, <2>2 DEF StageOK
<1>4. CASE /\ r.phase = "released" /\ j \notin ids
           /\ ~(r.delivery = "recorded" \/ (moved /\ r.delivery = "submitted"))
  <2>1. x = r
    BY <1>4 DEF Reconciled
  <2> QED BY <1>4, <2>1
<1> QED BY <1>1, <1>2, <1>3, <1>4

(* Only what is recorded is ever evicted.                                    *)
LEMMA EvictIs ==
  ASSUME NEW js \in SUBSET Jobs, NEW r \in [Jobs -> JobRecord],
         \A j \in Jobs : StageOK(r[j]), Evict(js, r)
  PROVE  /\ jobs' \subseteq js
         /\ \A j \in Jobs : /\ StageOK(rec'[j])
                            /\ j \in jobs' => rec'[j] = r[j]
                            /\ j \in js \ jobs' => /\ r[j].phase = "released"
                                                   /\ r[j].delivery = "recorded"
                            /\ rec'[j] \in {r[j], Fresh}
<1>1. PICK gone \in SUBSET Evictable(js, r) :
        /\ jobs' = js \ gone
        /\ rec' = [j \in Jobs |-> IF j \in gone THEN Fresh ELSE r[j]]
  BY DEF Evict
<1>2. \A j \in gone : /\ j \in js /\ r[j].phase = "released"
                      /\ r[j].delivery \in {"none", "recorded"}
  BY DEF Evictable
<1>3. \A j \in gone : r[j].delivery = "recorded"
  BY <1>2 DEF StageOK
<1>4. \A j \in Jobs : StageOK(rec'[j])
  BY <1>1, FreshStage
<1> QED BY <1>1, <1>2, <1>3, <1>4

LEMMA RecordFacts ==
  ASSUME DeliveryInv, NEW j \in Jobs
  PROVE  /\ rec[j] \in JobRecord /\ StageOK(rec[j])
         /\ j \notin jobs => rec[j].phase = "collecting"
         /\ rec[j].phase \in {"collecting", "draining", "released"}
<1>1. rec[j] \in JobRecord /\ StageOK(rec[j])
  BY DEF DeliveryInv, Inv, TypeOK, Stages
<1>2. j \notin jobs => rec[j] = Fresh
  BY DEF DeliveryInv, Inv, SafeInv
<1>3. rec[j].phase \in {"collecting", "draining", "released"}
  BY <1>1 DEF JobRecord
<1> QED BY <1>1, <1>2, <1>3, FreshStage
-----------------------------------------------------------------------------
(* Steps that change no delivery and no conversation.                        *)

LEMMA QuietStepOK ==
  ASSUME DeliveryInv, Inv', PlacesOK',
         UNCHANGED <<registry, cur, receipts, queue>>,
         \A j \in Jobs : StageOK(rec'[j]),
         jobs \subseteq jobs',
         \A j \in jobs' : j \in jobs \/ starting = j,
         \A j \in jobs' : rec'[j].phase = "released" =>
            j \in jobs /\ rec[j].phase = "released"
            /\ rec'[j].delivery = rec[j].delivery /\ rec'[j].batch = rec[j].batch,
         \A j \in jobs : rec[j].phase = "released" => rec'[j].phase = "released",
         \A j \in Jobs \ jobs' : ledger'[j] # NoRow /\ starting' # j
                                    => ledger[j] # NoRow /\ starting # j,
         \A j \in Jobs : ledger[j] # NoRow /\ starting # j => ledger'[j] # NoRow /\ starting' # j
  PROVE  DeliveryInv'
<1>1. jobs' \subseteq Jobs /\ \A j \in Jobs : rec'[j] \in JobRecord
  BY DEF Inv, TypeOK
<1>2. \A j \in jobs' : rec'[j].delivery \in {"submitted", "recorded"} => rec'[j].phase = "released"
  BY <1>1 DEF StageOK, JobRecord
<1>3. \A j \in Jobs : rec'[j].delivery = "recorded" => j \in jobs'
  <2>1. \A j \in Jobs : j \notin jobs' => rec'[j] = Fresh
    BY DEF Inv, SafeInv
  <2> QED BY <2>1 DEF Fresh
<1>4. Seen(cur)' = Seen(cur)
  BY DEF Seen
<1>5. NothingLost'
  <2> SUFFICES ASSUME registry = "open", NEW j \in Jobs, ledger'[j] # NoRow, starting' # j,
                      j \notin jobs' \/ rec'[j].delivery = "recorded"
               PROVE  j \in Seen(cur)
    BY <1>4 DEF NothingLost
  <2>1. CASE j \notin jobs'
    BY <2>1 DEF DeliveryInv, NothingLost
  <2>2. CASE rec'[j].delivery = "recorded"
    <3>1. j \in jobs /\ rec[j].delivery = "recorded"
      BY <1>2, <1>3, <2>2
    <3>2. ledger[j] # NoRow /\ starting # j
      BY <3>1, OwnedFacts DEF DeliveryInv
    <3> QED BY <3>1, <3>2 DEF DeliveryInv, NothingLost
  <2> QED BY <2>1, <2>2
<1>6. NothingStuck'
  BY <1>2 DEF DeliveryInv, NothingStuck
<1>7. Covered'
  BY <1>2 DEF DeliveryInv, Covered, Submitted
<1>8. Queued'
  <2> SUFFICES ASSUME ~QueueSurvives, NEW b \in Batches, NEW j \in queue[b]
               PROVE  /\ registry = "open" /\ ledger'[j] # NoRow /\ starting' # j
                      /\ j \in jobs' => /\ rec'[j].phase = "released"
                                        /\ \/ rec'[j].delivery = "recorded"
                                           \/ rec'[j].delivery = "submitted" /\ rec'[j].batch = b
    BY DEF Queued
  <2>1. /\ j \in Jobs /\ registry = "open" /\ ledger[j] # NoRow /\ starting # j
        /\ j \in jobs => /\ rec[j].phase = "released"
                         /\ \/ rec[j].delivery = "recorded"
                            \/ rec[j].delivery = "submitted" /\ rec[j].batch = b
    BY DEF DeliveryInv, Queued, PlacesOK
  <2> QED BY <2>1
<1>9. Unsent'
  BY <1>4 DEF DeliveryInv, Unsent
<1>10. Stages'
  BY DEF Stages
<1> QED BY <1>5, <1>6, <1>7, <1>8, <1>9, <1>10 DEF DeliveryInv

(* A step on one record that the map holds already.                          *)
LEMMA OneQuietOK ==
  ASSUME DeliveryInv, Inv', NEW j \in Jobs, NEW x, rec' = [rec EXCEPT ![j] = x],
         UNCHANGED <<registry, starting, jobs, ledger, cur, anchor, receipts, queue, wanted>>,
         StageOK(x),
         x.phase = "released" <=> rec[j].phase = "released",
         x.phase = "released" => x.delivery = rec[j].delivery /\ x.batch = rec[j].batch
  PROVE  DeliveryInv'
<1>1. \A k \in Jobs : rec'[k] = IF k = j THEN x ELSE rec[k]
  BY DEF DeliveryInv, Inv, TypeOK
<1>2. \A k \in Jobs : StageOK(rec'[k])
  BY <1>1 DEF DeliveryInv, Stages
<1>3. jobs \subseteq Jobs
  BY DEF DeliveryInv, Inv, TypeOK
<1>4. PlacesOK'
  BY DEF DeliveryInv, PlacesOK
<1> QED BY <1>1, <1>2, <1>3, <1>4, QuietStepOK

LEMMA StartHereOK ==
  ASSUME DeliveryInv, NEW j \in Jobs, StartHere(j)
  PROVE  DeliveryInv'
<1>1. /\ StartIntent(j) /\ anchor' = [anchor EXCEPT ![j] = cur]
      /\ UNCHANGED <<cur, receipts, queue, wanted>>
  BY DEF StartHere
<1>2. /\ starting = NoJob /\ starting' = j /\ ledger[j] = NoRow
      /\ ledger' = [ledger EXCEPT ![j] = [status |-> "running", settled |-> FALSE]]
      /\ UNCHANGED <<registry, jobs, rec>>
  BY <1>1 DEF StartIntent, Idle
<1>3. Inv'
  BY <1>1, StartIntentOK DEF DeliveryInv
<1>4. PlacesOK'
  BY <1>1 DEF DeliveryInv, PlacesOK
<1>5. \A k \in Jobs : k # j => ledger'[k] = ledger[k]
  BY <1>2 DEF DeliveryInv, Inv, TypeOK
<1>6. j \notin jobs /\ jobs \subseteq Jobs
  BY <1>2, OwnedFacts DEF DeliveryInv, Inv, TypeOK
<1>7. \A k \in Jobs : StageOK(rec'[k])
  BY <1>2 DEF DeliveryInv, Stages
<1>8. \A k \in Jobs \ jobs' : ledger'[k] # NoRow /\ starting' # k
                                 => ledger[k] # NoRow /\ starting # k
  BY <1>2, <1>5, JobsAssumption
<1>9. \A k \in Jobs : ledger[k] # NoRow /\ starting # k => ledger'[k] # NoRow /\ starting' # k
  BY <1>2, <1>5
<1> QED BY <1>1, <1>2, <1>3, <1>4, <1>6, <1>7, <1>8, <1>9, QuietStepOK

LEMMA SpawnQuietOK ==
  ASSUME DeliveryInv, NEW j \in Jobs, SpawnQuiet(j)
  PROVE  DeliveryInv'
<1>1. StartSpawn(j) /\ UNCHANGED <<cur, anchor, receipts, queue, wanted>>
  BY DEF SpawnQuiet
<1>2. /\ starting = j /\ starting' = NoJob /\ jobs' = jobs \cup {j}
      /\ UNCHANGED <<registry, ledger>>
  BY <1>1 DEF StartSpawn
<1>3. PICK t \in SUBSET {"timeout"} :
        rec' = [rec EXCEPT ![j] = [Fresh EXCEPT !.handle = "pid", !.timers = t]]
  BY <1>1 DEF StartSpawn
<1>4. Inv'
  BY <1>1, StartSpawnOK DEF DeliveryInv
<1>5. PlacesOK'
  BY <1>1 DEF DeliveryInv, PlacesOK
<1>6. \A k \in Jobs : rec'[k] = IF k = j
                            THEN [Fresh EXCEPT !.handle = "pid", !.timers = t] ELSE rec[k]
  BY <1>3 DEF DeliveryInv, Inv, TypeOK
<1>7. StageOK(rec'[j]) /\ rec'[j].phase = "collecting"
  BY <1>6 DEF StageOK, Fresh
<1>8. \A k \in Jobs : StageOK(rec'[k])
  BY <1>6, <1>7 DEF DeliveryInv, Stages
<1>9. j \notin jobs /\ jobs \subseteq Jobs
  BY <1>2, OwnedFacts DEF DeliveryInv, Inv, TypeOK
<1>10. \A k \in jobs' : rec'[k].phase = "released" => k \in jobs /\ rec'[k] = rec[k]
  BY <1>2, <1>6, <1>7, <1>9
<1>11. \A k \in jobs : rec'[k] = rec[k]
  BY <1>6, <1>9
<1>12. \A k \in Jobs \ jobs' : starting # k
  BY <1>2
<1>13. \A k \in Jobs : starting' # k
  BY <1>2, JobsAssumption
<1> QED BY <1>1, <1>2, <1>4, <1>5, <1>8, <1>10, <1>11, <1>12, <1>13, QuietStepOK

LEMMA ObserveOK ==
  ASSUME DeliveryInv, NEW j \in Jobs, Observe(j)
  PROVE  DeliveryInv'
<1> DEFINE r == rec[j]
<1>0. /\ UNCHANGED <<cur, anchor, receipts, queue, wanted>>
      /\ r \in JobRecord /\ StageOK(r)
  BY RecordFacts DEF Observe
<1>1. CASE ShellExits(j)
  <2>1. Inv' /\ UNCHANGED <<registry, starting, jobs, rec, ledger>>
    BY <1>1, ShellExitsOK DEF DeliveryInv, ShellExits
  <2>2. rec' = [rec EXCEPT ![j] = r]
    BY <2>1 DEF DeliveryInv, Inv, TypeOK
  <2> QED BY <1>0, <2>1, <2>2, OneQuietOK
<1>2. CASE ExitEvent(j)
  <2> DEFINE left == r.timers \ {"timeout"}
             t == IF r.phase = "collecting" THEN left \cup {"stream"} ELSE left
             x == [r EXCEPT !.told = "exit", !.timers = t]
  <2>1. Inv' /\ UNCHANGED <<registry, starting, jobs, ledger>> /\ rec' = [rec EXCEPT ![j] = x]
    BY <1>2, ExitEventOK DEF DeliveryInv, ExitEvent
  <2>2. x.phase = r.phase /\ x.delivery = r.delivery /\ x.batch = r.batch
    BY <1>0 DEF JobRecord
  <2> HIDE DEF x
  <2>3. StageOK(x)
    BY <1>0, <2>2 DEF StageOK
  <2> QED BY <1>0, <2>1, <2>2, <2>3, OneQuietOK
<1>3. CASE CloseEvent(j)
  <2> DEFINE y == [r EXCEPT !.timers = r.timers \ {"timeout", "stream"}, !.told = "close"]
             z == [y EXCEPT !.exit = proc[j].code]
             x == IF y.phase # "collecting" THEN y ELSE Terminalized(z)
  <2>1. Inv' /\ UNCHANGED <<registry, starting, jobs, ledger>> /\ rec' = [rec EXCEPT ![j] = x]
    BY <1>3, CloseEventOK DEF DeliveryInv, CloseEvent
  <2>2. proc[j].code \in Exits
    BY DEF DeliveryInv, Inv, TypeOK, Process
  <2>3. /\ y \in JobRecord /\ z \in JobRecord
        /\ y.phase = r.phase /\ y.delivery = r.delivery /\ y.batch = r.batch
        /\ z.phase = r.phase /\ z.delivery = r.delivery /\ z.batch = r.batch
    BY <1>0, <2>2 DEF JobRecord
  <2> HIDE DEF y, z
  <2>4. StageOK(y) /\ StageOK(z)
    BY <1>0, <2>3 DEF StageOK
  <2>5. StageOK(x) /\ (x.phase = "released" => x = y) /\ (r.phase = "released" => x = y)
    BY <2>3, <2>4, TerminalizedStage
  <2> HIDE DEF x
  <2> QED BY <1>0, <2>1, <2>3, <2>5, OneQuietOK
<1> QED BY <1>1, <1>2, <1>3 DEF Observe

LEMMA UnfinishedOK ==
  ASSUME DeliveryInv, NEW j \in Jobs, Unfinished(j)
  PROVE  DeliveryInv'
<1> DEFINE r == rec[j]
<1>0. /\ UNCHANGED <<cur, anchor, receipts, queue, wanted>>
      /\ r \in JobRecord /\ StageOK(r)
  BY RecordFacts DEF Unfinished
<1>1. CASE GraceFires(j)
  <2> DEFINE y == [r EXCEPT !.timers = r.timers \ {"grace"}]
             z == [y EXCEPT !.unconfirmed = TRUE, !.exit = "none"]
             x == IF y.phase # "collecting" THEN y ELSE Terminalized(z)
  <2>1. Inv' /\ UNCHANGED <<registry, starting, jobs, ledger>> /\ rec' = [rec EXCEPT ![j] = x]
    BY <1>1, GraceFiresOK DEF DeliveryInv, GraceFires
  <2>3. /\ y \in JobRecord /\ z \in JobRecord
        /\ y.phase = r.phase /\ y.delivery = r.delivery /\ y.batch = r.batch
        /\ z.phase = r.phase /\ z.delivery = r.delivery /\ z.batch = r.batch
    BY <1>0 DEF JobRecord, Exits
  <2> HIDE DEF y, z
  <2>4. StageOK(y) /\ StageOK(z)
    BY <1>0, <2>3 DEF StageOK
  <2>5. StageOK(x) /\ (x.phase = "released" => x = y) /\ (r.phase = "released" => x = y)
    BY <2>3, <2>4, TerminalizedStage
  <2> HIDE DEF x
  <2> QED BY <1>0, <2>1, <2>3, <2>5, OneQuietOK
<1>2. CASE SweepAttempt(j)
  <2>1. Inv' /\ UNCHANGED <<registry, starting, jobs, ledger>>
    BY <1>2, SweepAttemptOK DEF DeliveryInv, SweepAttempt
  <2>2. CASE ~GroupAlive(proc[j])
    <3> DEFINE x == [r EXCEPT !.sweep = "done"]
    <3>1. rec' = [rec EXCEPT ![j] = x]
      BY <1>2, <2>2 DEF SweepAttempt
    <3>2. x.phase = r.phase /\ x.delivery = r.delivery /\ x.batch = r.batch
      BY <1>0 DEF JobRecord
    <3> HIDE DEF x
    <3>3. StageOK(x)
      BY <1>0, <3>2 DEF StageOK
    <3> QED BY <1>0, <2>1, <3>1, <3>2, <3>3, OneQuietOK
  <2>3. CASE GroupAlive(proc[j])
    <3> DEFINE x == [r EXCEPT !.attempts = r.attempts + 1,
                              !.unconfirmed = r.unconfirmed \/ LastSweep(r),
                              !.sweep = IF LastSweep(r) THEN "done" ELSE "running"]
    <3>1. rec' = [rec EXCEPT ![j] = x]
      BY <1>2, <2>3 DEF SweepAttempt
    <3>2. x.phase = r.phase /\ x.delivery = r.delivery /\ x.batch = r.batch
      BY <1>0 DEF JobRecord
    <3> HIDE DEF x
    <3>3. StageOK(x)
      BY <1>0, <3>2 DEF StageOK
    <3> QED BY <1>0, <2>1, <3>1, <3>2, <3>3, OneQuietOK
  <2> QED BY <2>2, <2>3
<1> QED BY <1>1, <1>2 DEF Unfinished
-----------------------------------------------------------------------------
(* Steps that look at the receipts.                                          *)

(* A step that ends with a reconciliation: `r` are the records before the    *)
(* receipts decide, `js` those in the map, `R` what is made of them.          *)
ReconcileStep(js, r, ids, moved, R) ==
  /\ registry' = "open" /\ starting' = NoJob /\ ids = Seen(cur)'
  /\ js \in SUBSET Jobs /\ r \in [Jobs -> JobRecord] /\ moved \in BOOLEAN
  /\ R = [j \in Jobs |-> IF j \in js THEN Reconciled(r[j], j, ids, moved) ELSE r[j]]
  /\ Evict(js, R)
  /\ \A j \in Jobs : StageOK(r[j]) /\ (j \notin js => r[j] = Fresh)
  /\ \A j \in Jobs \ js : ledger'[j] # NoRow => j \in ids
  /\ \A j \in js : r[j].delivery = "submitted" /\ ~moved =>
        /\ ~HostLoses => j \in queue'[r[j].batch]
        /\ \A b \in Batches : queue'[b] # {} /\ r[j].batch = b => j \in queue'[b]
  /\ ~QueueSurvives => \A b \in Batches : \A j \in queue'[b] :
        /\ ledger'[j] # NoRow
        /\ j \in js => /\ r[j].phase = "released" /\ ~moved
                       /\ \/ r[j].delivery = "recorded" /\ j \in ids
                          \/ r[j].delivery = "submitted" /\ r[j].batch = b

LEMMA ReconcileStepOK ==
  ASSUME DeliveryInv, Inv', PlacesOK', NEW js, NEW r, NEW ids, NEW moved, NEW R,
         ReconcileStep(js, r, ids, moved, R)
  PROVE  DeliveryInv'
<1> USE DEF ReconcileStep
<1>1. \A j \in Jobs : j \in js => R[j] = Reconciled(r[j], j, ids, moved)
  OBVIOUS
<1>2. \A j \in Jobs : j \notin js => R[j] = Fresh /\ r[j] = Fresh
  OBVIOUS
<1>3. ASSUME NEW j \in js
      PROVE  /\ R[j] \in JobRecord /\ StageOK(R[j]) /\ R[j].phase = r[j].phase
             /\ r[j].phase = "released" =>
                  /\ R[j].delivery = "recorded" <=> j \in ids
                  /\ R[j].delivery = "submitted" => /\ r[j].delivery = "submitted"
                                                    /\ R[j].batch = r[j].batch
                                                    /\ ~moved
                  /\ r[j].delivery = "submitted" /\ j \notin ids /\ ~moved => R[j] = r[j]
  <2>1. j \in Jobs /\ r[j] \in JobRecord /\ StageOK(r[j])
    OBVIOUS
  <2> QED BY <1>1, <2>1, ReconciledIs
<1>4. R \in [Jobs -> JobRecord] /\ \A j \in Jobs : StageOK(R[j])
  <2>1. \A j \in Jobs : R[j] \in JobRecord /\ StageOK(R[j])
    BY <1>2, <1>3, FreshStage, FreshOK
  <2> QED BY <2>1
<1>5. /\ jobs' \subseteq js
      /\ \A j \in Jobs : /\ StageOK(rec'[j])
                         /\ j \in jobs' => rec'[j] = R[j]
                         /\ j \in js \ jobs' => /\ R[j].phase = "released"
                                                /\ R[j].delivery = "recorded"
                         /\ rec'[j] \in {R[j], Fresh}
  BY <1>4, EvictIs
<1>6. Fresh.phase = "collecting" /\ Fresh.delivery = "none"
  BY DEF Fresh
<1>7. \A j \in Jobs : R[j].delivery \in {"submitted", "recorded"}
                      => j \in js /\ R[j].phase = "released"
  BY <1>2, <1>4, <1>6 DEF StageOK, JobRecord
<1>8. \A j \in Jobs : R[j].delivery = "recorded" => j \in ids
  BY <1>3, <1>7
<1>9. NothingLost'
  <2>1. ASSUME NEW j \in Jobs, ledger'[j] # NoRow, j \notin jobs' PROVE j \in ids
    BY <1>5, <1>8, <2>1
  <2>2. ASSUME NEW j \in Jobs, rec'[j].delivery = "recorded" PROVE j \in ids
    BY <1>5, <1>6, <1>8, <2>2
  <2> QED BY <2>1, <2>2 DEF NothingLost
<1>10. ASSUME NEW j \in jobs', rec'[j].delivery = "submitted"
       PROVE  /\ j \in js /\ r[j].delivery = "submitted" /\ rec'[j].batch = r[j].batch /\ ~moved
  <2>1. j \in js /\ j \in Jobs /\ rec'[j] = R[j]
    BY <1>5
  <2>2. r[j].phase = "released"
    BY <1>3, <1>7, <1>10, <2>1
  <2> QED BY <1>3, <1>10, <2>1, <2>2
<1>11. NothingStuck'
  BY <1>10 DEF NothingStuck
<1>12. Covered'
  <2>1. ASSUME NEW b \in Batches, queue'[b] # {}, NEW j \in jobs', rec'[j].delivery = "submitted",
               rec'[j].batch = b
        PROVE  j \in queue'[b]
    BY <1>10, <2>1
  <2> QED BY <2>1 DEF Covered, Submitted
<1>13. Queued'
  <2> SUFFICES ASSUME ~QueueSurvives, NEW b \in Batches, NEW j \in queue'[b]
               PROVE  /\ ledger'[j] # NoRow /\ starting' # j
                      /\ j \in jobs' => /\ rec'[j].phase = "released"
                                        /\ \/ rec'[j].delivery = "recorded"
                                           \/ rec'[j].delivery = "submitted" /\ rec'[j].batch = b
    BY DEF Queued
  <2>1. j \in Jobs /\ ledger'[j] # NoRow /\ starting' # j
    BY JobsAssumption DEF PlacesOK
  <2>2. ASSUME j \in jobs'
        PROVE  /\ rec'[j].phase = "released"
               /\ \/ rec'[j].delivery = "recorded"
                  \/ rec'[j].delivery = "submitted" /\ rec'[j].batch = b
    <3>1. /\ j \in js /\ rec'[j] = R[j] /\ r[j].phase = "released" /\ ~moved
          /\ \/ r[j].delivery = "recorded" /\ j \in ids
             \/ r[j].delivery = "submitted" /\ r[j].batch = b
      BY <1>5, <2>1, <2>2
    <3>2. /\ R[j].phase = r[j].phase
          /\ R[j].delivery = "recorded" <=> j \in ids
          /\ r[j].delivery = "submitted" /\ j \notin ids => R[j] = r[j]
      BY <1>3, <3>1
    <3> HIDE DEF ReconcileStep
    <3> QED BY <3>1, <3>2
  <2> QED BY <2>1, <2>2
<1>14. Unsent'
  <2>1. ASSUME NEW j \in jobs', rec'[j].phase = "released", rec'[j].delivery = "pending"
        PROVE  j \notin ids
    <3>1. j \in js /\ rec'[j] = R[j]
      BY <1>5
    <3> QED BY <1>3, <2>1, <3>1
  <2> QED BY <2>1 DEF Unsent
<1>15. Stages'
  BY <1>5 DEF Stages
<1> QED BY <1>9, <1>11, <1>12, <1>13, <1>14, <1>15 DEF DeliveryInv

(* Records that receipts were held against are in order.                     *)
LEMMA MatchedOK ==
  ASSUME proc \in [Jobs -> Process], NEW js \in SUBSET Jobs, NEW r \in [Jobs -> JobRecord],
         NEW ids,
         \A j \in Jobs : RecordOK(r[j], proc[j]) /\ (j \notin js <=> r[j] = Fresh)
  PROVE  /\ Matched(js, r, ids) \in [Jobs -> JobRecord]
         /\ \A j \in Jobs : /\ RecordOK(Matched(js, r, ids)[j], proc[j])
                            /\ j \notin js <=> Matched(js, r, ids)[j] = Fresh
<1> DEFINE R == Matched(js, r, ids)
<1>1. ASSUME NEW j \in Jobs
      PROVE  R[j] \in JobRecord /\ RecordOK(R[j], proc[j]) /\ (j \notin js <=> R[j] = Fresh)
  <2>1. CASE j \in js
    <3>1. R[j] = Reconciled(r[j], j, ids, FALSE)
      BY <2>1 DEF Matched
    <3>2. R[j] \in {r[j], [r[j] EXCEPT !.delivery = "recorded", !.batch = NoBatch],
                    [r[j] EXCEPT !.delivery = "pending", !.batch = NoBatch]}
      BY <3>1 DEF Reconciled
    <3>3. r[j] \in JobRecord /\ proc[j] \in Process /\ r[j] # Fresh
      BY <2>1
    <3>4. ASSUME NEW d \in Delivery
          PROVE  LET x == [r[j] EXCEPT !.delivery = d, !.batch = NoBatch]
                 IN  x \in JobRecord /\ RecordOK(x, proc[j]) /\ x # Fresh
      BY <3>3, MarkOK
    <3>5. "recorded" \in Delivery /\ "pending" \in Delivery
      BY DEF Delivery
    <3> QED BY <2>1, <3>2, <3>3, <3>4, <3>5
  <2>2. CASE j \notin js
    BY <2>2 DEF Matched
  <2> QED BY <2>1, <2>2
<1>2. R = [j \in Jobs |-> R[j]]
  BY DEF Matched
<1> HIDE DEF R
<1>3. R \in [Jobs -> JobRecord]
  BY <1>1, <1>2
<1> QED BY <1>1, <1>3 DEF R

LEMMA OpenSessionOK ==
  ASSUME DeliveryInv, OpenSession
  PROVE  DeliveryInv'
<1> DEFINE rows == {j \in Jobs : ledger[j] # NoRow}
           r == [j \in Jobs |-> IF j \in rows THEN Restored(ledger[j]) ELSE Fresh]
           ids == Seen(cur)
           R == Matched(rows, r, ids)
<1>1. /\ registry = "absent" /\ registry' = "open"
      /\ Evict(rows, R)
      /\ wanted' = TRUE
      /\ UNCHANGED <<starting, ledger, proc, thrown, closing, cur, anchor, receipts, queue>>
  BY DEF OpenSession
<1>2. starting = NoJob
  BY <1>1 DEF DeliveryInv, Inv, SafeInv, StartingOK
<1>3. ASSUME NEW j \in Jobs
      PROVE  /\ r[j] \in JobRecord /\ RecordOK(r[j], proc[j])
             /\ StageOK(r[j]) /\ (j \notin rows <=> r[j] = Fresh)
             /\ j \in rows => r[j].phase = "released" /\ r[j].delivery = "pending"
  <2>1. CASE ledger[j] = NoRow
    BY <2>1, FreshOK, FreshStage, JobFacts DEF DeliveryInv
  <2>2. CASE ledger[j] # NoRow
    BY <2>2, RestoredOK, RestoredStage, JobFacts DEF RowOK, DeliveryInv
  <2> QED BY <2>1, <2>2
<1>4. r \in [Jobs -> JobRecord] /\ rows \in SUBSET Jobs /\ proc \in [Jobs -> Process]
  BY <1>3 DEF DeliveryInv, Inv, TypeOK
<1> HIDE DEF r
<1>5. /\ R \in [Jobs -> JobRecord]
      /\ \A j \in Jobs : RecordOK(R[j], proc[j]) /\ (j \notin rows <=> R[j] = Fresh)
  <2>1. \A j \in Jobs : RecordOK(r[j], proc[j]) /\ (j \notin rows <=> r[j] = Fresh)
    BY <1>3
  <2> HIDE DEF rows, ids
  <2> QED BY <1>4, <2>1, MatchedOK
<1>6. R = [j \in Jobs |-> IF j \in rows THEN Reconciled(r[j], j, ids, FALSE) ELSE r[j]]
  BY DEF Matched
<1> HIDE DEF R
<1>7. /\ jobs' \subseteq rows /\ rec' \in [Jobs -> JobRecord]
      /\ \A j \in Jobs : RecordOK(rec'[j], proc[j]) /\ (j \notin jobs' <=> rec'[j] = Fresh)
  BY <1>1, <1>4, <1>5, EvictOK
<1>8. Inv'
  <2>1. jobs' \subseteq {j \in Jobs : ledger[j] # NoRow /\ j # starting}
    BY <1>2, <1>7, JobsAssumption
  <2>2. RowsKept
    BY <1>1, SameRows DEF DeliveryInv
  <2> QED BY <1>1, <1>2, <1>7, <2>1, <2>2, FrameOK DEF DeliveryInv
<1>9. PlacesOK' /\ ids = Seen(cur)'
  BY <1>1 DEF DeliveryInv, PlacesOK, Seen
<1>10. ~QueueSurvives => \A b \in Batches : queue'[b] = {}
  BY <1>1 DEF DeliveryInv, Queued
<1>11. \A j \in Jobs \ rows : ledger'[j] = NoRow
  BY <1>1
<1>12. \A j \in rows : j \in Jobs /\ r[j].delivery # "submitted"
  BY <1>3
<1> HIDE DEF rows, ids
<1>13. ReconcileStep(rows, r, ids, FALSE, R)
  BY <1>1, <1>2, <1>3, <1>4, <1>6, <1>9, <1>10, <1>11, <1>12 DEF ReconcileStep
<1> QED BY <1>8, <1>9, <1>13, ReconcileStepOK

(* What the registry holds when a schedule without a move begins.            *)
LEMMA ScheduleFacts ==
  ASSUME DeliveryInv, registry = "open", starting = NoJob
  PROVE  /\ \A j \in Jobs \ jobs : ledger[j] # NoRow => j \in Seen(cur)
         /\ \A j \in jobs : rec[j].delivery = "submitted" =>
              /\ ~HostLoses => j \in queue[rec[j].batch]
              /\ \A b \in Batches : queue[b] # {} /\ rec[j].batch = b => j \in queue[b]
         /\ ~QueueSurvives => \A b \in Batches : \A j \in queue[b] :
              /\ j \in Jobs /\ ledger[j] # NoRow
              /\ j \in jobs => /\ rec[j].phase = "released"
                               /\ \/ rec[j].delivery = "recorded" /\ j \in Seen(cur)
                                  \/ rec[j].delivery = "submitted" /\ rec[j].batch = b
<1>1. \A j \in Jobs : starting # j
  BY JobsAssumption
<1>2. \A j \in Jobs \ jobs : ledger[j] # NoRow => j \in Seen(cur)
  BY <1>1 DEF DeliveryInv, NothingLost
<1>3. \A j \in jobs : j \in Jobs /\ ledger[j] # NoRow
  BY OwnedFacts DEF DeliveryInv
<1>4. \A j \in jobs : rec[j].delivery = "recorded" => j \in Seen(cur)
  BY <1>1, <1>3 DEF DeliveryInv, NothingLost
<1>5. \A j \in jobs : rec[j].delivery = "submitted" /\ ~HostLoses => j \in queue[rec[j].batch]
  BY DEF DeliveryInv, NothingStuck
<1>6. \A j \in jobs : rec[j].delivery = "submitted" =>
         \A b \in Batches : queue[b] # {} /\ rec[j].batch = b => j \in queue[b]
  BY DEF DeliveryInv, Covered, Submitted
<1>7. \A b \in Batches : queue[b] \subseteq Jobs
  BY DEF DeliveryInv, PlacesOK
<1>8. ASSUME ~QueueSurvives, NEW b \in Batches, NEW j \in queue[b]
      PROVE  /\ j \in Jobs /\ ledger[j] # NoRow
             /\ j \in jobs => /\ rec[j].phase = "released"
                              /\ \/ rec[j].delivery = "recorded" /\ j \in Seen(cur)
                                 \/ rec[j].delivery = "submitted" /\ rec[j].batch = b
  BY <1>4, <1>7, <1>8 DEF DeliveryInv, Queued
<1> QED BY <1>2, <1>5, <1>6, <1>8

LEMMA AgentEventOK ==
  ASSUME DeliveryInv, AgentEvent
  PROVE  DeliveryInv'
<1> DEFINE ids == Seen(cur)
           R == [j \in Jobs |-> IF j \in jobs THEN Reconciled(rec[j], j, ids, FALSE) ELSE rec[j]]
<1>1. /\ registry = "open" /\ starting = NoJob
      /\ ReconcileRecorded(ids, FALSE)
      /\ wanted' = TRUE /\ UNCHANGED <<cur, anchor, receipts, queue>>
  BY DEF AgentEvent, Idle
<1>2. Evict(jobs, R) /\ UNCHANGED <<registry, starting, ledger, proc, thrown, closing>>
  <2> DEFINE seen == [j \in Jobs |-> IF j \in {} THEN Restored(ledger[j]) ELSE rec[j]]
             S == [j \in Jobs |-> IF j \in jobs \cup {}
                                  THEN Reconciled(seen[j], j, ids, FALSE) ELSE rec[j]]
  <2>1. Evict(jobs \cup {}, S) /\ UNCHANGED <<registry, starting, ledger, proc, thrown, closing>>
    BY <1>1 DEF ReconcileRecorded
  <2>2. jobs \cup {} = jobs /\ \A j \in Jobs : seen[j] = rec[j]
    OBVIOUS
  <2> HIDE DEF seen
  <2>3. S = R
    BY <2>2
  <2> HIDE DEF S, R
  <2> QED BY <2>1, <2>2, <2>3
<1>3. Inv'
  BY <1>1, ReconcileRecordedOK DEF DeliveryInv
<1>4. PlacesOK' /\ ids = Seen(cur)'
  BY <1>1 DEF DeliveryInv, PlacesOK, Seen
<1>5. /\ jobs \in SUBSET Jobs /\ rec \in [Jobs -> JobRecord]
      /\ \A j \in Jobs : StageOK(rec[j]) /\ (j \notin jobs => rec[j] = Fresh)
  BY DEF DeliveryInv, Inv, TypeOK, SafeInv, Stages
<1> HIDE DEF R, ids
<1>6. R = [j \in Jobs |-> IF j \in jobs THEN Reconciled(rec[j], j, ids, FALSE) ELSE rec[j]]
  BY DEF R
<1>7. /\ \A j \in Jobs \ jobs : ledger[j] # NoRow => j \in ids
      /\ \A j \in jobs : rec[j].delivery = "submitted" =>
              /\ ~HostLoses => j \in queue[rec[j].batch]
              /\ \A b \in Batches : queue[b] # {} /\ rec[j].batch = b => j \in queue[b]
      /\ ~QueueSurvives => \A b \in Batches : \A j \in queue[b] :
              /\ j \in Jobs /\ ledger[j] # NoRow
              /\ j \in jobs => /\ rec[j].phase = "released"
                               /\ \/ rec[j].delivery = "recorded" /\ j \in ids
                                  \/ rec[j].delivery = "submitted" /\ rec[j].batch = b
  BY <1>1, ScheduleFacts DEF ids
<1>8. ReconcileStep(jobs, rec, ids, FALSE, R)
  BY <1>1, <1>2, <1>4, <1>5, <1>6, <1>7 DEF ReconcileStep
<1> QED BY <1>3, <1>4, <1>8, ReconcileStepOK

(* A step of a registry that does not serve.                                 *)
LEMMA ClosedStepOK ==
  ASSUME DeliveryInv, Inv', PlacesOK', \A j \in Jobs : StageOK(rec'[j]), registry' # "open",
         \A b \in Batches : Submitted(b)' \subseteq Submitted(b),
         \A b \in Batches : queue'[b] = {} \/ queue'[b] = queue[b],
         ~QueueSurvives => \A b \in Batches : queue'[b] = {}
  PROVE  DeliveryInv'
<1>1. Covered'
  BY DEF DeliveryInv, Covered
<1>2. NothingLost' /\ NothingStuck' /\ Unsent'
  BY DEF NothingLost, NothingStuck, Unsent
<1>3. Queued'
  BY DEF Queued
<1> QED BY <1>1, <1>2, <1>3 DEF DeliveryInv, Stages

LEMMA NavigateOK ==
  ASSUME DeliveryInv, NEW place \in Branches, Navigate(place)
  PROVE  DeliveryInv'
<1>1. /\ starting = NoJob /\ registry # "absent" /\ cur' = place
      /\ queue' = (IF QueueSurvives THEN queue ELSE NoQueue)
      /\ UNCHANGED <<anchor, receipts>>
  BY DEF Navigate, Idle
<1>2. PlacesOK'
  <2>1. wanted' \in BOOLEAN
    BY DEF Navigate, DeliveryInv, PlacesOK
  <2> QED BY <1>1, <2>1 DEF DeliveryInv, PlacesOK, Places, NoQueue
<1>3. ~QueueSurvives => \A b \in Batches : queue'[b] = {}
  BY <1>1 DEF NoQueue
<1>4. CASE registry # "open"
  <2>1. UNCHANGED vars
    BY <1>4 DEF Navigate
  <2>2. Inv'
    BY <2>1, NextOK DEF DeliveryInv
  <2>3. UNCHANGED <<registry, jobs, rec>>
    BY <2>1 DEF vars
  <2>4. \A j \in Jobs : StageOK(rec'[j])
    BY <2>3 DEF DeliveryInv, Stages
  <2>5. \A b \in Batches : Submitted(b)' \subseteq Submitted(b)
    BY <2>3 DEF Submitted
  <2>6. \A b \in Batches : queue'[b] = {} \/ queue'[b] = queue[b]
    BY <1>1 DEF NoQueue
  <2> QED BY <1>2, <1>3, <1>4, <2>2, <2>3, <2>4, <2>5, <2>6, ClosedStepOK
<1>5. CASE registry = "open"
  <2> DEFINE ids == Seen(place)
             back == Forgotten(ids)
             js == jobs \cup back
             r == [j \in Jobs |-> IF j \in back THEN Restored(ledger[j]) ELSE rec[j]]
             R == [j \in Jobs |-> IF j \in js THEN Reconciled(r[j], j, ids, TRUE) ELSE r[j]]
             S == [j \in Jobs |-> IF j \in js THEN Reconciled(r[j], j, ids, TRUE) ELSE rec[j]]
  <2>1. ReconcileRecorded(ids, TRUE)
    BY <1>5 DEF Navigate
  <2>2. Evict(js, S) /\ UNCHANGED <<registry, starting, ledger, proc, thrown, closing>>
    BY <2>1 DEF ReconcileRecorded
  <2>3. \A j \in Jobs : j \notin js => r[j] = rec[j]
    OBVIOUS
  <2>4. js \in SUBSET Jobs /\ rec \in [Jobs -> JobRecord]
    BY DEF Forgotten, DeliveryInv, Inv, TypeOK
  <2>5. ASSUME NEW j \in Jobs
        PROVE  r[j] \in JobRecord /\ StageOK(r[j]) /\ (j \notin js => r[j] = Fresh)
    <3>1. CASE j \in back
      BY <3>1, RestoredOK, RestoredStage, JobFacts DEF RowOK, DeliveryInv
    <3>2. CASE j \notin back
      BY <3>2, RecordFacts DEF DeliveryInv, Inv, SafeInv
    <3> QED BY <3>1, <3>2
  <2>6. r \in [Jobs -> JobRecord]
    BY <2>5
  <2> HIDE DEF r
  <2>7. S = R
    BY <2>3
  <2>8. R = [j \in Jobs |-> IF j \in js THEN Reconciled(r[j], j, ids, TRUE) ELSE r[j]]
    OBVIOUS
  <2> HIDE DEF R, S
  <2>9. Evict(js, R)
    BY <2>2, <2>7
  <2>10. Inv'
    BY <1>1, <2>1, ReconcileRecordedOK DEF DeliveryInv
  <2>11. ids = Seen(cur)'
    BY <1>1 DEF Seen
  <2>12. \A j \in Jobs \ js : ledger'[j] # NoRow => j \in ids
    BY <2>2 DEF Forgotten
  <2> HIDE DEF js, ids
  <2>13. ReconcileStep(js, r, ids, TRUE, R)
    BY <1>1, <1>3, <1>5, <2>2, <2>4, <2>5, <2>6, <2>8, <2>9, <2>11, <2>12 DEF ReconcileStep
  <2> QED BY <1>2, <2>10, <2>13, ReconcileStepOK
<1> QED BY <1>4, <1>5

LEMMA ReleaseAndReportOK ==
  ASSUME DeliveryInv, NEW j \in Jobs, ReleaseAndReport(j)
  PROVE  DeliveryInv'
<1> DEFINE x == Released(rec[j])
           r == [rec EXCEPT ![j] = x]
           ids == Seen(cur)
<1>1. /\ registry # "absent" /\ starting = NoJob
      /\ rec[j].phase = "draining" /\ rec[j].sweep # "running"
      /\ Save(j, x.status, TRUE)
      /\ Evict(jobs, IF registry = "open" THEN Matched(jobs, r, ids) ELSE r)
      /\ wanted' = (wanted \/ registry = "open")
      /\ UNCHANGED <<registry, starting, proc, thrown, closing, cur, anchor, receipts, queue>>
  BY DEF ReleaseAndReport, Idle
<1>2. rec[j] # Fresh /\ j \in jobs /\ rec[j] \in JobRecord /\ RecordOK(rec[j], proc[j])
  BY <1>1, JobFacts DEF Fresh, DeliveryInv
<1>3. /\ x \in JobRecord /\ x.phase = "released"
      /\ x.delivery = rec[j].delivery /\ x.batch = rec[j].batch
  BY <1>2 DEF JobRecord, Released, Results
<1>4. Record!Truthful(x.status, Fate(proc[j])) /\ x.status \in Results
  BY <1>1, <1>2 DEF RecordOK, Released, Record!Truthful, JobRecord, Active, Results
<1>5. RecordOK(x, proc[j])
  BY <1>1, <1>2, <1>3, <1>4 DEF RecordOK, JobRecord, Released, Active, Results
<1>6. x # Fresh
  BY <1>3 DEF Fresh
<1>7. StageOK(x) /\ x.delivery = "pending"
  BY <1>1, <1>3 DEF DeliveryInv, Stages, StageOK
<1> HIDE DEF x
<1>8. r \in [Jobs -> JobRecord] /\ jobs \in SUBSET Jobs /\ proc \in [Jobs -> Process]
  BY <1>3 DEF DeliveryInv, Inv, TypeOK
<1>9. \A k \in Jobs : r[k] = IF k = j THEN x ELSE rec[k]
  BY DEF DeliveryInv, Inv, TypeOK
<1> HIDE DEF r
<1>10. \A k \in Jobs : RecordOK(r[k], proc[k]) /\ (k \notin jobs <=> r[k] = Fresh)
  BY <1>2, <1>5, <1>6, <1>9, JobFacts DEF DeliveryInv
<1>11. \A k \in Jobs : StageOK(r[k])
  BY <1>7, <1>9 DEF DeliveryInv, Stages
<1>12. RowsKept
  BY <1>1, <1>2, <1>4, OwnedFacts, SaveOK DEF DeliveryInv
<1>13. \A k \in jobs : k \in Jobs /\ ledger[k] # NoRow /\ k # starting
  BY OwnedFacts DEF DeliveryInv
<1> DEFINE M == Matched(jobs, r, ids)
<1>14. /\ M \in [Jobs -> JobRecord]
       /\ \A k \in Jobs : RecordOK(M[k], proc[k]) /\ (k \notin jobs <=> M[k] = Fresh)
  BY <1>8, <1>10, MatchedOK
<1>15. M = [k \in Jobs |-> IF k \in jobs THEN Reconciled(r[k], k, ids, FALSE) ELSE r[k]]
  BY DEF Matched
<1> HIDE DEF M
<1>16. Inv'
  <2>1. CASE registry = "open"
    <3>1. Evict(jobs, M)
      BY <1>1, <2>1 DEF M
    <3> QED BY <1>1, <1>8, <1>12, <1>13, <1>14, <3>1, BookkeepingStepOK DEF DeliveryInv
  <2>2. CASE registry # "open"
    <3>1. Evict(jobs, r)
      BY <1>1, <2>2
    <3> QED BY <1>1, <1>8, <1>10, <1>12, <1>13, <3>1, BookkeepingStepOK DEF DeliveryInv
  <2> QED BY <2>1, <2>2
<1>17. PlacesOK' /\ ids = Seen(cur)'
  BY <1>1 DEF DeliveryInv, PlacesOK, Seen
<1>18. \A k \in Jobs : ledger'[k] = NoRow <=> ledger[k] = NoRow
  BY <1>12 DEF RowsKept
<1>19. CASE registry = "open"
  <2>1. /\ \A k \in Jobs \ jobs : ledger[k] # NoRow => k \in ids
        /\ \A k \in jobs : rec[k].delivery = "submitted" =>
              /\ ~HostLoses => k \in queue[rec[k].batch]
              /\ \A b \in Batches : queue[b] # {} /\ rec[k].batch = b => k \in queue[b]
        /\ ~QueueSurvives => \A b \in Batches : \A k \in queue[b] :
              /\ k \in Jobs /\ ledger[k] # NoRow
              /\ k \in jobs => /\ rec[k].phase = "released"
                               /\ \/ rec[k].delivery = "recorded" /\ k \in ids
                                  \/ rec[k].delivery = "submitted" /\ rec[k].batch = b
    BY <1>1, <1>19, ScheduleFacts
  <2> HIDE DEF ids
  <2>2. \A k \in Jobs \ jobs : ledger'[k] # NoRow => k \in ids
    BY <1>18, <2>1
  <2>3. \A k \in jobs : r[k].delivery = "submitted" =>
              /\ ~HostLoses => k \in queue'[r[k].batch]
              /\ \A b \in Batches : queue'[b] # {} /\ r[k].batch = b => k \in queue'[b]
    BY <1>1, <1>7, <1>9, <1>13, <2>1
  <2>4. ~QueueSurvives => \A b \in Batches : \A k \in queue'[b] :
              /\ ledger'[k] # NoRow
              /\ k \in jobs => /\ r[k].phase = "released"
                               /\ \/ r[k].delivery = "recorded" /\ k \in ids
                                  \/ r[k].delivery = "submitted" /\ r[k].batch = b
    BY <1>1, <1>9, <1>13, <1>18, <2>1
  <2>5. Evict(jobs, M)
    BY <1>1, <1>19 DEF M
  <2>6. \A k \in Jobs : StageOK(r[k]) /\ (k \notin jobs => r[k] = Fresh)
    BY <1>10, <1>11
  <2>7. ReconcileStep(jobs, r, ids, FALSE, M)
    <3>1. registry' = "open" /\ starting' = NoJob
      BY <1>1, <1>19
    <3> QED BY <3>1, <1>8, <1>15, <1>17, <2>2, <2>3, <2>4, <2>5, <2>6 DEF ReconcileStep
  <2> QED BY <1>16, <1>17, <2>7, ReconcileStepOK
<1>20. CASE registry # "open"
  <2>1. Evict(jobs, r)
    BY <1>1, <1>20
  <2>2. /\ jobs' \subseteq jobs
        /\ \A k \in Jobs : StageOK(rec'[k]) /\ (k \in jobs' => rec'[k] = r[k])
    BY <1>8, <1>11, <2>1, EvictIs
  <2>3. \A b \in Batches : Submitted(b)' \subseteq Submitted(b)
    BY <1>7, <1>9, <1>13, <2>2 DEF Submitted
  <2>4. ~QueueSurvives => \A b \in Batches : queue'[b] = {}
    BY <1>1, <1>20 DEF DeliveryInv, Queued
  <2> QED BY <1>1, <1>16, <1>17, <1>20, <2>2, <2>3, <2>4, ClosedStepOK
<1> QED BY <1>19, <1>20
-----------------------------------------------------------------------------
(* Steps that send, append or lose.                                          *)

LEMMA HostAppendOK ==
  ASSUME DeliveryInv, NEW b \in Batches, HostAppend(b)
  PROVE  DeliveryInv'
<1>1. /\ starting = NoJob /\ queue[b] # {}
      /\ queue' = [queue EXCEPT ![b] = {}]
      /\ receipts' = [receipts EXCEPT ![cur] = @ \cup queue[b]]
      /\ UNCHANGED <<cur, anchor, wanted>>
  BY DEF HostAppend
<1>2. /\ cur \in Places /\ queue \in [Batches -> SUBSET Jobs]
      /\ receipts \in [Places -> SUBSET Jobs]
  BY DEF DeliveryInv, PlacesOK
<1>3. PlacesOK'
  BY <1>1, <1>2 DEF DeliveryInv, PlacesOK
<1>4. \A c \in Batches : queue'[c] = IF c = b THEN {} ELSE queue[c]
  BY <1>1, <1>2
<1>5. CASE registry # "open"
  <2>1. UNCHANGED vars
    BY <1>5 DEF HostAppend
  <2>2. Inv'
    BY <2>1, NextOK DEF DeliveryInv
  <2>3. UNCHANGED <<registry, jobs, rec>>
    BY <2>1 DEF vars
  <2>4. \A j \in Jobs : StageOK(rec'[j])
    BY <2>3 DEF DeliveryInv, Stages
  <2>5. \A c \in Batches : Submitted(c)' \subseteq Submitted(c)
    BY <2>3 DEF Submitted
  <2>6. ~QueueSurvives => \A c \in Batches : queue'[c] = {}
    BY <1>4, <1>5 DEF DeliveryInv, Queued
  <2> QED BY <1>3, <1>4, <1>5, <2>2, <2>3, <2>4, <2>5, <2>6, ClosedStepOK
<1>6. CASE registry = "open"
  <2> DEFINE R == [j \in Jobs |->
                    IF j \in Submitted(b)
                    THEN [rec[j] EXCEPT !.delivery = "recorded", !.batch = NoBatch] ELSE rec[j]]
  <2>1. MarkRecorded(b)
    BY <1>6 DEF HostAppend
  <2>2. Evict(jobs, R) /\ UNCHANGED <<registry, starting, ledger, proc, thrown, closing>>
    BY <2>1 DEF MarkRecorded
  <2>3. Inv'
    BY <1>6, <2>1, MarkRecordedOK DEF DeliveryInv
  <2>4. /\ jobs \in SUBSET Jobs /\ rec \in [Jobs -> JobRecord]
    BY DEF DeliveryInv, Inv, TypeOK
  <2>5. ASSUME NEW j \in Jobs
        PROVE  /\ R[j] \in JobRecord /\ StageOK(R[j]) /\ R[j].phase = rec[j].phase
               /\ j \in Submitted(b) => R[j].delivery = "recorded"
               /\ j \notin Submitted(b) => R[j] = rec[j]
    <3>1. rec[j] \in JobRecord /\ StageOK(rec[j])
      BY RecordFacts
    <3>2. CASE j \in Submitted(b)
      <4>1. R[j] = [rec[j] EXCEPT !.delivery = "recorded", !.batch = NoBatch]
        BY <3>2
      <4> HIDE DEF R
      <4>2. /\ R[j] \in JobRecord /\ R[j].phase = rec[j].phase /\ R[j].delivery = "recorded"
            /\ R[j].batch = NoBatch
        BY <3>1, <4>1 DEF JobRecord, Delivery
      <4>3. rec[j].phase = "released"
        BY <3>1, <3>2 DEF Submitted, StageOK, JobRecord
      <4> QED BY <3>2, <4>2, <4>3 DEF StageOK
    <3>3. CASE j \notin Submitted(b)
      BY <3>1, <3>3
    <3> QED BY <3>2, <3>3
  <2>6. R \in [Jobs -> JobRecord]
    BY <2>5
  <2> HIDE DEF R
  <2>7. /\ jobs' \subseteq jobs
        /\ \A j \in Jobs : /\ StageOK(rec'[j])
                           /\ j \in jobs' => rec'[j] = R[j]
                           /\ j \in jobs \ jobs' => /\ R[j].phase = "released"
                                                    /\ R[j].delivery = "recorded"
                           /\ rec'[j] \in {R[j], Fresh}
    BY <2>2, <2>4, <2>5, <2>6, EvictIs
  <2>8. Seen(cur)' = Seen(cur) \cup queue[b]
    BY <1>1, <1>2 DEF Seen, Places
  <2>9. \A j \in Jobs : starting # j
    BY <1>1, JobsAssumption
  <2>10. Submitted(b) \subseteq queue[b] /\ Submitted(b) \subseteq jobs
    BY <1>1 DEF DeliveryInv, Covered, Submitted
  <2>11. \A j \in jobs : j \in Jobs /\ ledger[j] # NoRow
    BY OwnedFacts DEF DeliveryInv
  <2>12. \A j \in jobs : R[j].delivery = "recorded" => j \in Seen(cur)'
    BY <1>6, <2>5, <2>8, <2>9, <2>10, <2>11 DEF DeliveryInv, NothingLost
  <2>13. \A j \in Jobs : rec'[j].delivery = "recorded" => j \in jobs'
    <3>1. \A j \in Jobs : j \notin jobs' => rec'[j] = Fresh
      BY <2>3 DEF Inv, SafeInv
    <3> QED BY <3>1 DEF Fresh
  <2>14. NothingLost'
    <3>1. ASSUME NEW j \in Jobs, ledger[j] # NoRow, j \notin jobs' PROVE j \in Seen(cur)'
      <4>1. CASE j \in jobs
        BY <2>7, <2>12, <3>1, <4>1
      <4>2. CASE j \notin jobs
        BY <1>6, <2>8, <2>9, <3>1, <4>2 DEF DeliveryInv, NothingLost
      <4> QED BY <4>1, <4>2
    <3>2. ASSUME NEW j \in Jobs, rec'[j].delivery = "recorded" PROVE j \in Seen(cur)'
      BY <2>7, <2>12, <2>13, <3>2
    <3> QED BY <2>2, <3>1, <3>2 DEF NothingLost
  <2>15. ASSUME NEW j \in jobs', rec'[j].delivery = "submitted"
         PROVE  j \in jobs /\ rec'[j] = rec[j] /\ rec[j].batch # b
    <3>1. j \in jobs /\ j \in Jobs /\ rec'[j] = R[j]
      BY <2>7, <2>11
    <3>2. j \notin Submitted(b)
      BY <2>5, <2>15, <3>1
    <3>3. rec'[j] = rec[j]
      BY <2>5, <3>1, <3>2
    <3> QED BY <2>15, <3>1, <3>2, <3>3 DEF Submitted
  <2>16. NothingStuck'
    <3>1. ASSUME ~HostLoses, NEW j \in jobs', rec'[j].delivery = "submitted"
          PROVE  j \in queue'[rec'[j].batch]
      <4>1. j \in jobs /\ rec'[j] = rec[j] /\ rec[j].batch # b
        BY <2>15, <3>1
      <4>2. j \in queue[rec[j].batch]
        BY <1>6, <3>1, <4>1 DEF DeliveryInv, NothingStuck
      <4>3. rec[j].batch \in Batches
        <5>1. j \in Jobs /\ rec[j] \in JobRecord /\ StageOK(rec[j])
          BY <2>11, <4>1, RecordFacts
        <5> QED BY <3>1, <4>1, <5>1 DEF StageOK, JobRecord
      <4> QED BY <1>4, <4>1, <4>2, <4>3
    <3> QED BY <3>1 DEF NothingStuck
  <2>17. Covered'
    <3>1. ASSUME NEW c \in Batches, queue'[c] # {}, NEW j \in jobs', rec'[j].delivery = "submitted",
                 rec'[j].batch = c
          PROVE  j \in queue'[c]
      <4>1. j \in jobs /\ rec'[j] = rec[j] /\ c # b
        BY <2>15, <3>1
      <4>2. queue'[c] = queue[c] /\ j \in Submitted(c)
        BY <1>4, <3>1, <4>1 DEF Submitted
      <4> QED BY <3>1, <4>2 DEF DeliveryInv, Covered
    <3> QED BY <3>1 DEF Covered, Submitted
  <2>18. Queued'
    <3>1. ASSUME ~QueueSurvives, NEW c \in Batches, NEW j \in queue'[c]
          PROVE  /\ ledger[j] # NoRow /\ starting # j
                 /\ j \in jobs' => /\ rec'[j].phase = "released"
                                   /\ \/ rec'[j].delivery = "recorded"
                                      \/ rec'[j].delivery = "submitted" /\ rec'[j].batch = c
      <4>1. c # b /\ j \in queue[c] /\ j \in Jobs
        BY <1>2, <1>4, <3>1
      <4>2. /\ ledger[j] # NoRow /\ starting # j
            /\ j \in jobs => /\ rec[j].phase = "released"
                             /\ \/ rec[j].delivery = "recorded"
                                \/ rec[j].delivery = "submitted" /\ rec[j].batch = c
        BY <3>1, <4>1 DEF DeliveryInv, Queued
      <4> QED BY <2>5, <2>7, <4>1, <4>2
    <3> QED BY <1>6, <2>2, <3>1 DEF Queued
  <2>19. Unsent'
    <3>1. ASSUME ~QueueSurvives, NEW j \in jobs', rec'[j].phase = "released",
                 rec'[j].delivery = "pending"
          PROVE  j \notin Seen(cur)'
      <4>1. j \in jobs /\ j \in Jobs /\ rec[j] = rec'[j]
        BY <2>5, <2>7, <2>11, <3>1
      <4>2. j \notin Seen(cur)
        BY <1>6, <3>1, <4>1 DEF DeliveryInv, Unsent
      <4>3. j \notin queue[b]
        BY <3>1, <4>1 DEF DeliveryInv, Queued
      <4> QED BY <2>8, <4>2, <4>3
    <3> QED BY <3>1 DEF Unsent
  <2> QED BY <1>3, <2>3, <2>7, <2>14, <2>16, <2>17, <2>18, <2>19 DEF DeliveryInv, Stages
<1> QED BY <1>5, <1>6

LEMMA HostDropOK ==
  ASSUME DeliveryInv, HostDrop
  PROVE  DeliveryInv'
<1>1. /\ HostLoses /\ queue' = NoQueue /\ UNCHANGED <<vars, cur, anchor, receipts, wanted>>
  BY DEF HostDrop
<1>2. Inv'
  BY <1>1, NextOK DEF DeliveryInv
<1>3. UNCHANGED <<registry, starting, jobs, rec, ledger>> /\ Seen(cur)' = Seen(cur)
  BY <1>1 DEF vars, Seen
<1>4. \A b \in Batches : queue'[b] = {}
  BY <1>1 DEF NoQueue
<1>5. PlacesOK'
  BY <1>1 DEF DeliveryInv, PlacesOK, NoQueue
<1>6. Covered' /\ Queued'
  BY <1>4 DEF Covered, Queued
<1>7. NothingLost' /\ NothingStuck' /\ Unsent' /\ Stages'
  BY <1>1, <1>3 DEF DeliveryInv, NothingLost, NothingStuck, Unsent, Stages
<1> QED BY <1>2, <1>5, <1>6, <1>7 DEF DeliveryInv

LEMMA FlushOK ==
  ASSUME DeliveryInv, Flush
  PROVE  /\ DeliveryInv'
         /\ registry = "open"
         /\ \A b \in Batches : queue'[b] \ queue[b] \subseteq Ready
<1>1. PICK put \in [Ready -> FreeBatches \cup {NoBatch}] :
       LET used == {put[j] : j \in Ready} \ {NoBatch}
       IN \E now \in SUBSET used :
            /\ Evict(jobs, [j \in Jobs |->
                 IF j \notin Ready \/ (j \in Ready /\ put[j] = NoBatch) THEN rec[j]
                 ELSE IF put[j] \in now
                      THEN [rec[j] EXCEPT !.delivery = "recorded"]
                      ELSE [rec[j] EXCEPT !.delivery = "submitted", !.batch = put[j]]])
            /\ queue' = [b \in Batches |-> IF b \in used \ now
                                           THEN {j \in Ready : put[j] = b} ELSE queue[b]]
            /\ receipts' = [receipts EXCEPT ![cur] = @ \cup {j \in Ready : put[j] \in now}]
  BY DEF Flush
<1> DEFINE used == {put[j] : j \in Ready} \ {NoBatch}
           R(now) == [j \in Jobs |->
                 IF j \notin Ready \/ (j \in Ready /\ put[j] = NoBatch) THEN rec[j]
                 ELSE IF put[j] \in now
                      THEN [rec[j] EXCEPT !.delivery = "recorded"]
                      ELSE [rec[j] EXCEPT !.delivery = "submitted", !.batch = put[j]]]
<1>2. PICK now \in SUBSET used :
            /\ Evict(jobs, R(now))
            /\ queue' = [b \in Batches |-> IF b \in used \ now
                                           THEN {j \in Ready : put[j] = b} ELSE queue[b]]
            /\ receipts' = [receipts EXCEPT ![cur] = @ \cup {j \in Ready : put[j] \in now}]
  BY <1>1
<1> DEFINE S == R(now)
           gone == {j \in Ready : put[j] \in now}
<1>3. /\ registry = "open" /\ starting = NoJob /\ wanted' = FALSE
      /\ UNCHANGED <<registry, starting, ledger, proc, thrown, closing, cur, anchor>>
  BY DEF Flush, Idle
<1>4. /\ jobs \in SUBSET Jobs /\ rec \in [Jobs -> JobRecord]
      /\ cur \in Places /\ queue \in [Batches -> SUBSET Jobs]
      /\ receipts \in [Places -> SUBSET Jobs]
  BY DEF DeliveryInv, Inv, TypeOK, PlacesOK
<1>5. ASSUME NEW j \in Ready
      PROVE  /\ j \in jobs /\ j \in Jobs /\ rec[j].phase = "released" /\ rec[j].delivery = "pending"
             /\ rec[j] \in JobRecord /\ rec[j].batch = NoBatch /\ rec[j] # Fresh
             /\ RecordOK(rec[j], proc[j])
             /\ put[j] = NoBatch \/ (put[j] \in FreeBatches /\ put[j] \in used)
  <2>1. j \in jobs /\ rec[j].phase = "released" /\ rec[j].delivery = "pending"
    BY DEF Ready, Undelivered
  <2>2. j \in Jobs /\ rec[j] \in JobRecord /\ StageOK(rec[j])
    BY <1>4, <2>1, RecordFacts
  <2>3. RecordOK(rec[j], proc[j]) /\ rec[j] # Fresh
    BY <2>1, <2>2, JobFacts DEF DeliveryInv
  <2>4. put[j] \in FreeBatches \cup {NoBatch}
    BY <1>1
  <2> QED BY <2>1, <2>2, <2>3, <2>4 DEF StageOK
<1>6. NoBatch \notin used /\ used \subseteq FreeBatches /\ FreeBatches \subseteq Batches
  BY <1>5 DEF FreeBatches
<1>7. ASSUME NEW j \in Jobs
      PROVE  /\ S[j] \in JobRecord /\ StageOK(S[j]) /\ RecordOK(S[j], proc[j])
             /\ j \notin jobs <=> S[j] = Fresh
             /\ S[j].phase = rec[j].phase
             /\ j \notin Ready => S[j] = rec[j]
             /\ j \in Ready => \/ S[j] = rec[j] /\ put[j] = NoBatch
                               \/ S[j].delivery = "recorded" /\ put[j] \in now
                               \/ S[j].delivery = "submitted" /\ S[j].batch = put[j]
                                  /\ put[j] \in used \ now
  <2>1. /\ rec[j] \in JobRecord /\ StageOK(rec[j]) /\ RecordOK(rec[j], proc[j])
        /\ j \notin jobs <=> rec[j] = Fresh
        /\ proc[j] \in Process
    BY RecordFacts, JobFacts DEF DeliveryInv
  <2>2. CASE j \notin Ready \/ put[j] = NoBatch
    BY <2>1, <2>2
  <2>3. CASE j \in Ready /\ put[j] # NoBatch /\ put[j] \in now
    <3>1. S[j] = [rec[j] EXCEPT !.delivery = "recorded"]
      BY <2>3
    <3>2. rec[j].batch = NoBatch /\ rec[j] # Fresh /\ j \in jobs /\ rec[j].phase = "released"
      BY <1>5, <2>3
    <3>3. S[j] = [rec[j] EXCEPT !.delivery = "recorded", !.batch = NoBatch]
      BY <2>1, <3>1, <3>2 DEF JobRecord
    <3>4. "recorded" \in Delivery /\ NoBatch \in Batches \cup {NoBatch}
      BY DEF Delivery
    <3> HIDE DEF S
    <3> DEFINE x == [rec[j] EXCEPT !.delivery = "recorded", !.batch = NoBatch]
    <3>4a. x \in JobRecord /\ RecordOK(x, proc[j]) /\ x # Fresh
      BY <2>1, <3>2, <3>4, MarkOK
    <3>5. S[j] \in JobRecord /\ RecordOK(S[j], proc[j]) /\ S[j] # Fresh
      BY <3>3, <3>4a
    <3>6. S[j].phase = "released" /\ S[j].delivery = "recorded" /\ S[j].batch = NoBatch
      BY <2>1, <3>2, <3>3 DEF JobRecord
    <3>7. StageOK(S[j])
      BY <3>6 DEF StageOK
    <3> QED BY <2>3, <3>2, <3>5, <3>6, <3>7
  <2>4. CASE j \in Ready /\ put[j] # NoBatch /\ put[j] \notin now
    <3>1. S[j] = [rec[j] EXCEPT !.delivery = "submitted", !.batch = put[j]]
      BY <2>4
    <3>2. rec[j].batch = NoBatch /\ rec[j] # Fresh /\ j \in jobs /\ rec[j].phase = "released"
      BY <1>5, <2>4
    <3>3. put[j] \in used \ now /\ put[j] \in Batches
      BY <1>5, <1>6, <2>4
    <3>4. "submitted" \in Delivery /\ put[j] \in Batches \cup {NoBatch}
      BY <3>3 DEF Delivery
    <3> HIDE DEF S
    <3> DEFINE x == [rec[j] EXCEPT !.delivery = "submitted", !.batch = put[j]]
    <3>4a. x \in JobRecord /\ RecordOK(x, proc[j]) /\ x # Fresh
      BY <2>1, <3>2, <3>4, MarkOK
    <3>5. S[j] \in JobRecord /\ RecordOK(S[j], proc[j]) /\ S[j] # Fresh
      BY <3>1, <3>4a
    <3>6. S[j].phase = "released" /\ S[j].delivery = "submitted" /\ S[j].batch = put[j]
      BY <2>1, <3>1, <3>2 DEF JobRecord
    <3>7. StageOK(S[j])
      BY <2>4, <3>6 DEF StageOK
    <3> QED BY <2>4, <3>2, <3>3, <3>5, <3>6, <3>7
  <2> QED BY <2>2, <2>3, <2>4
<1>8. S \in [Jobs -> JobRecord] /\ Evict(jobs, S)
  BY <1>2, <1>7
<1> HIDE DEF S
<1>9. Inv'
  <2>1. jobs \subseteq {k \in Jobs : ledger[k] # NoRow /\ k # starting}
    BY OwnedFacts DEF DeliveryInv
  <2>2. RowsKept
    BY <1>3, SameRows DEF DeliveryInv
  <2> QED BY <1>3, <1>7, <1>8, <2>1, <2>2, BookkeepingStepOK DEF DeliveryInv
<1>10. /\ jobs' \subseteq jobs
       /\ \A j \in Jobs : /\ StageOK(rec'[j])
                          /\ j \in jobs' => rec'[j] = S[j]
                          /\ j \in jobs \ jobs' => /\ S[j].phase = "released"
                                                   /\ S[j].delivery = "recorded"
                          /\ rec'[j] \in {S[j], Fresh}
  BY <1>4, <1>7, <1>8, EvictIs
<1>11. Ready \subseteq Jobs /\ gone \subseteq Ready
  BY <1>5
<1>12. PlacesOK'
  <2>1. queue' \in [Batches -> SUBSET Jobs]
    BY <1>2, <1>4, <1>11
  <2>2. receipts' \in [Places -> SUBSET Jobs]
    BY <1>2, <1>4, <1>11
  <2> QED BY <1>3, <2>1, <2>2 DEF DeliveryInv, PlacesOK
<1>13. \A b \in Batches :
          queue'[b] = IF b \in used \ now THEN {j \in Ready : put[j] = b} ELSE queue[b]
  BY <1>2
<1>14. Seen(cur)' = Seen(cur) \cup gone
  BY <1>2, <1>3, <1>4 DEF Seen, Places
<1>15. \A b \in used : queue[b] = {} /\ Submitted(b) = {}
  BY <1>6 DEF FreeBatches
<1> HIDE DEF used, gone
<1>16. \A j \in Jobs : starting # j
  BY <1>3, JobsAssumption
<1>17. \A j \in jobs : j \in Jobs /\ ledger[j] # NoRow
  BY OwnedFacts DEF DeliveryInv
<1>18. \A j \in jobs : S[j].delivery = "recorded" => j \in Seen(cur)'
  <2>1. ASSUME NEW j \in jobs, S[j].delivery = "recorded" PROVE j \in Seen(cur)'
    <3>1. CASE S[j] = rec[j]
      BY <1>3, <1>14, <1>16, <1>17, <2>1, <3>1 DEF DeliveryInv, NothingLost
    <3>2. CASE S[j] # rec[j]
      <4>1. j \in Ready /\ put[j] \in now
        BY <1>7, <1>17, <2>1, <3>2
      <4> QED BY <1>14, <4>1 DEF gone
    <3> QED BY <3>1, <3>2
  <2> QED BY <2>1
<1>19. \A j \in Jobs : rec'[j].delivery = "recorded" => j \in jobs'
  <2>1. \A j \in Jobs : j \notin jobs' => rec'[j] = Fresh
    BY <1>9 DEF Inv, SafeInv
  <2> QED BY <2>1 DEF Fresh
<1>20. NothingLost'
  <2>1. ASSUME NEW j \in Jobs, ledger[j] # NoRow, j \notin jobs' PROVE j \in Seen(cur)'
    <3>1. CASE j \in jobs
      BY <1>10, <1>18, <2>1, <3>1
    <3>2. CASE j \notin jobs
      BY <1>3, <1>14, <1>16, <2>1, <3>2 DEF DeliveryInv, NothingLost
    <3> QED BY <3>1, <3>2
  <2>2. ASSUME NEW j \in Jobs, rec'[j].delivery = "recorded" PROVE j \in Seen(cur)'
    BY <1>10, <1>18, <1>19, <2>2
  <2> QED BY <1>3, <2>1, <2>2 DEF NothingLost
<1>21. ASSUME NEW j \in jobs', rec'[j].delivery = "submitted"
       PROVE  /\ rec'[j].batch \in Batches
              /\ \/ /\ rec[j] = rec'[j] /\ j \in jobs /\ rec'[j].batch \notin used
                 \/ /\ j \in Ready /\ rec'[j].batch = put[j] /\ put[j] \in used \ now
  <2>1. j \in jobs /\ j \in Jobs /\ rec'[j] = S[j]
    BY <1>10, <1>17
  <2>2. rec'[j].batch \in Batches
    BY <1>7, <1>21, <2>1 DEF StageOK, JobRecord
  <2>3. CASE S[j] = rec[j]
    <3>1. j \in Submitted(rec[j].batch)
      BY <1>21, <2>1, <2>3 DEF Submitted
    <3> QED BY <1>15, <2>1, <2>2, <2>3, <3>1
  <2>4. CASE S[j] # rec[j]
    BY <1>7, <1>21, <2>1, <2>2, <2>4
  <2> QED BY <2>3, <2>4
<1>22. NothingStuck'
  <2>1. ASSUME ~HostLoses, NEW j \in jobs', rec'[j].delivery = "submitted"
        PROVE  j \in queue'[rec'[j].batch]
    <3> DEFINE c == rec'[j].batch
    <3>1. /\ c \in Batches
          /\ \/ rec[j] = rec'[j] /\ j \in jobs /\ c \notin used
             \/ j \in Ready /\ c = put[j] /\ put[j] \in used \ now
      BY <1>21, <2>1
    <3>2. CASE rec[j] = rec'[j] /\ j \in jobs /\ c \notin used
      <4>1. j \in queue[c]
        BY <1>3, <2>1, <3>2 DEF DeliveryInv, NothingStuck
      <4> HIDE DEF c
      <4>2. queue'[c] = queue[c]
        BY <1>13, <3>1, <3>2
      <4> QED BY <4>1, <4>2 DEF c
    <3>3. CASE j \in Ready /\ c = put[j] /\ put[j] \in used \ now
      <4> HIDE DEF c
      <4>1. queue'[c] = {i \in Ready : put[i] = c}
        BY <1>13, <3>1, <3>3
      <4>2. j \in queue'[c]
        BY <3>3, <4>1
      <4> QED BY <4>2 DEF c
    <3> QED BY <3>1, <3>2, <3>3
  <2> QED BY <2>1 DEF NothingStuck
<1>23. Covered'
  <2>1. ASSUME NEW c \in Batches, queue'[c] # {}, NEW j \in jobs', rec'[j].delivery = "submitted",
               rec'[j].batch = c
        PROVE  j \in queue'[c]
    <3>1. CASE rec[j] = rec'[j] /\ j \in jobs /\ c \notin used
      <4>1. j \in Submitted(c) /\ queue'[c] = queue[c]
        BY <1>13, <2>1, <3>1 DEF Submitted
      <4> QED BY <2>1, <4>1 DEF DeliveryInv, Covered
    <3>2. CASE j \in Ready /\ c = put[j] /\ put[j] \in used \ now
      BY <1>13, <3>2
    <3> QED BY <1>21, <2>1, <3>1, <3>2
  <2> QED BY <2>1 DEF Covered, Submitted
<1>24. Queued'
  <2>1. ASSUME ~QueueSurvives, NEW b \in Batches, NEW j \in queue'[b]
        PROVE  /\ ledger[j] # NoRow /\ starting # j
               /\ j \in jobs' => /\ rec'[j].phase = "released"
                                 /\ \/ rec'[j].delivery = "recorded"
                                    \/ rec'[j].delivery = "submitted" /\ rec'[j].batch = b
    <3>1. CASE b \in used \ now
      <4>1. j \in Ready /\ put[j] = b /\ b # NoBatch /\ b \notin now
        <5>1. queue'[b] = {i \in Ready : put[i] = b}
          BY <1>13, <3>1
        <5> QED BY <1>6, <2>1, <3>1, <5>1
      <4>2. j \in jobs /\ j \in Jobs /\ rec[j].phase = "released"
        BY <1>5, <4>1
      <4>3. S[j].phase = "released" /\ S[j].delivery = "submitted" /\ S[j].batch = b
        BY <1>7, <4>1, <4>2
      <4> QED BY <1>10, <1>16, <1>17, <4>2, <4>3
    <3>2. CASE b \notin used \ now
      <4>1. j \in queue[b] /\ j \in Jobs
        BY <1>4, <1>13, <3>2
      <4>2. /\ ledger[j] # NoRow /\ starting # j
            /\ j \in jobs => /\ rec[j].phase = "released"
                             /\ \/ rec[j].delivery = "recorded"
                                \/ rec[j].delivery = "submitted" /\ rec[j].batch = b
        BY <2>1, <4>1 DEF DeliveryInv, Queued
      <4>3. j \notin Ready
        BY <1>5, <4>2
      <4> QED BY <1>7, <1>10, <4>1, <4>2, <4>3
    <3> QED BY <3>1, <3>2
  <2> QED BY <1>3, <2>1 DEF Queued
<1>25. Unsent'
  <2>1. ASSUME ~QueueSurvives, NEW j \in jobs', rec'[j].phase = "released",
               rec'[j].delivery = "pending"
        PROVE  j \notin Seen(cur)'
    <3>1. j \in jobs /\ j \in Jobs /\ rec'[j] = S[j]
      BY <1>10, <1>17
    <3>2. S[j] = rec[j] /\ (j \in Ready => put[j] = NoBatch)
      BY <1>7, <2>1, <3>1
    <3>3. j \notin Seen(cur)
      BY <1>3, <2>1, <3>1, <3>2 DEF DeliveryInv, Unsent
    <3>4. j \notin gone
      BY <1>2, <1>6, <3>2 DEF gone, used
    <3> QED BY <1>14, <3>3, <3>4
  <2> QED BY <2>1 DEF Unsent
<1>26. \A b \in Batches : queue'[b] \ queue[b] \subseteq Ready
  BY <1>13
<1> QED BY <1>3, <1>9, <1>10, <1>12, <1>20, <1>22, <1>23, <1>24, <1>25, <1>26
       DEF DeliveryInv, Stages

LEMMA CloseSessionOK ==
  ASSUME DeliveryInv, CloseSession
  PROVE  DeliveryInv'
<1>1. /\ Dispose /\ wanted' = FALSE
      /\ queue' = (IF QueueSurvives THEN queue ELSE NoQueue)
      /\ UNCHANGED <<cur, anchor, receipts>>
  BY DEF CloseSession
<1>2. /\ registry' = "closed" /\ UNCHANGED jobs
      /\ rec' = [j \in Jobs |->
           IF j \notin jobs \/ rec[j].phase # "collecting" THEN rec[j]
           ELSE [Stopping(rec[j]) EXCEPT !.timers = Stopping(rec[j]).timers \cup {"grace"}]]
  BY <1>1 DEF Dispose
<1>3. Inv'
  BY <1>1, DisposeOK DEF DeliveryInv
<1>4. PlacesOK'
  BY <1>1 DEF DeliveryInv, PlacesOK, NoQueue
<1>5. ASSUME NEW j \in Jobs
      PROVE  /\ StageOK(rec'[j])
             /\ rec'[j].delivery = rec[j].delivery /\ rec'[j].batch = rec[j].batch
  <2>1. rec[j] \in JobRecord /\ StageOK(rec[j])
    BY RecordFacts
  <2> DEFINE s == Stopping(rec[j])
  <2>2. /\ s.phase = rec[j].phase /\ s.delivery = rec[j].delivery
        /\ s.batch = rec[j].batch /\ s \in JobRecord
    BY <2>1, StoppingStage
  <2>3. rec'[j] = rec[j] \/ rec'[j] = [s EXCEPT !.timers = s.timers \cup {"grace"}]
    BY <1>2
  <2> HIDE DEF s
  <2>4. /\ rec'[j].phase = rec[j].phase /\ rec'[j].delivery = rec[j].delivery
        /\ rec'[j].batch = rec[j].batch
    BY <2>2, <2>3 DEF JobRecord
  <2> QED BY <2>1, <2>4 DEF StageOK
<1>6. \A b \in Batches : Submitted(b)' \subseteq Submitted(b)
  <2>1. jobs \subseteq Jobs
    BY DEF DeliveryInv, Inv, TypeOK
  <2> QED BY <1>2, <1>5, <2>1 DEF Submitted
<1>7. /\ \A b \in Batches : queue'[b] = {} \/ queue'[b] = queue[b]
      /\ ~QueueSurvives => \A b \in Batches : queue'[b] = {}
  BY <1>1 DEF NoQueue
<1> QED BY <1>2, <1>3, <1>4, <1>5, <1>6, <1>7, ClosedStepOK

LEMMA LeaveSessionOK ==
  ASSUME DeliveryInv, SessionClosed \/ HostCrash
  PROVE  DeliveryInv'
<1>1. Inv'
  BY LeaveOK DEF DeliveryInv, SessionClosed, HostCrash
<1>2. /\ registry' = "absent" /\ registry # "absent" /\ jobs' = {} /\ rec' = [j \in Jobs |-> Fresh]
      /\ UNCHANGED <<cur, anchor, receipts>>
  BY DEF SessionClosed, HostCrash, DisposeEnds, Crash
<1>3. \/ registry = "closed" /\ UNCHANGED <<queue, wanted>>
      \/ queue' = NoQueue /\ wanted' = FALSE
  BY DEF SessionClosed, HostCrash, DisposeEnds
<1>4. PlacesOK'
  BY <1>2, <1>3 DEF DeliveryInv, PlacesOK, NoQueue
<1>5. \A j \in Jobs : StageOK(rec'[j])
  BY <1>2, FreshStage
<1>6. \A b \in Batches : Submitted(b)' \subseteq Submitted(b)
  BY <1>2 DEF Submitted
<1>7. /\ \A b \in Batches : queue'[b] = {} \/ queue'[b] = queue[b]
      /\ ~QueueSurvives => \A b \in Batches : queue'[b] = {}
  BY <1>3 DEF NoQueue, DeliveryInv, Queued
<1> QED BY <1>1, <1>2, <1>4, <1>5, <1>6, <1>7, ClosedStepOK
-----------------------------------------------------------------------------
LEMMA DeliveryInitOK == DeliveryInit => DeliveryInv
<1> SUFFICES ASSUME DeliveryInit PROVE DeliveryInv
  OBVIOUS
<1>1. Inv
  BY InitOK DEF DeliveryInit
<1>2. PlacesOK
  BY DEF DeliveryInit, PlacesOK, Places, NoQueue
<1>3. Stages
  BY FreshStage DEF DeliveryInit, Init, Stages
<1>4. Covered /\ Queued
  BY DEF DeliveryInit, NoQueue, Covered, Queued
<1>5. NothingLost /\ NothingStuck /\ Unsent
  BY DEF DeliveryInit, Init, NothingLost, NothingStuck, Unsent
<1> QED BY <1>1, <1>2, <1>3, <1>4, <1>5 DEF DeliveryInv

LEMMA DeliveryStutterOK ==
  ASSUME DeliveryInv, UNCHANGED deliveryVars
  PROVE  DeliveryInv'
<1>1. UNCHANGED <<vars, cur, anchor, receipts, queue, wanted>>
  BY DEF deliveryVars
<1>2. Inv'
  BY <1>1, NextOK DEF DeliveryInv
<1>3. UNCHANGED <<registry, starting, jobs, rec, ledger>>
  BY <1>1 DEF vars
<1>4. PlacesOK' /\ Stages' /\ Covered' /\ NothingLost' /\ NothingStuck' /\ Queued' /\ Unsent'
  BY <1>1, <1>3 DEF DeliveryInv, PlacesOK, Stages, Covered, Submitted, NothingLost, NothingStuck,
                    Queued, Unsent, Seen
<1> QED BY <1>2, <1>4 DEF DeliveryInv

LEMMA DeliveryNextOK == DeliveryInv /\ [DeliveryNext]_deliveryVars => DeliveryInv'
<1> SUFFICES ASSUME DeliveryInv, [DeliveryNext]_deliveryVars PROVE DeliveryInv'
  OBVIOUS
<1>1. ASSUME NEW j \in Jobs, Work(j) PROVE DeliveryInv'
  BY <1>1, StartHereOK, SpawnQuietOK, ObserveOK, ReleaseAndReportOK, UnfinishedOK DEF Work
<1>2. CASE OpenSession \/ CloseSession \/ SessionClosed \/ HostCrash
  BY <1>2, OpenSessionOK, CloseSessionOK, LeaveSessionOK
<1>3. CASE AgentEvent \/ Flush \/ HostDrop
  BY <1>3, AgentEventOK, FlushOK, HostDropOK
<1>4. ASSUME NEW p \in Branches, Navigate(p) PROVE DeliveryInv'
  BY <1>4, NavigateOK
<1>5. ASSUME NEW b \in Batches, HostAppend(b) PROVE DeliveryInv'
  BY <1>5, HostAppendOK
<1> QED BY <1>1, <1>2, <1>3, <1>4, <1>5, DeliveryStutterOK DEF DeliveryNext

(* The registry, the host's queue and the receipts of the conversation keep  *)
(* DeliveryInv for any commands, batches, branches and limits, whether or    *)
(* not the host loses messages or carries them over.                         *)
THEOREM DeliveryInvariant == DeliverySpec => []DeliveryInv
<1>1. DeliveryInit => DeliveryInv
  BY DeliveryInitOK
<1>2. DeliveryInv /\ [DeliveryNext]_deliveryVars => DeliveryInv'
  BY DeliveryNextOK
<1> QED BY <1>1, <1>2, PTL DEF DeliverySpec

(* Whatever a serving registry no longer owes the current branch has its     *)
(* receipt there (markRecorded, reconcileRecorded, #evict).                  *)
THEOREM NothingIsLost == DeliverySpec => []NothingLost
<1>1. DeliveryInv => NothingLost
  BY DEF DeliveryInv
<1> QED BY <1>1, DeliveryInvariant, PTL

(* A submitted result is in the host's queue under its batch, as long as the *)
(* host loses nothing (markSubmitted, requeue, reconcileRecorded).           *)
THEOREM NothingStaysStuck == DeliverySpec => []NothingStuck
<1>1. DeliveryInv => NothingStuck
  BY DEF DeliveryInv
<1> QED BY <1>1, DeliveryInvariant, PTL

(* Only a flush puts anything into the queue.                                *)
LEMMA OnlyFlushSends ==
  ASSUME DeliveryInv, [DeliveryNext]_deliveryVars, NEW j \in Jobs, NEW b \in Batches,
         j \in queue'[b] \ queue[b]
  PROVE  registry = "open" /\ j \in Ready
<1>1. queue' # queue
  OBVIOUS
<1>2. ASSUME NEW k \in Jobs, Work(k) PROVE FALSE
  BY <1>1, <1>2 DEF Work, StartHere, SpawnQuiet, Observe, ReleaseAndReport, Unfinished
<1>3. CASE OpenSession \/ SessionClosed \/ AgentEvent \/ UNCHANGED deliveryVars
  BY <1>1, <1>3 DEF OpenSession, SessionClosed, AgentEvent, deliveryVars
<1>4. CASE CloseSession \/ HostCrash \/ HostDrop
  BY <1>1, <1>4 DEF CloseSession, HostCrash, HostDrop, NoQueue
<1>5. ASSUME NEW p \in Branches, Navigate(p) PROVE FALSE
  BY <1>1, <1>5 DEF Navigate, NoQueue
<1>6. ASSUME NEW c \in Batches, HostAppend(c) PROVE FALSE
  <2>1. queue' = [queue EXCEPT ![c] = {}] /\ queue \in [Batches -> SUBSET Jobs]
    BY <1>6 DEF HostAppend, DeliveryInv, PlacesOK
  <2> QED BY <2>1
<1>7. CASE Flush
  BY <1>7, FlushOK
<1> QED BY <1>2, <1>3, <1>4, <1>5, <1>6, <1>7 DEF DeliveryNext

(* A result whose receipt is on the current branch is not sent there again,  *)
(* whatever is evicted, restored or crashes, provided the host does not      *)
(* carry a queued message over a navigation or a reload.                     *)
THEOREM NothingIsRepeated ==
  ASSUME ~QueueSurvives
  PROVE  DeliverySpec => NoRepeat
<1>1. ASSUME DeliveryInv, [DeliveryNext]_deliveryVars, ~QueueSurvives
      PROVE  [\A j \in Jobs :
                 (\E b \in Batches : j \in queue'[b] \ queue[b]) => j \notin Seen(cur)]_deliveryVars
  <2>1. ASSUME NEW j \in Jobs, NEW b \in Batches, j \in queue'[b] \ queue[b]
        PROVE  j \notin Seen(cur)
    <3>1. registry = "open" /\ j \in Ready
      BY <1>1, <2>1, OnlyFlushSends
    <3> QED BY <1>1, <3>1 DEF Ready, Undelivered, DeliveryInv, Unsent
  <2> QED BY <2>1
<1> QED BY <1>1, DeliveryInvariant, PTL DEF DeliverySpec, NoRepeat
-----------------------------------------------------------------------------
(* The composition keeps the promise of CommandRecord.                       *)

(* Holding receipts against records touches delivery and nothing else.       *)
LEMMA MatchedKeeps ==
  ASSUME NEW js, NEW r \in [Jobs -> JobRecord], NEW ids, NEW k \in Jobs
  PROVE  /\ Matched(js, r, ids)[k].phase = r[k].phase
         /\ Matched(js, r, ids)[k].status = r[k].status
         /\ Matched(js, r, ids)[k].handle = r[k].handle
<1>1. Matched(js, r, ids)[k] = IF k \in js THEN Reconciled(r[k], k, ids, FALSE) ELSE r[k]
  BY DEF Matched
<1>2. r[k] \in JobRecord
  OBVIOUS
<1>3. CASE k \in js
  <2>1. Matched(js, r, ids)[k] = Reconciled(r[k], k, ids, FALSE)
    BY <1>1, <1>3
  <2>2. Matched(js, r, ids)[k]
          \in {r[k], [r[k] EXCEPT !.delivery = "recorded", !.batch = NoBatch],
              [r[k] EXCEPT !.delivery = "pending", !.batch = NoBatch]}
    BY <2>1 DEF Reconciled
  <2> QED BY <1>2, <2>2 DEF JobRecord
<1>4. CASE k \notin js
  <2>1. Matched(js, r, ids)[k] = r[k]
    BY <1>1, <1>4
  <2> QED BY <2>1, Zenon
<1> QED BY <1>3, <1>4

LEMMA OpenSessionGood == ASSUME Durable, OpenSession PROVE Good
<1> DEFINE rows == {j \in Jobs : ledger[j] # NoRow}
           r == [j \in Jobs |-> IF j \in rows THEN Restored(ledger[j]) ELSE Fresh]
           M == Matched(rows, r, Seen(cur))
<1>1. /\ registry = "absent" /\ registry' = "open" /\ Evict(rows, M)
      /\ UNCHANGED <<starting, ledger, proc, thrown, closing>>
  BY DEF OpenSession
<1>2. jobs = {}
  BY <1>1 DEF Durable, SettledIsReleased
<1>3. \A k \in Jobs : /\ r[k] \in JobRecord /\ r[k].handle = "none"
                      /\ k \in rows => r[k].phase = "released"
  <2> TAKE k \in Jobs
  <2>1. CASE k \in rows
    <3>1. r[k] = Restored(ledger[k]) /\ ledger[k] \in Row /\ RowOK(k)
      BY <2>1, JobFacts DEF Durable
    <3>2. r[k] \in JobRecord
      BY <2>1, <3>1, JobFacts, RestoredOK DEF Durable, RowOK
    <3> QED BY <3>1, <3>2 DEF Restored, Fresh
  <2>2. CASE k \notin rows
    BY <2>2, FreshOK DEF Fresh
  <2> QED BY <2>1, <2>2
<1>4. r \in [Jobs -> JobRecord]
  BY <1>3
<1> HIDE DEF r
<1>5. \A k \in Jobs : M[k].phase = r[k].phase /\ M[k].handle = r[k].handle
  BY <1>4, MatchedKeeps
<1> HIDE DEF M
<1>6. /\ jobs' \subseteq rows
      /\ \A k \in Jobs : /\ k \in jobs' => rec'[k] = M[k]
                         /\ M[k].handle = "none" => rec'[k].handle = "none"
  BY <1>1, EvictKeeps
<1>7. ASSUME NEW k \in Jobs
      PROVE  /\ AnswerKept(k)
             /\ k \in jobs' /\ rec'[k].phase # "released" => ~ledger[k].settled
             /\ k \in thrown => rec'[k].handle = "none"
  <2>1. k \in jobs' => rec'[k].phase = "released"
    BY <1>3, <1>5, <1>6
  <2>2. rec'[k].handle = "none"
    BY <1>3, <1>5, <1>6
  <2> QED BY <1>2, <2>1, <2>2 DEF AnswerKept
<1> QED BY <1>1, <1>6, <1>7, SameLedger, QuietOK

(* A release and the pass over the receipts that it announces.               *)
LEMMA ReleaseAndReportGood ==
  ASSUME Durable, NEW j \in Jobs, ReleaseAndReport(j)
  PROVE  Good
<1> DEFINE x == Released(rec[j])
           r == [rec EXCEPT ![j] = x]
           M == IF registry = "open" THEN Matched(jobs, r, Seen(cur)) ELSE r
<1>1. /\ registry # "absent" /\ rec[j].phase = "draining" /\ rec[j] \in JobRecord
      /\ Save(j, x.status, TRUE) /\ Evict(jobs, M)
      /\ UNCHANGED <<registry, proc, thrown, closing>>
  BY JobFacts DEF ReleaseAndReport, Idle, Durable
<1>2. j \in jobs /\ jobs \subseteq Jobs
  BY <1>1, JobFacts DEF Fresh, Durable, Inv, TypeOK
<1>3. ledger[j] # NoRow /\ ~ledger[j].settled
  BY <1>1, <1>2, OwnedFacts DEF Durable, SettledIsReleased
<1>4. RecordOK(rec[j], proc[j])
  BY JobFacts DEF Durable
<1>5. rec[j].status \in Results /\ Record!Truthful(rec[j].status, Fate(proc[j]))
  BY <1>1, <1>4 DEF RecordOK, JobRecord
<1>6. /\ x \in JobRecord /\ x.phase = "released" /\ x.handle = rec[j].handle
      /\ x.status \in {rec[j].status, "unknown"}
  BY <1>1 DEF Released, JobRecord, Results
<1>7. x.status \in Results /\ Record!Truthful(x.status, Fate(proc[j]))
  BY <1>5, <1>6 DEF Results, Record!Truthful
<1>8. /\ [Record!Next]_(Record!recordVars)
      /\ \A k \in Jobs \ {j} : ledger'[k] = ledger[k]
  BY <1>1, <1>3, <1>7, ResultSaved
<1> HIDE DEF x
<1>9. r \in [Jobs -> JobRecord] /\ \A k \in Jobs : r[k] = IF k = j THEN x ELSE rec[k]
  BY <1>6 DEF Durable, Inv, TypeOK
<1> HIDE DEF r
<1>10. \A k \in Jobs : /\ M[k].phase = r[k].phase /\ M[k].status = r[k].status
                       /\ M[k].handle = r[k].handle
  BY <1>9, MatchedKeeps
<1> HIDE DEF M
<1>11. /\ jobs' \subseteq jobs
       /\ \A k \in Jobs : /\ k \in jobs' => rec'[k] = M[k]
                          /\ M[k].handle = "none" => rec'[k].handle = "none"
  BY <1>1, EvictKeeps
<1>12. j \notin closing
  <2>1. rec[j].phase # "released" /\ rec[j] # Fresh
    BY <1>1 DEF Fresh
  <2>2. rec[j].handle # "none"
    BY <1>4, <2>1 DEF RecordOK
  <2> QED BY <2>2 DEF Durable, SettledIsReleased, Inv, TypeOK
<1>13. SettledIsReleased'
  <2>1. \A k \in thrown : rec'[k].handle = "none"
    <3> TAKE k \in thrown
    <3>1. k \in Jobs /\ rec[k].handle = "none"
      BY DEF Durable, SettledIsReleased, Inv, TypeOK
    <3>2. M[k].handle = "none"
      BY <1>6, <1>9, <1>10, <3>1
    <3> QED BY <1>11, <3>1, <3>2
  <2>2. \A k \in jobs' : rec'[k].phase # "released" => ~ledger'[k].settled
    <3> TAKE k \in jobs'
    <3>1. k \in Jobs /\ k \in jobs /\ rec'[k].phase = r[k].phase
      BY <1>2, <1>10, <1>11
    <3>2. CASE k = j
      BY <1>6, <1>9, <3>1, <3>2
    <3>3. CASE k # j
      BY <1>8, <1>9, <3>1, <3>3 DEF Durable, SettledIsReleased
    <3> QED BY <3>2, <3>3
  <2>3. \A k \in closing : ~ledger'[k].settled
    BY <1>8, <1>12 DEF Durable, SettledIsReleased, Inv, TypeOK
  <2> QED BY <1>1, <2>1, <2>2, <2>3 DEF SettledIsReleased
<1>14. \A k \in Jobs : AnswerKept(k)
  <2> SUFFICES ASSUME NEW k \in Jobs, k \in jobs \cap jobs', rec[k].phase = "released"
               PROVE  rec'[k].phase = "released" /\ rec'[k].status = rec[k].status
    BY DEF AnswerKept
  <2>1. k # j /\ r[k] = rec[k]
    BY <1>1, <1>9
  <2> QED BY <1>10, <1>11, <2>1
<1> QED BY <1>8, <1>13, <1>14 DEF Good

(* A flush relabels released records, whatever the host answers.             *)
LEMMA FlushGood == ASSUME Durable, Flush PROVE Good
<1>1. PICK put \in [Ready -> FreeBatches \cup {NoBatch}] :
       LET used == {put[j] : j \in Ready} \ {NoBatch}
       IN \E now \in SUBSET used :
            /\ Evict(jobs, [j \in Jobs |->
                 IF j \notin Ready \/ (j \in Ready /\ put[j] = NoBatch) THEN rec[j]
                 ELSE IF put[j] \in now
                      THEN [rec[j] EXCEPT !.delivery = "recorded"]
                      ELSE [rec[j] EXCEPT !.delivery = "submitted", !.batch = put[j]]])
            /\ queue' = [b \in Batches |-> IF b \in used \ now
                                           THEN {j \in Ready : put[j] = b} ELSE queue[b]]
            /\ receipts' = [receipts EXCEPT ![cur] = @ \cup {j \in Ready : put[j] \in now}]
  BY DEF Flush
<1> DEFINE used == {put[j] : j \in Ready} \ {NoBatch}
           R(now) == [j \in Jobs |->
                 IF j \notin Ready \/ (j \in Ready /\ put[j] = NoBatch) THEN rec[j]
                 ELSE IF put[j] \in now
                      THEN [rec[j] EXCEPT !.delivery = "recorded"]
                      ELSE [rec[j] EXCEPT !.delivery = "submitted", !.batch = put[j]]]
<1>2. PICK now \in SUBSET used :
            /\ Evict(jobs, R(now))
            /\ queue' = [b \in Batches |-> IF b \in used \ now
                                           THEN {j \in Ready : put[j] = b} ELSE queue[b]]
            /\ receipts' = [receipts EXCEPT ![cur] = @ \cup {j \in Ready : put[j] \in now}]
  BY <1>1
<1> DEFINE S == R(now)
<1>3. /\ registry # "absent" /\ jobs \in SUBSET Jobs
      /\ UNCHANGED <<registry, ledger, proc, thrown, closing>>
  BY DEF Flush, Idle, Durable, Inv, TypeOK
<1>4. \A k \in Jobs : /\ S[k].phase = rec[k].phase /\ S[k].status = rec[k].status
                      /\ S[k].handle = rec[k].handle
  <2> TAKE k \in Jobs
  <2>1. rec[k] \in JobRecord
    BY DEF Durable, Inv, TypeOK
  <2>2. S[k] \in {rec[k], [rec[k] EXCEPT !.delivery = "recorded"],
                  [rec[k] EXCEPT !.delivery = "submitted", !.batch = put[k]]}
    OBVIOUS
  <2> HIDE DEF R
  <2> QED BY <2>1, <2>2 DEF JobRecord
<1> HIDE DEF R
<1>5. \A k \in Jobs : /\ k \in jobs /\ S[k].phase # "released" => ~ledger[k].settled
                      /\ k \in jobs /\ rec[k].phase = "released" =>
                           S[k].phase = "released" /\ S[k].status = rec[k].status
                      /\ k \in thrown => S[k].handle = "none"
  BY <1>4 DEF Durable, SettledIsReleased
<1> QED BY <1>2, <1>3, <1>5, EvictGood

(* Passes over the receipts and appends are bookkeeping of the registry.     *)
LEMMA PassGood ==
  ASSUME Durable, DeliveryInv,
         \/ AgentEvent
         \/ \E p \in Branches : Navigate(p) /\ registry = "open"
         \/ \E b \in Batches : HostAppend(b) /\ registry = "open"
  PROVE  Good
<1>1. \A p \in Places : Seen(p) \in SUBSET Jobs
  BY DEF DeliveryInv, PlacesOK, Seen, Places
<1>2. CASE AgentEvent
  <2>1. Idle /\ ReconcileRecorded(Seen(cur), FALSE) /\ cur \in Places
    BY <1>2 DEF AgentEvent, DeliveryInv, PlacesOK
  <2> QED BY <1>1, <2>1, BookkeepingGood DEF Bookkeeping
<1>3. ASSUME NEW p \in Branches, Navigate(p), registry = "open" PROVE Good
  <2>1. Idle /\ ReconcileRecorded(Seen(p), TRUE) /\ p \in Places
    BY <1>3 DEF Navigate, Places
  <2> QED BY <1>1, <2>1, BookkeepingGood DEF Bookkeeping
<1>4. ASSUME NEW b \in Batches, HostAppend(b), registry = "open" PROVE Good
  <2>1. Idle /\ MarkRecorded(b)
    BY <1>4 DEF HostAppend, Idle
  <2> QED BY <2>1, BookkeepingGood DEF Bookkeeping
<1> QED BY <1>2, <1>3, <1>4

LEMMA RegistryStillGood == ASSUME Durable, UNCHANGED vars PROVE Good
BY NextGood

LEMMA DeliveryGood ==
  ASSUME Durable, DeliveryInv, [DeliveryNext]_deliveryVars
  PROVE  Good
<1>1. ASSUME NEW j \in Jobs, Work(j) PROVE Good
  BY <1>1, StartIntentGood, StartSpawnGood, ShellExitsGood, ExitEventGood, CloseEventGood,
     ReleaseAndReportGood, GraceFiresGood, SweepAttemptGood
     DEF Work, StartHere, SpawnQuiet, Observe, Unfinished
<1>2. CASE OpenSession \/ CloseSession \/ SessionClosed \/ HostCrash
  BY <1>2, OpenSessionGood, DisposeGood, LeaveGood DEF CloseSession, SessionClosed, HostCrash
<1>3. CASE AgentEvent \/ Flush
  BY <1>3, PassGood, FlushGood
<1>4. CASE HostDrop \/ UNCHANGED deliveryVars
  <2>1. UNCHANGED vars
    BY <1>4 DEF HostDrop, deliveryVars
  <2> QED BY <2>1, RegistryStillGood
<1>5. ASSUME NEW p \in Branches, Navigate(p) PROVE Good
  <2>1. CASE registry = "open"
    BY <1>5, <2>1, PassGood
  <2>2. CASE registry # "open"
    <3>1. UNCHANGED vars
      BY <1>5, <2>2 DEF Navigate
    <3> QED BY <3>1, RegistryStillGood
  <2> QED BY <2>1, <2>2
<1>6. ASSUME NEW b \in Batches, HostAppend(b) PROVE Good
  <2>1. CASE registry = "open"
    BY <1>6, <2>1, PassGood
  <2>2. CASE registry # "open"
    <3>1. UNCHANGED vars
      BY <1>6, <2>2 DEF HostAppend
    <3> QED BY <3>1, RegistryStillGood
  <2> QED BY <2>1, <2>2
<1> QED BY <1>1, <1>2, <1>3, <1>4, <1>5, <1>6 DEF DeliveryNext

LEMMA DeliveryDurable == DeliverySpec => [](Durable /\ DeliveryInv)
<1>1. DeliveryInit => Durable /\ DeliveryInv
  BY DeliveryInitOK, InitGood DEF DeliveryInit, DeliveryInv, Durable
<1>2. (Durable /\ DeliveryInv) /\ [DeliveryNext]_deliveryVars => (Durable /\ DeliveryInv)'
  <2> SUFFICES ASSUME Durable, DeliveryInv, [DeliveryNext]_deliveryVars
               PROVE  (Durable /\ DeliveryInv)'
    OBVIOUS
  <2>1. DeliveryInv'
    BY DeliveryNextOK
  <2>2. SettledIsReleased'
    BY DeliveryGood DEF Good
  <2> QED BY <2>1, <2>2 DEF Durable, DeliveryInv
<1> QED BY <1>1, <1>2, PTL DEF DeliverySpec

(* Delivery over the registry still implements CommandRecord: no pass over   *)
(* the receipts, batch, append, navigation or reload makes a command run     *)
(* twice or gives it another last word than its first settled row.           *)
THEOREM DeliveryKeepsThePromise == DeliverySpec => ImplementsRecord
<1>1. DeliveryInit => Record!Init
  BY InitGood DEF DeliveryInit
<1>2. (Durable /\ DeliveryInv) /\ [DeliveryNext]_deliveryVars
        => [Record!Next]_(Record!recordVars)
  BY DeliveryGood DEF Good
<1> QED BY <1>1, <1>2, DeliveryDurable, PTL DEF DeliverySpec, ImplementsRecord, Record!Spec

(* What was announced stays the answer: no step of the delivery changes the  *)
(* status of a released command that is still in the map.                    *)
THEOREM DeliveredAnswersAreFinal == DeliverySpec => AnswerIsFinal
<1>1. (Durable /\ DeliveryInv) /\ [DeliveryNext]_deliveryVars =>
        [\A j \in jobs \cap jobs' : rec[j].phase = "released" =>
           /\ rec'[j].phase = "released"
           /\ rec'[j].status = rec[j].status]_vars
  BY DeliveryGood DEF Good, AnswerKept, Durable, Inv, TypeOK
<1> QED BY <1>1, DeliveryDurable, PTL DEF DeliverySpec, AnswerIsFinal
=============================================================================
