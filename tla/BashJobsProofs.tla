--------------------------- MODULE BashJobsProofs ---------------------------
(***************************************************************************)
(* Theorems about the background Bash registry (BashJobs), for every set of  *)
(* jobs and batches and every value of its limits. TypeOK and SafeInv are    *)
(* inductive together; the safety properties follow from them. With          *)
(* SettledIsReleased they also show that the registry keeps the promise of   *)
(* CommandRecord.                                                            *)
(***************************************************************************)
EXTENDS BashJobs, TLAPS

Inv == TypeOK /\ SafeInv
-----------------------------------------------------------------------------
(* Records, one at a time.                                                   *)

LEMMA FreshOK ==
  /\ Fresh \in JobRecord
  /\ \A p \in Process : RecordOK(Fresh, p)
BY JobsAssumption
DEF Fresh, JobRecord, RecordOK, Active, Results, Exits, Timers, Delivery, GroupAlive

LEMMA RestoredOK ==
  ASSUME NEW row \in Row, NEW p \in Process,
         row.settled => Record!Truthful(row.status, Fate(p))
  PROVE  /\ Restored(row) \in JobRecord
         /\ RecordOK(Restored(row), p)
         /\ Restored(row) # Fresh
<1> DEFINE s == IF row.settled THEN row.status ELSE "unknown"
<1>1. s \in Results /\ Record!Truthful(s, Fate(p))
  BY DEF Record!Truthful, Results
<1>2. s \notin Active
  BY <1>1 DEF Results, Active
<1>3. Restored(row) = [Fresh EXCEPT !.status = s, !.phase = "released",
                                   !.delivery = "pending"]
  BY DEF Restored
<1> HIDE DEF s
<1>7. Restored(row) =
        [status |-> s, phase |-> "released", handle |-> "none",
         told |-> "nothing", exit |-> "none", timers |-> {}, timedOut |-> FALSE,
         spawnFailed |-> FALSE, unconfirmed |-> FALSE, sweep |-> "none",
         attempts |-> 0, delivery |-> "pending", batch |-> NoBatch]
  BY <1>3 DEF Fresh
<1>4. Restored(row) \in JobRecord
  BY <1>1, <1>7, JobsAssumption DEF JobRecord, Exits, Delivery
<1>5. RecordOK(Restored(row), p)
  BY <1>1, <1>2, <1>7 DEF RecordOK
<1>6. Restored(row) # Fresh
  BY <1>7 DEF Fresh
<1> QED
  BY <1>4, <1>5, <1>6

(* A record terminalized for a reason its shell's end justifies.             *)
LEMMA OutcomeOK ==
  ASSUME NEW r \in JobRecord, NEW p \in Process,
         \/ r.exit = "none" /\ ~r.spawnFailed
         \/ r.exit = "none" /\ p.shell = "none"
         \/ r.exit # "none" /\ r.exit = p.code /\ p.shell = "dead" /\ ~r.spawnFailed
  PROVE  Outcome(r) \in Results /\ Record!Truthful(Outcome(r), Fate(p))
<1> USE DEF Outcome, Results, Record!Truthful, Fate
<1>1. CASE r.exit = "none" /\ ~r.spawnFailed
  <2>1. Outcome(r) = "unknown"
    BY <1>1
  <2> QED
    BY <2>1
<1>2. CASE r.exit = "none" /\ r.spawnFailed /\ p.shell = "none"
  <2>1. Outcome(r) \in {"timed_out", "cancelled", "failed"}
    BY <1>2
  <2> QED
    BY <1>2, <2>1
<1>3. CASE r.exit = p.code /\ p.shell = "dead" /\ ~r.spawnFailed /\ r.exit # "none"
  <2>1. r.exit \in {"zero", "nonzero", "signal"}
    BY <1>3 DEF JobRecord, Exits
  <2>2. CASE r.exit = "zero"
    BY <1>3, <2>2
  <2>3. CASE r.exit = "nonzero"
    BY <1>3, <2>3
  <2>4. CASE r.exit = "signal"
    BY <1>3, <2>4
  <2> QED
    BY <2>1, <2>2, <2>3, <2>4
<1> QED
  BY <1>1, <1>2, <1>3 DEF JobRecord

LEMMA StoppingOK ==
  ASSUME NEW r \in JobRecord, NEW p \in Process, ProcessOK(p), RecordOK(r, p),
         r.status \in Active, r # Fresh
  PROVE  /\ Stopping(r) \in JobRecord
         /\ RecordOK(Stopping(r), p)
         /\ Stopping(r) # Fresh
<1>1. r.phase = "collecting" /\ r.handle # "none"
  BY DEF RecordOK, JobRecord
<1>2. CASE r.status = "stopping"
  <2> DEFINE x == [r EXCEPT !.timers = r.timers \ {"timeout"}]
  <2>1. Stopping(r) = x
    BY <1>2 DEF Stopping
  <2>2. x \in JobRecord /\ x.handle # "none"
    BY <1>1 DEF JobRecord
  <2>3. RecordOK(x, p)
    BY <1>1 DEF RecordOK, JobRecord
  <2>4. x # Fresh
    BY <2>2 DEF Fresh
  <2> QED
    BY <2>1, <2>2, <2>3, <2>4
<1>3. CASE r.status = "running"
  <2> DEFINE w == IF r.handle = "pid" /\ r.sweep = "none" THEN "running" ELSE r.sweep
             x == [r EXCEPT !.timers = r.timers \ {"timeout"}, !.status = "stopping",
                            !.sweep = w]
  <2>1. Stopping(r) = x
    BY <1>3 DEF Stopping
  <2>2. w \in {"none", "running", "done"}
    BY DEF JobRecord
  <2> HIDE DEF w
  <2>3. x \in JobRecord /\ x.handle # "none"
    BY <1>1, <2>2 DEF JobRecord, Active
  <2>4. RecordOK(x, p)
    BY <1>1, <1>3, JobsAssumption DEF RecordOK, JobRecord, Active, w
  <2>5. x # Fresh
    BY <2>3 DEF Fresh
  <2> QED
    BY <2>1, <2>3, <2>4, <2>5
<1> QED
  BY <1>2, <1>3 DEF Active

(* The part of RecordOK that does not depend on the phase.                   *)
HandleOK(r, p) ==
  /\ r.handle \in {"pid", "nopid"}
  /\ r.handle = "nopid" => p.shell = "none" /\ r.sweep = "none" /\ r.told # "exit"
  /\ r.handle = "pid" => p.shell # "none" /\ ~r.spawnFailed
  /\ r.told # "nothing" /\ r.handle = "pid" => p.shell = "dead"
  /\ r.sweep = "none" => r.attempts = 0
  /\ r.sweep = "running" => r.attempts < MaxSweeps
  /\ r.sweep = "done" => r.unconfirmed \/ ~GroupAlive(p)

LEMMA CollectingOK ==
  ASSUME NEW r \in JobRecord, NEW p \in Process, RecordOK(r, p),
         r.phase = "collecting", r # Fresh
  PROVE  HandleOK(r, p)
BY DEF JobRecord, RecordOK, HandleOK

LEMMA TerminalizedOK ==
  ASSUME NEW r \in JobRecord, NEW p \in Process, HandleOK(r, p),
         r.phase = "collecting",
         "stream" \notin r.timers \/ r.told = "exit",
         \/ r.exit = "none" /\ ~r.spawnFailed
         \/ r.exit = "none" /\ p.shell = "none"
         \/ r.exit # "none" /\ r.exit = p.code /\ p.shell = "dead" /\ ~r.spawnFailed
  PROVE  /\ Terminalized(r) \in JobRecord
         /\ RecordOK(Terminalized(r), p)
         /\ Terminalized(r) # Fresh
<1> DEFINE s == Outcome(r)
           t == r.timers \cap {"grace"}
           x == [r EXCEPT !.timers = t, !.phase = "draining", !.status = s,
                          !.delivery = "pending"]
<1>1. s \in Results /\ Record!Truthful(s, Fate(p))
  BY OutcomeOK
<1>2. s \notin Active
  BY <1>1 DEF Results, Active
<1>3. t \in SUBSET Timers /\ t \cap {"timeout", "stream"} = {} /\ "stream" \notin t
  BY DEF JobRecord
<1>4. Terminalized(r) = x
  BY DEF Terminalized
<1> HIDE DEF s, t
<1>5. x \in JobRecord /\ x.phase = "draining"
  BY <1>1, <1>3 DEF JobRecord, Delivery
<1>6. RecordOK(x, p)
  BY <1>1, <1>2, <1>3 DEF RecordOK, HandleOK, JobRecord
<1>7. x # Fresh
  BY <1>5 DEF Fresh
<1> QED
  BY <1>4, <1>5, <1>6, <1>7
-----------------------------------------------------------------------------
(* Parts that several actions share.                                         *)

LEMMA EvictOK ==
  ASSUME proc \in [Jobs -> Process],
         NEW js \in SUBSET Jobs, NEW r \in [Jobs -> JobRecord],
         \A j \in Jobs : RecordOK(r[j], proc[j]) /\ (j \notin js <=> r[j] = Fresh),
         Evict(js, r)
  PROVE  /\ jobs' \subseteq js
         /\ rec' \in [Jobs -> JobRecord]
         /\ \A j \in Jobs : /\ RecordOK(rec'[j], proc[j])
                            /\ j \notin jobs' <=> rec'[j] = Fresh
<1>1. PICK gone \in SUBSET Evictable(js, r) :
        /\ jobs' = js \ gone
        /\ rec' = [j \in Jobs |-> IF j \in gone THEN Fresh ELSE r[j]]
  BY DEF Evict
<1>2. gone \subseteq js
  BY DEF Evictable
<1> QED
  BY <1>1, <1>2, FreshOK

(* What a step may do to the rows without a new command.                     *)
RowsKept == /\ ledger' \in [Jobs -> Row]
            /\ \A k \in Jobs :
                 /\ ledger'[k] = NoRow <=> ledger[k] = NoRow
                 /\ ledger'[k] # NoRow => ledger'[k].status # "none"
                 /\ ledger'[k].settled => Record!Truthful(ledger'[k].status, Fate(proc[k]))
                 /\ k = starting => ledger'[k] = ledger[k]

LEMMA JobFacts ==
  ASSUME Inv, NEW j \in Jobs
  PROVE  /\ rec[j] \in JobRecord /\ proc[j] \in Process /\ ledger[j] \in Row
         /\ ProcessOK(proc[j]) /\ RecordOK(rec[j], proc[j])
         /\ j \notin jobs <=> rec[j] = Fresh
         /\ RowOK(j)
<1>1. rec[j] \in JobRecord /\ proc[j] \in Process /\ ledger[j] \in Row
  BY DEF Inv, TypeOK
<1>2. ProcessOK(proc[j]) /\ RecordOK(rec[j], proc[j]) /\ RowOK(j)
  BY DEF Inv, SafeInv
<1>3. j \notin jobs <=> rec[j] = Fresh
  BY DEF Inv, SafeInv
<1> QED
  BY <1>1, <1>2, <1>3

LEMMA OwnedFacts ==
  ASSUME Inv, NEW j \in jobs
  PROVE  j \in Jobs /\ j # starting /\ ledger[j] # NoRow
<1>1. j \in Jobs
  BY DEF Inv, TypeOK
<1>2. j # starting
  BY <1>1, JobsAssumption DEF Inv, SafeInv, StartingOK
<1>3. ledger[j] # NoRow
  BY <1>1, JobFacts DEF RowOK
<1> QED
  BY <1>1, <1>2, <1>3

LEMMA SameRows ==
  ASSUME Inv, ledger' = ledger
  PROVE  RowsKept
BY JobFacts DEF Inv, TypeOK, RowOK, RowsKept

LEMMA SaveOK ==
  ASSUME Inv, NEW j \in Jobs, j # starting, ledger[j] # NoRow,
         NEW s \in Active \cup Results, NEW b \in BOOLEAN,
         b => Record!Truthful(s, Fate(proc[j])),
         Save(j, s, b)
  PROVE  RowsKept
<1>1. CASE UNCHANGED ledger
  BY <1>1, SameRows
<1>2. CASE ledger' = [ledger EXCEPT ![j] = [status |-> s, settled |-> b]]
  <2>1. s # "none"
    BY DEF Active, Results
  <2>2. [status |-> s, settled |-> b] \in Row /\ [status |-> s, settled |-> b] # NoRow
    BY <2>1 DEF Row, NoRow
  <2>3. ledger' \in [Jobs -> Row]
    BY <1>2, <2>2 DEF Inv, TypeOK
  <2>4. ASSUME NEW k \in Jobs, k # j
        PROVE  ledger'[k] = ledger[k]
    BY <1>2, <2>4 DEF Inv, TypeOK
  <2>5. ledger'[j] = [status |-> s, settled |-> b]
    BY <1>2 DEF Inv, TypeOK
  <2> QED
    BY <2>1, <2>2, <2>3, <2>4, <2>5, JobFacts DEF RowOK, RowsKept
<1> QED
  BY <1>1, <1>2 DEF Save

(* A step that leaves processes, starts and throws alone keeps the invariant *)
(* when it keeps rows and records in order.                                  *)
LEMMA FrameOK ==
  ASSUME Inv, RowsKept,
         registry' \in {"absent", "open", "closed"}, starting # NoJob => registry' = "open",
         UNCHANGED <<starting, proc, thrown>>,
         closing' \subseteq closing,
         jobs' \subseteq {j \in Jobs : ledger[j] # NoRow /\ j # starting},
         rec' \in [Jobs -> JobRecord],
         \A j \in Jobs : RecordOK(rec'[j], proc[j]) /\ (j \notin jobs' <=> rec'[j] = Fresh)
  PROVE  Inv'
<1>1. TypeOK'
  BY DEF Inv, TypeOK, RowsKept
<1>2. ASSUME NEW j \in Jobs
      PROVE  /\ ProcessOK(proc'[j]) /\ RecordOK(rec'[j], proc'[j])
             /\ j \notin jobs' <=> rec'[j] = Fresh
  BY <1>2, JobFacts
<1>3. ASSUME NEW j \in Jobs
      PROVE  RowOK(j)'
  BY <1>3, JobFacts DEF RowOK, RowsKept
<1>4. StartingOK'
  BY DEF Inv, TypeOK, SafeInv, StartingOK, RowsKept
<1> QED
  BY <1>1, <1>2, <1>3, <1>4 DEF Inv, SafeInv

LEMMA OneRecordOK ==
  ASSUME Inv, RowsKept, registry # "absent", NEW j \in jobs, NEW x \in JobRecord,
         RecordOK(x, proc[j]), x # Fresh,
         rec' = [rec EXCEPT ![j] = x],
         UNCHANGED <<registry, starting, jobs, proc, thrown, closing>>
  PROVE  Inv'
<1>1. j \in Jobs /\ rec \in [Jobs -> JobRecord]
  BY DEF Inv, TypeOK
<1>2. rec' \in [Jobs -> JobRecord]
  BY <1>1
<1>3. ASSUME NEW k \in Jobs
      PROVE  RecordOK(rec'[k], proc[k]) /\ (k \notin jobs' <=> rec'[k] = Fresh)
  <2>1. CASE k = j
    BY <2>1, <1>1
  <2>2. CASE k # j
    <3>1. rec'[k] = rec[k]
      BY <2>2, <1>1
    <3> QED
      BY <3>1, JobFacts
  <2> QED
    BY <2>1, <2>2
<1>4. jobs' \subseteq {k \in Jobs : ledger[k] # NoRow /\ k # starting}
  BY OwnedFacts
<1>5. registry' \in {"open", "closed"} /\ (starting # NoJob => registry' = "open")
  BY DEF Inv, TypeOK, SafeInv, StartingOK
<1> QED
  BY <1>2, <1>3, <1>4, <1>5, FrameOK
-----------------------------------------------------------------------------
(* The actions, in the order of BashJobs.                                    *)

LEMMA InitOK == Init => Inv
<1> SUFFICES ASSUME Init PROVE Inv
  OBVIOUS
<1>1. NoRow \in Row /\ NoProcess \in Process /\ ~NoRow.settled
  BY DEF NoRow, NoProcess, Row, Process, Exits
<1>2. TypeOK
  BY <1>1, FreshOK DEF Init, TypeOK
<1>3. \A j \in Jobs : ProcessOK(proc[j]) /\ RecordOK(rec[j], proc[j])
  BY <1>1, FreshOK DEF Init, ProcessOK, NoProcess
<1>4. \A j \in Jobs : RowOK(j) /\ (j \notin jobs <=> rec[j] = Fresh)
  BY <1>1 DEF Init, RowOK
<1>5. StartingOK
  BY DEF Init, StartingOK
<1> QED
  BY <1>2, <1>3, <1>4, <1>5 DEF Inv, SafeInv

LEMMA OpenOK == Inv /\ Open => Inv'
<1> SUFFICES ASSUME Inv, Open PROVE Inv'
  OBVIOUS
<1>1. starting = NoJob
  BY DEF Inv, SafeInv, StartingOK, Open
<1>2. \A j \in Jobs : /\ j \in jobs' <=> ledger[j] # NoRow
                      /\ rec'[j] = IF ledger[j] # NoRow THEN Restored(ledger[j]) ELSE Fresh
  BY DEF Open
<1>3. ASSUME NEW j \in Jobs
      PROVE  /\ rec'[j] \in JobRecord
             /\ RecordOK(rec'[j], proc[j]) /\ (j \notin jobs' <=> rec'[j] = Fresh)
  <2>1. CASE ledger[j] = NoRow
    BY <2>1, <1>2, FreshOK, JobFacts
  <2>2. CASE ledger[j] # NoRow
    BY <2>2, <1>2, RestoredOK, JobFacts DEF RowOK
  <2> QED
    BY <2>1, <2>2
<1>4. rec' \in [Jobs -> JobRecord]
  BY <1>3 DEF Open
<1>5. jobs' \subseteq {j \in Jobs : ledger[j] # NoRow /\ j # starting}
  BY <1>1, JobsAssumption DEF Open
<1>6. RowsKept
  BY SameRows DEF Open
<1> QED
  BY <1>1, <1>3, <1>4, <1>5, <1>6, FrameOK DEF Open

LEMMA StartIntentOK == ASSUME Inv, NEW j \in Jobs, StartIntent(j) PROVE Inv'
<1> DEFINE row == [status |-> "running", settled |-> FALSE]
<1>1. row \in Row /\ row # NoRow /\ row.status # "none" /\ ~row.settled
  BY DEF Row, Active, NoRow
<1>2. /\ ledger[j] = NoRow /\ registry = "open" /\ starting' = j
      /\ ledger' = [ledger EXCEPT ![j] = row]
      /\ UNCHANGED <<registry, jobs, rec, proc, thrown, closing>>
  BY DEF StartIntent
<1> HIDE DEF row
<1>3. /\ ledger' \in [Jobs -> Row] /\ ledger'[j] = row
      /\ \A k \in Jobs : k # j => ledger'[k] = ledger[k]
  BY <1>1, <1>2 DEF Inv, TypeOK
<1>4. TypeOK'
  BY <1>2, <1>3 DEF Inv, TypeOK
<1>5. j \notin jobs \cup thrown /\ proc[j] = NoProcess
  BY <1>2, JobFacts DEF RowOK
<1>6. ASSUME NEW k \in Jobs
      PROVE  /\ ProcessOK(proc'[k]) /\ RecordOK(rec'[k], proc'[k]) /\ RowOK(k)'
             /\ k \notin jobs' <=> rec'[k] = Fresh
  BY <1>1, <1>2, <1>3, <1>5, JobFacts DEF RowOK
<1>7. StartingOK'
  BY <1>1, <1>2, <1>3, <1>5 DEF StartingOK
<1> QED
  BY <1>4, <1>6, <1>7 DEF Inv, SafeInv

LEMMA StartSpawnOK == ASSUME Inv, NEW j \in Jobs, StartSpawn(j) PROVE Inv'
<1>1. PICK t \in SUBSET {"timeout"} :
        rec' = [rec EXCEPT ![j] = [Fresh EXCEPT !.handle = "pid", !.timers = t]]
  BY DEF StartSpawn
<1>2. PICK d \in {"none", "quiet", "holding"}, m \in BOOLEAN :
        proc' = [proc EXCEPT ![j] =
                   [shell |-> "live", code |-> "none", desc |-> d, mortal |-> m]]
  BY DEF StartSpawn
<1> DEFINE x == [Fresh EXCEPT !.handle = "pid", !.timers = t]
           q == [shell |-> "live", code |-> "none", desc |-> d, mortal |-> m]
<1>3. /\ starting = j /\ j # NoJob /\ starting' = NoJob /\ jobs' = jobs \cup {j}
      /\ UNCHANGED <<registry, ledger, thrown, closing>>
  BY JobsAssumption DEF StartSpawn
<1>4. j \notin jobs \cup thrown /\ ledger[j] # NoRow /\ ~ledger[j].settled
  BY <1>3 DEF Inv, SafeInv, StartingOK
<1>5. q \in Process /\ ProcessOK(q)
  BY DEF Process, ProcessOK, Exits
<1>6. x \in JobRecord /\ RecordOK(x, q) /\ x # Fresh
  BY FreshOK DEF Fresh, JobRecord, RecordOK, Timers, Active
<1>7. rec' \in [Jobs -> JobRecord] /\ proc' \in [Jobs -> Process] /\ rec'[j] = x /\ proc'[j] = q
  BY <1>1, <1>2, <1>5, <1>6 DEF Inv, TypeOK
<1> HIDE DEF x, q
<1>8. TypeOK'
  BY <1>3, <1>7 DEF Inv, TypeOK
<1>9. ASSUME NEW k \in Jobs
      PROVE  /\ ProcessOK(proc'[k]) /\ RecordOK(rec'[k], proc'[k]) /\ RowOK(k)'
             /\ k \notin jobs' <=> rec'[k] = Fresh
  <2>1. CASE k = j
    BY <2>1, <1>3, <1>4, <1>5, <1>6, <1>7, JobFacts DEF RowOK
  <2>2. CASE k # j
    <3>1. rec'[k] = rec[k] /\ proc'[k] = proc[k]
      BY <2>2, <1>1, <1>2 DEF Inv, TypeOK
    <3> QED
      BY <2>2, <3>1, <1>3, JobFacts DEF RowOK
  <2> QED
    BY <2>1, <2>2
<1>10. StartingOK'
  BY <1>3 DEF StartingOK
<1> QED
  BY <1>8, <1>9, <1>10 DEF Inv, SafeInv

LEMMA StartNoPidOK == ASSUME Inv, NEW j \in Jobs, StartNoPid(j) PROVE Inv'
<1> DEFINE x == [Fresh EXCEPT !.handle = "nopid"]
<1>1. /\ starting = j /\ j # NoJob /\ starting' = NoJob /\ jobs' = jobs \cup {j}
      /\ rec' = [rec EXCEPT ![j] = x]
      /\ UNCHANGED <<registry, ledger, proc, thrown, closing>>
  BY JobsAssumption DEF StartNoPid
<1>2. /\ j \notin jobs \cup thrown /\ ledger[j] # NoRow /\ ~ledger[j].settled
      /\ proc[j].shell = "none"
  BY <1>1 DEF Inv, SafeInv, StartingOK, NoProcess
<1>3. x \in JobRecord /\ RecordOK(x, proc[j]) /\ x # Fresh
  BY FreshOK, <1>2 DEF Fresh, JobRecord, RecordOK, Active
<1>4. rec' \in [Jobs -> JobRecord] /\ rec'[j] = x
  BY <1>1, <1>3 DEF Inv, TypeOK
<1> HIDE DEF x
<1>5. TypeOK'
  BY <1>1, <1>4 DEF Inv, TypeOK
<1>6. ASSUME NEW k \in Jobs
      PROVE  /\ ProcessOK(proc'[k]) /\ RecordOK(rec'[k], proc'[k]) /\ RowOK(k)'
             /\ k \notin jobs' <=> rec'[k] = Fresh
  <2>1. CASE k = j
    BY <2>1, <1>1, <1>2, <1>3, <1>4, JobFacts DEF RowOK
  <2>2. CASE k # j
    <3>1. rec'[k] = rec[k]
      BY <2>2, <1>1 DEF Inv, TypeOK
    <3> QED
      BY <2>2, <3>1, <1>1, JobFacts DEF RowOK
  <2> QED
    BY <2>1, <2>2
<1>7. StartingOK'
  BY <1>1 DEF StartingOK
<1> QED
  BY <1>5, <1>6, <1>7 DEF Inv, SafeInv

LEMMA StartThrowsOK == ASSUME Inv, NEW j \in Jobs, StartThrows(j) PROVE Inv'
<1>1. /\ starting = j /\ j # NoJob /\ starting' = NoJob /\ thrown' = thrown \cup {j}
      /\ closing' = closing \cup {j}
      /\ UNCHANGED <<registry, jobs, rec, ledger, proc>>
  BY JobsAssumption DEF StartThrows
<1>2. ledger[j] # NoRow /\ proc[j].shell = "none"
  BY <1>1 DEF Inv, SafeInv, StartingOK, NoProcess
<1>3. TypeOK'
  BY <1>1 DEF Inv, TypeOK
<1>4. ASSUME NEW k \in Jobs
      PROVE  /\ ProcessOK(proc'[k]) /\ RecordOK(rec'[k], proc'[k]) /\ RowOK(k)'
             /\ k \notin jobs' <=> rec'[k] = Fresh
  BY <1>1, <1>2, JobFacts DEF RowOK
<1>5. StartingOK'
  BY <1>1 DEF StartingOK
<1> QED
  BY <1>3, <1>4, <1>5 DEF Inv, SafeInv

LEMMA StopOK == ASSUME Inv, NEW j \in Jobs, Stop(j) PROVE Inv'
<1>1. /\ registry # "absent" /\ j \in jobs /\ rec[j].status \in Active
      /\ rec' = [rec EXCEPT ![j] = Stopping(rec[j])]
      /\ UNCHANGED <<registry, starting, jobs, proc, thrown, closing>>
  BY DEF Stop, Idle
<1>2. /\ Stopping(rec[j]) \in JobRecord /\ RecordOK(Stopping(rec[j]), proc[j])
      /\ Stopping(rec[j]) # Fresh
  BY <1>1, JobFacts, StoppingOK
<1>3. RowsKept
  <2>1. CASE ledger' = ledger
    BY <2>1, SameRows
  <2>2. CASE Save(j, "stopping", FALSE)
    BY <1>1, <2>2, OwnedFacts, SaveOK DEF Active
  <2> QED
    BY <2>1, <2>2 DEF Stop
<1> QED
  BY <1>1, <1>2, <1>3, OneRecordOK

LEMMA TimeoutFiresOK == ASSUME Inv, NEW j \in Jobs, TimeoutFires(j) PROVE Inv'
<1> DEFINE r == [rec[j] EXCEPT !.timedOut = TRUE]
<1>1. /\ registry # "absent" /\ j \in jobs /\ "timeout" \in rec[j].timers
      /\ rec' = [rec EXCEPT ![j] = Stopping(r)]
      /\ UNCHANGED <<registry, starting, jobs, proc, thrown, closing>>
  BY DEF TimeoutFires, Idle
<1>2. rec[j] \in JobRecord /\ RecordOK(rec[j], proc[j]) /\ rec[j] # Fresh /\ rec[j].phase = "collecting"
  BY <1>1, JobFacts DEF RecordOK
<1>3. r \in JobRecord /\ RecordOK(r, proc[j]) /\ r # Fresh /\ r.status \in Active
  BY <1>2 DEF JobRecord, RecordOK, Fresh
<1> HIDE DEF r
<1>4. Stopping(r) \in JobRecord /\ RecordOK(Stopping(r), proc[j]) /\ Stopping(r) # Fresh
  BY <1>3, JobFacts, StoppingOK
<1>5. RowsKept
  BY <1>1, OwnedFacts, SaveOK DEF TimeoutFires, Active
<1> QED
  BY <1>1, <1>4, <1>5, OneRecordOK

(* An event whose effect is to terminalize the record x.                     *)
LEMMA TerminalStepOK ==
  ASSUME Inv, registry # "absent", NEW j \in jobs, NEW x \in JobRecord,
         HandleOK(x, proc[j]), x.phase = "collecting",
         "stream" \notin x.timers \/ x.told = "exit",
         \/ x.exit = "none" /\ ~x.spawnFailed
         \/ x.exit = "none" /\ proc[j].shell = "none"
         \/ x.exit # "none" /\ x.exit = proc[j].code /\ proc[j].shell = "dead" /\ ~x.spawnFailed,
         rec' = [rec EXCEPT ![j] = Terminalized(x)],
         UNCHANGED <<registry, starting, jobs, ledger, proc, thrown, closing>>
  PROVE  Inv'
<1>1. j \in Jobs
  BY OwnedFacts
<1>2. /\ Terminalized(x) \in JobRecord /\ RecordOK(Terminalized(x), proc[j])
      /\ Terminalized(x) # Fresh
  BY <1>1, JobFacts, TerminalizedOK
<1> QED
  BY <1>2, SameRows, OneRecordOK

LEMMA ErrorEventOK == ASSUME Inv, NEW j \in Jobs, ErrorEvent(j) PROVE Inv'
<1>1. /\ registry # "absent" /\ rec[j].handle = "nopid" /\ rec[j].told = "nothing"
      /\ UNCHANGED <<registry, starting, jobs, ledger, proc, thrown, closing>>
  BY DEF ErrorEvent, Idle
<1>2. rec[j] # Fresh /\ j \in jobs /\ proc[j].shell = "none" /\ rec[j] \in JobRecord
  BY <1>1, JobFacts DEF Fresh, RecordOK
<1>3. CASE rec[j].phase # "collecting"
  <2> DEFINE x == [rec[j] EXCEPT !.told = "close"]
  <2>1. rec' = [rec EXCEPT ![j] = x]
    BY <1>2, <1>3 DEF ErrorEvent, JobRecord
  <2>2. x \in JobRecord /\ RecordOK(x, proc[j]) /\ x # Fresh
    BY <1>1, <1>2, <1>3, JobFacts DEF JobRecord, RecordOK, Fresh
  <2> QED
    BY <1>1, <1>2, <2>1, <2>2, SameRows, OneRecordOK
<1>4. CASE rec[j].phase = "collecting"
  <2> DEFINE x == [[rec[j] EXCEPT !.told = "close"] EXCEPT !.spawnFailed = TRUE]
  <2>1. rec' = [rec EXCEPT ![j] = Terminalized(x)]
    BY <1>2, <1>4 DEF ErrorEvent, JobRecord
  <2>2. rec[j].exit = "none" /\ "stream" \notin rec[j].timers
    BY <1>1, <1>2, <1>4, JobFacts DEF RecordOK
  <2>3. x \in JobRecord /\ HandleOK(x, proc[j])
    BY <1>1, <1>2, <1>4, JobFacts, CollectingOK DEF JobRecord, HandleOK
  <2>4. x.phase = "collecting" /\ "stream" \notin x.timers /\ x.exit = "none"
    BY <1>2, <1>4, <2>2 DEF JobRecord
  <2> HIDE DEF x
  <2> QED
    BY <1>1, <1>2, <2>1, <2>3, <2>4, TerminalStepOK
<1> QED
  BY <1>3, <1>4

LEMMA ExitEventOK == ASSUME Inv, NEW j \in Jobs, ExitEvent(j) PROVE Inv'
<1> DEFINE t == IF rec[j].phase = "collecting"
                THEN (rec[j].timers \ {"timeout"}) \cup {"stream"}
                ELSE rec[j].timers \ {"timeout"}
           x == [rec[j] EXCEPT !.told = "exit", !.timers = t]
<1>1. /\ registry # "absent" /\ rec[j].handle = "pid" /\ rec[j].told = "nothing"
      /\ proc[j].shell = "dead"
      /\ rec' = [rec EXCEPT ![j] = x]
      /\ UNCHANGED <<registry, starting, jobs, ledger, proc, thrown, closing>>
  BY DEF ExitEvent, Idle
<1>2. rec[j] # Fresh /\ j \in jobs /\ rec[j] \in JobRecord /\ RecordOK(rec[j], proc[j])
  BY <1>1, JobFacts DEF Fresh
<1>3. /\ t \in SUBSET Timers
      /\ t \cap {"timeout", "stream"} # {} => rec[j].phase = "collecting"
      /\ rec[j].phase = "collecting" => "stream" \in t
  BY <1>2 DEF JobRecord, Timers, RecordOK
<1> HIDE DEF t
<1>4. x \in JobRecord /\ RecordOK(x, proc[j]) /\ x # Fresh
  BY <1>1, <1>2, <1>3 DEF JobRecord, RecordOK, Fresh
<1> QED
  BY <1>1, <1>2, <1>4, SameRows, OneRecordOK

LEMMA StreamTimerFiresOK == ASSUME Inv, NEW j \in Jobs, StreamTimerFires(j) PROVE Inv'
<1> DEFINE x == [rec[j] EXCEPT !.timers = rec[j].timers \ {"stream"}, !.exit = proc[j].code]
<1>1. /\ registry # "absent" /\ "stream" \in rec[j].timers
      /\ UNCHANGED <<registry, starting, jobs, ledger, proc, thrown, closing>>
  BY DEF StreamTimerFires, Idle
<1>2. /\ rec[j] # Fresh /\ j \in jobs /\ rec[j] \in JobRecord
      /\ rec[j].phase = "collecting" /\ rec[j].told = "exit" /\ rec[j].handle = "pid"
      /\ ~rec[j].spawnFailed /\ proc[j].shell = "dead"
  BY <1>1, JobFacts DEF Fresh, RecordOK, JobRecord
<1>3. proc[j].code # "none" /\ proc[j].code \in Exits
  BY <1>2, JobFacts DEF ProcessOK, Process
<1>4. rec' = [rec EXCEPT ![j] = Terminalized(x)]
  BY DEF StreamTimerFires
<1>5. x \in JobRecord /\ HandleOK(x, proc[j])
  BY <1>2, <1>3, JobFacts, CollectingOK DEF JobRecord, HandleOK
<1>6. /\ x.phase = "collecting" /\ "stream" \notin x.timers /\ x.exit = proc[j].code
      /\ ~x.spawnFailed
  BY <1>2 DEF JobRecord
<1> HIDE DEF x
<1> QED
  BY <1>1, <1>2, <1>3, <1>4, <1>5, <1>6, TerminalStepOK

LEMMA CloseEventOK == ASSUME Inv, NEW j \in Jobs, CloseEvent(j) PROVE Inv'
<1> DEFINE t == rec[j].timers \ {"timeout", "stream"}
           x == [rec[j] EXCEPT !.timers = t, !.told = "close"]
           y == [x EXCEPT !.exit = proc[j].code]
<1>1. /\ registry # "absent" /\ rec[j].handle = "pid" /\ rec[j].told = "exit"
      /\ UNCHANGED <<registry, starting, jobs, ledger, proc, thrown, closing>>
  BY DEF CloseEvent, Idle
<1>2. /\ rec[j] # Fresh /\ j \in jobs /\ rec[j] \in JobRecord
      /\ ~rec[j].spawnFailed /\ proc[j].shell = "dead" /\ RecordOK(rec[j], proc[j])
  BY <1>1, JobFacts DEF Fresh, RecordOK, JobRecord
<1>3. proc[j].code # "none" /\ proc[j].code \in Exits
  BY <1>2, JobFacts DEF ProcessOK, Process
<1>4. t \in SUBSET Timers /\ "stream" \notin t /\ t \cap {"timeout", "stream"} = {}
  BY <1>2 DEF JobRecord
<1> HIDE DEF t
<1>5. x \in JobRecord /\ x.phase = rec[j].phase
  BY <1>2, <1>4 DEF JobRecord
<1>6. rec' = [rec EXCEPT ![j] = IF x.phase # "collecting" THEN x ELSE Terminalized(y)]
  BY DEF CloseEvent, t
<1>7. CASE rec[j].phase # "collecting"
  <2>1. RecordOK(x, proc[j]) /\ x # Fresh
    BY <1>1, <1>2, <1>4, <1>7 DEF JobRecord, RecordOK, Fresh
  <2> QED
    BY <1>1, <1>2, <1>5, <1>6, <1>7, <2>1, SameRows, OneRecordOK
<1>8. CASE rec[j].phase = "collecting"
  <2>1. HandleOK(rec[j], proc[j])
    BY <1>2, <1>8, JobFacts, CollectingOK
  <2>2. y \in JobRecord /\ HandleOK(y, proc[j])
    BY <1>1, <1>2, <1>3, <1>4, <2>1 DEF JobRecord, HandleOK
  <2>3. /\ y.phase = "collecting" /\ "stream" \notin y.timers /\ y.exit = proc[j].code
        /\ ~y.spawnFailed
    BY <1>2, <1>4, <1>8 DEF JobRecord
  <2>4. rec' = [rec EXCEPT ![j] = Terminalized(y)]
    BY <1>5, <1>6, <1>8
  <2> HIDE DEF x, y
  <2> QED
    BY <1>1, <1>2, <1>3, <2>2, <2>3, <2>4, TerminalStepOK
<1> QED
  BY <1>7, <1>8

LEMMA GraceFiresOK == ASSUME Inv, NEW j \in Jobs, GraceFires(j) PROVE Inv'
<1> DEFINE t == rec[j].timers \ {"grace"}
           x == [rec[j] EXCEPT !.timers = t]
           y == [x EXCEPT !.unconfirmed = TRUE, !.exit = "none"]
<1>1. /\ registry # "absent" /\ "grace" \in rec[j].timers
      /\ UNCHANGED <<registry, starting, jobs, ledger, proc, thrown, closing>>
  BY DEF GraceFires, Idle
<1>2. rec[j] # Fresh /\ j \in jobs /\ rec[j] \in JobRecord /\ RecordOK(rec[j], proc[j])
  BY <1>1, JobFacts DEF Fresh
<1>3. /\ t \in SUBSET Timers
      /\ t \cap {"timeout", "stream"} = rec[j].timers \cap {"timeout", "stream"}
      /\ "stream" \in t <=> "stream" \in rec[j].timers
  BY <1>2 DEF JobRecord
<1> HIDE DEF t
<1>4. x \in JobRecord /\ x.phase = rec[j].phase
  BY <1>2, <1>3 DEF JobRecord
<1>5. rec' = [rec EXCEPT ![j] = IF x.phase # "collecting" THEN x ELSE Terminalized(y)]
  BY DEF GraceFires, t
<1>6. CASE rec[j].phase # "collecting"
  <2>1. t # rec[j].timers
    BY <1>1, <1>2 DEF t
  <2>2. rec[j].handle # "none" /\ x.handle = rec[j].handle
    BY <1>1, <1>2, <1>6 DEF RecordOK, JobRecord
  <2>3. RecordOK(x, proc[j]) /\ x # Fresh
    BY <1>2, <1>3, <1>6, <2>2 DEF JobRecord, RecordOK, Fresh
  <2> QED
    BY <1>1, <1>2, <1>4, <1>5, <1>6, <2>3, SameRows, OneRecordOK
<1>7. CASE rec[j].phase = "collecting"
  <2>1. HandleOK(rec[j], proc[j]) /\ ~rec[j].spawnFailed
    BY <1>2, <1>7, JobFacts, CollectingOK DEF RecordOK
  <2>2. y \in JobRecord /\ HandleOK(y, proc[j])
    <3>1. y = [rec[j] EXCEPT !.timers = t, !.unconfirmed = TRUE, !.exit = "none"]
      BY <1>2 DEF JobRecord
    <3>2. y \in JobRecord
      BY <1>2, <1>3, <3>1 DEF JobRecord, Exits
    <3>3. /\ y.handle = rec[j].handle /\ y.told = rec[j].told /\ y.sweep = rec[j].sweep
          /\ y.attempts = rec[j].attempts /\ y.spawnFailed = rec[j].spawnFailed
          /\ y.unconfirmed
      BY <1>2, <3>1 DEF JobRecord
    <3> HIDE DEF x, y
    <3>4. HandleOK(y, proc[j])
      BY <2>1, <3>3 DEF HandleOK
    <3> QED
      BY <3>2, <3>4
  <2>3. /\ y.phase = "collecting" /\ ("stream" \notin y.timers \/ y.told = "exit")
        /\ y.exit = "none" /\ ~y.spawnFailed
    BY <1>2, <1>3, <1>7, <2>1 DEF JobRecord, RecordOK
  <2>4. rec' = [rec EXCEPT ![j] = Terminalized(y)]
    BY <1>4, <1>5, <1>7
  <2> HIDE DEF x, y
  <2> QED
    BY <1>1, <1>2, <2>2, <2>3, <2>4, TerminalStepOK
<1> QED
  BY <1>6, <1>7

(* A step that only evicts and edits delivery marks; `js` may bring restored *)
(* records back.                                                             *)
LEMMA BookkeepingStepOK ==
  ASSUME Inv, registry # "absent", RowsKept, NEW js, NEW r \in [Jobs -> JobRecord],
         js \subseteq {j \in Jobs : ledger[j] # NoRow /\ j # starting},
         \A j \in Jobs : RecordOK(r[j], proc[j]) /\ (j \notin js <=> r[j] = Fresh),
         Evict(js, r),
         closing' \subseteq closing,
         UNCHANGED <<registry, starting, proc, thrown>>
  PROVE  Inv'
<1>1. js \in SUBSET Jobs /\ proc \in [Jobs -> Process]
  BY DEF Inv, TypeOK
<1>2. /\ jobs' \subseteq js
      /\ rec' \in [Jobs -> JobRecord]
      /\ \A j \in Jobs : RecordOK(rec'[j], proc[j]) /\ (j \notin jobs' <=> rec'[j] = Fresh)
  BY <1>1, EvictOK
<1>3. registry' \in {"open", "closed"} /\ (starting # NoJob => registry' = "open")
  BY DEF Inv, TypeOK, SafeInv, StartingOK
<1> QED
  BY <1>2, <1>3, FrameOK

LEMMA ReleaseOK == ASSUME Inv, NEW j \in Jobs, Release(j) PROVE Inv'
<1> DEFINE x == Released(rec[j])
           r == [rec EXCEPT ![j] = x]
<1>1. /\ registry # "absent" /\ rec[j].phase = "draining" /\ rec[j].sweep # "running"
      /\ Save(j, x.status, TRUE)
      /\ Evict(jobs, r)
      /\ UNCHANGED <<registry, starting, proc, thrown, closing>>
  BY DEF Release, Idle
<1>2. rec[j] # Fresh /\ j \in jobs /\ rec[j] \in JobRecord /\ RecordOK(rec[j], proc[j])
  BY <1>1, JobFacts DEF Fresh
<1>3. x \in JobRecord /\ x.phase = "released"
  BY <1>2 DEF JobRecord, Released, Results
<1>4. Record!Truthful(x.status, Fate(proc[j])) /\ x.status \in Results
  BY <1>1, <1>2 DEF RecordOK, Released, Record!Truthful, JobRecord, Active, Results
<1>5. RecordOK(x, proc[j])
  BY <1>1, <1>2, <1>3, <1>4 DEF RecordOK, JobRecord, Released, Active, Results
<1>6. x # Fresh
  BY <1>3 DEF Fresh
<1> HIDE DEF x
<1>7. r \in [Jobs -> JobRecord] /\ jobs \in SUBSET Jobs /\ proc \in [Jobs -> Process]
  BY <1>3 DEF Inv, TypeOK
<1>8. ASSUME NEW k \in Jobs
      PROVE  RecordOK(r[k], proc[k]) /\ (k \notin jobs <=> r[k] = Fresh)
  <2>1. CASE k = j
    BY <2>1, <1>2, <1>5, <1>6, <1>7 DEF Inv, TypeOK
  <2>2. CASE k # j
    <3>1. r[k] = rec[k]
      BY <2>2 DEF Inv, TypeOK
    <3> QED
      BY <3>1, JobFacts
  <2> QED
    BY <2>1, <2>2
<1> HIDE DEF r
<1>9. RowsKept
  BY <1>1, <1>2, <1>4, OwnedFacts, SaveOK
<1>10. jobs \subseteq {k \in Jobs : ledger[k] # NoRow /\ k # starting}
  BY OwnedFacts
<1> QED
  BY <1>1, <1>7, <1>8, <1>9, <1>10, BookkeepingStepOK

LEMMA ReleaseDiscardedOK == ASSUME Inv, NEW j \in Jobs, ReleaseDiscarded(j) PROVE Inv'
<1> DEFINE f == [Fresh EXCEPT !.spawnFailed = TRUE]
<1>1. /\ registry # "absent" /\ starting = NoJob /\ j \in closing
      /\ closing' = closing \ {j}
      /\ Save(j, Outcome(f), TRUE)
      /\ Evict(jobs, rec)
      /\ UNCHANGED <<registry, starting, thrown, proc>>
  BY DEF ReleaseDiscarded, Idle
<1>2. proc[j].shell = "none" /\ ledger[j] # NoRow /\ proc[j] \in Process
  BY <1>1, JobFacts DEF RowOK, Inv, TypeOK
<1>3. f \in JobRecord /\ f.exit = "none"
  BY FreshOK DEF JobRecord, Fresh
<1> HIDE DEF f
<1>4. Outcome(f) \in Results /\ Record!Truthful(Outcome(f), Fate(proc[j]))
  BY <1>2, <1>3, OutcomeOK
<1>5. j # starting
  BY <1>1, JobsAssumption
<1>6. RowsKept
  BY <1>1, <1>2, <1>4, <1>5, SaveOK
<1>7. rec \in [Jobs -> JobRecord]
  BY DEF Inv, TypeOK
<1>8. jobs \subseteq {k \in Jobs : ledger[k] # NoRow /\ k # starting}
  BY OwnedFacts
<1>9. closing' \subseteq closing
  BY <1>1
<1> QED
  BY <1>1, <1>6, <1>7, <1>8, <1>9, JobFacts, BookkeepingStepOK

(* Delivery marks do not touch what RecordOK speaks of.                      *)
LEMMA MarkOK ==
  ASSUME NEW r \in JobRecord, NEW p \in Process, RecordOK(r, p), r # Fresh,
         NEW d \in Delivery, NEW b \in Batches \cup {NoBatch}
  PROVE  /\ [r EXCEPT !.delivery = d, !.batch = b] \in JobRecord
         /\ RecordOK([r EXCEPT !.delivery = d, !.batch = b], p)
         /\ [r EXCEPT !.delivery = d, !.batch = b] # Fresh
<1> DEFINE x == [r EXCEPT !.delivery = d, !.batch = b]
<1>1. x \in JobRecord
  BY DEF JobRecord
<1>2. r.handle = "none" => r.phase = "released"
  BY DEF RecordOK
<1>3. /\ x.status = r.status /\ x.phase = r.phase /\ x.handle = r.handle
      /\ x.told = r.told /\ x.exit = r.exit /\ x.timers = r.timers
      /\ x.spawnFailed = r.spawnFailed /\ x.unconfirmed = r.unconfirmed
      /\ x.sweep = r.sweep /\ x.attempts = r.attempts
  BY DEF JobRecord
<1>4. x # Fresh
  BY <1>2, <1>3 DEF Fresh
<1> HIDE DEF x
<1>5. RecordOK(x, p)
  BY <1>2, <1>3 DEF RecordOK
<1> QED
  BY <1>1, <1>4, <1>5 DEF x

LEMMA MarkSubmittedOK ==
  ASSUME Inv, registry # "absent", NEW ids, NEW b \in Batches, MarkSubmitted(ids, b)
  PROVE  Inv'
<1> DEFINE r == [j \in Jobs |->
                  IF j \in ids \cap jobs /\ rec[j].delivery = "pending"
                  THEN [rec[j] EXCEPT !.delivery = "submitted", !.batch = b] ELSE rec[j]]
<1>1. ASSUME NEW j \in Jobs
      PROVE  r[j] \in JobRecord /\ RecordOK(r[j], proc[j]) /\ (j \notin jobs <=> r[j] = Fresh)
  BY <1>1, JobFacts, MarkOK DEF Delivery
<1>2. r \in [Jobs -> JobRecord]
  BY <1>1
<1>3. Evict(jobs, r) /\ UNCHANGED <<registry, starting, ledger, proc, thrown, closing>>
  BY DEF MarkSubmitted
<1> HIDE DEF r
<1>4. jobs \subseteq {k \in Jobs : ledger[k] # NoRow /\ k # starting}
  BY OwnedFacts
<1> QED
  BY <1>1, <1>2, <1>3, <1>4, SameRows, BookkeepingStepOK

LEMMA MarkRecordedOK ==
  ASSUME Inv, registry # "absent", NEW b \in Batches, MarkRecorded(b)
  PROVE  Inv'
<1> DEFINE r == [j \in Jobs |->
                  IF j \in Submitted(b)
                  THEN [rec[j] EXCEPT !.delivery = "recorded", !.batch = NoBatch] ELSE rec[j]]
<1>1. ASSUME NEW j \in Jobs
      PROVE  r[j] \in JobRecord /\ RecordOK(r[j], proc[j]) /\ (j \notin jobs <=> r[j] = Fresh)
  BY <1>1, JobFacts, MarkOK DEF Delivery, Submitted
<1>2. r \in [Jobs -> JobRecord]
  BY <1>1
<1>3. Evict(jobs, r) /\ UNCHANGED <<registry, starting, ledger, proc, thrown, closing>>
  BY DEF MarkRecorded
<1> HIDE DEF r
<1>4. jobs \subseteq {k \in Jobs : ledger[k] # NoRow /\ k # starting}
  BY OwnedFacts
<1> QED
  BY <1>1, <1>2, <1>3, <1>4, SameRows, BookkeepingStepOK

LEMMA RequeueOK ==
  ASSUME Inv, registry # "absent", NEW b \in Batches, Requeue(b)
  PROVE  Inv'
<1>1. /\ rec' = [j \in Jobs |->
                  IF j \in Submitted(b)
                  THEN [rec[j] EXCEPT !.delivery = "pending", !.batch = NoBatch] ELSE rec[j]]
      /\ UNCHANGED <<registry, starting, jobs, ledger, proc, thrown, closing>>
  BY DEF Requeue
<1>2. ASSUME NEW j \in Jobs
      PROVE  /\ rec'[j] \in JobRecord /\ RecordOK(rec'[j], proc[j])
             /\ j \notin jobs' <=> rec'[j] = Fresh
  BY <1>1, <1>2, JobFacts, MarkOK DEF Delivery, Submitted
<1>3. rec' \in [Jobs -> JobRecord]
  BY <1>1, <1>2
<1>4. jobs' \subseteq {k \in Jobs : ledger[k] # NoRow /\ k # starting}
  BY <1>1, OwnedFacts
<1>5. registry' \in {"open", "closed"} /\ (starting # NoJob => registry' = "open")
  BY <1>1 DEF Inv, TypeOK, SafeInv, StartingOK
<1> QED
  BY <1>1, <1>2, <1>3, <1>4, <1>5, SameRows, FrameOK

LEMMA ReconcileRecordedOK ==
  ASSUME Inv, registry # "absent", starting = NoJob, NEW ids, NEW moved \in BOOLEAN,
         ReconcileRecorded(ids, moved)
  PROVE  Inv'
<1> DEFINE back == IF moved THEN Forgotten(ids) ELSE {}
           seen == [j \in Jobs |-> IF j \in back THEN Restored(ledger[j]) ELSE rec[j]]
           js == jobs \cup back
           r == [j \in Jobs |-> IF j \in js THEN Reconciled(seen[j], j, ids, moved) ELSE rec[j]]
<1>1. ASSUME NEW j \in Jobs
      PROVE  /\ seen[j] \in JobRecord /\ RecordOK(seen[j], proc[j])
             /\ j \in js => seen[j] # Fresh
  BY <1>1, JobFacts, RestoredOK DEF RowOK, Forgotten
<1> HIDE DEF seen
<1>2. ASSUME NEW j \in Jobs
      PROVE  r[j] \in JobRecord /\ RecordOK(r[j], proc[j]) /\ (j \notin js <=> r[j] = Fresh)
  <2>1. CASE j \in js
    <3>1. seen[j] \in JobRecord /\ RecordOK(seen[j], proc[j]) /\ seen[j] # Fresh
      BY <1>1, <2>1
    <3>2. r[j] = Reconciled(seen[j], j, ids, moved)
      BY <2>1
    <3>3. r[j] \in {seen[j], [seen[j] EXCEPT !.delivery = "recorded", !.batch = NoBatch],
                    [seen[j] EXCEPT !.delivery = "pending", !.batch = NoBatch]}
      BY <3>2 DEF Reconciled
    <3>4. ASSUME NEW d \in Delivery
          PROVE  LET x == [seen[j] EXCEPT !.delivery = d, !.batch = NoBatch]
                 IN  x \in JobRecord /\ RecordOK(x, proc[j]) /\ x # Fresh
      BY <3>1, JobFacts, MarkOK
    <3>5. r[j] \in JobRecord /\ RecordOK(r[j], proc[j]) /\ r[j] # Fresh
      BY <3>1, <3>3, <3>4 DEF Delivery
    <3> QED
      BY <2>1, <3>5
  <2>2. CASE j \notin js
    BY <2>2, JobFacts
  <2> QED
    BY <2>1, <2>2
<1>3. r \in [Jobs -> JobRecord]
  BY <1>2
<1>4. js \subseteq {k \in Jobs : ledger[k] # NoRow /\ k # starting}
  BY OwnedFacts, JobsAssumption DEF Forgotten
<1>5. Evict(js, r) /\ UNCHANGED <<registry, starting, ledger, proc, thrown, closing>>
  BY DEF ReconcileRecorded, seen
<1> HIDE DEF r, js, back
<1> QED
  BY <1>2, <1>3, <1>4, <1>5, SameRows, BookkeepingStepOK

LEMMA DisposeOK == Inv /\ Dispose => Inv'
<1> SUFFICES ASSUME Inv, Dispose PROVE Inv'
  OBVIOUS
<1>1. /\ registry # "absent" /\ registry' = "closed" /\ starting = NoJob
      /\ UNCHANGED <<starting, jobs, proc, thrown, closing>>
  BY DEF Dispose, Idle
<1>2. rec' = [j \in Jobs |->
         IF j \notin jobs \/ rec[j].phase # "collecting" THEN rec[j]
         ELSE [Stopping(rec[j]) EXCEPT !.timers = Stopping(rec[j]).timers \cup {"grace"}]]
  BY DEF Dispose
<1>3. ASSUME NEW j \in Jobs
      PROVE  /\ rec'[j] \in JobRecord /\ RecordOK(rec'[j], proc[j])
             /\ j \notin jobs' <=> rec'[j] = Fresh
  <2>1. CASE j \notin jobs \/ rec[j].phase # "collecting"
    BY <2>1, <1>1, <1>2, JobFacts
  <2>2. CASE j \in jobs /\ rec[j].phase = "collecting"
    <3> DEFINE s == Stopping(rec[j])
               x == [s EXCEPT !.timers = s.timers \cup {"grace"}]
    <3>1. rec'[j] = x
      BY <1>2, <2>2
    <3>2. rec[j].status \in Active
      BY <2>2, JobFacts DEF RecordOK
    <3>3. s \in JobRecord /\ RecordOK(s, proc[j]) /\ s # Fresh
      BY <2>2, <3>2, JobFacts, StoppingOK
    <3>4. s.phase = "collecting"
      BY <2>2, JobFacts DEF Stopping, JobRecord
    <3> HIDE DEF s
    <3>5. s.handle # "none"
      BY <3>3, <3>4 DEF RecordOK
    <3>6. x \in JobRecord /\ RecordOK(x, proc[j]) /\ x # Fresh
      BY <3>3, <3>4, <3>5 DEF JobRecord, RecordOK, Fresh, Timers
    <3> QED
      BY <1>1, <2>2, <3>1, <3>6
  <2> QED
    BY <2>1, <2>2
<1>4. rec' \in [Jobs -> JobRecord]
  BY <1>2, <1>3
<1>5. PICK saved \in SUBSET {j \in jobs : rec[j].status = "running"} :
        ledger' = [j \in Jobs |-> IF j \in saved
                                  THEN [status |-> "stopping", settled |-> FALSE]
                                  ELSE ledger[j]]
  BY DEF Dispose
<1> DEFINE row == [status |-> "stopping", settled |-> FALSE]
<1>6. row \in Row /\ row # NoRow /\ row.status # "none" /\ ~row.settled
  BY DEF Row, NoRow, Active
<1> HIDE DEF row
<1>7. ASSUME NEW k \in Jobs
      PROVE  /\ ledger'[k] \in Row
             /\ ledger'[k] = NoRow <=> ledger[k] = NoRow
             /\ ledger'[k] # NoRow => ledger'[k].status # "none"
             /\ ledger'[k].settled => Record!Truthful(ledger'[k].status, Fate(proc[k]))
             /\ k = starting => ledger'[k] = ledger[k]
  <2>1. CASE k \in saved
    <3>1. ledger'[k] = row
      BY <1>5, <2>1 DEF row
    <3>2. ledger[k] # NoRow /\ k # starting
      BY <2>1, OwnedFacts
    <3> QED
      BY <1>6, <3>1, <3>2
  <2>2. CASE k \notin saved
    BY <1>5, <2>2, JobFacts DEF RowOK
  <2> QED
    BY <2>1, <2>2
<1>8. RowsKept
  BY <1>5, <1>7 DEF RowsKept
<1>9. jobs' \subseteq {k \in Jobs : ledger[k] # NoRow /\ k # starting}
  BY <1>1, OwnedFacts
<1> QED
  BY <1>1, <1>3, <1>4, <1>8, <1>9, FrameOK

LEMMA LeaveOK == Inv /\ (DisposeEnds \/ Crash) => Inv'
<1> SUFFICES ASSUME Inv, DisposeEnds \/ Crash PROVE Inv'
  OBVIOUS
<1>1. /\ registry' = "absent" /\ jobs' = {} /\ rec' = [j \in Jobs |-> Fresh] /\ closing' = {}
      /\ UNCHANGED <<ledger, proc, thrown>>
      /\ starting' \in {starting, NoJob}
  BY DEF DisposeEnds, Crash
<1>2. starting' = NoJob
  <2>1. CASE DisposeEnds
    BY <2>1 DEF DisposeEnds, Inv, SafeInv, StartingOK
  <2>2. CASE Crash
    BY <2>2 DEF Crash
  <2> QED
    BY <2>1, <2>2
<1>3. TypeOK'
  BY <1>1, <1>2, FreshOK DEF Inv, TypeOK
<1>4. ASSUME NEW k \in Jobs
      PROVE  /\ ProcessOK(proc'[k]) /\ RecordOK(rec'[k], proc'[k]) /\ RowOK(k)'
             /\ k \notin jobs' <=> rec'[k] = Fresh
  BY <1>1, JobFacts, FreshOK DEF RowOK
<1>5. StartingOK'
  BY <1>2 DEF StartingOK
<1> QED
  BY <1>3, <1>4, <1>5 DEF Inv, SafeInv
-----------------------------------------------------------------------------
(* Steps of the processes themselves.                                        *)

(* q is p after some of its members died.                                    *)
Aged(p, q) == /\ \/ q.shell = p.shell /\ q.code = p.code
                 \/ p.shell = "live" /\ q.shell = "dead"
              /\ q.desc \in {p.desc, "none"}

LEMMA AgedOK ==
  ASSUME NEW r \in JobRecord, NEW p \in Process, NEW q \in Process,
         p.shell # "none", Aged(p, q), RecordOK(r, p)
  PROVE  RecordOK(r, q)
<1>1. r.phase # "collecting" => Record!Truthful(r.status, Fate(q))
  BY DEF RecordOK, Record!Truthful, Fate, Aged, Process
<1>2. ~GroupAlive(p) => ~GroupAlive(q)
  BY DEF GroupAlive, Aged, Process
<1>3. q.shell # "none" /\ (p.shell = "dead" => q.shell = "dead")
  BY DEF Aged, Process
<1> QED
  BY <1>1, <1>2, <1>3 DEF RecordOK

LEMMA ProcessStepOK ==
  ASSUME Inv, NEW j \in Jobs, NEW q \in Process, ProcessOK(q),
         proc[j].shell # "none", Aged(proc[j], q),
         proc' = [proc EXCEPT ![j] = q],
         NEW x \in JobRecord, rec' = [rec EXCEPT ![j] = x],
         RecordOK(x, q), j \notin jobs <=> x = Fresh,
         UNCHANGED <<registry, starting, jobs, thrown, closing, ledger>>
  PROVE  Inv'
<1>1. rec' \in [Jobs -> JobRecord] /\ proc' \in [Jobs -> Process] /\ rec'[j] = x /\ proc'[j] = q
  BY DEF Inv, TypeOK
<1>2. TypeOK'
  BY <1>1 DEF Inv, TypeOK
<1>3. j # starting /\ j \notin thrown /\ proc[j] # NoProcess
  BY JobsAssumption, JobFacts DEF Inv, SafeInv, StartingOK, RowOK, NoProcess
<1>4. ledger[j].settled => Record!Truthful(ledger[j].status, Fate(q))
  BY JobFacts DEF RowOK, Record!Truthful, Fate, Aged, Process
<1>5. ASSUME NEW k \in Jobs
      PROVE  /\ ProcessOK(proc'[k]) /\ RecordOK(rec'[k], proc'[k]) /\ RowOK(k)'
             /\ k \notin jobs' <=> rec'[k] = Fresh
  <2>1. CASE k = j
    BY <2>1, <1>1, <1>3, <1>4, JobFacts DEF RowOK
  <2>2. CASE k # j
    <3>1. rec'[k] = rec[k] /\ proc'[k] = proc[k]
      BY <2>2 DEF Inv, TypeOK
    <3> QED
      BY <3>1, JobFacts DEF RowOK
  <2> QED
    BY <2>1, <2>2
<1>6. StartingOK'
  BY <1>3 DEF Inv, TypeOK, SafeInv, StartingOK
<1> QED
  BY <1>2, <1>5, <1>6 DEF Inv, SafeInv

LEMMA ShellExitsOK == ASSUME Inv, NEW j \in Jobs, ShellExits(j) PROVE Inv'
<1>1. PICK c \in {"zero", "nonzero", "signal"} :
        proc' = [proc EXCEPT ![j].shell = "dead", ![j].code = c]
  BY DEF ShellExits
<1> DEFINE q == [proc[j] EXCEPT !.shell = "dead", !.code = c]
<1>2. proc[j] \in Process /\ ProcessOK(proc[j]) /\ proc[j].shell = "live"
  BY JobFacts DEF ShellExits
<1>3. proc' = [proc EXCEPT ![j] = q]
  BY <1>1 DEF Inv, TypeOK
<1>4. q \in Process /\ ProcessOK(q) /\ Aged(proc[j], q)
  BY <1>2 DEF Process, ProcessOK, Aged, Exits
<1> HIDE DEF q
<1>5. RecordOK(rec[j], q)
  BY <1>2, <1>4, JobFacts, AgedOK
<1>6. rec' = [rec EXCEPT ![j] = rec[j]]
  BY DEF ShellExits, Inv, TypeOK
<1>7. UNCHANGED <<registry, starting, jobs, thrown, closing, ledger>>
  BY DEF ShellExits
<1> QED
  BY <1>2, <1>3, <1>4, <1>5, <1>6, <1>7, JobFacts, ProcessStepOK

LEMMA DescendantsExitOK == ASSUME Inv, NEW j \in Jobs, DescendantsExit(j) PROVE Inv'
<1> DEFINE q == [proc[j] EXCEPT !.desc = "none"]
<1>1. proc[j] \in Process /\ ProcessOK(proc[j]) /\ proc[j].shell # "none"
  BY JobFacts DEF DescendantsExit, ProcessOK
<1>2. proc' = [proc EXCEPT ![j] = q]
  BY DEF DescendantsExit, Inv, TypeOK
<1>3. q \in Process /\ ProcessOK(q) /\ Aged(proc[j], q)
  BY <1>1 DEF Process, ProcessOK, Aged
<1> HIDE DEF q
<1>4. RecordOK(rec[j], q)
  BY <1>1, <1>3, JobFacts, AgedOK
<1>5. rec' = [rec EXCEPT ![j] = rec[j]]
  BY DEF DescendantsExit, Inv, TypeOK
<1>6. UNCHANGED <<registry, starting, jobs, thrown, closing, ledger>>
  BY DEF DescendantsExit
<1> QED
  BY <1>1, <1>2, <1>3, <1>4, <1>5, <1>6, JobFacts, ProcessStepOK

LEMMA SweepAttemptOK == ASSUME Inv, NEW j \in Jobs, SweepAttempt(j) PROVE Inv'
<1>1. /\ registry # "absent" /\ rec[j].sweep = "running"
      /\ UNCHANGED <<registry, starting, jobs, ledger, thrown, closing>>
  BY DEF SweepAttempt, Idle
<1>2. /\ rec[j] \in JobRecord /\ RecordOK(rec[j], proc[j]) /\ proc[j] \in Process
      /\ ProcessOK(proc[j]) /\ rec[j] # Fresh /\ j \in jobs
      /\ rec[j].handle = "pid" /\ proc[j].shell # "none" /\ rec[j].phase # "released"
      /\ rec[j].attempts < MaxSweeps
  BY <1>1, JobFacts DEF Fresh, RecordOK, JobRecord
<1>3. CASE ~GroupAlive(proc[j])
  <2> DEFINE x == [rec[j] EXCEPT !.sweep = "done"]
  <2>1. rec' = [rec EXCEPT ![j] = x] /\ proc' = proc
    BY <1>3 DEF SweepAttempt, Inv, TypeOK
  <2>2. x \in JobRecord /\ RecordOK(x, proc[j]) /\ x # Fresh
    BY <1>2, <1>3 DEF JobRecord, RecordOK, Fresh
  <2> QED
    BY <1>1, <1>2, <2>1, <2>2, SameRows, OneRecordOK
<1>4. CASE GroupAlive(proc[j])
  <2> DEFINE last == LastSweep(rec[j])
             x == [rec[j] EXCEPT !.attempts = rec[j].attempts + 1,
                                 !.unconfirmed = rec[j].unconfirmed \/ last,
                                 !.sweep = IF last THEN "done" ELSE "running"]
             q == Killed(proc[j])
  <2>1. rec' = [rec EXCEPT ![j] = x] /\ proc' = [proc EXCEPT ![j] = q]
    BY <1>4 DEF SweepAttempt
  <2>2. q \in Process /\ ProcessOK(q) /\ Aged(proc[j], q)
    <3>1. CASE ~proc[j].mortal
      BY <1>2, <3>1 DEF Process, ProcessOK, Aged, Killed
    <3>2. CASE proc[j].mortal
      BY <1>2, <3>2 DEF Process, ProcessOK, Aged, Killed, Exits
    <3> QED
      BY <3>1, <3>2
  <2> HIDE DEF q
  <2>3. RecordOK(rec[j], q) /\ q.shell # "none"
    BY <1>2, <2>2, AgedOK DEF Aged
  <2>6. /\ rec[j].attempts + 1 \in 0..MaxSweeps
        /\ ~last => rec[j].attempts + 1 < MaxSweeps
    BY <1>2, JobsAssumption DEF JobRecord, LastSweep
  <2> HIDE DEF last
  <2>4. x \in JobRecord /\ x # Fresh
    <3>1. x \in JobRecord
      BY <1>2, <2>6 DEF JobRecord
    <3>2. x.handle # "none"
      BY <1>2 DEF JobRecord
    <3> QED
      BY <3>1, <3>2 DEF Fresh
  <2>5. RecordOK(x, q)
    <3> DEFINE n == rec[j].attempts + 1
               w == IF last THEN "done" ELSE "running"
               u == rec[j].unconfirmed \/ last
    <3>1. /\ w = "running" => n < MaxSweeps
          /\ w = "done" => u
          /\ w # "none"
      BY <2>6
    <3>2. x = [rec[j] EXCEPT !.attempts = n, !.unconfirmed = u, !.sweep = w]
      OBVIOUS
    <3> HIDE DEF n, w, u
    <3> QED
      BY <1>2, <2>3, <3>1, <3>2 DEF RecordOK, JobRecord
  <2> QED
    BY <1>1, <1>2, <2>1, <2>2, <2>4, <2>5, ProcessStepOK
<1> QED
  BY <1>3, <1>4
-----------------------------------------------------------------------------
LEMMA BookkeepingOK == Inv /\ Bookkeeping => Inv'
<1> SUFFICES ASSUME Inv, Bookkeeping PROVE Inv'
  OBVIOUS
<1>1. registry # "absent" /\ starting = NoJob
  BY DEF Bookkeeping, Idle
<1>2. CASE \E ids \in SUBSET Jobs, b \in Batches : MarkSubmitted(ids, b)
  BY <1>1, <1>2, MarkSubmittedOK
<1>3. CASE \E b \in Batches : MarkRecorded(b) \/ Requeue(b)
  BY <1>1, <1>3, MarkRecordedOK, RequeueOK
<1>4. CASE \E ids \in SUBSET Jobs, moved \in BOOLEAN : ReconcileRecorded(ids, moved)
  BY <1>1, <1>4, ReconcileRecordedOK
<1> QED
  BY <1>2, <1>3, <1>4 DEF Bookkeeping

LEMMA ExecutionOK == ASSUME Inv, NEW j \in Jobs, Execution(j) PROVE Inv'
<1>1. CASE Start(j)
  BY <1>1, StartIntentOK, StartSpawnOK, StartNoPidOK, StartThrowsOK DEF Start
<1>2. CASE Stop(j) \/ TimeoutFires(j)
  BY <1>2, StopOK, TimeoutFiresOK
<1>3. CASE Events(j)
  BY <1>3, ErrorEventOK, ExitEventOK, StreamTimerFiresOK, CloseEventOK, SweepAttemptOK,
     GraceFiresOK, ReleaseOK, ReleaseDiscardedOK DEF Events
<1>4. CASE ShellExits(j) \/ DescendantsExit(j)
  BY <1>4, ShellExitsOK, DescendantsExitOK
<1> QED
  BY <1>1, <1>2, <1>3, <1>4 DEF Execution

LEMMA NextOK == Inv /\ [Next]_vars => Inv'
<1> SUFFICES ASSUME Inv, [Next]_vars PROVE Inv'
  OBVIOUS
<1>1. CASE Lifecycle
  BY <1>1, OpenOK, DisposeOK, LeaveOK DEF Lifecycle
<1>2. CASE Bookkeeping
  BY <1>2, BookkeepingOK
<1>3. CASE \E j \in Jobs : Execution(j)
  BY <1>3, ExecutionOK
<1>4. CASE UNCHANGED vars
  BY <1>4 DEF vars, Inv, TypeOK, SafeInv, RowOK, StartingOK
<1> QED
  BY <1>1, <1>2, <1>3, <1>4 DEF Next
-----------------------------------------------------------------------------
LEMMA Inductive == Spec => []Inv
<1> QED
  BY InitOK, NextOK, PTL DEF Spec

(* Every variable of the registry keeps its type, for any number of jobs,    *)
(* crashes and restarts (bash-jobs.ts, bash-ledger.ts).                      *)
THEOREM TypeCorrect == Spec => []TypeOK
<1>1. Inv => TypeOK
  BY DEF Inv
<1> QED
  BY <1>1, Inductive, PTL

(* SafeInv holds in every reachable state: each record agrees with its       *)
(* process, its row and its own timers.                                      *)
THEOREM RecordsAgree == Spec => []SafeInv
<1>1. Inv => SafeInv
  BY DEF Inv
<1> QED
  BY <1>1, Inductive, PTL

(* No status the registry reports as final contradicts how the shell ended,  *)
(* whatever stop, timeout, spawn error, shutdown grace or recovery came      *)
(* between (#terminalize, recoverSnapshot).                                  *)
THEOREM ReportsAreTruthful == Spec => []ReportedIsTruthful
<1>1. Inv => ReportedIsTruthful
  <2> SUFFICES ASSUME Inv, NEW j \in jobs, rec[j].status \in Results
               PROVE  Record!Truthful(rec[j].status, Fate(proc[j]))
    BY DEF ReportedIsTruthful
  <2>1. RecordOK(rec[j], proc[j])
    BY OwnedFacts, JobFacts
  <2>2. rec[j].status \notin Active
    BY DEF Results, Active
  <2> QED
    BY <2>1, <2>2 DEF RecordOK
<1> QED
  BY <1>1, Inductive, PTL

(* A stopped record released with a known outcome has no live process group  *)
(* (#sweepGroup, #release).                                                  *)
THEOREM StoppedTreesAreGone == Spec => []StoppedTreeIsGone
<1>1. Inv => StoppedTreeIsGone
  <2> SUFFICES ASSUME Inv, NEW j \in jobs, rec[j].sweep # "none",
                      rec[j].phase = "released", rec[j].status # "unknown"
               PROVE  ~GroupAlive(proc[j])
    BY DEF StoppedTreeIsGone
  <2>1. RecordOK(rec[j], proc[j]) /\ rec[j] \in JobRecord
    BY OwnedFacts, JobFacts
  <2>2. rec[j].sweep = "done" /\ ~rec[j].unconfirmed
    BY <2>1 DEF RecordOK, JobRecord
  <2> QED
    BY <2>1, <2>2 DEF RecordOK
<1> QED
  BY <1>1, Inductive, PTL

(* Nothing restored after a crash can look running: an active record has a   *)
(* process of this registry behind it (#restore, recoverSnapshot).           *)
THEOREM ActiveRecordsAreOwned == Spec => []ActiveIsOwned
<1>1. Inv => ActiveIsOwned
  <2> SUFFICES ASSUME Inv, NEW j \in jobs, rec[j].status \in Active
               PROVE  /\ rec[j].handle # "none"
                      /\ rec[j].phase = "collecting"
                      /\ rec[j].handle = "pid" => \/ proc[j].shell = "live"
                                                  \/ rec[j].told = "nothing"
                                                  \/ "stream" \in rec[j].timers
    BY DEF ActiveIsOwned
  <2>1. /\ RecordOK(rec[j], proc[j]) /\ rec[j] \in JobRecord /\ rec[j] # Fresh
    BY OwnedFacts, JobFacts
  <2>2. rec[j].phase = "collecting"
    BY <2>1 DEF RecordOK
  <2> QED
    BY <2>1, <2>2 DEF RecordOK, JobRecord
<1> QED
  BY <1>1, Inductive, PTL
-----------------------------------------------------------------------------
(* The refinement.                                                           *)

Durable == Inv /\ SettledIsReleased

(* What a step may do to one answer and to one row.                          *)
AnswerKept(k) ==
  k \in jobs \cap jobs' /\ rec[k].phase = "released" =>
     rec'[k].phase = "released" /\ rec'[k].status = rec[k].status

Good == /\ SettledIsReleased'
        /\ [Record!Next]_(Record!recordVars)
        /\ \A k \in Jobs : AnswerKept(k)
-----------------------------------------------------------------------------
(* The steps of CommandRecord, seen from the rows and processes.             *)

LEMMA StutterOK ==
  ASSUME \A k \in Jobs : Fact(k)' = Fact(k) /\ Fate(proc'[k]) = Fate(proc[k])
  PROVE  UNCHANGED Record!recordVars
BY DEF Record!recordVars

LEMMA IntendOK ==
  ASSUME NEW j \in Jobs, Fact(j) = "absent",
         \A k \in Jobs : /\ Fact(k)' = IF k = j THEN "intent" ELSE Fact(k)
                         /\ Fate(proc'[k]) = Fate(proc[k])
  PROVE  Record!Next
BY DEF Record!Next, Record!Intend

LEMMA RunOK ==
  ASSUME NEW j \in Jobs, Fact(j) = "intent", Fate(proc[j]) = "never",
         \A k \in Jobs : /\ Fact(k)' = Fact(k)
                         /\ Fate(proc'[k]) = IF k = j THEN "live" ELSE Fate(proc[k])
  PROVE  Record!Next
BY DEF Record!Next, Record!Run

LEMMA EndOK ==
  ASSUME NEW j \in Jobs, Fate(proc[j]) = "live", NEW f \in {"zero", "nonzero", "signal"},
         \A k \in Jobs : /\ Fact(k)' = Fact(k)
                         /\ Fate(proc'[k]) = IF k = j THEN f ELSE Fate(proc[k])
  PROVE  Record!Next
BY DEF Record!Next, Record!End

LEMMA SettleOK ==
  ASSUME NEW j \in Jobs, Fact(j) = "intent", NEW s \in Results,
         Record!Truthful(s, Fate(proc[j])),
         \A k \in Jobs : /\ Fact(k)' = IF k = j THEN s ELSE Fact(k)
                         /\ Fate(proc'[k]) = Fate(proc[k])
  PROVE  Record!Next
BY DEF Record!Next, Record!Settle, Record!Results, Results, Record!Truthful
-----------------------------------------------------------------------------
(* Rows a step keeps as facts.                                               *)
RowsSame == \A k \in Jobs : Fact(k)' = Fact(k) /\ ledger'[k].settled = ledger[k].settled

LEMMA SameLedger == ASSUME ledger' = ledger PROVE RowsSame
BY DEF RowsSame, Fact

LEMMA IntentSaved ==
  ASSUME Durable, NEW j \in Jobs, ledger[j] # NoRow, ~ledger[j].settled,
         NEW s \in Active, Save(j, s, FALSE)
  PROVE  RowsSame
<1>1. CASE UNCHANGED ledger
  BY <1>1, SameLedger
<1>2. CASE ledger' = [ledger EXCEPT ![j] = [status |-> s, settled |-> FALSE]]
  <2>1. \A k \in Jobs : ledger'[k] = IF k = j THEN [status |-> s, settled |-> FALSE]
                                     ELSE ledger[k]
    BY <1>2 DEF Durable, Inv, TypeOK
  <2>2. [status |-> s, settled |-> FALSE] # NoRow
    BY DEF Active, NoRow
  <2>3. ledger[j].settled = FALSE
    BY DEF Durable, Inv, TypeOK, Row
  <2>4. ledger'[j].settled = FALSE /\ ledger'[j] # NoRow
    BY <2>1, <2>2
  <2>5. Fact(j)' = Fact(j)
    BY <2>3, <2>4 DEF Fact
  <2>6. \A k \in Jobs \ {j} : ledger'[k] = ledger[k]
    BY <2>1
  <2> QED
    BY <2>3, <2>4, <2>5, <2>6 DEF RowsSame, Fact
<1> QED
  BY <1>1, <1>2 DEF Save

(* A step that starts nothing, ends nothing and settles nothing.             *)
LEMMA QuietOK ==
  ASSUME Durable, RowsSame, registry' # "absent",
         UNCHANGED <<proc, thrown>>, closing' \subseteq closing,
         jobs' \subseteq Jobs,
         \A k \in Jobs : /\ AnswerKept(k)
                         /\ k \in jobs' /\ rec'[k].phase # "released" => ~ledger[k].settled
                         /\ k \in thrown => rec'[k].handle = "none"
  PROVE  Good
<1>1. SettledIsReleased'
  BY DEF SettledIsReleased, RowsSame, Durable, Inv, TypeOK
<1>2. UNCHANGED Record!recordVars
  BY StutterOK DEF RowsSame
<1> QED
  BY <1>1, <1>2 DEF Good

(* The same for a step on one record of the map.                             *)
LEMMA QuietRecordOK ==
  ASSUME Durable, RowsSame, registry # "absent", NEW j \in jobs, NEW x,
         UNCHANGED <<registry, jobs, proc, thrown, closing>>,
         rec' = [rec EXCEPT ![j] = x],
         x.phase # "released" => rec[j].phase # "released",
         rec[j].phase = "released" => x.phase = "released" /\ x.status = rec[j].status,
         x.handle = rec[j].handle
  PROVE  Good
<1>1. j \in Jobs /\ jobs \subseteq Jobs
  BY OwnedFacts DEF Durable, Inv, TypeOK
<1>2. \A k \in Jobs : rec'[k] = IF k = j THEN x ELSE rec[k]
  BY DEF Durable, Inv, TypeOK
<1>3. \A k \in Jobs : /\ AnswerKept(k)
                      /\ k \in jobs' /\ rec'[k].phase # "released" => ~ledger[k].settled
                      /\ k \in thrown => rec'[k].handle = "none"
  BY <1>1, <1>2 DEF AnswerKept, Durable, SettledIsReleased
<1> QED
  BY <1>1, <1>3, QuietOK
-----------------------------------------------------------------------------
(* The actions that keep rows and processes, one record at a time.           *)

LEMMA TerminalizedKeeps ==
  ASSUME NEW r
  PROVE  /\ Terminalized(r).phase # "released" => r.phase # "released"
         /\ r.phase = "released" => Terminalized(r) = r
BY DEF Terminalized

LEMMA StopGood == ASSUME Durable, NEW j \in Jobs, Stop(j) PROVE Good
<1>1. /\ registry # "absent" /\ j \in jobs /\ rec[j].status \in Active
      /\ rec' = [rec EXCEPT ![j] = Stopping(rec[j])]
      /\ UNCHANGED <<registry, jobs, proc, thrown, closing>>
  BY DEF Stop, Idle
<1>2. rec[j].phase = "collecting" /\ rec[j] \in JobRecord
  BY <1>1, JobFacts DEF Durable, RecordOK
<1>3. RowsSame
  <2>1. ledger[j] # NoRow /\ ~ledger[j].settled
    BY <1>1, <1>2, OwnedFacts DEF Durable, SettledIsReleased
  <2> QED
    BY <2>1, IntentSaved, SameLedger DEF Stop, Active
<1>4. /\ Stopping(rec[j]).phase = "collecting"
      /\ Stopping(rec[j]).handle = rec[j].handle
  BY <1>2 DEF Stopping, JobRecord
<1> QED
  BY <1>1, <1>2, <1>3, <1>4, QuietRecordOK

LEMMA TimeoutFiresGood == ASSUME Durable, NEW j \in Jobs, TimeoutFires(j) PROVE Good
<1> DEFINE r == [rec[j] EXCEPT !.timedOut = TRUE]
<1>1. /\ registry # "absent" /\ j \in jobs /\ "timeout" \in rec[j].timers
      /\ rec' = [rec EXCEPT ![j] = Stopping(r)]
      /\ UNCHANGED <<registry, jobs, proc, thrown, closing>>
  BY DEF TimeoutFires, Idle
<1>2. rec[j].phase = "collecting" /\ rec[j] \in JobRecord
  BY <1>1, JobFacts DEF Durable, RecordOK
<1>3. RowsSame
  <2>1. ledger[j] # NoRow /\ ~ledger[j].settled
    BY <1>1, <1>2, OwnedFacts DEF Durable, SettledIsReleased
  <2> QED
    BY <2>1, IntentSaved DEF TimeoutFires, Active
<1>4. r.phase = "collecting" /\ r.handle = rec[j].handle /\ r \in JobRecord
  BY <1>2 DEF JobRecord
<1> HIDE DEF r
<1>5. Stopping(r).phase = "collecting" /\ Stopping(r).handle = rec[j].handle
  BY <1>4 DEF Stopping, JobRecord
<1> QED
  BY <1>1, <1>2, <1>3, <1>5, QuietRecordOK

(* The steps of one record that save nothing.                                *)
LEMMA MemoryStepGood ==
  ASSUME Durable, registry # "absent", NEW j \in Jobs, rec[j] # Fresh, NEW x,
         rec' = [rec EXCEPT ![j] = x],
         x.phase # "released" => rec[j].phase # "released",
         rec[j].phase = "released" => x.phase = "released" /\ x.status = rec[j].status,
         x.handle = rec[j].handle,
         UNCHANGED <<registry, jobs, ledger, proc, thrown, closing>>
  PROVE  Good
<1>1. j \in jobs
  BY JobFacts DEF Durable
<1> QED
  BY <1>1, SameLedger, QuietRecordOK

LEMMA ErrorEventGood == ASSUME Durable, NEW j \in Jobs, ErrorEvent(j) PROVE Good
<1> DEFINE r == [rec[j] EXCEPT !.told = "close"]
           s == [r EXCEPT !.spawnFailed = TRUE]
           x == IF r.phase # "collecting" THEN r ELSE Terminalized(s)
<1>1. /\ registry # "absent" /\ rec[j].handle = "nopid" /\ rec[j] \in JobRecord
      /\ rec' = [rec EXCEPT ![j] = x]
      /\ UNCHANGED <<registry, jobs, ledger, proc, thrown, closing>>
  BY JobFacts DEF ErrorEvent, Idle, Durable
<1>2. rec[j] # Fresh
  BY <1>1 DEF Fresh
<1>3. /\ r.phase = rec[j].phase /\ r.status = rec[j].status /\ r.handle = rec[j].handle
      /\ s.phase = rec[j].phase /\ s.handle = rec[j].handle /\ s \in JobRecord
  BY <1>1 DEF JobRecord
<1> HIDE DEF s, r
<1>4. Terminalized(s).handle = s.handle
  BY <1>3 DEF Terminalized, JobRecord
<1>5. /\ x.phase # "released" => rec[j].phase # "released"
      /\ rec[j].phase = "released" => x.phase = "released" /\ x.status = rec[j].status
      /\ x.handle = rec[j].handle
  BY <1>3, <1>4
<1> HIDE DEF x
<1> QED
  BY <1>1, <1>2, <1>5, MemoryStepGood

LEMMA ExitEventGood == ASSUME Durable, NEW j \in Jobs, ExitEvent(j) PROVE Good
<1> DEFINE t == IF rec[j].phase = "collecting"
                THEN (rec[j].timers \ {"timeout"}) \cup {"stream"}
                ELSE rec[j].timers \ {"timeout"}
           x == [rec[j] EXCEPT !.told = "exit", !.timers = t]
<1>1. /\ registry # "absent" /\ rec[j].handle = "pid" /\ rec[j] \in JobRecord
      /\ rec' = [rec EXCEPT ![j] = x]
      /\ UNCHANGED <<registry, jobs, ledger, proc, thrown, closing>>
  BY JobFacts DEF ExitEvent, Idle, Durable
<1> HIDE DEF t
<1>2. rec[j] # Fresh
  BY <1>1 DEF Fresh
<1>3. x.phase = rec[j].phase /\ x.status = rec[j].status /\ x.handle = rec[j].handle
  BY <1>1 DEF JobRecord
<1> QED
  BY <1>1, <1>2, <1>3, MemoryStepGood

LEMMA StreamTimerFiresGood == ASSUME Durable, NEW j \in Jobs, StreamTimerFires(j) PROVE Good
<1> DEFINE r == [rec[j] EXCEPT !.timers = rec[j].timers \ {"stream"}, !.exit = proc[j].code]
<1>1. /\ registry # "absent" /\ "stream" \in rec[j].timers /\ rec[j] \in JobRecord
      /\ rec' = [rec EXCEPT ![j] = Terminalized(r)]
      /\ UNCHANGED <<registry, jobs, ledger, proc, thrown, closing>>
  BY JobFacts DEF StreamTimerFires, Idle, Durable
<1>2. rec[j] # Fresh
  BY <1>1 DEF Fresh
<1>3. rec[j].phase = "collecting"
  BY <1>1, JobFacts DEF Durable, RecordOK
<1>4. r.phase = "collecting" /\ r.handle = rec[j].handle
  BY <1>1, <1>3 DEF JobRecord
<1> HIDE DEF r
<1>6. Terminalized(r) = [r EXCEPT !.timers = r.timers \cap {"grace"}, !.phase = "draining",
                                  !.status = Outcome(r), !.delivery = "pending"]
  BY <1>4 DEF Terminalized
<1>7. r \in JobRecord
  BY <1>1, JobFacts DEF r, JobRecord, Durable, Process
<1>5. Terminalized(r).handle = rec[j].handle
  BY <1>4, <1>6, <1>7 DEF JobRecord
<1> QED
  BY <1>1, <1>2, <1>3, <1>5, MemoryStepGood

LEMMA CloseEventGood == ASSUME Durable, NEW j \in Jobs, CloseEvent(j) PROVE Good
<1> DEFINE r == [rec[j] EXCEPT !.timers = rec[j].timers \ {"timeout", "stream"},
                               !.told = "close"]
           s == [r EXCEPT !.exit = proc[j].code]
           x == IF r.phase # "collecting" THEN r ELSE Terminalized(s)
<1>1. /\ registry # "absent" /\ rec[j].handle = "pid" /\ rec[j] \in JobRecord
      /\ rec' = [rec EXCEPT ![j] = x]
      /\ UNCHANGED <<registry, jobs, ledger, proc, thrown, closing>>
  BY JobFacts DEF CloseEvent, Idle, Durable
<1>2. rec[j] # Fresh /\ proc[j] \in Process
  BY <1>1, JobFacts DEF Fresh, Durable
<1>3. /\ r.phase = rec[j].phase /\ r.status = rec[j].status /\ r.handle = rec[j].handle
      /\ s.phase = rec[j].phase /\ s.handle = rec[j].handle /\ s \in JobRecord
  BY <1>1, <1>2 DEF JobRecord, Process
<1> HIDE DEF s, r
<1>4. Terminalized(s).handle = s.handle
  BY <1>3 DEF Terminalized, JobRecord
<1>5. /\ x.phase # "released" => rec[j].phase # "released"
      /\ rec[j].phase = "released" => x.phase = "released" /\ x.status = rec[j].status
      /\ x.handle = rec[j].handle
  BY <1>3, <1>4
<1> HIDE DEF x
<1> QED
  BY <1>1, <1>2, <1>5, MemoryStepGood

LEMMA GraceFiresGood == ASSUME Durable, NEW j \in Jobs, GraceFires(j) PROVE Good
<1> DEFINE r == [rec[j] EXCEPT !.timers = rec[j].timers \ {"grace"}]
           s == [r EXCEPT !.unconfirmed = TRUE, !.exit = "none"]
           x == IF r.phase # "collecting" THEN r ELSE Terminalized(s)
<1>1. /\ registry # "absent" /\ "grace" \in rec[j].timers /\ rec[j] \in JobRecord
      /\ rec' = [rec EXCEPT ![j] = x]
      /\ UNCHANGED <<registry, jobs, ledger, proc, thrown, closing>>
  BY JobFacts DEF GraceFires, Idle, Durable
<1>2. rec[j] # Fresh
  BY <1>1 DEF Fresh
<1>3. /\ r.phase = rec[j].phase /\ r.status = rec[j].status /\ r.handle = rec[j].handle
      /\ s.phase = rec[j].phase /\ s.handle = rec[j].handle /\ s \in JobRecord
  BY <1>1 DEF JobRecord, Exits
<1> HIDE DEF s, r
<1>4. Terminalized(s).handle = s.handle
  BY <1>3 DEF Terminalized, JobRecord
<1>5. /\ x.phase # "released" => rec[j].phase # "released"
      /\ rec[j].phase = "released" => x.phase = "released" /\ x.status = rec[j].status
      /\ x.handle = rec[j].handle
  BY <1>3, <1>4
<1> HIDE DEF x
<1> QED
  BY <1>1, <1>2, <1>5, MemoryStepGood
-----------------------------------------------------------------------------
(* Releases: the row is settled, once.                                       *)

(* After saving s as the result of j, the promise sees a settlement or       *)
(* nothing.                                                                  *)
LEMMA ResultSaved ==
  ASSUME Durable, NEW j \in Jobs, ledger[j] # NoRow, ~ledger[j].settled,
         NEW s \in Results, Record!Truthful(s, Fate(proc[j])),
         Save(j, s, TRUE), proc' = proc
  PROVE  /\ [Record!Next]_(Record!recordVars)
         /\ \A k \in Jobs \ {j} : ledger'[k] = ledger[k]
<1>1. CASE UNCHANGED ledger
  <2>1. UNCHANGED Record!recordVars
    BY <1>1, SameLedger, StutterOK DEF RowsSame
  <2> QED
    BY <1>1, <2>1
<1>2. CASE ledger' = [ledger EXCEPT ![j] = [status |-> s, settled |-> TRUE]]
  <2>1. ledger'[j] = [status |-> s, settled |-> TRUE]
    BY <1>2 DEF Durable, Inv, TypeOK
  <2>2. \A k \in Jobs \ {j} : ledger'[k] = ledger[k]
    BY <1>2 DEF Durable, Inv, TypeOK
  <2>3. [status |-> s, settled |-> TRUE] # NoRow
    BY DEF NoRow
  <2>4. Fact(j)' = s
    BY <2>1, <2>3 DEF Fact
  <2>5. Fact(j) = "intent"
    BY DEF Fact
  <2>6. \A k \in Jobs : Fact(k)' = IF k = j THEN s ELSE Fact(k)
    BY <2>2, <2>4 DEF Fact
  <2>7. Record!Next
    BY <2>5, <2>6, SettleOK
  <2> QED
    BY <2>2, <2>7
<1> QED
  BY <1>1, <1>2 DEF Save

(* What #evict leaves of the records it was given.                           *)
LEMMA EvictKeeps ==
  ASSUME NEW js, NEW r, Evict(js, r)
  PROVE  /\ jobs' \subseteq js
         /\ \A k \in Jobs : /\ k \in jobs' => rec'[k] = r[k]
                            /\ r[k].handle = "none" => rec'[k].handle = "none"
<1>1. PICK gone : /\ jobs' = js \ gone
                  /\ rec' = [k \in Jobs |-> IF k \in gone THEN Fresh ELSE r[k]]
  BY DEF Evict
<1>2. Fresh.handle = "none"
  BY DEF Fresh
<1> QED
  BY <1>1, <1>2

LEMMA ReleaseGood == ASSUME Durable, NEW j \in Jobs, Release(j) PROVE Good
<1> DEFINE x == Released(rec[j])
           r == [rec EXCEPT ![j] = x]
<1>1. /\ registry # "absent" /\ rec[j].phase = "draining" /\ rec[j] \in JobRecord
      /\ Save(j, x.status, TRUE) /\ Evict(jobs, r)
      /\ UNCHANGED <<registry, proc, thrown, closing>>
  BY JobFacts DEF Release, Idle, Durable
<1>2. j \in jobs /\ jobs \subseteq Jobs
  BY <1>1, JobFacts DEF Fresh, Durable, Inv, TypeOK
<1>3. ledger[j] # NoRow /\ ~ledger[j].settled
  BY <1>1, <1>2, OwnedFacts DEF Durable, SettledIsReleased
<1>4. RecordOK(rec[j], proc[j])
  BY JobFacts DEF Durable
<1>5. rec[j].status \in Results /\ Record!Truthful(rec[j].status, Fate(proc[j]))
  BY <1>1, <1>4 DEF RecordOK, JobRecord
<1>6. /\ x.phase = "released" /\ x.handle = rec[j].handle
      /\ x.status \in {rec[j].status, "unknown"}
  BY <1>1 DEF Released, JobRecord
<1>7. x.status \in Results /\ Record!Truthful(x.status, Fate(proc[j]))
  BY <1>5, <1>6 DEF Results, Record!Truthful
<1>8. /\ [Record!Next]_(Record!recordVars)
      /\ \A k \in Jobs \ {j} : ledger'[k] = ledger[k]
  BY <1>1, <1>3, <1>7, ResultSaved
<1> HIDE DEF x
<1>9. \A k \in Jobs : r[k] = IF k = j THEN x ELSE rec[k]
  BY DEF Durable, Inv, TypeOK
<1> HIDE DEF r
<1>10. /\ jobs' \subseteq jobs
       /\ \A k \in Jobs : /\ k \in jobs' => rec'[k] = r[k]
                          /\ r[k].handle = "none" => rec'[k].handle = "none"
  BY <1>1, EvictKeeps
<1>11. j \notin closing
  <2>1. rec[j].handle # "none"
    <3>1. rec[j].phase # "released" /\ rec[j] # Fresh
      BY <1>1 DEF Fresh
    <3> QED
      BY <1>4, <3>1 DEF RecordOK
  <2> QED
    BY <2>1 DEF Durable, SettledIsReleased, Inv, TypeOK
<1>12. SettledIsReleased'
  <2>1. \A k \in thrown : rec'[k].handle = "none"
    <3> TAKE k \in thrown
    <3>1. k \in Jobs /\ rec[k].handle = "none"
      BY DEF Durable, SettledIsReleased, Inv, TypeOK
    <3>2. r[k].handle = "none"
      BY <1>6, <1>9, <3>1
    <3> QED
      BY <1>10, <3>1, <3>2
  <2>2. \A k \in jobs' : rec'[k].phase # "released" => ~ledger'[k].settled
    <3> TAKE k \in jobs'
    <3>1. k \in Jobs /\ k \in jobs /\ rec'[k] = r[k]
      BY <1>2, <1>10
    <3>2. CASE k = j
      BY <1>6, <1>9, <3>1, <3>2
    <3>3. CASE k # j
      BY <1>8, <1>9, <3>1, <3>3 DEF Durable, SettledIsReleased
    <3> QED
      BY <3>2, <3>3
  <2>3. \A k \in closing : ~ledger'[k].settled
    BY <1>8, <1>11 DEF Durable, SettledIsReleased, Inv, TypeOK
  <2> QED
    BY <1>1, <2>1, <2>2, <2>3 DEF SettledIsReleased
<1>13. \A k \in Jobs : AnswerKept(k)
  BY <1>1, <1>9, <1>10 DEF AnswerKept
<1> QED
  BY <1>8, <1>12, <1>13 DEF Good

LEMMA ReleaseDiscardedGood == ASSUME Durable, NEW j \in Jobs, ReleaseDiscarded(j) PROVE Good
<1> DEFINE f == [Fresh EXCEPT !.spawnFailed = TRUE]
<1>1. /\ registry # "absent" /\ j \in closing /\ closing' = closing \ {j}
      /\ Save(j, Outcome(f), TRUE) /\ Evict(jobs, rec)
      /\ UNCHANGED <<registry, proc, thrown>>
  BY DEF ReleaseDiscarded, Idle
<1>2. j \in thrown /\ jobs \subseteq Jobs /\ closing \subseteq Jobs
  BY <1>1 DEF Durable, Inv, TypeOK
<1>3. ledger[j] # NoRow /\ ~ledger[j].settled /\ proc[j].shell = "none"
  BY <1>1, <1>2, JobFacts DEF Durable, SettledIsReleased, RowOK
<1>4. Outcome(f) = "failed"
  BY DEF Outcome, Fresh
<1>5. "failed" \in Results /\ Record!Truthful("failed", Fate(proc[j]))
  BY <1>3 DEF Results, Record!Truthful, Fate
<1>6. /\ [Record!Next]_(Record!recordVars)
      /\ \A k \in Jobs \ {j} : ledger'[k] = ledger[k]
  BY <1>1, <1>3, <1>4, <1>5, ResultSaved
<1>7. /\ jobs' \subseteq jobs
      /\ \A k \in Jobs : /\ k \in jobs' => rec'[k] = rec[k]
                         /\ rec[k].handle = "none" => rec'[k].handle = "none"
  BY <1>1, EvictKeeps
<1>8. j \in jobs => rec[j].phase = "released"
  <2> SUFFICES ASSUME j \in jobs PROVE rec[j].phase = "released"
    OBVIOUS
  <2>1. rec[j].handle = "none"
    BY <1>2 DEF Durable, SettledIsReleased
  <2> QED
    BY <2>1, JobFacts DEF Durable, RecordOK
<1>9. SettledIsReleased'
  <2>1. \A k \in thrown : rec'[k].handle = "none"
    <3> TAKE k \in thrown
    <3>1. k \in Jobs /\ rec[k].handle = "none"
      BY DEF Durable, SettledIsReleased, Inv, TypeOK
    <3> QED
      BY <1>7, <3>1
  <2>2. \A k \in jobs' : rec'[k].phase # "released" => ~ledger'[k].settled
    BY <1>2, <1>6, <1>7, <1>8 DEF Durable, SettledIsReleased
  <2>3. \A k \in closing' : ~ledger'[k].settled
    BY <1>1, <1>2, <1>6 DEF Durable, SettledIsReleased
  <2> QED
    BY <1>1, <2>1, <2>2, <2>3 DEF SettledIsReleased
<1>10. \A k \in Jobs : AnswerKept(k)
  BY <1>7 DEF AnswerKept
<1> QED
  BY <1>6, <1>9, <1>10 DEF Good
-----------------------------------------------------------------------------
(* Delivery bookkeeping touches neither phases nor statuses nor rows.        *)

LEMMA EvictGood ==
  ASSUME Durable, registry # "absent", NEW js \in SUBSET Jobs, NEW r,
         UNCHANGED <<registry, ledger, proc, thrown, closing>>, Evict(js, r),
         \A k \in Jobs : /\ k \in js /\ r[k].phase # "released" => ~ledger[k].settled
                         /\ k \in jobs /\ rec[k].phase = "released" =>
                              r[k].phase = "released" /\ r[k].status = rec[k].status
                         /\ k \in thrown => r[k].handle = "none"
  PROVE  Good
<1>1. /\ jobs' \subseteq js
      /\ \A k \in Jobs : /\ k \in jobs' => rec'[k] = r[k]
                         /\ r[k].handle = "none" => rec'[k].handle = "none"
  BY EvictKeeps
<1>2. \A k \in Jobs : /\ AnswerKept(k)
                      /\ k \in jobs' /\ rec'[k].phase # "released" => ~ledger[k].settled
                      /\ k \in thrown => rec'[k].handle = "none"
  <2> TAKE k \in Jobs
  <2>1. k \in jobs' => k \in js /\ rec'[k] = r[k]
    BY <1>1
  <2>2. AnswerKept(k)
    BY <2>1 DEF AnswerKept
  <2>3. k \in thrown => rec'[k].handle = "none"
    BY <1>1
  <2> QED
    BY <2>1, <2>2, <2>3
<1> QED
  BY <1>1, <1>2, SameLedger, QuietOK

LEMMA RelabelKeeps ==
  ASSUME NEW r \in JobRecord, NEW d, NEW b
  PROVE  LET x == [r EXCEPT !.delivery = d, !.batch = b]
         IN  x.phase = r.phase /\ x.status = r.status /\ x.handle = r.handle
BY DEF JobRecord

LEMMA BookkeepingGood == Durable /\ Bookkeeping => Good
<1> SUFFICES ASSUME Durable, Bookkeeping PROVE Good
  OBVIOUS
<1>1. registry # "absent" /\ jobs \subseteq Jobs /\ rec \in [Jobs -> JobRecord]
  BY DEF Bookkeeping, Idle, Durable, Inv, TypeOK
<1>2. ASSUME NEW ids, NEW b, MarkSubmitted(ids, b) PROVE Good
  <2> DEFINE r == [k \in Jobs |->
                    IF k \in ids \cap jobs /\ rec[k].delivery = "pending"
                    THEN [rec[k] EXCEPT !.delivery = "submitted", !.batch = b] ELSE rec[k]]
  <2>1. Evict(jobs, r) /\ UNCHANGED <<registry, ledger, proc, thrown, closing>>
    BY <1>2 DEF MarkSubmitted
  <2>2. \A k \in Jobs : /\ r[k].phase = rec[k].phase /\ r[k].status = rec[k].status
                        /\ r[k].handle = rec[k].handle
    BY <1>1, RelabelKeeps
  <2> HIDE DEF r
  <2> QED
    BY <1>1, <2>1, <2>2, EvictGood DEF Durable, SettledIsReleased
<1>3. ASSUME NEW b, MarkRecorded(b) PROVE Good
  <2> DEFINE r == [k \in Jobs |->
                    IF k \in Submitted(b)
                    THEN [rec[k] EXCEPT !.delivery = "recorded", !.batch = NoBatch]
                    ELSE rec[k]]
  <2>1. Evict(jobs, r) /\ UNCHANGED <<registry, ledger, proc, thrown, closing>>
    BY <1>3 DEF MarkRecorded
  <2>2. \A k \in Jobs : /\ r[k].phase = rec[k].phase /\ r[k].status = rec[k].status
                        /\ r[k].handle = rec[k].handle
    BY <1>1, RelabelKeeps
  <2> HIDE DEF r
  <2> QED
    BY <1>1, <2>1, <2>2, EvictGood DEF Durable, SettledIsReleased
<1>4. ASSUME NEW b, Requeue(b) PROVE Good
  <2>1. /\ rec' = [k \in Jobs |->
                    IF k \in Submitted(b)
                    THEN [rec[k] EXCEPT !.delivery = "pending", !.batch = NoBatch]
                    ELSE rec[k]]
        /\ UNCHANGED <<registry, jobs, ledger, proc, thrown, closing>>
    BY <1>4 DEF Requeue
  <2>2. \A k \in Jobs : /\ rec'[k].phase = rec[k].phase /\ rec'[k].status = rec[k].status
                        /\ rec'[k].handle = rec[k].handle
    <3> TAKE k \in Jobs
    <3>1. \/ rec'[k] = rec[k]
          \/ rec'[k] = [rec[k] EXCEPT !.delivery = "pending", !.batch = NoBatch]
      BY <2>1
    <3>2. rec[k] \in JobRecord
      BY <1>1
    <3> QED
      BY <3>1, <3>2 DEF JobRecord
  <2>3. \A k \in Jobs : /\ AnswerKept(k)
                        /\ k \in jobs' /\ rec'[k].phase # "released" => ~ledger[k].settled
                        /\ k \in thrown => rec'[k].handle = "none"
    BY <2>1, <2>2 DEF AnswerKept, Durable, SettledIsReleased
  <2> QED
    BY <1>1, <2>1, <2>3, SameLedger, QuietOK
<1>5. ASSUME NEW ids, NEW moved \in BOOLEAN, ReconcileRecorded(ids, moved) PROVE Good
  <2> DEFINE back == IF moved THEN Forgotten(ids) ELSE {}
             seen == [k \in Jobs |-> IF k \in back THEN Restored(ledger[k]) ELSE rec[k]]
             r == [k \in Jobs |-> IF k \in jobs \cup back
                                  THEN Reconciled(seen[k], k, ids, moved) ELSE rec[k]]
  <2>1. Evict(jobs \cup back, r) /\ UNCHANGED <<registry, ledger, proc, thrown, closing>>
    BY <1>5 DEF ReconcileRecorded
  <2>2. back \subseteq Jobs \ jobs
    BY DEF Forgotten
  <2>3. \A k \in Jobs : seen[k] = IF k \in back THEN Restored(ledger[k]) ELSE rec[k]
    OBVIOUS
  <2>4. \A k \in back : /\ Restored(ledger[k]) \in JobRecord
                        /\ Restored(ledger[k]).phase = "released"
                        /\ Restored(ledger[k]).handle = "none"
    <3> TAKE k \in back
    <3>1. Restored(ledger[k]) \in JobRecord
      BY <2>2, JobFacts, RestoredOK DEF Durable, RowOK
    <3> QED
      BY <3>1 DEF Restored, Fresh
  <2>5. \A k \in Jobs : seen[k] \in JobRecord
    BY <1>1, <2>3, <2>4
  <2> HIDE DEF seen, back
  <2>6. ASSUME NEW x \in JobRecord, NEW k
        PROVE  /\ Reconciled(x, k, ids, moved).phase = x.phase
               /\ Reconciled(x, k, ids, moved).status = x.status
               /\ Reconciled(x, k, ids, moved).handle = x.handle
    BY RelabelKeeps DEF Reconciled
  <2>7. \A k \in Jobs : r[k] = IF k \in jobs \cup back
                               THEN Reconciled(seen[k], k, ids, moved) ELSE rec[k]
    OBVIOUS
  <2>8. \A k \in Jobs : /\ r[k].phase = IF k \in back THEN "released" ELSE rec[k].phase
                        /\ k \notin back => r[k].status = rec[k].status
                        /\ r[k].handle = IF k \in back THEN "none" ELSE rec[k].handle
    BY <2>3, <2>4, <2>5, <2>6, <2>7
  <2> HIDE DEF r
  <2>9. jobs \cup back \in SUBSET Jobs
    BY <1>1, <2>2
  <2>10. \A k \in Jobs : /\ k \in jobs \cup back /\ r[k].phase # "released" => ~ledger[k].settled
                         /\ k \in jobs /\ rec[k].phase = "released" =>
                              r[k].phase = "released" /\ r[k].status = rec[k].status
                         /\ k \in thrown => r[k].handle = "none"
    BY <2>2, <2>8 DEF Durable, SettledIsReleased
  <2> QED
    BY <1>1, <2>1, <2>9, <2>10, EvictGood
<1> QED
  BY <1>2, <1>3, <1>4, <1>5 DEF Bookkeeping
-----------------------------------------------------------------------------
(* Starts and lifecycle.                                                     *)

LEMMA StartIntentGood == ASSUME Durable, NEW j \in Jobs, StartIntent(j) PROVE Good
<1> DEFINE row == [status |-> "running", settled |-> FALSE]
<1>1. /\ ledger[j] = NoRow /\ registry # "absent"
      /\ ledger' = [ledger EXCEPT ![j] = row]
      /\ UNCHANGED <<registry, jobs, rec, proc, thrown, closing>>
  BY DEF StartIntent, Idle
<1>2. \A k \in Jobs : ledger'[k] = IF k = j THEN row ELSE ledger[k]
  BY <1>1 DEF Durable, Inv, TypeOK
<1>3. row # NoRow /\ ~row.settled
  BY DEF NoRow
<1> HIDE DEF row
<1>4. /\ Fact(j) = "absent"
      /\ \A k \in Jobs : Fact(k)' = IF k = j THEN "intent" ELSE Fact(k)
  BY <1>1, <1>2, <1>3 DEF Fact
<1>5. Record!Next
  BY <1>1, <1>4, IntendOK
<1>6. SettledIsReleased'
  BY <1>1, <1>2, <1>3 DEF Durable, SettledIsReleased, Inv, TypeOK
<1>7. \A k \in Jobs : AnswerKept(k)
  BY <1>1 DEF AnswerKept
<1> QED
  BY <1>5, <1>6, <1>7 DEF Good

LEMMA StartingFacts ==
  ASSUME Durable, NEW j \in Jobs, starting = j
  PROVE  /\ registry = "open" /\ j \notin jobs \cup thrown
         /\ proc[j] = NoProcess /\ Fact(j) = "intent"
         /\ ledger[j] # NoRow /\ ~ledger[j].settled
BY JobsAssumption DEF Durable, Inv, SafeInv, StartingOK, Fact

LEMMA StartSpawnGood == ASSUME Durable, NEW j \in Jobs, StartSpawn(j) PROVE Good
<1>1. PICK p : /\ p.shell = "live"
               /\ proc' = [proc EXCEPT ![j] = p]
  <2>1. PICK d \in {"none", "quiet", "holding"}, m \in BOOLEAN :
          proc' = [proc EXCEPT ![j] =
                     [shell |-> "live", code |-> "none", desc |-> d, mortal |-> m]]
    BY DEF StartSpawn
  <2> QED
    BY <2>1
<1>2. PICK x : rec' = [rec EXCEPT ![j] = x]
  BY DEF StartSpawn
<1>3. /\ starting = j /\ jobs' = jobs \cup {j}
      /\ UNCHANGED <<registry, ledger, thrown, closing>>
  BY DEF StartSpawn
<1>4. \A k \in Jobs : /\ rec'[k] = IF k = j THEN x ELSE rec[k]
                      /\ proc'[k] = IF k = j THEN p ELSE proc[k]
  BY <1>1, <1>2 DEF Durable, Inv, TypeOK
<1>5. Fate(proc[j]) = "never" /\ Fate(p) = "live"
  <2>1. proc[j].shell = "none"
    BY <1>3, StartingFacts DEF NoProcess
  <2> QED
    BY <1>1, <2>1 DEF Fate
<1>6. Record!Next
  BY <1>3, <1>4, <1>5, StartingFacts, SameLedger, RunOK DEF RowsSame
<1>7. SettledIsReleased'
  BY <1>3, <1>4, StartingFacts DEF Durable, SettledIsReleased, Inv, TypeOK
<1>8. \A k \in Jobs : AnswerKept(k)
  BY <1>3, <1>4, StartingFacts DEF AnswerKept
<1> QED
  BY <1>6, <1>7, <1>8 DEF Good

LEMMA StartNoPidGood == ASSUME Durable, NEW j \in Jobs, StartNoPid(j) PROVE Good
<1>1. PICK x : rec' = [rec EXCEPT ![j] = x]
  BY DEF StartNoPid
<1>2. /\ starting = j /\ jobs' = jobs \cup {j}
      /\ UNCHANGED <<registry, ledger, proc, thrown, closing>>
  BY DEF StartNoPid
<1>3. \A k \in Jobs : rec'[k] = IF k = j THEN x ELSE rec[k]
  BY <1>1 DEF Durable, Inv, TypeOK
<1>4. ASSUME NEW k \in Jobs
      PROVE  /\ AnswerKept(k)
             /\ k \in jobs' /\ rec'[k].phase # "released" => ~ledger[k].settled
             /\ k \in thrown => rec'[k].handle = "none"
  BY <1>2, <1>3, StartingFacts DEF AnswerKept, Durable, SettledIsReleased
<1>5. jobs' \subseteq Jobs /\ registry # "absent"
  BY <1>2, StartingFacts DEF Durable, Inv, TypeOK
<1> QED
  BY <1>2, <1>4, <1>5, SameLedger, QuietOK

LEMMA StartThrowsGood == ASSUME Durable, NEW j \in Jobs, StartThrows(j) PROVE Good
<1>1. /\ starting = j /\ thrown' = thrown \cup {j} /\ closing' = closing \cup {j}
      /\ UNCHANGED <<registry, jobs, rec, ledger, proc>>
  BY DEF StartThrows
<1>2. rec[j].handle = "none"
  BY <1>1, StartingFacts, JobFacts DEF Durable, Fresh
<1>3. SettledIsReleased'
  BY <1>1, <1>2, StartingFacts DEF Durable, SettledIsReleased
<1>4. UNCHANGED Record!recordVars
  BY <1>1, SameLedger, StutterOK DEF RowsSame
<1>5. \A k \in Jobs : AnswerKept(k)
  BY <1>1 DEF AnswerKept
<1> QED
  BY <1>3, <1>4, <1>5 DEF Good

LEMMA OpenGood == Durable /\ Open => Good
<1> SUFFICES ASSUME Durable, Open PROVE Good
  OBVIOUS
<1>1. /\ registry = "absent" /\ registry' = "open" /\ jobs' \subseteq Jobs
      /\ \A k \in Jobs : /\ k \in jobs' <=> ledger[k] # NoRow
                         /\ rec'[k] = IF ledger[k] # NoRow THEN Restored(ledger[k]) ELSE Fresh
      /\ UNCHANGED <<starting, ledger, proc, thrown, closing>>
  BY DEF Open
<1>2. jobs = {}
  BY <1>1 DEF Durable, SettledIsReleased
<1>3. Fresh.handle = "none"
  BY DEF Fresh
<1>4. \A row : Restored(row).phase = "released" /\ Restored(row).handle = "none"
  BY DEF Restored, Fresh
<1>5. ASSUME NEW k \in Jobs
      PROVE  /\ AnswerKept(k)
             /\ k \in jobs' /\ rec'[k].phase # "released" => ~ledger[k].settled
             /\ k \in thrown => rec'[k].handle = "none"
  BY <1>1, <1>2, <1>3, <1>4 DEF AnswerKept
<1> QED
  BY <1>1, <1>5, SameLedger, QuietOK

LEMMA LeaveGood == Durable /\ (DisposeEnds \/ Crash) => Good
<1> SUFFICES ASSUME Durable, DisposeEnds \/ Crash PROVE Good
  OBVIOUS
<1>1. /\ jobs' = {} /\ closing' = {} /\ rec' = [k \in Jobs |-> Fresh]
      /\ UNCHANGED <<ledger, proc, thrown>>
  BY DEF DisposeEnds, Crash
<1>2. SettledIsReleased'
  BY <1>1 DEF SettledIsReleased, Durable, Inv, TypeOK, Fresh
<1>3. UNCHANGED Record!recordVars
  BY <1>1, SameLedger, StutterOK DEF RowsSame
<1>4. \A k \in Jobs : AnswerKept(k)
  BY <1>1 DEF AnswerKept
<1> QED
  BY <1>2, <1>3, <1>4 DEF Good

LEMMA DisposeGood == Durable /\ Dispose => Good
<1> SUFFICES ASSUME Durable, Dispose PROVE Good
  OBVIOUS
<1>1. PICK saved \in SUBSET {j \in jobs : rec[j].status = "running"} :
        ledger' = [j \in Jobs |-> IF j \in saved
                                  THEN [status |-> "stopping", settled |-> FALSE]
                                  ELSE ledger[j]]
  BY DEF Dispose
<1>2. /\ registry' = "closed" /\ jobs \subseteq Jobs
      /\ rec' = [j \in Jobs |->
           IF j \notin jobs \/ rec[j].phase # "collecting" THEN rec[j]
           ELSE [Stopping(rec[j]) EXCEPT !.timers = Stopping(rec[j]).timers \cup {"grace"}]]
      /\ UNCHANGED <<starting, jobs, proc, thrown, closing>>
  BY DEF Dispose, Durable, Inv, TypeOK
<1>3. RowsSame
  <2>1. ASSUME NEW k \in saved
        PROVE  ledger[k] # NoRow /\ ledger[k].settled = FALSE
    <3>1. k \in jobs /\ rec[k].status = "running"
      BY <1>1
    <3>2. rec[k].phase # "released"
      BY <1>2, <3>1, JobFacts DEF Durable, RecordOK, Active
    <3> QED
      BY <1>2, <3>1, <3>2, OwnedFacts, JobFacts DEF Durable, SettledIsReleased, Row
  <2>2. ASSUME NEW k \in Jobs, k \notin saved PROVE ledger'[k] = ledger[k]
    BY <1>1, <2>2
  <2>3. ASSUME NEW k \in saved
        PROVE  ledger'[k].settled = FALSE /\ ledger'[k] # NoRow
    BY <1>1, <1>2, <2>3 DEF NoRow
  <2> QED
    BY <2>1, <2>2, <2>3 DEF RowsSame, Fact
<1>4. ASSUME NEW k \in Jobs
      PROVE  /\ AnswerKept(k)
             /\ k \in jobs' /\ rec'[k].phase # "released" => ~ledger[k].settled
             /\ k \in thrown => rec'[k].handle = "none"
  <2>1. CASE k \notin jobs \/ rec[k].phase # "collecting"
    BY <1>2, <2>1 DEF AnswerKept, Durable, SettledIsReleased
  <2>2. CASE k \in jobs /\ rec[k].phase = "collecting"
    <3>1. rec[k] \in JobRecord /\ rec[k] # Fresh
      BY <2>2, JobFacts DEF Durable
    <3>2. rec[k].handle # "none"
      BY <2>2, <3>1, JobFacts DEF Durable, RecordOK
    <3>3. ~ledger[k].settled /\ k \notin thrown
      BY <2>2, <3>2 DEF Durable, SettledIsReleased
    <3> QED
      BY <2>2, <3>3 DEF AnswerKept
  <2> QED
    BY <2>1, <2>2
<1> QED
  BY <1>2, <1>3, <1>4, QuietOK
-----------------------------------------------------------------------------
(* The processes: one of them may end, every other keeps its fate.           *)

LEMMA ProcessGood ==
  ASSUME Durable, NEW j \in Jobs, NEW q, NEW x,
         \/ Fate(q) = Fate(proc[j])
         \/ Fate(proc[j]) = "live" /\ Fate(q) \in {"zero", "nonzero", "signal"},
         proc' = [proc EXCEPT ![j] = q], rec' = [rec EXCEPT ![j] = x],
         x.phase = rec[j].phase, x.status = rec[j].status, x.handle = rec[j].handle,
         UNCHANGED <<registry, starting, jobs, ledger, thrown, closing>>
  PROVE  Good
<1>1. \A k \in Jobs : /\ proc'[k] = IF k = j THEN q ELSE proc[k]
                      /\ rec'[k] = IF k = j THEN x ELSE rec[k]
  BY DEF Durable, Inv, TypeOK
<1>2. [Record!Next]_(Record!recordVars)
  <2>1. CASE Fate(q) = Fate(proc[j])
    <3>1. UNCHANGED Record!recordVars
      BY <1>1, <2>1, SameLedger, StutterOK DEF RowsSame
    <3> QED
      BY <3>1
  <2>2. CASE Fate(proc[j]) = "live" /\ Fate(q) \in {"zero", "nonzero", "signal"}
    BY <1>1, <2>2, SameLedger, EndOK DEF RowsSame
  <2> QED
    BY <2>1, <2>2
<1>3. SettledIsReleased'
  BY <1>1 DEF Durable, SettledIsReleased, Inv, TypeOK
<1>4. \A k \in Jobs : AnswerKept(k)
  BY <1>1 DEF AnswerKept
<1> QED
  BY <1>2, <1>3, <1>4 DEF Good

LEMMA ShellExitsGood == ASSUME Durable, NEW j \in Jobs, ShellExits(j) PROVE Good
<1>1. PICK c \in {"zero", "nonzero", "signal"} :
        proc' = [proc EXCEPT ![j].shell = "dead", ![j].code = c]
  BY DEF ShellExits
<1> DEFINE q == [proc[j] EXCEPT !.shell = "dead", !.code = c]
<1>2. proc[j] \in Process /\ proc[j].shell = "live"
  BY JobFacts DEF ShellExits, Durable
<1>3. proc' = [proc EXCEPT ![j] = q] /\ rec' = [rec EXCEPT ![j] = rec[j]]
  BY <1>1 DEF ShellExits, Durable, Inv, TypeOK
<1>4. q.shell = "dead" /\ q.code = c
  BY <1>2 DEF Process
<1> HIDE DEF q
<1>5. Fate(proc[j]) = "live" /\ Fate(q) = c
  BY <1>2, <1>4 DEF Fate
<1>6. UNCHANGED <<registry, starting, jobs, ledger, thrown, closing>>
  BY DEF ShellExits
<1> QED
  BY <1>3, <1>5, <1>6, ProcessGood

LEMMA DescendantsExitGood == ASSUME Durable, NEW j \in Jobs, DescendantsExit(j) PROVE Good
<1> DEFINE q == [proc[j] EXCEPT !.desc = "none"]
<1>1. proc[j] \in Process
  BY JobFacts DEF Durable
<1>2. proc' = [proc EXCEPT ![j] = q] /\ rec' = [rec EXCEPT ![j] = rec[j]]
  BY DEF DescendantsExit, Durable, Inv, TypeOK
<1>3. q.shell = proc[j].shell /\ q.code = proc[j].code
  BY <1>1 DEF Process
<1> HIDE DEF q
<1>4. Fate(q) = Fate(proc[j])
  BY <1>3 DEF Fate
<1>5. UNCHANGED <<registry, starting, jobs, ledger, thrown, closing>>
  BY DEF DescendantsExit
<1> QED
  BY <1>2, <1>4, <1>5, ProcessGood

LEMMA KilledFate ==
  ASSUME NEW p \in Process
  PROVE  \/ Fate(Killed(p)) = Fate(p)
         \/ Fate(p) = "live" /\ Fate(Killed(p)) = "signal"
         \/ p.shell = "none"
<1>1. CASE ~p.mortal
  BY <1>1 DEF Killed
<1>2. CASE p.mortal /\ p.shell # "none"
  <2> DEFINE c == IF p.shell = "live" THEN "signal" ELSE p.code
             q == [p EXCEPT !.shell = "dead", !.desc = "none", !.code = c]
  <2>1. Killed(p) = q
    BY <1>2 DEF Killed
  <2>2. q.shell = "dead" /\ q.code = c
    BY DEF Process
  <2> HIDE DEF q
  <2>3. Fate(q) = c
    BY <2>2 DEF Fate
  <2>4. CASE p.shell = "live"
    BY <2>1, <2>3, <2>4 DEF Fate
  <2>5. CASE p.shell = "dead"
    BY <2>1, <2>3, <2>5 DEF Fate
  <2> QED
    BY <1>2, <2>4, <2>5 DEF Process
<1> QED
  BY <1>1, <1>2 DEF Process

LEMMA SweepAttemptGood == ASSUME Durable, NEW j \in Jobs, SweepAttempt(j) PROVE Good
<1>1. /\ registry # "absent" /\ rec[j].sweep = "running"
      /\ UNCHANGED <<registry, starting, jobs, ledger, thrown, closing>>
  BY DEF SweepAttempt, Idle
<1>2. rec[j] \in JobRecord /\ proc[j] \in Process /\ proc[j].shell # "none"
  BY <1>1, JobFacts DEF Durable, RecordOK, JobRecord
<1>3. CASE ~GroupAlive(proc[j])
  <2> DEFINE x == [rec[j] EXCEPT !.sweep = "done"]
  <2>1. rec' = [rec EXCEPT ![j] = x] /\ proc' = [proc EXCEPT ![j] = proc[j]]
    BY <1>3 DEF SweepAttempt, Durable, Inv, TypeOK
  <2>2. x.phase = rec[j].phase /\ x.status = rec[j].status /\ x.handle = rec[j].handle
    BY <1>2 DEF JobRecord
  <2> QED
    BY <1>1, <2>1, <2>2, ProcessGood
<1>4. CASE GroupAlive(proc[j])
  <2> DEFINE last == LastSweep(rec[j])
             n == rec[j].attempts + 1
             u == rec[j].unconfirmed \/ last
             w == IF last THEN "done" ELSE "running"
             x == [rec[j] EXCEPT !.attempts = n, !.unconfirmed = u, !.sweep = w]
  <2>1. rec' = [rec EXCEPT ![j] = x] /\ proc' = [proc EXCEPT ![j] = Killed(proc[j])]
    BY <1>4 DEF SweepAttempt
  <2> HIDE DEF n, u, w
  <2>2. x.phase = rec[j].phase /\ x.status = rec[j].status /\ x.handle = rec[j].handle
    BY <1>2 DEF JobRecord
  <2> QED
    BY <1>1, <1>2, <2>1, <2>2, KilledFate, ProcessGood
<1> QED
  BY <1>3, <1>4
-----------------------------------------------------------------------------
LEMMA NextGood == Durable /\ [Next]_vars => Good
<1> SUFFICES ASSUME Durable, [Next]_vars PROVE Good
  OBVIOUS
<1>1. CASE Lifecycle
  BY <1>1, OpenGood, DisposeGood, LeaveGood DEF Lifecycle
<1>2. CASE Bookkeeping
  BY <1>2, BookkeepingGood
<1>3. CASE \E j \in Jobs : Execution(j)
  <2>1. PICK j \in Jobs : Execution(j)
    BY <1>3
  <2>2. CASE Start(j)
    BY <2>2, StartIntentGood, StartSpawnGood, StartNoPidGood, StartThrowsGood DEF Start
  <2>3. CASE Stop(j) \/ TimeoutFires(j)
    BY <2>3, StopGood, TimeoutFiresGood
  <2>4. CASE Events(j)
    BY <2>4, ErrorEventGood, ExitEventGood, StreamTimerFiresGood, CloseEventGood,
       SweepAttemptGood, GraceFiresGood, ReleaseGood, ReleaseDiscardedGood DEF Events
  <2>5. CASE ShellExits(j) \/ DescendantsExit(j)
    BY <2>5, ShellExitsGood, DescendantsExitGood
  <2> QED
    BY <2>1, <2>2, <2>3, <2>4, <2>5 DEF Execution
<1>4. CASE UNCHANGED vars
  <2>1. UNCHANGED Record!recordVars
    BY <1>4, SameLedger, StutterOK DEF RowsSame, vars
  <2>2. SettledIsReleased' /\ \A k \in Jobs : AnswerKept(k)
    BY <1>4 DEF vars, Durable, SettledIsReleased, AnswerKept
  <2> QED
    BY <2>1, <2>2 DEF Good
<1> QED
  BY <1>1, <1>2, <1>3, <1>4 DEF Next

LEMMA InitGood == Init => Record!Init /\ SettledIsReleased
BY DEF Init, SettledIsReleased, Record!Init, Fact, Fate, NoProcess, NoRow

LEMMA DurableInductive == Spec => []Durable
<1>1. Init => Durable
  BY InitOK, InitGood DEF Durable
<1>2. Durable /\ [Next]_vars => Durable'
  BY NextOK, NextGood DEF Durable, Good
<1> QED
  BY <1>1, <1>2, PTL DEF Spec

(* A row is settled only when its record was released, and rows of commands  *)
(* still in flight stay intents: the reason the first result is the last.    *)
THEOREM SettledRowsAreReleased == Spec => []SettledIsReleased
<1>1. Durable => SettledIsReleased
  BY DEF Durable
<1> QED
  BY <1>1, DurableInductive, PTL

(* A released record never changes its answer, whatever fires late (exits,   *)
(* sweeps, stops, delivery bookkeeping, branch changes).                     *)
THEOREM AnswersAreFinal == Spec => AnswerIsFinal
<1>1. Durable /\ [Next]_vars =>
        [\A j \in jobs \cap jobs' : rec[j].phase = "released" =>
           /\ rec'[j].phase = "released"
           /\ rec'[j].status = rec[j].status]_vars
  BY NextGood DEF Good, AnswerKept, Durable, Inv, TypeOK
<1> QED
  BY <1>1, DurableInductive, PTL DEF Spec, AnswerIsFinal

(* The registry, its ledger and the processes implement CommandRecord: a     *)
(* command runs at most once and never before its durable intent, and its    *)
(* first settled row is truthful and final, across crashes and failed saves. *)
THEOREM RegistryKeepsThePromise == Spec => ImplementsRecord
<1>1. Init => Record!Init
  BY InitGood
<1>2. Durable /\ [Next]_vars => [Record!Next]_(Record!recordVars)
  BY NextGood DEF Good
<1> QED
  BY <1>1, <1>2, DurableInductive, PTL DEF Spec, ImplementsRecord, Record!Spec
=============================================================================
