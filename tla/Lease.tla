-------------------------------- MODULE Lease --------------------------------
(* Who runs a child that lives in a panel (pi-subagents): the lease that a     *)
(* parent session keeps of it (lease.ts), the lock its process holds           *)
(* (process-lock.ts), the panels of the terminal host, and the manager between *)
(* them: send, stop, the idle reclaim, the end of a runtime, a session the     *)
(* human left, and the reconciliation when a parent session opens.             *)
(*                                                                             *)
(* One child.  Its runtimes are numbered by launch; the number stands for the  *)
(* runtime identity, its panel and its process.  The host, the processes and   *)
(* the human are external.  A host that closes a panel ends the process in it, *)
(* and restarts only while no parent is open, which runs in one of its panels. *)
(* Nobody calls the child before its parent session has reconciled.  A write   *)
(* of the record is one step.  Bounds: MaxRuntimes launches, MaxOpens openings *)
(* of the parent session, MaxGeneration generations of the host, MaxFaults     *)
(* faults.                                                                     *)
EXTENDS Naturals, Sequences, FiniteSets

CONSTANTS MaxRuntimes, MaxOpens, MaxGeneration, MaxFaults,
          Faults,       \* what may go wrong, of FaultKinds
          PollsFirst    \* a lock is held until an open parent has polled

FaultKinds == {"launch", "close", "observe", "list", "report", "reload", "leave"}

ASSUME LeaseAssumption ==
  /\ MaxRuntimes \in Nat \ {0} /\ MaxOpens \in Nat /\ MaxGeneration \in Nat /\ MaxFaults \in Nat
  /\ Faults \subseteq FaultKinds /\ PollsFirst \in BOOLEAN

VARIABLES
  generation, panel, proc, faults,    \* the host, its panels, the processes of the child
  record, hostGeneration, mail,       \* the database: the record, the generation last seen, messages
  opens, up,                          \* the parent sessions
  seen, attachment, left,             \* mailbox.seen, manager.#attachments, #leftSessions
  chain, op, launch, recon,           \* #mutate of the child; a launch; the reconciliation
  marks                               \* history: what happened, of Marks

world    == <<generation, panel, proc, faults>>
database == <<record, hostGeneration, mail>>
memory   == <<seen, attachment, left>>
leaseVars == <<world, database, opens, up, memory, chain, op, launch, recon, marks>>

(* doubt: a launch was not confirmed; crossed: the child was taken for one     *)
(* without a process while its process was at work, without the lock or after  *)
(* a notice that it had left; halted: a send followed a stop that was left     *)
(* half done; unlisted: the host did not answer this parent; confirmed: the    *)
(* last stop succeeded.                                                        *)
Marks     == {"doubt", "crossed", "halted", "unlisted", "confirmed"}
Marked(s) == marks' = marks \cup s
When(p, mark) == IF p THEN {mark} ELSE {}

Runtimes == 1..MaxRuntimes
Idle     == [kind |-> "none", at |-> "none"]
NoLaunch == [at |-> "none", runtime |-> 0, by |-> "none", was |-> FALSE]
NoRecon  == [at |-> "none", present |-> {}, generation |-> 0, panel |-> 0,
             active |-> FALSE, rebound |-> FALSE, rehydrated |-> FALSE]
Opening(r, by, was) == [at |-> "opening", runtime |-> r, by |-> by, was |-> was]

Init ==
  /\ generation = 1 /\ panel = [r \in Runtimes |-> FALSE]
  /\ proc = [r \in Runtimes |-> "none"] /\ faults = 0
  /\ record = [intent |-> "active", running |-> TRUE, runtime |-> 1, panel |-> 0]
  /\ hostGeneration = 0 /\ mail = {}
  /\ opens = 1 /\ up = TRUE /\ seen = FALSE /\ attachment = 0 /\ left = FALSE
  /\ chain = <<>> /\ op = [kind |-> "spawn", at |-> "launching"]
  /\ launch = Opening(1, "call", FALSE) /\ recon = [NoRecon EXCEPT !.at = "done"]
  /\ marks = {}

--------------------------------------------------------------------------------
(* Processes: one that starts takes the lock when it is free, holds it while   *)
(* it serves the session of the child, and gives it up when it reloads its     *)
(* extensions, goes to another session, or dies.                               *)
LockHeld   == \E r \in Runtimes : proc[r] = "serving"
Working    == {"starting", "serving", "reloading"}
Writers    == {r \in Runtimes : proc[r] \in Working}
Present(r) == panel[r] /\ proc[r] \in Working \cup {"left"}   \* what observe answers

Moves(r, to) == proc' = [proc EXCEPT ![r] = to]
Fault(kind) == kind \in Faults /\ faults < MaxFaults /\ faults' = faults + 1
Steady(r) == PollsFirst /\ up /\ proc[r] = "serving" => seen
Outside == UNCHANGED <<record, hostGeneration, opens, up, memory, chain, op, launch, recon, marks>>

Serves(r) ==
  /\ proc[r] \in {"starting", "reloading"} /\ ~LockHeld /\ Moves(r, "serving")
  /\ UNCHANGED <<generation, panel, faults, mail>> /\ Outside

Reloads(r) ==
  /\ proc[r] = "serving" /\ Steady(r) /\ Fault("reload") /\ Moves(r, "reloading")
  /\ UNCHANGED <<generation, panel, mail>> /\ Outside

Leaves(r) ==
  /\ proc[r] = "serving" /\ Steady(r) /\ Fault("leave") /\ Moves(r, "left")
  /\ mail' = mail \cup {<<"left", r>>}
  /\ UNCHANGED <<generation, panel>> /\ Outside

ReportsError(r) ==
  /\ proc[r] = "serving" /\ Fault("report") /\ mail' = mail \cup {<<"error", r>>}
  /\ UNCHANGED <<generation, panel, proc>> /\ Outside

Dies(r) ==
  /\ proc[r] \in Working \cup {"left"} /\ Steady(r) /\ Moves(r, "dead")
  /\ UNCHANGED <<generation, panel, faults, mail>> /\ Outside

Closes(r) ==
  /\ panel' = [panel EXCEPT ![r] = FALSE]
  /\ Moves(r, IF proc[r] = "none" THEN "none" ELSE "dead")

HumanCloses(r) ==
  /\ panel[r] /\ Steady(r) /\ Closes(r)
  /\ UNCHANGED <<generation, faults, mail>> /\ Outside

HostRestarts ==
  /\ ~up /\ generation < MaxGeneration /\ generation' = generation + 1
  /\ panel' = [r \in Runtimes |-> FALSE]
  /\ proc' = [r \in Runtimes |-> IF proc[r] = "none" THEN "none" ELSE "dead"]
  /\ UNCHANGED <<faults, mail>> /\ Outside

--------------------------------------------------------------------------------
(* The manager's tools.                                                        *)
New(r)    == /\ proc[r] = "none" /\ launch.runtime # r
             /\ \A s \in 1..(r - 1) : proc[s] # "none" \/ launch.runtime = s
ConnectedIfOwned == ~left /\ LockHeld /\ attachment # 0          \* mutant
Connected == ~left /\ LockHeld
Reloading == \E r \in Runtimes : proc[r] = "reloading"
Crosses   == Marked(When(Reloading, "crossed"))
Entry(kind, r) == [kind |-> kind, runtime |-> r]

(* attachment.cleanup and panelGone: the panel is closed; or the host did not  *)
(* close it, or does not answer whether it has.                                *)
CleansUpTrusting(r, gone) ==                                   \* mutant
  gone /\ (\/ Closes(r) /\ UNCHANGED faults
           \/ Fault("close") /\ UNCHANGED <<panel, proc>>)
CleansUp(r, gone) ==
  \/ gone /\ Closes(r) /\ UNCHANGED faults
  \/ gone = ~Present(r) /\ Fault("close") /\ UNCHANGED <<panel, proc>>
  \/ ~gone /\ Fault("observe") /\ (Closes(r) \/ UNCHANGED <<panel, proc>>)

(* The edges of the lease: runtime-bound, attachment-bound and the outcomes of *)
(* runtime-gone.  A record of a stopped child keeps its state when it is       *)
(* dropped.                                                                    *)
Bound(rec, r)    == [rec EXCEPT !.runtime = r, !.panel = 0]
Attached(rec, r) == IF rec.panel = 0 THEN [rec EXCEPT !.panel = r] ELSE rec
Cleared(rec)     == [rec EXCEPT !.runtime = 0, !.panel = 0]
DroppedBound(rec) == IF rec.runtime = 0 THEN rec ELSE Cleared(rec)     \* mutant
Dropped(rec)     == [Cleared(rec) EXCEPT !.running = rec.running /\ rec.intent = "stopped"]
Finished(rec)    == [Cleared(rec) EXCEPT !.running = FALSE]

Opens(r, by, was) == launch' = Opening(r, by, was)

(* One launch ends.  A failed one of a call leaves the state an error while a  *)
(* writer is seen, and what it was before if none is.                          *)
Concludes(rec, ok) ==
  /\ launch' = NoLaunch
  /\ IF launch.by = "call"
     THEN /\ op' = Idle /\ UNCHANGED <<recon, hostGeneration>>
          /\ record' = [rec EXCEPT !.running = IF ok THEN TRUE
                                              ELSE rec.running /\ launch.was /\ ~Connected,
                                   !.intent = IF ok THEN "active" ELSE rec.intent]
     ELSE /\ recon' = [recon EXCEPT !.at = "settling", !.rehydrated = ok]
          /\ hostGeneration' = recon.generation
          /\ record' = rec /\ UNCHANGED op

(* An exception ends the reconciliation, which is not tried again.             *)
Throws ==
  /\ launch' = NoLaunch /\ UNCHANGED hostGeneration
  /\ IF launch.by = "call"
     THEN /\ op' = Idle /\ UNCHANGED recon
          /\ record' = [record EXCEPT !.running = @ /\ launch.was /\ ~Connected]
     ELSE recon' = [NoRecon EXCEPT !.at = "done"] /\ UNCHANGED <<op, record>>

Noticed(held) ==
  /\ seen' = held
  /\ chain' = IF seen = held THEN chain
              ELSE Append(chain, Entry(IF held THEN "adopt" ELSE "ended", 0))

--------------------------------------------------------------------------------
(* openChildPanel: the panel is opened; the host refuses, or fails after it    *)
(* has opened one.                                                             *)
HostOpens ==
  /\ launch.at = "opening"
  /\ LET r == launch.runtime IN
     \/ /\ panel' = [panel EXCEPT ![r] = TRUE] /\ Moves(r, "starting")
        /\ launch' = [launch EXCEPT !.at = "waiting"]
        /\ UNCHANGED <<faults, record, hostGeneration, op, recon, marks>>
     \/ /\ Fault("launch")
        /\ \/ Moves(r, "dead") /\ UNCHANGED <<panel, marks>>
           \/ panel' = [panel EXCEPT ![r] = TRUE] /\ Moves(r, "starting")
              /\ Marked({"doubt"})
        /\ Concludes(record, FALSE)
  /\ UNCHANGED <<generation, mail, opens, up, memory, chain>>

(* The lock is seen held, by whichever process of the child.                   *)
Connects ==
  /\ launch.at = "waiting" /\ LockHeld /\ Noticed(TRUE)
  /\ IF record.runtime # 0
     THEN /\ attachment' = launch.runtime /\ UNCHANGED marks
          /\ Concludes(Attached(record, launch.runtime), TRUE)
     ELSE Throws /\ Marked({"doubt"}) /\ UNCHANGED attachment
  /\ UNCHANGED <<world, mail, opens, up, left>>

(* Or it is not, in time: the panel is closed, and kept in hand when that is   *)
(* not confirmed.                                                              *)
TimesOut ==
  /\ launch.at = "waiting" /\ ~LockHeld
  /\ \E gone \in BOOLEAN :
       LET r == launch.runtime IN
       /\ CleansUp(r, gone)
       /\ Marked(When(~gone, "doubt"))
       /\ attachment' = IF ~gone /\ record.runtime # 0 THEN r ELSE attachment
       /\ IF gone THEN Concludes(Cleared(record), FALSE)
          ELSE IF record.runtime # 0 THEN Concludes(Attached(record, r), FALSE) ELSE Throws
  /\ UNCHANGED <<generation, mail, opens, up, seen, left, chain>>

--------------------------------------------------------------------------------
(* The mailbox.  A child that holds its lock is noticed before what it sent is *)
(* handled.                                                                    *)
Hears(message) == up /\ (LockHeld => seen) /\ message \in mail /\ mail' = mail \ {message}

Notices ==
  /\ up /\ seen # LockHeld /\ Noticed(LockHeld)
  /\ UNCHANGED <<world, database, opens, up, attachment, left, op, launch, recon, marks>>

HearsLeft(r) ==
  /\ Hears(<<"left", r>>) /\ chain' = Append(chain, Entry("left", r))
  /\ UNCHANGED <<world, record, hostGeneration, opens, up, memory, op, launch, recon, marks>>

(* handleChildRequest: an error stops the child, outside its chain.            *)
HearsError(r) ==
  /\ Hears(<<"error", r>>)
  /\ record' = IF record.runtime # r THEN record
               ELSE [record EXCEPT !.intent = "stopped", !.running = FALSE]
  /\ UNCHANGED <<world, hostGeneration, opens, up, memory, chain, op, launch, recon, marks>>

HearsDone(r) ==
  /\ up /\ seen /\ proc[r] = "serving" /\ record.runtime = r /\ record.running
  /\ record' = [record EXCEPT !.running = FALSE]
  /\ UNCHANGED <<world, hostGeneration, mail, opens, up, memory, chain, op, launch, recon,
                 marks>>

(* Turns begin and end, when nothing else is under way.                        *)
HearsTurn ==
  /\ up /\ op = Idle /\ chain = <<>> /\ seen /\ LockHeld /\ record.intent = "active"
  /\ record' = [record EXCEPT !.running = ~@]
  /\ UNCHANGED <<world, hostGeneration, mail, opens, up, memory, chain, op, launch, recon,
                 marks>>

(* A caller sends or stops; the countdown of an idle child ends.               *)
Calls(kind) ==
  /\ up /\ recon.at = "done" /\ op.kind # "spawn"
  /\ \A i \in DOMAIN chain : chain[i].kind \in {"adopt", "ended", "left"}
  /\ kind = "send" => \E r \in Runtimes : New(r)
  /\ kind = "reclaim" => attachment # 0 /\ ~record.running
  /\ chain' = Append(chain, Entry(kind, 0))
  /\ UNCHANGED <<world, database, opens, up, memory, op, launch, recon, marks>>

--------------------------------------------------------------------------------
(* The chain of the child, one operation at a time; a spawn is not in it.       *)
Next1(kind) == op.kind \in {"none", "spawn"} /\ chain # <<>> /\ Head(chain).kind = kind
Takes(kind) == Next1(kind) /\ chain' = Tail(chain)

Adopts ==
  /\ Takes("adopt")
  /\ IF record.intent = "active" /\ Connected
     THEN \E b \in BOOLEAN : record' = [record EXCEPT !.running = b]
     ELSE UNCHANGED record
  /\ UNCHANGED <<world, hostGeneration, mail, opens, up, memory, op, launch, recon, marks>>

(* #runtimeEnded: nothing, while the lock is held; otherwise it asks for the   *)
(* panel it has in hand, and records the end whatever it hears.                *)
EndsRuntime ==
  /\ IF attachment # 0 THEN op' = [kind |-> "ended", at |-> "observing"] /\ UNCHANGED record
                       ELSE record' = Dropped(record) /\ UNCHANGED op
  /\ Crosses

EndedAlways ==                                                 \* mutant
  /\ Takes("ended") /\ EndsRuntime
  /\ UNCHANGED <<world, hostGeneration, mail, opens, up, memory, launch, recon>>

Ended ==
  /\ Takes("ended")
  /\ IF LockHeld THEN UNCHANGED <<op, record, marks>> ELSE EndsRuntime
  /\ UNCHANGED <<world, hostGeneration, mail, opens, up, memory, launch, recon>>

EndObserved ==
  /\ op.at = "observing" /\ op' = Idle
  /\ IF attachment # 0 /\ ~Present(attachment)
     THEN \/ attachment' = 0 /\ CleansUp(attachment, TRUE)
          \/ Fault("observe") /\ UNCHANGED <<panel, proc, attachment>>
     ELSE UNCHANGED <<panel, proc, faults, attachment>>
  /\ record' = Dropped(record) /\ Crosses
  /\ UNCHANGED <<generation, hostGeneration, mail, opens, up, seen, left, chain, launch, recon>>

(* left_session, if the runtime that left is the one of the record.            *)
LeftSession ==
  /\ Next1("left")
  /\ IF record.runtime = Head(chain).runtime /\ record.intent = "active"
     THEN /\ attachment' = 0 /\ left' = TRUE /\ record' = Finished(record)
          /\ seen' = (seen /\ LockHeld)
          /\ chain' = IF seen /\ ~LockHeld THEN Append(Tail(chain), Entry("ended", 0))
                                           ELSE Tail(chain)
     ELSE chain' = Tail(chain) /\ UNCHANGED <<attachment, left, record, seen>>
  /\ UNCHANGED <<world, hostGeneration, mail, opens, up, op, launch, recon, marks>>

Send ==
  /\ Takes("send")
  /\ IF Connected
     THEN /\ record' = [record EXCEPT !.running = TRUE, !.intent = "active"]
          /\ marks' = marks \ {"confirmed"} /\ UNCHANGED <<op, launch, left>>
     ELSE \E r \in Runtimes :
            /\ New(r) /\ Opens(r, "call", record.running)
            /\ record' = Bound([record EXCEPT !.running = TRUE, !.intent = "active"], r)
            /\ op' = [kind |-> "send", at |-> "launching"] /\ left' = FALSE
            /\ marks' = (marks \ {"confirmed"})
                        \cup When(Reloading \/ (left /\ LockHeld), "crossed")
                        \cup When(record.running /\ record.intent = "stopped", "halted")
  /\ UNCHANGED <<world, hostGeneration, mail, opens, up, seen, attachment, recon>>

Confirms ==
  /\ record' = Finished(record)
  /\ Marked({"confirmed"} \cup When(\E r \in Runtimes : proc'[r] = "reloading", "crossed"))

Stop ==
  /\ Takes("stop") /\ record' = [record EXCEPT !.intent = "stopped"]
  /\ op' = [kind |-> "stop", at |-> "closing"]
  /\ UNCHANGED <<world, hostGeneration, mail, opens, up, memory, launch, recon, marks>>

(* The panel is closed and confirmed gone; a child without one is asked to     *)
(* shut down and its lock awaited.                                             *)
StopCloses ==
  /\ op.at = "closing" /\ op' = Idle
  /\ IF attachment # 0
     THEN \E gone \in BOOLEAN :
            /\ CleansUp(attachment, gone)
            /\ IF gone THEN attachment' = 0 /\ Confirms
               ELSE /\ record' = [record EXCEPT !.running = FALSE]
                    /\ UNCHANGED <<attachment, marks>>
     ELSE /\ UNCHANGED <<panel, proc, faults, attachment>>
          /\ IF Connected THEN UNCHANGED <<record, marks>> ELSE Confirms
  /\ UNCHANGED <<generation, hostGeneration, mail, opens, up, seen, left, chain, launch, recon>>

(* #closeSettledPanel: an idle child that nobody looks at is closed.           *)
Reclaim ==
  /\ Takes("reclaim")
  /\ IF ~record.running /\ record.intent = "active" /\ attachment # 0 /\ Connected
     THEN \/ op' = [kind |-> "reclaim", at |-> "reclaiming"] /\ UNCHANGED <<record, attachment>>
          \/ UNCHANGED <<op, record, attachment>>
          \/ /\ ~Present(attachment) /\ attachment' = 0
             /\ record' = Dropped(record) /\ UNCHANGED op
     ELSE UNCHANGED <<op, record, attachment>>
  /\ UNCHANGED <<world, hostGeneration, mail, opens, up, seen, left, launch, recon, marks>>

Reclaims ==
  /\ op.at = "reclaiming" /\ op' = Idle
  /\ \E gone \in BOOLEAN :
       /\ CleansUp(attachment, gone)
       /\ IF gone THEN attachment' = 0 /\ record' = Dropped(record)
                  ELSE UNCHANGED <<attachment, record>>
  /\ UNCHANGED <<generation, hostGeneration, mail, opens, up, seen, left, chain, launch,
                 recon, marks>>

--------------------------------------------------------------------------------
(* A parent session ends, with or without its process, and opens again.        *)
ParentEnds ==
  /\ up /\ up' = FALSE
  /\ seen' = FALSE /\ attachment' = 0 /\ left' = FALSE
  /\ chain' = <<>> /\ op' = Idle /\ launch' = NoLaunch /\ recon' = NoRecon
  /\ Marked(When(launch.at # "none", "doubt"))
  /\ IF launch.at = "opening"
     THEN \/ Moves(launch.runtime, "dead") /\ UNCHANGED panel
          \/ panel' = [panel EXCEPT ![launch.runtime] = TRUE] /\ Moves(launch.runtime, "starting")
     ELSE UNCHANGED <<panel, proc>>
  /\ UNCHANGED <<generation, faults, database, opens>>

ParentOpens ==
  /\ ~up /\ up' = TRUE /\ opens < MaxOpens /\ opens' = opens + 1
  /\ \E r \in Runtimes : New(r)
  /\ recon' = [NoRecon EXCEPT !.at = "listing"] /\ marks' = marks \ {"unlisted"}
  /\ UNCHANGED <<world, database, memory, chain, op, launch>>

(* reconcile: the host answers with its generation and its panels, or not.     *)
Lists ==
  /\ recon.at = "listing"
  /\ \/ /\ recon' = [recon EXCEPT !.at = "reading", !.generation = generation,
                                  !.present = {r \in Runtimes : panel[r]}]
        /\ UNCHANGED <<faults, marks>>
     \/ Fault("list") /\ recon' = [recon EXCEPT !.at = "done"] /\ Marked({"unlisted"})
  /\ UNCHANGED <<generation, panel, proc, database, opens, up, memory, chain, op, launch>>

(* Then the records are read, once; other children may come first.             *)
Reads ==
  /\ recon.at = "reading"
  /\ recon' = [recon EXCEPT !.at = "acting", !.panel = record.panel,
                            !.active = record.intent = "active"]
  /\ UNCHANGED <<world, database, opens, up, memory, chain, op, launch, marks>>

Missing == recon.panel # 0 /\ recon.panel \notin recon.present
Reopen  == hostGeneration # recon.generation

Acts ==
  /\ recon.at = "acting"
  /\ IF Missing /\ Reopen /\ recon.active
     THEN \E r \in Runtimes :
            /\ New(r) /\ Opens(r, "reconcile", FALSE) /\ record' = Bound(record, r)
            /\ recon' = [recon EXCEPT !.at = "opening"] /\ UNCHANGED hostGeneration
     ELSE /\ record' = IF Missing /\ ~Reopen
                       THEN [Cleared(record) EXCEPT !.intent = IF recon.active THEN "stopped" ELSE @]
                       ELSE record
          /\ recon' = [recon EXCEPT !.at = "settling", !.rebound = recon.panel # 0 /\ ~Missing]
          /\ hostGeneration' = recon.generation /\ UNCHANGED launch
  /\ UNCHANGED <<world, mail, opens, up, memory, chain, op, marks>>

(* Panels that are there are bound again; a running child without a writer is  *)
(* settled.                                                                    *)
Settles ==
  /\ recon.at = "settling"
  /\ attachment' = IF recon.rebound /\ record.panel # 0 THEN record.panel ELSE attachment
  /\ record' = IF /\ record.running /\ record.intent = "active"
                  /\ ~recon.rehydrated /\ ~LockHeld
               THEN Dropped(record) ELSE record
  /\ Marked(When(record' # record /\ Reloading, "crossed"))
  /\ recon' = [NoRecon EXCEPT !.at = "done"]
  /\ UNCHANGED <<world, hostGeneration, mail, opens, up, seen, left, chain, op, launch>>

--------------------------------------------------------------------------------
ChainStep  == \/ Adopts \/ Ended \/ EndObserved \/ LeftSession \/ Send \/ Stop \/ StopCloses
              \/ Reclaim \/ Reclaims
LaunchStep == HostOpens \/ Connects \/ TimesOut
ReconStep  == Lists \/ Reads \/ Acts \/ Settles

Next ==
  \/ \E r \in Runtimes : \/ Serves(r) \/ Reloads(r) \/ Leaves(r) \/ ReportsError(r) \/ Dies(r)
                         \/ HumanCloses(r) \/ HearsLeft(r) \/ HearsError(r) \/ HearsDone(r)
  \/ HostRestarts \/ ParentEnds \/ ParentOpens \/ Notices \/ HearsTurn
  \/ \E kind \in {"send", "stop", "reclaim"} : Calls(kind)
  \/ ChainStep \/ LaunchStep \/ ReconStep

(* Fairness: the event loop of an open parent goes on; its mailbox is polled.  *)
Spec == Init /\ [][Next]_leaseVars
FairSpec == Spec /\ WF_leaseVars(ChainStep) /\ WF_leaseVars(LaunchStep)
                 /\ WF_leaseVars(ReconStep) /\ WF_leaseVars(Notices)

--------------------------------------------------------------------------------
RecordType == [intent : {"active", "stopped"}, running : BOOLEAN,
               runtime : 0..MaxRuntimes, panel : 0..MaxRuntimes]
OpType     == {Idle, [kind |-> "spawn", at |-> "launching"], [kind |-> "send", at |-> "launching"],
               [kind |-> "ended", at |-> "observing"], [kind |-> "stop", at |-> "closing"],
               [kind |-> "reclaim", at |-> "reclaiming"]}
LaunchType == {NoLaunch} \cup [at : {"opening", "waiting"}, runtime : Runtimes,
                               by : {"call", "reconcile"}, was : BOOLEAN]
ReconType  == [at : {"none", "listing", "reading", "acting", "opening", "settling", "done"},
               present : SUBSET Runtimes, generation : Nat, panel : 0..MaxRuntimes,
               active : BOOLEAN, rebound : BOOLEAN, rehydrated : BOOLEAN]

(* The variables keep their types and one process holds the lock.              *)
LeaseTypeOK ==
  /\ generation \in Nat /\ faults \in Nat /\ opens \in Nat /\ hostGeneration \in Nat
  /\ panel \in [Runtimes -> BOOLEAN]
  /\ proc \in [Runtimes -> Working \cup {"none", "left", "dead"}]
  /\ record \in RecordType /\ mail \in SUBSET ({"left", "error"} \X Runtimes)
  /\ up \in BOOLEAN /\ seen \in BOOLEAN /\ left \in BOOLEAN /\ attachment \in 0..MaxRuntimes
  /\ chain \in Seq([kind : {"adopt", "ended", "left", "send", "stop", "reclaim"},
                     runtime : 0..MaxRuntimes])
  /\ op \in OpType /\ launch \in LaunchType /\ recon \in ReconType /\ marks \in SUBSET Marks
  /\ \A r, s \in Runtimes : proc[r] = "serving" /\ proc[s] = "serving" => r = s

(* Two processes never work for one child, whatever dies, is closed, restarted *)
(* or reopened: unless the host did not confirm a launch, or the manager took  *)
(* a process that reloads, or that serves after a late notice, for gone.       *)
Excused    == {"doubt", "crossed"} \cap marks # {}
OneRuntime == Excused \/ \A r, s \in Writers : r = s

(* A stop that succeeded left no process that works for the child, and none    *)
(* comes back before the next send, across any restart of parent and host.     *)
StopIsConfirmed == "confirmed" \in marks => Writers = {} \/ Excused

(* When the manager has nothing left to do, the record names the runtime that  *)
(* serves the child: the one whose reports it accepts.                         *)
Quiet == up /\ recon.at = "done" /\ op = Idle /\ chain = <<>> /\ seen = LockHeld
BoundToTheWriter ==
  Quiet => \A r \in Runtimes : proc[r] = "serving" => record.runtime = r \/ Excused

(* A child recorded as running whose process is gone does not stay so while a  *)
(* parent session is open.                                                     *)
Overdue == up /\ record.running /\ record.intent = "active" /\ Writers = {} /\ launch.at = "none"
Stale   == Overdue /\ {"halted", "unlisted"} \cap marks = {}
EndIsRecorded == Stale ~> ~Stale
=============================================================================
