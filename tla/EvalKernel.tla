------------------------------ MODULE EvalKernel ------------------------------
(* The Python kernel of a session (pi-python-eval): one cell at a time in a  *)
(* process that keeps names between cells, is interrupted, killed, replaced  *)
(* and lost, and a ledger on the session branch that outlives all of it.     *)
(*                                                                           *)
(* Cells and generations are numbered in the order they begin; 0 is none of  *)
(* them.  Bounds: MaxCells cells begin, MaxKernels kernels are spawned, and  *)
(* MaxOpens sessions follow one another.                                     *)
EXTENDS Naturals

CONSTANTS MaxCells, MaxKernels, MaxOpens,
          WritesFail   \* a fact may not reach the branch, or the branch not be read

ASSUME EvalAssumption == /\ MaxCells \in Nat /\ MaxKernels \in Nat /\ MaxOpens \in Nat
                         /\ WritesFail \in BOOLEAN

VARIABLES
  opens,    \* sessions opened so far
  session,  \* the runtime of the session is there
  store,    \* what the facts store read when the session opened
  reported, \* #reportedRecovery
  last,     \* #lastKernel
  slot,     \* the kernel in #slots, or None
  call,     \* the call of the tool: runWithHooks and its #execute
  timer,    \* the cell whose interrupt has armed the escalation timer, or None
  kernel,   \* the processes
  wire,     \* done messages on their way to the host
  facts,    \* the facts of each cell on the branch
  recent,   \* the generation of the last fact on the branch, or None
  shown,    \* the answer given last
  ran,      \* history: the cells whose code a kernel has run
  holder,   \* history: the kernel that holds the names of the session, or None
  unsaid,   \* history: names were lost and no answer has said so
  doubt,    \* history: cells an earlier session ran and whose end the branch does not hold
  crossed   \* history: cells rejected at the exit of a kernel they were not sent to

Cells   == 1..MaxCells
Kernels == 1..MaxKernels
None    == 0

hostVars == <<opens, session, store, reported, last, slot, call, timer, shown>>
evalVars == <<opens, session, store, reported, last, slot, call, timer, kernel,
              wire, facts, recent, shown, ran, holder, unsaid, doubt, crossed>>

Unborn == [life |-> "unborn", ready |-> FALSE, doomed |-> FALSE, seen |-> FALSE,
           queue |-> {}, cell |-> None]
NoCall == [phase |-> "none", cell |-> None, reset |-> FALSE, restarted |-> FALSE,
           note |-> FALSE, aborted |-> FALSE, interrupted |-> FALSE]
Unanswered == [kind |-> "none", reset |-> FALSE, restarted |-> FALSE, warned |-> FALSE,
               unsaid |-> FALSE, doubted |-> FALSE]

EvalInit ==
  /\ opens = 1 /\ session = TRUE
  /\ store = [readable |-> TRUE, generation |-> None, recovery |-> FALSE]
  /\ reported = FALSE /\ last = None /\ slot = None
  /\ call = NoCall /\ timer = None
  /\ kernel = [k \in Kernels |-> Unborn]
  /\ wire = {}
  /\ facts = [c \in Cells |-> "none"] /\ recent = None
  /\ shown = Unanswered
  /\ ran = {} /\ holder = None /\ unsaid = FALSE /\ doubt = {} /\ crossed = {}

Idle    == call.phase = "none"
Running == call.phase = "running"
Alive(k) == kernel[k].life \in {"booting", "idle", "busy"}
Sent(k)  == (kernel[k].queue \cup {kernel[k].cell}) \ {None}   \* what it runs or will read
Over(k)  == kernel[k].doomed \/ kernel[k].life = "gone"

(* A kernel is lost with its names: SIGKILL was sent, or the process ended.  *)
Spared(k) == kernel   \* mutant: the kill is forgotten
Doomed(k) == IF k = None THEN kernel ELSE [kernel EXCEPT ![k].doomed = TRUE]
Loses(k)  == unsaid' = (unsaid \/ (k # None /\ k = holder))

--------------------------------------------------------------------------------
(* How a call ends.  A thrown error and a cancel show no row of their own:   *)
(* only a returned result says "restarted" or carries the recovery warning.  *)
StillArmed == call' = NoCall /\ UNCHANGED timer   \* mutant: the escalation outlives its cell
Ended == call' = NoCall /\ timer' = None

ThrowsUp ==
  shown' = [Unanswered EXCEPT !.kind = "failed", !.reset = call.reset]

EndFact(c, g) ==
  \/ /\ facts' = [facts EXCEPT ![c] = "ended"] /\ recent' = g
     /\ store' = [store EXCEPT !.generation = g]
  \/ /\ WritesFail /\ UNCHANGED <<facts, recent>>
     /\ store' = [store EXCEPT !.generation = g]

(* The running cell is rejected: the listener and the timer are gone, and    *)
(* its end is recorded.                                                      *)
Reject == /\ Ended /\ ThrowsUp /\ EndFact(call.cell, last)
          /\ UNCHANGED reported

Returns ==
  LET warned == ~call.reset /\ ~reported /\ call.note
  IN  /\ Ended /\ EndFact(call.cell, last)
      /\ reported' = (reported \/ warned)
      /\ shown' = [kind |-> "returned", reset |-> call.reset, restarted |-> call.restarted,
                   warned |-> warned, unsaid |-> unsaid, doubted |-> doubt # {}]
      /\ unsaid'  = (unsaid /\ ~call.restarted)
      /\ doubt' = IF warned THEN {} ELSE doubt

(* A call that ends before its cell was sent leaves no end fact.             *)
FailsEarly == /\ Ended /\ ThrowsUp

--------------------------------------------------------------------------------
(* The tool is called.  Whether names are gone is decided here, before the   *)
(* kernel is awaited.                                                        *)
Lost(reset) ==
  /\ ~reset
  /\ \/ last # None /\ slot # last
     \/ last = None /\ store.readable /\ store.generation # None

(* The next cell and generation; CellLeft and Spawnable are the bounds.      *)
NewCell  == CHOOSE c \in Cells : facts[c] = "none" /\ \A d \in 1..(c - 1) : facts[d] # "none"
CellLeft == \E c \in Cells : facts[c] = "none"
Fresh == CHOOSE k \in Kernels : kernel[k].life = "unborn" /\ \A j \in 1..(k - 1) : kernel[j].life # "unborn"
Spawnable == \E k \in Kernels : kernel[k].life = "unborn"

Call(reset) ==
  /\ session /\ Idle /\ CellLeft
  /\ LET kept    == IF reset THEN None ELSE slot
         dropped == IF reset THEN slot ELSE None
     IN  /\ \/ /\ kept # None
               /\ slot' = kept /\ kernel' = Doomed(dropped)
            \/ /\ kept = None /\ Spawnable
               /\ slot' = Fresh
               /\ kernel' = [Doomed(dropped) EXCEPT ![Fresh].life = "booting"]
         /\ call' = [NoCall EXCEPT !.phase = "starting", !.reset = reset,
                                   !.restarted = Lost(reset),
                                   !.note = ~store.readable \/ store.recovery]
         /\ unsaid' = (unsaid /\ ~reset)
         /\ holder' = IF reset THEN None ELSE holder
  /\ shown' = Unanswered
  /\ UNCHANGED <<opens, session, store, reported, last, timer, wire, facts, recent, ran, doubt,
                 crossed>>

(* No usable interpreter: the spawn throws and leaves no slot.               *)
NoInterpreter ==
  /\ session /\ Idle /\ slot = None
  /\ shown' = [Unanswered EXCEPT !.kind = "failed"]
  /\ UNCHANGED <<opens, session, store, reported, last, slot, call, timer, kernel, wire,
                 facts, recent, ran, holder, unsaid, doubt, crossed>>

(* The kernel is ready.  The start fact must be on the branch before the     *)
(* cell is sent; a signal that fired meanwhile ends the cell unsent.         *)
Awaited == session /\ call.phase = "starting" /\ kernel[slot].ready

Begin ==
  /\ Awaited
  /\ last' = slot
  /\ \E fact \in IF call.aborted /\ ~WritesFail THEN {"ended"}
                 ELSE IF call.aborted THEN {"started", "ended"} ELSE {"started"} :
        facts' = [facts EXCEPT ![NewCell] = fact]
  /\ recent' = slot
  /\ store' = [store EXCEPT !.generation = slot]
  /\ IF call.aborted
     THEN FailsEarly /\ UNCHANGED kernel
     ELSE /\ call' = [call EXCEPT !.phase = "running", !.cell = NewCell]
          /\ kernel' = [kernel EXCEPT ![slot].queue = @ \cup {NewCell}]
          /\ UNCHANGED <<timer, shown>>
  /\ UNCHANGED <<opens, session, reported, slot, wire, ran, holder, unsaid, doubt, crossed>>

BeginAnyway ==   \* mutant: the cell is sent although its start fact is not on the branch
  /\ WritesFail /\ Awaited
  /\ last' = slot
  /\ store' = [store EXCEPT !.generation = slot]
  /\ call' = [call EXCEPT !.phase = "running", !.cell = NewCell]
  /\ kernel' = [kernel EXCEPT ![slot].queue = @ \cup {NewCell}]
  /\ UNCHANGED <<opens, session, reported, slot, timer, shown, wire, facts, recent, ran, holder,
                 unsaid, doubt, crossed>>

BeginUnsaved ==
  /\ WritesFail /\ Awaited
  /\ last' = slot
  /\ store' = [store EXCEPT !.generation = slot]
  /\ FailsEarly
  /\ UNCHANGED <<opens, session, reported, slot, kernel, wire, facts, recent, ran, holder,
                 unsaid, doubt, crossed>>

(* The ready timeout: the start fails and the kernel is killed.              *)
ReadyTimeout ==
  /\ session /\ call.phase = "starting" /\ ~kernel[slot].ready
  /\ FailsEarly
  /\ slot' = None /\ kernel' = Doomed(slot)
  /\ UNCHANGED <<opens, session, store, reported, last, wire, facts, recent, ran, holder, unsaid,
                 doubt, crossed>>

(* The user cancels, or the deadline of the cell fires.  A running cell is   *)
(* interrupted and its escalation armed.                                     *)
Unarmed == timer   \* mutant: no escalation after the interrupt
Armed   == IF Running THEN call.cell ELSE timer

Cancel ==
  /\ session /\ ~Idle /\ ~call.aborted
  /\ call' = [call EXCEPT !.aborted = TRUE, !.interrupted = Running]
  /\ timer' = Armed
  /\ UNCHANGED <<opens, session, store, reported, last, slot, kernel, wire, facts, recent,
                 shown, ran, holder, unsaid, doubt, crossed>>

(* The interrupt went unheard: whatever runs is rejected, whatever kernel is *)
(* in the slot is killed.                                                    *)
Escalate ==
  /\ session /\ timer # None
  /\ IF Running THEN Reject
     ELSE timer' = None /\ UNCHANGED <<call, shown, facts, recent, store, reported>>
  /\ slot' = None /\ kernel' = Doomed(slot)
  /\ Loses(slot)
  /\ UNCHANGED <<opens, session, last, wire, ran, holder, doubt, crossed>>

(* A done message.  Only the running cell is listened to.                    *)
Done(m) ==
  /\ session /\ m \in wire
  /\ wire' = wire \ {m}
  /\ IF Running /\ m.cell = call.cell
     THEN IF m.ok /\ ~call.interrupted
          THEN Returns
          ELSE Reject /\ UNCHANGED <<unsaid, doubt>>
     ELSE UNCHANGED <<call, timer, shown, facts, recent, store, reported, unsaid, doubt>>
  /\ UNCHANGED <<opens, session, last, slot, kernel, ran, holder, crossed>>

(* The host sees the exit of a process.  The slot is only cleared by its own *)
(* kernel; the running cell is rejected whichever kernel it was sent to.     *)
ExitSeen(k) ==
  /\ session /\ kernel[k].life = "gone" /\ ~kernel[k].seen
  /\ kernel' = [kernel EXCEPT ![k].seen = TRUE]
  /\ slot' = IF slot = k THEN None ELSE slot
  /\ \/ Running /\ Reject
     \/ call.phase = "starting" /\ slot = k /\ FailsEarly
        /\ UNCHANGED <<facts, recent, store, reported>>
     \/ ~Running /\ ~(call.phase = "starting" /\ slot = k)
        /\ UNCHANGED <<call, timer, shown, facts, recent, store, reported>>
  /\ crossed' = IF Running /\ slot # k THEN crossed \cup {call.cell} ELSE crossed
  /\ UNCHANGED <<opens, session, last, wire, ran, holder, unsaid, doubt>>

--------------------------------------------------------------------------------
(* The process.  A signal is heard, ignored or deadly: a busy kernel may end *)
(* its cell either way, or the process end, at any time.                     *)
KernelReady(k) ==
  /\ kernel[k].life = "booting"
  /\ kernel' = [kernel EXCEPT ![k].life = "idle", ![k].ready = TRUE]
  /\ UNCHANGED <<hostVars, wire, facts, recent, ran, holder, unsaid, doubt, crossed>>

(* The cells sent and not read yet are read in the order they were sent.     *)
FirstSent(k) == CHOOSE c \in kernel[k].queue : \A d \in kernel[k].queue : c <= d

KernelTakes(k) ==
  /\ kernel[k].life = "idle" /\ kernel[k].queue # {}
  /\ kernel' = [kernel EXCEPT ![k].life = "busy", ![k].cell = FirstSent(k),
                              ![k].queue = @ \ {FirstSent(k)}]
  /\ ran' = ran \cup {FirstSent(k)}
  /\ holder' = k
  /\ unsaid' = (unsaid \/ kernel[k].doomed)
  /\ UNCHANGED <<hostVars, wire, facts, recent, doubt, crossed>>

(* A cell that waits for the result of a tool drops whatever else it reads,  *)
(* the next cell too.                                                        *)
KernelDrops(k) ==
  /\ kernel[k].life = "busy" /\ kernel[k].queue # {}
  /\ kernel' = [kernel EXCEPT ![k].queue = @ \ {FirstSent(k)}]
  /\ UNCHANGED <<hostVars, wire, facts, recent, ran, holder, unsaid, doubt, crossed>>

KernelFinishes(k) ==
  /\ kernel[k].life = "busy"
  /\ kernel' = [kernel EXCEPT ![k].life = "idle", ![k].cell = None]
  /\ \E ok \in BOOLEAN :
        wire' = wire \cup (IF kernel[k].seen THEN {} ELSE {[cell |-> kernel[k].cell, ok |-> ok]})
  /\ UNCHANGED <<hostVars, facts, recent, ran, holder, unsaid, doubt, crossed>>

KernelDies(k) ==
  /\ Alive(k)
  /\ kernel' = [kernel EXCEPT ![k].life = "gone", ![k].cell = None, ![k].queue = {}]
  /\ Loses(k)
  /\ UNCHANGED <<hostVars, wire, facts, recent, ran, holder, doubt, crossed>>

--------------------------------------------------------------------------------
(* The session closes: dispose kills the kernel and rejects the running      *)
(* cell, whose end may come too late for the branch.  A host that dies       *)
(* leaves a kernel that ends by itself and a cell without an end.            *)
Leaves(saved) ==
  /\ session /\ session' = FALSE
  /\ facts' = IF saved THEN [facts EXCEPT ![call.cell] = "ended"] ELSE facts
  /\ call' = NoCall /\ timer' = None /\ slot' = None /\ wire' = {}
  /\ kernel' = [k \in Kernels |-> IF Alive(k) \/ kernel[k].life = "gone"
                                  THEN [kernel[k] EXCEPT !.doomed = TRUE, !.seen = TRUE]
                                  ELSE kernel[k]]
  /\ shown' = Unanswered
  /\ unsaid' = (unsaid \/ holder # None)
  /\ UNCHANGED <<opens, store, reported, last, recent, ran, holder, doubt, crossed>>

CloseSession == Leaves(FALSE) \/ (Running /\ Leaves(TRUE))

OpenSession ==
  /\ ~session /\ opens < MaxOpens
  /\ opens' = opens + 1 /\ session' = TRUE
  /\ \E readable \in IF WritesFail THEN BOOLEAN ELSE {TRUE} :
        store' = [readable |-> readable, generation |-> recent,
                  recovery |-> \E c \in Cells : facts[c] = "started"]
  /\ reported' = FALSE /\ last' = None /\ slot' = None
  /\ doubt' = {c \in ran : facts[c] # "ended"}
  /\ UNCHANGED <<call, timer, kernel, wire, facts, recent, shown, ran, holder, unsaid,
                 crossed>>

--------------------------------------------------------------------------------
EvalNext ==
  \/ NoInterpreter \/ \E reset \in BOOLEAN : Call(reset)
  \/ Begin \/ BeginUnsaved \/ ReadyTimeout \/ Cancel \/ Escalate
  \/ \E m \in wire : Done(m)
  \/ \E k \in Kernels : ExitSeen(k) \/ KernelReady(k) \/ KernelTakes(k)
                        \/ KernelDrops(k) \/ KernelFinishes(k) \/ KernelDies(k)
  \/ CloseSession \/ OpenSession

(* Fairness: the host's timers and its event loop, and the death of a        *)
(* process that was killed.  No cell is assumed to end by itself.            *)
EvalFairness ==
  /\ WF_evalVars(Begin) /\ WF_evalVars(ReadyTimeout) /\ WF_evalVars(Cancel)
  /\ WF_evalVars(Escalate)
  /\ \A k \in Kernels : /\ WF_evalVars(ExitSeen(k))
                        /\ WF_evalVars(kernel[k].doomed /\ KernelDies(k))

EvalSpec     == EvalInit /\ [][EvalNext]_evalVars
FairEvalSpec == EvalSpec /\ EvalFairness

--------------------------------------------------------------------------------
(* A call blocks until its cell has ended or its kernel is being killed: no  *)
(* code goes on in a kernel after the call that sent it was answered, and no *)
(* escalation outlives its cell to kill the next one.  The code breaks the   *)
(* first in one case, which is excepted by name: the exit of an earlier      *)
(* kernel, seen late, rejects the cell its successor runs.                   *)
BlocksUntilEnd ==
  /\ \A k \in Kernels : Alive(k) /\ ~kernel[k].doomed =>
       Sent(k) \subseteq crossed \cup (IF Running THEN {call.cell} ELSE {})
  /\ timer # None => Running /\ timer = call.cell

(* Code that ran in an earlier session and may not have ended is told of     *)
(* before a result is trusted: the first result of the next session carries  *)
(* the recovery warning, even when facts could not be written or read.       *)
UnknownIsTold ==
  shown.kind = "returned" /\ ~shown.reset /\ shown.doubted => shown.warned

(* A loss of the names that nobody asked for is reported by the next result. *)
LossIsTold ==
  shown.kind = "returned" /\ ~shown.reset /\ shown.unsaid => shown.restarted

(* Every call ends, whatever the kernel does: the deadline interrupts, and   *)
(* what an interrupt does not end is killed.                                 *)
CallEnds == ~Idle ~> Idle
=============================================================================
