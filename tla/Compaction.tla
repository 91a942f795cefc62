------------------------------ MODULE Compaction ------------------------------
(* Who compacts the conversation (pi-ext-memory): the end of a turn that has  *)
(* reached the threshold, through a timer; a message after an idle time, which *)
(* is held back until the compaction ends; a command.  They tell each other by *)
(* one flag of the runtime, which each must give back; the hook that supplies  *)
(* the summary has a flag of its own.  The host may compact for itself.        *)
(*                                                                             *)
(* The host is external: it takes any number of calls of compact, calls the    *)
(* hook of each at any time or not at all, and ends each once.  Its events     *)
(* come while a session is open.  Bounds: MaxAttempts attempts to compact,     *)
(* MaxEra session generations.                                                 *)
EXTENDS Naturals

CONSTANTS MaxAttempts, MaxEra

ASSUME CompactionAssumption == MaxAttempts \in Nat /\ MaxEra \in Nat

VARIABLES
  era,              \* sessionGeneration
  life,             \* of the session: open, aborted (its signal), closed
  agentBusy,        \* a run is active: isIdle answers no
  armed,            \* pendingCompactionTimer
  compactInFlight, idleCompactInFlight, compactHookInFlight,
  attempt,          \* what each attempt to compact is doing
  overlap           \* history: two compactions of this session were under way at once

compactionVars == <<era, life, agentBusy, armed, compactInFlight, idleCompactInFlight,
                    compactHookInFlight, attempt, overlap>>

Attempts == 1..MaxAttempts
NoAttempt == [pc |-> "none", kind |-> "none", era |-> 0, hook |-> 0]
Begun(pc, kind) == [pc |-> pc, kind |-> kind, era |-> era, hook |-> 0]
InHook(a)       == [pc |-> "hooked", kind |-> a.kind, era |-> a.era, hook |-> era]

CompactionInit ==
  /\ era = 1 /\ life = "open" /\ agentBusy = FALSE /\ armed = FALSE
  /\ compactInFlight = FALSE /\ idleCompactInFlight = FALSE /\ compactHookInFlight = FALSE
  /\ attempt = [t \in Attempts |-> NoAttempt] /\ overlap = FALSE

New(t) == attempt[t].pc = "none" /\ \A u \in 1..(t - 1) : attempt[u].pc # "none"

(* A call of compact that the host has not ended.                            *)
Called(t) == attempt[t].pc \in {"called", "hooked", "answered"}
Holds(t)  == Called(t) /\ attempt[t].kind # "host" /\ attempt[t].era = era
Session   == UNCHANGED <<era, life, agentBusy>>

(* isActiveSession, of what began in generation e.                           *)
ActiveAlways(e) == TRUE   \* mutant: a late callback is not asked for its session
Active(e) == e = era /\ life = "open"

Waits(t, kind) == attempt' = [attempt EXCEPT ![t] = Begun("waiting", kind)]
Compacts(t, kind) ==
  /\ compactInFlight' = TRUE
  /\ idleCompactInFlight' = (idleCompactInFlight \/ kind = "idle")
  /\ attempt' = [attempt EXCEPT ![t] = Begun("called", kind)]
  /\ overlap' = (overlap \/ (armed /\ kind # "threshold") \/ \E u \in Attempts : Holds(u))

--------------------------------------------------------------------------------
RunStarts ==
  /\ life = "open" /\ ~agentBusy /\ agentBusy' = TRUE
  /\ UNCHANGED <<era, life, armed, compactInFlight, idleCompactInFlight,
                 compactHookInFlight, attempt, overlap>>

(* agent_settled: the threshold is reached, or nothing is to be done.        *)
RunSettles ==
  /\ life = "open" /\ agentBusy /\ agentBusy' = FALSE
  /\ \/ /\ ~compactInFlight /\ compactInFlight' = TRUE /\ armed' = TRUE
        /\ overlap' = (overlap \/ armed \/ \E t \in Attempts : Holds(t))
     \/ UNCHANGED <<armed, compactInFlight, overlap>>
  /\ UNCHANGED <<era, life, idleCompactInFlight, compactHookInFlight, attempt>>

(* The timer fires.  The session is being shut down, the agent is busy       *)
(* again, the gate is off, the branch has shrunk, the host throws: the flag  *)
(* is given back at once.                                                    *)
TimerFires ==
  /\ armed /\ armed' = FALSE
  /\ \/ /\ compactInFlight' = FALSE /\ UNCHANGED <<idleCompactInFlight, attempt, overlap>>
     \/ /\ life = "open" /\ ~agentBusy
        /\ \E t \in Attempts : New(t) /\ Compacts(t, "threshold")
  /\ Session /\ UNCHANGED compactHookInFlight

(* input: the message is held back.  It waits for a consolidation, if one is *)
(* under way, and after that asks again for the session and the agent, not   *)
(* for the flag.                                                             *)
Input(t) ==
  /\ life = "open" /\ ~agentBusy /\ ~compactInFlight /\ New(t)
  /\ \/ /\ Waits(t, "idle")
        /\ UNCHANGED <<compactInFlight, idleCompactInFlight, overlap>>
     \/ Compacts(t, "idle")
  /\ Session /\ UNCHANGED <<armed, compactHookInFlight>>

(* The command asks for both flags before it waits and after.                *)
CommandFree == ~compactInFlight /\ ~compactHookInFlight
Command(t) ==
  /\ life # "closed" /\ CommandFree /\ New(t)
  /\ Waits(t, "command")
  /\ Session /\ UNCHANGED <<armed, compactInFlight, idleCompactInFlight,
                            compactHookInFlight, overlap>>

GoesOn(t) ==
  IF attempt[t].kind = "idle" THEN Active(attempt[t].era) /\ ~agentBusy
                              ELSE attempt[t].era = era /\ CommandFree

WaitEnds(t) ==
  /\ attempt[t].pc = "waiting"
  /\ \/ GoesOn(t) /\ Compacts(t, attempt[t].kind)
     \/ /\ attempt' = [attempt EXCEPT ![t].pc = "over"]
        /\ UNCHANGED <<compactInFlight, idleCompactInFlight, overlap>>
  /\ Session /\ UNCHANGED <<armed, compactHookInFlight>>

(* The host compacts for itself: the context overflows, or the user asks.    *)
HostCompacts(t) ==
  /\ life = "open" /\ New(t)
  /\ attempt' = [attempt EXCEPT ![t] = Begun("called", "host")]
  /\ Session /\ UNCHANGED <<armed, compactInFlight, idleCompactInFlight,
                            compactHookInFlight, overlap>>

--------------------------------------------------------------------------------
(* session_before_compact: the gate is off, another hook is running and this *)
(* compaction is cancelled, or the hook runs.                                *)
Hook(t) ==
  /\ attempt[t].pc = "called" /\ life # "closed"
  /\ \/ /\ attempt' = [attempt EXCEPT ![t].pc = "answered"]
        /\ UNCHANGED compactHookInFlight
     \/ /\ ~compactHookInFlight /\ compactHookInFlight' = TRUE
        /\ attempt' = [attempt EXCEPT ![t] = InHook(@)]
  /\ Session /\ UNCHANGED <<armed, compactInFlight, idleCompactInFlight, overlap>>

HookReleases(t) == compactHookInFlight' = (compactHookInFlight /\ attempt[t].hook # era)

HookEnds(t) ==
  /\ attempt[t].pc = "hooked"
  /\ attempt' = [attempt EXCEPT ![t].pc = "answered"]
  /\ HookReleases(t)
  /\ Session /\ UNCHANGED <<armed, compactInFlight, idleCompactInFlight, overlap>>

(* onComplete or onError: the flags are given back unless the session is     *)
(* over.  A host that throws at once ends the call before its hook.          *)
HostEnds(t) ==
  /\ attempt[t].pc \in {"called", "answered"}
  /\ attempt' = [attempt EXCEPT ![t].pc = "over"]
  /\ IF attempt[t].kind # "host" /\ Active(attempt[t].era)
     THEN /\ compactInFlight' = FALSE
          /\ idleCompactInFlight' = (idleCompactInFlight /\ attempt[t].kind # "idle")
     ELSE UNCHANGED <<compactInFlight, idleCompactInFlight>>
  /\ Session /\ UNCHANGED <<armed, compactHookInFlight, overlap>>

--------------------------------------------------------------------------------
(* The session: its signal is aborted, then its runtime ends, then another   *)
(* one may start.                                                            *)
SessionAborts ==
  /\ life = "open" /\ life' = "aborted"
  /\ UNCHANGED <<era, agentBusy, armed, compactInFlight, idleCompactInFlight,
                 compactHookInFlight, attempt, overlap>>

Clears ==
  /\ era' = era + 1 /\ agentBusy' = FALSE /\ armed' = FALSE
  /\ compactInFlight' = FALSE /\ idleCompactInFlight' = FALSE /\ compactHookInFlight' = FALSE
  /\ overlap' = FALSE /\ UNCHANGED attempt

SessionEnds   == life = "aborted" /\ life' = "closed" /\ Clears
SessionStarts == life = "closed" /\ era < MaxEra /\ life' = "open" /\ Clears

CompactionNext ==
  \/ RunStarts \/ RunSettles \/ TimerFires
  \/ SessionAborts \/ SessionEnds \/ SessionStarts
  \/ \E t \in Attempts : \/ Input(t) \/ Command(t) \/ WaitEnds(t) \/ HostCompacts(t)
                         \/ Hook(t) \/ HookEnds(t) \/ HostEnds(t)

(* Fairness: timers fire, a session that is aborted ends, and the host ends  *)
(* each compaction it was asked for.                                         *)
CompactionFairness ==
  /\ WF_compactionVars(TimerFires) /\ WF_compactionVars(SessionEnds)
  /\ \A t \in Attempts : WF_compactionVars(Hook(t) \/ HookEnds(t) \/ HostEnds(t))

CompactionSpec     == CompactionInit /\ [][CompactionNext]_compactionVars
FairCompactionSpec == CompactionSpec /\ CompactionFairness

--------------------------------------------------------------------------------
(* A flag that is set has a holder who will give it back; and as long as no  *)
(* two compactions of the session overlapped, it is set whenever one is      *)
(* under way: a late callback of an earlier session takes no flag away.      *)
UnderWay == armed \/ \E t \in Attempts : Holds(t)
FlagHasHolder ==
  life = "open" =>
    /\ compactInFlight => UnderWay
    /\ idleCompactInFlight => \E t \in Attempts : Holds(t) /\ attempt[t].kind = "idle"
    /\ ~overlap /\ UnderWay => compactInFlight

(* One hook of the session runs at a time, and the flag says whether one     *)
(* does, whatever the hooks of earlier sessions do.                          *)
Hooked(t) == attempt[t].pc = "hooked" /\ attempt[t].hook = era
OneHook ==
  /\ compactHookInFlight <=> \E t \in Attempts : Hooked(t)
  /\ \A t, u \in Attempts : Hooked(t) /\ Hooked(u) => t = u

(* No compaction is refused for ever because of one that is over.            *)
FlagIsGivenBack == compactInFlight ~> ~compactInFlight

(* No compaction begins while another one of the session is under way.       *)
CompactsAlone == ~overlap
=============================================================================
