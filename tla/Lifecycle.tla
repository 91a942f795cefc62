------------------------------- MODULE Lifecycle -------------------------------
(* The scope of an extension in a session (pi-ext-core): starts and shutdowns *)
(* go through one queue, a start acquires resources one after another and may *)
(* fail at any of them, a shutdown aborts the signal of the scope and then    *)
(* releases its resources in reverse order, whether a release fails or not.   *)
(*                                                                            *)
(* Scopes are numbered in the order they are created.  Bounds: MaxEvents      *)
(* session events, Resources resources a start acquires.                      *)
EXTENDS Naturals, Sequences

CONSTANTS MaxEvents, Resources

ASSUME LifecycleAssumption == MaxEvents \in Nat /\ Resources \in Nat

VARIABLES
  events,   \* session events so far
  queue,    \* the transitions that wait, the first one runs
  active,   \* the scope that is active, or 0
  scopes,   \* scopes created so far
  closing,  \* the scope whose resources are being released, or 0
  failures, \* a release of it failed
  step,     \* the resources the running start has acquired
  failed,   \* the running start threw
  entries,  \* the cleanups each scope has registered, oldest first
  signalled,\* the scopes whose signal is aborted
  held      \* history: the resources acquired and not released yet, with their scope

lifecycleVars == <<events, queue, active, scopes, closing, failures, step, failed,
                   entries, signalled, held>>

Scopes == 1..MaxEvents

LifecycleInit ==
  /\ events = 0 /\ queue = <<>> /\ active = 0 /\ scopes = 0
  /\ closing = 0 /\ failures = FALSE /\ step = 0 /\ failed = FALSE
  /\ entries = [s \in Scopes |-> <<>>] /\ signalled = {} /\ held = {}

(* session_start and session_shutdown.                                       *)
SessionEvent(kind) ==
  /\ events < MaxEvents /\ events' = events + 1
  /\ queue' = Append(queue, [kind |-> kind, begun |-> FALSE])
  /\ UNCHANGED <<active, scopes, closing, failures, step, failed, entries, signalled, held>>

Turn(kind) == queue # <<>> /\ Head(queue).kind = kind /\ closing = 0
Dequeue    == queue' = Tail(queue)

(* The active scope is given up: from here on it is not active, its signal   *)
(* is aborted and its resources are on their way out.                        *)
Closes(s) == /\ active' = 0 /\ closing' = s /\ failures' = FALSE
             /\ signalled' = signalled \cup {s}

Shutdown ==
  /\ Turn("shutdown")
  /\ \/ active = 0 /\ Dequeue /\ UNCHANGED <<active, closing, failures, signalled>>
     \/ active # 0 /\ Closes(active) /\ UNCHANGED queue
  /\ UNCHANGED <<events, scopes, step, failed, entries, held>>

(* A start first shuts down what is still active.                            *)
Start ==
  /\ Turn("start") /\ ~Head(queue).begun
  /\ \/ /\ active # 0 /\ Closes(active)
        /\ UNCHANGED <<queue, scopes, step, failed>>
     \/ /\ active = 0
        /\ scopes' = scopes + 1 /\ active' = scopes + 1
        /\ queue' = [queue EXCEPT ![1].begun = TRUE]
        /\ step' = 0 /\ failed' = FALSE
        /\ UNCHANGED <<closing, failures, signalled>>
  /\ UNCHANGED <<events, entries, held>>

Acquire ==
  /\ Turn("start") /\ Head(queue).begun /\ ~failed /\ step < Resources
  /\ step' = step + 1
  /\ entries' = [entries EXCEPT ![active] = Append(@, step + 1)]
  /\ held' = held \cup {[scope |-> active, resource |-> step + 1]}
  /\ UNCHANGED <<events, queue, active, scopes, closing, failures, failed, signalled>>

StartThrows ==
  /\ Turn("start") /\ Head(queue).begun /\ ~failed
  /\ failed' = TRUE /\ Closes(active)
  /\ UNCHANGED <<events, queue, scopes, step, entries, held>>

Started ==
  /\ Turn("start") /\ Head(queue).begun /\ ~failed /\ step = Resources
  /\ Dequeue
  /\ UNCHANGED <<events, active, scopes, closing, failures, step, failed, entries, signalled, held>>

(* The cleanup registered last is called; it may fail.                       *)
Release(ok) ==
  /\ closing # 0 /\ entries[closing] # <<>>
  /\ LET n == Len(entries[closing])
     IN  /\ entries' = [entries EXCEPT ![closing] = SubSeq(@, 1, n - 1)]
         /\ held' = held \ {[scope |-> closing, resource |-> entries[closing][n]]}
  /\ failures' = (failures \/ ~ok)
  /\ UNCHANGED <<events, queue, active, scopes, closing, step, failed, signalled>>

(* The cleanup is over.  A start that shut down an older scope goes on, but  *)
(* not when a cleanup of that scope failed.                                  *)
LeftoverTolerant ==   \* mutant: the first failure ends the cleanup
  IF failures THEN <<>> ELSE entries[closing]
Leftover == entries[closing]

Cleaned ==
  /\ closing # 0 /\ Leftover = <<>>
  /\ closing' = 0 /\ failed' = FALSE
  /\ IF Head(queue).kind = "start" /\ ~Head(queue).begun /\ ~failures
     THEN UNCHANGED queue ELSE Dequeue
  /\ UNCHANGED <<events, active, scopes, failures, step, entries, signalled, held>>

LifecycleNext ==
  \/ \E kind \in {"start", "shutdown"} : SessionEvent(kind)
  \/ Shutdown \/ Start \/ Acquire \/ StartThrows \/ Started
  \/ \E ok \in BOOLEAN : Release(ok)
  \/ Cleaned

LifecycleSpec == LifecycleInit /\ [][LifecycleNext]_lifecycleVars

--------------------------------------------------------------------------------
(* Nothing leaks and nothing is shared: all that is held belongs to one      *)
(* scope, and when no transition runs that is the active scope, whatever     *)
(* start or release failed before.                                           *)
HeldByTheActive ==
  /\ \A h, g \in held : h.scope = g.scope
  /\ queue = <<>> => \A h \in held : h.scope = active
=============================================================================
