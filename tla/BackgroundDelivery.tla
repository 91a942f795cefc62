------------------------- MODULE BackgroundDelivery -------------------------
(***************************************************************************)
(* packages/pi-ext-core/src/background-delivery.ts: the coordinator shared   *)
(* by the producers of one session (background Bash, subagents). It decides  *)
(* when a producer's channel flushes and which flush may wake an idle parent.*)
(*                                                                         *)
(* One microtask runs the whole batch without interruption, but a flush      *)
(* calls into the host, which may synchronously dispose or abort other       *)
(* channels and give new content to some. So the batch is a loop of steps,   *)
(* `todo` being the rest of it, and while it runs nothing else does.         *)
(*                                                                         *)
(* Content that a channel lost stays lost within a batch: the two channels   *)
(* of the source lose it by an abort or a dispose, which are final.          *)
(***************************************************************************)
EXTENDS Naturals, Sequences, SequencesExt, Selection

CONSTANT Channels

VARIABLES order,      \* the registered channels, in the order of registration
          disposed,   \* channels that were disposed or whose session aborted
          pending,    \* channels with content to send
          scheduled,  \* a microtask is queued
          todo,       \* the channels of the running batch not looked at yet
          idle,       \* what the batch read of the parent when it began
          sends,      \* sends[i]: was the i-th flush of this batch allowed to wake?
          cut,        \* the batch lost a channel or had a flush fail
          owed        \* requests no batch has answered yet

vars == <<order, disposed, pending, scheduled, todo, idle, sends, cut, owed>>

Registered == Range(order)
BatchOfOne ==   \* mutant: one channel per microtask
  LET ready == Selected(order, pending)
  IN  IF ready = <<>> THEN ready ELSE <<Head(ready)>>
Batch == Selected(order, pending)
InBatch == todo # <<>>

Init == /\ order = <<>>
        /\ disposed = {}
        /\ pending = {}
        /\ scheduled = FALSE
        /\ todo = <<>>
        /\ idle = FALSE
        /\ sends = <<>>
        /\ cut = FALSE
        /\ owed = {}

Register(c) ==
  /\ ~InBatch
  /\ c \notin Registered \cup disposed
  /\ order' = Append(order, c)
  /\ UNCHANGED <<disposed, pending, scheduled, todo, idle, sends, cut, owed>>

(* A producer gets content and requests a flush of it.                       *)
Request(c) ==
  /\ ~InBatch
  /\ c \in Registered
  /\ pending' = pending \cup {c}
  /\ scheduled' = TRUE
  /\ owed' = owed \cup {c}
  /\ UNCHANGED <<order, disposed, todo, idle, sends, cut>>

(* What a set of channels leaves behind when it is disposed: nothing.        *)
Without(gone) ==
  /\ order' = Selected(order, Registered \ gone)
  /\ disposed' = disposed \cup gone

Dispose(c) ==
  /\ ~InBatch
  /\ c \in Registered
  /\ Without({c})
  /\ pending' = pending \ {c}
  /\ owed' = owed \ {c}
  /\ UNCHANGED <<scheduled, todo, idle, sends, cut>>

(* The microtask: later requests need a new one; the parent's state is read  *)
(* once for the batch.                                                       *)
RunBatch ==
  /\ scheduled /\ ~InBatch
  /\ scheduled' = FALSE
  /\ todo' = Batch
  /\ idle' \in BOOLEAN
  /\ sends' = <<>>
  /\ cut' = FALSE
  /\ UNCHANGED <<order, disposed, pending, owed>>

(* One round of the loop for the head of `todo`. A channel that went quiet   *)
(* is skipped; the others flush and may wake an idle parent only if no later *)
(* channel is still valid. The flush may throw, and the host it calls may    *)
(* dispose of channels (`gone`) and hand content to channels (`more`).       *)
StillPending(c) == c \in Registered /\ c \in pending

IsNearlyLast == \A i \in 3..Len(todo) : ~StillPending(todo[i])   \* mutant: slice(index + 2)
IsLastOfAll == \A i \in 1..Len(todo) : ~StillPending(todo[i])   \* mutant: off by one
IsLast == \A i \in 2..Len(todo) : ~StillPending(todo[i])

Skip == /\ InBatch
        /\ ~StillPending(Head(todo))
        /\ todo' = Tail(todo)
        /\ UNCHANGED <<order, disposed, pending, scheduled, idle, sends, cut, owed>>

FlushHead ==
  /\ InBatch
  /\ LET c == Head(todo)
     IN /\ StillPending(c)
        /\ \E threw \in BOOLEAN, gone \in SUBSET Registered, more \in SUBSET Registered :
             /\ more \cap (gone \cup (Range(todo) \ {c})) = {}
             /\ Without(gone)
             /\ pending' = ((IF threw THEN pending ELSE pending \ {c}) \cup more) \ gone
             /\ scheduled' = (scheduled \/ more # {})
             /\ owed' = ((owed \ {c}) \cup more) \ gone
             /\ cut' = (cut \/ threw \/ gone # {})
        /\ sends' = Append(sends, ~idle \/ IsLast)
        /\ todo' = Tail(todo)
  /\ UNCHANGED idle

Next == \/ \E c \in Channels : Register(c) \/ Request(c) \/ Dispose(c)
        \/ RunBatch \/ Skip \/ FlushHead

(* Microtasks run, and run to their end.                                     *)
Spec == Init /\ [][Next]_vars /\ WF_vars(RunBatch \/ Skip \/ FlushHead)
-----------------------------------------------------------------------------
TypeOK == /\ Registered \subseteq Channels /\ IsInjective(order)
          /\ disposed \subseteq Channels \ Registered
          /\ pending \subseteq Registered
          /\ owed \subseteq pending
          /\ scheduled \in BOOLEAN /\ idle \in BOOLEAN /\ cut \in BOOLEAN
          /\ Range(todo) \subseteq Channels
          /\ \A i \in 1..Len(sends) : sends[i] \in BOOLEAN

Wakes == {i \in 1..Len(sends) : sends[i]}

(* An idle parent is woken at most once per batch, and only by the last      *)
(* message of it, so that the turn it starts sees all of them.               *)
OneWakeAtTheEnd ==
  idle => \A i \in Wakes : i = Len(sends)

(* Delivered content starts a turn: a batch that sent to an idle parent ends *)
(* with a wake, unless a flush threw or disposed of a channel meanwhile (the *)
(* wake is never reassigned backwards).                                      *)
NobodyUnheard ==
  (~InBatch /\ idle /\ sends # <<>> /\ ~cut) => Wakes # {}

(* No request is swallowed: content asked for while a batch runs or before   *)
(* it reaches its channel is flushed, or its channel is gone.                *)
RequestIsServed ==
  \A c \in Channels : []<>(c \notin owed) \/ []<><<FlushHead /\ c = Head(todo)>>_vars
=============================================================================
