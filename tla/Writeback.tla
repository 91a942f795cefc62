------------------------------- MODULE Writeback -------------------------------
(* The turns of a session on their way to a remote memory (pi-ext-memory,     *)
(* hindsight): a queue that sends one batch at a time under the signal of the *)
(* session, and the teardown of the session, which aborts that signal before  *)
(* it asks the queue to drain.                                                *)
(*                                                                            *)
(* A batch is its place in sent, the batches accepted so far; Texts are what  *)
(* batches may say.  MaxPendingBatches is MAX_PENDING_BATCHES; MaxBatches     *)
(* is a bound.  Whether the server has taken a batch whose request failed, or *)
(* takes it after later ones, is not modelled: the queue does not look.       *)
EXTENDS Naturals, Sequences

CONSTANTS Texts, MaxPendingBatches, MaxBatches

VARIABLES
  sent,     \* the texts accepted so far
  pending,  \* #pending
  sending,  \* the batch of the request in flight, 0 when the loop is not running
  said,     \* #lastFingerprint: what was delivered last, or <<>>
  aborted,  \* the signal of the session
  closed, stopped,
  drain     \* the answer of drain

writebackVars == <<sent, pending, sending, said, aborted, closed, stopped, drain>>

WritebackInit ==
  /\ sent = <<>> /\ pending = <<>> /\ sending = 0 /\ said = <<>>
  /\ aborted = FALSE /\ closed = FALSE /\ stopped = FALSE
  /\ drain = "none"

Running == sending # 0

(* The loop takes the next batch without a pause; it ends on an empty or a   *)
(* stopped queue.                                                            *)
TakesFrom(queue) ==
  IF queue = <<>> \/ stopped
  THEN sending' = 0 /\ pending' = queue
  ELSE sending' = Head(queue) /\ pending' = Tail(queue)

(* The run of an agent ends.  A batch that says what was delivered last, or  *)
(* that finds the backlog full, is dropped.                                  *)
Enqueue(text) ==
  /\ Len(sent) < MaxBatches
  /\ ~closed /\ ~aborted /\ said # <<text>> /\ Len(pending) < MaxPendingBatches
  /\ sent' = Append(sent, text)
  /\ IF Running THEN pending' = Append(pending, Len(sent) + 1) /\ UNCHANGED sending
                ELSE TakesFrom(Append(pending, Len(sent) + 1))
  /\ UNCHANGED <<said, aborted, closed, stopped, drain>>

Delivered ==
  /\ Running
  /\ said' = <<sent[sending]>>
  /\ TakesFrom(pending)
  /\ UNCHANGED <<sent, aborted, closed, stopped, drain>>

(* The request fails or times out.  Its batch is not sent again; under the   *)
(* aborted signal the loop returns with what is pending.                     *)
Failed ==
  /\ Running
  /\ IF aborted THEN sending' = 0 /\ UNCHANGED pending ELSE TakesFrom(pending)
  /\ UNCHANGED <<sent, said, aborted, closed, stopped, drain>>

(* The teardown: the signal is aborted, then the resources are released.     *)
AbortSignal ==
  /\ ~aborted /\ aborted' = TRUE
  /\ UNCHANGED <<sent, pending, sending, said, closed, stopped, drain>>

Drain ==
  /\ aborted /\ ~closed /\ closed' = TRUE
  /\ drain' = IF Running THEN "waiting" ELSE "drained"
  /\ UNCHANGED <<sent, pending, sending, said, aborted, stopped>>

GraceExpires ==
  /\ drain = "waiting" /\ ~stopped /\ stopped' = TRUE
  /\ UNCHANGED <<sent, pending, sending, said, aborted, closed, drain>>

DrainEnds ==
  /\ drain = "waiting" /\ ~Running
  /\ drain' = IF stopped THEN "gave up" ELSE "drained"
  /\ UNCHANGED <<sent, pending, sending, said, aborted, closed, stopped>>

WritebackNext ==
  \/ \E text \in Texts : Enqueue(text)
  \/ Delivered \/ Failed \/ AbortSignal \/ Drain \/ GraceExpires \/ DrainEnds

(* Fairness: an aborted request is rejected, and the teardown goes on.  No   *)
(* server is assumed to answer.                                              *)
WritebackFairness ==
  /\ WF_writebackVars(aborted /\ Failed)
  /\ WF_writebackVars(GraceExpires) /\ WF_writebackVars(DrainEnds)

WritebackSpec == WritebackInit /\ [][WritebackNext]_writebackVars
FairWritebackSpec == WritebackSpec /\ WritebackFairness

--------------------------------------------------------------------------------
(* The teardown of a session ends, though the server never answers.          *)
DrainAnswers == (drain = "waiting") ~> (drain # "waiting")

(* A queue that says it drained has nothing left: what was pending when the  *)
(* session ended was sent.                                                   *)
DrainedIsEmpty == drain = "drained" => pending = <<>>
=============================================================================
