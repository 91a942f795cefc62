# Specifications of pi-mono

TLA+ specifications of the Pi extensions in this repository: the parts of
`packages/` whose correctness depends on the order in which processes, timers,
messages and crashes happen. TLC checks each specification on small instances;
TLAPS proves the main results about the command registry, the delegations of a child, who runs
a child, the scope of an extension, the patches and the memory of a session for every value of
their constants.

## 1. The system

The repository is a set of extensions that run inside one host process (the Pi
coding agent). JavaScript runs one callback at a time, so a race never splits a
synchronous block; it happens at an `await`, at a timer, between two processes,
or when the process dies between two effects that outlive it. That is what the
modules look at.

| Part | Code | State it keeps | Operations | Talks to |
|---|---|---|---|---|
| Command registry | `pi-bg-bash/src/bash-jobs.ts` | a job object per background command, timers, sweeps | start, stop, timeout, child events, release, dispose, recover | the shell's process group, the ledger, the delivery |
| Command ledger | `pi-bg-bash/src/bash-ledger.ts` | one SQLite row per command | save, recover, exclusive lock | the registry |
| Command delivery | `pi-bg-bash/src/bash-delivery.ts`, `session-state.ts` | receipts on the conversation branch, batches in flight | flush, submit, confirm, reconcile on navigation | registry, host message queue, coordinator |
| Delivery coordinator | `pi-ext-core/src/background-delivery.ts` | registered channels, one scheduled batch | register, request, dispose, run a batch | every background producer |
| Parent-child mailbox | `pi-subagents/src/mailbox.ts`, `state-db.ts` | a table of commands | request, report, event, claim, answer, wait, takeover | parent and child processes |
| Process lock, lease, registry of children | `process-lock.ts`, `lease.ts`, `registry.ts` | who runs which child, stop or resume intent | bind, stop, runtime gone, reconcile | terminal hosts, manager |
| Receipts and manager | `receipts.ts`, `manager.ts` | a status per delegation, a work version per child, waiters, automatic reports | delegate, settle, abandon, sweep, stop, recover | mailbox, lease, parent conversation |
| Child side | `child-control.ts`, `child-bridge.ts` | the child's input queue, compaction in flight | accept input, report | mailbox |
| Observational memory | `pi-ext-memory/src/runtime.ts`, `hooks/`, `session-ledger/` | session generation, in-flight flags, a ledger folded from the branch | consolidate, compact, project | language model, conversation |
| Memory writeback | `pi-ext-memory/src/hindsight/` | a queue of batches | enqueue, drain, abort | remote service |
| Python kernel host | `pi-python-eval/src/kernel/` | one kernel, one running cell, facts on the branch | run, interrupt, escalate, reset, dispose | interpreter process, conversation |
| Patch executor | `pi-apply-patch/src/apply-patch/executor.ts`, `fs.ts` | a row per operation, temporary files | prepare, compare, publish, remove each path | file system |
| Extension lifecycle | `pi-ext-core/src/lifecycle.ts` | the active scope, a queue of transitions | start, shut down, acquire, release | host |
| Other bookkeeping | `service.ts`, `page-router.ts`, `draft-session.ts`, `pi-todo` | providers, pages, drafts, tasks | register, navigate, save | host |

`PROJECT.json` lists every component, the ones that are not modelled with the
reason, and the hazards of each at the line where they bite.

What makes each part correct:

* **Registry and ledger**: a result says what happened to the process; a
  command that was accepted is known after any crash; an answer never changes;
  every stop and every teardown ends.
* **Delivery**: a result is neither lost nor sent twice to a branch, is confirmed
  only on the branch that shows it, and is not evicted before that.
* **Coordinator**: an idle parent is woken once per batch, and no request is
  swallowed by the batch that is running.
* **Mailbox**: a request runs at most once; a caller that got an answer asked
  for something that ran; what was given up does not start; every wait ends.
* **Receipts and manager**: a delegation is bound once and ended once, answered only
  by the turn or compaction it is bound to, and heard once: by the waiting call or in
  the conversation; every dispatch ends.
* **Lock, lease, panels**: two processes never work for one child; a stop that succeeded is the end
  until the next send; the record names the process that serves the child, and its end is recorded.
* **Memory**: work of an ended session neither holds nor takes the lock of the next
  one; the cached fold is the fold of whatever branch it is used for; nothing said is
  skipped by the mark of an observer; a reflection is retired for one that replaces it; a flag
  that says a compaction is under way has a holder of its own session, and one hook supplies a summary at a time.
* **Writeback**: a queue that says it drained is empty; the teardown ends.
* **Kernel**: no code goes on after its call was answered, but for one case that section 5 names; code whose end is unknown is
  told of before a result of the next session is trusted; every call ends.
* **Patches**: the report is true of the files; an edit of another program is destroyed
  only if it came after the last comparison.
* **Lifecycle**: what is held belongs to the active scope, whatever start or release failed.

## 2. Modules

| Module | Models | Role |
|---|---|---|
| `CommandRecord` | what the registry promises about one command | abstract specification |
| `BashJobs` | registry, ledger, shell and process group | detailed specification, implements `CommandRecord` |
| `BashJobsProofs` | - | types, safety, final answers and the refinement, proved |
| `BashDelivery` | delivery over `BashJobs` and a branching conversation | composition: EXTENDS `BashJobs`, every step of the registry is one of its steps or is driven by it |
| `DeliveryProofs` | - | its three safety properties, the promise of `CommandRecord` and final answers, proved over `BashJobsProofs` |
| `Selection`, `SelectionProofs` | the filter of an array | operator of `Mailbox` and `BackgroundDelivery`, and what it keeps, proved |
| `BackgroundDelivery` | the coordinator | stands alone |
| `Mailbox` | mailbox and its table, both sides | stands alone |
| `MailboxProofs` | - | its three safety properties and the action property, proved |
| `Receipts` | the table of delegations of one parent to one child | state and operators, extended by `Delegations` |
| `Delegations` | manager, child and the wire between them, around one child | composition over `Receipts` |
| `DelegationsProofs` | - | types, answers, rows, the waiting slot and who hears an answer, proved |
| `Lease` | who runs a panel child: record, lock, panels, the manager between them | stands alone |
| `LeaseProofs` | - | types and its three safety properties, proved |
| `Consolidation` | memory of a session file: ledger, cached fold, lock, the four stages | stands alone |
| `Compaction` | who compacts the conversation: timer, held-back message, command, host, and the three flags between them | stands alone |
| `Writeback` | queue of batches to a remote memory and its teardown | stands alone |
| `EvalKernel` | host of the Python kernel, the kernels, the facts on the branch | stands alone |
| `PatchExecutor` | patches, foreign writers and the files | stands alone |
| `DocumentsProofs` | - | the four safety properties of the memory and the two of the patches, proved |
| `Lifecycle` | scopes of an extension | stands alone |
| `ServicesProofs` | - | the safety properties of the coordinator, the scopes, the kernel and the compactions, proved |
| `MC*` | constants for TLC | one `.cfg` per question |

`MCServices` and `MCDocuments` check several parts that share no state in one run: a
variable `part`, chosen initially, says which one moves.

Definitions called `...Anyway`, `...Late`, `...Keeps` and the like, each with the
comment `mutant`, are plausible mistakes in the code. No specification uses
them; they show that each property can fail (`PROJECT.json`, "mutants").

### BashJobs

`rec[j]` is the job object, `ledger[j]` its row, `proc[j]` what the operating
system knows: whether the shell lives, whether descendants are left and whether
they hold its stdio, whether SIGKILL can reach them. An action is one callback of
the event loop. `start` is the exception: the intent row and the shell both outlive
the host, so `StartIntent` and `StartSpawn` / `StartNoPid` / `StartThrows` are two
steps, and only the operating system or a crash can act between them.

Release waits for the sweep and the log; the log is the step between
`draining` and `released`. `Crash` forgets everything but ledger and processes,
`Open` rebuilds jobs from rows as `recoverSnapshot` does. Saves after the first
may fail (`Save` may leave the row as it is), which is what `#save` swallows.
The delivery calls (`MarkSubmitted`, `MarkRecorded`, `Requeue`,
`ReconcileRecorded`) are in the next-state relation with any argument, so the
registry is checked and proved against every delivery channel, not only the
one in this repository. Command text, output and the Windows branch are left out.

### BashDelivery

Adds the conversation: a trunk and branches, the receipts each carries, the host's
queue of batches, and the agent's events. `Flush` is the whole `flush` and
`submit`: it puts what is ready into batches, marks and hands over, and the host accepts or refuses (`FlushRefused`).
`HostAppend` is the message event with its receipt. `Navigate` is a move to another branch, which reconciles; a move back to the
trunk is one to a new branch, because the session file only grows. `QueueSurvives` says whether
a queued message survives a navigation and `HostLoses` whether the host may drop
its queue; the host is outside this repository and both answers are checked.

### BackgroundDelivery

`Request` schedules a microtask batch, `RunBatch` takes the pending channels and
`FlushHead` calls one flush, which may throw, request or dispose, itself
or others. A channel is registered between two calls. The interesting value is the `last` flag, computed from the channels
that are still pending when the loop reaches one.

### Mailbox

The table is a sequence of ids with a status each; a statement is one action.
`Poll`, `HandleEvent`, `BeginReport`, `FinishReport`, `EndBatch` are the loop of
one parent transport, which goes on after the transport is closed by a reload.
`Take` and `Answer` are a child's tick; its handler runs on after `Detach`.
`Settle` with `ReadAnswer`, `Expire`, `Cancel`, `ReadFails` is `waitForCommand`.
A write may fail wherever the code handles it (`WritesFail`), and `faults`
remembers that one did. Connection notices are in `Lease`.

### Receipts and Delegations

`row[d]` is the receipt of a delegation; `Updated`, `Settled`, `Ended` are the statements
that change rows, with the conditions of their WHERE clauses. `Delegations` adds the
manager's maps (`mem`: work version, working, latest settlement, last delivered turn,
projector, ownership, armed report), the waiting slot, the chain of operations of the
child (`#mutate`), the call of each delegation, the child and what is under way between them.

`Delegate` is the call up to its first await: reserve, register the waiter, clear an armed
report, join the chain. The head of the chain then runs one of the send steps: `SendRequest`
claims a turn number and puts the request out, `Acknowledged` binds the row to the claim
or the compaction, and ends it at once if the latest settlement is already the one of its turn. `HearStart`,
`HearSettled` and `HearExit` count or note an event when it arrives and queue the rest
of it; the reports of the child are settled at once, outside the chain. `ReportFires`,
`ReportReads`, `RunReport` are the automatic report: its delay, the read of the answer, the
settlement in the chain after looking again whether anything moved. `Restart` is a reload, which
keeps the child, or a new process, which does not.

The child is external: `Accept` steers into a running turn, opens one, or waits for a
compaction. `EndTurn`, `Ask` and `CompactionEnds` happen at any time. What can go wrong is
named by `Faults` and bounded by `MaxFaults`: a stop, a death, a restart, a registry that throws before
the request, a conversation that refuses a message, an answer that cannot be read. A request that
is refused or not answered in time needs no fault, it may always happen.

One assumption about time: an armed report does not fire while a waiting call that already has its answer
returns (the delay is half a second, the return needs one callback).

Left out: launches and panels, which are in `Lease`; the adoption of a child that was resumed (`#adopt` after its first lock: the child is asked
whether it works, which its events say too; it runs before the new row is bound, so the numbers it restores are the ones the resume restored); a process that
lives on although its launch failed (`ResumeFails` takes it to be gone: sends to it are doubted until it is); a user's interrupt, failures of the settlement write itself, a compaction started by hand, and the
callbacks between the end of a send and its binding (one microtask).

### Lease

One child that lives in a panel of a terminal host. `proc[r]` is the process of launch `r` (starting, serving with
the lock held, reloading without it, gone to another session, dead), `panel[r]` its panel; `record` is what the table says: the
intent, whether it is running, the runtime, the panel. `chain` is the queue `#mutate` of the child and `op`
the operation at its head while it waits; `launch` is a call of `openChildPanel`, `recon` the reconciliation of a parent
session that opens. `seen`, `attachment` and `left` are memory of the parent and gone with it.

`Send` writes the record and launches when nobody is connected; `HostOpens`, `Connects` and `TimesOut` are the
launch with its failures. `Stop` writes the intent, `StopCloses` closes the panel and asks whether it is gone. `Reclaim` and `Reclaims` are the
countdown of an idle child. `Notices` is the poll of the locks; what it finds is queued and handled later by `Adopts` or `Ended` with
`EndObserved`, when it may no longer be true. `HearsLeft` and `HearsError` take what the child sent.
`Lists`, `Reads`, `Acts` and `Settles` are the reconciliation, from a list, a copy of the record and the generation of the host
read one after the other. `ParentEnds` may come at any point, in a launch too. `CleansUp` is the closing of a panel: done and confirmed, not
done, or not answered.

`marks` is history and names what the properties except: a launch that was not confirmed (`doubt`), a reloading
process that was taken for gone (`crossed`), a send over a stop that was left half done (`halted`), a host that did not answer this parent (`unlisted`).

What is assumed: a closed panel ends its process; the host restarts only while no parent is open, because the parent
runs in one of its panels; nobody calls the child before the parent has reconciled; a launch ends within the deadline of
its call (its wait is 20 s, the deadline 60 s); a lock is held until an open parent has polled (`PollsFirst`: a process needs longer to start, reload
and end than the poll's 50 ms). A write of the record is one step. Turns begin and end only while nothing else is under
way (`HearsTurn`); their order against sends is the subject of `Delegations`.

### Consolidation

`log` is every entry ever appended to the session file, each with its branch (the entries from
the root to it), `leaf` the entry the session is at, `snapshot` the cached fold `ledgerSnapshot`,
`inFlight` the lock `consolidationInFlight`. A run is one call of `runConsolidation`: `Launch` is
everything up to the first model call, `Observed`, `Reflected` and `Dropped` are what happens when a
model has answered, `Reflect`, `FoldForReflector`, `Drop` and `Enforce` the synchronous blocks between. The
generation a run was launched in is compared where the code compares it. `Navigate` and the ends and
starts of sessions fall between any two of these. A memory is named by the hash of its content, as in
the code, so that two runs, or two branches, can name the same one.

`stray` and `orphans` are history: an entry is stray when it was written by a stage whose branch had been left.

### Compaction

`attempt[t]` is one attempt to compact: where it is (`waiting` for a consolidation, `called` in the host, `hooked`
in the hook that supplies the summary, `answered`), who made it, and the generations it and its hook began in. `armed`
is the deferred timer. `RunSettles` is the end of a run (`agent_settled`), which may set the flag and arm the timer; `TimerFires`
compacts or gives the flag back for one of the reasons the code has. `Input` holds a message back and `WaitEnds` goes
on after its wait, with the tests the code makes again and without the one it does not. `Command` is the command of the user,
`HostCompacts` a compaction the host makes for itself. `Hook`, `HookEnds` and `HostEnds` are callbacks of the host,
external, at any time. The end and the start of a session fall between any two of these. `overlap` is
history: two compactions of this session were under way at once.

### Writeback

One queue and one session: `Enqueue`, the loop (`Delivered`, `Failed`), the abort of the session's
signal, `drain` with its grace period. What the server took of a request that failed or timed out, and when, is outside of it and not modelled.

### EvalKernel

`call` is the tool call with its phases, `kernel[k]` a process and what the host saw of it, `slot` the
kernel in use, `facts` the two facts of a cell on the session branch, `recent` the generation of the newest
of them. `Call` is `runWithHooks` up to its first await, `Begin` the send of the cell, `Done` its answer,
`Cancel` the abort or the deadline with its interrupt, `Escalate` the kill, `ExitSeen` the exit event.
The process is external: it gets ready, takes a cell, ends it or dies at any time, and an interrupt may be
heard or not. `CloseSession` covers both dispose and the death of the host. A kernel may get its successor, and the successor a cell, before its exit is seen
(`ExitSeen` then rejects that cell; `crossed` is the history of these). Code that waits for the result of a tool reads whatever is sent to its
kernel and drops it (`KernelDrops`), so a call behind such code ends by its deadline only.

Left out: the kill of a kernel whose frame exceeds 1 MiB (`host.ts:267-280`: for the properties a process that dies at any time), and the calls of tools a cell
makes, whose results go to whichever kernel is in the slot when they are there (`host.ts:324-338`, 362; the kernel drops those it did not ask for).

### PatchExecutor

`file[f]` is what a path holds: the set of edits in it, or nothing. A patch is a list of operations; each
goes through prepare, write (of a temporary file), compare, publish, and for a move or a delete compare again and
remove, one action each, because each is awaited. Every failure of the file system that the code handles is an alternative
of its action, and a cancel may come between any two. `ForeignWrite` and `ForeignRemove` are
other programs. `late` records the edits that came after a patch's last comparison, `missed` those
it destroyed and could have seen.

### Lifecycle

`queue` is the promise chain of the extension's transitions; `entries` the disposer registry of each
scope. `Acquire` and `StartThrows` are a start that may fail at any of its resources; `Release(ok)` is one
cleanup, which may fail.

## 3. Runs

All runs use breadth-first search with no state constraint.

| Run | Bounds | Shows |
|---|---|---|
| `bash_jobs` | one job, one batch id, 2 sweeps, budget 1, retention 0 | truthful results, dead trees behind every reported stop, ownership after a crash, the refinement: a command runs at most once and its saved answer is the last word; stops, exits and teardowns end |
| `bash_delivery` | two jobs, two batches, a trunk and two branches, budget 1, retention 1; the queue survives a move, and the host may lose messages | no result is lost or confirmed on a branch that does not show it |
| `bash_delivery_live` | two jobs, one batch, a trunk and two branches, retention 0; the queue ends with branch and session | nothing is stuck, nothing repeated, everything delivered while the session serves its branch |
| `mailbox` | one child, a request, a report, an event, two transports, failing writes | requests run once, answers are real, nothing unattended starts |
| `mailbox_live` | one child, a report, two events, no request, two transports, failing writes | waits end, what is sent is taken, events stay few |
| `mailbox_kept` | as `mailbox`, no failing write | *violation*: a takeover deletes an answer its reader still waits for |
| `delegations` | a task and a `/compact`, two turns, one report of the child, one fault of any kind | lawful rows, answers of the right turn, answers heard, never on two paths; dispatches end |
| `services` | three channels; four session events, two resources; three cells, two kernels, two sessions; two attempts to compact, three generations | one wake per batch and nobody unheard; what is held belongs to the active scope; no code after the answer but what a late exit rejected, no interrupt that outlives its cell, unknown ends are told; flags of a compaction have a holder; requests and calls end |
| `documents` | a file of three entries, two more, two runs, three generations; two patches on three paths, one foreign edit, one foreign removal | the lock, the cached fold, coverage and replacement; the report and the edits of others |
| `lease` | one child, two launches, two parent sessions, two generations of the host, one fault of any kind | one process at work, stops that hold, a record that names the one who serves; an end is recorded |
| `writeback_drained` | two texts, backlog 2, four batches | *violation*: a queue that says it drained has batches pending |

Some questions are asked by a configuration that is not among these runs, to be started by hand:

| Configuration | Module | Shows |
|---|---|---|
| `MCMailboxReload.cfg` | `MCMailbox` | *violation*: a reload runs a report's handler twice |
| `MCDelegationsStale.cfg` | `MCDelegations` | *violation*: a task is answered with the turn before |
| `MCDelegationsLost.cfg` | `MCDelegations` | *violation*: the answer of a turn is dropped when a new task arrives during the report delay |
| `MCLeaseUnconfirmed.cfg` | `MCLease` | *violation*: a second process after a launch that was not confirmed |
| `MCLeaseReload.cfg` | `MCLease` | *violation*: a child that reloads loses its binding |
| `MCLeaseStopped.cfg` | `MCLease` | *violation*: a stopped child is opened again |
| `MCLeaseLeft.cfg` | `MCLease` | *violation*: a stop closes the panel of a process that went to another session |
| `MCLeaseUnlisted.cfg` | `MCLease` | *violation*: a dead child stays running when the host did not answer once. With `Faults = {"observe"}` the same property fails on a stop that was left half done: a send over it whose launch fails restores running |
| `MCLeaseClosed.cfg` | `MCLease` | *violation*: a panel the human closed is opened again |
| `MCServicesLoss.cfg` | `MCServices` | *violation*: a loss of names that no result reports |
| `MCDocumentsAlone.cfg` | `MCDocuments` | *violation*: one patch takes the temporary file of another |
| `MCDocumentsHeir.cfg` | `MCDocuments` | *violation*: a reflection is retired for one on another branch |
| `MCCompaction.cfg` | `Compaction` | three attempts: both invariants, and under fairness no flag is kept for ever (`FlagIsGivenBack`) |
| `MCCompactionTwice.cfg` | `Compaction` | *violation*: two compactions of one session at once |

Why these bounds are enough. Jobs meet only in the admission budget, in eviction
and in a batch; the first run therefore has one job in full detail and the
delivery runs have two, which is one more than budget and retention hold where
that matters. Two sweeps are one that is not the last and one that is. A trunk and two
branches are a fork that can be left and returned to, and the trunk is what they share; a budget of 2 was also tried (1.9 million states), with the same result. Three channels
are a caller, a victim and a bystander. In the mailbox rows meet only through
order and the claim, so one of each kind is enough to have every pair in each order, and two transports are one
takeover, after which a third would find what the second found.

Two delegations are a waiter and a bystander, or two that share a turn; one is a task and one a `/compact`,
because they are bound differently. Two turns are the turn of a delegation and the next one, whose number an
earlier or later claim may take. One fault at a time keeps the run small; the theorems hold for any number of them.
`AnswersAreHeard` and `OnePath` were also tried with three delegations over one turn, once with two reports of the child and a `/compact`, once
with two deaths, with the same result (3.6 and 3.5 million states).

Two launches are the process that could be forgotten and the one that would be started beside it; two parent
sessions are one that ends at the wrong moment and one that finds what it left. The safety properties of `Lease` were also tried with three launches
(2.6 million states) and with two faults (2.9 million), with the same result; the theorems hold for any number of either.

Two kernels are one that is lost and its successor, in the same session or the next; three cells are one that is given up, one that the late exit of
its kernel rejects, and one that is sent behind it. Two consolidations are the late one and the
one it could disturb, three generations the session of the first, the gap and the session of the second; five
entries let both write after a resumed file that has an observation and a reflection. One patch has an update that
its own delete contradicts, which rejects both, and a move of `a` to `b`; the other deletes `a`, adds it again and updates in place what the first, or a foreign program,
has put at `b`. Foreign programs write and remove any path. So each operation meets a foreign edit, and the replacement of a file meets one that came after the comparison. Four session events let a
start follow a start that failed. Two attempts to compact are one that is late and the one it could disturb, or two that overlap. The theorems drop
these bounds for every invariant and action property.

`CHECK_DEADLOCK FALSE` is given where the system may rest: all messages sent, or
the last transport closed, all calls over. The command runs check deadlock.

### Fairness

* `BashJobs`: child events, timers, sweeps, the release and the spawn step
  happen if they stay possible: Node's event loop delivers them while the host lives. Nothing is
  assumed of the shell, which may run for ever, nor of stops, crashes and restarts.
* `BashDelivery`: the agent's events keep coming and the host ends up appending
  what it queued. That the host does not refuse
  for ever is an assumption too (strong fairness of `Accepted`): it refuses while it is busy, and an event follows each time it is not.
* `BackgroundDelivery`: a scheduled microtask runs.
* `Mailbox`: the polling interval of an open transport fires and handlers end,
  and a waiter's own interval fires. No child and no parent is assumed to stay.
* `Delegations`: the head of the chain runs, which includes that a request is answered or its deadline
  passes. Nothing is assumed of the child, its events, timers or callers.
* `EvalKernel`: a cell that can be sent is sent, the host's timers (ready, deadline, escalation) fire, an exit is
  seen, and a process that was sent SIGKILL dies. No cell is assumed to end by itself, no kernel to get ready.
* `Lease`: the event loop of an open parent goes on (its chain, its launches, which end by their deadline, its
  reconciliation) and the poll of the locks fires. Nothing is assumed of processes, humans, the host or callers.
* `Compaction` (only in `MCCompaction.cfg`): timers fire, a session that is aborted ends, and the host ends each
  compaction it was asked for. No message, command or run is assumed to come.
* `Consolidation`, `PatchExecutor`, `Lifecycle`: safety only, no fairness.

### Properties

`ReportedIsTruthful`, `StoppedTreeIsGone` and `ActiveIsOwned`
relate memory, row and process over any number of crashes. That an answer is final
is said twice: of the row on disk by `ImplementsRecord`, which is checked and proved, and of the record in memory by `AnswerIsFinal`, which is a theorem only. `NothingLost`
says that a result which nobody has seen is still known to memory or can be
rebuilt from its row. It is asked over moves between branches, where a receipt is left behind and the result is owed again (`Forgotten`). `NothingStuck` says that a submitted result has a batch that can
still be confirmed or will be reconciled. `EventuallyDelivered` says of each branch that what was released while the session was there is delivered there, unless the session ends or
leaves it. `OneWakeAtTheEnd` and
`NobodyUnheard` are the two halves of what the `last` flag is for.
`NoUnattendedRequest` is an action property: a handler starts only for a caller
that still waits, unless that caller could not tell anybody.

`AnswersAreHeard` says that a delegation which got an answer was pushed to the conversation,
told to a call, or has a call about to be told; the exceptions are a conversation that refused, a parent that ended,
a turn that had no answer, and a settlement that was left to a waiting call which had its own answer already (`left.late`).
`OnePath` is an action property: the step that answers a waiting call pushes nothing to the conversation.
Both were first stated more simply, and were true at the bounds of the run only. A waiting call keeps the slot from the moment its row
is final until it returns, and in between claims whatever else its turn says (`#claimedByWaiter`); that needs a third
delegation, two reports of the child in one turn and a compaction, and then a delegation is answered and nobody is told.
And that no settlement is ever both told and pushed is false of three delegations: after the death of a child its last turn is
reported again, word for word, and is pushed although it was told before. What the code does promise is what one step does
with one settlement, and so it is stated.
`SlotIsOwned` (a theorem) is what the two rest on: the slot names a call that has not ended and the number
its turn has. It is stated as long as the registry did not throw before a request, which leaves a slot taken (section 5).
`AnswerIsOfItsTurn` and `RowsAreLawful` relate a row to its binding and to its past.

`LockIsTrue` says of the consolidation lock that it is held exactly while one run of this generation works.
`FlagHasHolder`, and as a theorem `OneHook`, say the same of the flags of a compaction, as far as it is true: where two compactions
overlapped, the first to end takes the flag of the other (section 5), and the invariant still says that no flag outlives its last holder.
`SnapshotIsExact` compares the cached fold with the fold from nothing on *every* branch of the file, because a late run
folds a branch the session has left. `CoveredIsObserved` and `RetiredIsReplaced` say that nothing is
skipped and nothing forgotten; both except a branch with entries of a stage whose branch had been left, which is where they
fail (section 5). `BlocksUntilEnd` and `UnknownIsTold` are the two promises of a tool call: while it is open, and in
the next session. The first is not true of every cell: one that the late exit of an earlier kernel rejected goes on (section 5). `crossed` is the history of exactly these, and whatever else a kernel
holds, sent or running, belongs to the call that is open; the timer of an interrupt is the one of that call's cell. `ReportIsTrue` compares every row of the report with what was written, under any interleaving of
failures and cancels. `OnlyLateEditsAreLost` is what the comparisons are worth: the window after the last one is all that is left.
`HeldByTheActive` holds after any failure of a start or of a cleanup.

`OneRuntime` counts the processes at work, whoever started them and whatever the parent remembers. `StopIsConfirmed` ties a
stop to every later state up to the next send, over new parents and new hosts. `BoundToTheWriter` is asked when the manager has nothing left to
do: the reports and notices of the process that holds the lock are accepted only if the record names it. `EndIsRecorded` says that a child
recorded as running without a process does not stay so. Each excepts what section 5 shows: the first two and the third an unconfirmed launch and a
reloading process, the last a silent host and a half-done stop.

## 4. Proofs

### The registry

Proved by TLAPS for any set of jobs and batches and any bounds, from `JobsAssumption`
only (the ids are distinct from "none", the bounds are naturals, at least one sweep):

* `BashJobsProofs`: `TypeCorrect` (`TypeOK`), `RecordsAgree` (`SafeInv`) and, as
  consequences, `ReportsAreTruthful`, `StoppedTreesAreGone`, `ActiveRecordsAreOwned`.
* In the same module: `SettledRowsAreReleased`, `AnswersAreFinal` (the action
  property) and `RegistryKeepsThePromise`, the refinement of `CommandRecord`.

The invariant. That a stopped tree is gone cannot be shown from itself: it needs that a
sweep which ended either saw the group dead or set `unconfirmed`, that a
requested stop has a sweep unless there is no process to sweep, that an outcome is
written only from an exit the registry saw, and that a job restored from a row has no
handle, timer or sweep of its own. `SafeInv` is the conjunction of these facts per job; it
is inductive together with `TypeOK`. The proof has a lemma per action and per job: an action changes one job, so the lemma
for a job is proved for the changed one and follows by framing for the others.

Final answers need one fact more: a settled row belongs to a job that
is not active in memory. `Durable` adds `SettledIsReleased` to the invariant; the
refinement maps a row to the abstract record and shows that each action is an
abstract step of its job or leaves the abstract record alone.

### Command delivery

`DeliveryProofs`: `NothingIsLost` (`NothingLost`), `NothingStaysStuck` (`NothingStuck`) and `NothingIsRepeated` (`NoRepeat`), for
any commands, batches, branches and limits, on top of the invariant of the registry: most steps of `BashDelivery` are steps of the
registry, whose lemmas are cited; the opening and the release, which end in a pass over the receipts here, have proofs of their own.
`DeliveryInv` adds to `Inv` of `BashJobsProofs`

* `Stages`: how far a command is decides what may be said of its delivery; only a released one can be submitted or recorded. Eviction asks
  for a recorded delivery, and without this an evicted result could be one nobody has seen.
* `Covered`: what the registry has submitted in a batch that the host still queues is in that batch, so that an append confirms
  nothing it did not carry.
* `Queued` and `Unsent`, for `NoRepeat` alone and only when a queued message does not survive a navigation or a reload: what is
  queued waits for this very batch or has its receipt, and what is still to be sent has no receipt on this branch.
  `NothingIsRepeated` therefore has `~QueueSurvives` as its hypothesis; with a queue that survives it is false, which is why the run that checks
  `NoRepeat` has it so.

`DeliveryKeepsThePromise` and `DeliveredAnswersAreFinal` carry the refinement of `CommandRecord` and the finality of answers over to the composition,
from the same `Durable`: a pass over the receipts, a flush and an append touch the delivery of a record and nothing else
(`MatchedKeeps`, `FlushGood`, `PassGood`).

### The delivery coordinator and the filter of an array

`ServicesProofs`: `OneWakeHolds` (`OneWakeAtTheEnd`) and `NobodyUnheardHolds` (`NobodyUnheard`), for any channels. `WakeOK` relates
the messages that were sent to the channels that are still to come: whoever was allowed to wake an idle parent had no pending channel
after it, and as long as nobody was, one is still to come.

Channels and the rows of a mailbox are filtered in their order. `Selected` is that filter: a recursive function,
because about `SelectSeq`, as the library defines it, nothing can be proved here. `SelectionProofs` shows for every sequence and set that it exists, keeps exactly the
elements of the set, in their order and each as often as it was there. The induction theorems of the library take an
operator and cannot be used; the induction is done with a least counterexample, which a nonempty set of numbers has because the intervals
from 0 are well founded under inclusion.

### The Python kernel

`ServicesProofs`: `BlocksUntilEndHolds` (`BlocksUntilEnd`) and `UnknownIsToldHolds` (`UnknownIsTold`), for any cells, kernels and sessions. `SlotOK`: a kernel that lives and is not doomed
is the one in the slot. `CellsOK`: a cell is in one place only, a kernel, a queue or an answer, and only after its start was recorded.
`DoubtOK`: a cell whose end is unknown leaves the store in a state from which the note of the next call follows.

### The mailbox

`MailboxProofs`: `RequestRunsOnceHolds`, `AnswerIsRealHolds`, `BacklogIsBoundedHolds` and the action property
`NoUnattendedRequestHolds`, for any children, transports and commands, any claim limit and backlog, and failing writes. `MailInv` says

* `OnceOK`: what can still be claimed has not been run;
* `CalledOK`: what is settled, or in the hands of a handler, has been given to one;
* `GoneOK`, `AwaitedOK`: the row of an answered waiter is gone, an id is never used twice, and a request on the
  table has somebody who waits for it, unless a write failed, an answer could not be read or a parent died;
* `ClaimsOK`, `BacklogOK`: the claimed events are in the hands of the open transport or were in those of the last one. When a transport opens
  all of them return to the backlog at once, so that the bound of the backlog rests on how many can be out: one batch.

### Delegations

Proved for any set of delegations, turns, calls and faults, from `NoneAssumption` (NULL is neither
a number nor an id) and `DelegationsAssumption` (the kinds of outcomes and faults, bounds are naturals). The theorems are in
`DelegationsProofs`:

* `DelegationsAreTyped` (`DelegationsTypeOK`), `AnswersBelong` (`AnswerIsOfItsTurn`),
  `RowsStayLawful` (the action property `RowsAreLawful`), `SlotStaysOwned` (`SlotIsOwned`), `AnswersReachTheParent`
  (`AnswersAreHeard`) and `OnePathForAnAnswer` (the action property `OnePath`).

The invariant `Inv` has four parts besides the types. `HasTop`: the bound turns have a maximum, so that
`MaxRunBoundary`, with which a new runtime goes on counting, is a number; a new binding
raises the maximum or keeps it. `RowOK`: the row of a call not made is empty, a row being dispatched is
unbound, the row of a call that is sending is not accepted yet. `ChainOK`: a
call has one place in the chain, and once its request is out it has a claim unless it is a
compaction. `AcksOK`: a compaction is acknowledged with its operation. The last two are why an accepted row is
bound. `NextOK` has a lemma for each action.

From `Inv`, `RowStepsOK` classifies what a step can do to rows: reserve one, end a
dispatch, or end open rows with what they are bound to. Answers and lawfulness follow from this
classification alone. The slot needs its own invariant `SlotOK`, stated from the side of the calls: a call that has
not ended and waits *is* the slot's. Only so can the end of one call release the slot without harm to
another. A call that a throwing registry ended leaves the slot taken and without a number, and that is said, not excepted:
so no waiting call ever shares it.

Who hears an answer is two invariants more. `WaitingOK`: a call that waits has a row that is accepted or final.
`HeardOK`: the answer of every row *and the latest settlement* is pushed, told, or the answer of a waiting call. The latest settlement
belongs to it because a binding may still take its answer from there. The step that matters is `ClaimedAnswers`: a settlement that a
waiting call claims, by its row or by the number of its turn, ends a call that waits, unless the waiting call was answered before. By the number, the call's own row
is bound to the same turn; were it open it would be settled too.

### The lease

`LeaseProofs`: `LeaseTypes` (`LeaseTypeOK`), `OneRuntimeAtATime` (`OneRuntime`), `StopsAreConfirmed`
(`StopIsConfirmed`) and `WriterStaysBound` (`BoundToTheWriter`), for any number of launches, openings, generations and faults, from `LeaseAssumption` only (the bounds are naturals,
faults are of the seven kinds). The invariant is `LeaseInv`: the types and three facts that always hold, and, unless a launch was unconfirmed or a
process was taken for gone, four more.

* `HostInv`, `ControlInv`, `LaunchInv`: a process at work has its panel; what the parent has under way fits together, one launch at most, and
  that launch is of a runtime nobody has used.
* `StartInv`: a process that starts is the one being launched, and nothing else is at work then. `NamedInv`: the record, its copy and the list of the
  host name the process at work, or no other. `HandleInv`: so does the panel in hand. `StopInv`: after a confirmed stop nothing works, nothing is being
  launched and no copy says active.

`OneRuntime` alone is not inductive: a launch is harmless only because a send or a reconciliation starts it when no process is at work,
which the parent concludes from a free lock, from a panel that is not listed, or from a restarted host. `NamedInv` and `HandleInv` are what make
these three conclusions true. There is a lemma per action and part.

The binding needs `AskInv` and `BindInv` besides: outside of a launch that waits, every process at work is the one the record names, and a look
at the record after a lost lock (`observing`) finds nothing at work; a panel is in hand only after the reconciliation, and one that is
reclaimed is. With `NamedInv` and `HandleInv` this makes `BoundToTheWriter` hold at every quiet moment, and in fact at every moment but
a launch's.

### Scopes, patches, memory

* `ServicesProofs`: `HeldStaysWithTheActive`, for any number of events and resources (`LifecycleAssumption`). The invariant
  ties the three ways a scope exists together: what is held is registered with its scope, only the active
  or the closing scope has registered cleanups, and they are never two.
* `DocumentsProofs`: `ReportsAreTrue` and `SeenEditsSurvive`, for any patches, paths, foreign edits and removals
  (`PatchAssumption`: the scripts are sequences of operations on the paths). For the report, the rows before the operation at hand are
  true and those after it are blank, and an operation at its removal has published what its row will say. For the edits,
  an edit that is in the file a patch is about to replace is in its snapshot or came late.
* `DocumentsProofs`: `LockHolds`, `SnapshotHolds`, `CoverageHolds`, `RetiredHolds`, for any observations and reflections, any
  well-formed file (`PastAssumption`) and any number of runs and sessions (`MemoryAssumption`). The invariant says that every
  branch is the path from the root to its entry, so that two branches which share an entry agree up to it; the snapshot
  is the fold of the branch of its entry; a waiting run holds the branch it read and its fold; and what an
  observation covers was shown on its branch. The first of these is what makes the one comparison of the
  cache, *is its entry on this branch*, enough.
* `ServicesProofs`: `FlagsAreHeld` and `HooksExclude`, for any number of attempts and sessions (`CompactionAssumption`).
  The invariant adds the types, that nothing began in a generation to come, and
  that while nothing overlapped there was at most one holder: an end that takes the flag leaves nobody behind.

### Only model-checked

Every invariant and every action property that a passing run checks is a theorem. What stays with TLC is liveness, because the prover has no
rules for fairness and `ENABLED`: `StopEnds`, `ExitIsReported`, `TeardownEnds`, `EventuallyDelivered`, `WaitEnds`, `SentIsTaken`, `CallIsAnswered`,
`RequestIsServed`, `CallEnds`, `EndIsRecorded` and, by hand, `FlagIsGivenBack` and `DrainAnswers`.
The properties of the configurations of section 5 are false and have no theorem. That the bound of the backlog holds after a takeover rests on its theorem rather than on the run, where few events are claimed at a time.

## 5. Disagreements met on the way

Each has a configuration whose counterexample shows it; `PROJECT.json` quotes the sentence.

1. A spawn that throws is documented to leave no running record, but its intent row
   stays, and a restart or a branch change restores it as a result (`bash_jobs_thrown`).
2. Reports are documented to be kept until their waiter has read the answer; a
   takeover deletes every settled row (`mailbox_kept`).
3. A command id is documented to share its first result except across a parent
   restart; a reload in the same process hands a claimed report to a second handler call (`MCMailboxReload`).
4. The result of the last task is documented not to be taken for that of a new one. A send to a
   child that is marked working, whose turn is requested and has not started, claims the number of
   the turn before and is answered at once with that turn's settlement (`MCDelegationsStale`).
5. No result may be lost; the report of a finished turn is cleared by a task that comes during its delay, and
   the next report settles only the next turn (`MCDelegationsLost`).
6. A drain is documented to keep a pending writeback from being lost silently; the teardown aborts the signal first,
   the loop leaves with batches pending, and the queue says it drained (`writeback_drained`).
7. The loss of a kernel is documented to be reported once rather than never; a call that finds the new kernel and then
   fails takes the note with it (`MCServicesLoss`).
8. Concurrent patches are documented to publish independently; the start of one sweeps the temporary files of
   another, whose operation is rejected (`MCDocumentsAlone`).
9. A reflection that leaves active memory is documented to have a replacement; after a navigation the replacement
   may be on another branch only (`MCDocumentsHeir`).
10. A second compaction is documented to be refused while one is under way; a message that is held back asks for the flag before it
   waits for a consolidation and not after (`MCCompactionTwice`).
11. A launch that was not confirmed is documented to allow no second runtime; the next send asks only for a held lock, which a
   process that is still starting has not (`MCLeaseUnconfirmed`).
12. The reload of a child is documented to keep its binding; a poll between two holds of the lock drops it, and a send in that
   window opens a second panel (`MCLeaseReload`).
13. A stopped child is documented never to come back by itself; the reconciliation decides from a copy of the record and opens the panel of a
   child that was stopped after the copy was made (`MCLeaseStopped`).
14. A stop is documented not to touch the panel of a process that went to another session; its notice is ignored when the loss of the lock was
   handled first, and the panel stays in hand (`MCLeaseLeft`).
15. While the host does not answer, the parent is documented to go on waiting; it gives up once and for the whole session (`MCLeaseUnlisted`).
16. A panel that the human closed is documented not to be brought back; when no generation was ever stored the reconciliation takes it for one the host
   lost (`MCLeaseClosed`).

Seen in the code and not given a configuration: unconfirmed results exceed their bound of 64 after restores; a report
settled while its delegation is being dispatched is delivered again by the
binding; a registry that throws leaves a row in dispatching and the slot of the child taken;
a call that was answered and did not return yet takes what its turn says next, and nobody is told (`left.late`, section 3); a stop ends a queued delegation whose request still goes out; an error that a child reports sets it to
stopped and leaves its delegation open; the text of an automatic report is the summary of at most 240 characters; a patch that is
cancelled before the replacement reports the operation as unconfirmed, where `docs/architecture/apply-patch.md:153` says not applied;
the exit of a kernel that was killed rejects the cell its successor runs (`host.ts:257`), which then goes on after its call was answered; when such code waits for a tool it
takes the next cell for an answer and drops it, and that call ends by its deadline; a cleanup that fails makes the start that waited for it fail too; a send over a half-done stop
whose launch fails restores the state running, which nothing settles any more; the reconciliation asks whether a human has the child's session open
(`occupied`, `docs/pi-subagents/spec.md:412`), and `extension.ts:332-366` never provides the answer.

## 6. Not modelled

Rendering, wording and layout (views, presentations); resolution of files and
options into configurations (agent catalogue, settings schemas, loadout patterns, optimizer); text
algorithms whose cases are character data (patch parser and matcher, search);
language-model prompts; calls of remote services and the caches of their results (web access). None of them keeps state that two actors
change. The Windows branches of the registry are left out, and so is SQLite itself: a transaction is one step.

What keeps state and is left out, and why:

* **Presentation hosts** (`host-adapter.ts`): commands of external programs and the parsing of what they print. `Lease` has what the manager
  sees of them: opened, closed, present, no answer.
* **Controller and MCP** (`controller*.ts`, `mcp-server.ts`): a second front of the manager with no state of a child; what it calls is in `Delegations`.
* **Background children in the lease**: they die with their parent's pipe and are ours to kill, so their lease is a process handle; `Delegations`
  has their death and restart. The read and the write of a record in `commitLease` are one step, a microtask apart in the code.
* **Compaction thresholds**, the idle notice, the wait of a model switch: when a compaction is asked for, not who holds its flags.
* **Todo, services and extension points, page router, settings drafts, titles, loadout**: each change is one synchronous block with one writer, or
  a display that the next event corrects. No property of them takes the steps of two actors to violate.
* **Web access**: caches keyed by request and calls that do not share state.
