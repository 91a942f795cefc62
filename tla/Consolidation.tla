----------------------------- MODULE Consolidation -----------------------------
(* Observational memory (pi-ext-memory): a pipeline of model calls that reads *)
(* the branch of the session, waits, and appends what it was told to the      *)
(* branch that is then current.  The user may have left the first one, the    *)
(* session may have ended or begun anew.                                      *)
(*                                                                            *)
(* The ledger is the tree of all entries: log[n] is entry n, and its branch   *)
(* holds the entries from the root to it.  Past is the file the session       *)
(* resumes.  Bounds: MaxLog entries, MaxRuns consolidations, MaxGeneration    *)
(* session generations.                                                       *)
EXTENDS Naturals, Sequences

CONSTANTS Observations, Critical,  \* memory is named by the hash of its content
          Reflections,
          Past,
          MaxLog, MaxRuns, MaxGeneration

ASSUME MemoryAssumption == /\ MaxLog \in Nat /\ MaxRuns \in Nat /\ MaxGeneration \in Nat
                           /\ Critical \subseteq Observations

(* An entry: what was said, or what a stage recorded.  ids are the memories  *)
(* it names; covers and shown are those of an observation: how far it        *)
(* reaches, and what its observer read.  stray and orphans are history.      *)
Entry == [kind : {"source", "observed", "reflected", "dropped", "retired"},
          branch : SUBSET Nat, ids : SUBSET (Observations \cup Reflections),
          covers : Nat, shown : SUBSET Nat,
          stray : BOOLEAN, orphans : SUBSET (Observations \cup Reflections)]

(* The file that is resumed was written by this program: branches are paths  *)
(* from the root, and what an observation covers was shown to an observer.   *)
ASSUME PastAssumption ==
  /\ Past \in Seq(Entry)
  /\ \A n \in 1..Len(Past) :
       LET path == Past[n].branch
       IN  /\ n \in path /\ path \subseteq 1..n
           /\ \A m \in path : Past[m].branch = path \cap 1..m
           /\ Past[n].kind = "observed" =>
                 /\ Past[n].covers <= n
                 /\ \A s \in path : Past[s].kind = "source" /\ s <= Past[n].covers =>
                                       \E m \in path : s \in Past[m].shown
           /\ Past[n].orphans = {}

VARIABLES
  log,        \* the entries of the session file
  leaf,       \* the current entry, 0 before the first
  generation, \* sessionGeneration
  open,       \* a session is running
  inFlight,   \* consolidationInFlight
  snapshot,   \* ledgerSnapshot
  run         \* the consolidations launched so far

memoryVars == <<log, leaf, generation, open, inFlight, snapshot, run>>

Entries == 1..MaxLog
Runs    == 1..MaxRuns
Branch  == IF leaf = 0 THEN {} ELSE log[leaf].branch

Blank == [kind |-> "source", branch |-> {}, ids |-> {}, covers |-> 0,
          shown |-> {}, stray |-> FALSE, orphans |-> {}]
NoFold == [obs |-> {}, droppedObs |-> {}, refl |-> {}, droppedRefl |-> {}]
NoRun == [pc |-> "none", generation |-> 0, seen |-> {},
          folded |-> NoFold, same |-> {}]

MemoryInit ==
  /\ log = Past /\ leaf = Len(Past)
  /\ generation = 1 /\ open = TRUE /\ inFlight = FALSE
  /\ snapshot = [from |-> 0, fold |-> NoFold]
  /\ run = [r \in Runs |-> NoRun]

--------------------------------------------------------------------------------
(* The fold of a branch: what was recorded and what was dropped.             *)
Named(S, kind) == UNION {log[n].ids : n \in {m \in S : log[m].kind = kind}}
Fold(S) == [obs  |-> Named(S, "observed"),  droppedObs  |-> Named(S, "dropped"),
            refl |-> Named(S, "reflected"), droppedRefl |-> Named(S, "retired")]
Joined(f, g) == [obs  |-> f.obs \cup g.obs,   droppedObs  |-> f.droppedObs \cup g.droppedObs,
                 refl |-> f.refl \cup g.refl, droppedRefl |-> f.droppedRefl \cup g.droppedRefl]

(* The fold starts from the snapshot when that was taken on this branch.     *)
BasedAnywhere(S) == snapshot.from # 0   \* mutant: the branch of the snapshot is not compared
Based(S) == snapshot.from \in S
FoldWith(S) == IF Based(S) THEN Joined(snapshot.fold, Fold({n \in S : n > snapshot.from}))
                           ELSE Fold(S)
Tip(S)   == CHOOSE n \in S : \A m \in S : m <= n
Keeps(S) == snapshot' = IF S = {} THEN snapshot ELSE [from |-> Tip(S), fold |-> FoldWith(S)]

ActiveObs(f)  == f.obs \ f.droppedObs
ActiveRefl(f) == f.refl \ f.droppedRefl

(* How far the observations on a branch reach; a mark that is not on the     *)
(* branch counts for nothing.                                                *)
Marks(S)    == {log[n].covers : n \in {m \in S : log[m].kind = "observed"}} \cap S
Coverage(S) == IF Marks(S) = {} THEN 0 ELSE Tip(Marks(S))
BacklogLate(S) == {n \in S : log[n].kind = "source" /\ n > Coverage(S) + 1}   \* mutant: off by one
Backlog(S)  == {n \in S : log[n].kind = "source" /\ n > Coverage(S)}

--------------------------------------------------------------------------------
Appends(entries) == log' = log \o entries /\ leaf' = Len(log) + Len(entries)
Room(k) == Len(log) + k <= MaxLog

(* The entry written by a stage that has read the entries seen.  It is stray *)
(* when the user has moved since: the current branch lacks some of them, or  *)
(* holds memory the stage does not know of.                                  *)
Written(seen, kind, ids, k) ==
  [Blank EXCEPT !.kind = kind, !.ids = ids,
                !.branch = Branch \cup (Len(log) + 1)..(Len(log) + k),
                !.stray = \/ ~(seen \subseteq Branch)
                          \/ \E n \in Branch \ seen : log[n].kind # "source"]

Current(r) == run[r].generation = generation
Goes(r, pc) == run' = [run EXCEPT ![r].pc = pc, ![r].seen = {}, ![r].folded = NoFold,
                                  ![r].same = {}]

(* The end of a run, whatever ended it; the lock is only given back by a run *)
(* of the current generation.                                                *)
ReleasedAlways(r) == inFlight' = FALSE   \* mutant: the generation is not compared
Released(r) == inFlight' = (inFlight /\ ~Current(r))
Ends(r) == run' = [run EXCEPT ![r] = [NoRun EXCEPT !.pc = "over"]] /\ Released(r)

Others == UNCHANGED <<generation, open>>
Silent == UNCHANGED <<log, leaf>>

--------------------------------------------------------------------------------
(* The conversation goes on, or the user moves to another entry of the tree. *)
Say ==
  /\ open /\ Room(1)
  /\ Appends(<<[Blank EXCEPT !.branch = Branch \cup {Len(log) + 1}]>>)
  /\ UNCHANGED <<inFlight, snapshot, run>> /\ Others

Navigate(n) ==
  /\ open /\ n # leaf /\ leaf' = n
  /\ snapshot' = [from |-> 0, fold |-> NoFold]
  /\ UNCHANGED <<log, inFlight, run>> /\ Others

(* A check for idle compaction folds the current branch.                     *)
IdleCheck ==
  /\ open /\ Keeps(Branch)
  /\ UNCHANGED <<inFlight, run>> /\ Silent /\ Others

Fresh(r) == run[r].pc = "none" /\ \A q \in 1..(r - 1) : run[q].pc # "none"

(* Launched by the end of a turn, or by the command that ignores thresholds. *)
(* Up to the first model call nothing is awaited.                            *)
Launch(r) ==
  /\ open /\ ~inFlight /\ Fresh(r)
  /\ inFlight' = TRUE
  /\ Keeps(Branch)
  /\ \E pc \in {"reflect"} \cup (IF Backlog(Branch) = {} THEN {} ELSE {"observing"}) :
        run' = [run EXCEPT ![r] = [NoRun EXCEPT !.pc = pc, !.generation = generation,
                                                !.seen = IF pc = "observing" THEN Branch ELSE {}]]
  /\ Silent /\ Others

(* The observer answers for a first part of the backlog it was shown.  No    *)
(* answer is no progress: the marks stay where they are.                     *)
Chunk(r, last) == {n \in Backlog(run[r].seen) : n <= last}

Observed(r) ==
  /\ run[r].pc = "observing"
  /\ \/ Goes(r, "reflect") /\ UNCHANGED inFlight /\ Silent
     \/ ~Current(r) /\ Ends(r) /\ Silent
     \/ /\ Current(r) /\ Room(1)
        /\ \E o \in Observations, last \in Backlog(run[r].seen) :
             Appends(<<[Written(run[r].seen, "observed", {o}, 1) EXCEPT
                          !.covers = last, !.shown = Chunk(r, last)]>>)
        /\ Goes(r, "reflect") /\ UNCHANGED inFlight
  /\ UNCHANGED snapshot /\ Others

--------------------------------------------------------------------------------
(* The reflector reads the branch, awaits its model, and only then folds     *)
(* what it had read.                                                         *)
Reflect(r) ==
  /\ run[r].pc = "reflect" /\ Current(r)
  /\ \/ /\ Marks(Branch) # {}
        /\ run' = [run EXCEPT ![r].pc = "resolving", ![r].seen = Branch]
     \/ Goes(r, "enforce")
  /\ UNCHANGED <<inFlight, snapshot>> /\ Silent /\ Others

FoldForReflector(r) ==
  /\ run[r].pc = "resolving"
  /\ Keeps(run[r].seen)
  /\ run' = [run EXCEPT ![r].pc = "reflecting", ![r].folded = FoldWith(run[r].seen)]
  /\ UNCHANGED inFlight /\ Silent /\ Others

(* Its proposals, each with the reflections it replaces.  One that restates  *)
(* a retired reflection is refused with all it would replace; one that       *)
(* restates an active reflection adds nothing but stands as a replacement,   *)
(* and what stands as a replacement is not retired.                          *)
Proposals(f) == {p \in Reflections \X (SUBSET ActiveRefl(f)) : p[1] \notin f.droppedRefl}
Standing(P)  == {p[1] : p \in P}
RetiredAll(P) == UNION {p[2] : p \in P}   \* mutant: a restated reflection may be retired
Retired(P)   == (UNION {p[2] : p \in P}) \ Standing(P)
Heirs(P, id) == {p[1] : p \in {q \in P : id \in q[2]}}

Reflects(r, new) ==
  /\ run' = [run EXCEPT ![r].pc = "drop", ![r].seen = {}, ![r].folded = NoFold,
                     ![r].same = new]
  /\ UNCHANGED inFlight

Answers(r, P) ==
  LET fold  == run[r].folded
      after == Fold(Branch)
      new   == Standing(P) \ ActiveRefl(fold)
      old   == Retired(P)
      added == IF new = {} THEN <<>> ELSE <<Written(run[r].seen, "reflected", new, 1)>>
      heirs == (after.refl \cup new) \ (after.droppedRefl \cup old)
      gone  == [Written(run[r].seen, "retired", old, Len(added) + 1) EXCEPT
                  !.orphans = {id \in old \cap ActiveRefl(after) : Heirs(P, id) \cap heirs = {}}]
  IN  \/ old = {} /\ new # {} /\ Room(1) /\ Appends(added) /\ Reflects(r, new)
      \/ old # {} /\ Room(Len(added) + 1) /\ Appends(added \o <<gone>>) /\ Reflects(r, new)
      \/ old # {} /\ new # {} /\ Room(1) /\ Appends(added) /\ Ends(r)  \* the second write fails

Reflected(r) ==
  /\ run[r].pc = "reflecting"
  /\ \/ Goes(r, "enforce") /\ UNCHANGED inFlight /\ Silent
     \/ ~Current(r) /\ Ends(r) /\ Silent
     \/ Current(r) /\ \E p, q \in Proposals(run[r].folded) : Answers(r, {p, q})
  /\ UNCHANGED snapshot /\ Others

--------------------------------------------------------------------------------
(* The dropper runs after new reflections, on the observations that are      *)
(* active now.                                                               *)
Drop(r) ==
  /\ run[r].pc = "drop" /\ Current(r)
  /\ \/ /\ run[r].same # {} /\ Marks(Branch) # {} /\ Keeps(Branch)
        /\ \/ run' = [run EXCEPT ![r].pc = "dropping", ![r].seen = Branch, ![r].same = {},
                                 ![r].folded = FoldWith(Branch)]
           \/ Goes(r, "enforce")  \* the pool is small
     \/ /\ run[r].same = {} \/ Marks(Branch) = {}
        /\ Goes(r, "enforce") /\ UNCHANGED snapshot
  /\ UNCHANGED inFlight /\ Silent /\ Others

Dropped(r) ==
  /\ run[r].pc = "dropping"
  /\ \/ Silent
     \/ /\ Current(r) /\ Room(1)
        /\ \E ids \in (SUBSET ActiveObs(run[r].folded)) \ {{}} :
             Appends(<<Written(run[r].seen, "dropped", ids, 1)>>)
  /\ Goes(r, "enforce")
  /\ UNCHANGED <<inFlight, snapshot>> /\ Others

(* The last stage asks no model and awaits nothing: it reads, folds and      *)
(* reclaims in one step, never a critical observation.                       *)
Enforce(r) ==
  /\ run[r].pc = "enforce" /\ Current(r)
  /\ Keeps(Branch)
  /\ \/ Silent
     \/ /\ Room(1) /\ Marks(Branch) # {}
        /\ \E ids \in (SUBSET (ActiveObs(FoldWith(Branch)) \ Critical)) \ {{}} :
             Appends(<<Written(Branch, "dropped", ids, 1)>>)
  /\ Ends(r) /\ Others

(* A run ends early: a stage fails or has no model, the turn it was launched *)
(* from or its session is aborted, or its generation is over.                *)
Stops(r) ==
  /\ run[r].pc \notin {"none", "dropping", "over"}
  /\ Ends(r)
  /\ UNCHANGED snapshot /\ Silent /\ Others

--------------------------------------------------------------------------------
(* The session ends, and its generation with it.  The next one may be of the *)
(* same file.                                                                *)
EndSession ==
  /\ open /\ open' = FALSE /\ generation < MaxGeneration
  /\ generation' = generation + 1
  /\ inFlight' = FALSE /\ snapshot' = [from |-> 0, fold |-> NoFold]
  /\ UNCHANGED run /\ Silent

StartSession ==
  /\ ~open /\ open' = TRUE /\ generation < MaxGeneration
  /\ generation' = generation + 1
  /\ inFlight' = FALSE /\ snapshot' = [from |-> 0, fold |-> NoFold]
  /\ UNCHANGED run /\ Silent

MemoryNext ==
  \/ Say \/ IdleCheck \/ EndSession \/ StartSession
  \/ \E n \in 1..Len(log) : Navigate(n)
  \/ \E r \in Runs :
       \/ Launch(r) \/ Observed(r) \/ Reflect(r) \/ FoldForReflector(r) \/ Reflected(r)
       \/ Drop(r) \/ Dropped(r) \/ Enforce(r) \/ Stops(r)

MemorySpec == MemoryInit /\ [][MemoryNext]_memoryVars

--------------------------------------------------------------------------------
(* The lock is held exactly while a run of this generation is at work, and   *)
(* there is only one: what an earlier session left behind neither holds the  *)
(* lock nor takes it away.                                                   *)
Working(r) == run[r].pc \notin {"none", "over"} /\ Current(r)
LockIsTrue ==
  /\ inFlight <=> \E r \in Runs : Working(r)
  /\ \A q, r \in Runs : Working(q) /\ Working(r) => q = r

(* A fold that starts from the snapshot is the fold of the whole branch, on  *)
(* whatever branch the user or a late run asks for it.                       *)
SnapshotIsExact ==
  \A n \in 1..Len(log) :
    Based(log[n].branch) => FoldWith(log[n].branch) = Fold(log[n].branch)

(* Nothing is skipped: when the current branch has no stray entries, all     *)
(* that was said up to the coverage was shown to an observer whose answer is *)
(* on the branch.                                                            *)
CoveredIsObserved ==
  (\A m \in Branch : ~log[m].stray) =>
     LET reach == Coverage(Branch)
     IN  {s \in Branch : s <= reach /\ log[s].kind = "source"}
           \subseteq UNION {log[m].shown : m \in Branch}

(* A reflection leaves active memory only for one that replaces it and is    *)
(* active on the branch, unless the reflector's branch had been left.        *)
RetiredIsReplaced ==
  \A n \in 1..Len(log) : ~log[n].stray => log[n].orphans = {}

(* The promise as it is documented, with no exception.                       *)
RetiredHasHeir == \A n \in 1..Len(log) : log[n].orphans = {}
=============================================================================
