---------------------------- MODULE DocumentsProofs ----------------------------
(* What the extensions write.  That the lock, the snapshot, the coverage and  *)
(* the retired reflections of the observational memory are what they should    *)
(* be, for any file, any number of consolidations and any movement of the      *)
(* user; that the report of a patch is true of the files, and that a patch     *)
(* destroys no edit it could have seen, for any patches, files and writers.    *)
EXTENDS Consolidation, PatchExecutor, SequenceTheorems, WellFoundedInduction, TLAPS

--------------------------------------------------------------------------------
(* The observational memory (Consolidation).                                  *)
Memories == Observations \cup Reflections
Folded   == [obs : SUBSET Memories, droppedObs : SUBSET Memories,
             refl : SUBSET Memories, droppedRefl : SUBSET Memories]
Stages   == {"none", "observing", "reflect", "resolving", "reflecting", "drop", "dropping",
             "enforce", "over"}

RunFields == {"pc", "generation", "seen", "folded", "same"}

MemoryTypeOK ==
  /\ log \in Seq(Entry) /\ leaf \in 0..Len(log) /\ generation \in Nat
  /\ DOMAIN run = Runs
  /\ \A r \in Runs : /\ DOMAIN run[r] = RunFields
                     /\ run[r].pc \in Stages /\ run[r].generation \in Nat

--------------------------------------------------------------------------------
(* The lock.  A run of an older generation has stopped to count.             *)
RunsAreOld == \A r \in Runs : run[r].generation <= generation

LockInv == RunsAreOld /\ LockIsTrue

(* A run takes the lock, keeps it, or gives it back if it holds it.          *)
Takes(r)  == /\ ~inFlight /\ inFlight' = TRUE /\ ~Working(r) /\ Working(r)'
Keeping(r) == UNCHANGED inFlight /\ (Working(r)' <=> Working(r))
GivesUp(r) == inFlight' = (inFlight /\ ~Current(r)) /\ ~Working(r)'
              /\ run[r].pc \notin {"none", "over"}

LEMMA LockOfOne ==
  ASSUME MemoryTypeOK, LockInv, NEW r \in Runs,
         UNCHANGED generation, \A q \in Runs \ {r} : run'[q] = run[q],
         run'[r].generation <= generation,
         Takes(r) \/ Keeping(r) \/ GivesUp(r)
  PROVE  LockInv'
<1>0. \A q \in Runs \ {r} : Working(q)' <=> Working(q)
  BY DEF Working, Current
<1>1. RunsAreOld'
  BY DEF LockInv, RunsAreOld
<1>2. CASE Takes(r)
  BY <1>0, <1>1, <1>2 DEF LockInv, LockIsTrue, Takes
<1>3. CASE Keeping(r)
  BY <1>0, <1>1, <1>3 DEF LockInv, LockIsTrue, Keeping
<1>4. CASE GivesUp(r)
  <2>1. CASE Current(r)
    <3>1. Working(r) /\ ~inFlight' /\ ~Working(r)'
      BY <1>4, <2>1 DEF GivesUp, Working
    <3>2. \A q \in Runs : ~Working(q)'
      BY <1>0, <3>1 DEF LockInv, LockIsTrue
    <3> QED BY <1>1, <3>1, <3>2 DEF LockInv, LockIsTrue
  <2>2. CASE ~Current(r)
    <3>1. ~Working(r) /\ (inFlight' <=> inFlight) /\ ~Working(r)'
      BY <1>4, <2>2 DEF GivesUp, Working
    <3> QED BY <1>0, <1>1, <3>1 DEF LockInv, LockIsTrue
  <2> QED BY <2>1, <2>2
<1> QED BY <1>2, <1>3, <1>4

(* Nothing that is still going on is of the generation that begins.          *)
LEMMA LockOfNew ==
  ASSUME MemoryTypeOK, LockInv, UNCHANGED run, generation' = generation + 1, inFlight' = FALSE
  PROVE  LockInv'
<1>1. \A r \in Runs : run'[r].generation <= generation' /\ ~Working(r)'
  BY DEF MemoryTypeOK, LockInv, RunsAreOld, Working, Current
<1> QED BY <1>1 DEF LockInv, RunsAreOld, LockIsTrue

--------------------------------------------------------------------------------
(* What a file l says of a set of its entries.                               *)
NamedIn(l, S, kind) == UNION {l[n].ids : n \in {m \in S : l[m].kind = kind}}
FoldIn(l, S) == [obs  |-> NamedIn(l, S, "observed"),  droppedObs  |-> NamedIn(l, S, "dropped"),
                 refl |-> NamedIn(l, S, "reflected"), droppedRefl |-> NamedIn(l, S, "retired")]

LEMMA NamedIs ==
  ASSUME NEW l, NEW S, NEW kind, NEW x
  PROVE  x \in NamedIn(l, S, kind) <=> \E n \in S : l[n].kind = kind /\ x \in l[n].ids
  BY DEF NamedIn

LEMMA FoldIs == ASSUME NEW S PROVE Fold(S) = FoldIn(log, S)
  BY DEF Fold, FoldIn, Named, NamedIn

LEMMA FoldIsNext == ASSUME NEW S PROVE Fold(S)' = FoldIn(log', S)
  BY DEF Fold, FoldIn, Named, NamedIn

(* Entries that do not change, or name nothing, do not change a fold.        *)
LEMMA NamedSame ==
  ASSUME NEW l, NEW k, NEW S, \A n \in S : l[n] = k[n], NEW kind
  PROVE  NamedIn(l, S, kind) = NamedIn(k, S, kind)
<1>1. ASSUME NEW x PROVE x \in NamedIn(l, S, kind) <=> x \in NamedIn(k, S, kind)
  BY NamedIs
<1> QED BY <1>1

LEMMA FoldSame ==
  ASSUME NEW l, NEW k, NEW S, \A n \in S : l[n] = k[n]
  PROVE  FoldIn(l, S) = FoldIn(k, S)
  BY NamedSame DEF FoldIn

LEMMA NamedMore ==
  ASSUME NEW l, NEW S, NEW B, S \subseteq B, NEW kind,
         \A n \in B \ S : l[n].kind = "source", kind # "source"
  PROVE  NamedIn(l, S, kind) = NamedIn(l, B, kind)
<1>1. ASSUME NEW x PROVE x \in NamedIn(l, S, kind) <=> x \in NamedIn(l, B, kind)
  BY NamedIs
<1> QED BY <1>1

LEMMA FoldMore ==
  ASSUME NEW l, NEW S, NEW B, S \subseteq B, \A n \in B \ S : l[n].kind = "source"
  PROVE  FoldIn(l, S) = FoldIn(l, B)
  BY NamedMore DEF FoldIn

LEMMA NamedJoin ==
  ASSUME NEW l, NEW S, NEW T, NEW kind
  PROVE  NamedIn(l, S, kind) \cup NamedIn(l, T, kind) = NamedIn(l, S \cup T, kind)
<1>1. ASSUME NEW x
      PROVE  x \in NamedIn(l, S, kind) \cup NamedIn(l, T, kind) <=> x \in NamedIn(l, S \cup T, kind)
  BY NamedIs
<1> QED BY <1>1

LEMMA FoldJoin ==
  ASSUME NEW l, NEW S, NEW T
  PROVE  Joined(FoldIn(l, S), FoldIn(l, T)) = FoldIn(l, S \cup T)
<1>1. Joined(FoldIn(l, S), FoldIn(l, T)) =
        [obs  |-> NamedIn(l, S, "observed") \cup NamedIn(l, T, "observed"),
         droppedObs  |-> NamedIn(l, S, "dropped") \cup NamedIn(l, T, "dropped"),
         refl |-> NamedIn(l, S, "reflected") \cup NamedIn(l, T, "reflected"),
         droppedRefl |-> NamedIn(l, S, "retired") \cup NamedIn(l, T, "retired")]
  BY DEF Joined, FoldIn
<1>2. \A kind : NamedIn(l, S, kind) \cup NamedIn(l, T, kind) = NamedIn(l, S \cup T, kind)
  BY NamedJoin
<1> QED BY <1>1, <1>2 DEF FoldIn

--------------------------------------------------------------------------------
(* The tree: a branch is a path from the root.                               *)
TreeOK ==
  \A n \in 1..Len(log) :
    /\ n \in log[n].branch /\ log[n].branch \subseteq 1..n
    /\ \A m \in log[n].branch : log[m].branch = log[n].branch \cap 1..m

BranchOf(l, S) == S = {} \/ \E n \in 1..Len(l) : S = l[n].branch

(* A branch cut at one of its entries is the branch of that entry.           *)
LEMMA BranchOK ==
  ASSUME MemoryTypeOK, TreeOK, NEW S, BranchOf(log, S)
  PROVE  /\ S \subseteq 1..Len(log)
         /\ \A m \in S : log[m].branch = S \cap 1..m
         /\ \A m \in S : S \subseteq 1..m => S = log[m].branch
<1>1. Len(log) \in Nat
  BY LenProperties DEF MemoryTypeOK
<1> QED BY <1>1 DEF TreeOK, BranchOf

LEMMA LeafBranch ==
  ASSUME MemoryTypeOK
  PROVE  BranchOf(log, Branch)
  BY LenProperties DEF MemoryTypeOK, BranchOf, Branch

(* The last entry of a branch.                                               *)
LEMMA TipOfBranch ==
  ASSUME MemoryTypeOK, TreeOK, NEW S, BranchOf(log, S), S # {}
  PROVE  Tip(S) \in 1..Len(log) /\ S = log[Tip(S)].branch
<1>1. PICK k \in 1..Len(log) : S = log[k].branch
  BY DEF BranchOf
<1>2. Len(log) \in Nat /\ k \in S /\ S \subseteq 1..k
  BY <1>1, LenProperties DEF MemoryTypeOK, TreeOK
<1>3. \A m \in S : m <= k
  BY <1>2
<1>4. Tip(S) \in S /\ \A m \in S : m <= Tip(S)
  <2>1. \E n \in S : \A m \in S : m <= n
    BY <1>2, <1>3
  <2> QED BY <2>1, Zenon DEF Tip
<1>5. Tip(S) = k
  <2>1. Tip(S) <= k
    BY <1>3, <1>4, Zenon
  <2>2. k <= Tip(S)
    BY <1>2, <1>4, Zenon
  <2>3. Tip(S) \in 1..k
    BY <1>2, <1>4, Zenon
  <2> QED BY <1>2, <2>1, <2>2, <2>3
<1> QED BY <1>1, <1>5

(* The last of some numbers.                                                 *)
LEMMA TipOfNumbers ==
  ASSUME NEW N \in Nat, NEW A, A \subseteq 0..N, A # {}
  PROVE  Tip(A) \in A /\ \A m \in A : m <= Tip(A)
<1> DEFINE T == {N - x : x \in A}
<1>1. T \subseteq Nat /\ T # {}
  <2>1. \A x \in A : N - x \in Nat
    OBVIOUS
  <2>2. PICK a \in A : TRUE
    OBVIOUS
  <2>3. N - a \in T
    OBVIOUS
  <2> QED BY <2>1, <2>3
<1>2. \E x \in T : \A y \in T : ~ (<<y, x>> \in OpToRel(<, Nat))
  BY <1>1, NatLessThanWellFounded, WFMin, Zenon
<1>3. PICK x \in T : \A y \in T : ~ (y < x)
  BY <1>1, <1>2 DEF OpToRel
<1>4. PICK t \in A : x = N - t
  OBVIOUS
<1>5. ASSUME NEW m \in A PROVE m <= t
  <2>1. N - m \in T
    OBVIOUS
  <2>2. ~(N - m < N - t)
    BY <1>3, <1>4, <2>1
  <2>3. m \in 0..N /\ t \in 0..N
    OBVIOUS
  <2> QED BY <2>2, <2>3
<1>6. \E n \in A : \A m \in A : m <= n
  BY <1>5
<1> QED BY <1>6, Zenon DEF Tip

--------------------------------------------------------------------------------
(* What the file, the snapshot and the runs are, together.                   *)
SnapshotOK ==
  snapshot.from # 0 =>
    /\ snapshot.from \in 1..Len(log)
    /\ snapshot.fold = FoldIn(log, log[snapshot.from].branch)

RunsOK ==
  \A r \in Runs :
    /\ BranchOf(log, run[r].seen)
    /\ run[r].pc \in {"reflecting", "dropping"} => run[r].folded = FoldIn(log, run[r].seen)

StoreInv == MemoryTypeOK /\ TreeOK /\ SnapshotOK /\ RunsOK

(* A fold that starts from the snapshot is the whole fold, on any branch.    *)
LEMMA FoldWithIsFold ==
  ASSUME StoreInv, NEW S, BranchOf(log, S)
  PROVE  FoldWith(S) = FoldIn(log, S)
<1>1. CASE Based(S)
  <2> DEFINE k == snapshot.from
             T == {n \in S : n > k}
  <2>1. k \in S /\ S \subseteq 1..Len(log) /\ Len(log) \in Nat
    BY <1>1, BranchOK, LenProperties DEF Based, StoreInv, MemoryTypeOK
  <2>2. k # 0
    BY <2>1
  <2>3. snapshot.fold = FoldIn(log, S \cap 1..k)
    BY <2>1, <2>2, BranchOK DEF StoreInv, SnapshotOK
  <2>4. (S \cap 1..k) \cup T = S
    <3> HIDE DEF k
    <3>1. \A n \in S : n \in 1..Len(log)
      BY <2>1, Zenon
    <3>2. k \in 1..Len(log)
      BY <2>1, <3>1, Zenon
    <3>3. \A n \in S : n \in 1..k \/ n > k
      BY <2>1, <3>1, <3>2
    <3> QED BY <3>3 DEF T
  <2>5. FoldWith(S) = Joined(FoldIn(log, S \cap 1..k), FoldIn(log, T))
    BY <1>1, <2>3, FoldIs DEF FoldWith
  <2> HIDE DEF T, k
  <2> QED BY <2>4, <2>5, FoldJoin
<1>2. CASE ~Based(S)
  BY <1>2, FoldIs DEF FoldWith
<1> QED BY <1>1, <1>2

LEMMA FoldTyped ==
  ASSUME MemoryTypeOK, NEW S, S \subseteq 1..Len(log)
  PROVE  FoldIn(log, S) \in Folded
<1>1. \A n \in S : log[n].ids \subseteq Memories
  <2> SUFFICES ASSUME NEW n \in S PROVE log[n].ids \subseteq Memories
    OBVIOUS
  <2>1. log[n] \in Entry
    BY ElementOfSeq DEF MemoryTypeOK
  <2> QED BY <2>1 DEF Entry, Memories
<1>2. ASSUME NEW kind PROVE NamedIn(log, S, kind) \subseteq Memories
  BY <1>1, NamedIs
<1> QED BY <1>2 DEF FoldIn, Folded

(* The three parts of a step: the file grows by entries of the current       *)
(* branch or stays, the snapshot is taken of a branch or forgotten, and one  *)
(* run moves.                                                                *)
Grown ==
  /\ log' \in Seq(Entry) /\ Len(log) <= Len(log') /\ leaf' = Len(log')
  /\ \A n \in 1..Len(log) : log'[n] = log[n]
  /\ \A n \in (Len(log) + 1)..Len(log') : log'[n].branch = Branch \cup (Len(log) + 1)..n

LogStep == (log' = log /\ leaf' \in 0..Len(log)) \/ Grown

SnapStep == \/ snapshot' = snapshot
            \/ snapshot' = [from |-> 0, fold |-> NoFold]
            \/ \E S : BranchOf(log, S) /\ Keeps(S)

RunGoes(r) ==
  /\ DOMAIN run' = Runs /\ \A q \in Runs \ {r} : run'[q] = run[q]
  /\ DOMAIN run'[r] = RunFields /\ run'[r].pc \in Stages /\ run'[r].generation \in Nat
  /\ BranchOf(log, run'[r].seen)
  /\ run'[r].pc \in {"reflecting", "dropping"} => run'[r].folded = FoldWith(run'[r].seen)

RunStep == run' = run \/ \E r \in Runs : RunGoes(r)

(* What was a branch is still one, and names what it named.                  *)
LEMMA GrowthKeeps ==
  ASSUME StoreInv, LogStep
  PROVE  /\ TreeOK' /\ log' \in Seq(Entry) /\ leaf' \in 0..Len(log') /\ Len(log) <= Len(log')
         /\ Len(log) \in Nat /\ Len(log') \in Nat
         /\ \A n \in 1..Len(log) : log'[n] = log[n]
         /\ \A S : BranchOf(log, S) => BranchOf(log', S) /\ FoldIn(log', S) = FoldIn(log, S)
<1>0. Len(log) \in Nat /\ log \in Seq(Entry)
  BY LenProperties DEF StoreInv, MemoryTypeOK
<1>1. /\ log' \in Seq(Entry) /\ Len(log') \in Nat /\ Len(log) <= Len(log')
      /\ leaf' \in 0..Len(log')
      /\ \A n \in 1..Len(log) : log'[n] = log[n]
  <2>1. CASE log' = log /\ leaf' \in 0..Len(log)
    BY <1>0, <2>1
  <2>2. CASE Grown
    BY <1>0, <2>2, LenProperties DEF Grown
  <2> QED BY <2>1, <2>2 DEF LogStep
<1>2. ASSUME NEW S, BranchOf(log, S)
      PROVE  BranchOf(log', S) /\ FoldIn(log', S) = FoldIn(log, S)
  <2>1. S \subseteq 1..Len(log)
    BY <1>2, BranchOK DEF StoreInv
  <2>2. FoldIn(log', S) = FoldIn(log, S)
    BY <1>1, <2>1, FoldSame
  <2>3. BranchOf(log', S)
    BY <1>0, <1>1, <1>2 DEF BranchOf
  <2> QED BY <2>2, <2>3
<1>3. TreeOK'
  <2>1. CASE log' = log
    BY <2>1 DEF StoreInv, TreeOK
  <2>2. CASE Grown
    <3>1. BranchOf(log, Branch)
      BY LeafBranch DEF StoreInv
    <3>2. /\ Branch \subseteq 1..Len(log)
          /\ \A m \in Branch : log[m].branch = Branch \cap 1..m
      BY <3>1, BranchOK DEF StoreInv
    <3> SUFFICES ASSUME NEW n \in 1..Len(log')
                 PROVE  /\ n \in log'[n].branch /\ log'[n].branch \subseteq 1..n
                        /\ \A m \in log'[n].branch : log'[m].branch = log'[n].branch \cap 1..m
      BY DEF TreeOK
    <3>3. CASE n \in 1..Len(log)
      <4>1. /\ n \in log[n].branch /\ log[n].branch \subseteq 1..n
            /\ \A m \in log[n].branch : log[m].branch = log[n].branch \cap 1..m
        BY <3>3 DEF StoreInv, TreeOK
      <4>2. log'[n] = log[n] /\ \A m \in log[n].branch : log'[m] = log[m]
        BY <1>0, <1>1, <3>3, <4>1
      <4> QED BY <4>1, <4>2
    <3>4. CASE n \in (Len(log) + 1)..Len(log')
      <4>1. log'[n].branch = Branch \cup (Len(log) + 1)..n
        BY <2>2, <3>4 DEF Grown
      <4>2. ASSUME NEW m \in Branch
            PROVE  log'[m].branch = log'[n].branch \cap 1..m
        <5>1. log'[m].branch = Branch \cap 1..m
          BY <1>1, <3>2
        <5> HIDE DEF Branch
        <5>2. (Branch \cup (Len(log) + 1)..n) \cap 1..m = Branch \cap 1..m
          BY <1>0, <3>2
        <5> QED BY <4>1, <5>1, <5>2
      <4>3. ASSUME NEW m \in (Len(log) + 1)..n
            PROVE  log'[m].branch = log'[n].branch \cap 1..m
        <5>1. m \in (Len(log) + 1)..Len(log')
          BY <1>0, <1>1, <3>4
        <5>2. log'[m].branch = Branch \cup (Len(log) + 1)..m
          BY <2>2, <5>1 DEF Grown
        <5> HIDE DEF Branch
        <5>3. (Branch \cup (Len(log) + 1)..n) \cap 1..m = Branch \cup (Len(log) + 1)..m
          <6>1. \A x \in Branch : x \in 1..m
            BY <1>0, <3>2, <5>1
          <6>2. \A x \in (Len(log) + 1)..n : x \in 1..m <=> x \in (Len(log) + 1)..m
            BY <1>0, <5>1
          <6>3. \A x \in (Len(log) + 1)..m : x \in (Len(log) + 1)..n
            BY <1>0, <1>1, <3>4, <4>3
          <6> QED BY <6>1, <6>2, <6>3
        <5> QED BY <4>1, <5>2, <5>3
      <4> HIDE DEF Branch
      <4> QED BY <1>0, <1>1, <3>2, <3>4, <4>1, <4>2, <4>3
    <3> QED BY <1>0, <1>1, <3>3, <3>4
  <2> QED BY <2>1, <2>2 DEF LogStep
<1> QED BY <1>0, <1>1, <1>2, <1>3

(* Such a step preserves them.                                               *)
LEMMA StoreStep ==
  ASSUME StoreInv, LogStep, SnapStep, RunStep, generation' \in Nat
  PROVE  StoreInv'
<1>1. TreeOK' /\ Len(log) \in Nat /\ Len(log') \in Nat /\ Len(log) <= Len(log')
      /\ \A n \in 1..Len(log) : log'[n] = log[n]
  BY GrowthKeeps
<1>2. \A S : BranchOf(log, S) => BranchOf(log', S) /\ FoldIn(log', S) = FoldIn(log, S)
  BY GrowthKeeps
<1>3. MemoryTypeOK'
  <2>1. log' \in Seq(Entry) /\ leaf' \in 0..Len(log')
    BY GrowthKeeps
  <2>2. DOMAIN run' = Runs
    BY DEF RunStep, RunGoes, StoreInv, MemoryTypeOK
  <2>3. \A r \in Runs : /\ DOMAIN run'[r] = RunFields
                        /\ run'[r].pc \in Stages /\ run'[r].generation \in Nat
    BY DEF RunStep, RunGoes, StoreInv, MemoryTypeOK
  <2> QED BY <2>1, <2>2, <2>3 DEF MemoryTypeOK
<1>4. SnapshotOK'
  <2>1. CASE snapshot' = snapshot
    <3> SUFFICES ASSUME snapshot.from # 0
                 PROVE  /\ snapshot.from \in 1..Len(log')
                        /\ snapshot.fold = FoldIn(log', log'[snapshot.from].branch)
      BY <2>1 DEF SnapshotOK
    <3>1. snapshot.from \in 1..Len(log) /\ snapshot.fold = FoldIn(log, log[snapshot.from].branch)
      BY DEF StoreInv, SnapshotOK
    <3>2. BranchOf(log, log[snapshot.from].branch)
      BY <3>1 DEF BranchOf
    <3> QED BY <1>1, <1>2, <3>1, <3>2
  <2>2. CASE snapshot' = [from |-> 0, fold |-> NoFold]
    BY <2>2 DEF SnapshotOK
  <2>3. ASSUME NEW S, BranchOf(log, S), Keeps(S) PROVE SnapshotOK'
    <3>1. CASE S = {}
      BY <2>1, <2>3, <3>1 DEF Keeps
    <3>2. CASE S # {}
      <4>1. snapshot'.from = Tip(S) /\ snapshot'.fold = FoldWith(S)
        BY <2>3, <3>2 DEF Keeps
      <4>2. Tip(S) \in 1..Len(log) /\ S = log[Tip(S)].branch
        BY <2>3, <3>2, TipOfBranch DEF StoreInv
      <4>3. FoldWith(S) = FoldIn(log', S)
        BY <1>2, <2>3, FoldWithIsFold
      <4>4. log'[Tip(S)].branch = S /\ Tip(S) \in 1..Len(log')
        BY <1>1, <4>2
      <4> QED BY <4>1, <4>3, <4>4 DEF SnapshotOK
    <3> QED BY <3>1, <3>2
  <2> QED BY <2>1, <2>2, <2>3 DEF SnapStep
<1>5. RunsOK'
  <2> SUFFICES ASSUME NEW q \in Runs
               PROVE  /\ BranchOf(log', run'[q].seen)
                      /\ run'[q].pc \in {"reflecting", "dropping"} =>
                            run'[q].folded = FoldIn(log', run'[q].seen)
    BY DEF RunsOK
  <2>1. CASE run'[q] = run[q]
    BY <1>2, <2>1 DEF StoreInv, RunsOK
  <2>2. CASE RunGoes(q)
    BY <1>2, <2>2, FoldWithIsFold DEF RunGoes
  <2> QED BY <2>1, <2>2 DEF RunStep, RunGoes
<1> QED BY <1>1, <1>3, <1>4, <1>5 DEF StoreInv

--------------------------------------------------------------------------------
(* The entries a stage writes.                                               *)
Kinds == {"source", "observed", "reflected", "dropped", "retired"}
Stray(seen) == \/ ~(seen \subseteq Branch)
               \/ \E n \in Branch \ seen : log[n].kind # "source"

LEMMA BranchIsNat ==
  ASSUME StoreInv
  PROVE  Branch \subseteq 1..Len(log) /\ Branch \subseteq Nat /\ Len(log) \in Nat
  BY LeafBranch, BranchOK, LenProperties DEF StoreInv, MemoryTypeOK

IsWritten(e, seen, kind, ids, k) ==
  /\ e \in Entry /\ e.kind = kind /\ e.ids = ids
  /\ e.branch = Branch \cup (Len(log) + 1)..(Len(log) + k)
  /\ e.covers = 0 /\ e.shown = {} /\ e.orphans = {}
  /\ e.stray <=> Stray(seen)

LEMMA WrittenIs ==
  ASSUME StoreInv, NEW seen, NEW kind \in Kinds, NEW ids \in SUBSET Memories, NEW k \in {1, 2}
  PROVE  IsWritten(Written(seen, kind, ids, k), seen, kind, ids, k)
<1> DEFINE B == Branch \cup (Len(log) + 1)..(Len(log) + k)
<1>1. B \in SUBSET Nat
  BY BranchIsNat
<1>2. Written(seen, kind, ids, k) =
        [kind |-> kind, branch |-> B, ids |-> ids, covers |-> 0,
         shown |-> {}, stray |-> Stray(seen), orphans |-> {}]
  <2>1. Written(seen, kind, ids, k) =
          [Blank EXCEPT !.kind = kind, !.ids = ids, !.branch = B, !.stray = Stray(seen)]
    BY Zenon DEF Written, Stray
  <2> HIDE DEF B
  <2> QED BY <2>1 DEF Blank
<1>3. Stray(seen) \in BOOLEAN
  BY DEF Stray
<1> DEFINE t == Stray(seen)
           e == Written(seen, kind, ids, k)
<1> HIDE DEF B, t
<1>4. e = [kind |-> kind, branch |-> B, ids |-> ids, covers |-> 0,
           shown |-> {}, stray |-> t, orphans |-> {}]
  BY <1>2 DEF t
<1> HIDE DEF e
<1>5. e \in Entry
  <2>1. t \in BOOLEAN
    BY <1>3 DEF t
  <2> QED BY <1>1, <1>4, <2>1 DEF Entry, Kinds, Memories
<1>6. /\ e.kind = kind /\ e.ids = ids /\ e.branch = B
      /\ e.covers = 0 /\ e.shown = {} /\ e.orphans = {} /\ e.stray = t
  BY <1>4
<1>7. IsWritten(e, seen, kind, ids, k)
  BY <1>5, <1>6 DEF IsWritten, B, t
<1> QED BY <1>7 DEF e

IsAlike(f, e) ==
  /\ f \in Entry /\ f.kind = e.kind /\ f.ids = e.ids /\ f.branch = e.branch
  /\ f.stray <=> e.stray

IsShown(f, e, c, w) ==
  IsAlike(f, e) /\ f.covers = c /\ f.shown = w /\ f.orphans = e.orphans

LEMMA ShownIs ==
  ASSUME NEW e \in Entry, NEW c \in Nat, NEW w \in SUBSET Nat
  PROVE  IsShown([e EXCEPT !.covers = c, !.shown = w], e, c, w)
  BY DEF Entry, IsAlike, IsShown

IsOrphaned(f, e, o) == IsAlike(f, e) /\ f.orphans = o

LEMMA OrphansAre ==
  ASSUME NEW e \in Entry, NEW o \in SUBSET Memories
  PROVE  IsOrphaned([e EXCEPT !.orphans = o], e, o)
  BY DEF Entry, Memories, IsAlike, IsOrphaned

LEMMA AppendOne ==
  ASSUME StoreInv, NEW e \in Entry, e.branch = Branch \cup (Len(log) + 1)..(Len(log) + 1),
         Appends(<<e>>)
  PROVE  Grown /\ Len(log') = Len(log) + 1 /\ log'[Len(log) + 1] = e
<1>1. log \in Seq(Entry) /\ <<e>> \in Seq(Entry) /\ Len(log) \in Nat /\ Len(<<e>>) = 1
  BY LenProperties DEF StoreInv, MemoryTypeOK
<1>2. log' = log \o <<e>> /\ leaf' = Len(log) + 1
  BY <1>1 DEF Appends
<1>3. /\ log' \in Seq(Entry) /\ Len(log') = Len(log) + 1
      /\ \A n \in 1..Len(log) : log'[n] = log[n]
      /\ log'[Len(log) + 1] = e
  BY <1>1, <1>2, ConcatProperties
<1>4. ASSUME NEW n \in (Len(log) + 1)..Len(log')
      PROVE  log'[n].branch = Branch \cup (Len(log) + 1)..n
  <2>1. n = Len(log) + 1
    BY <1>1, <1>3
  <2> QED BY <1>3, <2>1
<1> QED BY <1>1, <1>2, <1>3, <1>4 DEF Grown

LEMMA AppendTwo ==
  ASSUME StoreInv, NEW e \in Entry, e.branch = Branch \cup (Len(log) + 1)..(Len(log) + 1),
         NEW f \in Entry, f.branch = Branch \cup (Len(log) + 1)..(Len(log) + 2),
         Appends(<<e>> \o <<f>>)
  PROVE  /\ Grown /\ Len(log') = Len(log) + 2
         /\ log'[Len(log) + 1] = e /\ log'[Len(log) + 2] = f
<1>1. /\ log \in Seq(Entry) /\ <<e, f>> \in Seq(Entry) /\ Len(log) \in Nat
      /\ Len(<<e, f>>) = 2 /\ <<e>> \o <<f>> = <<e, f>>
  <2>1. log \in Seq(Entry) /\ Len(log) \in Nat
    BY LenProperties DEF StoreInv, MemoryTypeOK
  <2>2. <<e, f>> \in Seq(Entry) /\ Len(<<e, f>>) = 2
    OBVIOUS
  <2>3. <<e>> \o <<f>> = <<e, f>>
    <3> DEFINE es == <<e>> \o <<f>>
    <3>1. <<e>> \in Seq(Entry) /\ <<f>> \in Seq(Entry) /\ Len(<<e>>) = 1 /\ Len(<<f>>) = 1
      OBVIOUS
    <3>2. /\ es \in Seq(Entry) /\ Len(es) = 2
          /\ \A i \in 1..2 : es[i] = IF i <= 1 THEN <<e>>[i] ELSE <<f>>[i - 1]
      BY <3>1, ConcatProperties
    <3>3. es[1] = e /\ es[2] = f
      BY <3>2
    <3>4. \A i \in 1..2 : es[i] = <<e, f>>[i]
      BY <3>3
    <3> HIDE DEF es
    <3>5. es = <<e, f>>
      BY <2>2, <3>2, <3>4, SeqEqual
    <3> QED BY <3>5 DEF es
  <2> QED BY <2>1, <2>2, <2>3
<1>2. log' = log \o <<e, f>> /\ leaf' = Len(log) + 2
  BY <1>1 DEF Appends
<1>3. /\ log' \in Seq(Entry) /\ Len(log') = Len(log) + 2
      /\ \A n \in 1..Len(log) : log'[n] = log[n]
      /\ log'[Len(log) + 1] = e /\ log'[Len(log) + 2] = f
  BY <1>1, <1>2, ConcatProperties
<1>4. ASSUME NEW n \in (Len(log) + 1)..Len(log')
      PROVE  log'[n].branch = Branch \cup (Len(log) + 1)..n
  <2>1. n = Len(log) + 1 \/ n = Len(log) + 2
    BY <1>1, <1>3
  <2> QED BY <1>3, <2>1
<1> QED BY <1>1, <1>2, <1>3, <1>4 DEF Grown

--------------------------------------------------------------------------------
(* What an entry promises: an observation, that what it covers was shown on  *)
(* its branch; a retired reflection, that another stands for it.             *)
ShownIn(l, s, S) == \E m \in S : s \in l[m].shown

CoversIn(l, n) ==
  l[n].kind = "observed" =>
    /\ l[n].covers <= n
    /\ (\A m \in l[n].branch : ~l[m].stray) =>
          \A s \in l[n].branch : l[s].kind = "source" /\ s <= l[n].covers =>
                                   ShownIn(l, s, l[n].branch)

EntryOK(l, n) == CoversIn(l, n) /\ (~l[n].stray => l[n].orphans = {})

LogOK == \A n \in 1..Len(log) : EntryOK(log, n)
NewOK == \A n \in (Len(log) + 1)..Len(log') : EntryOK(log', n)

MemoryInv == StoreInv /\ LogOK /\ LockInv

StepOK == LogStep /\ NewOK /\ SnapStep /\ RunStep /\ generation' \in Nat /\ LockInv'

LEMMA PromisesStay ==
  ASSUME StoreInv, LogOK, LogStep, NewOK
  PROVE  LogOK'
<1>1. /\ Len(log) \in Nat /\ Len(log') \in Nat /\ Len(log) <= Len(log')
      /\ \A n \in 1..Len(log) : log'[n] = log[n]
  BY GrowthKeeps
<1>2. ASSUME NEW n \in 1..Len(log) PROVE EntryOK(log', n)
  <2>1. EntryOK(log, n)
    BY DEF LogOK
  <2>2. log'[n] = log[n]
    BY <1>1
  <2>3. \A m \in log[n].branch : log'[m] = log[m]
    BY <1>1 DEF StoreInv, TreeOK
  <2> QED BY <2>1, <2>2, <2>3 DEF EntryOK, CoversIn, ShownIn
<1> QED BY <1>1, <1>2 DEF LogOK, NewOK

LEMMA InvStep ==
  ASSUME MemoryInv, StepOK
  PROVE  MemoryInv'
  BY StoreStep, PromisesStay DEF MemoryInv, StepOK

(* The ways the file grows, by entries that are no observation.              *)
LEMMA NothingNew ==
  ASSUME StoreInv, Silent
  PROVE  LogStep /\ NewOK
  BY LenProperties DEF StoreInv, MemoryTypeOK, Silent, LogStep, NewOK

LEMMA OneNew ==
  ASSUME StoreInv, NEW e \in Entry, e.branch = Branch \cup (Len(log) + 1)..(Len(log) + 1),
         Appends(<<e>>), e.kind # "observed", ~e.stray => e.orphans = {}
  PROVE  LogStep /\ NewOK
<1>1. Grown /\ Len(log') = Len(log) + 1 /\ log'[Len(log) + 1] = e /\ Len(log) \in Nat
  BY AppendOne, BranchIsNat
<1>2. ASSUME NEW n \in (Len(log) + 1)..Len(log') PROVE EntryOK(log', n)
  <2>1. n = Len(log) + 1
    BY <1>1
  <2> QED BY <1>1, <2>1 DEF EntryOK, CoversIn
<1> QED BY <1>1, <1>2 DEF LogStep, NewOK

LEMMA TwoNew ==
  ASSUME StoreInv, NEW e \in Entry, e.branch = Branch \cup (Len(log) + 1)..(Len(log) + 1),
         NEW f \in Entry, f.branch = Branch \cup (Len(log) + 1)..(Len(log) + 2),
         Appends(<<e>> \o <<f>>),
         e.kind # "observed", ~e.stray => e.orphans = {},
         f.kind # "observed", ~f.stray => f.orphans = {}
  PROVE  LogStep /\ NewOK
<1>1. Grown /\ Len(log') = Len(log) + 2 /\ Len(log) \in Nat
  BY AppendTwo, BranchIsNat
<1>2. log'[Len(log) + 1] = e /\ log'[Len(log) + 2] = f
  BY AppendTwo
<1>3. ASSUME NEW n \in (Len(log) + 1)..Len(log') PROVE EntryOK(log', n)
  <2>1. n = Len(log) + 1 \/ n = Len(log) + 2
    BY <1>1
  <2> QED BY <1>2, <2>1 DEF EntryOK, CoversIn
<1> QED BY <1>1, <1>3 DEF LogStep, NewOK

(* The ways a run moves.                                                     *)
LEMMA MoveStep ==
  ASSUME StoreInv, LockInv, NEW r \in Runs, RunGoes(r), UNCHANGED <<inFlight, generation>>,
         run'[r].generation = run[r].generation,
         run[r].pc \notin {"none", "over"}, run'[r].pc \notin {"none", "over"}
  PROVE  RunStep /\ LockInv'
<1>1. Keeping(r)
  BY DEF Keeping, Working, Current
<1>2. run'[r].generation <= generation
  BY DEF LockInv, RunsAreOld
<1> QED BY <1>1, <1>2, LockOfOne DEF RunStep, RunGoes, StoreInv

LEMMA GoesStep ==
  ASSUME StoreInv, LockInv, NEW r \in Runs, NEW pc \in {"reflect", "enforce", "drop"},
         NEW new, run[r].pc \notin {"none", "over"}, UNCHANGED <<inFlight, generation>>,
         run' = [run EXCEPT ![r].pc = pc, ![r].seen = {}, ![r].folded = NoFold, ![r].same = new]
  PROVE  RunStep /\ LockInv'
<1>1. DOMAIN run = Runs /\ DOMAIN run[r] = RunFields /\ run[r].generation \in Nat
  BY DEF StoreInv, MemoryTypeOK
<1>2. /\ DOMAIN run' = Runs /\ \A q \in Runs \ {r} : run'[q] = run[q]
      /\ run'[r] = [run[r] EXCEPT !.pc = pc, !.seen = {}, !.folded = NoFold, !.same = new]
  BY <1>1
<1>3. /\ DOMAIN run'[r] = RunFields /\ run'[r].pc = pc
      /\ run'[r].generation = run[r].generation /\ run'[r].seen = {}
  BY <1>1, <1>2 DEF RunFields
<1>4. RunGoes(r)
  BY <1>1, <1>2, <1>3 DEF RunGoes, Stages, BranchOf
<1> QED BY <1>3, <1>4, MoveStep

LEMMA EndsStep ==
  ASSUME StoreInv, LockInv, NEW r \in Runs, Ends(r), UNCHANGED generation,
         run[r].pc \notin {"none", "over"}
  PROVE  RunStep /\ LockInv'
<1>1. DOMAIN run = Runs
  BY DEF StoreInv, MemoryTypeOK
<1>2. /\ DOMAIN run' = Runs /\ \A q \in Runs \ {r} : run'[q] = run[q]
      /\ run'[r] = [NoRun EXCEPT !.pc = "over"]
  BY <1>1 DEF Ends
<1>3. /\ DOMAIN run'[r] = RunFields /\ run'[r].pc = "over"
      /\ run'[r].generation = 0 /\ run'[r].seen = {}
  BY <1>2 DEF RunFields, NoRun
<1>4. RunGoes(r)
  BY <1>2, <1>3 DEF RunGoes, Stages, BranchOf
<1>5. GivesUp(r)
  BY <1>3 DEF GivesUp, Working, Ends, Released
<1>6. run'[r].generation <= generation
  BY <1>3 DEF StoreInv, MemoryTypeOK
<1> QED BY <1>2, <1>4, <1>5, <1>6, LockOfOne DEF RunStep, StoreInv

LEMMA RunsStay ==
  ASSUME StoreInv, LockInv, UNCHANGED <<run, inFlight, generation>>
  PROVE  RunStep /\ LockInv'
  BY DEF RunStep, LockInv, RunsAreOld, LockIsTrue, Working, Current

--------------------------------------------------------------------------------
(* How far the observations of a branch reach.                               *)
LEMMA CoverageIs ==
  ASSUME StoreInv, NEW S, BranchOf(log, S)
  PROVE  Coverage(S) \in Nat /\ (Coverage(S) # 0 => Coverage(S) \in Marks(S))
<1>1. S \subseteq 1..Len(log) /\ Len(log) \in Nat
  BY BranchOK, BranchIsNat DEF StoreInv
<1>2. CASE Marks(S) = {}
  BY <1>2 DEF Coverage
<1>3. CASE Marks(S) # {}
  <2>1. Marks(S) \subseteq S
    BY DEF Marks
  <2>2. Marks(S) \subseteq 0..Len(log)
    <3>1. \A x \in Marks(S) : x \in 1..Len(log)
      BY <1>1, <2>1, Zenon
    <3>2. \A x \in 1..Len(log) : x \in 0..Len(log)
      BY <1>1
    <3> QED BY <3>1, <3>2
  <2>3. Tip(Marks(S)) \in Marks(S)
    BY <1>1, <1>3, <2>2, TipOfNumbers
  <2>4. Coverage(S) = Tip(Marks(S))
    BY <1>3 DEF Coverage
  <2>5. Coverage(S) \in 1..Len(log)
    BY <1>1, <2>1, <2>3, <2>4, Zenon
  <2>6. Coverage(S) \in Nat
    BY <2>5
  <2> QED BY <2>3, <2>4, <2>6
<1> QED BY <1>2, <1>3

(* On a branch without stray entries, all that is covered has been shown.    *)
LEMMA CoveredIsShown ==
  ASSUME StoreInv, LogOK, NEW S, BranchOf(log, S), \A m \in S : ~log[m].stray,
         NEW s \in S, log[s].kind = "source", s <= Coverage(S)
  PROVE  ShownIn(log, s, S)
<1>1. S \subseteq 1..Len(log) /\ Len(log) \in Nat
  BY BranchOK, BranchIsNat DEF StoreInv
<1>2. Coverage(S) # 0
  BY <1>1
<1>3. PICK n \in S : log[n].kind = "observed" /\ log[n].covers = Coverage(S)
  BY <1>2, CoverageIs DEF Marks
<1>4. log[n].branch = S \cap 1..n
  BY BranchOK DEF StoreInv
<1>5. CoversIn(log, n)
  BY <1>1 DEF LogOK, EntryOK
<1>6. Coverage(S) <= n /\ Coverage(S) \in Nat
  BY <1>3, <1>5, CoverageIs DEF CoversIn
<1>7. s \in S \cap 1..n
  BY <1>1, <1>6
<1>8. ShownIn(log, s, S \cap 1..n)
  BY <1>3, <1>4, <1>5, <1>7 DEF CoversIn
<1> QED BY <1>8 DEF ShownIn

(* So it is for the observation a run appends, though it has read an older   *)
(* branch.                                                                   *)
LEMMA ObservedNew ==
  ASSUME StoreInv, LogOK, NEW S, BranchOf(log, S), NEW last \in Backlog(S),
         NEW o \in Observations,
         Appends(<<[Written(S, "observed", {o}, 1) EXCEPT
                      !.covers = last, !.shown = {n \in Backlog(S) : n <= last}]>>)
  PROVE  LogStep /\ NewOK
<1> DEFINE w == Written(S, "observed", {o}, 1)
           c == {n \in Backlog(S) : n <= last}
           e == [w EXCEPT !.covers = last, !.shown = c]
           N == Len(log) + 1
<1>1. /\ S \subseteq 1..Len(log) /\ Len(log) \in Nat /\ Branch \subseteq 1..Len(log)
      /\ \A m \in Branch : log[m].branch = Branch \cap 1..m
  BY BranchOK, BranchIsNat, LeafBranch DEF StoreInv
<1>2. last \in S /\ c \subseteq S
  BY DEF Backlog
<1>3. last \in 1..Len(log) /\ last \in Nat /\ c \in SUBSET Nat
  BY <1>1, <1>2
<1>4. /\ w \in Entry /\ w.kind = "observed" /\ w.orphans = {} /\ (w.stray <=> Stray(S))
      /\ w.branch = Branch \cup N..N
  <2>1. "observed" \in Kinds /\ {o} \in SUBSET Memories
    BY DEF Kinds, Memories
  <2>2. 1 \in {1, 2}
    OBVIOUS
  <2>3. IsWritten(w, S, "observed", {o}, 1)
    BY <2>1, <2>2, WrittenIs, Zenon
  <2> HIDE DEF w
  <2> QED BY <2>3 DEF IsWritten
<1> HIDE DEF w, c
<1>5. /\ e \in Entry /\ e.kind = "observed" /\ e.orphans = {} /\ (e.stray <=> Stray(S))
      /\ e.branch = Branch \cup N..N /\ e.covers = last /\ e.shown = c
  <2>1. IsShown(e, w, last, c)
    BY <1>3, <1>4, ShownIs, Zenon
  <2> HIDE DEF e
  <2> QED BY <1>4, <2>1 DEF IsAlike, IsShown
<1>6. Appends(<<e>>)
  BY DEF w, c
<1> HIDE DEF e
<1>7. Grown /\ Len(log') = N /\ log'[N] = e
  BY <1>5, <1>6, AppendOne
<1>8. \A m \in 1..Len(log) : log'[m] = log[m]
  BY <1>7 DEF Grown
<1>9. ASSUME \A m \in e.branch : ~log'[m].stray,
             NEW s \in e.branch, log'[s].kind = "source", s <= last
      PROVE  ShownIn(log', s, e.branch)
  <2>1. N \in e.branch /\ Branch \subseteq e.branch
    BY <1>1, <1>5
  <2>2. ~Stray(S)
    BY <1>5, <1>7, <1>9, <2>1
  <2>3. S \subseteq Branch
    BY <2>2 DEF Stray
  <2>4. s \in Branch
    BY <1>1, <1>3, <1>5, <1>9
  <2>5. \A m \in S : log'[m] = log[m]
    BY <1>1, <1>8
  <2>6. \A m \in S : ~log[m].stray
    BY <1>9, <2>1, <2>3, <2>5
  <2>7. s \in S
    <3>1. PICK t \in 1..Len(log) : S = log[t].branch
      BY <1>2 DEF BranchOf
    <3>2. t \in S /\ S \subseteq 1..t
      BY <3>1 DEF StoreInv, TreeOK
    <3>3. S = Branch \cap 1..t
      BY <1>1, <2>3, <3>1, <3>2
    <3>4. s \in 1..t
      BY <1>1, <1>2, <1>9, <2>4, <3>2
    <3> QED BY <2>4, <3>3, <3>4
  <2>8. log[s].kind = "source"
    BY <1>9, <2>5, <2>7
  <2>9. CASE s <= Coverage(S)
    <3>1. ShownIn(log, s, S)
      BY <2>6, <2>7, <2>8, <2>9, CoveredIsShown
    <3> QED BY <2>1, <2>3, <2>5, <3>1 DEF ShownIn
  <2>10. CASE ~(s <= Coverage(S))
    <3>1. s \in Nat /\ Coverage(S) \in Nat
      BY <1>1, <2>7, CoverageIs
    <3>2. s \in Backlog(S)
      BY <2>7, <2>8, <2>10, <3>1 DEF Backlog
    <3>3. s \in c
      BY <1>9, <3>2 DEF c
    <3> QED BY <1>5, <1>7, <2>1, <3>3 DEF ShownIn
  <2> QED BY <2>9, <2>10
<1>10. EntryOK(log', N)
  <2>1. last <= N
    BY <1>1, <1>3
  <2>2. CoversIn(log', N)
    BY <1>5, <1>7, <1>9, <2>1 DEF CoversIn
  <2>3. log'[N].orphans = {}
    BY <1>5, <1>7
  <2> QED BY <2>2, <2>3 DEF EntryOK
<1>11. \A n \in N..Len(log') : n = N
  BY <1>1, <1>7
<1> QED BY <1>7, <1>10, <1>11 DEF LogStep, NewOK

(* What the reflector retires has an heir, when its branch was not left: the *)
(* file names then what it has folded.                                       *)
LEMMA HeirsStand ==
  ASSUME StoreInv, NEW S, BranchOf(log, S), ~Stray(S), NEW f, f = FoldIn(log, S),
         NEW P \in SUBSET Proposals(f)
  PROVE  LET after == Fold(Branch)
             new   == Standing(P) \ ActiveRefl(f)
             old   == Retired(P)
             heirs == (after.refl \cup new) \ (after.droppedRefl \cup old)
         IN  {id \in old \cap ActiveRefl(after) : Heirs(P, id) \cap heirs = {}} = {}
<1> DEFINE after == Fold(Branch)
           new   == Standing(P) \ ActiveRefl(f)
           old   == Retired(P)
           heirs == (after.refl \cup new) \ (after.droppedRefl \cup old)
<1>1. after = f
  <2>1. S \subseteq Branch /\ \A n \in Branch \ S : log[n].kind = "source"
    BY DEF Stray
  <2>2. FoldIn(log, S) = FoldIn(log, Branch)
    BY <2>1, FoldMore
  <2> QED BY <2>2, FoldIs
<1>2. ASSUME NEW id \in old PROVE Heirs(P, id) \cap heirs # {}
  <2>1. PICK p \in P : id \in p[2] /\ id \notin Standing(P)
    BY DEF Retired
  <2>2. p[1] \in Heirs(P, id) /\ p[1] \in Standing(P)
    BY <2>1 DEF Heirs, Standing
  <2>3. p[1] \notin f.droppedRefl
    BY DEF Proposals
  <2>4. p[1] \notin old
    BY <2>2 DEF Retired
  <2>5. p[1] \in f.refl \cup new
    BY <2>2, <2>3 DEF ActiveRefl
  <2>6. p[1] \in heirs
    BY <1>1, <2>3, <2>4, <2>5
  <2> HIDE DEF heirs, old
  <2> QED BY <2>2, <2>6
<1> QED BY <1>2

--------------------------------------------------------------------------------
(* The actions.                                                              *)
LEMMA KeepsStep ==
  ASSUME NEW S, BranchOf(log, S), Keeps(S)
  PROVE  SnapStep
  BY DEF SnapStep

LEMMA TheBranch ==
  ASSUME MemoryInv
  PROVE  StoreInv /\ LogOK /\ LockInv /\ BranchOf(log, Branch) /\ generation \in Nat
  BY LeafBranch DEF MemoryInv, StoreInv, MemoryTypeOK

LEMMA SayStep ==
  ASSUME MemoryInv, Say
  PROVE  StepOK
<1> DEFINE B == Branch \cup {Len(log) + 1}
           e == [Blank EXCEPT !.branch = B]
<1>1. StoreInv /\ LockInv /\ generation \in Nat
  BY TheBranch
<1>2. B = Branch \cup (Len(log) + 1)..(Len(log) + 1) /\ B \in SUBSET Nat
  <2>1. (Len(log) + 1)..(Len(log) + 1) = {Len(log) + 1} /\ Len(log) + 1 \in Nat
    BY <1>1, BranchIsNat
  <2>2. Branch \subseteq Nat
    BY <1>1, BranchIsNat
  <2> HIDE DEF Branch
  <2> QED BY <2>1, <2>2
<1>3. Appends(<<e>>)
  BY DEF Say
<1> HIDE DEF B
<1>4. /\ e \in Entry /\ e.kind = "source" /\ e.orphans = {} /\ e.branch = B
  BY <1>2 DEF Blank, Entry
<1> HIDE DEF e
<1>5. LogStep /\ NewOK
  BY <1>1, <1>2, <1>3, <1>4, OneNew
<1>6. RunStep /\ LockInv' /\ SnapStep /\ generation' \in Nat
  BY <1>1, RunsStay DEF Say, Others, SnapStep
<1> QED BY <1>5, <1>6 DEF StepOK

LEMMA NavigateStep ==
  ASSUME MemoryInv, NEW n \in 1..Len(log), Navigate(n)
  PROVE  StepOK
<1>1. StoreInv /\ LockInv /\ generation \in Nat /\ Len(log) \in Nat
  BY TheBranch, BranchIsNat
<1>2. log' = log /\ leaf' \in 0..Len(log)
  BY <1>1 DEF Navigate
<1>3. LogStep /\ NewOK
  BY <1>1, <1>2 DEF LogStep, NewOK
<1>4. RunStep /\ LockInv' /\ SnapStep /\ generation' \in Nat
  BY <1>1, RunsStay DEF Navigate, Others, SnapStep
<1> QED BY <1>3, <1>4 DEF StepOK

LEMMA IdleCheckStep ==
  ASSUME MemoryInv, IdleCheck
  PROVE  StepOK
<1>1. StoreInv /\ LockInv /\ generation \in Nat /\ BranchOf(log, Branch)
  BY TheBranch
<1>2. LogStep /\ NewOK /\ SnapStep
  BY <1>1, NothingNew, KeepsStep DEF IdleCheck
<1>3. RunStep /\ LockInv' /\ generation' \in Nat
  BY <1>1, RunsStay DEF IdleCheck, Others
<1> QED BY <1>2, <1>3 DEF StepOK

LEMMA LaunchStep ==
  ASSUME MemoryInv, NEW r \in Runs, Launch(r)
  PROVE  StepOK
<1>1. /\ StoreInv /\ LockInv /\ generation \in Nat /\ BranchOf(log, Branch)
      /\ UNCHANGED generation
  BY TheBranch DEF Launch, Others
<1>2. LogStep /\ NewOK /\ SnapStep
  BY <1>1, NothingNew, KeepsStep DEF Launch
<1>3. PICK pc \in {"reflect", "observing"} :
        run' = [run EXCEPT ![r] = [NoRun EXCEPT !.pc = pc, !.generation = generation,
                                                !.seen = IF pc = "observing" THEN Branch ELSE {}]]
  BY DEF Launch
<1>4. DOMAIN run = Runs
  BY <1>1 DEF StoreInv, MemoryTypeOK
<1>5. /\ DOMAIN run' = Runs /\ \A q \in Runs \ {r} : run'[q] = run[q]
      /\ run'[r] = [NoRun EXCEPT !.pc = pc, !.generation = generation,
                                 !.seen = IF pc = "observing" THEN Branch ELSE {}]
  BY <1>3, <1>4
<1>6. /\ DOMAIN run'[r] = RunFields /\ run'[r].pc = pc /\ run'[r].generation = generation
      /\ run'[r].seen = IF pc = "observing" THEN Branch ELSE {}
  <2> DEFINE S == IF pc = "observing" THEN Branch ELSE {}
  <2>1. run'[r] = [NoRun EXCEPT !.pc = pc, !.generation = generation, !.seen = S]
    BY <1>5
  <2> HIDE DEF S
  <2>2. /\ DOMAIN run'[r] = RunFields /\ run'[r].pc = pc /\ run'[r].generation = generation
        /\ run'[r].seen = S
    BY <2>1 DEF RunFields, NoRun
  <2> QED BY <2>2 DEF S
<1>7. BranchOf(log, run'[r].seen)
  BY <1>1, <1>6 DEF BranchOf
<1>8. RunGoes(r)
  BY <1>1, <1>5, <1>6, <1>7 DEF RunGoes, Stages
<1>9. Takes(r)
  BY <1>1, <1>6 DEF Takes, Launch, Fresh, Working, Current
<1>10. LockInv'
  <2>1. run'[r].generation <= generation
    BY <1>1, <1>6
  <2>2. UNCHANGED generation /\ \A q \in Runs \ {r} : run'[q] = run[q]
    BY <1>1, <1>5
  <2> QED BY <1>1, <1>9, <2>1, <2>2, LockOfOne DEF StoreInv
<1> QED BY <1>1, <1>2, <1>8, <1>10 DEF StepOK, RunStep

LEMMA ObservedStep ==
  ASSUME MemoryInv, NEW r \in Runs, Observed(r)
  PROVE  StepOK
<1>1. /\ StoreInv /\ LogOK /\ LockInv /\ generation \in Nat /\ BranchOf(log, run[r].seen)
      /\ UNCHANGED <<generation, snapshot>> /\ run[r].pc \notin {"none", "over"}
  BY TheBranch DEF Observed, Others, StoreInv, RunsOK
<1>2. SnapStep /\ generation' \in Nat
  BY <1>1 DEF SnapStep
<1>3. ASSUME Goes(r, "reflect"), UNCHANGED inFlight PROVE RunStep /\ LockInv'
  BY <1>1, <1>3, GoesStep DEF Goes
<1>4. ASSUME Ends(r) PROVE RunStep /\ LockInv'
  BY <1>1, <1>4, EndsStep
<1>5. ASSUME Silent PROVE LogStep /\ NewOK
  BY <1>1, <1>5, NothingNew
<1>6. ASSUME NEW o \in Observations, NEW last \in Backlog(run[r].seen),
             Appends(<<[Written(run[r].seen, "observed", {o}, 1) EXCEPT
                          !.covers = last, !.shown = Chunk(r, last)]>>)
      PROVE  LogStep /\ NewOK
  BY <1>1, <1>6, ObservedNew DEF Chunk
<1> QED BY <1>1, <1>2, <1>3, <1>4, <1>5, <1>6 DEF Observed, StepOK

LEMMA ReflectStep ==
  ASSUME MemoryInv, NEW r \in Runs, Reflect(r)
  PROVE  StepOK
<1>1. /\ StoreInv /\ LockInv /\ generation \in Nat /\ BranchOf(log, Branch)
      /\ UNCHANGED <<generation, snapshot, inFlight>> /\ run[r].pc = "reflect"
  BY TheBranch DEF Reflect, Others
<1>2. LogStep /\ NewOK /\ SnapStep /\ generation' \in Nat
  BY <1>1, NothingNew DEF Reflect, SnapStep
<1>3. CASE run' = [run EXCEPT ![r].pc = "resolving", ![r].seen = Branch]
  <2>1. DOMAIN run = Runs /\ DOMAIN run[r] = RunFields /\ run[r].generation \in Nat
    BY <1>1 DEF StoreInv, MemoryTypeOK
  <2>2. /\ DOMAIN run' = Runs /\ \A q \in Runs \ {r} : run'[q] = run[q]
        /\ run'[r] = [run[r] EXCEPT !.pc = "resolving", !.seen = Branch]
    BY <1>3, <2>1
  <2>3. /\ DOMAIN run'[r] = RunFields /\ run'[r].pc = "resolving"
        /\ run'[r].generation = run[r].generation /\ run'[r].seen = Branch
    BY <2>1, <2>2 DEF RunFields
  <2>4. RunGoes(r)
    BY <1>1, <2>1, <2>2, <2>3 DEF RunGoes, Stages
  <2> QED BY <1>1, <1>2, <2>3, <2>4, MoveStep DEF StepOK
<1>4. CASE Goes(r, "enforce")
  BY <1>1, <1>2, <1>4, GoesStep DEF Goes, StepOK
<1> QED BY <1>3, <1>4 DEF Reflect

LEMMA FoldForReflectorStep ==
  ASSUME MemoryInv, NEW r \in Runs, FoldForReflector(r)
  PROVE  StepOK
<1>1. /\ StoreInv /\ LockInv /\ generation \in Nat /\ BranchOf(log, run[r].seen)
      /\ UNCHANGED <<generation, inFlight>> /\ run[r].pc = "resolving"
  BY TheBranch DEF FoldForReflector, Others, StoreInv, RunsOK
<1>2. LogStep /\ NewOK /\ SnapStep /\ generation' \in Nat
  BY <1>1, NothingNew, KeepsStep DEF FoldForReflector
<1>3. DOMAIN run = Runs /\ DOMAIN run[r] = RunFields /\ run[r].generation \in Nat
  BY <1>1 DEF StoreInv, MemoryTypeOK
<1>4. /\ DOMAIN run' = Runs /\ \A q \in Runs \ {r} : run'[q] = run[q]
      /\ run'[r] = [run[r] EXCEPT !.pc = "reflecting", !.folded = FoldWith(run[r].seen)]
  BY <1>3 DEF FoldForReflector
<1>5. /\ DOMAIN run'[r] = RunFields /\ run'[r].pc = "reflecting"
      /\ run'[r].generation = run[r].generation /\ run'[r].seen = run[r].seen
      /\ run'[r].folded = FoldWith(run[r].seen)
  <2> DEFINE f == FoldWith(run[r].seen)
  <2>1. run'[r] = [run[r] EXCEPT !.pc = "reflecting", !.folded = f]
    BY <1>4
  <2> HIDE DEF f
  <2>2. /\ DOMAIN run'[r] = RunFields /\ run'[r].pc = "reflecting"
        /\ run'[r].generation = run[r].generation /\ run'[r].seen = run[r].seen
        /\ run'[r].folded = f
    BY <1>3, <2>1 DEF RunFields
  <2> QED BY <2>2 DEF f
<1>6. RunGoes(r)
  BY <1>1, <1>3, <1>4, <1>5 DEF RunGoes, Stages
<1> QED BY <1>1, <1>2, <1>5, <1>6, MoveStep DEF StepOK

(* The file after a reflector's answer: new reflections, retired ones, or    *)
(* one after the other.                                                      *)
LEMMA ReflectionsNew ==
  ASSUME StoreInv, NEW S, BranchOf(log, S), NEW new \in SUBSET Reflections,
         Appends(<<Written(S, "reflected", new, 1)>>)
  PROVE  LogStep /\ NewOK
<1> DEFINE e == Written(S, "reflected", new, 1)
<1>1. "reflected" \in Kinds /\ new \in SUBSET Memories /\ 1 \in {1, 2}
  BY DEF Kinds, Memories
<1>2. IsWritten(e, S, "reflected", new, 1)
  BY <1>1, WrittenIs, Zenon
<1>3. Appends(<<e>>)
  OBVIOUS
<1> HIDE DEF e
<1> QED BY <1>2, <1>3, OneNew DEF IsWritten

LEMMA RetiredNew ==
  ASSUME StoreInv, NEW S, BranchOf(log, S), NEW new \in SUBSET Reflections,
         NEW old \in SUBSET Memories, NEW gone \in SUBSET old, ~Stray(S) => gone = {},
         NEW added, added = IF new = {} THEN <<>> ELSE <<Written(S, "reflected", new, 1)>>,
         Appends(added \o <<[Written(S, "retired", old, Len(added) + 1) EXCEPT !.orphans = gone]>>)
  PROVE  LogStep /\ NewOK
<1> DEFINE e == Written(S, "reflected", new, 1)
           w(k) == Written(S, "retired", old, k)
           f(k) == [w(k) EXCEPT !.orphans = gone]
<1>1. ASSUME NEW k \in {1, 2}
      PROVE  /\ f(k) \in Entry /\ f(k).branch = Branch \cup (Len(log) + 1)..(Len(log) + k)
             /\ f(k).kind # "observed" /\ (~f(k).stray => f(k).orphans = {})
  <2> DEFINE v == w(k)
             g == f(k)
  <2>1. "retired" \in Kinds /\ gone \in SUBSET Memories
    BY DEF Kinds
  <2>2. IsWritten(v, S, "retired", old, k)
    BY <2>1, WrittenIs, Zenon
  <2> HIDE DEF v
  <2>3. v \in Entry
    BY <2>2 DEF IsWritten
  <2>4. IsOrphaned([v EXCEPT !.orphans = gone], v, gone)
    BY <2>1, <2>3, OrphansAre, Zenon
  <2>5. IsOrphaned(g, v, gone)
    BY <2>4 DEF v
  <2> HIDE DEF g
  <2>6. /\ g \in Entry /\ g.branch = Branch \cup (Len(log) + 1)..(Len(log) + k)
        /\ g.kind # "observed" /\ (~g.stray => g.orphans = {})
    BY <2>2, <2>5 DEF IsWritten, IsOrphaned, IsAlike
  <2> QED BY <2>6 DEF g
<1>2. CASE new = {}
  <2>1. Len(added) + 1 = 1 /\ 1 \in {1, 2} /\ added = <<>>
    BY <1>2
  <2>2. Appends(<<>> \o <<f(1)>>)
    BY <2>1
  <2>3. /\ f(1) \in Entry /\ f(1).branch = Branch \cup (Len(log) + 1)..(Len(log) + 1)
        /\ f(1).kind # "observed" /\ (~f(1).stray => f(1).orphans = {})
    BY <1>1, <2>1
  <2> HIDE DEF f
  <2>4. <<>> \o <<f(1)>> = <<f(1)>>
    BY <2>3, ConcatEmptySeq
  <2> QED BY <2>2, <2>3, <2>4, OneNew
<1>3. CASE new # {}
  <2>1. Len(added) + 1 = 2 /\ 2 \in {1, 2} /\ 1 \in {1, 2} /\ added = <<e>>
    BY <1>3
  <2>2. Appends(<<e>> \o <<f(2)>>)
    BY <2>1
  <2>3. /\ f(2) \in Entry /\ f(2).branch = Branch \cup (Len(log) + 1)..(Len(log) + 2)
        /\ f(2).kind # "observed" /\ (~f(2).stray => f(2).orphans = {})
    BY <1>1, <2>1
  <2>4. "reflected" \in Kinds /\ new \in SUBSET Memories
    BY DEF Kinds, Memories
  <2>5. IsWritten(e, S, "reflected", new, 1)
    BY <2>1, <2>4, WrittenIs, Zenon
  <2> HIDE DEF e, f
  <2>6. /\ e \in Entry /\ e.branch = Branch \cup (Len(log) + 1)..(Len(log) + 1)
        /\ e.kind # "observed" /\ e.orphans = {}
    BY <2>5 DEF IsWritten
  <2> QED BY <2>2, <2>3, <2>6, TwoNew
<1> QED BY <1>2, <1>3

LEMMA ReflectedStep ==
  ASSUME MemoryInv, NEW r \in Runs, Reflected(r)
  PROVE  StepOK
<1> DEFINE S == run[r].seen
           fold == run[r].folded
           after == Fold(Branch)
<1>1. /\ StoreInv /\ LockInv /\ generation \in Nat
      /\ UNCHANGED <<generation, snapshot>>
      /\ run[r].pc = "reflecting"
  BY TheBranch DEF Reflected, Others
<1>a. BranchOf(log, S) /\ fold = FoldIn(log, S)
  BY <1>1 DEF StoreInv, RunsOK
<1>2. SnapStep /\ generation' \in Nat
  BY <1>1 DEF SnapStep
<1>3. ASSUME Goes(r, "enforce"), UNCHANGED inFlight PROVE RunStep /\ LockInv'
  BY <1>1, <1>3, GoesStep DEF Goes
<1>4. ASSUME Ends(r) PROVE RunStep /\ LockInv'
  BY <1>1, <1>4, EndsStep
<1>5. ASSUME NEW new, Reflects(r, new) PROVE RunStep /\ LockInv'
  BY <1>1, <1>5, GoesStep DEF Reflects
<1>6. ASSUME Silent PROVE LogStep /\ NewOK
  BY <1>1, <1>6, NothingNew
<1>7. CASE Silent /\ ((Goes(r, "enforce") /\ UNCHANGED inFlight) \/ Ends(r))
  BY <1>1, <1>2, <1>3, <1>4, <1>6, <1>7 DEF StepOK
<1>8. ASSUME NEW P \in SUBSET Proposals(fold), Answers(r, P)
      PROVE  StepOK
  <2> DEFINE new   == Standing(P) \ ActiveRefl(fold)
             old   == Retired(P)
             added == IF new = {} THEN <<>> ELSE <<Written(S, "reflected", new, 1)>>
             heirs == (after.refl \cup new) \ (after.droppedRefl \cup old)
             lost  == {id \in old \cap ActiveRefl(after) : Heirs(P, id) \cap heirs = {}}
             gone  == [Written(S, "retired", old, Len(added) + 1) EXCEPT !.orphans = lost]
  <2>1. new \in SUBSET Reflections
    BY DEF Standing, Proposals
  <2>2. old \in SUBSET Memories
    <3>1. FoldIn(log, S) \in Folded
      BY <1>1, <1>a, BranchOK, FoldTyped DEF StoreInv
    <3>2. fold.refl \subseteq Memories
      BY <1>a, <3>1 DEF Folded
    <3>3. \A p \in P : p[2] \subseteq ActiveRefl(fold)
      BY DEF Proposals
    <3> QED BY <3>2, <3>3 DEF Retired, ActiveRefl
  <2>3. lost \in SUBSET old
    OBVIOUS
  <2>4. ~Stray(S) => lost = {}
    BY <1>1, <1>a, HeirsStand, Zenon
  <2>5. \/ new # {} /\ Appends(added) /\ Reflects(r, new)
        \/ Appends(added \o <<gone>>) /\ Reflects(r, new)
        \/ new # {} /\ Appends(added) /\ Ends(r)
    BY <1>8, Zenon DEF Answers
  <2> HIDE DEF new, old, lost
  <2>6. ASSUME new # {}, Appends(added) PROVE LogStep /\ NewOK
    BY <1>1, <1>a, <2>1, <2>6, ReflectionsNew
  <2>7. ASSUME Appends(added \o <<gone>>) PROVE LogStep /\ NewOK
    <3>1. added = IF new = {} THEN <<>> ELSE <<Written(S, "reflected", new, 1)>>
      OBVIOUS
    <3>2. Appends(added \o <<[Written(S, "retired", old, Len(added) + 1) EXCEPT !.orphans = lost]>>)
      BY <2>7
    <3> HIDE DEF added
    <3> QED BY <1>1, <1>a, <2>1, <2>2, <2>3, <2>4, <3>1, <3>2, RetiredNew, Zenon
  <2> HIDE DEF added, gone
  <2> QED BY <1>2, <1>4, <1>5, <2>5, <2>6, <2>7 DEF StepOK
<1> HIDE DEF fold
<1>9. \/ Silent /\ ((Goes(r, "enforce") /\ UNCHANGED inFlight) \/ Ends(r))
      \/ \E p, q \in Proposals(fold) : Answers(r, {p, q})
  BY DEF Reflected, fold
<1>10. \A p, q \in Proposals(fold) : {p, q} \in SUBSET Proposals(fold)
  OBVIOUS
<1> QED BY <1>7, <1>8, <1>9, <1>10, Zenon

LEMMA DropsNew ==
  ASSUME StoreInv, NEW S, NEW ids \in SUBSET Memories,
         Appends(<<Written(S, "dropped", ids, 1)>>)
  PROVE  LogStep /\ NewOK
<1> DEFINE e == Written(S, "dropped", ids, 1)
<1>1. "dropped" \in Kinds /\ 1 \in {1, 2}
  BY DEF Kinds
<1>2. IsWritten(e, S, "dropped", ids, 1)
  BY <1>1, WrittenIs, Zenon
<1>3. Appends(<<e>>)
  OBVIOUS
<1> HIDE DEF e
<1> QED BY <1>2, <1>3, OneNew DEF IsWritten

LEMMA ActiveIsTyped ==
  ASSUME StoreInv, NEW S, BranchOf(log, S)
  PROVE  ActiveObs(FoldIn(log, S)) \subseteq Memories
<1>1. FoldIn(log, S) \in Folded
  BY BranchOK, FoldTyped DEF StoreInv
<1> QED BY <1>1 DEF Folded, ActiveObs

LEMMA DropStep ==
  ASSUME MemoryInv, NEW r \in Runs, Drop(r)
  PROVE  StepOK
<1>1. /\ StoreInv /\ LockInv /\ generation \in Nat /\ BranchOf(log, Branch)
      /\ UNCHANGED <<generation, inFlight>> /\ run[r].pc = "drop" /\ Silent
  BY TheBranch DEF Drop, Others
<1>2. LogStep /\ NewOK /\ generation' \in Nat
  BY <1>1, NothingNew
<1>3. SnapStep
  BY <1>1, KeepsStep DEF Drop, SnapStep
<1>4. CASE Goes(r, "enforce")
  BY <1>1, <1>2, <1>3, <1>4, GoesStep DEF Goes, StepOK
<1>5. CASE run' = [run EXCEPT ![r].pc = "dropping", ![r].seen = Branch, ![r].same = {},
                              ![r].folded = FoldWith(Branch)]
  <2> DEFINE f == FoldWith(Branch)
  <2>1. DOMAIN run = Runs /\ DOMAIN run[r] = RunFields /\ run[r].generation \in Nat
    BY <1>1 DEF StoreInv, MemoryTypeOK
  <2>2. run' = [run EXCEPT ![r].pc = "dropping", ![r].seen = Branch, ![r].same = {}, ![r].folded = f]
    BY <1>5
  <2> HIDE DEF f
  <2>3. /\ DOMAIN run' = Runs /\ \A q \in Runs \ {r} : run'[q] = run[q]
        /\ run'[r] = [run[r] EXCEPT !.pc = "dropping", !.seen = Branch, !.same = {}, !.folded = f]
    BY <2>1, <2>2
  <2>4. /\ DOMAIN run'[r] = RunFields /\ run'[r].pc = "dropping"
        /\ run'[r].generation = run[r].generation /\ run'[r].seen = Branch /\ run'[r].folded = f
    BY <2>1, <2>3 DEF RunFields
  <2>5. RunGoes(r)
    BY <1>1, <2>1, <2>3, <2>4 DEF RunGoes, Stages, f
  <2> QED BY <1>1, <1>2, <1>3, <2>4, <2>5, MoveStep DEF StepOK
<1> QED BY <1>4, <1>5 DEF Drop

LEMMA DroppedStep ==
  ASSUME MemoryInv, NEW r \in Runs, Dropped(r)
  PROVE  StepOK
<1>1. /\ StoreInv /\ LockInv /\ generation \in Nat
      /\ UNCHANGED <<generation, inFlight, snapshot>> /\ run[r].pc = "dropping"
      /\ Goes(r, "enforce")
  BY TheBranch DEF Dropped, Others
<1>2. SnapStep /\ generation' \in Nat /\ RunStep /\ LockInv'
  BY <1>1, GoesStep DEF SnapStep, Goes
<1>3. ActiveObs(run[r].folded) \subseteq Memories
  BY <1>1, ActiveIsTyped DEF StoreInv, RunsOK
<1>4. ASSUME Silent PROVE LogStep /\ NewOK
  BY <1>1, <1>4, NothingNew
<1>5. ASSUME NEW ids \in (SUBSET ActiveObs(run[r].folded)) \ {{}},
             Appends(<<Written(run[r].seen, "dropped", ids, 1)>>)
      PROVE  LogStep /\ NewOK
  <2>1. ids \in SUBSET Memories
    BY <1>3
  <2> QED BY <1>1, <1>5, <2>1, DropsNew
<1>6. Silent \/ \E ids \in (SUBSET ActiveObs(run[r].folded)) \ {{}} :
                   Appends(<<Written(run[r].seen, "dropped", ids, 1)>>)
  BY DEF Dropped
<1> QED BY <1>2, <1>4, <1>5, <1>6 DEF StepOK

LEMMA EnforceStep ==
  ASSUME MemoryInv, NEW r \in Runs, Enforce(r)
  PROVE  StepOK
<1>1. /\ StoreInv /\ LockInv /\ generation \in Nat /\ BranchOf(log, Branch)
      /\ UNCHANGED generation /\ run[r].pc = "enforce" /\ Ends(r) /\ Keeps(Branch)
  BY TheBranch DEF Enforce, Others
<1>2. SnapStep /\ generation' \in Nat /\ RunStep /\ LockInv'
  BY <1>1, EndsStep, KeepsStep
<1>3. ActiveObs(FoldWith(Branch)) \subseteq Memories
  BY <1>1, ActiveIsTyped, FoldWithIsFold
<1>4. ASSUME Silent PROVE LogStep /\ NewOK
  BY <1>1, <1>4, NothingNew
<1>5. ASSUME NEW ids \in (SUBSET (ActiveObs(FoldWith(Branch)) \ Critical)) \ {{}},
             Appends(<<Written(Branch, "dropped", ids, 1)>>)
      PROVE  LogStep /\ NewOK
  <2>1. ids \in SUBSET Memories
    BY <1>3
  <2> QED BY <1>1, <1>5, <2>1, DropsNew
<1>6. Silent \/ \E ids \in (SUBSET (ActiveObs(FoldWith(Branch)) \ Critical)) \ {{}} :
                   Appends(<<Written(Branch, "dropped", ids, 1)>>)
  BY DEF Enforce
<1> QED BY <1>2, <1>4, <1>5, <1>6 DEF StepOK

LEMMA StopsStep ==
  ASSUME MemoryInv, NEW r \in Runs, Stops(r)
  PROVE  StepOK
<1>1. /\ StoreInv /\ LockInv /\ generation \in Nat /\ Silent /\ Ends(r)
      /\ UNCHANGED <<generation, snapshot>> /\ run[r].pc \notin {"none", "over"}
  BY TheBranch DEF Stops, Others
<1> QED BY <1>1, NothingNew, EndsStep DEF StepOK, SnapStep

LEMMA SessionStep ==
  ASSUME MemoryInv, EndSession \/ StartSession
  PROVE  StepOK
<1>1. /\ StoreInv /\ LockInv /\ generation \in Nat /\ Silent /\ UNCHANGED run
      /\ generation' = generation + 1 /\ inFlight' = FALSE
      /\ snapshot' = [from |-> 0, fold |-> NoFold]
  BY TheBranch DEF EndSession, StartSession
<1>2. LockInv'
  BY <1>1, LockOfNew DEF StoreInv
<1> QED BY <1>1, <1>2, NothingNew DEF StepOK, SnapStep, RunStep

LEMMA MemoryStutters ==
  ASSUME MemoryInv, UNCHANGED memoryVars
  PROVE  StepOK
<1>1. StoreInv /\ LockInv /\ generation \in Nat /\ Silent /\ UNCHANGED <<run, inFlight, generation, snapshot>>
  BY TheBranch DEF memoryVars, Silent
<1> QED BY <1>1, NothingNew, RunsStay DEF StepOK, SnapStep

LEMMA MemoryPreserves ==
  MemoryInv /\ [MemoryNext]_memoryVars => MemoryInv'
<1> SUFFICES ASSUME MemoryInv, [MemoryNext]_memoryVars PROVE StepOK
  BY InvStep
<1>1. CASE Say \/ IdleCheck \/ EndSession \/ StartSession
  BY <1>1, SayStep, IdleCheckStep, SessionStep
<1>2. CASE \E n \in 1..Len(log) : Navigate(n)
  BY <1>2, NavigateStep
<1>3. CASE \E r \in Runs :
             \/ Launch(r) \/ Observed(r) \/ Reflect(r) \/ FoldForReflector(r) \/ Reflected(r)
             \/ Drop(r) \/ Dropped(r) \/ Enforce(r) \/ Stops(r)
  BY <1>3, LaunchStep, ObservedStep, ReflectStep, FoldForReflectorStep, ReflectedStep,
     DropStep, DroppedStep, EnforceStep, StopsStep
<1>4. CASE UNCHANGED memoryVars
  BY <1>4, MemoryStutters
<1> QED BY <1>1, <1>2, <1>3, <1>4 DEF MemoryNext

LEMMA MemoryBegins == MemoryInit => MemoryInv
<1> SUFFICES ASSUME MemoryInit PROVE MemoryInv
  OBVIOUS
<1>1. log = Past /\ leaf = Len(Past) /\ Len(Past) \in Nat
  BY PastAssumption, LenProperties DEF MemoryInit
<1>2. \A r \in Runs : /\ DOMAIN run[r] = RunFields /\ run[r].pc = "none"
                      /\ run[r].generation = 0 /\ run[r].seen = {}
  BY DEF MemoryInit, NoRun, RunFields
<1>3. MemoryTypeOK
  BY <1>1, <1>2, PastAssumption DEF MemoryTypeOK, MemoryInit, Stages
<1>4. TreeOK
  BY <1>1, PastAssumption DEF TreeOK
<1>5. SnapshotOK
  BY DEF SnapshotOK, MemoryInit
<1>6. RunsOK
  BY <1>2 DEF RunsOK, BranchOf
<1>7. LogOK
  BY <1>1, PastAssumption DEF LogOK, EntryOK, CoversIn, ShownIn
<1>8. LockInv
  BY <1>2 DEF LockInv, RunsAreOld, LockIsTrue, Working, MemoryInit
<1> QED BY <1>3, <1>4, <1>5, <1>6, <1>7, <1>8 DEF MemoryInv, StoreInv

LEMMA MemoryHolds == MemorySpec => []MemoryInv
  BY MemoryBegins, MemoryPreserves, PTL DEF MemorySpec

(* The lock that lets one consolidation work at a time is held exactly while *)
(* one of the session's generation is at work: none of an earlier session    *)
(* gives it away, and no end of a run keeps it (releaseConsolidationLock).   *)
THEOREM LockHolds == MemorySpec => []LockIsTrue
<1>1. MemoryInv => LockIsTrue
  BY DEF MemoryInv, LockInv
<1> QED BY <1>1, MemoryHolds, PTL

(* The fold that starts from the snapshot is the fold of the whole branch:   *)
(* a branch that holds the entry of the snapshot continues its branch.       *)
THEOREM SnapshotHolds == MemorySpec => []SnapshotIsExact
<1>1. MemoryInv => SnapshotIsExact
  BY FoldWithIsFold, FoldIs DEF MemoryInv, SnapshotIsExact, BranchOf
<1> QED BY <1>1, MemoryHolds, PTL

(* What the marks of a branch say was observed was shown to an observer, for *)
(* the mark of a run never passes the entries it has read.                   *)
THEOREM CoverageHolds == MemorySpec => []CoveredIsObserved
<1>1. ASSUME MemoryInv PROVE CoveredIsObserved
  <2> SUFFICES ASSUME \A m \in Branch : ~log[m].stray,
                      NEW s \in Branch, s <= Coverage(Branch), log[s].kind = "source"
               PROVE  s \in UNION {log[m].shown : m \in Branch}
    BY DEF CoveredIsObserved
  <2>1. ShownIn(log, s, Branch)
    BY <1>1, TheBranch, CoveredIsShown
  <2> QED BY <2>1 DEF ShownIn
<1> QED BY <1>1, MemoryHolds, PTL

(* A reflection retired on the branch its reflector read leaves another that *)
(* is active there in its place.                                             *)
THEOREM RetiredHolds == MemorySpec => []RetiredIsReplaced
<1>1. MemoryInv => RetiredIsReplaced
  BY DEF MemoryInv, LogOK, EntryOK, RetiredIsReplaced
<1> QED BY <1>1, MemoryHolds, PTL

--------------------------------------------------------------------------------
(* The patches (PatchExecutor).                                               *)
Statuses == {"pending", "rejected", "not_applied", "applied", "partial", "unconfirmed"}
Final    == Statuses \ {"pending"}
InOperation == {"write", "check", "publish", "recheck", "remove"}
Works    == [pc : InOperation \cup {"new", "next", "done"}, at : Nat,
             before : Content, after : Content, some : BOOLEAN,
             halted : BOOLEAN, aborted : BOOLEAN, threw : BOOLEAN, robbed : BOOLEAN]

PatchTypeOK ==
  /\ file \in [Paths -> Content]
  /\ temp \subseteq Patches
  /\ work \in [Patches -> Works]
  /\ DOMAIN row = Patches
  /\ \A p \in Patches : row[p] \in [DOMAIN Script[p] -> Statuses]
  /\ changed \in [Patches -> SUBSET Paths]
  /\ unwritten \subseteq Foreign /\ removals \in Nat
  /\ DOMAIN wrote = Patches
  /\ \A p \in Patches : wrote[p] \in [DOMAIN Script[p] -> SUBSET Paths]
  /\ late \in [Patches -> SUBSET AllEdits] /\ missed \subseteq AllEdits

(* What a row that has its final status says of what its operation wrote.    *)
Truth(op, s, w) ==
  /\ s \in {"rejected", "not_applied"} => w = {}
  /\ s = "applied" => w = Whole(op)
  /\ s = "partial" => (IF op.to = Nowhere THEN op.path ELSE op.to) \in w

Within(p) == work[p].pc \in InOperation

(* What the operation at hand has written: the target of a move whose source *)
(* is still to be removed, or nothing.                                       *)
Half(p) == IF work[p].pc \in {"recheck", "remove"} /\ Moves(p) THEN {Op(p).to} ELSE {}

(* The operations before the one at hand are done and their rows true; those *)
(* after it have written nothing.                                            *)
RowsOK(p) ==
  /\ work[p].at <= Len(Script[p]) + 1 /\ work[p].at # 0
  /\ work[p].pc = "new" => work[p].at = 1
  /\ Within(p) => /\ work[p].at \in DOMAIN Script[p] /\ ~work[p].halted
                  /\ row[p][work[p].at] = "pending"
  /\ \A i \in DOMAIN Script[p] :
       /\ i < work[p].at => /\ row[p][i] \in Final
                            /\ Truth(Script[p][i], row[p][i], wrote[p][i])
       /\ i >= work[p].at => row[p][i] \in {"pending", "rejected"}
       /\ i = work[p].at => wrote[p][i] = Half(p)
       /\ i > work[p].at => wrote[p][i] = {}

(* A doubt stops the patch for good, and a call that threw had no effect.    *)
DoubtOK(p) ==
  /\ \A i \in DOMAIN Script[p] :
       row[p][i] = "unconfirmed" =>
          work[p].halted /\ \A j \in DOMAIN Script[p] : j > i => wrote[p][j] = {}
  /\ work[p].threw => /\ work[p].pc = "done"
                      /\ \A i \in DOMAIN Script[p] : wrote[p][i] = {}

ChangedOK(p) == \A f \in Paths :
                  f \in changed[p] <=> \E i \in DOMAIN Script[p] : f \in wrote[p][i]

ReportOK(p) == RowsOK(p) /\ DoubtOK(p) /\ ChangedOK(p)

(* A file that is about to be replaced or removed holds what it was compared *)
(* with and what came since.                                                 *)
Overwrites(p) == At(p, "remove") \/ (At(p, "publish") /\ ~Linked(p))
SeenOK(p) ==
  /\ Overwrites(p) => Edits(file[Op(p).path]) \subseteq work[p].before \cup late[p]
  /\ At(p, "write") => Op(p).kind # "delete"

PatchInv ==
  /\ PatchTypeOK /\ missed = {}
  /\ \A p \in Patches : ReportOK(p) /\ SeenOK(p)

--------------------------------------------------------------------------------
(* The steps of one patch leave the others alone, but for their files.       *)
Alone(p) ==
  \A q \in Patches \ {p} : /\ work'[q] = work[q] /\ row'[q] = row[q]
                           /\ wrote'[q] = wrote[q] /\ changed'[q] = changed[q]

(* Whatever appears in a file is late for those who look away.               *)
FilesOK(S) ==
  \A q \in S : late[q] \subseteq late'[q] /\ \A f \in Paths :
                  Edits(file'[f]) \subseteq Edits(file[f]) \cup late'[q]

Good(p) == /\ PatchTypeOK' /\ missed' = {}
           /\ ReportOK(p)' /\ SeenOK(p)' /\ Alone(p) /\ FilesOK(Patches \ {p})

LEMMA ScriptOK ==
  ASSUME NEW p \in Patches
  PROVE  /\ Len(Script[p]) \in Nat /\ DOMAIN Script[p] = 1..Len(Script[p])
         /\ \A i \in DOMAIN Script[p] :
              /\ Script[p][i] \in Operations
              /\ Script[p][i].kind # "update" => Script[p][i].to = Nowhere
  BY PatchAssumption

(* A report stands while its rows, its writes and its place do.              *)
LEMMA SameReport ==
  ASSUME NEW q \in Patches, ReportOK(q),
         work'[q].pc = work[q].pc, work'[q].at = work[q].at,
         work'[q].halted = work[q].halted, work'[q].threw = work[q].threw,
         row'[q] = row[q], wrote'[q] = wrote[q], changed'[q] = changed[q]
  PROVE  ReportOK(q)'
<1>1. Half(q)' = Half(q) /\ (Within(q)' <=> Within(q))
  BY DEF Half, Moves, Op, Within
<1>2. RowsOK(q)'
  BY <1>1 DEF ReportOK, RowsOK
<1>3. DoubtOK(q)'
  BY DEF ReportOK, DoubtOK
<1>4. ChangedOK(q)'
  BY DEF ReportOK, ChangedOK
<1> QED BY <1>2, <1>3, <1>4 DEF ReportOK

LEMMA OthersOK ==
  ASSUME PatchInv, NEW p \in Patches, Good(p)
  PROVE  PatchInv'
<1> SUFFICES ASSUME NEW q \in Patches, q # p PROVE ReportOK(q)' /\ SeenOK(q)'
  BY DEF PatchInv, Good
<1>1. /\ work'[q] = work[q] /\ row'[q] = row[q] /\ wrote'[q] = wrote[q]
      /\ changed'[q] = changed[q]
  BY DEF Good, Alone
<1>2. ReportOK(q)'
  <2>1. ReportOK(q)
    BY DEF PatchInv
  <2> QED BY <1>1, <2>1, SameReport
<1>3. SeenOK(q)'
  <2>1. SeenOK(q) /\ ReportOK(q) /\ PatchTypeOK
    BY DEF PatchInv
  <2>2. ASSUME Overwrites(q)
        PROVE  Edits(file'[Op(q).path]) \subseteq work[q].before \cup late'[q]
    <3>1. Op(q).path \in Paths
      BY <2>1, <2>2, ScriptOK
         DEF Overwrites, At, ReportOK, RowsOK, Within, InOperation, Op, Operations
    <3>2. /\ late[q] \subseteq late'[q]
          /\ Edits(file'[Op(q).path]) \subseteq Edits(file[Op(q).path]) \cup late'[q]
      BY <3>1 DEF Good, FilesOK
    <3> QED BY <2>1, <2>2, <3>2 DEF SeenOK
  <2> QED BY <1>1, <2>1, <2>2 DEF SeenOK, Overwrites, At, Linked, Moves, Op
<1> QED BY <1>2, <1>3

(* A step that changes no file.                                              *)
LEMMA SameFiles ==
  ASSUME NEW S, UNCHANGED file, \A q \in S : late'[q] = late[q]
  PROVE  FilesOK(S)
  BY DEF FilesOK, Edits

--------------------------------------------------------------------------------
(* The ways in which the operation at hand goes on.                          *)
LEMMA Closes ==
  ASSUME NEW p \in Patches, ReportOK(p), PatchTypeOK, PatchTypeOK', NEW s \in Final,
         work[p].at \in DOMAIN Script[p], ~work'[p].threw,
         work'[p].pc = "next", work'[p].at = work[p].at + 1,
         work[p].halted \/ s = "unconfirmed" => work'[p].halted,
         \A i \in DOMAIN Script[p] \ {work[p].at} :
            row'[p][i] = row[p][i] /\ wrote'[p][i] = wrote[p][i],
         row'[p][work[p].at] = s,
         Truth(Script[p][work[p].at], s, wrote'[p][work[p].at]),
         work[p].halted => wrote'[p][work[p].at] = {},
         changed'[p] = changed[p] \cup wrote'[p][work[p].at],
         wrote[p][work[p].at] \subseteq wrote'[p][work[p].at]
  PROVE  ReportOK(p)'
<1> DEFINE n == work[p].at
<1>0. n \in Nat /\ Len(Script[p]) \in Nat /\ DOMAIN Script[p] = 1..Len(Script[p])
  BY ScriptOK DEF PatchTypeOK, Works
<1>1. RowsOK(p)'
  <2>1. ~Within(p)' /\ Half(p)' = {}
    BY DEF Within, InOperation, Half
  <2>2. ASSUME NEW i \in DOMAIN Script[p], i < n + 1
        PROVE  row'[p][i] \in Final /\ Truth(Script[p][i], row'[p][i], wrote'[p][i])
    BY <1>0, <2>2 DEF ReportOK, RowsOK
  <2>3. ASSUME NEW i \in DOMAIN Script[p], i >= n + 1
        PROVE  row'[p][i] \in {"pending", "rejected"} /\ wrote'[p][i] = {}
    BY <1>0, <2>3 DEF ReportOK, RowsOK
  <2> QED BY <1>0, <2>1, <2>2, <2>3 DEF RowsOK
<1>2. DoubtOK(p)'
  <2> SUFFICES ASSUME NEW i \in DOMAIN Script[p], row'[p][i] = "unconfirmed"
               PROVE  /\ work'[p].halted
                      /\ \A j \in DOMAIN Script[p] : j > i => wrote'[p][j] = {}
    BY DEF DoubtOK
  <2>1. CASE i = n
    BY <1>0, <2>1 DEF ReportOK, RowsOK
  <2>2. CASE i # n
    <3>1. row[p][i] = "unconfirmed"
      BY <2>2
    <3>2. work[p].halted /\ \A j \in DOMAIN Script[p] : j > i => wrote[p][j] = {}
      BY <3>1 DEF ReportOK, DoubtOK
    <3> QED BY <3>2
  <2> QED BY <2>1, <2>2
<1>3. ChangedOK(p)'
  <2> SUFFICES ASSUME NEW f \in Paths
               PROVE  f \in changed'[p] <=> \E i \in DOMAIN Script[p] : f \in wrote'[p][i]
    BY DEF ChangedOK
  <2>1. f \in changed[p] <=> \E i \in DOMAIN Script[p] : f \in wrote[p][i]
    BY DEF ReportOK, ChangedOK
  <2> QED BY <2>1
<1> QED BY <1>1, <1>2, <1>3 DEF ReportOK

LEMMA Continues ==
  ASSUME NEW p \in Patches, ReportOK(p), work[p].at \in DOMAIN Script[p],
         ~work[p].halted, row[p][work[p].at] = "pending", ~work[p].threw,
         work'[p].at = work[p].at, work'[p].halted = work[p].halted,
         work'[p].threw = work[p].threw, work'[p].pc \in InOperation,
         Half(p)' = Half(p),
         row'[p] = row[p], wrote'[p] = wrote[p], changed'[p] = changed[p]
  PROVE  ReportOK(p)'
<1>1. RowsOK(p)'
  BY DEF ReportOK, RowsOK, InOperation
<1> QED BY <1>1 DEF ReportOK, DoubtOK, ChangedOK

LEMMA Throws ==
  ASSUME NEW p \in Patches, ReportOK(p), PatchTypeOK, Untouched(p), Half(p) = {},
         work'[p].at = work[p].at, work'[p].halted = work[p].halted,
         work'[p].pc = "done",
         row'[p] = row[p], wrote'[p] = wrote[p], changed'[p] = changed[p]
  PROVE  ReportOK(p)'
<1>0. /\ work[p].at \in Nat /\ DOMAIN Script[p] = 1..Len(Script[p]) /\ Len(Script[p]) \in Nat
      /\ DOMAIN row[p] = DOMAIN Script[p]
  BY ScriptOK DEF PatchTypeOK, Works
<1>1. \A i \in DOMAIN Script[p] : wrote[p][i] = {}
  <2> SUFFICES ASSUME NEW i \in DOMAIN Script[p] PROVE wrote[p][i] = {}
    OBVIOUS
  <2>1. CASE i < work[p].at
    BY <1>0, <2>1 DEF ReportOK, RowsOK, Final, Statuses, Truth, Untouched
  <2>2. CASE i >= work[p].at
    BY <1>0, <2>2 DEF ReportOK, RowsOK
  <2> QED BY <1>0, <2>1, <2>2
<1>2. RowsOK(p)'
  BY <1>1 DEF ReportOK, RowsOK, Within, InOperation, Half
<1>3. DoubtOK(p)'
  BY <1>1 DEF ReportOK, DoubtOK
<1> QED BY <1>2, <1>3 DEF ReportOK, ChangedOK

--------------------------------------------------------------------------------
LEMMA WithinOK ==
  ASSUME PatchInv, NEW p \in Patches, Within(p)
  PROVE  /\ PatchTypeOK /\ ReportOK(p) /\ SeenOK(p) /\ missed = {}
         /\ work[p].at \in DOMAIN Script[p] /\ work[p].at \in Nat
         /\ ~work[p].halted /\ ~work[p].threw
         /\ row[p][work[p].at] = "pending"
         /\ wrote[p][work[p].at] = Half(p)
         /\ Op(p) = Script[p][work[p].at] /\ Op(p) \in Operations
         /\ work[p] \in Works
<1>1. PatchTypeOK /\ ReportOK(p) /\ SeenOK(p) /\ missed = {}
  BY DEF PatchInv
<1>2. work[p] \in Works /\ work[p].at \in Nat
  BY <1>1 DEF PatchTypeOK, Works
<1>3. work[p].at \in DOMAIN Script[p] /\ ~work[p].halted /\ row[p][work[p].at] = "pending"
      /\ wrote[p][work[p].at] = Half(p)
  BY <1>1 DEF ReportOK, RowsOK
<1>4. ~work[p].threw
  BY <1>1, <1>2 DEF ReportOK, DoubtOK, Within, InOperation, Works
<1>5. Op(p) = Script[p][work[p].at] /\ Op(p) \in Operations
  BY <1>3, ScriptOK DEF Op
<1> QED BY <1>1, <1>2, <1>3, <1>4, <1>5

(* What a work record becomes when its operation ends.                       *)
LEMMA NextWork ==
  ASSUME NEW v \in Works, NEW n \in Nat, ~v.threw
  PROVE  /\ [v EXCEPT !.pc = "next", !.at = n] \in Works
         /\ [v EXCEPT !.pc = "next", !.at = n].pc = "next"
         /\ [v EXCEPT !.pc = "next", !.at = n].at = n
         /\ ~[v EXCEPT !.pc = "next", !.at = n].threw
         /\ [v EXCEPT !.pc = "next", !.at = n].halted = v.halted
  BY DEF Works

LEMMA HaltedWork ==
  ASSUME NEW v \in Works, NEW n \in Nat, ~v.threw
  PROVE  /\ [v EXCEPT !.pc = "next", !.at = n, !.halted = TRUE] \in Works
         /\ [v EXCEPT !.pc = "next", !.at = n, !.halted = TRUE].pc = "next"
         /\ [v EXCEPT !.pc = "next", !.at = n, !.halted = TRUE].at = n
         /\ ~[v EXCEPT !.pc = "next", !.at = n, !.halted = TRUE].threw
         /\ [v EXCEPT !.pc = "next", !.at = n, !.halted = TRUE].halted
  BY DEF Works

(* A row is written and the patch moves to its next operation.               *)
LEMMA RowTypes ==
  ASSUME PatchTypeOK, NEW p \in Patches, work[p].at \in DOMAIN Script[p],
         NEW s \in Statuses, NEW w \in Works,
         work' = [work EXCEPT ![p] = w], Rows(p, s)
  PROVE  /\ work' \in [Patches -> Works] /\ work'[p] = w
         /\ DOMAIN row' = Patches
         /\ \A q \in Patches : row'[q] \in [DOMAIN Script[q] -> Statuses]
         /\ row'[p][work[p].at] = s
         /\ \A i \in DOMAIN Script[p] \ {work[p].at} : row'[p][i] = row[p][i]
         /\ \A q \in Patches \ {p} : work'[q] = work[q] /\ row'[q] = row[q]
  BY DEF PatchTypeOK, Rows

(* The operation ends and writes nothing more than it has.                   *)
LEMMA EndsOK ==
  ASSUME PatchInv, NEW p \in Patches, NEW s \in Final, NEW w \in Works,
         work[p].at \in DOMAIN Script[p], ~work[p].halted,
         Truth(Script[p][work[p].at], s, wrote[p][work[p].at]), Rows(p, s),
         work' = [work EXCEPT ![p] = w], w.pc = "next", w.at = work[p].at + 1, ~w.threw,
         s = "unconfirmed" => w.halted, temp' \subseteq Patches,
         UNCHANGED <<file, changed, unwritten, removals, wrote, late, missed>>
  PROVE  Good(p)
<1>0. PatchTypeOK /\ ReportOK(p) /\ missed = {} /\ s \in Statuses
  BY DEF PatchInv, Final
<1>1. /\ work' \in [Patches -> Works] /\ work'[p] = w
      /\ DOMAIN row' = Patches
      /\ \A q \in Patches : row'[q] \in [DOMAIN Script[q] -> Statuses]
      /\ row'[p][work[p].at] = s
      /\ \A i \in DOMAIN Script[p] \ {work[p].at} : row'[p][i] = row[p][i]
      /\ \A q \in Patches \ {p} : work'[q] = work[q] /\ row'[q] = row[q]
  BY <1>0, RowTypes
<1>2. PatchTypeOK'
  BY <1>0, <1>1 DEF PatchTypeOK
<1>3. ReportOK(p)'
  <2>1. wrote[p][work[p].at] \subseteq changed[p]
    BY <1>0 DEF PatchTypeOK, ReportOK, ChangedOK
  <2> QED BY <1>0, <1>1, <1>2, <2>1, Closes
<1>4. SeenOK(p)'
  BY <1>1 DEF SeenOK, Overwrites, At
<1>5. FilesOK(Patches \ {p})
  BY SameFiles
<1> QED BY <1>0, <1>1, <1>2, <1>3, <1>4, <1>5 DEF Good, Alone

(* Nothing is written: the operation is refused, left undone or in doubt, or *)
(* the call throws.                                                          *)
LEMMA FailsOK ==
  ASSUME PatchInv, NEW p \in Patches, work[p].at \in DOMAIN Script[p],
         ~work[p].halted, ~work[p].threw, row[p][work[p].at] = "pending", Half(p) = {},
         Fails(p) \/ Doubted(p), temp' \subseteq Patches,
         UNCHANGED <<file, changed, unwritten, removals, wrote, late, missed>>
  PROVE  Good(p)
<1>0. PatchTypeOK /\ ReportOK(p) /\ missed = {} /\ work[p] \in Works /\ work[p].at \in Nat
      /\ wrote[p][work[p].at] = {}
  BY DEF PatchInv, PatchTypeOK, Works, ReportOK, RowsOK
<1> USE <1>0
<1>1. FilesOK(Patches \ {p})
  BY SameFiles
<1>2. CASE /\ work' = [work EXCEPT ![p].pc = "done", ![p].threw = TRUE]
           /\ UNCHANGED row /\ Untouched(p)
  <2> DEFINE w == [work[p] EXCEPT !.pc = "done", !.threw = TRUE]
  <2>1. w \in Works /\ w.at = work[p].at /\ w.halted = work[p].halted /\ w.pc = "done"
    BY DEF Works
  <2>2. work' = [work EXCEPT ![p] = w]
    BY <1>2 DEF PatchTypeOK
  <2>3. work' \in [Patches -> Works] /\ work'[p] = w /\ \A q \in Patches \ {p} : work'[q] = work[q]
    BY <2>1, <2>2 DEF PatchTypeOK
  <2>4. PatchTypeOK'
    BY <1>2, <2>3 DEF PatchTypeOK
  <2>5. ReportOK(p)'
    BY <1>2, <2>1, <2>3, Throws
  <2>6. SeenOK(p)'
    BY <2>1, <2>3 DEF SeenOK, Overwrites, At
  <2>7. Alone(p)
    BY <1>2, <2>3 DEF Alone
  <2> QED BY <1>1, <2>4, <2>5, <2>6, <2>7 DEF Good
<1>3. ASSUME NEW s \in {"not_applied", "unconfirmed"}, Rows(p, s), Halting(p)
      PROVE  Good(p)
  <2> DEFINE w == [work[p] EXCEPT !.pc = "next", !.at = @ + 1, !.halted = TRUE]
  <2>1. w \in Works /\ w.at = work[p].at + 1 /\ w.halted /\ w.pc = "next" /\ ~w.threw
    BY <1>0, work[p].at + 1 \in Nat, HaltedWork
  <2>2. s \in Final /\ Truth(Script[p][work[p].at], s, wrote[p][work[p].at])
    BY <1>3 DEF Truth, Final, Statuses
  <2>3. work' = [work EXCEPT ![p] = w]
    BY <1>3 DEF Halting, PatchTypeOK
  <2> QED BY <1>3, <2>1, <2>2, <2>3, EndsOK
<1>4. CASE Onward(p) /\ Rows(p, "rejected")
  <2> DEFINE w == [work[p] EXCEPT !.pc = "next", !.at = @ + 1]
  <2>1. w \in Works /\ w.at = work[p].at + 1 /\ w.pc = "next" /\ ~w.threw
    BY <1>0, work[p].at + 1 \in Nat, NextWork
  <2>2. "rejected" \in Final /\ Truth(Script[p][work[p].at], "rejected", wrote[p][work[p].at])
    BY DEF Truth, Final, Statuses
  <2>3. work' = [work EXCEPT ![p] = w]
    BY <1>4 DEF Onward, PatchTypeOK
  <2> QED BY <1>4, <2>1, <2>2, <2>3, EndsOK
<1> QED BY <1>2, <1>3, <1>4 DEF Fails, Doubted

(* The operation goes on to its next step and writes nothing.                *)
LEMMA ContinuesOK ==
  ASSUME PatchInv, NEW p \in Patches, NEW w \in Works, work' = [work EXCEPT ![p] = w],
         work[p].at \in DOMAIN Script[p], ~work[p].halted, ~work[p].threw,
         row[p][work[p].at] = "pending",
         w.at = work[p].at, ~w.halted, ~w.threw, w.pc \in InOperation, Half(p)' = Half(p),
         temp' \subseteq Patches, late' = late \/ late' = [late EXCEPT ![p] = {}], SeenOK(p)',
         UNCHANGED <<file, row, changed, unwritten, removals, wrote, missed>>
  PROVE  Good(p)
<1>0. PatchTypeOK /\ ReportOK(p) /\ missed = {}
  BY DEF PatchInv
<1>1. work' \in [Patches -> Works] /\ work'[p] = w /\ \A q \in Patches \ {p} : work'[q] = work[q]
  BY <1>0 DEF PatchTypeOK
<1>2. late' \in [Patches -> SUBSET AllEdits] /\ \A q \in Patches \ {p} : late'[q] = late[q]
  BY <1>0 DEF PatchTypeOK
<1>3. PatchTypeOK'
  BY <1>0, <1>1, <1>2 DEF PatchTypeOK
<1>4. ReportOK(p)'
  BY <1>0, <1>1, Continues DEF PatchTypeOK, Works
<1>5. FilesOK(Patches \ {p})
  BY <1>2, SameFiles
<1> QED BY <1>0, <1>1, <1>3, <1>4, <1>5 DEF Good, Alone

LEMMA StartOK ==
  ASSUME PatchInv, NEW p \in Patches, Start(p)
  PROVE  Good(p)
<1> USE DEF Start, GoesTo, Quiet, Untold
<1>0. PatchTypeOK /\ ReportOK(p) /\ missed = {} /\ work[p] \in Works /\ work[p].at = 1
      /\ work[p].pc = "new"
  BY DEF PatchInv, PatchTypeOK, ReportOK, RowsOK, At
<1>1. work' \in [Patches -> Works] /\ work'[p] = [work[p] EXCEPT !.pc = "next"]
      /\ \A q \in Patches \ {p} : work'[q] = work[q]
  BY <1>0 DEF PatchTypeOK, Works
<1>2. /\ DOMAIN row' = Patches
      /\ row'[p] = [i \in DOMAIN Script[p] |-> IF i \in Conflicts(p) THEN "rejected" ELSE row[p][i]]
      /\ \A q \in Patches \ {p} : row'[q] = row[q]
  BY <1>0 DEF PatchTypeOK
<1>3. row'[p] \in [DOMAIN Script[p] -> Statuses]
  BY <1>0, <1>2 DEF PatchTypeOK, Statuses
<1>4. PatchTypeOK'
  BY <1>0, <1>1, <1>2, <1>3 DEF PatchTypeOK
<1>5. ReportOK(p)'
  <2>0. Len(Script[p]) \in Nat /\ DOMAIN Script[p] = 1..Len(Script[p])
    BY ScriptOK
  <2>1. work'[p].at = 1 /\ work'[p].pc = "next" /\ work'[p].threw = work[p].threw
    BY <1>0, <1>1 DEF Works
  <2>2. ~Within(p)' /\ Half(p)' = Half(p)
    BY <1>0, <2>1 DEF Within, InOperation, Half
  <2>3. ASSUME NEW i \in DOMAIN Script[p]
        PROVE  row[p][i] \in {"pending", "rejected"} /\ row'[p][i] \in {"pending", "rejected"}
    BY <1>0, <1>2, <2>0 DEF ReportOK, RowsOK
  <2>4. RowsOK(p)'
    BY <1>0, <2>0, <2>1, <2>2, <2>3 DEF ReportOK, RowsOK
  <2>5. DoubtOK(p)'
    BY <1>0, <2>1, <2>3 DEF ReportOK, DoubtOK
  <2> QED BY <1>0, <2>4, <2>5 DEF ReportOK, ChangedOK
<1>6. SeenOK(p)'
  BY <1>0, <1>1 DEF SeenOK, Overwrites, At, Works
<1>7. FilesOK(Patches \ {p})
  BY SameFiles
<1> QED BY <1>0, <1>1, <1>2, <1>4, <1>5, <1>6, <1>7 DEF Good, Alone

LEMMA FinishOK ==
  ASSUME PatchInv, NEW p \in Patches, Finish(p)
  PROVE  Good(p)
<1> USE DEF Finish, GoesTo, Quiet, Untold
<1>0. PatchTypeOK /\ ReportOK(p) /\ missed = {} /\ work[p] \in Works /\ work[p].pc = "next"
  BY DEF PatchInv, PatchTypeOK, At
<1>1. work' \in [Patches -> Works] /\ work'[p] = [work[p] EXCEPT !.pc = "done"]
      /\ \A q \in Patches \ {p} : work'[q] = work[q]
  BY <1>0 DEF PatchTypeOK, Works
<1>2. PatchTypeOK'
  BY <1>0, <1>1 DEF PatchTypeOK
<1>3. ReportOK(p)'
  <2>1. /\ work'[p].at = work[p].at /\ work'[p].pc = "done" /\ work'[p].threw = work[p].threw
        /\ work'[p].halted = work[p].halted
    BY <1>0, <1>1 DEF Works
  <2>2. ~Within(p)' /\ Half(p)' = Half(p)
    BY <1>0, <2>1 DEF Within, InOperation, Half
  <2>3. RowsOK(p)'
    BY <1>0, <2>1, <2>2 DEF ReportOK, RowsOK
  <2> QED BY <1>0, <2>1, <2>3 DEF ReportOK, DoubtOK, ChangedOK
<1>4. SeenOK(p)'
  BY <1>0, <1>1 DEF SeenOK, Overwrites, At, Works
<1>5. FilesOK(Patches \ {p})
  BY SameFiles
<1> QED BY <1>0, <1>1, <1>2, <1>3, <1>4, <1>5 DEF Good, Alone

(* Between two operations: what a patch that is there knows.                 *)
LEMMA BetweenOK ==
  ASSUME PatchInv, NEW p \in Patches, At(p, "next"), work[p].at <= Len(Script[p])
  PROVE  /\ PatchTypeOK /\ ReportOK(p) /\ missed = {} /\ work[p] \in Works
         /\ work[p].at \in DOMAIN Script[p] /\ work[p].at \in Nat
         /\ ~work[p].threw /\ Half(p) = {} /\ wrote[p][work[p].at] = {}
         /\ Op(p) = Script[p][work[p].at] /\ Op(p) \in Operations
<1>1. PatchTypeOK /\ ReportOK(p) /\ missed = {}
  BY DEF PatchInv
<1>2. work[p] \in Works /\ work[p].at \in Nat
  BY <1>1 DEF PatchTypeOK, Works
<1>3. work[p].at \in DOMAIN Script[p]
  BY <1>1, <1>2, ScriptOK DEF ReportOK, RowsOK
<1>4. ~work[p].threw
  BY <1>1, <1>2 DEF ReportOK, DoubtOK, At, Works
<1>5. Half(p) = {} /\ wrote[p][work[p].at] = {}
  <2>1. Half(p) = {}
    BY DEF Half, At
  <2> QED BY <1>1, <1>3, <2>1 DEF ReportOK, RowsOK
<1>6. Op(p) = Script[p][work[p].at] /\ Op(p) \in Operations
  BY <1>3, ScriptOK DEF Op
<1> QED BY <1>1, <1>2, <1>3, <1>4, <1>5, <1>6

LEMMA SkipOK ==
  ASSUME PatchInv, NEW p \in Patches, Skip(p)
  PROVE  Good(p)
<1> USE DEF Skip, Quiet, Untold
<1>0. /\ PatchTypeOK /\ ReportOK(p) /\ missed = {} /\ work[p] \in Works
      /\ work[p].at \in DOMAIN Script[p] /\ work[p].at \in Nat
      /\ ~work[p].threw /\ Half(p) = {} /\ wrote[p][work[p].at] = {}
  BY BetweenOK
<1> DEFINE n == work[p].at
<1>1. FilesOK(Patches \ {p})
  BY SameFiles
<1>2. ASSUME NEW s \in {"rejected", "not_applied"}, row'[p][n] = s, row'[p] \in [DOMAIN Script[p] -> Statuses],
             DOMAIN row' = Patches, \A q \in Patches \ {p} : row'[q] = row[q],
             \A i \in DOMAIN Script[p] \ {n} : row'[p][i] = row[p][i], Onward(p)
      PROVE  Good(p)
  <2>1. /\ work' \in [Patches -> Works] /\ \A q \in Patches \ {p} : work'[q] = work[q]
        /\ work'[p].pc = "next" /\ work'[p].at = n + 1 /\ ~work'[p].threw
        /\ work'[p].halted = work[p].halted
    BY <1>0, <1>2 DEF Onward, PatchTypeOK, Works
  <2>2. PatchTypeOK'
    BY <1>0, <1>2, <2>1 DEF PatchTypeOK
  <2>3. s \in Final /\ Truth(Script[p][n], s, wrote'[p][n])
    BY <1>0, <1>2 DEF Final, Statuses, Truth
  <2>4. ReportOK(p)'
    BY <1>0, <1>2, <2>1, <2>2, <2>3, Closes
  <2>5. SeenOK(p)'
    BY <2>1 DEF SeenOK, Overwrites, At
  <2> QED BY <1>0, <1>1, <1>2, <2>1, <2>2, <2>4, <2>5 DEF Good, Alone
<1>3. CASE row[p][n] = "rejected" /\ Onward(p) /\ UNCHANGED row
  BY <1>0, <1>2, <1>3 DEF PatchTypeOK
<1>4. CASE Onward(p) /\ Rows(p, "not_applied")
  BY <1>0, <1>2, <1>4 DEF PatchTypeOK, Rows, Statuses
<1>5. CASE row[p][n] = "pending" /\ ~work[p].halted /\ Fails(p)
  <2>1. temp' \subseteq Patches
    BY <1>0 DEF PatchTypeOK
  <2> QED BY <1>0, <1>5, <2>1, FailsOK
<1> QED BY <1>3, <1>4, <1>5

LEMMA PrepareOK ==
  ASSUME PatchInv, NEW p \in Patches, Prepare(p)
  PROVE  Good(p)
<1>0. /\ PatchTypeOK /\ ReportOK(p) /\ missed = {} /\ work[p] \in Works
      /\ work[p].at \in DOMAIN Script[p] /\ work[p].at \in Nat
      /\ ~work[p].threw /\ Half(p) = {} /\ wrote[p][work[p].at] = {}
      /\ Op(p) = Script[p][work[p].at] /\ Op(p) \in Operations
      /\ temp' \subseteq Patches /\ ~work[p].halted /\ row[p][work[p].at] = "pending"
      /\ UNCHANGED <<file, temp, changed, unwritten, removals, wrote, late, missed>>
  BY BetweenOK DEF PatchTypeOK, Prepare, Quiet, Untold
<1>1. CASE Fails(p)
  BY <1>0, <1>1, FailsOK
<1>2. ASSUME NEW pc \in {"write", "recheck"}, NEW b \in Content, NEW c \in Content,
             NEW some \in BOOLEAN, UNCHANGED row,
             pc = "write" => Op(p).kind # "delete", pc = "recheck" => ~Moves(p),
             work' = [work EXCEPT ![p] = [work[p] EXCEPT !.pc = pc, !.before = b, !.after = c,
                                                         !.some = some]]
      PROVE  Good(p)
  <2> DEFINE w == [work[p] EXCEPT !.pc = pc, !.before = b, !.after = c, !.some = some]
  <2>1. /\ w \in Works /\ w.pc = pc /\ w.at = work[p].at /\ w.halted = work[p].halted
        /\ w.threw = work[p].threw /\ w.pc \in InOperation
    BY <1>0, <1>2 DEF Works, InOperation
  <2>2. work'[p] = w
    BY <1>0, <1>2 DEF PatchTypeOK
  <2>3. Half(p)' = Half(p)
    BY <1>0, <1>2, <2>1, <2>2 DEF Half, Moves, Op
  <2>4. SeenOK(p)'
    BY <1>2, <2>1, <2>2 DEF SeenOK, Overwrites, At, Op
  <2> QED BY <1>0, <1>2, <2>1, <2>3, <2>4, ContinuesOK
<1>3. /\ Op(p).path \in Paths /\ file[Op(p).path] \in Content /\ {} \in Content
      /\ Missing \in Content /\ {Op(p).edit} \in Content
      /\ file[Op(p).path] # Missing => file[Op(p).path] \cup {Op(p).edit} \in Content
  BY <1>0 DEF PatchTypeOK, Content, Operations
<1>4. CASE /\ Op(p).kind = "add" /\ UNCHANGED row
           /\ work' = [work EXCEPT ![p].pc = "write", ![p].before = {}, ![p].after = {Op(p).edit},
                                   ![p].some = FALSE]
  <2>1. work' = [work EXCEPT ![p] = [work[p] EXCEPT !.pc = "write", !.before = {},
                                       !.after = {Op(p).edit}, !.some = FALSE]]
    BY <1>0, <1>4 DEF PatchTypeOK
  <2> QED BY <1>2, <1>3, <1>4, <2>1
<1>5. CASE /\ Op(p).kind = "delete" /\ UNCHANGED row
           /\ work' = [work EXCEPT ![p].pc = "recheck", ![p].before = file[Op(p).path],
                                   ![p].after = Missing, ![p].some = FALSE]
  <2>1. work' = [work EXCEPT ![p] = [work[p] EXCEPT !.pc = "recheck", !.before = file[Op(p).path],
                                       !.after = Missing, !.some = FALSE]]
    BY <1>0, <1>5 DEF PatchTypeOK
  <2>2. ~Moves(p)
    BY <1>0, <1>5, ScriptOK DEF Moves
  <2> QED BY <1>2, <1>3, <1>5, <2>1, <2>2
<1>6. ASSUME Op(p).kind = "update", UNCHANGED row, file[Op(p).path] # Missing,
             NEW some \in BOOLEAN,
             work' = [work EXCEPT ![p].pc = "write", ![p].before = file[Op(p).path],
                                  ![p].after = file[Op(p).path] \cup {Op(p).edit}, ![p].some = some]
      PROVE  Good(p)
  <2>1. work' = [work EXCEPT ![p] = [work[p] EXCEPT !.pc = "write", !.before = file[Op(p).path],
                                       !.after = file[Op(p).path] \cup {Op(p).edit}, !.some = some]]
    BY <1>0, <1>6 DEF PatchTypeOK
  <2>2. file[Op(p).path] \in Content /\ file[Op(p).path] \cup {Op(p).edit} \in Content
    BY <1>3, <1>6
  <2>3. CASE some = TRUE
    BY <1>2, <1>6, <2>1, <2>2, <2>3
  <2>4. CASE some = FALSE
    BY <1>2, <1>6, <2>1, <2>2, <2>4
  <2> QED BY <2>3, <2>4
<1> QED BY <1>1, <1>4, <1>5, <1>6 DEF Prepare

(* An operation goes from one step to the next.                              *)
LEMMA GoesOK ==
  ASSUME PatchInv, NEW p \in Patches, Within(p), NEW pc \in InOperation, GoesTo(p, pc),
         pc \in {"recheck", "remove"} /\ Moves(p) <=> work[p].pc \in {"recheck", "remove"} /\ Moves(p),
         pc # "write",
         late' = late \/ late' = [late EXCEPT ![p] = {}],
         pc = "remove" \/ (pc = "publish" /\ ~Linked(p)) =>
            Edits(file[Op(p).path]) \subseteq work[p].before \cup late'[p],
         temp' \subseteq Patches, UNCHANGED <<file, row, changed, unwritten, removals, wrote, missed>>
  PROVE  Good(p)
<1> DEFINE w == [work[p] EXCEPT !.pc = pc]
<1>1. /\ work[p] \in Works /\ work[p].at \in DOMAIN Script[p] /\ ~work[p].halted /\ ~work[p].threw
      /\ row[p][work[p].at] = "pending"
  BY WithinOK
<1>2. /\ w \in Works /\ w.pc = pc /\ w.at = work[p].at /\ w.before = work[p].before
      /\ ~w.halted /\ ~w.threw
  BY <1>1 DEF Works
<1>3. work' = [work EXCEPT ![p] = w] /\ work'[p] = w
  BY DEF GoesTo, PatchInv, PatchTypeOK
<1>4. Half(p)' = Half(p)
  BY <1>2, <1>3 DEF Half, Moves, Op
<1>5. SeenOK(p)'
  BY <1>2, <1>3 DEF SeenOK, Overwrites, At, Linked, Moves, Op
<1> QED BY <1>1, <1>2, <1>3, <1>4, <1>5, ContinuesOK

(* An operation that had published nothing fails.                            *)
LEMMA GivesUpOK ==
  ASSUME PatchInv, NEW p \in Patches, Within(p),
         work[p].pc \in {"recheck", "remove"} => ~Moves(p),
         Fails(p) \/ Doubted(p), temp' \subseteq Patches,
         UNCHANGED <<file, changed, unwritten, removals, wrote, late, missed>>
  PROVE  Good(p)
<1>1. Half(p) = {}
  BY DEF Half
<1> QED BY <1>1, WithinOK, FailsOK

LEMMA WriteOK ==
  ASSUME PatchInv, NEW p \in Patches, Write(p)
  PROVE  Good(p)
<1> USE DEF Write, Quiet, Untold
<1>0. Within(p) /\ work[p].pc = "write" /\ temp' \subseteq Patches /\ Op(p).kind # "delete"
      /\ Op(p) \in Operations
  BY WithinOK DEF At, Within, InOperation, PatchInv, PatchTypeOK, SeenOK
<1>1. CASE Fails(p) /\ temp' = temp \ {p}
  BY <1>0, <1>1, GivesUpOK
<1>2. CASE GoesTo(p, "check") /\ UNCHANGED row
  BY <1>0, <1>2, GoesOK DEF InOperation
<1>3. CASE GoesTo(p, "publish") /\ Op(p).kind # "update" /\ UNCHANGED row
  <2>1. Linked(p)
    BY <1>0, <1>3 DEF Linked, Operations
  <2> QED BY <1>0, <1>3, <2>1, GoesOK DEF InOperation
<1> QED BY <1>1, <1>2, <1>3

LEMMA CheckOK ==
  ASSUME PatchInv, NEW p \in Patches, Check(p)
  PROVE  Good(p)
<1> USE DEF Check, Quiet, Untold
<1>0. Within(p) /\ work[p].pc = "check" /\ temp' \subseteq Patches
  BY DEF At, Within, InOperation, PatchInv, PatchTypeOK
<1>1. CASE Fails(p) /\ temp' = temp \ {p} /\ Untold
  BY <1>0, <1>1, GivesUpOK
<1>2. CASE /\ Compared(p) /\ GoesTo(p, "publish") /\ late' = [late EXCEPT ![p] = {}]
           /\ UNCHANGED <<row, temp, wrote, missed>>
  <2>1. Edits(file[Op(p).path]) \subseteq work[p].before
    BY <1>2 DEF Compared, Edits
  <2> QED BY <1>0, <1>2, <2>1, GoesOK DEF InOperation
<1> QED BY <1>1, <1>2

LEMMA PublishFailsOK ==
  ASSUME PatchInv, NEW p \in Patches, PublishFails(p)
  PROVE  Good(p)
<1>0. Within(p) /\ work[p].pc = "publish" /\ temp \subseteq Patches
  BY DEF PublishFails, At, Within, InOperation, PatchInv, PatchTypeOK
<1> QED BY <1>0, GivesUpOK DEF PublishFails, Quiet, Untold

--------------------------------------------------------------------------------
(* A write to a file that the patch has compared, or that was not there.     *)
LEMMA PutsOK ==
  ASSUME PatchTypeOK, missed = {}, NEW p \in Patches, NEW f \in Paths, NEW c \in Content,
         work[p].at \in DOMAIN Script[p], Puts(p, f, c),
         Edits(file[f]) \subseteq work[p].before \cup late[p]
  PROVE  /\ file' \in [Paths -> Content]
         /\ late' \in [Patches -> SUBSET AllEdits] /\ missed' = {}
         /\ DOMAIN wrote' = Patches
         /\ \A q \in Patches : wrote'[q] \in [DOMAIN Script[q] -> SUBSET Paths]
         /\ \A q \in Patches \ {p} : wrote'[q] = wrote[q]
         /\ \A i \in DOMAIN Script[p] \ {work[p].at} : wrote'[p][i] = wrote[p][i]
         /\ wrote'[p][work[p].at] = wrote[p][work[p].at] \cup {f}
         /\ FilesOK(Patches \ {p})
<1> USE DEF Puts
<1>1. file' \in [Paths -> Content] /\ file'[f] = c /\ \A g \in Paths \ {f} : file'[g] = file[g]
  BY DEF PatchTypeOK
<1>2. Edits(c) \subseteq AllEdits
  BY DEF Edits, Content
<1>3. late' \in [Patches -> SUBSET AllEdits]
  BY <1>2 DEF PatchTypeOK
<1>4. missed' = {}
  OBVIOUS
<1>5. /\ DOMAIN wrote' = Patches
      /\ \A q \in Patches : wrote'[q] \in [DOMAIN Script[q] -> SUBSET Paths]
      /\ \A q \in Patches \ {p} : wrote'[q] = wrote[q]
      /\ \A i \in DOMAIN Script[p] \ {work[p].at} : wrote'[p][i] = wrote[p][i]
      /\ wrote'[p][work[p].at] = wrote[p][work[p].at] \cup {f}
  BY DEF PatchTypeOK
<1>6. FilesOK(Patches \ {p})
  <2> SUFFICES ASSUME NEW q \in Patches \ {p}
               PROVE  /\ late[q] \subseteq late'[q]
                      /\ \A g \in Paths : Edits(file'[g]) \subseteq Edits(file[g]) \cup late'[q]
    BY DEF FilesOK
  <2>1. late'[q] = late[q] \cup (Edits(c) \ Edits(file[f]))
    OBVIOUS
  <2>2. ASSUME NEW g \in Paths
        PROVE  Edits(file'[g]) \subseteq Edits(file[g]) \cup late'[q]
    <3>1. CASE g = f
      BY <1>1, <2>1, <3>1
    <3>2. CASE g # f
      BY <1>1, <3>2 DEF Edits
    <3> QED BY <3>1, <3>2
  <2> QED BY <2>1, <2>2
<1> QED BY <1>1, <1>3, <1>4, <1>5, <1>6

(* The operation at hand ends with a row that is true of what it wrote.      *)
LEMMA LandsOK ==
  ASSUME PatchInv, NEW p \in Patches, Within(p), NEW f \in Paths, NEW c \in Content,
         Puts(p, f, c), Edits(file[f]) \subseteq work[p].before \cup late[p],
         NEW s \in {"applied", "partial"}, Onward(p), Rows(p, s),
         Half(p) \cup {f} = Whole(Op(p)),
         temp' \subseteq Patches, changed' = [changed EXCEPT ![p] = @ \cup {f}],
         UNCHANGED <<unwritten, removals>>
  PROVE  Good(p)
<1> DEFINE n == work[p].at
<1> DEFINE w == [work[p] EXCEPT !.pc = "next", !.at = n + 1]
<1>0. /\ PatchTypeOK /\ ReportOK(p) /\ missed = {}
      /\ n \in DOMAIN Script[p] /\ n \in Nat /\ ~work[p].halted /\ ~work[p].threw
      /\ wrote[p][n] = Half(p) /\ Op(p) = Script[p][n] /\ work[p] \in Works
  BY WithinOK
<1>1. /\ file' \in [Paths -> Content]
      /\ late' \in [Patches -> SUBSET AllEdits] /\ missed' = {}
      /\ DOMAIN wrote' = Patches
      /\ \A q \in Patches : wrote'[q] \in [DOMAIN Script[q] -> SUBSET Paths]
      /\ \A q \in Patches \ {p} : wrote'[q] = wrote[q]
      /\ \A i \in DOMAIN Script[p] \ {n} : wrote'[p][i] = wrote[p][i]
      /\ wrote'[p][n] = wrote[p][n] \cup {f}
      /\ FilesOK(Patches \ {p})
  <2>1. PatchTypeOK /\ missed = {} /\ work[p].at \in DOMAIN Script[p]
    BY <1>0
  <2> HIDE DEF n
  <2> QED BY <2>1, PutsOK DEF n
<1>2. work' = [work EXCEPT ![p] = w]
  BY <1>0 DEF Onward, PatchTypeOK
<1>3. /\ w \in Works /\ w.pc = "next" /\ w.at = n + 1 /\ ~w.threw
      /\ s \in Statuses /\ s \in Final
  BY <1>0, work[p].at + 1 \in Nat, NextWork DEF Statuses, Final
<1>4. /\ work' \in [Patches -> Works] /\ work'[p] = w
      /\ DOMAIN row' = Patches
      /\ \A q \in Patches : row'[q] \in [DOMAIN Script[q] -> Statuses]
      /\ row'[p][n] = s
      /\ \A i \in DOMAIN Script[p] \ {n} : row'[p][i] = row[p][i]
      /\ \A q \in Patches \ {p} : work'[q] = work[q] /\ row'[q] = row[q]
  BY <1>0, <1>2, <1>3, RowTypes
<1>5. /\ changed' \in [Patches -> SUBSET Paths] /\ changed'[p] = changed[p] \cup {f}
      /\ \A q \in Patches \ {p} : changed'[q] = changed[q]
  BY <1>0 DEF PatchTypeOK
<1>6. PatchTypeOK'
  BY <1>0, <1>1, <1>4, <1>5 DEF PatchTypeOK
<1>7. ReportOK(p)'
  <2>1. wrote'[p][n] = Whole(Script[p][n])
    BY <1>0, <1>1
  <2>2. Truth(Script[p][n], s, wrote'[p][n])
    BY <2>1 DEF Truth, Whole
  <2>3. changed'[p] = changed[p] \cup wrote'[p][n]
    BY <1>0, <1>1, <1>5 DEF ReportOK, ChangedOK
  <2>4. wrote[p][n] \subseteq wrote'[p][n]
    BY <1>1
  <2> QED BY <1>0, <1>1, <1>3, <1>4, <1>6, <2>2, <2>3, <2>4, Closes
<1>8. SeenOK(p)'
  BY <1>3, <1>4 DEF SeenOK, Overwrites, At
<1> QED BY <1>1, <1>4, <1>5, <1>6, <1>7, <1>8 DEF Good, Alone

LEMMA PublishOK ==
  ASSUME PatchInv, NEW p \in Patches, Publish(p)
  PROVE  Good(p)
<1> USE DEF Publish, Quiet
<1> DEFINE n == work[p].at
<1> DEFINE c == work[p].after
<1>0. /\ Within(p) /\ work[p].pc = "publish" /\ PatchTypeOK /\ SeenOK(p) /\ missed = {}
      /\ temp' \subseteq Patches
  BY DEF At, Within, InOperation, PatchInv, PatchTypeOK
<1>1. /\ n \in DOMAIN Script[p] /\ n \in Nat /\ ~work[p].halted /\ ~work[p].threw
      /\ ReportOK(p) /\ row[p][n] = "pending" /\ wrote[p][n] = Half(p)
      /\ Op(p) = Script[p][n] /\ Op(p) \in Operations /\ work[p] \in Works
  BY <1>0, WithinOK
<1>2. Target(p) \in Paths /\ c \in Content /\ Half(p) = {}
  BY <1>0, <1>1, PatchAssumption DEF Target, Moves, Operations, Works, Half
<1>3. Edits(file[Target(p)]) \subseteq work[p].before \cup late[p]
  <2>1. CASE Linked(p)
    BY <2>1 DEF Edits
  <2>2. CASE ~Linked(p)
    BY <1>0, <2>2 DEF SeenOK, Overwrites, At, Target, Linked, Moves
  <2> QED BY <2>1, <2>2
<1>4. CASE ~Moves(p)
  <2>1. Onward(p) /\ Rows(p, Landed(p)) /\ Landed(p) \in {"applied", "partial"}
    BY <1>4 DEF Landed
  <2>2. Half(p) \cup {Target(p)} = Whole(Op(p))
    BY <1>2, <1>4 DEF Target, Moves, Whole
  <2> QED BY <1>0, <1>2, <1>3, <2>1, <2>2, LandsOK
<1>5. CASE Moves(p)
  <2> DEFINE w == [work[p] EXCEPT !.pc = "recheck"]
  <2>0. GoesTo(p, "recheck") /\ UNCHANGED row
    BY <1>5
  <2>1. /\ file' \in [Paths -> Content]
        /\ late' \in [Patches -> SUBSET AllEdits] /\ missed' = {}
        /\ DOMAIN wrote' = Patches
        /\ \A q \in Patches : wrote'[q] \in [DOMAIN Script[q] -> SUBSET Paths]
        /\ \A q \in Patches \ {p} : wrote'[q] = wrote[q]
        /\ \A i \in DOMAIN Script[p] \ {n} : wrote'[p][i] = wrote[p][i]
        /\ wrote'[p][n] = wrote[p][n] \cup {Target(p)}
        /\ FilesOK(Patches \ {p})
    BY <1>0, <1>1, <1>2, <1>3, PutsOK
  <2>2. /\ w \in Works /\ w.pc = "recheck" /\ w.at = n /\ ~w.halted /\ ~w.threw
    BY <1>1 DEF Works, InOperation
  <2>3. /\ work' \in [Patches -> Works] /\ work'[p] = w
        /\ \A q \in Patches \ {p} : work'[q] = work[q]
    BY <1>0, <2>0, <2>2 DEF GoesTo, PatchTypeOK
  <2>4. /\ changed' \in [Patches -> SUBSET Paths] /\ changed'[p] = changed[p] \cup {Target(p)}
        /\ \A q \in Patches \ {p} : changed'[q] = changed[q]
    BY <1>0, <1>2 DEF PatchTypeOK
  <2>5. PatchTypeOK'
    BY <1>0, <2>0, <2>1, <2>3, <2>4 DEF PatchTypeOK
  <2>6. ReportOK(p)'
    <3>0. wrote'[p][n] = {Target(p)}
      BY <1>1, <1>2, <2>1
    <3>1. Half(p)' = {Target(p)}
      BY <1>5, <2>2, <2>3 DEF Half, Target, Moves, Op
    <3>2. RowsOK(p)'
      BY <1>1, <2>0, <2>1, <2>2, <2>3, <3>0, <3>1 DEF ReportOK, RowsOK
    <3>3. \A i \in DOMAIN Script[p] : row'[p][i] # "unconfirmed"
      BY <1>1, <2>0 DEF ReportOK, DoubtOK
    <3>4. DoubtOK(p)'
      BY <2>2, <2>3, <3>3 DEF DoubtOK
    <3>5. ASSUME NEW f \in Paths
          PROVE  f \in changed'[p] <=> \E i \in DOMAIN Script[p] : f \in wrote'[p][i]
      <4>1. f \in changed[p] <=> \E i \in DOMAIN Script[p] : f \in wrote[p][i]
        BY <1>1 DEF ReportOK, ChangedOK
      <4> QED BY <1>1, <1>2, <2>1, <2>4, <4>1
    <3> QED BY <3>2, <3>4, <3>5 DEF ReportOK, ChangedOK
  <2>7. SeenOK(p)'
    BY <2>2, <2>3 DEF SeenOK, Overwrites, At
  <2> QED BY <2>0, <2>1, <2>3, <2>4, <2>5, <2>6, <2>7 DEF Good, Alone
<1> QED BY <1>4, <1>5

LEMMA RobbedOK ==
  ASSUME PatchInv, NEW p \in Patches, Robbed(p)
  PROVE  Good(p)
<1> USE DEF Robbed, Quiet, Untold
<1> DEFINE w == [work[p] EXCEPT !.pc = "next", !.at = @ + 1, !.robbed = TRUE]
<1>0. Within(p) /\ work[p].pc = "publish" /\ PatchTypeOK /\ temp' \subseteq Patches
  BY DEF At, Within, InOperation, PatchInv, PatchTypeOK
<1>1. /\ work[p].at \in DOMAIN Script[p] /\ work[p].at \in Nat
      /\ ~work[p].halted /\ ~work[p].threw
      /\ wrote[p][work[p].at] = Half(p) /\ work[p] \in Works
  BY <1>0, WithinOK
<1>2. /\ w \in Works /\ w.pc = "next" /\ w.at = work[p].at + 1 /\ ~w.threw
      /\ work' = [work EXCEPT ![p] = w]
  BY <1>0, <1>1 DEF Works, PatchTypeOK
<1>3. "rejected" \in Final /\ Truth(Script[p][work[p].at], "rejected", wrote[p][work[p].at])
  BY <1>0, <1>1 DEF Final, Statuses, Truth, Half
<1> QED BY <1>0, <1>1, <1>2, <1>3, EndsOK

(* A move that is left half done says so.                                    *)
LEMMA HalfMovedOK ==
  ASSUME PatchInv, NEW p \in Patches, Within(p), Moves(p), work[p].pc \in {"recheck", "remove"},
         \/ Onward(p) /\ Rows(p, "partial")
         \/ Halting(p) /\ Rows(p, "unconfirmed"),
         UNCHANGED <<file, temp, changed, unwritten, removals, wrote, late, missed>>
  PROVE  Good(p)
<1>0. /\ PatchTypeOK /\ temp' \subseteq Patches
      /\ work[p].at \in DOMAIN Script[p] /\ work[p].at \in Nat
      /\ ~work[p].halted /\ ~work[p].threw
      /\ wrote[p][work[p].at] = Half(p) /\ work[p] \in Works /\ Op(p) = Script[p][work[p].at]
  BY WithinOK DEF PatchTypeOK
<1>1. wrote[p][work[p].at] = {Script[p][work[p].at].to} /\ Script[p][work[p].at].to # Nowhere
  BY <1>0 DEF Half, Moves
<1>2. CASE Onward(p) /\ Rows(p, "partial")
  <2> DEFINE w == [work[p] EXCEPT !.pc = "next", !.at = @ + 1]
  <2>1. /\ w \in Works /\ w.pc = "next" /\ w.at = work[p].at + 1 /\ ~w.threw
        /\ work' = [work EXCEPT ![p] = w]
    BY <1>0, <1>2 DEF Works, PatchTypeOK, Onward
  <2>2. "partial" \in Final /\ Truth(Script[p][work[p].at], "partial", wrote[p][work[p].at])
    BY <1>1 DEF Final, Statuses, Truth
  <2> QED BY <1>0, <1>2, <2>1, <2>2, EndsOK
<1>3. CASE Halting(p) /\ Rows(p, "unconfirmed")
  <2> DEFINE w == [work[p] EXCEPT !.pc = "next", !.at = @ + 1, !.halted = TRUE]
  <2>1. /\ w \in Works /\ w.pc = "next" /\ w.at = work[p].at + 1 /\ ~w.threw /\ w.halted
        /\ work' = [work EXCEPT ![p] = w]
    BY <1>0, <1>3 DEF Works, PatchTypeOK, Halting
  <2>2. "unconfirmed" \in Final
        /\ Truth(Script[p][work[p].at], "unconfirmed", wrote[p][work[p].at])
    BY DEF Final, Statuses, Truth
  <2> QED BY <1>0, <1>3, <2>1, <2>2, EndsOK
<1> QED BY <1>2, <1>3

LEMMA RecheckOK ==
  ASSUME PatchInv, NEW p \in Patches, Recheck(p)
  PROVE  Good(p)
<1> USE DEF Recheck, Quiet, Untold
<1>0. Within(p) /\ work[p].pc = "recheck" /\ temp' \subseteq Patches
  BY DEF At, Within, InOperation, PatchInv, PatchTypeOK
<1>1. CASE /\ Compared(p) /\ GoesTo(p, "remove") /\ late' = [late EXCEPT ![p] = {}]
           /\ UNCHANGED <<row, wrote, missed>>
  <2>1. Edits(file[Op(p).path]) \subseteq work[p].before
    BY <1>1 DEF Compared, Edits
  <2> QED BY <1>0, <1>1, <2>1, GoesOK DEF InOperation
<1>2. CASE Moves(p) /\ Onward(p) /\ Rows(p, "partial") /\ Untold
  BY <1>0, <1>2, HalfMovedOK
<1>3. CASE ~Moves(p) /\ Fails(p) /\ Untold
  BY <1>0, <1>3, GivesUpOK
<1> QED BY <1>1, <1>2, <1>3

LEMMA RemoveOK ==
  ASSUME PatchInv, NEW p \in Patches, Remove(p)
  PROVE  Good(p)
<1> USE DEF Remove, Quiet
<1>0. /\ Within(p) /\ work[p].pc = "remove" /\ PatchTypeOK /\ SeenOK(p)
      /\ temp' \subseteq Patches
  BY DEF At, Within, InOperation, PatchInv, PatchTypeOK
<1>1. Op(p).path \in Paths /\ Missing \in Content
  BY <1>0, WithinOK DEF Operations, Content
<1>2. Edits(file[Op(p).path]) \subseteq work[p].before \cup late[p]
  BY <1>0 DEF SeenOK, Overwrites, At
<1>3. Half(p) \cup {Op(p).path} = Whole(Op(p))
  BY <1>0 DEF Half, Whole, Moves
<1>4. \E s \in {"applied", "partial"} : Rows(p, s)
  BY DEF Landed
<1> QED BY <1>0, <1>1, <1>2, <1>3, <1>4, LandsOK

LEMMA RemoveFailsOK ==
  ASSUME PatchInv, NEW p \in Patches, RemoveFails(p)
  PROVE  Good(p)
<1> USE DEF RemoveFails, Quiet, Untold
<1>0. Within(p) /\ work[p].pc = "remove" /\ temp' \subseteq Patches
  BY DEF At, Within, InOperation, PatchInv, PatchTypeOK
<1>1. CASE Moves(p)
  BY <1>0, <1>1, HalfMovedOK
<1>2. CASE ~Moves(p)
  BY <1>0, <1>2, GivesUpOK
<1> QED BY <1>1, <1>2

LEMMA AbortOK ==
  ASSUME PatchInv, NEW p \in Patches, Abort(p)
  PROVE  Good(p)
<1> USE DEF Abort, Quiet
<1>0. PatchTypeOK /\ ReportOK(p) /\ SeenOK(p) /\ missed = {} /\ work[p] \in Works
  BY DEF PatchInv, PatchTypeOK
<1>1. /\ work' \in [Patches -> Works] /\ work'[p] = [work[p] EXCEPT !.aborted = TRUE]
      /\ \A q \in Patches \ {p} : work'[q] = work[q]
  BY <1>0 DEF PatchTypeOK, Works
<1>2. /\ work'[p].pc = work[p].pc /\ work'[p].at = work[p].at
      /\ work'[p].before = work[p].before
      /\ work'[p].halted = work[p].halted /\ work'[p].threw = work[p].threw
  BY <1>0, <1>1 DEF Works
<1>3. PatchTypeOK'
  BY <1>0, <1>1 DEF PatchTypeOK
<1>4. ReportOK(p)'
  BY <1>0, <1>2, SameReport
<1>5. SeenOK(p)'
  BY <1>0, <1>2 DEF SeenOK, Overwrites, At, Linked, Moves, Op
<1>6. FilesOK(Patches \ {p})
  BY SameFiles
<1> QED BY <1>0, <1>1, <1>3, <1>4, <1>5, <1>6 DEF Good, Alone

(* What another program does is late for every patch.                        *)
LEMMA ElsewhereOK ==
  ASSUME PatchInv, NEW f \in Paths, NEW c \in Content, Elsewhere(f, c),
         unwritten' \subseteq Foreign, removals' \in Nat
  PROVE  PatchInv'
<1> USE DEF Elsewhere
<1>0. PatchTypeOK /\ missed = {}
  BY DEF PatchInv
<1>1. file' \in [Paths -> Content] /\ file'[f] = c /\ \A g \in Paths \ {f} : file'[g] = file[g]
  BY <1>0 DEF PatchTypeOK
<1>2. Edits(c) \subseteq AllEdits
  BY DEF Edits, Content
<1>3. late' \in [Patches -> SUBSET AllEdits]
  BY <1>0, <1>2 DEF PatchTypeOK
<1>4. PatchTypeOK'
  BY <1>0, <1>1, <1>3 DEF PatchTypeOK
<1>5. ASSUME NEW q \in Patches PROVE ReportOK(q)' /\ SeenOK(q)'
  <2>0. ReportOK(q) /\ SeenOK(q)
    BY DEF PatchInv
  <2>1. ReportOK(q)'
    BY <2>0, SameReport
  <2>2. late'[q] = late[q] \cup (Edits(c) \ Edits(file[f]))
    OBVIOUS
  <2>3. ASSUME Overwrites(q)
        PROVE  Edits(file'[Op(q).path]) \subseteq work[q].before \cup late'[q]
    <3>1. Op(q).path \in Paths
      BY <2>3, WithinOK DEF Overwrites, At, Within, InOperation, Operations
    <3>2. CASE Op(q).path = f
      BY <1>1, <2>0, <2>2, <2>3, <3>2 DEF SeenOK
    <3>3. CASE Op(q).path # f
      BY <1>1, <2>0, <2>2, <2>3, <3>1, <3>3 DEF SeenOK, Edits
    <3> QED BY <3>2, <3>3
  <2> QED BY <2>0, <2>1, <2>3 DEF SeenOK, Overwrites, At, Linked, Moves, Op
<1> QED BY <1>0, <1>4, <1>5 DEF PatchInv

--------------------------------------------------------------------------------
LEMMA InitOK == PatchInit => PatchInv
<1> SUFFICES ASSUME PatchInit PROVE PatchInv
  OBVIOUS
<1> USE DEF PatchInit
<1>1. NoWork \in Works /\ NoWork.pc = "new" /\ NoWork.at = 1 /\ ~NoWork.halted /\ ~NoWork.threw
  BY DEF NoWork, Works, Content
<1>2. PatchTypeOK
  BY <1>1, PatchAssumption DEF PatchTypeOK, Statuses
<1>3. ASSUME NEW p \in Patches PROVE ReportOK(p) /\ SeenOK(p)
  <2>0. /\ Len(Script[p]) \in Nat /\ DOMAIN Script[p] = 1..Len(Script[p])
        /\ work[p].pc = "new" /\ work[p].at = 1 /\ ~work[p].halted /\ ~work[p].threw
        /\ changed[p] = {}
        /\ \A i \in DOMAIN Script[p] : row[p][i] = "pending" /\ wrote[p][i] = {}
    BY <1>1, ScriptOK
  <2>1. RowsOK(p)
    BY <2>0 DEF RowsOK, Within, InOperation, Half
  <2>2. DoubtOK(p)
    BY <2>0 DEF DoubtOK
  <2>3. ChangedOK(p)
    BY <2>0 DEF ChangedOK
  <2>4. SeenOK(p)
    BY <2>0 DEF SeenOK, Overwrites, At
  <2> QED BY <2>1, <2>2, <2>3, <2>4 DEF ReportOK
<1> QED BY <1>2, <1>3 DEF PatchInv

LEMMA NextOK == PatchInv /\ [PatchNext]_patchVars => PatchInv'
<1> SUFFICES ASSUME PatchInv, [PatchNext]_patchVars PROVE PatchInv'
  OBVIOUS
<1>1. CASE UNCHANGED patchVars
  <2> USE <1>1 DEF patchVars
  <2>1. PatchTypeOK' /\ missed' = {}
    BY DEF PatchInv, PatchTypeOK
  <2>2. ASSUME NEW p \in Patches PROVE ReportOK(p)' /\ SeenOK(p)'
    <3>1. ReportOK(p)'
      BY SameReport DEF PatchInv
    <3>2. SeenOK(p)'
      BY DEF PatchInv, SeenOK, Overwrites, At, Linked, Moves, Op
    <3> QED BY <3>1, <3>2
  <2> QED BY <2>1, <2>2 DEF PatchInv
<1>2. ASSUME NEW p \in Patches,
             \/ Start(p) \/ Skip(p) \/ Prepare(p) \/ Write(p) \/ Check(p) \/ Publish(p)
             \/ PublishFails(p) \/ Robbed(p) \/ Recheck(p) \/ Remove(p) \/ RemoveFails(p)
             \/ Finish(p) \/ Abort(p)
      PROVE  PatchInv'
  <2>1. Good(p)
    BY <1>2, StartOK, SkipOK, PrepareOK, WriteOK, CheckOK, PublishOK, PublishFailsOK, RobbedOK,
       RecheckOK, RemoveOK, RemoveFailsOK, FinishOK, AbortOK
  <2> QED BY <2>1, OthersOK
<1>3. ASSUME NEW f \in Paths, ForeignWrite(f) PROVE PatchInv'
  <2>1. PICK e \in unwritten : /\ Elsewhere(f, Edits(file[f]) \cup {e})
                               /\ unwritten' = unwritten \ {e} /\ UNCHANGED removals
    BY <1>3 DEF ForeignWrite
  <2>2. Edits(file[f]) \cup {e} \in Content /\ unwritten \subseteq Foreign /\ removals \in Nat
    BY DEF PatchInv, PatchTypeOK, Edits, Content, AllEdits
  <2> QED BY <2>1, <2>2, ElsewhereOK
<1>4. ASSUME NEW f \in Paths, ForeignRemove(f) PROVE PatchInv'
  <2>1. Missing \in Content /\ unwritten' \subseteq Foreign /\ removals' \in Nat
    BY <1>4 DEF ForeignRemove, PatchInv, PatchTypeOK, Content
  <2> QED BY <1>4, <2>1, ElsewhereOK DEF ForeignRemove
<1> QED BY <1>1, <1>2, <1>3, <1>4 DEF PatchNext

LEMMA InvImpliesReport == PatchInv => ReportIsTrue
<1> SUFFICES ASSUME PatchInv, NEW p \in Patches
             PROVE  /\ \A i \in DOMAIN Script[p] :
                         /\ Truth(Script[p][i], row[p][i], wrote[p][i])
                         /\ row[p][i] = "unconfirmed" =>
                               \A j \in (i + 1)..Len(Script[p]) : wrote[p][j] = {}
                    /\ work[p].threw => \A i \in DOMAIN Script[p] : wrote[p][i] = {}
                    /\ changed[p] = UNION {wrote[p][i] : i \in DOMAIN Script[p]}
  BY DEF ReportIsTrue, Truth
<1>0. /\ ReportOK(p) /\ work[p].at \in Nat
      /\ Len(Script[p]) \in Nat /\ DOMAIN Script[p] = 1..Len(Script[p])
  BY ScriptOK DEF PatchInv, PatchTypeOK, Works
<1>1. ASSUME NEW i \in DOMAIN Script[p]
      PROVE  Truth(Script[p][i], row[p][i], wrote[p][i])
  <2>1. CASE i < work[p].at
    BY <1>0, <2>1 DEF ReportOK, RowsOK
  <2>2. CASE i >= work[p].at
    <3>1. row[p][i] \in {"pending", "rejected"}
      BY <1>0, <2>2 DEF ReportOK, RowsOK
    <3>2. row[p][i] = "rejected" => wrote[p][i] = {}
      <4>1. CASE i = work[p].at
        BY <1>0, <4>1 DEF ReportOK, RowsOK, Half, Within, InOperation
      <4>2. CASE i > work[p].at
        BY <1>0, <4>2 DEF ReportOK, RowsOK
      <4> QED BY <1>0, <2>2, <4>1, <4>2
    <3> QED BY <3>1, <3>2 DEF Truth
  <2> QED BY <1>0, <2>1, <2>2
<1>2. ASSUME NEW i \in DOMAIN Script[p], row[p][i] = "unconfirmed",
             NEW j \in (i + 1)..Len(Script[p])
      PROVE  wrote[p][j] = {}
  BY <1>0, <1>2 DEF ReportOK, DoubtOK
<1>3. changed[p] = UNION {wrote[p][i] : i \in DOMAIN Script[p]}
  <2>1. ASSUME NEW f
        PROVE  f \in UNION {wrote[p][i] : i \in DOMAIN Script[p]}
                 <=> \E i \in DOMAIN Script[p] : f \in wrote[p][i]
    OBVIOUS
  <2>2. ASSUME NEW f
        PROVE  f \in changed[p] <=> \E i \in DOMAIN Script[p] : f \in wrote[p][i]
    BY <1>0 DEF PatchInv, PatchTypeOK, ReportOK, ChangedOK
  <2> QED BY <2>1, <2>2
<1>4. work[p].threw => \A i \in DOMAIN Script[p] : wrote[p][i] = {}
  BY <1>0 DEF ReportOK, DoubtOK
<1> QED BY <1>1, <1>2, <1>3, <1>4

(* Whatever fails, is cancelled or happens to the files meanwhile: what the  *)
(* call reports of each operation is what the operation did.                 *)
THEOREM ReportsAreTrue == PatchSpec => []ReportIsTrue
<1> QED BY InitOK, NextOK, InvImpliesReport, PTL DEF PatchSpec

(* No edit that was there when a patch compared the file is destroyed by it. *)
THEOREM SeenEditsSurvive == PatchSpec => []OnlyLateEditsAreLost
<1>1. PatchInv => OnlyLateEditsAreLost
  BY DEF PatchInv, OnlyLateEditsAreLost
<1> QED BY <1>1, InitOK, NextOK, PTL DEF PatchSpec
==============================================================================
