--------------------------- MODULE SelectionProofs ---------------------------
(* What the filter of a sequence keeps, for every sequence and every set. Its *)
(* value is a recursion over the positions; the induction is a least counter- *)
(* example, which a nonempty set of numbers has because the intervals from 0  *)
(* are well founded under inclusion.                                          *)
EXTENDS Selection, FiniteSetTheorems, WellFoundedInduction, SequenceTheorems, TLAPS

(* A nonempty set of numbers has a least one.                                *)
LEMMA LeastOf ==
  ASSUME NEW T \in SUBSET Nat, T # {}
  PROVE  \E n \in T : \A m \in T : n <= m
<1> DEFINE F == {0..n : n \in T}
<1>1. IsWellFoundedOn(StrictSubsetOrdering(Nat), FiniteSubsetsOf(Nat))
  BY FS_StrictSubsetOrderingWellFounded
<1>2. F \subseteq FiniteSubsetsOf(Nat) /\ F # {}
  <2>1. ASSUME NEW n \in T PROVE 0..n \in FiniteSubsetsOf(Nat)
    BY FS_Interval DEF FiniteSubsetsOf
  <2> QED BY <2>1
<1>3. PICK X \in F : \A Y \in F : ~(<<Y, X>> \in StrictSubsetOrdering(Nat))
  <2> HIDE DEF F
  <2> QED BY <1>1, <1>2, WFMin
<1>4. PICK n \in T : X = 0..n
  OBVIOUS
<1>5. ASSUME NEW m \in T, m < n PROVE FALSE
  <2>1. 0..m \in F
    OBVIOUS
  <2>2. 0..m \subseteq 0..n /\ n \in 0..n /\ n \notin 0..m
    BY <1>5
  <2>3. 0..m # 0..n
    BY <2>2
  <2>4. <<0..m, 0..n>> \in StrictSubsetOrdering(Nat)
    BY <2>2, <2>3 DEF StrictSubsetOrdering
  <2> QED BY <1>3, <1>4, <2>1, <2>4
<1> QED BY <1>5

(* Induction over 0..n for a set of numbers.                                 *)
LEMMA UpTo ==
  ASSUME NEW N \in Nat, NEW G \in SUBSET Nat, 0 \in G,
         \A n \in Nat : n < N /\ n \in G => n + 1 \in G
  PROVE  0..N \subseteq G
<1> DEFINE B == {n \in 0..N : n \notin G}
<1> SUFFICES ASSUME B # {} PROVE FALSE
  OBVIOUS
<1>1. B \in SUBSET Nat
  OBVIOUS
<1>2. PICK n \in B : \A m \in B : n <= m
  <2> HIDE DEF B
  <2> QED BY <1>1, LeastOf
<1>3. n # 0 /\ n - 1 \in Nat /\ n - 1 \in 0..N /\ n - 1 < n
  OBVIOUS
<1>4. n - 1 \in G
  BY <1>2, <1>3
<1> QED BY <1>3, <1>4

(* The prefixes of s, filtered, up to the first n elements.                  *)
KeptOf(s, S, n, f) ==
  f = [m \in 0..n |-> IF m = 0 THEN <<>>
                      ELSE IF s[m] \in S THEN Append(f[m - 1], s[m])
                      ELSE f[m - 1]]

(* There are such prefixes, for any sequence.                                *)
LEMMA KeptExists ==
  ASSUME NEW s, NEW S, NEW N \in Nat
  PROVE  \E f : KeptOf(s, S, N, f)
<1> DEFINE G == {n \in Nat : \E f : KeptOf(s, S, n, f)}
<1>1. 0 \in G
  <2>1. KeptOf(s, S, 0, [m \in 0..0 |-> <<>>])
    BY DEF KeptOf
  <2> QED BY <2>1
<1>2. ASSUME NEW n \in Nat, n \in G PROVE n + 1 \in G
  <2>1. PICK f : KeptOf(s, S, n, f)
    BY <1>2
  <2> DEFINE g == [m \in 0..(n + 1) |-> IF m = n + 1
                                        THEN IF s[m] \in S THEN Append(f[n], s[m]) ELSE f[n]
                                        ELSE f[m]]
  <2>2. \A m \in 0..n : g[m] = f[m]
    OBVIOUS
  <2>3. ASSUME NEW m \in 0..(n + 1)
        PROVE  g[m] = IF m = 0 THEN <<>>
                      ELSE IF s[m] \in S THEN Append(g[m - 1], s[m])
                      ELSE g[m - 1]
    <3>1. CASE m = n + 1
      <4>1. g[m - 1] = f[n]
        BY <2>2, <3>1
      <4> QED BY <3>1, <4>1
    <3>2. CASE m \in 0..n
      <4>1. g[m] = f[m] /\ (m # 0 => g[m - 1] = f[m - 1])
        BY <2>2, <3>2
      <4>2. f[m] = IF m = 0 THEN <<>> ELSE IF s[m] \in S THEN Append(f[m - 1], s[m])
                                       ELSE f[m - 1]
        BY <2>1, <3>2 DEF KeptOf
      <4> HIDE DEF g
      <4> QED BY <4>1, <4>2
    <3> QED BY <3>1, <3>2
  <2>4. KeptOf(s, S, n + 1, g)
    <3>1. g = [m \in 0..(n + 1) |-> g[m]]
      OBVIOUS
    <3> HIDE DEF g
    <3> QED BY <2>3, <3>1 DEF KeptOf
  <2> HIDE DEF g
  <2> QED BY <2>4
<1>3. 0..N \subseteq G
  <2>1. G \in SUBSET Nat
    OBVIOUS
  <2> HIDE DEF G
  <2> QED BY <1>1, <1>2, <2>1, UpTo
<1> QED BY <1>3

(* What the filter of a sequence is made of: the last of its prefixes.       *)
LEMMA SelectedIs ==
  ASSUME NEW s, NEW S, Len(s) \in Nat
  PROVE  \E f : /\ Selected(s, S) = f[Len(s)] /\ f[0] = <<>>
               /\ \A n \in 1..Len(s) : f[n] = IF s[n] \in S THEN Append(f[n - 1], s[n])
                                               ELSE f[n - 1]
<1>1. Selected(s, S) = (CHOOSE f : KeptOf(s, S, Len(s), f))[Len(s)]
  BY DEF Selected, KeptOf
<1> DEFINE f == CHOOSE f : KeptOf(s, S, Len(s), f)
<1>2. KeptOf(s, S, Len(s), f)
  BY KeptExists
<1> HIDE DEF f
<1>3. \A n \in 0..Len(s) : f[n] = IF n = 0 THEN <<>>
                                ELSE IF s[n] \in S THEN Append(f[n - 1], s[n])
                                ELSE f[n - 1]
  BY <1>2 DEF KeptOf
<1>4. f[0] = <<>> /\ \A n \in 1..Len(s) : f[n] = IF s[n] \in S THEN Append(f[n - 1], s[n])
                                               ELSE f[n - 1]
  BY <1>3
<1>5. Selected(s, S) = f[Len(s)]
  BY <1>1 DEF f
<1> QED BY <1>4, <1>5

(* q has exactly the elements of s that belong to S, and is not longer.      *)
IsSelection(q, T, s, S) ==
  /\ q \in Seq(T) /\ Len(q) <= Len(s)
  /\ \A i \in 1..Len(q) : q[i] \in S
  /\ \A i \in 1..Len(q) : \E j \in 1..Len(s) : s[j] = q[i]
  /\ \A j \in 1..Len(s) : s[j] \in S => \E i \in 1..Len(q) : q[i] = s[j]

Once(s) == \A i, j \in 1..Len(s) : i # j => s[i] # s[j]

(* The filter keeps the elements that belong to the set, each as often as it *)
(* was there.                                                                *)
LEMMA SelectedProperties ==
  ASSUME NEW T, NEW s \in Seq(T), NEW S
  PROVE  /\ IsSelection(Selected(s, S), T, s, S)
         /\ Once(s) => Once(Selected(s, S))
<1>0. Len(s) \in Nat
  OBVIOUS
<1>1. PICK f : /\ Selected(s, S) = f[Len(s)] /\ f[0] = <<>>
               /\ \A n \in 1..Len(s) : f[n] = IF s[n] \in S THEN Append(f[n - 1], s[n])
                                               ELSE f[n - 1]
  BY <1>0, SelectedIs
<1> DEFINE Fits(n) ==
      /\ f[n] \in Seq(T) /\ Len(f[n]) <= n
      /\ \A i \in 1..Len(f[n]) : f[n][i] \in S
      /\ \A i \in 1..Len(f[n]) : \E j \in 1..n : s[j] = f[n][i]
      /\ \A j \in 1..n : s[j] \in S => \E i \in 1..Len(f[n]) : f[n][i] = s[j]
      /\ (\A i, j \in 1..Len(s) : i # j => s[i] # s[j]) =>
            \A i, j \in 1..Len(f[n]) : i # j => f[n][i] # f[n][j]
<1> DEFINE G == {n \in Nat : Fits(n)}
<1>2. Fits(0)
  BY <1>1
<1>3. ASSUME NEW n \in Nat, n < Len(s), Fits(n) PROVE Fits(n + 1)
  <2>1. /\ f[n] \in Seq(T) /\ Len(f[n]) <= n
        /\ \A i \in 1..Len(f[n]) : f[n][i] \in S
        /\ \A i \in 1..Len(f[n]) : \E j \in 1..n : s[j] = f[n][i]
        /\ \A j \in 1..n : s[j] \in S => \E i \in 1..Len(f[n]) : f[n][i] = s[j]
        /\ (\A i, j \in 1..Len(s) : i # j => s[i] # s[j]) =>
              \A i, j \in 1..Len(f[n]) : i # j => f[n][i] # f[n][j]
    BY <1>3
  <2> HIDE DEF Fits
  <2>2. f[n + 1] = IF s[n + 1] \in S THEN Append(f[n], s[n + 1]) ELSE f[n]
    <3>1. n + 1 \in 1..Len(s) /\ (n + 1) - 1 = n
      BY <1>0, <1>3
    <3> QED BY <1>1, <3>1
  <2>3. CASE s[n + 1] \notin S
    <3>1. f[n + 1] = f[n]
      BY <2>2, <2>3
    <3>2. \A j \in 1..(n + 1) : j \in 1..n \/ j = n + 1
      OBVIOUS
    <3>3. \A j \in 1..(n + 1) : s[j] \in S => \E i \in 1..Len(f[n]) : f[n][i] = s[j]
      BY <2>1, <2>3, <3>2
    <3>4. \A i \in 1..Len(f[n]) : \E j \in 1..(n + 1) : s[j] = f[n][i]
      <4>1. 1..n \subseteq 1..(n + 1)
        OBVIOUS
      <4> QED BY <2>1, <4>1
    <3>5. Len(f[n]) <= n + 1
      BY <2>1
    <3>6. /\ f[n + 1] \in Seq(T) /\ Len(f[n + 1]) <= n + 1
          /\ \A i \in 1..Len(f[n + 1]) : f[n + 1][i] \in S
          /\ \A i \in 1..Len(f[n + 1]) : \E j \in 1..(n + 1) : s[j] = f[n + 1][i]
          /\ \A j \in 1..(n + 1) : s[j] \in S => \E i \in 1..Len(f[n + 1]) : f[n + 1][i] = s[j]
      BY <2>1, <3>1, <3>3, <3>4, <3>5
    <3>7. (\A i, j \in 1..Len(s) : i # j => s[i] # s[j]) =>
             \A i, j \in 1..Len(f[n + 1]) : i # j => f[n + 1][i] # f[n + 1][j]
      BY <2>1, <3>1, Zenon
    <3> QED BY <3>6, <3>7, Zenon DEF Fits
  <2>4. CASE s[n + 1] \in S
    <3> DEFINE g == f[n + 1]
               L == Len(f[n])
    <3>1. s[n + 1] \in T
      BY <1>0, <1>3, ElementOfSeq
    <3>2. /\ g \in Seq(T) /\ Len(g) = L + 1 /\ g[L + 1] = s[n + 1] /\ L \in Nat
          /\ \A i \in 1..L : g[i] = f[n][i]
      BY <2>1, <2>2, <2>4, <3>1
    <3>3. \A i \in 1..Len(g) : i \in 1..L \/ i = L + 1
      BY <3>2
    <3>4. \A j \in 1..(n + 1) : j \in 1..n \/ j = n + 1
      OBVIOUS
    <3>5. L + 1 \in 1..Len(g) /\ 1..L \subseteq 1..Len(g)
      BY <3>2
    <3> HIDE DEF g, L
    <3>6. \A i \in 1..Len(g) : g[i] \in S
      BY <2>1, <2>4, <3>2, <3>3 DEF L
    <3>7. ASSUME NEW i \in 1..Len(g) PROVE \E j \in 1..(n + 1) : s[j] = g[i]
      <4>1. CASE i \in 1..L
        BY <2>1, <3>2, <4>1 DEF L
      <4>2. CASE i = L + 1
        BY <3>2, <4>2
      <4> QED BY <3>3, <4>1, <4>2
    <3>8. ASSUME NEW j \in 1..(n + 1), s[j] \in S PROVE \E i \in 1..Len(g) : g[i] = s[j]
      <4>1. CASE j \in 1..n
        <5>1. PICK i \in 1..L : f[n][i] = s[j]
          BY <2>1, <3>8, <4>1 DEF L
        <5> QED BY <3>2, <3>5, <5>1
      <4>2. CASE j = n + 1
        BY <3>2, <3>5, <4>2
      <4> QED BY <3>4, <4>1, <4>2
    <3>9. ASSUME \A i, j \in 1..Len(s) : i # j => s[i] # s[j], NEW i \in 1..Len(g),
                 NEW j \in 1..Len(g), i # j
          PROVE  g[i] # g[j]
      <4>1. \A k \in 1..L : g[k] # s[n + 1]
        <5>1. ASSUME NEW k \in 1..L PROVE g[k] # s[n + 1]
          <6>1. PICK m \in 1..n : s[m] = f[n][k]
            BY <2>1 DEF L
          <6>2. m \in 1..Len(s) /\ n + 1 \in 1..Len(s) /\ m # n + 1
            BY <1>0, <1>3
          <6> QED BY <3>2, <3>9, <6>1, <6>2
        <5> QED BY <5>1
      <4>2. CASE i \in 1..L /\ j \in 1..L
        BY <2>1, <3>2, <3>9, <4>2 DEF L
      <4> QED BY <3>2, <3>3, <3>9, <4>1, <4>2
    <3>10. Len(g) <= n + 1
      BY <2>1, <3>2 DEF L
    <3> QED BY <3>2, <3>6, <3>7, <3>8, <3>9, <3>10 DEF Fits, g
  <2> QED BY <2>3, <2>4
<1>4. Len(s) \in G
  <2>1. 0 \in G /\ \A n \in Nat : n < Len(s) /\ n \in G => n + 1 \in G
    <3> HIDE DEF Fits
    <3> QED BY <1>2, <1>3
  <2>2. G \in SUBSET Nat
    OBVIOUS
  <2>3. 0..Len(s) \subseteq G
    <3> HIDE DEF G
    <3> QED BY <1>0, <2>1, <2>2, UpTo
  <2>4. Len(s) \in 0..Len(s)
    BY <1>0
  <2> HIDE DEF G
  <2> QED BY <2>3, <2>4
<1>5. Fits(Len(s))
  <2> HIDE DEF Fits
  <2> QED BY <1>4
<1> QED BY <1>1, <1>5 DEF IsSelection, Once

(* As sets of elements: the filter is an intersection.                       *)
LEMMA SelectedRange ==
  ASSUME NEW T, NEW s \in Seq(T), NEW S
  PROVE  Selected(s, S) \in Seq(T) /\ Range(Selected(s, S)) = Range(s) \cap S
<1> DEFINE q == Selected(s, S)
<1>1. IsSelection(q, T, s, S)
  BY SelectedProperties
<1> HIDE DEF q
<1>2. DOMAIN s = 1..Len(s) /\ DOMAIN q = 1..Len(q) /\ q \in Seq(T)
  BY <1>1 DEF IsSelection
<1>3. ASSUME NEW x PROVE x \in Range(q) <=> x \in Range(s) \cap S
  <2>1. x \in Range(q) <=> \E i \in 1..Len(q) : x = q[i]
    BY <1>2 DEF Range
  <2>2. x \in Range(s) <=> \E j \in 1..Len(s) : x = s[j]
    BY <1>2 DEF Range
  <2> QED BY <1>1, <2>1, <2>2 DEF IsSelection
<1> QED BY <1>2, <1>3 DEF q

(* What occurs once in the sequence occurs once in the filter.               *)
LEMMA SelectedInjective ==
  ASSUME NEW T, NEW s \in Seq(T), NEW S, IsInjective(s)
  PROVE  IsInjective(Selected(s, S))
<1>1. DOMAIN s = 1..Len(s)
  OBVIOUS
<1>2. Once(s)
  BY <1>1 DEF IsInjective, Once
<1>3. Once(Selected(s, S))
  BY <1>2, SelectedProperties
<1>4. DOMAIN Selected(s, S) = 1..Len(Selected(s, S))
  <2>1. Selected(s, S) \in Seq(T)
    BY SelectedProperties DEF IsSelection
  <2> QED BY <2>1
<1> QED BY <1>3, <1>4 DEF IsInjective, Once

(* A sequence has no more elements than positions.                           *)
LEMMA RangeIsFinite ==
  ASSUME NEW T, NEW s \in Seq(T)
  PROVE  Range(s) \subseteq T /\ IsFiniteSet(Range(s)) /\ Cardinality(Range(s)) <= Len(s)
<1>1. Len(s) \in Nat /\ DOMAIN s = 1..Len(s) /\ s \in [1..Len(s) -> T]
  BY LenProperties
<1>2. Range(s) \subseteq T
  BY <1>1 DEF Range
<1>3. s \in Surjection(1..Len(s), Range(s))
  BY <1>1 DEF Range, Surjection
<1>4. IsFiniteSet(1..Len(s)) /\ Cardinality(1..Len(s)) = Len(s)
  BY <1>1, FS_Interval
<1>5. IsFiniteSet(Range(s)) /\ Cardinality(Range(s)) <= Cardinality(1..Len(s))
  BY <1>3, <1>4, FS_Surjection
<1> QED BY <1>2, <1>4, <1>5
================================================================================
