----------------------------- MODULE ListFacts ------------------------------
(***************************************************************************)
(* Induction and recursion for the proofs: tlapm cannot instantiate a      *)
(* theorem with an operator parameter, so they are stated here of sets and *)
(* functions.  With them, what Kept returns for every list.                *)
(***************************************************************************)
EXTENDS Sublists, FiniteSetTheorems, TLAPS

\* Induction over the naturals, for a set: were n missing from it, i |-> i + 1 would
\* be an injection from its elements up to n into those without 0, of which there are
\* fewer.
LEMMA Induction ==
    ASSUME NEW S, 0 \in S, \A n \in Nat : n \in S => n + 1 \in S
    PROVE  Nat \subseteq S
<1> SUFFICES ASSUME NEW n \in Nat, n \notin S PROVE FALSE
  OBVIOUS
<1> DEFINE T == S \cap (0..n)
           U == T \ {0}
           next == [i \in T |-> i + 1]
<1>1. IsFiniteSet(T) /\ Cardinality(T) \in Nat
  <2>1. T \in SUBSET (0..n) /\ IsFiniteSet(0..n)
    BY FS_Interval
  <2> QED
    BY <2>1, FS_Subset, FS_CardinalityType
<1>2. IsFiniteSet(U) /\ Cardinality(U) = Cardinality(T) - 1
  <2>1. 0 \in T
    OBVIOUS
  <2> QED
    BY <1>1, <2>1, FS_RemoveElement
<1>3. next \in Injection(T, U)
  <2>1. next \in [T -> U]
    OBVIOUS
  <2>2. \A i, j \in T : next[i] = next[j] => i = j
    OBVIOUS
  <2> QED
    BY <2>1, <2>2 DEF Injection, IsInjective
<1>4. Cardinality(T) <= Cardinality(U)
  <2> HIDE DEF T, U, next
  <2> QED
    BY <1>2, <1>3, FS_Injection
<1> HIDE DEF T, U
<1> QED
  BY <1>1, <1>2, <1>4

\* There is a sequence of values that begins with a and goes on with the functions of
\* F.
Iterates(A, a, N, F) ==
    \E g \in [0..N -> A] : g[0] = a /\ \A n \in 1..N : g[n] = F[n][g[n - 1]]

\* What is defined step by step exists, so a recursive function satisfies its
\* recurrence.
LEMMA Iteration ==
    ASSUME NEW A, NEW a \in A, NEW N \in Nat, NEW F \in [1..N -> [A -> A]]
    PROVE  Iterates(A, a, N, F)
<1> DEFINE Upto(m, g) == g[0] = a /\ \A n \in 1..m : g[n] = F[n][g[n - 1]]
           S == {m \in Nat : m <= N => \E g \in [0..m -> A] : Upto(m, g)}
<1>1. 0 \in S
  <2>1. [n \in 0..0 |-> a] \in [0..0 -> A] /\ Upto(0, [n \in 0..0 |-> a])
    OBVIOUS
  <2> QED
    BY <2>1
<1>2. ASSUME NEW m \in Nat, m \in S PROVE m + 1 \in S
  <2> SUFFICES ASSUME m + 1 <= N PROVE \E g \in [0..m + 1 -> A] : Upto(m + 1, g)
    OBVIOUS
  <2>1. PICK g \in [0..m -> A] : Upto(m, g)
    BY <1>2
  <2> DEFINE h == [n \in 0..m + 1 |-> IF n <= m THEN g[n] ELSE F[m + 1][g[m]]]
  <2>2. F[m + 1][g[m]] \in A
    OBVIOUS
  <2>3. h \in [0..m + 1 -> A]
    BY <2>2
  <2>4. ASSUME NEW n \in 1..m + 1 PROVE h[n] = F[n][h[n - 1]]
    <3>1. CASE n <= m
      <4>1. n \in 1..m /\ n \in 0..m + 1 /\ n - 1 \in 0..m + 1 /\ n - 1 <= m
        BY <3>1
      <4>2. g[n] = F[n][g[n - 1]]
        BY <2>1, <4>1
      <4> QED
        BY <3>1, <4>1, <4>2
    <3>2. CASE n = m + 1
      BY <3>2
    <3> QED
      BY <3>1, <3>2
  <2>5. Upto(m + 1, h)
    <3>1. h[0] = a
      BY <2>1
    <3> QED
      BY <2>4, <3>1
  <2> QED
    BY <2>3, <2>5
<1> HIDE DEF S
<1>3. N \in S
  BY <1>1, <1>2, Induction
<1> QED
  BY <1>3 DEF S, Iterates

\* g[n] is what is kept of the first n elements of s.
Runs(s, S, g) ==
    /\ g[0] = <<>>
    /\ \A n \in 1..Len(s) :
          g[n] = IF s[n] \in S THEN Append(g[n - 1], s[n]) ELSE g[n - 1]

\* This determines g.
LEMMA OneRun ==
    ASSUME NEW s, Len(s) \in Nat, NEW S, NEW g, NEW h, Runs(s, S, g), Runs(s, S, h)
    PROVE  \A n \in 0..Len(s) : g[n] = h[n]
<1> DEFINE E == {n \in Nat : n <= Len(s) => g[n] = h[n]}
<1>1. 0 \in E
  BY DEF Runs
<1>2. ASSUME NEW n \in Nat, n \in E PROVE n + 1 \in E
  <2> SUFFICES ASSUME n + 1 <= Len(s) PROVE g[n + 1] = h[n + 1]
    OBVIOUS
  <2>1. n + 1 \in 1..Len(s) /\ (n + 1) - 1 = n /\ g[n] = h[n]
    BY <1>2
  <2>2. g[n + 1] = IF s[n + 1] \in S THEN Append(g[n], s[n + 1]) ELSE g[n]
    BY <2>1 DEF Runs
  <2>3. h[n + 1] = IF s[n + 1] \in S THEN Append(h[n], s[n + 1]) ELSE h[n]
    BY <2>1 DEF Runs
  <2> QED
    BY <2>1, <2>2, <2>3
<1> HIDE DEF E
<1>3. Nat \subseteq E
  BY <1>1, <1>2, Induction
<1> QED
  BY <1>3 DEF E

\* Kept computes it.
LEMMA KeptRuns ==
    ASSUME NEW X, NEW s \in Seq(X), NEW S
    PROVE  \E g \in [0..Len(s) -> Seq(X \cap S)] : Runs(s, S, g) /\ Kept(s, S) = g[Len(s)]
<1> DEFINE A == Seq(X \cap S)
           F == [n \in 1..Len(s) |->
                    [t \in A |-> IF s[n] \in S THEN Append(t, s[n]) ELSE t]]
           IsKept(g) == g = [n \in 0..Len(s) |->
                                IF n = 0 THEN <<>>
                                ELSE IF s[n] \in S THEN Append(g[n - 1], s[n]) ELSE g[n - 1]]
           c == CHOOSE h : IsKept(h)
<1>1. <<>> \in A /\ Len(s) \in Nat /\ \A n \in 1..Len(s) : s[n] \in X
  OBVIOUS
<1>2. F \in [1..Len(s) -> [A -> A]]
  <2>1. ASSUME NEW n \in 1..Len(s), NEW t \in A
        PROVE (IF s[n] \in S THEN Append(t, s[n]) ELSE t) \in A
    BY <1>1
  <2> QED
    BY <2>1
<1>3. PICK g \in [0..Len(s) -> A] :
           g[0] = <<>> /\ \A n \in 1..Len(s) : g[n] = F[n][g[n - 1]]
  <2> DEFINE nil == <<>>
  <2>1. nil \in A /\ Len(s) \in Nat
    BY <1>1
  <2> HIDE DEF A, F, nil
  <2>2. Iterates(A, nil, Len(s), F)
    BY <1>2, <2>1, Iteration
  <2> QED
    BY <2>2 DEF Iterates, nil
<1>4. Runs(s, S, g)
  <2>1. ASSUME NEW n \in 1..Len(s)
        PROVE g[n] = IF s[n] \in S THEN Append(g[n - 1], s[n]) ELSE g[n - 1]
    <3>1. n - 1 \in 0..Len(s)
      BY <1>1
    <3>2. g[n - 1] \in A
      BY <3>1
    <3>3. g[n] = F[n][g[n - 1]]
      BY <1>3
    <3> QED
      BY <3>2, <3>3
  <2> QED
    BY <1>3, <2>1 DEF Runs
<1>5. IsKept(g)
  <2> HIDE DEF A, F
  <2>1. g = [n \in 0..Len(s) |-> g[n]]
    OBVIOUS
  <2>2. ASSUME NEW n \in 0..Len(s)
        PROVE  g[n] = IF n = 0 THEN <<>>
                      ELSE IF s[n] \in S THEN Append(g[n - 1], s[n]) ELSE g[n - 1]
    <3>1. CASE n = 0
      BY <3>1, <1>4 DEF Runs
    <3>2. CASE n # 0
      <4>1. n \in 1..Len(s)
        BY <1>1, <3>2
      <4> QED
        BY <3>2, <4>1, <1>4 DEF Runs
    <3> QED
      BY <3>1, <3>2
  <2> QED
    BY <2>1, <2>2, Zenon
<1>6. IsKept(c)
  <2> HIDE DEF IsKept
  <2> QED
    BY <1>5
<1>7. Kept(s, S) = c[Len(s)]
  BY DEF Kept
<1>8. Runs(s, S, c)
  <2> HIDE DEF c, A, F
  <2>1. c[0] = <<>>
    BY <1>1, <1>6
  <2>2. ASSUME NEW n \in 1..Len(s)
        PROVE c[n] = IF s[n] \in S THEN Append(c[n - 1], s[n]) ELSE c[n - 1]
    <3>1. n \in 0..Len(s) /\ n # 0
      BY <1>1
    <3>2. \A k \in 0..Len(s) : k # 0 =>
             c[k] = IF s[k] \in S THEN Append(c[k - 1], s[k]) ELSE c[k - 1]
      BY <1>6, Zenon
    <3> QED
      BY <3>1, <3>2
  <2> QED
    BY <2>1, <2>2 DEF Runs
<1>9. c[Len(s)] = g[Len(s)]
  <2> HIDE DEF c, A, F, IsKept
  <2>1. \A n \in 0..Len(s) : c[n] = g[n]
    BY <1>1, <1>4, <1>8, OneRun
  <2> QED
    BY <1>1, <2>1
<1> HIDE DEF c
<1> QED
  BY <1>4, <1>7, <1>9

\* Nothing is kept of nothing.
LEMMA KeptNothing ==
    ASSUME NEW S
    PROVE  Kept(<<>>, S) = <<>>
<1>1. <<>> \in Seq({}) /\ Len(<<>>) = 0
  OBVIOUS
<1>2. PICK g : Runs(<<>>, S, g) /\ Kept(<<>>, S) = g[Len(<<>>)]
  BY <1>1, KeptRuns
<1> QED
  BY <1>1, <1>2 DEF Runs

\* A list that grows at its end keeps what it kept, and the new element if it is
\* wanted.
LEMMA KeptAppend ==
    ASSUME NEW X, NEW s \in Seq(X), NEW e \in X, NEW S
    PROVE  Kept(Append(s, e), S) = IF e \in S THEN Append(Kept(s, S), e) ELSE Kept(s, S)
<1> DEFINE t == Append(s, e)
<1>1. /\ t \in Seq(X) /\ Len(t) = Len(s) + 1 /\ Len(s) \in Nat
      /\ t[Len(s) + 1] = e /\ \A n \in 1..Len(s) : t[n] = s[n]
  OBVIOUS
<1> HIDE DEF t
<1>2. PICK g : Runs(s, S, g) /\ Kept(s, S) = g[Len(s)]
  BY KeptRuns
<1>3. PICK h : Runs(t, S, h) /\ Kept(t, S) = h[Len(t)]
  BY <1>1, KeptRuns
<1>4. Runs(s, S, h)
  BY <1>1, <1>3 DEF Runs
<1>5. g[Len(s)] = h[Len(s)]
  BY <1>1, <1>2, <1>4, OneRun
<1>6. h[Len(s) + 1] = IF e \in S THEN Append(h[Len(s)], e) ELSE h[Len(s)]
  BY <1>1, <1>3 DEF Runs
<1> QED
  BY <1>1, <1>2, <1>3, <1>5, <1>6 DEF t

\* t consists of those of the first k elements of s that are in S, at[i] being the
\* place of t[i].
Selects(at, k, t, s, S) ==
    /\ at \in [1..Len(t) -> 1..k]
    /\ \A i, j \in 1..Len(t) : i < j => at[i] < at[j]
    /\ \A i \in 1..Len(t) : t[i] = s[at[i]]
    /\ {at[i] : i \in 1..Len(t)} = {n \in 1..k : s[n] \in S}

\* Kept(s, S) has every element of s that is in S, no other, and in the order of s.
THEOREM KeptPlaces ==
    ASSUME NEW X, NEW s \in Seq(X), NEW S
    PROVE  /\ Kept(s, S) \in Seq(X \cap S)
           /\ \E at : Selects(at, Len(s), Kept(s, S), s, S)
<1>1. PICK g \in [0..Len(s) -> Seq(X \cap S)] :
           Runs(s, S, g) /\ Kept(s, S) = g[Len(s)]
  BY KeptRuns
<1>2. Len(s) \in Nat
  OBVIOUS
<1> DEFINE E == {n \in Nat : n <= Len(s) => \E at : Selects(at, n, g[n], s, S)}
<1>3. 0 \in E
  <2>1. g[0] = <<>> /\ Len(g[0]) = 0
    BY <1>1 DEF Runs
  <2>2. Selects(<<>>, 0, g[0], s, S)
    BY <2>1 DEF Selects
  <2> QED
    BY <2>2
<1>4. ASSUME NEW n \in Nat, n \in E PROVE n + 1 \in E
  <2> SUFFICES ASSUME n + 1 <= Len(s) PROVE \E at : Selects(at, n + 1, g[n + 1], s, S)
    OBVIOUS
  <2>1. PICK at : Selects(at, n, g[n], s, S)
    BY <1>4
  <2>2. /\ n + 1 \in 1..Len(s) /\ (n + 1) - 1 = n
        /\ g[n + 1] = IF s[n + 1] \in S THEN Append(g[n], s[n + 1]) ELSE g[n]
    BY <1>1, <1>2 DEF Runs
  <2>3. g[n] \in Seq(X \cap S) /\ Len(g[n]) \in Nat
    BY <1>1, <1>2
  <2>4. CASE s[n + 1] \notin S
    <3>1. g[n + 1] = g[n]
      BY <2>2, <2>4
    <3>2. {k \in 1..n + 1 : s[k] \in S} = {k \in 1..n : s[k] \in S}
      BY <2>4
    <3>3. at \in [1..Len(g[n]) -> 1..n + 1]
      BY <2>1 DEF Selects
    <3>4. Selects(at, n + 1, g[n], s, S)
      BY <2>1, <3>2, <3>3 DEF Selects
    <3> QED
      BY <3>1, <3>4
  <2>5. CASE s[n + 1] \in S
    <3> DEFINE m == Len(g[n])
               t == Append(g[n], s[n + 1])
               b == [i \in 1..m + 1 |-> IF i <= m THEN at[i] ELSE n + 1]
    <3>1. /\ m \in Nat /\ at \in [1..m -> 1..n]
          /\ \A i, j \in 1..m : i < j => at[i] < at[j]
          /\ \A i \in 1..m : g[n][i] = s[at[i]]
          /\ {at[i] : i \in 1..m} = {k \in 1..n : s[k] \in S}
      BY <2>1, <2>3 DEF Selects
    <3>2. s[n + 1] \in X \cap S
      BY <2>2, <2>5
    <3>3. /\ Len(t) = m + 1 /\ t[m + 1] = s[n + 1]
          /\ \A i \in 1..m : t[i] = g[n][i]
      BY <2>3, <3>2
    <3> HIDE DEF t, m
    <3>4. b \in [1..m + 1 -> 1..n + 1]
      BY <3>1
    <3>5. \A i, j \in 1..m + 1 : i < j => b[i] < b[j]
      BY <3>1
    <3>6. \A i \in 1..m + 1 : t[i] = s[b[i]]
      BY <3>1, <3>3
    <3>7. {b[i] : i \in 1..m + 1} = {k \in 1..n + 1 : s[k] \in S}
      <4>1. ASSUME NEW i \in 1..m + 1 PROVE b[i] \in {k \in 1..n + 1 : s[k] \in S}
        <5>1. CASE i <= m
          <6>1. i \in 1..m /\ b[i] = at[i]
            BY <3>1, <5>1
          <6>2. at[i] \in {k \in 1..n : s[k] \in S}
            BY <3>1, <6>1
          <6> QED
            BY <6>1, <6>2
        <5>2. CASE i = m + 1
          BY <3>1, <5>2, <2>5
        <5> QED
          BY <3>1, <5>1, <5>2
      <4>2. ASSUME NEW k \in 1..n + 1, s[k] \in S PROVE \E i \in 1..m + 1 : b[i] = k
        <5>1. CASE k <= n
          <6>1. k \in {at[i] : i \in 1..m}
            <7>1. k \in {j \in 1..n : s[j] \in S}
              BY <4>2, <5>1
            <7> QED
              BY <3>1, <7>1
          <6>2. PICK i \in 1..m : at[i] = k
            BY <6>1
          <6> QED
            BY <3>1, <6>2
        <5>2. CASE k = n + 1
          <6>1. m + 1 \in 1..m + 1 /\ ~(m + 1 <= m)
            BY <3>1
          <6>2. b[m + 1] = k
            BY <5>2, <6>1
          <6> QED
            BY <6>1, <6>2
        <5> QED
          BY <5>1, <5>2
      <4> HIDE DEF b
      <4> QED
        BY <4>1, <4>2
    <3> HIDE DEF b
    <3>8. Selects(b, n + 1, t, s, S)
      BY <3>3, <3>4, <3>5, <3>6, <3>7 DEF Selects
    <3> QED
      BY <2>2, <2>5, <3>8 DEF t
  <2> QED
    BY <2>4, <2>5
<1> HIDE DEF E
<1>5. Len(s) \in E
  BY <1>2, <1>3, <1>4, Induction
<1> QED
  BY <1>1, <1>2, <1>5 DEF E
=============================================================================
