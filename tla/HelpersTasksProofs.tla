------------------------- MODULE HelpersTasksProofs -------------------------
(***************************************************************************)
(* Theorems about HelpersTasks: its type invariant, its safety properties  *)
(* and what a return from a call means, for any finite set of task         *)
(* indexes, any variables and number of helpers, and any kinds of tasks    *)
(* (also ones that pqR does not schedule) except those of NoMasterMerge.   *)
(*                                                                         *)
(* First come the inductive invariant IInv and lemmas on what the          *)
(* stretches of code that the actions are made of do with the table of     *)
(* tasks, the marks and the queues; then the actions and the theorems.     *)
(* The invariant is about tasks and the order in which they were scheduled *)
(* (Order), not about positions in used: taking some out of the table then *)
(* changes nothing for the rest.                                           *)
(***************************************************************************)
EXTENDS HelpersTasks, TLAPS, SequenceTheorems, WellFoundedInduction, FiniteSetTheorems

(* Numbers and sequences.                                                  *)

\* A set of natural numbers that is not empty has a least element.
LEMMA LeastExists ==
  ASSUME NEW S \in SUBSET Nat, S # {}
  PROVE  \E m \in S : \A x \in S : m <= x
<1>. DEFINE R == OpToRel(<, Nat)
<1>1. IsWellFoundedOn(R, Nat)
  BY NatLessThanWellFounded
<1>2. PICK m \in S : \A y \in S : ~(<<y, m>> \in R)
  BY <1>1, WFMin
<1>3. \A y \in S : ~(y < m)
  BY <1>2 DEF OpToRel
<1>. QED
  BY <1>3

\* The principle of induction over the natural numbers, for sets.
LEMMA Induction ==
  ASSUME NEW N \in SUBSET Nat, 0 \in N, \A n \in N : n + 1 \in N
  PROVE  N = Nat
<1>1. SUFFICES ASSUME Nat \ N # {} PROVE FALSE
  OBVIOUS
<1>2. PICK m \in Nat \ N : \A x \in Nat \ N : m <= x
  BY <1>1, LeastExists
<1>3. m - 1 \in Nat /\ m - 1 \notin Nat \ N
  BY <1>2
<1>. QED
  BY <1>2, <1>3

\* Max, which the model uses for the last of some positions, is the greatest of them.
LEMMA MaxOf ==
  ASSUME NEW n \in Nat, NEW S \in SUBSET (1..n), S # {}
  PROVE  Max(S) \in S /\ \A x \in S : x <= Max(S)
<1>. DEFINE T == {n - x : x \in S}
<1>1. PICK m \in T : \A y \in T : m <= y
  BY LeastExists, T \in SUBSET Nat, T # {}
<1>2. PICK x \in S : m = n - x
  BY <1>1
<1>3. ASSUME NEW y \in S
      PROVE  x >= y
  <2>1. m <= n - y
    BY <1>1
  <2>. QED
    BY <2>1, <1>2
<1>. QED
  BY <1>2, <1>3 DEF Max

\* The pairs of the elements of s, the one that comes first first.
Ordered(s) == {p \in Tasks \X Tasks :
                 \E i, j \in 1..Len(s) : i < j /\ s[i] = p[1] /\ s[j] = p[2]}

\* r is what is left of the first n elements of s without those in S; f says where they
\* were.
Kept(s, S, n, r, f) ==
  /\ r \in Seq(Tasks) /\ f \in [1..Len(r) -> 1..n]
  /\ \A i \in 1..Len(r) : r[i] = s[f[i]] /\ r[i] \notin S
  /\ \A i, j \in 1..Len(r) : i < j => f[i] < f[j]
  /\ \A k \in 1..n : s[k] \notin S => \E i \in 1..Len(r) : f[i] = k

\* Kept goes on to the next element of s.
LEMMA KeptNext ==
  ASSUME NEW s \in Seq(Tasks), NEW S, NEW n \in Nat, n < Len(s), NEW r, NEW f, Kept(s, S, n, r, f)
  PROVE  \E g : Kept(s, S, n + 1, IF s[n + 1] \in S THEN r ELSE Append(r, s[n + 1]), g)
<1>1. s[n + 1] \in Tasks /\ Len(r) \in Nat /\ r \in Seq(Tasks)
  BY DEF Kept
<1>2. CASE s[n + 1] \in S
  <2>1. Kept(s, S, n + 1, r, f)
    BY <1>1, <1>2 DEF Kept
  <2>. QED
    BY <1>2, <2>1
<1>3. CASE s[n + 1] \notin S
  <2>. DEFINE q == Append(r, s[n + 1])
              g == [i \in 1..(Len(r) + 1) |-> IF i = Len(r) + 1 THEN n + 1 ELSE f[i]]
  <2>1. q \in Seq(Tasks) /\ Len(q) = Len(r) + 1 /\ q[Len(r) + 1] = s[n + 1]
        /\ \A i \in 1..Len(r) : q[i] = r[i]
    BY <1>1
  <2>. HIDE DEF q
  <2>2. g \in [1..Len(q) -> 1..(n + 1)]
    BY <1>1, <2>1 DEF Kept
  <2>3. \A i \in 1..Len(q) : q[i] = s[g[i]] /\ q[i] \notin S
    BY <1>1, <1>3, <2>1 DEF Kept
  <2>4. \A i, j \in 1..Len(q) : i < j => g[i] < g[j]
    <3>. TAKE i, j \in 1..Len(q)
    <3>. HAVE i < j
    <3>0. i \in 1..Len(r)
      BY <1>1, <2>1
    <3>1. i \in 1..Len(r) /\ g[i] = f[i] /\ f[i] \in 1..n
      <4>1. g[i] = f[i]
        BY <1>1, <3>0
      <4>. QED
        BY <3>0, <4>1 DEF Kept
    <3>2. CASE j = Len(r) + 1
      BY <1>1, <2>1, <3>1, <3>2
    <3>3. CASE j \in 1..Len(r)
      BY <1>1, <3>1, <3>3 DEF Kept
    <3>4. j = Len(r) + 1 \/ j \in 1..Len(r)
      BY <1>1, <2>1
    <3>. QED
      BY <3>2, <3>3, <3>4
  <2>5. ASSUME NEW k \in 1..(n + 1), s[k] \notin S
        PROVE  \E i \in 1..Len(q) : g[i] = k
    <3>1. CASE k = n + 1
      BY <1>1, <2>1, <3>1
    <3>2. CASE k # n + 1
      <4>1. PICK i \in 1..Len(r) : f[i] = k
        BY <2>5, <3>2 DEF Kept
      <4>. QED
        BY <1>1, <2>1, <4>1
    <3>. QED
      BY <3>1, <3>2
  <2>. HIDE DEF g
  <2>6. Kept(s, S, n + 1, q, g)
    BY <2>1, <2>2, <2>3, <2>4, <2>5 DEF Kept
  <2>. QED
    BY <1>3, <2>6 DEF q
<1>. QED
  BY <1>2, <1>3

\* Left leaves the elements that are not in S, in their order.
LEMMA LeftIs ==
  ASSUME NEW s \in Seq(Tasks), NEW S
  PROVE  \E f : Kept(s, S, Len(s), Left(s, S), f)
<1>. DEFINE Def(g, i) == IF i = 0 THEN << >>
                         ELSE IF s[i] \in S THEN g[i - 1] ELSE Append(g[i - 1], s[i])
            Good(g, n) == g = [i \in 0..n |-> Def(g, i)]
            N == {n \in Nat : n <= Len(s) => \E g : Good(g, n)}
<1>1. 0 \in N
  <2>1. Good([i \in 0..0 |-> << >>], 0)
    OBVIOUS
  <2>. QED
    BY <2>1
<1>2. ASSUME NEW n \in N
      PROVE  n + 1 \in N
  <2>0. n + 1 \in Nat
    BY <1>2
  <2>1. SUFFICES ASSUME n + 1 <= Len(s) PROVE \E g : Good(g, n + 1)
    <3>. HIDE DEF Good
    <3>. QED
      BY <2>0
  <2>2. PICK g : Good(g, n)
    <3>. HIDE DEF Good
    <3>. QED
      BY <1>2, <2>1
  <2>. DEFINE h == [i \in 0..(n + 1) |-> IF i = n + 1 THEN Def(g, i) ELSE g[i]]
  <2>3. ASSUME NEW i \in 0..(n + 1)
        PROVE  h[i] = Def(h, i)
    <3>1. CASE i = n + 1
      <4>1. h[i] = Def(g, i) /\ h[i - 1] = g[i - 1] /\ i # 0
        BY <1>2, <3>1
      <4>. QED
        BY <4>1
    <3>2. CASE i # n + 1
      <4>0. i \in 0..n /\ h[i] = g[i]
        BY <1>2, <3>2
      <4>1. h[i] = g[i] /\ g[i] = Def(g, i)
        <5>. HIDE DEF Def, h
        <5>. QED
          BY <2>2, <4>0
      <4>2. i # 0 => h[i - 1] = g[i - 1]
        BY <1>2, <3>2
      <4>. QED
        BY <4>1, <4>2
    <3>. QED
      BY <3>1, <3>2
  <2>3a. h = [i \in 0..(n + 1) |-> h[i]]
    OBVIOUS
  <2>. HIDE DEF Def, h
  <2>4. Good(h, n + 1)
    BY <2>3, <2>3a
  <2>. QED
    BY <2>4
<1>3. PICK g : Good(g, Len(s))
  <2>. HIDE DEF N
  <2>1. N = Nat
    BY <1>1, <1>2, Induction DEF N
  <2>. QED
    BY <2>1 DEF N
<1>. DEFINE F == CHOOSE h : h = [i \in 0..Len(s) |-> Def(h, i)]
<1>4. F = [i \in 0..Len(s) |-> Def(F, i)]
  <2>1. g = [i \in 0..Len(s) |-> Def(g, i)]
    BY <1>3
  <2>. HIDE DEF Def
  <2>. QED
    BY <2>1
<1>5. Left(s, S) = F[Len(s)]
  BY DEF Left
<1>. HIDE DEF F
<1>. DEFINE M == {n \in Nat : n <= Len(s) => \E f : Kept(s, S, n, F[n], f)}
<1>6. 0 \in M
  <2>1. F[0] = << >>
    BY <1>4
  <2>2. Kept(s, S, 0, << >>, << >>)
    BY DEF Kept
  <2>. QED
    BY <2>1, <2>2
<1>7. ASSUME NEW n \in M
      PROVE  n + 1 \in M
  <2>1. SUFFICES ASSUME n + 1 <= Len(s) PROVE \E f : Kept(s, S, n + 1, F[n + 1], f)
    BY <1>7
  <2>2. PICK f : Kept(s, S, n, F[n], f)
    BY <1>7, <2>1
  <2>3. F[n + 1] = IF s[n + 1] \in S THEN F[n] ELSE Append(F[n], s[n + 1])
    <3>1. n + 1 \in 0..Len(s) /\ n + 1 # 0 /\ (n + 1) - 1 = n
      BY <1>7, <2>1
    <3>2. F[n + 1] = Def(F, n + 1)
      <4>. HIDE DEF Def
      <4>. QED
        BY <1>4, <3>1
    <3>. QED
      BY <3>1, <3>2
  <2>. QED
    BY <1>7, <2>1, <2>2, <2>3, KeptNext
<1>8. M = Nat
  <2>. HIDE DEF M
  <2>. QED
    BY <1>6, <1>7, Induction DEF M
<1>. QED
  BY <1>5, <1>8

\* What comes before what, in a sequence without repetitions.
LEMMA OrderedIs ==
  ASSUME NEW s \in Seq(Tasks), IsInjective(s)
  PROVE  /\ \A a, b \in Tasks : <<a, b>> \in Ordered(s) => a \in Range(s) /\ b \in Range(s)
         /\ \A a, b \in Tasks : <<a, b>> \in Ordered(s) => a # b /\ <<b, a>> \notin Ordered(s)
         /\ \A a, b \in Range(s) : a = b \/ <<a, b>> \in Ordered(s) \/ <<b, a>> \in Ordered(s)
         /\ \A a, b, c \in Tasks : <<a, b>> \in Ordered(s) /\ <<b, c>> \in Ordered(s)
                                     => <<a, c>> \in Ordered(s)
         /\ Range(s) \subseteq Tasks
         /\ \A i, j \in 1..Len(s) : <<s[i], s[j]>> \in Ordered(s) <=> i < j
<1>1. \A i, j \in 1..Len(s) : s[i] = s[j] => i = j
  BY DEF IsInjective
<1>2. \A i \in 1..Len(s) : s[i] \in Tasks
  OBVIOUS
<1>3. \A i, j \in 1..Len(s) : <<s[i], s[j]>> \in Ordered(s) <=> i < j
  BY <1>1, <1>2 DEF Ordered
<1>4. \A a, b \in Tasks : <<a, b>> \in Ordered(s) =>
        \E i, j \in 1..Len(s) : i < j /\ s[i] = a /\ s[j] = b
  BY DEF Ordered
<1>5. Range(s) = {s[i] : i \in 1..Len(s)}
  BY DEF Range
<1>. HIDE DEF Ordered, Range, IsInjective
<1>6. \A a, b, c \in Tasks : <<a, b>> \in Ordered(s) /\ <<b, c>> \in Ordered(s)
                                     => <<a, c>> \in Ordered(s)
  <2>. TAKE a, b, c \in Tasks
  <2>. HAVE <<a, b>> \in Ordered(s) /\ <<b, c>> \in Ordered(s)
  <2>1. PICK i, j \in 1..Len(s) : i < j /\ s[i] = a /\ s[j] = b
    BY <1>4
  <2>2. PICK k, l \in 1..Len(s) : k < l /\ s[k] = b /\ s[l] = c
    BY <1>4
  <2>3. j = k
    BY <1>1, <2>1, <2>2
  <2>4. i < l
    BY <2>1, <2>2, <2>3
  <2>. QED
    BY <1>3, <2>1, <2>2, <2>4
<1>7. \A a, b \in Range(s) : a = b \/ <<a, b>> \in Ordered(s) \/ <<b, a>> \in Ordered(s)
  <2>. TAKE a, b \in Range(s)
  <2>1. PICK i, j \in 1..Len(s) : s[i] = a /\ s[j] = b
    BY <1>5
  <2>2. i < j \/ j < i \/ i = j
    OBVIOUS
  <2>. QED
    BY <1>3, <2>1, <2>2
<1>8. \A a, b \in Tasks : <<a, b>> \in Ordered(s) => a # b /\ <<b, a>> \notin Ordered(s)
  <2>. TAKE a, b \in Tasks
  <2>. HAVE <<a, b>> \in Ordered(s)
  <2>1. PICK i, j \in 1..Len(s) : i < j /\ s[i] = a /\ s[j] = b
    BY <1>4
  <2>. QED
    BY <1>1, <1>3, <2>1
<1>. QED
  BY <1>2, <1>3, <1>4, <1>5, <1>6, <1>7, <1>8

\* Left takes just the elements in S out of the sequence, and out of its order.
LEMMA LeftOrdered ==
  ASSUME NEW s \in Seq(Tasks), IsInjective(s), NEW S
  PROVE  /\ Left(s, S) \in Seq(Tasks) /\ IsInjective(Left(s, S))
         /\ Range(Left(s, S)) = Range(s) \ S
         /\ Ordered(Left(s, S)) = {p \in Ordered(s) : p[1] \notin S /\ p[2] \notin S}
<1>. DEFINE r == Left(s, S)
<1>1. PICK f : Kept(s, S, Len(s), r, f)
  BY LeftIs
<1>. HIDE DEF r
<1>2. /\ r \in Seq(Tasks) /\ f \in [1..Len(r) -> 1..Len(s)] /\ Len(r) \in Nat
      /\ \A i \in 1..Len(r) : r[i] = s[f[i]] /\ r[i] \notin S
      /\ \A i, j \in 1..Len(r) : i < j => f[i] < f[j]
      /\ \A k \in 1..Len(s) : s[k] \notin S => \E i \in 1..Len(r) : f[i] = k
  BY <1>1 DEF Kept
<1>3. \A i, j \in 1..Len(s) : s[i] = s[j] => i = j
  BY DEF IsInjective
<1>4. \A i, j \in 1..Len(r) : f[i] < f[j] => i < j
  <2>. TAKE i, j \in 1..Len(r)
  <2>1. i < j \/ i = j \/ j < i
    BY <1>2
  <2>2. f[i] \in Int /\ f[j] \in Int
    BY <1>2
  <2>. QED
    BY <1>2, <2>1, <2>2
<1>5. \A i, j \in 1..Len(r) : r[i] = r[j] => i = j
  <2>. TAKE i, j \in 1..Len(r)
  <2>. HAVE r[i] = r[j]
  <2>0. f[i] \in 1..Len(s) /\ f[j] \in 1..Len(s) /\ s[f[i]] = s[f[j]]
    BY <1>2
  <2>1. f[i] = f[j] /\ f[i] \in Int
    BY <1>3, <2>0
  <2>2. i < j \/ i = j \/ j < i
    BY <1>2
  <2>. QED
    BY <1>2, <2>1, <2>2
<1>6. IsInjective(r)
  BY <1>2, <1>5 DEF IsInjective
<1>7. Range(r) = Range(s) \ S
  <2>1. Range(r) = {r[i] : i \in 1..Len(r)} /\ Range(s) = {s[i] : i \in 1..Len(s)}
    BY <1>2 DEF Range
  <2>2. \A x \in Range(r) : x \in Range(s) \ S
    BY <1>2, <2>1
  <2>3. ASSUME NEW x \in Range(s) \ S PROVE x \in Range(r)
    <3>1. PICK k \in 1..Len(s) : s[k] = x
      BY <2>1
    <3>2. PICK i \in 1..Len(r) : f[i] = k
      BY <1>2, <3>1
    <3>. QED
      BY <1>2, <2>1, <3>1, <3>2
  <2>. QED
    BY <2>2, <2>3
<1>8. \A a, b \in Tasks :
        <<a, b>> \in Ordered(r) <=> <<a, b>> \in Ordered(s) /\ a \notin S /\ b \notin S
  <2>. TAKE a, b \in Tasks
  <2>1. ASSUME <<a, b>> \in Ordered(r)
        PROVE  <<a, b>> \in Ordered(s) /\ a \notin S /\ b \notin S
    <3>1. PICK i, j \in 1..Len(r) : i < j /\ r[i] = a /\ r[j] = b
      BY <2>1 DEF Ordered
    <3>2. f[i] \in 1..Len(s) /\ f[j] \in 1..Len(s) /\ f[i] < f[j]
      BY <1>2, <3>1
    <3>. QED
      BY <1>2, <3>1, <3>2 DEF Ordered
  <2>2. ASSUME <<a, b>> \in Ordered(s), a \notin S, b \notin S
        PROVE  <<a, b>> \in Ordered(r)
    <3>1. PICK k, l \in 1..Len(s) : k < l /\ s[k] = a /\ s[l] = b
      BY <2>2 DEF Ordered
    <3>2. PICK i \in 1..Len(r) : f[i] = k
      BY <1>2, <2>2, <3>1
    <3>3. PICK j \in 1..Len(r) : f[j] = l
      BY <1>2, <2>2, <3>1
    <3>. QED
      BY <1>2, <1>4, <3>1, <3>2, <3>3 DEF Ordered
  <2>. QED
    BY <2>1, <2>2
<1>9. Ordered(r) = {p \in Ordered(s) : p[1] \notin S /\ p[2] \notin S}
  <2>1. Ordered(r) \subseteq Tasks \X Tasks /\ Ordered(s) \subseteq Tasks \X Tasks
    BY DEF Ordered
  <2>. HIDE DEF Ordered
  <2>2. \A p \in Tasks \X Tasks : p = <<p[1], p[2]>> /\ p[1] \in Tasks /\ p[2] \in Tasks
    OBVIOUS
  <2>3. \A p \in Tasks \X Tasks :
          p \in Ordered(r) <=> p \in Ordered(s) /\ p[1] \notin S /\ p[2] \notin S
    BY <1>8, <2>2
  <2>. QED
    BY <2>1, <2>3
<1>. QED
  BY <1>2, <1>6, <1>7, <1>9 DEF r

\* A new element comes after all others (the end of used in helpers_do_task).
LEMMA AppendOrdered ==
  ASSUME NEW s \in Seq(Tasks), IsInjective(s), NEW t \in Tasks \ Range(s)
  PROVE  /\ Append(s, t) \in Seq(Tasks) /\ IsInjective(Append(s, t))
         /\ Range(Append(s, t)) = Range(s) \union {t}
         /\ Ordered(Append(s, t)) = Ordered(s) \union {<<a, t>> : a \in Range(s)}
<1>. DEFINE r == Append(s, t)
<1>1. r \in Seq(Tasks) /\ Len(r) = Len(s) + 1 /\ r[Len(s) + 1] = t
      /\ (\A i \in 1..Len(s) : r[i] = s[i]) /\ Len(s) \in Nat
  OBVIOUS
<1>. HIDE DEF r
<1>2. Range(r) = {r[i] : i \in 1..Len(r)} /\ Range(s) = {s[i] : i \in 1..Len(s)}
  BY <1>1 DEF Range
<1>3. \A i, j \in 1..Len(s) : s[i] = s[j] => i = j
  BY DEF IsInjective
<1>4. \A i \in 1..Len(r) : i = Len(s) + 1 \/ i \in 1..Len(s)
  BY <1>1
<1>5. Range(r) = Range(s) \union {t}
  BY <1>1, <1>2, <1>4
<1>6. \A i, j \in 1..Len(r) : r[i] = r[j] => i = j
  BY <1>1, <1>2, <1>3, <1>4
<1>7. IsInjective(r)
  BY <1>1, <1>6 DEF IsInjective
<1>8. \A a, b \in Tasks :
        <<a, b>> \in Ordered(r) <=> <<a, b>> \in Ordered(s) \/ (b = t /\ a \in Range(s))
  <2>. TAKE a, b \in Tasks
  <2>1. ASSUME <<a, b>> \in Ordered(r)
        PROVE  <<a, b>> \in Ordered(s) \/ (b = t /\ a \in Range(s))
    <3>1. PICK i, j \in 1..Len(r) : i < j /\ r[i] = a /\ r[j] = b
      BY <2>1 DEF Ordered
    <3>2. i \in 1..Len(s)
      BY <1>1, <3>1
    <3>3. CASE j \in 1..Len(s)
      BY <1>1, <3>1, <3>2, <3>3 DEF Ordered
    <3>4. CASE j = Len(s) + 1
      BY <1>1, <1>2, <3>1, <3>2, <3>4
    <3>. QED
      BY <1>4, <3>3, <3>4
  <2>2. ASSUME <<a, b>> \in Ordered(s) PROVE <<a, b>> \in Ordered(r)
    <3>1. PICK i, j \in 1..Len(s) : i < j /\ s[i] = a /\ s[j] = b
      BY <2>2 DEF Ordered
    <3>2. i \in 1..Len(r) /\ j \in 1..Len(r)
      BY <1>1
    <3>. QED
      BY <1>1, <3>1, <3>2 DEF Ordered
  <2>3. ASSUME b = t, a \in Range(s) PROVE <<a, b>> \in Ordered(r)
    <3>1. PICK i \in 1..Len(s) : s[i] = a
      BY <1>2, <2>3
    <3>2. i \in 1..Len(r) /\ Len(s) + 1 \in 1..Len(r) /\ i < Len(s) + 1
      BY <1>1
    <3>. QED
      BY <1>1, <2>3, <3>1, <3>2 DEF Ordered
  <2>. QED
    BY <2>1, <2>2, <2>3
<1>9. Ordered(r) = Ordered(s) \union {<<a, t>> : a \in Range(s)}
  <2>1. Ordered(r) \subseteq Tasks \X Tasks /\ Ordered(s) \subseteq Tasks \X Tasks
    BY DEF Ordered
  <2>2. \A a \in Range(s) : a \in Tasks
    BY <1>2
  <2>. HIDE DEF Ordered
  <2>3. \A p \in Tasks \X Tasks : p = <<p[1], p[2]>> /\ p[1] \in Tasks /\ p[2] \in Tasks
    OBVIOUS
  <2>4. \A p \in Tasks \X Tasks :
          p \in Ordered(r) <=> p \in Ordered(s) \/ (p[2] = t /\ p[1] \in Range(s))
    BY <1>8, <2>3
  <2>5. {<<a, t>> : a \in Range(s)} \subseteq Tasks \X Tasks
    BY <2>2
  <2>6. \A p \in Tasks \X Tasks :
          p \in {<<a, t>> : a \in Range(s)} <=> (p[2] = t /\ p[1] \in Range(s))
    BY <2>3
  <2>. QED
    BY <2>1, <2>4, <2>5, <2>6
<1>. QED
  BY <1>1, <1>5, <1>7, <1>9 DEF r

\* The tasks in the table, and which was scheduled before which.
InTable == Range(used)
Order == Ordered(used)

\* What a task computes and what else it takes, and how far it is.
Out(t) == task[t].var[0]
OtherInputs(t) == Inputs(task[t]) \ {Out(t)}
Computed(t) == task[t].stage \in {"computed", "done"}
Unfinished(t) == task[t].stage \in {"waiting", "running"}

\* The earlier tasks that compute v.
Writers(v, b) == {a \in Tasks : <<a, b>> \in Order /\ v # Null /\ Out(a) = v}

\* p is the last of the earlier tasks that compute input w of b.
PipedFrom(p, w, b) ==
  /\ p \in Writers(task[b].var[w], b)
  /\ \A a \in Writers(task[b].var[w], b) : a = p \/ <<a, p>> \in Order

\* The pipe field of b is right for variable w, ...
PipeOK(b, w) ==
  \/ task[b].pipe[w] = None /\ \A a \in Writers(task[b].var[w], b) : Computed(a)
  \/ PipedFrom(task[b].pipe[w], w, b)

\* ... and so are all.
PipeInv == \A b \in InTable, w \in 0..2 : PipeOK(b, w)

\* A task whose output is read, or updated, in the table is noted as such.
UsedInv ==
  /\ \A b \in InTable, w \in 0..2 : task[b].pipe[w] # None => task[task[b].pipe[w]].out_used
  /\ \A a, b \in Tasks : <<a, b>> \in Order /\ Out(a) = Out(b) /\ Out(a) # Null => task[a].out_used

\* a and b run at the same time, a giving b what it computes of v.
Pipelined(a, b, v) ==
  /\ task[a].stage = "running" /\ "PIPE_OUT" \in task[a].flags /\ task[b].stage = "running"
  /\ \A w \in 0..2 : task[b].var[w] = v => PipeIn(w) \in task[b].flags

\* A task that has started has got, or gets, every input from every earlier task.
StartInv == \A a, b \in Tasks : \A w \in 0..2 :
  <<a, b>> \in Order /\ task[b].var[w] = Out(a) /\ Out(a) # Null /\ task[b].stage # "waiting" =>
     Computed(a) \/ Pipelined(a, b, Out(a))

\* A task that updates a variable is scheduled only after those that use it are done.
AntiInv == \A a, b \in Tasks :
  <<a, b>> \in Order /\ Out(b) \in OtherInputs(a) => Done(a)

\* The marks of variables in use are on for the tasks that use them and no others.
UseInv ==
  /\ \A a \in InTable : ~Done(a) => OtherInputs(a) \subseteq in_use
  /\ \A v \in in_use : \E a \in InTable : v \in OtherInputs(a)

\* An input that was not in use before a task is not one of an earlier task.
BeforeInv == \A a, b \in Tasks : \A w \in 1..2 :
  <<a, b>> \in Order /\ task[b].not_in_use_before[w] /\ ~Done(a) =>
    task[b].var[w] \notin OtherInputs(a)

\* The variables tasks have not computed yet are so marked, but for the one that a
\* master-now task has taken over.
ComputeInv == \A a \in InTable : Unfinished(a) /\ Out(a) \notin being_computed \union {Null} =>
                 call.op = "no_merge" /\ Out(a) = kind.var[0]

\* No mark of being computed is left over.
EndInv == \A v \in being_computed : \E a \in InTable : Out(a) = v

\* A task waits in the queue where its flags put it.
QueueInv ==
  /\ untaken \intersect on_hold = {}
  /\ IsInjective(master_only)
  /\ \A t \in Tasks : t \in untaken \union on_hold <=>
        t \in InTable /\ task[t].stage = "waiting" /\ "MASTER_ONLY" \notin task[t].flags
  /\ \A t \in Tasks : t \in Range(master_only) <=>
        t \in InTable /\ task[t].stage = "waiting" /\ "MASTER_ONLY" \in task[t].flags

\* A free index is as at first.
IdleInv == \A t \in Tasks \ InTable : task[t].stage = "waiting"

\* What the master is in the middle of, and where it may be then.
Scheduling == call.op \in {"do_task", "no_merge"}
Now == "MASTER_NOW" \in kind.flags

\* Which call is under way where the master is, and what it schedules then.
CallInv ==
  /\ pc = "app" => call = Idle
  /\ pc # "exit"
  /\ pc \in {"full", "fill"} => call.op = "do_task" /\ ~Now
  /\ pc = "now" => Scheduling /\ Now
  /\ pc = "called" => call.op \in {"do_task", "no_merge", "computed", "not_in_use"}
  /\ pc = "starting" => call.op = "start"
  /\ pc = "needed" /\ Scheduling => Now
  /\ Now => Scheduling
  /\ call.op = "no_merge" => Now
  /\ Scheduling => kind.var[0] \notin in_use
  /\ call.op = "do_task" => ~({"MERGE_IN", "MASTER_ONLY"} \subseteq kind.flags)
  /\ call.op = "do_task" /\ ForMaster => "HOLD" \notin kind.flags

\* The tasks that a master-now task takes input from are needed; when it is done those left
\* in the table have at least started to give it.
NeededInv ==
  pc \in {"needed", "now"} /\ Scheduling =>
     \A a \in InTable, w \in 0..2 : Out(a) = kind.var[w] /\ Out(a) # Null =>
        /\ task[a].needed # 0
        /\ task[a].needed = -1 => "PIPE_OUT" \in task[a].flags /\ PipeIn(w) \in kind.flags
        /\ pc = "now" => task[a].needed = -1 /\ task[a].stage # "waiting"

\* The tasks waited for are needed.
WaitInv ==
  pc = "needed" => \A a \in InTable :
     /\ call.op = "computed" /\ Out(a) \in call.vs => task[a].needed = 1
     /\ call.op = "not_in_use" /\ OtherInputs(a) \intersect call.vs # {} => task[a].needed = 1
     /\ call.op = "all" => task[a].needed = 1

\* What does not depend on the call under way.
TableInv == /\ TypeOK /\ PipeInv /\ UsedInv /\ StartInv /\ AntiInv /\ UseInv /\ BeforeInv
            /\ EndInv /\ QueueInv /\ IdleInv

\* The inductive invariant.
IInv == TableInv /\ ComputeInv /\ CallInv /\ NeededInv /\ WaitInv

\* What the type invariant says of an entry of the table.
Entries ==
  [var : [0..2 -> Vars \union {Null}], flags : SUBSET Flags,
        stage : {"waiting", "running", "computed", "done"},
        ops : 1..MaxOpsMerged,
        pipe : [0..2 -> Tasks \union {None}], needed : {-1, 0, 1},
        out_used : BOOLEAN, not_in_use_before : [1..2 -> BOOLEAN]]

\* What the assumption on the constants says of None and Null.
LEMMA NoneIs == None \notin Tasks /\ Null \notin Vars /\ IsFiniteSet(Tasks)
  BY ConstantsAssumption

\* The table: what is in used, and in which order.
LEMMA TableIs ==
  ASSUME TypeOK
  PROVE  /\ InTable \subseteq Tasks /\ task \in [Tasks -> Entries]
         /\ used \in Seq(Tasks) /\ IsInjective(used) /\ Len(used) \in Nat
         /\ InTable = {used[i] : i \in 1..Len(used)}
         /\ \A i, j \in 1..Len(used) : <<used[i], used[j]>> \in Order <=> i < j
<1>1. used \in Seq(Tasks) /\ IsInjective(used) /\ task \in [Tasks -> Entries]
  BY DEF TypeOK, Entries
<1>2. InTable \subseteq Tasks /\ \A i, j \in 1..Len(used) : <<used[i], used[j]>> \in Order <=> i < j
  BY <1>1, OrderedIs DEF InTable, Order
<1>. QED
  BY <1>1, <1>2 DEF InTable, Range

\* Order orders the tasks in the table.
LEMMA OrderIs ==
  ASSUME TypeOK
  PROVE  /\ \A a, b \in Tasks : <<a, b>> \in Order =>
              a \in InTable /\ b \in InTable /\ a # b /\ <<b, a>> \notin Order
         /\ \A a, b \in InTable : a = b \/ <<a, b>> \in Order \/ <<b, a>> \in Order
         /\ \A a, b, c \in Tasks : <<a, b>> \in Order /\ <<b, c>> \in Order => <<a, c>> \in Order
<1>1. used \in Seq(Tasks) /\ IsInjective(used)
  BY DEF TypeOK
<1>. QED
  BY <1>1, OrderedIs DEF InTable, Order

\* Where a task is in used.
LEMMA PositionIs ==
  ASSUME TypeOK, NEW i \in 1..Len(used)
  PROVE  Position(used[i]) = i
<1>1. \A k \in 1..Len(used) : used[k] = used[i] => k = i
  BY TableIs DEF IsInjective
<1>. QED
  BY <1>1 DEF Position, helpers_tasks

\* The task scheduled last of those that compute v.
LastWriter(p, v) ==
  /\ p \in InTable /\ v # Null /\ Out(p) = v
  /\ \A a \in InTable : Out(a) = v => a = p \/ <<a, p>> \in Order

\* Writer finds the task scheduled last of those that compute v, if there is one.
LEMMA WriterIs ==
  ASSUME TypeOK, NEW v
  PROVE  \/ /\ Writer(v) = None
            /\ v = Null \/ \A a \in InTable : Out(a) # v
         \/ LastWriter(Writer(v), v)
<1>. DEFINE at == {i \in 1..helpers_tasks : At(i).var[0] = v}
<1>1. Writer(v) = IF v = Null \/ at = {} THEN None ELSE used[Max(at)]
  BY DEF Writer
<1>2. at = {i \in 1..Len(used) : Out(used[i]) = v}
  BY DEF At, Out, helpers_tasks
<1>3. Len(used) \in Nat /\ InTable = {used[i] : i \in 1..Len(used)}
  BY TableIs
<1>4. CASE v = Null \/ at = {}
  BY <1>1, <1>2, <1>3, <1>4
<1>5. CASE v # Null /\ at # {}
  <2>1. Max(at) \in at /\ \A x \in at : x <= Max(at)
    <3>1. at \in SUBSET (1..Len(used))
      BY <1>2
    <3>. HIDE DEF at
    <3>. QED
      BY <1>3, <1>5, <3>1, MaxOf
  <2>. DEFINE m == Max(at)
  <2>2. m \in 1..Len(used) /\ Out(used[m]) = v
    BY <1>2, <2>1
  <2>3. Writer(v) = used[m]
    BY <1>1, <1>5
  <2>4. ASSUME NEW a \in InTable, Out(a) = v
        PROVE  a = used[m] \/ <<a, used[m]>> \in Order
    <3>1. PICK i \in 1..Len(used) : a = used[i]
      BY <1>3
    <3>2. i <= m
      BY <1>2, <2>1, <2>4, <3>1
    <3>. HIDE DEF m
    <3>3. i = m \/ i < m
      BY <1>3, <2>2, <3>2
    <3>. QED
      BY <2>2, <3>1, <3>3, TableIs
  <2>. HIDE DEF m, at
  <2>5. LastWriter(used[m], v)
    BY <1>3, <1>5, <2>2, <2>4 DEF LastWriter
  <2>. QED
    BY <2>3, <2>5
<1>. QED
  BY <1>4, <1>5

\* b may read what a computes: it comes after a, and no task in between updates it.
Reads(b, a) ==
  /\ task[a].out_used /\ <<a, b>> \in Order
  /\ \A k \in InTable : <<a, k>> \in Order /\ <<k, b>> \in Order => task[k].pipe[0] # a

\* Readers, by tasks rather than positions.
LEMMA ReadersIs ==
  ASSUME TypeOK, NEW i \in 1..Len(used), NEW j \in 1..Len(used)
  PROVE  j \in Readers(i) <=> Reads(used[j], used[i])
<1>1. Len(used) \in Nat /\ InTable = {used[k] : k \in 1..Len(used)}
      /\ \A k, l \in 1..Len(used) : <<used[k], used[l]>> \in Order <=> k < l
  BY TableIs
<1>2. j \in Readers(i) <=> /\ task[used[i]].out_used /\ i < j
                           /\ \A k \in (i + 1)..(j - 1) : task[used[k]].pipe[0] # used[i]
  BY <1>1 DEF Readers, At, helpers_tasks
<1>3. (\A k \in (i + 1)..(j - 1) : task[used[k]].pipe[0] # used[i])
         <=> \A k \in InTable : <<used[i], k>> \in Order /\ <<k, used[j]>> \in Order =>
                task[k].pipe[0] # used[i]
  <2>1. ASSUME \A k \in (i + 1)..(j - 1) : task[used[k]].pipe[0] # used[i],
               NEW k \in InTable, <<used[i], k>> \in Order, <<k, used[j]>> \in Order
        PROVE  task[k].pipe[0] # used[i]
    <3>1. PICK l \in 1..Len(used) : k = used[l]
      BY <1>1
    <3>2. i < l /\ l < j
      BY <1>1, <2>1, <3>1
    <3>3. l \in (i + 1)..(j - 1)
      BY <3>2
    <3>. QED
      BY <2>1, <3>1, <3>3
  <2>2. ASSUME \A k \in InTable : <<used[i], k>> \in Order /\ <<k, used[j]>> \in Order =>
                 task[k].pipe[0] # used[i],
               NEW k \in (i + 1)..(j - 1)
        PROVE  task[used[k]].pipe[0] # used[i]
    <3>1. k \in 1..Len(used) /\ i < k /\ k < j
      BY <1>1
    <3>. QED
      BY <1>1, <2>2, <3>1
  <2>. QED
    BY <2>1, <2>2
<1>. QED
  BY <1>1, <1>2, <1>3 DEF Reads

\* What the type invariant says of the call, ...
CallTypes ==
  /\ pc \in {"app", "called", "full", "fill", "needed", "now", "starting", "exit"}
  /\ call \in [op : {"none", "do_task", "no_merge", "computed", "not_in_use",
                     "all", "start"},
               kind : TaskKinds, ops : 1..MaxOpsMerged, vs : SUBSET Vars]

\* What maybe_mark_not_in_use unmarks: the inputs of the task that no other in the table
\* uses that is not done.  Not to look at earlier ones is right by BeforeInv.
LEMMA UnmarkIs ==
  ASSUME TypeOK, BeforeInv, NEW i \in 1..Len(used), NEW v
  PROVE  v \in maybe_mark_not_in_use(i) <=>
           /\ v \in OtherInputs(used[i])
           /\ \A b \in InTable : b # used[i] /\ v \in OtherInputs(b) => Done(b)
<1>. DEFINE a == used[i]
            From(x) == IF At(i).not_in_use_before[x] THEN i + 1 ELSE 1
            Free(x) == \A j \in From(x)..helpers_tasks :
                         j # i /\ At(i).var[x] \in Inputs(At(j)) \ {At(j).var[0]} => Done(used[j])
<1>1. Len(used) \in Nat /\ InTable = {used[k] : k \in 1..Len(used)} /\ InTable \subseteq Tasks
      /\ \A k, l \in 1..Len(used) : <<used[k], used[l]>> \in Order <=> k < l
  BY TableIs
<1>2. \A k, l \in 1..Len(used) : used[k] = used[l] => k = l
  BY TableIs DEF IsInjective
<1>3. v \in maybe_mark_not_in_use(i) <=>
        \E x \in 1..2 : v = At(i).var[x] /\ v \notin {Null, At(i).var[0]} /\ Free(x)
  BY DEF maybe_mark_not_in_use
<1>4. \A k \in 1..Len(used) : Inputs(At(k)) \ {At(k).var[0]} = OtherInputs(used[k])
  BY DEF At, OtherInputs, Out
<1>5. v \in OtherInputs(a) <=> \E x \in 1..2 : v = At(i).var[x] /\ v \notin {Null, At(i).var[0]}
  BY DEF OtherInputs, Inputs, Out, At
<1>6. ASSUME NEW x \in 1..2, v = At(i).var[x], v \in OtherInputs(a)
      PROVE  Free(x) <=> \A b \in InTable : b # a /\ v \in OtherInputs(b) => Done(b)
  <2>1. ASSUME Free(x), NEW b \in InTable, b # a, v \in OtherInputs(b)
        PROVE  Done(b)
    <3>1. PICK j \in 1..Len(used) : b = used[j]
      BY <1>1
    <3>2. j # i
      BY <2>1, <3>1
    <3>3. CASE j \in From(x)..helpers_tasks
      BY <1>4, <1>6, <2>1, <3>1, <3>2, <3>3
    <3>4. CASE j \notin From(x)..helpers_tasks
      <4>1. At(i).not_in_use_before[x] /\ j < i
        BY <1>1, <3>2, <3>4 DEF helpers_tasks
      <4>2. <<b, a>> \in Order /\ a \in Tasks /\ b \in Tasks
        BY <1>1, <3>1, <4>1
      <4>. QED
        BY <1>6, <2>1, <4>1, <4>2 DEF BeforeInv, At
    <3>. QED
      BY <3>3, <3>4
  <2>2. ASSUME \A b \in InTable : b # a /\ v \in OtherInputs(b) => Done(b),
               NEW j \in From(x)..helpers_tasks, j # i,
               At(i).var[x] \in Inputs(At(j)) \ {At(j).var[0]}
        PROVE  Done(used[j])
    <3>1. j \in 1..Len(used)
      BY <1>1 DEF helpers_tasks
    <3>. QED
      BY <1>1, <1>2, <1>4, <1>6, <2>2, <3>1
  <2>. QED
    BY <2>1, <2>2
<1>. HIDE DEF Free
<1>. QED
  BY <1>3, <1>5, <1>6

\* The tasks that notice_completed takes out of the table.
Finished == {a \in InTable : Done(a)}

\* A task that takes its input from one that is finished is one of its readers.
LEMMA PipedReads ==
  ASSUME TypeOK, PipeInv, UsedInv, NEW b \in InTable, NEW w \in 0..2, task[b].pipe[w] # None
  PROVE  /\ task[b].pipe[w] \in InTable /\ Reads(b, task[b].pipe[w])
         /\ PipedFrom(task[b].pipe[w], w, b)
<1>. DEFINE p == task[b].pipe[w]
<1>1. PipedFrom(p, w, b)
  BY DEF PipeInv, PipeOK
<1>2. <<p, b>> \in Order /\ p \in Tasks /\ Out(p) = task[b].var[w] /\ Out(p) # Null
  BY <1>1 DEF PipedFrom, Writers
<1>3. task[p].out_used
  BY DEF UsedInv
<1>4. p \in InTable /\ InTable \subseteq Tasks
  BY <1>2, OrderIs, TableIs
<1>5. ASSUME NEW k \in InTable, <<p, k>> \in Order, <<k, b>> \in Order, task[k].pipe[0] = p
      PROVE  FALSE
  <2>1. PipedFrom(p, 0, k)
    BY <1>4, <1>5, NoneIs DEF PipeInv, PipeOK
  <2>2. Out(k) = Out(p)
    BY <2>1 DEF PipedFrom, Writers, Out
  <2>3. k \in Writers(task[b].var[w], b)
    BY <1>2, <1>4, <1>5, <2>2 DEF Writers
  <2>4. k = p \/ <<k, p>> \in Order
    BY <1>1, <2>3 DEF PipedFrom
  <2>. QED
    BY <1>2, <1>4, <1>5, <2>4, OrderIs
<1>. QED
  BY <1>1, <1>2, <1>3, <1>4, <1>5 DEF Reads

\* What notice_completed does to the table.
LEMMA NoticeTable ==
  ASSUME TableInv, NoticeCompleted
  PROVE  /\ used' \in Seq(Tasks) /\ IsInjective(used') /\ InTable' = InTable \ Finished
         /\ Order' = {p \in Order : p[1] \notin Finished /\ p[2] \notin Finished}
         /\ task' \in [Tasks -> Entries]
         /\ \A t \in Tasks \ InTable' : task'[t] = Blank
         /\ \A t \in InTable' : task'[t] = [task[t] EXCEPT !.pipe =
              [w \in 0..2 |-> IF task[t].pipe[w] \in Finished THEN None ELSE task[t].pipe[w]]]
<1>. DEFINE done == {i \in 1..helpers_tasks : Done(used[i])}
            finished == {used[i] : i \in done}
            Cleared(t, p) == \E i \in done : used[i] = p /\ Position(t) \in Readers(i)
<1>0. TypeOK /\ PipeInv /\ UsedInv
  BY DEF TableInv
<1>1. /\ InTable \subseteq Tasks /\ task \in [Tasks -> Entries]
      /\ used \in Seq(Tasks) /\ IsInjective(used) /\ Len(used) \in Nat
      /\ InTable = {used[i] : i \in 1..Len(used)}
  BY <1>0, TableIs
<1>2. finished = Finished
  BY <1>1 DEF Finished, helpers_tasks
<1>3. used' = Left(used, finished)
      /\ task' = [t \in Tasks |->
           IF t \in finished \/ t \notin Range(used) THEN Blank
           ELSE [task[t] EXCEPT !.pipe =
                   [w \in 0..2 |-> IF Cleared(t, @[w]) THEN None ELSE @[w]]]]
  BY DEF NoticeCompleted
<1>4. /\ used' \in Seq(Tasks) /\ IsInjective(used') /\ InTable' = InTable \ Finished
      /\ Order' = {p \in Order : p[1] \notin Finished /\ p[2] \notin Finished}
  <2>. HIDE DEF finished
  <2>1. used' = Left(used, Finished)
    BY <1>2, <1>3
  <2>2. /\ Left(used, Finished) \in Seq(Tasks) /\ IsInjective(Left(used, Finished))
        /\ Range(Left(used, Finished)) = Range(used) \ Finished
        /\ Ordered(Left(used, Finished)) =
              {p \in Ordered(used) : p[1] \notin Finished /\ p[2] \notin Finished}
    BY <1>1, LeftOrdered
  <2>. QED
    BY <2>1, <2>2 DEF InTable, Order
<1>5. ASSUME NEW t \in InTable, NEW w \in 0..2
      PROVE  Cleared(t, task[t].pipe[w]) <=> task[t].pipe[w] \in Finished
  <2>1. PICK j \in 1..Len(used) : t = used[j]
    BY <1>1
  <2>2. Position(t) = j
    BY <1>0, <2>1, PositionIs
  <2>3. ASSUME NEW p \in Finished, task[t].pipe[w] = p
        PROVE  Cleared(t, p)
    <3>1. PICK i \in done : p = used[i]
      BY <1>2
    <3>2. i \in 1..Len(used)
      BY DEF helpers_tasks
    <3>3. p # None
      BY <1>1, NoneIs DEF Finished
    <3>4. Reads(t, p)
      BY <1>0, <2>3, <3>3, PipedReads
    <3>5. j \in Readers(i)
      BY <1>0, <2>1, <3>1, <3>2, <3>4, ReadersIs
    <3>. QED
      BY <2>2, <3>1, <3>5
  <2>4. Cleared(t, task[t].pipe[w]) => task[t].pipe[w] \in Finished
    BY <1>2
  <2>. QED
    BY <2>3, <2>4
<1>6. \A t \in Tasks \ InTable' : task'[t] = Blank
  BY <1>2, <1>3, <1>4 DEF InTable
<1>7. ASSUME NEW t \in InTable'
      PROVE  task'[t] = [task[t] EXCEPT !.pipe =
              [w \in 0..2 |-> IF task[t].pipe[w] \in Finished THEN None ELSE task[t].pipe[w]]]
  <2>1. t \in InTable /\ t \notin finished /\ t \in Range(used) /\ t \in Tasks
    BY <1>1, <1>2, <1>4 DEF InTable
  <2>. HIDE DEF finished, Cleared
  <2>2. task'[t] = [task[t] EXCEPT !.pipe =
                   [w \in 0..2 |-> IF Cleared(t, task[t].pipe[w]) THEN None ELSE task[t].pipe[w]]]
    BY <1>3, <2>1
  <2>3. [w \in 0..2 |-> IF Cleared(t, task[t].pipe[w]) THEN None ELSE task[t].pipe[w]]
          = [w \in 0..2 |-> IF task[t].pipe[w] \in Finished THEN None ELSE task[t].pipe[w]]
    BY <1>5, <2>1
  <2>. QED
    BY <2>2, <2>3
<1>8. task' \in [Tasks -> Entries]
  <2>1. Blank \in Entries
    BY DEF Blank, Entries, NoKind, MaxOpsMerged
  <2>2. ASSUME NEW t \in InTable' PROVE task'[t] \in Entries
    <3>1. t \in Tasks
      BY <1>1, <1>4
    <3>2. task[t] \in Entries
      BY <1>1, <3>1
    <3>3. [w \in 0..2 |-> IF task[t].pipe[w] \in Finished THEN None ELSE task[t].pipe[w]]
             \in [0..2 -> Tasks \union {None}]
      BY <3>2 DEF Entries
    <3>. QED
      BY <1>7, <3>2, <3>3 DEF Entries
  <2>3. \A t \in Tasks : task'[t] \in Entries
    BY <1>6, <2>1, <2>2
  <2>. DEFINE new(t) == IF t \in finished \/ t \notin Range(used) THEN Blank
                        ELSE [task[t] EXCEPT !.pipe =
                          [w \in 0..2 |-> IF Cleared(t, @[w]) THEN None ELSE @[w]]]
  <2>4. task' = [t \in Tasks |-> new(t)]
    BY <1>3
  <2>. HIDE DEF new
  <2>. QED
    BY <2>3, <2>4
<1>. QED
  BY <1>4, <1>6, <1>7, <1>8

\* Some tasks in the table have a first ...
LEMMA FirstIn ==
  ASSUME TypeOK, NEW W \in SUBSET InTable, W # {}
  PROVE  \E b \in W : \A x \in W : x = b \/ <<b, x>> \in Order
<1>. DEFINE N == {i \in 1..Len(used) : used[i] \in W}
<1>1. InTable = {used[i] : i \in 1..Len(used)} /\ Len(used) \in Nat
      /\ \A i, j \in 1..Len(used) : <<used[i], used[j]>> \in Order <=> i < j
  BY TableIs
<1>2. N \in SUBSET Nat /\ N # {}
  BY <1>1
<1>3. PICK m \in N : \A i \in N : m <= i
  <2>. HIDE DEF N
  <2>. QED
    BY <1>2, LeastExists
<1>4. ASSUME NEW x \in W PROVE x = used[m] \/ <<used[m], x>> \in Order
  <2>1. PICK i \in 1..Len(used) : x = used[i]
    BY <1>1
  <2>2. m <= i
    BY <1>3, <2>1
  <2>3. m = i \/ m < i
    BY <2>2
  <2>. QED
    BY <1>1, <2>1, <2>3
<1>. QED
  BY <1>4

\* ... and a last.
LEMMA LastIn ==
  ASSUME TypeOK, NEW W \in SUBSET InTable, W # {}
  PROVE  \E b \in W : \A x \in W : x = b \/ <<x, b>> \in Order
<1>. DEFINE N == {i \in 1..Len(used) : used[i] \in W}
<1>1. InTable = {used[i] : i \in 1..Len(used)} /\ Len(used) \in Nat
      /\ \A i, j \in 1..Len(used) : <<used[i], used[j]>> \in Order <=> i < j
  BY TableIs
<1>2. N \in SUBSET (1..Len(used)) /\ N # {}
  BY <1>1
<1>3. Max(N) \in N /\ \A i \in N : i <= Max(N)
  <2>. HIDE DEF N
  <2>. QED
    BY <1>1, <1>2, MaxOf
<1>. DEFINE m == Max(N)
<1>4. m \in 1..Len(used) /\ used[m] \in W /\ \A i \in N : i <= m
  BY <1>3
<1>. HIDE DEF m
<1>5. ASSUME NEW x \in W PROVE x = used[m] \/ <<x, used[m]>> \in Order
  <2>1. PICK i \in 1..Len(used) : x = used[i]
    BY <1>1
  <2>2. i <= m
    BY <1>4, <2>1
  <2>3. m = i \/ i < m
    BY <1>4, <2>2
  <2>. QED
    BY <1>1, <1>4, <2>1, <2>3
<1>. QED
  BY <1>4, <1>5

\* Whether a task in the table that reads what a computes computes it in its turn.
StillComputed(a) ==
  \E b \in InTable : Reads(b, a) /\ (task[b].pipe[0] = a \/ Out(b) = Out(a))

\* StillBeingComputed, by tasks rather than positions.
LEMMA StillIs ==
  ASSUME TypeOK, NEW i \in 1..Len(used)
  PROVE  StillBeingComputed(i) <=> StillComputed(used[i])
<1>1. Readers(i) \subseteq 1..Len(used)
  BY TableIs DEF Readers, helpers_tasks
<1>2. \A j \in 1..Len(used) : j \in Readers(i) <=> Reads(used[j], used[i])
  BY ReadersIs
<1>3. InTable = {used[j] : j \in 1..Len(used)}
  BY TableIs
<1>. QED
  BY <1>1, <1>2, <1>3 DEF StillBeingComputed, StillComputed, At, Out

\* After notice_completed the inputs of the tasks left are still in use, and no others.
LEMMA NoticeInUse ==
  ASSUME TableInv, NoticeCompleted
  PROVE  /\ in_use' \subseteq in_use
         /\ \A a \in InTable \ Finished : OtherInputs(a) \subseteq in_use'
         /\ \A v \in in_use' : \E a \in InTable \ Finished : v \in OtherInputs(a)
<1>. DEFINE done == {i \in 1..helpers_tasks : Done(used[i])}
            Only(a, v) == /\ v \in OtherInputs(a)
                          /\ \A b \in InTable : b # a /\ v \in OtherInputs(b) => Done(b)
<1>0. TypeOK /\ BeforeInv /\ UseInv
  BY DEF TableInv
<1>1. in_use' = in_use \ UNION {maybe_mark_not_in_use(i) : i \in done}
  BY DEF NoticeCompleted
<1>2. Finished = {used[i] : i \in done} /\ done \subseteq 1..Len(used)
  BY <1>0, TableIs DEF Finished, helpers_tasks
<1>3. \A i \in done : \A v : v \in maybe_mark_not_in_use(i) <=> Only(used[i], v)
  BY <1>0, <1>2, UnmarkIs
<1>. HIDE DEF done
<1>4. \A v : v \in in_use' <=> v \in in_use /\ \A a \in Finished : ~Only(a, v)
  BY <1>1, <1>2, <1>3
<1>5. ASSUME NEW a \in InTable \ Finished, NEW v \in OtherInputs(a)
      PROVE  v \in in_use'
  <2>1. ~Done(a) /\ v \in in_use
    BY <1>0, <1>5 DEF UseInv, Finished
  <2>2. \A f \in Finished : ~Only(f, v)
    BY <1>5, <2>1 DEF Finished
  <2>. QED
    BY <1>4, <2>1, <2>2
<1>6. ASSUME NEW v \in in_use'
      PROVE  \E a \in InTable \ Finished : v \in OtherInputs(a)
  <2>1. v \in in_use /\ \A a \in Finished : ~Only(a, v)
    BY <1>4
  <2>2. PICK a \in InTable : v \in OtherInputs(a)
    BY <1>0, <2>1 DEF UseInv
  <2>. QED
    BY <2>1, <2>2 DEF Finished
<1>. QED
  BY <1>4, <1>5, <1>6

\* After notice_completed the outputs of the tasks left that were marked as being computed
\* still are, and only outputs of those left are.
LEMMA NoticeBeingComputed ==
  ASSUME TableInv, NoticeCompleted
  PROVE  /\ being_computed' \subseteq being_computed
         /\ \A a \in InTable \ Finished :
              Unfinished(a) /\ Out(a) \in being_computed => Out(a) \in being_computed'
         /\ \A v \in being_computed' : \E a \in InTable \ Finished : Out(a) = v
<1>. DEFINE done == {i \in 1..helpers_tasks : Done(used[i])}
<1>0. TypeOK /\ PipeInv /\ UsedInv /\ StartInv /\ EndInv
  BY DEF TableInv
<1>1. being_computed' = being_computed
           \ {At(i).var[0] : i \in {x \in done : ~StillBeingComputed(x)}}
  BY DEF NoticeCompleted
<1>2. Finished = {used[i] : i \in done} /\ done \subseteq 1..Len(used)
  BY <1>0, TableIs DEF Finished, helpers_tasks
<1>3. \A i \in done : StillBeingComputed(i) <=> StillComputed(used[i])
  BY <1>0, <1>2, StillIs
<1>. HIDE DEF done
<1>4. \A v : v \in being_computed' <=>
        v \in being_computed /\ \A a \in Finished : Out(a) = v => StillComputed(a)
  BY <1>1, <1>2, <1>3 DEF At, Out
<1>5. InTable \subseteq Tasks /\ task \in [Tasks -> Entries] /\ being_computed \subseteq Vars
  BY <1>0, TableIs DEF TypeOK
<1>6. ASSUME NEW b \in InTable, NEW a \in InTable, task[b].pipe[0] = a
      PROVE  Out(b) = Out(a) /\ <<a, b>> \in Order
  <2>1. a # None
    BY <1>5, NoneIs
  <2>2. PipedFrom(a, 0, b)
    BY <1>0, <1>6, <2>1 DEF PipeInv, PipeOK
  <2>. QED
    BY <2>2 DEF PipedFrom, Writers, Out
<1>7. ASSUME NEW a \in InTable \ Finished, Unfinished(a), Out(a) \in being_computed
      PROVE  Out(a) \in being_computed'
  <2>1. SUFFICES ASSUME NEW f \in Finished, Out(f) = Out(a) PROVE StillComputed(f)
    BY <1>4, <1>7
  <2>2. f \in InTable /\ a \in InTable /\ f # a /\ f \in Tasks /\ a \in Tasks /\ Done(f)
        /\ Out(a) # Null
    BY <1>5, <1>7, NoneIs DEF Finished
  <2>3. <<a, f>> \notin Order
    <3>1. SUFFICES ASSUME <<a, f>> \in Order PROVE FALSE
      OBVIOUS
    <3>2. task[f].var[0] = Out(a) /\ task[f].stage = "done"
      BY <2>1, <2>2 DEF Out, Done
    <3>3. Computed(a) \/ Pipelined(a, f, Out(a))
      BY <1>0, <2>2, <3>1, <3>2 DEF StartInv
    <3>. QED
      BY <1>7, <3>2, <3>3 DEF Computed, Unfinished, Pipelined
  <2>4. <<f, a>> \in Order
    BY <1>0, <2>2, <2>3, OrderIs
  <2>5. task[f].out_used
    BY <1>0, <2>1, <2>2, <2>4 DEF UsedInv
  <2>. DEFINE W == {b \in InTable : <<f, b>> \in Order /\ Out(b) = Out(f)}
  <2>6. PICK b \in W : \A x \in W : x = b \/ <<b, x>> \in Order
    <3>1. W \in SUBSET InTable /\ a \in W
      BY <2>1, <2>2, <2>4
    <3>. HIDE DEF W
    <3>. QED
      BY <1>0, <3>1, FirstIn
  <2>7. Reads(b, f)
    <3>1. SUFFICES ASSUME NEW k \in InTable, <<f, k>> \in Order, <<k, b>> \in Order,
                          task[k].pipe[0] = f
                   PROVE  FALSE
      BY <2>5, <2>6 DEF Reads
    <3>2. k \in W
      BY <1>6, <2>2, <3>1
    <3>3. k = b \/ <<b, k>> \in Order
      BY <2>6, <3>2
    <3>. QED
      BY <1>0, <1>5, <2>6, <3>1, <3>3, OrderIs
  <2>. QED
    BY <2>6, <2>7 DEF StillComputed
<1>8. ASSUME NEW v \in being_computed'
      PROVE  \E a \in InTable \ Finished : Out(a) = v
  <2>. DEFINE W == {b \in InTable : Out(b) = v}
  <2>1. SUFFICES ASSUME W \subseteq Finished PROVE FALSE
    OBVIOUS
  <2>2. v \in being_computed /\ \A a \in Finished : Out(a) = v => StillComputed(a)
    BY <1>4
  <2>3. W # {}
    BY <1>0, <2>2 DEF EndInv
  <2>4. PICK f \in W : \A x \in W : x = f \/ <<x, f>> \in Order
    <3>. HIDE DEF W
    <3>1. W \in SUBSET InTable
      BY DEF W
    <3>. QED
      BY <1>0, <2>3, <3>1, LastIn
  <2>5. PICK b \in InTable : Reads(b, f) /\ (task[b].pipe[0] = f \/ Out(b) = Out(f))
    BY <2>1, <2>2, <2>4 DEF StillComputed
  <2>6. <<f, b>> \in Order
    BY <2>5 DEF Reads
  <2>7. b \in W
    BY <1>6, <2>4, <2>5
  <2>. QED
    BY <1>0, <1>5, <2>4, <2>6, <2>7, OrderIs
<1>. QED
  BY <1>4, <1>7, <1>8

\* What is the same about task t after a step.
SameVar(t) == task'[t].var = task[t].var

\* A task with the same variables has the same output and inputs.
LEMMA SameOut ==
  ASSUME NEW t, SameVar(t)
  PROVE  Out(t)' = Out(t) /\ OtherInputs(t)' = OtherInputs(t)
BY DEF SameVar, Out, OtherInputs, Inputs

\* What notice_completed leaves of the entries of the tasks that stay in the table.
LEMMA NoticeFields ==
  ASSUME TableInv, NoticeCompleted
  PROVE  \A t \in InTable' :
           /\ t \in InTable /\ t \in Tasks /\ ~Done(t) /\ SameVar(t)
           /\ task'[t].flags = task[t].flags /\ task'[t].stage = task[t].stage
           /\ task'[t].needed = task[t].needed /\ task'[t].out_used = task[t].out_used
           /\ task'[t].not_in_use_before = task[t].not_in_use_before
           /\ \A w \in 0..2 : task'[t].pipe[w] =
                IF task[t].pipe[w] \in Finished THEN None ELSE task[t].pipe[w]
<1>1. TypeOK
  BY DEF TableInv
<1>2. InTable \subseteq Tasks /\ task \in [Tasks -> Entries] /\ InTable' = InTable \ Finished
  BY <1>1, TableIs, NoticeTable
<1>3. ASSUME NEW t \in InTable'
      PROVE  /\ t \in InTable /\ t \in Tasks /\ ~Done(t)
             /\ task'[t].var = task[t].var
             /\ task'[t].flags = task[t].flags /\ task'[t].stage = task[t].stage
             /\ task'[t].needed = task[t].needed /\ task'[t].out_used = task[t].out_used
             /\ task'[t].not_in_use_before = task[t].not_in_use_before
             /\ \A w \in 0..2 : task'[t].pipe[w] =
                  IF task[t].pipe[w] \in Finished THEN None ELSE task[t].pipe[w]
  <2>1. t \in InTable /\ t \in Tasks /\ ~Done(t)
    BY <1>2 DEF Finished
  <2>2. task[t] \in Entries
    BY <1>2, <2>1
  <2>3. task'[t] = [task[t] EXCEPT !.pipe =
              [w \in 0..2 |-> IF task[t].pipe[w] \in Finished THEN None ELSE task[t].pipe[w]]]
    BY NoticeTable
  <2>. QED
    BY <2>1, <2>2, <2>3 DEF Entries
<1>. QED
  BY <1>3 DEF SameVar

\* notice_completed keeps TableInv.
LEMMA NoticeKeeps ==
  ASSUME TableInv, NoticeCompleted, UNCHANGED <<queues, this_task>>, CallTypes'
  PROVE  TableInv'
<1>0. TypeOK /\ PipeInv /\ UsedInv /\ StartInv /\ AntiInv /\ UseInv /\ BeforeInv
      /\ EndInv /\ QueueInv /\ IdleInv
  BY DEF TableInv
<1>1. /\ InTable \subseteq Tasks /\ task \in [Tasks -> Entries]
      /\ InTable' = InTable \ Finished
      /\ Order' = {p \in Order : p[1] \notin Finished /\ p[2] \notin Finished}
  BY <1>0, TableIs, NoticeTable
<1>2. \A t \in InTable' :
           /\ t \in InTable /\ t \in Tasks /\ ~Done(t) /\ SameVar(t)
           /\ task'[t].flags = task[t].flags /\ task'[t].stage = task[t].stage
           /\ task'[t].needed = task[t].needed /\ task'[t].out_used = task[t].out_used
           /\ task'[t].not_in_use_before = task[t].not_in_use_before
           /\ \A w \in 0..2 : task'[t].pipe[w] =
                IF task[t].pipe[w] \in Finished THEN None ELSE task[t].pipe[w]
  BY NoticeFields
<1>3. \A a, b \in Tasks : <<a, b>> \in Order' <=>
        <<a, b>> \in Order /\ a \in InTable' /\ b \in InTable'
  BY <1>0, <1>1, OrderIs
<1>4. \A a \in InTable' : Out(a)' = Out(a) /\ OtherInputs(a)' = OtherInputs(a)
                          /\ task'[a].var = task[a].var
  BY <1>2, SameOut DEF SameVar
<1>5. \A a \in InTable' : /\ Computed(a)' <=> Computed(a)
                          /\ Unfinished(a)' <=> Unfinished(a)
                          /\ Done(a)' <=> Done(a)
  BY <1>2 DEF Computed, Unfinished, Done
<1>6. TypeOK'
  <2>1. in_use' \subseteq in_use /\ being_computed' \subseteq being_computed
    BY NoticeInUse, NoticeBeingComputed
  <2>2. task' \in [Tasks -> Entries] /\ used' \in Seq(Tasks) /\ IsInjective(used')
    BY NoticeTable
  <2>. QED
    BY <1>0, <2>1, <2>2 DEF TypeOK, CallTypes, Entries, queues
<1>7. PipeInv'
  <2>1. ASSUME NEW b \in InTable', NEW w \in 0..2
        PROVE  PipeOK(b, w)'
    <3>. DEFINE v == task[b].var[w]
                p == task[b].pipe[w]
    <3>1. task'[b].var[w] = v /\ b \in Tasks /\ b \in InTable /\ PipeOK(b, w)
      BY <1>0, <1>2, <1>4 DEF PipeInv
    <3>2. Writers(v, b)' = Writers(v, b) \ Finished
      <4>1. \A a \in Tasks : a \in Writers(v, b)' <=> <<a, b>> \in Order' /\ v # Null /\ Out(a)' = v
        BY <3>1, <1>4 DEF Writers, Out
      <4>2. \A a \in Tasks : a \in Writers(v, b)' <=> a \in Writers(v, b) /\ a \notin Finished
        BY <1>0, <1>1, <1>3, <1>4, <3>1, <4>1, OrderIs DEF Writers
      <4>. QED
        BY <4>2 DEF Writers
    <3>3. Writers(task[b].var[w], b)' = Writers(v, b) \ Finished
      BY <3>1, <3>2 DEF Writers
    <3>4. CASE p \in Finished
      <4>1. task'[b].pipe[w] = None
        BY <1>2, <3>4
      <4>2. p # None
        BY <1>1, <3>4, NoneIs DEF Finished
      <4>3. PipedFrom(p, w, b)
        BY <3>1, <4>2 DEF PipeOK
      <4>4. ASSUME NEW a \in Writers(v, b) \ Finished PROVE Computed(a)
        <5>1. <<a, p>> \in Order /\ a \in Tasks /\ p \in Tasks /\ Out(a) = v
              /\ v # Null /\ Out(p) = v
          BY <3>4, <4>3, <4>4 DEF PipedFrom, Writers
        <5>2. task[p].stage = "done" /\ task[p].var[0] = Out(a)
          BY <3>4, <5>1 DEF Finished, Done, Out
        <5>3. Computed(a) \/ Pipelined(a, p, Out(a))
          BY <1>0, <5>1, <5>2 DEF StartInv
        <5>. QED
          BY <5>2, <5>3 DEF Pipelined
      <4>5. \A a \in Writers(v, b) \ Finished : Computed(a)'
        BY <1>0, <1>1, <1>5, <4>4, OrderIs DEF Writers
      <4>. QED
        BY <3>3, <4>1, <4>5 DEF PipeOK
    <3>5. CASE p \notin Finished
      <4>1. task'[b].pipe[w] = p
        BY <1>2, <3>5
      <4>2. CASE p = None /\ \A a \in Writers(v, b) : Computed(a)
        <5>1. \A a \in Writers(v, b) \ Finished : Computed(a)'
          BY <1>0, <1>1, <1>5, <4>2, OrderIs DEF Writers
        <5>. QED
          BY <3>3, <4>1, <4>2, <5>1 DEF PipeOK
      <4>3. CASE PipedFrom(p, w, b)
        <5>1. p \in Writers(v, b) \ Finished
          BY <3>5, <4>3 DEF PipedFrom
        <5>2. \A a \in Writers(v, b) \ Finished : a = p \/ <<a, p>> \in Order'
          BY <1>0, <1>1, <1>3, <4>3, <5>1, OrderIs DEF PipedFrom, Writers
        <5>3. PipedFrom(p, w, b)'
          BY <3>3, <4>1, <5>1, <5>2 DEF PipedFrom
        <5>. QED
          BY <4>1, <5>3 DEF PipeOK
      <4>. QED
        BY <3>1, <4>2, <4>3 DEF PipeOK
    <3>. QED
      BY <3>4, <3>5
  <2>. QED
    BY <2>1 DEF PipeInv
<1>8. UsedInv'
  <2>1. ASSUME NEW b \in InTable', NEW w \in 0..2, task'[b].pipe[w] # None
        PROVE  task'[task'[b].pipe[w]].out_used
    <3>1. /\ b \in InTable /\ task'[b].pipe[w] = task[b].pipe[w]
          /\ task[b].pipe[w] \notin Finished /\ task[b].pipe[w] # None
      BY <1>2, <2>1
    <3>2. task[b].pipe[w] \in InTable'
      BY <1>0, <1>1, <3>1, PipedReads
    <3>3. task[task[b].pipe[w]].out_used
      BY <1>0, <3>1 DEF UsedInv
    <3>. QED
      BY <1>2, <3>1, <3>2, <3>3
  <2>2. \A a, b \in Tasks : <<a, b>> \in Order' /\ Out(a)' = Out(b)' /\ Out(a)' # Null
                              => task'[a].out_used
    BY <1>0, <1>2, <1>3, <1>4 DEF UsedInv
  <2>. QED
    BY <2>1, <2>2 DEF UsedInv
<1>9. StartInv'
  <2>1. ASSUME NEW a \in Tasks, NEW b \in Tasks, NEW w \in 0..2,
               <<a, b>> \in Order', task'[b].var[w] = Out(a)', Out(a)' # Null,
               task'[b].stage # "waiting"
        PROVE  Computed(a)' \/ Pipelined(a, b, Out(a))'
    <3>1. a \in InTable' /\ b \in InTable' /\ <<a, b>> \in Order
      BY <1>3, <2>1
    <3>2. Computed(a) \/ Pipelined(a, b, Out(a))
      BY <1>0, <1>2, <1>4, <2>1, <3>1 DEF StartInv
    <3>3. Pipelined(a, b, Out(a)) => Pipelined(a, b, Out(a))'
      BY <1>2, <1>4, <3>1 DEF Pipelined
    <3>. QED
      BY <1>5, <3>1, <3>2, <3>3
  <2>. QED
    BY <2>1 DEF StartInv
<1>10. AntiInv'
  BY <1>0, <1>3, <1>4, <1>5 DEF AntiInv
<1>11. UseInv' /\ EndInv'
  <2>1. /\ \A a \in InTable' : OtherInputs(a) \subseteq in_use'
        /\ \A v \in in_use' : \E a \in InTable' : v \in OtherInputs(a)
    BY <1>1, NoticeInUse
  <2>2. \A v \in being_computed' : \E a \in InTable' : Out(a) = v
    BY <1>1, NoticeBeingComputed
  <2>. QED
    BY <1>4, <2>1, <2>2 DEF UseInv, EndInv
<1>12. BeforeInv'
  BY <1>0, <1>2, <1>3, <1>4, <1>5 DEF BeforeInv
<1>13. QueueInv' /\ IdleInv'
  <2>1. /\ untaken' = untaken /\ on_hold' = on_hold /\ master_only' = master_only
    BY DEF queues
  <2>2. \A t \in Tasks : t \in InTable' /\ task'[t].stage = "waiting" <=>
                           t \in InTable /\ task[t].stage = "waiting"
    BY <1>1, <1>2 DEF Finished, Done
  <2>3. \A t \in Tasks \ InTable' : task'[t].stage = "waiting"
    BY NoticeTable DEF Blank
  <2>4. \A t \in InTable' : task'[t].flags = task[t].flags
    BY <1>2
  <2>5. QueueInv'
    BY <1>0, <2>1, <2>2, <2>4 DEF QueueInv
  <2>. QED
    BY <2>3, <2>5 DEF IdleInv
<1>. QED
  BY <1>6, <1>7, <1>8, <1>9, <1>10, <1>11, <1>12, <1>13 DEF TableInv

\* ComputeInv after tasks have been noticed, for the call that is then under way.
LEMMA NoticeCompute ==
  ASSUME TableInv, NoticeCompleted, ComputeInv,
         call.op = "no_merge" => call'.op = "no_merge" /\ call'.kind.var[0] = call.kind.var[0]
  PROVE  ComputeInv'
<1>1. ASSUME NEW a \in InTable', Unfinished(a)', Out(a)' \notin being_computed' \union {Null}
      PROVE  call'.op = "no_merge" /\ Out(a)' = kind.var[0]'
  <2>1. a \in InTable \ Finished /\ Out(a)' = Out(a) /\ Unfinished(a)
    BY <1>1, NoticeFields, NoticeTable, SameOut DEF Unfinished
  <2>2. Out(a) \notin being_computed \union {Null}
    BY <1>1, <2>1, NoticeBeingComputed
  <2>. QED
    BY <2>1, <2>2 DEF ComputeInv, kind
<1>. QED
  BY <1>1 DEF ComputeInv

\* The table is the same but for the stages, flags and needed fields of tasks, ...
SameTable ==
  /\ used' = used /\ task' \in [Tasks -> Entries]
  /\ \A t \in Tasks : /\ SameVar(t) /\ task'[t].pipe = task[t].pipe
                      /\ task'[t].out_used = task[t].out_used
                      /\ task'[t].not_in_use_before = task[t].not_in_use_before

\* ... and stages go on.
GoesOn(t) == (Computed(t) => Computed(t)') /\ (Done(t) => Done(t)')

\* While the table stays the same the parts of the invariant that are about who takes input
\* from whom and about marks do, as stages only go on.
LEMMA SameTableKeeps ==
  ASSUME TableInv, SameTable, \A t \in Tasks : GoesOn(t), UNCHANGED marks
  PROVE  /\ InTable' = InTable /\ Order' = Order
         /\ PipeInv' /\ UsedInv' /\ AntiInv' /\ UseInv' /\ BeforeInv' /\ EndInv'
<1>0. TypeOK /\ PipeInv /\ UsedInv /\ AntiInv /\ UseInv /\ BeforeInv /\ EndInv
  BY DEF TableInv
<1>1. InTable' = InTable /\ Order' = Order /\ in_use' = in_use /\ being_computed' = being_computed
  BY DEF SameTable, InTable, Order, marks
<1>2. InTable \subseteq Tasks /\ task \in [Tasks -> Entries]
  BY <1>0, TableIs
<1>3. \A a \in Tasks : /\ Out(a)' = Out(a) /\ OtherInputs(a)' = OtherInputs(a)
                       /\ task'[a].var = task[a].var
  BY SameOut DEF SameTable, SameVar
<1>4. \A a \in Tasks : (Computed(a) => Computed(a)') /\ (Done(a) => Done(a)')
  BY DEF GoesOn
<1>5. PipeInv'
  <2>1. ASSUME NEW b \in InTable, NEW w \in 0..2
        PROVE  PipeOK(b, w)'
    <3>1. b \in Tasks /\ task'[b].var[w] = task[b].var[w] /\ task'[b].pipe[w] = task[b].pipe[w]
      BY <1>2, <1>3 DEF SameTable
    <3>2. Writers(task[b].var[w], b)' = Writers(task[b].var[w], b)
      BY <1>1, <1>3, <3>1 DEF Writers
    <3>3. PipeOK(b, w)
      BY <1>0 DEF PipeInv
    <3>4. CASE task[b].pipe[w] = None /\ \A a \in Writers(task[b].var[w], b) : Computed(a)
      <4>1. \A a \in Writers(task[b].var[w], b) : Computed(a)'
        BY <1>4, <3>4 DEF Writers
      <4>. QED
        BY <3>1, <3>2, <3>4, <4>1 DEF PipeOK
    <3>5. CASE PipedFrom(task[b].pipe[w], w, b)
      <4>1. PipedFrom(task[b].pipe[w], w, b)'
        BY <1>1, <3>1, <3>2, <3>5 DEF PipedFrom
      <4>. QED
        BY <4>1 DEF PipeOK
    <3>. QED
      BY <3>3, <3>4, <3>5 DEF PipeOK
  <2>. QED
    BY <1>1, <2>1 DEF PipeInv
<1>6. UsedInv'
  <2>1. \A b \in InTable, w \in 0..2 : task[b].pipe[w] # None =>
          task[b].pipe[w] \in Tasks /\ task[task[b].pipe[w]].out_used
    BY <1>0, <1>2 DEF UsedInv, Entries
  <2>2. \A b \in InTable, w \in 0..2 : task'[b].pipe[w] # None => task'[task'[b].pipe[w]].out_used
    BY <1>2, <2>1 DEF SameTable
  <2>3. \A a, b \in Tasks : <<a, b>> \in Order /\ Out(a)' = Out(b)' /\ Out(a)' # Null
                              => task'[a].out_used
    BY <1>0, <1>3 DEF UsedInv, SameTable
  <2>. QED
    BY <1>1, <2>2, <2>3 DEF UsedInv
<1>7. AntiInv'
  BY <1>0, <1>1, <1>3, <1>4 DEF AntiInv
<1>8. UseInv' /\ EndInv'
  BY <1>0, <1>1, <1>2, <1>3, <1>4 DEF UseInv, EndInv
<1>9. BeforeInv'
  <2>1. \A a \in Tasks, x \in 1..2 : /\ task'[a].not_in_use_before[x] = task[a].not_in_use_before[x]
                                     /\ task'[a].var[x] = task[a].var[x]
    BY <1>3 DEF SameTable
  <2>. QED
    BY <1>0, <1>1, <1>3, <1>4, <2>1 DEF BeforeInv
<1>. QED
  BY <1>1, <1>5, <1>6, <1>7, <1>8, <1>9

\* So does ComputeInv.
LEMMA SameTableCompute ==
  ASSUME TableInv, ComputeInv, SameTable, \A t \in Tasks : GoesOn(t), UNCHANGED being_computed,
         call.op = "no_merge" => call'.op = "no_merge" /\ call'.kind.var[0] = call.kind.var[0]
  PROVE  ComputeInv'
<1>1. InTable' = InTable /\ InTable \subseteq Tasks /\ task \in [Tasks -> Entries]
  BY TableIs DEF SameTable, InTable, TableInv
<1>2. ASSUME NEW a \in InTable, Unfinished(a)', Out(a)' \notin being_computed \union {Null}
      PROVE  call'.op = "no_merge" /\ Out(a)' = kind.var[0]'
  <2>1. a \in Tasks /\ Out(a)' = Out(a) /\ GoesOn(a) /\ task[a] \in Entries
    BY <1>1, SameOut DEF SameTable
  <2>2. Unfinished(a)
    BY <1>2, <2>1 DEF GoesOn, Computed, Unfinished, Entries
  <2>. QED
    BY <1>2, <2>1, <2>2 DEF ComputeInv, kind
<1>. QED
  BY <1>1, <1>2 DEF ComputeInv

\* Where b takes its input from if an earlier task that computes it has not got it yet: it
\* may be a later one than that, but not a later one that has gone further.
LEMMA ProducerIs ==
  ASSUME TableInv, NEW b \in InTable, NEW w \in 0..2, NEW a \in Writers(task[b].var[w], b),
         ~Computed(a)
  PROVE  \E p \in InTable :
           /\ Producer(b, w) = p /\ p # None
           /\ task[p].stage \in {"waiting", "running"}
           /\ a # p /\ task[p].stage # "waiting" => Pipelined(a, p, Out(a))
<1>0. TypeOK /\ PipeInv /\ StartInv
  BY DEF TableInv
<1>1. InTable \subseteq Tasks /\ task \in [Tasks -> Entries]
  BY <1>0, TableIs
<1>. DEFINE p == task[b].pipe[w]
<1>2. PipedFrom(p, w, b)
  BY <1>0 DEF PipeInv, PipeOK
<1>3. p \in Tasks /\ <<p, b>> \in Order /\ Out(p) = Out(a) /\ Out(a) # Null /\ a \in Tasks
      /\ (a = p \/ <<a, p>> \in Order)
  BY <1>2 DEF PipedFrom, Writers
<1>4. p \in InTable /\ p # None
  BY <1>0, <1>1, <1>3, OrderIs, NoneIs
<1>. HIDE DEF p
<1>5. a # p /\ task[p].stage # "waiting" => Pipelined(a, p, Out(a))
  <2>1. task[p].var[0] = Out(a)
    BY <1>3 DEF Out
  <2>. QED
    BY <1>0, <1>3, <2>1 DEF StartInv
<1>6. task[p].stage \in {"waiting", "running"}
  <2>1. task[p].stage \in {"waiting", "running", "computed", "done"}
    BY <1>1, <1>4 DEF Entries
  <2>2. CASE a = p
    BY <2>1, <2>2 DEF Computed
  <2>3. CASE a # p
    BY <1>5, <2>3 DEF Pipelined
  <2>. QED
    BY <2>2, <2>3
<1>7. Producer(b, w) = p
  BY <1>4, <1>6 DEF Producer, Done, p
<1>. QED
  BY <1>4, <1>5, <1>6, <1>7

\* The stage of t becomes s.
Becomes(t, s) == task' = [task EXCEPT ![t].stage = s]

\* What changes when the stage of a task does.
LEMMA StageIs ==
  ASSUME TypeOK, NEW t \in Tasks, NEW s \in {"waiting", "running", "computed", "done"},
         Becomes(t, s), UNCHANGED used
  PROVE  /\ SameTable /\ task'[t].stage = s
         /\ \A x \in Tasks : /\ task'[x].flags = task[x].flags /\ task'[x].needed = task[x].needed
                             /\ x # t => task'[x].stage = task[x].stage
<1>1. task \in [Tasks -> Entries]
  BY TableIs
<1>2. task[t] \in Entries
  BY <1>1
<1>3. [task[t] EXCEPT !.stage = s] \in Entries
  BY <1>2 DEF Entries
<1>4. /\ task' \in [Tasks -> Entries]
      /\ task'[t] = [task[t] EXCEPT !.stage = s]
      /\ \A x \in Tasks : x # t => task'[x] = task[x]
  BY <1>1, <1>3 DEF Becomes
<1>5. /\ task'[t].stage = s /\ task'[t].flags = task[t].flags /\ task'[t].needed = task[t].needed
      /\ task'[t].var = task[t].var /\ task'[t].pipe = task[t].pipe
      /\ task'[t].out_used = task[t].out_used
      /\ task'[t].not_in_use_before = task[t].not_in_use_before
  BY <1>2, <1>4 DEF Entries
<1>. QED
  BY <1>4, <1>5 DEF SameTable, SameVar

\* The heart of it: that a task is runnable is enough for it to start in order, though it
\* looks only at the one task it takes each variable from.
LEMMA StartOK ==
  ASSUME TableInv, NEW t \in InTable, task[t].stage = "waiting", Runnable(t),
         Becomes(t, "running"), UNCHANGED used
  PROVE  StartInv' /\ \A x \in Tasks : GoesOn(x)
<1>0. TypeOK /\ StartInv
  BY DEF TableInv
<1>1. InTable \subseteq Tasks /\ task \in [Tasks -> Entries] /\ t \in Tasks
  BY <1>0, TableIs
<1>2. /\ SameTable /\ task'[t].stage = "running"
      /\ \A x \in Tasks : /\ task'[x].flags = task[x].flags
                          /\ x # t => task'[x].stage = task[x].stage
  BY <1>0, <1>1, StageIs
<1>3. Order' = Order /\ \A x \in Tasks : Out(x)' = Out(x) /\ task'[x].var = task[x].var
  <2>1. UNCHANGED used /\ \A x \in Tasks : SameVar(x)
    BY <1>2 DEF SameTable
  <2>. QED
    BY <2>1, SameOut DEF Order, SameVar
<1>4. ASSUME NEW x \in Tasks PROVE GoesOn(x)
  BY <1>2 DEF GoesOn, Computed, Done
<1>5. ASSUME NEW a \in Tasks, NEW b \in Tasks, NEW w \in 0..2, <<a, b>> \in Order,
             task[b].var[w] = Out(a), Out(a) # Null, task'[b].stage # "waiting"
      PROVE  Computed(a)' \/ Pipelined(a, b, Out(a))'
  <2>1. a # b /\ a \in InTable /\ b \in InTable
    BY <1>0, <1>5, OrderIs
  <2>2. CASE b # t
    <3>1. Computed(a) \/ Pipelined(a, b, Out(a))
      BY <1>0, <1>2, <1>5, <2>2 DEF StartInv
    <3>2. CASE Computed(a)
      BY <1>4, <3>2 DEF GoesOn
    <3>3. CASE Pipelined(a, b, Out(a))
      <4>1. a # t
        BY <3>3 DEF Pipelined
      <4>. QED
        BY <1>2, <1>3, <2>2, <3>3, <4>1 DEF Pipelined
    <3>. QED
      BY <3>1, <3>2, <3>3
  <2>3. CASE b = t /\ ~Computed(a)
    <3>1. ASSUME NEW x \in 0..2, task[t].var[x] = Out(a)
          PROVE  /\ task[a].stage = "running" /\ "PIPE_OUT" \in task[a].flags
                 /\ PipeIn(x) \in task[t].flags
      <4>1. a \in Writers(task[t].var[x], t)
        BY <1>5, <2>3, <3>1 DEF Writers
      <4>2. PICK p \in InTable : /\ Producer(t, x) = p /\ p # None
                                 /\ task[p].stage \in {"waiting", "running"}
                                 /\ a # p /\ task[p].stage # "waiting" => Pipelined(a, p, Out(a))
        BY <2>3, <4>1, ProducerIs
      <4>3. task[p].stage = "running" /\ "PIPE_OUT" \in task[p].flags /\ PipeIn(x) \in task[t].flags
        BY <4>2 DEF Runnable
      <4>. QED
        BY <4>2, <4>3 DEF Pipelined
    <3>2. task[a].stage = "running" /\ "PIPE_OUT" \in task[a].flags
      BY <1>5, <2>3, <3>1
    <3>3. \A x \in 0..2 : task[t].var[x] = Out(a) => PipeIn(x) \in task[t].flags
      BY <3>1
    <3>. QED
      BY <1>2, <1>3, <2>1, <2>3, <3>2, <3>3 DEF Pipelined
  <2>. QED
    BY <1>4, <2>2, <2>3 DEF GoesOn
<1>6. StartInv'
  BY <1>3, <1>5 DEF StartInv
<1>. QED
  BY <1>4, <1>6

\* That a task waits for what is piped to it is enough for it to return in order.
LEMMA TaskComputesOK ==
  ASSUME TableInv, NEW t \in Tasks, TaskComputes(t)
  PROVE  t \in InTable /\ StartInv' /\ \A x \in Tasks : GoesOn(x)
<1>0. TypeOK /\ StartInv /\ IdleInv
  BY DEF TableInv
<1>1. InTable \subseteq Tasks /\ task \in [Tasks -> Entries] /\ t \in InTable
  BY <1>0, TableIs DEF IdleInv, TaskComputes
<1>2. /\ SameTable /\ task'[t].stage = "computed"
      /\ \A x \in Tasks : /\ task'[x].flags = task[x].flags
                          /\ x # t => task'[x].stage = task[x].stage
  <2>1. Becomes(t, "computed") /\ UNCHANGED used
    BY DEF TaskComputes, Becomes
  <2>. QED
    BY <1>0, <2>1, StageIs
<1>3. Order' = Order /\ \A x \in Tasks : Out(x)' = Out(x) /\ task'[x].var = task[x].var
  <2>1. UNCHANGED used /\ \A x \in Tasks : SameVar(x)
    BY <1>2 DEF SameTable
  <2>. QED
    BY <2>1, SameOut DEF Order, SameVar
<1>4. ASSUME NEW x \in Tasks PROVE GoesOn(x)
  BY <1>2 DEF GoesOn, Computed, Done, TaskComputes
<1>5. ASSUME NEW a \in Tasks, NEW b \in Tasks, NEW w \in 0..2, <<a, b>> \in Order,
             task[b].var[w] = Out(a), Out(a) # Null, task'[b].stage # "waiting"
      PROVE  Computed(a)' \/ Pipelined(a, b, Out(a))'
  <2>1. a # b /\ a \in InTable /\ b \in InTable
    BY <1>0, <1>5, OrderIs
  <2>2. Computed(a) \/ Pipelined(a, b, Out(a))
    BY <1>0, <1>2, <1>5 DEF StartInv, TaskComputes
  <2>3. CASE Computed(a)
    BY <1>4, <2>3 DEF GoesOn
  <2>4. CASE a = t
    BY <1>2, <2>4 DEF Computed
  <2>5. CASE Pipelined(a, b, Out(a)) /\ a # t /\ b # t
    BY <1>2, <1>3, <2>5 DEF Pipelined
  <2>6. CASE Pipelined(a, b, Out(a)) /\ b = t
    <3>1. ~Computed(a) /\ a \in Writers(task[t].var[w], t) /\ PipeIn(w) \in task[t].flags
      BY <1>5, <2>6 DEF Pipelined, Computed, Writers
    <3>2. PICK p \in InTable : /\ Producer(t, w) = p /\ p # None
                               /\ task[p].stage \in {"waiting", "running"}
      BY <1>1, <3>1, ProducerIs
    <3>3. task[p].stage = "computed"
      BY <3>1, <3>2 DEF TaskComputes
    <3>. QED
      BY <3>2, <3>3
  <2>. QED
    BY <2>2, <2>3, <2>4, <2>5, <2>6
<1>6. StartInv'
  BY <1>3, <1>5 DEF StartInv
<1>. QED
  BY <1>1, <1>4, <1>6

\* StartInv holds after a step in which tasks stay at their stages or are done.
LEMMA StartSame ==
  ASSUME TableInv, SameTable, \A x \in Tasks : GoesOn(x),
         \A x \in Tasks : /\ task'[x].flags = task[x].flags
                          /\ \/ task'[x].stage = task[x].stage
                             \/ task[x].stage = "computed" /\ task'[x].stage = "done"
  PROVE  StartInv'
<1>0. TypeOK /\ StartInv
  BY DEF TableInv
<1>3. Order' = Order /\ \A x \in Tasks : Out(x)' = Out(x) /\ task'[x].var = task[x].var
  BY SameOut DEF SameTable, Order, SameVar
<1>5. ASSUME NEW a \in Tasks, NEW b \in Tasks, NEW w \in 0..2, <<a, b>> \in Order,
             task[b].var[w] = Out(a), Out(a) # Null, task'[b].stage # "waiting"
      PROVE  Computed(a)' \/ Pipelined(a, b, Out(a))'
  <2>1. Computed(a) \/ Pipelined(a, b, Out(a))
    BY <1>0, <1>5 DEF StartInv
  <2>2. CASE Computed(a)
    BY <2>2 DEF GoesOn
  <2>3. CASE Pipelined(a, b, Out(a))
    BY <1>3, <2>3 DEF Pipelined
  <2>. QED
    BY <2>1, <2>2, <2>3
<1>. QED
  BY <1>3, <1>5 DEF StartInv

\* The first element of a sequence without repetitions is taken out.
LEMMA TailIs ==
  ASSUME NEW s \in Seq(Tasks), IsInjective(s), s # << >>
  PROVE  /\ Tail(s) \in Seq(Tasks) /\ IsInjective(Tail(s)) /\ Head(s) \in Range(s)
         /\ Range(Tail(s)) = Range(s) \ {Head(s)}
<1>1. /\ Len(s) \in Nat /\ Len(s) >= 1 /\ Tail(s) \in Seq(Tasks) /\ Len(Tail(s)) = Len(s) - 1
      /\ Head(s) = s[1] /\ \A i \in 1..Len(Tail(s)) : Tail(s)[i] = s[i + 1]
  OBVIOUS
<1>2. \A i, j \in 1..Len(s) : s[i] = s[j] => i = j
  BY DEF IsInjective
<1>. DEFINE r == Tail(s)
<1>2a. r \in Seq(Tasks)
  BY <1>1
<1>. HIDE DEF r
<1>3. Range(s) = {s[i] : i \in 1..Len(s)} /\ Range(r) = {r[i] : i \in 1..Len(r)}
  BY <1>2a DEF Range
<1>4. \A i, j \in 1..Len(r) : r[i] = r[j] => i = j
  BY <1>1, <1>2 DEF r
<1>5. IsInjective(r)
  BY <1>1, <1>4 DEF IsInjective, r
<1>6. \A x \in Range(r) : x \in Range(s) /\ x # Head(s)
  BY <1>1, <1>2, <1>3 DEF r
<1>7. ASSUME NEW x \in Range(s), x # Head(s) PROVE x \in Range(r)
  <2>1. PICK i \in 1..Len(s) : s[i] = x
    BY <1>3
  <2>2. i # 1 /\ i - 1 \in 1..Len(r) /\ (i - 1) + 1 = i
    BY <1>1, <1>7, <2>1 DEF r
  <2>3. r[i - 1] = x
    BY <1>1, <2>1, <2>2 DEF r
  <2>. QED
    BY <1>3, <2>2, <2>3
<1>. QED
  BY <1>1, <1>3, <1>5, <1>6, <1>7 DEF r

\* ... and of the queues.
QueueTypes == untaken \subseteq Tasks /\ on_hold \subseteq Tasks /\ master_only \in Seq(Tasks)

\* Task t waits in the table after a step as before, for the helpers or for the master.
WaitsAsBefore(t) ==
  /\ task'[t].stage = "waiting" <=> task[t].stage = "waiting"
  /\ "MASTER_ONLY" \in task'[t].flags <=> "MASTER_ONLY" \in task[t].flags

\* A step that moves tasks from on_hold to untaken, or none, leaves the queues right.
LEMMA QueuesReleased ==
  ASSUME TypeOK, QueueInv, used' = used, \A t \in Tasks : WaitsAsBefore(t),
         master_only' = master_only, untaken' \union on_hold' = untaken \union on_hold,
         untaken' \intersect on_hold' = {}
  PROVE  QueueInv' /\ QueueTypes'
<1>1. InTable' = InTable
  BY DEF InTable
<1>2. \A t \in Tasks : /\ task'[t].stage = "waiting" <=> task[t].stage = "waiting"
                       /\ "MASTER_ONLY" \in task'[t].flags <=> "MASTER_ONLY" \in task[t].flags
  BY DEF WaitsAsBefore
<1>3. QueueTypes'
  BY DEF TypeOK, QueueTypes
<1>4. QueueInv'
  BY <1>1, <1>2 DEF QueueInv
<1>. QED
  BY <1>3, <1>4

\* Task t leaves the queue that it is in.
Leaves(t) ==
  \/ /\ t \in untaken \union on_hold
     /\ untaken' = untaken \ {t} /\ master_only' = master_only
  \/ /\ master_only # << >> /\ t = Head(master_only)
     /\ untaken' = untaken \ {t} /\ master_only' = Tail(master_only)

\* So does one that takes a task out of its queue, and starts it or frees its index.
LEMMA QueuesLeft ==
  ASSUME TypeOK, QueueInv, NEW t \in Tasks, Leaves(t), on_hold' = on_hold \ {t},
         \A x \in Tasks \ {t} : x \in InTable' <=> x \in InTable,
         \A x \in Tasks \ {t} : WaitsAsBefore(x),
         t \in InTable' => task'[t].stage # "waiting"
  PROVE  QueueInv' /\ QueueTypes'
<1>1. \A x \in Tasks \ {t} : 
        /\ x \in InTable' <=> x \in InTable
        /\ task'[x].stage = "waiting" <=> task[x].stage = "waiting"
        /\ "MASTER_ONLY" \in task'[x].flags <=> "MASTER_ONLY" \in task[x].flags
  BY DEF WaitsAsBefore
<1>2. CASE t \in untaken \union on_hold /\ untaken' = untaken \ {t} /\ master_only' = master_only
  <2>1. "MASTER_ONLY" \notin task[t].flags
    BY <1>2 DEF QueueInv
  <2>2. t \notin Range(master_only)
    BY <2>1 DEF QueueInv
  <2>3. QueueTypes'
    BY <1>2 DEF TypeOK, QueueTypes
  <2>4. QueueInv'
    BY <1>1, <1>2, <2>1, <2>2 DEF QueueInv
  <2>. QED
    BY <2>3, <2>4
<1>3. CASE /\ master_only # << >> /\ t = Head(master_only)
           /\ untaken' = untaken \ {t} /\ master_only' = Tail(master_only)
  <2>1. master_only \in Seq(Tasks) /\ IsInjective(master_only)
    BY DEF TypeOK, QueueInv
  <2>2. /\ Tail(master_only) \in Seq(Tasks) /\ IsInjective(Tail(master_only))
        /\ t \in Range(master_only)
        /\ Range(Tail(master_only)) = Range(master_only) \ {t}
    BY <1>3, <2>1, TailIs
  <2>3. t \notin untaken \union on_hold
    BY <2>2 DEF QueueInv
  <2>4. QueueTypes'
    BY <1>3, <2>2 DEF TypeOK, QueueTypes
  <2>5. Range(master_only') = Range(master_only) \ {t} /\ IsInjective(master_only')
    BY <1>3, <2>2
  <2>6. untaken' = untaken
    BY <1>3, <2>3
  <2>7. QueueInv'
    BY <1>1, <2>2, <2>3, <2>5, <2>6 DEF QueueInv
  <2>. QED
    BY <2>4, <2>7
<1>. QED
  BY <1>2, <1>3 DEF Leaves

\* Only the stage of a task in the table changes.
LEMMA StageKeeps ==
  ASSUME IInv, NEW t \in InTable, NEW s \in {"running", "computed", "done"}, Becomes(t, s),
         \A x \in Tasks : GoesOn(x), UNCHANGED <<used, marks, pc, call>>,
         this_task' \in Tasks \union {None}, StartInv', QueueInv', QueueTypes'
  PROVE  IInv'
<1>0. TableInv /\ TypeOK /\ ComputeInv /\ CallInv /\ NeededInv /\ WaitInv /\ IdleInv
  BY DEF IInv, TableInv
<1>1. InTable \subseteq Tasks /\ t \in Tasks
  BY <1>0, TableIs
<1>2. /\ SameTable /\ task'[t].stage = s
      /\ \A x \in Tasks : /\ task'[x].flags = task[x].flags /\ task'[x].needed = task[x].needed
                          /\ x # t => task'[x].stage = task[x].stage
  BY <1>0, <1>1, StageIs
<1>3. /\ InTable' = InTable /\ Order' = Order
      /\ PipeInv' /\ UsedInv' /\ AntiInv' /\ UseInv' /\ BeforeInv' /\ EndInv'
  BY <1>0, <1>2, SameTableKeeps
<1>4. IdleInv'
  BY <1>0, <1>2, <1>3 DEF IdleInv
<1>5. TypeOK'
  BY <1>0, <1>2 DEF TypeOK, SameTable, Entries, marks, QueueTypes
<1>6. TableInv'
  BY <1>3, <1>4, <1>5 DEF TableInv
<1>7. ComputeInv'
  BY <1>0, <1>2, SameTableCompute DEF marks
<1>8. CallInv'
  BY <1>0 DEF CallInv, marks, Scheduling, Now, kind, ForMaster
<1>9. \A x \in InTable : Out(x)' = Out(x) /\ OtherInputs(x)' = OtherInputs(x)
  BY <1>1, <1>2, SameOut DEF SameTable
<1>10. NeededInv'
  BY <1>0, <1>1, <1>2, <1>3, <1>9 DEF NeededInv, Scheduling, kind
<1>11. WaitInv'
  BY <1>0, <1>1, <1>2, <1>3, <1>9 DEF WaitInv
<1>. QED
  BY <1>6, <1>7, <1>8, <1>10, <1>11 DEF IInv

\* Whoever starts a task that is runnable keeps the invariant.
LEMMA StartKeeps ==
  ASSUME IInv, NEW t \in Tasks, Runnable(t), Leaves(t), t \notin on_hold, Becomes(t, "running"),
         UNCHANGED <<used, on_hold, marks, pc, call>>, this_task' \in Tasks \union {None}
  PROVE  IInv'
<1>0. TableInv /\ TypeOK /\ QueueInv
  BY DEF IInv, TableInv
<1>1. InTable \subseteq Tasks /\ InTable' = InTable
  BY <1>0, TableIs DEF InTable
<1>2. t \in InTable /\ task[t].stage = "waiting"
  <2>1. t \in untaken \union on_hold \/ t \in Range(master_only)
    <3>1. master_only \in Seq(Tasks) /\ IsInjective(master_only)
      BY <1>0 DEF TypeOK, QueueInv
    <3>. QED
      BY <3>1, TailIs DEF Leaves
  <2>. QED
    BY <1>0, <2>1 DEF QueueInv
<1>3. StartInv' /\ \A x \in Tasks : GoesOn(x)
  BY <1>0, <1>2, StartOK
<1>4. /\ task'[t].stage = "running"
      /\ \A x \in Tasks : /\ task'[x].flags = task[x].flags
                          /\ x # t => task'[x].stage = task[x].stage
  BY <1>0, StageIs
<1>5. QueueInv' /\ QueueTypes'
  <2>1. \A x \in Tasks \ {t} : WaitsAsBefore(x)
    BY <1>4 DEF WaitsAsBefore
  <2>2. on_hold' = on_hold \ {t}
    OBVIOUS
  <2>. QED
    BY <1>0, <1>1, <1>4, <2>1, <2>2, QueuesLeft
<1>. QED
  BY <1>2, <1>3, <1>5, StageKeeps

\* HelperStart keeps the invariant, ...
LEMMA HelperStartKeeps ==
  ASSUME IInv, HelperStart
  PROVE  IInv'
<1>1. PICK t \in find_untaken_runnable(FALSE) : Start(t)
  BY DEF HelperStart
<1>2. t \in untaken /\ Runnable(t) /\ t \in Tasks /\ t \notin on_hold
  BY <1>1 DEF find_untaken_runnable, IInv, TableInv, TypeOK, QueueInv
<1>3. Becomes(t, "running") /\ Leaves(t)
  BY <1>1, <1>2 DEF Start, Becomes, Leaves, HelperStart
<1>4. this_task' \in Tasks \union {None}
  BY DEF IInv, TableInv, TypeOK, HelperStart
<1>. QED
  BY <1>2, <1>3, <1>4, StartKeeps DEF HelperStart

\* ... do_task_in_master does, ...
LEMMA MasterKeeps ==
  ASSUME IInv, NEW only_needed, do_task_in_master(only_needed)
  PROVE  IInv'
<1>. DEFINE m == IF master_only = << >> THEN None ELSE Head(master_only)
<1>0. /\ untaken \subseteq Tasks /\ master_only \in Seq(Tasks) /\ IsInjective(master_only)
      /\ untaken \intersect on_hold = {} /\ Range(master_only) \intersect on_hold = {}
      /\ UNCHANGED <<used, on_hold, marks, pc, call>>
  <2>1. \A t \in Tasks : ~(t \in Range(master_only) /\ t \in on_hold)
    BY DEF IInv, TableInv, QueueInv
  <2>2. on_hold \subseteq Tasks
    BY DEF IInv, TableInv, TypeOK
  <2>. QED
    BY <2>1, <2>2 DEF IInv, TableInv, TypeOK, QueueInv, do_task_in_master
<1>1. CASE /\ m # None /\ Runnable(m) /\ master_only' = Tail(master_only)
           /\ Start(m) /\ this_task' = m
  <2>1. m = Head(master_only) /\ m \in Tasks /\ Leaves(m) /\ Becomes(m, "running")
    BY <1>0, <1>1 DEF Leaves, Start, Becomes
  <2>2. m \notin on_hold
    <3>1. master_only # << >>
      BY <1>1
    <3>. QED
      BY <1>0, <2>1, <3>1, TailIs
  <2>. HIDE DEF m
  <2>. QED
    BY <1>0, <1>1, <2>1, <2>2, StartKeeps
<1>2. CASE /\ \E t \in find_untaken_runnable(only_needed) : Start(t) /\ this_task' = t
           /\ UNCHANGED master_only
  <2>1. PICK t \in find_untaken_runnable(only_needed) : Start(t) /\ this_task' = t
    BY <1>2
  <2>2. t \in untaken /\ Runnable(t) /\ t \in Tasks /\ t \notin on_hold
    BY <1>0, <2>1 DEF find_untaken_runnable
  <2>3. Becomes(t, "running") /\ Leaves(t)
    BY <1>2, <2>1, <2>2 DEF Start, Becomes, Leaves
  <2>. QED
    BY <1>0, <2>1, <2>2, <2>3, StartKeeps
<1>3. \/ /\ m # None /\ Runnable(m) /\ master_only' = Tail(master_only)
         /\ Start(m) /\ this_task' = m
      \/ /\ \E t \in find_untaken_runnable(only_needed) : Start(t) /\ this_task' = t
         /\ UNCHANGED master_only
  BY DEF do_task_in_master
<1>. QED
  BY <1>1, <1>2, <1>3

\* ... and so does a task that returns and is done.
LEMMA RunKeeps ==
  ASSUME IInv, NEW t \in Tasks, run_this_task(t)
  PROVE  IInv'
<1>0. TableInv /\ TypeOK /\ QueueInv /\ IdleInv
  BY DEF IInv, TableInv
<1>1. InTable \subseteq Tasks /\ InTable' = InTable
  BY <1>0, TableIs DEF InTable, run_this_task, TaskComputes, TaskDone
<1>2. CASE TaskComputes(t)
  <2>1. t \in InTable /\ StartInv' /\ \A x \in Tasks : GoesOn(x)
    BY <1>0, <1>2, TaskComputesOK
  <2>2. Becomes(t, "computed") /\ task[t].stage = "running"
        /\ UNCHANGED <<used, queues, marks, this_task, pc, call>>
    BY <1>2 DEF TaskComputes, Becomes
  <2>3. /\ task'[t].stage = "computed"
        /\ \A x \in Tasks : /\ task'[x].flags = task[x].flags
                            /\ x # t => task'[x].stage = task[x].stage
    BY <1>0, <2>2, StageIs
  <2>4. \A x \in Tasks : WaitsAsBefore(x)
    BY <2>2, <2>3 DEF WaitsAsBefore
  <2>5. QueueInv' /\ QueueTypes'
    <3>1. untaken \intersect on_hold = {}
      BY <1>0 DEF QueueInv
    <3>. QED
      BY <1>0, <2>2, <2>4, <3>1, QueuesReleased DEF queues
  <2>6. this_task' \in Tasks \union {None}
    BY <1>0, <2>2 DEF TypeOK
  <2>. QED
    BY <2>1, <2>2, <2>5, <2>6, StageKeeps
<1>3. CASE TaskDone(t)
  <2>2. Becomes(t, "done") /\ task[t].stage = "computed"
        /\ UNCHANGED <<used, queues, marks, pc, call>>
    BY <1>3 DEF TaskDone, Becomes
  <2>1. t \in InTable
    BY <1>0, <2>2 DEF IdleInv
  <2>3. /\ SameTable /\ task'[t].stage = "done"
        /\ \A x \in Tasks : /\ task'[x].flags = task[x].flags
                            /\ x # t => task'[x].stage = task[x].stage
    BY <1>0, <2>2, StageIs
  <2>4. \A x \in Tasks : WaitsAsBefore(x) /\ GoesOn(x)
    BY <2>2, <2>3 DEF WaitsAsBefore, GoesOn, Computed, Done
  <2>5. QueueInv' /\ QueueTypes'
    <3>1. untaken \intersect on_hold = {}
      BY <1>0 DEF QueueInv
    <3>. QED
      BY <1>0, <2>2, <2>4, <3>1, QueuesReleased DEF queues
  <2>6. this_task' \in Tasks \union {None}
    BY <1>0, <1>3 DEF TypeOK, TaskDone
  <2>7. StartInv'
    BY <1>0, <2>2, <2>3, <2>4, StartSame
  <2>. QED
    BY <2>1, <2>2, <2>4, <2>5, <2>6, <2>7, StageKeeps
<1>. QED
  BY <1>2, <1>3 DEF run_this_task

\* What a needed field may be.
Marks == {-1, 0, 1}

\* nd marks what own marks, and takes no mark off.
MarksOwn(nd, own, top) ==
  /\ nd \in [1..top -> Marks]
  /\ \A i \in 1..top : IF At(i).needed = 1 THEN nd[i] = 1 ELSE own[i] # 0 => nd[i] = own[i]

\* Needed is as its equation says, so that what own gives is marked: going from the most
\* recent task to the oldest, each mark depends on later ones only.
LEMMA NeededIs ==
  ASSUME TypeOK, NEW top \in Nat, top <= Len(used), NEW own \in [1..top -> Marks],
         NEW mo \in Marks
  PROVE  MarksOwn(Needed(own, mo, top), own, top)
<1>. DEFINE MasterOnly(i) == "MASTER_ONLY" \in At(i).flags
            later(nd, i) == {j \in (i + 1)..top : nd[j] # 0}
            Both(nd, i) == mo # 0 /\ MasterOnly(i) /\ \E j \in later(nd, i) : MasterOnly(j)
            Feeds(nd, i) == \E j \in later(nd, i), w \in 0..2 : At(j).pipe[w] = used[i]
            field(nd, i) ==
              IF At(i).needed = 1 THEN 1
              ELSE IF own[i] # 0 THEN own[i]
              ELSE IF mo # 0 /\ MasterOnly(i) /\ \E j \in later(nd, i) : MasterOnly(j) THEN mo
              ELSE IF \E j \in later(nd, i), w \in 0..2 : At(j).pipe[w] = used[i] THEN -1
              ELSE At(i).needed
            Value(i, both, feeds) ==
              IF At(i).needed = 1 THEN 1 ELSE IF own[i] # 0 THEN own[i]
              ELSE IF both THEN mo ELSE IF feeds THEN -1 ELSE At(i).needed
            Good(nd, n) == nd \in [1..top -> Marks]
                           /\ \A i \in 1..top : i > top - n => nd[i] = field(nd, i)
            N == {n \in Nat : n <= top => \E nd : Good(nd, n)}
<1>0. \A i \in 1..top : At(i).needed \in Marks
  BY TableIs DEF At, Entries, Marks
<1>1. Needed(own, mo, top) =
        CHOOSE nd \in [1..top -> {-1, 0, 1}] : \A i \in 1..top : nd[i] = field(nd, i)
  BY DEF Needed
<1>2. ASSUME NEW nd, NEW i
      PROVE  field(nd, i) = Value(i, Both(nd, i), Feeds(nd, i))
  OBVIOUS
<1>. HIDE DEF field
<1>3. \A i \in 1..top : \A x, y \in BOOLEAN : Value(i, x, y) \in Marks
  BY <1>0 DEF Marks
<1>4. ASSUME NEW nd, NEW md, NEW i \in 1..top, \A j \in (i + 1)..top : nd[j] = md[j]
      PROVE  field(nd, i) = field(md, i)
  <2>1. later(nd, i) = later(md, i)
    BY <1>4
  <2>. HIDE DEF later
  <2>2. Both(nd, i) = Both(md, i) /\ Feeds(nd, i) = Feeds(md, i)
    BY <2>1
  <2>. QED
    BY <1>2, <2>2
<1>5. \A nd : \A i \in 1..top : field(nd, i) \in Marks
  <2>1. \A nd, i : Both(nd, i) \in BOOLEAN /\ Feeds(nd, i) \in BOOLEAN
    OBVIOUS
  <2>. HIDE DEF Both, Feeds, Value
  <2>. QED
    BY <1>2, <1>3, <2>1
<1>6. 0 \in N
  <2>1. Good([i \in 1..top |-> 0], 0)
    BY DEF Marks
  <2>. QED
    BY <2>1
<1>7. ASSUME NEW n \in N
      PROVE  n + 1 \in N
  <2>0. n \in Nat /\ n + 1 \in Nat
    BY <1>7
  <2>1. SUFFICES ASSUME n + 1 <= top PROVE \E nd : Good(nd, n + 1)
    <3>. HIDE DEF Good
    <3>. QED
      BY <2>0
  <2>2. PICK nd : Good(nd, n)
    BY <1>7, <2>0, <2>1
  <2>. DEFINE k == top - n
              md == [nd EXCEPT ![k] = field(nd, k)]
  <2>3. k \in 1..top
    BY <2>0, <2>1
  <2>4. md \in [1..top -> Marks] /\ md[k] = field(nd, k) /\ \A j \in 1..top : j # k => md[j] = nd[j]
    BY <1>5, <2>2, <2>3
  <2>. HIDE DEF md
  <2>5. ASSUME NEW i \in 1..top, i > top - (n + 1)
        PROVE  md[i] = field(md, i)
    <3>1. i >= k
      BY <2>0, <2>5
    <3>2. \A j \in (i + 1)..top : j \in 1..top /\ j # k
      BY <2>3, <3>1
    <3>3. \A j \in (i + 1)..top : nd[j] = md[j]
      BY <2>4, <3>2
    <3>4. field(nd, i) = field(md, i)
      BY <1>4, <3>3
    <3>5. CASE i = k
      BY <2>4, <3>4, <3>5
    <3>6. CASE i # k
      <4>1. i > top - n
        BY <2>0, <3>1, <3>6
      <4>. QED
        BY <2>2, <2>4, <3>4, <3>6, <4>1
    <3>. QED
      BY <3>5, <3>6
  <2>6. Good(md, n + 1)
    BY <2>4, <2>5
  <2>. QED
    BY <2>6
<1>8. \E nd : Good(nd, top)
  <2>1. N = Nat
    <3>. HIDE DEF N
    <3>. QED
      BY <1>6, <1>7, Induction DEF N
  <2>2. top \in N
    <3>. HIDE DEF N
    <3>. QED
      BY <2>1
  <2>. HIDE DEF Good
  <2>. QED
    BY <2>2
<1>9. \E nd \in [1..top -> {-1, 0, 1}] : \A i \in 1..top : nd[i] = field(nd, i)
  BY <1>8 DEF Marks
<1>. DEFINE nd == Needed(own, mo, top)
<1>10. nd \in [1..top -> {-1, 0, 1}] /\ \A i \in 1..top : nd[i] = field(nd, i)
  BY <1>1, <1>9
<1>. HIDE DEF nd
<1>11. ASSUME NEW i \in 1..top
       PROVE  IF At(i).needed = 1 THEN nd[i] = 1 ELSE own[i] # 0 => nd[i] = own[i]
  BY <1>2, <1>10
<1>. QED
  BY <1>10, <1>11 DEF MarksOwn, Marks, nd

\* What mark_as_needed does.
LEMMA MarkIs ==
  ASSUME TypeOK, QueueInv, NEW top \in Nat, top <= Len(used), NEW nd \in [1..top -> Marks],
         mark_as_needed(nd), UNCHANGED <<used, master_only>>
  PROVE  /\ SameTable /\ QueueInv' /\ QueueTypes'
         /\ \A t \in Tasks : task'[t].flags = task[t].flags /\ task'[t].stage = task[t].stage
         /\ \A i \in 1..Len(used) : task'[used[i]].needed =
              IF i <= top THEN nd[i] ELSE task[used[i]].needed
<1>1. /\ InTable \subseteq Tasks /\ task \in [Tasks -> Entries] /\ Len(used) \in Nat
      /\ InTable = {used[i] : i \in 1..Len(used)}
  BY TableIs
<1>2. \A i, j \in 1..Len(used) : used[i] = used[j] => i = j
  BY TableIs DEF IsInjective
<1>. DEFINE new(t) == IF \E i \in 1..top : used[i] = t
                        THEN [task[t] EXCEPT !.needed = nd[Position(t)]] ELSE task[t]
            release == on_hold \intersect {used[i] : i \in {x \in DOMAIN nd : nd[x] # 0}}
<1>3. task' = [t \in Tasks |-> new(t)]
  BY DEF mark_as_needed
<1>4. \A i \in 1..top : i \in 1..Len(used) /\ Position(used[i]) = i
  BY <1>1, PositionIs
<1>5. ASSUME NEW t \in Tasks PROVE new(t) \in Entries
  <2>1. task[t] \in Entries
    BY <1>1
  <2>2. CASE \E i \in 1..top : used[i] = t
    <3>1. PICK i \in 1..top : used[i] = t
      BY <2>2
    <3>2. Position(t) = i /\ nd[i] \in Marks
      BY <1>4, <3>1
    <3>3. new(t) = [task[t] EXCEPT !.needed = nd[i]]
      BY <2>2, <3>2
    <3>. HIDE DEF new
    <3>. QED
      BY <2>1, <3>2, <3>3 DEF Entries, Marks
  <2>3. CASE ~\E i \in 1..top : used[i] = t
    BY <2>1, <2>3
  <2>. QED
    BY <2>2, <2>3
<1>6. ASSUME NEW t \in Tasks
      PROVE  /\ new(t).var = task[t].var /\ new(t).pipe = task[t].pipe
             /\ new(t).out_used = task[t].out_used
             /\ new(t).not_in_use_before = task[t].not_in_use_before
             /\ new(t).flags = task[t].flags /\ new(t).stage = task[t].stage
  <2>1. task[t] \in Entries
    BY <1>1
  <2>. QED
    BY <2>1 DEF Entries
<1>7. ASSUME NEW i \in 1..Len(used)
      PROVE  new(used[i]).needed = IF i <= top THEN nd[i] ELSE task[used[i]].needed
  <2>1. used[i] \in Tasks /\ task[used[i]] \in Entries
    BY <1>1
  <2>2. CASE i <= top
    <3>1. i \in 1..top
      BY <2>2
    <3>2. Position(used[i]) = i
      BY <1>4, <3>1
    <3>3. new(used[i]) = [task[used[i]] EXCEPT !.needed = nd[i]]
      BY <3>1, <3>2
    <3>. HIDE DEF new
    <3>. QED
      BY <2>1, <2>2, <3>3 DEF Entries
  <2>3. CASE ~(i <= top)
    <3>1. ~\E k \in 1..top : used[k] = used[i]
      BY <1>2, <1>4, <2>3
    <3>. QED
      BY <2>3, <3>1
  <2>. QED
    BY <2>2, <2>3
<1>. HIDE DEF new
<1>8. \A t \in Tasks : task'[t] = new(t)
  BY <1>3
<1>9. SameTable
  BY <1>3, <1>5, <1>6, <1>8 DEF SameTable, SameVar
<1>10. QueueInv' /\ QueueTypes'
  <2>1. untaken' = untaken \union release /\ on_hold' = on_hold \ release
    BY DEF mark_as_needed
  <2>2. release \subseteq on_hold /\ untaken \intersect on_hold = {}
    BY DEF QueueInv
  <2>. HIDE DEF release
  <2>3. untaken' \union on_hold' = untaken \union on_hold /\ untaken' \intersect on_hold' = {}
    BY <2>1, <2>2
  <2>4. \A t \in Tasks : WaitsAsBefore(t)
    BY <1>6, <1>8 DEF WaitsAsBefore
  <2>. QED
    BY <2>3, <2>4, QueuesReleased
<1>. QED
  BY <1>1, <1>6, <1>7, <1>8, <1>9, <1>10

-----------------------------------------------------------------------------
(* The actions.                                                            *)

\* The stages and flags of tasks are the same, too.
SameStages == \A t \in Tasks : task'[t].flags = task[t].flags /\ task'[t].stage = task[t].stage

\* A step that changes only needed fields, queues and the call keeps TableInv.
LEMMA QuietKeeps ==
  ASSUME TableInv, SameTable, SameStages, UNCHANGED <<marks, this_task>>, QueueInv', QueueTypes',
         CallTypes'
  PROVE  /\ TableInv' /\ InTable' = InTable /\ InTable \subseteq Tasks
         /\ \A a \in InTable : Out(a)' = Out(a) /\ OtherInputs(a)' = OtherInputs(a)
         /\ \A x \in Tasks : GoesOn(x)
<1>0. TypeOK /\ IdleInv
  BY DEF TableInv
<1>1. \A x \in Tasks : GoesOn(x)
  BY DEF SameStages, GoesOn, Computed, Done
<1>2. /\ InTable' = InTable
      /\ PipeInv' /\ UsedInv' /\ AntiInv' /\ UseInv' /\ BeforeInv' /\ EndInv'
  BY <1>1, SameTableKeeps
<1>3. StartInv'
  BY <1>1, StartSame DEF SameStages
<1>4. IdleInv'
  BY <1>0, <1>2 DEF IdleInv, SameStages
<1>5. TypeOK'
  BY <1>0 DEF TypeOK, SameTable, Entries, marks, QueueTypes, CallTypes
<1>6. InTable \subseteq Tasks
  BY <1>0, TableIs
<1>7. \A a \in InTable : Out(a)' = Out(a) /\ OtherInputs(a)' = OtherInputs(a)
  BY <1>6, SameOut DEF SameTable
<1>. QED
  BY <1>1, <1>2, <1>3, <1>4, <1>5, <1>6, <1>7 DEF TableInv

\* With the task table unchanged, what is said above of it holds.
LEMMA SameTask ==
  ASSUME TypeOK, UNCHANGED <<task, used>>
  PROVE  SameTable /\ SameStages
BY TableIs DEF SameTable, SameVar, SameStages

\* The idle call has its type.
LEMMA IdleIs == Idle \in [op : {"none", "do_task", "no_merge", "computed", "not_in_use",
                                  "all", "start"},
                            kind : TaskKinds, ops : 1..MaxOpsMerged, vs : SUBSET Vars]
                /\ Idle.op = "none" /\ Idle.kind.flags = {}
BY DEF Idle, NoKind, TaskKinds, MaxOpsMerged

\* No call is under way.
LEMMA ReturnKeeps ==
  ASSUME TableInv', ComputeInv', Return
  PROVE  IInv'
<1>1. call' = Idle /\ pc' = "app" /\ call'.op = "none" /\ call'.kind.flags = {}
  BY IdleIs DEF Return
<1>. QED
  BY <1>1 DEF IInv, CallInv, NeededInv, WaitInv, Scheduling, Now, ForMaster, kind

\* ReleaseHolds keeps the invariant.
LEMMA ReleaseKeeps ==
  ASSUME IInv, ReleaseHolds
  PROVE  IInv'
<1>0. TableInv /\ TypeOK /\ QueueInv /\ ComputeInv /\ CallInv
  BY DEF IInv, TableInv
<1>1. SameTable /\ SameStages
  BY <1>0, SameTask DEF ReleaseHolds
<1>2. QueueInv' /\ QueueTypes'
  <2>1. \A x \in Tasks : WaitsAsBefore(x)
    BY <1>1 DEF WaitsAsBefore, SameStages
  <2>2. /\ master_only' = master_only /\ untaken' \union on_hold' = untaken \union on_hold
        /\ untaken' \intersect on_hold' = {} /\ used' = used
    BY DEF ReleaseHolds
  <2>. QED
    BY <1>0, <2>1, <2>2, QueuesReleased
<1>3. CallTypes'
  BY <1>0 DEF ReleaseHolds, CallTypes, TypeOK
<1>4. TableInv' /\ \A x \in Tasks : GoesOn(x)
  BY <1>0, <1>1, <1>2, <1>3, QuietKeeps DEF ReleaseHolds
<1>5. ComputeInv'
  <2>1. UNCHANGED being_computed /\ call' = call
    BY DEF ReleaseHolds, marks
  <2>. QED
    BY <1>0, <1>1, <1>4, <2>1, SameTableCompute
<1>6. Return
  BY <1>0 DEF ReleaseHolds, Return, CallInv
<1>. QED
  BY <1>4, <1>5, <1>6, ReturnKeeps

\* WaitForAll: everything in the table is needed.
LEMMA WaitAllKeeps ==
  ASSUME IInv, WaitForAll
  PROVE  IInv'
<1>0. TableInv /\ TypeOK /\ QueueInv /\ ComputeInv /\ CallInv
  BY DEF IInv, TableInv
<1>1. InTable \subseteq Tasks /\ task \in [Tasks -> Entries] /\ used' = used
  BY <1>0, TableIs DEF WaitForAll
<1>. DEFINE new(t) == IF t \in Range(used) THEN [task[t] EXCEPT !.needed = 1] ELSE task[t]
<1>2. ASSUME NEW t \in Tasks
      PROVE  /\ new(t) \in Entries
             /\ new(t).var = task[t].var /\ new(t).pipe = task[t].pipe
             /\ new(t).out_used = task[t].out_used
             /\ new(t).not_in_use_before = task[t].not_in_use_before
             /\ new(t).flags = task[t].flags /\ new(t).stage = task[t].stage
             /\ t \in InTable => new(t).needed = 1
  <2>1. task[t] \in Entries
    BY <1>1
  <2>. QED
    BY <2>1 DEF Entries, InTable
<1>3. task' = [t \in Tasks |-> new(t)]
  BY DEF WaitForAll
<1>. HIDE DEF new
<1>4. SameTable /\ SameStages /\ \A t \in InTable : task'[t].needed = 1
  BY <1>1, <1>2, <1>3 DEF SameTable, SameStages, SameVar
<1>5. QueueInv' /\ QueueTypes'
  <2>1. \A x \in Tasks : WaitsAsBefore(x)
    BY <1>4 DEF WaitsAsBefore, SameStages
  <2>2. /\ master_only' = master_only /\ untaken' \union on_hold' = untaken \union on_hold
        /\ untaken' \intersect on_hold' = {}
    BY DEF WaitForAll
  <2>. QED
    BY <1>0, <1>1, <2>1, <2>2, QueuesReleased
<1>6. call' = [Idle EXCEPT !.op = "all"] /\ pc' = "needed" /\ call.op = "none"
  BY <1>0, IdleIs DEF WaitForAll, CallInv
<1>7. CallTypes' /\ call'.op = "all" /\ call'.kind.flags = {}
  BY <1>6, IdleIs DEF CallTypes
<1>8. TableInv' /\ InTable' = InTable /\ \A x \in Tasks : GoesOn(x)
  BY <1>0, <1>4, <1>5, <1>7, QuietKeeps DEF WaitForAll
<1>9. ComputeInv'
  <2>1. UNCHANGED being_computed
    BY DEF WaitForAll, marks
  <2>. QED
    BY <1>0, <1>4, <1>6, <1>8, <2>1, SameTableCompute
<1>10. CallInv' /\ NeededInv' /\ WaitInv'
  BY <1>4, <1>6, <1>7, <1>8 DEF CallInv, NeededInv, WaitInv, Scheduling, Now, ForMaster, kind
<1>. QED
  BY <1>8, <1>9, <1>10 DEF IInv

\* Tasks marked as needed, in whichever call.
LEMMA MarkKeeps ==
  ASSUME IInv, NEW top \in Nat, top <= Len(used), NEW nd \in [1..top -> Marks],
         mark_as_needed(nd), UNCHANGED <<used, master_only, marks, this_task>>, CallTypes',
         call.op = "no_merge" => call'.op = "no_merge" /\ call'.kind.var[0] = call.kind.var[0]
  PROVE  /\ TableInv' /\ ComputeInv' /\ InTable' = InTable
         /\ \A a \in InTable : Out(a)' = Out(a) /\ OtherInputs(a)' = OtherInputs(a)
                               /\ task'[a].flags = task[a].flags /\ task'[a].stage = task[a].stage
         /\ \A i \in 1..Len(used) : task'[used[i]].needed =
              IF i <= top THEN nd[i] ELSE task[used[i]].needed
<1>0. TableInv /\ TypeOK /\ QueueInv /\ ComputeInv
  BY DEF IInv, TableInv
<1>1. /\ SameTable /\ QueueInv' /\ QueueTypes' /\ SameStages
      /\ \A i \in 1..Len(used) : task'[used[i]].needed =
           IF i <= top THEN nd[i] ELSE task[used[i]].needed
  BY <1>0, MarkIs DEF SameStages
<1>2. /\ TableInv' /\ InTable' = InTable /\ InTable \subseteq Tasks
      /\ \A a \in InTable : Out(a)' = Out(a) /\ OtherInputs(a)' = OtherInputs(a)
      /\ \A x \in Tasks : GoesOn(x)
  BY <1>0, <1>1, QuietKeeps
<1>3. ComputeInv'
  <2>1. UNCHANGED being_computed
    BY DEF marks
  <2>. QED
    BY <1>0, <1>1, <1>2, <2>1, SameTableCompute
<1>. QED
  BY <1>1, <1>2, <1>3 DEF SameStages

\* StartComputing: the master waits for nothing in particular.
LEMMA StartComputingKeeps ==
  ASSUME IInv, StartComputing
  PROVE  IInv'
<1>0. TypeOK /\ CallInv /\ call.op = "none"
  BY IdleIs DEF IInv, TableInv, StartComputing, CallInv
<1>1. PICK v \in Vars :
        /\ Writer(v) # None
        /\ LET top == Position(Writer(v))
               own == [i \in 1..top |-> IF i = top THEN -1 ELSE 0]
               nd == Needed(own, -1, top)
           IN  mark_as_needed(nd) /\ pc' \in {"needed", "starting"}
        /\ call' = [Idle EXCEPT !.op = "start", !.vs = {v}]
  BY DEF StartComputing
<1>. DEFINE top == Position(Writer(v))
            own == [i \in 1..top |-> IF i = top THEN -1 ELSE 0]
            nd == Needed(own, -1, top)
<1>2. top \in Nat /\ top <= Len(used)
  <2>1. Writer(v) \in InTable
    BY <1>0, <1>1, WriterIs DEF LastWriter
  <2>2. PICK i \in 1..Len(used) : Writer(v) = used[i]
    BY <1>0, <2>1, TableIs
  <2>3. top = i
    BY <1>0, <2>2, PositionIs
  <2>. HIDE DEF top
  <2>. QED
    BY <1>0, <2>2, <2>3, TableIs
<1>3. mark_as_needed(nd) /\ pc' \in {"needed", "starting"}
  BY <1>1
<1>. HIDE DEF top
<1>4. nd \in [1..top -> Marks]
  <2>1. own \in [1..top -> Marks] /\ -1 \in Marks
    BY <1>2 DEF Marks
  <2>. HIDE DEF own
  <2>. QED
    BY <1>0, <1>2, <2>1, NeededIs DEF MarksOwn
<1>. HIDE DEF nd
<1>5. CallTypes' /\ call'.op = "start" /\ call'.kind.flags = {}
  BY <1>1, <1>3, IdleIs DEF CallTypes
<1>6. TableInv' /\ ComputeInv'
  BY <1>0, <1>2, <1>3, <1>4, <1>5, MarkKeeps DEF StartComputing
<1>7. CallInv' /\ NeededInv' /\ WaitInv'
  BY <1>3, <1>5 DEF CallInv, NeededInv, WaitInv, Scheduling, Now, ForMaster, kind
<1>. QED
  BY <1>6, <1>7 DEF IInv

\* Wait: every task that has to do with the variables waited for is needed.
LEMMA WaitKeeps ==
  ASSUME IInv, Wait
  PROVE  IInv'
<1>0. TableInv /\ TypeOK /\ QueueInv /\ ComputeInv /\ CallInv /\ CallTypes
  BY DEF IInv, TableInv, TypeOK, CallTypes
<1>. DEFINE computed == call.op = "computed"
            own == [i \in 1..helpers_tasks |->
                IF \/ computed /\ At(i).var[0] \in call.vs
                   \/ ~computed /\ call.vs \intersect (Inputs(At(i)) \ {At(i).var[0]}) # {}
                  THEN 1 ELSE 0]
            nd == Needed(own, 1, helpers_tasks)
<1>1. /\ call.op \in {"computed", "not_in_use"} /\ ~Scheduling
      /\ UNCHANGED <<used, master_only, marks, this_task>>
  BY DEF Wait, Scheduling
<1>2. CASE mark_as_needed(nd) /\ pc' = "needed" /\ UNCHANGED call
  <2>1. helpers_tasks = Len(used) /\ Len(used) \in Nat
    BY <1>0, TableIs DEF helpers_tasks
  <2>2. own \in [1..Len(used) -> Marks] /\ 1 \in Marks
    BY <2>1 DEF Marks
  <2>3. \A i \in 1..Len(used) :
          own[i] = IF \/ computed /\ Out(used[i]) \in call.vs
                      \/ ~computed /\ call.vs \intersect OtherInputs(used[i]) # {} THEN 1 ELSE 0
    BY <2>1 DEF At, Out, OtherInputs
  <2>. HIDE DEF own
  <2>4. MarksOwn(nd, own, Len(used))
    BY <1>0, <2>1, <2>2, NeededIs
  <2>. HIDE DEF nd
  <2>5. nd \in [1..Len(used) -> Marks] /\ \A i \in 1..Len(used) : own[i] # 0 => nd[i] = 1
    BY <2>3, <2>4 DEF MarksOwn
  <2>6. CallTypes' /\ call' = call /\ call.op # "no_merge"
    BY <1>0, <1>1, <1>2 DEF CallTypes
  <2>7. /\ TableInv' /\ ComputeInv' /\ InTable' = InTable
        /\ \A a \in InTable : Out(a)' = Out(a) /\ OtherInputs(a)' = OtherInputs(a)
        /\ \A i \in 1..Len(used) : task'[used[i]].needed =
             IF i <= Len(used) THEN nd[i] ELSE task[used[i]].needed
    BY <1>1, <1>2, <2>1, <2>5, <2>6, MarkKeeps
  <2>8. InTable = {used[i] : i \in 1..Len(used)}
    BY <1>0, TableIs
  <2>9. ASSUME NEW a \in InTable
        PROVE  /\ computed /\ Out(a) \in call.vs => task'[a].needed = 1
               /\ ~computed /\ OtherInputs(a) \intersect call.vs # {} => task'[a].needed = 1
    <3>1. PICK i \in 1..Len(used) : a = used[i]
      BY <2>8
    <3>2. task'[a].needed = nd[i]
      BY <2>7, <3>1
    <3>3. own[i] # 0 => nd[i] = 1
      BY <2>5
    <3>. QED
      BY <2>3, <3>1, <3>2, <3>3
  <2>10. WaitInv'
    BY <1>1, <2>6, <2>7, <2>9 DEF WaitInv
  <2>11. CallInv' /\ NeededInv'
    <3>1. UNCHANGED in_use
      BY <1>1 DEF marks
    <3>. QED
      BY <1>0, <1>1, <1>2, <2>6, <3>1 DEF CallInv, NeededInv, Scheduling, Now, ForMaster, kind
  <2>. QED
    BY <2>7, <2>10, <2>11 DEF IInv
<1>3. CASE Return /\ UNCHANGED <<task, untaken, on_hold>>
  <2>1. SameTable /\ SameStages
    BY <1>0, <1>1, <1>3, SameTask
  <2>2. QueueInv' /\ QueueTypes'
    <3>1. \A x \in Tasks : WaitsAsBefore(x)
      BY <2>1 DEF WaitsAsBefore, SameStages
    <3>2. untaken \intersect on_hold = {}
      BY <1>0 DEF QueueInv
    <3>. QED
      BY <1>0, <1>1, <1>3, <3>1, <3>2, QueuesReleased
  <2>3. CallTypes'
    BY <1>3, IdleIs DEF Return, CallTypes
  <2>4. TableInv' /\ \A x \in Tasks : GoesOn(x)
    BY <1>0, <1>1, <2>1, <2>2, <2>3, QuietKeeps
  <2>5. ComputeInv'
    <3>1. UNCHANGED being_computed /\ call.op # "no_merge"
      BY <1>1 DEF marks
    <3>. QED
      BY <1>0, <2>1, <2>4, <3>1, SameTableCompute
  <2>. QED
    BY <1>3, <2>4, <2>5, ReturnKeeps
<1>4. \/ mark_as_needed(nd) /\ pc' = "needed" /\ UNCHANGED call
      \/ Return /\ UNCHANGED <<task, untaken, on_hold>>
  BY DEF Wait
<1>. QED
  BY <1>2, <1>3, <1>4

\* Schedule: some tasks are on hold no longer.
LEMMA ScheduleKeeps ==
  ASSUME IInv, Schedule
  PROVE  IInv'
<1>0. TableInv /\ TypeOK /\ QueueInv /\ ComputeInv /\ CallInv /\ CallTypes
  BY DEF IInv, TableInv, TypeOK, CallTypes
<1>1. /\ call.op = "do_task" /\ ~Now /\ pc' \in {"full", "fill"}
      /\ UNCHANGED <<task, used, master_only, marks, this_task, call>>
  BY <1>0 DEF Schedule, NoMerge, CallInv, Now
<1>2. SameTable /\ SameStages
  BY <1>0, <1>1, SameTask
<1>3. QueueInv' /\ QueueTypes'
  <2>1. \A x \in Tasks : WaitsAsBefore(x)
    BY <1>2 DEF WaitsAsBefore, SameStages
  <2>2. PICK S : on_hold' = on_hold \ S /\ untaken' = untaken \union (on_hold \ on_hold')
    <3>. DEFINE held == on_hold \ {t \in on_hold : task[t].var[0] \in Inputs(kind)}
    <3>1. PICK one \in IF held = Tasks THEN Tasks ELSE {None} :
                 /\ on_hold' = held \ {one}
                 /\ untaken' = untaken \union (on_hold \ on_hold')
      BY DEF Schedule
    <3>2. on_hold' = on_hold \ ({t \in on_hold : task[t].var[0] \in Inputs(kind)} \union {one})
      BY <3>1
    <3>. QED
      BY <3>1, <3>2
  <2>3. untaken \intersect on_hold = {}
    BY <1>0 DEF QueueInv
  <2>4. untaken' \union on_hold' = untaken \union on_hold /\ untaken' \intersect on_hold' = {}
    BY <2>2, <2>3
  <2>. QED
    BY <1>0, <1>1, <2>1, <2>4, QueuesReleased
<1>4. CallTypes'
  BY <1>0, <1>1 DEF CallTypes
<1>5. TableInv' /\ \A x \in Tasks : GoesOn(x)
  BY <1>0, <1>1, <1>2, <1>3, <1>4, QuietKeeps
<1>6. ComputeInv'
  BY <1>0, <1>1, <1>2, <1>5, SameTableCompute DEF marks
<1>7. CallInv' /\ NeededInv' /\ WaitInv'
  BY <1>0, <1>1 DEF CallInv, NeededInv, WaitInv, Scheduling, Now, ForMaster, kind, marks
<1>. QED
  BY <1>5, <1>6, <1>7 DEF IInv

\* ScheduleNow: every task that the master-now task takes input from is needed, those that
\* it may take the input from by piping at least to start.
LEMMA ScheduleNowKeeps ==
  ASSUME IInv, ScheduleNow
  PROVE  IInv'
<1>0. TableInv /\ TypeOK /\ QueueInv /\ ComputeInv /\ CallInv /\ CallTypes
  BY DEF IInv, TableInv, TypeOK, CallTypes
<1>. DEFINE Piping(i, w) == "PIPE_OUT" \in At(i).flags /\ PipeIn(w) \in kind.flags
            ws(i) == {w \in 0..2 : At(i).var[0] \in {kind.var[w]} \ {Null}}
            own == [i \in 1..helpers_tasks |->
                     IF "MASTER_ONLY" \in At(i).flags THEN 1
                     ELSE IF ws(i) = {} THEN 0
                     ELSE IF \A w \in ws(i) : Piping(i, w) THEN -1 ELSE 1]
            nd == Needed(own, 0, helpers_tasks)
<1>1. /\ Scheduling /\ Now /\ UNCHANGED <<used, master_only, marks, this_task, call>>
      /\ mark_as_needed(nd) /\ pc' = IF AnyNeeded(nd) THEN "needed" ELSE "now"
  BY DEF ScheduleNow, NoMerge, Scheduling, Now
<1>2. helpers_tasks = Len(used) /\ Len(used) \in Nat /\ InTable = {used[i] : i \in 1..Len(used)}
  BY <1>0, TableIs DEF helpers_tasks
<1>3. own \in [1..Len(used) -> Marks] /\ 0 \in Marks
  BY <1>2 DEF Marks
<1>4. ASSUME NEW i \in 1..Len(used), NEW w \in 0..2, Out(used[i]) = kind.var[w],
             Out(used[i]) # Null
      PROVE  own[i] # 0 /\ (own[i] = -1 => Piping(i, w))
  <2>1. w \in ws(i)
    BY <1>4 DEF At, Out
  <2>. QED
    BY <1>2, <2>1
<1>. HIDE DEF own
<1>5. MarksOwn(nd, own, Len(used))
  BY <1>0, <1>2, <1>3, NeededIs
<1>. HIDE DEF nd
<1>6. nd \in [1..Len(used) -> Marks]
  BY <1>5 DEF MarksOwn
<1>7. CallTypes' /\ call' = call
  BY <1>0, <1>1 DEF CallTypes
<1>8. /\ TableInv' /\ ComputeInv' /\ InTable' = InTable
      /\ \A a \in InTable : Out(a)' = Out(a) /\ task'[a].flags = task[a].flags
      /\ \A i \in 1..Len(used) : task'[used[i]].needed =
           IF i <= Len(used) THEN nd[i] ELSE task[used[i]].needed
  BY <1>1, <1>2, <1>6, <1>7, MarkKeeps
<1>9. ASSUME NEW a \in InTable, NEW w \in 0..2, Out(a) = kind.var[w], Out(a) # Null
      PROVE  /\ task'[a].needed # 0
             /\ task'[a].needed = -1 => "PIPE_OUT" \in task[a].flags /\ PipeIn(w) \in kind.flags
             /\ pc' # "now"
  <2>1. PICK i \in 1..Len(used) : a = used[i]
    BY <1>2
  <2>2. task'[a].needed = nd[i]
    BY <1>8, <2>1
  <2>3. own[i] # 0 /\ (own[i] = -1 => Piping(i, w))
    BY <1>4, <1>9, <2>1
  <2>4. nd[i] # 0 /\ (nd[i] = -1 => own[i] = -1)
    BY <1>5, <2>3 DEF MarksOwn
  <2>5. AnyNeeded(nd)
    BY <1>6, <2>4 DEF AnyNeeded
  <2>. QED
    BY <1>1, <2>1, <2>2, <2>3, <2>4, <2>5 DEF At
<1>10. NeededInv'
  BY <1>1, <1>7, <1>8, <1>9 DEF NeededInv, kind
<1>11. CallInv' /\ WaitInv'
  BY <1>0, <1>1 DEF CallInv, WaitInv, Scheduling, Now, ForMaster, kind, marks
<1>. QED
  BY <1>8, <1>10, <1>11 DEF IInv

\* A master-now task is done once the tasks it takes its input from have computed it.
LEMMA NowComputed ==
  ASSUME IInv, DoNow, NEW a \in InTable, NEW w \in 0..2, Out(a) = kind.var[w], Out(a) # Null,
         Pipes[w] = Writer(kind.var[w])
  PROVE  Computed(a)
<1>0. TableInv /\ TypeOK /\ StartInv /\ NeededInv /\ CallInv
  BY DEF IInv, TableInv
<1>1. Scheduling /\ InTable \subseteq Tasks /\ task \in [Tasks -> Entries]
  BY <1>0, TableIs DEF DoNow, CallInv
<1>2. \A x \in InTable : Out(x) = kind.var[w] /\ Out(x) # Null =>
         /\ task[x].needed = -1 /\ task[x].stage # "waiting"
         /\ "PIPE_OUT" \in task[x].flags /\ PipeIn(w) \in kind.flags
  BY <1>0, <1>1 DEF NeededInv, DoNow
<1>. DEFINE p == Writer(kind.var[w])
<1>3. LastWriter(p, kind.var[w])
  BY <1>0, WriterIs
<1>4. p \in InTable /\ Out(p) = Out(a) /\ (a = p \/ <<a, p>> \in Order)
  BY <1>3 DEF LastWriter
<1>. HIDE DEF p
<1>5. task[p].stage # "waiting" /\ PipeIn(w) \in kind.flags
  BY <1>2, <1>4
<1>6. task[p].stage \in {"computed", "done"}
  <2>1. p # None
    BY <1>1, <1>4, NoneIs
  <2>2. Pipes[w] = p
    BY DEF p
  <2>. QED
    BY <1>5, <2>1, <2>2 DEF DoNow
<1>7. CASE a = p
  BY <1>6, <1>7 DEF Computed
<1>8. CASE <<a, p>> \in Order
  <2>1. task[p].var[0] = Out(a) /\ a \in Tasks /\ p \in Tasks
    BY <1>1, <1>4 DEF Out
  <2>2. Computed(a) \/ Pipelined(a, p, Out(a))
    BY <1>0, <1>5, <1>8, <2>1 DEF StartInv
  <2>. QED
    BY <1>6, <2>2 DEF Pipelined
<1>. QED
  BY <1>4, <1>7, <1>8

\* DoNow: what the task taken out of the table by MergeNow was to update is computed.
LEMMA DoNowKeeps ==
  ASSUME IInv, DoNow
  PROVE  IInv'
<1>0. TableInv /\ TypeOK /\ QueueInv /\ ComputeInv /\ CallInv
  BY DEF IInv, TableInv
<1>1. UNCHANGED <<task, used, queues, marks, this_task>> /\ Return
  BY DEF DoNow
<1>2. SameTable /\ SameStages
  BY <1>0, <1>1, SameTask
<1>3. QueueInv' /\ QueueTypes'
  <2>1. \A x \in Tasks : WaitsAsBefore(x)
    BY <1>2 DEF WaitsAsBefore, SameStages
  <2>2. untaken \intersect on_hold = {}
    BY <1>0 DEF QueueInv
  <2>. QED
    BY <1>0, <1>1, <2>1, <2>2, QueuesReleased DEF queues
<1>4. CallTypes'
  BY <1>1, IdleIs DEF Return, CallTypes
<1>5. TableInv' /\ InTable' = InTable
  BY <1>0, <1>1, <1>2, <1>3, <1>4, QuietKeeps
<1>6. ASSUME NEW a \in InTable, Unfinished(a), Out(a) \notin being_computed \union {Null}
      PROVE  FALSE
  <2>1. Out(a) = kind.var[0]
    BY <1>0, <1>6 DEF ComputeInv
  <2>2. Pipes[0] = Writer(kind.var[0])
    BY DEF Pipes
  <2>3. Computed(a)
    BY <1>6, <2>1, <2>2, NowComputed
  <2>. QED
    BY <1>6, <2>3 DEF Computed, Unfinished
<1>7. ComputeInv'
  BY <1>1, <1>5, <1>6 DEF ComputeInv, Unfinished, Out, marks
<1>. QED
  BY <1>1, <1>5, <1>7, ReturnKeeps

\* What pqR's kinds of tasks are like: those for the master are not merged with others (the
\* only one there is, in src/main/array.c, line 1359, has no HELPERS_MERGE_IN).
NoMasterMerge == \A k \in Kinds : ~({"MERGE_IN", "MASTER_ONLY"} \subseteq k.flags)

\* notice_completed in a step of the master.
LEMMA NoticeStep ==
  ASSUME IInv, NoticeCompleted, UNCHANGED <<queues, this_task>>, CallTypes',
         call.op = "no_merge" => call'.op = "no_merge" /\ call'.kind.var[0] = call.kind.var[0]
  PROVE  /\ TableInv' /\ ComputeInv' /\ in_use' \subseteq in_use
         /\ \A a \in InTable' : /\ a \in InTable /\ Out(a)' = Out(a)
                                /\ OtherInputs(a)' = OtherInputs(a)
                                /\ task'[a].needed = task[a].needed
                                /\ task'[a].flags = task[a].flags
                                /\ task'[a].stage = task[a].stage
<1>0. TableInv /\ ComputeInv
  BY DEF IInv
<1>1. TableInv' /\ ComputeInv'
  BY <1>0, NoticeKeeps, NoticeCompute
<1>2. in_use' \subseteq in_use
  BY <1>0, NoticeInUse
<1>3. \A a \in InTable' : /\ a \in InTable /\ SameVar(a)
                          /\ task'[a].needed = task[a].needed
                          /\ task'[a].flags = task[a].flags
                          /\ task'[a].stage = task[a].stage
  BY <1>0, NoticeFields
<1>. QED
  BY <1>1, <1>2, <1>3, SameOut

\* CallDoTask: what a new task is to update is not in use.
LEMMA CallDoTaskKeeps ==
  ASSUME NoMasterMerge, IInv, CallDoTask
  PROVE  IInv'
<1>0. TypeOK /\ CallInv /\ call.op = "none" /\ pc' = "called" /\ NoticeCompleted
      /\ UNCHANGED <<queues, this_task>>
  BY IdleIs DEF IInv, TableInv, CallDoTask, CallInv
<1>1. PICK k \in Allowed :
        call' = [Idle EXCEPT !.op = "do_task", !.kind =
            IF k.flags \intersect {"MASTER_ONLY", "MASTER_NOW"} # {}
              THEN [k EXCEPT !.flags = @ \ {"HOLD"}] ELSE k]
  BY DEF CallDoTask
<1>. DEFINE new == IF k.flags \intersect {"MASTER_ONLY", "MASTER_NOW"} # {}
                     THEN [k EXCEPT !.flags = @ \ {"HOLD"}] ELSE k
<1>2. k \in Kinds /\ k \in TaskKinds /\ k.var[0] \notin in_use
  BY ConstantsAssumption DEF Allowed
<1>3. /\ new \in TaskKinds /\ new.var = k.var /\ new.flags \subseteq k.flags
      /\ new.flags \intersect {"MASTER_ONLY", "MASTER_NOW"} # {} => "HOLD" \notin new.flags
  <2>1. k.flags \in SUBSET Flags
    BY <1>2 DEF TaskKinds
  <2>2. CASE k.flags \intersect {"MASTER_ONLY", "MASTER_NOW"} # {}
    <3>1. new = [k EXCEPT !.flags = k.flags \ {"HOLD"}]
      BY <2>2
    <3>. HIDE DEF new
    <3>2. new \in TaskKinds /\ new.var = k.var /\ new.flags = k.flags \ {"HOLD"}
      BY <1>2, <3>1 DEF TaskKinds
    <3>. QED
      BY <3>2
  <2>3. CASE k.flags \intersect {"MASTER_ONLY", "MASTER_NOW"} = {}
    BY <1>2, <2>3
  <2>. QED
    BY <2>2, <2>3
<1>4. call' = [Idle EXCEPT !.op = "do_task", !.kind = new]
  BY <1>1
<1>. HIDE DEF new
<1>5. CallTypes' /\ call'.op = "do_task" /\ call'.kind = new
  <2>1. call' \in [op : {"none", "do_task", "no_merge", "computed", "not_in_use",
                         "all", "start"},
                   kind : TaskKinds, ops : 1..MaxOpsMerged, vs : SUBSET Vars]
        /\ call'.op = "do_task" /\ call'.kind = new
    BY <1>3, <1>4, IdleIs
  <2>. QED
    BY <1>0, <2>1 DEF CallTypes
<1>6. TableInv' /\ ComputeInv' /\ in_use' \subseteq in_use
  BY <1>0, <1>5, NoticeStep
<1>7. ~({"MERGE_IN", "MASTER_ONLY"} \subseteq new.flags)
  BY <1>2, <1>3 DEF NoMasterMerge
<1>8. CallInv'
  BY <1>0, <1>2, <1>3, <1>5, <1>6, <1>7 DEF CallInv, Scheduling, Now, ForMaster, kind
<1>9. NeededInv' /\ WaitInv'
  BY <1>0 DEF NeededInv, WaitInv
<1>. QED
  BY <1>6, <1>8, <1>9 DEF IInv

\* CallWait keeps the invariant.
LEMMA CallWaitKeeps ==
  ASSUME IInv, CallWait
  PROVE  IInv'
<1>0. TypeOK /\ CallInv /\ call.op = "none" /\ pc' = "called" /\ NoticeCompleted
      /\ UNCHANGED <<queues, this_task>>
  BY IdleIs DEF IInv, TableInv, CallWait, CallInv
<1>1. in_use \subseteq Vars /\ being_computed \subseteq Vars
  BY <1>0 DEF TypeOK
<1>2. PICK o \in {"computed", "not_in_use"}, S \in SUBSET Vars :
        call' = [Idle EXCEPT !.op = o, !.vs = S]
  <2>1. CASE \E v1 \in being_computed, v2 \in Vars :
            call' = [Idle EXCEPT !.op = "computed", !.vs = {v1, v2}]
    <3>1. PICK v1 \in being_computed, v2 \in Vars :
            call' = [Idle EXCEPT !.op = "computed", !.vs = {v1, v2}]
      BY <2>1
    <3>2. {v1, v2} \in SUBSET Vars
      BY <1>1
    <3>. QED
      BY <3>1, <3>2
  <2>2. CASE \E v \in in_use : call' = [Idle EXCEPT !.op = "not_in_use", !.vs = {v}]
    <3>1. PICK v \in in_use : call' = [Idle EXCEPT !.op = "not_in_use", !.vs = {v}]
      BY <2>2
    <3>2. {v} \in SUBSET Vars
      BY <1>1
    <3>. QED
      BY <3>1, <3>2
  <2>. QED
    BY <2>1, <2>2 DEF CallWait
<1>3. CallTypes' /\ call'.op \in {"computed", "not_in_use"} /\ call'.kind.flags = {}
  BY <1>0, <1>2, IdleIs DEF CallTypes
<1>4. TableInv' /\ ComputeInv'
  BY <1>0, <1>3, NoticeStep
<1>5. CallInv'
  BY <1>0, <1>3 DEF CallInv, Scheduling, Now, ForMaster, kind
<1>6. NeededInv' /\ WaitInv'
  BY <1>0 DEF NeededInv, WaitInv
<1>. QED
  BY <1>4, <1>5, <1>6 DEF IInv

\* NoticeFull keeps the invariant.
LEMMA NoticeFullKeeps ==
  ASSUME IInv, NoticeFull
  PROVE  IInv'
<1>0. TypeOK /\ CallInv /\ CallTypes /\ NoticeCompleted /\ UNCHANGED <<queues, this_task, call>>
      /\ pc = "full" /\ pc' \in {"full", "fill"}
  BY DEF IInv, TableInv, NoticeFull, TypeOK, CallTypes
<1>1. CallTypes'
  BY <1>0 DEF CallTypes
<1>2. TableInv' /\ ComputeInv' /\ in_use' \subseteq in_use
  BY <1>0, <1>1, NoticeStep
<1>3. CallInv'
  BY <1>0, <1>2 DEF CallInv, Scheduling, Now, ForMaster, kind
<1>4. NeededInv' /\ WaitInv'
  BY <1>0 DEF NeededInv, WaitInv
<1>. QED
  BY <1>2, <1>3, <1>4 DEF IInv

\* The tasks that must be waited for are out of the table.
LEMMA StillNeededIs ==
  ASSUME TypeOK', NEW a \in InTable', ~StillNeeded
  PROVE  task'[a].needed # 1 /\ (task'[a].needed = -1 => task'[a].stage # "waiting")
<1>1. PICK i \in 1..Len(used') : a = used'[i]
  <2>1. used' \in Seq(Tasks)
    BY DEF TypeOK
  <2>. QED
    BY <2>1 DEF InTable, Range
<1>. QED
  BY <1>1 DEF StillNeeded

\* NoticeNeeded: with nothing needed left a master-now task can be done.
LEMMA NoticeNeededKeeps ==
  ASSUME IInv, NoticeNeeded
  PROVE  IInv'
<1>0. TypeOK /\ CallInv /\ CallTypes /\ ComputeInv /\ NeededInv /\ WaitInv /\ NoticeCompleted
      /\ UNCHANGED <<queues, this_task>> /\ pc = "needed"
  BY DEF IInv, TableInv, NoticeNeeded, TypeOK, CallTypes
<1>1. CASE UNCHANGED call /\ (pc' = "needed" \/ (pc' = "now" /\ Now /\ ~StillNeeded))
  <2>1. CallTypes'
    BY <1>0, <1>1 DEF CallTypes
  <2>2. /\ TableInv' /\ ComputeInv' /\ in_use' \subseteq in_use
        /\ \A a \in InTable' : /\ a \in InTable /\ Out(a)' = Out(a)
                               /\ OtherInputs(a)' = OtherInputs(a)
                               /\ task'[a].needed = task[a].needed
                               /\ task'[a].flags = task[a].flags
                               /\ task'[a].stage = task[a].stage
    BY <1>0, <1>1, <2>1, NoticeStep
  <2>3. CallInv'
    BY <1>0, <1>1, <2>2 DEF CallInv, Scheduling, Now, ForMaster, kind
  <2>4. WaitInv'
    BY <1>0, <1>1, <2>2 DEF WaitInv
  <2>5. NeededInv'
    <3>1. ASSUME pc' = "now", NEW a \in InTable', task[a].needed # 0
          PROVE  task[a].needed = -1 /\ task[a].stage # "waiting"
      <4>1. task'[a].needed # 1 /\ (task'[a].needed = -1 => task'[a].stage # "waiting")
        BY <1>1, <2>2, <3>1, StillNeededIs DEF TableInv
      <4>2. task[a].needed \in {-1, 0, 1}
        BY <1>0, <2>2, TableIs DEF Entries
      <4>. QED
        BY <2>2, <3>1, <4>1, <4>2
    <3>. QED
      BY <1>0, <1>1, <2>2, <3>1 DEF NeededInv, Scheduling, kind
  <2>. QED
    BY <2>2, <2>3, <2>4, <2>5 DEF IInv
<1>2. CASE Return /\ ~Now
  <2>1. CallTypes'
    BY <1>2, IdleIs DEF Return, CallTypes
  <2>2. call.op # "no_merge"
    BY <1>0, <1>2 DEF CallInv
  <2>. QED
    BY <1>0, <1>2, <2>1, <2>2, NoticeStep, ReturnKeeps
<1>. QED
  BY <1>0, <1>1, <1>2 DEF NoticeNeeded, Now, kind

\* NoticeStarting keeps the invariant.
LEMMA NoticeStartingKeeps ==
  ASSUME IInv, NoticeStarting
  PROVE  IInv'
<1>0. TypeOK /\ CallInv /\ CallTypes /\ call.op = "start" /\ NoticeCompleted
      /\ UNCHANGED <<queues, this_task>> /\ pc = "starting"
  BY DEF IInv, TableInv, NoticeStarting, TypeOK, CallTypes, CallInv
<1>1. CASE UNCHANGED call /\ pc' \in {"needed", "starting"}
  <2>1. CallTypes'
    BY <1>0, <1>1 DEF CallTypes
  <2>2. TableInv' /\ ComputeInv' /\ in_use' \subseteq in_use
    BY <1>0, <1>1, <2>1, NoticeStep
  <2>3. CallInv' /\ WaitInv' /\ NeededInv'
    BY <1>0, <1>1, <2>2 DEF CallInv, WaitInv, NeededInv, Scheduling, Now, ForMaster, kind
  <2>. QED
    BY <2>2, <2>3 DEF IInv
<1>2. CASE Return
  <2>1. CallTypes'
    BY <1>2, IdleIs DEF Return, CallTypes
  <2>. QED
    BY <1>0, <1>2, <2>1, NoticeStep, ReturnKeeps
<1>3. (UNCHANGED call /\ pc' \in {"needed", "starting"}) \/ Return
  BY <1>0 DEF NoticeStarting
<1>. QED
  BY <1>1, <1>2, <1>3

\* The task merged with is the last that computes the variable, and waits.
LEMMA TargetIs ==
  ASSUME TypeOK, CanMerge
  PROVE  /\ LastWriter(Target, kind.var[0]) /\ Target \in InTable /\ Target \in Tasks
         /\ task[Target] \in Entries /\ task[Target].stage = "waiting"
         /\ Out(Target) = kind.var[0] /\ Out(Target) # Null
         /\ task[Target].ops + 1 \in 1..MaxOpsMerged
<1>1. LastWriter(Target, kind.var[0])
  BY WriterIs DEF CanMerge, Target
<1>2. Target \in InTable /\ Out(Target) = kind.var[0] /\ Out(Target) # Null
  BY <1>1 DEF LastWriter
<1>3. Target \in Tasks /\ task[Target] \in Entries
  BY <1>2, TableIs
<1>4. task[Target].ops + 1 \in 1..MaxOpsMerged
  <2>1. task[Target].ops \in 1..3 /\ task[Target].ops < 3
    BY <1>3 DEF Entries, MaxOpsMerged, CanMerge
  <2>. QED
    BY <2>1 DEF MaxOpsMerged
<1>. QED
  BY <1>1, <1>2, <1>3, <1>4 DEF CanMerge

\* Merge: the target is in the queue that its new flags ask for, or is still to be moved;
\* what comes in with the new operation is marked as in use.
LEMMA MergeKeeps ==
  ASSUME IInv, Merge
  PROVE  IInv'
<1>0. TableInv /\ TypeOK /\ QueueInv /\ ComputeInv /\ CallInv /\ UseInv /\ StartInv /\ IdleInv
  BY DEF IInv, TableInv
<1>1. CanMerge /\ call.op = "do_task" /\ "MERGE_IN" \in kind.flags /\ ~Now /\ pc = "called"
  BY DEF Merge, CanMerge, Now, Called
<1>2. "MASTER_ONLY" \notin kind.flags
  BY <1>0, <1>1 DEF CallInv
<1>. DEFINE flags == MergedFlags
            unhold == "HOLD" \in flags /\ "HOLD" \notin kind.flags /\ ~ForMaster
                        /\ "MASTER_ONLY" \notin flags
            new == IF unhold THEN flags \ {"HOLD"} ELSE flags
<1>3. /\ task' = [task EXCEPT ![Target].ops = @ + 1, ![Target].flags = new]
      /\ untaken' = IF unhold /\ Target \in on_hold THEN untaken \union {Target} ELSE untaken
      /\ on_hold' = IF unhold THEN on_hold \ {Target} ELSE on_hold
      /\ master_only' = master_only /\ Return
      /\ in_use' = in_use \union (Inputs(task[Target]) \ {kind.var[0]})
      /\ UNCHANGED <<used, being_computed, this_task>>
  BY <1>2 DEF Merge
<1>4. /\ Target \in InTable /\ Target \in Tasks /\ task[Target] \in Entries
      /\ task[Target].stage = "waiting" /\ Out(Target) = kind.var[0]
      /\ task[Target].ops + 1 \in 1..MaxOpsMerged
  BY <1>0, <1>1, TargetIs
<1>5. new \in SUBSET Flags /\ ("MASTER_ONLY" \in new <=> "MASTER_ONLY" \in task[Target].flags)
  <2>1. task[Target].flags \subseteq Flags
    BY <1>4 DEF Entries
  <2>2. FlagsToClear \subseteq {"MERGE_OUT", "HOLD"}
    BY DEF FlagsToClear
  <2>3. /\ MergedFlags \subseteq Flags
        /\ "MASTER_ONLY" \in MergedFlags <=> "MASTER_ONLY" \in task[Target].flags
    BY <2>1, <2>2 DEF MergedFlags, Flags
  <2>. QED
    BY <2>3
<1>. HIDE DEF new, unhold
<1>. DEFINE entry == [[task[Target] EXCEPT !.ops = @ + 1] EXCEPT !.flags = new]
<1>6. entry \in Entries /\ entry.flags = new /\ entry.stage = "waiting"
      /\ entry.var = task[Target].var /\ entry.pipe = task[Target].pipe
      /\ entry.out_used = task[Target].out_used
      /\ entry.not_in_use_before = task[Target].not_in_use_before
  BY <1>4, <1>5 DEF Entries
<1>7. task \in [Tasks -> Entries]
  BY <1>0, TableIs
<1>8. task'[Target] = entry /\ \A t \in Tasks : t # Target => task'[t] = task[t]
  <2>1. task' = [task EXCEPT ![Target] = entry]
    BY <1>3, <1>4, <1>7
  <2>. HIDE DEF entry
  <2>. QED
    BY <1>4, <1>7, <2>1
<1>9. task' \in [Tasks -> Entries]
  <2>1. task' = [task EXCEPT ![Target] = entry]
    BY <1>3, <1>4, <1>7
  <2>. HIDE DEF entry
  <2>. QED
    BY <1>4, <1>6, <1>7, <2>1
<1>. HIDE DEF entry
<1>10. SameTable
  BY <1>3, <1>6, <1>8, <1>9 DEF SameTable, SameVar
<1>11. \A x \in Tasks : task'[x].stage = task[x].stage
                            /\ (x # Target => task'[x].flags = task[x].flags)
  BY <1>4, <1>6, <1>8
<1>12. \A x \in Tasks : GoesOn(x)
  BY <1>11 DEF GoesOn, Computed, Done
<1>13. UNCHANGED marks
  <2>1. OtherInputs(Target) \subseteq in_use
    BY <1>0, <1>4 DEF UseInv, Done
  <2>. QED
    BY <1>3, <1>4, <2>1 DEF OtherInputs, marks
<1>14. /\ InTable' = InTable /\ Order' = Order
       /\ PipeInv' /\ UsedInv' /\ AntiInv' /\ UseInv' /\ BeforeInv' /\ EndInv'
  BY <1>0, <1>10, <1>12, <1>13, SameTableKeeps
<1>15. StartInv'
  <2>1. \A x \in Tasks : Out(x)' = Out(x) /\ task'[x].var = task[x].var
    BY <1>10, SameOut DEF SameTable, SameVar
  <2>2. ASSUME NEW a \in Tasks, NEW b \in Tasks, NEW w \in 0..2, <<a, b>> \in Order,
               task[b].var[w] = Out(a), Out(a) # Null, task[b].stage # "waiting"
        PROVE  Computed(a)' \/ Pipelined(a, b, Out(a))'
    <3>1. Computed(a) \/ Pipelined(a, b, Out(a))
      BY <1>0, <2>2 DEF StartInv
    <3>2. CASE Computed(a)
      BY <1>12, <3>2 DEF GoesOn
    <3>3. CASE Pipelined(a, b, Out(a))
      <4>1. a # Target /\ b # Target
        BY <1>4, <3>3 DEF Pipelined
      <4>. QED
        BY <1>11, <2>1, <3>3, <4>1 DEF Pipelined
    <3>. QED
      BY <3>1, <3>2, <3>3
  <2>. QED
    BY <1>11, <1>14, <2>1, <2>2 DEF StartInv
<1>16. QueueInv' /\ QueueTypes'
  <2>1. \A x \in Tasks : WaitsAsBefore(x)
    BY <1>4, <1>5, <1>6, <1>8 DEF WaitsAsBefore
  <2>2. untaken \intersect on_hold = {}
    BY <1>0 DEF QueueInv
  <2>3. untaken' \union on_hold' = untaken \union on_hold /\ untaken' \intersect on_hold' = {}
    BY <1>3, <2>2
  <2>. QED
    BY <1>0, <1>3, <2>1, <2>3, QueuesReleased
<1>17. IdleInv'
  BY <1>0, <1>11, <1>14 DEF IdleInv
<1>18. CallTypes'
  BY <1>3, IdleIs DEF Return, CallTypes
<1>19. TypeOK'
  BY <1>0, <1>3, <1>9, <1>13, <1>16, <1>18 DEF TypeOK, Entries, marks, QueueTypes, CallTypes
<1>20. ComputeInv'
  BY <1>0, <1>1, <1>3, <1>10, <1>12, SameTableCompute
<1>21. TableInv'
  BY <1>14, <1>15, <1>16, <1>17, <1>19 DEF TableInv
<1>. QED
  BY <1>3, <1>20, <1>21, ReturnKeeps

\* Nobody takes input from the task that is taken out of the table.
LEMMA NonePiped ==
  ASSUME IInv, CanMerge, NEW b \in InTable, NEW w \in 0..2
  PROVE  task[b].pipe[w] # Target
<1>0. TypeOK /\ PipeInv /\ StartInv /\ UseInv /\ CallInv
  BY DEF IInv, TableInv
<1>1. /\ LastWriter(Target, kind.var[0]) /\ Target \in InTable /\ Target \in Tasks
      /\ task[Target].stage = "waiting" /\ Out(Target) = kind.var[0] /\ Out(Target) # Null
  BY <1>0, TargetIs
<1>2. SUFFICES ASSUME task[b].pipe[w] = Target PROVE FALSE
  OBVIOUS
<1>3. b \in Tasks /\ Target # None
  BY <1>0, <1>1, TableIs, NoneIs
<1>4. PipedFrom(Target, w, b)
  BY <1>0, <1>2, <1>3 DEF PipeInv, PipeOK
<1>5. <<Target, b>> \in Order /\ task[b].var[w] = Out(Target)
  BY <1>4 DEF PipedFrom, Writers
<1>6. Out(b) # kind.var[0]
  BY <1>0, <1>1, <1>3, <1>5, OrderIs DEF LastWriter
<1>7. kind.var[0] \in OtherInputs(b)
  <2>1. w # 0
    BY <1>1, <1>5, <1>6 DEF Out
  <2>2. w = 1 \/ w = 2
    BY <2>1
  <2>3. kind.var[0] \in Inputs(task[b])
    BY <1>1, <1>5, <2>2 DEF Inputs
  <2>. QED
    BY <1>6, <2>3 DEF OtherInputs
<1>8. kind.var[0] \notin in_use
  BY <1>0 DEF CallInv, Scheduling, CanMerge
<1>9. task[b].stage = "done"
  BY <1>0, <1>7, <1>8 DEF UseInv, Done
<1>10. Computed(Target) \/ Pipelined(Target, b, Out(Target))
  BY <1>0, <1>1, <1>3, <1>5, <1>9 DEF StartInv
<1>. QED
  BY <1>1, <1>10 DEF Computed, Pipelined

\* MergeNow: the target leaves the table and what is marked for it only is unmarked.
LEMMA MergeNowKeeps ==
  ASSUME IInv, MergeNow
  PROVE  IInv'
<1>0. TypeOK /\ PipeInv /\ UsedInv /\ StartInv /\ AntiInv /\ UseInv /\ BeforeInv
      /\ EndInv /\ QueueInv /\ IdleInv /\ ComputeInv /\ CallInv
  BY DEF IInv, TableInv
<1>1. CanMerge /\ call.op = "do_task" /\ Now /\ pc = "called" /\ pc' = "called"
  BY DEF MergeNow, CanMerge, Now, Called
<1>. DEFINE T == Target
            v == kind.var[0]
<1>2. /\ LastWriter(T, v) /\ T \in InTable /\ T \in Tasks
      /\ task[T] \in Entries /\ task[T].stage = "waiting"
      /\ Out(T) = v /\ Out(T) # Null /\ task[T].ops + 1 \in 1..MaxOpsMerged
  BY <1>0, <1>1, TargetIs
<1>3. /\ InTable \subseteq Tasks /\ task \in [Tasks -> Entries]
      /\ used \in Seq(Tasks) /\ IsInjective(used) /\ Len(used) \in Nat
      /\ InTable = {used[i] : i \in 1..Len(used)}
  BY <1>0, TableIs
<1>. DEFINE new == [var |-> task[T].var,
                    flags |-> (MergedFlags \ {"MASTER_ONLY"}) \union {"MASTER_NOW"}]
<1>4. /\ call' = [call EXCEPT !.op = "no_merge", !.ops = task[T].ops + 1, !.kind = new]
      /\ being_computed' = being_computed \ {v}
      /\ in_use' = in_use \ maybe_mark_not_in_use(Position(T))
      /\ used' = Left(used, {T}) /\ task' = [task EXCEPT ![T] = Blank]
      /\ untaken' = untaken \ {T} /\ on_hold' = on_hold \ {T}
      /\ master_only' = IF "MASTER_ONLY" \in task[T].flags THEN Tail(master_only) ELSE master_only
      /\ this_task' = this_task
  BY DEF MergeNow
<1>5. new \in TaskKinds /\ new.var[0] = v /\ "MASTER_NOW" \in new.flags
  <2>1. task[T].flags \subseteq Flags /\ task[T].var \in [0..2 -> Vars \union {Null}]
    BY <1>2 DEF Entries
  <2>2. MergedFlags \subseteq Flags
    BY <2>1 DEF MergedFlags, Flags
  <2>3. new.flags \subseteq Flags
    BY <2>2 DEF Flags
  <2>. QED
    BY <1>2, <2>1, <2>3 DEF TaskKinds, Out
<1>6. \A b \in InTable, w \in 0..2 : task[b].pipe[w] # T
  BY <1>1, NonePiped
<1>. HIDE DEF new, T, v
<1>7. /\ used' \in Seq(Tasks) /\ IsInjective(used') /\ InTable' = InTable \ {T}
      /\ \A p \in Tasks \X Tasks : p \in Order' <=> p \in Order /\ p[1] # T /\ p[2] # T
  <2>1. /\ Left(used, {T}) \in Seq(Tasks) /\ IsInjective(Left(used, {T}))
        /\ Range(Left(used, {T})) = Range(used) \ {T}
        /\ Ordered(Left(used, {T})) = {p \in Ordered(used) : p[1] \notin {T} /\ p[2] \notin {T}}
    BY <1>3, LeftOrdered
  <2>. QED
    BY <1>4, <2>1 DEF InTable, Order
<1>8. \A a, b \in Tasks : <<a, b>> \in Order' <=> <<a, b>> \in Order /\ a # T /\ b # T
  BY <1>7
<1>9. /\ task'[T] = Blank /\ task' \in [Tasks -> Entries]
      /\ \A t \in Tasks : t # T => task'[t] = task[t]
  <2>1. Blank \in Entries
    BY DEF Blank, Entries, NoKind, MaxOpsMerged
  <2>. QED
    BY <1>2, <1>3, <1>4, <2>1
<1>10. \A a \in Tasks : a # T => /\ Out(a)' = Out(a) /\ OtherInputs(a)' = OtherInputs(a)
                                 /\ Computed(a)' <=> Computed(a)
                                 /\ Unfinished(a)' <=> Unfinished(a)
                                 /\ Done(a)' <=> Done(a)
  BY <1>9 DEF Out, OtherInputs, Computed, Unfinished, Done
<1>11. \A x : x \in maybe_mark_not_in_use(Position(T)) <=>
         x \in OtherInputs(T) /\ \A b \in InTable : b # T /\ x \in OtherInputs(b) => Done(b)
  <2>1. PICK i \in 1..Len(used) : T = used[i]
    BY <1>2, <1>3
  <2>2. Position(T) = i
    BY <1>0, <2>1, PositionIs
  <2>. QED
    BY <1>0, <2>1, <2>2, UnmarkIs
<1>12. CallTypes' /\ call'.op = "no_merge" /\ call'.kind = new
  <2>1. call' \in [op : {"none", "do_task", "no_merge", "computed", "not_in_use",
                         "all", "start"},
                   kind : TaskKinds, ops : 1..MaxOpsMerged, vs : SUBSET Vars]
        /\ call'.op = "no_merge" /\ call'.kind = new
    BY <1>0, <1>2, <1>4, <1>5 DEF TypeOK
  <2>. QED
    BY <1>1, <2>1 DEF CallTypes
<1>13. QueueInv' /\ QueueTypes'
  <2>1. \A x \in Tasks \ {T} : x \in InTable' <=> x \in InTable
    BY <1>7
  <2>2. \A x \in Tasks \ {T} : WaitsAsBefore(x)
    BY <1>9 DEF WaitsAsBefore
  <2>3. Leaves(T)
    <3>1. CASE "MASTER_ONLY" \in task[T].flags
      <4>1. master_only # << >> /\ Head(master_only) = T
        BY <1>1, <3>1 DEF CanMerge, ForMaster, Now, T
      <4>. QED
        BY <1>4, <3>1, <4>1 DEF Leaves
    <3>2. CASE "MASTER_ONLY" \notin task[T].flags
      <4>1. T \in untaken \union on_hold
        BY <1>0, <1>2, <3>2 DEF QueueInv
      <4>. QED
        BY <1>4, <3>2, <4>1 DEF Leaves
    <3>. QED
      BY <3>1, <3>2
  <2>. QED
    BY <1>0, <1>2, <1>4, <1>7, <2>1, <2>2, <2>3, QueuesLeft
<1>14. PipeInv'
  <2>1. ASSUME NEW b \in InTable', NEW w \in 0..2
        PROVE  PipeOK(b, w)'
    <3>1. b \in InTable /\ b \in Tasks /\ b # T /\ task'[b] = task[b] /\ PipeOK(b, w)
      BY <1>0, <1>3, <1>7, <1>9 DEF PipeInv
    <3>2. Writers(task[b].var[w], b)' = Writers(task[b].var[w], b) \ {T}
      BY <1>8, <1>10, <3>1 DEF Writers
    <3>3. CASE task[b].pipe[w] = None /\ \A a \in Writers(task[b].var[w], b) : Computed(a)
      <4>1. \A a \in Writers(task[b].var[w], b) \ {T} : Computed(a)'
        BY <1>10, <3>3 DEF Writers
      <4>. QED
        BY <3>1, <3>2, <3>3, <4>1 DEF PipeOK
    <3>4. CASE PipedFrom(task[b].pipe[w], w, b)
      <4>1. task[b].pipe[w] \in Writers(task[b].var[w], b) \ {T}
        BY <1>6, <3>1, <3>4 DEF PipedFrom
      <4>2. \A a \in Writers(task[b].var[w], b) \ {T} :
              a = task[b].pipe[w] \/ <<a, task[b].pipe[w]>> \in Order'
        BY <1>8, <3>4, <4>1 DEF PipedFrom, Writers
      <4>3. PipedFrom(task[b].pipe[w], w, b)'
        BY <3>1, <3>2, <4>1, <4>2 DEF PipedFrom
      <4>. QED
        BY <4>3 DEF PipeOK
    <3>. QED
      BY <3>1, <3>3, <3>4 DEF PipeOK
  <2>. QED
    BY <2>1 DEF PipeInv
<1>15. UsedInv'
  <2>1. ASSUME NEW b \in InTable', NEW w \in 0..2, task'[b].pipe[w] # None
        PROVE  task'[task'[b].pipe[w]].out_used
    <3>1. b \in InTable /\ b # T /\ b \in Tasks /\ task'[b] = task[b]
      BY <1>3, <1>7, <1>9
    <3>2. task[b].pipe[w] \in Tasks /\ task[b].pipe[w] # T
      BY <1>3, <1>6, <2>1, <3>1 DEF Entries
    <3>3. task'[task[b].pipe[w]] = task[task[b].pipe[w]]
      BY <1>9, <3>2
    <3>. QED
      BY <1>0, <2>1, <3>1, <3>3 DEF UsedInv
  <2>2. \A a, b \in Tasks : <<a, b>> \in Order' /\ Out(a)' = Out(b)' /\ Out(a)' # Null
                              => task'[a].out_used
    BY <1>0, <1>8, <1>9, <1>10 DEF UsedInv
  <2>. QED
    BY <2>1, <2>2 DEF UsedInv
<1>16. StartInv'
  <2>1. \A a, b \in Tasks : a # T /\ b # T /\ Pipelined(a, b, Out(a)) => Pipelined(a, b, Out(a))'
    BY <1>9, <1>10 DEF Pipelined
  <2>. QED
    BY <1>0, <1>8, <1>9, <1>10, <2>1 DEF StartInv
<1>17. AntiInv'
  BY <1>0, <1>8, <1>10 DEF AntiInv
<1>18. UseInv'
  <2>1. \A x : x \in in_use' <=> /\ x \in in_use
                                 /\ x \in OtherInputs(T) =>
                                      \E b \in InTable : b # T /\ x \in OtherInputs(b) /\ ~Done(b)
    <3>1. \A x : x \in in_use' <=> x \in in_use /\ x \notin maybe_mark_not_in_use(Position(T))
      BY <1>4
    <3>. QED
      BY <1>11, <3>1
  <2>2. ASSUME NEW a \in InTable', ~Done(a)', NEW x \in OtherInputs(a)'
        PROVE  x \in in_use'
    <3>1. a \in InTable /\ a # T /\ ~Done(a) /\ x \in OtherInputs(a)
      BY <1>3, <1>7, <1>10, <2>2
    <3>. QED
      BY <1>0, <2>1, <3>1 DEF UseInv
  <2>3. ASSUME NEW x \in in_use'
        PROVE  \E a \in InTable' : x \in OtherInputs(a)'
    <3>1. PICK a \in InTable : a # T /\ x \in OtherInputs(a)
      BY <1>0, <2>1, <2>3 DEF UseInv
    <3>. QED
      BY <1>3, <1>7, <1>10, <3>1
  <2>. QED
    BY <2>2, <2>3 DEF UseInv
<1>19. BeforeInv'
  BY <1>0, <1>8, <1>9, <1>10 DEF BeforeInv
<1>20. EndInv'
  <2>1. ASSUME NEW x \in being_computed'
        PROVE  \E a \in InTable' : Out(a)' = x
    <3>1. x \in being_computed /\ x # v
      BY <1>4
    <3>2. PICK a \in InTable : Out(a) = x
      BY <1>0, <3>1 DEF EndInv
    <3>. QED
      BY <1>2, <1>3, <1>7, <1>10, <3>1, <3>2
  <2>. QED
    BY <2>1 DEF EndInv
<1>21. IdleInv'
  BY <1>0, <1>7, <1>9 DEF IdleInv, Blank
<1>22. ComputeInv'
  <2>1. ASSUME NEW a \in InTable', Unfinished(a)', Out(a)' \notin being_computed' \union {Null}
        PROVE  Out(a)' = v
    <3>1. a \in InTable /\ a # T /\ a \in Tasks
      BY <1>3, <1>7
    <3>2. Unfinished(a) /\ Out(a)' = Out(a)
      BY <1>10, <2>1, <3>1
    <3>3. Out(a) \in being_computed
      BY <1>0, <1>1, <2>1, <3>1, <3>2 DEF ComputeInv
    <3>. QED
      BY <1>4, <2>1, <3>2, <3>3
  <2>. QED
    BY <1>5, <1>12, <2>1 DEF ComputeInv, kind
<1>23. TypeOK'
  BY <1>0, <1>4, <1>7, <1>9, <1>12, <1>13 DEF TypeOK, Entries, QueueTypes, CallTypes
<1>24. CallInv'
  <2>1. v \notin in_use'
    BY <1>0, <1>1, <1>4 DEF CallInv, Scheduling, v
  <2>. QED
    BY <1>1, <1>5, <1>12, <2>1 DEF CallInv, Scheduling, Now, ForMaster, kind
<1>25. NeededInv' /\ WaitInv'
  BY <1>1 DEF NeededInv, WaitInv
<1>26. TableInv'
  BY <1>13, <1>14, <1>15, <1>16, <1>17, <1>18, <1>19, <1>20, <1>21, <1>23 DEF TableInv
<1>. QED
  BY <1>22, <1>24, <1>25, <1>26 DEF IInv

\* Where a new task takes its input from.
LEMMA PipesIs ==
  ASSUME TableInv, ComputeInv, call.op = "do_task", NEW w \in 0..2
  PROVE  \/ /\ Pipes[w] = None
            /\ kind.var[w] # Null => \A a \in InTable : Out(a) = kind.var[w] => Computed(a)
         \/ LastWriter(Pipes[w], kind.var[w])
<1>0. TypeOK
  BY DEF TableInv
<1>1. CASE w = 0 \/ kind.var[w] = kind.var[0] \/ kind.var[w] \in being_computed
  <2>1. Pipes[w] = Writer(kind.var[w])
    BY <1>1 DEF Pipes
  <2>. QED
    BY <1>0, <2>1, WriterIs
<1>2. CASE ~(w = 0 \/ kind.var[w] = kind.var[0] \/ kind.var[w] \in being_computed)
  <2>1. Pipes[w] = None
    BY <1>2 DEF Pipes
  <2>2. ASSUME NEW a \in InTable, Out(a) = kind.var[w], kind.var[w] # Null
        PROVE  Computed(a)
    <3>1. ~Unfinished(a)
      BY <1>2, <2>2 DEF ComputeInv
    <3>2. task[a].stage \in {"waiting", "running", "computed", "done"}
      BY <1>0, TableIs DEF Entries
    <3>. QED
      BY <3>1, <3>2 DEF Computed, Unfinished
  <2>. QED
    BY <2>1, <2>2
<1>. QED
  BY <1>1, <1>2

\* Fill: the new task takes its input from the last tasks that compute it, which are told so
\* by out_used, and its variables are marked.
LEMMA FillKeeps ==
  ASSUME IInv, Fill
  PROVE  IInv'
<1>0. TableInv /\ TypeOK /\ PipeInv /\ UsedInv /\ StartInv /\ AntiInv /\ UseInv /\ BeforeInv
      /\ EndInv /\ QueueInv /\ IdleInv /\ ComputeInv /\ CallInv
  BY DEF IInv, TableInv
<1>1. call.op = "do_task" /\ Scheduling /\ Return /\ UNCHANGED this_task
  BY <1>0 DEF Fill, CallInv, Scheduling
<1>. DEFINE inputs == Inputs(kind) \ {kind.var[0]}
            v == kind.var[0]
            hold == "HOLD" \in kind.flags
            master == "MASTER_ONLY" \in kind.flags
            before == [w \in 1..2 |-> kind.var[w] \in inputs \ in_use]
            entry == [Blank EXCEPT !.var = kind.var, !.flags = kind.flags,
                          !.pipe = Pipes, !.not_in_use_before = before]
            old(x) == [task[x] EXCEPT !.out_used = @ \/ \E w \in 0..2 : Pipes[w] = x]
<1>2. PICK t \in Tasks \ Range(used) :
           /\ task' = [x \in Tasks |-> IF x = t THEN entry ELSE old(x)]
           /\ used' = Append(used, t)
           /\ master_only' = IF master THEN Append(master_only, t) ELSE master_only
           /\ on_hold' = IF hold THEN on_hold \union {t} ELSE on_hold
           /\ untaken' = IF master \/ hold THEN untaken ELSE untaken \union {t}
           /\ in_use' = in_use \union inputs
           /\ being_computed' = being_computed \union ({v} \ {Null})
  BY DEF Fill
<1>3. /\ InTable \subseteq Tasks /\ task \in [Tasks -> Entries]
      /\ used \in Seq(Tasks) /\ IsInjective(used)
  BY <1>0, TableIs
<1>4. t \in Tasks /\ t \notin InTable /\ t # None
  BY NoneIs DEF InTable
<1>5. /\ used' \in Seq(Tasks) /\ IsInjective(used') /\ InTable' = InTable \union {t}
      /\ \A a, b \in Tasks : <<a, b>> \in Order' <=> <<a, b>> \in Order \/ (b = t /\ a \in InTable)
  <2>1. /\ Append(used, t) \in Seq(Tasks) /\ IsInjective(Append(used, t))
        /\ Range(Append(used, t)) = Range(used) \union {t}
        /\ Ordered(Append(used, t)) = Ordered(used) \union {<<a, t>> : a \in Range(used)}
    BY <1>3, AppendOrdered
  <2>2. \A a, b \in Tasks :
          <<a, b>> \in {<<x, t>> : x \in Range(used)} <=> b = t /\ a \in Range(used)
    OBVIOUS
  <2>3. Order' = Order \union {<<a, t>> : a \in InTable}
    BY <1>2, <2>1 DEF Order, InTable
  <2>. QED
    BY <1>2, <2>1, <2>2, <2>3 DEF InTable
<1>6. call.kind \in TaskKinds /\ kind.var \in [0..2 -> Vars \union {Null}]
      /\ kind.flags \in SUBSET Flags
  BY <1>0 DEF TypeOK, kind, TaskKinds
<1>7. \A w \in 0..2 :
         \/ /\ Pipes[w] = None
            /\ kind.var[w] # Null => \A a \in InTable : Out(a) = kind.var[w] => Computed(a)
         \/ LastWriter(Pipes[w], kind.var[w])
  BY <1>0, <1>1, PipesIs
<1>8. Pipes \in [0..2 -> Tasks \union {None}] /\ \A w \in 0..2 : Pipes[w] # t
  <2>1. \A w \in 0..2 : Pipes[w] \in InTable \union {None}
    BY <1>7 DEF LastWriter
  <2>2. Pipes = [w \in 0..2 |-> Pipes[w]]
    BY DEF Pipes
  <2>. QED
    BY <1>3, <1>4, <2>1, <2>2
<1>9. /\ entry \in Entries /\ entry.var = kind.var /\ entry.flags = kind.flags
      /\ entry.pipe = Pipes /\ entry.stage = "waiting" /\ entry.out_used = FALSE
      /\ \A w \in 1..2 : entry.not_in_use_before[w] <=>
           kind.var[w] \in inputs /\ kind.var[w] \notin in_use
  <2>1. before \in [1..2 -> BOOLEAN]
        /\ \A w \in 1..2 : before[w] <=> kind.var[w] \in inputs /\ kind.var[w] \notin in_use
    <3>. DEFINE New(w) == kind.var[w] \in inputs \ in_use
    <3>1. \A w \in 1..2 : New(w) \in BOOLEAN
      OBVIOUS
    <3>2. before = [w \in 1..2 |-> New(w)]
      OBVIOUS
    <3>3. \A w : New(w) <=> kind.var[w] \in inputs /\ kind.var[w] \notin in_use
      OBVIOUS
    <3>. HIDE DEF New, before
    <3>4. before \in [1..2 -> BOOLEAN] /\ \A w \in 1..2 : before[w] = New(w)
      BY <3>1, <3>2
    <3>. QED
      BY <3>3, <3>4
  <2>. HIDE DEF before
  <2>2. Blank \in Entries /\ Blank.stage = "waiting" /\ Blank.out_used = FALSE
    BY DEF Blank, Entries, NoKind, MaxOpsMerged
  <2>. DEFINE With(e, k, f, p, n) ==
                [e EXCEPT !.var = k, !.flags = f, !.pipe = p, !.not_in_use_before = n]
  <2>3. ASSUME NEW k \in [0..2 -> Vars \union {Null}], NEW f \in SUBSET Flags,
               NEW p \in [0..2 -> Tasks \union {None}], NEW n \in [1..2 -> BOOLEAN],
               NEW e \in Entries
        PROVE  LET x == With(e, k, f, p, n)
               IN  /\ x \in Entries /\ x.var = k /\ x.flags = f /\ x.pipe = p
                   /\ x.not_in_use_before = n /\ x.stage = e.stage /\ x.out_used = e.out_used
    BY <2>3 DEF Entries
  <2>4. entry = With(Blank, kind.var, kind.flags, Pipes, before)
    OBVIOUS
  <2>. HIDE DEF entry, With
  <2>5. /\ entry \in Entries /\ entry.var = kind.var /\ entry.flags = kind.flags
        /\ entry.pipe = Pipes /\ entry.stage = "waiting" /\ entry.out_used = FALSE
        /\ entry.not_in_use_before = before
    BY <1>6, <1>8, <2>1, <2>2, <2>3, <2>4
  <2>. QED
    BY <2>1, <2>5
<1>. HIDE DEF entry
<1>10. ASSUME NEW x \in Tasks
       PROVE  /\ old(x) \in Entries /\ old(x).var = task[x].var /\ old(x).flags = task[x].flags
              /\ old(x).stage = task[x].stage /\ old(x).pipe = task[x].pipe
              /\ old(x).not_in_use_before = task[x].not_in_use_before
              /\ old(x).needed = task[x].needed
              /\ old(x).out_used <=> task[x].out_used \/ \E w \in 0..2 : Pipes[w] = x
  <2>. DEFINE piped == \E w \in 0..2 : Pipes[w] = x
  <2>1. task[x] \in Entries
    BY <1>3
  <2>2. (task[x].out_used \/ piped) \in BOOLEAN
    BY <2>1 DEF Entries
  <2>3. old(x) = [task[x] EXCEPT !.out_used = task[x].out_used \/ piped]
    OBVIOUS
  <2>. HIDE DEF piped, old
  <2>4. \A o \in BOOLEAN : LET e == [task[x] EXCEPT !.out_used = o]
                           IN  /\ e \in Entries /\ e.var = task[x].var /\ e.flags = task[x].flags
                               /\ e.stage = task[x].stage /\ e.pipe = task[x].pipe
                               /\ e.not_in_use_before = task[x].not_in_use_before
                               /\ e.needed = task[x].needed /\ e.out_used = o
    BY <2>1 DEF Entries
  <2>5. LET e == old(x)
        IN  /\ e \in Entries /\ e.var = task[x].var /\ e.flags = task[x].flags
            /\ e.stage = task[x].stage /\ e.pipe = task[x].pipe
            /\ e.not_in_use_before = task[x].not_in_use_before
            /\ e.needed = task[x].needed /\ e.out_used = (task[x].out_used \/ piped)
    BY <2>2, <2>3, <2>4
  <2>. QED
    BY <2>5 DEF piped
<1>11. /\ task'[t] = entry /\ task' \in [Tasks -> Entries]
       /\ \A x \in Tasks : x # t => task'[x] = old(x)
  <2>. HIDE DEF old
  <2>. QED
    BY <1>2, <1>4, <1>9, <1>10
<1>. HIDE DEF old
<1>12. ASSUME NEW x \in Tasks, x # t
       PROVE  /\ SameVar(x) /\ task'[x].flags = task[x].flags
              /\ task'[x].stage = task[x].stage /\ task'[x].pipe = task[x].pipe
              /\ task'[x].not_in_use_before = task[x].not_in_use_before
              /\ task'[x].out_used <=> task[x].out_used \/ \E w \in 0..2 : Pipes[w] = x
  BY <1>10, <1>11, <1>12 DEF SameVar
<1>13. \A x \in Tasks : x # t => /\ Out(x)' = Out(x) /\ OtherInputs(x)' = OtherInputs(x)
                                 /\ task'[x].var = task[x].var
                                 /\ Computed(x)' <=> Computed(x)
                                 /\ Unfinished(x)' <=> Unfinished(x)
                                 /\ Done(x)' <=> Done(x)
  BY <1>12, SameOut DEF SameVar, Computed, Unfinished, Done
<1>14. Out(t)' = v /\ OtherInputs(t)' = inputs
  BY <1>9, <1>11 DEF Out, OtherInputs, Inputs
<1>15. \A a, b \in Tasks : <<a, b>> \in Order => a \in InTable /\ b \in InTable /\ a # t /\ b # t
  BY <1>0, <1>4, OrderIs
<1>16. ASSUME NEW b \in InTable PROVE b \in Tasks /\ b # t
  BY <1>3, <1>4
<1>17. v \notin in_use
  BY <1>0, <1>1 DEF CallInv
<1>. HIDE DEF v, inputs
<1>18. PipeInv'
  <2>1. ASSUME NEW b \in InTable, NEW w \in 0..2
        PROVE  PipeOK(b, w)'
    <3>1. b \in Tasks /\ b # t /\ task'[b].var = task[b].var /\ task'[b].pipe = task[b].pipe
          /\ PipeOK(b, w)
      BY <1>0, <1>12, <1>13, <1>16 DEF PipeInv
    <3>2. Writers(task[b].var[w], b)' = Writers(task[b].var[w], b)
      BY <1>5, <1>13, <1>15, <3>1 DEF Writers
    <3>3. \A a \in Writers(task[b].var[w], b) : a # t /\ a \in Tasks
      BY <1>15, <3>1 DEF Writers
    <3>4. CASE task[b].pipe[w] = None /\ \A a \in Writers(task[b].var[w], b) : Computed(a)
      BY <1>13, <3>1, <3>2, <3>3, <3>4 DEF PipeOK
    <3>5. CASE PipedFrom(task[b].pipe[w], w, b)
      <4>1. \A a \in Writers(task[b].var[w], b) :
              a = task[b].pipe[w] \/ <<a, task[b].pipe[w]>> \in Order'
        BY <1>5, <3>3, <3>5 DEF PipedFrom
      <4>2. PipedFrom(task[b].pipe[w], w, b)'
        BY <3>1, <3>2, <3>5, <4>1 DEF PipedFrom
      <4>. QED
        BY <4>2 DEF PipeOK
    <3>. QED
      BY <3>1, <3>4, <3>5 DEF PipeOK
  <2>2. ASSUME NEW w \in 0..2, NEW u, u = kind.var[w], NEW p, p = Pipes[w]
        PROVE  PipeOK(t, w)'
    <3>1. task'[t].var[w] = u /\ task'[t].pipe[w] = p
      BY <1>9, <1>11, <2>2
    <3>2. \A a \in Tasks : a \in Writers(u, t)' <=> a \in InTable /\ u # Null /\ Out(a) = u
      <4>1. \A a \in Tasks : <<a, t>> \in Order' <=> a \in InTable
        BY <1>4, <1>5, <1>15
      <4>2. \A a \in Tasks : a \in Writers(u, t)' <=> <<a, t>> \in Order' /\ u # Null /\ Out(a)' = u
        BY DEF Writers
      <4>. QED
        BY <1>13, <1>16, <4>1, <4>2
    <3>3. \A a : a \in Writers(u, t)' => a \in Tasks
      BY DEF Writers
    <3>4. Writers(task[t].var[w], t)' = Writers(u, t)'
      BY <3>1 DEF Writers
    <3>5. CASE p = None /\ (u # Null => \A a \in InTable : Out(a) = u => Computed(a))
      <4>1. \A a \in Writers(u, t)' : Computed(a)'
        BY <1>13, <1>16, <3>2, <3>3, <3>5
      <4>. QED
        BY <3>1, <3>4, <3>5, <4>1 DEF PipeOK
    <3>6. CASE LastWriter(p, u)
      <4>1. p \in Tasks /\ p \in Writers(u, t)'
        BY <1>3, <3>2, <3>6 DEF LastWriter
      <4>2. \A a \in Writers(u, t)' : a = p \/ <<a, p>> \in Order'
        BY <1>5, <3>2, <3>3, <3>6, <4>1 DEF LastWriter
      <4>3. PipedFrom(p, w, t)'
        BY <3>4, <4>1, <4>2 DEF PipedFrom
      <4>. QED
        BY <3>1, <4>3 DEF PipeOK
    <3>. QED
      BY <1>7, <2>2, <3>5, <3>6
  <2>. QED
    BY <1>5, <2>1, <2>2 DEF PipeInv
<1>19. UsedInv'
  <2>1. ASSUME NEW b \in InTable', NEW w \in 0..2, NEW p, p = task'[b].pipe[w], p # None
        PROVE  task'[p].out_used
    <3>1. CASE b = t
      <4>1. p = Pipes[w]
        BY <1>9, <1>11, <2>1, <3>1
      <4>. QED
        BY <1>8, <1>12, <2>1, <4>1
    <3>2. CASE b # t
      <4>1. b \in InTable /\ b \in Tasks
        BY <1>5, <1>16, <3>2
      <4>2. p = task[b].pipe[w]
        BY <1>12, <2>1, <3>2, <4>1
      <4>3. p \in InTable /\ task[p].out_used
        BY <1>0, <2>1, <4>1, <4>2, PipedReads DEF UsedInv
      <4>. QED
        BY <1>12, <1>16, <4>3
    <3>. QED
      BY <3>1, <3>2
  <2>2. ASSUME NEW a \in Tasks, NEW b \in Tasks, <<a, b>> \in Order', Out(a)' = Out(b)',
               Out(a)' # Null
        PROVE  task'[a].out_used
    <3>1. CASE <<a, b>> \in Order
      <4>1. a # t /\ b # t
        BY <1>15, <3>1
      <4>2. task[a].out_used
        BY <1>0, <1>13, <2>2, <3>1, <4>1 DEF UsedInv
      <4>. QED
        BY <1>12, <4>1, <4>2
    <3>2. CASE b = t /\ a \in InTable
      <4>1. a # t /\ Out(a) = v /\ v # Null
        BY <1>13, <1>14, <1>16, <2>2, <3>2
      <4>2. LastWriter(Pipes[0], v)
        <5>1. Pipes[0] = Writer(kind.var[0])
          BY DEF Pipes
        <5>. QED
          BY <1>0, <3>2, <4>1, <5>1, WriterIs DEF v
      <4>3. a = Pipes[0] \/ <<a, Pipes[0]>> \in Order
        BY <3>2, <4>1, <4>2 DEF LastWriter
      <4>4. CASE a = Pipes[0]
        BY <1>12, <4>1, <4>4
      <4>5. CASE <<a, Pipes[0]>> \in Order
        <5>1. Pipes[0] \in Tasks /\ Out(Pipes[0]) = v
          BY <1>3, <4>2 DEF LastWriter
        <5>2. task[a].out_used
          BY <1>0, <4>1, <4>5, <5>1 DEF UsedInv
        <5>. QED
          BY <1>12, <4>1, <5>2
      <4>. QED
        BY <4>3, <4>4, <4>5
    <3>. QED
      BY <1>5, <2>2, <3>1, <3>2
  <2>. QED
    BY <2>1, <2>2 DEF UsedInv
<1>20. StartInv'
  <2>1. ASSUME NEW a \in Tasks, NEW b \in Tasks, NEW w \in 0..2, <<a, b>> \in Order',
               task'[b].var[w] = Out(a)', Out(a)' # Null, task'[b].stage # "waiting"
        PROVE  Computed(a)' \/ Pipelined(a, b, Out(a))'
    <3>1. b # t
      BY <1>9, <1>11, <2>1
    <3>2. <<a, b>> \in Order /\ a # t
      BY <1>5, <1>15, <2>1, <3>1
    <3>3. Computed(a) \/ Pipelined(a, b, Out(a))
      BY <1>0, <1>12, <1>13, <2>1, <3>1, <3>2 DEF StartInv
    <3>4. Pipelined(a, b, Out(a)) => Pipelined(a, b, Out(a))'
      BY <1>12, <1>13, <3>1, <3>2 DEF Pipelined
    <3>. QED
      BY <1>13, <3>2, <3>3, <3>4
  <2>. QED
    BY <2>1 DEF StartInv
<1>21. AntiInv'
  <2>1. ASSUME NEW a \in Tasks, NEW b \in Tasks, <<a, b>> \in Order', Out(b)' \in OtherInputs(a)'
        PROVE  Done(a)'
    <3>1. CASE <<a, b>> \in Order
      BY <1>0, <1>13, <1>15, <2>1, <3>1 DEF AntiInv
    <3>2. CASE b = t /\ a \in InTable
      <4>1. a # t /\ v \in OtherInputs(a)
        BY <1>13, <1>14, <1>16, <2>1, <3>2
      <4>2. Done(a)
        BY <1>0, <1>17, <3>2, <4>1 DEF UseInv
      <4>. QED
        BY <1>13, <4>1, <4>2
    <3>. QED
      BY <1>5, <2>1, <3>1, <3>2
  <2>. QED
    BY <2>1 DEF AntiInv
<1>22. UseInv'
  <2>1. ASSUME NEW a \in InTable', ~Done(a)' PROVE OtherInputs(a)' \subseteq in_use'
    <3>1. CASE a = t
      BY <1>2, <1>14, <3>1
    <3>2. CASE a # t
      BY <1>0, <1>2, <1>5, <1>13, <1>16, <2>1, <3>2 DEF UseInv
    <3>. QED
      BY <3>1, <3>2
  <2>2. ASSUME NEW x \in in_use' PROVE \E a \in InTable' : x \in OtherInputs(a)'
    <3>1. CASE x \in inputs
      BY <1>5, <1>14, <3>1
    <3>2. CASE x \in in_use
      BY <1>0, <1>5, <1>13, <1>16, <3>2 DEF UseInv
    <3>. QED
      BY <1>2, <2>2, <3>1, <3>2
  <2>. QED
    BY <2>1, <2>2 DEF UseInv
<1>23. BeforeInv'
  <2>1. ASSUME NEW a \in Tasks, NEW b \in Tasks, NEW w \in 1..2, <<a, b>> \in Order',
               task'[b].not_in_use_before[w], ~Done(a)'
        PROVE  task'[b].var[w] \notin OtherInputs(a)'
    <3>1. CASE <<a, b>> \in Order
      <4>1. a # t /\ b # t
        BY <1>15, <3>1
      <4>2. task[b].not_in_use_before[w] /\ ~Done(a)
        BY <1>12, <1>13, <2>1, <4>1
      <4>. QED
        BY <1>0, <1>13, <3>1, <4>1, <4>2 DEF BeforeInv
    <3>2. CASE b = t /\ a \in InTable
      <4>1. a # t /\ ~Done(a) /\ OtherInputs(a)' = OtherInputs(a)
        BY <1>13, <1>16, <2>1, <3>2
      <4>2. kind.var[w] \notin in_use /\ task'[t].var[w] = kind.var[w]
        BY <1>9, <1>11, <2>1, <3>2
      <4>3. OtherInputs(a) \subseteq in_use
        BY <1>0, <3>2, <4>1 DEF UseInv
      <4>. QED
        BY <3>2, <4>1, <4>2, <4>3
    <3>. QED
      BY <1>5, <2>1, <3>1, <3>2
  <2>. QED
    BY <2>1 DEF BeforeInv
<1>24. EndInv'
  <2>1. ASSUME NEW x \in being_computed' PROVE \E a \in InTable' : Out(a)' = x
    <3>1. CASE x = v
      BY <1>5, <1>14, <3>1
    <3>2. CASE x \in being_computed
      BY <1>0, <1>5, <1>13, <1>16, <3>2 DEF EndInv
    <3>. QED
      BY <1>2, <2>1, <3>1, <3>2
  <2>. QED
    BY <2>1 DEF EndInv
<1>25. QueueInv' /\ QueueTypes'
  <2>1. /\ t \notin untaken \union on_hold \union Range(master_only)
        /\ untaken \subseteq Tasks /\ on_hold \subseteq Tasks
        /\ master_only \in Seq(Tasks) /\ IsInjective(master_only)
    BY <1>0, <1>4 DEF QueueInv, TypeOK
  <2>2. /\ Append(master_only, t) \in Seq(Tasks) /\ IsInjective(Append(master_only, t))
        /\ Range(Append(master_only, t)) = Range(master_only) \union {t}
    BY <1>4, <2>1, AppendOrdered
  <2>3. master => ~hold
    BY <1>0, <1>1 DEF CallInv, ForMaster
  <2>. DEFINE tail == IF master THEN {t} ELSE {}
  <2>4. /\ master_only' \in Seq(Tasks) /\ IsInjective(master_only')
        /\ Range(master_only') = Range(master_only) \union tail
    BY <1>2, <2>1, <2>2
  <2>5. /\ untaken' \union on_hold' = untaken \union on_hold \union (IF master THEN {} ELSE {t})
        /\ untaken' \intersect on_hold' = {}
    BY <1>0, <1>2, <2>1, <2>3 DEF QueueInv
  <2>6. QueueTypes'
    BY <1>2, <1>4, <2>1, <2>4 DEF QueueTypes
  <2>7. t \in InTable' /\ task'[t].stage = "waiting"
        /\ ("MASTER_ONLY" \in task'[t].flags <=> master)
    BY <1>5, <1>9, <1>11
  <2>8. \A x \in Tasks : x # t => /\ x \in InTable' <=> x \in InTable
                                  /\ task'[x].stage = task[x].stage
                                  /\ task'[x].flags = task[x].flags
    BY <1>5, <1>12
  <2>. HIDE DEF master, hold
  <2>9. QueueInv'
    BY <1>0, <2>1, <2>4, <2>5, <2>7, <2>8 DEF QueueInv
  <2>. QED
    BY <2>6, <2>9
<1>26. IdleInv'
  BY <1>0, <1>5, <1>12 DEF IdleInv
<1>27. CallTypes'
  BY <1>1, IdleIs DEF Return, CallTypes
<1>28. TypeOK'
  <2>1. inputs \subseteq Vars /\ {v} \ {Null} \subseteq Vars
    BY <1>6 DEF inputs, Inputs, v
  <2>. QED
    BY <1>0, <1>1, <1>2, <1>5, <1>11, <1>25, <1>27, <2>1 DEF TypeOK, Entries, QueueTypes, CallTypes
<1>29. ComputeInv'
  <2>1. ASSUME NEW a \in InTable', Unfinished(a)', Out(a)' \notin being_computed' \union {Null}
        PROVE  FALSE
    <3>1. CASE a = t
      BY <1>2, <1>14, <2>1, <3>1
    <3>2. CASE a # t
      <4>1. a \in InTable /\ a \in Tasks
        BY <1>5, <1>16, <3>2
      <4>2. Unfinished(a) /\ Out(a) \notin being_computed \union {Null}
        BY <1>2, <1>13, <2>1, <3>2, <4>1
      <4>. QED
        BY <1>0, <1>1, <4>1, <4>2 DEF ComputeInv
    <3>. QED
      BY <3>1, <3>2
  <2>. QED
    BY <2>1 DEF ComputeInv
<1>30. TableInv'
  BY <1>18, <1>19, <1>20, <1>21, <1>22, <1>23, <1>24, <1>25, <1>26, <1>28 DEF TableInv
<1>. QED
  BY <1>1, <1>29, <1>30, ReturnKeeps

\* The invariant holds at first, ...
LEMMA InitOK ==
  ASSUME Init
  PROVE  IInv
<1>1. Range(used) = {} /\ Ordered(used) = {} /\ IsInjective(used) /\ used \in Seq(Tasks)
  BY DEF Init, Range, Ordered, IsInjective
<1>2. Range(master_only) = {} /\ IsInjective(master_only) /\ master_only \in Seq(Tasks)
  BY DEF Init, Range, IsInjective
<1>3. InTable = {} /\ Order = {}
  BY <1>1 DEF InTable, Order
<1>4. Blank \in Entries /\ Blank.stage = "waiting"
  BY DEF Blank, Entries, NoKind, MaxOpsMerged
<1>5. TypeOK
  BY <1>1, <1>2, <1>4, IdleIs DEF Init, TypeOK, Entries
<1>6. QueueInv /\ IdleInv
  BY <1>2, <1>3, <1>4 DEF Init, QueueInv, IdleInv
<1>7. PipeInv /\ UsedInv /\ StartInv /\ AntiInv /\ UseInv /\ BeforeInv /\ EndInv /\ ComputeInv
  BY <1>3 DEF Init, PipeInv, UsedInv, StartInv, AntiInv, UseInv, BeforeInv, EndInv, ComputeInv
<1>8. CallInv /\ NeededInv /\ WaitInv
  BY IdleIs DEF Init, CallInv, NeededInv, WaitInv, Scheduling, Now, ForMaster, kind
<1>. QED
  BY <1>5, <1>6, <1>7, <1>8 DEF IInv, TableInv

\* ... when nothing changes, ...
LEMMA StutterKeeps ==
  ASSUME IInv, UNCHANGED vars
  PROVE  IInv'
<1>0. TableInv /\ TypeOK /\ QueueInv /\ ComputeInv /\ CallInv /\ NeededInv /\ WaitInv
  BY DEF IInv, TableInv
<1>1. UNCHANGED <<task, used, queues, marks, this_task, pc, call>>
  BY DEF vars
<1>2. SameTable /\ SameStages
  BY <1>0, <1>1, SameTask
<1>3. QueueInv' /\ QueueTypes'
  <2>1. \A x \in Tasks : WaitsAsBefore(x)
    BY <1>2 DEF WaitsAsBefore, SameStages
  <2>2. untaken \intersect on_hold = {}
    BY <1>0 DEF QueueInv
  <2>. QED
    BY <1>0, <1>1, <2>1, <2>2, QueuesReleased DEF queues
<1>4. CallTypes'
  BY <1>0, <1>1 DEF TypeOK, CallTypes
<1>5. /\ TableInv' /\ InTable' = InTable /\ \A x \in Tasks : GoesOn(x)
      /\ \A a \in InTable : Out(a)' = Out(a) /\ OtherInputs(a)' = OtherInputs(a)
  BY <1>0, <1>1, <1>2, <1>3, <1>4, QuietKeeps
<1>6. ComputeInv'
  BY <1>0, <1>1, <1>2, <1>5, SameTableCompute DEF marks
<1>7. CallInv'
  BY <1>0, <1>1 DEF CallInv, Scheduling, Now, ForMaster, kind, marks
<1>8. NeededInv' /\ WaitInv'
  BY <1>0, <1>1, <1>5 DEF NeededInv, WaitInv, Scheduling, kind
<1>. QED
  BY <1>5, <1>6, <1>7, <1>8 DEF IInv

\* ... and after every step.
LEMMA NextKeeps ==
  ASSUME NoMasterMerge, IInv, [Next]_vars
  PROVE  IInv'
<1>1. CASE CallDoTask
  BY <1>1, CallDoTaskKeeps
<1>2. CASE CallWait
  BY <1>2, CallWaitKeeps
<1>3. CASE WaitForAll
  BY <1>3, WaitAllKeeps
<1>4. CASE ReleaseHolds
  BY <1>4, ReleaseKeeps
<1>5. CASE StartComputing
  BY <1>5, StartComputingKeeps
<1>6. CASE MergeWait
  BY <1>6, MasterKeeps DEF MergeWait
<1>7. CASE Merge
  BY <1>7, MergeKeeps
<1>8. CASE MergeNow
  BY <1>8, MergeNowKeeps
<1>9. CASE Schedule
  BY <1>9, ScheduleKeeps
<1>10. CASE NoticeFull
  BY <1>10, NoticeFullKeeps
<1>11. CASE Fill
  BY <1>11, FillKeeps
<1>12. CASE ScheduleNow
  BY <1>12, ScheduleNowKeeps
<1>13. CASE DoNow
  BY <1>13, DoNowKeeps
<1>14. CASE Wait
  BY <1>14, WaitKeeps
<1>15. CASE NoticeNeeded
  BY <1>15, NoticeNeededKeeps
<1>16. CASE NoticeStarting
  BY <1>16, NoticeStartingKeeps
<1>17. CASE do_task_in_master(FALSE) \/ do_task_in_master(TRUE)
  BY <1>17, MasterKeeps
<1>18. CASE HelperStart
  BY <1>18, HelperStartKeeps
<1>19. CASE \E t \in Tasks : run_this_task(t)
  BY <1>19, RunKeeps
<1>20. CASE UNCHANGED vars
  BY <1>20, StutterKeeps
<1>. QED
  BY <1>1, <1>2, <1>3, <1>4, <1>5, <1>6, <1>7, <1>8, <1>9, <1>10, <1>11, <1>12, <1>13, <1>14,
     <1>15, <1>16, <1>17, <1>18, <1>19, <1>20 DEF Next, application, master_call

\* IInv is an invariant.
LEMMA Invariant ==
  ASSUME NoMasterMerge
  PROVE  Spec => []IInv
<1>1. Init => IInv
  BY InitOK
<1>2. IInv /\ [Next]_vars => IInv'
  BY NextKeeps
<1>. QED
  BY <1>1, <1>2, PTL DEF Spec

\* The properties of the runs follow: StartedInOrder, ...
LEMMA StartedIs ==
  ASSUME IInv
  PROVE  StartedInOrder
<1>0. TypeOK /\ StartInv /\ AntiInv
  BY DEF IInv, TableInv
<1>1. /\ InTable \subseteq Tasks /\ InTable = {used[i] : i \in 1..Len(used)}
      /\ \A i, j \in 1..Len(used) : <<used[i], used[j]>> \in Order <=> i < j
  BY <1>0, TableIs
<1>2. ASSUME NEW i \in 1..Len(used), NEW j \in 1..Len(used), i < j, Conflict(At(i), At(j)),
             At(j).stage # "waiting"
      PROVE  \/ At(i).stage \in {"computed", "done"}
             \/ /\ At(i).stage = "running" /\ "PIPE_OUT" \in At(i).flags
                /\ At(j).stage = "running"
                /\ \A w \in 0..2 : At(j).var[w] = At(i).var[0] => PipeIn(w) \in At(j).flags
  <2>. DEFINE a == used[i]
              b == used[j]
  <2>1. a \in Tasks /\ b \in Tasks /\ <<a, b>> \in Order
        /\ At(i) = task[a] /\ At(j) = task[b]
    BY <1>1, <1>2 DEF At
  <2>. HIDE DEF a, b
  <2>2. CASE Out(a) # Null /\ \E w \in 0..2 : task[b].var[w] = Out(a)
    <3>1. Computed(a) \/ Pipelined(a, b, Out(a))
      BY <1>0, <1>2, <2>1, <2>2 DEF StartInv
    <3>. QED
      BY <2>1, <3>1 DEF Computed, Pipelined, Out
  <2>3. CASE Out(b) \in OtherInputs(a)
    BY <1>0, <2>1, <2>3 DEF AntiInv, Done
  <2>4. \/ Out(a) # Null /\ \E w \in 0..2 : task[b].var[w] = Out(a)
        \/ Out(b) \in OtherInputs(a)
    BY <1>2, <2>1 DEF Conflict, Out, OtherInputs, Inputs
  <2>. QED
    BY <2>2, <2>3, <2>4
<1>. QED
  BY <1>2 DEF StartedInOrder, helpers_tasks

\* The greatest of some positions is no other.
LEMMA MaxIs ==
  ASSUME NEW n \in Nat, NEW S \in SUBSET (1..n), NEW m \in S, \A i \in S : i <= m
  PROVE  Max(S) = m
<1>1. Max(S) \in S /\ \A x \in S : x <= Max(S)
  BY MaxOf
<1>. DEFINE x == Max(S)
<1>2. x <= m /\ m <= x /\ x \in 1..n /\ m \in 1..n
  BY <1>1
<1>. HIDE DEF x
<1>3. x = m
  BY <1>2
<1>. QED
  BY <1>3 DEF x

\* ... PipesCurrent, by positions as Max takes them, ...
LEMMA CurrentIs ==
  ASSUME IInv
  PROVE  PipesCurrent
<1>0. TypeOK /\ PipeInv
  BY DEF IInv, TableInv
<1>1. /\ InTable \subseteq Tasks /\ InTable = {used[i] : i \in 1..Len(used)} /\ Len(used) \in Nat
      /\ \A i, j \in 1..Len(used) : <<used[i], used[j]>> \in Order <=> i < j
  BY <1>0, TableIs
<1>2. ASSUME NEW j \in 1..Len(used), NEW w \in 0..2
      PROVE  LET v == At(j).var[w]
                 writers == {i \in 1..(j - 1) : v # Null /\ At(i).var[0] = v}
             IN  \/ /\ At(j).pipe[w] = None
                    /\ \A i \in writers : At(i).stage \in {"computed", "done"}
                 \/ writers # {} /\ At(j).pipe[w] = used[Max(writers)]
  <2>. DEFINE b == used[j]
              v == task[b].var[w]
              p == task[b].pipe[w]
              writers == {i \in 1..(j - 1) : v # Null /\ At(i).var[0] = v}
  <2>1. PipeOK(b, w) /\ b \in Tasks /\ At(j) = task[b]
    BY <1>0, <1>1 DEF PipeInv, At
  <2>2. \A i \in 1..(j - 1) : i \in 1..Len(used) /\ i < j
    BY <1>1
  <2>3. \A i \in 1..(j - 1) : i \in writers <=> used[i] \in Writers(v, b)
    BY <1>1, <2>2 DEF Writers, At, Out
  <2>4. writers \in SUBSET (1..(j - 1)) /\ j - 1 \in Nat
    BY <1>1
  <2>. HIDE DEF writers, v, p
  <2>5. CASE p = None /\ \A a \in Writers(v, b) : Computed(a)
    <3>1. ASSUME NEW i \in writers PROVE At(i).stage \in {"computed", "done"}
      <4>1. Computed(used[i])
        BY <2>3, <2>4, <2>5
      <4>. QED
        BY <4>1 DEF Computed, At
    <3>. QED
      BY <2>1, <2>5, <3>1 DEF p, v, writers
  <2>6. CASE PipedFrom(p, w, b)
    <3>1. p \in Writers(v, b) /\ \A a \in Writers(v, b) : a = p \/ <<a, p>> \in Order
      BY <2>6 DEF PipedFrom, v
    <3>2. p \in Tasks /\ <<p, b>> \in Order
      BY <3>1 DEF Writers
    <3>3. p \in InTable
      BY <1>0, <2>1, <3>2, OrderIs
    <3>4. PICK m \in 1..Len(used) : p = used[m]
      BY <1>1, <3>3
    <3>5. m < j
      BY <1>1, <3>2, <3>4
    <3>6. m \in 1..(j - 1) /\ m \in writers
      <4>1. m \in 1..(j - 1)
        BY <1>1, <3>5
      <4>. QED
        BY <2>3, <3>1, <3>4, <4>1
    <3>7. ASSUME NEW i \in writers PROVE i <= m
      <4>0. i \in 1..(j - 1) /\ used[i] \in Writers(v, b)
        BY <2>3, <2>4
      <4>1. i \in 1..Len(used) /\ (used[i] = used[m] \/ <<used[i], used[m]>> \in Order)
        BY <2>2, <3>1, <3>4, <4>0
      <4>2. i = m \/ i < m
        BY <1>0, <1>1, <4>1, TableIs DEF IsInjective
      <4>. QED
        BY <4>1, <4>2
    <3>8. Max(writers) = m
      BY <2>4, <3>6, <3>7, MaxIs
    <3>. QED
      BY <2>1, <3>4, <3>6, <3>8 DEF p, v, writers
  <2>. QED
    BY <2>1, <2>5, <2>6 DEF PipeOK, p, v
<1>. QED
  BY <1>2 DEF PipesCurrent, helpers_tasks

\* ... MarksCover and MarksEnd, ...
LEMMA MarksAre ==
  ASSUME IInv
  PROVE  MarksCover /\ MarksEnd
<1>0. TypeOK /\ UseInv /\ EndInv /\ ComputeInv /\ CallInv
  BY DEF IInv, TableInv
<1>1. InTable = {used[i] : i \in 1..Len(used)} /\ helpers_tasks = Len(used)
  BY <1>0, TableIs DEF helpers_tasks
<1>2. \A i \in 1..Len(used) : At(i).var[0] = Out(used[i]) /\ At(i) = task[used[i]]
                              /\ Inputs(At(i)) \ {At(i).var[0]} = OtherInputs(used[i])
                              /\ OtherInputs(used[i]) \subseteq Inputs(At(i))
  BY DEF At, Out, OtherInputs
<1>3. MarksCover
  <2>1. pc = "app" => call.op # "no_merge"
    BY <1>0, IdleIs DEF CallInv
  <2>2. \A a \in InTable : Unfinished(a) => ~Done(a)
    BY DEF Unfinished, Done
  <2>3. pc = "app" => \A a \in InTable : Unfinished(a) =>
          Out(a) \in being_computed \union {Null} /\ OtherInputs(a) \subseteq in_use
    BY <1>0, <2>1, <2>2 DEF ComputeInv, UseInv
  <2>. QED
    BY <1>1, <1>2, <2>3 DEF MarksCover, Unfinished
<1>4. MarksEnd
  <2>1. ASSUME NEW v \in in_use PROVE \E i \in 1..Len(used) : v \in Inputs(At(i))
    BY <1>0, <1>1, <1>2, <2>1 DEF UseInv
  <2>2. ASSUME NEW v \in being_computed PROVE \E i \in 1..Len(used) : v = At(i).var[0]
    BY <1>0, <1>1, <1>2, <2>2 DEF EndInv
  <2>. QED
    BY <1>1, <2>1, <2>2 DEF MarksEnd
<1>. QED
  BY <1>3, <1>4

\* ... and Queued, as the three queues have no task in common.
LEMMA QueuedIs ==
  ASSUME IInv
  PROVE  Queued
<1>0. QueueInv
  BY DEF IInv, TableInv
<1>. DEFINE Qs == {untaken, on_hold, Range(master_only)}
            In(t) == {q \in Qs : t \in q}
<1>1. ASSUME NEW t \in Tasks
      PROVE  Cardinality(In(t)) = IF t \in Range(used) /\ task[t].stage = "waiting" THEN 1 ELSE 0
  <2>1. CASE t \in Range(used) /\ task[t].stage = "waiting"
    <3>1. \E q : In(t) = {q}
      <4>1. CASE "MASTER_ONLY" \in task[t].flags
        <5>1. t \in Range(master_only) /\ t \notin untaken /\ t \notin on_hold
          BY <1>0, <2>1, <4>1 DEF QueueInv, InTable
        <5>2. In(t) = {Range(master_only)}
          BY <5>1
        <5>. QED
          BY <5>2
      <4>2. CASE "MASTER_ONLY" \notin task[t].flags
        <5>1. t \notin Range(master_only) /\ t \in untaken \union on_hold
              /\ ~(t \in untaken /\ t \in on_hold)
          BY <1>0, <2>1, <4>2 DEF QueueInv, InTable
        <5>2. In(t) = {untaken} \/ In(t) = {on_hold}
          BY <5>1
        <5>. QED
          BY <5>2
      <4>. QED
        BY <4>1, <4>2
    <3>. QED
      BY <2>1, <3>1, FS_Singleton
  <2>2. CASE ~(t \in Range(used) /\ task[t].stage = "waiting")
    <3>1. t \notin Range(master_only) /\ t \notin untaken /\ t \notin on_hold
      BY <1>0, <2>2 DEF QueueInv, InTable
    <3>2. In(t) = {}
      BY <3>1
    <3>. QED
      BY <2>2, <3>2, FS_EmptySet
  <2>. QED
    BY <2>1, <2>2
<1>. QED
  BY <1>1 DEF Queued

\* The steps that Awaited allows.
AwaitedStep ==
  pc # "app" /\ pc' = "app" =>
     /\ call.op = "computed" => call.vs \intersect being_computed' = {}
     /\ call.op = "not_in_use" => call.vs \intersect in_use' = {}
     /\ call.op = "all" => used' = << >>
     /\ pc = "now" => \A i \in 1..helpers_tasks : Conflict(At(i), kind) =>
                        At(i).stage \in {"computed", "done"}

\* Wait returns only if the marks are off: while one is on some task is needed for it.
LEMMA WaitAwaits ==
  ASSUME IInv, Wait
  PROVE  AwaitedStep
<1>0. TypeOK /\ UseInv /\ EndInv /\ UNCHANGED marks /\ pc = "called"
      /\ call.op \in {"computed", "not_in_use"}
  BY DEF IInv, TableInv, Wait, Called
<1>. DEFINE computed == call.op = "computed"
            own == [i \in 1..helpers_tasks |->
                IF \/ computed /\ At(i).var[0] \in call.vs
                   \/ ~computed /\ call.vs \intersect (Inputs(At(i)) \ {At(i).var[0]}) # {}
                  THEN 1 ELSE 0]
            nd == Needed(own, 1, helpers_tasks)
<1>1. SUFFICES ASSUME pc' = "app"
               PROVE  call.vs \intersect (IF computed THEN being_computed ELSE in_use) = {}
  BY <1>0 DEF AwaitedStep, marks
<1>2. call.vs \intersect (IF computed THEN being_computed ELSE in_use) = {} \/ ~AnyNeeded(nd)
  BY <1>1 DEF Wait
<1>3. SUFFICES ASSUME NEW v \in call.vs \intersect (IF computed THEN being_computed ELSE in_use),
                      ~AnyNeeded(nd)
               PROVE  FALSE
  BY <1>2
<1>4. PICK a \in InTable : IF computed THEN Out(a) = v ELSE v \in OtherInputs(a)
  BY <1>0, <1>3 DEF EndInv, UseInv
<1>5. helpers_tasks = Len(used) /\ Len(used) \in Nat /\ InTable = {used[i] : i \in 1..Len(used)}
  BY <1>0, TableIs DEF helpers_tasks
<1>6. PICK i \in 1..Len(used) : a = used[i]
  BY <1>5
<1>7. own \in [1..Len(used) -> Marks] /\ 1 \in Marks
  BY <1>5 DEF Marks
<1>8. own[i] = 1
  <2>1. own[i] = IF \/ computed /\ Out(a) \in call.vs
                    \/ ~computed /\ call.vs \intersect OtherInputs(a) # {} THEN 1 ELSE 0
    BY <1>5, <1>6 DEF At, Out, OtherInputs
  <2>. QED
    BY <1>3, <1>4, <2>1
<1>. HIDE DEF own
<1>9. MarksOwn(nd, own, Len(used))
  BY <1>0, <1>5, <1>7, NeededIs
<1>. HIDE DEF nd
<1>10. nd[i] = 1 /\ i \in DOMAIN nd
  BY <1>8, <1>9 DEF MarksOwn
<1>. QED
  BY <1>3, <1>10 DEF AnyNeeded

\* NoticeNeeded returns only when no task with a mark waited for is left.
LEMMA NoticeNeededAwaits ==
  ASSUME IInv, NoticeNeeded
  PROVE  AwaitedStep
<1>0. TypeOK /\ CallInv /\ WaitInv /\ NoticeCompleted /\ UNCHANGED <<queues, this_task>>
      /\ pc = "needed"
  BY DEF IInv, TableInv, NoticeNeeded
<1>1. SUFFICES ASSUME pc' = "app", ~StillNeeded, Return, ~Now
               PROVE  AwaitedStep
  BY <1>0 DEF AwaitedStep, NoticeNeeded, Now, kind
<1>2. CallTypes'
  BY <1>1, IdleIs DEF Return, CallTypes
<1>3. /\ TableInv'
      /\ \A a \in InTable' : /\ a \in InTable /\ Out(a)' = Out(a)
                             /\ OtherInputs(a)' = OtherInputs(a)
                             /\ task'[a].needed = task[a].needed
  <2>1. call.op # "no_merge"
    BY <1>0, <1>1 DEF CallInv
  <2>. QED
    BY <1>0, <1>2, <2>1, NoticeStep
<1>4. TypeOK' /\ UseInv' /\ EndInv'
  BY <1>3 DEF TableInv
<1>5. \A a \in InTable' : task[a].needed # 1
  BY <1>1, <1>3, <1>4, StillNeededIs
<1>6. ASSUME call.op = "computed", NEW v \in call.vs, v \in being_computed'
      PROVE  FALSE
  <2>1. PICK a \in InTable' : Out(a)' = v
    BY <1>4, <1>6 DEF EndInv
  <2>2. task[a].needed = 1
    BY <1>0, <1>3, <1>6, <2>1 DEF WaitInv
  <2>. QED
    BY <1>5, <2>2
<1>7. ASSUME call.op = "not_in_use", NEW v \in call.vs, v \in in_use'
      PROVE  FALSE
  <2>1. PICK a \in InTable' : v \in OtherInputs(a)'
    BY <1>4, <1>7 DEF UseInv
  <2>2. v \in OtherInputs(a) /\ a \in InTable
    BY <1>3, <2>1
  <2>3. task[a].needed = 1
    BY <1>0, <1>7, <2>2 DEF WaitInv
  <2>. QED
    BY <1>5, <2>3
<1>8. ASSUME call.op = "all", used' # << >>
      PROVE  FALSE
  <2>1. used' \in Seq(Tasks)
    BY <1>4 DEF TypeOK
  <2>2. used'[1] \in InTable'
    BY <1>8, <2>1 DEF InTable, Range
  <2>3. task[used'[1]].needed = 1
    BY <1>0, <1>3, <1>8, <2>2 DEF WaitInv
  <2>. QED
    BY <1>5, <2>2, <2>3
<1>. QED
  BY <1>0, <1>6, <1>7, <1>8 DEF AwaitedStep

\* When a master-now task is done, what it conflicts with has its output.
LEMMA DoNowAwaits ==
  ASSUME IInv, DoNow
  PROVE  AwaitedStep
<1>0. TypeOK /\ UseInv /\ ComputeInv /\ CallInv /\ pc = "now" /\ Scheduling
  BY DEF IInv, TableInv, DoNow, CallInv
<1>1. helpers_tasks = Len(used) /\ InTable = {used[i] : i \in 1..Len(used)}
      /\ InTable \subseteq Tasks /\ task \in [Tasks -> Entries]
  BY <1>0, TableIs DEF helpers_tasks
<1>2. ASSUME NEW i \in 1..Len(used), Conflict(At(i), kind)
      PROVE  At(i).stage \in {"computed", "done"}
  <2>1. PICK a \in InTable : a = used[i] /\ At(i) = task[a]
    BY <1>1 DEF At
  <2>2. ASSUME NEW w \in 0..2, Out(a) = kind.var[w], Out(a) # Null
        PROVE  Computed(a)
    <3>1. CASE Pipes[w] = Writer(kind.var[w])
      BY <2>2, <3>1, NowComputed
    <3>2. CASE w # 0 /\ kind.var[w] # kind.var[0] /\ kind.var[w] \notin being_computed
      <4>1. ~Unfinished(a)
        BY <1>0, <2>2, <3>2 DEF ComputeInv
      <4>2. task[a].stage \in {"waiting", "running", "computed", "done"}
        BY <1>1 DEF Entries
      <4>. QED
        BY <4>1, <4>2 DEF Unfinished, Computed
    <3>. QED
      BY <3>1, <3>2 DEF Pipes
  <2>3. CASE Out(a) # Null /\ Out(a) \in {kind.var[0]} \union Inputs(kind)
    <3>1. \E w \in 0..2 : Out(a) = kind.var[w]
      BY <2>3 DEF Inputs
    <3>2. Computed(a)
      BY <2>2, <2>3, <3>1
    <3>. QED
      BY <2>1, <3>2 DEF Computed
  <2>4. CASE kind.var[0] # Null /\ kind.var[0] \in Inputs(task[a])
    <3>1. CASE Out(a) = kind.var[0]
      BY <2>1, <2>2, <2>4, <3>1 DEF Computed
    <3>2. CASE Out(a) # kind.var[0]
      <4>1. kind.var[0] \in OtherInputs(a) /\ kind.var[0] \notin in_use
        BY <1>0, <2>4, <3>2 DEF OtherInputs, CallInv
      <4>2. Done(a)
        BY <1>0, <4>1 DEF UseInv
      <4>. QED
        BY <2>1, <4>2 DEF Done
    <3>. QED
      BY <3>1, <3>2
  <2>5. \/ Out(a) # Null /\ Out(a) \in {kind.var[0]} \union Inputs(kind)
        \/ kind.var[0] # Null /\ kind.var[0] \in Inputs(task[a])
    BY <1>2, <2>1 DEF Conflict, Out
  <2>. QED
    BY <2>3, <2>4, <2>5
<1>. QED
  BY <1>0, <1>1, <1>2 DEF AwaitedStep, Scheduling

\* Awaited holds of every step.
LEMMA AwaitedNext ==
  ASSUME IInv, Next
  PROVE  AwaitedStep
<1>0. CallInv
  BY DEF IInv
<1>1. CASE pc = "app" \/ pc' = pc \/ pc' # "app"
  BY <1>1 DEF AwaitedStep
<1>2. CASE Merge \/ Fill
  <2>1. pc # "now" /\ call.op = "do_task"
    BY <1>0, <1>2 DEF CallInv, Merge, Fill, Called, CanMerge
  <2>. QED
    BY <2>1 DEF AwaitedStep
<1>3. CASE NoticeStarting
  <2>1. pc # "now" /\ call.op = "start"
    BY <1>0, <1>3 DEF CallInv, NoticeStarting
  <2>. QED
    BY <2>1 DEF AwaitedStep
<1>4. CASE Wait
  BY <1>4, WaitAwaits
<1>5. CASE NoticeNeeded
  BY <1>5, NoticeNeededAwaits
<1>6. CASE DoNow
  BY <1>6, DoNowAwaits
<1>7. CASE application
  BY <1>1, <1>7 DEF application, CallDoTask, CallWait, WaitForAll, ReleaseHolds, StartComputing
<1>8. CASE MergeWait \/ do_task_in_master(FALSE) \/ do_task_in_master(TRUE)
  BY <1>1, <1>8 DEF MergeWait, do_task_in_master
<1>9. CASE MergeNow \/ Schedule \/ NoticeFull \/ ScheduleNow
  BY <1>1, <1>9 DEF MergeNow, Schedule, NoticeFull, ScheduleNow
<1>10. CASE HelperStart \/ \E t \in Tasks : run_this_task(t)
  BY <1>1, <1>10 DEF HelperStart, run_this_task, TaskComputes, TaskDone
<1>. QED
  BY <1>2, <1>3, <1>4, <1>5, <1>6, <1>7, <1>8, <1>9, <1>10 DEF Next, master_call

-----------------------------------------------------------------------------
(* The theorems.                                                           *)

\* The table, the queues, the marks and the call keep their types.
THEOREM TablesAreTyped == NoMasterMerge => (Spec => []TypeOK)
<1>. SUFFICES ASSUME NoMasterMerge PROVE Spec => []TypeOK
  OBVIOUS
<1>1. IInv => TypeOK
  BY DEF IInv, TableInv
<1>. QED
  BY <1>1, Invariant, PTL

\* A task that waits is in one of the three queues, whichever merges, waits and releases have
\* moved it.
THEOREM TasksQueuedOnce == NoMasterMerge => (Spec => []Queued)
<1>. SUFFICES ASSUME NoMasterMerge PROVE Spec => []Queued
  OBVIOUS
<1>1. IInv => Queued
  BY QueuedIs
<1>. QED
  BY <1>1, Invariant, PTL

\* A task takes its input from the last earlier tasks in the table that compute it, though
\* indexes are given to other tasks when notice_completed has freed them.
THEOREM PipesAreCurrent == NoMasterMerge => (Spec => []PipesCurrent)
<1>. SUFFICES ASSUME NoMasterMerge PROVE Spec => []PipesCurrent
  OBVIOUS
<1>1. IInv => PipesCurrent
  BY CurrentIs
<1>. QED
  BY <1>1, Invariant, PTL

\* Whenever the application can look, what a task still has to compute or to use is marked.
THEOREM MarksCoverAll == NoMasterMerge => (Spec => []MarksCover)
<1>. SUFFICES ASSUME NoMasterMerge PROVE Spec => []MarksCover
  OBVIOUS
<1>1. IInv => MarksCover
  BY MarksAre
<1>. QED
  BY <1>1, Invariant, PTL

\* No mark outlives the tasks it is for.
THEOREM MarksAreTakenOff == NoMasterMerge => (Spec => []MarksEnd)
<1>. SUFFICES ASSUME NoMasterMerge PROVE Spec => []MarksEnd
  OBVIOUS
<1>1. IInv => MarksEnd
  BY MarksAre
<1>. QED
  BY <1>1, Invariant, PTL

\* A task has started only if each earlier one that it conflicts with has its output, or has
\* started too and pipelines it: what runnable looks at is enough.
THEOREM TasksStartInOrder == NoMasterMerge => (Spec => []StartedInOrder)
<1>. SUFFICES ASSUME NoMasterMerge PROVE Spec => []StartedInOrder
  OBVIOUS
<1>1. IInv => StartedInOrder
  BY StartedIs
<1>. QED
  BY <1>1, Invariant, PTL

\* A waiting call returns only with the marks off that it waited for, and a master-now task
\* is done only when all it conflicts with have their output.
THEOREM CallsAwait == NoMasterMerge => (Spec => Awaited)
<1>. SUFFICES ASSUME NoMasterMerge PROVE Spec => Awaited
  OBVIOUS
<1>1. IInv /\ [Next]_vars => [AwaitedStep]_vars
  BY AwaitedNext
<1>. QED
  BY <1>1, Invariant, PTL DEF Spec, Awaited, AwaitedStep
=============================================================================
