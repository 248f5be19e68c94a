---------------------------- MODULE MemoryProofs ----------------------------
(***************************************************************************)
(* Theorems about Memory, for any finite sets of objects and weak          *)
(* references, any generations and any bounds, with finalizers that        *)
(* register finalizers or not; those of the last part, where nothing       *)
(* registered is lost, if they do not.                                     *)
(*                                                                         *)
(* The model marks by turns: Closed, Listed and MarkedAfterWeak do as many *)
(* as can be needed.  So first there are lemmas about turns, and with them *)
(* that these make the least sets that have what is started with and are   *)
(* closed.  What the actions do is then said in these terms, and what is   *)
(* in use is such a set (LiveInv).                                         *)
(***************************************************************************)
EXTENDS Memory, TLAPS, FiniteSetTheorems, WellFoundedInduction

(* Doing something again and again.                                        *)

\* A set of natural numbers that is not empty has a least element.
LEMMA LeastExists ==
  ASSUME NEW S \in SUBSET Nat, S # {}
  PROVE  \E m \in S : \A x \in S : m <= x
<1>. DEFINE R == OpToRel(<, Nat)
<1>1. IsWellFoundedOn(R, Nat)
  BY NatLessThanWellFounded
<1>2. PICK m \in S : \A y \in S : ~(<<y, m>> \in R)
  BY <1>1, WFMin
<1>3. \A y \in S : ~(y < m)
  BY <1>2 DEF OpToRel
<1>. QED
  BY <1>3

\* The principle of induction over the natural numbers, for sets.
LEMMA Induction ==
  ASSUME NEW N \in SUBSET Nat, 0 \in N, \A n \in N : n + 1 \in N
  PROVE  N = Nat
<1>1. SUFFICES ASSUME Nat \ N # {} PROVE FALSE
  OBVIOUS
<1>2. PICK m \in Nat \ N : \A x \in Nat \ N : m <= x
  BY <1>1, LeastExists
<1>3. m - 1 \in Nat /\ m - 1 \notin Nat \ N
  BY <1>2
<1>. QED
  BY <1>2, <1>3

\* g is what F makes of S when it is done k times, one turn after the other.
Turns(D, F, S, k, g) ==
  g \in [0..k -> D] /\ g[0] = S /\ \A n \in 1..k : g[n] = F[g[n - 1]]

\* The function that a definition by iteration chooses exists: F is done again and again.
LEMMA Iterates ==
  ASSUME NEW D, NEW F, NEW S, NEW k, F \in [D -> D], S \in D, k \in Nat
  PROVE  \E g : Turns(D, F, S, k, g)
<1>. DEFINE Good(g, j) == /\ g \in [0..j -> D] /\ g[0] = S
                          /\ \A n \in 1..j : g[n] = F[g[n - 1]]
            N == {j \in Nat : \E g : Good(g, j)}
<1>1. 0 \in N
  <2>1. Good([n \in 0..0 |-> S], 0)
    OBVIOUS
  <2>. HIDE DEF Good
  <2>. QED
    BY <2>1
<1>2. ASSUME NEW j \in N
      PROVE  j + 1 \in N
  <2>1. PICK g : Good(g, j)
    <3>. HIDE DEF Good
    <3>. QED
      BY <1>2
  <2>2. j \in Nat
    BY <1>2
  <2>. DEFINE h == [n \in 0..(j + 1) |-> IF n = j + 1 THEN F[g[j]] ELSE g[n]]
  <2>3. g[j] \in D /\ F[g[j]] \in D
    BY <2>1, <2>2
  <2>4. h \in [0..(j + 1) -> D]
    BY <2>1, <2>2, <2>3
  <2>5. h[0] = S
    BY <2>1, <2>2
  <2>6. ASSUME NEW n \in 1..(j + 1)
        PROVE  h[n] = F[h[n - 1]]
    <3>1. CASE n = j + 1
      BY <2>2, <3>1
    <3>2. CASE n # j + 1
      <4>1. n \in 1..j /\ h[n] = g[n] /\ h[n - 1] = g[n - 1]
        BY <2>2, <3>2
      <4>. QED
        BY <2>1, <4>1
    <3>. QED
      BY <3>1, <3>2
  <2>7. Good(h, j + 1)
    <3>. HIDE DEF h
    <3>. QED
      BY <2>4, <2>5, <2>6
  <2>. HIDE DEF Good, h
  <2>. QED
    BY <2>2, <2>7
<1>3. PICK g : Good(g, k)
  <2>. HIDE DEF N
  <2>1. N = Nat
    BY <1>1, <1>2, Induction DEF N
  <2>. HIDE DEF Good
  <2>. QED
    BY <2>1 DEF N
<1>4. Turns(D, F, S, k, g)
  BY <1>3 DEF Turns
<1>. QED
  BY <1>4

\* A function that satisfies the definition is of this kind.
LEMMA TurnsAre ==
  ASSUME NEW D, NEW F, NEW S, NEW k, NEW g, F \in [D -> D], S \in D, k \in Nat,
         g = [n \in 0..k |-> g[n]], g[0] = S,
         \A n \in 1..k : g[n - 1] \in D => g[n] = F[g[n - 1]]
  PROVE  Turns(D, F, S, k, g)
<1>. DEFINE N == {n \in Nat : n <= k => g[n] \in D}
<1>1. 0 \in N
  OBVIOUS
<1>2. ASSUME NEW n \in N
      PROVE  n + 1 \in N
  <2>1. n + 1 <= k => n + 1 \in 1..k /\ (n + 1) - 1 = n /\ n <= k
    OBVIOUS
  <2>2. n + 1 <= k => g[n + 1] = F[g[n]]
    BY <1>2, <2>1
  <2>. QED
    BY <1>2, <2>1, <2>2
<1>3. N = Nat
  <2>. HIDE DEF N
  <2>. QED
    BY <1>1, <1>2, Induction DEF N
<1>4. ASSUME NEW n \in 0..k
      PROVE  g[n] \in D
  <2>1. n \in Nat /\ n <= k
    OBVIOUS
  <2>2. n \in N
    <3>. HIDE DEF N
    <3>. QED
      BY <1>3, <2>1
  <2>. QED
    BY <2>1, <2>2
<1>5. \A n \in 1..k : n - 1 \in 0..k
  OBVIOUS
<1>6. g \in [0..k -> D]
  BY <1>4
<1>. QED
  BY <1>4, <1>5, <1>6 DEF Turns

\* What each turn keeps within T is within T in the end.
LEMMA TurnsWithin ==
  ASSUME NEW D, NEW F, NEW S, NEW k \in Nat, NEW g, Turns(D, F, S, k, g),
         NEW T, S \subseteq T, \A U \in D : U \subseteq T => F[U] \subseteq T
  PROVE  g[k] \subseteq T
<1>1. /\ \A n \in 0..k : g[n] \in D
      /\ g[0] = S /\ \A n \in 1..k : g[n] = F[g[n - 1]]
  BY DEF Turns
<1>. DEFINE N == {n \in Nat : n <= k => g[n] \subseteq T}
<1>2. 0 \in N
  BY <1>1
<1>3. ASSUME NEW n \in N
      PROVE  n + 1 \in N
  <2>. SUFFICES ASSUME n + 1 <= k PROVE g[n + 1] \subseteq T
    BY <1>3
  <2>1. n + 1 \in 1..k /\ (n + 1) - 1 = n /\ n \in 0..k
    BY <1>3
  <2>2. g[n + 1] = F[g[n]] /\ g[n] \in D
    BY <1>1, <2>1
  <2>3. g[n] \subseteq T
    BY <1>3, <2>1
  <2>. QED
    BY <2>2, <2>3
<1>4. N = Nat
  <2>. HIDE DEF N
  <2>. QED
    BY <1>2, <1>3, Induction DEF N
<1>. QED
  BY <1>4

\* What each turn leaves in is in in the end.
LEMMA TurnsGrow ==
  ASSUME NEW D, NEW F, NEW S, NEW k \in Nat, NEW g, Turns(D, F, S, k, g),
         \A U \in D : U \subseteq F[U]
  PROVE  S \subseteq g[k]
<1>1. /\ \A n \in 0..k : g[n] \in D
      /\ g[0] = S /\ \A n \in 1..k : g[n] = F[g[n - 1]]
  BY DEF Turns
<1>. DEFINE N == {n \in Nat : n <= k => S \subseteq g[n]}
<1>2. 0 \in N
  BY <1>1
<1>3. ASSUME NEW n \in N
      PROVE  n + 1 \in N
  <2>. SUFFICES ASSUME n + 1 <= k PROVE S \subseteq g[n + 1]
    BY <1>3
  <2>1. n + 1 \in 1..k /\ (n + 1) - 1 = n /\ n \in 0..k
    BY <1>3
  <2>2. g[n + 1] = F[g[n]] /\ g[n] \in D
    BY <1>1, <2>1
  <2>3. S \subseteq g[n]
    BY <1>3, <2>1
  <2>. QED
    BY <2>2, <2>3
<1>4. N = Nat
  <2>. HIDE DEF N
  <2>. QED
    BY <1>2, <1>3, Induction DEF N
<1>. QED
  BY <1>4

\* If each turn that changes anything adds to what is noted in K, there are enough turns when
\* there are as many as can be noted: one more would change nothing.
LEMMA TurnsEnd ==
  ASSUME NEW D, NEW F \in [D -> D], NEW S, NEW k \in Nat, NEW g, Turns(D, F, S, k, g),
         NEW M, IsFiniteSet(M), k = Cardinality(M), NEW K \in [D -> SUBSET M],
         \A U \in D : K[U] \subseteq K[F[U]],
         \A U \in D : K[U] = K[F[U]] => F[U] = U
  PROVE  F[g[k]] = g[k]
<1>1. /\ \A n \in 0..k : g[n] \in D
      /\ \A n \in 1..k : g[n] = F[g[n - 1]]
  BY DEF Turns
<1>2. \A U \in D : IsFiniteSet(K[U]) /\ Cardinality(K[U]) \in Nat
  <2>1. \A U \in D : K[U] \subseteq M
    OBVIOUS
  <2>2. \A U \in D : IsFiniteSet(K[U])
    BY <2>1, FS_Subset
  <2>. QED
    BY <2>2, FS_CardinalityType
<1>. DEFINE N == {n \in Nat : n <= k => F[g[n]] = g[n] \/ n <= Cardinality(K[g[n]])}
<1>3. 0 \in N
  BY <1>1, <1>2
<1>4. ASSUME NEW n \in N
      PROVE  n + 1 \in N
  <2>. SUFFICES ASSUME n + 1 <= k, F[g[n + 1]] # g[n + 1]
                PROVE  n + 1 <= Cardinality(K[g[n + 1]])
    BY <1>4
  <2>1. n + 1 \in 1..k /\ (n + 1) - 1 = n /\ n \in 0..k /\ n + 1 \in 0..k
    BY <1>1, <1>4
  <2>2. g[n + 1] = F[g[n]] /\ g[n] \in D /\ g[n + 1] \in D
    BY <1>1, <2>1
  <2>3. F[g[n]] # g[n]
    BY <2>2
  <2>4. n <= Cardinality(K[g[n]])
    BY <1>1, <1>4, <2>1, <2>3
  <2>5. K[g[n]] \subseteq K[g[n + 1]] /\ K[g[n]] # K[g[n + 1]]
    BY <2>2, <2>3
  <2>6. Cardinality(K[g[n]]) < Cardinality(K[g[n + 1]])
    <3>1. IsFiniteSet(K[g[n + 1]])
      BY <1>2, <2>2
    <3>2. /\ Cardinality(K[g[n]]) <= Cardinality(K[g[n + 1]])
          /\ Cardinality(K[g[n]]) = Cardinality(K[g[n + 1]]) => K[g[n]] = K[g[n + 1]]
      BY <2>5, <3>1, FS_Subset
    <3>. QED
      BY <1>2, <2>2, <2>5, <3>2
  <2>. QED
    BY <1>2, <2>1, <2>2, <2>4, <2>6
<1>5. N = Nat
  <2>. HIDE DEF N
  <2>. QED
    BY <1>3, <1>4, Induction DEF N
<1>6. CASE k <= Cardinality(K[g[k]])
  <2>1. g[k] \in D /\ F[g[k]] \in D
    BY <1>1
  <2>2. K[g[k]] \subseteq M /\ K[F[g[k]]] \subseteq M
    BY <2>1
  <2>3. K[g[k]] = M
    <3>1. /\ Cardinality(K[g[k]]) <= Cardinality(M)
          /\ Cardinality(K[g[k]]) = Cardinality(M) => K[g[k]] = M
      BY <2>2, FS_Subset
    <3>. QED
      BY <1>1, <1>2, <1>6, <2>1, <3>1
  <2>4. K[F[g[k]]] = K[g[k]]
    BY <2>1, <2>2, <2>3
  <2>. QED
    BY <2>1, <2>4
<1>. QED
  BY <1>1, <1>5, <1>6

\* Each turn that changes anything adds to what is noted in K, which is part of M.
Adds(D, F, M, K) ==
  /\ IsFiniteSet(M) /\ K \in [D -> SUBSET M]
  /\ \A U \in D : U \subseteq F[U] /\ K[U] \subseteq K[F[U]]
  /\ \A U \in D : K[U] = K[F[U]] => F[U] = U

\* c is the least set that contains S and that F leaves as it is.
LeastFixed(D, F, S, c) ==
  /\ S \subseteq c /\ c \in D /\ F[c] = c
  /\ \A T : S \subseteq T /\ (\A U \in D : U \subseteq T => F[U] \subseteq T) => c \subseteq T

LEMMA TurnsMake ==
  ASSUME NEW D, NEW F, NEW S, NEW k, NEW g, NEW M, NEW K,
         F \in [D -> D], Turns(D, F, S, k, g), k \in Nat, k = Cardinality(M), Adds(D, F, M, K)
  PROVE  LeastFixed(D, F, S, g[k])
<1>1. S \subseteq g[k]
  <2>1. \A U \in D : U \subseteq F[U]
    BY DEF Adds
  <2>. QED
    BY <2>1, TurnsGrow
<1>2. g[k] \in D
  BY DEF Turns
<1>3. F[g[k]] = g[k]
  BY TurnsEnd DEF Adds
<1>4. ASSUME NEW T, S \subseteq T, \A U \in D : U \subseteq T => F[U] \subseteq T
      PROVE  g[k] \subseteq T
  BY <1>4, TurnsWithin
<1>. QED
  BY <1>1, <1>2, <1>3, <1>4 DEF LeastFixed

-----------------------------------------------------------------------------
(* The closures of the model: each contains what it starts with, is closed *)
(* and is the least set of this kind, so as many turns are enough as the   *)
(* model takes.                                                            *)

ClosedUnderFields(T) == \A x \in T : Fields(x) \subseteq T

LEMMA NodesAre ==
  /\ IsFiniteSet(Nodes) /\ Cardinality(Nodes) \in Nat
  /\ IsFiniteSet(Refs) /\ Cardinality(Refs) \in Nat
<1>1. IsFiniteSet(Nodes) /\ IsFiniteSet(Refs)
  BY ConstantsAssumption, FS_Union DEF Nodes
<1>. QED
  BY <1>1, FS_CardinalityType

\* What a weak reference holds.
LEMMA WeakIs ==
  ASSUME TypeOK, NEW w \in Refs
  PROVE  /\ weak[w].key \in Objs \union {Nil} /\ weak[w].value \in Objs \union {Nil}
         /\ weak[w].fin \in Objs \union {Nil} /\ weak[w].next \in Refs \union {Nil}
<1>1. weak[w] \in [key : Objs \union {Nil}, value : Objs \union {Nil},
                   fin : Objs \union {Nil}, next : Refs \union {Nil}]
  BY DEF TypeOK
<1>. QED
  BY <1>1

LEMMA FieldsAre ==
  ASSUME TypeOK, NEW x \in Nodes
  PROVE  Fields(x) \subseteq Nodes
<1>1. CASE x \in Objs
  <2>1. ref[x] \subseteq Objs
    BY <1>1 DEF TypeOK
  <2>. QED
    BY <1>1, <2>1 DEF Fields, Nodes
<1>2. CASE x \notin Objs
  <2>1. x \in Refs
    BY <1>2 DEF Nodes
  <2>. QED
    BY <1>2, <2>1, WeakIs DEF Fields, Nodes
<1>. QED
  BY <1>1, <1>2

LEMMA WithFieldsIs ==
  ASSUME TypeOK, NEW S \in SUBSET Nodes
  PROVE  WithFields(S) \in SUBSET Nodes
<1>1. \A x \in S : Fields(x) \subseteq Nodes
  BY FieldsAre
<1>. QED
  BY <1>1 DEF WithFields

LEMMA ClosedIs ==
  ASSUME TypeOK, NEW S \in SUBSET Nodes
  PROVE  /\ S \subseteq Closed(S) /\ Closed(S) \in SUBSET Nodes
         /\ ClosedUnderFields(Closed(S))
         /\ \A T : S \subseteq T /\ ClosedUnderFields(T) => Closed(S) \subseteq T
<1>. DEFINE D == SUBSET Nodes
            F == [U \in D |-> WithFields(U)]
            k == Cardinality(Nodes)
            Def(g) == g = [n \in 0..k |-> IF n = 0 THEN S ELSE WithFields(g[n - 1])]
            c == CHOOSE g : Def(g)
            K == [U \in D |-> U]
<1>1. k \in Nat /\ S \in D
  BY NodesAre
<1>2. F \in [D -> D] /\ \A U \in D : F[U] = WithFields(U)
  BY WithFieldsIs
<1>3. Def(c)
  <2>. HIDE DEF F, k
  <2>1. PICK g : Turns(D, F, S, k, g)
    <3>1. k \in Nat /\ S \in D /\ F \in [D -> D]
      BY <1>1, <1>2
    <3>. HIDE DEF D
    <3>. QED
      BY <3>1, Iterates
  <2>2. \A n \in 0..k : n = 0 \/ (n \in 1..k /\ n - 1 \in 0..k)
    BY <1>1
  <2>3. \A n \in 0..k : g[n] = IF n = 0 THEN S ELSE WithFields(g[n - 1])
    <3>1. \A n \in 0..k : g[n] \in D
      BY <2>1 DEF Turns
    <3>. QED
      BY <1>2, <2>1, <2>2, <3>1 DEF Turns
  <2>4. g = [n \in 0..k |-> g[n]]
    BY <2>1 DEF Turns
  <2>5. Def(g)
    BY <2>3, <2>4
  <2>. HIDE DEF Def
  <2>. QED
    BY <2>5
<1>4. Closed(S) = c[k]
  BY DEF Closed
<1>. HIDE DEF c
<1>5. Turns(D, F, S, k, c)
  <2>. HIDE DEF k
  <2>1. 0 \in 0..k /\ \A n \in 1..k : n \in 0..k /\ n # 0
    BY <1>1
  <2>2. c[0] = S /\ \A n \in 1..k : c[n] = WithFields(c[n - 1])
    BY <1>3, <2>1
  <2>3. c = [n \in 0..k |-> c[n]]
    BY <1>3
  <2>4. \A n \in 1..k : c[n - 1] \in D => c[n] = F[c[n - 1]]
    BY <1>2, <2>2
  <2>. HIDE DEF F, D, Def
  <2>. QED
    BY <1>1, <1>2, <2>2, <2>3, <2>4, TurnsAre
<1>6. LeastFixed(D, F, S, c[k])
  <2>. DEFINE M == Nodes
  <2>1. \A U \in D : K[U] = U /\ F[U] \in D /\ U \subseteq F[U]
    BY <1>2 DEF WithFields
  <2>2. Adds(D, F, M, K)
    BY <2>1, NodesAre DEF Adds
  <2>3. k = Cardinality(M)
    OBVIOUS
  <2>. HIDE DEF F, k, D, K, M, Def
  <2>. QED
    BY <1>1, <1>2, <1>5, <2>2, <2>3, TurnsMake
<1>7. ClosedUnderFields(c[k])
  <2>1. WithFields(c[k]) = c[k]
    BY <1>2, <1>6 DEF LeastFixed
  <2>. QED
    BY <2>1 DEF WithFields, ClosedUnderFields
<1>8. ASSUME NEW T, S \subseteq T, ClosedUnderFields(T)
      PROVE  c[k] \subseteq T
  <2>1. \A U \in D : U \subseteq T => F[U] \subseteq T
    BY <1>2, <1>8 DEF WithFields, ClosedUnderFields
  <2>. HIDE DEF F, k, D, Def
  <2>. QED
    BY <1>6, <1>8, <2>1 DEF LeastFixed
<1>9. S \subseteq c[k] /\ c[k] \in D
  BY <1>6 DEF LeastFixed
<1>. QED
  BY <1>4, <1>7, <1>8, <1>9

\* Listed is the least set with the first entry that has the next one of each.
LEMMA ListedIs ==
  ASSUME TypeOK
  PROVE  /\ {R_weak_refs} \ {Nil} \subseteq Listed /\ Listed \in SUBSET Refs
         /\ \A w \in Listed : {weak[w].next} \ {Nil} \subseteq Listed
         /\ \A T : {R_weak_refs} \ {Nil} \subseteq T /\
                  (\A w \in T \intersect Refs : {weak[w].next} \ {Nil} \subseteq T)
                  => Listed \subseteq T
<1>. DEFINE S == {R_weak_refs} \ {Nil}
            D == SUBSET Refs
            F == [U \in D |-> WithNext(U)]
            k == Cardinality(Refs)
            Def(g) == g = [n \in 0..k |-> IF n = 0 THEN S ELSE WithNext(g[n - 1])]
            c == CHOOSE g : Def(g)
            K == [U \in D |-> U]
<1>1. k \in Nat /\ S \in D
  BY NodesAre DEF TypeOK
<1>2. F \in [D -> D] /\ \A U \in D : F[U] = WithNext(U)
  <2>1. ASSUME NEW U \in D
        PROVE  WithNext(U) \in D
    <3>1. \A w \in U : weak[w].next \in Refs \union {Nil}
      BY WeakIs
    <3>. QED
      BY <3>1 DEF WithNext
  <2>. QED
    BY <2>1
<1>. HIDE DEF S
<1>3. Def(c)
  <2>. HIDE DEF F, k
  <2>1. PICK g : Turns(D, F, S, k, g)
    <3>1. k \in Nat /\ S \in D /\ F \in [D -> D]
      BY <1>1, <1>2
    <3>. HIDE DEF D
    <3>. QED
      BY <3>1, Iterates
  <2>2. \A n \in 0..k : n = 0 \/ (n \in 1..k /\ n - 1 \in 0..k)
    BY <1>1
  <2>3. \A n \in 0..k : g[n] = IF n = 0 THEN S ELSE WithNext(g[n - 1])
    <3>1. \A n \in 0..k : g[n] \in D
      BY <2>1 DEF Turns
    <3>. QED
      BY <1>2, <2>1, <2>2, <3>1 DEF Turns
  <2>4. g = [n \in 0..k |-> g[n]]
    BY <2>1 DEF Turns
  <2>5. Def(g)
    BY <2>3, <2>4
  <2>. HIDE DEF Def
  <2>. QED
    BY <2>5
<1>4. Listed = c[k]
  BY DEF Listed, S
<1>. HIDE DEF c
<1>5. Turns(D, F, S, k, c)
  <2>. HIDE DEF k
  <2>1. 0 \in 0..k /\ \A n \in 1..k : n \in 0..k /\ n # 0
    BY <1>1
  <2>2. c[0] = S /\ \A n \in 1..k : c[n] = WithNext(c[n - 1])
    BY <1>3, <2>1
  <2>3. c = [n \in 0..k |-> c[n]]
    BY <1>3
  <2>4. \A n \in 1..k : c[n - 1] \in D => c[n] = F[c[n - 1]]
    BY <1>2, <2>2
  <2>. HIDE DEF F, D, Def
  <2>. QED
    BY <1>1, <1>2, <2>2, <2>3, <2>4, TurnsAre
<1>6. LeastFixed(D, F, S, c[k])
  <2>. DEFINE M == Refs
  <2>1. \A U \in D : K[U] = U /\ F[U] \in D /\ U \subseteq F[U]
    BY <1>2 DEF WithNext
  <2>2. Adds(D, F, M, K)
    BY <2>1, NodesAre DEF Adds
  <2>3. k = Cardinality(M)
    OBVIOUS
  <2>. HIDE DEF F, k, D, K, M, Def
  <2>. QED
    BY <1>1, <1>2, <1>5, <2>2, <2>3, TurnsMake
<1>7. \A w \in c[k] : {weak[w].next} \ {Nil} \subseteq c[k]
  <2>1. WithNext(c[k]) = c[k]
    BY <1>2, <1>6 DEF LeastFixed
  <2>. QED
    BY <2>1 DEF WithNext
<1>8. ASSUME NEW T, S \subseteq T,
             \A w \in T \intersect Refs : {weak[w].next} \ {Nil} \subseteq T
      PROVE  c[k] \subseteq T
  <2>1. \A U \in D : U \subseteq T => F[U] \subseteq T
    BY <1>2, <1>8 DEF WithNext
  <2>. HIDE DEF F, k, D, Def
  <2>. QED
    BY <1>6, <1>8, <2>1 DEF LeastFixed
<1>9. S \subseteq c[k] /\ c[k] \in D
  BY <1>6 DEF LeastFixed
<1>10. \A T : S \subseteq T /\ (\A w \in T \intersect Refs : {weak[w].next} \ {Nil} \subseteq T)
            => Listed \subseteq T
  BY <1>4, <1>8
<1>11. \A w \in Listed : {weak[w].next} \ {Nil} \subseteq Listed
  BY <1>4, <1>7
<1>12. S \subseteq Listed /\ Listed \in SUBSET Refs
  BY <1>4, <1>9
<1>. HIDE DEF c, k, F, K, Def
<1>. QED
  BY <1>10, <1>11, <1>12 DEF S

\* What the weak references with their keys in T have is in T.
WeaklyClosed(T) ==
  \A w \in Listed : weak[w].key \in T => {weak[w].value, weak[w].fin} \ {Nil} \subseteq T

LEMMA WeaklyReachedHas ==
  ASSUME NEW S
  PROVE  \A y : y \in WeaklyReached(S) <=>
              \E w \in Listed : weak[w].key \in S /\ y \in {weak[w].value, weak[w].fin} \ {Nil}
<1>. DEFINE L == {x \in Listed : weak[x].key \in S}
            Q == {{weak[w].value, weak[w].fin} : w \in L}
<1>1. \A y : y \in UNION Q <=> \E w \in L : y \in {weak[w].value, weak[w].fin}
  OBVIOUS
<1>2. WeaklyReached(S) = (UNION Q) \ {Nil}
  BY DEF WeaklyReached
<1>3. \A w : w \in L <=> w \in Listed /\ weak[w].key \in S
  OBVIOUS
<1>. HIDE DEF Q, L
<1>. QED
  BY <1>1, <1>2, <1>3

LEMMA WeaklyReachedIs ==
  ASSUME TypeOK, NEW S \in SUBSET Nodes
  PROVE  /\ WeaklyReached(S) \in SUBSET Nodes
         /\ WeaklyReached(S) \subseteq S <=> WeaklyClosed(S)
         /\ WithWeaklyReached(S) \in SUBSET Nodes
         /\ S \subseteq WithWeaklyReached(S) /\ WeaklyReached(S) \subseteq WithWeaklyReached(S)
         /\ ClosedUnderFields(WithWeaklyReached(S))
         /\ \A T : S \subseteq T /\ ClosedUnderFields(T) /\ WeaklyClosed(T)
                   => WithWeaklyReached(S) \subseteq T
<1>refs. \A w \in Listed : w \in Refs
  BY ListedIs
<1>1. \A w \in Listed : {weak[w].value, weak[w].fin} \ {Nil} \subseteq Nodes
  BY <1>refs, WeakIs DEF Nodes
<1>has. \A y : y \in WeaklyReached(S) <=>
              \E w \in Listed : weak[w].key \in S /\ y \in {weak[w].value, weak[w].fin} \ {Nil}
  BY WeaklyReachedHas
<1>2. WeaklyReached(S) \in SUBSET Nodes
  BY <1>1, <1>has
<1>3. S \union WeaklyReached(S) \in SUBSET Nodes
  BY <1>2
<1>4. WeaklyReached(S) \subseteq S <=> WeaklyClosed(S)
  BY <1>has DEF WeaklyClosed
<1>5. ASSUME NEW T, S \subseteq T, ClosedUnderFields(T), WeaklyClosed(T)
      PROVE  WithWeaklyReached(S) \subseteq T
  <2>1. WeaklyReached(S) \subseteq T
    <3>1. ASSUME NEW w \in Listed, weak[w].key \in S
          PROVE  {weak[w].value, weak[w].fin} \ {Nil} \subseteq T
      BY <1>5, <3>1 DEF WeaklyClosed
    <3>. QED
      BY <1>has, <3>1
  <2>. QED
    BY <1>3, <1>5, <2>1, ClosedIs DEF WithWeaklyReached
<1>6. /\ WithWeaklyReached(S) \in SUBSET Nodes
      /\ S \subseteq WithWeaklyReached(S) /\ WeaklyReached(S) \subseteq WithWeaklyReached(S)
      /\ ClosedUnderFields(WithWeaklyReached(S))
  BY <1>3, ClosedIs DEF WithWeaklyReached
<1>. QED
  BY <1>2, <1>4, <1>5, <1>6

\* The least set that contains m, that is closed under the fields of objects and that has
\* the values and finalizers of the weak references with their keys in it.
WeakClosure(m, c) ==
  /\ m \subseteq c /\ c \in SUBSET Nodes /\ ClosedUnderFields(c) /\ WeaklyClosed(c)
  /\ \A T : m \subseteq T /\ ClosedUnderFields(T) /\ WeaklyClosed(T) => c \subseteq T

\* One turn for each weak reference is enough: a turn that adds anything adds all that a
\* weak reference has.
LEMMA MarkedAfterWeakIs ==
  ASSUME TypeOK, NEW S \in SUBSET Nodes, ClosedUnderFields(S)
  PROVE  WeakClosure(S, MarkedAfterWeak(S))
<1>. DEFINE D == {U \in SUBSET Nodes : ClosedUnderFields(U)}
            F == [U \in D |-> WithWeaklyReached(U)]
            k == Cardinality(Refs)
            Def(g) == g = [n \in 0..k |-> IF n = 0 THEN S ELSE WithWeaklyReached(g[n - 1])]
            c == CHOOSE g : Def(g)
            K == [U \in D |-> {w \in Refs : {weak[w].value, weak[w].fin} \ {Nil} \subseteq U}]
<1>1. k \in Nat /\ S \in D
  BY NodesAre
<1>2. F \in [D -> D] /\ \A U \in D : F[U] = WithWeaklyReached(U)
  <2>1. \A U \in D : WithWeaklyReached(U) \in D
    BY WeaklyReachedIs
  <2>. HIDE DEF D
  <2>. QED
    BY <2>1
<1>3. Def(c)
  <2>. HIDE DEF F, k
  <2>1. PICK g : Turns(D, F, S, k, g)
    <3>1. k \in Nat /\ S \in D /\ F \in [D -> D]
      BY <1>1, <1>2
    <3>. HIDE DEF D
    <3>. QED
      BY <3>1, Iterates
  <2>2. \A n \in 0..k : n = 0 \/ (n \in 1..k /\ n - 1 \in 0..k)
    BY <1>1
  <2>3. \A n \in 0..k : g[n] = IF n = 0 THEN S ELSE WithWeaklyReached(g[n - 1])
    <3>1. \A n \in 0..k : g[n] \in D
      BY <2>1 DEF Turns
    <3>. QED
      BY <1>2, <2>1, <2>2, <3>1 DEF Turns
  <2>4. g = [n \in 0..k |-> g[n]]
    BY <2>1 DEF Turns
  <2>5. Def(g)
    BY <2>3, <2>4
  <2>. HIDE DEF Def
  <2>. QED
    BY <2>5
<1>4. MarkedAfterWeak(S) = c[k]
  BY DEF MarkedAfterWeak
<1>. HIDE DEF c
<1>5. Turns(D, F, S, k, c)
  <2>. HIDE DEF k
  <2>1. 0 \in 0..k /\ \A n \in 1..k : n \in 0..k /\ n # 0
    BY <1>1
  <2>2. c[0] = S /\ \A n \in 1..k : c[n] = WithWeaklyReached(c[n - 1])
    BY <1>3, <2>1
  <2>3. c = [n \in 0..k |-> c[n]]
    BY <1>3
  <2>4. \A n \in 1..k : c[n - 1] \in D => c[n] = F[c[n - 1]]
    BY <1>2, <2>2
  <2>. HIDE DEF F, D, Def
  <2>. QED
    BY <1>1, <1>2, <2>2, <2>3, <2>4, TurnsAre
<1>6. LeastFixed(D, F, S, c[k])
  <2>. DEFINE M == Refs
  <2>1. ASSUME NEW U \in D
        PROVE  U \subseteq F[U] /\ F[U] \in D /\ WeaklyReached(U) \subseteq F[U]
    BY <1>2, WeaklyReachedIs
  <2>2. K \in [D -> SUBSET M] /\ \A U \in D : \A w \in Refs :
          w \in K[U] <=> {weak[w].value, weak[w].fin} \ {Nil} \subseteq U
    OBVIOUS
  <2>3. ASSUME NEW U \in D, K[U] = K[F[U]]
        PROVE  F[U] = U
    <3>1. ASSUME NEW w \in Listed, weak[w].key \in U
          PROVE  {weak[w].value, weak[w].fin} \ {Nil} \subseteq U
      <4>1. w \in Refs
        BY ListedIs
      <4>2. {weak[w].value, weak[w].fin} \ {Nil} \subseteq WeaklyReached(U)
        BY <3>1, WeaklyReachedHas
      <4>3. w \in K[F[U]]
        BY <2>1, <2>2, <4>1, <4>2
      <4>. QED
        BY <2>2, <2>3, <4>1, <4>3
    <3>2. WeaklyClosed(U)
      BY <3>1 DEF WeaklyClosed
    <3>3. WithWeaklyReached(U) \subseteq U
      BY <3>2, WeaklyReachedIs
    <3>. QED
      BY <1>2, <2>1, <3>3
  <2>4. \A U \in D : K[U] \subseteq K[F[U]]
    BY <2>1, <2>2
  <2>5. Adds(D, F, M, K)
    <3>. HIDE DEF D, F, K
    <3>. QED
      BY <2>1, <2>2, <2>3, <2>4, NodesAre DEF Adds
  <2>6. k = Cardinality(M)
    OBVIOUS
  <2>. HIDE DEF F, k, D, K, M, Def
  <2>. QED
    BY <1>1, <1>2, <1>5, <2>5, <2>6, TurnsMake
<1>7. S \subseteq c[k] /\ c[k] \in D /\ WithWeaklyReached(c[k]) = c[k]
  BY <1>2, <1>6 DEF LeastFixed
<1>8. WeaklyClosed(c[k])
  BY <1>7, WeaklyReachedIs
<1>9. ASSUME NEW T, S \subseteq T, ClosedUnderFields(T), WeaklyClosed(T)
      PROVE  c[k] \subseteq T
  <2>1. \A U \in D : U \subseteq T => F[U] \subseteq T
    BY <1>2, <1>9, WeaklyReachedIs
  <2>. HIDE DEF F, k, D, Def
  <2>. QED
    BY <1>6, <1>9, <2>1 DEF LeastFixed
<1>10. c[k] \in SUBSET Nodes /\ ClosedUnderFields(c[k])
  BY <1>7
<1>. HIDE DEF c, k, F, K, Def, D
<1>. QED
  BY <1>4, <1>7, <1>8, <1>9, <1>10 DEF WeakClosure

\* What the property takes as reachable.
LEMMA ReachableIs ==
  ASSUME TypeOK, NEW T, roots \union Protected \union Variables(T) \in SUBSET Nodes
  PROVE  WeakClosure(roots \union Protected \union Variables(T), Reachable(T))
<1>. DEFINE first == roots \union Protected \union Variables(T)
            S == Closed(first)
<1>1. Reachable(T) = MarkedAfterWeak(S)
  BY DEF Reachable, MarkedAfterWeak, WithWeaklyReached, WeaklyReached
<1>2. /\ first \subseteq S /\ S \in SUBSET Nodes /\ ClosedUnderFields(S)
      /\ \A U : first \subseteq U /\ ClosedUnderFields(U) => S \subseteq U
  BY ClosedIs
<1>. HIDE DEF first, S
<1>3. WeakClosure(S, MarkedAfterWeak(S))
  BY <1>2, MarkedAfterWeakIs
<1>4. WeakClosure(first, MarkedAfterWeak(S))
  BY <1>2, <1>3 DEF WeakClosure
<1>. QED
  BY <1>1, <1>4 DEF first
-----------------------------------------------------------------------------
(* The inductive invariant.                                                *)

\* What a call of RunFinalizers protects.
Holds(r) == {r.key, r.fun, r.next} \ {Nil}

\* Whatever is in use has only references to what is in use, and so have the
\* application, the tasks and the list; what is not in use has none.
LiveInv ==
  /\ roots \subseteq live /\ Variables(tasks) \subseteq live
  /\ R_weak_refs \in live \union {Nil}
  /\ \A x \in live : Fields(x) \subseteq live
  /\ \A o \in Objs \ live : ref[o] = {}

\* RunFinalizers goes on, if not with what it has damaged.
InRun == pc \in {"run", "corrupt"}

\* A call of RunFinalizers that goes on has no finalizer under way.
RunsInv ==
  /\ \A i \in DOMAIN runs : Holds(runs[i]) \subseteq live
  /\ InRun => runs # << >> /\ Top.s \in live \union {Nil} /\ Top.fun = Nil

RanInv ==
  /\ ran \subseteq live
  /\ \A w \in ran : weak[w].fin = Nil

IInv == TypeOK /\ LiveInv /\ RunsInv /\ RanInv

\* Calling RunFinalizers, and returning from it.
LEMMA PushIs ==
  ASSUME NEW r \in Run, NEW q \in Seq(Run)
  PROVE  /\ << r >> \o q \in Seq(Run) /\ << r >> \o q # << >> /\ Head(<< r >> \o q) = r
         /\ Len(<< r >> \o q) = Len(q) + 1
         /\ (<< r >> \o q)[1] = r
         /\ \A i \in DOMAIN (<< r >> \o q) :
              i = 1 \/ (i - 1 \in DOMAIN q /\ (<< r >> \o q)[i] = q[i - 1])
<1>1. << r >> \in Seq(Run) /\ Len(<< r >>) = 1 /\ << r >>[1] = r
  OBVIOUS
<1>2. /\ << r >> \o q \in Seq(Run) /\ Len(<< r >> \o q) = Len(q) + 1 /\ Len(q) \in Nat
      /\ \A i \in 1..Len(q) + 1 : (<< r >> \o q)[i] = IF i <= 1 THEN << r >>[i] ELSE q[i - 1]
  BY <1>1
<1>3. DOMAIN (<< r >> \o q) = 1..Len(q) + 1 /\ DOMAIN q = 1..Len(q)
  BY <1>2
<1>4. (<< r >> \o q)[1] = r
  BY <1>1, <1>2
<1>5. << r >> \o q # << >> /\ Head(<< r >> \o q) = r
  BY <1>2, <1>4
<1>6. ASSUME NEW i \in 1..Len(q) + 1, i # 1
      PROVE  i - 1 \in DOMAIN q /\ (<< r >> \o q)[i] = q[i - 1]
  BY <1>2, <1>3, <1>6
<1>. QED
  BY <1>2, <1>3, <1>4, <1>5, <1>6

LEMMA PushedIs ==
  ASSUME NEW r \in Run, NEW q \in Seq(Run), NEW p, p = << r >> \o q
  PROVE  /\ p \in Seq(Run) /\ p # << >> /\ Head(p) = r
         /\ \A i \in DOMAIN p : p[i] = r \/ (i - 1 \in DOMAIN q /\ p[i] = q[i - 1])
<1>1. /\ << r >> \o q \in Seq(Run) /\ << r >> \o q # << >> /\ Head(<< r >> \o q) = r
      /\ (<< r >> \o q)[1] = r
      /\ \A i \in DOMAIN (<< r >> \o q) :
           i = 1 \/ (i - 1 \in DOMAIN q /\ (<< r >> \o q)[i] = q[i - 1])
  BY PushIs
<1>2. /\ p \in Seq(Run) /\ p # << >> /\ Head(p) = r /\ p[1] = r
      /\ \A i \in DOMAIN p : i = 1 \/ (i - 1 \in DOMAIN q /\ p[i] = q[i - 1])
  BY <1>1, Zenon
<1>. QED
  BY <1>2, Zenon

LEMMA PopIs ==
  ASSUME NEW q \in Seq(Run), q # << >>
  PROVE  /\ Tail(q) \in Seq(Run) /\ Head(q) \in Run /\ Head(q) = q[1] /\ 1 \in DOMAIN q
         /\ Len(Tail(q)) + 1 = Len(q)
         /\ \A i \in DOMAIN Tail(q) : i + 1 \in DOMAIN q /\ Tail(q)[i] = q[i + 1]
<1>1. Len(q) \in Nat /\ Len(q) # 0 /\ DOMAIN q = 1..Len(q)
  OBVIOUS
<1>2. /\ Tail(q) \in Seq(Run) /\ Len(Tail(q)) = Len(q) - 1
      /\ \A i \in 1..Len(q) - 1 : Tail(q)[i] = q[i + 1]
  OBVIOUS
<1>3. DOMAIN Tail(q) = 1..Len(q) - 1
  BY <1>1, <1>2
<1>. QED
  BY <1>1, <1>2, <1>3

LEMMA ProtectedIs == \A y : y \in Protected <=> \E i \in DOMAIN runs : y \in Holds(runs[i])
<1>. DEFINE Q == {{runs[i].key, runs[i].fun, runs[i].next} : i \in DOMAIN runs}
<1>1. \A y : y \in UNION Q <=>
               \E i \in DOMAIN runs : y \in {runs[i].key, runs[i].fun, runs[i].next}
  OBVIOUS
<1>2. Protected = (UNION Q) \ {Nil}
  BY DEF Protected
<1>. HIDE DEF Q
<1>. QED
  BY <1>1, <1>2 DEF Holds

LEMMA UsableIs == \A y : y \in Usable <=>
  y \in roots \/ \E i \in DOMAIN runs : y \in {runs[i].key, runs[i].fun} \ {Nil}
<1>. DEFINE Q == {{runs[i].key, runs[i].fun} : i \in DOMAIN runs}
<1>1. \A y : y \in UNION Q <=> \E i \in DOMAIN runs : y \in {runs[i].key, runs[i].fun}
  OBVIOUS
<1>2. Usable = roots \union ((UNION Q) \ {Nil})
  BY DEF Usable
<1>. HIDE DEF Q
<1>. QED
  BY <1>1, <1>2

\* A call of RunFinalizers has objects and weak references in its variables.
LEMMA RunIs ==
  ASSUME NEW r \in Run
  PROVE  /\ r.key \in Objs \union {Nil} /\ r.fun \in Objs \union {Nil}
         /\ {r.s, r.last, r.next} \subseteq Refs \union {Nil} /\ r.exit \in BOOLEAN
  BY DEF Run

LEMMA NewRunIs ==
  ASSUME NEW s \in Refs \union {Nil}, NEW exit \in BOOLEAN
  PROVE  /\ NewRun(s, exit) \in Run /\ Holds(NewRun(s, exit)) = {}
         /\ NewRun(s, exit).s = s /\ NewRun(s, exit).fun = Nil /\ NewRun(s, exit).exit = exit
  BY DEF NewRun, Run, Holds

\* What the application can come to use is in use.
LEMMA InUse ==
  ASSUME TypeOK, LiveInv, RunsInv
  PROVE  /\ Usable \subseteq live /\ Usable \subseteq Objs
         /\ Protected \subseteq live
         /\ Usable \subseteq roots \union Protected
<1>1. \A i \in DOMAIN runs : runs[i] \in Run
  BY DEF TypeOK
<1>2. Protected \subseteq live
  BY ProtectedIs DEF RunsInv, InRun
<1>3. Usable \subseteq Objs
  BY <1>1, UsableIs, RunIs DEF TypeOK
<1>4. Usable \subseteq roots \union Protected
  BY UsableIs, ProtectedIs DEF Holds
<1>. QED
  BY <1>2, <1>3, <1>4 DEF LiveInv

LEMMA InitOK == Init => IInv
<1>. SUFFICES ASSUME Init PROVE IInv
  OBVIOUS
<1>1. NoRef \in [key : Objs \union {Nil}, value : Objs \union {Nil},
                 fin : Objs \union {Nil}, next : Refs \union {Nil}]
  BY DEF NoRef
<1>2. TypeOK
  BY <1>1, ConstantsAssumption DEF Init, TypeOK
<1>3. LiveInv
  BY DEF Init, LiveInv, Variables
<1>4. RunsInv /\ RanInv
  BY DEF Init, RunsInv, InRun, RanInv
<1>. QED
  BY <1>2, <1>3, <1>4 DEF IInv
\* The calls of RunFinalizers go on as they were.
LEMMA RunsKept ==
  ASSUME RunsInv, live \subseteq live', runs' = runs, InRun' = InRun
  PROVE  RunsInv'
BY DEF RunsInv, InRun, Top

\* Nothing is freed, and the references stay as they are.
LEMMA LiveKept ==
  ASSUME LiveInv, live' = live, ref' = ref, weak' = weak, R_weak_refs' = R_weak_refs,
         roots' \subseteq live, Variables(tasks') \subseteq live
  PROVE  LiveInv'
<1>1. \A x : Fields(x)' = Fields(x)
  BY DEF Fields
<1>2. Variables(tasks)' = Variables(tasks')
  OBVIOUS
<1>. QED
  BY <1>1, <1>2 DEF LiveInv

LEMMA AllocateKeeps ==
  ASSUME IInv, Allocate
  PROVE  IInv'
<1>1. PICK o \in Objs \ live : live' = live \union {o} /\ roots' = roots \union {o}
  BY DEF Allocate
<1>2. /\ UNCHANGED <<gen, ref, weak, ready, on_exit, R_weak_refs, tasks, runs, ran, pc>>
      /\ TypeOK /\ LiveInv /\ RunsInv /\ RanInv
  BY DEF Allocate, refs, IInv
<1>3. TypeOK'
  BY <1>1, <1>2 DEF TypeOK, Nodes
<1>4. LiveInv'
  <2>1. \A x : Fields(x)' = Fields(x)
    BY <1>2 DEF Fields
  <2>2. Fields(o) = {}
    BY <1>2 DEF LiveInv, Fields
  <2>3. Variables(tasks)' = Variables(tasks)
    BY <1>2
  <2>. QED
    BY <1>1, <1>2, <2>1, <2>2, <2>3 DEF LiveInv
<1>5. RunsInv'
  BY <1>1, <1>2, RunsKept DEF InRun
<1>6. RanInv'
  BY <1>1, <1>2 DEF RanInv
<1>. QED
  BY <1>3, <1>4, <1>5, <1>6 DEF IInv

LEMMA SetRefKeeps ==
  ASSUME IInv, SetRef
  PROVE  IInv'
<1>1. PICK o \in Usable, to \in {{}} \union {{x} : x \in Usable} : ref' = [ref EXCEPT ![o] = to]
  BY DEF SetRef
<1>2. /\ UNCHANGED <<live, gen, weak, ready, on_exit, R_weak_refs, roots, tasks, runs, ran, pc>>
      /\ TypeOK /\ LiveInv /\ RunsInv /\ RanInv
  BY DEF SetRef, refs, IInv
<1>3. o \in live /\ o \in Objs /\ to \subseteq live /\ to \subseteq Objs
  BY <1>2, InUse
<1>4. TypeOK'
  BY <1>1, <1>2, <1>3 DEF TypeOK
<1>5. LiveInv'
  <2>1. \A x \in Nodes : Fields(x)' = Fields(x) \/ (x = o /\ Fields(x)' = to)
    BY <1>1, <1>2, <1>3 DEF Fields, TypeOK
  <2>2. \A x \in live : Fields(x)' \subseteq live
    BY <1>2, <1>3, <2>1 DEF LiveInv, TypeOK
  <2>3. \A p \in Objs \ live : ref'[p] = {}
    BY <1>1, <1>2, <1>3 DEF LiveInv, TypeOK
  <2>4. Variables(tasks)' = Variables(tasks)
    BY <1>2
  <2>. QED
    BY <1>2, <2>2, <2>3, <2>4 DEF LiveInv
<1>6. RunsInv'
  BY <1>2, RunsKept DEF InRun
<1>7. RanInv'
  BY <1>2 DEF RanInv
<1>. QED
  BY <1>4, <1>5, <1>6, <1>7 DEF IInv

LEMMA HoldKeeps ==
  ASSUME IInv, Hold
  PROVE  IInv'
<1>1. /\ UNCHANGED <<live, gen, ref, weak, ready, on_exit, R_weak_refs, tasks, runs, ran, pc>>
      /\ TypeOK /\ LiveInv /\ RunsInv /\ RanInv
  BY DEF Hold, heap, refs, IInv
<1>2. roots' \subseteq live /\ roots' \subseteq Objs
  <2>1. ASSUME NEW x \in Usable \union UNION {ref[o] : o \in Usable}
        PROVE  x \in live /\ x \in Objs
    <3>1. CASE x \in Usable
      BY <1>1, <3>1, InUse
    <3>2. CASE x \notin Usable
      <4>1. PICK o \in Usable : x \in ref[o]
        BY <2>1, <3>2
      <4>2. o \in live /\ o \in Objs
        BY <1>1, InUse
      <4>. QED
        BY <1>1, <4>1, <4>2 DEF LiveInv, Fields, TypeOK
    <3>. QED
      BY <3>1, <3>2
  <2>2. roots \subseteq live /\ roots \subseteq Objs
    BY <1>1 DEF LiveInv, TypeOK
  <2>3. CASE \E x \in Usable \union UNION {ref[o] : o \in Usable} : roots' = roots \union {x}
    BY <2>1, <2>2, <2>3
  <2>4. CASE \E x \in roots : roots' = roots \ {x}
    BY <2>2, <2>4
  <2>. QED
    BY <2>3, <2>4 DEF Hold
<1>3. TypeOK'
  BY <1>1, <1>2 DEF TypeOK
<1>4. LiveInv'
  BY <1>1, <1>2, LiveKept DEF LiveInv
<1>5. RunsInv'
  BY <1>1, RunsKept DEF InRun
<1>6. RanInv'
  BY <1>1 DEF RanInv
<1>. QED
  BY <1>3, <1>4, <1>5, <1>6 DEF IInv

LEMMA NewWeakRefKeeps ==
  ASSUME IInv, NewWeakRef
  PROVE  IInv'
<1>1. PICK w \in Refs \ live, key \in Usable, val \in Usable \union {Nil},
           fin \in Usable \union {Nil} :
        /\ live' = live \union {w} /\ R_weak_refs' = w
        /\ weak' = [weak EXCEPT ![w] =
                      [key |-> key, value |-> val, fin |-> fin, next |-> R_weak_refs]]
        /\ on_exit' \in {on_exit, on_exit \union {w}}
  BY DEF NewWeakRef
<1>2. /\ UNCHANGED <<gen, ref, ready, roots, tasks, runs, ran, pc>>
      /\ TypeOK /\ LiveInv /\ RunsInv /\ RanInv
  BY DEF NewWeakRef, IInv
<1>3. /\ {key, val, fin} \subseteq live \union {Nil}
      /\ {key, val, fin} \subseteq Objs \union {Nil}
      /\ R_weak_refs \in live \union {Nil} /\ R_weak_refs \in Refs \union {Nil}
  BY <1>2, InUse DEF LiveInv, TypeOK
<1>4. TypeOK'
  BY <1>1, <1>2, <1>3 DEF TypeOK, Nodes
<1>5. LiveInv'
  <2>1. \A x \in Nodes \ {w} : Fields(x)' = Fields(x)
    BY <1>1, <1>2 DEF Fields, TypeOK, Nodes
  <2>2. Fields(w)' \subseteq live
    <3>1. w \notin Objs
      BY ConstantsAssumption
    <3>2. weak'[w] = [key |-> key, value |-> val, fin |-> fin, next |-> R_weak_refs]
      BY <1>1, <1>2 DEF TypeOK
    <3>. QED
      BY <1>3, <3>1, <3>2 DEF Fields
  <2>3. \A x \in live' : Fields(x)' \subseteq live'
    BY <1>1, <1>2, <2>1, <2>2 DEF LiveInv, TypeOK
  <2>4. Variables(tasks)' = Variables(tasks)
    BY <1>2
  <2>. QED
    BY <1>1, <1>2, <2>3, <2>4 DEF LiveInv
<1>6. RunsInv'
  BY <1>1, <1>2, RunsKept DEF InRun
<1>7. RanInv'
  BY <1>1, <1>2 DEF RanInv, TypeOK
<1>. QED
  BY <1>4, <1>5, <1>6, <1>7 DEF IInv

\* The variables of some of the tasks.
LEMMA VariablesIs ==
  ASSUME NEW S, NEW T, S \subseteq T
  PROVE  Variables(S) \subseteq Variables(T)
BY DEF Variables

LEMMA ScheduleTaskKeeps ==
  ASSUME IInv, ScheduleTask
  PROVE  IInv'
<1>1. PICK out \in Usable, in \in Usable : tasks' = tasks \union {[out |-> out, in |-> in]}
  BY DEF ScheduleTask
<1>2. /\ UNCHANGED <<live, gen, ref, weak, ready, on_exit, R_weak_refs, roots, runs, ran, pc>>
      /\ TypeOK /\ LiveInv /\ RunsInv /\ RanInv
  BY DEF ScheduleTask, heap, refs, IInv
<1>3. {out, in} \subseteq live /\ {out, in} \subseteq Objs
  BY <1>2, InUse
<1>4. TypeOK'
  BY <1>1, <1>2, <1>3 DEF TypeOK, Tasks
<1>5. LiveInv'
  <2>1. \A S, y : y \in Variables(S) <=> \E t \in S : y \in {t.out, t.in}
    BY DEF Variables
  <2>2. \A t \in tasks' : t \in tasks \/ {t.out, t.in} = {out, in}
    BY <1>1
  <2>3. Variables(tasks') \subseteq Variables(tasks) \union {out, in}
    BY <2>1, <2>2
  <2>. QED
    BY <1>2, <1>3, <2>3, LiveKept DEF LiveInv
<1>6. RunsInv'
  BY <1>2, RunsKept DEF InRun
<1>7. RanInv'
  BY <1>2 DEF RanInv
<1>. QED
  BY <1>4, <1>5, <1>6, <1>7 DEF IInv

LEMMA TaskCompletedKeeps ==
  ASSUME IInv, TaskCompleted
  PROVE  IInv'
<1>1. tasks' \subseteq tasks
  BY DEF TaskCompleted
<1>2. /\ UNCHANGED <<live, gen, ref, weak, ready, on_exit, R_weak_refs, roots, runs, ran, pc>>
      /\ TypeOK /\ LiveInv /\ RunsInv /\ RanInv
  BY DEF TaskCompleted, heap, refs, IInv
<1>3. TypeOK'
  BY <1>1, <1>2 DEF TypeOK
<1>4. LiveInv'
  <2>1. Variables(tasks') \subseteq live
    BY <1>1, <1>2, VariablesIs DEF LiveInv
  <2>. QED
    BY <1>2, <2>1, LiveKept DEF LiveInv
<1>5. RunsInv'
  BY <1>2, RunsKept DEF InRun
<1>6. RanInv'
  BY <1>2 DEF RanInv
<1>. QED
  BY <1>3, <1>4, <1>5, <1>6 DEF IInv
-----------------------------------------------------------------------------
(* A collection.                                                           *)

\* What has been marked before CheckFinalizers, and in the end.
Reached(level, left) == MarkedAfterWeak(Closed(MarkedAtFirst(level) \union LookAtTasks(left)))
Marked(level, left) == Closed(Reached(level, left) \union LookAtList)

LEMMA VariablesAre ==
  ASSUME TypeOK
  PROVE  Variables(tasks) \subseteq Objs
<1>1. \A t \in tasks : t.out \in Objs /\ t.in \in Objs
  BY DEF TypeOK, Tasks
<1>. QED
  BY <1>1 DEF Variables

LEMMA MarkedAtFirstIs ==
  ASSUME TypeOK, LiveInv, RunsInv, NEW level
  PROVE  /\ MarkedAtFirst(level) \in SUBSET Nodes
         /\ {x \in live : gen[x] > level} \union roots \union Protected
              \subseteq MarkedAtFirst(level)
         /\ \A T : /\ {x \in live : gen[x] > level} \union roots \union Protected \subseteq T
                   /\ ClosedUnderFields(T)
              => MarkedAtFirst(level) \subseteq T
<1>. DEFINE S == {x \in live : gen[x] > level} \union roots \union Protected
<1>1. S \in SUBSET Nodes
  BY InUse DEF LiveInv, TypeOK
<1>2. MarkedAtFirst(level) = Closed(S)
  BY DEF MarkedAtFirst
<1>. HIDE DEF S
<1>3. /\ S \subseteq Closed(S) /\ Closed(S) \in SUBSET Nodes
      /\ \A T : S \subseteq T /\ ClosedUnderFields(T) => Closed(S) \subseteq T
  BY <1>1, ClosedIs
<1>. QED
  BY <1>2, <1>3 DEF S

LEMMA ReachedIs ==
  ASSUME TypeOK, LiveInv, RunsInv, NEW level, NEW left \in SUBSET tasks
  PROVE  /\ Reached(level, left) \in SUBSET Nodes
         /\ ClosedUnderFields(Reached(level, left)) /\ WeaklyClosed(Reached(level, left))
         /\ roots \union Protected \union Variables(left) \subseteq Reached(level, left)
         /\ \A T : /\ MarkedAtFirst(level) \union Variables(left) \subseteq T
                   /\ ClosedUnderFields(T) /\ WeaklyClosed(T)
              => Reached(level, left) \subseteq T
<1>. DEFINE S == MarkedAtFirst(level) \union Variables(left)
<1>1. Variables(left) \subseteq Objs
  BY VariablesIs, VariablesAre
<1>2. S \in SUBSET Nodes /\ roots \union Protected \union Variables(left) \subseteq S
  BY <1>1, MarkedAtFirstIs DEF Nodes
<1>3. Reached(level, left) = MarkedAfterWeak(Closed(S))
  BY DEF Reached, LookAtTasks
<1>. HIDE DEF S
<1>4. /\ S \subseteq Closed(S) /\ Closed(S) \in SUBSET Nodes /\ ClosedUnderFields(Closed(S))
      /\ \A T : S \subseteq T /\ ClosedUnderFields(T) => Closed(S) \subseteq T
  BY <1>2, ClosedIs
<1>5. WeakClosure(Closed(S), MarkedAfterWeak(Closed(S)))
  BY <1>4, MarkedAfterWeakIs
<1>6. WeakClosure(Closed(S), Reached(level, left))
  BY <1>3, <1>5
<1>7. ASSUME NEW T, S \subseteq T, ClosedUnderFields(T), WeaklyClosed(T)
      PROVE  Reached(level, left) \subseteq T
  BY <1>4, <1>6, <1>7 DEF WeakClosure
<1>8. /\ Reached(level, left) \in SUBSET Nodes /\ S \subseteq Reached(level, left)
      /\ ClosedUnderFields(Reached(level, left)) /\ WeaklyClosed(Reached(level, left))
  BY <1>4, <1>6 DEF WeakClosure
<1>. QED
  BY <1>2, <1>7, <1>8 DEF S

LEMMA MarkedIs ==
  ASSUME TypeOK, LiveInv, RunsInv, NEW level, NEW left \in SUBSET tasks
  PROVE  /\ ClosedUnderFields(Marked(level, left))
         /\ Reached(level, left) \subseteq Marked(level, left)
         /\ Listed \subseteq Marked(level, left)
<1>1. Listed \in SUBSET Nodes /\ Listed \subseteq LookAtList
  BY ListedIs DEF LookAtList, Nodes
<1>2. LookAtList \in SUBSET Nodes
  <2>1. \A w \in Listed : Fields(w) \subseteq Nodes
    BY <1>1, FieldsAre
  <2>. QED
    BY <1>1, <2>1 DEF LookAtList
<1>3. Reached(level, left) \union LookAtList \in SUBSET Nodes
  BY <1>2, ReachedIs
<1>. QED
  BY <1>1, <1>3, ClosedIs DEF Marked

LEMMA CollectIs ==
  ASSUME NEW level, Collect(level)
  PROVE  /\ \E left \in SUBSET tasks :
              /\ tasks' = left /\ live' = live \intersect Marked(level, left)
              /\ ready' = (ready \union CheckFinalizers(Reached(level, left)))
                            \intersect Marked(level, left)
         /\ runs' = << NewRun(R_weak_refs, FALSE) >> \o runs /\ pc' = "run" /\ pc = "app"
         /\ gen' = [x \in Nodes |-> IF x \notin live' THEN 0
                                    ELSE IF gen[x] <= level THEN Older(gen[x]) ELSE gen[x]]
         /\ ref' = [o \in Objs |-> IF o \in live' THEN ref[o] ELSE {}]
         /\ weak' = [w \in Refs |-> IF w \in live' THEN weak[w] ELSE NoRef]
         /\ on_exit' = on_exit \intersect live' /\ ran' = ran \intersect live'
         /\ R_weak_refs' = R_weak_refs /\ roots' = roots
<1>1. \E left \in SUBSET {t \in tasks : ~WaitedFor(t, level, MarkedAtFirst(level))} :
        /\ tasks' = left /\ live' = live \intersect Marked(level, left)
        /\ ready' = (ready \union CheckFinalizers(Reached(level, left)))
                      \intersect Marked(level, left)
  BY DEF Collect, Marked, Reached
<1>. QED
  BY <1>1 DEF Collect, FirstToVisit

LEMMA CollectKeeps ==
  ASSUME IInv, NEW level \in 0..Oldest, Collect(level)
  PROVE  IInv'
<1>1. TypeOK /\ LiveInv /\ RunsInv /\ RanInv
  BY DEF IInv
<1>2. PICK left \in SUBSET tasks :
        /\ tasks' = left /\ live' = live \intersect Marked(level, left)
        /\ ready' = (ready \union CheckFinalizers(Reached(level, left)))
                      \intersect Marked(level, left)
  BY CollectIs
<1>3. /\ runs' = << NewRun(R_weak_refs, FALSE) >> \o runs /\ pc' = "run"
      /\ gen' = [x \in Nodes |-> IF x \notin live' THEN 0
                                 ELSE IF gen[x] <= level THEN Older(gen[x]) ELSE gen[x]]
      /\ ref' = [o \in Objs |-> IF o \in live' THEN ref[o] ELSE {}]
      /\ weak' = [w \in Refs |-> IF w \in live' THEN weak[w] ELSE NoRef]
      /\ on_exit' = on_exit \intersect live' /\ ran' = ran \intersect live'
      /\ R_weak_refs' = R_weak_refs /\ roots' = roots
  BY CollectIs
<1>4. /\ NewRun(R_weak_refs, FALSE) \in Run /\ Holds(NewRun(R_weak_refs, FALSE)) = {}
      /\ NewRun(R_weak_refs, FALSE).s = R_weak_refs /\ NewRun(R_weak_refs, FALSE).fun = Nil
  BY <1>1, NewRunIs DEF TypeOK
<1>5. /\ runs' \in Seq(Run) /\ runs' # << >> /\ Head(runs') = NewRun(R_weak_refs, FALSE)
      /\ \A i \in DOMAIN runs' : \/ runs'[i] = NewRun(R_weak_refs, FALSE)
                                 \/ i - 1 \in DOMAIN runs /\ runs'[i] = runs[i - 1]
  <2>1. runs \in Seq(Run)
    BY <1>1 DEF TypeOK
  <2>2. PICK r : r = NewRun(R_weak_refs, FALSE)
    OBVIOUS
  <2>3. r \in Run /\ runs' = << r >> \o runs
    BY <1>3, <1>4, <2>2
  <2>4. /\ runs' \in Seq(Run) /\ runs' # << >> /\ Head(runs') = r
        /\ \A i \in DOMAIN runs' : runs'[i] = r \/ (i - 1 \in DOMAIN runs /\ runs'[i] = runs[i - 1])
    BY <2>1, <2>3, PushedIs
  <2>. QED
    BY <2>2, <2>4, Zenon
<1>6. /\ roots \union Protected \union Variables(left) \subseteq Reached(level, left)
      /\ Reached(level, left) \subseteq Marked(level, left)
      /\ Listed \subseteq Marked(level, left) /\ ClosedUnderFields(Marked(level, left))
  BY <1>1, ReachedIs, MarkedIs
<1>7. TypeOK'
  <2>1. \A x \in Nodes : Older(gen[x]) \in 0..Oldest /\ gen[x] \in 0..Oldest
    BY <1>1, ConstantsAssumption DEF Older, TypeOK
  <2>2. gen' \in [Nodes -> 0..Oldest]
    BY <1>3, <2>1, ConstantsAssumption
  <2>3. ref' \in [Objs -> SUBSET Objs]
    BY <1>1, <1>3 DEF TypeOK
  <2>4. weak' \in [Refs -> [key : Objs \union {Nil}, value : Objs \union {Nil},
                            fin : Objs \union {Nil}, next : Refs \union {Nil}]]
    BY <1>1, <1>3 DEF TypeOK, NoRef
  <2>5. ready' \subseteq Refs
    BY <1>1, <1>2, ListedIs DEF TypeOK, CheckFinalizers
  <2>6. /\ live' \subseteq Nodes /\ on_exit' \subseteq Refs /\ ran' \subseteq Refs
        /\ tasks' \subseteq Tasks
    BY <1>1, <1>2, <1>3 DEF TypeOK
  <2>. QED
    BY <1>1, <1>3, <1>5, <2>2, <2>3, <2>4, <2>5, <2>6 DEF TypeOK
<1>8. LiveInv'
  <2>1. roots' \subseteq live'
    BY <1>1, <1>2, <1>3, <1>6 DEF LiveInv
  <2>2. Variables(tasks)' \subseteq live'
    <3>1. Variables(tasks)' = Variables(left)
      BY <1>2
    <3>2. Variables(left) \subseteq live
      BY <1>1, VariablesIs DEF LiveInv
    <3>. QED
      BY <1>2, <1>6, <3>1, <3>2
  <2>3. R_weak_refs' \in live' \union {Nil}
    <3>1. {R_weak_refs} \ {Nil} \subseteq Listed
      BY <1>1, ListedIs
    <3>. QED
      BY <1>1, <1>2, <1>3, <1>6, <3>1 DEF LiveInv
  <2>4. ASSUME NEW x \in live'
        PROVE  Fields(x)' \subseteq live'
    <3>1. x \in live /\ x \in Marked(level, left) /\ x \in Nodes
      BY <1>1, <1>2 DEF TypeOK
    <3>2. Fields(x) \subseteq live /\ Fields(x) \subseteq Marked(level, left)
      BY <1>1, <1>6, <3>1 DEF LiveInv, ClosedUnderFields
    <3>3. Fields(x)' = Fields(x)
      BY <1>3, <3>1 DEF Fields, Nodes
    <3>. QED
      BY <1>2, <3>2, <3>3
  <2>5. \A o \in Objs \ live' : ref'[o] = {}
    BY <1>3
  <2>. QED
    BY <2>1, <2>2, <2>3, <2>4, <2>5 DEF LiveInv
<1>9. RunsInv'
  <2>1. Protected \subseteq live'
    BY <1>1, <1>2, <1>6, InUse
  <2>2. \A i \in DOMAIN runs' : Holds(runs'[i]) \subseteq live'
    BY <1>4, <1>5, <2>1, ProtectedIs
  <2>3. R_weak_refs \in live' \union {Nil}
    BY <1>3, <1>8 DEF LiveInv
  <2>. QED
    BY <1>4, <1>5, <2>2, <2>3 DEF RunsInv, InRun, Top
<1>10. RanInv'
  <2>1. ran' \subseteq live' /\ \A w \in ran' : w \in ran /\ w \in Refs /\ w \in live'
    BY <1>1, <1>3 DEF TypeOK
  <2>. QED
    BY <1>1, <1>3, <2>1 DEF RanInv
<1>. QED
  BY <1>7, <1>8, <1>9, <1>10 DEF IInv
-----------------------------------------------------------------------------
(* RunFinalizers.                                                          *)

\* The last call of RunFinalizers goes on as r, the others stay as they are.
LEMMA TopIs ==
  ASSUME NEW q \in Seq(Run), q # << >>, NEW r \in Run
  PROVE  /\ << r >> \o Tail(q) \in Seq(Run) /\ << r >> \o Tail(q) # << >>
         /\ Head(<< r >> \o Tail(q)) = r /\ Len(<< r >> \o Tail(q)) = Len(q)
         /\ (<< r >> \o Tail(q))[1] = r
         /\ \A i \in DOMAIN (<< r >> \o Tail(q)) :
              i = 1 \/ (i \in DOMAIN q /\ (<< r >> \o Tail(q))[i] = q[i])
<1>1. /\ Tail(q) \in Seq(Run) /\ Len(Tail(q)) + 1 = Len(q)
      /\ \A i \in DOMAIN Tail(q) : i + 1 \in DOMAIN q /\ Tail(q)[i] = q[i + 1]
  BY PopIs
<1>. DEFINE t == Tail(q)
<1>. HIDE DEF t
<1>2. /\ << r >> \o t \in Seq(Run) /\ << r >> \o t # << >> /\ Head(<< r >> \o t) = r
      /\ Len(<< r >> \o t) = Len(t) + 1 /\ (<< r >> \o t)[1] = r
      /\ \A i \in DOMAIN (<< r >> \o t) :
           i = 1 \/ (i - 1 \in DOMAIN t /\ (<< r >> \o t)[i] = t[i - 1])
  BY <1>1, PushIs DEF t
<1>3. \A i \in DOMAIN (<< r >> \o t) : i \in Nat
  BY <1>2
<1>4. \A i \in DOMAIN (<< r >> \o t) : i - 1 \in DOMAIN t => i \in DOMAIN q /\ t[i - 1] = q[i]
  <2>1. \A i \in Nat : (i - 1) + 1 = i
    OBVIOUS
  <2>. QED
    BY <1>1, <1>3, <2>1 DEF t
<1>. QED
  BY <1>1, <1>2, <1>4 DEF t

LEMMA SkipKeeps ==
  ASSUME IInv, Skip
  PROVE  IInv'
<1>1. /\ UNCHANGED <<live, gen, ref, weak, ready, on_exit, R_weak_refs, roots, tasks, ran, pc>>
      /\ TypeOK /\ LiveInv /\ RunsInv /\ RanInv
      /\ pc = "run" /\ Top.s # Nil
  BY DEF Skip, heap, refs, IInv
<1>. DEFINE r == [Top EXCEPT !.last = Top.s, !.s = weak[Top.s].next]
<1>2. runs \in Seq(Run) /\ runs # << >> /\ Top \in Run /\ Top = runs[1] /\ 1 \in DOMAIN runs
      /\ Top.s \in live /\ Top.s \in Refs
  <2>1. runs \in Seq(Run) /\ runs # << >>
    BY <1>1 DEF RunsInv, InRun, TypeOK
  <2>2. Top \in Run /\ Top = runs[1] /\ 1 \in DOMAIN runs
    BY <2>1, PopIs DEF Top
  <2>. QED
    BY <1>1, <2>1, <2>2, RunIs DEF RunsInv, InRun
<1>3. weak[Top.s].next \in Refs \union {Nil}
  BY <1>1, <1>2, WeakIs
<1>4. r \in Run /\ Holds(r) = Holds(Top) /\ r.s = weak[Top.s].next /\ r.fun = Top.fun
  BY <1>2, <1>3 DEF Run, Holds
<1>5. runs' = << r >> \o Tail(runs)
  BY DEF Skip
<1>. HIDE DEF r
<1>6. /\ runs' \in Seq(Run) /\ runs' # << >> /\ Head(runs') = r
      /\ \A i \in DOMAIN runs' : runs'[i] = r \/ (i \in DOMAIN runs /\ runs'[i] = runs[i])
  BY <1>2, <1>4, <1>5, TopIs
<1>7. TypeOK'
  BY <1>1, <1>6 DEF TypeOK
<1>8. LiveInv'
  BY <1>1, LiveKept DEF LiveInv
<1>9. RunsInv'
  <2>1. \A i \in DOMAIN runs' : Holds(runs'[i]) \subseteq live
    BY <1>1, <1>2, <1>4, <1>6 DEF RunsInv, InRun
  <2>2. weak[Top.s].next \in live \union {Nil}
    <3>1. Top.s \notin Objs
      BY <1>2, ConstantsAssumption
    <3>. QED
      BY <1>1, <1>2, <3>1 DEF LiveInv, Fields
  <2>. QED
    BY <1>1, <1>4, <1>6, <2>1, <2>2 DEF RunsInv, InRun, Top
<1>10. RanInv'
  BY <1>1 DEF RanInv
<1>. QED
  BY <1>7, <1>8, <1>9, <1>10 DEF IInv

\* What is left of an entry that is taken out has the fields cleared.
LEMMA UnlinkIs ==
  ASSUME TypeOK, LiveInv, NEW s, NEW last, s = Top.s, last = Top.last,
         s \in Refs, s \in live, last \in Refs \union {Nil}, Unlink
  PROVE  /\ weak' \in [Refs -> [key : Objs \union {Nil}, value : Objs \union {Nil},
                                fin : Objs \union {Nil}, next : Refs \union {Nil}]]
         /\ R_weak_refs' \in Refs \union {Nil} /\ R_weak_refs' \in live \union {Nil}
         /\ weak'[s].fin = Nil /\ \A w \in Refs \ {s} : weak'[w].fin = weak[w].fin
         /\ \A w \in Refs : {weak'[w].key, weak'[w].value, weak'[w].fin, weak'[w].next} \subseteq
              {weak[w].key, weak[w].value, weak[w].fin, weak[w].next} \union live \union {Nil}
<1>. DEFINE next == weak[s].next
            cleared == [weak EXCEPT ![s] = AfterRun(s)]
            Types == [key : Objs \union {Nil}, value : Objs \union {Nil},
                      fin : Objs \union {Nil}, next : Refs \union {Nil}]
<1>1. weak \in [Refs -> Types] /\ next \in Refs \union {Nil}
  BY WeakIs DEF TypeOK
<1>2. next \in live \union {Nil}
  <2>1. s \notin Objs
    BY ConstantsAssumption
  <2>. QED
    BY <2>1 DEF LiveInv, Fields
<1>3. AfterRun(s) = [key |-> Nil, value |-> Nil, fin |-> Nil, next |-> next]
  BY DEF AfterRun, NoRef
<1>4. AfterRun(s) \in Types
  BY <1>1, <1>3
<1>. HIDE DEF next
<1>5. cleared \in [Refs -> Types] /\ cleared[s] = AfterRun(s)
      /\ \A w \in Refs \ {s} : cleared[w] = weak[w]
  BY <1>1, <1>4
<1>6. /\ cleared[s].fin = Nil /\ \A w \in Refs \ {s} : cleared[w].fin = weak[w].fin
      /\ \A w \in Refs : {cleared[w].key, cleared[w].value, cleared[w].fin, cleared[w].next}
           \subseteq {weak[w].key, weak[w].value, weak[w].fin, weak[w].next} \union live \union {Nil}
  BY <1>2, <1>3, <1>5
<1>7. CASE last = Nil
  <2>1. R_weak_refs' = next /\ weak' = cleared
    BY <1>7 DEF Unlink, next
  <2>. HIDE DEF cleared
  <2>. QED
    BY <1>1, <1>2, <1>5, <1>6, <2>1
<1>8. CASE last # Nil
  <2>1. weak' = [cleared EXCEPT ![last].next = next] /\ R_weak_refs' = R_weak_refs
    BY <1>8 DEF Unlink, next
  <2>2. last \in Refs
    BY <1>8
  <2>. HIDE DEF cleared
  <2>3. weak'[last] = [cleared[last] EXCEPT !.next = next] /\ cleared[last] \in Types
        /\ \A w \in Refs \ {last} : weak'[w] = cleared[w]
    BY <1>5, <2>1, <2>2
  <2>4. /\ weak'[last].key = cleared[last].key /\ weak'[last].value = cleared[last].value
        /\ weak'[last].fin = cleared[last].fin /\ weak'[last].next = next
        /\ weak'[last] \in Types
    BY <1>1, <2>3
  <2>5. weak' \in [Refs -> Types]
    BY <1>5, <2>1, <2>3, <2>4
  <2>6. \A w \in Refs : weak'[w].fin = cleared[w].fin
    BY <2>3, <2>4
  <2>7. \A w \in Refs : {weak'[w].key, weak'[w].value, weak'[w].fin, weak'[w].next} \subseteq
           {weak[w].key, weak[w].value, weak[w].fin, weak[w].next} \union live \union {Nil}
    BY <1>2, <1>6, <2>3, <2>4
  <2>8. R_weak_refs' \in Refs \union {Nil} /\ R_weak_refs' \in live \union {Nil}
    BY <2>1 DEF TypeOK, LiveInv
  <2>. QED
    BY <1>6, <2>5, <2>6, <2>7, <2>8
<1>. QED
  BY <1>7, <1>8
\* A call of RunFinalizers that goes on is at an entry in use, or at the end.
LEMMA TopRuns ==
  ASSUME TypeOK, RunsInv, runs # << >>
  PROVE  /\ runs \in Seq(Run) /\ Top \in Run /\ Top = runs[1] /\ 1 \in DOMAIN runs
         /\ Holds(Top) \subseteq live
<1>1. runs \in Seq(Run)
  BY DEF TypeOK
<1>2. Top \in Run /\ Top = runs[1] /\ 1 \in DOMAIN runs
  BY <1>1, PopIs DEF Top
<1>. QED
  BY <1>1, <1>2 DEF RunsInv, InRun

LEMMA RunFinalizerIs ==
  ASSUME IInv, RunFinalizer
  PROVE  /\ pc = "run" /\ runs # << >> /\ Top.fun = Nil /\ Top.s \in live /\ Top.s \in Refs
         /\ \E r \in Run :
              /\ runs' = << r >> \o Tail(runs)
              /\ Holds(r) \subseteq live /\ r.last = Top.last
              /\ \/ /\ weak[Top.s].fin = Nil /\ r.fun = Nil /\ ran' = ran /\ pc' = "run"
                    /\ r.s \in live \union {Nil} /\ r.s = weak[Top.s].next
                 \/ /\ weak[Top.s].fin # Nil /\ r.s = Top.s /\ ran' = ran \union {Top.s}
                    /\ pc' = "app" /\ r.next = weak[Top.s].next
<1>1. TypeOK /\ LiveInv /\ RunsInv /\ RanInv /\ pc = "run" /\ Top.s # Nil
  BY DEF RunFinalizer, IInv
<1>2. runs # << >> /\ Top.fun = Nil /\ Top.s \in live
  BY <1>1 DEF RunsInv, InRun
<1>3. Top \in Run /\ Holds(Top) \subseteq live
  BY <1>1, <1>2, TopRuns
<1>4. Top.s \in Refs
  BY <1>1, <1>3, RunIs
<1>. DEFINE w == weak[Top.s]
<1>5. /\ w.key \in Objs \union {Nil} /\ w.fin \in Objs \union {Nil} /\ w.next \in Refs \union {Nil}
      /\ {w.key, w.fin, w.next} \subseteq live \union {Nil}
  <2>1. Top.s \notin Objs
    BY <1>4, ConstantsAssumption
  <2>2. Fields(Top.s) \subseteq live
    BY <1>1, <1>2 DEF LiveInv
  <2>. QED
    BY <1>1, <1>4, <2>1, <2>2, WeakIs DEF Fields
<1>6. CASE w.fin = Nil
  <2>. DEFINE r == [Top EXCEPT !.s = w.next]
  <2>1. runs' = << r >> \o Tail(runs) /\ ran' = ran /\ pc' = "run"
    BY <1>1, <1>6 DEF RunFinalizer
  <2>. HIDE DEF w
  <2>2. /\ r \in Run /\ Holds(r) = Holds(Top) /\ r.fun = Top.fun /\ r.s = w.next
        /\ r.last = Top.last
    BY <1>3, <1>5 DEF Run, Holds
  <2>3. Holds(r) \subseteq live /\ r.fun = Nil /\ r.s \in live \union {Nil}
    BY <1>2, <1>3, <1>5, <2>2
  <2>. HIDE DEF r
  <2>. QED
    BY <1>1, <1>2, <1>4, <1>6, <2>1, <2>2, <2>3 DEF w
<1>7. CASE w.fin # Nil
  <2>. DEFINE r == [Top EXCEPT !.next = w.next, !.key = w.key, !.fun = w.fin]
  <2>1. runs' = << r >> \o Tail(runs) /\ ran' = ran \union {Top.s} /\ pc' = "app"
    BY <1>7 DEF RunFinalizer
  <2>. HIDE DEF w
  <2>2. /\ r \in Run /\ Holds(r) = {w.key, w.fin, w.next} \ {Nil} /\ r.s = Top.s
        /\ r.next = w.next /\ r.last = Top.last
    BY <1>3, <1>5 DEF Run, Holds
  <2>3. Holds(r) \subseteq live
    BY <1>5, <2>2
  <2>. HIDE DEF r
  <2>. QED
    BY <1>1, <1>2, <1>4, <1>7, <2>1, <2>2, <2>3 DEF w
<1>. QED
  BY <1>6, <1>7

LEMMA RunFinalizerKeeps ==
  ASSUME IInv, RunFinalizer
  PROVE  IInv'
<1>1. /\ UNCHANGED <<live, gen, ref, ready, on_exit, roots, tasks>>
      /\ TypeOK /\ LiveInv /\ RunsInv /\ RanInv /\ Unlink
  BY DEF RunFinalizer, heap, IInv
<1>2. pc = "run" /\ runs # << >> /\ Top.s \in live /\ Top.s \in Refs
  BY RunFinalizerIs
<1>3. PICK r \in Run :
        /\ runs' = << r >> \o Tail(runs) /\ Holds(r) \subseteq live
        /\ \/ /\ weak[Top.s].fin = Nil /\ r.fun = Nil /\ ran' = ran /\ pc' = "run"
              /\ r.s \in live \union {Nil}
           \/ /\ weak[Top.s].fin # Nil /\ r.s = Top.s /\ ran' = ran \union {Top.s}
              /\ pc' = "app"
  BY RunFinalizerIs
<1>4. runs \in Seq(Run) /\ Top \in Run /\ Top.last \in Refs \union {Nil}
  BY <1>1, <1>2, TopRuns, RunIs
<1>5. /\ runs' \in Seq(Run) /\ runs' # << >> /\ Head(runs') = r
      /\ \A i \in DOMAIN runs' : runs'[i] = r \/ (i \in DOMAIN runs /\ runs'[i] = runs[i])
  BY <1>2, <1>3, <1>4, TopIs
<1>6. /\ weak' \in [Refs -> [key : Objs \union {Nil}, value : Objs \union {Nil},
                             fin : Objs \union {Nil}, next : Refs \union {Nil}]]
      /\ R_weak_refs' \in Refs \union {Nil} /\ R_weak_refs' \in live \union {Nil}
      /\ weak'[Top.s].fin = Nil /\ \A w \in Refs \ {Top.s} : weak'[w].fin = weak[w].fin
      /\ \A w \in Refs : {weak'[w].key, weak'[w].value, weak'[w].fin, weak'[w].next} \subseteq
           {weak[w].key, weak[w].value, weak[w].fin, weak[w].next} \union live \union {Nil}
  BY <1>1, <1>2, <1>4, UnlinkIs
<1>7. TypeOK'
  BY <1>1, <1>2, <1>3, <1>5, <1>6 DEF TypeOK
<1>8. LiveInv'
  <2>1. ASSUME NEW x \in live
        PROVE  Fields(x)' \subseteq live
    <3>1. Fields(x) \subseteq live /\ x \in Nodes
      BY <1>1 DEF LiveInv, TypeOK
    <3>2. CASE x \in Objs
      BY <1>1, <3>1, <3>2 DEF Fields
    <3>3. CASE x \notin Objs
      BY <1>6, <3>1, <3>3 DEF Fields, Nodes
    <3>. QED
      BY <3>2, <3>3
  <2>2. Variables(tasks)' = Variables(tasks)
    BY <1>1
  <2>. QED
    BY <1>1, <1>6, <2>1, <2>2 DEF LiveInv
<1>9. RunsInv'
  <2>1. \A i \in DOMAIN runs' : Holds(runs'[i]) \subseteq live
    BY <1>1, <1>3, <1>5 DEF RunsInv, InRun
  <2>. QED
    BY <1>1, <1>3, <1>5, <2>1 DEF RunsInv, InRun, Top
<1>10. RanInv'
  <2>1. \A w \in ran' : w \in ran \/ w = Top.s
    BY <1>3
  <2>2. ran \subseteq Refs
    BY <1>1 DEF TypeOK
  <2>. QED
    BY <1>1, <1>2, <1>6, <2>1, <2>2 DEF RanInv
<1>. QED
  BY <1>7, <1>8, <1>9, <1>10 DEF IInv

LEMMA FinalizerReturnsKeeps ==
  ASSUME IInv, FinalizerReturns
  PROVE  IInv'
<1>1. /\ UNCHANGED <<live, gen, ref, weak, ready, on_exit, R_weak_refs, roots, tasks, ran>>
      /\ TypeOK /\ LiveInv /\ RunsInv /\ RanInv
      /\ runs # << >> /\ pc' = "run"
  BY DEF FinalizerReturns, heap, refs, IInv
<1>2. runs \in Seq(Run) /\ Top \in Run /\ Holds(Top) \subseteq live
  BY <1>1, TopRuns
<1>. DEFINE r == [NewRun(Top.next, Top.exit) EXCEPT !.last = Top.last]
<1>3. runs' = << r >> \o Tail(runs)
  BY DEF FinalizerReturns, Resume
<1>4. r \in Run /\ Holds(r) = {} /\ r.s = Top.next /\ r.fun = Nil
  BY <1>2, RunIs DEF Run, NewRun, Holds
<1>5. r.s \in live \union {Nil}
  BY <1>2, <1>4 DEF Holds
<1>. HIDE DEF r
<1>6. /\ runs' \in Seq(Run) /\ runs' # << >> /\ Head(runs') = r
      /\ \A i \in DOMAIN runs' : runs'[i] = r \/ (i \in DOMAIN runs /\ runs'[i] = runs[i])
  BY <1>1, <1>2, <1>3, <1>4, TopIs
<1>7. TypeOK'
  BY <1>1, <1>6 DEF TypeOK
<1>8. LiveInv'
  BY <1>1, LiveKept DEF LiveInv
<1>9. RunsInv'
  <2>1. \A i \in DOMAIN runs' : Holds(runs'[i]) \subseteq live
    BY <1>1, <1>4, <1>6 DEF RunsInv, InRun
  <2>. QED
    BY <1>1, <1>4, <1>5, <1>6, <2>1 DEF RunsInv, InRun, Top
<1>10. RanInv'
  BY <1>1 DEF RanInv
<1>. QED
  BY <1>7, <1>8, <1>9, <1>10 DEF IInv

LEMMA RunFinalizersReturnsKeeps ==
  ASSUME IInv, RunFinalizersReturns
  PROVE  IInv'
<1>1. /\ UNCHANGED <<live, gen, ref, weak, ready, on_exit, R_weak_refs, roots, tasks, ran>>
      /\ TypeOK /\ LiveInv /\ RunsInv /\ RanInv
      /\ pc = "run" /\ runs' = Tail(runs) /\ pc' \in {"app", "exited"}
  BY DEF RunFinalizersReturns, heap, refs, IInv
<1>2. runs \in Seq(Run) /\ runs # << >>
  BY <1>1 DEF RunsInv, InRun, TypeOK
<1>3. /\ runs' \in Seq(Run)
      /\ \A i \in DOMAIN runs' : i + 1 \in DOMAIN runs /\ runs'[i] = runs[i + 1]
  BY <1>1, <1>2, PopIs
<1>4. TypeOK'
  BY <1>1, <1>3 DEF TypeOK
<1>5. LiveInv'
  BY <1>1, LiveKept DEF LiveInv
<1>6. RunsInv'
  BY <1>1, <1>3 DEF RunsInv, InRun
<1>7. RanInv'
  BY <1>1 DEF RanInv
<1>. QED
  BY <1>4, <1>5, <1>6, <1>7 DEF IInv

LEMMA RunExitFinalizersKeeps ==
  ASSUME IInv, RunExitFinalizers
  PROVE  IInv'
<1>1. /\ UNCHANGED <<live, gen, ref, weak, on_exit, R_weak_refs, roots, tasks, ran>>
      /\ TypeOK /\ LiveInv /\ RunsInv /\ RanInv
      /\ ready' = ready \union (Listed \intersect on_exit)
      /\ runs' = << NewRun(R_weak_refs, TRUE) >> \o runs /\ pc' = "run"
  BY DEF RunExitFinalizers, heap, IInv, FirstToVisit
<1>. DEFINE r == NewRun(R_weak_refs, TRUE)
<1>2. r \in Run /\ Holds(r) = {} /\ r.s = R_weak_refs /\ r.fun = Nil
  BY <1>1, NewRunIs DEF TypeOK
<1>. HIDE DEF r
<1>3. /\ runs' \in Seq(Run) /\ runs' # << >> /\ Head(runs') = r
      /\ \A i \in DOMAIN runs' : \/ runs'[i] = r
                                 \/ i - 1 \in DOMAIN runs /\ runs'[i] = runs[i - 1]
  <2>1. runs \in Seq(Run) /\ runs' = << r >> \o runs
    BY <1>1 DEF TypeOK, r
  <2>. QED
    BY <1>2, <2>1, PushedIs
<1>4. TypeOK'
  <2>1. Listed \subseteq Refs
    BY <1>1, ListedIs
  <2>. QED
    BY <1>1, <1>3, <2>1 DEF TypeOK
<1>5. LiveInv'
  BY <1>1, LiveKept DEF LiveInv
<1>6. RunsInv'
  <2>1. \A i \in DOMAIN runs' : Holds(runs'[i]) \subseteq live
    BY <1>1, <1>2, <1>3 DEF RunsInv, InRun
  <2>. QED
    BY <1>1, <1>2, <1>3, <2>1 DEF RunsInv, InRun, LiveInv, Top
<1>7. RanInv'
  BY <1>1 DEF RanInv
<1>. QED
  BY <1>4, <1>5, <1>6, <1>7 DEF IInv

LEMMA WriteFreedKeeps ==
  ASSUME IInv, WriteFreed
  PROVE  IInv'
<1>1. /\ UNCHANGED <<live, gen, ref, weak, ready, on_exit, R_weak_refs, roots, tasks, runs, ran>>
      /\ TypeOK /\ LiveInv /\ RunsInv /\ RanInv
      /\ pc = "run" /\ pc' = "corrupt"
  BY DEF WriteFreed, heap, refs, IInv
<1>2. TypeOK'
  BY <1>1 DEF TypeOK
<1>3. LiveInv'
  BY <1>1, LiveKept DEF LiveInv
<1>4. RunsInv' /\ RanInv'
  BY <1>1, RunsKept DEF RanInv, InRun
<1>. QED
  BY <1>2, <1>3, <1>4 DEF IInv

LEMMA NextOK == IInv /\ [Next]_vars => IInv'
<1>. SUFFICES ASSUME IInv, [Next]_vars PROVE IInv'
  OBVIOUS
<1>1. CASE R_gc_internal
  BY <1>1, CollectKeeps DEF R_gc_internal
<1>2. CASE UNCHANGED vars
  <2>1. /\ UNCHANGED <<live, gen, ref, weak, ready, on_exit, R_weak_refs, roots, tasks, runs>>
        /\ UNCHANGED <<ran, pc>> /\ TypeOK /\ LiveInv /\ RunsInv /\ RanInv
    BY <1>2 DEF vars, heap, refs, IInv
  <2>2. TypeOK'
    BY <2>1 DEF TypeOK
  <2>3. LiveInv'
    BY <2>1, LiveKept DEF LiveInv
  <2>4. RunsInv' /\ RanInv'
    BY <2>1, RunsKept DEF RanInv, InRun
  <2>. QED
    BY <2>2, <2>3, <2>4 DEF IInv
<1>. QED
  BY <1>1, <1>2, AllocateKeeps, SetRefKeeps, HoldKeeps, NewWeakRefKeeps, ScheduleTaskKeeps,
     TaskCompletedKeeps, SkipKeeps, RunFinalizerKeeps, WriteFreedKeeps, FinalizerReturnsKeeps,
     RunFinalizersReturnsKeeps, RunExitFinalizersKeeps DEF Next

LEMMA Inductive == Spec => []IInv
BY InitOK, NextOK, PTL DEF Spec
-----------------------------------------------------------------------------
(* The theorems.                                                           *)

\* Every variable keeps its type (memory.c lines 251-283 and 419-427).
THEOREM TypeCorrect == Spec => []TypeOK
BY Inductive, PTL DEF IInv

LEMMA NoDanglingOK == IInv => NoDangling
<1>. SUFFICES ASSUME IInv PROVE NoDangling
  OBVIOUS
<1>. DEFINE used == Usable \union Protected \union Variables(tasks) \union Listed
                      \union (IF pc = "run" THEN {Top.s} \ {Nil} ELSE {})
<1>1. TypeOK /\ LiveInv /\ RunsInv
  BY DEF IInv
<1>2. live \in SUBSET Nodes /\ ClosedUnderFields(live)
  BY <1>1 DEF TypeOK, LiveInv, ClosedUnderFields
<1>3. Usable \subseteq live /\ Protected \subseteq live /\ Variables(tasks) \subseteq live
  BY <1>1, InUse DEF LiveInv
<1>4. Listed \subseteq live
  <2>1. {R_weak_refs} \ {Nil} \subseteq live
    BY <1>1 DEF LiveInv
  <2>2. ASSUME NEW w \in live \intersect Refs
        PROVE  {weak[w].next} \ {Nil} \subseteq live
    <3>1. w \notin Objs
      BY ConstantsAssumption
    <3>. QED
      BY <1>1, <3>1 DEF LiveInv, Fields
  <2>. QED
    BY <1>1, <2>1, <2>2, ListedIs
<1>5. (IF pc = "run" THEN {Top.s} \ {Nil} ELSE {}) \subseteq live
  BY <1>1 DEF RunsInv, InRun
<1>6. used \subseteq live
  BY <1>3, <1>4, <1>5
<1>7. NoDangling <=> Closed(used) \subseteq live
  BY DEF NoDangling
<1>. HIDE DEF used
<1>8. Closed(used) \subseteq live
  BY <1>1, <1>2, <1>6, ClosedIs
<1>. QED
  BY <1>7, <1>8

\* Nothing is freed that the application, a task, a finalizer that is or may be run or the
\* list of weak references leads to, or that RunFinalizers has still to visit; only for
\* "last" this is not so, to which RunFinalizers writes (memory.c lines 655-745).  It is
\* proved up to such a write into memory that has been put to another use (WriteFreed).
THEOREM NothingDangles == Spec => []NoDangling
BY Inductive, NoDanglingOK, PTL

LEMMA ReadyExactOK ==
  ASSUME IInv, Next, pc = "app", pc' = "run", ~Head(runs').exit,
         NEW unreachable,
         unreachable = {w \in Listed : weak[w].key \notin Reachable(tasks') \union {Nil}}
  PROVE  /\ ready' \ ready \subseteq unreachable
         /\ unreachable \subseteq ready' \/ ~Collect(Oldest)
<1>1. TypeOK /\ LiveInv /\ RunsInv
  BY DEF IInv
<1>2. ASSUME NEW level \in 0..Oldest, Collect(level)
      PROVE  /\ ready' \ ready \subseteq unreachable
             /\ level = Oldest => unreachable \subseteq ready'
  <2>1. PICK left \in SUBSET tasks :
          /\ tasks' = left /\ live' = live \intersect Marked(level, left)
          /\ ready' = (ready \union CheckFinalizers(Reached(level, left)))
                        \intersect Marked(level, left)
    BY <1>2, CollectIs
  <2>. DEFINE first == roots \union Protected \union Variables(left)
              reached == Reached(level, left)
  <2>2. first \in SUBSET Nodes
    BY <1>1, InUse, VariablesIs DEF LiveInv, TypeOK
  <2>3. WeakClosure(first, Reachable(left))
    BY <1>1, <2>2, ReachableIs
  <2>4. /\ first \subseteq reached /\ ClosedUnderFields(reached) /\ WeaklyClosed(reached)
        /\ \A T : /\ MarkedAtFirst(level) \union Variables(left) \subseteq T
                  /\ ClosedUnderFields(T) /\ WeaklyClosed(T)
             => reached \subseteq T
    BY <1>1, ReachedIs
  <2>5. Listed \subseteq Marked(level, left)
    BY <1>1, MarkedIs
  <2>6. MarkedAtFirst(level) \subseteq Reachable(left) \/ level # Oldest
    <3>1. SUFFICES ASSUME level = Oldest PROVE MarkedAtFirst(level) \subseteq Reachable(left)
      OBVIOUS
    <3>2. {x \in live : gen[x] > level} = {}
      <4>1. \A x \in live : gen[x] \in 0..Oldest
        BY <1>1 DEF TypeOK
      <4>. QED
        BY <3>1, <4>1, ConstantsAssumption
    <3>3. roots \union Protected \subseteq Reachable(left) /\ ClosedUnderFields(Reachable(left))
      BY <2>3 DEF WeakClosure
    <3>. QED
      BY <1>1, <3>2, <3>3, MarkedAtFirstIs
  <2>. HIDE DEF first, reached
  <2>7. Reachable(left) \subseteq reached
    BY <2>3, <2>4 DEF WeakClosure
  <2>8. level = Oldest => reached \subseteq Reachable(left)
    <3>1. SUFFICES ASSUME level = Oldest PROVE reached \subseteq Reachable(left)
      OBVIOUS
    <3>2. Variables(left) \subseteq first
      BY DEF first
    <3>3. MarkedAtFirst(level) \union Variables(left) \subseteq Reachable(left)
      BY <2>3, <2>6, <3>1, <3>2 DEF WeakClosure
    <3>. QED
      BY <2>3, <2>4, <3>3 DEF WeakClosure
  <2>9. CheckFinalizers(reached) = {w \in Listed : weak[w].key \notin reached \union {Nil}}
    BY DEF CheckFinalizers
  <2>10. unreachable = {w \in Listed : weak[w].key \notin Reachable(left) \union {Nil}}
    BY <2>1
  <2>11. ready' = (ready \union CheckFinalizers(reached)) \intersect Marked(level, left)
    BY <2>1 DEF reached
  <2>12. ready' \ ready \subseteq unreachable
    BY <2>7, <2>9, <2>10, <2>11
  <2>13. level = Oldest => unreachable \subseteq ready'
    BY <2>5, <2>8, <2>9, <2>10, <2>11
  <2>. QED
    BY <2>12, <2>13
<1>3. Oldest \in 0..Oldest
  BY ConstantsAssumption
<1>4. unreachable \subseteq ready' \/ ~Collect(Oldest)
  BY <1>2, <1>3
<1>5. CASE R_gc_internal
  BY <1>2, <1>4, <1>5 DEF R_gc_internal
<1>6. CASE FinalizerReturns
  BY <1>4, <1>6 DEF FinalizerReturns, refs
<1>7. ~RunExitFinalizers
  <2>1. SUFFICES ASSUME RunExitFinalizers PROVE FALSE
    OBVIOUS
  <2>2. NewRun(R_weak_refs, TRUE) \in Run /\ NewRun(R_weak_refs, TRUE).exit = TRUE
    BY <1>1, NewRunIs DEF TypeOK
  <2>3. runs' = << NewRun(R_weak_refs, TRUE) >> \o runs /\ runs \in Seq(Run)
    BY <1>1, <2>1 DEF RunExitFinalizers, FirstToVisit, TypeOK
  <2>4. Head(runs') = NewRun(R_weak_refs, TRUE)
    BY <2>2, <2>3, PushIs
  <2>. QED
    BY <2>2, <2>4
<1>. QED
  BY <1>5, <1>6, <1>7
     DEF Next, Allocate, SetRef, Hold, NewWeakRef, ScheduleTask, TaskCompleted, Skip, RunFinalizer,
         WriteFreed, RunFinalizersReturns

LEMMA ReadyExactStep ==
  IInv /\ [Next]_vars =>
    [pc = "app" /\ pc' = "run" /\ ~Head(runs').exit =>
       LET reachable == Reachable(tasks') \union {Nil}
           unreachable == {w \in Listed : weak[w].key \notin reachable}
       IN  /\ ready' \ ready \subseteq unreachable
           /\ unreachable \subseteq ready' \/ ~Collect(Oldest)]_vars
BY ReadyExactOK

\* A weak reference becomes ready to be finalized only if its key cannot be reached any
\* more, and in a full collection all such become ready (sggc_after_marking, memory.c lines
\* 700-745, and CheckFinalizers, 340-347).
THEOREM ReadyIsExact == Spec => ReadyExact
BY Inductive, ReadyExactStep, PTL DEF Spec, ReadyExact

LEMMA FinalizedOnceOK ==
  ASSUME IInv, [Next]_vars, NEW w \in Refs, w \in ran, w \in live,
         NEW i \in DOMAIN runs', runs'[i].s = w, runs'[i].fun # Nil
  PROVE  \E j \in DOMAIN runs : runs[j].s = w /\ runs[j].fun # Nil
<1>1. TypeOK /\ RunsInv /\ RanInv /\ runs \in Seq(Run)
  BY DEF IInv, TypeOK
<1>2. ASSUME NEW s \in Refs \union {Nil}, NEW exit \in BOOLEAN,
             runs' = << NewRun(s, exit) >> \o runs
      PROVE  \E j \in DOMAIN runs : runs[j].s = w /\ runs[j].fun # Nil
  <2>1. NewRun(s, exit) \in Run /\ NewRun(s, exit).fun = Nil
    BY NewRunIs
  <2>2. runs'[i] = NewRun(s, exit) \/ (i - 1 \in DOMAIN runs /\ runs'[i] = runs[i - 1])
    BY <1>1, <1>2, <2>1, PushIs
  <2>. QED
    BY <2>1, <2>2
<1>3. ASSUME NEW r \in Run, runs # << >>, runs' = << r >> \o Tail(runs), r.fun = Nil \/ r.s # w
      PROVE  \E j \in DOMAIN runs : runs[j].s = w /\ runs[j].fun # Nil
  <2>1. runs'[i] = r \/ (i \in DOMAIN runs /\ runs'[i] = runs[i])
    BY <1>1, <1>3, TopIs
  <2>. QED
    BY <1>3, <2>1
<1>4. CASE runs' = runs
  BY <1>4
<1>5. CASE R_gc_internal
  <2>1. R_weak_refs \in Refs \union {Nil}
    BY <1>1 DEF TypeOK
  <2>2. runs' = << NewRun(R_weak_refs, FALSE) >> \o runs
    BY <1>5, CollectIs DEF R_gc_internal
  <2>. QED
    BY <1>2, <2>1, <2>2
<1>6. CASE RunExitFinalizers
  <2>1. R_weak_refs \in Refs \union {Nil}
    BY <1>1 DEF TypeOK
  <2>. QED
    BY <1>2, <1>6, <2>1 DEF RunExitFinalizers, FirstToVisit
<1>7. CASE Skip
  <2>1. runs # << >> /\ Top.fun = Nil /\ Top.s # Nil
    BY <1>1, <1>7 DEF Skip, RunsInv, InRun
  <2>2. Top \in Run /\ Top.s \in Refs
    BY <1>1, <2>1, TopRuns, RunIs
  <2>3. weak[Top.s].next \in Refs \union {Nil}
    BY <1>1, <2>2, WeakIs
  <2>. DEFINE r == [Top EXCEPT !.last = Top.s, !.s = weak[Top.s].next]
  <2>4. r \in Run /\ r.fun = Nil
    BY <2>1, <2>2, <2>3 DEF Run
  <2>5. runs' = << r >> \o Tail(runs)
    BY <1>7 DEF Skip
  <2>. HIDE DEF r
  <2>. QED
    BY <1>3, <2>1, <2>4, <2>5
<1>8. CASE RunFinalizer
  <2>1. runs # << >> /\ \E r \in Run :
          /\ runs' = << r >> \o Tail(runs)
          /\ r.fun = Nil \/ (weak[Top.s].fin # Nil /\ r.s = Top.s)
    BY <1>8, RunFinalizerIs
  <2>2. weak[w].fin = Nil
    BY <1>1 DEF RanInv
  <2>. QED
    BY <1>3, <2>1, <2>2
<1>9. CASE FinalizerReturns
  <2>1. runs # << >>
    BY <1>9 DEF FinalizerReturns
  <2>2. Top \in Run
    BY <1>1, <2>1, TopRuns
  <2>. DEFINE r == [NewRun(Top.next, Top.exit) EXCEPT !.last = Top.last]
  <2>3. r \in Run /\ r.fun = Nil
    BY <2>2, RunIs DEF Run, NewRun
  <2>4. runs' = << r >> \o Tail(runs)
    BY <1>9 DEF FinalizerReturns, Resume
  <2>. HIDE DEF r
  <2>. QED
    BY <1>3, <2>1, <2>3, <2>4
<1>10. CASE RunFinalizersReturns
  <2>1. runs # << >> /\ runs' = Tail(runs)
    BY <1>1, <1>10 DEF RunFinalizersReturns, RunsInv, InRun
  <2>2. i + 1 \in DOMAIN runs /\ runs'[i] = runs[i + 1]
    BY <1>1, <2>1, PopIs
  <2>. QED
    BY <2>2
<1>. QED
  BY <1>4, <1>5, <1>6, <1>7, <1>8, <1>9, <1>10
     DEF Next, Allocate, SetRef, Hold, NewWeakRef, ScheduleTask, TaskCompleted, WriteFreed, vars

LEMMA FinalizedOnceStep ==
  IInv /\ [Next]_vars =>
    [\A w \in Refs : w \in ran /\ w \in live =>
       \A i \in DOMAIN runs' : runs'[i].s = w /\ runs'[i].fun # Nil =>
          \E j \in DOMAIN runs : runs[j].s = w /\ runs[j].fun # Nil]_vars
BY FinalizedOnceOK

\* A finalizer is called at most once, though it may leave by an error, make its key
\* reachable again, or cause collections (memory.c lines 445-448).
THEOREM CalledOnce == Spec => FinalizedOnce
BY Inductive, FinalizedOnceStep, PTL DEF Spec, FinalizedOnce
-----------------------------------------------------------------------------
(* The order of the list, if finalizers register no finalizers: then it    *)
(* does not change while RunFinalizers runs, other than that entries are   *)
(* taken out, and those that have been may still point into it.            *)

Entries == live \intersect Refs
Registered == {w \in Refs : weak[w].fin # Nil}

\* Going on from a to b passes nothing that is registered: what is in reg and comes
\* after a (or in the list at all, if a is Nil) is b or comes after b.
Follows(reg, before, a, b) ==
  /\ a # Nil /\ b # Nil => <<a, b>> \in before
  /\ \A r \in reg :
       a = Nil \/ <<a, r>> \in before => b # Nil /\ (r = b \/ <<b, r>> \in before)

Ordered(E, before) ==
  /\ before \subseteq E \X E
  /\ \A a \in E : <<a, a>> \notin before
  /\ \A a, b, c \in E : <<a, b>> \in before /\ <<b, c>> \in before => <<a, c>> \in before
  /\ \A P \in SUBSET E : P # {} => \E m \in P : \A p \in P : p = m \/ <<p, m>> \in before

\* Where a call of RunFinalizers is, or goes on when the finalizer returns.
Visited(i) == IF InRun /\ i = 1 THEN runs[i].s ELSE runs[i].next

\* No pointer in use, in the list or of a call of RunFinalizers, passes anything that is
\* registered, but "last" may point to an entry that is no longer in use.
ListInv(before) ==
  /\ Ordered(Entries, before)
  /\ Registered \subseteq Entries
  /\ \A w \in Entries : Follows(Registered, before, w, weak[w].next)
  /\ Follows(Registered, before, Nil, R_weak_refs)

CallsInv(before) ==
  \A i \in DOMAIN runs : runs[i].last \in Entries \union {Nil} =>
    Follows(Registered, before, runs[i].last, Visited(i))

\* The innermost call of RunFinalizers has not passed anything registered and ready.
ReadyInv(before) ==
  runs # << >> =>
    \A w \in ready \intersect Registered :
      Visited(1) # Nil /\ (w = Visited(1) \/ <<Visited(1), w>> \in before)

OInv == \E before : ListInv(before) /\ CallsInv(before) /\ ReadyInv(before)

\* Without s, which is not registered any more.
LEMMA FollowsOn ==
  ASSUME NEW E, NEW before, Nil \notin E,
         \A a, b, c \in E : <<a, b>> \in before /\ <<b, c>> \in before => <<a, c>> \in before,
         NEW reg, NEW left, left \subseteq reg,
         NEW a \in E \union {Nil}, NEW s \in E, NEW b \in E \union {Nil}, s \notin left,
         Follows(reg, before, a, s), Follows(reg, before, s, b)
  PROVE  Follows(left, before, a, b)
BY DEF Follows

LEMMA FollowsLess ==
  ASSUME NEW before, NEW reg, NEW left, left \subseteq reg, NEW a, NEW b,
         Follows(reg, before, a, b)
  PROVE  Follows(left, before, a, b)
BY DEF Follows

\* Among the entries that are left.
LEMMA FollowsWithin ==
  ASSUME NEW E, Nil \notin E, NEW before, NEW reg, NEW left, left \subseteq reg \intersect E,
         NEW a \in E \union {Nil}, NEW b \in E \union {Nil}, Follows(reg, before, a, b)
  PROVE  Follows(left, before \intersect (E \X E), a, b)
BY DEF Follows

LEMMA OrderedWithin ==
  ASSUME NEW E, NEW before, Ordered(E, before), NEW F \in SUBSET E
  PROVE  Ordered(F, before \intersect (F \X F))
<1>. DEFINE b == before \intersect (F \X F)
<1>1. b \subseteq F \X F /\ \A x \in F : <<x, x>> \notin b
  BY DEF Ordered
<1>2. \A x, y, z \in F : <<x, y>> \in b /\ <<y, z>> \in b => <<x, z>> \in b
  BY DEF Ordered
<1>3. ASSUME NEW P \in SUBSET F, P # {}
      PROVE  \E m \in P : \A p \in P : p = m \/ <<p, m>> \in b
  <2>1. PICK m \in P : \A p \in P : p = m \/ <<p, m>> \in before
    BY <1>3 DEF Ordered
  <2>. QED
    BY <2>1
<1>. HIDE DEF b
<1>4. Ordered(F, b)
  BY <1>1, <1>2, <1>3 DEF Ordered
<1>. QED
  BY <1>4 DEF b

\* An entry put before all others.
LEMMA OrderedMore ==
  ASSUME NEW E, NEW before, Ordered(E, before), NEW w, w \notin E
  PROVE  Ordered(E \union {w}, before \union ({w} \X E))
<1>. DEFINE F == E \union {w}
            b == before \union ({w} \X E)
<1>0. /\ before \subseteq E \X E /\ \A x \in E : <<x, x>> \notin before
      /\ \A x, y, z \in E : <<x, y>> \in before /\ <<y, z>> \in before => <<x, z>> \in before
      /\ \A P \in SUBSET E : P # {} => \E m \in P : \A p \in P : p = m \/ <<p, m>> \in before
  BY DEF Ordered
<1>1. \A x, y : <<x, y>> \in b <=> <<x, y>> \in before \/ (x = w /\ y \in E)
  OBVIOUS
<1>2. \A x, y : <<x, y>> \in before => x \in E /\ y \in E
  BY <1>0
<1>3. b \subseteq F \X F
  BY <1>0
<1>. HIDE DEF b
<1>4. \A x \in F : <<x, x>> \notin b
  BY <1>0, <1>1, <1>2
<1>5. \A x, y, z \in F : <<x, y>> \in b /\ <<y, z>> \in b => <<x, z>> \in b
  BY <1>0, <1>1, <1>2
<1>6. ASSUME NEW P \in SUBSET F, P # {}
      PROVE  \E m \in P : \A p \in P : p = m \/ <<p, m>> \in b
  <2>1. CASE P \ {w} = {}
    BY <1>6, <2>1
  <2>2. CASE P \ {w} # {}
    <3>1. PICK m \in P \ {w} : \A p \in P \ {w} : p = m \/ <<p, m>> \in before
      <4>1. P \ {w} \in SUBSET E
        OBVIOUS
      <4>. QED
        BY <1>0, <2>2, <4>1
    <3>2. m \in E
      OBVIOUS
    <3>. QED
      BY <1>1, <3>1, <3>2
  <2>. QED
    BY <2>1, <2>2
<1>7. Ordered(F, b)
  <2>. HIDE DEF F
  <2>. QED
    BY <1>3, <1>4, <1>5, <1>6 DEF Ordered
<1>. QED
  BY <1>7 DEF b

\* Whatever is registered is in the list: of the entries before it the last one has a next
\* one, which is not before it.
LEMMA RegisteredListed ==
  ASSUME TypeOK, LiveInv, NEW before, ListInv(before)
  PROVE  Registered \subseteq Listed
<1>. SUFFICES ASSUME NEW r \in Registered, r \notin Listed PROVE FALSE
  OBVIOUS
<1>1. /\ Ordered(Entries, before) /\ Registered \subseteq Entries
      /\ \A w \in Entries : Follows(Registered, before, w, weak[w].next)
      /\ Follows(Registered, before, Nil, R_weak_refs)
  BY DEF ListInv
<1>2. /\ {R_weak_refs} \ {Nil} \subseteq Listed /\ Listed \in SUBSET Refs
      /\ \A w \in Listed : {weak[w].next} \ {Nil} \subseteq Listed
  BY ListedIs
<1>3. Listed \subseteq Entries
  <2>1. {R_weak_refs} \ {Nil} \subseteq live
    BY DEF LiveInv
  <2>2. ASSUME NEW w \in live \intersect Refs
        PROVE  {weak[w].next} \ {Nil} \subseteq live
    <3>1. w \notin Objs
      BY ConstantsAssumption
    <3>. QED
      BY <3>1 DEF LiveInv, Fields
  <2>3. Listed \subseteq live
    BY <2>1, <2>2, ListedIs
  <2>. QED
    BY <1>2, <2>3 DEF Entries
<1>. DEFINE P == {w \in Listed : <<w, r>> \in before}
<1>4. P # {}
  <2>1. R_weak_refs # Nil /\ (r = R_weak_refs \/ <<R_weak_refs, r>> \in before)
    BY <1>1 DEF Follows
  <2>. QED
    BY <1>2, <2>1
<1>5. PICK m \in P : \A p \in P : p = m \/ <<p, m>> \in before
  <2>1. P \in SUBSET Entries
    BY <1>3
  <2>. HIDE DEF P
  <2>. QED
    BY <1>1, <1>4, <2>1 DEF Ordered
<1>. DEFINE n == weak[m].next
<1>6. n # Nil /\ (r = n \/ <<n, r>> \in before) /\ <<m, n>> \in before
  <2>1. m \in Entries /\ <<m, r>> \in before
    BY <1>3
  <2>2. Follows(Registered, before, m, n)
    BY <1>1, <2>1
  <2>3. m # Nil
    BY <2>1, ConstantsAssumption DEF Entries
  <2>. HIDE DEF n
  <2>. QED
    BY <2>1, <2>2, <2>3 DEF Follows
<1>7. n \in Listed
  BY <1>2, <1>5, <1>6
<1>8. n \in P
  BY <1>6, <1>7
<1>9. m \in Entries /\ n \in Entries
  BY <1>3, <1>5, <1>7
<1>. HIDE DEF n, P
<1>. QED
  BY <1>1, <1>5, <1>6, <1>8, <1>9 DEF Ordered
LEMMA InitOrder == Init => OInv
<1>. SUFFICES ASSUME Init PROVE OInv
  OBVIOUS
<1>1. /\ live = {} /\ R_weak_refs = Nil /\ runs = << >>
      /\ weak = [w \in Refs |-> NoRef]
  BY DEF Init
<1>2. Entries = {} /\ Registered = {}
  BY <1>1 DEF Entries, Registered, NoRef
<1>3. Ordered(Entries, {})
  BY <1>2 DEF Ordered
<1>4. ListInv({})
  BY <1>1, <1>2, <1>3 DEF ListInv, Follows
<1>5. CallsInv({}) /\ ReadyInv({})
  BY <1>1 DEF CallsInv, ReadyInv
<1>. QED
  BY <1>4, <1>5 DEF OInv

\* Nothing is done with the list and with the calls of RunFinalizers.
LEMMA OrderKept ==
  ASSUME OInv, Entries' = Entries, weak' = weak, R_weak_refs' = R_weak_refs,
         runs' = runs, InRun' = InRun, ready' = ready
  PROVE  OInv'
<1>1. PICK before : ListInv(before) /\ CallsInv(before) /\ ReadyInv(before)
  BY DEF OInv
<1>2. Registered' = Registered /\ \A i : Visited(i)' = Visited(i)
  BY DEF Registered, Visited, InRun
<1>3. ListInv(before)'
  BY <1>1, <1>2 DEF ListInv
<1>4. CallsInv(before)' /\ ReadyInv(before)'
  BY <1>1, <1>2 DEF CallsInv, ReadyInv
<1>. QED
  BY <1>3, <1>4 DEF OInv

\* Where calls of RunFinalizers are is in the list.
LEMMA VisitedIs ==
  ASSUME TypeOK, RunsInv, NEW i \in DOMAIN runs
  PROVE  /\ Visited(i) \in Entries \union {Nil} /\ runs[i].next \in Entries \union {Nil}
         /\ runs[i].last \in Refs \union {Nil}
<1>1. runs[i] \in Run /\ runs \in Seq(Run)
  BY DEF TypeOK
<1>2. runs[i].next \in Refs \union {Nil} /\ runs[i].s \in Refs \union {Nil}
      /\ runs[i].last \in Refs \union {Nil}
  BY <1>1, RunIs
<1>3. Holds(runs[i]) \subseteq live
  BY DEF RunsInv, InRun
<1>4. runs[i].next \in Entries \union {Nil}
  BY <1>2, <1>3 DEF Holds, Entries
<1>5. CASE InRun /\ i = 1
  <2>1. Top = runs[1] /\ Top.s \in live \union {Nil}
    BY <1>1, <1>5, TopRuns DEF RunsInv, InRun
  <2>. QED
    BY <1>2, <1>4, <1>5, <2>1 DEF Visited, InRun, Entries
<1>6. CASE ~(InRun /\ i = 1)
  BY <1>2, <1>4, <1>6 DEF Visited, InRun
<1>. QED
  BY <1>5, <1>6

\* What an entry points to is in the list.
LEMMA NextIs ==
  ASSUME TypeOK, LiveInv
  PROVE  /\ \A w \in Entries : weak[w].next \in Entries \union {Nil}
         /\ R_weak_refs \in Entries \union {Nil} /\ Nil \notin Entries
<1>1. ASSUME NEW w \in Entries
      PROVE  weak[w].next \in Entries \union {Nil}
  <2>1. w \in live /\ w \in Refs /\ w \notin Objs
    BY ConstantsAssumption DEF Entries
  <2>2. Fields(w) \subseteq live
    BY <2>1 DEF LiveInv
  <2>3. weak[w].next \in Refs \union {Nil}
    BY <2>1, WeakIs
  <2>. QED
    BY <2>1, <2>2, <2>3 DEF Fields, Entries
<1>2. R_weak_refs \in Entries \union {Nil} /\ Nil \notin Entries
  BY ConstantsAssumption DEF TypeOK, LiveInv, Entries
<1>. QED
  BY <1>1, <1>2

LEMMA NewWeakRefOrder ==
  ASSUME ~Nested, IInv, OInv, NewWeakRef
  PROVE  OInv'
<1>1. PICK w \in Refs \ live, key \in Usable, val \in Usable \union {Nil},
           fin \in Usable \union {Nil} :
        /\ live' = live \union {w} /\ R_weak_refs' = w
        /\ weak' = [weak EXCEPT ![w] =
                      [key |-> key, value |-> val, fin |-> fin, next |-> R_weak_refs]]
  BY DEF NewWeakRef
<1>2. TypeOK /\ LiveInv /\ runs' = << >>
  BY DEF NewWeakRef, IInv
<1>3. PICK before : ListInv(before) /\ CallsInv(before) /\ ReadyInv(before)
  BY DEF OInv
<1>4. PICK b : b = before \union ({w} \X Entries)
  OBVIOUS
<1>5. /\ weak'[w].next = R_weak_refs /\ \A x \in Refs \ {w} : weak'[x] = weak[x]
  BY <1>1, <1>2 DEF TypeOK
<1>6. Entries' = Entries \union {w} /\ w \notin Entries /\ w # Nil
  BY <1>1, ConstantsAssumption DEF Entries
<1>7. Registered' \subseteq Registered \union {w}
  BY <1>5 DEF Registered
<1>8. /\ Ordered(Entries, before) /\ Registered \subseteq Entries
      /\ \A x \in Entries : Follows(Registered, before, x, weak[x].next)
      /\ Follows(Registered, before, Nil, R_weak_refs)
  BY <1>3 DEF ListInv
<1>9. before \subseteq Entries \X Entries
  BY <1>8 DEF Ordered
<1>10. /\ R_weak_refs \in Entries \union {Nil} /\ Nil \notin Entries
       /\ \A x \in Entries : weak[x].next \in Entries \union {Nil}
  BY <1>2, NextIs
<1>11. \A x, y : <<x, y>> \in b <=> <<x, y>> \in before \/ (x = w /\ y \in Entries)
  BY <1>4
<1>12. \A x, y : <<x, y>> \in before => x \in Entries /\ y \in Entries
  BY <1>9
<1>13. Ordered(Entries', b)
  BY <1>4, <1>6, <1>8, OrderedMore
<1>14. Registered' \subseteq Entries'
  BY <1>6, <1>7, <1>8
<1>15. ASSUME NEW x \in Entries'
       PROVE  Follows(Registered', b, x, weak'[x].next)
  <2>1. CASE x = w
    BY <1>5, <1>6, <1>7, <1>8, <1>10, <1>11, <1>12, <2>1 DEF Follows
  <2>2. CASE x # w
    <3>1. x \in Entries /\ weak'[x].next = weak[x].next
      BY <1>5, <1>6, <2>2 DEF Entries
    <3>2. Follows(Registered, before, x, weak[x].next)
      BY <1>8, <3>1
    <3>. QED
      BY <1>6, <1>7, <1>10, <1>11, <1>12, <3>1, <3>2 DEF Follows
  <2>. QED
    BY <2>1, <2>2
<1>16. Follows(Registered', b, Nil, w)
  BY <1>6, <1>7, <1>8, <1>11 DEF Follows
<1>17. ListInv(b)'
  BY <1>1, <1>13, <1>14, <1>15, <1>16 DEF ListInv
<1>18. CallsInv(b)' /\ ReadyInv(b)'
  BY <1>2 DEF CallsInv, ReadyInv
<1>. QED
  BY <1>17, <1>18 DEF OInv

\* RunFinalizers is called, at the first entry.
LEMMA PushOrder ==
  ASSUME TypeOK, NEW before, ListInv(before)',
         NEW exit \in BOOLEAN,
         runs' = << NewRun(R_weak_refs, exit) >> \o runs, pc = "app", pc' = "run",
         R_weak_refs' = R_weak_refs,
         \A i \in DOMAIN runs : runs[i].last \in Entries' \union {Nil} =>
           Follows(Registered', before, runs[i].last, runs[i].next)
  PROVE  CallsInv(before)' /\ ReadyInv(before)'
<1>1. /\ NewRun(R_weak_refs, exit) \in Run /\ NewRun(R_weak_refs, exit).s = R_weak_refs
      /\ NewRun(R_weak_refs, exit).last = Nil
  BY NewRunIs DEF TypeOK, NewRun
<1>2. /\ runs'[1] = NewRun(R_weak_refs, exit)
      /\ \A i \in DOMAIN runs' : i = 1 \/ (i - 1 \in DOMAIN runs /\ runs'[i] = runs[i - 1])
  BY <1>1, PushIs DEF TypeOK
<1>3. Follows(Registered', before, Nil, R_weak_refs)
  BY DEF ListInv
<1>4. Visited(1)' = R_weak_refs /\ \A i \in DOMAIN runs' : i = 1 \/ Visited(i)' = runs'[i].next
  BY <1>1, <1>2 DEF Visited, InRun
<1>5. CallsInv(before)'
  <2>1. ASSUME NEW i \in DOMAIN runs', runs'[i].last \in Entries' \union {Nil}
        PROVE  Follows(Registered', before, runs'[i].last, Visited(i)')
    <3>1. CASE i = 1
      BY <1>1, <1>2, <1>3, <1>4, <3>1
    <3>2. CASE i # 1
      BY <1>2, <1>4, <2>1, <3>2
    <3>. QED
      BY <3>1, <3>2
  <2>. QED
    BY <2>1 DEF CallsInv
<1>6. ReadyInv(before)'
  BY <1>3, <1>4 DEF ReadyInv, Follows
<1>. QED
  BY <1>5, <1>6
\* The innermost call of RunFinalizers goes on as r, with the list as it was.
LEMMA TopOrder ==
  ASSUME TypeOK, RunsInv, OInv, runs # << >>, NEW r \in Run, runs' = << r >> \o Tail(runs),
         Entries' = Entries, weak' = weak, R_weak_refs' = R_weak_refs, ready' = ready,
         pc' = "run",
         \A before : ListInv(before) /\ CallsInv(before) /\ ReadyInv(before) =>
           /\ r.last \in Entries \union {Nil} => Follows(Registered, before, r.last, r.s)
           /\ \A w \in ready \intersect Registered :
                r.s # Nil /\ (w = r.s \/ <<r.s, w>> \in before)
  PROVE  OInv'
<1>1. PICK before : ListInv(before) /\ CallsInv(before) /\ ReadyInv(before)
  BY DEF OInv
<1>2. Registered' = Registered
  BY DEF Registered
<1>3. ListInv(before)'
  BY <1>1, <1>2 DEF ListInv
<1>4. /\ runs'[1] = r
      /\ \A i \in DOMAIN runs' : i = 1 \/ (i \in DOMAIN runs /\ runs'[i] = runs[i])
  BY TopIs DEF TypeOK
<1>5. Visited(1)' = r.s /\ \A i \in DOMAIN runs' : i = 1 \/ Visited(i)' = Visited(i)
  BY <1>4 DEF Visited, InRun
<1>6. /\ r.last \in Entries \union {Nil} => Follows(Registered, before, r.last, r.s)
      /\ \A w \in ready \intersect Registered :
           r.s # Nil /\ (w = r.s \/ <<r.s, w>> \in before)
  BY <1>1
<1>7. CallsInv(before)'
  <2>1. ASSUME NEW i \in DOMAIN runs', runs'[i].last \in Entries \union {Nil}
        PROVE  Follows(Registered, before, runs'[i].last, Visited(i)')
    <3>1. CASE i = 1
      BY <1>4, <1>5, <1>6, <2>1, <3>1
    <3>2. CASE i # 1
      BY <1>1, <1>4, <1>5, <2>1, <3>2 DEF CallsInv
    <3>. QED
      BY <3>1, <3>2
  <2>. QED
    BY <1>2, <2>1 DEF CallsInv
<1>8. ReadyInv(before)'
  BY <1>2, <1>5, <1>6 DEF ReadyInv
<1>. QED
  BY <1>3, <1>7, <1>8 DEF OInv

LEMMA SkipOrder ==
  ASSUME IInv, OInv, Skip
  PROVE  OInv'
<1>1. /\ TypeOK /\ LiveInv /\ RunsInv /\ pc = "run" /\ pc' = "run" /\ Top.s # Nil
      /\ Top.s \notin ready
      /\ UNCHANGED <<live, weak, ready, R_weak_refs>>
  BY DEF Skip, IInv, heap, refs
<1>2. runs # << >> /\ Top.s \in live
  BY <1>1 DEF RunsInv, InRun
<1>3. runs \in Seq(Run) /\ Top \in Run /\ Top = runs[1] /\ 1 \in DOMAIN runs
  BY <1>1, <1>2, TopRuns
<1>4. Top.s \in Refs /\ Top.s \in Entries /\ Visited(1) = Top.s
  BY <1>1, <1>2, <1>3, RunIs DEF Entries, Visited, InRun
<1>. DEFINE r == [Top EXCEPT !.last = Top.s, !.s = weak[Top.s].next]
<1>5. r \in Run /\ r.last = Top.s /\ r.s = weak[Top.s].next
  <2>1. weak[Top.s].next \in Refs \union {Nil}
    BY <1>1, <1>4, WeakIs
  <2>. QED
    BY <1>3, <1>4, <2>1 DEF Run
<1>6. runs' = << r >> \o Tail(runs)
  BY DEF Skip
<1>. HIDE DEF r
<1>7. ASSUME NEW before, ListInv(before) /\ CallsInv(before) /\ ReadyInv(before)
      PROVE  /\ Follows(Registered, before, r.last, r.s)
             /\ \A w \in ready \intersect Registered :
                  r.s # Nil /\ (w = r.s \/ <<r.s, w>> \in before)
  <2>1. Follows(Registered, before, r.last, r.s)
    BY <1>4, <1>5, <1>7 DEF ListInv
  <2>2. \A w \in ready \intersect Registered : <<Top.s, w>> \in before
    BY <1>1, <1>2, <1>4, <1>7 DEF ReadyInv
  <2>. QED
    BY <1>5, <2>1, <2>2 DEF Follows
<1>8. Entries' = Entries
  BY <1>1 DEF Entries
<1>. QED
  BY <1>1, <1>2, <1>5, <1>6, <1>7, <1>8, TopOrder

LEMMA FinalizerReturnsOrder ==
  ASSUME IInv, OInv, FinalizerReturns
  PROVE  OInv'
<1>1. /\ TypeOK /\ LiveInv /\ RunsInv /\ pc = "app" /\ pc' = "run" /\ runs # << >>
      /\ UNCHANGED <<live, weak, ready, R_weak_refs>>
  BY DEF FinalizerReturns, IInv, heap, refs
<1>2. runs \in Seq(Run) /\ Top \in Run /\ Top = runs[1] /\ 1 \in DOMAIN runs
  BY <1>1, TopRuns
<1>3. Visited(1) = Top.next
  BY <1>1, <1>2 DEF Visited, InRun
<1>. DEFINE r == [NewRun(Top.next, Top.exit) EXCEPT !.last = Top.last]
<1>4. r \in Run /\ r.last = Top.last /\ r.s = Top.next
  BY <1>2, RunIs DEF Run, NewRun
<1>5. runs' = << r >> \o Tail(runs)
  BY DEF FinalizerReturns, Resume
<1>. HIDE DEF r
<1>6. ASSUME NEW before, ListInv(before) /\ CallsInv(before) /\ ReadyInv(before)
      PROVE  /\ r.last \in Entries \union {Nil} => Follows(Registered, before, r.last, r.s)
             /\ \A w \in ready \intersect Registered :
                  r.s # Nil /\ (w = r.s \/ <<r.s, w>> \in before)
  BY <1>1, <1>2, <1>3, <1>4, <1>6 DEF CallsInv, ReadyInv
<1>7. Entries' = Entries
  BY <1>1 DEF Entries
<1>. QED
  BY <1>1, <1>4, <1>5, <1>6, <1>7, TopOrder

LEMMA RunFinalizersReturnsOrder ==
  ASSUME IInv, OInv, RunFinalizersReturns
  PROVE  OInv' /\ ready \intersect Registered = {}
<1>1. /\ TypeOK /\ LiveInv /\ RunsInv /\ pc = "run" /\ Top.s = Nil /\ ~InRun'
      /\ runs' = Tail(runs)
      /\ UNCHANGED <<live, weak, ready, R_weak_refs>>
  BY DEF RunFinalizersReturns, IInv, heap, refs, InRun
<1>2. runs # << >>
  BY <1>1 DEF RunsInv, InRun
<1>3. runs \in Seq(Run) /\ Top = runs[1]
  BY <1>1, <1>2, TopRuns
<1>4. PICK before : ListInv(before) /\ CallsInv(before) /\ ReadyInv(before)
  BY DEF OInv
<1>5. ready \intersect Registered = {}
  BY <1>1, <1>2, <1>3, <1>4 DEF ReadyInv, Visited, InRun
<1>6. Registered' = Registered /\ Entries' = Entries
  BY <1>1 DEF Registered, Entries
<1>7. ListInv(before)'
  BY <1>1, <1>4, <1>6 DEF ListInv
<1>8. ReadyInv(before)'
  BY <1>1, <1>5, <1>6 DEF ReadyInv
<1>9. ASSUME NEW i \in DOMAIN runs', runs'[i].last \in Entries \union {Nil}
      PROVE  Follows(Registered, before, runs'[i].last, Visited(i)')
  <2>1. i + 1 \in DOMAIN runs /\ runs'[i] = runs[i + 1] /\ i + 1 # 1
    <3>1. i \in 1..Len(Tail(runs))
      BY <1>1, <1>2, <1>3, PopIs
    <3>2. i + 1 \in DOMAIN runs /\ runs'[i] = runs[i + 1]
      BY <1>1, <1>2, <1>3, PopIs
    <3>3. i \in Nat /\ i # 0
      BY <1>2, <1>3, <3>1, PopIs
    <3>. QED
      BY <3>2, <3>3
  <2>2. Visited(i)' = Visited(i + 1)
    BY <1>1, <2>1 DEF Visited, InRun
  <2>. QED
    BY <1>4, <1>9, <2>1, <2>2 DEF CallsInv
<1>10. CallsInv(before)'
  BY <1>6, <1>9 DEF CallsInv
<1>. QED
  BY <1>5, <1>7, <1>8, <1>10 DEF OInv

LEMMA RunExitFinalizersOrder ==
  ASSUME IInv, OInv, RunExitFinalizers
  PROVE  OInv'
<1>1. /\ TypeOK /\ pc = "app" /\ pc' = "run"
      /\ UNCHANGED <<live, weak, R_weak_refs>>
      /\ runs' = << NewRun(R_weak_refs, TRUE) >> \o runs
  BY DEF RunExitFinalizers, FirstToVisit, IInv, heap
<1>2. PICK before : ListInv(before) /\ CallsInv(before) /\ ReadyInv(before)
  BY DEF OInv
<1>3. Registered' = Registered /\ Entries' = Entries
  BY <1>1 DEF Registered, Entries
<1>4. ListInv(before)'
  BY <1>1, <1>2, <1>3 DEF ListInv
<1>5. \A i \in DOMAIN runs : runs[i].last \in Entries' \union {Nil} =>
        Follows(Registered', before, runs[i].last, runs[i].next)
  BY <1>1, <1>2, <1>3 DEF CallsInv, Visited, InRun
<1>6. CallsInv(before)' /\ ReadyInv(before)'
  BY <1>1, <1>4, <1>5, PushOrder
<1>. QED
  BY <1>4, <1>6 DEF OInv

LEMMA CollectOrder ==
  ASSUME IInv, OInv, NEW level \in 0..Oldest, Collect(level)
  PROVE  OInv'
<1>1. TypeOK /\ LiveInv /\ RunsInv /\ TypeOK' /\ LiveInv' /\ RunsInv'
  BY CollectKeeps DEF IInv
<1>2. /\ runs' = << NewRun(R_weak_refs, FALSE) >> \o runs /\ pc' = "run" /\ pc = "app"
      /\ weak' = [w \in Refs |-> IF w \in live' THEN weak[w] ELSE NoRef]
      /\ R_weak_refs' = R_weak_refs
  BY CollectIs
<1>3. live' \subseteq live
  BY CollectIs
<1>4. PICK before : ListInv(before) /\ CallsInv(before) /\ ReadyInv(before)
  BY DEF OInv
<1>5. PICK b : b = before \intersect (Entries' \X Entries')
  OBVIOUS
<1>6. Entries' \subseteq Entries
  BY <1>3 DEF Entries
<1>7. Registered' \subseteq Registered \intersect Entries'
  BY <1>2 DEF Registered, Entries, NoRef
<1>8. /\ Ordered(Entries, before)
      /\ \A w \in Entries : Follows(Registered, before, w, weak[w].next)
      /\ Follows(Registered, before, Nil, R_weak_refs)
  BY <1>4 DEF ListInv
<1>9. Nil \notin Entries'
  BY ConstantsAssumption DEF Entries
<1>10. ASSUME NEW x \in Entries' \union {Nil}, NEW y \in Entries' \union {Nil},
              Follows(Registered, before, x, y)
       PROVE  Follows(Registered', b, x, y)
  BY <1>5, <1>7, <1>9, <1>10, FollowsWithin
<1>11. ListInv(b)'
  <2>1. Ordered(Entries', b)
    BY <1>5, <1>6, <1>8, OrderedWithin
  <2>2. ASSUME NEW w \in Entries'
        PROVE  Follows(Registered', b, w, weak'[w].next)
    <3>1. w \in Refs /\ w \in live' /\ w \notin Objs /\ w \in Entries
      BY <1>6, ConstantsAssumption DEF Entries
    <3>2. weak'[w] = weak[w]
      BY <1>2, <3>1
    <3>3. Fields(w)' \subseteq live'
      BY <1>1, <3>1 DEF LiveInv
    <3>4. weak[w].next \in Refs \union {Nil}
      BY <1>1, <3>1, WeakIs
    <3>5. weak[w].next \in Entries' \union {Nil}
      BY <3>1, <3>2, <3>3, <3>4 DEF Fields, Entries
    <3>. QED
      BY <1>8, <1>10, <3>1, <3>2, <3>5
  <2>3. R_weak_refs \in Entries' \union {Nil}
    BY <1>1, <1>2 DEF TypeOK, LiveInv, Entries
  <2>4. Follows(Registered', b, Nil, R_weak_refs)
    BY <1>8, <1>10, <2>3
  <2>. QED
    BY <1>2, <1>7, <2>1, <2>2, <2>4 DEF ListInv
<1>12. ASSUME NEW i \in DOMAIN runs, runs[i].last \in Entries' \union {Nil}
       PROVE  Follows(Registered', b, runs[i].last, runs[i].next)
  <2>1. Follows(Registered, before, runs[i].last, runs[i].next)
    BY <1>2, <1>4, <1>6, <1>12 DEF CallsInv, Visited, InRun
  <2>2. runs[i].next \in Refs \union {Nil}
    BY <1>1, RunIs DEF TypeOK
  <2>3. Holds(runs[i]) \subseteq live'
    <3>1. NewRun(R_weak_refs, FALSE) \in Run /\ runs \in Seq(Run)
      BY <1>1, NewRunIs DEF TypeOK
    <3>2. Len(runs') = Len(runs) + 1 /\ runs' \in Seq(Run) /\ Len(runs) \in Nat
      <4>1. Len(runs') = Len(runs) + 1 /\ runs' \in Seq(Run)
        BY <1>2, <3>1, PushIs
      <4>2. Len(runs) \in Nat
        BY <3>1
      <4>. QED
        BY <4>1, <4>2
    <3>3. i + 1 \in DOMAIN runs' /\ i + 1 # 1 /\ (i + 1) - 1 = i
      BY <3>1, <3>2
    <3>4. runs'[i + 1] = runs[i]
      BY <1>2, <3>1, <3>3, PushIs
    <3>. QED
      BY <1>1, <3>3, <3>4 DEF RunsInv, InRun
  <2>4. runs[i].next \in Entries' \union {Nil}
    BY <2>2, <2>3 DEF Holds, Entries
  <2>. QED
    BY <1>10, <1>12, <2>1, <2>4
<1>13. CallsInv(b)' /\ ReadyInv(b)'
  BY <1>1, <1>2, <1>11, <1>12, PushOrder
<1>. QED
  BY <1>11, <1>13 DEF OInv
\* What taking an entry out does to the list.
LEMMA UnlinkNext ==
  ASSUME TypeOK, NEW s, NEW last, s = Top.s, last = Top.last, s \in Refs,
         last \in Refs \union {Nil}, Unlink
  PROVE  /\ \A w \in Refs : weak'[w].next = IF w = last THEN weak[s].next ELSE weak[w].next
         /\ R_weak_refs' = IF last = Nil THEN weak[s].next ELSE R_weak_refs
<1>. DEFINE next == weak[s].next
            cleared == [weak EXCEPT ![s] = AfterRun(s)]
            Types == [key : Objs \union {Nil}, value : Objs \union {Nil},
                      fin : Objs \union {Nil}, next : Refs \union {Nil}]
<1>1. weak \in [Refs -> Types] /\ next \in Refs \union {Nil} /\ Nil \notin Refs
  BY WeakIs, ConstantsAssumption DEF TypeOK
<1>2. AfterRun(s) \in Types /\ AfterRun(s).next = next
  BY <1>1 DEF AfterRun, NoRef
<1>. HIDE DEF next
<1>3. cleared \in [Refs -> Types] /\ \A w \in Refs : cleared[w].next = weak[w].next
  BY <1>1, <1>2 DEF next
<1>4. CASE last = Nil
  <2>1. R_weak_refs' = next /\ weak' = cleared
    BY <1>4 DEF Unlink, next
  <2>. HIDE DEF cleared
  <2>. QED
    BY <1>1, <1>3, <1>4, <2>1 DEF next
<1>5. CASE last # Nil
  <2>1. weak' = [cleared EXCEPT ![last].next = next] /\ R_weak_refs' = R_weak_refs
    BY <1>5 DEF Unlink, next
  <2>2. last \in Refs
    BY <1>5
  <2>. HIDE DEF cleared, Types
  <2>3. weak'[last] = [cleared[last] EXCEPT !.next = next] /\ cleared[last] \in Types
        /\ \A w \in Refs \ {last} : weak'[w] = cleared[w]
    BY <1>3, <2>1, <2>2
  <2>4. weak'[last].next = next
    BY <2>3 DEF Types
  <2>. QED
    BY <1>3, <1>5, <2>1, <2>3, <2>4 DEF next
<1>. QED
  BY <1>4, <1>5

LEMMA RunFinalizerOrder ==
  ASSUME IInv, OInv, RunFinalizer
  PROVE  OInv'
<1>1. TypeOK /\ LiveInv /\ RunsInv /\ Unlink /\ live' = live /\ ready' = ready
  BY DEF RunFinalizer, IInv, heap
<1>2. pc = "run" /\ runs # << >> /\ Top.s \in live /\ Top.s \in Refs
  BY RunFinalizerIs
<1>. DEFINE s == Top.s
            last == Top.last
            next == weak[s].next
<1>3. PICK r \in Run :
        /\ runs' = << r >> \o Tail(runs) /\ r.last = last
        /\ (pc' = "run" /\ r.s = next) \/ (pc' = "app" /\ r.next = next)
  BY RunFinalizerIs
<1>4. /\ runs \in Seq(Run) /\ Top \in Run /\ Top = runs[1] /\ 1 \in DOMAIN runs
      /\ last \in Refs \union {Nil}
  BY <1>1, <1>2, TopRuns, RunIs
<1>5. /\ runs'[1] = r
      /\ \A i \in DOMAIN runs' : i = 1 \/ (i \in DOMAIN runs /\ runs'[i] = runs[i])
  BY <1>2, <1>3, <1>4, TopIs
<1>6. Visited(1) = s /\ Visited(1)' = next
      /\ \A i \in DOMAIN runs' : i = 1 \/ Visited(i)' = Visited(i)
  BY <1>2, <1>3, <1>4, <1>5 DEF Visited, InRun
<1>7. weak'[s].fin = Nil /\ \A w \in Refs \ {s} : weak'[w].fin = weak[w].fin
  BY <1>1, <1>2, <1>4, UnlinkIs
<1>8. /\ \A w \in Refs : weak'[w].next = IF w = last THEN next ELSE weak[w].next
      /\ R_weak_refs' = IF last = Nil THEN next ELSE R_weak_refs
  BY <1>1, <1>2, <1>4, UnlinkNext
<1>9. s \in Entries /\ Entries' = Entries
  BY <1>1, <1>2 DEF Entries
<1>. HIDE DEF s, last, next
<1>10. Registered' \subseteq Registered /\ s \notin Registered'
  BY <1>7 DEF Registered
<1>11. PICK before : ListInv(before) /\ CallsInv(before) /\ ReadyInv(before)
  BY DEF OInv
<1>12. /\ Ordered(Entries, before) /\ Registered \subseteq Entries
       /\ \A w \in Entries : Follows(Registered, before, w, weak[w].next)
       /\ Follows(Registered, before, Nil, R_weak_refs)
  BY <1>11 DEF ListInv
<1>13. Nil \notin Entries /\ next \in Entries \union {Nil}
  BY <1>1, <1>9, NextIs DEF next
<1>14. Follows(Registered, before, s, next)
  BY <1>9, <1>12 DEF next
<1>15. last \in Entries \union {Nil} => Follows(Registered', before, last, next)
  <2>1. SUFFICES ASSUME last \in Entries \union {Nil}
                 PROVE  Follows(Registered', before, last, next)
    OBVIOUS
  <2>2. Follows(Registered, before, last, s)
    BY <1>4, <1>6, <1>11, <2>1 DEF CallsInv, last
  <2>3. \A a, b, c \in Entries : <<a, b>> \in before /\ <<b, c>> \in before => <<a, c>> \in before
    BY <1>12 DEF Ordered
  <2>. QED
    BY <1>9, <1>10, <1>13, <1>14, <2>1, <2>2, <2>3, FollowsOn
<1>16. ListInv(before)'
  <2>1. ASSUME NEW w \in Entries
        PROVE  Follows(Registered', before, w, weak'[w].next)
    <3>1. w \in Refs
      BY DEF Entries
    <3>2. CASE w = last
      BY <1>8, <1>15, <3>1, <3>2
    <3>3. CASE w # last
      BY <1>8, <1>10, <1>12, <3>1, <3>3, FollowsLess
    <3>. QED
      BY <3>2, <3>3
  <2>2. Follows(Registered', before, Nil, R_weak_refs')
    <3>1. CASE last = Nil
      BY <1>8, <1>15, <3>1
    <3>2. CASE last # Nil
      BY <1>8, <1>10, <1>12, <3>2, FollowsLess
    <3>. QED
      BY <3>1, <3>2
  <2>. QED
    BY <1>9, <1>10, <1>12, <2>1, <2>2 DEF ListInv
<1>17. CallsInv(before)'
  <2>1. ASSUME NEW i \in DOMAIN runs', runs'[i].last \in Entries \union {Nil}
        PROVE  Follows(Registered', before, runs'[i].last, Visited(i)')
    <3>1. CASE i = 1
      BY <1>3, <1>5, <1>6, <1>15, <2>1, <3>1
    <3>2. CASE i # 1
      <4>1. Follows(Registered, before, runs[i].last, Visited(i))
        BY <1>5, <1>11, <2>1, <3>2 DEF CallsInv
      <4>. QED
        BY <1>5, <1>6, <1>10, <3>2, <4>1, FollowsLess
    <3>. QED
      BY <3>1, <3>2
  <2>. QED
    BY <1>9, <2>1 DEF CallsInv
<1>18. ReadyInv(before)'
  <2>1. ASSUME NEW w \in ready \intersect Registered'
        PROVE  next # Nil /\ (w = next \/ <<next, w>> \in before)
    <3>1. w \in Registered /\ w # s
      BY <1>10
    <3>2. <<s, w>> \in before
      BY <1>2, <1>6, <1>11, <3>1 DEF ReadyInv
    <3>. QED
      BY <1>14, <3>1, <3>2 DEF Follows
  <2>. QED
    BY <1>1, <1>6, <2>1 DEF ReadyInv
<1>. QED
  BY <1>16, <1>17, <1>18 DEF OInv

LEMMA NextOrder == ~Nested /\ IInv /\ OInv /\ [Next]_vars => OInv'
<1>. SUFFICES ASSUME ~Nested, IInv, OInv, [Next]_vars PROVE OInv'
  OBVIOUS
<1>1. CASE SetRef \/ Hold \/ ScheduleTask \/ TaskCompleted \/ WriteFreed \/ UNCHANGED vars
  <2>1. UNCHANGED <<live, weak, R_weak_refs, runs, ready>> /\ InRun' = InRun
    BY <1>1 DEF SetRef, Hold, ScheduleTask, TaskCompleted, WriteFreed, vars, heap, refs, InRun
  <2>2. Entries' = Entries
    BY <2>1 DEF Entries
  <2>. QED
    BY <2>1, <2>2, OrderKept
<1>2. CASE Allocate
  <2>1. UNCHANGED <<weak, R_weak_refs, runs, ready>> /\ InRun' = InRun
    BY <1>2 DEF Allocate, refs, InRun
  <2>2. Entries' = Entries
    BY <1>2, ConstantsAssumption DEF Allocate, Entries
  <2>. QED
    BY <2>1, <2>2, OrderKept
<1>3. CASE R_gc_internal
  BY <1>3, CollectOrder DEF R_gc_internal
<1>. QED
  BY <1>1, <1>2, <1>3, NewWeakRefOrder, SkipOrder, RunFinalizerOrder, FinalizerReturnsOrder,
     RunFinalizersReturnsOrder, RunExitFinalizersOrder DEF Next

LEMMA OrderHolds == ~Nested => (Spec => [](IInv /\ OInv))
<1>. SUFFICES ASSUME ~Nested PROVE Spec => [](IInv /\ OInv)
  OBVIOUS
<1>1. IInv /\ OInv /\ [Next]_vars => (IInv /\ OInv)'
  BY NextOK, NextOrder
<1>2. Init => IInv /\ OInv
  BY InitOK, InitOrder
<1>. QED
  BY <1>1, <1>2, PTL DEF Spec

\* A weak reference that is registered stays in the list until its finalizer is called
\* ("Registers an R function to be called upon garbage collection of object",
\* src/src/library/base/man/reg.finalizer.Rd line 10), unless finalizers register some.
THEOREM NoneIsLost == ~Nested => (Spec => []StaysRegistered)
<1>1. IInv /\ OInv => StaysRegistered
  BY RegisteredListed DEF IInv, OInv, StaysRegistered, Registered
<1>. QED
  BY <1>1, OrderHolds, PTL

LEMMA ReadyAreRunOK ==
  ASSUME IInv, OInv, Next, Len(runs) = 1, runs' = << >>,
         NEW w \in ready \intersect live
  PROVE  weak[w].fin = Nil
<1>1. TypeOK /\ runs \in Seq(Run)
  BY DEF IInv, TypeOK
<1>2. runs # << >>
  <2>1. Len(<< >>) = 0
    OBVIOUS
  <2>. QED
    BY <2>1
<1>3. CASE RunFinalizersReturns
  <2>1. ready \intersect Registered = {}
    BY <1>3, RunFinalizersReturnsOrder
  <2>2. w \in Refs
    BY <1>1 DEF TypeOK
  <2>. QED
    BY <2>1, <2>2 DEF Registered
<1>4. CASE ~RunFinalizersReturns
  <2>1. ASSUME NEW r, NEW q \in Seq(Run), r \in Run, runs' = << r >> \o q
        PROVE  FALSE
    BY <2>1, PushIs
  <2>2. Tail(runs) \in Seq(Run)
    BY <1>1, <1>2, PopIs
  <2>3. NewRun(R_weak_refs, TRUE) \in Run /\ NewRun(R_weak_refs, FALSE) \in Run
    BY <1>1, NewRunIs DEF TypeOK
  <2>4. ~R_gc_internal
    <3>1. ~\E level : Collect(level)
      BY <1>1, <2>1, <2>3, CollectIs
    <3>. QED
      BY <3>1 DEF R_gc_internal
  <2>5. ~RunExitFinalizers
    BY <1>1, <2>1, <2>3 DEF RunExitFinalizers, FirstToVisit
  <2>6. ~RunFinalizer
    BY <2>1, <2>2, RunFinalizerIs
  <2>7. ~Skip
    <3>1. SUFFICES ASSUME Skip PROVE FALSE
      OBVIOUS
    <3>2. /\ TypeOK /\ RunsInv /\ Top.s # Nil
      BY <3>1 DEF IInv, Skip
    <3>3. Top \in Run /\ Top.s \in Refs
      BY <1>2, <3>2, TopRuns, RunIs
    <3>4. weak[Top.s].next \in Refs \union {Nil}
      BY <3>2, <3>3, WeakIs
    <3>5. [Top EXCEPT !.last = Top.s, !.s = weak[Top.s].next] \in Run
      BY <3>3, <3>4 DEF Run
    <3>. QED
      BY <2>1, <2>2, <3>1, <3>5 DEF Skip
  <2>8. ~FinalizerReturns
    <3>1. RunsInv /\ Top \in Run
      BY <1>1, <1>2, TopRuns DEF IInv
    <3>2. [NewRun(Top.next, Top.exit) EXCEPT !.last = Top.last] \in Run
      BY <3>1, RunIs DEF Run, NewRun
    <3>. QED
      BY <2>1, <2>2, <3>2 DEF FinalizerReturns, Resume
  <2>. QED
    BY <1>2, <1>4, <2>4, <2>5, <2>6, <2>7, <2>8
       DEF Next, Allocate, SetRef, Hold, NewWeakRef, ScheduleTask, TaskCompleted, WriteFreed
<1>. QED
  BY <1>3, <1>4

LEMMA ReadyAreRunStep ==
  (IInv /\ OInv) /\ [Next]_vars =>
    [Len(runs) = 1 /\ runs' = << >> =>
       \A w \in ready \intersect live : weak[w].fin = Nil]_vars
BY ReadyAreRunOK

\* When R_gc_internal or R_RunExitFinalizers returns, the finalizers that were found to be
\* ready have been called (RunFinalizers, memory.c lines 424-468), on the same condition.
THEOREM AllReadyAreRun == ~Nested => (Spec => ReadyAreRun)
BY OrderHolds, ReadyAreRunStep, PTL DEF Spec, ReadyAreRun
=============================================================================
