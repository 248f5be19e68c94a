---------------------------- MODULE InOrderProofs ----------------------------
(***************************************************************************)
(* Proof that the order of InOrder gives every variable the value it would *)
(* have without helpers.  The invariant is that the pending operations,    *)
(* done in the order scheduled, lead from the values there are to those    *)
(* that are meant: there are memories in between (Leads).  An operation    *)
(* that takes effect early is moved to the front past others that it does  *)
(* not conflict with, and so are operations that are joined.               *)
(***************************************************************************)
EXTENDS InOrderValues, TLAPS, SequenceTheorems, WellFoundedInduction

Operations == [var : [0..2 -> Vars \union {Null}], ops : Nat]
Computations == [Memories -> Values]

\* The computations d are those of the operations p.
Match(p, d) ==
  /\ p \in Seq(Operations) /\ d \in Seq(Computations) /\ Len(d) = Len(p)
  /\ \A k \in 1..Len(p) : LooksAt(p[k], d[k])

\* The memories M are those from x to y while the operations p are done in turn.
Between(p, d, M, x, y) ==
  /\ M \in [0..Len(p) -> Memories] /\ M[0] = x /\ M[Len(p)] = y
  /\ \A k \in 1..Len(p) : M[k] = Done(p[k], d[k], M[k - 1])

Leads(p, d, x, y) == \E M : Between(p, d, M, x, y)

\* In p, the operation at i conflicts with none at the positions js, and no operation before
\* the last writes what that one only reads (Free and Known of InOrder).
FreeIn(p, i, js) == \A k \in js : ~Conflict(p[i], p[k])
KnownIn(p) ==
  \A k \in 1..Len(p) - 1 :
    Written(p[k]) \intersect (Read(p[Len(p)]) \ Written(p[Len(p)])) = {}

ValuesInv ==
  /\ Match(pending, does) /\ value \in Memories /\ meant \in Memories
  /\ Leads(pending, does, value, meant)

-----------------------------------------------------------------------------
(* Single operations.                                                      *)

\* What is written is among what is read.
LEMMA WrittenIsRead ==
  ASSUME NEW o
  PROVE  Written(o) \subseteq Read(o)
BY DEF Written, Read

LEMMA DoneIs ==
  ASSUME NEW o, NEW f \in Computations, NEW m \in Memories
  PROVE  /\ Done(o, f, m) \in Memories
         /\ \A v \in Vars : v \in Written(o) => Done(o, f, m)[v] = f[m]
         /\ \A v \in Vars : v \notin Written(o) => Done(o, f, m)[v] = m[v]
BY DEF Done, Memories, Computations

\* Memories are the same if all values in them are.
LEMMA SameMemory ==
  ASSUME NEW m \in Memories, NEW k \in Memories, \A v \in Vars : m[v] = k[v]
  PROVE  m = k
BY DEF Memories

\* An operation computes the same if what it reads is the same.
LEMMA SameResult ==
  ASSUME NEW o, NEW f, LooksAt(o, f), NEW m \in Memories, NEW k \in Memories,
         \A v \in Vars : v \in Read(o) => m[v] = k[v]
  PROVE  f[m] = f[k]
BY DEF LooksAt

\* Operations that do not conflict can be done in either order.
LEMMA Commute ==
  ASSUME NEW a, NEW b, ~Conflict(a, b), NEW f \in Computations, NEW g \in Computations,
         LooksAt(a, f), LooksAt(b, g), NEW m \in Memories
  PROVE  Done(a, f, Done(b, g, m)) = Done(b, g, Done(a, f, m))
<1>1. /\ Written(a) \intersect Read(b) = {} /\ Written(b) \intersect Read(a) = {}
      /\ Written(a) \intersect Written(b) = {}
  BY WrittenIsRead DEF Conflict
<1> DEFINE x == Done(a, f, m)
           y == Done(b, g, m)
<1>2. /\ x \in Memories
      /\ \A v \in Vars : v \in Written(a) => x[v] = f[m]
      /\ \A v \in Vars : v \notin Written(a) => x[v] = m[v]
  BY DoneIs
<1>3. /\ y \in Memories
      /\ \A v \in Vars : v \in Written(b) => y[v] = g[m]
      /\ \A v \in Vars : v \notin Written(b) => y[v] = m[v]
  BY DoneIs
<1> HIDE DEF x, y
<1>4. f[y] = f[m]
  <2>1. \A v \in Vars : v \in Read(a) => y[v] = m[v]
    BY <1>1, <1>3
  <2> QED BY <2>1, <1>3, SameResult
<1>5. g[x] = g[m]
  <2>1. \A v \in Vars : v \in Read(b) => x[v] = m[v]
    BY <1>1, <1>2
  <2> QED BY <2>1, <1>2, SameResult
<1>6. /\ Done(a, f, y) \in Memories
      /\ \A v \in Vars : v \in Written(a) => Done(a, f, y)[v] = f[y]
      /\ \A v \in Vars : v \notin Written(a) => Done(a, f, y)[v] = y[v]
  BY <1>3, DoneIs
<1>7. /\ Done(b, g, x) \in Memories
      /\ \A v \in Vars : v \in Written(b) => Done(b, g, x)[v] = g[x]
      /\ \A v \in Vars : v \notin Written(b) => Done(b, g, x)[v] = x[v]
  BY <1>2, DoneIs
<1>8. \A v \in Vars : Done(a, f, y)[v] = Done(b, g, x)[v]
  BY <1>1, <1>2, <1>3, <1>4, <1>5, <1>6, <1>7
<1>9. Done(a, f, y) = Done(b, g, x)
  BY <1>6, <1>7, <1>8, SameMemory
<1> QED BY <1>9 DEF x, y

-----------------------------------------------------------------------------
(* Operations in turn.                                                     *)

\* A set of natural numbers that is not empty has a least element.
LEMMA LeastOf ==
  ASSUME NEW S \in SUBSET Nat, S # {}
  PROVE  \E m \in S : \A x \in S : m <= x
<1> DEFINE R == OpToRel(<, Nat)
<1>1. IsWellFoundedOn(R, Nat)
  BY NatLessThanWellFounded
<1>2. PICK m \in S : \A y \in S : ~(<<y, m>> \in R)
  BY <1>1, WFMin
<1>3. \A y \in S : ~(y < m)
  BY <1>2 DEF OpToRel
<1> QED BY <1>3

\* What none of the operations from a + 1 to b writes keeps its value.
LEMMA KeepsValue ==
  ASSUME NEW p, NEW d, NEW M, NEW x, NEW y, Match(p, d), Between(p, d, M, x, y),
         NEW a \in 0..Len(p), NEW b \in a..Len(p), NEW v \in Vars,
         \A k \in a + 1..b : v \notin Written(p[k])
  PROVE  M[b][v] = M[a][v]
<1>1. Len(p) \in Nat /\ a \in Nat /\ b \in Nat
  BY LenProperties DEF Match
<1> DEFINE S == {k \in Nat : a <= k /\ k <= b /\ M[k][v] # M[a][v]}
<1>2. SUFFICES ASSUME S # {} PROVE FALSE
  BY <1>1
<1>3. PICK k \in S : \A z \in S : k <= z
  BY <1>2, LeastOf
<1>4. /\ k \in Nat /\ a <= k /\ k <= b /\ M[k][v] # M[a][v] /\ k # a
  BY <1>3
<1>5. k - 1 \in Nat /\ a <= k - 1 /\ k - 1 <= b /\ ~(k <= k - 1) /\ k \in 1..Len(p)
      /\ k \in a + 1..b
  BY <1>1, <1>4
<1>6. M[k - 1][v] = M[a][v]
  BY <1>3, <1>5
<1> HIDE DEF S
<1>7. M[k] = Done(p[k], d[k], M[k - 1]) /\ M[k - 1] \in Memories
  BY <1>1, <1>4, <1>5 DEF Between
<1>8. d[k] \in Computations
  BY <1>5, ElementOfSeq DEF Match
<1>9. M[k][v] = M[k - 1][v]
  <2>1. v \notin Written(p[k])
    BY <1>5
  <2>2. PICK m \in Memories : m = M[k - 1]
    BY <1>7
  <2>3. PICK f \in Computations : f = d[k]
    BY <1>8
  <2>4. \A z \in Vars : z \notin Written(p[k]) => Done(p[k], f, m)[z] = m[z]
    BY DoneIs
  <2>5. Done(p[k], f, m)[v] = m[v]
    BY <2>1, <2>4
  <2> QED BY <1>7, <2>2, <2>3, <2>5
<1> QED BY <1>4, <1>6, <1>9

\* What there is at k in between.
LEMMA BetweenAt ==
  ASSUME NEW p, NEW d, NEW M, NEW x, NEW y, Match(p, d), Between(p, d, M, x, y),
         NEW k \in 1..Len(p)
  PROVE  /\ p[k] \in Operations /\ d[k] \in Computations /\ LooksAt(p[k], d[k])
         /\ M[k - 1] \in Memories /\ M[k] \in Memories
         /\ M[k] = Done(p[k], d[k], M[k - 1])
<1>1. Len(p) \in Nat /\ Len(d) = Len(p) /\ k - 1 \in 0..Len(p) /\ k \in 0..Len(p)
  BY LenProperties DEF Match
<1>2. p[k] \in Operations /\ d[k] \in Computations
  BY <1>1, ElementOfSeq DEF Match
<1> QED BY <1>1, <1>2 DEF Match, Between

\* To show that M goes from x to y, and that p and d match, look at each place.
LEMMA LeadsIs ==
  ASSUME NEW p \in Seq(Operations), NEW d \in Seq(Computations), Len(d) = Len(p),
         NEW M, NEW x, NEW y,
         M \in [0..Len(p) -> Memories], M[0] = x, M[Len(p)] = y,
         \A k \in 1..Len(p) : LooksAt(p[k], d[k]) /\ M[k] = Done(p[k], d[k], M[k - 1])
  PROVE  Match(p, d) /\ Leads(p, d, x, y)
BY DEF Match, Leads, Between

-----------------------------------------------------------------------------
(* What InOrder does with sequences.                                       *)

LEMMA RemoveAtIs ==
  ASSUME NEW S, NEW s \in Seq(S), NEW i \in 1..Len(s)
  PROVE  /\ RemoveAt(s, i) \in Seq(S) /\ Len(RemoveAt(s, i)) = Len(s) - 1
         /\ \A k \in 1..Len(s) - 1 :
              RemoveAt(s, i)[k] = IF k < i THEN s[k] ELSE s[k + 1]
<1> DEFINE a == SubSeq(s, 1, i - 1)
           b == SubSeq(s, i + 1, Len(s))
<1>1. Len(s) \in Nat /\ \A k \in 1..Len(s) : s[k] \in S
  BY LenProperties, ElementOfSeq
<1>2. a \in Seq(S) /\ Len(a) = i - 1 /\ \A k \in 1..i - 1 : a[k] = s[k]
  <2>1. \A k \in 1..i - 1 : s[k] \in S
    BY <1>1
  <2>2. /\ a \in Seq(S) /\ Len(a) = IF 1 <= i - 1 THEN i - 1 - 1 + 1 ELSE 0
        /\ \A k \in 1..i - 1 - 1 + 1 : a[k] = s[1 + k - 1]
    BY <2>1, SubSeqProperties
  <2> HIDE DEF a
  <2> QED BY <1>1, <2>2
<1>3. /\ b \in Seq(S) /\ Len(b) = Len(s) - i
      /\ \A k \in 1..Len(s) - i : b[k] = s[i + k]
  <2>1. \A k \in i + 1..Len(s) : s[k] \in S
    BY <1>1
  <2>2. /\ b \in Seq(S) /\ Len(b) = IF i + 1 <= Len(s) THEN Len(s) - (i + 1) + 1 ELSE 0
        /\ \A k \in 1..Len(s) - (i + 1) + 1 : b[k] = s[(i + 1) + k - 1]
    BY <1>1, <2>1, SubSeqProperties
  <2> HIDE DEF b
  <2>3. Len(s) - (i + 1) + 1 = Len(s) - i /\ Len(b) = Len(s) - i
    BY <1>1, <2>2
  <2>4. ASSUME NEW k \in 1..Len(s) - i
        PROVE  b[k] = s[i + k]
    <3>1. b[k] = s[(i + 1) + k - 1]
      BY <1>1, <2>2, <2>3
    <3>2. (i + 1) + k - 1 = i + k
      BY <1>1
    <3> QED BY <3>1, <3>2
  <2> QED BY <2>2, <2>3, <2>4
<1>4. RemoveAt(s, i) = a \o b
  BY DEF RemoveAt
<1> HIDE DEF a, b
<1> DEFINE q == a \o b
<1>5. /\ q \in Seq(S) /\ Len(q) = Len(a) + Len(b)
      /\ \A k \in 1..Len(a) + Len(b) : q[k] = IF k <= Len(a) THEN a[k] ELSE b[k - Len(a)]
  BY <1>2, <1>3, ConcatProperties
<1> HIDE DEF q
<1>6. Len(a) + Len(b) = Len(s) - 1
  BY <1>1, <1>2, <1>3
<1>7. ASSUME NEW k \in 1..Len(s) - 1
      PROVE  q[k] = IF k < i THEN s[k] ELSE s[k + 1]
  <2>1. CASE k < i
    BY <1>1, <1>2, <1>5, <1>6, <2>1
  <2>2. CASE ~(k < i)
    <3>1. k - (i - 1) \in 1..Len(s) - i /\ i + (k - (i - 1)) = k + 1 /\ ~(k <= i - 1)
      BY <1>1, <2>2
    <3>2. q[k] = b[k - (i - 1)]
      BY <1>2, <1>5, <1>6, <3>1
    <3> QED BY <1>3, <2>2, <3>1, <3>2
  <2> QED BY <2>1, <2>2
<1> QED BY <1>4, <1>5, <1>6, <1>7 DEF q

LEMMA FrontIs ==
  ASSUME NEW S, NEW s \in Seq(S), s # << >>
  PROVE  /\ Front(s) \in Seq(S) /\ Len(Front(s)) = Len(s) - 1
         /\ \A k \in 1..Len(s) - 1 : Front(s)[k] = s[k]
<1>1. Len(s) \in Nat /\ Len(s) # 0 /\ \A k \in 1..Len(s) : s[k] \in S
  BY LenProperties, EmptySeq, ElementOfSeq
<1>2. \A k \in 1..Len(s) - 1 : s[k] \in S
  BY <1>1
<1> DEFINE a == SubSeq(s, 1, Len(s) - 1)
<1>3. /\ a \in Seq(S) /\ Len(a) = IF 1 <= Len(s) - 1 THEN Len(s) - 1 - 1 + 1 ELSE 0
      /\ \A k \in 1..Len(s) - 1 - 1 + 1 : a[k] = s[1 + k - 1]
  BY <1>1, <1>2, SubSeqProperties
<1>4. Front(s) = a
  BY DEF Front
<1> HIDE DEF a
<1> QED BY <1>1, <1>3, <1>4

\* The element at i is replaced, and the last dropped ...
Earlier(s, i, a) == Front([s EXCEPT ![i] = a])

\* ... or the last dropped, and that at i moved to the end and replaced.
Later(s, i, a) == Append(RemoveAt(Front(s), i), a)

\* The sequence q is what these make of s.
IsEarlier(q, s, i, a) ==
  Len(q) = Len(s) - 1 /\ \A k \in 1..Len(s) - 1 : q[k] = IF k = i THEN a ELSE s[k]
IsLater(q, s, i, a) ==
  /\ Len(q) = Len(s) - 1 /\ q[Len(s) - 1] = a
  /\ \A k \in 1..Len(s) - 2 : q[k] = IF k < i THEN s[k] ELSE s[k + 1]

LEMMA EarlierIs ==
  ASSUME NEW S, NEW s \in Seq(S), NEW i \in 1..Len(s) - 1, NEW a \in S
  PROVE  Earlier(s, i, a) \in Seq(S) /\ IsEarlier(Earlier(s, i, a), s, i, a)
<1> DEFINE n == Len(s)
<1>1. n \in Nat /\ i \in 1..Len(s)
  BY LenProperties
<1> DEFINE t == [s EXCEPT ![i] = a]
<1>2. t \in Seq(S) /\ Len(t) = n /\ \A k \in 1..n : t[k] = IF k = i THEN a ELSE s[k]
  BY <1>1, ExceptSeq
<1> HIDE DEF t
<1>3. t # << >>
  BY <1>1, <1>2, EmptySeq
<1>4. /\ Front(t) \in Seq(S) /\ Len(Front(t)) = Len(t) - 1
      /\ \A k \in 1..Len(t) - 1 : Front(t)[k] = t[k]
  BY ONLY <1>2, <1>3, FrontIs
<1>5. /\ Front(t) \in Seq(S) /\ Len(Front(t)) = n - 1
      /\ \A k \in 1..n - 1 : Front(t)[k] = IF k = i THEN a ELSE s[k]
  BY <1>1, <1>2, <1>4
<1> QED BY <1>5 DEF t, Earlier, IsEarlier

LEMMA LaterIs ==
  ASSUME NEW S, NEW s \in Seq(S), NEW i \in 1..Len(s) - 1, NEW a \in S
  PROVE  Later(s, i, a) \in Seq(S) /\ IsLater(Later(s, i, a), s, i, a)
<1>0. PICK n, q : n = Len(s) /\ q = Later(s, i, a)
  OBVIOUS
<1>1. n \in Nat /\ n # 0 /\ s # << >> /\ (n - 1) - 1 = n - 2 /\ (n - 2) + 1 = n - 1 /\ n - 2 \in Nat
  BY <1>0, LenProperties, EmptySeq
<1> DEFINE t == Front(s)
           r == RemoveAt(t, i)
<1>2. t \in Seq(S) /\ Len(t) = n - 1 /\ \A k \in 1..n - 1 : t[k] = s[k]
  BY <1>0, <1>1, FrontIs
<1> HIDE DEF t
<1>3. i \in 1..Len(t)
  BY <1>0, <1>2
<1>4. /\ r \in Seq(S) /\ Len(r) = Len(t) - 1
      /\ \A k \in 1..Len(t) - 1 : r[k] = IF k < i THEN t[k] ELSE t[k + 1]
  BY ONLY <1>2, <1>3, RemoveAtIs
<1>5. q = Append(r, a)
  BY <1>0 DEF t, Later
<1> HIDE DEF r
<1>6. /\ q \in Seq(S) /\ Len(q) = Len(r) + 1 /\ q[Len(r) + 1] = a
      /\ \A k \in 1..Len(r) : q[k] = r[k]
  BY ONLY <1>4, <1>5, a \in S, AppendProperties
<1>7. Len(r) = n - 2 /\ Len(r) + 1 = n - 1
  BY <1>1, <1>2, <1>4
<1>8. ASSUME NEW k \in 1..n - 2
      PROVE  q[k] = IF k < i THEN s[k] ELSE s[k + 1]
  <2>1. k \in 1..n - 1 /\ k + 1 \in 1..n - 1
    BY <1>1
  <2>2. q[k] = r[k] /\ r[k] = IF k < i THEN t[k] ELSE t[k + 1]
    BY <1>1, <1>2, <1>4, <1>6, <1>7
  <2>3. t[k] = s[k] /\ t[k + 1] = s[k + 1]
    BY <1>2, <2>1
  <2> QED BY <2>2, <2>3
<1> QED BY <1>0, <1>6, <1>7, <1>8 DEF IsLater

-----------------------------------------------------------------------------
(* The steps.                                                              *)

\* An operation is scheduled.
LEMMA LeadsMore ==
  ASSUME NEW p, NEW d, NEW x, NEW y, Match(p, d), Leads(p, d, x, y),
         NEW o \in Operations, NEW f \in Computations, LooksAt(o, f)
  PROVE  Match(Append(p, o), Append(d, f)) /\ Leads(Append(p, o), Append(d, f), x, Done(o, f, y))
<1>1. PICK M : Between(p, d, M, x, y)
  BY DEF Leads
<1>2. Len(p) \in Nat /\ p \in Seq(Operations) /\ d \in Seq(Computations) /\ Len(d) = Len(p)
  BY LenProperties DEF Match
<1> DEFINE n == Len(p)
           q == Append(p, o)
           e == Append(d, f)
<1>3. /\ q \in Seq(Operations) /\ Len(q) = n + 1 /\ q[n + 1] = o
      /\ \A k \in 1..n : q[k] = p[k]
  BY <1>2, AppendProperties
<1>4. /\ e \in Seq(Computations) /\ Len(e) = n + 1 /\ e[n + 1] = f
      /\ \A k \in 1..n : e[k] = d[k]
  BY <1>2, AppendProperties
<1> HIDE DEF q, e
<1>5. M \in [0..n -> Memories] /\ M[0] = x /\ M[n] = y /\ y \in Memories
  BY <1>1, <1>2 DEF Between
<1>6. Done(o, f, y) \in Memories
  BY <1>5, DoneIs
<1> DEFINE N == [k \in 0..n + 1 |-> IF k = n + 1 THEN Done(o, f, y) ELSE M[k]]
<1>7. N \in [0..n + 1 -> Memories] /\ N[0] = x /\ N[n + 1] = Done(o, f, y)
  BY <1>2, <1>5, <1>6
<1>8. ASSUME NEW k \in 1..n + 1
      PROVE  LooksAt(q[k], e[k]) /\ N[k] = Done(q[k], e[k], N[k - 1])
  <2>1. CASE k = n + 1
    BY <1>2, <1>3, <1>4, <1>5, <2>1
  <2>2. CASE k # n + 1
    <3>1. k \in 1..n
      BY <1>2, <2>2
    <3>2. LooksAt(p[k], d[k]) /\ M[k] = Done(p[k], d[k], M[k - 1])
      BY <1>1, <3>1, BetweenAt
    <3>3. q[k] = p[k] /\ e[k] = d[k]
      BY <1>3, <1>4, <3>1
    <3>4. N[k] = M[k] /\ N[k - 1] = M[k - 1]
      BY <1>2, <3>1
    <3> QED BY <3>2, <3>3, <3>4
  <2> QED BY <2>1, <2>2
<1> HIDE DEF N
<1>9. Match(q, e) /\ Leads(q, e, x, Done(o, f, y))
  BY <1>3, <1>4, <1>7, <1>8, LeadsIs
<1> QED BY <1>9 DEF q, e

\* An operation takes effect before others, with none of which it conflicts.
LEMMA LeadsEffect ==
  ASSUME NEW p, NEW d, NEW x, NEW y, Match(p, d), Leads(p, d, x, y), NEW i \in 1..Len(p),
         \A k \in 1..i - 1 : ~Conflict(p[i], p[k])
  PROVE  /\ Match(RemoveAt(p, i), RemoveAt(d, i))
         /\ Leads(RemoveAt(p, i), RemoveAt(d, i), Done(p[i], d[i], x), y)
<1>1. PICK M : Between(p, d, M, x, y)
  BY DEF Leads
<1>2. /\ Len(p) \in Nat /\ p \in Seq(Operations) /\ d \in Seq(Computations) /\ Len(d) = Len(p)
      /\ i \in 1..Len(d)
  BY LenProperties DEF Match
<1> DEFINE n == Len(p)
           q == RemoveAt(p, i)
           e == RemoveAt(d, i)
<1>3. /\ q \in Seq(Operations) /\ Len(q) = n - 1
      /\ \A k \in 1..n - 1 : q[k] = IF k < i THEN p[k] ELSE p[k + 1]
  BY ONLY <1>2, i \in 1..Len(p), RemoveAtIs
<1>4. /\ e \in Seq(Computations) /\ Len(e) = n - 1
      /\ \A k \in 1..n - 1 : e[k] = IF k < i THEN d[k] ELSE d[k + 1]
  BY ONLY <1>2, RemoveAtIs
<1> HIDE DEF q, e
<1>5. M \in [0..n -> Memories] /\ M[0] = x /\ M[n] = y
  BY <1>1, <1>2 DEF Between
<1>6. d[i] \in Computations /\ LooksAt(p[i], d[i]) /\ M[i] = Done(p[i], d[i], M[i - 1])
  BY <1>1, BetweenAt
<1>7. \A m \in Memories : Done(p[i], d[i], m) \in Memories
  BY <1>6, DoneIs
<1> DEFINE N == [k \in 0..n - 1 |-> IF k < i THEN Done(p[i], d[i], M[k]) ELSE M[k + 1]]
<1>8. N \in [0..n - 1 -> Memories]
  BY <1>2, <1>5, <1>7
<1>9. N[0] = Done(p[i], d[i], x) /\ N[n - 1] = y
  BY <1>2, <1>5, <1>6
<1>10. ASSUME NEW k \in 1..n - 1
       PROVE  LooksAt(q[k], e[k]) /\ N[k] = Done(q[k], e[k], N[k - 1])
  <2>1. CASE k < i
    <3>1. k \in 1..n /\ k \in 1..i - 1 /\ k - 1 < i
      BY <1>2, <2>1
    <3>2. /\ d[k] \in Computations /\ LooksAt(p[k], d[k]) /\ M[k - 1] \in Memories
          /\ M[k] = Done(p[k], d[k], M[k - 1])
      BY <1>1, <3>1, BetweenAt
    <3>3. q[k] = p[k] /\ e[k] = d[k]
      BY <1>3, <1>4, <2>1
    <3>4. N[k] = Done(p[i], d[i], M[k]) /\ N[k - 1] = Done(p[i], d[i], M[k - 1])
      BY <1>2, <2>1, <3>1
    <3> DEFINE m == M[k - 1]
    <3>5. ~Conflict(p[i], p[k]) /\ m \in Memories
      BY <3>1, <3>2
    <3>6. Done(p[i], d[i], Done(p[k], d[k], m)) = Done(p[k], d[k], Done(p[i], d[i], m))
      <4> HIDE DEF m
      <4> QED BY ONLY <1>6, <3>2, <3>5, Commute
    <3> HIDE DEF N
    <3> QED BY <3>2, <3>3, <3>4, <3>6
  <2>2. CASE ~(k < i)
    <3>1. k + 1 \in 1..n /\ (k + 1) - 1 = k
      BY <1>2, <2>2
    <3>2. LooksAt(p[k + 1], d[k + 1]) /\ M[k + 1] = Done(p[k + 1], d[k + 1], M[(k + 1) - 1])
      BY ONLY <1>1, <3>1, Match(p, d), BetweenAt
    <3>3. q[k] = p[k + 1] /\ e[k] = d[k + 1]
      BY <1>3, <1>4, <2>2
    <3>4. N[k] = M[k + 1]
      BY <1>2, <2>2
    <3>5. N[k - 1] = M[k]
      <4>1. CASE k = i
        BY <1>2, <1>6, <4>1
      <4>2. CASE k # i
        BY <1>2, <2>2, <4>2
      <4> QED BY <4>1, <4>2
    <3> HIDE DEF N
    <3> QED BY <3>1, <3>2, <3>3, <3>4, <3>5
  <2> QED BY <2>1, <2>2
<1> HIDE DEF N
<1>11. Match(q, e) /\ Leads(q, e, Done(p[i], d[i], x), y)
  <2>1. /\ Len(e) = Len(q) /\ N \in [0..Len(q) -> Memories] /\ N[Len(q)] = y
        /\ \A k \in 1..Len(q) : LooksAt(q[k], e[k]) /\ N[k] = Done(q[k], e[k], N[k - 1])
    BY <1>3, <1>4, <1>8, <1>9, <1>10
  <2> QED BY <1>3, <1>4, <1>9, <2>1, LeadsIs
<1> QED BY <1>11 DEF q, e

\* What the operations o and then n compute together, if o computes f, n computes g, and all
\* that n reads and o does not write is as in x.
Joins(o, f, g, x) ==
  [m \in Memories |-> g[[v \in Vars |-> IF v \in Written(o) THEN f[m] ELSE x[v]]]]

\* The memory z has the value a for what o writes, and else is as x.
Mixed(z, o, a, x) ==
  /\ \A v \in Vars : v \in Written(o) => z[v] = a
  /\ \A v \in Vars : v \notin Written(o) => z[v] = x[v]

LEMMA JoinsIs ==
  ASSUME NEW o, NEW f \in Computations, NEW g \in Computations, LooksAt(o, f),
         NEW x \in Memories
  PROVE  /\ Joins(o, f, g, x) \in Computations /\ LooksAt(o, Joins(o, f, g, x))
         /\ \A m \in Memories : \E z \in Memories :
              Joins(o, f, g, x)[m] = g[z] /\ Mixed(z, o, f[m], x)
<1> DEFINE Z(m) == [v \in Vars |-> IF v \in Written(o) THEN f[m] ELSE x[v]]
           J == Joins(o, f, g, x)
<1>1. \A m \in Memories : f[m] \in Values /\ g[m] \in Values
  BY DEF Computations
<1>2. \A m \in Memories : Z(m) \in Memories
  BY <1>1 DEF Memories
<1>3. J = [m \in Memories |-> g[Z(m)]]
  BY DEF Joins
<1>4. ASSUME NEW m \in Memories, NEW v \in Vars
      PROVE  Z(m)[v] = IF v \in Written(o) THEN f[m] ELSE x[v]
  OBVIOUS
<1>5. ASSUME NEW m \in Memories, NEW k \in Memories, f[m] = f[k]
      PROVE  Z(m) = Z(k)
  BY <1>5
<1> HIDE DEF Z, J
<1>6. J \in Computations
  BY <1>1, <1>2, <1>3 DEF Computations
<1>7. LooksAt(o, J)
  <2>1. ASSUME NEW m \in Memories, NEW k \in Memories,
               \A v \in Read(o) \intersect Vars : m[v] = k[v]
        PROVE  J[m] = J[k]
    <3>1. f[m] = f[k]
      BY <2>1 DEF LooksAt
    <3>2. Z(m) = Z(k)
      BY <3>1, <1>5
    <3> QED BY <3>2, <1>3
  <2> QED BY <2>1 DEF LooksAt
<1>8. \A m \in Memories : \E z \in Memories :
        J[m] = g[z] /\ Mixed(z, o, f[m], x)
  BY <1>2, <1>3, <1>4 DEF Mixed
<1> QED BY <1>6, <1>7, <1>8 DEF J

\* How many operations are joined is of no matter.
LEMMA SameVars ==
  ASSUME NEW o, NEW a, o.var = a.var
  PROVE  /\ Written(o) = Written(a) /\ Read(o) = Read(a)
         /\ \A f : LooksAt(a, f) => LooksAt(o, f)
         /\ \A f, m : Done(o, f, m) = Done(a, f, m)
<1>1. Written(o) = Written(a) /\ Read(o) = Read(a)
  BY DEF Written, Read
<1> QED BY <1>1 DEF LooksAt, Done

\* The two done as one are the first and then the second.
LEMMA JoinsDone ==
  ASSUME NEW o, NEW n, Written(o) = Written(n), NEW f \in Computations, NEW g \in Computations,
         LooksAt(o, f), LooksAt(n, g), NEW x \in Memories, NEW J, J = Joins(o, f, g, x),
         NEW m \in Memories, NEW z \in Memories, z = Done(o, f, m),
         \A v \in Vars : v \in Read(n) \ Written(n) => z[v] = x[v]
  PROVE  Done(o, J, m) = Done(n, g, z)
<1>1. /\ \A v \in Vars : v \in Written(o) => z[v] = f[m]
      /\ \A v \in Vars : v \notin Written(o) => z[v] = m[v]
  BY DoneIs
<1>2. J \in Computations
  BY JoinsIs
<1>3. J[m] = g[z]
  <2>1. PICK y \in Memories :
          J[m] = g[y] /\ Mixed(y, o, f[m], x)
    <3>1. \A k \in Memories : \E y \in Memories :
            Joins(o, f, g, x)[k] = g[y] /\ Mixed(y, o, f[k], x)
      BY ONLY f \in Computations, g \in Computations, LooksAt(o, f), x \in Memories, JoinsIs
    <3> QED BY ONLY <3>1, m \in Memories, J = Joins(o, f, g, x)
  <2>2. \A v \in Vars : v \in Read(n) => y[v] = z[v]
    <3>1. /\ \A v \in Vars : v \in Written(o) => y[v] = f[m]
          /\ \A v \in Vars : v \notin Written(o) => y[v] = x[v]
      BY <2>1 DEF Mixed
    <3> QED BY <1>1, <3>1
  <2>3. g[y] = g[z]
    BY ONLY <2>1, <2>2, y \in Memories, z \in Memories, LooksAt(n, g), SameResult
  <2> QED BY <2>1, <2>3
<1>4. /\ Done(o, J, m) \in Memories
      /\ \A v \in Vars : v \in Written(o) => Done(o, J, m)[v] = J[m]
      /\ \A v \in Vars : v \notin Written(o) => Done(o, J, m)[v] = m[v]
  BY <1>2, DoneIs
<1>5. /\ Done(n, g, z) \in Memories
      /\ \A v \in Vars : v \in Written(n) => Done(n, g, z)[v] = g[z]
      /\ \A v \in Vars : v \notin Written(n) => Done(n, g, z)[v] = z[v]
  BY ONLY g \in Computations, z \in Memories, DoneIs
<1>6. \A v \in Vars : Done(o, J, m)[v] = Done(n, g, z)[v]
  BY <1>1, <1>3, <1>4, <1>5
<1> QED BY <1>4, <1>5, <1>6, SameMemory

\* The last operation is done with an earlier one, past those in between.
LEMMA LeadsEarlier ==
  ASSUME NEW p, NEW d, NEW x \in Memories, NEW y, Match(p, d), Leads(p, d, x, y),
         NEW i \in 1..Len(p) - 1, Written(p[i]) = Written(p[Len(p)]),
         FreeIn(p, Len(p), i + 1..Len(p) - 1), KnownIn(p),
         NEW o \in Operations, o.var = p[i].var
  PROVE  /\ Match(Earlier(p, i, o), Earlier(d, i, Joins(p[i], d[i], d[Len(p)], x)))
         /\ Leads(Earlier(p, i, o), Earlier(d, i, Joins(p[i], d[i], d[Len(p)], x)), x, y)
<1>0. PICK n, J, q, e : /\ n = Len(p) /\ J = Joins(p[i], d[i], d[n], x)
                        /\ q = Earlier(p, i, o) /\ e = Earlier(d, i, J)
  OBVIOUS
<1> n = Len(p) /\ J = Joins(p[i], d[i], d[n], x)
  BY <1>0
<1> /\ Written(p[i]) = Written(p[n])
    /\ \A k \in i + 1..n - 1 : ~Conflict(p[n], p[k])
    /\ \A k \in 1..n - 1 : Written(p[k]) \intersect (Read(p[n]) \ Written(p[n])) = {}
  BY DEF FreeIn, KnownIn
<1>a. p \in Seq(Operations) /\ d \in Seq(Computations) /\ Len(d) = n /\ n \in Nat
  BY LenProperties DEF Match
<1>b. J \in Computations
  <2>1. i \in 1..Len(p) /\ i \in 1..Len(d) /\ n \in 1..Len(d)
    BY <1>a
  <2>2. d[i] \in Computations /\ d[n] \in Computations /\ LooksAt(p[i], d[i])
    BY <1>a, <2>1, ElementOfSeq DEF Match
  <2> QED BY ONLY <2>2, x \in Memories, J = Joins(p[i], d[i], d[n], x), JoinsIs
<1>c. q \in Seq(Operations) /\ IsEarlier(q, p, i, o)
  BY ONLY <1>0, <1>a, i \in 1..Len(p) - 1, o \in Operations, EarlierIs
<1>d. e \in Seq(Computations) /\ IsEarlier(e, d, i, J)
  <2>1. i \in 1..Len(d) - 1
    BY <1>a
  <2> QED BY ONLY <1>0, <1>a, <1>b, <2>1, EarlierIs
<1> /\ q \in Seq(Operations) /\ e \in Seq(Computations) /\ Len(q) = n - 1 /\ Len(e) = n - 1
    /\ \A k \in 1..n - 1 : /\ q[k] = IF k = i THEN o ELSE p[k]
                           /\ e[k] = IF k = i THEN J ELSE d[k]
  BY <1>a, <1>c, <1>d DEF IsEarlier
<1>1. PICK M : Between(p, d, M, x, y)
  BY DEF Leads
<1>2. n \in Nat /\ n \in 1..Len(p) /\ i \in 1..Len(p) /\ n - 1 \in 0..Len(p)
  BY LenProperties DEF Match
<1>3. M \in [0..n -> Memories] /\ M[0] = x /\ M[n] = y
  BY <1>1 DEF Between
<1>4. /\ d[n] \in Computations /\ LooksAt(p[n], d[n]) /\ M[n] = Done(p[n], d[n], M[n - 1])
  BY ONLY <1>1, <1>2, Match(p, d), BetweenAt
<1>5. /\ d[i] \in Computations /\ LooksAt(p[i], d[i]) /\ M[i] = Done(p[i], d[i], M[i - 1])
      /\ M[i - 1] \in Memories /\ M[i] \in Memories
  BY ONLY <1>1, <1>2, Match(p, d), BetweenAt
<1>6. \A m \in Memories : Done(p[n], d[n], m) \in Memories
  BY <1>4, DoneIs
<1>7. J \in Computations /\ LooksAt(p[i], J)
  BY ONLY <1>4, <1>5, x \in Memories, J = Joins(p[i], d[i], d[n], x), JoinsIs
<1>8. Done(p[i], J, M[i - 1]) = Done(p[n], d[n], M[i])
  <2>1. ASSUME NEW v \in Vars, v \in Read(p[n]) \ Written(p[n])
        PROVE  M[i][v] = x[v]
    <3>1. \A k \in 0 + 1..i : v \notin Written(p[k])
      <4>1. ASSUME NEW k \in 0 + 1..i
            PROVE  v \notin Written(p[k])
        <5>1. k \in 1..n - 1
          BY <1>2
        <5>2. Written(p[k]) \intersect (Read(p[n]) \ Written(p[n])) = {}
          BY <5>1
        <5> QED BY ONLY <5>2, <2>1
      <4> QED BY <4>1
    <3>2. 0 \in 0..Len(p) /\ i \in 0..Len(p)
      BY <1>2
    <3>3. M[i][v] = M[0][v]
      BY ONLY <1>1, <3>1, <3>2, Match(p, d), v \in Vars, KeepsValue
    <3> QED BY <3>3, <1>3
  <2>2. PICK f \in Computations, g \in Computations : f = d[i] /\ g = d[n]
    BY <1>4, <1>5
  <2>3. PICK m \in Memories, z \in Memories : m = M[i - 1] /\ z = M[i]
    BY <1>5
  <2>4. /\ LooksAt(p[i], f) /\ LooksAt(p[n], g) /\ J = Joins(p[i], f, g, x) /\ z = Done(p[i], f, m)
        /\ \A v \in Vars : v \in Read(p[n]) \ Written(p[n]) => z[v] = x[v]
    BY <1>4, <1>5, <2>1, <2>2, <2>3
  <2>5. Done(p[i], J, m) = Done(p[n], g, z)
    BY ONLY <2>4, x \in Memories, Written(p[i]) = Written(p[n]), f \in Computations,
            g \in Computations, m \in Memories, z \in Memories, JoinsDone
  <2> QED BY <2>2, <2>3, <2>5
<1> DEFINE N == [k \in 0..n - 1 |-> IF k < i THEN M[k] ELSE Done(p[n], d[n], M[k])]
<1>9. N \in [0..n - 1 -> Memories]
  BY <1>2, <1>3, <1>6
<1>10. N[0] = x /\ N[n - 1] = y
  BY <1>2, <1>3, <1>4
<1>11. ASSUME NEW k \in 1..n - 1
       PROVE  LooksAt(q[k], e[k]) /\ N[k] = Done(q[k], e[k], N[k - 1])
  <2>0. k \in 1..Len(p)
    BY <1>2
  <2>1. /\ d[k] \in Computations /\ LooksAt(p[k], d[k]) /\ M[k - 1] \in Memories
        /\ M[k] = Done(p[k], d[k], M[k - 1])
    BY ONLY <1>1, <2>0, Match(p, d), BetweenAt
  <2>2. CASE k < i
    <3>1. q[k] = p[k] /\ e[k] = d[k]
      BY <2>2
    <3>2. k \in 0..n - 1 /\ k - 1 \in 0..n - 1 /\ k - 1 < i
      BY <1>2, <2>2
    <3>3. N[k] = M[k] /\ N[k - 1] = M[k - 1]
      BY ONLY <2>2, <3>2
    <3> HIDE DEF N
    <3> QED BY <2>1, <3>1, <3>3
  <2>3. CASE k = i
    <3>1. q[k] = o /\ e[k] = J /\ N[k] = Done(p[n], d[n], M[i]) /\ N[k - 1] = M[i - 1]
      BY <1>2, <2>3
    <3> HIDE DEF N
    <3>2. LooksAt(o, J) /\ Done(o, J, M[i - 1]) = Done(p[i], J, M[i - 1])
      BY <1>7, SameVars
    <3> QED BY <1>8, <3>1, <3>2
  <2>4. CASE k > i
    <3>1. /\ q[k] = p[k] /\ e[k] = d[k] /\ N[k] = Done(p[n], d[n], M[k])
          /\ N[k - 1] = Done(p[n], d[n], M[k - 1]) /\ k \in i + 1..n - 1
      BY <1>2, <2>4
    <3> HIDE DEF N
    <3>2. ~Conflict(p[n], p[k])
      BY <3>1
    <3>3. PICK m \in Memories : m = M[k - 1]
      BY <2>1
    <3>4. Done(p[n], d[n], Done(p[k], d[k], m)) = Done(p[k], d[k], Done(p[n], d[n], m))
      BY ONLY <1>4, <2>1, <3>2, m \in Memories, Commute
    <3> QED BY <2>1, <3>1, <3>3, <3>4
  <2> QED BY <1>2, <2>2, <2>3, <2>4
<1> HIDE DEF N
<1>12. /\ Len(e) = Len(q) /\ N \in [0..Len(q) -> Memories] /\ N[Len(q)] = y
       /\ \A k \in 1..Len(q) : LooksAt(q[k], e[k]) /\ N[k] = Done(q[k], e[k], N[k - 1])
  BY <1>9, <1>10, <1>11
<1>z. Match(q, e) /\ Leads(q, e, x, y)
  BY <1>10, <1>12, LeadsIs
<1> QED BY <1>0, <1>z

\* The values m, but those that o writes are still as in b.
Back(o, b, m) == [v \in Vars |-> IF v \in Written(o) THEN b[v] ELSE m[v]]

LEMMA BackIs ==
  ASSUME NEW o, NEW b \in Memories, NEW m \in Memories
  PROVE  /\ Back(o, b, m) \in Memories
         /\ \A v \in Vars : v \in Written(o) => Back(o, b, m)[v] = b[v]
         /\ \A v \in Vars : v \notin Written(o) => Back(o, b, m)[v] = m[v]
BY DEF Back, Memories

\* What an operation a does that does not conflict with o is not changed by that.
LEMMA BackDone ==
  ASSUME NEW o, NEW a, ~Conflict(o, a), NEW b \in Memories, NEW m \in Memories,
         NEW g \in Computations, LooksAt(a, g)
  PROVE  Done(a, g, Back(o, b, m)) = Back(o, b, Done(a, g, m))
<1>1. Written(o) \intersect Read(a) = {} /\ Written(o) \intersect Written(a) = {}
  BY WrittenIsRead DEF Conflict
<1> DEFINE y == Back(o, b, m)
           z == Done(a, g, m)
<1>2. /\ y \in Memories
      /\ \A v \in Vars : v \in Written(o) => y[v] = b[v]
      /\ \A v \in Vars : v \notin Written(o) => y[v] = m[v]
  BY BackIs
<1>3. /\ z \in Memories
      /\ \A v \in Vars : v \in Written(a) => z[v] = g[m]
      /\ \A v \in Vars : v \notin Written(a) => z[v] = m[v]
  BY DoneIs
<1> HIDE DEF y, z
<1>4. g[y] = g[m]
  <2>1. \A v \in Vars : v \in Read(a) => y[v] = m[v]
    BY <1>1, <1>2
  <2> QED BY <1>2, <2>1, SameResult
<1>5. /\ Done(a, g, y) \in Memories
      /\ \A v \in Vars : v \in Written(a) => Done(a, g, y)[v] = g[y]
      /\ \A v \in Vars : v \notin Written(a) => Done(a, g, y)[v] = y[v]
  BY <1>2, DoneIs
<1>6. /\ Back(o, b, z) \in Memories
      /\ \A v \in Vars : v \in Written(o) => Back(o, b, z)[v] = b[v]
      /\ \A v \in Vars : v \notin Written(o) => Back(o, b, z)[v] = z[v]
  BY ONLY <1>3, b \in Memories, BackIs
<1>7. \A v \in Vars : Done(a, g, y)[v] = Back(o, b, z)[v]
  BY <1>1, <1>2, <1>3, <1>4, <1>5, <1>6
<1>8. Done(a, g, y) = Back(o, b, z)
  BY <1>5, <1>6, <1>7, SameMemory
<1> QED BY <1>8 DEF y, z

\* An earlier operation is done with the last, past those in between.
LEMMA LeadsLater ==
  ASSUME NEW p, NEW d, NEW x \in Memories, NEW y, Match(p, d), Leads(p, d, x, y),
         NEW i \in 1..Len(p) - 1, Written(p[i]) = Written(p[Len(p)]),
         FreeIn(p, i, i + 1..Len(p) - 1), KnownIn(p),
         NEW o \in Operations, o.var = p[i].var
  PROVE  /\ Match(Later(p, i, o), Later(d, i, Joins(p[i], d[i], d[Len(p)], x)))
         /\ Leads(Later(p, i, o), Later(d, i, Joins(p[i], d[i], d[Len(p)], x)), x, y)
<1>0. PICK n, J, q, e : /\ n = Len(p) /\ J = Joins(p[i], d[i], d[n], x)
                        /\ q = Later(p, i, o) /\ e = Later(d, i, J)
  OBVIOUS
<1> n = Len(p) /\ J = Joins(p[i], d[i], d[n], x)
  BY <1>0
<1> /\ Written(p[i]) = Written(p[n])
    /\ \A k \in i + 1..n - 1 : ~Conflict(p[i], p[k])
    /\ \A k \in 1..n - 1 : Written(p[k]) \intersect (Read(p[n]) \ Written(p[n])) = {}
  BY DEF FreeIn, KnownIn
<1>a. p \in Seq(Operations) /\ d \in Seq(Computations) /\ Len(d) = n /\ n \in Nat
  BY LenProperties DEF Match
<1>b. J \in Computations
  <2>1. i \in 1..Len(p) /\ i \in 1..Len(d) /\ n \in 1..Len(d)
    BY <1>a
  <2>2. d[i] \in Computations /\ d[n] \in Computations /\ LooksAt(p[i], d[i])
    BY <1>a, <2>1, ElementOfSeq DEF Match
  <2> QED BY ONLY <2>2, x \in Memories, J = Joins(p[i], d[i], d[n], x), JoinsIs
<1>c. q \in Seq(Operations) /\ IsLater(q, p, i, o)
  BY ONLY <1>0, <1>a, i \in 1..Len(p) - 1, o \in Operations, LaterIs
<1>d. e \in Seq(Computations) /\ IsLater(e, d, i, J)
  <2>1. i \in 1..Len(d) - 1
    BY <1>a
  <2> QED BY ONLY <1>0, <1>a, <1>b, <2>1, LaterIs
<1> /\ q \in Seq(Operations) /\ e \in Seq(Computations) /\ Len(q) = n - 1 /\ Len(e) = n - 1
    /\ \A k \in 1..n - 2 : /\ q[k] = IF k < i THEN p[k] ELSE p[k + 1]
                           /\ e[k] = IF k < i THEN d[k] ELSE d[k + 1]
    /\ q[n - 1] = o /\ e[n - 1] = J
  BY <1>a, <1>c, <1>d DEF IsLater
<1>1. PICK M : Between(p, d, M, x, y)
  BY DEF Leads
<1>2. n \in Nat /\ n \in 1..Len(p) /\ i \in 1..Len(p) /\ n - 1 \in 0..Len(p)
  BY LenProperties DEF Match
<1>3. M \in [0..n -> Memories] /\ M[0] = x /\ M[n] = y
  BY <1>1 DEF Between
<1>4. /\ d[n] \in Computations /\ LooksAt(p[n], d[n]) /\ M[n] = Done(p[n], d[n], M[n - 1])
      /\ M[n - 1] \in Memories
  BY ONLY <1>1, <1>2, Match(p, d), BetweenAt
<1>5. /\ d[i] \in Computations /\ LooksAt(p[i], d[i]) /\ M[i] = Done(p[i], d[i], M[i - 1])
      /\ M[i - 1] \in Memories /\ M[i] \in Memories
  BY ONLY <1>1, <1>2, Match(p, d), BetweenAt
<1>6. J \in Computations /\ LooksAt(p[i], J)
  BY ONLY <1>4, <1>5, x \in Memories, J = Joins(p[i], d[i], d[n], x), JoinsIs
<1> DEFINE b == M[i - 1]
           z == M[n - 1]
           m == Back(p[i], b, z)
<1>7. /\ m \in Memories
      /\ \A v \in Vars : v \in Written(p[i]) => m[v] = b[v]
      /\ \A v \in Vars : v \notin Written(p[i]) => m[v] = z[v]
  <2>1. b \in Memories /\ z \in Memories
    BY <1>4, <1>5
  <2> HIDE DEF b, z
  <2> QED BY ONLY <2>1, BackIs DEF m
<1>8. /\ \A v \in Vars : v \in Written(p[i]) => M[i][v] = d[i][b]
      /\ \A v \in Vars : v \notin Written(p[i]) => M[i][v] = b[v]
  <2>1. PICK f \in Computations, c \in Memories : f = d[i] /\ c = b
    BY <1>5
  <2>2. M[i] = Done(p[i], f, c)
    BY <1>5, <2>1
  <2>3. /\ \A v \in Vars : v \in Written(p[i]) => Done(p[i], f, c)[v] = f[c]
        /\ \A v \in Vars : v \notin Written(p[i]) => Done(p[i], f, c)[v] = c[v]
    BY ONLY f \in Computations, c \in Memories, DoneIs
  <2> QED BY ONLY <2>1, <2>2, <2>3 DEF Earlier
<1>9. ASSUME NEW v \in Vars, v \in Read(p[i])
      PROVE  z[v] = M[i][v]
  <2>1. \A k \in i + 1..n - 1 : v \notin Written(p[k])
    <3>1. ASSUME NEW k \in i + 1..n - 1
          PROVE  v \notin Written(p[k])
      <4>1. ~Conflict(p[i], p[k])
        OBVIOUS
      <4> QED BY ONLY <4>1, <1>9 DEF Conflict
    <3> QED BY <3>1
  <2>2. i \in 0..Len(p) /\ n - 1 \in i..Len(p)
    BY <1>2
  <2> QED BY ONLY <1>1, <2>1, <2>2, Match(p, d), v \in Vars, KeepsValue
<1>10. ASSUME NEW v \in Vars, v \in Read(p[n]) \ Written(p[n])
       PROVE  z[v] = x[v]
  <2>1. \A k \in 0 + 1..n - 1 : v \notin Written(p[k])
    <3>1. ASSUME NEW k \in 0 + 1..n - 1
          PROVE  v \notin Written(p[k])
      <4>1. k \in 1..n - 1
        BY <1>2
      <4>2. Written(p[k]) \intersect (Read(p[n]) \ Written(p[n])) = {}
        BY <4>1
      <4> QED BY ONLY <4>2, <1>10
    <3> QED BY <3>1
  <2>2. 0 \in 0..Len(p) /\ n - 1 \in 0..Len(p)
    BY <1>2
  <2>3. z[v] = M[0][v]
    BY ONLY <1>1, <2>1, <2>2, Match(p, d), v \in Vars, KeepsValue
  <2> QED BY <2>3, <1>3
<1> HIDE DEF b, z, m
<1>11. z = Done(p[i], d[i], m)
  <2>1. PICK f \in Computations : f = d[i]
    BY <1>5
  <2>2. b \in Memories /\ z \in Memories /\ LooksAt(p[i], f)
    BY <1>4, <1>5, <2>1 DEF b, z
  <2>3. Written(p[i]) \subseteq Read(p[i])
    BY WrittenIsRead
  <2>4. \A v \in Vars : v \in Read(p[i]) => m[v] = b[v]
    BY <1>7, <1>8, <1>9
  <2>5. f[m] = f[b]
    BY ONLY <1>7, <2>2, <2>4, SameResult
  <2>6. /\ Done(p[i], f, m) \in Memories
        /\ \A v \in Vars : v \in Written(p[i]) => Done(p[i], f, m)[v] = f[m]
        /\ \A v \in Vars : v \notin Written(p[i]) => Done(p[i], f, m)[v] = m[v]
    <3>1. m \in Memories
      BY <1>7
    <3> QED BY ONLY <3>1, f \in Computations, DoneIs
  <2>7. \A v \in Vars : z[v] = Done(p[i], f, m)[v]
    BY ONLY <1>7, <1>8, <1>9, <2>1, <2>3, <2>5, <2>6
  <2>8. z = Done(p[i], f, m)
    BY ONLY <2>2, <2>6, <2>7, SameMemory
  <2> QED BY <2>1, <2>8
<1>12. Done(p[i], J, m) = y
  <2>1. PICK f \in Computations, g \in Computations : f = d[i] /\ g = d[n]
    BY <1>4, <1>5
  <2>2. /\ LooksAt(p[i], f) /\ LooksAt(p[n], g) /\ J = Joins(p[i], f, g, x) /\ z = Done(p[i], f, m)
        /\ \A v \in Vars : v \in Read(p[n]) \ Written(p[n]) => z[v] = x[v]
    BY <1>4, <1>5, <1>10, <1>11, <2>1
  <2>3. z \in Memories /\ m \in Memories
    BY <1>4, <1>7 DEF z
  <2>4. Done(p[i], J, m) = Done(p[n], g, z)
    BY ONLY <2>2, <2>3, x \in Memories, Written(p[i]) = Written(p[n]), f \in Computations,
            g \in Computations, JoinsDone
  <2> QED BY <1>3, <1>4, <2>1, <2>4 DEF z
<1> DEFINE N == [k \in 0..n - 1 |-> IF k < i THEN M[k]
                                  ELSE IF k = n - 1 THEN y ELSE Back(p[i], b, M[k + 1])]
<1>13. y \in Memories /\ \A k \in 0..n : Back(p[i], b, M[k]) \in Memories
  <2>1. b \in Memories /\ \A k \in 0..n : M[k] \in Memories
    BY <1>3, <1>5 DEF b
  <2>2. \A k \in 0..n : Back(p[i], b, M[k]) \in Memories
    BY <2>1, BackIs
  <2> QED BY <1>2, <1>3, <2>1, <2>2
<1>14. N \in [0..n - 1 -> Memories]
  BY <1>2, <1>3, <1>13
<1>15. N[0] = x /\ N[n - 1] = y
  BY <1>2, <1>3
<1>16. ASSUME NEW k \in i..n - 1
       PROVE  N[k - 1] = Back(p[i], b, M[k])
  <2>1. CASE k = i
    <3>1. N[k - 1] = b
      BY <1>2, <2>1 DEF b
    <3>2. Back(p[i], b, M[i]) = b
      <4>1. PICK c \in Memories : c = M[i]
        BY <1>5
      <4>2. b \in Memories
        BY <1>5 DEF b
      <4>3. /\ Back(p[i], b, c) \in Memories
            /\ \A v \in Vars : v \in Written(p[i]) => Back(p[i], b, c)[v] = b[v]
            /\ \A v \in Vars : v \notin Written(p[i]) => Back(p[i], b, c)[v] = c[v]
        BY ONLY <4>2, c \in Memories, BackIs
      <4>4. \A v \in Vars : Back(p[i], b, c)[v] = b[v]
        BY ONLY <1>8, <4>1, <4>3
      <4>5. Back(p[i], b, c) = b
        BY ONLY <4>2, <4>3, <4>4, SameMemory
      <4> QED BY <4>1, <4>5
    <3> QED BY <2>1, <3>1, <3>2
  <2>2. CASE k # i
    BY <1>2, <2>2
  <2> QED BY <2>1, <2>2
<1>17. ASSUME NEW k \in 1..n - 1
       PROVE  LooksAt(q[k], e[k]) /\ N[k] = Done(q[k], e[k], N[k - 1])
  <2>1. CASE k < i
    <3>1. k \in 1..Len(p) /\ k \in 1..n - 2
      BY <1>2, <2>1
    <3>2. LooksAt(p[k], d[k]) /\ M[k] = Done(p[k], d[k], M[k - 1])
      BY ONLY <1>1, <3>1, Match(p, d), BetweenAt
    <3>3. q[k] = p[k] /\ e[k] = d[k]
      BY <2>1, <3>1
    <3>4. N[k] = M[k] /\ N[k - 1] = M[k - 1]
      BY <1>2, <2>1
    <3> HIDE DEF N
    <3> QED BY <3>2, <3>3, <3>4
  <2>2. CASE k \in i..n - 2
    <3>1. k + 1 \in 1..Len(p) /\ k \in 1..n - 2 /\ ~(k < i) /\ (k + 1) - 1 = k /\ k \in i..n - 1
          /\ k + 1 \in i + 1..n - 1
      BY <1>2, <2>2
    <3>2. /\ LooksAt(p[k + 1], d[k + 1]) /\ M[k + 1] = Done(p[k + 1], d[k + 1], M[(k + 1) - 1])
          /\ d[k + 1] \in Computations /\ M[(k + 1) - 1] \in Memories
      BY ONLY <1>1, <3>1, Match(p, d), BetweenAt
    <3>3. q[k] = p[k + 1] /\ e[k] = d[k + 1]
      BY <3>1
    <3>4. N[k] = Back(p[i], b, M[k + 1]) /\ N[k - 1] = Back(p[i], b, M[k])
      BY <1>2, <1>16, <2>2, <3>1
    <3> HIDE DEF N
    <3>5. PICK g \in Computations, c \in Memories : g = d[k + 1] /\ c = M[k]
      BY <3>1, <3>2
    <3>6. ~Conflict(p[i], p[k + 1]) /\ LooksAt(p[k + 1], g) /\ b \in Memories
      BY <1>5, <3>1, <3>2, <3>5 DEF b
    <3>7. Done(p[k + 1], g, Back(p[i], b, c)) = Back(p[i], b, Done(p[k + 1], g, c))
      BY ONLY <3>6, g \in Computations, c \in Memories, BackDone
    <3> QED BY <3>1, <3>2, <3>3, <3>4, <3>5, <3>7
  <2>3. CASE k = n - 1
    <3>1. N[k] = y
      BY <1>15, <2>3
    <3>2. k \in i..n - 1
      BY <1>2, <2>3
    <3>3. N[k - 1] = Back(p[i], b, M[k])
      BY <1>16, <3>2
    <3>4. m = Back(p[i], b, M[k])
      BY <2>3 DEF m, z
    <3> HIDE DEF N
    <3>5. q[k] = o /\ e[k] = J
      BY <2>3
    <3>6. LooksAt(o, J) /\ Done(o, J, m) = Done(p[i], J, m)
      BY <1>6, SameVars
    <3> QED BY <1>12, <3>1, <3>3, <3>4, <3>5, <3>6
  <2> QED BY <1>2, <2>1, <2>2, <2>3
<1> HIDE DEF N
<1>18. /\ Len(e) = Len(q) /\ N \in [0..Len(q) -> Memories] /\ N[Len(q)] = y
       /\ \A k \in 1..Len(q) : LooksAt(q[k], e[k]) /\ N[k] = Done(q[k], e[k], N[k - 1])
  BY <1>14, <1>15, <1>17
<1>z. Match(q, e) /\ Leads(q, e, x, y)
  BY <1>15, <1>18, LeadsIs
<1> QED BY <1>0, <1>z

\* The application changes the value of v, which no operation reads or writes.
LEMMA ChangeDone ==
  ASSUME NEW o, NEW v \in Vars, v \notin Read(o), NEW a \in Values,
         NEW f \in Computations, LooksAt(o, f), NEW m \in Memories
  PROVE  Done(o, f, [m EXCEPT ![v] = a]) = [Done(o, f, m) EXCEPT ![v] = a]
<1> DEFINE y == [m EXCEPT ![v] = a]
           z == Done(o, f, m)
           r == [z EXCEPT ![v] = a]
<1>1. y \in Memories /\ \A w \in Vars : y[w] = IF w = v THEN a ELSE m[w]
  BY DEF Memories
<1>2. /\ z \in Memories
      /\ \A w \in Vars : w \in Written(o) => z[w] = f[m]
      /\ \A w \in Vars : w \notin Written(o) => z[w] = m[w]
  BY DoneIs
<1> HIDE DEF y, z
<1>3. r \in Memories /\ \A w \in Vars : r[w] = IF w = v THEN a ELSE z[w]
  BY <1>2 DEF Memories
<1> HIDE DEF r
<1>4. f[y] = f[m]
  <2>1. \A w \in Vars : w \in Read(o) => y[w] = m[w]
    BY <1>1
  <2> QED BY <1>1, <2>1, SameResult
<1>5. /\ Done(o, f, y) \in Memories
      /\ \A w \in Vars : w \in Written(o) => Done(o, f, y)[w] = f[y]
      /\ \A w \in Vars : w \notin Written(o) => Done(o, f, y)[w] = y[w]
  BY <1>1, DoneIs
<1>6. v \notin Written(o)
  BY WrittenIsRead
<1>7. \A w \in Vars : Done(o, f, y)[w] = r[w]
  BY <1>1, <1>2, <1>3, <1>4, <1>5, <1>6
<1>8. Done(o, f, y) = r
  BY <1>3, <1>5, <1>7, SameMemory
<1> QED BY <1>8 DEF y, z, r

LEMMA LeadsChange ==
  ASSUME NEW p, NEW d, NEW x, NEW y, Match(p, d), Leads(p, d, x, y),
         NEW v \in Vars, \A k \in 1..Len(p) : v \notin Read(p[k]), NEW a \in Values
  PROVE  Leads(p, d, [x EXCEPT ![v] = a], [y EXCEPT ![v] = a])
<1>1. PICK M : Between(p, d, M, x, y)
  BY DEF Leads
<1>2. /\ Len(p) \in Nat /\ p \in Seq(Operations) /\ d \in Seq(Computations) /\ Len(d) = Len(p)
  BY LenProperties DEF Match
<1>3. M \in [0..Len(p) -> Memories] /\ M[0] = x /\ M[Len(p)] = y
  BY <1>1 DEF Between
<1> DEFINE N == [k \in 0..Len(p) |-> [M[k] EXCEPT ![v] = a]]
<1>4. N \in [0..Len(p) -> Memories]
  <2>1. \A m \in Memories : [m EXCEPT ![v] = a] \in Memories
    BY DEF Memories
  <2> QED BY <1>3, <2>1
<1>5. N[0] = [x EXCEPT ![v] = a] /\ N[Len(p)] = [y EXCEPT ![v] = a]
  BY <1>2, <1>3
<1>6. ASSUME NEW k \in 1..Len(p)
      PROVE  LooksAt(p[k], d[k]) /\ N[k] = Done(p[k], d[k], N[k - 1])
  <2>1. /\ d[k] \in Computations /\ LooksAt(p[k], d[k]) /\ M[k - 1] \in Memories
        /\ M[k] = Done(p[k], d[k], M[k - 1])
    BY ONLY <1>1, Match(p, d), k \in 1..Len(p), BetweenAt
  <2>2. N[k] = [M[k] EXCEPT ![v] = a] /\ N[k - 1] = [M[k - 1] EXCEPT ![v] = a]
    BY <1>2
  <2> HIDE DEF N
  <2>3. PICK m \in Memories, f \in Computations : m = M[k - 1] /\ f = d[k]
    BY <2>1
  <2>4. v \notin Read(p[k]) /\ LooksAt(p[k], f)
    BY <2>1, <2>3
  <2>5. Done(p[k], f, [m EXCEPT ![v] = a]) = [Done(p[k], f, m) EXCEPT ![v] = a]
    BY ONLY <2>4, v \in Vars, a \in Values, m \in Memories, f \in Computations, ChangeDone
  <2> QED BY <2>1, <2>2, <2>3, <2>5
<1> HIDE DEF N
<1> QED BY <1>2, <1>4, <1>5, <1>6, LeadsIs

-----------------------------------------------------------------------------
(* The theorems.                                                           *)

LEMMA InitLeads == InitValues => ValuesInv
<1> SUFFICES ASSUME InitValues
             PROVE  ValuesInv
  OBVIOUS
<1>1. /\ pending = << >> /\ does = << >> /\ value \in Memories /\ meant = value
  BY DEF InitValues, Init
<1>2. << >> \in Seq(Operations) /\ << >> \in Seq(Computations) /\ Len(<< >>) = 0
  BY EmptySeq
<1> DEFINE N == [k \in 0..0 |-> value]
<1>3. N \in [0..0 -> Memories] /\ N[0] = value
  BY <1>1
<1> HIDE DEF N
<1>4. Match(<< >>, << >>) /\ Leads(<< >>, << >>, value, value)
  BY <1>2, <1>3, LeadsIs
<1> QED BY <1>1, <1>4 DEF ValuesInv

LEMMA StepLeads == ValuesInv /\ [NextValues]_allVars => ValuesInv'
<1> SUFFICES ASSUME ValuesInv, [NextValues]_allVars
             PROVE  ValuesInv'
  OBVIOUS
<1>0. PICK n : n = Len(pending)
  OBVIOUS
<1>1. /\ Match(pending, does) /\ Leads(pending, does, value, meant)
      /\ value \in Memories /\ meant \in Memories
      /\ pending \in Seq(Operations) /\ does \in Seq(Computations) /\ Len(does) = n /\ n \in Nat
  BY <1>0, LenProperties DEF ValuesInv, Match
<1>2. CASE ScheduleValues
  <2>1. PICK f \in Computations :
          /\ LooksAt(Last(pending'), f) /\ does' = Append(does, f)
          /\ meant' = Done(Last(pending'), f, meant)
    BY <1>2 DEF ScheduleValues, Computations
  <2>2. PICK o \in Operations : o = Last(pending') /\ pending' = Append(pending, o)
    <3>1. [var : [0..2 -> Vars \union {Null}], ops : {1}] \subseteq Operations
      BY DEF Operations
    <3> QED BY <1>2, <3>1 DEF ScheduleValues, Schedule
  <2>3. LooksAt(o, f)
    BY <2>1, <2>2
  <2>4. /\ Match(Append(pending, o), Append(does, f))
        /\ Leads(Append(pending, o), Append(does, f), value, Done(o, f, meant))
    BY ONLY <1>1, <2>3, o \in Operations, f \in Computations, LeadsMore
  <2>5. Done(o, f, meant) \in Memories
    BY <1>1, DoneIs
  <2>6. value' = value
    BY <1>2 DEF ScheduleValues
  <2> QED BY <1>1, <2>1, <2>2, <2>4, <2>5, <2>6 DEF ValuesInv
<1>3. ASSUME NEW i \in 1..n, EffectValues(i)
      PROVE  ValuesInv'
  <2>1. /\ pending' = RemoveAt(pending, i) /\ does' = RemoveAt(does, i)
        /\ value' = Done(pending[i], does[i], value) /\ meant' = meant
        /\ \A k \in 1..i - 1 : ~Conflict(pending[i], pending[k])
    BY <1>3 DEF EffectValues, Effect, Free
  <2>2. /\ Match(RemoveAt(pending, i), RemoveAt(does, i))
        /\ Leads(RemoveAt(pending, i), RemoveAt(does, i), Done(pending[i], does[i], value), meant)
    BY ONLY <1>0, <1>1, <2>1, i \in 1..n, LeadsEffect
  <2>3. Done(pending[i], does[i], value) \in Memories
    <3>1. does[i] \in Computations
      BY <1>1, ElementOfSeq
    <3> QED BY <1>1, <3>1, DoneIs
  <2> QED BY <1>1, <2>1, <2>2, <2>3 DEF ValuesInv
<1>4. ASSUME NEW i \in 1..n - 1
      PROVE  /\ Joined(i) = Joins(pending[i], does[i], does[Len(pending)], value)
             /\ [pending[i] EXCEPT !.ops = @ + pending[n].ops] \in Operations
             /\ [pending[i] EXCEPT !.ops = @ + pending[n].ops].var = pending[i].var
  <2>1. i \in 1..n /\ n \in 1..n
    BY <1>1
  <2>2. pending[i] \in Operations /\ pending[n] \in Operations
    BY <1>0, <1>1, <2>1, ElementOfSeq
  <2>3. Joined(i) = Joins(pending[i], does[i], does[Len(pending)], value)
    BY DEF Joined, Joins
  <2>4. /\ [pending[i] EXCEPT !.ops = @ + pending[n].ops] \in Operations
        /\ [pending[i] EXCEPT !.ops = @ + pending[n].ops].var = pending[i].var
    BY ONLY <2>2 DEF Operations
  <2> QED BY <2>3, <2>4
<1>5. ASSUME NEW i \in 1..n - 1, JoinEarlierValues(i)
      PROVE  ValuesInv'
  <2>1. /\ pending' = Earlier(pending, i, [pending[i] EXCEPT !.ops = @ + pending[n].ops])
        /\ does' = Earlier(does, i, Joined(i)) /\ value' = value /\ meant' = meant
        /\ Written(pending[i]) = Written(pending[Len(pending)]) /\ KnownIn(pending)
        /\ FreeIn(pending, Len(pending), i + 1..Len(pending) - 1)
    BY <1>0, <1>5 DEF JoinEarlierValues, JoinEarlier, Free, Known, FreeIn, KnownIn, Earlier
  <2>2. PICK o \in Operations :
          o = [pending[i] EXCEPT !.ops = @ + pending[n].ops] /\ o.var = pending[i].var
    BY <1>4
  <2>3. i \in 1..Len(pending) - 1
    BY <1>0
  <2> DEFINE J == Joins(pending[i], does[i], does[Len(pending)], value)
  <2>4. /\ Match(Earlier(pending, i, o), Earlier(does, i, J))
        /\ Leads(Earlier(pending, i, o), Earlier(does, i, J), value, meant)
    BY ONLY <1>1, <2>1, <2>2, <2>3, o \in Operations, LeadsEarlier
  <2>5. pending' = Earlier(pending, i, o) /\ does' = Earlier(does, i, J)
    BY <1>4, <2>1, <2>2
  <2> HIDE DEF J
  <2> QED BY <1>1, <2>1, <2>4, <2>5 DEF ValuesInv
<1>6. ASSUME NEW i \in 1..n - 1, JoinLaterValues(i)
      PROVE  ValuesInv'
  <2>1. /\ pending' = Later(pending, i, [pending[i] EXCEPT !.ops = @ + pending[n].ops])
        /\ does' = Later(does, i, Joined(i)) /\ value' = value /\ meant' = meant
        /\ Written(pending[i]) = Written(pending[Len(pending)]) /\ KnownIn(pending)
        /\ FreeIn(pending, i, i + 1..Len(pending) - 1)
    BY <1>0, <1>6 DEF JoinLaterValues, JoinLater, Free, Known, FreeIn, KnownIn, Later
  <2>2. PICK o \in Operations :
          o = [pending[i] EXCEPT !.ops = @ + pending[n].ops] /\ o.var = pending[i].var
    BY <1>4
  <2>3. i \in 1..Len(pending) - 1
    BY <1>0
  <2> DEFINE J == Joins(pending[i], does[i], does[Len(pending)], value)
  <2>4. /\ Match(Later(pending, i, o), Later(does, i, J))
        /\ Leads(Later(pending, i, o), Later(does, i, J), value, meant)
    BY ONLY <1>1, <2>1, <2>2, <2>3, o \in Operations, LeadsLater
  <2>5. pending' = Later(pending, i, o) /\ does' = Later(does, i, J)
    BY <1>4, <2>1, <2>2
  <2> HIDE DEF J
  <2> QED BY <1>1, <2>1, <2>4, <2>5 DEF ValuesInv
<1>7. ASSUME NEW v \in Vars, ChangeValue(v)
      PROVE  ValuesInv'
  <2>1. PICK a \in Values : value' = [value EXCEPT ![v] = a] /\ meant' = [meant EXCEPT ![v] = a]
    BY <1>7 DEF ChangeValue
  <2>2. \A k \in 1..Len(pending) : v \notin Read(pending[k])
    BY <1>7 DEF ChangeValue, Untouched
  <2>3. value' \in Memories /\ meant' \in Memories
    BY <1>1, <2>1 DEF Memories
  <2>4. Leads(pending, does, [value EXCEPT ![v] = a], [meant EXCEPT ![v] = a])
    BY ONLY <1>1, <2>2, v \in Vars, a \in Values, LeadsChange
  <2>5. pending' = pending /\ does' = does
    BY <1>7 DEF ChangeValue
  <2> QED BY <1>1, <2>1, <2>3, <2>4, <2>5 DEF ValuesInv
<1>8. CASE UNCHANGED allVars
  BY <1>1, <1>8 DEF allVars, ValuesInv
<1> QED BY <1>0, <1>2, <1>3, <1>5, <1>6, <1>7, <1>8 DEF NextValues

\* Whatever operations are held, joined, or done before earlier ones that they do not conflict
\* with: a variable that nothing pending writes has the value that it would have if each
\* operation had been done when it was scheduled.
THEOREM ValuesAsMeant == SpecValues => []Settled
<1>1. ValuesInv => Settled
  <2> SUFFICES ASSUME ValuesInv, NEW v \in Vars, Unwritten(v)
               PROVE  value[v] = meant[v]
    BY DEF Settled
  <2>1. PICK M : Between(pending, does, M, value, meant)
    BY DEF ValuesInv, Leads
  <2>2. Match(pending, does) /\ Len(pending) \in Nat
    BY LenProperties DEF ValuesInv, Match
  <2>3. \A k \in 0 + 1..Len(pending) : v \notin Written(pending[k])
    BY DEF Unwritten
  <2>4. 0 \in 0..Len(pending) /\ Len(pending) \in 0..Len(pending)
    BY <2>2
  <2>5. M[Len(pending)][v] = M[0][v]
    BY ONLY <2>1, <2>2, <2>3, <2>4, v \in Vars, KeepsValue
  <2> QED BY <2>1, <2>5 DEF Between
<1> QED BY <1>1, InitLeads, StepLeads, PTL DEF SpecValues

\* What is added to InOrder does not change what it allows: with the values, operations take
\* effect only as they may without.
THEOREM ValuesOnlyInOrder == SpecValues => Spec
<1>1. InitValues => Init
  BY DEF InitValues
<1>2. ValuesInv /\ [NextValues]_allVars => [Next]_pending
  <2> SUFFICES ASSUME ValuesInv, NextValues
               PROVE  [Next]_pending
    BY DEF allVars
  <2>0. /\ pending \in Seq(Operations) /\ does \in Seq(Computations)
        /\ Len(does) = Len(pending) /\ Len(pending) \in Nat
    BY LenProperties DEF ValuesInv, Match
  <2>1. CASE ScheduleValues
    BY <2>1 DEF ScheduleValues, Next
  <2>2. ASSUME NEW i \in 1..Len(pending), EffectValues(i)
        PROVE  Next
    <3>1. Effect(i) /\ pending' = RemoveAt(pending, i)
      BY <2>2 DEF EffectValues, Effect
    <3>2. Len(RemoveAt(pending, i)) = Len(pending) - 1
      BY <2>0, RemoveAtIs
    <3> QED BY <2>0, <3>1, <3>2 DEF Next
  <2>3. ASSUME NEW i \in 1..(Len(pending) - 1)
        PROVE  \A o \in Operations : /\ Len(Earlier(pending, i, o)) < Len(pending)
                                     /\ Len(Later(pending, i, o)) < Len(pending)
    <3>1. ASSUME NEW o \in Operations
          PROVE  /\ IsEarlier(Earlier(pending, i, o), pending, i, o)
                 /\ IsLater(Later(pending, i, o), pending, i, o)
      BY ONLY <2>0, i \in 1..(Len(pending) - 1), o \in Operations, EarlierIs, LaterIs
    <3>2. \A o \in Operations : /\ Len(Earlier(pending, i, o)) = Len(pending) - 1
                               /\ Len(Later(pending, i, o)) = Len(pending) - 1
      BY ONLY <3>1 DEF IsEarlier, IsLater
    <3>3. Len(pending) - 1 < Len(pending)
      BY <2>0
    <3> QED BY ONLY <3>2, <3>3
  <2>4. ASSUME NEW i \in 1..(Len(pending) - 1)
        PROVE  [pending[i] EXCEPT !.ops = @ + pending[Len(pending)].ops] \in Operations
    <3>1. i \in 1..Len(pending) /\ Len(pending) \in 1..Len(pending)
      BY <2>0
    <3>2. pending[i] \in Operations /\ pending[Len(pending)] \in Operations
      BY <2>0, <3>1, ElementOfSeq
    <3> QED BY ONLY <3>2 DEF Operations
  <2>5. ASSUME NEW i \in 1..(Len(pending) - 1), JoinEarlierValues(i)
        PROVE  Next
    <3>1. /\ JoinEarlier(i)
          /\ pending' = Earlier(pending, i,
                                [pending[i] EXCEPT !.ops = @ + pending[Len(pending)].ops])
      BY <2>5 DEF JoinEarlierValues, JoinEarlier, Earlier
    <3> QED BY <2>3, <2>4, <3>1 DEF Next
  <2>6. ASSUME NEW i \in 1..(Len(pending) - 1), JoinLaterValues(i)
        PROVE  Next
    <3>1. /\ JoinLater(i)
          /\ pending' = Later(pending, i,
                              [pending[i] EXCEPT !.ops = @ + pending[Len(pending)].ops])
      BY <2>6 DEF JoinLaterValues, JoinLater, Later
    <3> QED BY <2>3, <2>4, <3>1 DEF Next
  <2>7. ASSUME NEW v \in Vars, ChangeValue(v)
        PROVE  UNCHANGED pending
    BY <2>7 DEF ChangeValue
  <2> QED BY <2>1, <2>2, <2>5, <2>6, <2>7 DEF NextValues
<1> QED BY <1>1, <1>2, InitLeads, StepLeads, PTL DEF SpecValues, Spec
=============================================================================
