------------------------ MODULE HelpersInOrderProofs ------------------------
(***************************************************************************)
(* Proof that HelpersTasks implements InOrder: operations take effect as   *)
(* if each were done when helpers_do_task was called for it.  What is      *)
(* pending follows from Waiting, the tasks in the table whose procedures   *)
(* have not returned, in their order; each action is shown to leave it     *)
(* alone or to change it as one action of InOrder does.  That nothing gets *)
(* before an operation it conflicts with is what IInv says of tasks that   *)
(* start (StartInv), update (AntiInv) and are marked (UseInv, ComputeInv), *)
(* and JoinInv of the operation that is merged.                            *)
(***************************************************************************)
EXTENDS HelpersTasksProofs

-----------------------------------------------------------------------------
(* Sequences of tasks, and the operators that InOrder takes from           *)
(* SequencesExt.                                                           *)

\* Two sequences of the same tasks in the same order are equal.
LEMMA EqualOrdered ==
  ASSUME NEW s \in Seq(Tasks), NEW r \in Seq(Tasks), IsInjective(s), IsInjective(r),
         Range(s) = Range(r), Ordered(s) = Ordered(r)
  PROVE  s = r
<1>1. /\ Len(s) \in Nat /\ Len(r) \in Nat
      /\ Range(s) = {s[i] : i \in 1..Len(s)} /\ Range(r) = {r[i] : i \in 1..Len(r)}
      /\ \A i, j \in 1..Len(s) : s[i] = s[j] => i = j
      /\ \A i, j \in 1..Len(r) : r[i] = r[j] => i = j
  BY DEF Range, IsInjective
<1>2. /\ \A i, j \in 1..Len(s) : <<s[i], s[j]>> \in Ordered(s) <=> i < j
      /\ \A i, j \in 1..Len(r) : <<r[i], r[j]>> \in Ordered(r) <=> i < j
  BY OrderedIs
<1>a. /\ \A i \in 1..Len(s) : \E j \in 1..Len(r) : r[j] = s[i]
      /\ \A i \in 1..Len(r) : \E j \in 1..Len(s) : s[j] = r[i]
  <2>1. /\ \A i \in 1..Len(s) : s[i] \in Range(s)
        /\ \A i \in 1..Len(r) : r[i] \in Range(r)
    BY <1>1
  <2>2. /\ \A i \in 1..Len(s) : s[i] \in {r[j] : j \in 1..Len(r)}
        /\ \A i \in 1..Len(r) : r[i] \in {s[j] : j \in 1..Len(s)}
    BY <1>1, <2>1
  <2>. QED
    BY <2>2
<1>. DEFINE D == {i \in Nat : i \in 1..Len(s) /\ i \in 1..Len(r) /\ s[i] # r[i]}
<1>3. D = {}
  <2>1. SUFFICES ASSUME D # {} PROVE FALSE
    OBVIOUS
  <2>2. PICK m \in D : \A x \in D : m <= x
    BY <2>1, LeastExists
  <2>3. m \in 1..Len(s) /\ m \in 1..Len(r) /\ s[m] # r[m]
    BY <2>2
  <2>4. \A x \in 1..(m - 1) : s[x] = r[x]
    <3>. TAKE x \in 1..(m - 1)
    <3>1. x \in Nat /\ x \in 1..Len(s) /\ x \in 1..Len(r) /\ ~(m <= x)
      BY <1>1, <2>3
    <3>. QED
      BY <2>2, <3>1
  <2>5. PICK j \in 1..Len(r) : r[j] = s[m]
    BY <1>a, <2>3
  <2>6. PICK k \in 1..Len(s) : s[k] = r[m]
    BY <1>a, <2>3
  <2>. HIDE DEF D
  <2>7. j > m
    <3>1. j # m
      BY <2>3, <2>5
    <3>2. ~(j < m)
      <4>1. SUFFICES ASSUME j < m PROVE FALSE
        OBVIOUS
      <4>2. j \in 1..(m - 1) /\ j \in 1..Len(s)
        BY <1>1, <2>3, <4>1
      <4>3. s[j] = s[m]
        BY <2>4, <2>5, <4>2
      <4>. QED
        BY <1>1, <2>3, <3>1, <4>2, <4>3
    <3>. QED
      BY <2>3, <3>1, <3>2
  <2>8. k > m
    <3>1. k # m
      BY <2>3, <2>6
    <3>2. ~(k < m)
      <4>1. SUFFICES ASSUME k < m PROVE FALSE
        OBVIOUS
      <4>2. k \in 1..(m - 1) /\ k \in 1..Len(r)
        BY <1>1, <2>3, <4>1
      <4>3. r[k] = r[m]
        BY <2>4, <2>6, <4>2
      <4>. QED
        BY <1>1, <2>3, <3>1, <4>2, <4>3
    <3>. QED
      BY <2>3, <3>1, <3>2
  <2>9. <<s[m], s[k]>> \in Ordered(s)
    BY <1>2, <2>3, <2>8
  <2>10. <<r[j], r[m]>> \in Ordered(r)
    BY <2>5, <2>6, <2>9
  <2>11. j < m
    BY <1>2, <2>3, <2>10
  <2>. QED
    BY <2>3, <2>7, <2>11
<1>4. \A i : i \in 1..Len(s) /\ i \in 1..Len(r) => s[i] = r[i]
  BY <1>1, <1>3
<1>. HIDE DEF D
<1>5. ~(Len(s) < Len(r))
  <2>1. SUFFICES ASSUME Len(s) < Len(r) PROVE FALSE
    OBVIOUS
  <2>2. Len(r) \in 1..Len(r) /\ Len(r) \notin 1..Len(s)
    BY <1>1, <2>1
  <2>3. PICK k \in 1..Len(s) : s[k] = r[Len(r)]
    BY <1>a, <2>2
  <2>4. k \in 1..Len(r)
    BY <1>1, <2>1
  <2>5. r[k] = r[Len(r)]
    BY <1>4, <2>3, <2>4
  <2>. QED
    BY <1>1, <2>2, <2>4, <2>5
<1>6. ~(Len(r) < Len(s))
  <2>1. SUFFICES ASSUME Len(r) < Len(s) PROVE FALSE
    OBVIOUS
  <2>2. Len(s) \in 1..Len(s) /\ Len(s) \notin 1..Len(r)
    BY <1>1, <2>1
  <2>3. PICK k \in 1..Len(r) : r[k] = s[Len(s)]
    BY <1>a, <2>2
  <2>4. k \in 1..Len(s)
    BY <1>1, <2>1
  <2>5. s[k] = s[Len(s)]
    BY <1>4, <2>3, <2>4
  <2>. QED
    BY <1>1, <2>2, <2>4, <2>5
<1>7. Len(s) = Len(r)
  BY <1>1, <1>5, <1>6
<1>. QED
  BY <1>4, <1>7, SeqEqual

\* The pairs in the order are of elements of the sequence.
LEMMA PairsIs ==
  ASSUME NEW s \in Seq(Tasks), IsInjective(s)
  PROVE  \A p \in Ordered(s) : p[1] \in Range(s) /\ p[2] \in Range(s)
<1>1. \A a, b \in Tasks : <<a, b>> \in Ordered(s) => a \in Range(s) /\ b \in Range(s)
  BY OrderedIs
<1>2. \A p \in Ordered(s) : p = <<p[1], p[2]>> /\ p[1] \in Tasks /\ p[2] \in Tasks
  BY DEF Ordered
<1>. QED
  BY <1>1, <1>2

\* A sequence without its element at i.
Without(s, i) == [k \in 1..(Len(s) - 1) |-> IF k < i THEN s[k] ELSE s[k + 1]]

\* What is left, and in what order.
LEMMA WithoutOrdered ==
  ASSUME NEW s \in Seq(Tasks), IsInjective(s), NEW i \in 1..Len(s)
  PROVE  /\ Without(s, i) \in Seq(Tasks) /\ IsInjective(Without(s, i))
         /\ Len(Without(s, i)) = Len(s) - 1
         /\ Range(Without(s, i)) = Range(s) \ {s[i]}
         /\ Ordered(Without(s, i)) = {p \in Ordered(s) : p[1] \notin {s[i]} /\ p[2] \notin {s[i]}}
<1>. DEFINE r == Without(s, i)
            g(k) == IF k < i THEN k ELSE k + 1
<1>1. Len(s) \in Nat /\ Len(s) - 1 \in Nat /\ (\A k \in 1..Len(s) : s[k] \in Tasks)
      /\ \A k, l \in 1..Len(s) : s[k] = s[l] => k = l
  BY DEF IsInjective
<1>2. \A k \in 1..(Len(s) - 1) : g(k) \in 1..Len(s) /\ g(k) # i
  BY <1>1
<1>3. /\ r \in Seq(Tasks) /\ Len(r) = Len(s) - 1
      /\ \A k \in 1..(Len(s) - 1) : r[k] = s[g(k)]
  BY <1>1, <1>2 DEF Without
<1>4. \A k, l \in 1..(Len(s) - 1) : k < l <=> g(k) < g(l)
  BY <1>1
<1>5. \A k \in 1..Len(s) : k # i => \E l \in 1..(Len(s) - 1) : g(l) = k
  <2>. TAKE k \in 1..Len(s)
  <2>1. CASE k < i
    <3>1. k \in 1..(Len(s) - 1) /\ g(k) = k
      BY <1>1, <2>1
    <3>. QED
      BY <3>1
  <2>2. CASE k > i
    <3>1. k - 1 \in 1..(Len(s) - 1) /\ g(k - 1) = k
      BY <1>1, <2>2
    <3>. QED
      BY <3>1
  <2>. QED
    BY <2>1, <2>2
<1>. HIDE DEF g, r
<1>6. Range(r) = {r[k] : k \in 1..Len(r)} /\ Range(s) = {s[k] : k \in 1..Len(s)}
  BY <1>1, <1>3 DEF Range
<1>7. \A k \in 1..(Len(s) - 1) : r[k] # s[i]
  BY <1>1, <1>2, <1>3
<1>8. Range(r) = Range(s) \ {s[i]}
  <2>1. \A x \in Range(r) : x \in Range(s) /\ x # s[i]
    BY <1>2, <1>3, <1>6, <1>7
  <2>2. \A x \in Range(s) : x # s[i] => x \in Range(r)
    BY <1>3, <1>5, <1>6
  <2>. QED
    BY <2>1, <2>2
<1>9. IsInjective(r)
  <2>1. ASSUME NEW k \in 1..Len(r), NEW l \in 1..Len(r), r[k] = r[l]
        PROVE  k = l
    <3>1. g(k) = g(l)
      BY <1>1, <1>2, <1>3, <2>1
    <3>2. ~(k < l) /\ ~(l < k)
      BY <1>2, <1>3, <1>4, <3>1
    <3>. QED
      BY <1>1, <1>3, <3>2
  <2>. QED
    BY <1>3, <2>1 DEF IsInjective
<1>10. \A a, b \in Tasks :
         <<a, b>> \in Ordered(r) <=> <<a, b>> \in Ordered(s) /\ a # s[i] /\ b # s[i]
  <2>. TAKE a, b \in Tasks
  <2>1. ASSUME <<a, b>> \in Ordered(r)
        PROVE  <<a, b>> \in Ordered(s) /\ a # s[i] /\ b # s[i]
    <3>1. PICK k, l \in 1..Len(r) : k < l /\ r[k] = a /\ r[l] = b
      BY <2>1 DEF Ordered
    <3>2. g(k) \in 1..Len(s) /\ g(l) \in 1..Len(s) /\ g(k) < g(l) /\ s[g(k)] = a /\ s[g(l)] = b
      BY <1>2, <1>3, <1>4, <3>1
    <3>3. a # s[i] /\ b # s[i]
      BY <1>3, <1>7, <3>1
    <3>. QED
      BY <3>2, <3>3 DEF Ordered
  <2>2. ASSUME <<a, b>> \in Ordered(s), a # s[i], b # s[i]
        PROVE  <<a, b>> \in Ordered(r)
    <3>1. PICK k, l \in 1..Len(s) : k < l /\ s[k] = a /\ s[l] = b
      BY <2>2 DEF Ordered
    <3>2. PICK x \in 1..(Len(s) - 1) : g(x) = k
      BY <1>5, <2>2, <3>1
    <3>3. PICK y \in 1..(Len(s) - 1) : g(y) = l
      BY <1>5, <2>2, <3>1
    <3>4. x < y /\ r[x] = a /\ r[y] = b /\ x \in 1..Len(r) /\ y \in 1..Len(r)
      BY <1>3, <1>4, <3>1, <3>2, <3>3
    <3>. QED
      BY <3>4 DEF Ordered
  <2>. QED
    BY <2>1, <2>2
<1>11. Ordered(r) = {p \in Ordered(s) : p[1] \notin {s[i]} /\ p[2] \notin {s[i]}}
  <2>1. Ordered(r) \subseteq Tasks \X Tasks /\ Ordered(s) \subseteq Tasks \X Tasks
    BY DEF Ordered
  <2>. HIDE DEF Ordered
  <2>2. \A p \in Tasks \X Tasks : p = <<p[1], p[2]>> /\ p[1] \in Tasks /\ p[2] \in Tasks
    OBVIOUS
  <2>3. \A p \in Tasks \X Tasks :
          p \in Ordered(r) <=> p \in Ordered(s) /\ p[1] # s[i] /\ p[2] # s[i]
    BY <1>10, <2>2
  <2>. QED
    BY <2>1, <2>3
<1>. QED
  BY <1>3, <1>8, <1>9, <1>11 DEF r

\* RemoveAt, Front and Last, which InOrder uses.
LEMMA RemoveAtIs ==
  ASSUME NEW S, NEW s \in Seq(S), NEW i \in 1..Len(s)
  PROVE  RemoveAt(s, i) = Without(s, i)
<1>. DEFINE a == SubSeq(s, 1, i - 1)
            b == SubSeq(s, i + 1, Len(s))
<1>0. Len(s) \in Nat /\ \A k \in 1..Len(s) : s[k] \in S
  OBVIOUS
<1>1. a \in Seq(S) /\ Len(a) = i - 1 /\ \A k \in 1..(i - 1) : a[k] = s[k]
  <2>1. \A k \in 1..(i - 1) : s[k] \in S
    BY <1>0
  <2>2. /\ a \in Seq(S) /\ Len(a) = IF 1 <= i - 1 THEN i - 1 - 1 + 1 ELSE 0
        /\ \A k \in 1..((i - 1) - 1 + 1) : a[k] = s[1 + k - 1]
    BY <2>1, SubSeqProperties
  <2>. HIDE DEF a
  <2>. QED
    BY <1>0, <2>2
<1>2. /\ b \in Seq(S) /\ Len(b) = Len(s) - i
      /\ \A k \in 1..(Len(s) - i) : b[k] = s[i + k]
  <2>1. \A k \in (i + 1)..Len(s) : s[k] \in S
    BY <1>0
  <2>2. /\ b \in Seq(S) /\ Len(b) = IF i + 1 <= Len(s) THEN Len(s) - (i + 1) + 1 ELSE 0
        /\ \A k \in 1..(Len(s) - (i + 1) + 1) : b[k] = s[(i + 1) + k - 1]
    BY <1>0, <2>1, SubSeqProperties
  <2>. HIDE DEF b
  <2>3. /\ Len(s) - (i + 1) + 1 = Len(s) - i
        /\ Len(b) = Len(s) - i
    BY <1>0, <2>2
  <2>4. ASSUME NEW k \in 1..(Len(s) - i)
        PROVE  b[k] = s[i + k]
    <3>1. b[k] = s[(i + 1) + k - 1]
      BY <1>0, <2>2, <2>3
    <3>2. (i + 1) + k - 1 = i + k
      BY <1>0
    <3>. QED
      BY <3>1, <3>2
  <2>. QED
    BY <2>2, <2>3, <2>4
<1>3. RemoveAt(s, i) = a \o b
  BY DEF RemoveAt
<1>. HIDE DEF a, b
<1>4. /\ a \o b \in Seq(S) /\ Len(a \o b) = Len(a) + Len(b)
      /\ \A k \in 1..(Len(a) + Len(b)) :
           (a \o b)[k] = IF k <= Len(a) THEN a[k] ELSE b[k - Len(a)]
  BY <1>1, <1>2, ConcatProperties
<1>b. /\ a \o b \in Seq(S) /\ Len(a \o b) = (i - 1) + (Len(s) - i)
      /\ \A k \in 1..((i - 1) + (Len(s) - i)) :
           (a \o b)[k] = IF k <= i - 1 THEN a[k] ELSE b[k - (i - 1)]
  BY <1>1, <1>2, <1>4
<1>. DEFINE q == a \o b
<1>5. q \in Seq(S) /\ Len(q) = Len(s) - 1
      /\ \A k \in 1..(Len(s) - 1) : q[k] = IF k < i THEN s[k] ELSE s[k + 1]
  <2>1. (i - 1) + (Len(s) - i) = Len(s) - 1
    BY <1>0
  <2>2. ASSUME NEW k \in 1..(Len(s) - 1)
        PROVE  q[k] = IF k < i THEN s[k] ELSE s[k + 1]
    <3>1. CASE k < i
      BY <1>0, <1>1, <1>b, <2>1, <3>1
    <3>2. CASE ~(k < i)
      <4>1. k - (i - 1) \in 1..(Len(s) - i) /\ i + (k - (i - 1)) = k + 1 /\ ~(k <= i - 1)
        BY <1>0, <3>2
      <4>2. q[k] = b[k - (i - 1)]
        BY <1>b, <2>1, <4>1
      <4>. QED
        BY <1>2, <3>2, <4>1, <4>2
    <3>. QED
      BY <3>1, <3>2
  <2>. QED
    BY <1>b, <2>1, <2>2
<1>. HIDE DEF q
<1>6. q = [k \in 1..Len(q) |-> q[k]]
  BY <1>5
<1>. QED
  BY <1>3, <1>5, <1>6 DEF Without, q

LEMMA FrontIs ==
  ASSUME NEW S, NEW s \in Seq(S), Len(s) > 0
  PROVE  Front(s) = [k \in 1..(Len(s) - 1) |-> s[k]]
  BY DEF Front

LEMMA LastIs ==
  ASSUME NEW S, NEW s \in Seq(S), Len(s) > 0
  PROVE  RemoveAt(s, Len(s)) = Front(s)
<1>1. RemoveAt(s, Len(s)) = Without(s, Len(s))
  BY RemoveAtIs
<1>2. Without(s, Len(s)) = [k \in 1..(Len(s) - 1) |-> s[k]]
  BY DEF Without
<1>. QED
  BY <1>1, <1>2, FrontIs

-----------------------------------------------------------------------------
(* What is pending when the tasks s of a table have had no effect yet.      *)

\* What is pending when the tasks s of table tk have had no effect and c is the call.
Op(e) == [var |-> e.var, ops |-> e.ops]
Coming(c) == c.op \in {"do_task", "no_merge"}
PendingOf(s, tk, c) ==
  [k \in 1..(Len(s) + IF Coming(c) THEN 1 ELSE 0) |->
     IF k <= Len(s) THEN Op(tk[s[k]]) ELSE Op([var |-> c.kind.var, ops |-> c.ops])]

\* The operations of tasks, and what comes after them.
LEMMA PendingOfIs ==
  ASSUME NEW s \in Seq(Tasks), NEW tk, NEW c
  PROVE  PendingOf(s, tk, c) = [k \in 1..Len(s) |-> Op(tk[s[k]])]
           \o (IF Coming(c) THEN << Op([var |-> c.kind.var, ops |-> c.ops]) >> ELSE << >>)
<1>. DEFINE x == Op([var |-> c.kind.var, ops |-> c.ops])
            a == [k \in 1..Len(s) |-> Op(tk[s[k]])]
            b == IF Coming(c) THEN << x >> ELSE << >>
            S == {Op(tk[s[k]]) : k \in 1..Len(s)} \union {x}
            n == IF Coming(c) THEN 1 ELSE 0
            q == a \o b
<1>0. Len(s) \in Nat /\ n \in {0, 1}
  OBVIOUS
<1>1. a \in Seq(S) /\ Len(a) = Len(s) /\ \A k \in 1..Len(s) : a[k] = Op(tk[s[k]])
  BY <1>0
<1>2. b \in Seq(S) /\ Len(b) = n /\ (n = 1 => b[1] = x)
  <2>1. x \in S
    OBVIOUS
  <2>. HIDE DEF S, x
  <2>2. << x >> \in Seq(S) /\ Len(<< x >>) = 1 /\ << x >>[1] = x
    BY <2>1
  <2>3. << >> \in Seq(S) /\ Len(<< >>) = 0
    OBVIOUS
  <2>. QED
    BY <2>2, <2>3
<1>. HIDE DEF a, b, S, n, x
<1>c. a \in Seq(S) /\ b \in Seq(S)
  BY <1>1, <1>2
<1>3. /\ q \in Seq(S) /\ Len(q) = Len(a) + Len(b)
      /\ \A k \in 1..(Len(a) + Len(b)) : q[k] = IF k <= Len(a) THEN a[k] ELSE b[k - Len(a)]
  BY <1>c, ConcatProperties
<1>. HIDE DEF q
<1>4. ASSUME NEW k \in 1..(Len(s) + n)
      PROVE  q[k] = IF k <= Len(s) THEN Op(tk[s[k]]) ELSE x
  <2>1. CASE k <= Len(s)
    BY <1>0, <1>1, <1>2, <1>3, <2>1
  <2>2. CASE ~(k <= Len(s))
    <3>1. n = 1 /\ k - Len(s) = 1
      BY <1>0, <2>2
    <3>. QED
      BY <1>0, <1>1, <1>2, <1>3, <2>2, <3>1
  <2>. QED
    BY <2>1, <2>2
<1>5. q = [k \in 1..Len(q) |-> q[k]] /\ Len(q) = Len(s) + n
  BY <1>1, <1>2, <1>3
<1>6. PendingOf(s, tk, c) = [k \in 1..(Len(s) + n) |-> IF k <= Len(s) THEN Op(tk[s[k]]) ELSE x]
  BY DEF PendingOf, n, x
<1>7. PendingOf(s, tk, c) = q
  BY <1>4, <1>5, <1>6
<1>. QED
  BY <1>7 DEF q, a, b, x

\* It is a sequence.
LEMMA PendingOfSeq ==
  ASSUME NEW s \in Seq(Tasks), NEW tk, NEW c
  PROVE  \E S : /\ PendingOf(s, tk, c) \in Seq(S)
                /\ Len(PendingOf(s, tk, c)) = Len(s) + IF Coming(c) THEN 1 ELSE 0
<1>. DEFINE n == IF Coming(c) THEN 1 ELSE 0
            e(k) == IF k <= Len(s) THEN Op(tk[s[k]]) ELSE Op([var |-> c.kind.var, ops |-> c.ops])
            S == {e(k) : k \in 1..(Len(s) + n)}
            q == PendingOf(s, tk, c)
<1>1. Len(s) + n \in Nat
  OBVIOUS
<1>2. q = [k \in 1..(Len(s) + n) |-> e(k)]
  BY DEF PendingOf
<1>. HIDE DEF e, n, q
<1>3. q \in Seq(S) /\ Len(q) = Len(s) + n
  BY <1>1, <1>2
<1>. QED
  BY <1>3 DEF n, q

\* The task at i has had its effect.
LEMMA PendingWithout ==
  ASSUME NEW s \in Seq(Tasks), NEW tk, NEW tk2, NEW c, NEW i \in 1..Len(s),
         \A k \in 1..Len(s) : k # i => Op(tk2[s[k]]) = Op(tk[s[k]])
  PROVE  PendingOf(Without(s, i), tk2, c) = RemoveAt(PendingOf(s, tk, c), i)
<1>. DEFINE n == IF Coming(c) THEN 1 ELSE 0
            x == Op([var |-> c.kind.var, ops |-> c.ops])
            p == PendingOf(s, tk, c)
            r == Without(s, i)
<1>0. Len(s) \in Nat /\ n \in {0, 1}
  OBVIOUS
<1>1. PICK S : p \in Seq(S) /\ Len(p) = Len(s) + n
  BY PendingOfSeq
<1>2. RemoveAt(p, i) = Without(p, i)
  <2>. HIDE DEF p, n
  <2>1. i \in 1..Len(p)
    BY <1>0, <1>1
  <2>. QED
    BY <1>1, <2>1, RemoveAtIs
<1>3. /\ r = [k \in 1..(Len(s) - 1) |-> r[k]]
      /\ Len(r) = Len(s) - 1
      /\ \A k \in 1..(Len(s) - 1) : r[k] = IF k < i THEN s[k] ELSE s[k + 1]
  BY <1>0 DEF Without
<1>4. PendingOf(r, tk2, c) = [k \in 1..(Len(r) + n) |-> IF k <= Len(r) THEN Op(tk2[r[k]]) ELSE x]
  BY DEF PendingOf
<1>5. p = [k \in 1..(Len(s) + n) |-> IF k <= Len(s) THEN Op(tk[s[k]]) ELSE x]
  BY DEF PendingOf
<1>. HIDE DEF n, x, p, r
<1>6. Without(p, i) = [k \in 1..(Len(s) + n - 1) |-> IF k < i THEN p[k] ELSE p[k + 1]]
  <2>1. Without(p, i) = [k \in 1..(Len(p) - 1) |-> IF k < i THEN p[k] ELSE p[k + 1]]
    BY DEF Without
  <2>2. Len(p) - 1 = Len(s) + n - 1
    BY <1>0, <1>1
  <2>. QED
    BY <2>1, <2>2
<1>7. ASSUME NEW k \in 1..(Len(s) + n - 1)
      PROVE  (IF k <= Len(r) THEN Op(tk2[r[k]]) ELSE x) = (IF k < i THEN p[k] ELSE p[k + 1])
  <2>1. CASE k < i
    <3>1. k \in 1..Len(s) /\ k \in 1..(Len(s) - 1) /\ k # i /\ k <= Len(r) /\ k \in 1..(Len(s) + n)
          /\ k <= Len(s)
      BY <1>0, <1>3, <2>1
    <3>2. r[k] = s[k] /\ p[k] = Op(tk[s[k]])
      BY <1>3, <1>5, <2>1, <3>1
    <3>. QED
      BY <2>1, <3>1, <3>2
  <2>2. CASE ~(k < i) /\ k <= Len(s) - 1
    <3>1. k + 1 \in 1..Len(s) /\ k \in 1..(Len(s) - 1) /\ k + 1 # i /\ k <= Len(r)
          /\ k + 1 \in 1..(Len(s) + n) /\ k + 1 <= Len(s)
      BY <1>0, <1>3, <2>2
    <3>2. r[k] = s[k + 1] /\ p[k + 1] = Op(tk[s[k + 1]])
      BY <1>3, <1>5, <2>2, <3>1
    <3>. QED
      BY <2>2, <3>1, <3>2
  <2>3. CASE ~(k < i) /\ ~(k <= Len(s) - 1)
    <3>1. ~(k <= Len(r)) /\ k + 1 \in 1..(Len(s) + n) /\ ~(k + 1 <= Len(s))
      BY <1>0, <1>3, <2>3
    <3>2. p[k + 1] = x
      BY <1>5, <3>1
    <3>. QED
      BY <2>3, <3>1, <3>2
  <2>. QED
    BY <2>1, <2>2, <2>3
<1>8. Len(r) + n = Len(s) + n - 1
  BY <1>0, <1>3
<1>9. PendingOf(r, tk2, c) = Without(p, i)
  BY <1>4, <1>6, <1>7, <1>8
<1>. QED
  BY <1>2, <1>9 DEF p, r

\* The operation of the call has had its effect.
LEMMA PendingLast ==
  ASSUME NEW s \in Seq(Tasks), NEW tk, NEW tk2, NEW c, NEW c2, Coming(c), ~Coming(c2),
         \A k \in 1..Len(s) : Op(tk2[s[k]]) = Op(tk[s[k]])
  PROVE  PendingOf(s, tk2, c2) = RemoveAt(PendingOf(s, tk, c), Len(s) + 1)
<1>. DEFINE x == Op([var |-> c.kind.var, ops |-> c.ops])
            p == PendingOf(s, tk, c)
<1>0. Len(s) \in Nat
  OBVIOUS
<1>1. PICK S : p \in Seq(S) /\ Len(p) = Len(s) + 1
  BY PendingOfSeq
<1>2. p = [k \in 1..(Len(s) + 1) |-> IF k <= Len(s) THEN Op(tk[s[k]]) ELSE x]
  BY DEF PendingOf
<1>3. PendingOf(s, tk2, c2) = [k \in 1..Len(s) |-> Op(tk2[s[k]])]
  BY <1>0 DEF PendingOf
<1>. HIDE DEF p, x
<1>4. RemoveAt(p, Len(s) + 1) = [k \in 1..Len(s) |-> p[k]]
  <2>1. Len(p) > 0 /\ Len(p) - 1 = Len(s)
    BY <1>0, <1>1
  <2>2. RemoveAt(p, Len(p)) = Front(p)
    BY <1>1, <2>1, LastIs
  <2>3. Front(p) = [k \in 1..(Len(p) - 1) |-> p[k]]
    BY <1>1, <2>1, FrontIs
  <2>. QED
    BY <1>1, <2>1, <2>2, <2>3
<1>5. \A k \in 1..Len(s) : p[k] = Op(tk[s[k]])
  BY <1>0, <1>2
<1>. QED
  BY <1>3, <1>4, <1>5 DEF p

\* A call of helpers_do_task adds an operation.
LEMMA PendingMore ==
  ASSUME NEW s \in Seq(Tasks), NEW tk, NEW tk2, NEW c, NEW c2, ~Coming(c), Coming(c2),
         \A k \in 1..Len(s) : Op(tk2[s[k]]) = Op(tk[s[k]])
  PROVE  /\ Len(PendingOf(s, tk2, c2)) = Len(PendingOf(s, tk, c)) + 1
         /\ PendingOf(s, tk2, c2) = Append(PendingOf(s, tk, c), Last(PendingOf(s, tk2, c2)))
         /\ Last(PendingOf(s, tk2, c2)) = Op([var |-> c2.kind.var, ops |-> c2.ops])
<1>. DEFINE x == Op([var |-> c2.kind.var, ops |-> c2.ops])
            p == PendingOf(s, tk2, c2)
<1>0. Len(s) \in Nat
  OBVIOUS
<1>1. PICK S : p \in Seq(S) /\ Len(p) = Len(s) + 1
  BY PendingOfSeq
<1>2. p = [k \in 1..(Len(s) + 1) |-> IF k <= Len(s) THEN Op(tk2[s[k]]) ELSE x]
  BY DEF PendingOf
<1>3. PendingOf(s, tk, c) = [k \in 1..Len(s) |-> Op(tk[s[k]])] /\ Len(PendingOf(s, tk, c)) = Len(s)
  BY <1>0 DEF PendingOf
<1>. HIDE DEF p, x
<1>4. Front(p) = [k \in 1..Len(s) |-> p[k]]
  BY <1>0, <1>1, FrontIs
<1>5. (\A k \in 1..Len(s) : p[k] = Op(tk2[s[k]])) /\ p[Len(s) + 1] = x
  BY <1>0, <1>2
<1>. QED
  BY <1>1, <1>3, <1>4, <1>5 DEF p, x, Last

\* The task of the call has got an entry, after all others.
LEMMA PendingFilled ==
  ASSUME NEW s \in Seq(Tasks), NEW t \in Tasks, NEW tk, NEW tk2, NEW c, NEW c2,
         Coming(c), ~Coming(c2), \A k \in 1..Len(s) : Op(tk2[s[k]]) = Op(tk[s[k]]),
         Op(tk2[t]) = Op([var |-> c.kind.var, ops |-> c.ops])
  PROVE  PendingOf(Append(s, t), tk2, c2) = PendingOf(s, tk, c)
<1>. DEFINE x == Op([var |-> c.kind.var, ops |-> c.ops])
            r == Append(s, t)
<1>0. Len(s) \in Nat
  OBVIOUS
<1>1. Len(r) = Len(s) + 1 /\ r[Len(s) + 1] = t /\ \A k \in 1..Len(s) : r[k] = s[k]
  OBVIOUS
<1>2. PendingOf(s, tk, c) = [k \in 1..(Len(s) + 1) |-> IF k <= Len(s) THEN Op(tk[s[k]]) ELSE x]
  BY DEF PendingOf
<1>. HIDE DEF r
<1>3. PendingOf(r, tk2, c2) = [k \in 1..Len(r) |-> Op(tk2[r[k]])]
  BY <1>0, <1>1 DEF PendingOf
<1>. HIDE DEF x
<1>4. \A k \in 1..(Len(s) + 1) : Op(tk2[r[k]]) = IF k <= Len(s) THEN Op(tk[s[k]]) ELSE x
  <2>1. Op(tk2[t]) = x
    BY DEF x
  <2>2. \A k \in 1..(Len(s) + 1) : k \in 1..Len(s) \/ (k = Len(s) + 1 /\ ~(k <= Len(s)))
    BY <1>0
  <2>. QED
    BY <1>0, <1>1, <2>1, <2>2
<1>. QED
  BY <1>1, <1>2, <1>3, <1>4 DEF r

\* What is pending when the operation at n is joined with the one at i, at the place of that
\* one or at its own.
JoinedEarlier(p, i, n) == Front([p EXCEPT ![i].ops = @ + p[n].ops])
JoinedLater(p, i, n) == Append(RemoveAt(Front(p), i), [p[i] EXCEPT !.ops = @ + p[n].ops])

\* The operation of the call is to be done with the task at i ...
LEMMA PendingJoined ==
  ASSUME NEW s \in Seq(Tasks), NEW tk, NEW tk2, NEW c, NEW c2, NEW i \in 1..Len(s),
         Coming(c), ~Coming(c2), \A k \in 1..Len(s) : k # i => Op(tk2[s[k]]) = Op(tk[s[k]]),
         Op(tk2[s[i]]) = [var |-> tk[s[i]].var, ops |-> tk[s[i]].ops + c.ops],
         NEW p, p = PendingOf(s, tk, c)
  PROVE  PendingOf(s, tk2, c2) = JoinedEarlier(p, i, Len(s) + 1)
<1>. DEFINE x == Op([var |-> c.kind.var, ops |-> c.ops])
            y == [var |-> tk[s[i]].var, ops |-> tk[s[i]].ops + c.ops]
            q == [p EXCEPT ![i].ops = @ + p[Len(s) + 1].ops]
<1>0. Len(s) \in Nat
  OBVIOUS
<1>1. PICK S : p \in Seq(S) /\ Len(p) = Len(s) + 1
  BY PendingOfSeq
<1>2. p = [k \in 1..(Len(s) + 1) |-> IF k <= Len(s) THEN Op(tk[s[k]]) ELSE x]
  BY DEF PendingOf
<1>3. PendingOf(s, tk2, c2) = [k \in 1..Len(s) |-> Op(tk2[s[k]])]
  BY <1>0 DEF PendingOf
<1>4. p[Len(s) + 1] = x /\ x.ops = c.ops /\ \A k \in 1..Len(s) : p[k] = Op(tk[s[k]])
  BY <1>0, <1>2 DEF Op
<1>5. [p[i] EXCEPT !.ops = @ + x.ops] = y
  <2>1. p[i] = [var |-> tk[s[i]].var, ops |-> tk[s[i]].ops]
    BY <1>4 DEF Op
  <2>2. [[var |-> tk[s[i]].var, ops |-> tk[s[i]].ops] EXCEPT !.ops = @ + x.ops] = y
    BY <1>4
  <2>. HIDE DEF x, y
  <2>. QED
    BY <2>1, <2>2
<1>. HIDE DEF x, y
<1>6. q = [p EXCEPT ![i] = y]
  BY <1>4, <1>5
<1>. HIDE DEF q
<1>7. /\ q \in Seq(S \union {y}) /\ Len(q) = Len(s) + 1
      /\ \A k \in 1..Len(s) : q[k] = IF k = i THEN y ELSE p[k]
  BY <1>0, <1>1, <1>6
<1>8. Front(q) = [k \in 1..Len(s) |-> q[k]]
  BY <1>0, <1>7, FrontIs
<1>9. \A k \in 1..Len(s) : q[k] = Op(tk2[s[k]])
  BY <1>4, <1>7 DEF y
<1>. QED
  BY <1>3, <1>8, <1>9 DEF q, JoinedEarlier

\* ... or the task at i with it.
LEMMA PendingTaken ==
  ASSUME NEW s \in Seq(Tasks), NEW tk, NEW tk2, NEW c, NEW c2, NEW i \in 1..Len(s),
         Coming(c), Coming(c2), \A k \in 1..Len(s) : k # i => Op(tk2[s[k]]) = Op(tk[s[k]]),
         c2.kind.var = tk[s[i]].var, c2.ops = tk[s[i]].ops + c.ops,
         NEW p, p = PendingOf(s, tk, c)
  PROVE  PendingOf(Without(s, i), tk2, c2) = JoinedLater(p, i, Len(s) + 1)
<1>. DEFINE x == Op([var |-> c.kind.var, ops |-> c.ops])
            y == Op([var |-> c2.kind.var, ops |-> c2.ops])
            r == Without(s, i)
            none == [op |-> "none"]
            f == PendingOf(s, tk, none)
            g == PendingOf(r, tk2, none)
<1>0. Len(s) \in Nat /\ ~Coming(none)
  BY DEF Coming
<1>1. PICK S : p \in Seq(S) /\ Len(p) = Len(s) + 1
  BY PendingOfSeq
<1>2. p = [k \in 1..(Len(s) + 1) |-> IF k <= Len(s) THEN Op(tk[s[k]]) ELSE x]
  BY DEF PendingOf
<1>3. p[Len(s) + 1] = x /\ x.ops = c.ops /\ \A k \in 1..Len(s) : p[k] = Op(tk[s[k]])
  BY <1>0, <1>2 DEF Op
<1>4. [p[i] EXCEPT !.ops = @ + p[Len(s) + 1].ops] = y
  <2>1. p[i] = [var |-> tk[s[i]].var, ops |-> tk[s[i]].ops]
    BY <1>3 DEF Op
  <2>2. y = [var |-> tk[s[i]].var, ops |-> tk[s[i]].ops + c.ops]
    BY DEF Op
  <2>3. [[var |-> tk[s[i]].var, ops |-> tk[s[i]].ops] EXCEPT !.ops = @ + c.ops] = y
    BY <2>2
  <2>. HIDE DEF x, y
  <2>. QED
    BY <1>3, <2>1, <2>3
<1>5. Front(p) = f
  <2>1. Front(p) = [k \in 1..Len(s) |-> p[k]]
    <3>1. Len(p) > 0 /\ Len(p) - 1 = Len(s)
      BY <1>0, <1>1
    <3>2. Front(p) = [k \in 1..(Len(p) - 1) |-> p[k]]
      BY <1>1, <3>1, FrontIs
    <3>. QED
      BY <3>1, <3>2
  <2>2. f = [k \in 1..Len(s) |-> Op(tk[s[k]])]
    BY <1>0 DEF PendingOf
  <2>. QED
    BY <1>3, <2>1, <2>2
<1>6. RemoveAt(f, i) = g
  BY PendingWithout
<1>7. r \in Seq(Tasks) /\ Len(r) = Len(s) - 1
  <2>1. \A k \in 1..(Len(s) - 1) : (IF k < i THEN s[k] ELSE s[k + 1]) \in Tasks
    <3>. TAKE k \in 1..(Len(s) - 1)
    <3>1. k \in 1..Len(s) /\ k + 1 \in 1..Len(s)
      BY <1>0
    <3>. QED
      BY <3>1
  <2>. QED
    BY <1>0, <2>1 DEF Without
<1>. HIDE DEF none, f, r
<1>8. PICK T : g \in Seq(T) /\ Len(g) = Len(r)
  BY <1>0, <1>7, PendingOfSeq
<1>9. g = [k \in 1..Len(r) |-> Op(tk2[r[k]])]
  BY <1>0, <1>7 DEF PendingOf
<1>10. PendingOf(r, tk2, c2) = [k \in 1..(Len(r) + 1) |-> IF k <= Len(r) THEN Op(tk2[r[k]]) ELSE y]
  BY DEF PendingOf
<1>. HIDE DEF g, y
<1>11. Append(g, y) = [k \in 1..(Len(r) + 1) |-> IF k <= Len(r) THEN g[k] ELSE y]
  <2>. DEFINE h == Append(g, y)
  <2>1. /\ h \in Seq(T \union {y}) /\ Len(h) = Len(g) + 1 /\ h[Len(g) + 1] = y
        /\ \A k \in 1..Len(g) : h[k] = g[k]
    BY <1>8
  <2>. HIDE DEF h
  <2>2. h = [k \in 1..Len(h) |-> h[k]]
    BY <2>1
  <2>3. Len(h) = Len(r) + 1 /\ Len(r) \in Nat
    BY <1>0, <1>7, <1>8, <2>1
  <2>4. \A k \in 1..(Len(r) + 1) : h[k] = IF k <= Len(r) THEN g[k] ELSE y
    BY <1>8, <2>1, <2>3
  <2>5. h = [k \in 1..(Len(r) + 1) |-> IF k <= Len(r) THEN g[k] ELSE y]
    BY <2>2, <2>3, <2>4
  <2>. QED
    BY <2>5 DEF h
<1>12. \A k \in 1..Len(r) : g[k] = Op(tk2[r[k]])
  BY <1>9
<1>13. Append(g, y) = PendingOf(r, tk2, c2)
  <2>1. \A k \in 1..(Len(r) + 1) : k <= Len(r) => k \in 1..Len(r)
    BY <1>7
  <2>. QED
    BY <1>10, <1>11, <1>12, <2>1
<1>. QED
  BY <1>4, <1>5, <1>6, <1>13 DEF r, JoinedLater

-----------------------------------------------------------------------------
(* What is pending in a state, and steps that leave it alone.               *)

\* The tasks of table tk, in the order of u, whose procedures have not returned.
WaitingOf(u, tk) == Left(u, {t \in Range(u) : tk[t].stage \in {"computed", "done"}})

LEMMA WaitingOfIs ==
  ASSUME NEW u \in Seq(Tasks), IsInjective(u), NEW tk \in [Tasks -> Entries]
  PROVE  /\ WaitingOf(u, tk) \in Seq(Tasks) /\ IsInjective(WaitingOf(u, tk))
         /\ Range(WaitingOf(u, tk)) = {t \in Range(u) : tk[t].stage \in {"waiting", "running"}}
         /\ Ordered(WaitingOf(u, tk)) =
              {p \in Ordered(u) : /\ tk[p[1]].stage \in {"waiting", "running"}
                                  /\ tk[p[2]].stage \in {"waiting", "running"}}
<1>. DEFINE S == {t \in Range(u) : tk[t].stage \in {"computed", "done"}}
            w == Left(u, S)
<1>1. /\ w \in Seq(Tasks) /\ IsInjective(w) /\ Range(w) = Range(u) \ S
      /\ Ordered(w) = {p \in Ordered(u) : p[1] \notin S /\ p[2] \notin S}
  BY LeftOrdered
<1>2. Range(u) \subseteq Tasks
  BY OrderedIs
<1>3. \A t \in Range(u) : t \notin S <=> tk[t].stage \in {"waiting", "running"}
  <2>. TAKE t \in Range(u)
  <2>1. tk[t].stage \in {"waiting", "running", "computed", "done"}
    BY <1>2 DEF Entries
  <2>. QED
    BY <2>1
<1>4. \A p \in Ordered(u) : p[1] \in Range(u) /\ p[2] \in Range(u)
  BY PairsIs
<1>. HIDE DEF S
<1>5. Range(w) = {t \in Range(u) : tk[t].stage \in {"waiting", "running"}}
  BY <1>1, <1>3
<1>6. Ordered(w) = {p \in Ordered(u) : /\ tk[p[1]].stage \in {"waiting", "running"}
                                       /\ tk[p[2]].stage \in {"waiting", "running"}}
  BY <1>1, <1>3, <1>4
<1>. QED
  BY <1>1, <1>5, <1>6 DEF WaitingOf, S

Waiting == WaitingOf(used, task)

\* What Pending is, before a step and after it.
LEMMA PendingIs ==
  ASSUME TypeOK, TypeOK'
  PROVE  /\ Pending = PendingOf(Waiting, task, call)
         /\ Pending' = PendingOf(Waiting', task', call')
         /\ Waiting \in Seq(Tasks) /\ Waiting' \in Seq(Tasks)
         /\ IsInjective(Waiting) /\ IsInjective(Waiting')
         /\ Range(Waiting) = {t \in InTable : Unfinished(t)}
         /\ Range(Waiting') = {t \in InTable' : Unfinished(t)'}
         /\ Ordered(Waiting) = {p \in Order : Unfinished(p[1]) /\ Unfinished(p[2])}
         /\ Ordered(Waiting') = {p \in Order' : task'[p[1]].stage \in {"waiting", "running"}
                                             /\ task'[p[2]].stage \in {"waiting", "running"}}
<1>1. used \in Seq(Tasks) /\ IsInjective(used) /\ task \in [Tasks -> Entries]
  BY DEF TypeOK, Entries
<1>2. used' \in Seq(Tasks) /\ IsInjective(used') /\ task' \in [Tasks -> Entries]
  BY DEF TypeOK, Entries
<1>3. /\ Waiting \in Seq(Tasks) /\ IsInjective(Waiting)
      /\ Range(Waiting) = {t \in InTable : Unfinished(t)}
      /\ Ordered(Waiting) = {p \in Order : Unfinished(p[1]) /\ Unfinished(p[2])}
  BY <1>1, WaitingOfIs DEF Waiting, InTable, Order, Unfinished
<1>4. /\ Waiting' \in Seq(Tasks) /\ IsInjective(Waiting')
      /\ Range(Waiting') = {t \in InTable' : Unfinished(t)'}
      /\ Ordered(Waiting') = {p \in Order' : task'[p[1]].stage \in {"waiting", "running"}
                                          /\ task'[p[2]].stage \in {"waiting", "running"}}
  BY <1>2, WaitingOfIs DEF Waiting, InTable, Order, Unfinished
<1>5. Pending = [k \in 1..Len(Waiting) |-> Op(task[Waiting[k]])]
           \o (IF Coming(call)
                 THEN << Op([var |-> call.kind.var, ops |-> call.ops]) >> ELSE << >>)
  BY DEF Pending, Waiting, WaitingOf, Op, Coming, kind
<1>6. Pending' = [k \in 1..Len(Waiting') |-> Op(task'[Waiting'[k]])]
           \o (IF Coming(call')
                 THEN << Op([var |-> call'.kind.var, ops |-> call'.ops]) >> ELSE << >>)
  BY DEF Pending, Waiting, WaitingOf, Op, Coming, kind
<1>7. Pending = PendingOf(Waiting, task, call)
  BY <1>3, <1>5, PendingOfIs
<1>8. Pending' = PendingOf(Waiting', task', call')
  BY <1>4, <1>6, PendingOfIs
<1>. QED
  BY <1>3, <1>4, <1>7, <1>8

\* The call does not change what is pending.
SameCall == call' = call \/ (~Coming(call) /\ ~Coming(call'))

\* Nothing pending has changed.
LEMMA SamePending ==
  ASSUME TypeOK, TypeOK', SameCall, Waiting' = Waiting,
         \A t \in Range(Waiting) : task'[t].var = task[t].var /\ task'[t].ops = task[t].ops
  PROVE  Pending' = Pending
<1>1. /\ Pending = PendingOf(Waiting, task, call) /\ Waiting \in Seq(Tasks)
      /\ Pending' = PendingOf(Waiting', task', call')
  BY PendingIs
<1>2. \A k \in 1..Len(Waiting) : Op(task'[Waiting[k]]) = Op(task[Waiting[k]])
  <2>. TAKE k \in 1..Len(Waiting)
  <2>1. Waiting[k] \in Range(Waiting)
    BY <1>1 DEF Range
  <2>. QED
    BY <2>1 DEF Op
<1>3. PendingOf(Waiting, task', call') = PendingOf(Waiting, task, call)
  <2>1. CASE call' = call
    BY <1>1, <1>2, <2>1 DEF PendingOf
  <2>2. CASE ~Coming(call) /\ ~Coming(call')
    BY <1>1, <1>2, <2>2 DEF PendingOf
  <2>. QED
    BY <2>1, <2>2 DEF SameCall
<1>. QED
  BY <1>1, <1>3

\* ... as when the same tasks are in the table and none of them gets its output, ...
LEMMA QuietPending ==
  ASSUME TypeOK, TypeOK', SameCall, UNCHANGED used,
         \A t \in InTable : /\ Unfinished(t)' <=> Unfinished(t)
                            /\ task'[t].var = task[t].var /\ task'[t].ops = task[t].ops
  PROVE  Pending' = Pending
<1>1. task \in [Tasks -> Entries] /\ task' \in [Tasks -> Entries] /\ InTable \subseteq Tasks
  <2>1. task' \in [Tasks -> Entries]
    BY DEF TypeOK, Entries
  <2>. QED
    BY <2>1, TableIs
<1>2. \A t \in InTable : /\ task[t].stage \in {"waiting", "running", "computed", "done"}
                         /\ task'[t].stage \in {"waiting", "running", "computed", "done"}
  BY <1>1 DEF Entries
<1>3. \A t \in Range(used) : task'[t].stage \in {"computed", "done"}
                               <=> task[t].stage \in {"computed", "done"}
  BY <1>2 DEF Unfinished, InTable
<1>4. Waiting' = Waiting
  BY <1>3 DEF Waiting, WaitingOf
<1>5. Range(Waiting) \subseteq InTable
  BY PendingIs
<1>. QED
  BY <1>4, <1>5, SamePending

\* ... and when done tasks leave it.
LEMMA NoticePending ==
  ASSUME TableInv, TypeOK', NoticeCompleted
  PROVE  /\ Waiting' = Waiting
         /\ \A t \in Range(Waiting) : task'[t].var = task[t].var /\ task'[t].ops = task[t].ops
<1>0. TypeOK
  BY DEF TableInv
<1>1. /\ InTable' = InTable \ Finished
      /\ Order' = {p \in Order : p[1] \notin Finished /\ p[2] \notin Finished}
      /\ \A t \in InTable' : task'[t] = [task[t] EXCEPT !.pipe =
              [w \in 0..2 |-> IF task[t].pipe[w] \in Finished THEN None ELSE task[t].pipe[w]]]
  BY NoticeTable
<1>2. task \in [Tasks -> Entries] /\ InTable \subseteq Tasks
  BY <1>0, TableIs
<1>3. \A t \in InTable' : /\ task'[t].var = task[t].var /\ task'[t].ops = task[t].ops
                          /\ task'[t].stage = task[t].stage
  <2>. TAKE t \in InTable'
  <2>1. task[t] \in Entries
    BY <1>1, <1>2
  <2>. QED
    BY <1>1, <2>1 DEF Entries
<1>4. \A t \in InTable : Unfinished(t) => t \in InTable'
  BY <1>1 DEF Unfinished, Finished, Done
<1>5. /\ Waiting \in Seq(Tasks) /\ Waiting' \in Seq(Tasks)
      /\ IsInjective(Waiting) /\ IsInjective(Waiting')
      /\ Range(Waiting) = {t \in InTable : Unfinished(t)}
      /\ Range(Waiting') = {t \in InTable' : Unfinished(t)'}
      /\ Ordered(Waiting) = {p \in Order : Unfinished(p[1]) /\ Unfinished(p[2])}
      /\ Ordered(Waiting') = {p \in Order' : task'[p[1]].stage \in {"waiting", "running"}
                                          /\ task'[p[2]].stage \in {"waiting", "running"}}
  BY <1>0, PendingIs
<1>6. \A p \in Order : p[1] \in InTable /\ p[2] \in InTable
  BY <1>0, TableIs, PairsIs DEF Order, InTable
<1>7. Range(Waiting') = Range(Waiting)
  BY <1>1, <1>3, <1>4, <1>5 DEF Unfinished
<1>8. Ordered(Waiting') = Ordered(Waiting)
  <2>1. \A p \in Order' : p \in Order /\ p[1] \in InTable' /\ p[2] \in InTable'
    BY <1>1, <1>6
  <2>2. \A p \in Ordered(Waiting') : p \in Ordered(Waiting)
    BY <1>3, <1>5, <2>1 DEF Unfinished
  <2>3. \A p \in Ordered(Waiting) : p \in Ordered(Waiting')
    <3>. TAKE p \in Ordered(Waiting)
    <3>1. p \in Order /\ Unfinished(p[1]) /\ Unfinished(p[2])
      BY <1>5
    <3>2. p[1] \in InTable' /\ p[2] \in InTable'
      BY <1>4, <1>6, <3>1
    <3>3. p \in Order'
      BY <1>1, <3>1, <3>2
    <3>. QED
      BY <1>3, <1>5, <3>1, <3>2, <3>3 DEF Unfinished
  <2>. QED
    BY <2>2, <2>3
<1>9. Waiting' = Waiting
  BY <1>5, <1>7, <1>8, EqualOrdered
<1>10. Range(Waiting) \subseteq InTable'
  BY <1>4, <1>5
<1>. QED
  BY <1>3, <1>9, <1>10

\* What changes of the tasks when one starts.
LEMMA StartPending ==
  ASSUME TypeOK, TypeOK', UNCHANGED <<used, call>>, NEW t \in Tasks, task[t].stage = "waiting",
         Start(t)
  PROVE  Pending' = Pending
<1>1. task \in [Tasks -> Entries] /\ InTable \subseteq Tasks
  BY TableIs
<1>2. \A x \in InTable : /\ Unfinished(x)' <=> Unfinished(x)
                         /\ task'[x].var = task[x].var /\ task'[x].ops = task[x].ops
  <2>. TAKE x \in InTable
  <2>1. task[x] \in Entries /\ x \in Tasks
    BY <1>1
  <2>2. task' = [task EXCEPT ![t].stage = "running"]
    BY DEF Start
  <2>3. CASE x = t
    <3>1. task'[x] = [task[x] EXCEPT !.stage = "running"]
      BY <1>1, <2>1, <2>2, <2>3
    <3>2. task'[x].stage = "running" /\ task'[x].var = task[x].var /\ task'[x].ops = task[x].ops
      BY <2>1, <3>1 DEF Entries
    <3>. QED
      BY <2>3, <3>2 DEF Unfinished
  <2>4. CASE x # t
    <3>1. task'[x] = task[x]
      BY <1>1, <2>1, <2>2, <2>4
    <3>. QED
      BY <3>1 DEF Unfinished
  <2>. QED
    BY <2>3, <2>4
<1>. QED
  BY <1>2, QuietPending DEF SameCall

\* That tasks start changes nothing, ...
LEMMA StartsPending ==
  ASSUME IInv, IInv',
         HelperStart \/ do_task_in_master(TRUE) \/ do_task_in_master(FALSE)
  PROVE  Pending' = Pending
<1>0. TypeOK /\ TypeOK' /\ QueueInv
  BY DEF IInv, TableInv
<1>1. UNCHANGED <<used, call>>
  BY DEF HelperStart, do_task_in_master
<1>2. PICK t : Start(t) /\ (t \in untaken \/ (master_only # << >> /\ t = Head(master_only)))
  <2>1. \A b : find_untaken_runnable(b) \subseteq untaken
    BY DEF find_untaken_runnable
  <2>2. CASE HelperStart
    BY <2>1, <2>2 DEF HelperStart
  <2>3. ASSUME NEW b \in BOOLEAN, do_task_in_master(b)
        PROVE  \E t : Start(t) /\ (t \in untaken \/ (master_only # << >> /\ t = Head(master_only)))
    BY <2>1, <2>3 DEF do_task_in_master
  <2>. QED
    BY <2>2, <2>3
<1>3. t \in Tasks /\ task[t].stage = "waiting"
  <2>1. untaken \subseteq Tasks /\ master_only \in Seq(Tasks) /\ IsInjective(master_only)
    BY <1>0 DEF TypeOK, QueueInv
  <2>2. t \in Tasks /\ (t \in untaken \union on_hold \/ t \in Range(master_only))
    BY <1>2, <2>1, TailIs
  <2>. QED
    BY <1>0, <2>2 DEF QueueInv
<1>. QED
  BY <1>0, <1>1, <1>2, <1>3, StartPending

\* ... nor that their done flags are set, ...
LEMMA DonePending ==
  ASSUME IInv, IInv', NEW t \in Tasks, TaskDone(t)
  PROVE  Pending' = Pending
<1>0. TypeOK /\ TypeOK'
  BY DEF IInv, TableInv
<1>1. task \in [Tasks -> Entries] /\ InTable \subseteq Tasks
  BY <1>0, TableIs
<1>2. task[t].stage = "computed" /\ task' = [task EXCEPT ![t].stage = "done"]
      /\ UNCHANGED <<used, call>>
  BY DEF TaskDone
<1>3. \A x \in InTable : /\ Unfinished(x)' <=> Unfinished(x)
                         /\ task'[x].var = task[x].var /\ task'[x].ops = task[x].ops
  <2>. TAKE x \in InTable
  <2>1. task[x] \in Entries /\ x \in Tasks
    BY <1>1
  <2>3. CASE x = t
    <3>1. task'[x] = [task[x] EXCEPT !.stage = "done"]
      BY <1>1, <1>2, <2>1, <2>3
    <3>2. task'[x].stage = "done" /\ task'[x].var = task[x].var /\ task'[x].ops = task[x].ops
      BY <2>1, <3>1 DEF Entries
    <3>. QED
      BY <1>2, <2>3, <3>2 DEF Unfinished
  <2>4. CASE x # t
    <3>1. task'[x] = task[x]
      BY <1>1, <1>2, <2>1, <2>4
    <3>. QED
      BY <3>1 DEF Unfinished
  <2>. QED
    BY <2>3, <2>4
<1>. QED
  BY <1>0, <1>2, <1>3, QuietPending DEF SameCall

\* ... nor that tasks are marked as needed.
LEMMA MarkPending ==
  ASSUME TypeOK, TypeOK', UNCHANGED used, SameCall, NEW nd, mark_as_needed(nd)
  PROVE  Pending' = Pending
<1>1. task \in [Tasks -> Entries] /\ InTable \subseteq Tasks
  BY TableIs
<1>2. task' = [t \in Tasks |->
           IF \E i \in DOMAIN nd : used[i] = t
             THEN [task[t] EXCEPT !.needed = nd[Position(t)]] ELSE task[t]]
  BY DEF mark_as_needed
<1>3. \A x \in InTable : /\ Unfinished(x)' <=> Unfinished(x)
                         /\ task'[x].var = task[x].var /\ task'[x].ops = task[x].ops
  <2>. TAKE x \in InTable
  <2>1. task[x] \in Entries /\ x \in Tasks
    BY <1>1
  <2>2. \/ task'[x] = task[x]
        \/ task'[x] = [task[x] EXCEPT !.needed = nd[Position(x)]]
    BY <1>2, <2>1
  <2>3. task'[x].stage = task[x].stage /\ task'[x].var = task[x].var /\ task'[x].ops = task[x].ops
    BY <2>1, <2>2 DEF Entries
  <2>. QED
    BY <2>3 DEF Unfinished
<1>. QED
  BY <1>3, QuietPending

\* The steps of calls, and of waiting in them, that schedule and merge nothing.
LEMMA CallsPending ==
  ASSUME IInv, IInv',
         \/ CallWait \/ WaitForAll \/ ReleaseHolds \/ StartComputing
         \/ Schedule \/ NoticeFull \/ ScheduleNow \/ Wait \/ NoticeNeeded \/ NoticeStarting
  PROVE  Pending' = Pending
<1>0. TypeOK /\ TypeOK' /\ TableInv /\ CallInv
  BY DEF IInv, TableInv
<1>1. ~Coming(Idle) /\ (pc = "app" => ~Coming(call))
  BY <1>0 DEF CallInv, Coming, Idle
<1>2. task \in [Tasks -> Entries] /\ InTable \subseteq Tasks
  BY <1>0, TableIs
<1>3. ASSUME SameCall, NoticeCompleted PROVE Pending' = Pending
  BY <1>0, <1>3, NoticePending, SamePending
<1>4. ASSUME SameCall, UNCHANGED <<task, used>> PROVE Pending' = Pending
  BY <1>0, <1>4, QuietPending DEF Unfinished
<1>5. CASE CallWait
  <2>1. ~Coming(call) /\ ~Coming(call') /\ NoticeCompleted
    BY <1>1, <1>5 DEF CallWait, Coming, Idle
  <2>. QED
    BY <1>3, <2>1 DEF SameCall
<1>6. CASE WaitForAll
  <2>1. SameCall /\ UNCHANGED used
    BY <1>1, <1>6 DEF WaitForAll, Coming, Idle, SameCall
  <2>2. task' = [t \in Tasks |-> IF t \in Range(used)
                THEN [task[t] EXCEPT !.needed = 1] ELSE task[t]]
    BY <1>6 DEF WaitForAll
  <2>3. \A x \in InTable : /\ Unfinished(x)' <=> Unfinished(x)
                           /\ task'[x].var = task[x].var /\ task'[x].ops = task[x].ops
    <3>. TAKE x \in InTable
    <3>1. task[x] \in Entries /\ x \in Tasks
      BY <1>2
    <3>2. task'[x] = [task[x] EXCEPT !.needed = 1]
      BY <2>2, <3>1 DEF InTable
    <3>3. task'[x].stage = task[x].stage /\ task'[x].var = task[x].var
          /\ task'[x].ops = task[x].ops
      BY <3>1, <3>2 DEF Entries
    <3>. QED
      BY <3>3 DEF Unfinished
  <2>. QED
    BY <1>0, <2>1, <2>3, QuietPending
<1>7. CASE ReleaseHolds \/ Schedule
  BY <1>4, <1>7 DEF ReleaseHolds, Schedule, SameCall
<1>8. CASE StartComputing
  <2>1. ~Coming(call) /\ ~Coming(call') /\ UNCHANGED used
    BY <1>1, <1>8 DEF StartComputing, Coming, Idle
  <2>2. \E nd : mark_as_needed(nd)
    BY <1>8 DEF StartComputing
  <2>. QED
    BY <1>0, <2>1, <2>2, MarkPending DEF SameCall
<1>9. CASE NoticeFull
  BY <1>3, <1>9 DEF NoticeFull, SameCall
<1>10. CASE ScheduleNow
  <2>1. \E nd : mark_as_needed(nd)
    BY <1>10 DEF ScheduleNow
  <2>. QED
    BY <1>0, <1>10, <2>1, MarkPending DEF ScheduleNow, SameCall
<1>11. CASE Wait
  <2>1. ~Coming(call) /\ call' \in {call, Idle} /\ UNCHANGED used
    BY <1>11 DEF Wait, Coming, Return
  <2>2. SameCall
    BY <1>1, <2>1 DEF SameCall
  <2>3. UNCHANGED task \/ \E nd : mark_as_needed(nd)
    BY <1>11 DEF Wait
  <2>. QED
    BY <1>0, <1>4, <2>1, <2>2, <2>3, MarkPending
<1>12. CASE NoticeNeeded
  <2>1. call' = call \/ (call' = Idle /\ "MASTER_NOW" \notin kind.flags)
    BY <1>12 DEF NoticeNeeded, Return, kind
  <2>2. pc = "needed" /\ NoticeCompleted
    BY <1>12 DEF NoticeNeeded
  <2>3. "MASTER_NOW" \notin kind.flags => ~Coming(call)
    BY <1>0, <2>2 DEF CallInv, Scheduling, Now, Coming
  <2>. QED
    BY <1>1, <1>3, <2>1, <2>2, <2>3 DEF SameCall
<1>13. CASE NoticeStarting
  <2>1. call.op = "start" /\ call' \in {call, Idle} /\ NoticeCompleted
    BY <1>0, <1>13 DEF NoticeStarting, CallInv, Return
  <2>. QED
    BY <1>1, <1>3, <2>1 DEF SameCall, Coming
<1>. QED
  BY <1>5, <1>6, <1>7, <1>8, <1>9, <1>10, <1>11, <1>12, <1>13

-----------------------------------------------------------------------------
(* What the call may be joined with, and what may be done in either order.  *)

\* The call of helpers_do_task that may merge its operation has one operation, and its other
\* operand has been computed.
JoinInv == call.op = "do_task" => call.ops = 1 /\ ScalarComputed(kind)

\* All steps keep it, since marks of being computed are put on only when a call ends.
LEMMA JoinKeeps ==
  ASSUME IInv, JoinInv, [Next]_vars
  PROVE  JoinInv'
<1>0. TypeOK /\ CallInv
  BY DEF IInv, TableInv
<1>1. ASSUME call'.op # "do_task" PROVE JoinInv'
  BY <1>1 DEF JoinInv
<1>2. ASSUME call' = call, being_computed' \subseteq being_computed PROVE JoinInv'
  BY <1>2 DEF JoinInv, ScalarComputed, kind
<1>3. Idle.op = "none"
  BY DEF Idle
<1>4. NoticeCompleted => being_computed' \subseteq being_computed
  BY DEF NoticeCompleted
<1>5. CASE CallDoTask
  <2>1. PICK k \in Allowed :
           call' = [Idle EXCEPT !.op = "do_task", !.kind =
                IF k.flags \intersect {"MASTER_ONLY", "MASTER_NOW"} # {}
                  THEN [k EXCEPT !.flags = @ \ {"HOLD"}] ELSE k]
    BY <1>5 DEF CallDoTask
  <2>2. k \in TaskKinds /\ ScalarComputed(k)
    BY ConstantsAssumption DEF Allowed
  <2>3. call'.ops = 1 /\ (call'.kind = k \/ call'.kind = [k EXCEPT !.flags = @ \ {"HOLD"}])
    BY <2>1 DEF Idle
  <2>4. call'.kind.var = k.var /\ call'.kind.flags \subseteq k.flags
    BY <2>2, <2>3 DEF TaskKinds
  <2>5. being_computed' \subseteq being_computed
    BY <1>4, <1>5 DEF CallDoTask
  <2>6. ScalarComputed(kind)'
    BY <2>2, <2>4, <2>5 DEF ScalarComputed, kind, Inputs
  <2>. QED
    BY <2>3, <2>6 DEF JoinInv
<1>6. CASE CallWait
  BY <1>1, <1>6 DEF CallWait, Idle
<1>7. CASE WaitForAll
  BY <1>1, <1>7 DEF WaitForAll, Idle
<1>8. CASE ReleaseHolds
  BY <1>2, <1>8 DEF ReleaseHolds, marks
<1>9. CASE StartComputing
  BY <1>1, <1>9 DEF StartComputing, Idle
<1>10. CASE HelperStart \/ do_task_in_master(FALSE) \/ do_task_in_master(TRUE)
  BY <1>2, <1>10 DEF HelperStart, do_task_in_master, marks
<1>11. CASE Merge
  <2>1. call' = call \/ call' = Idle
    BY <1>11 DEF Merge, Return
  <2>2. being_computed' = being_computed
    BY <1>11 DEF Merge
  <2>. QED
    BY <1>1, <1>2, <1>3, <2>1, <2>2
<1>12. CASE MergeNow
  <2>1. call'.op = "no_merge"
    BY <1>0, <1>12 DEF MergeNow, TypeOK
  <2>. QED
    BY <1>1, <2>1
<1>13. CASE Schedule \/ ScheduleNow
  BY <1>2, <1>13 DEF Schedule, ScheduleNow, marks
<1>14. CASE NoticeFull
  BY <1>2, <1>4, <1>14 DEF NoticeFull
<1>15. CASE Fill \/ DoNow
  BY <1>1, <1>3, <1>15 DEF Fill, DoNow, Return
<1>16. CASE Wait
  <2>1. call' = call \/ call' = Idle
    BY <1>16 DEF Wait, Return
  <2>. QED
    BY <1>1, <1>2, <1>3, <1>16, <2>1 DEF Wait, marks
<1>17. CASE NoticeNeeded \/ NoticeStarting
  <2>1. (call' = call \/ call' = Idle) /\ NoticeCompleted
    BY <1>17 DEF NoticeNeeded, NoticeStarting, Return
  <2>. QED
    BY <1>1, <1>2, <1>3, <1>4, <2>1
<1>18. CASE \E t \in Tasks : run_this_task(t)
  BY <1>2, <1>18 DEF run_this_task, TaskComputes, TaskDone, marks
<1>19. CASE UNCHANGED vars
  BY <1>2, <1>19 DEF vars, marks
<1>20. CASE MergeWait
  BY <1>10, <1>20 DEF MergeWait
<1>. QED
  BY <1>5, <1>6, <1>7, <1>8, <1>9, <1>10, <1>11, <1>12, <1>13, <1>14, <1>15, <1>16, <1>17,
     <1>18, <1>19, <1>20 DEF Next, application, master_call

\* Operations that neither write what the other writes or reads may take effect in either
\* order.
LEMMA NoConflict ==
  ASSUME NEW e, NEW f, \A w \in 0..2 : e.var[0] # Null => f.var[w] # e.var[0],
         f.var[0] # Null => f.var[0] \notin Inputs(e) \ {e.var[0]}
  PROVE  /\ ~InOrderTasks!Conflict(Op(e), Op(f))
         /\ ~InOrderTasks!Conflict(Op(f), Op(e))
<1>1. /\ InOrderTasks!Written(Op(e)) = {e.var[0]} \ {Null}
      /\ InOrderTasks!Written(Op(f)) = {f.var[0]} \ {Null}
      /\ InOrderTasks!Read(Op(e)) = {e.var[w] : w \in 0..2} \ {Null}
      /\ InOrderTasks!Read(Op(f)) = {f.var[w] : w \in 0..2} \ {Null}
  BY DEF InOrderTasks!Written, InOrderTasks!Read, Op
<1>2. InOrderTasks!Written(Op(e)) \intersect InOrderTasks!Read(Op(f)) = {}
  BY <1>1
<1>3. \A w \in 0..2 : f.var[0] # Null => e.var[w] # f.var[0]
  <2>. SUFFICES ASSUME NEW w \in 0..2, f.var[0] # Null, e.var[w] = f.var[0]
                PROVE  FALSE
    OBVIOUS
  <2>1. e.var[0] # f.var[0]
    OBVIOUS
  <2>2. w \in 1..2
    BY <2>1
  <2>3. e.var[w] \in Inputs(e) \ {e.var[0]}
    BY <2>1, <2>2 DEF Inputs
  <2>. QED
    BY <2>3
<1>4. InOrderTasks!Written(Op(f)) \intersect InOrderTasks!Read(Op(e)) = {}
  BY <1>1, <1>3
<1>. QED
  BY <1>2, <1>4 DEF InOrderTasks!Conflict

\* The operations pending, and the tasks they are of.
LEMMA PendingAt ==
  ASSUME TypeOK, TypeOK'
  PROVE  /\ Len(Waiting) \in Nat
         /\ Len(Pending) = Len(Waiting) + IF Coming(call) THEN 1 ELSE 0
         /\ Len(Pending') = Len(Waiting') + IF Coming(call') THEN 1 ELSE 0
         /\ \A k \in 1..Len(Waiting) : Pending[k] = Op(task[Waiting[k]])
         /\ Coming(call) => Pending[Len(Waiting) + 1]
                              = Op([var |-> call.kind.var, ops |-> call.ops])
         /\ \A k \in 1..Len(Waiting) : /\ Waiting[k] \in InTable /\ Waiting[k] \in Tasks
                                       /\ Unfinished(Waiting[k])
         /\ \A j, k \in 1..Len(Waiting) : j < k => <<Waiting[j], Waiting[k]>> \in Order
<1>1. /\ Pending = PendingOf(Waiting, task, call)
      /\ Pending' = PendingOf(Waiting', task', call')
      /\ Waiting \in Seq(Tasks) /\ Waiting' \in Seq(Tasks)
      /\ IsInjective(Waiting)
      /\ Range(Waiting) = {t \in InTable : Unfinished(t)}
      /\ Ordered(Waiting) = {p \in Order : Unfinished(p[1]) /\ Unfinished(p[2])}
  BY PendingIs
<1>2. Len(Pending) = Len(Waiting) + IF Coming(call) THEN 1 ELSE 0
  BY <1>1, PendingOfSeq
<1>3. Len(Pending') = Len(Waiting') + IF Coming(call') THEN 1 ELSE 0
  BY <1>1, PendingOfSeq
<1>4. Len(Waiting) \in Nat
  BY <1>1
<1>5. \A k \in 1..Len(Waiting) : Pending[k] = Op(task[Waiting[k]])
  BY <1>1, <1>4 DEF PendingOf
<1>6. Coming(call) => Pending[Len(Waiting) + 1] = Op([var |-> call.kind.var, ops |-> call.ops])
  BY <1>1, <1>4 DEF PendingOf
<1>7. \A k \in 1..Len(Waiting) : Waiting[k] \in Range(Waiting) /\ Waiting[k] \in Tasks
  BY <1>1 DEF Range
<1>8. \A j, k \in 1..Len(Waiting) : j < k => <<Waiting[j], Waiting[k]>> \in Ordered(Waiting)
  BY <1>1, OrderedIs
<1>. QED
  BY <1>1, <1>2, <1>3, <1>4, <1>5, <1>6, <1>7, <1>8

-----------------------------------------------------------------------------
(* The steps that InOrder has.                                              *)

\* What InOrder takes from SequencesExt is what the lemmas above are about.
LEMMA SameOperators ==
  /\ \A s, i : InOrderTasks!RemoveAt(s, i) = RemoveAt(s, i)
  /\ \A s : InOrderTasks!Front(s) = Front(s)
  /\ \A s : InOrderTasks!Last(s) = Last(s)
  BY DEF InOrderTasks!RemoveAt, RemoveAt, InOrderTasks!Front, Front, InOrderTasks!Last, Last

\* CallDoTask schedules the operation.
LEMMA SchedulePending ==
  ASSUME IInv, IInv', CallDoTask
  PROVE  InOrderTasks!Next
<1>0. TableInv /\ TypeOK /\ TypeOK' /\ CallInv /\ NoticeCompleted
  BY DEF IInv, TableInv, CallDoTask
<1>1. call = Idle /\ ~Coming(call)
  BY <1>0 DEF CallInv, CallDoTask, Idle, Coming
<1>2. call'.op = "do_task" /\ call'.ops = 1 /\ Coming(call')
  BY DEF CallDoTask, Idle, Coming
<1>3. /\ Waiting' = Waiting /\ Waiting \in Seq(Tasks)
      /\ Pending = PendingOf(Waiting, task, call) /\ Pending' = PendingOf(Waiting', task', call')
  BY <1>0, NoticePending, PendingIs
<1>4. \A k \in 1..Len(Waiting) : Op(task'[Waiting[k]]) = Op(task[Waiting[k]])
  <2>1. \A k \in 1..Len(Waiting) : Waiting[k] \in Range(Waiting)
    BY <1>3 DEF Range
  <2>2. \A t \in Range(Waiting) : task'[t].var = task[t].var /\ task'[t].ops = task[t].ops
    BY <1>0, NoticePending
  <2>. QED
    BY <2>1, <2>2 DEF Op
<1>5. /\ Len(Pending') = Len(Pending) + 1 /\ Pending' = Append(Pending, Last(Pending'))
      /\ Last(Pending') = Op([var |-> call'.kind.var, ops |-> call'.ops])
  BY <1>1, <1>2, <1>3, <1>4, PendingMore
<1>6. call'.kind.var \in [0..2 -> Vars \union {Null}]
  BY <1>0 DEF TypeOK, TaskKinds
<1>7. Last(Pending') \in [var : [0..2 -> Vars \union {Null}], ops : {1}]
  BY <1>2, <1>5, <1>6 DEF Op
<1>8. InOrderTasks!Schedule
  <2>1. Len(Pending) \in Nat /\ Len(Pending') > Len(Pending)
    BY <1>3, <1>5, PendingOfSeq
  <2>. QED
    BY <1>5, <1>7, <2>1, SameOperators DEF InOrderTasks!Schedule
<1>. QED
  BY <1>8 DEF InOrderTasks!Next

\* A task procedure that returns has had its effect, after those it conflicts with.
LEMMA ComputesPending ==
  ASSUME IInv, IInv', NEW t \in Tasks, TaskComputes(t)
  PROVE  InOrderTasks!Next
<1>0. TypeOK /\ TypeOK' /\ IdleInv /\ AntiInv /\ StartInv'
  BY DEF IInv, TableInv
<1>1. /\ task[t].stage = "running" /\ task' = [task EXCEPT ![t].stage = "computed"]
      /\ UNCHANGED <<used, call>>
  BY DEF TaskComputes
<1>2. t \in InTable /\ InTable' = InTable /\ Order' = Order
  BY <1>0, <1>1 DEF IdleInv, InTable, Order
<1>3. /\ task \in [Tasks -> Entries] /\ InTable \subseteq Tasks
  BY <1>0, TableIs
<1>4. \A a \in Tasks : a # t => task'[a] = task[a]
  BY <1>1, <1>3
<1>5. task'[t].stage = "computed" /\ task'[t].var = task[t].var
  <2>1. task'[t] = [task[t] EXCEPT !.stage = "computed"] /\ task[t] \in Entries
    BY <1>1, <1>3
  <2>. QED
    BY <2>1 DEF Entries
<1>6. /\ Waiting \in Seq(Tasks) /\ IsInjective(Waiting)
      /\ Waiting' \in Seq(Tasks) /\ IsInjective(Waiting')
      /\ Range(Waiting) = {a \in InTable : Unfinished(a)}
      /\ Range(Waiting') = {a \in InTable' : Unfinished(a)'}
      /\ Ordered(Waiting) = {p \in Order : Unfinished(p[1]) /\ Unfinished(p[2])}
      /\ Ordered(Waiting') = {p \in Order' : task'[p[1]].stage \in {"waiting", "running"}
                                          /\ task'[p[2]].stage \in {"waiting", "running"}}
      /\ Pending = PendingOf(Waiting, task, call)
      /\ Pending' = PendingOf(Waiting', task', call')
  BY <1>0, PendingIs
<1>7. PICK i \in 1..Len(Waiting) : Waiting[i] = t
  <2>1. t \in Range(Waiting)
    BY <1>1, <1>2, <1>6 DEF Unfinished
  <2>. QED
    BY <1>6, <2>1 DEF Range
<1>8. Waiting' = Without(Waiting, i)
  <2>. DEFINE r == Without(Waiting, i)
  <2>1. /\ r \in Seq(Tasks) /\ IsInjective(r) /\ Range(r) = Range(Waiting) \ {t}
        /\ Ordered(r) = {p \in Ordered(Waiting) : p[1] \notin {t} /\ p[2] \notin {t}}
    <3>1. /\ Without(Waiting, i) \in Seq(Tasks) /\ IsInjective(Without(Waiting, i))
          /\ Range(Without(Waiting, i)) = Range(Waiting) \ {Waiting[i]}
          /\ Ordered(Without(Waiting, i)) =
               {p \in Ordered(Waiting) : p[1] \notin {Waiting[i]} /\ p[2] \notin {Waiting[i]}}
      BY <1>6, WithoutOrdered
    <3>. QED
      BY <1>7, <3>1
  <2>. HIDE DEF r
  <2>2. \A a \in InTable : Unfinished(a)' <=> Unfinished(a) /\ a # t
    BY <1>3, <1>4, <1>5 DEF Unfinished
  <2>3. Range(Waiting') = Range(r)
    BY <1>2, <1>6, <2>1, <2>2
  <2>4. \A p \in Order : p[1] \in InTable /\ p[2] \in InTable
    BY <1>0, TableIs, PairsIs DEF Order, InTable
  <2>5. Ordered(Waiting') = {p \in Order : /\ (Unfinished(p[1]) /\ p[1] # t)
                                           /\ (Unfinished(p[2]) /\ p[2] # t)}
    BY <1>2, <1>6, <2>2, <2>4 DEF Unfinished
  <2>6. Ordered(Waiting') = Ordered(r)
    BY <1>6, <2>1, <2>5
  <2>7. Waiting' = r
    BY <1>6, <2>1, <2>3, <2>6, EqualOrdered
  <2>. QED
    BY <2>7 DEF r
<1>9. Pending' = RemoveAt(Pending, i)
  <2>1. \A k \in 1..Len(Waiting) : k # i => Op(task'[Waiting[k]]) = Op(task[Waiting[k]])
    <3>1. \A k \in 1..Len(Waiting) : k # i => Waiting[k] # t /\ Waiting[k] \in Tasks
      BY <1>6, <1>7 DEF IsInjective
    <3>. QED
      BY <1>4, <3>1 DEF Op
  <2>2. PendingOf(Without(Waiting, i), task', call) = RemoveAt(PendingOf(Waiting, task, call), i)
    BY <1>6, <2>1, PendingWithout
  <2>. QED
    BY <1>1, <1>6, <1>8, <2>2
<1>10. /\ Len(Waiting) \in Nat
       /\ Len(Pending) = Len(Waiting) + IF Coming(call) THEN 1 ELSE 0
       /\ Len(Pending') = Len(Waiting') + IF Coming(call') THEN 1 ELSE 0
       /\ \A k \in 1..Len(Waiting) : Pending[k] = Op(task[Waiting[k]])
       /\ \A k \in 1..Len(Waiting) : /\ Waiting[k] \in InTable /\ Waiting[k] \in Tasks
                                     /\ Unfinished(Waiting[k])
       /\ \A j, k \in 1..Len(Waiting) : j < k => <<Waiting[j], Waiting[k]>> \in Order
  BY <1>0, PendingAt
<1>11. Len(Pending') < Len(Pending) /\ i \in 1..Len(Pending)
  <2>1. Len(Waiting') = Len(Waiting) - 1
    BY <1>6, <1>7, <1>8, WithoutOrdered
  <2>. QED
    BY <1>1, <1>7, <1>10, <2>1
<1>12. ASSUME NEW j \in 1..(i - 1)
       PROVE  ~InOrderTasks!Conflict(Pending[i], Pending[j])
  <2>. DEFINE a == Waiting[j]
  <2>1. /\ j \in 1..Len(Waiting) /\ j < i /\ a \in Tasks /\ Unfinished(a) /\ a # t
        /\ <<a, t>> \in Order
    <3>1. j \in 1..Len(Waiting) /\ j < i /\ j # i
      BY <1>7, <1>10, <1>12
    <3>. QED
      BY <1>6, <1>7, <1>10, <3>1 DEF IsInjective
  <2>. HIDE DEF a
  <2>2. \A w \in 0..2 : Out(a) # Null => task[t].var[w] # Out(a)
    <3>. SUFFICES ASSUME NEW w \in 0..2, Out(a) # Null, task[t].var[w] = Out(a)
                  PROVE  FALSE
      OBVIOUS
    <3>1. <<a, t>> \in Order' /\ task'[t].var[w] = task'[a].var[0]
          /\ task'[a].var[0] # Null /\ task'[t].stage # "waiting"
      BY <1>2, <1>4, <1>5, <2>1 DEF Out
    <3>2. task'[a].stage \in {"computed", "done"} \/ task'[t].stage = "running"
      BY <1>0, <2>1, <3>1 DEF StartInv, Out, Computed, Pipelined
    <3>3. task'[a].stage \in {"waiting", "running"} /\ task'[t].stage # "running"
      BY <1>4, <1>5, <2>1 DEF Unfinished
    <3>. QED
      BY <3>2, <3>3
  <2>3. Out(t) \notin OtherInputs(a)
    BY <1>0, <2>1 DEF AntiInv, Done, Unfinished
  <2>4. ~InOrderTasks!Conflict(Op(task[t]), Op(task[a]))
    BY <2>2, <2>3, NoConflict DEF Out, OtherInputs
  <2>. QED
    BY <1>7, <1>10, <2>1, <2>4 DEF a
<1>13. InOrderTasks!Free(i, 1..(i - 1))
  BY <1>12 DEF InOrderTasks!Free
<1>14. InOrderTasks!Effect(i)
  BY <1>9, <1>13, SameOperators DEF InOrderTasks!Effect
<1>. QED
  BY <1>11, <1>14 DEF InOrderTasks!Next

\* A master-now task has its effect after all it conflicts with.
LEMMA DoNowPending ==
  ASSUME IInv, IInv', DoNow
  PROVE  InOrderTasks!Next
<1>0. TypeOK /\ TypeOK' /\ CallInv
  BY DEF IInv, TableInv
<1>1. Coming(call) /\ ~Coming(call') /\ UNCHANGED <<task, used>>
  BY <1>0 DEF DoNow, CallInv, Scheduling, Coming, Return, Idle
<1>2. Waiting' = Waiting
  BY <1>1 DEF Waiting, WaitingOf
<1>3. /\ Waiting \in Seq(Tasks)
      /\ Pending = PendingOf(Waiting, task, call)
      /\ Pending' = PendingOf(Waiting', task', call')
  BY <1>0, PendingIs
<1>4. /\ Len(Waiting) \in Nat
      /\ Len(Pending) = Len(Waiting) + IF Coming(call) THEN 1 ELSE 0
      /\ Len(Pending') = Len(Waiting') + IF Coming(call') THEN 1 ELSE 0
      /\ \A k \in 1..Len(Waiting) : Pending[k] = Op(task[Waiting[k]])
      /\ Coming(call) => Pending[Len(Waiting) + 1]
                            = Op([var |-> call.kind.var, ops |-> call.ops])
      /\ \A k \in 1..Len(Waiting) : /\ Waiting[k] \in InTable /\ Waiting[k] \in Tasks
                                    /\ Unfinished(Waiting[k])
  BY <1>0, PendingAt
<1>. DEFINE n == Len(Waiting) + 1
<1>5. Pending' = RemoveAt(Pending, n)
  BY <1>1, <1>2, <1>3, PendingLast
<1>6. Len(Pending') < Len(Pending) /\ n \in 1..Len(Pending)
  BY <1>1, <1>2, <1>4
<1>7. ASSUME NEW j \in 1..(n - 1)
      PROVE  ~InOrderTasks!Conflict(Pending[n], Pending[j])
  <2>. DEFINE a == Waiting[j]
              e == [var |-> call.kind.var, ops |-> call.ops]
  <2>1. j \in 1..Len(Waiting)
    BY <1>4, <1>7
  <2>2. a \in InTable /\ a \in Tasks /\ Unfinished(a) /\ Pending[j] = Op(task[a])
    BY <1>4, <2>1
  <2>. HIDE DEF a
  <2>3. ~Conflict(task[a], kind)
    <3>1. PICK i \in 1..Len(used) : used[i] = a
      BY <1>0, <2>2, TableIs
    <3>2. \A x \in 1..Len(used) : Conflict(At(x), kind) => At(x).stage \in {"computed", "done"}
      <4>1. AwaitedStep
        BY DoNowAwaits
      <4>2. pc = "now" /\ pc' = "app"
        BY DEF DoNow, Return
      <4>. QED
        BY <4>1, <4>2 DEF AwaitedStep, helpers_tasks
    <3>3. At(i) = task[a]
      BY <3>1 DEF At
    <3>. QED
      BY <2>2, <3>2, <3>3 DEF Unfinished
  <2>4. \A w \in 0..2 : task[a].var[0] # Null => e.var[w] # task[a].var[0]
    BY <2>3 DEF Conflict, Inputs, kind
  <2>5. e.var[0] # Null => e.var[0] \notin Inputs(task[a]) \ {task[a].var[0]}
    BY <2>3 DEF Conflict, kind
  <2>. HIDE DEF e
  <2>6. ~InOrderTasks!Conflict(Op(e), Op(task[a]))
    BY <2>4, <2>5, NoConflict
  <2>. QED
    BY <1>1, <1>4, <2>2, <2>6 DEF e
<1>. HIDE DEF n
<1>8. InOrderTasks!Free(n, 1..(n - 1))
  BY <1>7 DEF InOrderTasks!Free
<1>9. InOrderTasks!Effect(n)
  BY <1>5, <1>8, SameOperators DEF InOrderTasks!Effect
<1>. QED
  BY <1>6, <1>9 DEF InOrderTasks!Next

\* The new operation gets an entry, at its place in the order.
LEMMA FillPending ==
  ASSUME IInv, IInv', JoinInv, Fill
  PROVE  Pending' = Pending
<1>0. TypeOK /\ TypeOK' /\ CallInv
  BY DEF IInv, TableInv
<1>1. call.op = "do_task" /\ call.ops = 1 /\ Coming(call) /\ ~Coming(call')
  BY <1>0 DEF Fill, CallInv, JoinInv, Coming, Return, Idle
<1>. DEFINE before == [w \in 1..2 |-> kind.var[w] \in (Inputs(kind) \ {kind.var[0]}) \ in_use]
            entry == [Blank EXCEPT !.var = kind.var, !.flags = kind.flags,
                          !.pipe = Pipes, !.not_in_use_before = before]
            old(x) == [task[x] EXCEPT !.out_used = @ \/ \E w \in 0..2 : Pipes[w] = x]
<1>2. PICK t \in Tasks \ Range(used) :
           /\ task' = [x \in Tasks |-> IF x = t THEN entry ELSE old(x)]
           /\ used' = Append(used, t)
  BY DEF Fill
<1>3. /\ InTable \subseteq Tasks /\ task \in [Tasks -> Entries]
      /\ used \in Seq(Tasks) /\ IsInjective(used)
  BY <1>0, TableIs
<1>4. entry.var = kind.var /\ entry.ops = 1 /\ entry.stage = "waiting"
  BY DEF Blank
<1>5. \A x \in Tasks : old(x).var = task[x].var /\ old(x).ops = task[x].ops
                       /\ old(x).stage = task[x].stage
  BY <1>3 DEF Entries
<1>. HIDE DEF entry, old
<1>6. /\ task'[t].var = kind.var /\ task'[t].ops = 1 /\ task'[t].stage = "waiting"
      /\ \A x \in Tasks : x # t => /\ task'[x].var = task[x].var /\ task'[x].ops = task[x].ops
                                   /\ task'[x].stage = task[x].stage
  BY <1>2, <1>4, <1>5
<1>7. /\ InTable' = InTable \union {t} /\ t \notin InTable /\ t \in Tasks
      /\ Order' = Order \union {<<a, t>> : a \in InTable}
  BY <1>2, <1>3, AppendOrdered DEF InTable, Order
<1>8. /\ Waiting \in Seq(Tasks) /\ IsInjective(Waiting)
      /\ Waiting' \in Seq(Tasks) /\ IsInjective(Waiting')
      /\ Range(Waiting) = {a \in InTable : Unfinished(a)}
      /\ Range(Waiting') = {a \in InTable' : Unfinished(a)'}
      /\ Ordered(Waiting) = {p \in Order : Unfinished(p[1]) /\ Unfinished(p[2])}
      /\ Ordered(Waiting') = {p \in Order' : task'[p[1]].stage \in {"waiting", "running"}
                                          /\ task'[p[2]].stage \in {"waiting", "running"}}
      /\ Pending = PendingOf(Waiting, task, call)
      /\ Pending' = PendingOf(Waiting', task', call')
  BY <1>0, PendingIs
<1>9. \A p \in Order : p[1] \in InTable /\ p[2] \in InTable
  BY <1>0, TableIs, PairsIs DEF Order, InTable
<1>10. Waiting' = Append(Waiting, t)
  <2>. DEFINE r == Append(Waiting, t)
  <2>1. /\ r \in Seq(Tasks) /\ IsInjective(r) /\ Range(r) = Range(Waiting) \union {t}
        /\ Ordered(r) = Ordered(Waiting) \union {<<a, t>> : a \in Range(Waiting)}
    <3>1. t \in Tasks \ Range(Waiting)
      BY <1>7, <1>8
    <3>. QED
      BY <1>8, <3>1, AppendOrdered
  <2>. HIDE DEF r
  <2>2. \A a \in InTable : a # t /\ (Unfinished(a)' <=> Unfinished(a))
    BY <1>3, <1>6, <1>7 DEF Unfinished
  <2>3. Unfinished(t)'
    BY <1>6 DEF Unfinished
  <2>4. Range(Waiting') = Range(r)
    BY <1>7, <1>8, <2>1, <2>2, <2>3
  <2>5. \A p \in Order : p \in Ordered(Waiting') <=> p \in Ordered(Waiting)
    BY <1>7, <1>8, <1>9, <2>2 DEF Unfinished
  <2>6. \A a \in InTable : <<a, t>> \in Ordered(Waiting') <=> a \in Range(Waiting)
    <3>. TAKE a \in InTable
    <3>1. <<a, t>> \in Order'
      BY <1>7
    <3>. DEFINE p == <<a, t>>
    <3>2. p \in Order' /\ p[1] = a /\ p[2] = t
      BY <3>1
    <3>. HIDE DEF p
    <3>3. p \in Ordered(Waiting') <=> Unfinished(a)' /\ Unfinished(t)'
      BY <1>8, <3>2 DEF Unfinished
    <3>4. p \in Ordered(Waiting') <=> a \in Range(Waiting)
      BY <1>8, <2>2, <2>3, <3>3
    <3>. QED
      BY <3>4 DEF p
  <2>7. Ordered(Waiting') \subseteq Order' /\ Ordered(Waiting) \subseteq Order
        /\ Range(Waiting) \subseteq InTable
    BY <1>8
  <2>8. Ordered(Waiting') \subseteq Ordered(r)
    BY <1>7, <2>1, <2>5, <2>6, <2>7
  <2>9. Ordered(r) \subseteq Ordered(Waiting')
    BY <2>1, <2>5, <2>6, <2>7
  <2>10. Waiting' = r
    BY <1>8, <2>1, <2>4, <2>8, <2>9, EqualOrdered
  <2>. QED
    BY <2>10 DEF r
<1>11. \A k \in 1..Len(Waiting) : Op(task'[Waiting[k]]) = Op(task[Waiting[k]])
  <2>1. \A k \in 1..Len(Waiting) : Waiting[k] \in Range(Waiting)
    BY <1>8 DEF Range
  <2>2. \A k \in 1..Len(Waiting) : Waiting[k] \in Tasks /\ Waiting[k] # t
    BY <1>3, <1>7, <1>8, <2>1
  <2>. QED
    BY <1>6, <2>2 DEF Op
<1>12. Op(task'[t]) = Op([var |-> call.kind.var, ops |-> call.ops])
  BY <1>1, <1>6 DEF Op, kind
<1>13. PendingOf(Append(Waiting, t), task', call') = PendingOf(Waiting, task, call)
  BY <1>1, <1>7, <1>8, <1>11, <1>12, PendingFilled
<1>. QED
  BY <1>8, <1>10, <1>13

\* What is scheduled after the task merged with neither computes nor uses its variable.
LEMMA AfterTarget ==
  ASSUME IInv, CanMerge, NEW a \in InTable, <<Target, a>> \in Order, Unfinished(a)
  PROVE  \A w \in 0..2 : task[a].var[w] # kind.var[0]
<1>0. TypeOK /\ CallInv /\ UseInv
  BY DEF IInv, TableInv
<1>1. LastWriter(Target, kind.var[0]) /\ Target \in Tasks /\ kind.var[0] # Null /\ a \in Tasks
  BY <1>0, TargetIs, TableIs
<1>2. Out(a) # kind.var[0]
  BY <1>0, <1>1, OrderIs DEF LastWriter
<1>3. kind.var[0] \notin OtherInputs(a)
  <2>1. kind.var[0] \notin in_use
    BY <1>0 DEF CallInv, CanMerge, Scheduling
  <2>2. OtherInputs(a) \subseteq in_use
    BY <1>0 DEF UseInv, Done, Unfinished
  <2>. QED
    BY <2>1, <2>2
<1>4. ASSUME NEW w \in 0..2, task[a].var[w] = kind.var[0] PROVE FALSE
  <2>1. w \in {1, 2}
    BY <1>2, <1>4 DEF Out
  <2>2. kind.var[0] \in OtherInputs(a)
    BY <1>1, <1>2, <1>4, <2>1 DEF OtherInputs, Inputs
  <2>. QED
    BY <1>3, <2>2
<1>. QED
  BY <1>4

\* Nothing pending computes the other operand of an operation that may be merged, for which
\* the application has waited.
LEMMA KnownPending ==
  ASSUME IInv, TypeOK', JoinInv, CanMerge
  PROVE  InOrderTasks!Known
<1>0. TypeOK /\ ComputeInv
  BY DEF IInv, TableInv
<1>1. /\ call.op = "do_task" /\ Coming(call) /\ ScalarComputed(kind)
      /\ "MERGE_IN" \in kind.flags /\ kind.var[0] \in being_computed
  BY DEF CanMerge, JoinInv, Coming
<1>2. /\ Len(Waiting) \in Nat
      /\ Len(Pending) = Len(Waiting) + IF Coming(call) THEN 1 ELSE 0
      /\ \A k \in 1..Len(Waiting) : Pending[k] = Op(task[Waiting[k]])
      /\ Coming(call) => Pending[Len(Waiting) + 1]
                            = Op([var |-> call.kind.var, ops |-> call.ops])
      /\ \A k \in 1..Len(Waiting) : /\ Waiting[k] \in InTable /\ Waiting[k] \in Tasks
                                    /\ Unfinished(Waiting[k])
  BY <1>0, PendingAt
<1>3. Len(Pending) = Len(Waiting) + 1 /\ Len(Pending) - 1 = Len(Waiting)
  BY <1>1, <1>2
<1>4. Pending[Len(Pending)] = Op([var |-> kind.var, ops |-> call.ops])
  BY <1>1, <1>2, <1>3 DEF kind
<1>. DEFINE new == Pending[Len(Pending)]
<1>5. InOrderTasks!Read(new) \ InOrderTasks!Written(new) \subseteq Inputs(kind) \ {kind.var[0]}
  BY <1>4 DEF InOrderTasks!Read, InOrderTasks!Written, Op, Inputs
<1>6. ASSUME NEW j \in 1..(Len(Pending) - 1)
      PROVE  InOrderTasks!Written(Pending[j])
               \intersect (InOrderTasks!Read(new) \ InOrderTasks!Written(new)) = {}
  <2>1. Waiting[j] \in InTable /\ Unfinished(Waiting[j]) /\ Pending[j] = Op(task[Waiting[j]])
    BY <1>2, <1>3
  <2>2. InOrderTasks!Written(Pending[j]) = {Out(Waiting[j])} \ {Null}
    BY <2>1 DEF InOrderTasks!Written, Op, Out
  <2>3. ASSUME Out(Waiting[j]) # Null PROVE Out(Waiting[j]) \in being_computed
    BY <1>0, <1>1, <2>1, <2>3 DEF ComputeInv
  <2>4. (Inputs(kind) \ {kind.var[0]}) \intersect being_computed = {}
    BY <1>1 DEF ScalarComputed
  <2>. QED
    BY <1>5, <2>2, <2>3, <2>4
<1>. QED
  BY <1>6 DEF InOrderTasks!Known

\* The new operation joins that of the target at its place in the order: no task scheduled
\* in between computes its other operand.
LEMMA MergePending ==
  ASSUME IInv, IInv', JoinInv, Merge
  PROVE  InOrderTasks!Next
<1>0. TypeOK /\ TypeOK' /\ ComputeInv /\ CallInv /\ CallInv'
  BY DEF IInv, TableInv
<1>1. CanMerge /\ call.op = "do_task" /\ call.ops = 1 /\ Coming(call) /\ ScalarComputed(kind)
      /\ "MERGE_IN" \in kind.flags /\ kind.var[0] \in being_computed
  BY DEF Merge, CanMerge, JoinInv, Coming
<1>2. ~Coming(call')
  <2>1. pc' # "exit"
    BY <1>0 DEF CallInv
  <2>2. call' = Idle
    BY <2>1 DEF Merge, Return
  <2>. QED
    BY <2>2 DEF Coming, Idle
<1>3. /\ LastWriter(Target, kind.var[0]) /\ Target \in InTable /\ Target \in Tasks
      /\ task[Target] \in Entries /\ task[Target].stage = "waiting"
      /\ Out(Target) = kind.var[0]
  BY <1>0, <1>1, TargetIs
<1>4. /\ InTable \subseteq Tasks /\ task \in [Tasks -> Entries]
  BY <1>0, TableIs
<1>5. \E f : task' = [task EXCEPT ![Target].ops = @ + 1, ![Target].flags = f]
  BY DEF Merge
<1>6. \A x \in Tasks : x # Target => task'[x] = task[x]
  BY <1>3, <1>4, <1>5
<1>7. /\ task'[Target].ops = task[Target].ops + 1 /\ task'[Target].var = task[Target].var
      /\ task'[Target].stage = task[Target].stage
  <2>1. PICK f : task'[Target] = [task[Target] EXCEPT !.ops = @ + 1, !.flags = f]
    BY <1>3, <1>4, <1>5
  <2>. QED
    BY <1>3, <2>1 DEF Entries
<1>8. Waiting' = Waiting
  <2>1. used' = used
    BY DEF Merge
  <2>2. \A t \in Range(used) : task'[t].stage = task[t].stage
    BY <1>4, <1>6, <1>7 DEF InTable
  <2>. QED
    BY <2>1, <2>2 DEF Waiting, WaitingOf
<1>9. /\ Waiting \in Seq(Tasks) /\ IsInjective(Waiting)
      /\ Range(Waiting) = {t \in InTable : Unfinished(t)}
      /\ Pending = PendingOf(Waiting, task, call)
      /\ Pending' = PendingOf(Waiting', task', call')
  BY <1>0, PendingIs
<1>10. /\ Len(Waiting) \in Nat
       /\ Len(Pending) = Len(Waiting) + IF Coming(call) THEN 1 ELSE 0
       /\ Len(Pending') = Len(Waiting') + IF Coming(call') THEN 1 ELSE 0
       /\ \A k \in 1..Len(Waiting) : Pending[k] = Op(task[Waiting[k]])
       /\ Coming(call) => Pending[Len(Waiting) + 1]
                             = Op([var |-> call.kind.var, ops |-> call.ops])
       /\ \A k \in 1..Len(Waiting) : /\ Waiting[k] \in InTable /\ Waiting[k] \in Tasks
                                     /\ Unfinished(Waiting[k])
       /\ \A j, k \in 1..Len(Waiting) : j < k => <<Waiting[j], Waiting[k]>> \in Order
  BY <1>0, PendingAt
<1>. DEFINE n == Len(Waiting) + 1
            e == [var |-> call.kind.var, ops |-> call.ops]
<1>11. /\ Len(Pending') < Len(Pending) /\ n = Len(Pending) /\ Pending[n] = Op(e)
       /\ n - 1 = Len(Waiting)
  BY <1>1, <1>2, <1>8, <1>10
<1>12. PICK i \in 1..Len(Waiting) : Waiting[i] = Target
  <2>1. Target \in Range(Waiting)
    BY <1>3, <1>9 DEF Unfinished
  <2>. QED
    BY <1>9, <2>1 DEF Range
<1>13. Pending' = JoinedEarlier(Pending, i, n)
  <2>1. \A k \in 1..Len(Waiting) : k # i => Op(task'[Waiting[k]]) = Op(task[Waiting[k]])
    <3>1. \A k \in 1..Len(Waiting) : k # i => Waiting[k] # Target /\ Waiting[k] \in Tasks
      BY <1>9, <1>12 DEF IsInjective
    <3>. QED
      BY <1>6, <3>1 DEF Op
  <2>2. Op(task'[Waiting[i]]) = [var |-> task[Waiting[i]].var,
                                 ops |-> task[Waiting[i]].ops + call.ops]
    BY <1>1, <1>7, <1>12 DEF Op
  <2>3. PendingOf(Waiting, task', call')
          = JoinedEarlier(Pending, i, Len(Waiting) + 1)
    <3>1. Waiting \in Seq(Tasks) /\ Coming(call) /\ ~Coming(call')
      BY <1>1, <1>2, <1>9
    <3>2. Pending = PendingOf(Waiting, task, call)
      BY <1>9
    <3>. QED
      BY <2>1, <2>2, <3>1, <3>2, PendingJoined
  <2>. QED
    BY <1>8, <1>9, <2>3
<1>14. e.var = kind.var
  BY DEF kind
<1>15. InOrderTasks!Written(Pending[i]) = InOrderTasks!Written(Pending[n])
  <2>1. Pending[i] = Op(task[Target])
    BY <1>10, <1>12
  <2>2. Pending[i].var[0] = kind.var[0]
    BY <1>3, <2>1 DEF Op, Out
  <2>. HIDE DEF e
  <2>3. Pending[n].var[0] = kind.var[0]
    BY <1>11, <1>14 DEF Op
  <2>. QED
    BY <2>2, <2>3 DEF InOrderTasks!Written
<1>. HIDE DEF e
<1>16. ASSUME NEW j \in (i + 1)..(n - 1)
       PROVE  ~InOrderTasks!Conflict(Pending[n], Pending[j])
  <2>. DEFINE a == Waiting[j]
  <2>1. /\ j \in 1..Len(Waiting) /\ i < j
    BY <1>11, <1>12, <1>16
  <2>2. /\ a \in InTable /\ a \in Tasks /\ Unfinished(a) /\ <<Target, a>> \in Order
        /\ Pending[j] = Op(task[a])
    BY <1>10, <1>12, <2>1
  <2>. HIDE DEF a
  <2>3. \A w \in 0..2 : task[a].var[w] # kind.var[0]
    BY <1>1, <2>2, AfterTarget
  <2>4. ASSUME Out(a) # Null, NEW w \in 0..2, kind.var[w] = Out(a) PROVE FALSE
    <3>1. w \in {1, 2} /\ Out(a) # kind.var[0]
      BY <2>3, <2>4 DEF Out
    <3>2. Out(a) \in Inputs(kind) \ {kind.var[0]}
      BY <2>4, <3>1 DEF Inputs
    <3>3. Out(a) \notin being_computed
      BY <1>1, <3>2 DEF ScalarComputed
    <3>4. call.op = "no_merge"
      BY <1>0, <2>2, <2>4, <3>3 DEF ComputeInv
    <3>. QED
      BY <1>1, <3>4
  <2>5. \A w \in 0..2 : task[a].var[0] # Null => e.var[w] # task[a].var[0]
    BY <1>14, <2>4 DEF Out
  <2>6. e.var[0] \notin Inputs(task[a]) \ {task[a].var[0]}
    BY <1>14, <2>3 DEF Inputs
  <2>7. ~InOrderTasks!Conflict(Op(e), Op(task[a]))
    BY <2>5, <2>6, NoConflict
  <2>. QED
    BY <1>11, <2>2, <2>7
<1>. HIDE DEF n
<1>17. InOrderTasks!Free(n, (i + 1)..(n - 1))
  BY <1>16 DEF InOrderTasks!Free
<1>18. InOrderTasks!JoinEarlier(i)
  BY <1>0, <1>1, <1>11, <1>13, <1>15, <1>17, KnownPending, SameOperators
     DEF InOrderTasks!JoinEarlier, JoinedEarlier
<1>19. i \in 1..(Len(Pending) - 1)
  BY <1>11, <1>12
<1>. QED
  BY <1>11, <1>18, <1>19 DEF InOrderTasks!Next

\* The target's operations join that of the master-now task at its place in the order: no
\* task scheduled in between uses their variable or computes an input of theirs.
LEMMA MergeNowPending ==
  ASSUME IInv, IInv', JoinInv, MergeNow
  PROVE  InOrderTasks!Next
<1>0. TypeOK /\ TypeOK' /\ AntiInv
  BY DEF IInv, TableInv
<1>1. CanMerge /\ call.op = "do_task" /\ call.ops = 1 /\ Coming(call)
  BY DEF MergeNow, CanMerge, JoinInv, Coming
<1>2. /\ call'.op = "no_merge" /\ Coming(call')
      /\ call'.ops = task[Target].ops + call.ops /\ call'.kind.var = task[Target].var
  <2>1. call' = [call EXCEPT !.op = "no_merge", !.ops = task[Target].ops + 1, !.kind =
                [var |-> task[Target].var,
                 flags |-> (MergedFlags \ {"MASTER_ONLY"}) \union {"MASTER_NOW"}]]
    BY DEF MergeNow
  <2>2. call'.op = "no_merge" /\ call'.ops = task[Target].ops + 1
        /\ call'.kind.var = task[Target].var
    BY <1>0, <2>1 DEF TypeOK
  <2>. QED
    BY <1>1, <2>2 DEF Coming
<1>3. /\ LastWriter(Target, kind.var[0]) /\ Target \in InTable /\ Target \in Tasks
      /\ task[Target].stage = "waiting" /\ Out(Target) = kind.var[0]
  BY <1>0, <1>1, TargetIs
<1>4. /\ InTable \subseteq Tasks /\ task \in [Tasks -> Entries]
      /\ used \in Seq(Tasks) /\ IsInjective(used)
  BY <1>0, TableIs
<1>5. \A x \in Tasks : x # Target => task'[x] = task[x]
  BY <1>4 DEF MergeNow
<1>6. /\ InTable' = InTable \ {Target}
      /\ Order' = {p \in Order : p[1] \notin {Target} /\ p[2] \notin {Target}}
  BY <1>4, LeftOrdered DEF MergeNow, InTable, Order
<1>7. /\ Waiting \in Seq(Tasks) /\ IsInjective(Waiting)
      /\ Waiting' \in Seq(Tasks) /\ IsInjective(Waiting')
      /\ Range(Waiting) = {a \in InTable : Unfinished(a)}
      /\ Range(Waiting') = {a \in InTable' : Unfinished(a)'}
      /\ Ordered(Waiting) = {p \in Order : Unfinished(p[1]) /\ Unfinished(p[2])}
      /\ Ordered(Waiting') = {p \in Order' : task'[p[1]].stage \in {"waiting", "running"}
                                          /\ task'[p[2]].stage \in {"waiting", "running"}}
      /\ Pending = PendingOf(Waiting, task, call)
      /\ Pending' = PendingOf(Waiting', task', call')
  BY <1>0, PendingIs
<1>8. PICK i \in 1..Len(Waiting) : Waiting[i] = Target
  <2>1. Target \in Range(Waiting)
    BY <1>3, <1>7 DEF Unfinished
  <2>. QED
    BY <1>7, <2>1 DEF Range
<1>9. Waiting' = Without(Waiting, i)
  <2>. DEFINE r == Without(Waiting, i)
  <2>1. /\ r \in Seq(Tasks) /\ IsInjective(r) /\ Range(r) = Range(Waiting) \ {Target}
        /\ Ordered(r) = {p \in Ordered(Waiting) : p[1] \notin {Target} /\ p[2] \notin {Target}}
    <3>1. /\ Without(Waiting, i) \in Seq(Tasks) /\ IsInjective(Without(Waiting, i))
          /\ Range(Without(Waiting, i)) = Range(Waiting) \ {Waiting[i]}
          /\ Ordered(Without(Waiting, i)) =
               {p \in Ordered(Waiting) : p[1] \notin {Waiting[i]} /\ p[2] \notin {Waiting[i]}}
      BY <1>7, WithoutOrdered
    <3>. QED
      BY <1>8, <3>1
  <2>. HIDE DEF r
  <2>2. \A a \in InTable' : Unfinished(a)' <=> Unfinished(a)
    BY <1>4, <1>5, <1>6 DEF Unfinished
  <2>3. Range(Waiting') = Range(r)
    BY <1>6, <1>7, <2>1, <2>2
  <2>4. \A p \in Order' : p[1] \in InTable' /\ p[2] \in InTable'
    BY <1>4, <1>6, PairsIs DEF Order, InTable
  <2>5. Ordered(Waiting') = {p \in Order' : Unfinished(p[1]) /\ Unfinished(p[2])}
    BY <1>7, <2>2, <2>4 DEF Unfinished
  <2>6. Ordered(Waiting') = Ordered(r)
    BY <1>6, <1>7, <2>1, <2>5
  <2>7. Waiting' = r
    BY <1>7, <2>1, <2>3, <2>6, EqualOrdered
  <2>. QED
    BY <2>7 DEF r
<1>10. /\ Len(Waiting) \in Nat
       /\ Len(Pending) = Len(Waiting) + IF Coming(call) THEN 1 ELSE 0
       /\ Len(Pending') = Len(Waiting') + IF Coming(call') THEN 1 ELSE 0
       /\ \A k \in 1..Len(Waiting) : Pending[k] = Op(task[Waiting[k]])
       /\ Coming(call) => Pending[Len(Waiting) + 1]
                             = Op([var |-> call.kind.var, ops |-> call.ops])
       /\ \A k \in 1..Len(Waiting) : /\ Waiting[k] \in InTable /\ Waiting[k] \in Tasks
                                     /\ Unfinished(Waiting[k])
       /\ \A j, k \in 1..Len(Waiting) : j < k => <<Waiting[j], Waiting[k]>> \in Order
  BY <1>0, PendingAt
<1>. DEFINE n == Len(Waiting) + 1
            e == [var |-> call.kind.var, ops |-> call.ops]
<1>11. /\ Len(Pending') < Len(Pending) /\ n = Len(Pending) /\ Pending[n] = Op(e)
       /\ n - 1 = Len(Waiting)
  <2>1. Len(Waiting') = Len(Waiting) - 1
    BY <1>7, <1>8, <1>9, WithoutOrdered
  <2>. QED
    BY <1>1, <1>2, <1>10, <2>1
<1>12. Pending' = JoinedLater(Pending, i, n)
  <2>1. \A k \in 1..Len(Waiting) : k # i => Op(task'[Waiting[k]]) = Op(task[Waiting[k]])
    <3>1. \A k \in 1..Len(Waiting) : k # i => Waiting[k] # Target /\ Waiting[k] \in Tasks
      BY <1>7, <1>8 DEF IsInjective
    <3>. QED
      BY <1>5, <3>1 DEF Op
  <2>2. call'.kind.var = task[Waiting[i]].var /\ call'.ops = task[Waiting[i]].ops + call.ops
    BY <1>2, <1>8
  <2>3. PendingOf(Without(Waiting, i), task', call')
          = JoinedLater(Pending, i, Len(Waiting) + 1)
    <3>1. Waiting \in Seq(Tasks) /\ Coming(call) /\ Coming(call')
      BY <1>1, <1>2, <1>7
    <3>2. Pending = PendingOf(Waiting, task, call)
      BY <1>7
    <3>. QED
      BY <2>1, <2>2, <3>1, <3>2, PendingTaken
  <2>. QED
    BY <1>7, <1>9, <2>3
<1>13. InOrderTasks!Written(Pending[i]) = InOrderTasks!Written(Pending[n])
  <2>1. e.var = kind.var
    BY DEF kind
  <2>2. Pending[i] = Op(task[Target])
    BY <1>8, <1>10
  <2>3. Pending[i].var[0] = kind.var[0]
    BY <1>3, <2>2 DEF Op, Out
  <2>. HIDE DEF e
  <2>4. Pending[n].var[0] = kind.var[0]
    BY <1>11, <2>1 DEF Op
  <2>. QED
    BY <2>3, <2>4 DEF InOrderTasks!Written
<1>14. ASSUME NEW j \in (i + 1)..(n - 1)
       PROVE  ~InOrderTasks!Conflict(Pending[i], Pending[j])
  <2>. DEFINE a == Waiting[j]
  <2>1. /\ j \in 1..Len(Waiting) /\ i < j
    BY <1>8, <1>11, <1>14
  <2>2. /\ a \in InTable /\ a \in Tasks /\ Unfinished(a) /\ <<Target, a>> \in Order
        /\ Pending[j] = Op(task[a])
    BY <1>8, <1>10, <2>1
  <2>. HIDE DEF a
  <2>3. \A w \in 0..2 : task[a].var[w] # Out(Target)
    BY <1>1, <1>3, <2>2, AfterTarget
  <2>4. Out(a) \notin OtherInputs(Target)
    BY <1>0, <1>3, <2>2 DEF AntiInv, Done
  <2>5. ~InOrderTasks!Conflict(Op(task[Target]), Op(task[a]))
    BY <2>3, <2>4, NoConflict DEF Out, OtherInputs
  <2>. QED
    BY <1>8, <1>10, <2>2, <2>5
<1>. HIDE DEF n, e
<1>15. InOrderTasks!Free(i, (i + 1)..(n - 1))
  BY <1>14 DEF InOrderTasks!Free
<1>16. InOrderTasks!JoinLater(i)
  BY <1>0, <1>1, <1>11, <1>12, <1>13, <1>15, KnownPending, SameOperators
     DEF InOrderTasks!JoinLater, JoinedLater
<1>17. i \in 1..(Len(Pending) - 1)
  BY <1>8, <1>11
<1>. QED
  BY <1>11, <1>16, <1>17 DEF InOrderTasks!Next

\* Every step is one that InOrder allows, or changes nothing that is pending.
LEMMA StepsInOrder ==
  ASSUME NoMasterMerge, IInv, JoinInv, [Next]_vars
  PROVE  [InOrderTasks!Next]_Pending
<1>0. IInv'
  BY NextKeeps
<1>1. CASE CallDoTask
  BY <1>0, <1>1, SchedulePending
<1>2. CASE Merge
  BY <1>0, <1>2, MergePending
<1>3. CASE MergeNow
  BY <1>0, <1>3, MergeNowPending
<1>4. CASE Fill
  BY <1>0, <1>4, FillPending
<1>5. CASE DoNow
  BY <1>0, <1>5, DoNowPending
<1>6. CASE \/ CallWait \/ WaitForAll \/ ReleaseHolds \/ StartComputing
           \/ Schedule \/ NoticeFull \/ ScheduleNow \/ Wait \/ NoticeNeeded \/ NoticeStarting
  BY <1>0, <1>6, CallsPending
<1>7. CASE HelperStart \/ do_task_in_master(TRUE) \/ do_task_in_master(FALSE)
  BY <1>0, <1>7, StartsPending
<1>8. CASE \E t \in Tasks : run_this_task(t)
  BY <1>0, <1>8, ComputesPending, DonePending DEF run_this_task
<1>9. CASE UNCHANGED vars
  <2>1. UNCHANGED <<task, used, call>>
    BY <1>9 DEF vars
  <2>. QED
    BY <2>1 DEF Pending, kind
<1>10. CASE MergeWait
  BY <1>7, <1>10 DEF MergeWait
<1>. QED
  BY <1>1, <1>2, <1>3, <1>4, <1>5, <1>6, <1>7, <1>8, <1>9, <1>10
  DEF Next, application, master_call

\* Whoever does the tasks, and whether pipelined, held, merged or done at once, they take
\* effect as if each were done when helpers_do_task was called for it: HelpersTasks implements
\* InOrder, if no kind is to be merged with others by the master only (NoMasterMerge).
THEOREM TasksTakeEffectInOrder == NoMasterMerge => (Spec => TakeEffectInOrder)
<1>. SUFFICES ASSUME NoMasterMerge PROVE Spec => TakeEffectInOrder
  OBVIOUS
<1>1. Init => JoinInv /\ InOrderTasks!Init
  <2>. SUFFICES ASSUME Init PROVE JoinInv /\ InOrderTasks!Init
    OBVIOUS
  <2>1. call.op = "none" /\ ~Coming(call) /\ used = << >>
    BY DEF Init, Idle, Coming
  <2>2. TypeOK
    BY InitOK DEF IInv, TableInv
  <2>3. Waiting = << >>
    <3>1. used \in Seq(Tasks) /\ IsInjective(used) /\ task \in [Tasks -> Entries]
      BY <2>2, TableIs
    <3>2. Waiting \in Seq(Tasks) /\ Range(Waiting) \subseteq Range(used)
      BY <3>1, WaitingOfIs DEF Waiting
    <3>3. Range(used) = {}
      BY <2>1 DEF Range
    <3>4. Len(Waiting) = 0
      BY <3>2, <3>3 DEF Range
    <3>. QED
      BY <3>2, <3>4
  <2>4. Pending = << >>
    <3>1. Pending = [k \in 1..Len(Waiting) |-> Op(task[Waiting[k]])] \o << >>
      BY <2>1 DEF Pending, Waiting, WaitingOf, Op, Coming
    <3>2. [k \in 1..0 |-> Op(task[Waiting[k]])] = << >>
      OBVIOUS
    <3>3. [k \in 1..Len(Waiting) |-> Op(task[Waiting[k]])] = << >>
      BY <2>3, <3>2
    <3>. QED
      BY <3>1, <3>3
  <2>. QED
    BY <2>1, <2>4 DEF JoinInv, InOrderTasks!Init
<1>2. IInv /\ JoinInv /\ [Next]_vars => JoinInv'
  BY JoinKeeps
<1>3. IInv /\ JoinInv /\ [Next]_vars => [InOrderTasks!Next]_Pending
  BY StepsInOrder
<1>4. Spec => []IInv
  BY Invariant
<1>. QED
  BY <1>1, <1>2, <1>3, <1>4, PTL DEF Spec, TakeEffectInOrder, InOrderTasks!Spec

\* Whenever the application can look, a variable that is not marked being computed is one that
\* no operation pending in InOrder writes, and one that is not marked in use either is one that
\* none reads: what it waits for is what InOrder has settled (helpers_wait_until_not_being_computed
\* and helpers_wait_until_not_in_use).
MarksShowPending ==
  pc = "app" =>
    \A v \in Vars :
      /\ v \notin being_computed => InOrderTasks!Unwritten(v)
      /\ v \notin being_computed \union in_use => InOrderTasks!Untouched(v)

THEOREM MarksShowAll == NoMasterMerge => (Spec => []MarksShowPending)
<1>. SUFFICES ASSUME NoMasterMerge PROVE Spec => []MarksShowPending
  OBVIOUS
<1>1. IInv /\ IInv' => MarksShowPending
  <2>. SUFFICES ASSUME IInv, IInv', pc = "app", NEW v \in Vars, v \notin being_computed
                PROVE  /\ InOrderTasks!Unwritten(v)
                       /\ v \notin in_use => InOrderTasks!Untouched(v)
    BY DEF MarksShowPending
  <2>1. TypeOK /\ TypeOK' /\ UseInv /\ ComputeInv /\ CallInv
    BY DEF IInv, TableInv
  <2>2. ~Coming(call) /\ call.op # "no_merge"
    BY <2>1, IdleIs DEF CallInv, Coming
  <2>3. /\ Len(Waiting) \in Nat
        /\ Len(Pending) = Len(Waiting) + IF Coming(call) THEN 1 ELSE 0
        /\ \A k \in 1..Len(Waiting) : Pending[k] = Op(task[Waiting[k]])
        /\ \A k \in 1..Len(Waiting) : /\ Waiting[k] \in InTable /\ Waiting[k] \in Tasks
                                      /\ Unfinished(Waiting[k])
    BY <2>1, PendingAt
  <2>4. ASSUME NEW k \in 1..Len(Pending)
        PROVE  /\ InOrderTasks!Written(Pending[k]) \subseteq being_computed
               /\ InOrderTasks!Read(Pending[k])
                    \subseteq being_computed \union in_use
    <3>1. Waiting[k] \in InTable /\ Unfinished(Waiting[k]) /\ Pending[k] = Op(task[Waiting[k]])
      BY <2>2, <2>3
    <3>2. /\ InOrderTasks!Written(Pending[k]) = {Out(Waiting[k])} \ {Null}
          /\ InOrderTasks!Read(Pending[k])
               \subseteq ({Out(Waiting[k])} \ {Null}) \union OtherInputs(Waiting[k])
      BY <3>1 DEF InOrderTasks!Written, InOrderTasks!Read, Op, Out, OtherInputs, Inputs
    <3>3. ASSUME Out(Waiting[k]) # Null PROVE Out(Waiting[k]) \in being_computed
      BY <2>1, <2>2, <3>1, <3>3 DEF ComputeInv
    <3>4. OtherInputs(Waiting[k]) \subseteq in_use
      BY <2>1, <3>1 DEF UseInv, Unfinished, Done
    <3>. QED
      BY <3>2, <3>3, <3>4
  <2>5. InOrderTasks!Unwritten(v)
    BY <2>4 DEF InOrderTasks!Unwritten
  <2>6. v \notin in_use => InOrderTasks!Untouched(v)
    BY <2>4 DEF InOrderTasks!Untouched
  <2>. QED
    BY <2>5, <2>6
<1>2. Spec => []IInv
  BY Invariant
<1>. QED
  BY <1>1, <1>2, PTL
=============================================================================
