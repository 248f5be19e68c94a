---------------------------- MODULE CachesProofs ----------------------------
(***************************************************************************)
(* Proofs about Caches, for any environments, symbols and bounds, where R  *)
(* code that a search evaluates does not bind the symbol searched for      *)
(* (Redefines is FALSE).                                                   *)
(*                                                                         *)
(* FirstOn follows a chain of environments by a recursive function.  That  *)
(* it has the value it should have everywhere is proved first, from chains *)
(* having no cycles, for chains in general; the lemmas then apply to the   *)
(* chains before and after a step.                                         *)
(***************************************************************************)
EXTENDS Caches, TLAPS

(* Chains of environments.                                                *)

\* All environments, and the ways they may enclose each other.
All == Frames \union {R_BaseEnv, R_EmptyEnv}
Chains == [Frames -> Envs \union {R_GlobalEnv, R_BaseEnv}]

\* What encloses e, by the chains enc (Enclosing).
Up(enc, e) == IF e \in Frames THEN enc[e] ELSE R_EmptyEnv

\* No chain goes round: from any set of frames one of them leads out.
Acyclic(enc) == \A P \in SUBSET Frames : P # {} => \E f \in P : enc[f] \notin P

\* The first environment in S, from rho on, by the chains enc (FirstOn).
First(enc, rho, S) ==
  LET first[e \in Frames \union {R_BaseEnv, R_EmptyEnv}] ==
        IF e \in S \union {R_EmptyEnv} THEN e ELSE first[Up(enc, e)]
  IN  first[rho]

\* FirstOn, which the module applies to the chains as they are, is First at ENCLOS.
LEMMA FirstOnIsFirst == \A rho, S : FirstOn(rho, S) = First(ENCLOS, rho, S)
  BY DEF FirstOn, First, Enclosing, Up

\* The environments that R starts with, and None, are no others.
LEMMA Distinct ==
  /\ R_BaseEnv \notin Frames /\ R_EmptyEnv \notin Frames /\ None \notin Frames
  /\ R_BaseEnv # R_EmptyEnv /\ None # R_BaseEnv /\ None # R_EmptyEnv
  /\ R_GlobalEnv \notin Envs /\ R_GlobalEnv \in Frames
  BY ConstantsAssumption DEF Frames

\* What encloses an environment is an environment.
LEMMA UpInAll ==
  ASSUME NEW enc \in Chains, NEW e \in All
  PROVE  Up(enc, e) \in All
  BY DEF Chains, All, Up, Frames

\* The principle of the proofs below: what follows a chain and never comes to
\* R_EmptyEnv is empty.
LEMMA NoEndless ==
  ASSUME NEW enc \in Chains, Acyclic(enc), NEW B \in SUBSET All,
         \A e \in B : e # R_EmptyEnv /\ Up(enc, e) \in B
  PROVE  B = {}
<1>1. R_BaseEnv \notin B
  BY Distinct DEF Up
<1>2. B \in SUBSET Frames
  BY <1>1, Distinct DEF All
<1>3. \A f \in B : enc[f] \in B
  BY <1>2 DEF Up
<1>. QED
  BY <1>2, <1>3 DEF Acyclic

\* From e, r is the first environment in S \union {R_EmptyEnv}, P being what is passed.
Through(enc, e, S, r, P) ==
  /\ r \in S \union {R_EmptyEnv} /\ P \intersect (S \union {R_EmptyEnv}) = {}
  /\ e \in P \union {r} /\ \A f \in P : Up(enc, f) \in P \union {r}

Ends(enc, e, S, r) == \E P \in SUBSET All : Through(enc, e, S, r, P)

\* A chain ends in one place only, ...
LEMMA EndsOnce ==
  ASSUME NEW enc \in Chains, Acyclic(enc), NEW S, NEW e \in All, NEW r, NEW q,
         Ends(enc, e, S, r), Ends(enc, e, S, q)
  PROVE  r = q
<1>1. SUFFICES ASSUME r # q PROVE FALSE
  OBVIOUS
<1>2. PICK P \in SUBSET All : Through(enc, e, S, r, P)
  BY DEF Ends
<1>3. PICK Q \in SUBSET All : Through(enc, e, S, q, Q)
  BY DEF Ends
<1>4. \A f : f \in P \union {r} /\ f \in Q \union {q} => f \in P \intersect Q
  BY <1>1, <1>2, <1>3 DEF Through
<1>5. e \in P \intersect Q
  BY <1>2, <1>3, <1>4 DEF Through
<1>6. \A f \in P \intersect Q : f # R_EmptyEnv /\ Up(enc, f) \in P \intersect Q
  BY <1>2, <1>3, <1>4 DEF Through
<1>. QED
  BY <1>5, <1>6, NoEndless

\* ... and it does end.
LEMMA EndsSomewhere ==
  ASSUME NEW enc \in Chains, Acyclic(enc), NEW S
  PROVE  \A e \in All : \E r : Ends(enc, e, S, r)
<1>. DEFINE B == {e \in All : \A r : ~Ends(enc, e, S, r)}
<1>1. ASSUME NEW e \in All, e \in S \union {R_EmptyEnv}
      PROVE  Ends(enc, e, S, e)
  <2>1. Through(enc, e, S, e, {})
    BY <1>1 DEF Through
  <2>. QED
    BY <2>1 DEF Ends
<1>2. ASSUME NEW e \in All, e \notin S \union {R_EmptyEnv}, NEW r, Ends(enc, Up(enc, e), S, r)
      PROVE  Ends(enc, e, S, r)
  <2>1. PICK P \in SUBSET All : Through(enc, Up(enc, e), S, r, P)
    BY <1>2 DEF Ends
  <2>2. Through(enc, e, S, r, P \union {e})
    BY <1>2, <2>1 DEF Through
  <2>. QED
    BY <2>2 DEF Ends
<1>3. \A e \in B : e # R_EmptyEnv /\ Up(enc, e) \in B
  BY <1>1, <1>2, UpInAll
<1>4. B = {}
  BY <1>3, NoEndless
<1>. QED
  BY <1>4

\* The equation of First.  A function that satisfies it exists as chains end, so the
\* one that CHOOSE takes in FirstOn satisfies it.
LEMMA FirstStops ==
  ASSUME NEW enc \in Chains, Acyclic(enc), NEW S, NEW rho \in All
  PROVE  First(enc, rho, S) = IF rho \in S \union {R_EmptyEnv} THEN rho
                              ELSE First(enc, Up(enc, rho), S)
<1>. DEFINE end == [e \in All |-> CHOOSE r : Ends(enc, e, S, r)]
            X == Frames \union {R_BaseEnv, R_EmptyEnv}
            Step(f) == [e \in X |-> IF e \in S \union {R_EmptyEnv} THEN e ELSE f[Up(enc, e)]]
<1>1. \A e \in All : Ends(enc, e, S, end[e])
  BY EndsSomewhere
<1>2. ASSUME NEW e \in All, e \in S \union {R_EmptyEnv}
      PROVE  end[e] = e
  <2>1. Through(enc, e, S, e, {})
    BY <1>2 DEF Through
  <2>2. Ends(enc, e, S, e)
    BY <2>1 DEF Ends
  <2>. QED
    BY <1>1, <2>2, EndsOnce
<1>3. ASSUME NEW e \in All, e \notin S \union {R_EmptyEnv}
      PROVE  end[e] = end[Up(enc, e)]
  <2>0. Up(enc, e) \in All
    BY UpInAll
  <2>1. PICK P \in SUBSET All : Through(enc, Up(enc, e), S, end[Up(enc, e)], P)
    BY <1>1, <2>0 DEF Ends
  <2>2. Through(enc, e, S, end[Up(enc, e)], P \union {e})
    BY <1>3, <2>1 DEF Through
  <2>3. Ends(enc, e, S, end[Up(enc, e)])
    BY <2>2 DEF Ends
  <2>. QED
    BY <1>1, <2>3, EndsOnce
<1>4. end = Step(end)
  <2>1. end = [e \in X |-> end[e]]
    BY DEF All
  <2>. HIDE DEF end
  <2>2. \A e \in X : end[e] = IF e \in S \union {R_EmptyEnv} THEN e ELSE end[Up(enc, e)]
    BY <1>2, <1>3 DEF All
  <2>. QED
    BY <2>1, <2>2
<1>. HIDE DEF Step, end
<1>. DEFINE ch == CHOOSE f : f = Step(f)
<1>5. ch = Step(ch)
  BY <1>4
<1>6. \A e \in X : First(enc, e, S) = ch[e]
  BY DEF First, Step
<1>7. Up(enc, rho) \in X /\ rho \in X
  BY UpInAll DEF All
<1>8. ch[rho] = IF rho \in S \union {R_EmptyEnv} THEN rho ELSE ch[Up(enc, rho)]
  <2>1. Step(ch)[rho] = IF rho \in S \union {R_EmptyEnv} THEN rho ELSE ch[Up(enc, rho)]
    BY <1>7 DEF Step
  <2>. HIDE DEF ch
  <2>. QED
    BY <1>5, <2>1
<1>. QED
  BY <1>6, <1>7, <1>8

\* From no environment of C is one outside C reached.
Closed(enc, C) == C \subseteq All /\ \A e \in C : e = R_EmptyEnv \/ Up(enc, e) \in C

\* end is enc with n between t and what enclosed t.
Inserted(enc, end, t, n) ==
  /\ t \in Frames /\ n \in Frames /\ t # n
  /\ end[t] = n /\ end[n] = enc[t] /\ \A f \in Frames \ {t, n} : end[f] = enc[f]

SameIn(C, S, T) == \A e \in C : e \in S <=> e \in T

\* The first environment in S is in S, and where the chain stays.
LEMMA FirstIn ==
  ASSUME NEW enc \in Chains, Acyclic(enc), NEW S, NEW rho \in All,
         NEW C, Closed(enc, C), rho \in C
  PROVE  First(enc, rho, S) \in C \intersect (S \union {R_EmptyEnv})
<1>. DEFINE B == {e \in C : First(enc, e, S) \notin C \intersect (S \union {R_EmptyEnv})}
<1>1. \A e \in B : e # R_EmptyEnv /\ Up(enc, e) \in B
  BY FirstStops DEF Closed
<1>2. B = {}
  BY <1>1, NoEndless DEF Closed
<1>. QED
  BY <1>2

\* The same for all environments.
LEMMA FirstFound ==
  ASSUME NEW enc \in Chains, Acyclic(enc), NEW S, NEW rho \in All
  PROVE  First(enc, rho, S) \in All \intersect (S \union {R_EmptyEnv})
<1>1. Closed(enc, All)
  BY UpInAll DEF Closed
<1>. QED
  BY <1>1, FirstIn

\* To go to the first in a larger set at first changes nothing (SKIP_USING_SYMBITS,
\* and R_GlobalEnv on the way).
LEMMA FirstSkips ==
  ASSUME NEW enc \in Chains, Acyclic(enc), NEW S, NEW T, S \subseteq T, NEW rho \in All
  PROVE  First(enc, First(enc, rho, T), S) = First(enc, rho, S)
<1>. DEFINE B == {e \in All : First(enc, First(enc, e, T), S) # First(enc, e, S)}
<1>1. ASSUME NEW e \in B
      PROVE  e # R_EmptyEnv /\ Up(enc, e) \in B
  <2>1. e \notin T \union {R_EmptyEnv}
    BY FirstStops
  <2>2. First(enc, e, T) = First(enc, Up(enc, e), T)
    BY <2>1, FirstStops
  <2>3. First(enc, e, S) = First(enc, Up(enc, e), S)
    BY <2>1, FirstStops
  <2>. QED
    BY <2>1, <2>2, <2>3, UpInAll
<1>2. B = {}
  BY <1>1, NoEndless
<1>. QED
  BY <1>2

\* Two chains, and two sets, that are the same as far as the search goes.
LEMMA FirstSame ==
  ASSUME NEW enc \in Chains, Acyclic(enc), NEW end \in Chains, Acyclic(end), NEW S, NEW T,
         NEW C \in SUBSET All, NEW rho \in C,
         \A e \in C : /\ e \in S <=> e \in T
                      /\ e \notin S \union {R_EmptyEnv} =>
                           Up(enc, e) = Up(end, e) /\ Up(enc, e) \in C
  PROVE  First(end, rho, T) = First(enc, rho, S)
<1>. DEFINE B == {e \in C : First(end, e, T) # First(enc, e, S)}
<1>1. ASSUME NEW e \in B
      PROVE  e # R_EmptyEnv /\ Up(enc, e) \in B
  <2>1. e \notin S \union {R_EmptyEnv}
    BY FirstStops
  <2>2. First(enc, e, S) = First(enc, Up(enc, e), S)
    BY <2>1, FirstStops
  <2>3. First(end, e, T) = First(end, Up(end, e), T)
    BY <2>1, FirstStops
  <2>. QED
    BY <2>1, <2>2, <2>3
<1>2. B = {}
  BY <1>1, NoEndless
<1>. QED
  BY <1>2

\* An environment that is not in the set may be put in the chain (do_attach), or read
\* backwards be taken out of it (do_detach).
LEMMA FirstInserted ==
  ASSUME NEW enc \in Chains, Acyclic(enc), NEW end \in Chains, Acyclic(end), NEW t, NEW n,
         Inserted(enc, end, t, n), NEW C, Closed(enc, C), NEW rho \in C, n \notin C,
         NEW S, NEW T, SameIn(C, S, T), n \notin T
  PROVE  First(end, rho, T) = First(enc, rho, S)
<1>. DEFINE B == {e \in C : First(end, e, T) # First(enc, e, S)}
<1>1. ASSUME NEW e \in B
      PROVE  e # R_EmptyEnv /\ Up(enc, e) \in B
  <2>0. e \in All /\ (e \in S <=> e \in T) /\ (e = R_EmptyEnv \/ Up(enc, e) \in C)
    BY DEF Closed, SameIn
  <2>1. e \notin S \union {R_EmptyEnv}
    BY <2>0, FirstStops
  <2>2. First(enc, e, S) = First(enc, Up(enc, e), S)
    BY <2>0, <2>1, FirstStops
  <2>3. First(end, e, T) = First(end, Up(end, e), T)
    BY <2>0, <2>1, FirstStops
  <2>4. CASE e # t
    BY <2>0, <2>1, <2>2, <2>3, <2>4 DEF Up, Inserted
  <2>5. CASE e = t
    <3>1. Up(end, e) = n /\ Up(end, n) = Up(enc, e)
      BY <2>5 DEF Up, Inserted
    <3>2. First(end, n, T) = First(end, Up(end, n), T)
      BY FirstStops, Distinct DEF All, Inserted
    <3>. QED
      BY <2>0, <2>1, <2>2, <2>3, <3>1, <3>2
  <2>. QED
    BY <2>4, <2>5
<1>2. B = {}
  BY <1>1, NoEndless DEF Closed
<1>. QED
  BY <1>2

\* On the way from rho to n nothing has changed, if ways that leave G do not lead to n.
LEMMA WayKept ==
  ASSUME NEW enc \in Chains, Acyclic(enc), NEW end \in Chains, Acyclic(end),
         NEW G \in SUBSET Frames, NEW C, Closed(enc, C),
         \A e \in G : end[e] = enc[e] /\ enc[e] \in G \union C,
         NEW rho \in G \union C, NEW n \in All, n # R_EmptyEnv, n \notin C,
         First(enc, rho, {n}) = n
  PROVE  First(end, rho, {n}) = n
<1>. DEFINE B == {e \in G \union C : First(enc, e, {n}) = n /\ First(end, e, {n}) # n}
<1>1. ASSUME NEW e \in B
      PROVE  e # R_EmptyEnv /\ Up(enc, e) \in B
  <2>0. e \in All
    BY DEF All, Closed
  <2>1. e \notin {n} \union {R_EmptyEnv}
    BY <2>0, FirstStops
  <2>2. First(enc, e, {n}) = First(enc, Up(enc, e), {n})
    BY <2>0, <2>1, FirstStops
  <2>3. First(end, e, {n}) = First(end, Up(end, e), {n})
    BY <2>0, <2>1, FirstStops
  <2>4. e \notin C
    BY <2>0, FirstIn
  <2>5. e \in G /\ Up(enc, e) = enc[e] /\ Up(end, e) = enc[e]
    BY <2>4 DEF Up
  <2>. QED
    BY <2>1, <2>2, <2>3, <2>5
<1>2. B \in SUBSET All
  BY DEF All, Closed
<1>3. B = {}
  BY <1>1, <1>2, NoEndless
<1>. QED
  BY <1>3

\* A chain that comes to n goes on to what encloses n.
LEMMA WayOn ==
  ASSUME NEW enc \in Chains, Acyclic(enc), NEW rho \in All, NEW n \in Frames,
         First(enc, rho, {n}) = n
  PROVE  First(enc, rho, {Up(enc, n)}) = Up(enc, n)
<1>. DEFINE u == Up(enc, n)
            B == {e \in All : First(enc, e, {n}) = n /\ First(enc, e, {u}) # u}
<1>1. ASSUME NEW e \in B
      PROVE  e # R_EmptyEnv /\ Up(enc, e) \in B
  <2>1. e # u
    BY FirstStops
  <2>2. e # R_EmptyEnv
    BY FirstStops, Distinct
  <2>3. First(enc, e, {u}) = First(enc, Up(enc, e), {u})
    BY <2>1, <2>2, FirstStops
  <2>4. CASE e = n
    <3>1. First(enc, u, {u}) = u
      BY UpInAll, FirstStops DEF All
    <3>. QED
      BY <2>3, <2>4, <3>1
  <2>5. CASE e # n
    BY <2>2, <2>3, <2>5, FirstStops, UpInAll
  <2>. QED
    BY <2>4, <2>5
<1>2. B = {}
  BY <1>1, NoEndless
<1>. QED
  BY <1>2

\* Chains stay without cycles when an environment is new that nothing is enclosed by, ...
LEMMA AcyclicNew ==
  ASSUME NEW enc \in Chains, Acyclic(enc), NEW end \in Chains, NEW n \in Frames,
         \A e \in Frames \ {n} : end[e] = enc[e] /\ enc[e] # n, end[n] # n
  PROVE  Acyclic(end)
<1>1. SUFFICES ASSUME NEW P \in SUBSET Frames, P # {}, \A f \in P : end[f] \in P
               PROVE  FALSE
  BY DEF Acyclic
<1>2. P \ {n} # {}
  BY <1>1
<1>3. \A f \in P \ {n} : enc[f] \in P \ {n}
  BY <1>1
<1>. QED
  BY <1>2, <1>3 DEF Acyclic

\* ... when one is put in between two others, ...
LEMMA AcyclicInserted ==
  ASSUME NEW enc \in Chains, Acyclic(enc), NEW t \in Frames, NEW n \in Frames, t # n,
         \A e \in Frames \ {n} : enc[e] # n,
         NEW end, end = [enc EXCEPT ![t] = n, ![n] = enc[t]]
  PROVE  end \in Chains /\ Acyclic(end)
<1>0. end \in Chains
  BY DEF Chains, Frames
<1>1. SUFFICES ASSUME NEW P \in SUBSET Frames, P # {}, \A f \in P : end[f] \in P
               PROVE  FALSE
  BY <1>0 DEF Acyclic
<1>2. P \ {n} # {}
  BY <1>1 DEF Chains
<1>3. \A f \in P \ {n} : enc[f] \in P \ {n}
  BY <1>1 DEF Chains
<1>. QED
  BY <1>2, <1>3 DEF Acyclic

\* ... when one is taken out, ...
LEMMA AcyclicRemoved ==
  ASSUME NEW enc \in Chains, Acyclic(enc), NEW t \in Frames, NEW n \in Frames, t # n,
         enc[t] = n,
         NEW end, end = [enc EXCEPT ![t] = enc[n], ![n] = R_BaseEnv]
  PROVE  end \in Chains /\ Acyclic(end)
<1>0. end \in Chains
  BY DEF Chains, Frames
<1>1. SUFFICES ASSUME NEW P \in SUBSET Frames, P # {}, \A f \in P : end[f] \in P
               PROVE  FALSE
  BY <1>0 DEF Acyclic
<1>2. n \notin P
  BY <1>1, Distinct DEF Chains
<1>3. CASE t \notin P
  <2>1. \A f \in P : enc[f] \in P
    BY <1>1, <1>2, <1>3 DEF Chains
  <2>. QED
    BY <1>1, <2>1 DEF Acyclic
<1>4. CASE t \in P
  <2>1. \A f \in P \union {n} : enc[f] \in P \union {n}
    BY <1>1, <1>2, <1>4 DEF Chains
  <2>. QED
    BY <1>1, <2>1 DEF Acyclic
<1>. QED
  BY <1>3, <1>4

\* ... and when some end earlier.
LEMMA AcyclicCut ==
  ASSUME NEW enc \in Chains, Acyclic(enc), NEW end \in Chains,
         \A e \in Frames : end[e] = R_BaseEnv \/ end[e] = enc[e]
  PROVE  Acyclic(end)
<1>1. SUFFICES ASSUME NEW P \in SUBSET Frames, P # {}, \A f \in P : end[f] \in P
               PROVE  FALSE
  BY DEF Acyclic
<1>2. \A f \in P : enc[f] \in P
  BY <1>1, Distinct
<1>. QED
  BY <1>1, <1>2 DEF Acyclic

-----------------------------------------------------------------------------
(* The invariant, and what it says of one frame and one search.            *)

\* Where the global cache looks, and what is attached is put.
Starts == {R_GlobalEnv} \union attached

\* Frames that may be used.
Live == used \union {R_GlobalEnv}

\* Chains go from live environments to live ones and to the base environment.
EnvsInv ==
  /\ attached \subseteq hashed /\ hashed \subseteq Live /\ R_GlobalEnv \in hashed
  /\ Acyclic(ENCLOS)
  /\ \A e \in Live : ENCLOS[e] \in Live \union {R_BaseEnv}
  /\ \A e \in Envs \ used : ENCLOS[e] = R_BaseEnv

\* What is attached is one chain from R_GlobalEnv to the base environment: nothing has
\* two below it, and nothing is a part of its own.
GlobalInv ==
  /\ \A t \in Starts : ENCLOS[t] \in attached \union {R_BaseEnv}
  /\ \A t, u \in Starts : ENCLOS[t] = ENCLOS[u] /\ ENCLOS[t] # R_BaseEnv => t = u
  /\ \A P \in SUBSET attached : P # {} => \E t \in Starts \ P : ENCLOS[t] \in P

\* A filter lets pass what the frame has.
BitsInv ==
  /\ ENVSYMBITS[R_GlobalEnv] = AllBits
  /\ \A e \in Frames, s \in Syms : cells[e][s] # << >> => SYMBITS[s] \subseteq ENVSYMBITS[e]

\* Where s is bound, by cells c and base b.
Binds(c, b, s) == {e \in Frames : c[e][s] # << >>}
                    \union (IF b[s] # "unbound" THEN {R_BaseEnv} ELSE {})

\* The global cache has, for a symbol, the environment where it is, or else has not seen
\* that the symbol was made an active binding in the base environment.
CacheInv == \A s \in Syms : cache[s] # NoCell =>
  /\ \/ cache[s].env = First(ENCLOS, R_GlobalEnv, Binds(cells, base, s))
     \/ /\ cache[s] = NotFound /\ base[s] = "active"
        /\ First(ENCLOS, R_GlobalEnv, Binds(cells, base, s)) = R_BaseEnv
  /\ cache[s].env \notin Frames => cache[s].copy = 0

\* A search holds live environments.  The one it looks at encloses the one it started
\* from, unless it is or has been attached; so does the one it has noted.
SearchOK(h) ==
  /\ h.from \in Live /\ h.rho \in Live \union {R_BaseEnv, R_EmptyEnv}
  /\ h.rho \in Envs => \/ First(ENCLOS, h.from, {h.rho}) = h.rho
                       \/ h.rho \in attached
                       \/ ENCLOS[h.rho] = R_BaseEnv /\ h.rho \in hashed
  /\ h.nf # None => h.nf \in used \ hashed /\ First(ENCLOS, h.from, {h.nf}) = h.nf

SearchInv == \A i \in DOMAIN searches : SearchOK(searches[i])

\* The frames that a search was given, and has noted, as without the symbol are so.
NotFoundOK(h) ==
  /\ h.last # None => h.last \notin hashed /\ cells[h.last][h.sym] = << >>
  /\ h.nf # None => cells[h.nf][h.sym] = << >>

\* So is what LASTENVNOTFOUND has.
NotFoundInv ==
  /\ \A s \in Syms : LASTENVNOTFOUND[s] # None =>
       LASTENVNOTFOUND[s] \notin hashed /\ cells[LASTENVNOTFOUND[s]][s] = << >>
  /\ \A i \in DOMAIN searches : NotFoundOK(searches[i])

\* The inductive invariant.
CInv == /\ TypeOK /\ EnvsInv /\ GlobalInv /\ BitsInv /\ CacheInv /\ SearchInv
        /\ NotFoundInv /\ OneBinding

\* Where the symbol is, by chains and bindings.
LEMMA LookupIs ==
  \A rho : \A s \in Syms : Lookup(s, rho) = First(ENCLOS, rho, Binds(cells, base, s))
<1>1. ASSUME NEW s \in Syms
      PROVE  {e \in Frames \union {R_BaseEnv} : BoundIn(e, s)} = Binds(cells, base, s)
  BY Distinct DEF BoundIn, Binds
<1>. QED
  BY <1>1, FirstOnIsFirst DEF Lookup

\* Encloses, by chains.
LEMMA EnclosesIs == \A e, rho : Encloses(e, rho) <=> First(ENCLOS, rho, {e}) = e
  BY FirstOnIsFirst DEF Encloses

\* The chains have the type the lemmas above need.
LEMMA EnclosIsChain ==
  TypeOK => ENCLOS \in Chains
  BY DEF TypeOK, Chains

\* No chain leads from live environments to others, ...
LEMMA LiveClosed ==
  ASSUME TypeOK, EnvsInv
  PROVE  Closed(ENCLOS, Live \union {R_BaseEnv, R_EmptyEnv})
<1>1. Live \subseteq Frames
  BY DEF Live, Frames, TypeOK
<1>. QED
  BY <1>1, Distinct DEF EnvsInv, Up, All, Closed

\* ... nor from what is attached to what is not.
LEMMA StartsClosed ==
  ASSUME TypeOK, GlobalInv
  PROVE  Closed(ENCLOS, Starts \union {R_BaseEnv, R_EmptyEnv})
<1>1. Starts \subseteq Frames
  BY DEF Starts, Frames, TypeOK
<1>. QED
  BY <1>1, Distinct DEF GlobalInv, Up, All, Closed, Starts

\* The elements of a sequence with one put in front.
LEMMA PushedOn ==
  ASSUME NEW X, NEW q \in Seq(X), NEW h \in X
  PROVE  /\ << h >> \o q \in Seq(X)
         /\ \A i \in DOMAIN (<< h >> \o q) :
              (<< h >> \o q)[i] = h \/ \E j \in DOMAIN q : (<< h >> \o q)[i] = q[j]
  OBVIOUS

\* The elements of a sequence without its first.
LEMMA TakenOff ==
  ASSUME NEW X, NEW q \in Seq(X), q # << >>
  PROVE  /\ Head(q) \in X /\ Tail(q) \in Seq(X)
         /\ 1 \in DOMAIN q /\ Head(q) = q[1]
         /\ \A i \in DOMAIN Tail(q) : \E j \in DOMAIN q : Tail(q)[i] = q[j]
<1>1. Len(q) \in Nat /\ Len(q) > 0 /\ DOMAIN q = 1..Len(q)
  OBVIOUS
<1>2. Tail(q) \in Seq(X) /\ Head(q) = q[1] /\ q[1] \in X
  BY <1>1
<1>3. DOMAIN Tail(q) = 1..(Len(q) - 1) /\ \A i \in 1..(Len(q) - 1) : Tail(q)[i] = q[i + 1]
  BY <1>1
<1>. QED
  BY <1>1, <1>2, <1>3

\* The searches when the innermost goes on, ...
LEMMA GoOn ==
  ASSUME TypeOK, searches # << >>, NEW h \in Searches, Go(h)
  PROVE  /\ searches' \in Seq(Searches)
         /\ \A i \in DOMAIN searches' :
              searches'[i] = h \/ \E j \in DOMAIN searches : searches'[i] = searches[j]
<1>1. searches \in Seq(Searches)
  BY DEF TypeOK
<1>2. Tail(searches) \in Seq(Searches)
  BY <1>1, TakenOff
<1>3. searches' = << h >> \o Tail(searches)
  BY DEF Go
<1>4. \A i \in DOMAIN Tail(searches) : \E j \in DOMAIN searches : Tail(searches)[i] = searches[j]
  BY <1>1, TakenOff
<1>. QED
  BY <1>2, <1>3, <1>4, PushedOn

\* ... and when it is over.
LEMMA LeftOff ==
  ASSUME TypeOK, searches # << >>, Leave
  PROVE  /\ searches' \in Seq(Searches)
         /\ \A i \in DOMAIN searches' : \E j \in DOMAIN searches : searches'[i] = searches[j]
<1>1. searches \in Seq(Searches)
  BY DEF TypeOK
<1>. QED
  BY <1>1, TakenOff DEF Leave

\* The innermost search is one of them.
LEMMA TopIs ==
  ASSUME TypeOK, searches # << >>
  PROVE  Top \in Searches /\ 1 \in DOMAIN searches /\ Top = searches[1]
<1>1. searches \in Seq(Searches)
  BY DEF TypeOK
<1>. QED
  BY <1>1, TakenOff DEF Top

\* LASTSYMBINDING and LASTENVNOTFOUND do not change whether a cell is found.
LEMMA InFrameIs ==
  ASSUME TypeOK, NotFoundInv, NEW s \in Syms, NEW e \in Frames
  PROVE  /\ InFrame(s, e) = << >> <=> cells[e][s] = << >>
         /\ InFrame(s, e) # << >> => InFrame(s, e)[1] \in Copies
<1>1. cells[e][s] \in Seq(Copies) /\ LASTSYMBINDING[s] \in Copies
  BY DEF TypeOK
<1>2. CASE LastHit(s, e)
  <2>1. cells[e][s] # << >>
    BY <1>1, <1>2 DEF LastHit, Contains
  <2>2. InFrame(s, e) = <<LASTSYMBINDING[s]>>
    BY <1>2 DEF InFrame
  <2>. QED
    BY <1>1, <2>1, <2>2
<1>3. CASE ~LastHit(s, e) /\ e \notin hashed /\ LASTENVNOTFOUND[s] = e
  <2>1. e # None
    BY Distinct
  <2>2. cells[e][s] = << >>
    BY <1>3, <2>1 DEF NotFoundInv
  <2>. QED
    BY <1>3, <2>2 DEF InFrame
<1>4. CASE ~LastHit(s, e) /\ ~(e \notin hashed /\ LASTENVNOTFOUND[s] = e)
  <2>1. InFrame(s, e) = IF cells[e][s] = << >> THEN << >> ELSE <<cells[e][s][1]>>
    BY <1>4 DEF InFrame
  <2>2. cells[e][s] # << >> => cells[e][s][1] \in Copies
    BY <1>1
  <2>. QED
    BY <2>1, <2>2
<1>. QED
  BY <1>2, <1>3, <1>4

\* The place of a symbol seen from R_GlobalEnv is the same when nothing changes in the
\* frames from there on.
LEMMA GlobalSame ==
  ASSUME TypeOK, EnvsInv, GlobalInv, ENCLOS' \in Chains, Acyclic(ENCLOS'), NEW s \in Syms,
         \A t \in Starts : ENCLOS'[t] = ENCLOS[t],
         \A t \in Starts : cells'[t][s] # << >> <=> cells[t][s] # << >>,
         base'[s] # "unbound" <=> base[s] # "unbound"
  PROVE  First(ENCLOS', R_GlobalEnv, Binds(cells', base', s))
           = First(ENCLOS, R_GlobalEnv, Binds(cells, base, s))
<1>. DEFINE C == Starts \union {R_BaseEnv, R_EmptyEnv}
            S == Binds(cells, base, s)
            T == Binds(cells', base', s)
<1>1. ENCLOS \in Chains /\ Acyclic(ENCLOS)
  BY EnclosIsChain DEF EnvsInv
<1>2. Closed(ENCLOS, C)
  BY StartsClosed
<1>3. R_GlobalEnv \in C
  BY DEF Starts
<1>4. Starts \subseteq Frames
  BY DEF Starts, Frames, TypeOK
<1>5. \A e \in C : /\ e \in S <=> e \in T
                   /\ Up(ENCLOS, e) = Up(ENCLOS', e)
  BY <1>4, Distinct DEF Binds, Up
<1>. HIDE DEF C, S, T
<1>6. \A e \in C :
        /\ e \in S <=> e \in T
        /\ e \notin S \union {R_EmptyEnv} => Up(ENCLOS, e) = Up(ENCLOS', e) /\ Up(ENCLOS, e) \in C
  BY <1>2, <1>5 DEF Closed
<1>7. First(ENCLOS', R_GlobalEnv, T) = First(ENCLOS, R_GlobalEnv, S)
  BY <1>1, <1>2, <1>3, <1>6, FirstSame DEF Closed
<1>. QED
  BY <1>7 DEF S, T

\* What a search holds stays as it should be when chains change only where things are
\* attached and detached, or for environments that are not live.
LEMMA SearchKept ==
  ASSUME TypeOK, EnvsInv, GlobalInv, ENCLOS' \in Chains, Acyclic(ENCLOS'),
         Live \subseteq Live', used \ hashed \subseteq used' \ hashed', hashed \subseteq hashed',
         \A e \in Live \ Starts : ENCLOS'[e] = ENCLOS[e],
         \A e \in attached : e \in attached' \/ ENCLOS'[e] = R_BaseEnv,
         NEW h \in Searches, SearchOK(h)
  PROVE  SearchOK(h)'
<1>. DEFINE C == Starts \union {R_BaseEnv, R_EmptyEnv}
            G == Live \ Starts
<1>1. ENCLOS \in Chains /\ Acyclic(ENCLOS)
  BY EnclosIsChain DEF EnvsInv
<1>2. Closed(ENCLOS, C)
  BY StartsClosed
<1>3. Starts \subseteq Live /\ Live \subseteq Frames
  BY DEF Starts, Live, Frames, TypeOK
<1>4. \A e \in G : ENCLOS'[e] = ENCLOS[e] /\ ENCLOS[e] \in G \union C
  BY <1>3 DEF EnvsInv
<1>5. h.from \in G \union C
  BY DEF SearchOK
<1>6. G \in SUBSET Frames
  BY <1>3
<1>. HIDE DEF C, G
<1>7. \A n \in All : n # R_EmptyEnv /\ n \notin C /\ First(ENCLOS, h.from, {n}) = n
                       => First(ENCLOS', h.from, {n}) = n
  BY <1>1, <1>2, <1>4, <1>5, <1>6, WayKept
<1>8. h.from \in Live' /\ h.rho \in Live' \union {R_BaseEnv, R_EmptyEnv}
  BY DEF SearchOK
<1>9. h.rho \in Envs => \/ First(ENCLOS', h.from, {h.rho}) = h.rho
                        \/ h.rho \in attached'
                        \/ ENCLOS'[h.rho] = R_BaseEnv /\ h.rho \in hashed'
  <2>1. SUFFICES ASSUME h.rho \in Envs, h.rho \notin attached
                 PROVE  \/ First(ENCLOS', h.from, {h.rho}) = h.rho
                        \/ ENCLOS'[h.rho] = R_BaseEnv /\ h.rho \in hashed'
    BY DEF EnvsInv
  <2>2. h.rho \in All /\ h.rho # R_EmptyEnv /\ h.rho \notin C /\ h.rho \in G
    BY <2>1, Distinct DEF All, C, G, Starts, Frames, SearchOK
  <2>. QED
    BY <1>4, <1>7, <2>1, <2>2 DEF SearchOK
<1>10. h.nf # None => h.nf \in used' \ hashed' /\ First(ENCLOS', h.from, {h.nf}) = h.nf
  <2>1. SUFFICES ASSUME h.nf # None
                 PROVE  h.nf \in used' \ hashed' /\ First(ENCLOS', h.from, {h.nf}) = h.nf
    OBVIOUS
  <2>2. h.nf \in used \ hashed /\ First(ENCLOS, h.from, {h.nf}) = h.nf
    BY <2>1 DEF SearchOK
  <2>3. h.nf \in All /\ h.nf # R_EmptyEnv /\ h.nf \notin C
    BY <2>2, Distinct DEF All, C, Starts, Frames, TypeOK, EnvsInv
  <2>. QED
    BY <1>7, <2>2, <2>3
<1>. QED
  BY <1>8, <1>9, <1>10 DEF SearchOK

-----------------------------------------------------------------------------
(* What searches note and hold.                                            *)

\* What a search may note as the environment without s.
NoteOf(n, s) == n \in used \ hashed /\ cells[n][s] = << >>

\* What findGlobalVar puts in the cache is right.
LEMMA UncachedIs ==
  ASSUME TypeOK, EnvsInv, NEW s \in Syms
  PROVE  /\ Uncached(s) \in [env : Frames \union {None, R_BaseEnv, R_EmptyEnv}, copy : Copies]
         /\ Uncached(s) # NoCell =>
              /\ Uncached(s).env = First(ENCLOS, R_GlobalEnv, Binds(cells, base, s))
              /\ Uncached(s).env \notin Frames => Uncached(s).copy = 0
<1>. DEFINE e == First(ENCLOS, R_GlobalEnv, Binds(cells, base, s))
<1>1. ENCLOS \in Chains /\ Acyclic(ENCLOS) /\ R_GlobalEnv \in All
  BY EnclosIsChain, Distinct DEF EnvsInv, All
<1>2. e \in All \intersect (Binds(cells, base, s) \union {R_EmptyEnv})
  BY <1>1, FirstFound
<1>3. e \in Frames => cells[e][s] # << >>
  BY <1>2, Distinct DEF Binds
<1>4. Lookup(s, R_GlobalEnv) = e
  BY LookupIs
<1>. HIDE DEF e
<1>5. CASE e = R_EmptyEnv
  <2>1. Uncached(s) = NotFound
    BY <1>4, <1>5, Distinct DEF Uncached
  <2>. QED
    BY <1>5, <2>1 DEF NotFound, Copies, e
<1>6. CASE e = R_BaseEnv
  <2>1. Uncached(s) = NoCell \/ Uncached(s) = InBase
    BY <1>4, <1>6, Distinct DEF Uncached
  <2>. QED
    BY <1>6, <2>1 DEF InBase, NoCell, Copies, e
<1>7. CASE e \in Frames
  <2>1. Uncached(s) = [env |-> e, copy |-> cells[e][s][1]]
    BY <1>4, <1>7, Distinct DEF Uncached
  <2>2. cells[e][s] \in Seq(Copies) /\ cells[e][s] # << >>
    BY <1>3, <1>7 DEF TypeOK
  <2>3. cells[e][s][1] \in Copies
    BY <2>2
  <2>. QED
    BY <1>7, <2>1, <2>3 DEF e
<1>. QED
  BY <1>2, <1>5, <1>6, <1>7 DEF All

\* A live frame is noted as the last where the symbol was found.
LEMMA NoteFoundOK ==
  ASSUME TypeOK, EnvsInv, NEW s \in Syms, NEW e \in Live, NEW k \in Copies, NoteFound(s, e, k)
  PROVE  LASTSYMENV' \in [Syms -> used \union {None}] /\ LASTSYMBINDING' \in [Syms -> Copies]
<1>1. CASE e \in hashed \/ <<e, s, k>> \in active
  BY <1>1 DEF NoteFound, lastFound, TypeOK
<1>2. CASE ~(e \in hashed \/ <<e, s, k>> \in active)
  <2>1. e \in used
    BY <1>2 DEF EnvsInv, Live
  <2>2. /\ LASTSYMENV' = [LASTSYMENV EXCEPT ![s] = e]
        /\ LASTSYMBINDING' = [LASTSYMBINDING EXCEPT ![s] = k]
    BY <1>2 DEF NoteFound
  <2>3. LASTSYMENV \in [Syms -> used \union {None}] /\ LASTSYMBINDING \in [Syms -> Copies]
    BY DEF TypeOK
  <2>. QED
    BY <2>1, <2>2, <2>3
<1>. QED
  BY <1>1, <1>2

\* The steps of searches: environments and bindings stay, and what is noted, put in the
\* global cache or held by the innermost search is right.
LEMMA ScanStep ==
  ASSUME CInv, UNCHANGED <<envs, bindings>>,
         LASTSYMENV' \in [Syms -> used \union {None}], LASTSYMBINDING' \in [Syms -> Copies],
         \/ LASTENVNOTFOUND' = LASTENVNOTFOUND
         \/ \E s \in Syms, n \in Envs :
              NoteOf(n, s) /\ LASTENVNOTFOUND' = [LASTENVNOTFOUND EXCEPT ![s] = n],
         cache' = cache \/ \E s \in Syms : cache' = [cache EXCEPT ![s] = Uncached(s)],
         searches' \in Seq(Searches),
         \A i \in DOMAIN searches' : \/ \E j \in DOMAIN searches : searches'[i] = searches[j]
                                     \/ SearchOK(searches'[i]) /\ NotFoundOK(searches'[i])
  PROVE  CInv'
<1>1. UNCHANGED <<used, hashed, attached, ENCLOS, ENVSYMBITS, cells, active, base>>
  BY DEF envs, bindings
<1>2. LASTENVNOTFOUND' \in [Syms -> used \union {None}]
  BY DEF CInv, TypeOK, NoteOf
<1>3. cache' \in [Syms -> [env : Frames \union {None, R_BaseEnv, R_EmptyEnv}, copy : Copies]]
  <2>1. \A s \in Syms : Uncached(s) \in
          [env : Frames \union {None, R_BaseEnv, R_EmptyEnv}, copy : Copies]
    BY UncachedIs DEF CInv
  <2>2. cache \in [Syms -> [env : Frames \union {None, R_BaseEnv, R_EmptyEnv}, copy : Copies]]
    BY DEF CInv, TypeOK
  <2>. QED
    BY <2>1, <2>2
<1>4. TypeOK'
  BY <1>1, <1>2, <1>3 DEF CInv, TypeOK
<1>5. EnvsInv' /\ GlobalInv'
  BY <1>1 DEF CInv, EnvsInv, GlobalInv, Live, Starts
<1>6. BitsInv' /\ OneBinding'
  BY <1>1 DEF CInv, BitsInv, OneBinding
<1>7. CacheInv'
  <2>1. \A s \in Syms : cache'[s] = cache[s] \/ cache'[s] = Uncached(s)
    BY DEF CInv, TypeOK
  <2>. QED
    BY <1>1, <2>1, UncachedIs DEF CInv, CacheInv
<1>8. SearchInv'
  <2>1. \A i \in DOMAIN searches' : SearchOK(searches'[i])
    BY DEF CInv, SearchInv
  <2>. QED
    BY <1>1, <2>1 DEF SearchInv, SearchOK, Live
<1>9. NotFoundInv'
  <2>1. \A i \in DOMAIN searches' : NotFoundOK(searches'[i])
    BY DEF CInv, NotFoundInv
  <2>2. \A s \in Syms : LASTENVNOTFOUND'[s] # None =>
          LASTENVNOTFOUND'[s] \notin hashed /\ cells[LASTENVNOTFOUND'[s]][s] = << >>
    BY DEF CInv, NotFoundInv, TypeOK, NoteOf
  <2>. QED
    BY <1>1, <2>1, <2>2 DEF NotFoundInv, NotFoundOK
<1>. QED
  BY <1>4, <1>5, <1>6, <1>7, <1>8, <1>9 DEF CInv

\* A search may go on to the enclosing environment.
LEMMA EnclosOK ==
  ASSUME TypeOK, EnvsInv, GlobalInv, NEW h \in Searches, SearchOK(h)
  PROVE  /\ Enclosing(h.rho) \in Live \union {R_BaseEnv, R_EmptyEnv}
         /\ Enclosing(h.rho) \in Envs =>
              \/ First(ENCLOS, h.from, {Enclosing(h.rho)}) = Enclosing(h.rho)
              \/ Enclosing(h.rho) \in attached
              \/ ENCLOS[Enclosing(h.rho)] = R_BaseEnv /\ Enclosing(h.rho) \in hashed
<1>1. ENCLOS \in Chains /\ Acyclic(ENCLOS)
  BY EnclosIsChain DEF EnvsInv
<1>2. CASE h.rho \in {R_BaseEnv, R_EmptyEnv}
  <2>1. Enclosing(h.rho) = R_EmptyEnv
    BY <1>2, Distinct DEF Enclosing
  <2>. QED
    BY <2>1, Distinct DEF Frames
<1>3. CASE h.rho \in Starts
  <2>1. Enclosing(h.rho) \in attached \union {R_BaseEnv}
    BY <1>3 DEF Enclosing, GlobalInv, Starts, Frames, TypeOK
  <2>. QED
    BY <2>1, Distinct DEF Frames, Live, TypeOK
<1>4. CASE h.rho \in Live \ Starts
  <2>1. h.rho \in Envs /\ h.rho \in Frames /\ Enclosing(h.rho) = ENCLOS[h.rho]
    BY <1>4 DEF Enclosing, Live, Starts, Frames, TypeOK
  <2>2. ENCLOS[h.rho] \in Live \union {R_BaseEnv}
    BY <1>4 DEF EnvsInv
  <2>3. First(ENCLOS, h.from, {h.rho}) = h.rho \/ ENCLOS[h.rho] = R_BaseEnv
    BY <1>4, <2>1 DEF SearchOK, Starts
  <2>4. h.from \in All
    BY DEF SearchOK, Live, All, Frames, TypeOK
  <2>5. CASE First(ENCLOS, h.from, {h.rho}) = h.rho
    <3>1. First(ENCLOS, h.from, {ENCLOS[h.rho]}) = ENCLOS[h.rho]
      BY <1>1, <2>1, <2>4, <2>5, WayOn DEF Up
    <3>. QED
      BY <2>1, <2>2, <3>1
  <2>6. CASE ENCLOS[h.rho] = R_BaseEnv
    BY <2>1, <2>6, Distinct DEF Frames
  <2>. QED
    BY <2>3, <2>5, <2>6
<1>. QED
  BY <1>2, <1>3, <1>4 DEF SearchOK

\* Where a search starts.
LEMMA StartOK ==
  ASSUME TypeOK, EnvsInv, GlobalInv, NEW s \in Syms, NEW rho \in Live
  PROVE  LET r == SKIP_USING_SYMBITS(rho, s)
         IN  /\ r \in Live \union {R_BaseEnv, R_EmptyEnv}
             /\ r \in Envs => First(ENCLOS, rho, {r}) = r
<1>. DEFINE C == Live \union {R_BaseEnv, R_EmptyEnv}
            r == First(ENCLOS, rho, MayHave(s))
<1>1. ENCLOS \in Chains /\ Acyclic(ENCLOS)
  BY EnclosIsChain DEF EnvsInv
<1>2. Closed(ENCLOS, C)
  BY LiveClosed
<1>3. rho \in C /\ rho \in All
  BY <1>2 DEF Closed
<1>4. r \in C \intersect (MayHave(s) \union {R_EmptyEnv})
  <2>. HIDE DEF C
  <2>. QED
    BY <1>1, <1>2, <1>3, FirstIn
<1>5. ASSUME r \in Envs
      PROVE  First(ENCLOS, rho, {r}) = r
  <2>1. {r} \subseteq MayHave(s) /\ r \in All
    BY <1>2, <1>4, <1>5, Distinct DEF Frames, Closed
  <2>. HIDE DEF r
  <2>2. First(ENCLOS, r, {r}) = r
    BY <1>1, <2>1, FirstStops
  <2>. USE DEF r
  <2>3. First(ENCLOS, First(ENCLOS, rho, MayHave(s)), {r}) = First(ENCLOS, rho, {r})
    <3>. DEFINE R == {r}
    <3>1. R \subseteq MayHave(s)
      BY <2>1
    <3>. HIDE DEF R, r
    <3>2. First(ENCLOS, First(ENCLOS, rho, MayHave(s)), R) = First(ENCLOS, rho, R)
      BY <1>1, <1>3, <3>1, FirstSkips
    <3>. QED
      BY <3>2 DEF R, r
  <2>. QED
    BY <2>2, <2>3
<1>6. SKIP_USING_SYMBITS(rho, s) = r
  BY FirstOnIsFirst DEF SKIP_USING_SYMBITS
<1>. QED
  BY <1>4, <1>5, <1>6

-----------------------------------------------------------------------------
(* The steps of searches.                                                  *)

\* The innermost search is as it should be.
LEMMA TopOK ==
  ASSUME CInv, searches # << >>
  PROVE  Top \in Searches /\ SearchOK(Top) /\ NotFoundOK(Top)
  BY TopIs DEF CInv, SearchInv, NotFoundInv

\* It stays so when it goes on, or notes the frame without the symbol.
LEMMA MovesOn ==
  ASSUME TypeOK, EnvsInv, GlobalInv, NEW h \in Searches, SearchOK(h), NotFoundOK(h),
         NEW g \in Searches, g.sym = h.sym, g.from = h.from, g.last = h.last,
         g.rho = h.rho \/ g.rho = Enclosing(h.rho),
         \/ g.nf = h.nf
         \/ NoteOf(g.nf, h.sym) /\ First(ENCLOS, h.from, {g.nf}) = g.nf
  PROVE  SearchOK(g) /\ NotFoundOK(g)
<1>1. g.from \in Live
  BY DEF SearchOK
<1>2. /\ g.rho \in Live \union {R_BaseEnv, R_EmptyEnv}
      /\ g.rho \in Envs => \/ First(ENCLOS, g.from, {g.rho}) = g.rho
                           \/ g.rho \in attached
                           \/ ENCLOS[g.rho] = R_BaseEnv /\ g.rho \in hashed
  BY EnclosOK DEF SearchOK
<1>3. g.nf # None => g.nf \in used \ hashed /\ First(ENCLOS, g.from, {g.nf}) = g.nf
  BY DEF SearchOK, NoteOf
<1>4. NotFoundOK(g)
  BY DEF NotFoundOK, NoteOf
<1>. QED
  BY <1>1, <1>2, <1>3, <1>4 DEF SearchOK

\* When it is over it leaves in LASTENVNOTFOUND a frame without the symbol.
LEMMA Noted ==
  ASSUME CInv, NEW h \in Searches, SearchOK(h), NotFoundOK(h), NoteNotFound(h)
  PROVE  \/ LASTENVNOTFOUND' = LASTENVNOTFOUND
         \/ \E s \in Syms, n \in Envs :
              NoteOf(n, s) /\ LASTENVNOTFOUND' = [LASTENVNOTFOUND EXCEPT ![s] = n]
<1>1. CASE h.kind = "fun" /\ h.nf # None
  <2>1. h.sym \in Syms /\ h.nf \in Envs
    BY <1>1 DEF Searches
  <2>2. NoteOf(h.nf, h.sym)
    BY <1>1 DEF NoteOf, SearchOK, NotFoundOK
  <2>3. LASTENVNOTFOUND' = [LASTENVNOTFOUND EXCEPT ![h.sym] = h.nf]
    BY <1>1 DEF NoteNotFound
  <2>. QED
    BY <2>1, <2>2, <2>3
<1>2. CASE ~(h.kind = "fun" /\ h.nf # None)
  BY <1>2 DEF NoteNotFound
<1>. QED
  BY <1>1, <1>2

\* After a binding was found, the searches and LASTENVNOTFOUND are as they should be.
LEMMA FoundOK ==
  ASSUME CInv, searches # << >>, Found(Top.nf)
  PROVE  /\ searches' \in Seq(Searches)
         /\ \A i \in DOMAIN searches' : \/ \E j \in DOMAIN searches : searches'[i] = searches[j]
                                        \/ SearchOK(searches'[i]) /\ NotFoundOK(searches'[i])
         /\ \/ LASTENVNOTFOUND' = LASTENVNOTFOUND
            \/ \E s \in Syms, n \in Envs :
                 NoteOf(n, s) /\ LASTENVNOTFOUND' = [LASTENVNOTFOUND EXCEPT ![s] = n]
<1>0. TypeOK
  BY DEF CInv
<1>1. Top \in Searches /\ SearchOK(Top) /\ NotFoundOK(Top)
  BY TopOK
<1>2. [Top EXCEPT !.nf = Top.nf] = Top
  BY <1>1 DEF Searches
<1>3. CASE Leave /\ NoteNotFound([Top EXCEPT !.nf = Top.nf])
  BY <1>0, <1>1, <1>2, <1>3, Noted, LeftOff
<1>4. CASE /\ Top.kind # "var" /\ UNCHANGED LASTENVNOTFOUND
           /\ Go([Top EXCEPT !.nf = Top.nf, !.scanning = FALSE])
  <2>. DEFINE g == [Top EXCEPT !.nf = Top.nf, !.scanning = FALSE]
  <2>1. /\ g \in Searches /\ g.sym = Top.sym /\ g.from = Top.from /\ g.last = Top.last
        /\ g.rho = Top.rho /\ g.nf = Top.nf
    BY <1>1 DEF Searches
  <2>2. Go(g)
    BY <1>4
  <2>. HIDE DEF g
  <2>3. SearchOK(g) /\ NotFoundOK(g)
    BY <1>1, <2>1, MovesOn DEF CInv
  <2>4. /\ searches' \in Seq(Searches)
        /\ \A i \in DOMAIN searches' :
             searches'[i] = g \/ \E j \in DOMAIN searches : searches'[i] = searches[j]
    BY <1>0, <2>1, <2>2, GoOn
  <2>. QED
    BY <1>4, <2>3, <2>4
<1>. QED
  BY <1>3, <1>4 DEF Found

\* So they are after a search goes on.
LEMMA GoneOn ==
  ASSUME CInv, searches # << >>, NEW g \in Searches, Go(g), SearchOK(g), NotFoundOK(g)
  PROVE  /\ searches' \in Seq(Searches)
         /\ \A i \in DOMAIN searches' : \/ \E j \in DOMAIN searches : searches'[i] = searches[j]
                                        \/ SearchOK(searches'[i]) /\ NotFoundOK(searches'[i])
<1>1. TypeOK
  BY DEF CInv
<1>2. /\ searches' \in Seq(Searches)
      /\ \A i \in DOMAIN searches' :
           searches'[i] = g \/ \E j \in DOMAIN searches : searches'[i] = searches[j]
  BY <1>1, GoOn
<1>. QED
  BY <1>2

\* LASTSYMENV and LASTSYMBINDING keep their types if they stay.
LEMMA LastsKept ==
  ASSUME TypeOK, UNCHANGED lastFound
  PROVE  LASTSYMENV' \in [Syms -> used \union {None}] /\ LASTSYMBINDING' \in [Syms -> Copies]
  BY DEF TypeOK, lastFound

\* StartSearch keeps the invariant.
LEMMA StartSearchKeeps ==
  ASSUME CInv, StartSearch
  PROVE  CInv'
<1>1. PICK s \in Assigned, rho \in used \union {R_GlobalEnv}, kind \in Kinds :
       /\ searches' = << [sym |-> s, kind |-> kind, from |-> rho, scanning |-> TRUE,
                          rho |-> SKIP_USING_SYMBITS(rho, s), nf |-> None,
                          last |-> IF kind = "fun" THEN LASTENVNOTFOUND[s] ELSE None] >>
                      \o searches
       /\ LASTSYMENV' = IF kind = "var" /\ LASTSYMENV[s] = rho /\ ~LastHit(s, rho)
                          THEN [LASTSYMENV EXCEPT ![s] = None] ELSE LASTSYMENV
       /\ LASTSYMBINDING' = [LASTSYMBINDING EXCEPT
            ![s] = IF LASTSYMENV'[s] = None THEN 0 ELSE @]
  BY DEF StartSearch
<1>. DEFINE r == SKIP_USING_SYMBITS(rho, s)
            g == [sym |-> s, kind |-> kind, from |-> rho, scanning |-> TRUE, rho |-> r,
                  nf |-> None, last |-> IF kind = "fun" THEN LASTENVNOTFOUND[s] ELSE None]
<1>2. s \in Syms /\ rho \in Live /\ TypeOK /\ EnvsInv /\ GlobalInv
  BY ConstantsAssumption DEF CInv, Live
<1>3. /\ r \in Live \union {R_BaseEnv, R_EmptyEnv}
      /\ r \in Envs => First(ENCLOS, rho, {r}) = r
  BY <1>2, StartOK
<1>4. LASTENVNOTFOUND[s] \in used \union {None}
  BY <1>2 DEF TypeOK
<1>5. Live \subseteq Frames /\ used \subseteq Envs
  BY <1>2 DEF Live, Frames, TypeOK
<1>. HIDE DEF r
<1>6. g \in Searches
  BY <1>2, <1>3, <1>4, <1>5 DEF Searches
<1>7. SearchOK(g)
  BY <1>2, <1>3 DEF SearchOK
<1>8. NotFoundOK(g)
  BY <1>2 DEF NotFoundOK, CInv, NotFoundInv
<1>9. searches' = << g >> \o searches
  BY <1>1 DEF r
<1>. HIDE DEF g
<1>10. searches \in Seq(Searches)
  BY <1>2 DEF TypeOK
<1>11. /\ searches' \in Seq(Searches)
       /\ \A i \in DOMAIN searches' : \/ \E j \in DOMAIN searches : searches'[i] = searches[j]
                                      \/ SearchOK(searches'[i]) /\ NotFoundOK(searches'[i])
  <2>1. /\ << g >> \o searches \in Seq(Searches)
        /\ \A i \in DOMAIN (<< g >> \o searches) :
             \/ (<< g >> \o searches)[i] = g
             \/ \E j \in DOMAIN searches : (<< g >> \o searches)[i] = searches[j]
    BY <1>6, <1>10, PushedOn
  <2>. QED
    BY <1>7, <1>8, <1>9, <2>1
<1>12. LASTSYMENV' \in [Syms -> used \union {None}] /\ LASTSYMBINDING' \in [Syms -> Copies]
  BY <1>1, <1>2 DEF TypeOK, Copies
<1>13. UNCHANGED <<envs, bindings, LASTENVNOTFOUND, cache>>
  BY DEF StartSearch
<1>. QED
  BY <1>11, <1>12, <1>13, ScanStep

\* PassFrame: the frame passed unseen is the one noted as without the symbol, and it
\* has not been bound there since.
LEMMA PassFrameKeeps ==
  ASSUME CInv, PassFrame
  PROVE  CInv'
<1>. DEFINE g == [Top EXCEPT !.nf = Top.rho, !.rho = Enclosing(Top.rho)]
<1>1. searches # << >> /\ Top.rho \in Envs /\ Top.rho = Top.last /\ Go(g)
  BY DEF PassFrame, Scanning
<1>2. Top \in Searches /\ SearchOK(Top) /\ NotFoundOK(Top)
  BY <1>1, TopOK
<1>3. TypeOK /\ EnvsInv /\ GlobalInv
  BY DEF CInv
<1>4. Top.rho \notin hashed /\ cells[Top.rho][Top.sym] = << >>
  BY <1>1, <1>2, Distinct DEF NotFoundOK, Frames
<1>5. Top.rho \in used /\ First(ENCLOS, Top.from, {Top.rho}) = Top.rho
  BY <1>1, <1>2, <1>3, <1>4, Distinct DEF SearchOK, EnvsInv, Live, Frames
<1>6. Enclosing(Top.rho) \in Frames \union {R_BaseEnv, R_EmptyEnv}
  BY <1>3 DEF Enclosing, TypeOK, Frames
<1>7. /\ g \in Searches /\ g.sym = Top.sym /\ g.from = Top.from /\ g.last = Top.last
      /\ g.rho = Enclosing(Top.rho) /\ g.nf = Top.rho
  BY <1>1, <1>2, <1>6 DEF Searches
<1>. HIDE DEF g
<1>8. SearchOK(g) /\ NotFoundOK(g)
  BY <1>2, <1>3, <1>4, <1>5, <1>7, MovesOn DEF NoteOf
<1>9. UNCHANGED <<envs, bindings, lastFound, LASTENVNOTFOUND, cache>>
  BY DEF PassFrame
<1>10. LASTSYMENV' \in [Syms -> used \union {None}] /\ LASTSYMBINDING' \in [Syms -> Copies]
  BY <1>3, <1>9, LastsKept
<1>. QED
  BY <1>1, <1>7, <1>8, <1>9, <1>10, GoneOn, ScanStep

\* ScanFrame.
LEMMA ScanFrameKeeps ==
  ASSUME CInv, ScanFrame
  PROVE  CInv'
<1>1. searches # << >> /\ Top.rho \in Frames
  BY DEF ScanFrame, Scanning
<1>2. Top \in Searches /\ SearchOK(Top) /\ NotFoundOK(Top)
  BY <1>1, TopOK
<1>3. TypeOK /\ EnvsInv /\ GlobalInv /\ NotFoundInv
  BY DEF CInv
<1>4. Top.rho \in Live /\ Top.sym \in Syms /\ Top.nf \in Envs \union {None}
  BY <1>1, <1>2, Distinct DEF SearchOK, Searches
<1>5. /\ InFrame(Top.sym, Top.rho) = << >> <=> cells[Top.rho][Top.sym] = << >>
      /\ InFrame(Top.sym, Top.rho) # << >> => InFrame(Top.sym, Top.rho)[1] \in Copies
  BY <1>1, <1>3, <1>4, InFrameIs
<1>6. UNCHANGED <<envs, bindings, cache>>
  BY DEF ScanFrame
<1>7. CASE InFrame(Top.sym, Top.rho) = << >>
  <2>. DEFINE g == [Top EXCEPT !.nf = Passed(Top, FALSE), !.rho = Enclosing(Top.rho)]
  <2>1. Go(g) /\ FindVarInFrame3(Top.sym, Top.rho)
    BY <1>7 DEF ScanFrame
  <2>2. Enclosing(Top.rho) \in Frames \union {R_BaseEnv, R_EmptyEnv}
    BY <1>3 DEF Enclosing, TypeOK, Frames
  <2>3. Top.rho \notin hashed =>
          NoteOf(Top.rho, Top.sym) /\ First(ENCLOS, Top.from, {Top.rho}) = Top.rho
    BY <1>1, <1>2, <1>3, <1>4, <1>5, <1>7 DEF SearchOK, EnvsInv, Live, NoteOf, Frames
  <2>4. Top.rho \notin hashed => Top.rho \in Envs
    BY <1>1, <1>3 DEF EnvsInv, Frames
  <2>5. Passed(Top, FALSE) = IF Top.rho \notin hashed THEN Top.rho ELSE Top.nf
    BY DEF Passed
  <2>6. /\ g \in Searches /\ g.sym = Top.sym /\ g.from = Top.from /\ g.last = Top.last
        /\ g.rho = Enclosing(Top.rho) /\ g.nf = Passed(Top, FALSE)
    BY <1>2, <2>2, <2>4, <2>5 DEF Searches
  <2>. HIDE DEF g
  <2>7. SearchOK(g) /\ NotFoundOK(g)
    BY <1>2, <1>3, <2>3, <2>5, <2>6, MovesOn
  <2>8. \/ LASTENVNOTFOUND' = LASTENVNOTFOUND
        \/ \E s \in Syms, n \in Envs :
             NoteOf(n, s) /\ LASTENVNOTFOUND' = [LASTENVNOTFOUND EXCEPT ![s] = n]
    BY <1>4, <1>7, <2>1, <2>3, <2>4 DEF FindVarInFrame3
  <2>9. UNCHANGED lastFound
    BY <1>7, <2>1 DEF FindVarInFrame3
  <2>10. LASTSYMENV' \in [Syms -> used \union {None}] /\ LASTSYMBINDING' \in [Syms -> Copies]
    BY <1>3, <2>9, LastsKept
  <2>. QED
    BY <1>1, <1>6, <2>1, <2>6, <2>7, <2>8, <2>10, GoneOn, ScanStep
<1>8. CASE InFrame(Top.sym, Top.rho) # << >>
  <2>1. /\ Found(Passed(Top, TRUE))
        /\ NoteFound(Top.sym, Top.rho, InFrame(Top.sym, Top.rho)[1])
    BY <1>8 DEF ScanFrame
  <2>2. Passed(Top, TRUE) = Top.nf
    BY DEF Passed
  <2>3. LASTSYMENV' \in [Syms -> used \union {None}] /\ LASTSYMBINDING' \in [Syms -> Copies]
    BY <1>3, <1>4, <1>5, <1>8, <2>1, NoteFoundOK
  <2>. QED
    BY <1>1, <1>6, <2>1, <2>2, <2>3, FoundOK, ScanStep
<1>. QED
  BY <1>7, <1>8

\* ScanGlobal.
LEMMA ScanGlobalKeeps ==
  ASSUME CInv, ScanGlobal
  PROVE  CInv'
<1>1. searches # << >> /\ UNCHANGED <<envs, bindings, lastFound>>
  BY DEF ScanGlobal, Scanning
<1>2. TypeOK /\ Top \in Searches
  BY <1>1, TopOK DEF CInv
<1>3. cache' = cache \/ \E s \in Syms : cache' = [cache EXCEPT ![s] = Uncached(s)]
  BY <1>2 DEF ScanGlobal, FindGlobalVar, Searches
<1>4. LASTSYMENV' \in [Syms -> used \union {None}] /\ LASTSYMBINDING' \in [Syms -> Copies]
  BY <1>1, <1>2, LastsKept
<1>5. CASE Found(Top.nf)
  BY <1>1, <1>3, <1>4, <1>5, FoundOK, ScanStep
<1>6. CASE Leave /\ UNCHANGED LASTENVNOTFOUND
  BY <1>1, <1>2, <1>3, <1>4, <1>6, LeftOff, ScanStep
<1>. QED
  BY <1>5, <1>6 DEF ScanGlobal

\* ScanBase.
LEMMA ScanBaseKeeps ==
  ASSUME CInv, ScanBase
  PROVE  CInv'
<1>1. searches # << >> /\ UNCHANGED <<envs, bindings, lastFound, cache>> /\ Top.rho = R_BaseEnv
  BY DEF ScanBase, Scanning
<1>2. Top \in Searches /\ SearchOK(Top) /\ NotFoundOK(Top)
  BY <1>1, TopOK
<1>3. TypeOK /\ EnvsInv /\ GlobalInv
  BY DEF CInv
<1>4. LASTSYMENV' \in [Syms -> used \union {None}] /\ LASTSYMBINDING' \in [Syms -> Copies]
  BY <1>1, <1>3, LastsKept
<1>5. CASE Found(Top.nf)
  BY <1>1, <1>4, <1>5, FoundOK, ScanStep
<1>6. CASE Go([Top EXCEPT !.rho = R_EmptyEnv]) /\ UNCHANGED LASTENVNOTFOUND
  <2>. DEFINE g == [Top EXCEPT !.rho = R_EmptyEnv]
  <2>1. Enclosing(Top.rho) = R_EmptyEnv
    BY <1>1, Distinct DEF Enclosing
  <2>2. /\ g \in Searches /\ g.sym = Top.sym /\ g.from = Top.from /\ g.last = Top.last
        /\ g.rho = Enclosing(Top.rho) /\ g.nf = Top.nf
    BY <1>2, <2>1 DEF Searches
  <2>3. Go(g)
    BY <1>6
  <2>. HIDE DEF g
  <2>4. SearchOK(g) /\ NotFoundOK(g)
    BY <1>2, <1>3, <2>2, MovesOn
  <2>. QED
    BY <1>1, <1>4, <1>6, <2>2, <2>3, <2>4, GoneOn, ScanStep
<1>. QED
  BY <1>5, <1>6 DEF ScanBase

\* SearchFails.
LEMMA SearchFailsKeeps ==
  ASSUME CInv, SearchFails
  PROVE  CInv'
<1>1. /\ searches # << >> /\ Leave
      /\ UNCHANGED <<envs, bindings, lastFound, LASTENVNOTFOUND, cache>>
  BY DEF SearchFails, Scanning
<1>2. TypeOK
  BY DEF CInv
<1>3. LASTSYMENV' \in [Syms -> used \union {None}] /\ LASTSYMBINDING' \in [Syms -> Copies]
  BY <1>1, <1>2, LastsKept
<1>. QED
  BY <1>1, <1>2, <1>3, LeftOff, ScanStep

\* Evaluated: the search goes on, or is over with what it has noted.
LEMMA EvaluatedKeeps ==
  ASSUME CInv, Evaluated
  PROVE  CInv'
<1>1. searches # << >> /\ UNCHANGED <<envs, bindings, lastFound, cache>>
  BY DEF Evaluated
<1>2. Top \in Searches /\ SearchOK(Top) /\ NotFoundOK(Top)
  BY <1>1, TopOK
<1>3. TypeOK /\ EnvsInv /\ GlobalInv
  BY DEF CInv
<1>4. LASTSYMENV' \in [Syms -> used \union {None}] /\ LASTSYMBINDING' \in [Syms -> Copies]
  BY <1>1, <1>3, LastsKept
<1>5. CASE Leave /\ NoteNotFound(Top)
  <2>1. \/ LASTENVNOTFOUND' = LASTENVNOTFOUND
        \/ \E s \in Syms, n \in Envs :
             NoteOf(n, s) /\ LASTENVNOTFOUND' = [LASTENVNOTFOUND EXCEPT ![s] = n]
    BY <1>2, <1>5, Noted
  <2>. QED
    BY <1>1, <1>3, <1>4, <1>5, <2>1, LeftOff, ScanStep
<1>6. CASE /\ Go([Top EXCEPT !.scanning = TRUE, !.rho = Enclosing(Top.rho)])
           /\ UNCHANGED LASTENVNOTFOUND
  <2>. DEFINE g == [Top EXCEPT !.scanning = TRUE, !.rho = Enclosing(Top.rho)]
  <2>1. Enclosing(Top.rho) \in Frames \union {R_BaseEnv, R_EmptyEnv}
    BY <1>3 DEF Enclosing, TypeOK, Frames
  <2>2. /\ g \in Searches /\ g.sym = Top.sym /\ g.from = Top.from /\ g.last = Top.last
        /\ g.rho = Enclosing(Top.rho) /\ g.nf = Top.nf
    BY <1>2, <2>1 DEF Searches
  <2>3. Go(g)
    BY <1>6
  <2>. HIDE DEF g
  <2>4. SearchOK(g) /\ NotFoundOK(g)
    BY <1>2, <1>3, <2>2, MovesOn
  <2>. QED
    BY <1>1, <1>4, <1>6, <2>2, <2>3, <2>4, GoneOn, ScanStep
<1>7. CASE Leave /\ UNCHANGED LASTENVNOTFOUND
  BY <1>1, <1>3, <1>4, <1>7, LeftOff, ScanStep
<1>. QED
  BY <1>5, <1>6, <1>7 DEF Evaluated

\* FindVarInFrame.
LEMMA FindVarInFrameKeeps ==
  ASSUME CInv, FindVarInFrame
  PROVE  CInv'
<1>1. PICK s \in Assigned, e \in used : FindVarInFrame3(s, e)
  BY DEF FindVarInFrame
<1>2. TypeOK /\ EnvsInv /\ NotFoundInv
  BY DEF CInv
<1>3. s \in Syms /\ e \in Live /\ e \in Frames /\ e \in Envs
  BY <1>2, ConstantsAssumption DEF Live, Frames, TypeOK
<1>4. /\ InFrame(s, e) = << >> <=> cells[e][s] = << >>
      /\ InFrame(s, e) # << >> => InFrame(s, e)[1] \in Copies
  BY <1>2, <1>3, InFrameIs
<1>5. LASTSYMENV' \in [Syms -> used \union {None}] /\ LASTSYMBINDING' \in [Syms -> Copies]
  <2>1. CASE InFrame(s, e) = << >>
    BY <1>1, <1>2, <2>1, LastsKept DEF FindVarInFrame3
  <2>2. CASE InFrame(s, e) # << >>
    BY <1>1, <1>2, <1>3, <1>4, <2>2, NoteFoundOK DEF FindVarInFrame3
  <2>. QED
    BY <2>1, <2>2
<1>6. \/ LASTENVNOTFOUND' = LASTENVNOTFOUND
      \/ \E q \in Syms, n \in Envs :
           NoteOf(n, q) /\ LASTENVNOTFOUND' = [LASTENVNOTFOUND EXCEPT ![q] = n]
  BY <1>1, <1>3, <1>4 DEF FindVarInFrame3, NoteOf
<1>7. UNCHANGED <<envs, bindings, cache, searches>>
  BY DEF FindVarInFrame
<1>8. searches' \in Seq(Searches)
  BY <1>2, <1>7 DEF TypeOK
<1>. QED
  BY <1>5, <1>6, <1>7, <1>8, ScanStep

-----------------------------------------------------------------------------
(* Bindings.                                                               *)

\* What does not change with environments and searches.
LEMMA SameEnvs ==
  ASSUME CInv, UNCHANGED <<envs, searches>>
  PROVE  /\ EnvsInv' /\ GlobalInv' /\ SearchInv'
         /\ ENCLOS' \in Chains /\ Acyclic(ENCLOS')
<1>1. UNCHANGED <<used, hashed, attached, ENCLOS, searches>>
  BY DEF envs
<1>2. EnvsInv' /\ GlobalInv'
  BY <1>1 DEF CInv, EnvsInv, GlobalInv, Live, Starts
<1>3. SearchInv'
  BY <1>1 DEF CInv, SearchInv, SearchOK, Live
<1>4. ENCLOS \in Chains /\ Acyclic(ENCLOS)
  BY EnclosIsChain DEF CInv, EnvsInv
<1>. QED
  BY <1>1, <1>2, <1>3, <1>4

\* The global cache stays right if what is left in it is found where it was.
LEMMA CacheKept ==
  ASSUME CInv,
         \A q \in Syms : cache'[q] # NoCell =>
           /\ cache'[q] = cache[q]
           /\ First(ENCLOS', R_GlobalEnv, Binds(cells', base', q))
                = First(ENCLOS, R_GlobalEnv, Binds(cells, base, q)),
         \A q \in Syms : base[q] = "active" => base'[q] = "active"
  PROVE  CacheInv'
  BY DEF CInv, CacheInv

\* What R_FlushGlobalCache leaves.
LEMMA FlushedOnly ==
  ASSUME TypeOK, NEW S, cache' = R_FlushGlobalCache(S)
  PROVE  /\ cache' \in [Syms -> [env : Frames \union {None, R_BaseEnv, R_EmptyEnv}, copy : Copies]]
         /\ \A q \in Syms : cache'[q] # NoCell => cache'[q] = cache[q] /\ q \notin S
<1>1. NoCell \in [env : Frames \union {None, R_BaseEnv, R_EmptyEnv}, copy : Copies]
  BY DEF NoCell, Copies
<1>2. cache \in [Syms -> [env : Frames \union {None, R_BaseEnv, R_EmptyEnv}, copy : Copies]]
  BY DEF TypeOK
<1>. HIDE DEF NoCell
<1>. QED
  BY <1>1, <1>2 DEF R_FlushGlobalCache

\* The least of some copies is one of them.
LEMMA MinOfCopies ==
  ASSUME NEW S \in SUBSET Copies, S # {}
  PROVE  Min(S) \in S
<1>1. \E x \in S : \A y \in S : x =< y
  <2>1. CASE 0 \in S
    BY <2>1 DEF Copies
  <2>2. CASE 0 \notin S
    <3>1. 1 \in S /\ \A y \in S : y = 1
      BY <2>2 DEF Copies
    <3>. QED
      BY <3>1
  <2>. QED
    BY <2>1, <2>2
<1>. QED
  BY <1>1 DEF Min

\* A binding is created where there was none: LASTENVNOTFOUND, the symbits and the global
\* cache are brought up to date, and no search that goes on is for the symbol.
LEMMA CreateKeeps ==
  ASSUME CInv, ~Redefines, NEW s \in Syms, NEW e \in Live, NEW a, cells[e][s] = << >>,
         Create(s, e, a), UNCHANGED <<envs, searches>>
  PROVE  CInv'
<1>1. EnvsInv' /\ GlobalInv' /\ SearchInv' /\ ENCLOS' \in Chains /\ Acyclic(ENCLOS')
  BY SameEnvs
<1>2. TypeOK /\ EnvsInv /\ GlobalInv /\ BitsInv /\ NotFoundInv /\ OneBinding
  BY DEF CInv
<1>3. e \in Frames
  BY <1>2 DEF Live, Frames, TypeOK
<1>4. PICK k \in Copies :
        /\ cells' = [cells EXCEPT ![e][s] = <<k>> \o @]
        /\ active' = IF a THEN active \union {<<e, s, k>>} ELSE active
        /\ IF e \in hashed /\ ~(a /\ LASTSYMENV[s] = e) THEN UNCHANGED lastFound
           ELSE /\ LASTSYMENV' = [LASTSYMENV EXCEPT ![s] = IF a THEN None ELSE e]
                /\ LASTSYMBINDING' = [LASTSYMBINDING EXCEPT ![s] = IF a THEN 0 ELSE k]
  <2>1. Unused(s, e) \subseteq Copies /\ Unused(s, e) # {}
    BY DEF Unused, Create
  <2>2. Min(Unused(s, e)) \in Copies
    BY <2>1, MinOfCopies
  <2>. QED
    BY <2>2 DEF Create
<1>5. /\ ENVSYMBITS' = WithSymbits(s, e) /\ LASTENVNOTFOUND' = ClearNotFound(s, e)
      /\ cache' = R_FlushGlobalCache(IF e \in attached \union {R_GlobalEnv} THEN {s} ELSE {})
      /\ base' = base
      /\ \A i \in DOMAIN searches : searches[i].sym # s
  BY DEF Create
<1>6. UNCHANGED <<used, hashed, attached, ENCLOS, searches>>
  BY DEF envs
<1>7. /\ cells' \in [Frames -> [Syms -> Seq(Copies)]]
      /\ \A f \in Frames, q \in Syms :
           cells'[f][q] = IF f = e /\ q = s THEN <<k>> ELSE cells[f][q]
  <2>1. cells \in [Frames -> [Syms -> Seq(Copies)]]
    BY <1>2 DEF TypeOK
  <2>2. <<k>> \o << >> = <<k>> /\ <<k>> \in Seq(Copies)
    OBVIOUS
  <2>3. cells' = [cells EXCEPT ![e][s] = <<k>>]
    BY <1>3, <1>4, <2>1, <2>2
  <2>. QED
    BY <1>3, <2>1, <2>2, <2>3
<1>8. /\ ENVSYMBITS' \in [Frames -> SUBSET AllBits]
      /\ \A f \in Frames : ENVSYMBITS[f] \subseteq ENVSYMBITS'[f]
      /\ SYMBITS[s] \subseteq ENVSYMBITS'[e]
  <2>1. SYMBITS[s] \subseteq AllBits
    BY DEF AllBits
  <2>2. ENVSYMBITS' = [ENVSYMBITS EXCEPT ![e] = @ \union SYMBITS[s]]
    BY <1>5 DEF WithSymbits
  <2>3. ENVSYMBITS \in [Frames -> SUBSET AllBits]
    BY <1>2 DEF TypeOK
  <2>. QED
    BY <1>3, <2>1, <2>2, <2>3
<1>9. /\ LASTENVNOTFOUND' \in [Syms -> used \union {None}]
      /\ \A q \in Syms : LASTENVNOTFOUND'[q] # None =>
           LASTENVNOTFOUND'[q] = LASTENVNOTFOUND[q] /\ (q = s => LASTENVNOTFOUND[q] # e)
  BY <1>2, <1>5 DEF TypeOK, ClearNotFound
<1>10. LASTSYMENV' \in [Syms -> used \union {None}] /\ LASTSYMBINDING' \in [Syms -> Copies]
  <2>1. CASE e \in hashed /\ ~(a /\ LASTSYMENV[s] = e)
    BY <1>2, <1>4, <2>1, LastsKept
  <2>2. CASE ~(e \in hashed /\ ~(a /\ LASTSYMENV[s] = e))
    <3>1. ~a => e \in used
      BY <1>2, <2>2 DEF Live, EnvsInv
    <3>2. LASTSYMENV \in [Syms -> used \union {None}] /\ LASTSYMBINDING \in [Syms -> Copies]
      BY <1>2 DEF TypeOK
    <3>. QED
      BY <1>4, <2>2, <3>1, <3>2 DEF Copies
  <2>. QED
    BY <2>1, <2>2
<1>11. active' \subseteq Frames \X Syms \X Copies
  BY <1>2, <1>3, <1>4 DEF TypeOK
<1>12. cache' \in [Syms -> [env : Frames \union {None, R_BaseEnv, R_EmptyEnv}, copy : Copies]]
  BY <1>2, <1>5, FlushedOnly
<1>13. TypeOK'
  BY <1>2, <1>5, <1>6, <1>7, <1>8, <1>9, <1>10, <1>11, <1>12 DEF TypeOK
<1>14. BitsInv'
  <2>1. ENVSYMBITS'[R_GlobalEnv] = AllBits
    BY <1>2, <1>8, Distinct DEF BitsInv
  <2>. QED
    BY <1>2, <1>7, <1>8, <2>1 DEF BitsInv
<1>15. CacheInv'
  <2>1. ASSUME NEW q \in Syms, cache'[q] # NoCell
        PROVE  /\ cache'[q] = cache[q]
               /\ First(ENCLOS', R_GlobalEnv, Binds(cells', base', q))
                    = First(ENCLOS, R_GlobalEnv, Binds(cells, base, q))
    <3>1. cache'[q] = cache[q] /\ q \notin IF e \in attached \union {R_GlobalEnv} THEN {s} ELSE {}
      BY <1>2, <1>5, <2>1, FlushedOnly
    <3>2. \A t \in Starts : t \in Frames
      BY <1>2 DEF Starts, Frames, TypeOK
    <3>3. \A t \in Starts : cells'[t][q] # << >> <=> cells[t][q] # << >>
      BY <1>7, <3>1, <3>2 DEF Starts
    <3>. QED
      BY <1>1, <1>2, <1>5, <1>6, <3>1, <3>3, GlobalSame
  <2>. QED
    BY <1>5, <2>1, CacheKept
<1>16. NotFoundInv'
  <2>1. \A q \in Syms : LASTENVNOTFOUND'[q] # None =>
          LASTENVNOTFOUND'[q] \notin hashed' /\ cells'[LASTENVNOTFOUND'[q]][q] = << >>
    BY <1>2, <1>6, <1>7, <1>9 DEF NotFoundInv, TypeOK, Frames
  <2>2. ASSUME NEW h \in Searches, h.sym # s, NotFoundOK(h)
        PROVE  /\ h.last # None => h.last \notin hashed' /\ cells'[h.last][h.sym] = << >>
               /\ h.nf # None => cells'[h.nf][h.sym] = << >>
    <3>1. h.last \in Envs \union {None} /\ h.nf \in Envs \union {None} /\ h.sym \in Syms
      BY DEF Searches
    <3>. QED
      BY <1>6, <1>7, <2>2, <3>1 DEF NotFoundOK, Frames
  <2>3. \A i \in DOMAIN searches :
          searches[i] \in Searches /\ searches[i].sym # s /\ NotFoundOK(searches[i])
    BY <1>2, <1>5 DEF NotFoundInv, TypeOK
  <2>. QED
    BY <1>6, <2>1, <2>2, <2>3 DEF NotFoundInv, NotFoundOK
<1>17. OneBinding'
  <2>1. Len(<<k>>) <= 1
    OBVIOUS
  <2>. QED
    BY <1>2, <1>7, <2>1 DEF OneBinding
<1>. QED
  BY <1>1, <1>13, <1>14, <1>15, <1>16, <1>17 DEF CInv

\* The steps that change the base environment and the global cache.
LEMMA BaseStep ==
  ASSUME CInv, base' \in [Syms -> {"unbound", "value", "active"}],
         cache' \in [Syms -> [env : Frames \union {None, R_BaseEnv, R_EmptyEnv}, copy : Copies]],
         UNCHANGED <<envs, searches, ENVSYMBITS, cells, active, lastFound, LASTENVNOTFOUND>>,
         CacheInv'
  PROVE  CInv'
<1>1. EnvsInv' /\ GlobalInv' /\ SearchInv'
  BY SameEnvs
<1>2. UNCHANGED <<used, hashed, attached, ENCLOS, LASTSYMENV, LASTSYMBINDING>>
  BY DEF envs, lastFound
<1>3. TypeOK'
  BY <1>2 DEF CInv, TypeOK
<1>4. BitsInv' /\ OneBinding'
  BY DEF CInv, BitsInv, OneBinding
<1>5. NotFoundInv'
  BY <1>2 DEF CInv, NotFoundInv, NotFoundOK
<1>. QED
  BY <1>1, <1>3, <1>4, <1>5 DEF CInv

\* SetInBase.
LEMMA SetInBaseKeeps ==
  ASSUME CInv, NEW s \in Syms, SetInBase(s), UNCHANGED <<envs, searches>>
  PROVE  CInv'
<1>1. /\ base' = [base EXCEPT ![s] = IF @ = "unbound" THEN "value" ELSE @]
      /\ cache' = R_FlushGlobalCache({s})
      /\ UNCHANGED <<ENVSYMBITS, cells, active, lastFound, LASTENVNOTFOUND>>
  BY DEF SetInBase
<1>2. TypeOK /\ EnvsInv /\ GlobalInv
  BY DEF CInv
<1>3. base' \in [Syms -> {"unbound", "value", "active"}]
      /\ \A q \in Syms \ {s} : base'[q] = base[q]
  BY <1>1, <1>2 DEF TypeOK
<1>4. ENCLOS' = ENCLOS /\ ENCLOS' \in Chains /\ Acyclic(ENCLOS')
  BY SameEnvs DEF envs
<1>5. CacheInv'
  <2>1. ASSUME NEW q \in Syms, cache'[q] # NoCell
        PROVE  /\ cache'[q] = cache[q]
               /\ First(ENCLOS', R_GlobalEnv, Binds(cells', base', q))
                    = First(ENCLOS, R_GlobalEnv, Binds(cells, base, q))
    <3>1. cache'[q] = cache[q] /\ q \notin {s}
      BY <1>1, <1>2, <2>1, FlushedOnly
    <3>. QED
      BY <1>1, <1>2, <1>3, <1>4, <3>1, GlobalSame
  <2>2. \A q \in Syms : base[q] = "active" => base'[q] = "active"
    BY <1>1, <1>2, <1>3 DEF TypeOK
  <2>. QED
    BY <2>1, <2>2, CacheKept
<1>6. cache' \in [Syms -> [env : Frames \union {None, R_BaseEnv, R_EmptyEnv}, copy : Copies]]
  BY <1>1, <1>2, FlushedOnly
<1>. QED
  BY <1>1, <1>3, <1>5, <1>6, BaseStep

\* MakeActiveInBase: the global cache is not flushed, and is right still unless it says
\* that the symbol is nowhere.
LEMMA MakeActiveInBaseKeeps ==
  ASSUME CInv, MakeActiveInBase
  PROVE  CInv'
<1>1. PICK s \in Assigned : base[s] # "value" /\ base' = [base EXCEPT ![s] = "active"]
  BY DEF MakeActiveInBase
<1>2. /\ UNCHANGED <<envs, searches, ENVSYMBITS, cells, active, lastFound, LASTENVNOTFOUND>>
      /\ cache' = cache
  BY DEF MakeActiveInBase
<1>3. TypeOK /\ EnvsInv /\ GlobalInv /\ CacheInv
  BY DEF CInv
<1>4. s \in Syms
  BY ConstantsAssumption
<1>5. base' \in [Syms -> {"unbound", "value", "active"}]
      /\ (\A q \in Syms \ {s} : base'[q] = base[q]) /\ base'[s] = "active"
  BY <1>1, <1>3, <1>4 DEF TypeOK
<1>6. ENCLOS' = ENCLOS /\ ENCLOS' \in Chains /\ Acyclic(ENCLOS')
  BY <1>2, SameEnvs DEF envs
<1>7. ENCLOS \in Chains /\ Acyclic(ENCLOS) /\ R_GlobalEnv \in All
  BY <1>6, Distinct DEF All
<1>8. CacheInv'
  <2>1. ASSUME NEW q \in Syms, cache'[q] # NoCell
        PROVE  /\ \/ cache'[q].env = First(ENCLOS', R_GlobalEnv, Binds(cells', base', q))
                  \/ /\ cache'[q] = NotFound /\ base'[q] = "active"
                     /\ First(ENCLOS', R_GlobalEnv, Binds(cells', base', q)) = R_BaseEnv
               /\ cache'[q].env \notin Frames => cache'[q].copy = 0
    <3>. DEFINE S == Binds(cells, base, q)
                T == Binds(cells', base', q)
                r == First(ENCLOS, R_GlobalEnv, T)
    <3>1. /\ cache[q].env = First(ENCLOS, R_GlobalEnv, S)
             \/ /\ cache[q] = NotFound /\ base[q] = "active"
                /\ First(ENCLOS, R_GlobalEnv, S) = R_BaseEnv
          /\ cache[q].env \notin Frames => cache[q].copy = 0
      BY <1>2, <1>3, <2>1 DEF CacheInv
    <3>2. CASE base'[q] # "unbound" <=> base[q] # "unbound"
      <4>1. First(ENCLOS', R_GlobalEnv, T) = First(ENCLOS, R_GlobalEnv, S)
        BY <1>2, <1>3, <1>6, <3>2, GlobalSame
      <4>2. base[q] = "active" => base'[q] = "active"
        BY <1>4, <1>5
      <4>. QED
        BY <1>2, <3>1, <4>1, <4>2
    <3>3. CASE ~(base'[q] # "unbound" <=> base[q] # "unbound")
      <4>1. q = s /\ base[q] = "unbound" /\ base'[q] = "active"
        BY <1>5, <3>3
      <4>2. S \subseteq Frames /\ T = S \union {R_BaseEnv}
        BY <1>2, <1>5, <4>1 DEF Binds
      <4>3. cache[q].env = First(ENCLOS, R_GlobalEnv, S)
        BY <3>1, <4>1
      <4>4. cache[q].env = R_EmptyEnv => cache[q] = NotFound
        <5>1. cache[q] \in [env : Frames \union {None, R_BaseEnv, R_EmptyEnv}, copy : Copies]
          BY <1>3 DEF TypeOK
        <5>2. cache[q].env = R_EmptyEnv => cache[q].copy = 0
          BY <3>1, Distinct
        <5>. QED
          BY <5>1, <5>2 DEF NotFound
      <4>. HIDE DEF S, T
      <4>5. First(ENCLOS, r, S) = First(ENCLOS, R_GlobalEnv, S)
        BY <1>7, <4>2, FirstSkips
      <4>6. r \in All /\ r \in T \union {R_EmptyEnv}
        BY <1>7, FirstFound
      <4>. HIDE DEF r
      <4>7. First(ENCLOS, R_EmptyEnv, S) = R_EmptyEnv
        BY <1>7, FirstStops DEF All
      <4>8. First(ENCLOS, R_BaseEnv, S) = R_EmptyEnv
        <5>1. R_BaseEnv \notin S \union {R_EmptyEnv} /\ Up(ENCLOS, R_BaseEnv) = R_EmptyEnv
          BY <4>2, Distinct DEF Up
        <5>. QED
          BY <1>7, <4>7, <5>1, FirstStops DEF All
      <4>9. r \in S => First(ENCLOS, r, S) = r
        BY <1>7, <4>6, FirstStops
      <4>10. \/ cache[q].env = r
             \/ cache[q].env = R_EmptyEnv /\ r = R_BaseEnv
        BY <4>2, <4>3, <4>5, <4>6, <4>7, <4>8, <4>9
      <4>11. First(ENCLOS', R_GlobalEnv, T) = r
        BY <1>6 DEF r
      <4>. QED
        BY <1>2, <3>1, <4>1, <4>4, <4>10, <4>11 DEF T
    <3>. QED
      BY <3>2, <3>3
  <2>. QED
    BY <2>1 DEF CacheInv
<1>9. cache' \in [Syms -> [env : Frames \union {None, R_BaseEnv, R_EmptyEnv}, copy : Copies]]
  BY <1>2, <1>3 DEF TypeOK
<1>. QED
  BY <1>2, <1>5, <1>8, <1>9, BaseStep

\* set_var_in_frame, whether there is a binding or not.
LEMMA SetVarKeeps ==
  ASSUME CInv, ~Redefines, NEW s \in Syms, NEW e \in Live \union {R_BaseEnv},
         set_var_in_frame(s, e), UNCHANGED <<envs, searches>>
  PROVE  CInv'
<1>1. CASE e = R_BaseEnv
  BY <1>1, SetInBaseKeeps DEF set_var_in_frame
<1>2. CASE e # R_BaseEnv
  <2>1. TypeOK /\ EnvsInv /\ NotFoundInv /\ e \in Live
    BY <1>2 DEF CInv
  <2>2. e \in Frames
    BY <2>1 DEF Live, Frames, TypeOK
  <2>3. /\ InFrame(s, e) = << >> <=> cells[e][s] = << >>
        /\ InFrame(s, e) # << >> => InFrame(s, e)[1] \in Copies
    BY <2>1, <2>2, InFrameIs
  <2>4. CASE InFrame(s, e) # << >>
    <3>1. NoteFound(s, e, InFrame(s, e)[1]) /\ UNCHANGED <<bindings, LASTENVNOTFOUND, cache>>
      BY <1>2, <2>4 DEF set_var_in_frame, SetExisting
    <3>2. LASTSYMENV' \in [Syms -> used \union {None}] /\ LASTSYMBINDING' \in [Syms -> Copies]
      BY <2>1, <2>3, <2>4, <3>1, NoteFoundOK
    <3>3. searches' \in Seq(Searches)
      BY <2>1 DEF TypeOK
    <3>. QED
      BY <3>1, <3>2, <3>3, ScanStep
  <2>5. CASE InFrame(s, e) = << >>
    <3>1. Create(s, e, FALSE)
      BY <1>2, <2>5 DEF set_var_in_frame
    <3>. QED
      BY <2>1, <2>3, <2>5, <3>1, CreateKeeps
  <2>. QED
    BY <2>4, <2>5
<1>. QED
  BY <1>1, <1>2

\* Assign.
LEMMA AssignKeeps ==
  ASSUME CInv, ~Redefines, Assign
  PROVE  CInv'
<1>1. PICK s \in Assigned, e \in used \union {R_GlobalEnv, R_BaseEnv} : set_var_in_frame(s, e)
  BY DEF Assign
<1>2. s \in Syms /\ e \in Live \union {R_BaseEnv}
  BY ConstantsAssumption DEF Live
<1>. QED
  BY <1>1, <1>2, SetVarKeeps DEF Assign

\* set_var_nonlocal.
LEMMA NonlocalKeeps ==
  ASSUME CInv, ~Redefines, set_var_nonlocal
  PROVE  CInv'
<1>1. PICK s \in Assigned, rho \in used \union {R_GlobalEnv} :
       LET e == FirstOn(rho, {f \in Frames : InFrame(s, f) # << >>}
                               \union (IF BoundIn(R_BaseEnv, s) THEN {R_BaseEnv} ELSE {}))
       IN  set_var_in_frame(s, IF e = R_EmptyEnv THEN R_GlobalEnv ELSE e)
  BY DEF set_var_nonlocal
<1>. DEFINE S == {f \in Frames : InFrame(s, f) # << >>}
                   \union (IF BoundIn(R_BaseEnv, s) THEN {R_BaseEnv} ELSE {})
            e == First(ENCLOS, rho, S)
            C == Live \union {R_BaseEnv, R_EmptyEnv}
<1>2. s \in Syms /\ TypeOK /\ EnvsInv /\ rho \in C
  BY ConstantsAssumption DEF Live, CInv
<1>3. set_var_in_frame(s, IF e = R_EmptyEnv THEN R_GlobalEnv ELSE e)
  BY <1>1, FirstOnIsFirst
<1>4. ENCLOS \in Chains /\ Acyclic(ENCLOS)
  BY <1>2, EnclosIsChain DEF EnvsInv
<1>5. Closed(ENCLOS, C)
  BY <1>2, LiveClosed
<1>6. e \in C
  <2>. HIDE DEF C, S
  <2>. QED
    BY <1>2, <1>4, <1>5, FirstIn DEF Closed
<1>. HIDE DEF e
<1>7. (IF e = R_EmptyEnv THEN R_GlobalEnv ELSE e) \in Live \union {R_BaseEnv}
  BY <1>6 DEF Live
<1>. QED
  BY <1>2, <1>3, <1>7, SetVarKeeps DEF set_var_nonlocal

\* MakeActiveBinding.
LEMMA MakeActiveKeeps ==
  ASSUME CInv, ~Redefines, MakeActiveBinding
  PROVE  CInv'
<1>1. PICK s \in Assigned, e \in used \union {R_GlobalEnv} :
        InFrame(s, e) = << >> /\ Create(s, e, TRUE)
  BY DEF MakeActiveBinding
<1>2. s \in Syms /\ e \in Live /\ TypeOK /\ NotFoundInv
  BY ConstantsAssumption DEF Live, CInv
<1>3. e \in Frames
  BY <1>2 DEF Live, Frames, TypeOK
<1>4. cells[e][s] = << >>
  BY <1>1, <1>2, <1>3, InFrameIs
<1>. QED
  BY <1>1, <1>2, <1>4, CreateKeeps DEF MakeActiveBinding

\* RemoveVariable: after it the frame has no cell, as it had one at most.
LEMMA RemoveVariableKeeps ==
  ASSUME CInv, RemoveVariable
  PROVE  CInv'
<1>1. PICK s \in Assigned, e \in used \union {R_GlobalEnv} :
       /\ cells[e][s] # << >>
       /\ cells' = [cells EXCEPT ![e][s] = Tail(@)]
       /\ active' = active \ {<<e, s, Head(cells[e][s])>>}
       /\ cache' = R_FlushGlobalCache(IF e \in attached \union {R_GlobalEnv} THEN {s} ELSE {})
  BY DEF RemoveVariable
<1>2. UNCHANGED <<envs, ENVSYMBITS, base, lastFound, LASTENVNOTFOUND, searches>>
  BY DEF RemoveVariable
<1>3. EnvsInv' /\ GlobalInv' /\ SearchInv' /\ ENCLOS' \in Chains /\ Acyclic(ENCLOS')
  BY <1>2, SameEnvs
<1>4. TypeOK /\ EnvsInv /\ GlobalInv /\ BitsInv /\ NotFoundInv /\ OneBinding
  BY DEF CInv
<1>5. s \in Syms /\ e \in Frames
  BY <1>4, ConstantsAssumption DEF Frames, TypeOK
<1>6. UNCHANGED <<used, hashed, attached, ENCLOS, LASTSYMENV, LASTSYMBINDING>>
  BY <1>2 DEF envs, lastFound
<1>7. /\ cells' \in [Frames -> [Syms -> Seq(Copies)]]
      /\ \A f \in Frames, q \in Syms :
           cells'[f][q] = IF f = e /\ q = s THEN << >> ELSE cells[f][q]
  <2>1. cells \in [Frames -> [Syms -> Seq(Copies)]]
    BY <1>4 DEF TypeOK
  <2>2. cells[e][s] \in Seq(Copies) /\ Len(cells[e][s]) <= 1
    BY <1>4, <1>5, <2>1 DEF OneBinding
  <2>3. Tail(cells[e][s]) = << >> /\ << >> \in Seq(Copies)
    BY <1>1, <2>2
  <2>4. cells' = [cells EXCEPT ![e][s] = << >>]
    BY <1>1, <1>5, <2>1, <2>3
  <2>. QED
    BY <1>5, <2>1, <2>3, <2>4
<1>8. cache' \in [Syms -> [env : Frames \union {None, R_BaseEnv, R_EmptyEnv}, copy : Copies]]
  BY <1>1, <1>4, FlushedOnly
<1>9. TypeOK'
  BY <1>1, <1>2, <1>4, <1>6, <1>7, <1>8 DEF TypeOK
<1>10. BitsInv'
  BY <1>2, <1>4, <1>7 DEF BitsInv
<1>11. CacheInv'
  <2>1. ASSUME NEW q \in Syms, cache'[q] # NoCell
        PROVE  /\ cache'[q] = cache[q]
               /\ First(ENCLOS', R_GlobalEnv, Binds(cells', base', q))
                    = First(ENCLOS, R_GlobalEnv, Binds(cells, base, q))
    <3>1. cache'[q] = cache[q] /\ q \notin IF e \in attached \union {R_GlobalEnv} THEN {s} ELSE {}
      BY <1>1, <1>4, <2>1, FlushedOnly
    <3>2. \A t \in Starts : t \in Frames
      BY <1>4 DEF Starts, Frames, TypeOK
    <3>3. \A t \in Starts : cells'[t][q] # << >> <=> cells[t][q] # << >>
      BY <1>7, <3>1, <3>2 DEF Starts
    <3>. QED
      BY <1>2, <1>3, <1>4, <1>6, <3>1, <3>3, GlobalSame
  <2>. QED
    BY <1>2, <2>1, CacheKept
<1>12. NotFoundInv'
  <2>1. \A f \in Envs, q \in Syms : cells[f][q] = << >> => cells'[f][q] = << >>
    BY <1>7 DEF Frames
  <2>2. \A q \in Syms : LASTENVNOTFOUND'[q] # None =>
          LASTENVNOTFOUND'[q] \notin hashed' /\ cells'[LASTENVNOTFOUND'[q]][q] = << >>
    BY <1>2, <1>4, <1>6, <2>1 DEF NotFoundInv, TypeOK
  <2>3. \A i \in DOMAIN searches : searches[i] \in Searches /\ NotFoundOK(searches[i])
    BY <1>4 DEF NotFoundInv, TypeOK
  <2>. QED
    BY <1>2, <1>6, <2>1, <2>2, <2>3 DEF NotFoundInv, NotFoundOK, Searches
<1>13. OneBinding'
  <2>1. Len(<< >>) = 0
    OBVIOUS
  <2>. QED
    BY <1>4, <1>7, <2>1 DEF OneBinding
<1>. QED
  BY <1>3, <1>9, <1>10, <1>11, <1>12, <1>13 DEF CInv

-----------------------------------------------------------------------------
(* Environments.                                                           *)

\* An environment that is allocated is in no chain and noted nowhere.
LEMMA FreshIs ==
  ASSUME CInv, ~Redefines, NEW e \in Fresh
  PROVE  /\ e \in Envs \ used /\ e \in Frames /\ e \notin Live /\ e \notin Starts /\ e # None
         /\ e # R_BaseEnv
         /\ \A i \in DOMAIN searches : searches[i].last # e
         /\ \A f \in Frames : ENCLOS[f] # e
<1>1. e \in Envs \ used /\ \A i \in DOMAIN searches : searches[i].last # e
  BY DEF Fresh
<1>2. TypeOK /\ EnvsInv
  BY DEF CInv
<1>3. e \in Frames /\ e \notin Live /\ e \notin Starts /\ e # None /\ e # R_BaseEnv
  BY <1>1, <1>2, Distinct DEF Frames, Live, Starts, TypeOK
<1>4. \A f \in Frames : ENCLOS[f] \in Live \union {R_BaseEnv}
  BY <1>2 DEF EnvsInv, Frames, Live
<1>. QED
  BY <1>1, <1>3, <1>4

\* The cells of a frame that has one binding for each symbol it is given.
CellsFor(frame) == [q \in Syms |-> IF q \in frame THEN <<0>> ELSE << >>]

\* Its frame and symbits, and that no others change.
LEMMA NewFrame ==
  ASSUME CInv, NEW e \in Frames, NEW frame \in SUBSET Syms,
         NEW bits \in SUBSET AllBits, \A q \in frame : SYMBITS[q] \subseteq bits,
         ENVSYMBITS' = [ENVSYMBITS EXCEPT ![e] = bits],
         cells' = [cells EXCEPT ![e] = CellsFor(frame)],
         e # R_GlobalEnv
  PROVE  /\ ENVSYMBITS' \in [Frames -> SUBSET AllBits]
         /\ cells' \in [Frames -> [Syms -> Seq(Copies)]]
         /\ \A f \in Frames \ {e} : cells'[f] = cells[f]
         /\ BitsInv' /\ OneBinding'
<1>1. /\ cells \in [Frames -> [Syms -> Seq(Copies)]] /\ ENVSYMBITS \in [Frames -> SUBSET AllBits]
      /\ BitsInv /\ OneBinding
  BY DEF CInv, TypeOK
<1>2. <<0>> \in Seq(Copies) /\ << >> \in Seq(Copies) /\ Len(<<0>>) <= 1 /\ Len(<< >>) <= 1
  BY DEF Copies
<1>. DEFINE new == CellsFor(frame)
<1>3. /\ new \in [Syms -> Seq(Copies)] /\ \A q \in Syms : Len(new[q]) <= 1
      /\ \A q \in Syms : new[q] # << >> => q \in frame
  BY <1>2 DEF CellsFor
<1>. HIDE DEF new
<1>4. cells' = [cells EXCEPT ![e] = new]
  BY DEF new
<1>5. cells'[e] = new /\ \A f \in Frames \ {e} : cells'[f] = cells[f]
  BY <1>1, <1>4
<1>6. ENVSYMBITS'[e] = bits /\ \A f \in Frames \ {e} : ENVSYMBITS'[f] = ENVSYMBITS[f]
  BY <1>1
<1>7. BitsInv'
  BY <1>1, <1>3, <1>5, <1>6, Distinct DEF BitsInv
<1>8. OneBinding'
  BY <1>1, <1>3, <1>5 DEF OneBinding
<1>. QED
  BY <1>1, <1>3, <1>4, <1>5, <1>6, <1>7, <1>8

\* What is noted as not found is not the new environment.
LEMMA UnseenKept ==
  ASSUME CInv, ~Redefines, NEW e \in Fresh, hashed' \in {hashed, hashed \union {e}},
         \A f \in Frames \ {e} : cells'[f] = cells[f], UNCHANGED <<LASTENVNOTFOUND, searches>>
  PROVE  NotFoundInv'
<1>1. TypeOK /\ NotFoundInv /\ SearchInv
  BY DEF CInv
<1>2. e \in Envs \ used /\ e # None /\ \A i \in DOMAIN searches : searches[i].last # e
  BY FreshIs
<1>3. \A q \in Syms : LASTENVNOTFOUND[q] # None =>
        LASTENVNOTFOUND[q] \notin hashed' /\ cells'[LASTENVNOTFOUND[q]][q] = << >>
  <2>1. \A q \in Syms : LASTENVNOTFOUND[q] \in used \union {None}
    BY <1>1 DEF TypeOK
  <2>2. \A n \in used : n # e /\ cells'[n] = cells[n]
    BY <1>1, <1>2 DEF TypeOK, Frames
  <2>3. \A q \in Syms : LASTENVNOTFOUND[q] # None =>
          LASTENVNOTFOUND[q] \notin hashed /\ cells[LASTENVNOTFOUND[q]][q] = << >>
    BY <1>1 DEF NotFoundInv
  <2>. QED
    BY <2>1, <2>2, <2>3
<1>4. ASSUME NEW h \in Searches, h.last # e, SearchOK(h), NotFoundOK(h)
      PROVE  /\ h.last # None => h.last \notin hashed' /\ cells'[h.last][h.sym] = << >>
             /\ h.nf # None => cells'[h.nf][h.sym] = << >>
  <2>1. h.last \in Envs \union {None} /\ h.nf \in Envs \union {None} /\ h.nf # e
    BY <1>2, <1>4 DEF Searches, SearchOK
  <2>. QED
    BY <1>2, <1>4, <2>1 DEF NotFoundOK, Frames
<1>5. \A i \in DOMAIN searches : /\ searches[i] \in Searches /\ searches[i].last # e
                                 /\ SearchOK(searches[i]) /\ NotFoundOK(searches[i])
  BY <1>1, <1>2 DEF TypeOK, NotFoundInv, SearchInv
<1>. QED
  BY <1>3, <1>4, <1>5 DEF NotFoundInv, NotFoundOK

\* SearchKept, for all searches.
LEMMA SearchesKept ==
  ASSUME CInv, ENCLOS' \in Chains, Acyclic(ENCLOS'), UNCHANGED searches,
         Live \subseteq Live', used \ hashed \subseteq used' \ hashed', hashed \subseteq hashed',
         \A e \in Live \ Starts : ENCLOS'[e] = ENCLOS[e],
         \A e \in attached : e \in attached' \/ ENCLOS'[e] = R_BaseEnv
  PROVE  SearchInv'
<1>1. TypeOK /\ EnvsInv /\ GlobalInv /\ SearchInv
  BY DEF CInv
<1>2. \A i \in DOMAIN searches : searches[i] \in Searches /\ SearchOK(searches[i])
  BY <1>1 DEF SearchInv, TypeOK
<1>3. ASSUME NEW h \in Searches, SearchOK(h)
      PROVE  /\ h.from \in Live' /\ h.rho \in Live' \union {R_BaseEnv, R_EmptyEnv}
             /\ h.rho \in Envs => \/ First(ENCLOS', h.from, {h.rho}) = h.rho
                                  \/ h.rho \in attached'
                                  \/ ENCLOS'[h.rho] = R_BaseEnv /\ h.rho \in hashed'
             /\ h.nf # None => h.nf \in used' \ hashed' /\ First(ENCLOS', h.from, {h.nf}) = h.nf
  <2>1. SearchOK(h)'
    BY <1>1, <1>3, SearchKept
  <2>. QED
    BY <2>1 DEF SearchOK
<1>. QED
  BY <1>2, <1>3 DEF SearchInv, SearchOK

\* NewEnvironment, with what its callers give it.
LEMMA NewEnvironmentKeeps ==
  ASSUME CInv, ~Redefines, NEW e \in Fresh, NEW enclos \in Live, NEW frame \in SUBSET Syms,
         NEW bits \in SUBSET AllBits, \A q \in frame : SYMBITS[q] \subseteq bits,
         NewEnvironment(e, enclos, bits, frame),
         hashed' \in {hashed, hashed \union {e}},
         LASTSYMENV' \in [Syms -> used' \union {None}], LASTSYMBINDING' \in [Syms -> Copies],
         UNCHANGED <<attached, active, base, LASTENVNOTFOUND, cache, searches>>
  PROVE  CInv'
<1>1. /\ used' = used \union {e} /\ ENCLOS' = [ENCLOS EXCEPT ![e] = enclos]
      /\ ENVSYMBITS' = [ENVSYMBITS EXCEPT ![e] = bits]
      /\ cells' = [cells EXCEPT ![e] = [q \in Syms |-> IF q \in frame THEN <<0>> ELSE << >>]]
  BY DEF NewEnvironment
<1>2. TypeOK /\ EnvsInv /\ GlobalInv
  BY DEF CInv
<1>3. /\ e \in Envs \ used /\ e \in Frames /\ e \notin Live /\ e \notin Starts
      /\ \A f \in Frames : ENCLOS[f] # e
  BY FreshIs
<1>4. e # R_GlobalEnv /\ enclos # e /\ enclos \in Envs \union {R_GlobalEnv}
  BY <1>2, <1>3 DEF Live, TypeOK
<1>5. ENCLOS \in Chains /\ Acyclic(ENCLOS)
  BY <1>2, EnclosIsChain DEF EnvsInv
<1>6. ENCLOS' \in Chains /\ ENCLOS'[e] = enclos /\ \A f \in Frames \ {e} : ENCLOS'[f] = ENCLOS[f]
  BY <1>1, <1>3, <1>4, <1>5 DEF Chains
<1>7. Acyclic(ENCLOS')
  BY <1>3, <1>4, <1>5, <1>6, AcyclicNew
<1>8. /\ ENVSYMBITS' \in [Frames -> SUBSET AllBits]
      /\ cells' \in [Frames -> [Syms -> Seq(Copies)]]
      /\ \A f \in Frames \ {e} : cells'[f] = cells[f]
      /\ BitsInv' /\ OneBinding'
  BY <1>1, <1>3, <1>4, NewFrame DEF CellsFor
<1>9. TypeOK'
  BY <1>1, <1>2, <1>3, <1>6, <1>8 DEF TypeOK, Chains
<1>10. Live \subseteq Frames /\ Starts \subseteq Live
  BY <1>2 DEF Live, Starts, Frames, TypeOK
<1>11. EnvsInv'
  BY <1>1, <1>2, <1>3, <1>4, <1>6, <1>7, <1>10 DEF EnvsInv, Live, Frames
<1>12. \A t \in Starts : ENCLOS'[t] = ENCLOS[t] /\ cells'[t] = cells[t]
  BY <1>3, <1>6, <1>8, <1>10
<1>13. GlobalInv'
  BY <1>2, <1>12 DEF GlobalInv, Starts
<1>14. CacheInv'
  <2>1. \A q \in Syms : First(ENCLOS', R_GlobalEnv, Binds(cells', base', q))
                          = First(ENCLOS, R_GlobalEnv, Binds(cells, base, q))
    BY <1>2, <1>6, <1>7, <1>12, GlobalSame
  <2>. QED
    BY <1>2, <2>1, CacheKept
<1>15. SearchInv'
  <2>1. Live \subseteq Live' /\ used \ hashed \subseteq used' \ hashed' /\ hashed \subseteq hashed'
    BY <1>1, <1>3 DEF Live
  <2>2. \A f \in Live \ Starts : ENCLOS'[f] = ENCLOS[f]
    BY <1>3, <1>6, <1>10
  <2>. QED
    BY <1>6, <1>7, <2>1, <2>2, SearchesKept
<1>16. NotFoundInv'
  BY <1>8, UnseenKept
<1>. QED
  BY <1>8, <1>9, <1>11, <1>13, <1>14, <1>15, <1>16 DEF CInv

\* NewEnv.
LEMMA NewEnvKeeps ==
  ASSUME CInv, ~Redefines, NewEnv
  PROVE  CInv'
<1>1. PICK e \in Fresh, enclos \in used \union {R_GlobalEnv} :
        NewEnvironment(e, enclos, AllBits, {}) /\ hashed' \in {hashed, hashed \union {e}}
  BY DEF NewEnv
<1>2. UNCHANGED <<attached, active, base, lastFound, LASTENVNOTFOUND, cache, searches>>
  BY DEF NewEnv
<1>3. used \subseteq used'
  BY <1>1 DEF NewEnvironment
<1>4. LASTSYMENV' \in [Syms -> used' \union {None}] /\ LASTSYMBINDING' \in [Syms -> Copies]
  BY <1>2, <1>3 DEF CInv, TypeOK, lastFound
<1>5. enclos \in Live
  BY DEF Live
<1>. QED
  BY <1>1, <1>2, <1>4, <1>5, NewEnvironmentKeeps

\* ApplyClosure.
LEMMA ApplyClosureKeeps ==
  ASSUME CInv, ~Redefines, ApplyClosure
  PROVE  CInv'
<1>1. PICK e \in Fresh, enclos \in used \union {R_GlobalEnv}, formals \in FORMALS :
        \E given \in SUBSET formals :
          /\ NewEnvironment(e, enclos, UNION {SYMBITS[s] : s \in formals}, formals)
          /\ LASTSYMENV' = [s \in Syms |-> IF s \in given THEN e ELSE LASTSYMENV[s]]
          /\ LASTSYMBINDING' = [s \in Syms |-> IF s \in given THEN 0 ELSE LASTSYMBINDING[s]]
  BY DEF ApplyClosure
<1>2. UNCHANGED <<hashed, attached, active, base, LASTENVNOTFOUND, cache, searches>>
  BY DEF ApplyClosure
<1>3. used' = used \union {e}
  BY <1>1 DEF NewEnvironment
<1>4. LASTSYMENV' \in [Syms -> used' \union {None}] /\ LASTSYMBINDING' \in [Syms -> Copies]
  BY <1>1, <1>3 DEF CInv, TypeOK, Copies
<1>5. enclos \in Live /\ formals \in SUBSET Syms
  BY ConstantsAssumption DEF Live
<1>6. /\ UNION {SYMBITS[s] : s \in formals} \in SUBSET AllBits
      /\ \A q \in formals : SYMBITS[q] \subseteq UNION {SYMBITS[s] : s \in formals}
  BY <1>5 DEF AllBits
<1>. QED
  BY <1>1, <1>2, <1>4, <1>5, <1>6, NewEnvironmentKeeps

\* Attach: symbols that the new frame has are flushed from the global cache, and for the
\* others it makes no difference.
LEMMA AttachKeeps ==
  ASSUME CInv, ~Redefines, Attach
  PROVE  CInv'
<1>1. PICK e \in Fresh, t \in {R_GlobalEnv} \union attached, frame \in SUBSET Assigned :
       /\ used' = used \union {e} /\ hashed' = hashed \union {e}
       /\ attached' = attached \union {e}
       /\ ENCLOS' = [ENCLOS EXCEPT ![t] = e, ![e] = ENCLOS[t]]
       /\ ENVSYMBITS' = [ENVSYMBITS EXCEPT ![e] = AllBits]
       /\ cells' = [cells EXCEPT ![e] = [s \in Syms |-> IF s \in frame THEN <<0>> ELSE << >>]]
       /\ \E noted \in {{}, frame} :
            /\ LASTSYMENV' = [s \in Syms |-> IF s \in noted THEN e ELSE LASTSYMENV[s]]
            /\ LASTSYMBINDING' = [s \in Syms |-> IF s \in noted THEN 0 ELSE LASTSYMBINDING[s]]
       /\ cache' = R_FlushGlobalCache(Flushed(e))
  BY DEF Attach
<1>2. UNCHANGED <<active, base, LASTENVNOTFOUND, searches>>
  BY DEF Attach
<1>3. TypeOK /\ EnvsInv /\ GlobalInv
  BY DEF CInv
<1>4. /\ e \in Envs \ used /\ e \in Frames /\ e \notin Live /\ e \notin Starts
      /\ \A f \in Frames : ENCLOS[f] # e
  BY FreshIs
<1>5. Live \subseteq Frames /\ Starts \subseteq Live
  BY <1>3 DEF Live, Starts, Frames, TypeOK
<1>6. t \in Starts /\ t \in Frames /\ t # e /\ e # R_GlobalEnv /\ e # R_BaseEnv
  BY <1>4, <1>5, Distinct DEF Starts
<1>7. ENCLOS \in Chains /\ Acyclic(ENCLOS)
  BY <1>3, EnclosIsChain DEF EnvsInv
<1>8. ENCLOS' \in Chains /\ Acyclic(ENCLOS')
  BY <1>1, <1>4, <1>6, <1>7, AcyclicInserted
<1>9. /\ ENCLOS'[t] = e /\ ENCLOS'[e] = ENCLOS[t]
      /\ \A f \in Frames \ {t, e} : ENCLOS'[f] = ENCLOS[f]
  BY <1>1, <1>4, <1>6, <1>7 DEF Chains
<1>10. /\ ENVSYMBITS' \in [Frames -> SUBSET AllBits]
       /\ cells' \in [Frames -> [Syms -> Seq(Copies)]]
       /\ \A f \in Frames \ {e} : cells'[f] = cells[f]
       /\ BitsInv' /\ OneBinding'
  <2>1. frame \in SUBSET Syms /\ AllBits \in SUBSET AllBits
    BY ConstantsAssumption
  <2>2. \A q \in frame : SYMBITS[q] \subseteq AllBits
    BY <2>1 DEF AllBits
  <2>. QED
    BY <1>1, <1>4, <1>6, <2>1, <2>2, NewFrame DEF CellsFor
<1>11. TypeOK'
  <2>1. cache' \in [Syms -> [env : Frames \union {None, R_BaseEnv, R_EmptyEnv}, copy : Copies]]
    BY <1>1, <1>3, FlushedOnly
  <2>2. ENCLOS' \in [Frames -> Envs \union {R_GlobalEnv, R_BaseEnv}]
    BY <1>8 DEF Chains
  <2>3. LASTSYMENV' \in [Syms -> used' \union {None}] /\ LASTSYMBINDING' \in [Syms -> Copies]
    BY <1>1, <1>3 DEF TypeOK, Copies
  <2>4. used' = used \union {e} /\ hashed' = hashed \union {e} /\ attached' = attached \union {e}
    BY <1>1
  <2>. QED
    BY <1>2, <1>3, <1>4, <1>10, <2>1, <2>2, <2>3, <2>4 DEF TypeOK
<1>12. EnvsInv'
  <2>1. attached' \subseteq hashed' /\ hashed' \subseteq Live' /\ R_GlobalEnv \in hashed'
    BY <1>1, <1>3 DEF EnvsInv, Live
  <2>2. \A f \in Live' : ENCLOS'[f] \in Live' \union {R_BaseEnv}
    <3>1. Live' = Live \union {e}
      BY <1>1 DEF Live
    <3>2. ENCLOS'[t] = e /\ ENCLOS'[e] \in Live \union {R_BaseEnv}
      BY <1>3, <1>5, <1>6, <1>9 DEF EnvsInv
    <3>3. \A f \in Live \ {t} : ENCLOS'[f] \in Live \union {R_BaseEnv}
      BY <1>3, <1>4, <1>5, <1>9 DEF EnvsInv
    <3>. QED
      BY <3>1, <3>2, <3>3
  <2>3. \A f \in Envs \ used' : ENCLOS'[f] = R_BaseEnv
    <3>1. \A f \in Envs \ used' : f \in Frames \ {t, e} /\ f \in Envs \ used
      BY <1>1, <1>5, <1>6, Distinct DEF Live, Frames
    <3>. QED
      BY <1>3, <1>9, <3>1 DEF EnvsInv
  <2>. QED
    BY <1>8, <2>1, <2>2, <2>3 DEF EnvsInv
<1>13. Starts' = Starts \union {e}
  BY <1>1 DEF Starts
<1>14. GlobalInv'
  <2>1. \A u \in Starts' : ENCLOS'[u] \in attached' \union {R_BaseEnv}
    <3>1. ENCLOS'[t] = e /\ ENCLOS'[e] \in attached \union {R_BaseEnv}
      BY <1>3, <1>6, <1>9 DEF GlobalInv
    <3>3. attached' = attached \union {e}
      BY <1>1
    <3>2. \A u \in Starts \ {t} : ENCLOS'[u] \in attached \union {R_BaseEnv}
      BY <1>3, <1>4, <1>5, <1>9 DEF GlobalInv
    <3>. QED
      BY <1>13, <3>1, <3>2, <3>3
  <2>2. \A u, v \in Starts' : ENCLOS'[u] = ENCLOS'[v] /\ ENCLOS'[u] # R_BaseEnv => u = v
    <3>1. \A u \in Starts \ {t} : ENCLOS'[u] = ENCLOS[u] /\ ENCLOS[u] # e /\ u # e
      BY <1>4, <1>5, <1>9
    <3>2. ENCLOS[t] # e
      BY <1>4, <1>6
    <3>. QED
      BY <1>3, <1>6, <1>9, <1>13, <3>1, <3>2 DEF GlobalInv
  <2>3. ASSUME NEW P \in SUBSET attached', P # {}
        PROVE  \E u \in Starts' \ P : ENCLOS'[u] \in P
    <3>1. CASE e \in P /\ t \notin P
      BY <1>6, <1>9, <1>13, <3>1
    <3>2. CASE e \in P /\ t \in P
      <4>1. P \ {e} \in SUBSET attached /\ P \ {e} # {}
        BY <1>1, <1>6, <3>2
      <4>2. PICK u \in Starts \ (P \ {e}) : ENCLOS[u] \in P \ {e}
        BY <1>3, <4>1 DEF GlobalInv
      <4>3. u # e /\ u # t /\ u \in Frames
        BY <1>4, <1>5, <1>6, <3>2, <4>2
      <4>. QED
        BY <1>9, <1>13, <4>2, <4>3
    <3>3. CASE e \notin P
      <4>1. P \in SUBSET attached
        BY <1>1, <3>3
      <4>2. PICK u \in Starts \ P : ENCLOS[u] \in P
        BY <1>3, <2>3, <4>1 DEF GlobalInv
      <4>3. CASE u = t
        BY <1>9, <1>13, <3>3, <4>2, <4>3
      <4>4. CASE u # t
        <5>1. u \in Frames \ {t, e}
          BY <1>4, <1>5, <4>2, <4>4
        <5>. QED
          BY <1>9, <1>13, <4>2, <5>1
      <4>. QED
        BY <4>3, <4>4
    <3>. QED
      BY <3>1, <3>2, <3>3
  <2>. QED
    BY <2>1, <2>2, <2>3 DEF GlobalInv
<1>15. CacheInv'
  <2>1. ASSUME NEW q \in Syms, cache'[q] # NoCell
        PROVE  /\ cache'[q] = cache[q]
               /\ First(ENCLOS', R_GlobalEnv, Binds(cells', base', q))
                    = First(ENCLOS, R_GlobalEnv, Binds(cells, base, q))
    <3>. DEFINE C == Starts \union {R_BaseEnv, R_EmptyEnv}
                S == Binds(cells, base, q)
                T == Binds(cells', base', q)
    <3>1. cache'[q] = cache[q] /\ q \notin Flushed(e)
      BY <1>1, <1>3, <2>1, FlushedOnly
    <3>2. cells'[e][q] = << >>
      BY <3>1 DEF Flushed
    <3>3. Closed(ENCLOS, C)
      BY <1>3, StartsClosed
    <3>4. R_GlobalEnv \in C /\ e \notin C
      BY <1>4, Distinct DEF Starts
    <3>5. e \notin T
      BY <3>2, <1>4, Distinct DEF Binds
    <3>6. SameIn(C, S, T)
      BY <1>2, <1>4, <1>5, <1>10, Distinct DEF Binds, SameIn
    <3>7. Inserted(ENCLOS, ENCLOS', t, e)
      BY <1>4, <1>6, <1>9 DEF Inserted
    <3>. HIDE DEF C, S, T
    <3>8. First(ENCLOS', R_GlobalEnv, T) = First(ENCLOS, R_GlobalEnv, S)
      BY <1>7, <1>8, <3>3, <3>4, <3>5, <3>6, <3>7, FirstInserted
    <3>. QED
      BY <3>1, <3>8 DEF S, T
  <2>. QED
    BY <1>2, <2>1, CacheKept
<1>16. SearchInv'
  <2>1. Live \subseteq Live' /\ used \ hashed \subseteq used' \ hashed' /\ hashed \subseteq hashed'
    BY <1>1, <1>4 DEF Live
  <2>2. \A f \in Live \ Starts : ENCLOS'[f] = ENCLOS[f]
    BY <1>4, <1>5, <1>6, <1>9
  <2>3. attached \subseteq attached'
    BY <1>1
  <2>. QED
    BY <1>2, <1>8, <2>1, <2>2, <2>3, SearchesKept
<1>17. NotFoundInv'
  BY <1>1, <1>2, <1>10, UnseenKept
<1>. QED
  BY <1>10, <1>11, <1>12, <1>14, <1>15, <1>16, <1>17 DEF CInv

\* Detach.
LEMMA DetachKeeps ==
  ASSUME CInv, Detach
  PROVE  CInv'
<1>1. PICK t \in {R_GlobalEnv} \union attached :
       /\ ENCLOS[t] # R_BaseEnv
       /\ ENCLOS' = [ENCLOS EXCEPT ![t] = ENCLOS[ENCLOS[t]], ![ENCLOS[t]] = R_BaseEnv]
       /\ attached' = attached \ {ENCLOS[t]}
       /\ UNCHANGED bindings
       /\ cache' = R_FlushGlobalCache(Flushed(ENCLOS[t]))
  BY DEF Detach
<1>2. /\ UNCHANGED <<used, hashed, lastFound, LASTENVNOTFOUND, searches>>
      /\ UNCHANGED <<ENVSYMBITS, cells, active, base>>
  BY <1>1 DEF Detach, bindings
<1>3. TypeOK /\ EnvsInv /\ GlobalInv
  BY DEF CInv
<1>4. PICK d \in attached : d = ENCLOS[t]
  BY <1>1, <1>3 DEF GlobalInv, Starts
<1>5. Live \subseteq Frames /\ Starts \subseteq Live /\ t \in Starts /\ d \in Starts
  BY <1>3, <1>4 DEF Live, Starts, Frames, TypeOK
<1>6. ENCLOS \in Chains /\ Acyclic(ENCLOS)
  BY <1>3, EnclosIsChain DEF EnvsInv
<1>7. \A f \in Frames : ENCLOS[f] # f
  <2>1. ASSUME NEW f \in Frames
        PROVE  ENCLOS[f] # f
    <3>1. {f} \in SUBSET Frames /\ {f} # {}
      OBVIOUS
    <3>. QED
      BY <1>6, <3>1 DEF Acyclic
  <2>. QED
    BY <2>1
<1>8. t \in Frames /\ d \in Frames /\ t # d /\ ENCLOS[d] # d
  BY <1>4, <1>5, <1>7
<1>9. ENCLOS' = [ENCLOS EXCEPT ![t] = ENCLOS[d], ![d] = R_BaseEnv]
  BY <1>1, <1>4
<1>10. ENCLOS' \in Chains /\ Acyclic(ENCLOS')
  BY <1>4, <1>6, <1>8, <1>9, AcyclicRemoved
<1>11. /\ ENCLOS'[t] = ENCLOS[d] /\ ENCLOS'[d] = R_BaseEnv
       /\ \A f \in Frames \ {t, d} : ENCLOS'[f] = ENCLOS[f]
  BY <1>6, <1>8, <1>9 DEF Chains
<1>12. d # R_GlobalEnv /\ d \in Envs
  BY <1>3, <1>4, Distinct DEF TypeOK
<1>13. Starts' = Starts \ {d} /\ attached' = attached \ {d}
  BY <1>1, <1>4, <1>12 DEF Starts
<1>14. TypeOK'
  <2>1. cache' \in [Syms -> [env : Frames \union {None, R_BaseEnv, R_EmptyEnv}, copy : Copies]]
    BY <1>1, <1>3, FlushedOnly
  <2>2. ENCLOS' \in [Frames -> Envs \union {R_GlobalEnv, R_BaseEnv}]
    BY <1>10 DEF Chains
  <2>. QED
    BY <1>2, <1>3, <1>13, <2>1, <2>2 DEF TypeOK, lastFound
<1>15. EnvsInv'
  <2>1. attached' \subseteq hashed' /\ hashed' \subseteq Live' /\ R_GlobalEnv \in hashed'
    BY <1>2, <1>3, <1>13 DEF EnvsInv, Live
  <2>2. \A f \in Live' : ENCLOS'[f] \in Live' \union {R_BaseEnv}
    BY <1>2, <1>3, <1>5, <1>11 DEF EnvsInv, Live
  <2>3. \A f \in Envs \ used' : ENCLOS'[f] = R_BaseEnv
    <3>1. \A f \in Envs \ used' : f \in Frames \ {t, d} /\ f \in Envs \ used
      BY <1>2, <1>5, Distinct DEF Live, Frames
    <3>. QED
      BY <1>3, <1>11, <3>1 DEF EnvsInv
  <2>. QED
    BY <1>10, <2>1, <2>2, <2>3 DEF EnvsInv
<1>16. \A u \in Starts \ {t} : ENCLOS[u] # d
  BY <1>1, <1>3, <1>4, <1>5 DEF GlobalInv
<1>17. GlobalInv'
  <2>1. \A u \in Starts' : ENCLOS'[u] \in attached' \union {R_BaseEnv}
    BY <1>3, <1>5, <1>8, <1>11, <1>13, <1>16 DEF GlobalInv
  <2>2. \A u, v \in Starts' : ENCLOS'[u] = ENCLOS'[v] /\ ENCLOS'[u] # R_BaseEnv => u = v
    <3>1. \A u \in Starts \ {t, d} : ENCLOS'[u] = ENCLOS[u]
      BY <1>5, <1>11
    <3>. QED
      BY <1>3, <1>5, <1>8, <1>11, <1>13, <3>1 DEF GlobalInv
  <2>3. ASSUME NEW P \in SUBSET attached', P # {}
        PROVE  \E u \in Starts' \ P : ENCLOS'[u] \in P
    <3>1. P \in SUBSET attached /\ d \notin P
      BY <1>13
    <3>2. PICK u \in Starts \ P : ENCLOS[u] \in P
      BY <1>3, <2>3, <3>1 DEF GlobalInv
    <3>3. u # t
      BY <1>4, <3>1, <3>2
    <3>4. CASE u # d
      <4>1. u \in Frames \ {t, d}
        BY <1>5, <3>2, <3>3, <3>4
      <4>. QED
        BY <1>11, <1>13, <3>2, <4>1
    <3>5. CASE u = d /\ t \notin P
      BY <1>5, <1>8, <1>11, <1>13, <3>2, <3>5
    <3>6. CASE u = d /\ t \in P
      <4>1. P \union {d} \in SUBSET attached /\ P \union {d} # {}
        BY <1>4, <3>1
      <4>2. PICK v \in Starts \ (P \union {d}) : ENCLOS[v] \in P \union {d}
        BY <1>3, <4>1 DEF GlobalInv
      <4>3. v # t /\ v # d /\ ENCLOS[v] # d /\ v \in Frames
        BY <1>5, <1>16, <3>6, <4>2
      <4>. QED
        BY <1>11, <1>13, <4>2, <4>3
    <3>. QED
      BY <3>4, <3>5, <3>6
  <2>. QED
    BY <2>1, <2>2, <2>3 DEF GlobalInv
<1>18. CacheInv'
  <2>1. ASSUME NEW q \in Syms, cache'[q] # NoCell
        PROVE  /\ cache'[q] = cache[q]
               /\ First(ENCLOS', R_GlobalEnv, Binds(cells', base', q))
                    = First(ENCLOS, R_GlobalEnv, Binds(cells, base, q))
    <3>. DEFINE C == (Starts \ {d}) \union {R_BaseEnv, R_EmptyEnv}
                S == Binds(cells, base, q)
                T == Binds(cells', base', q)
    <3>1. cache'[q] = cache[q] /\ q \notin Flushed(d)
      BY <1>1, <1>3, <1>4, <2>1, FlushedOnly
    <3>2. cells[d][q] = << >>
      BY <1>2, <3>1 DEF Flushed
    <3>3. SameIn(C, T, S)
      BY <1>2 DEF SameIn
    <3>4. R_GlobalEnv \in C /\ d \notin C
      BY <1>8, <1>12, Distinct DEF Starts
    <3>5. d \notin S
      BY <1>8, <3>2, Distinct DEF Binds
    <3>6. C \subseteq All
      BY <1>5 DEF All
    <3>7. Closed(ENCLOS', C)
      <4>1. \A f \in Starts \ {d} : ENCLOS'[f] \in (Starts \ {d}) \union {R_BaseEnv}
        BY <1>13, <1>17 DEF GlobalInv, Starts
      <4>. QED
        BY <1>5, <3>6, <4>1, Distinct DEF Up, Closed
    <3>8. Inserted(ENCLOS', ENCLOS, t, d)
      BY <1>4, <1>8, <1>11 DEF Inserted
    <3>. HIDE DEF C, S, T
    <3>9. First(ENCLOS', R_GlobalEnv, T) = First(ENCLOS, R_GlobalEnv, S)
      BY <1>6, <1>10, <3>3, <3>4, <3>5, <3>7, <3>8, FirstInserted
    <3>. QED
      BY <3>1, <3>9 DEF S, T
  <2>. QED
    BY <1>2, <2>1, CacheKept
<1>19. SearchInv'
  <2>1. Live \subseteq Live' /\ used \ hashed \subseteq used' \ hashed' /\ hashed \subseteq hashed'
    BY <1>2 DEF Live
  <2>2. \A f \in Live \ Starts : ENCLOS'[f] = ENCLOS[f]
    BY <1>5, <1>11
  <2>3. \A f \in attached : f \in attached' \/ ENCLOS'[f] = R_BaseEnv
    BY <1>11, <1>13
  <2>. QED
    BY <1>2, <1>10, <2>1, <2>2, <2>3, SearchesKept
<1>20. BitsInv' /\ OneBinding' /\ NotFoundInv'
  BY <1>2 DEF CInv, BitsInv, OneBinding, NotFoundInv, NotFoundOK
<1>. QED
  BY <1>14, <1>15, <1>17, <1>18, <1>19, <1>20 DEF CInv

\* What is attached is on the chain from R_GlobalEnv, so a collection keeps it.
LEMMA AttachedReached ==
  ASSUME TypeOK, EnvsInv, GlobalInv, NEW a \in attached
  PROVE  First(ENCLOS, R_GlobalEnv, {a}) = a
<1>. DEFINE P == {x \in attached : First(ENCLOS, R_GlobalEnv, {x}) # x}
<1>1. ENCLOS \in Chains /\ Acyclic(ENCLOS) /\ R_GlobalEnv \in All
  BY EnclosIsChain, Distinct DEF EnvsInv, All
<1>2. SUFFICES ASSUME P # {} PROVE FALSE
  OBVIOUS
<1>3. PICK t \in Starts \ P : ENCLOS[t] \in P
  BY <1>2 DEF GlobalInv
<1>4. t \in Frames
  BY <1>3 DEF Starts, Frames, TypeOK
<1>5. First(ENCLOS, R_GlobalEnv, {t}) = t
  <2>1. CASE t = R_GlobalEnv
    BY <1>1, <2>1, FirstStops
  <2>2. CASE t # R_GlobalEnv
    BY <1>3, <2>2 DEF Starts
  <2>. QED
    BY <2>1, <2>2
<1>6. First(ENCLOS, R_GlobalEnv, {ENCLOS[t]}) = ENCLOS[t]
  BY <1>1, <1>4, <1>5, WayOn DEF Up
<1>. QED
  BY <1>3, <1>6

\* Collect: what the searches hold on to is kept, and nothing is noted any more.
LEMMA CollectKeeps ==
  ASSUME CInv, Collect
  PROVE  CInv'
<1>1. PICK kept \in SUBSET used :
       /\ Held \subseteq kept
       /\ \A e \in kept : ENCLOS[e] \in kept \union {R_GlobalEnv, R_BaseEnv}
       /\ used' = kept /\ hashed' = hashed \intersect (kept \union {R_GlobalEnv})
       /\ ENCLOS' = [e \in Frames |-> IF e \in Envs \ kept THEN R_BaseEnv ELSE ENCLOS[e]]
       /\ ENVSYMBITS' = [e \in Frames |-> IF e \in Envs \ kept THEN AllBits
                                          ELSE ENVSYMBITS[e]]
       /\ cells' = [e \in Frames |-> IF e \in Envs \ kept THEN [s \in Syms |-> << >>]
                                     ELSE cells[e]]
       /\ active' = {c \in active : c[1] \in kept \union {R_GlobalEnv}}
       /\ LASTSYMENV' = [s \in Syms |-> IF Forgotten(LASTSYMENV[s], kept) THEN None
                                        ELSE LASTSYMENV[s]]
       /\ LASTENVNOTFOUND' = [s \in Syms |-> IF Forgotten(LASTENVNOTFOUND[s], kept) THEN None
                                             ELSE LASTENVNOTFOUND[s]]
  BY DEF Collect
<1>2. /\ LASTSYMBINDING' = [s \in Syms |-> IF LASTSYMENV'[s] = None THEN 0
                                           ELSE LASTSYMBINDING[s]]
      /\ UNCHANGED <<attached, base, cache, searches>>
  BY DEF Collect
<1>3. TypeOK /\ EnvsInv /\ GlobalInv /\ SearchInv /\ NotFoundInv /\ BitsInv /\ OneBinding
  BY DEF CInv
<1>4. ENCLOS \in Chains /\ Acyclic(ENCLOS)
  BY <1>3, EnclosIsChain DEF EnvsInv
<1>5. /\ \A s \in Syms : LASTSYMENV'[s] = None /\ LASTENVNOTFOUND'[s] = None
      /\ LASTSYMENV' \in [Syms -> kept \union {None}]
      /\ LASTENVNOTFOUND' \in [Syms -> kept \union {None}]
      /\ LASTSYMBINDING' \in [Syms -> Copies]
  BY <1>1, <1>2 DEF Forgotten, Copies
<1>6. \A i \in DOMAIN searches, e \in used :
        /\ First(ENCLOS, searches[i].from, {e}) = e => e \in kept
        /\ First(ENCLOS, searches[i].rho, {e}) = e => e \in kept
  <2>1. \A e \in Held : e \in kept
    BY <1>1
  <2>2. ASSUME NEW i \in DOMAIN searches, NEW e \in used,
               NEW rho \in {searches[i].from, searches[i].rho}, Encloses(e, rho)
        PROVE  e \in Held
    <3>1. rho \in {R_GlobalEnv} \union UNION {{searches[j].from, searches[j].rho} :
                                             j \in DOMAIN searches}
      BY <2>2
    <3>. QED
      BY <2>2, <3>1 DEF Held
  <2>. QED
    BY <2>1, <2>2, EnclosesIs
<1>7. attached \subseteq kept
  <2>1. \A a \in attached : Encloses(a, R_GlobalEnv)
    BY <1>3, AttachedReached, EnclosesIs
  <2>2. attached \subseteq Held
    BY <1>3, <2>1 DEF Held, TypeOK
  <2>. QED
    BY <1>1, <2>2
<1>. DEFINE G == kept \union {R_GlobalEnv}
<1>8. G \subseteq Live /\ Live \subseteq Frames /\ Starts \subseteq G /\ Live' = G
  BY <1>1, <1>3, <1>7 DEF Live, Starts, Frames, TypeOK
<1>9. \A e \in G : e \in Frames /\ e \notin Envs \ kept
  BY <1>8, Distinct
<1>10. \A e \in G : ENCLOS'[e] = ENCLOS[e] /\ cells'[e] = cells[e]
  BY <1>1, <1>9
<1>11. \A e \in Frames : ENCLOS'[e] = R_BaseEnv \/ ENCLOS'[e] = ENCLOS[e]
  BY <1>1
<1>12. ENCLOS' \in Chains
  BY <1>1, <1>4 DEF Chains
<1>13. Acyclic(ENCLOS')
  BY <1>4, <1>11, <1>12, AcyclicCut
<1>14. \A e \in G : ENCLOS[e] \in G \union {R_BaseEnv}
  <2>1. ENCLOS[R_GlobalEnv] \in attached \union {R_BaseEnv}
    BY <1>3 DEF GlobalInv, Starts
  <2>. QED
    BY <1>1, <1>7, <2>1
<1>15. /\ cells' \in [Frames -> [Syms -> Seq(Copies)]]
       /\ \A e \in Frames, s \in Syms : cells'[e][s] = cells[e][s] \/ cells'[e][s] = << >>
  <2>1. cells \in [Frames -> [Syms -> Seq(Copies)]]
    BY <1>3 DEF TypeOK
  <2>2. [s \in Syms |-> << >>] \in [Syms -> Seq(Copies)]
    OBVIOUS
  <2>. QED
    BY <1>1, <2>1, <2>2
<1>16. TypeOK'
  <2>1. ENVSYMBITS' \in [Frames -> SUBSET AllBits]
    BY <1>1, <1>3 DEF TypeOK
  <2>2. ENCLOS' \in [Frames -> Envs \union {R_GlobalEnv, R_BaseEnv}]
    BY <1>12 DEF Chains
  <2>. QED
    BY <1>1, <1>2, <1>3, <1>5, <1>7, <1>15, <2>1, <2>2 DEF TypeOK
<1>17. EnvsInv'
  <2>1. attached' \subseteq hashed' /\ hashed' \subseteq Live' /\ R_GlobalEnv \in hashed'
    BY <1>1, <1>2, <1>3, <1>7, <1>8 DEF EnvsInv
  <2>2. \A f \in Live' : ENCLOS'[f] \in Live' \union {R_BaseEnv}
    BY <1>8, <1>10, <1>14
  <2>3. \A f \in Envs \ used' : ENCLOS'[f] = R_BaseEnv
    BY <1>1 DEF Frames
  <2>. QED
    BY <1>13, <2>1, <2>2, <2>3 DEF EnvsInv
<1>18. GlobalInv'
  BY <1>2, <1>3, <1>8, <1>10 DEF GlobalInv, Starts
<1>19. BitsInv'
  <2>1. ENVSYMBITS'[R_GlobalEnv] = AllBits
    BY <1>1, <1>3, <1>9, Distinct DEF BitsInv
  <2>2. \A e \in Frames, s \in Syms : cells'[e][s] # << >> =>
          e \notin Envs \ kept /\ cells[e][s] # << >>
    BY <1>1
  <2>3. \A e \in Frames : e \notin Envs \ kept => ENVSYMBITS'[e] = ENVSYMBITS[e]
    BY <1>1
  <2>. QED
    BY <1>3, <2>1, <2>2, <2>3 DEF BitsInv
<1>20. CacheInv'
  <2>1. \A q \in Syms : First(ENCLOS', R_GlobalEnv, Binds(cells', base', q))
                          = First(ENCLOS, R_GlobalEnv, Binds(cells, base, q))
    BY <1>2, <1>3, <1>8, <1>10, <1>12, <1>13, GlobalSame
  <2>. QED
    BY <1>2, <2>1, CacheKept
<1>21. SearchInv'
  <2>. DEFINE C == {R_BaseEnv, R_EmptyEnv}
  <2>1. Closed(ENCLOS, C)
    BY Distinct DEF All, Up, Closed
  <2>2. \A f \in G : ENCLOS'[f] = ENCLOS[f] /\ ENCLOS[f] \in G \union C
    BY <1>10, <1>14
  <2>3. G \in SUBSET Frames
    BY <1>8
  <2>. HIDE DEF C, G
  <2>4. \A rho \in G \union C, n \in All :
          n # R_EmptyEnv /\ n \notin C /\ First(ENCLOS, rho, {n}) = n
            => First(ENCLOS', rho, {n}) = n
    BY <1>4, <1>12, <1>13, <2>1, <2>2, <2>3, WayKept
  <2>. USE DEF C, G
  <2>5. ASSUME NEW h \in Searches, SearchOK(h),
               \A e \in used : /\ First(ENCLOS, h.from, {e}) = e => e \in kept
                               /\ First(ENCLOS, h.rho, {e}) = e => e \in kept
        PROVE  /\ h.from \in Live' /\ h.rho \in Live' \union {R_BaseEnv, R_EmptyEnv}
               /\ h.rho \in Envs => \/ First(ENCLOS', h.from, {h.rho}) = h.rho
                                    \/ h.rho \in attached'
                                    \/ ENCLOS'[h.rho] = R_BaseEnv /\ h.rho \in hashed'
               /\ h.nf # None =>
                    h.nf \in used' \ hashed' /\ First(ENCLOS', h.from, {h.nf}) = h.nf
    <3>1. \A e \in Envs : e \in All /\ e # R_EmptyEnv /\ e \notin C
      BY Distinct DEF All, Frames
    <3>2. \A e \in used : e \in All /\ First(ENCLOS, e, {e}) = e
      BY <1>3, <1>4, <3>1, FirstStops DEF TypeOK
    <3>3. h.from \in G
      BY <2>5, <3>2 DEF SearchOK, Live
    <3>4. h.rho \in G \union {R_BaseEnv, R_EmptyEnv}
      BY <2>5, <3>2 DEF SearchOK, Live
    <3>5. h.rho \in Envs => h.rho \in kept
      BY <3>4, Distinct DEF Frames
    <3>6. h.rho \in Envs => \/ First(ENCLOS', h.from, {h.rho}) = h.rho
                            \/ h.rho \in attached'
                            \/ ENCLOS'[h.rho] = R_BaseEnv /\ h.rho \in hashed'
      <4>1. CASE First(ENCLOS, h.from, {h.rho}) = h.rho
        BY <2>4, <3>1, <3>3, <4>1
      <4>2. CASE h.rho \in attached
        BY <1>2, <4>2
      <4>3. CASE ENCLOS[h.rho] = R_BaseEnv /\ h.rho \in hashed
        BY <1>1, <1>10, <3>5, <4>3
      <4>. QED
        BY <2>5, <4>1, <4>2, <4>3 DEF SearchOK
    <3>7. h.nf # None => h.nf \in used' \ hashed' /\ First(ENCLOS', h.from, {h.nf}) = h.nf
      <4>1. SUFFICES ASSUME h.nf # None
                     PROVE  h.nf \in used' \ hashed' /\ First(ENCLOS', h.from, {h.nf}) = h.nf
        OBVIOUS
      <4>2. h.nf \in used \ hashed /\ First(ENCLOS, h.from, {h.nf}) = h.nf
        BY <2>5, <4>1 DEF SearchOK
      <4>3. h.nf \in kept /\ h.nf \in Envs
        BY <1>3, <2>5, <4>2 DEF TypeOK
      <4>. QED
        BY <1>1, <2>4, <3>1, <3>3, <4>2, <4>3
    <3>. QED
      BY <1>8, <3>3, <3>4, <3>6, <3>7
  <2>6. \A i \in DOMAIN searches : searches[i] \in Searches /\ SearchOK(searches[i])
    BY <1>3 DEF SearchInv, TypeOK
  <2>. HIDE DEF C, G
  <2>. QED
    BY <1>2, <1>6, <2>5, <2>6 DEF SearchInv, SearchOK
<1>22. NotFoundInv'
  <2>1. ASSUME NEW h \in Searches, NotFoundOK(h)
        PROVE  /\ h.last # None => h.last \notin hashed' /\ cells'[h.last][h.sym] = << >>
               /\ h.nf # None => cells'[h.nf][h.sym] = << >>
    BY <1>1, <1>15, <2>1 DEF NotFoundOK, Searches, Frames
  <2>2. \A i \in DOMAIN searches : searches[i] \in Searches /\ NotFoundOK(searches[i])
    BY <1>3 DEF NotFoundInv, TypeOK
  <2>. QED
    BY <1>2, <1>5, <2>1, <2>2 DEF NotFoundInv, NotFoundOK
<1>23. OneBinding'
  <2>1. Len(<< >>) <= 1
    OBVIOUS
  <2>. QED
    BY <1>3, <1>15, <2>1 DEF OneBinding
<1>. QED
  BY <1>16, <1>17, <1>18, <1>19, <1>20, <1>21, <1>22, <1>23 DEF CInv

-----------------------------------------------------------------------------
(* The theorems.                                                           *)

\* The invariant holds at first, ...
LEMMA InitHolds ==
  ASSUME Init
  PROVE  CInv
<1>. USE DEF Init
<1>1. TypeOK
  <2>1. searches \in Seq(Searches) /\ [s \in Syms |-> << >>] \in [Syms -> Seq(Copies)]
    OBVIOUS
  <2>2. cells \in [Frames -> [Syms -> Seq(Copies)]]
    BY <2>1
  <2>3. cache \in [Syms -> [env : Frames \union {None, R_BaseEnv, R_EmptyEnv}, copy : Copies]]
    BY DEF NoCell, Copies
  <2>. QED
    BY <2>1, <2>2, <2>3, Distinct DEF TypeOK, Copies
<1>2. EnvsInv
  <2>1. Acyclic(ENCLOS)
    BY Distinct DEF Acyclic
  <2>. QED
    BY <2>1, Distinct DEF EnvsInv, Live, Frames
<1>3. GlobalInv
  BY Distinct DEF GlobalInv, Starts
<1>4. BitsInv
  BY Distinct DEF BitsInv
<1>5. CacheInv
  BY DEF CacheInv
<1>6. SearchInv /\ NotFoundInv
  BY DEF SearchInv, NotFoundInv
<1>7. OneBinding
  <2>1. Len(<< >>) <= 1
    OBVIOUS
  <2>. QED
    BY <2>1 DEF OneBinding
<1>. QED
  BY <1>1, <1>2, <1>3, <1>4, <1>5, <1>6, <1>7 DEF CInv

\* ... when nothing happens, ...
LEMMA StutterKeeps ==
  ASSUME CInv, UNCHANGED vars
  PROVE  CInv'
<1>1. searches \in Seq(Searches)
  BY DEF CInv, TypeOK
<1>2. LASTSYMENV \in [Syms -> used \union {None}] /\ LASTSYMBINDING \in [Syms -> Copies]
  BY DEF CInv, TypeOK
<1>. QED
  BY <1>1, <1>2, ScanStep DEF vars, lastFound

\* ... and after every step.
LEMMA NextKeeps ==
  ASSUME CInv, ~Redefines, [Next]_vars
  PROVE  CInv'
  BY StartSearchKeeps, PassFrameKeeps, ScanFrameKeeps, ScanGlobalKeeps, ScanBaseKeeps,
     SearchFailsKeeps, EvaluatedKeeps, FindVarInFrameKeeps, NewEnvKeeps, ApplyClosureKeeps,
     AssignKeeps, NonlocalKeeps, MakeActiveKeeps, MakeActiveInBaseKeeps, RemoveVariableKeeps,
     AttachKeeps, DetachKeeps, CollectKeeps, StutterKeeps DEF Next

\* In every state of every run in which no search binds its own symbol, the chains of
\* environments, the attached ones among them, the symbits, the notes of the last frames
\* and the global cache agree with the bindings there are (envir.c, 643-655, 1398-1470).
THEOREM Consistent == ~Redefines => (Spec => []CInv)
<1>. SUFFICES ASSUME ~Redefines PROVE Spec => []CInv
  OBVIOUS
<1>1. Init => CInv
  BY InitHolds
<1>2. CInv /\ [Next]_vars => CInv'
  BY NextKeeps
<1>. QED
  BY <1>1, <1>2, PTL DEF Spec

\* Every variable keeps its type.
THEOREM TypesKept == ~Redefines => (Spec => []TypeOK)
<1>. SUFFICES ASSUME ~Redefines PROVE Spec => []TypeOK
  OBVIOUS
<1>1. CInv => TypeOK
  BY DEF CInv
<1>. QED
  BY <1>1, Consistent, PTL

\* set_var_in_frame never makes a second binding of a symbol in a frame, though it may
\* trust LASTENVNOTFOUND that there is none, if no search binds its own symbol.
THEOREM BoundOnce == ~Redefines => (Spec => []OneBinding)
<1>. SUFFICES ASSUME ~Redefines PROVE Spec => []OneBinding
  OBVIOUS
<1>1. CInv => OneBinding
  BY DEF CInv
<1>. QED
  BY <1>1, Consistent, PTL

\* What findGlobalVar finds by the cache is where the symbol is, or else the symbol is an
\* active binding in the base environment, and the cache has it as not found.
LEMMA GloballyIs ==
  ASSUME CInv, NEW s \in Syms
  PROVE  \/ Globally(s) = First(ENCLOS, R_GlobalEnv, Binds(cells, base, s))
         \/ /\ base[s] = "active" /\ cache[s] = NotFound /\ Globally(s) = R_EmptyEnv
            /\ First(ENCLOS, R_GlobalEnv, Binds(cells, base, s)) = R_BaseEnv
<1>1. CASE Cached(s)
  <2>1. Globally(s) = cache[s].env /\ NotFound.env = R_EmptyEnv
    BY <1>1 DEF Globally, NotFound
  <2>. QED
    BY <1>1, <2>1 DEF Cached, CInv, CacheInv
<1>2. CASE ~Cached(s)
  BY <1>2, LookupIs DEF Globally
<1>. QED
  BY <1>1, <1>2

\* The invariant makes findVar find a variable where it is.
LEMMA FoundWhereItIs ==
  ASSUME CInv
  PROVE  FoundFrom
<1>1. SUFFICES ASSUME NEW s \in Assigned, NEW rho \in used \union {R_GlobalEnv}
               PROVE  \/ FoundByCaches(s, rho) = Lookup(s, rho)
                      \/ /\ base[s] = "active" /\ cache[s] = NotFound
                         /\ Lookup(s, rho) = R_BaseEnv /\ FoundByCaches(s, rho) = R_EmptyEnv
  BY DEF FoundFrom
<1>2. TypeOK /\ EnvsInv /\ BitsInv /\ NotFoundInv /\ s \in Syms
  BY ConstantsAssumption DEF CInv
<1>3. ENCLOS \in Chains /\ Acyclic(ENCLOS)
  BY <1>2, EnclosIsChain DEF EnvsInv
<1>4. rho \in All /\ R_GlobalEnv \in All
  BY <1>2, Distinct DEF All, Frames, TypeOK
<1>. DEFINE S == Binds(cells, base, s)
            T == S \union {R_GlobalEnv}
            M == MayHave(s)
            e == First(ENCLOS, First(ENCLOS, rho, M), T)
<1>5. {f \in Frames : f = R_GlobalEnv \/ InFrame(s, f) # << >>}
        \union (IF BoundIn(R_BaseEnv, s) THEN {R_BaseEnv} ELSE {}) = T
  BY <1>2, InFrameIs, Distinct DEF Binds, BoundIn
<1>6. S \subseteq T /\ T \subseteq M
  BY <1>2, Distinct DEF MayHave, BitsInv, Binds, AllBits
<1>7. FoundByCaches(s, rho) = IF e = R_GlobalEnv THEN Globally(s) ELSE e
  BY <1>5, FirstOnIsFirst DEF FoundByCaches, SKIP_USING_SYMBITS
<1>8. /\ Lookup(s, rho) = First(ENCLOS, rho, S)
      /\ \/ Globally(s) = First(ENCLOS, R_GlobalEnv, S)
         \/ /\ base[s] = "active" /\ cache[s] = NotFound /\ Globally(s) = R_EmptyEnv
            /\ First(ENCLOS, R_GlobalEnv, S) = R_BaseEnv
  BY <1>2, LookupIs, GloballyIs
<1>. HIDE DEF M
<1>9. e = First(ENCLOS, rho, T)
  <2>. HIDE DEF T
  <2>. QED
    BY <1>3, <1>4, <1>6, FirstSkips
<1>10. First(ENCLOS, e, S) = First(ENCLOS, rho, S) /\ e \in All /\ e \in T \union {R_EmptyEnv}
  <2>. HIDE DEF S, T, e
  <2>. QED
    BY <1>3, <1>4, <1>6, <1>9, FirstSkips, FirstFound
<1>. HIDE DEF e
<1>11. CASE e = R_GlobalEnv
  BY <1>7, <1>8, <1>10, <1>11
<1>12. CASE e # R_GlobalEnv
  <2>1. e \in S \union {R_EmptyEnv}
    BY <1>10, <1>12
  <2>. HIDE DEF S
  <2>2. First(ENCLOS, e, S) = e
    BY <1>3, <1>10, <2>1, FirstStops
  <2>. USE DEF S
  <2>. QED
    BY <1>7, <1>8, <1>10, <1>12, <2>2
<1>. QED
  BY <1>11, <1>12

\* From any environment findVar finds a variable where it is, whatever has been searched
\* for, bound, removed, attached or freed before, on two conditions: no search binds its
\* own symbol (~Redefines); and it is not an active binding in the base environment that
\* the global cache has as not found, which from R_GlobalEnv on findVar does not find.
THEOREM FoundAnywhere == ~Redefines => (Spec => []FoundFrom)
<1>. SUFFICES ASSUME ~Redefines PROVE Spec => []FoundFrom
  OBVIOUS
<1>1. CInv => FoundFrom
  BY FoundWhereItIs
<1>. QED
  BY <1>1, Consistent, PTL

\* A step that passes a frame passes one without the symbol.
LEMMA PassingIsRight ==
  ASSUME CInv, [Next]_vars
  PROVE  [Scanning /\ Len(searches') = Len(searches) /\ Head(searches').scanning
            /\ Top.rho \in Envs => ~BoundIn(Top.rho, Top.sym)]_vars
<1>1. SUFFICES ASSUME Next, Scanning, Len(searches') = Len(searches), Head(searches').scanning,
                      Top.rho \in Envs
               PROVE  ~BoundIn(Top.rho, Top.sym)
  OBVIOUS
<1>2. searches # << >> /\ TypeOK /\ NotFoundInv
  BY <1>1 DEF Scanning, CInv
<1>3. Top \in Searches /\ NotFoundOK(Top)
  BY <1>2, TopOK
<1>4. Top.rho \in Frames /\ Top.rho # R_GlobalEnv /\ Top.sym \in Syms
  BY <1>1, <1>3, Distinct DEF Frames, Searches
<1>5. ~Leave
  <2>1. searches \in Seq(Searches)
    BY <1>2 DEF TypeOK
  <2>2. Len(Tail(searches)) # Len(searches)
    BY <1>2, <2>1
  <2>. QED
    BY <1>1, <2>2 DEF Leave
<1>6. \A h : h.scanning = FALSE => ~Go(h)
  BY <1>1 DEF Go
<1>7. CASE PassFrame
  <2>1. Top.last = Top.rho /\ Top.last # None
    BY <1>1, <1>7, Distinct DEF PassFrame, Frames
  <2>. QED
    BY <1>3, <1>4, <2>1 DEF NotFoundOK, BoundIn
<1>8. CASE ScanFrame
  <2>1. InFrame(Top.sym, Top.rho) = << >>
    <3>1. ~Found(Passed(Top, TRUE))
      <4>1. [Top EXCEPT !.nf = Passed(Top, TRUE), !.scanning = FALSE].scanning = FALSE
        BY <1>3 DEF Searches
      <4>. QED
        BY <1>5, <1>6, <4>1 DEF Found
    <3>. QED
      BY <1>8, <3>1 DEF ScanFrame
  <2>. QED
    BY <1>2, <1>4, <2>1, InFrameIs DEF BoundIn
<1>9. CASE ScanGlobal
  BY <1>4, <1>9 DEF ScanGlobal
<1>10. CASE ScanBase
  BY <1>4, <1>10, Distinct DEF ScanBase
<1>11. CASE SearchFails
  BY <1>5, <1>11 DEF SearchFails
<1>12. ~Evaluating
  BY <1>1 DEF Evaluating
<1>. QED
  BY <1>1, <1>7, <1>8, <1>9, <1>10, <1>11, <1>12
     DEF Next, StartSearch, Evaluated, FindVarInFrame, NewEnv, ApplyClosure, Assign,
         set_var_nonlocal, MakeActiveBinding, MakeActiveInBase, RemoveVariable, Attach, Detach,
         Collect

\* A search for a function passes no frame that has the symbol.
THEOREM PassedUnbound == ~Redefines => (Spec => PassesOnlyUnbound)
<1>. SUFFICES ASSUME ~Redefines PROVE Spec => PassesOnlyUnbound
  OBVIOUS
<1>1. CInv /\ [Next]_vars =>
        [Scanning /\ Len(searches') = Len(searches) /\ Head(searches').scanning
           /\ Top.rho \in Envs => ~BoundIn(Top.rho, Top.sym)]_vars
  BY PassingIsRight
<1>. QED
  BY <1>1, Consistent, PTL DEF Spec, PassesOnlyUnbound

=============================================================================
