-------------------------------- MODULE Heap --------------------------------
(***************************************************************************)
(* What an application may expect of a garbage collector: objects refer to *)
(* one another, and only objects that it can no longer reach disappear.    *)
(***************************************************************************)
CONSTANT Objects        \* all the objects that there may ever be

VARIABLES live,         \* the objects that exist
          ref,          \* the set of objects that each refers to
          roots,        \* those that the application holds for the time being
          permanent     \* those that it may go to whenever it likes

vars == <<live, ref, roots, permanent>>

\* A set that no reference leads out of.
Closed(S) == \A o \in S : ref[o] \subseteq S

\* The objects that the application can go to, following references: those in every
\* closed set that what it holds is in.
Reachable ==
  LET held == roots \union permanent
      enough == {more \in SUBSET (Objects \ held) : Closed(held \union more)}
  IN  held \union {o \in Objects : \A more \in enough : o \in more}

Init ==
  /\ live = {} /\ roots = {} /\ permanent = {}
  /\ ref = [o \in Objects |-> {}]

\* A new object is one that did not exist, and refers to nothing.
Allocate ==
  \E o \in live' \ live :
    /\ live' = live \union {o}
    /\ ref' = [ref EXCEPT ![o] = {}]
    /\ \/ roots' = roots \union {o} /\ UNCHANGED permanent
       \/ permanent' = permanent \union {o} /\ UNCHANGED roots

\* The application changes the references in an object it can reach.
Store ==
  /\ UNCHANGED <<live, roots, permanent>>
  /\ \E o \in Objects :
       /\ ref' = [ref EXCEPT ![o] = ref'[o]]
       /\ {o} \union ref'[o] \subseteq Reachable

\* It takes hold of objects it can reach, and lets go of others.
Hold ==
  /\ UNCHANGED <<live, ref>>
  /\ permanent \subseteq permanent'
  /\ roots' \union permanent' \subseteq Reachable

\* Objects disappear.
Free ==
  /\ live' \subseteq live
  /\ UNCHANGED <<roots, permanent>>
  /\ ref' = [o \in Objects |-> IF o \in live' THEN ref[o] ELSE {}]
  /\ Reachable \subseteq live'

Next == Allocate \/ Free \/ Store \/ Hold

Spec == Init /\ [][Next]_vars
=============================================================================
