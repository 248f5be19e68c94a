------------------------------- MODULE Memory -------------------------------
(***************************************************************************)
(* The R side of collection (src/src/main/memory.c): what is done with the *)
(* variables of tasks, with weak references and with finalizers after the  *)
(* collector has marked what it can reach, and how finalizers are run.     *)
(*                                                                         *)
(* Sggc is the collector itself.  Of it only this is left here: at level n *)
(* it collects the generations up to n, starting with everything that is   *)
(* reachable from the others marked (Sggc's OldToNewCovers).  A collection *)
(* is one step, as the application does nothing while it lasts.            *)
(***************************************************************************)
EXTENDS Integers, FiniteSets, Sequences, SequencesExt

CONSTANTS Objs,         \* environments, and other objects that are not weak references
          Refs,         \* objects of type WEAKREFSXP
          Nil,          \* R_NilValue
          OnExit,         \* what is asked for with finalizers, on exiting
          Oldest,         \* the oldest generation, 2 in the code
          Nested,       \* whether finalizers register finalizers
          Both,         \* whether a weak reference may have both a value and a
                        \* finalizer, or neither, and not just one of them
          MaxRoots, MaxTasks,     \* bounds on what the application holds, on tasks,
          MaxInUse,               \* on objects in use and tasks together,
          MaxDepth                \* and on how deep RunFinalizers calls itself

ASSUME ConstantsAssumption ==
  /\ IsFiniteSet(Objs) /\ IsFiniteSet(Refs) /\ Objs \intersect Refs = {}
  /\ Nil \notin Objs \union Refs
  /\ Oldest \in Nat /\ OnExit \subseteq BOOLEAN /\ Nested \in BOOLEAN /\ Both \in BOOLEAN
  /\ MaxRoots \in Nat /\ MaxTasks \in Nat /\ MaxInUse \in Nat
  /\ MaxDepth \in Nat

Nodes == Objs \union Refs

VARIABLES
  live, gen,       \* the objects in use, and the generation of each
  ref,             \* the references in an object
  weak,            \* the fields of a weak reference
  ready, on_exit,  \* READY_TO_FINALIZE_MASK and FINALIZE_ON_EXIT_MASK
  R_weak_refs,
  roots,           \* what the application refers to
  tasks,           \* the tasks not yet completed
  runs,            \* the calls of RunFinalizers under way, the last one first
  ran,             \* the weak references whose finalizer has been called
  pc

heap == <<live, gen, ref>>
refs == <<weak, ready, on_exit, R_weak_refs>>
vars == <<heap, refs, roots, tasks, runs, ran, pc>>

NoRef == [key |-> Nil, value |-> Nil, fin |-> Nil, next |-> Nil]

\* "out" is the output variable of a task, "in" an input.
Tasks == [out : Objs, in : Objs]
Variables(S) == {t.out : t \in S} \union {t.in : t \in S}

\* A call of RunFinalizers has local variables s, last and next; "key" and "fun" are
\* those of R_RunWeakRefFinalizer while a finalizer runs.
Run == [s : Refs \union {Nil}, last : Refs \union {Nil}, next : Refs \union {Nil},
        key : Objs \union {Nil}, fun : Objs \union {Nil}, exit : BOOLEAN]
NewRun(s, exit) ==
  [s |-> s, last |-> Nil, next |-> Nil, key |-> Nil, fun |-> Nil, exit |-> exit]

Init ==
  /\ live = {} /\ gen = [x \in Nodes |-> 0] /\ ref = [o \in Objs |-> {}]
  /\ weak = [w \in Refs |-> NoRef] /\ ready = {} /\ on_exit = {} /\ R_weak_refs = Nil
  /\ roots = {} /\ tasks = {}
  /\ runs = << >> /\ ran = {} /\ pc = "app"

\* The references that sggc_find_object_ptrs finds, a weak reference being for it
\* a vector of four.
Fields(x) ==
  IF x \in Objs THEN ref[x]
  ELSE {weak[x].key, weak[x].value, weak[x].fin, weak[x].next} \ {Nil}

\* What can be reached from the objects in S.
WithFields(S) == S \union UNION {Fields(x) : x \in S}
Closed(S) ==
  LET within[n \in 0..Cardinality(Nodes)] == IF n = 0 THEN S ELSE WithFields(within[n - 1])
  IN  within[Cardinality(Nodes)]

\* The weak references in the list.
WithNext(S) == S \union ({weak[w].next : w \in S} \ {Nil})
Listed ==
  LET within[n \in 0..Cardinality(Refs)] ==
        IF n = 0 THEN {R_weak_refs} \ {Nil} ELSE WithNext(within[n - 1])
  IN  within[Cardinality(Refs)]

\* What calls of RunFinalizers protect, and what running finalizers can use.
Protected == (UNION {{runs[i].key, runs[i].fun, runs[i].next} : i \in DOMAIN runs}) \ {Nil}
Usable == roots \union
  ((UNION {{runs[i].key, runs[i].fun} : i \in DOMAIN runs}) \ {Nil})

-----------------------------------------------------------------------------
(* The application, or a finalizer.                                        *)

FewRoots == Cardinality(roots') <= MaxRoots
FewInUse == Cardinality(live') + Cardinality(tasks') <= MaxInUse

Allocate ==
  /\ pc = "app"
  /\ \E o \in Objs \ live :
       /\ live' = live \union {o}
       /\ roots' = roots \union {o} /\ FewRoots
  /\ UNCHANGED <<gen, ref, refs, tasks, runs, ran, pc>> /\ FewInUse

\* That an object refers to itself would make no difference.
SetRef ==
  /\ pc = "app"
  /\ \E o \in Usable : \E to \in {{}} \union {{x} : x \in Usable \ {o}} :
       ref' = [ref EXCEPT ![o] = to]
  /\ UNCHANGED <<live, gen, refs, roots, tasks, runs, ran, pc>>

\* Taking hold of what an object refers to, or letting go of an object.
Hold ==
  /\ pc = "app"
  /\ \/ \E x \in Usable \union UNION {ref[o] : o \in Usable} :
          roots' = roots \union {x} /\ FewRoots
     \/ \E x \in roots : roots' = roots \ {x}
  /\ UNCHANGED <<heap, refs, tasks, runs, ran, pc>>

\* NewWeakRef.  R code gets no hold of the result (do_regFinaliz).
NewWeakRef ==
  /\ pc = "app" /\ (runs = << >> \/ Nested)
  /\ \E w \in Refs \ live, key \in Usable,
        val, fin \in Usable \union {Nil}, onexit \in OnExit :
       /\ Both \/ (val = Nil) # (fin = Nil)
       /\ live' = live \union {w}
       /\ weak' = [weak EXCEPT ![w] =
                     [key |-> key, value |-> val, fin |-> fin, next |-> R_weak_refs]]
       /\ on_exit' = IF onexit THEN on_exit \union {w} ELSE on_exit
       /\ R_weak_refs' = w
  /\ UNCHANGED <<gen, ref, ready, roots, tasks, runs, ran, pc>> /\ FewInUse

\* A task is scheduled, or noticed to be done.
ScheduleTask ==
  /\ pc = "app" /\ Cardinality(tasks) < MaxTasks
  /\ \E out, in \in Usable : tasks' = tasks \union {[out |-> out, in |-> in]}
  /\ UNCHANGED <<heap, refs, roots, runs, ran, pc>> /\ FewInUse

TaskCompleted ==
  /\ pc = "app"
  /\ \E t \in tasks : tasks' = tasks \ {t}
  /\ UNCHANGED <<heap, refs, roots, runs, ran, pc>>

-----------------------------------------------------------------------------
(* A collection: R_gc_internal, down to where RunFinalizers is called, with *)
(* "level" the generations collected and m what has been marked so far.    *)

\* Marked before the first call of sggc_after_marking.
MarkedAtFirst(level) == Closed({x \in live : gen[x] > level} \union roots \union Protected)

\* Operators with a "Faulty" name differ from the one that follows them as a
\* plausible mistake in the code would: no action uses them, they serve to see
\* that the properties would find the mistake.

\* The tasks that are waited for after marking.
WaitedFor(t, level, m) ==
  \/ t.out \notin m /\ \A u \in tasks : u.in # t.out \/ u.out = t.out
  \/ level = Oldest /\ {t.in, t.out} \intersect m # {t.in, t.out}

FaultyLookAtTasks(left) == {t.out : t \in left}

\* What is looked at for the tasks that are left.
LookAtTasks(left) == Variables(left)

FaultyWeaklyReached(m) == {weak[w].value : w \in {x \in Listed : weak[x].key \in m}} \ {Nil}

\* The values and finalizers of weak references whose keys are marked.
WeaklyReached(m) ==
  (UNION {{weak[w].value, weak[w].fin} : w \in {x \in Listed : weak[x].key \in m}}) \ {Nil}

\* What is marked after the passes over the list that find more of these.
WithWeaklyReached(m) == Closed(m \union WeaklyReached(m))
MarkedAfterWeak(m) ==
  LET after[n \in 0..Cardinality(Refs)] ==
        IF n = 0 THEN m ELSE WithWeaklyReached(after[n - 1])
  IN  after[Cardinality(Refs)]

\* The weak references that CheckFinalizers finds to be ready.
CheckFinalizers(m) == {w \in Listed : weak[w].key \notin m \union {Nil}}

\* What the last pass over the list looks at, to keep it for the finalizers.
LookAtList == Listed \union UNION {Fields(w) : w \in Listed}

FaultyOlder(g) == g + 1

\* The generation in which an object of generation g that is kept is put.
Older(g) == IF g = Oldest THEN Oldest ELSE g + 1

\* Where RunFinalizers starts, also when it is called in a finalizer.
FirstToVisit == R_weak_refs

\* Tasks are waited for, of the others some may be done by then ("left" are not), what
\* is marked in the end gets older, and the rest is freed.
Collect(level) ==
  /\ pc = "app" /\ Len(runs) < MaxDepth
  /\ runs' = << NewRun(FirstToVisit, FALSE) >> \o runs
  /\ pc' = "run"
  /\ LET first == MarkedAtFirst(level)
     IN  \E left \in SUBSET {t \in tasks : ~WaitedFor(t, level, first)} :
           LET reached == MarkedAfterWeak(Closed(first \union LookAtTasks(left)))
               marked  == Closed(reached \union LookAtList)
           IN  /\ tasks' = left
               /\ ready' = (ready \union CheckFinalizers(reached)) \intersect marked
               /\ live' = live \intersect marked
  /\ gen' = [x \in Nodes |-> IF x \notin live' THEN 0
                             ELSE IF gen[x] <= level THEN Older(gen[x]) ELSE gen[x]]
  /\ ref' = [o \in Objs |-> IF o \in live' THEN ref[o] ELSE {}]
  /\ weak' = [w \in Refs |-> IF w \in live' THEN weak[w] ELSE NoRef]
  /\ on_exit' = on_exit \intersect live' /\ ran' = ran \intersect live'
  /\ UNCHANGED <<R_weak_refs, roots>>

R_gc_internal == \E level \in 0..Oldest : Collect(level)

-----------------------------------------------------------------------------
(* RunFinalizers.                                                          *)

Top == Head(runs)

Skip ==
  /\ pc = "run" /\ Top.s # Nil /\ Top.s \notin ready
  /\ runs' = << [Top EXCEPT !.last = Top.s, !.s = weak[Top.s].next] >> \o Tail(runs)
  /\ UNCHANGED <<heap, refs, roots, tasks, ran, pc>>

FaultyAfterRun(w) == weak[w]

\* R_RunWeakRefFinalizer clears the fields before it calls the finalizer.
AfterRun(w) == [NoRef EXCEPT !.next = weak[w].next]

FaultyUnlink ==
  R_weak_refs' = weak[Top.s].next /\ weak' = [weak EXCEPT ![Top.s] = AfterRun(Top.s)]

\* The list with the entry at s, after "last", taken out of it.  Nothing protects last:
\* if it was freed, what is written changes an object that is not in use, or another
\* weak reference that is there now, or else see WriteFreed.
Unlink ==
  LET next == weak[Top.s].next
      cleared == [weak EXCEPT ![Top.s] = AfterRun(Top.s)]
  IN  IF Top.last = Nil THEN R_weak_refs' = next /\ weak' = cleared
      ELSE weak' = [cleared EXCEPT ![Top.last].next = next] /\ UNCHANGED R_weak_refs

\* Taking out the next weak reference that is ready and calling its finalizer, if it
\* (still) has one.
RunFinalizer ==
  /\ pc = "run" /\ Top.s # Nil /\ Top.s \in ready
  /\ Unlink
  /\ LET w == weak[Top.s]
     IN  IF w.fin = Nil
           THEN /\ runs' = << [Top EXCEPT !.s = w.next] >> \o Tail(runs)
                /\ UNCHANGED <<ran, pc>>
           ELSE /\ runs' = << [Top EXCEPT !.next = w.next, !.key = w.key,
                                          !.fun = w.fin] >> \o Tail(runs)
                /\ ran' = ran \union {Top.s}
                /\ pc' = "app"
  /\ UNCHANGED <<heap, ready, on_exit, roots, tasks>>

\* The same when the memory of "last", freed by a collection in a finalizer, has been put
\* to another use: SET_WEAKREF_NEXT(last, next) overwrites that.  Of what follows nothing
\* can be said, so that it is left out: the place is "corrupt".
WriteFreed ==
  /\ pc = "run" /\ Top.s # Nil /\ Top.s \in ready /\ Top.last \notin live \union {Nil}
  /\ pc' = "corrupt"
  /\ UNCHANGED <<heap, refs, roots, tasks, runs, ran>>

FaultyResume == Nil

\* Where RunFinalizers goes on, the context of each finalizer being a top level one.
Resume == Top.next

\* The finalizer returns, or is left by an error.
FinalizerReturns ==
  /\ pc = "app" /\ runs # << >>
  /\ runs' = << [NewRun(Resume, Top.exit) EXCEPT !.last = Top.last] >> \o Tail(runs)
  /\ pc' = "run"
  /\ UNCHANGED <<heap, refs, roots, tasks, ran>>

RunFinalizersReturns ==
  /\ pc = "run" /\ Top.s = Nil
  /\ runs' = Tail(runs)
  /\ pc' = IF Top.exit THEN "exited" ELSE "app"
  /\ UNCHANGED <<heap, refs, roots, tasks, ran>>

\* R_RunExitFinalizers, when R is about to exit.
RunExitFinalizers ==
  /\ pc = "app" /\ \A i \in DOMAIN runs : ~runs[i].exit
  /\ Len(runs) < MaxDepth
  /\ ready' = ready \union (Listed \intersect on_exit)
  /\ runs' = << NewRun(FirstToVisit, TRUE) >> \o runs
  /\ pc' = "run"
  /\ UNCHANGED <<heap, weak, on_exit, R_weak_refs, roots, tasks, ran>>

Next ==
  \/ Allocate \/ SetRef \/ Hold \/ NewWeakRef \/ ScheduleTask \/ TaskCompleted
  \/ R_gc_internal \/ Skip \/ RunFinalizer \/ WriteFreed \/ FinalizerReturns
  \/ RunFinalizersReturns \/ RunExitFinalizers

Spec == Init /\ [][Next]_vars

-----------------------------------------------------------------------------
(* What must hold.                                                         *)

\* Every variable keeps its type (lines 251-283 and 419-427).
TypeOK ==
  /\ live \subseteq Nodes /\ roots \subseteq Objs
  /\ gen \in [Nodes -> 0..Oldest] /\ ref \in [Objs -> SUBSET Objs]
  /\ weak \in [Refs -> [key : Objs \union {Nil}, value : Objs \union {Nil},
                        fin : Objs \union {Nil}, next : Refs \union {Nil}]]
  /\ \A S \in {ready, on_exit, ran} : S \subseteq Refs
  /\ R_weak_refs \in Refs \union {Nil}
  /\ tasks \subseteq Tasks
  /\ runs \in Seq(Run)
  /\ pc \in {"app", "run", "corrupt", "exited"}

\* Nothing is freed that the application, a task or a finalizer that is or may be
\* run can come to use: whatever is reachable from them, from the list of weak
\* references or from what RunFinalizers has still to visit (lines 655-745).  What this
\* leaves out is "last", which RunFinalizers may write to though it is freed (LastInUse).
NoDangling ==
  Closed(Usable \union Protected \union Variables(tasks) \union Listed
           \union (IF pc = "run" THEN {Top.s} \ {Nil} ELSE {})) \subseteq live

\* The entry that RunFinalizers changes to take out the next one is in use, although
\* finalizers have collected in between ("to make is safe for thsis routine to be called
\* recursively from a gc triggered by a finalizer", lines 453-455).
LastInUse ==
  pc = "run" /\ Top.s # Nil /\ Top.s \in ready => Top.last \in live \union {Nil}

\* What the application, and the tasks in T, can reach, by way of weak references too:
\* their values and finalizers, if their keys are reachable.
Reachable(T) ==
  LET Weakly(S) == Closed(S \union ((UNION {{weak[w].value, weak[w].fin} :
                               w \in {x \in Listed : weak[x].key \in S}}) \ {Nil}))
      within[n \in 0..Cardinality(Refs)] ==
        IF n = 0 THEN Closed(roots \union Protected \union Variables(T))
        ELSE Weakly(within[n - 1])
  IN  within[Cardinality(Refs)]

\* A weak reference becomes ready to be finalized only if its key cannot be reached
\* any more, though its own value or finalizer may refer to it, and in a full
\* collection all such become ready, in whatever order the list has them
\* (sggc_after_marking, lines 700-745, and CheckFinalizers, 340-347).
ReadyExact ==
  [][pc = "app" /\ pc' = "run" /\ ~Head(runs').exit =>
       LET reachable == Reachable(tasks') \union {Nil}
           unreachable == {w \in Listed : weak[w].key \notin reachable}
       IN  /\ ready' \ ready \subseteq unreachable
           /\ unreachable \subseteq ready' \/ ~Collect(Oldest)]_vars

\* A finalizer is called at most once, though it may leave by an error, make its key
\* reachable again, or cause collections ("This insures that a finalizer is run only
\* once, even if running it raises an error", lines 445-448).
FinalizedOnce ==
  [][\A w \in Refs : w \in ran /\ w \in live =>
       \A i \in DOMAIN runs' : runs'[i].s = w /\ runs'[i].fun # Nil =>
          \E j \in DOMAIN runs : runs[j].s = w /\ runs[j].fun # Nil]_vars

\* When R_gc_internal or R_RunExitFinalizers returns, the finalizers that were found
\* to be ready have been called, also those found by collections that finalizers
\* caused (RunFinalizers, lines 424-468).
ReadyAreRun ==
  [][Len(runs) = 1 /\ runs' = << >> =>
       \A w \in ready \intersect live : weak[w].fin = Nil]_vars

\* A weak reference that is registered stays so until its finalizer is called ("Registers
\* an R function to be called upon garbage collection of object",
\* src/src/library/base/man/reg.finalizer.Rd line 10).
StaysRegistered ==
  \A w \in Refs : weak[w].fin # Nil => w \in Listed
=============================================================================
