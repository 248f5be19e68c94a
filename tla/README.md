# Verification of pqR in TLA+

pqR is an implementation of the R language in C, derived from R-2.15.0.  What it
adds to R, and what is hardest to test in it, runs below the interpreter: a
*helpers* facility that does vector operations in other threads while the
interpreter goes on, and a segmented generational garbage collector.  This
directory holds TLA+ models of those parts, TLC configurations that check them,
and proofs that TLAPS checks.  All paths below are relative to the repository.

## Inventory

| part | where | state | operations | what is hard |
|---|---|---|---|---|
| helpers: untaken queue and locks | `src/extra/helpers/helpers.c` | circular queue `untaken`, `start_lock`, `untaken_lock`, `suspend_lock[2]`, `suspended` | `helper_proc`, `find_untaken_runnable`, `put_in_untaken`, `do_task_in_master`, `helpers_no_multithreading` | threads, wake-ups, an option that changes the locking |
| helpers: scheduling | same, with `merged-ops.c` | table `task`, `used`, queues `untaken`, `on_hold`, `master_only`, marks on variables | `helpers_do_task`, `notice_completed`, `mark_as_needed`, the `helpers_wait...` procedures | merging, holding, pipelining, reuse of indexes, waiting for enough |
| helpers: pipelining | same | `amt_out` of each task | `helpers_amount_out`, `helpers_availN` | fields read one by one of a task that may end meanwhile |
| sggc | `src/extra/sggc/sggc.c` | segments of objects, generations as sets, old-to-new set | allocate, collect (3 levels), note old-to-new references | an object freed while reachable, or kept for ever |
| sbset | `src/extra/sggc/sbset.c` | sets as chains of segments with bit vectors | add, remove, move, iterate | chains that disagree with bits |
| lphash | `src/extra/lphash/lphash.c` | buckets with linear probing | search, insert, delete, grow | probe chains broken by deletion |
| memory | `src/main/memory.c` | roots, weak references, finalizers | `sggc_find_root_ptrs`, `sggc_after_marking`, `RunFinalizers` | collection while tasks run, resurrection |
| contexts, errors | `src/main/context.c`, `errors.c` | context stack, handler stack | begin, end, jump, on.exit | jumps out of cleanup code |
| environments | `src/main/envir.c`, `names.c` | frames, global cache, symbol bits | find, define, remove, attach | caches that lag behind frames |
| evaluator | `src/main/eval.c`, `builtin.c` | promises, NAMEDCNT | eval, apply, force | results that may be reused too early |
| rest of the interpreter | `src/main` | | parser, connections, serialization, graphics, vector operations, dispatch | see `PROJECT.json` |

The interpreter (the *master*) calls `helpers_do_task` from arithmetic and other
vector operations (`DO_NOW_OR_LATER...`), and waits with the macros
`WAIT_UNTIL_COMPUTED` and `WAIT_UNTIL_NOT_IN_USE` (`src/include/Defn.h`) before it
looks at or changes a variable.  The marks "being computed" and "in use" are bits in
the header of an R object, set and cleared only by the master.  The collector calls
back into `memory.c`, which looks at the variables of the tasks outstanding and may
wait for some.  Vendored libraries (`src/extra/{blas,bzip2,dlmalloc,graphapp,intl,
pcre,tre,trio,tzone,xz,...}`), `src/appl`, `src/nmath`, `src/modules` and the R code
under `src/library` are not part of this work.

What makes each part correct:

* untaken queue: every task is in one place; only one thread removes; no helper
  sleeps while there is work; every call returns.
* scheduling: operations take effect as if done when scheduled; marks last as long
  as the tasks they are for, no longer and no shorter; a wait ends when, and only
  when, what it waits for is finished.
* sggc: nothing reachable is freed; every reference from an older to a younger
  generation is known; what is unreachable is freed by a full collection.
* sbset: a chain holds the segments with a non-zero bit vector, each once.
* lphash: a search finds what was inserted and not deleted, and ends.
* memory: a finalizer runs once, after its key has become unreachable.
* contexts: every on.exit action runs once, whichever way the function is left.
* environments: the cached lookup is the uncached one.

## Plan

Done, in this order: `HelpersUntaken` with its proofs; `HelpersTasks` implementing
`InOrder`; `Sggc` implementing `Heap`; `Memory`; `Contexts`;
`Caches`; the proofs about `Contexts`; the proofs about `Sggc`; the proofs about where
the tasks of `HelpersUntaken` are; the proofs about `Caches`; the proofs about
`HelpersTasks`, and then that it implements `InOrder`; the proofs about `Memory`; the
proofs about the handlers and exit code of `Contexts`; `InOrderValues`, the values that
variables get by `InOrder`, with its proofs.  Left:

1. `Sbset`: chains and bit vectors, implementing the sets of `Sggc`;
2. `HelpersPipe`: `runnable` and `helpers_availN` against `notice_completed` and the
   reuse of indexes, one field at a time;
3. `LpHash`, checked against a finite map.

Which module uses which: `HelpersTasks` takes from `HelpersUntaken` that a task is
taken by one thread; `Memory` takes from `Sggc` that a collection marks what is
reachable from its roots and from older generations (`OldToNewCovers`), and from
`HelpersTasks` that a variable of a task is in use until the task is noticed to be
completed; `Contexts` has `RunFinalizers` (of `Memory`) and C code that calls R code as
steps that put a top level context on the stack; in `Caches` a collection is one step
that frees environments and clears what is noted about them.

## HelpersUntaken: threads, queue and locks

One action is one access to a shared variable by one thread; an access under a lock
that excludes every other thread from it is joined to its neighbour, as the head of
the module says.  `pc` holds each thread's place.

| code | actions |
|---|---|
| `helper_proc` | `SetStartLock`, `ReadIn`, `SpinReadOut`, `SpinReadFlag`, `DecideReadOut`, `DecideReadFlag`, `WillSuspend`, `Suspend` |
| `find_untaken_runnable`, start of a task | `FindReadIn`, `FindTake`, `FindNone`, `FindAdvance`, `Claim`, `RunThisTask` |
| `helpers_do_task` | `DoTask`, `TableFull`, `NewTask`, `MergeBegin`, `MergeTestLock`, `Merge` |
| `put_in_untaken` | `PutInUntaken`, `WakeHelper` |
| `do_task_in_master` | `DoMasterOnly`, `ReadSuspended`, `ReadQueueEmpty`, `TestStartLock` |
| waiting, `helpers_no_multithreading` | `WaitForAll`, `WaitNotice`, `ToggleMultithreading` |

Memory is taken as sequentially consistent: the code has a `FLUSH` or a lock call at
every access that matters; a model of weaker memory would be another project.  Which
runnable task is preferred is left open, and a task waits for at most one other.

Runs:

* `Untaken`: two task indexes (the circular queue has three entries, wraps and is
  full), two helpers (one suspended or searching while the other works or queues for
  `start_lock`), multithreading off and on again once, master-only tasks and merging;
  the safety properties, and liveness under fairness.  `SpinEmpty = 1`: more turns of
  the spin loop repeat the same two reads.  Liveness needs a behaviour to come back to
  a state, and the positions of the circular queue never do so soon; `QueueView`
  identifies states whose queues differ only in where they start.  Actions and
  properties depend on positions only through their differences modulo the size, so
  this is sound for liveness too.
* `UntakenToggle` (violation): with the option changed three times, off, on and off,
  between two reads of a helper, `FindExclusive` fails, and so then does
  `TaskInOnePlace`.  `Untaken` therefore stops at two changes for
  `TaskInOnePlace`, which is a bound and not a fact of the code.  Up to two changes it
  is proved for any number of tasks and helpers; `TakenExclusively`, with
  multithreading as a condition, is proved without that bound.

Fairness: every helper keeps running and so does the master inside a call.  Nothing
obliges the application to make a call.  `HelpersFinishAlone` is about tasks that
helpers can do with the application busy elsewhere; an application that keeps
scheduling can postpone one task for ever.

## HelpersTasks: what is done with a task

The master's code between two waits is one action, the queues are sets (their order
matters only for `master_only`), and helpers take tasks with `HelperStart`.  That this
is a fair picture rests on the locks of the first model.  A task procedure passes from
"running" to "computed" (its output is there, bit by bit before if it pipelines) to
"done".  `Kinds` are the tasks an application may schedule; `Overwrites` tells whether
among them are some that overwrite a variable still being computed without reading
it, which pqR's never do: their output is new (`allocVector`) or one of the operands
(`alloc_or_reuse`, `src/main/util.c`).  `ScalarComputed` is what makes merges right that
would let an operation overtake the one computing its other operand: only operations on a
vector and a scalar have `HELPERS_MERGE_IN`, and `R_binary` (`src/main/arithmetic.c`) waits
for the scalar before it schedules them.  helpers.c does not check it; without this
conjunct TLC finds `TakeEffectInOrder` violated.

`InOrder` is the abstract specification: a sequence of operations that take effect
one at a time, never before an earlier one with a variable in common that either
writes.  `TakeEffectInOrder` says that `HelpersTasks` implements it, with the tasks
whose procedures have not returned, and the one being scheduled, as the pending
operations.  It is what a user of R relies on: with helpers every variable gets the
value it would have without them.

That the order is enough for this is stated in `InOrderValues`, which adds to `InOrder` what
each operation computes, the values there are and those that are meant, had each operation
been done when it was scheduled; these follow the steps of `InOrder` and never restrict them.
`Settled` says that a variable that nothing pending writes has the value that is meant.  An
operation that is joined is given the value of its other operand when it is
(`helpers_merge_proc`, lines 422-428 of `src/src/main/merged-ops.c`; the scalar of the one that
it joins, taken in lines 399-404, was computed and has been in use by that one since, so that
it is the same at any time).  Hence `Known` in `JoinEarlier` and `JoinLater`: nothing pending
still writes that operand.  `InOrder` did not say so at first, and then `Settled` is false: x := 1,
then y := 2, then y := y + x joins y := 2 while x := 1 is pending, which is in the order but takes
x too early.  pqR does not do that, since it waits for the scalar (`ScalarComputed`).

Runs:

* `TasksAll`: three indexes, two helpers; tasks that are held, merged and pipelined,
  one with an input it does not pipeline, one that merges and has another operand that is
  computed by a task too, and master-only and master-now tasks, the latter merging with
  scheduled ones.
* `TasksWait`: liveness, with tasks on hold waiting for each other and an order of
  master-only tasks; every state is kept as it is (no symmetry, no view).
* `TasksHold` (violation): see the findings in `PROJECT.json`.

Seen but not run: if a task overwrites the output of a task on hold without reading
it (helpers.c, line 2309) while the table is full, the master waits for ever.  The
facility's documentation allows such tasks, which pqR never schedules; `TasksWait`
leaves them out (`Overwrites = FALSE`).

The indexes are only compared for equality, so `Symmetry` over them is sound for
invariants and for action properties.  Three tasks make every pattern of `used` that
the code distinguishes: a task before, at and after the one in hand, a full table,
and an index given to another task.  Three variables give a chain and a cycle of
inputs.

Fairness: as above, and each task procedure returns.  Weak fairness of the master's
own doing of a task is stated separately from the rest of its steps, since the loops
call `do_task_in_master` in every round.

Not modelled: `helpers_wait_for_all_master_only` (pqR does not call it),
`helpers_disable` and the options that mask flags, how much of a pipelined output is
available, and the code in the merge that unmarks inputs no longer used, which
nothing reaches in pqR since `helpers_merge_proc` never changes inputs.  (That code
looks wrong: at line 2249 it starts a loop over `used` at a task index rather than at
a position, and at line 2278 it tests `m_in1==old_var[1]` where `m_in2` is meant.)

(Likewise, a master-only task that merges with one that is not moves it to the
`master_only` queue, lines 2158-2164, without its flag; a second one would look for
it in the untaken queue and the program would exit, place "exit" of the model.  pqR
has no master-only tasks that merge: its only master-only task, `src/main/array.c`, line
1359, has no `HELPERS_MERGE_IN`; no run has any, and the proofs assume that there is none.)

## Sggc: the collector

An object is a segment and a position in it; generations, `free_or_new`, `unused`,
`old_to_new` and so on are sets of objects, those of all kinds together, since an
object's kind is its segment's.  Where the order of segments decides something, in
the chain that allocation walks along, `chain` holds it: `<<s, t>>` is in it when `t` is
`s` or comes after `s` in the list of their kind.  Where the code removes an
empty segment from a chain only when something walks past it, `Collect` leaves open
which are still there, and also in which order old segments are put in front.

| code | actions |
|---|---|
| `sggc_alloc_small_kind_quickly` | `AllocQuickly` |
| `sggc_alloc_kind_type_length` | `AllocSegment`, `AllocBig`, `AllocBigFails` |
| `sggc_constant` | `RegisterConstant`, before anything else, as `InitMemory` does (`src/main/memory.c`, lines 1002-1010) |
| `sggc_old_to_new_check` and the store after it | `SetRef` |
| `PROTECT`, `UNPROTECT`, `mkSYMSXP` | `HoldRef` |
| `sggc_collect` | `Collect`, `CollectOldToNew`, `FindRoots`, `CollectLookAt`, `RemoveFreeSmall`, `RemoveFreeBig`, one after the other |

The application holds some objects (`roots`), and may go to uncollected objects,
constants and the objects in `kept` at any time; the last are strings that are names
of symbols, which `free_charsxp` refuses to free.  It reads and changes only what it
can get to, and may collect at any level at any time: when and at what level pqR does
is a matter of speed.  `in_use` is what `SGGC_TRACE_CPTR` would record of each object.

`Heap` is the abstract specification: objects come, refer to one another, and
disappear only when they cannot be reached.  `ImplementsHeap` says that `Sggc`
implements it, with `live <- in_use \union constants`.  `Reachable` there is what is
in every set that holds what the application holds and is closed under references,
the definition that can be reasoned about.  `FullCollection` is the
converse for level 2.  The others are what these rest on: `OldToNewCovers` about the
notes of references from older to younger objects, `FreeListExact` about the free
objects that allocation finds, `ChunksCounted` about the counts that later decide on
levels.

Runs:

* `SggcHeap`: two segments, of list cells (two in each, so that allocation looks for a
  free one within a segment and goes on to another), big vectors, strings (asked about
  before they are freed, at most one kept), uncollected symbols and a constant.  The
  application holds at most two objects (`MaxRoots`, enough to make one refer to
  another) and there are at most two references in all (`MaxLinks`: a chain of three
  objects, or a cycle).  A segment goes through all generations and is used again.
Seen when memory for data cannot be had, and not among the runs of PROJECT.json:

* For a small object, the area is taken to start some way before `small_data_area_next`
  (sggc.c, line 835), and what is left when there is none is not NULL, so that the test at
  line 840 does not see it.  An object without data is returned, though `sggc_alloc`
  says that it returns `SGGC_NO_OBJECT` (comments at lines 703 and 770).  The configuration
  `SggcData.cfg` of `MCSggc` has `DataFails` and shows this in a few steps, `AllHaveData`
  being violated.
* When the allocation of a big object fails, its segment should be put back in `unused`
  (comment at line 1084); when its data area cannot be had, it is not (lines 793 and
  840-841), as `AllocBigFails` has it.

`SggcHeap` keeps deadlock checking on: something can always be done.  There is no
liveness property, since collections are sequential code whose loops are bounded by
the number of objects; nothing in `Sggc` waits.

Not modelled here: `sggc_after_marking` (see Memory), `sggc_no_reuse`,
`sggc_call_for_object_in_use`, auxiliary information, sizes (a big object is one
chunk), and that pqR's symbols are looked at as roots, without old-to-new checks; in
the model they use the checks, as other uncollected objects of an application would.

## Memory: tasks, weak references, finalizers

`Sggc` leaves open what `sggc_after_marking` does; `Memory` is about that, over an
abstract collector: at level n it starts with what is reachable from the older
generations, what the application holds (`roots`), and what calls of `RunFinalizers`
protect.  Collection is one step, as the application does nothing while it lasts; how
the marking is done is `Sggc`'s affair.  The list of weak references is as in the code,
linked through a field of each.

| code | definitions |
|---|---|
| `sggc_find_object_ptrs` | `Fields` |
| `sggc_find_root_ptrs` | `MarkedAtFirst` |
| `sggc_after_marking`, state 0: tasks | `WaitedFor`, `LookAtTasks` |
| the same, later states: weak references | `WeaklyReached`, `CheckFinalizers`, `LookAtList` |
| `R_gc_internal` | `R_gc_internal`, `Collect` |
| `RunFinalizers` | `Skip`, `RunFinalizer` (by `Unlink`), `WriteFreed`, `FinalizerReturns`, `RunFinalizersReturns` |
| `R_RunExitFinalizers` | `RunExitFinalizers` |
| `NewWeakRef` | `NewWeakRef` |

While a finalizer runs, `pc` is "app" again and all that the application can do may
happen, another collection (and so another `RunFinalizers`, up to `MaxDepth`) included.
`R_RunExitFinalizers` is called when R is about to exit, hence `CHECK_DEADLOCK
FALSE` in these runs: place "exited" is the end of the program, as is "corrupt" (below).

Runs:

* `MemoryFin`: two objects and three weak references (one the key or value of which
  another keeps, or that refer to each other), or two and a task: at most five of objects
  and tasks together (`MaxInUse`).  Two generations, and `RunFinalizers` called within
  itself once.  Three generations add objects that are old for longer, and no other case
  of the code: it tests for the oldest, and for the ones collected.  Finalizers register no
  finalizers (`Nested = FALSE`).  A weak reference has a value or a finalizer, one of them
  and not both (`Both = FALSE`): `reg.finalizer` gives no value, one with neither has
  nothing to keep or to run, and two weak references with one key make up for one with
  both.
* `MemoryLast` (violation): `RunFinalizers` writes to a weak reference that was freed (see
  the findings).  With three weak references in the list, of which the second is ready:
  `last` is the first; the finalizer of the second drops the key of the first and collects
  twice.  The first collection makes the first and third ready, and the nested call of
  `RunFinalizers` takes the first out of the list and is done with it; the next one
  frees it.  The outer call goes on at the third, whose ready bit is still set, and sets
  the `next` of the first.  No finalizer registers another for this.
* `MemoryLost` (violation): finalizers register finalizers, and a registration is lost (see
  the findings), so this is the condition under which `StaysRegistered` holds.

`RunFinalizers` protects `next` while a finalizer runs (memory.c, line 456), and not `last`.
A write through `last` when it has been freed (lines 449-452) may go to memory that nothing
uses, or that is another weak reference by then, and `Unlink` has these cases.  Or the memory
may be in use for anything else: `WriteFreed`, after which the place is "corrupt" and nothing
more is said of the program.  So `LastInUse` is not a property of `MemoryFin`, `NoDangling` is
about everything but `last`, and what is checked and proved here holds up to such a write.

Not modelled: weak references held by C code are marked through like other objects
(although `doc/manual/R-exts.texi`, lines 9898-9900, says that they are not); levels,
growth, profiling.

## Contexts: leaving functions

The stack has contexts (functions, top level contexts, the context of the default error
handler) and, between them, the C loops that have called R code and go on when it is
done: running exit code, calling handlers, evaluating `options("error")`.  So the
recursion of the C code is in the state, and a jump is the removal of what is above its
target, except that `R_run_onexits` first runs exit code on top of the whole stack.
Frames that such a jump has passed are `Dead`: still there, never to be returned to.

| code | definitions |
|---|---|
| `R_run_onexits`, `jumpfun`, `jump_to_top_ex` | `Unwind` (until exit code is to be run), `ExitDone` (going on) |
| `findcontext` | `FindContext`; ends in an error when there is no such function |
| `applyClosure`, `begincontext`, `endcontext` | `Call`, `EndFunction` |
| `do_onexit` | `OnExit` |
| `do_addCondHands`, `do_addRestart`, `do_invokeRestart` | `AddCondHands`, `AddRestart`, `InvokeRestart` |
| `do_signalCondition`, `vsignalError`, `gotoExitingHandler` | `Signal`, `CallHandler`, `GotoExitingHandler`, `NoHandler` |
| `verrorcall_dflt`, `jump_to_top_ex` | `NoHandler`, `OptionDone` |
| `R_ToplevelExec`, the loop of `RunFinalizers` | `ToplevelExec`, `EndToplevel` |

Run `Contexts`: at most six frames where R code can be called (functions within
handlers within exit code within functions), two pieces of exit code (one in each of
two functions, both in one, or one given by the other), and two handlers or restarts
(`MaxEntries`: two handlers, one within the other, or one of each).
`options("error")` is set: without it `NoHandler` does what it does here for an error
within an error.  Deadlock checking is on.

What was seen while modelling and is in the model as the code has it:

* `RunFinalizers` does not clear `R_HandlerStack` as `R_ToplevelExec` does: a calling
  handler of the interrupted code is called for an error in a finalizer, although the
  comment at memory.c, lines 433-435, says that errors do not spill over.
* What exit code itself gives to `on.exit` is dropped, and an error in one expression
  of exit code drops those after it (`ExitsStarted` says only "started").
* Exit code that exit code gave is run when its function, which a jump has already passed,
  is passed once more by a jump that other exit code makes further down.  It is then given
  `R_HandlerStack` as it was in that function, with handlers of functions that may have
  been left.  `HandlersAlive` first said that there are never any such; the proof could not
  be made, and with three pieces of exit code (`MaxExits` 3) TLC shows why.  What it says
  now is that they are of functions on the stack, and not passed by a jump unless `late` is
  not empty.
* The comment at errors.c, lines 874-877, that in recursive errors all jumps but the
  first have `inError > 0`, overlooks that `restore_inError` is called, as the `cend` of
  a context, before exit code further down is run.

Not modelled: loops and `CTXT_RESTART`, the browser, `try_jump_to_restart`,
`options("error")` of several expressions, `R_ErrorHook`, warnings, interrupts,
`R_PendingPromises`, `do_resetCondHands`, and jumps to contexts that have been left.

## Caches: looking up variables

An environment is a frame: for each symbol the sequence of its cells there, which
should have one at most.  What a variable is bound to is left open; only whether a
binding is active is kept, and each search may find a promise or an active binding
whose evaluation does anything (all other actions) before the search goes on.  A cell
that was removed may still be in a cache and is told from a new one by `Copies`.

| code | definitions |
|---|---|
| `findVarInFrame3`, `set_var_in_frame` (looking) | `InFrame`, `NoteFound`, `FindVarInFrame3` |
| `SKIP_USING_SYMBITS` | `SKIP_USING_SYMBITS` |
| `findGlobalVar`, `R_GetGlobalCache` and others | `Cached`, `Uncached`, `FindGlobalVar`, `R_FlushGlobalCache` |
| `findVar`, `findFun_nospecsym`, `findVar1mode` | `StartSearch`, `PassFrame`, `ScanFrame`, `ScanGlobal`, `ScanBase`, `SearchFails`, `Evaluated` |
| `set_var_in_frame`, `gsetVar`, `set_var_nonlocal` | `Assign`, `set_var_nonlocal`, `Create`, `SetInBase` |
| `R_MakeActiveBinding` | `MakeActiveBinding`, `MakeActiveInBase` |
| `RemoveVariable`, `do_attach`, `do_detach` | `RemoveVariable`, `Attach`, `Detach` |
| `applyClosure_v`, `do_newenv` | `ApplyClosure`, `NewEnv` |
| `sggc_find_root_ptrs` (clearing caches) | `Collect` |

`Attach` copies a list (from which the new environment gets cells directly, noted nowhere) or
an environment, whose variables are assigned in the new one one by one before its cells
move to a hash table, so that `LASTSYMENV` and `LASTSYMBINDING` are about them (envir.c, lines
2448 and 1619-1620); a list with the same name twice is left out.

`Lookup` is the definition by the enclosing environments alone, and `FoundFrom` compares
it with what the caches would give, in every state and from every environment.  They may
differ in one case, the exception that `FoundFrom` states: `R_MakeActiveBinding` in the base
environment does not flush the global cache, on the ground that a regular binding cannot
be changed (lines 3227-3236).  After a search that failed the cache says "not found", and
a symbol made an active binding then is not found from `R_GlobalEnv` on, nor from any
environment that leads there, until the cache is flushed for another reason.

Runs:

* `Caches`: two environments besides those R starts with (a function called in another,
  an environment that is freed and allocated again as another, one attached), one symbol
  that is assigned and searched for, and a second one with other symbits, only ever an
  argument.  One search at a time: what a search within another does to the caches, the
  actions that evaluated code may do between its steps already do, except that a nested
  search for a function sets `LASTENVNOTFOUND` when it ends; `CachesProofs` has searches
  nested to any depth, and any environments and symbols.  `View` leaves out of the state
  what no step depends on: which of `Copies` a cell is (it keeps whether the caches have
  one that is still there), the caches of the symbol that is not searched for, and what
  searches for anything but functions have noted.
* `CachesStale` (violation): what `Caches` leaves out with `Redefines = FALSE`, that the
  code evaluated in a search binds the very symbol where it was not bound.  A freed
  environment whose address is used again while a search still has it as
  `last_sym_not_found` is left out with it (`Fresh`).

The configuration `CachesBase.cfg`, not among the runs of PROJECT.json, checks `FoundAlways`,
which is `FoundFrom` without its exception, and shows that it is needed: `StartSearch`,
`ScanGlobal` and `MakeActiveInBase` are enough.

Not modelled: user databases, locking, `findFunMethod` (lines 1477-1515, the same
pattern as `findFun`), `parent.env<-` (which the manual calls dangerous), the chains of
hash tables, namespaces, `mkUnbound`.

## Proofs

`HelpersUntakenProofs` proves for any set of helpers, any finite set of task indexes,
any `SpinEmpty` and any number of changes of the multithreading option:

* `TypeCorrect`: `TypeOK`.
* `Handshake`: `SuspendHandshake`, no wake-up is lost or wakes the wrong suspension.
* `Exclusion`: `TakenExclusively`.

None of the last two is inductive: that only one thread searches the queue rests on
who has `start_lock` set, and that on the helpers' places and the option.  `IInv` adds
`LockInv` (a helper has `start_lock` set in just the places of the code after setting
and before unsetting it; the master in just four, if multithreading) and `WakeInv` (of
the two suspend locks the master has the one set that `which_wakes` names;
`which_suspends` names the other only while a woken helper has not gone on; what the
master has read of `suspended` is still so).  The proof has one step per action for
each of `TypeOK`, `LockInv` and `WakeInv`.  It uses `ConstantsAssumption` and facts of
the standard library about finite sets.

Its second part goes on to the queue itself.  As long as `toggles <= 2`:

* `TasksKept`: `TaskInOnePlace`, no task is lost and none is started twice.
* `MasterUnsurprised`: `MasterNeverSurprised`, the two errors the code reports do not
  happen.

The condition is needed: with one more change two threads can be looking for a task
(run `UntakenToggle`).  Up to two changes the option is off only after the first and
before the second, and no helper is looking for a task then (`OptionInv`), so that
`Alone` holds: one thread at a time searches.  What it has seen stays in the queue
(`WindowInv`), and removing by copying the first entry over the one taken leaves each
other task there once (`Removed`).  The queue cannot get full: all its positions with
the task being put there would need one more index than there are (`NotFull`, by the
pigeonhole principle).  Every step then keeps `OnceInv`, that each task in use is in the
queue, with the master-only tasks, with a thread, or being put in the queue, and only
there.  The master finds what it merges with since nobody has it (`MergeFinds`), and a
helper is suspended only when nothing is queued or the master is about to wake it
(`SuspendInv`): what it has read of the queue under `untaken_lock` is still so.

`ContextsProofs` proves for stacks of any depth (`MaxDepth`) and any number of exit
codes, handlers and restarts:

* `TypeCorrect`: `TypeOK`, with `R_ToplevelContext` the innermost top level context.
* `CodeOnce`: `ExitOnce`, no exit code is run twice.
* `ErrorRestored`: `InErrorRestored`, the error state is taken back when it is over.
* `HandlersStayAlive`: `HandlersAlive`; `NotCalledAgain`: `NotReentered`; `CodeStarted`:
  `ExitsStarted`.

For the first three, the invariant is one of the stack, `StackInv`, since an exit code is in turn in the
context, in the loop that runs it, or in a frame that jumps have passed.  `CodesInv`
says that it waits in one place only and has not been run; `LinksInv` that each running
of exit code points to a function below it and a target below that, with no top level
context in between, so that a jump leaves `R_ToplevelContext` alone; `CendsInv` that the
outermost context that restores `inError` sets it to 0, whichever of them jumps pass
first, and that a jump under way has left none behind.  `UnwindStep` describes in these
terms what an `Unwind` does, whatever context of those it passes has exit code; `Jumped`
shows that this keeps `StackInv`; each other action changes few frames at the top.

The other three need to know what the frames keep for later, since it comes into use again
when a context is left.  `RInv` says so for each frame with those below it (`KeptInv`), and
in the same terms for `R_HandlerStack` and `R_RestartStack` with the whole stack (`NowInv`).
`ScopeInv`: each handler and restart is of a function that is below, and whose call goes on.
`HandledInv`: none of the handlers is one that a frame below has called, unless a jump under
way has left that frame.  `ApartInv` (environments are new) and `OnceInv` (no stack has a
handler twice) give that what comes after a handler in its stack does not have it.  `LateInv`:
a function that a jump has passed, or that is running its exit code, has none any more, but
for what exit code gave (`late`).  Without `late` no such function is used again; with it, its
frame may be, and `Gone` and `Known` make the difference.  A step changes or drops frames at
the top (`TakenOff`), puts one there (`PutOn`), or jumps (`JumpedKept`); `FramesKept` is what
these have in common.  That a jump drops no exit code (`Dropped`) is `LateInv` for what it
passed before and the choice of `next` for the rest.

The assumption is `ConstantsAssumption`.  `MaxOf` and `MinOf` rest on the
well-foundedness of the natural numbers (`WellFoundedInduction`).

`SggcProofs` proves all that the run `SggcHeap` checks, for any number of segments,
objects held and references, and any kinds that `ConstantsAssumption` allows:

* `TypesAreOK`: `TypeOK`; `CountsAreRight`: `ChunksCounted`.
* `FreeListIsExact`: `FreeListExact`, allocation finds all that is free and no other.
* `OldToNewIsCovered`: `OldToNewCovers`; `OldToNewIsInUse`: `OldToNewInUse`;
  `NothingDangles`: `NoDangling`.
* `SggcIsAHeap`: `ImplementsHeap`.  Allocating and registering constants are `Heap`'s
  `Allocate`, `SetRef` its `Store`, `HoldRef` its `Hold`, the two phases that remove free
  objects its `Free`; the other phases do not change what `Heap` sees.
* `FullCollectionIsFull`: `FullCollection`.

None of these is inductive: what a collection frees depends on what its earlier phases
left in the sets.  `HeapInv` therefore says what holds between the phases too.

* `TypeInv`, `Placed`, `Aged`: in which of the sets an object may be, by kind, generation
  and phase.
* `Referred`: only objects in use refer, and only to objects in use or constants, until
  freed ones are being removed.
* `Chained`: `chain` orders the segments of each kind, and has every segment with a free
  or new object.
* `FreeInv`: the objects allocation passed since the last collection (`AllocatedSince`)
  are in use, and are the new ones that the scan along the chain will find.
* `Covered`: the heart of it.  While the application runs an old object that is not noted
  refers to old enough ones only; once the notes have been followed, an object that has
  been looked at does not refer to one that may be freed.

When nothing is left to look at, the objects that were looked at are thus a closed set
with the roots in it, so that nothing that is freed was reachable; and those looked at
in a full collection are all reachable (`Marked`), so that nothing else is left.
`Counted` is `ChunksCounted` with the sums that hold while objects are on their way
between generations.  There is a lemma for each action.  That a chain with free objects
has a first segment with some is `ChainHasFirst`, from the library's
`WellFoundedInduction`.  The only assumption is `ConstantsAssumption`, which asks that
objects of the kinds in `Told` (strings) refer to nothing, that big kinds have one object
in a segment and that uncollected kinds are small, as in pqR.

`CachesProofs` proves all that the run `Caches` checks, for any environments, symbols
and sets of arguments, any number attached, and searches nested to any depth:

* `FoundAnywhere`: `FoundFrom`, the cached lookup is the uncached one, but for what was made
  an active binding in the base environment after a search that failed.
* `BoundOnce`: `OneBinding`.
* `PassedUnbound`: `PassesOnlyUnbound`.
* `TypesKept`: `TypeOK`; with it, that no note is about an environment that was freed.

The theorems assume `~Redefines` (and `ConstantsAssumption`, that the environments R
starts with are different and `None` is none): without it `CachesStale` shows a variable
that is bound and not found, from which follow a second cell for it when it is assigned, and a
note of a frame that was freed.

`FirstOn` follows the enclosing environments by a recursive function over a finite or
infinite set, so that it has a value has to be proved: `FirstStops` gives its equation
from `Acyclic`, that every set of frames has one whose enclosing environment is not in
the set, by a function that satisfies it.  The other lemmas of that part are by
`NoEndless`: what holds for the enclosing environment too, but not at the end, holds
nowhere.  `FirstInserted` is what attaching and detaching rest on, `FirstSkips` the
symbits, `WayKept` that what a search has noted is not freed while it goes on.

The invariant `CInv` adds to the properties: `EnvsInv` and `GlobalInv`, that the chains
have no cycle and what is attached is one chain from `R_GlobalEnv`; `BitsInv`, that a
frame's symbits admit what it has; `CacheInv`, that the global cache names the frame
where the symbol is (not that the cell is still there, which `Cached` asks), or else says "not
found" of what has become an active binding in the base environment;
`SearchInv`, that a search holds live environments, of which the one noted encloses the
one where it started and is not hashed; and `NotFoundInv`, that what is noted as not
found is not there.  `OneBinding` follows since `set_var_in_frame` creates a cell only
where these say that there is none (`InFrameIs`).

`HelpersTasksProofs` proves the invariants that `TasksAll` checks, and `Awaited`, for any finite set of task indexes, any variables, any
number of helpers and any kinds of tasks, those that set `Overwrites` too:

* `TasksStartInOrder`: `StartedInOrder`; `PipesAreCurrent`: `PipesCurrent`.
* `MarksCoverAll`: `MarksCover`; `MarksAreTakenOff`: `MarksEnd`.
* `TasksQueuedOnce`: `Queued`; `TablesAreTyped`: `TypeOK`.
* `CallsAwait`: `Awaited`, about what has happened when a call returns.

The theorems assume `NoMasterMerge`, that no task is both `HELPERS_MASTER_ONLY` and
`HELPERS_MERGE_IN`, as in pqR; with such tasks `Queued` is false, and then others (see
above).

`IInv` speaks of tasks and the order in which they were scheduled rather than of
positions, since `used` is compacted whenever tasks are noticed to be completed.
`TableInv` is about the table only, so that the steps of helpers and most calls keep it
for the same reasons:

* `PipeInv`: a pipe field names the last earlier task that computes the variable, or none
  if all of those have.  `UsedInv` says that `out_used` is set where it must be, without
  which `notice_completed` does not look for readers.
* `StartInv`, the inductive form of `StartedInOrder`, by variables.  A task looks only at
  its last producer; that earlier ones of the same variable are far enough follows from
  their being in order themselves (`ProducerIs`, by the last of those not finished).
* `AntiInv`: a task that writes what an earlier one reads is only scheduled when that one
  is done, since the application waits for the "in use" mark; `UseInv` says that those
  marks are on exactly as long as they must be, `BeforeInv` that an input that was not in
  use is no earlier task's, which lets `maybe_mark_not_in_use` start at the task itself.
* `EndInv` and, outside of it, `ComputeInv`, about the other marks.  While a master-now
  task is being scheduled in place of the one it merged with, one variable may have
  lost its mark although an earlier task still updates it.
* `QueueInv`: each queue has just the waiting tasks with its flags.
* `CallInv`, `NeededInv` and `WaitInv`: what the call under way has marked as needed
  before it waits.  They are what `Awaited` rests on: while a mark that is waited for is
  on, a task in the table has it (`EndInv`, `UseInv`), and that task is needed.

`Needed` is given by an equation for all positions at once; that it has a solution is
proved by building one from the last position down (`NeededIs`).

`HelpersInOrderProofs` proves `TasksTakeEffectInOrder`, the refinement: under the same
assumption, every step of `HelpersTasks` is one that `InOrder` allows, seen through
`Pending`, or leaves `Pending` as it is.

* `Waiting`, the tasks whose procedures have not returned, is a sequence without
  repetitions and so is known by its elements and their order (`EqualOrdered`); of `Pending`
  it then only needs to be said what each kind of change does to a sequence (`PendingWithout`,
  `PendingFilled`, `PendingJoined`, `PendingTaken` and others).
* `CallDoTask` is `Schedule`; `TaskComputes` is `Effect`, by `StartInv` and `AntiInv`; `DoNow`
  is `Effect` of the newest operation, by what `Awaited` says of it.
* `Merge` is `JoinEarlier`.  That the new operation conflicts with nothing scheduled since
  the target follows from `UseInv` (nothing uses the variable), from the target being the last
  that computes it, and from `JoinInv`, that the other operand has been computed.
  `MergeNow` is `JoinLater`, by `AntiInv` in place of `JoinInv`.
* That the other operand is `Known` follows from `JoinInv` too, as what a pending operation
  writes is marked (`ComputeInv`).
* All other steps, `Fill` among them, which puts the operation of the call in the table, leave
  `Pending` alone.
* `MarksShowAll` is about what the application sees of this: whenever it can look, nothing
  pending writes a variable that is not marked as being computed, and nothing reads one that
  is not marked as in use either.

`InOrderProofs` is about `InOrder` with values, for any variables, any values and any functions
that the operations compute:

* `ValuesAsMeant`: `Settled`.  With `TasksTakeEffectInOrder` and `MarksShowAll` this is why a
  variable that the application has waited for has the right value.
* `ValuesOnlyInOrder`: `InOrderValues` takes no steps but those of `InOrder`.

The invariant, `Leads`, is that the pending operations, done one after the other as scheduled,
lead from the values there are to those that are meant: there is a sequence of memories in
between.  For an operation that takes effect early a new sequence is built, by exchanging it
with each one before it (`Commute`, for two operations that do not conflict).  When the newest
is joined at the place of an earlier one it is moved there in the same way.  When the earlier
one is moved to the end, the memories in between are those in which it has not been done yet
(`Back`), and at the end what it reads is as it was (`KeepsValue`).  `JoinsDone` says that the
joined operation does what the two did, if the operand taken is still the same.  No run has
this module: `Schedule` of `InOrder` says what a step may be, which TLC cannot use to make one.
(With a choice of the operation in its place, two variables, two values and three operations
pending, TLC simulated seven million states with `Settled`, and without `Known` found the
example above.)

`MemoryProofs` proves for any finite sets of objects and weak references, any generations
and tasks, calls of `RunFinalizers` nested to any depth, and finalizers that register
finalizers or not:

* `NothingDangles`: `NoDangling`, which is about all that is used but `last` (see
  `MemoryLast`), and up to a write through it.
* `ReadyIsExact`: `ReadyExact`.
* `CalledOnce`: `FinalizedOnce`.
* `TypeCorrect`: `TypeOK`.

The model marks by turns, a fixed number of them, each a recursive function.  That these
have values and that the turns are enough has to be proved: `Turns` is what such a function
is, and `TurnsMake` shows, by induction and the pigeonhole principle, that a set to which
every turn that changes anything adds something is at the end of its turns the least one that
does not change.  So `ClosedIs`, `ListedIs`, `MarkedAfterWeakIs` and `ReachableIs`: of the
passes over the list of weak references, one for each is enough, since one that marks
anything marks all that a weak reference has.  `ReadyExact` is then that two least sets, what
the collector marks and what the property calls reachable, are one in the other, and the same
in a full collection.

The invariant has `LiveInv`, that what is in use refers only to what is in use, as do the
application, the tasks and the list, so that the closure of these is in use; `RunsInv`, that
what calls of `RunFinalizers` protect is in use, and that one that goes on is at an entry in
use and has no finalizer under way; `RanInv`, that an entry whose finalizer was called has
none any more, whatever the (perhaps out of date) pointers `last` of calls further out write
to its `next`.  The assumption is `ConstantsAssumption`.

Its last part assumes `~Nested` too, that finalizers register no finalizers; otherwise both
are false (run `MemoryLost`):

* `NoneIsLost`: `StaysRegistered`.
* `AllReadyAreRun`: `ReadyAreRun`.

Neither can be had from the entries of the list alone, since a call of `RunFinalizers` links
what it keeps to what it read before the finalizer ran, and a collection from the finalizer
may have taken entries out in between.  `OInv` says that there is an order of the entries in
use, the one of the list before anything was taken out, such that no pointer that will be
followed or written passes a registered entry: `R_weak_refs` and each `next` (`ListInv`), and
where a call goes on, as seen from its `last` (`CallsInv`), unless `last` is no longer in use,
when writing to it changes nothing that is in the list.  The order exists as long as nothing
is put in the list while calls are under way, which `~Nested` gives.  If a registered entry
were not in the list, the last listed one before it would have a `next` that passes it
(`RegisteredListed`).  That the innermost call has not passed anything ready (`ReadyInv`) then
leaves nothing ready when the outermost one returns: nothing can come after `Nil`.

Only model-checked: liveness (`HelpersFinishAlone`, and the two `EveryCallReturns`), which is
out of TLAPS's reach.  Each other property of a passing run has its theorem.

"Faulty" operators in the modules are plausible mistakes; each property of a passing
run is violated when one of them replaces the definition that follows it
(`mutants` in `PROJECT.json`).

## Running

    tlc -workers 2 -config TasksAll.cfg MCHelpersTasks.tla
    tlapm HelpersUntakenProofs.tla
    tlapm HelpersTasksProofs.tla
    tlapm HelpersInOrderProofs.tla
    tlapm InOrderProofs.tla
    tlapm MemoryProofs.tla
    tlapm ContextsProofs.tla
    tlapm CachesProofs.tla
    tlapm SggcProofs.tla
