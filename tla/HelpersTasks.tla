---------------------------- MODULE HelpersTasks ----------------------------
(***************************************************************************)
(* The tasks of src/src/extra/helpers/helpers.c: what helpers_do_task does *)
(* with a task (merge it with one scheduled before, put it in a queue or   *)
(* do it now), which tasks a helper or the master may start, how the       *)
(* master notices those that are done, and the procedures that wait.       *)
(*                                                                         *)
(* The master's steps are whole stretches of code that do not wait.  That  *)
(* they may be taken as one step with the queues as sets, though helpers   *)
(* read the task table and the untaken queue meanwhile, rests on the locks *)
(* that HelpersUntaken is about.  A task that is pipelined into another    *)
(* gives it its output bit by bit; here only the last bit shows.           *)
(***************************************************************************)
EXTENDS Integers, FiniteSets, Sequences, SequencesExt, FiniteSetsExt

CONSTANTS Tasks,        \* the task indexes, 1..MAX_TASKS
          None,         \* index 0
          Vars,         \* the variables that tasks compute or use
          Null,         \* no variable
          NumHelpers,   \* helpers_num
          Kinds,        \* the tasks that the application may schedule
          Overwrites    \* whether it schedules tasks that overwrite a variable
                        \* still being computed without taking it as input

\* The HELPERS_ flag bits.
PipeIn(w) == <<"PIPE_IN0", "PIPE_IN1", "PIPE_IN2">>[w + 1]
Flags == {"PIPE_IN0", "PIPE_IN1", "PIPE_IN2", "PIPE_OUT", "MERGE_IN",
          "MERGE_OUT", "HOLD", "MASTER_ONLY", "MASTER_NOW"}

\* What helpers_do_task is told of a task: var[0] is the output variable,
\* var[1] and var[2] are the inputs.
TaskKinds == [var : [0..2 -> Vars \union {Null}], flags : SUBSET Flags]

ASSUME ConstantsAssumption ==
  /\ IsFiniteSet(Tasks) /\ Tasks # {} /\ None \notin Tasks
  /\ Null \notin Vars
  /\ NumHelpers \in Nat
  /\ Kinds \subseteq TaskKinds
  /\ Overwrites \in BOOLEAN

MaxTasks == Cardinality(Tasks)
MaxOpsMerged == 3       \* MAX_OPS_MERGED, "Must be 3"

VARIABLES
  task,            \* the table of tasks
  used,            \* the task indexes in use, in the order scheduled
  untaken, on_hold, master_only,   \* the queues, only the last kept in order
  in_use, being_computed,          \* the variables with these marks
  this_task,       \* the task that the master is doing
  pc, call         \* where the master is, and in which call

queues == <<untaken, on_hold, master_only>>
marks == <<in_use, being_computed>>
vars == <<task, used, queues, marks, this_task, pc, call>>

\* "stage" stands for the helper field (-1 if waiting) and the done flag, and
\* for whether the task procedure has returned; "ops" is how many operations
\* have been merged in the task.
NoKind == [var |-> [w \in 0..2 |-> Null], flags |-> {}]
Blank == [var |-> NoKind.var, flags |-> {}, stage |-> "waiting", ops |-> 1,
          pipe |-> [w \in 0..2 |-> None], needed |-> 0, out_used |-> FALSE,
          not_in_use_before |-> [w \in 1..2 |-> FALSE]]

Idle == [op |-> "none", kind |-> NoKind, ops |-> 1, vs |-> {}]

Init ==
  /\ task = [t \in Tasks |-> Blank] /\ used = << >>
  /\ untaken = {} /\ on_hold = {} /\ master_only = << >>
  /\ in_use = {} /\ being_computed = {}
  /\ this_task = None /\ pc = "app" /\ call = Idle

helpers_tasks == Len(used)
At(i) == task[used[i]]
Position(t) == CHOOSE i \in 1..helpers_tasks : used[i] = t
Done(t) == task[t].stage = "done"

\* Those of the task indexes in s that are not in S, in their order.  (SelectSeq would
\* do, but the provers know nothing of it.)
Left(s, S) ==
  LET left[n \in 0..Len(s)] == IF n = 0 THEN << >>
                               ELSE IF s[n] \in S THEN left[n - 1]
                               ELSE Append(left[n - 1], s[n])
  IN  left[Len(s)]

\* Operators with a "Faulty" name differ from the one that follows them as a
\* plausible mistake in the code would: no action uses them, they serve to see
\* that the properties would find the mistake.

FaultyInputs(k) == {k.var[1], k.var[2]}

Inputs(k) == {k.var[1], k.var[2]} \ {Null}

FaultyWriter(v) ==
  LET at == {i \in 1..helpers_tasks : At(i).var[0] = v}
  IN  IF v = Null \/ at = {} THEN None ELSE used[Min(at)]

\* The task scheduled last of those that output v.
Writer(v) ==
  LET at == {i \in 1..helpers_tasks : At(i).var[0] = v}
  IN  IF v = Null \/ at = {} THEN None ELSE used[Max(at)]

-----------------------------------------------------------------------------
(* Starting and doing a task, in a helper or in the master.                *)

\* Where task t gets var[w] from, if not yet done.
Producer(t, w) ==
  LET p == task[t].pipe[w] IN IF p # None /\ ~Done(p) THEN p ELSE None

FaultyRunnable(t) ==
  \A w \in 0..2 :
    LET p == Producer(t, w) IN p # None => task[p].stage # "waiting"

\* runnable(): a producer must have started and be able to pipeline to t.
Runnable(t) ==
  \A w \in 0..2 :
    LET p == Producer(t, w)
    IN  p # None => /\ task[p].stage # "waiting"
                    /\ "PIPE_OUT" \in task[p].flags
                    /\ PipeIn(w) \in task[t].flags

Piped(t) == \E w \in 0..2 : Producer(t, w) # None

\* Needed tasks first, and then those that need no pipelining.
Rank(t) == (IF task[t].needed # 0 THEN 2 ELSE 0) + (IF Piped(t) THEN 0 ELSE 1)

find_untaken_runnable(only_needed) ==
  LET can == {t \in untaken : Runnable(t) /\ (only_needed => task[t].needed # 0)}
  IN  {t \in can : \A x \in can : Rank(x) <= Rank(t)}

Start(t) ==
  /\ task' = [task EXCEPT ![t].stage = "running"]
  /\ untaken' = untaken \ {t}

Busy == {t \in Range(used) : task[t].stage \in {"running", "computed"}}
          \ {this_task}

\* helper_proc, in one of the helpers.
HelperStart ==
  /\ Cardinality(Busy) < NumHelpers
  /\ \E t \in find_untaken_runnable(FALSE) : Start(t)
  /\ UNCHANGED <<used, on_hold, master_only, marks, this_task, pc, call>>

\* The task procedure returns, having waited for the inputs piped to it.
TaskComputes(t) ==
  /\ task[t].stage = "running"
  /\ \A w \in 0..2 : LET p == Producer(t, w)
                     IN  p # None /\ PipeIn(w) \in task[t].flags =>
                           task[p].stage = "computed"
  /\ task' = [task EXCEPT ![t].stage = "computed"]
  /\ UNCHANGED <<used, queues, marks, this_task, pc, call>>

\* done = 1
TaskDone(t) ==
  /\ task[t].stage = "computed"
  /\ task' = [task EXCEPT ![t].stage = "done"]
  /\ this_task' = IF this_task = t THEN None ELSE this_task
  /\ UNCHANGED <<used, queues, marks, pc, call>>

run_this_task(t) == TaskComputes(t) \/ TaskDone(t)

\* do_task_in_master, when it finds a task.  (When it does not, or a helper
\* has start_lock set, it returns with nothing changed.)
do_task_in_master(only_needed) ==
  LET m == IF master_only = << >> THEN None ELSE Head(master_only)
  IN  /\ this_task = None
      /\ IF m # None /\ Runnable(m) /\ (only_needed => task[m].needed # 0)
           THEN /\ master_only' = Tail(master_only)
                /\ Start(m)
                /\ this_task' = m
           ELSE /\ \E t \in find_untaken_runnable(only_needed) :
                     Start(t) /\ this_task' = t
                /\ UNCHANGED master_only
      /\ UNCHANGED <<used, on_hold, marks, pc, call>>

-----------------------------------------------------------------------------
(* notice_completed: tasks that are done leave the table.                  *)

FaultyReaders(i) == {}

\* Where the tasks are that may take input from the one at position i: those
\* after it, up to the next one that also updates its output variable.
Readers(i) ==
  IF ~At(i).out_used THEN {}
  ELSE {j \in (i + 1)..helpers_tasks :
          \A k \in (i + 1)..(j - 1) : At(k).pipe[0] # used[i]}

FaultyStillBeingComputed(i) == FALSE

StillBeingComputed(i) ==
  \E j \in Readers(i) : \/ At(j).pipe[0] = used[i]
                        \/ At(j).var[0] = At(i).var[0]

FaultyUnmarkNone(i) == {}

\* maybe_mark_not_in_use: the inputs of the task at position i that no other
\* uncompleted task uses, looking only at later tasks if the input was not in
\* use before.
maybe_mark_not_in_use(i) ==
  {At(i).var[w] : w \in {x \in 1..2 :
     /\ At(i).var[x] \notin {Null, At(i).var[0]}
     /\ \A j \in (IF At(i).not_in_use_before[x] THEN i + 1 ELSE 1)..helpers_tasks :
          j # i /\ At(i).var[x] \in Inputs(At(j)) \ {At(j).var[0]}
            => Done(used[j])}}

NoticeCompleted ==
  LET done == {i \in 1..helpers_tasks : Done(used[i])}
      finished == {used[i] : i \in done}
      Cleared(t, p) == \E i \in done : used[i] = p /\ Position(t) \in Readers(i)
  IN  /\ used' = Left(used, finished)
      /\ task' = [t \in Tasks |->
           IF t \in finished \/ t \notin Range(used) THEN Blank
           ELSE [task[t] EXCEPT !.pipe =
                   [w \in 0..2 |-> IF Cleared(t, @[w]) THEN None ELSE @[w]]]]
      /\ being_computed' = being_computed
           \ {At(i).var[0] : i \in {x \in done : ~StillBeingComputed(x)}}
      /\ in_use' = in_use \ UNION {maybe_mark_not_in_use(i) : i \in done}

-----------------------------------------------------------------------------
(* mark_as_needed, and how the procedures that wait use it.                *)

FaultyNeeded(own, mo, top) ==
  [i \in 1..top |-> IF own[i] # 0 THEN own[i] ELSE At(i).needed]

\* The new "needed" fields, by position, when those given by own are marked,
\* and then, from the most recent of the first "top" tasks to the oldest, the
\* tasks that a needed one takes input from and, if mo is not 0, the master-only
\* tasks before a needed master-only one.
Needed(own, mo, top) ==
  LET MasterOnly(i) == "MASTER_ONLY" \in At(i).flags
      later(nd, i) == {j \in (i + 1)..top : nd[j] # 0}
      field(nd, i) ==
        IF At(i).needed = 1 THEN 1
        ELSE IF own[i] # 0 THEN own[i]
        ELSE IF mo # 0 /\ MasterOnly(i) /\ \E j \in later(nd, i) : MasterOnly(j) THEN mo
        ELSE IF \E j \in later(nd, i), w \in 0..2 : At(j).pipe[w] = used[i] THEN -1
        ELSE At(i).needed
  IN  CHOOSE nd \in [1..top -> {-1, 0, 1}] : \A i \in 1..top : nd[i] = field(nd, i)

FaultyMark(nd) ==
  /\ task' = [t \in Tasks |->
       IF \E i \in DOMAIN nd : used[i] = t
         THEN [task[t] EXCEPT !.needed = nd[Position(t)]] ELSE task[t]]
  /\ untaken' = untaken \union
       (on_hold \intersect {used[i] : i \in {x \in DOMAIN nd : nd[x] # 0}})
  /\ UNCHANGED on_hold

\* Tasks that become needed are put on hold no longer.
mark_as_needed(nd) ==
  LET release == on_hold \intersect
                   {used[i] : i \in {x \in DOMAIN nd : nd[x] # 0}}
  IN  /\ task' = [t \in Tasks |->
           IF \E i \in DOMAIN nd : used[i] = t
             THEN [task[t] EXCEPT !.needed = nd[Position(t)]] ELSE task[t]]
      /\ untaken' = untaken \union release
      /\ on_hold' = on_hold \ release

AnyNeeded(nd) == \E i \in DOMAIN nd : nd[i] # 0

\* The master is done with the call.
Return == pc' = "app" /\ call' = Idle

FaultyStillNeeded ==
  \E i \in 1..Len(used') : LET info == task'[used'[i]]
                          IN  info.needed # 0 /\ info.stage = "waiting"

\* wait_while_any_needed, after a round of do_task_in_master(1).
StillNeeded ==
  \E i \in 1..Len(used') :
    LET info == task'[used'[i]]
    IN  info.needed = 1 \/ (info.needed = -1 /\ info.stage = "waiting")

NoticeNeeded ==
  /\ pc = "needed" /\ this_task = None
  /\ NoticeCompleted
  /\ IF StillNeeded THEN UNCHANGED <<pc, call>>
     ELSE IF "MASTER_NOW" \in call.kind.flags
       THEN pc' = "now" /\ UNCHANGED call ELSE Return
  /\ UNCHANGED <<queues, this_task>>

-----------------------------------------------------------------------------
(* helpers_do_task.                                                        *)

\* The other operand of an operation that may merge with the one computing its output
\* is a scalar, for which do_arith waits.
ScalarComputed(k) ==
  "MERGE_IN" \in k.flags /\ k.var[0] \in being_computed =>
    (Inputs(k) \ {k.var[0]}) \intersect being_computed = {}

\* The tasks that the application may schedule now: their output is not in use
\* (and not being computed, unless it is also an input, if so restricted).
Allowed ==
  {k \in Kinds : /\ k.var[0] \notin in_use
                 /\ k.var[0] \in being_computed \ Inputs(k) => Overwrites
                 /\ ScalarComputed(k)}

\* Tasks that the master must do are not put on hold.
CallDoTask ==
  /\ pc = "app"
  /\ \E k \in Allowed :
       call' = [Idle EXCEPT !.op = "do_task", !.kind =
            IF k.flags \intersect {"MASTER_ONLY", "MASTER_NOW"} # {}
              THEN [k EXCEPT !.flags = @ \ {"HOLD"}] ELSE k]
  /\ NoticeCompleted
  /\ pc' = "called"
  /\ UNCHANGED <<queues, this_task>>

\* In the call, the master not being busy with a task meanwhile.
Called == pc = "called" /\ this_task = None

kind == call.kind
ForMaster == kind.flags \intersect {"MASTER_ONLY", "MASTER_NOW"} # {}

\* The task that the new one may merge with, and whether it may.
Target == Writer(kind.var[0])

\* (helpers_can_merge allows no merge with a task that has all the operations.)
CanMerge ==
  /\ call.op = "do_task" /\ "MERGE_IN" \in kind.flags
  /\ Target # None /\ kind.var[0] \in being_computed
  /\ "MERGE_OUT" \in task[Target].flags /\ task[Target].ops < MaxOpsMerged
  /\ "MASTER_ONLY" \in task[Target].flags /\ ForMaster =>
       /\ master_only # << >> /\ Last(master_only) = Target
       /\ "MASTER_NOW" \in kind.flags => Head(master_only) = Target
  /\ task[Target].stage = "waiting"

\* What helpers_merge_proc returns: the flags to clear when no more operations fit.
FlagsToClear ==
  IF task[Target].ops + 1 = MaxOpsMerged THEN {"MERGE_OUT", "HOLD"} ELSE {}

MergedFlags ==
  ((task[Target].flags \ {"MERGE_IN", "MERGE_OUT", "PIPE_OUT"})
     \union (kind.flags \intersect {"MERGE_OUT", "PIPE_OUT"})) \ FlagsToClear

\* While a helper has start_lock set, the master does tasks.
MergeWait ==
  /\ Called /\ CanMerge
  /\ NumHelpers > 0
  /\ Target \notin on_hold /\ "MASTER_ONLY" \notin task[Target].flags
  /\ do_task_in_master(FALSE)

\* The target takes on the new operation and changes queue if need be.  The
\* code exits if it looks for it in vain in the untaken queue.
Merge ==
  /\ Called /\ CanMerge /\ "MASTER_NOW" \notin kind.flags
  /\ LET flags == MergedFlags
         move == "MASTER_ONLY" \notin flags /\ "MASTER_ONLY" \in kind.flags
         unhold == "HOLD" \in flags /\ "HOLD" \notin kind.flags /\ ~ForMaster
                     /\ "MASTER_ONLY" \notin flags
         lost == move /\ Target \notin untaken \union on_hold
     IN  /\ task' = [task EXCEPT ![Target].ops = @ + 1, ![Target].flags =
                       IF unhold THEN flags \ {"HOLD"} ELSE flags]
         /\ untaken' = IF move THEN untaken \ {Target}
                       ELSE IF unhold /\ Target \in on_hold
                         THEN untaken \union {Target} ELSE untaken
         /\ on_hold' = IF move \/ unhold THEN on_hold \ {Target} ELSE on_hold
         /\ master_only' = IF move /\ ~lost THEN Append(master_only, Target)
                                            ELSE master_only
         /\ IF lost THEN pc' = "exit" /\ UNCHANGED call ELSE Return
  /\ in_use' = in_use \union (Inputs(task[Target]) \ {kind.var[0]})
  /\ UNCHANGED <<used, being_computed, this_task>>

\* A master-now task takes the target out of the table, to be done with it.
MergeNow ==
  /\ Called /\ CanMerge /\ "MASTER_NOW" \in kind.flags
  /\ call' = [call EXCEPT !.op = "no_merge", !.ops = task[Target].ops + 1, !.kind =
                [var |-> task[Target].var,
                 flags |-> (MergedFlags \ {"MASTER_ONLY"}) \union {"MASTER_NOW"}]]
  /\ being_computed' = being_computed \ {kind.var[0]}
  /\ in_use' = in_use \ maybe_mark_not_in_use(Position(Target))
  /\ used' = Left(used, {Target})
  /\ task' = [task EXCEPT ![Target] = Blank]
  /\ untaken' = untaken \ {Target} /\ on_hold' = on_hold \ {Target}
  /\ master_only' = IF "MASTER_ONLY" \in task[Target].flags
                      THEN Tail(master_only) ELSE master_only
  /\ UNCHANGED <<this_task, pc>>

NoMerge == Called /\ call.op \in {"do_task", "no_merge"} /\ ~CanMerge

\* Tasks on hold that compute an input are released, and if the table is full
\* of tasks on hold, one of them.
Schedule ==
  /\ NoMerge /\ "MASTER_NOW" \notin kind.flags
  /\ LET held == on_hold \ {t \in on_hold : task[t].var[0] \in Inputs(kind)}
     IN  \E one \in IF held = Tasks THEN Tasks ELSE {None} :
           /\ on_hold' = held \ {one}
           /\ untaken' = untaken \union (on_hold \ on_hold')
  /\ pc' = IF helpers_tasks = MaxTasks THEN "full" ELSE "fill"
  /\ UNCHANGED <<task, used, master_only, marks, this_task, call>>

\* The table is full: do_task_in_master(0), then notice completed tasks.
NoticeFull ==
  /\ pc = "full" /\ this_task = None
  /\ NoticeCompleted
  /\ pc' = IF Len(used') = MaxTasks THEN "full" ELSE "fill"
  /\ UNCHANGED <<queues, this_task, call>>

\* The tasks that the new one takes its input from.  An input not marked as
\* being computed is not looked for.
Pipes ==
  [w \in 0..2 |->
     IF w = 0 \/ kind.var[w] = kind.var[0] \/ kind.var[w] \in being_computed
       THEN Writer(kind.var[w]) ELSE None]

\* An entry is filled in, its variables are marked, and it goes in a queue.
Fill ==
  /\ pc = "fill"
  /\ LET inputs == Inputs(kind) \ {kind.var[0]}
         Queue(q, flag) == IF flag THEN q ELSE {}
         hold == "HOLD" \in kind.flags
         master == "MASTER_ONLY" \in kind.flags
     IN  \E t \in Tasks \ Range(used) :
           /\ task' = [x \in Tasks |->
                IF x = t
                  THEN [Blank EXCEPT !.var = kind.var, !.flags = kind.flags,
                          !.pipe = Pipes, !.not_in_use_before =
                            [w \in 1..2 |-> kind.var[w] \in inputs \ in_use]]
                  ELSE [task[x] EXCEPT !.out_used =
                          @ \/ \E w \in 0..2 : Pipes[w] = x]]
           /\ used' = Append(used, t)
           /\ master_only' = IF master THEN Append(master_only, t)
                                       ELSE master_only
           /\ on_hold' = IF hold THEN on_hold \union {t} ELSE on_hold
           /\ untaken' = IF master \/ hold THEN untaken ELSE untaken \union {t}
           /\ in_use' = in_use \union inputs
           /\ being_computed' = being_computed \union ({kind.var[0]} \ {Null})
  /\ Return
  /\ UNCHANGED this_task

\* A master-now task: the tasks on hold that compute an input are released,
\* and the tasks it needs, as well as all master-only ones, are waited for.
ScheduleNow ==
  /\ NoMerge /\ "MASTER_NOW" \in kind.flags
  /\ LET Piping(i, w) == /\ "PIPE_OUT" \in At(i).flags
                           /\ PipeIn(w) \in kind.flags
         own == [i \in 1..helpers_tasks |->
           LET ws == {w \in 0..2 : At(i).var[0] \in {kind.var[w]} \ {Null}}
           IN  IF "MASTER_ONLY" \in At(i).flags THEN 1
               ELSE IF ws = {} THEN 0
               ELSE IF \A w \in ws : Piping(i, w) THEN -1 ELSE 1]
         nd == Needed(own, 0, helpers_tasks)
     IN  /\ mark_as_needed(nd)
         /\ pc' = IF AnyNeeded(nd) THEN "needed" ELSE "now"
  /\ UNCHANGED <<used, master_only, marks, this_task, call>>

\* The master-now task is done, having waited for the inputs piped to it.
DoNow ==
  /\ pc = "now"
  /\ \A w \in 0..2 : LET p == Pipes[w]
                     IN  p # None /\ PipeIn(w) \in kind.flags =>
                           task[p].stage \in {"computed", "done"}
  /\ Return
  /\ UNCHANGED <<task, used, queues, marks, this_task>>

-----------------------------------------------------------------------------
(* The other calls.                                                        *)

\* helpers_wait_until_not_being_computed2 and helpers_wait_until_not_in_use, when
\* the macros WAIT_UNTIL_COMPUTED_2 and WAIT_UNTIL_NOT_IN_USE call them.
CallWait ==
  /\ pc = "app"
  /\ \/ \E v1 \in being_computed, v2 \in Vars :
            call' = [Idle EXCEPT !.op = "computed", !.vs = {v1, v2}]
     \/ \E v \in in_use : call' = [Idle EXCEPT !.op = "not_in_use", !.vs = {v}]
  /\ NoticeCompleted
  /\ pc' = "called"
  /\ UNCHANGED <<queues, this_task>>

Wait ==
  /\ Called /\ call.op \in {"computed", "not_in_use"}
  /\ LET computed == call.op = "computed"
         own == [i \in 1..helpers_tasks |->
           IF \/ computed /\ At(i).var[0] \in call.vs
              \/ ~computed /\ call.vs \intersect (Inputs(At(i)) \ {At(i).var[0]}) # {}
             THEN 1 ELSE 0]
         nd == Needed(own, 1, helpers_tasks)
     IN  IF /\ call.vs \intersect (IF computed THEN being_computed
                                              ELSE in_use) # {}
            /\ AnyNeeded(nd)
           THEN /\ mark_as_needed(nd)
                /\ pc' = "needed"
                /\ UNCHANGED call
           ELSE Return /\ UNCHANGED <<task, untaken, on_hold>>
  /\ UNCHANGED <<used, master_only, marks, this_task>>

\* helpers_wait_for_all releases all holds and needs everything.
WaitForAll ==
  /\ pc = "app" /\ used # << >>
  /\ untaken' = untaken \union on_hold /\ on_hold' = {}
  /\ task' = [t \in Tasks |-> IF t \in Range(used)
                THEN [task[t] EXCEPT !.needed = 1] ELSE task[t]]
  /\ pc' = "needed" /\ call' = [Idle EXCEPT !.op = "all"]
  /\ UNCHANGED <<used, master_only, marks, this_task>>

\* helpers_release_holds
ReleaseHolds ==
  /\ pc = "app" /\ on_hold # {}
  /\ untaken' = untaken \union on_hold /\ on_hold' = {}
  /\ UNCHANGED <<task, used, master_only, marks, this_task, pc, call>>

\* helpers_start_computing_var, for a variable whose computation has not begun.
StartComputing ==
  /\ pc = "app"
  /\ \E v \in Vars :
       /\ Writer(v) # None /\ task[Writer(v)].stage = "waiting"
       /\ LET top == Position(Writer(v))
              own == [i \in 1..top |-> IF i = top THEN -1 ELSE 0]
              nd == Needed(own, -1, top)
          IN  /\ mark_as_needed(nd)
              /\ pc' = IF \E i \in 1..top : /\ nd[i] # 0
                                            /\ "MASTER_ONLY" \in At(i).flags
                         THEN "needed" ELSE "starting"
       /\ call' = [Idle EXCEPT !.op = "start", !.vs = {v}]
  /\ UNCHANGED <<used, master_only, marks, this_task>>

\* It returns when a helper has started, and when no helper is idle it waits as
\* the other procedures do.
NoticeStarting ==
  /\ pc = "starting"
  /\ NoticeCompleted
  /\ LET t == Writer(CHOOSE v \in call.vs : TRUE)
     IN  IF NumHelpers - Cardinality({x \in Range(used') :
              task'[x].stage \in {"running", "computed"}}) <= 0
           THEN pc' = "needed" /\ UNCHANGED call
         ELSE IF t = None \/ task[t].stage # "waiting"
           THEN Return
         ELSE UNCHANGED <<pc, call>>
  /\ UNCHANGED <<queues, this_task>>

application ==
  CallDoTask \/ CallWait \/ WaitForAll \/ ReleaseHolds \/ StartComputing

master_call ==
  \/ MergeWait \/ Merge \/ MergeNow \/ Schedule \/ NoticeFull \/ Fill
  \/ ScheduleNow \/ DoNow \/ Wait \/ NoticeNeeded \/ NoticeStarting
  \/ pc = "full" /\ do_task_in_master(FALSE)
  \/ pc = "needed" /\ do_task_in_master(TRUE)

Next ==
  \/ application \/ master_call \/ HelperStart
  \/ \E t \in Tasks : run_this_task(t)

Spec == Init /\ [][Next]_vars

\* The master goes on with a call, doing a task when it can do one; helpers take
\* tasks and every task procedure returns.
FairSpec ==
  /\ Spec
  /\ WF_vars(master_call) /\ WF_vars(HelperStart)
  /\ WF_vars(pc = "full" /\ do_task_in_master(FALSE))
  /\ WF_vars(pc = "needed" /\ do_task_in_master(TRUE))
  /\ \A t \in Tasks : WF_vars(run_this_task(t))

-----------------------------------------------------------------------------
(* What must hold.                                                         *)

\* Every variable keeps its type (the task table and queues, lines 249-370).
TypeOK ==
  /\ task \in [Tasks ->
       [var : [0..2 -> Vars \union {Null}], flags : SUBSET Flags,
        stage : {"waiting", "running", "computed", "done"},
        ops : 1..MaxOpsMerged,
        pipe : [0..2 -> Tasks \union {None}], needed : {-1, 0, 1},
        out_used : BOOLEAN, not_in_use_before : [1..2 -> BOOLEAN]]]
  /\ used \in Seq(Tasks) /\ IsInjective(used)
  /\ untaken \subseteq Tasks /\ on_hold \subseteq Tasks
  /\ master_only \in Seq(Tasks)
  /\ in_use \subseteq Vars /\ being_computed \subseteq Vars
  /\ this_task \in Tasks \union {None}
  /\ pc \in {"app", "called", "full", "fill", "needed", "now", "starting", "exit"}
  /\ call \in [op : {"none", "do_task", "no_merge", "computed", "not_in_use",
                     "all", "start"},
               kind : TaskKinds, ops : 1..MaxOpsMerged, vs : SUBSET Vars]

\* Two tasks that may not be done in either order.
Conflict(a, b) ==
  \/ a.var[0] # Null /\ a.var[0] \in {b.var[0]} \union Inputs(b)
  \/ b.var[0] # Null /\ b.var[0] \in Inputs(a)

\* A task has started only if each earlier one that it conflicts with has its
\* output, or has started too and pipelines it (runnable, lines 1154-1206).
StartedInOrder ==
  \A i, j \in 1..helpers_tasks :
    i < j /\ Conflict(At(i), At(j)) /\ At(j).stage # "waiting" =>
      \/ At(i).stage \in {"computed", "done"}
      \/ /\ At(i).stage = "running" /\ "PIPE_OUT" \in At(i).flags
         /\ At(j).stage = "running"
         /\ \A w \in 0..2 : At(j).var[w] = At(i).var[0] =>
              PipeIn(w) \in At(j).flags

\* The pipe fields of a task are those of the last earlier tasks in the table
\* that compute its variables: no index is left behind that a new task might
\* get, and none is missing (notice_completed_proc, lines 1476-1508, and
\* helpers_do_task, lines 2467-2564).
PipesCurrent ==
  \A j \in 1..helpers_tasks, w \in 0..2 :
    LET v == At(j).var[w]
        writers == {i \in 1..(j - 1) : v # Null /\ At(i).var[0] = v}
    IN  \/ /\ At(j).pipe[w] = None
           /\ \A i \in writers : At(i).stage \in {"computed", "done"}
        \/ writers # {} /\ At(j).pipe[w] = used[Max(writers)]

\* Whenever the application can look, a variable that a task still has to
\* compute, or to use, is marked as such, so that it does not take its value or
\* change it too early (maybe_mark_not_in_use, lines 1395-1431).
MarksCover ==
  pc = "app" => \A i \in 1..helpers_tasks :
    At(i).stage \in {"waiting", "running"} =>
      /\ At(i).var[0] \in being_computed \union {Null}
      /\ Inputs(At(i)) \ {At(i).var[0]} \subseteq in_use

\* No mark outlives the tasks in the table that it is for: nobody would ever
\* take it off (notice_completed_proc, lines 1499-1549).
MarksEnd ==
  /\ in_use \subseteq UNION {Inputs(At(i)) : i \in 1..helpers_tasks}
  /\ being_computed \subseteq {At(i).var[0] : i \in 1..helpers_tasks}

\* A task not yet started is in one of the three queues, and in no other, whichever
\* merges, waits and releases have moved it (helpers_do_task, lines 2092-2182,
\* 2301-2313 and 2603-2626, put_in_untaken, lines 1376-1388).
Queued ==
  \A t \in Tasks :
    Cardinality({q \in {untaken, on_hold, Range(master_only)} : t \in q}) =
      IF t \in Range(used) /\ task[t].stage = "waiting" THEN 1 ELSE 0

\* Seen as InOrder sees them, the operations that have had no effect yet are those
\* of the tasks whose procedures have not returned, and of the task scheduled by
\* the call under way, if it has no entry in the table so far.
Pending ==
  LET Operation(t) == [var |-> task[t].var, ops |-> task[t].ops]
      waiting == Left(used, {t \in Range(used) : task[t].stage \in {"computed", "done"}})
  IN  [i \in 1..Len(waiting) |-> Operation(waiting[i])]
        \o IF call.op \in {"do_task", "no_merge"}
             THEN << [var |-> kind.var, ops |-> call.ops] >> ELSE << >>

InOrderTasks == INSTANCE InOrder WITH pending <- Pending

\* Tasks started by whichever thread, pipelined, held, merged with earlier ones or
\* taken out to be done at once take effect as if done when scheduled
\* (helpers_do_task, lines 1904-2313 and 2467-2640, and runnable).
TakeEffectInOrder == InOrderTasks!Spec

\* When a waiting call returns, the marks it waited for are off; and when the
\* master does a master-now task, all it conflicts with have their output
\* (wait_while_any_needed, lines 1637-1656, which looks only at "needed" marks).
Awaited ==
  [][pc # "app" /\ pc' = "app" =>
       /\ call.op = "computed" => call.vs \intersect being_computed' = {}
       /\ call.op = "not_in_use" => call.vs \intersect in_use' = {}
       /\ call.op = "all" => used' = << >>
       /\ pc = "now" => \A i \in 1..helpers_tasks : Conflict(At(i), kind) =>
                          At(i).stage \in {"computed", "done"}]_vars

\* A task that may no longer be merged into, and whose HELPERS_HOLD helpers_merge
\* has cleared, is on hold no longer ("clear flags so no further merge allowed
\* (and no hold)", src/src/main/merged-ops.c line 437).
HeldHaveHoldFlag == \A t \in on_hold : "HOLD" \in task[t].flags

\* Every call of the application returns: the tasks it waits for are started,
\* those they need first among them, though on hold or behind other master-only
\* tasks (mark_as_needed and the procedures that call it, lines 1569-1656).
EveryCallReturns == pc # "app" ~> pc = "app"
=============================================================================
