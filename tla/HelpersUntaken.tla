--------------------------- MODULE HelpersUntaken ---------------------------
(***************************************************************************)
(* The queue of untaken tasks of src/src/extra/helpers/helpers.c, shared   *)
(* by the master and the helper threads, with the locks that protect it:   *)
(* start_lock (held by the thread that looks for a task to start),         *)
(* untaken_lock (held to add a task and to decide to suspend) and the pair *)
(* suspend_lock[0..1], one of which the master keeps set so that an idle   *)
(* helper blocks on it.                                                    *)
(*                                                                         *)
(* A step makes one access to a shared variable.  Setting a lock is joined *)
(* to the access after it and unsetting it to the access before it, and    *)
(* accesses that the locks held exclude every other thread from are joined *)
(* too.  Memory is sequentially consistent: the code flushes around every  *)
(* access.                                                                 *)
(*                                                                         *)
(* What a task is, beyond one earlier task it may wait for, is left to     *)
(* HelpersTasks: the order of preference of find_untaken_runnable is here  *)
(* a free choice, and the three "pipe" fields are one.                     *)
(***************************************************************************)
EXTENDS Integers, FiniteSets, Sequences

CONSTANTS Tasks,        \* the task indexes, 1..MAX_TASKS
          NoTask,       \* index 0
          Helpers,      \* the helper threads, 1..helpers_num
          Master,       \* thread 0
          NoThread,     \* no thread: a lock not set, a task not taken, ...
          SpinEmpty,    \* SPIN_EMPTY
          MaxToggles,   \* bound: calls of helpers_no_multithreading
          MasterOnly    \* whether the application uses HELPERS_MASTER_ONLY

ASSUME ConstantsAssumption ==
  /\ IsFiniteSet(Tasks) /\ Tasks # {} /\ NoTask \notin Tasks
  /\ Helpers # {} /\ Master \notin Helpers
  /\ NoThread \notin Helpers \union {Master}
  /\ SpinEmpty \in Nat \ {0}
  /\ MaxToggles \in Nat
  /\ MasterOnly \in BOOLEAN

Threads == Helpers \union {Master}
MaxTasks == Cardinality(Tasks)
Slots == 0..MaxTasks

VARIABLES
  untaken, untaken_in, untaken_out,
  start_lock, untaken_lock,    \* the thread that has set the lock
  suspend_lock,                \* which of the two the master has set
  suspended, which_suspends, which_wakes,
  helpers_not_multithreading_now,
  toggles,       \* calls of helpers_no_multithreading so far
  used,          \* the task indexes in use, in no order here
  master_only,   \* the queue of those that only the master may do
  done, helper, pipe,                   \* fields of the entries of task[]
  pc, this_task, u_in, count,   \* of each thread; a dead local variable is
                                \* given its initial value
  h, arg, ret, goal,   \* of the master: "suspended" as read, the task it puts
                       \* in the queue or merges into, where do_task_in_master
                       \* returns to, and what the master is waiting for
  late_wake      \* the master found that a helper was suspended when it
                 \* shouldn't have been

queueVars == <<untaken, untaken_in, untaken_out>>
suspendVars == <<suspend_lock, suspended, which_suspends, which_wakes>>
taskVars == <<used, master_only, done, helper, pipe>>
optionVars == <<helpers_not_multithreading_now, toggles>>
localVars == <<this_task, u_in, count>>
masterVars == <<h, arg, ret, goal, late_wake>>
vars == <<queueVars, start_lock, untaken_lock, suspendVars, taskVars,
          optionVars, pc, localVars, masterVars>>

multithreading == ~helpers_not_multithreading_now

\* Operators with a "Faulty" name differ from the one that follows them as a
\* plausible mistake in the code would: no action uses them, they serve to see
\* that the properties would find the mistake.

FaultyIncr(i) == i + 1

\* (i + 1) & QMask
Incr(i) == IF i = MaxTasks THEN 0 ELSE i + 1

\* The positions of a circular queue from out up to, not including, in.
Between(out, in) ==
  IF out <= in THEN out..(in - 1) ELSE (out..MaxTasks) \union (0..(in - 1))

\* runnable(): the task it takes input from, if any, is done.
Runnable(t) == pipe[t] \notin {p \in Tasks : ~done[p]}

Goto(th, label) == pc' = [pc EXCEPT ![th] = label]

Init ==
  /\ untaken = [i \in Slots |-> NoTask] /\ untaken_in = 0 /\ untaken_out = 0
  /\ start_lock = NoThread /\ untaken_lock = NoThread
  /\ suspend_lock = [i \in {0, 1} |-> i = 0]
  /\ suspended = NoThread /\ which_suspends = 0 /\ which_wakes = 0
  /\ helpers_not_multithreading_now = FALSE /\ toggles = 0
  /\ used = {} /\ master_only = << >>
  /\ done = [t \in Tasks |-> FALSE]
  /\ helper = [t \in Tasks |-> NoThread]
  /\ pipe = [t \in Tasks |-> NoTask]
  /\ pc = [th \in Threads |-> IF th = Master THEN "app" ELSE "start"]
  /\ this_task = [th \in Threads |-> NoTask]
  /\ u_in = [th \in Threads |-> 0]
  /\ count = [th \in Helpers |-> 0]
  /\ h = NoThread /\ arg = NoTask /\ ret = "notice" /\ goal = "all"
  /\ late_wake = FALSE

-----------------------------------------------------------------------------
(* find_untaken_runnable and the start of a task, in any thread.           *)

\* u_in = untaken_in, then FLUSH.
FindReadIn(th) ==
  /\ pc[th] = "find"
  /\ u_in' = [u_in EXCEPT ![th] = untaken_in]
  /\ Goto(th, "scan")
  /\ UNCHANGED <<queueVars, start_lock, untaken_lock, suspendVars, taskVars,
                 optionVars, this_task, count, masterVars>>

FaultyRemoveAt(f) == untaken

\* The entry at untaken_out is copied to the place of the one removed.
RemoveAt(f) == [untaken EXCEPT ![f] = untaken[untaken_out]]

\* A runnable task in the window seen is chosen.
FindTake(th) ==
  /\ pc[th] = "scan"
  /\ \E f \in Between(untaken_out, u_in[th]) :
       /\ Runnable(untaken[f])
       /\ this_task' = [this_task EXCEPT ![th] = untaken[f]]
       /\ untaken' = RemoveAt(f)
  /\ u_in' = [u_in EXCEPT ![th] = 0]
  /\ Goto(th, "advance")
  /\ UNCHANGED <<untaken_in, untaken_out, start_lock, untaken_lock,
                 suspendVars, taskVars, optionVars, count, masterVars>>

FaultyAlwaysUnsets == start_lock' = NoThread

FaultyNeverUnsets == start_lock' = start_lock

\* The master has not set start_lock when not multithreading.
MasterUnsetsStartLock ==
  start_lock' = IF multithreading THEN NoThread ELSE start_lock

\* Nothing runnable: a helper tries again, the master gives up.
FindNone(th) ==
  /\ pc[th] = "scan"
  /\ \A f \in Between(untaken_out, u_in[th]) : ~Runnable(untaken[f])
  /\ \/ th # Master /\ Goto(th, "find") /\ UNCHANGED start_lock
     \/ th = Master /\ Goto(th, ret) /\ MasterUnsetsStartLock
  /\ u_in' = [u_in EXCEPT ![th] = 0]
  /\ UNCHANGED <<queueVars, untaken_lock, suspendVars, taskVars, optionVars,
                 this_task, count, masterVars>>

\* The master then unsets start_lock; a helper not before it has recorded
\* itself in the task's entry.
FindAdvance(th) ==
  /\ pc[th] = "advance"
  /\ untaken_out' = Incr(untaken_out)
  /\ Goto(th, "claim")
  /\ IF th = Master THEN MasterUnsetsStartLock ELSE UNCHANGED start_lock
  /\ UNCHANGED <<untaken, untaken_in, untaken_lock, suspendVars, taskVars,
                 optionVars, localVars, masterVars>>

\* info->helper = this_thread
Claim(th) ==
  /\ pc[th] = "claim"
  /\ helper' = [helper EXCEPT ![this_task[th]] = th]
  /\ start_lock' = IF th = Master THEN start_lock ELSE NoThread
  /\ Goto(th, "run")
  /\ UNCHANGED <<queueVars, untaken_lock, suspendVars, used, master_only,
                 done, pipe, optionVars, localVars, masterVars>>

\* run_this_task: the task procedure, then done = 1.
RunThisTask(th) ==
  /\ pc[th] = "run"
  /\ done' = [done EXCEPT ![this_task[th]] = TRUE]
  /\ this_task' = [this_task EXCEPT ![th] = NoTask]
  /\ Goto(th, IF th = Master THEN ret ELSE "start")
  /\ UNCHANGED <<queueVars, start_lock, untaken_lock, suspendVars, used,
                 master_only, helper, pipe, optionVars, u_in, count,
                 masterVars>>

find_and_run(th) ==
  \/ FindReadIn(th) \/ FindTake(th) \/ FindNone(th) \/ FindAdvance(th)
  \/ Claim(th) \/ RunThisTask(th)

-----------------------------------------------------------------------------
(* helper_proc, executed in each helper thread i.                          *)

SetStartLock(i) ==
  /\ pc[i] = "start" /\ start_lock = NoThread
  /\ start_lock' = i
  /\ Goto(i, "spin_in")
  /\ UNCHANGED <<queueVars, untaken_lock, suspendVars, taskVars, optionVars,
                 localVars, masterVars>>

\* u_in = untaken_in, in the spin loop, or after setting untaken_lock.
ReadIn(i) ==
  /\ \/ pc[i] = "spin_in" /\ Goto(i, "spin_out") /\ UNCHANGED untaken_lock
     \/ /\ pc[i] = "decide_in" /\ untaken_lock = NoThread
        /\ untaken_lock' = i
        /\ Goto(i, "decide_out")
  /\ u_in' = [u_in EXCEPT ![i] = untaken_in]
  /\ UNCHANGED <<queueVars, start_lock, suspendVars, taskVars, optionVars,
                 this_task, count, masterVars>>

\* Around the spin loop again, unless it has run SPIN_EMPTY times.
SpinAgain(i) ==
  IF count[i] + 1 = SpinEmpty
    THEN count' = [count EXCEPT ![i] = 0] /\ Goto(i, "decide_in")
    ELSE count' = [count EXCEPT ![i] = @ + 1] /\ Goto(i, "spin_in")

\* In the spin loop: u_in != untaken_out && ...
SpinReadOut(i) ==
  /\ pc[i] = "spin_out"
  /\ IF u_in[i] # untaken_out
       THEN UNCHANGED count /\ Goto(i, "spin_flag")
       ELSE SpinAgain(i)
  /\ u_in' = [u_in EXCEPT ![i] = 0]
  /\ UNCHANGED <<queueVars, start_lock, untaken_lock, suspendVars, taskVars,
                 optionVars, this_task, masterVars>>

\* ... && !helpers_not_multithreading_now
SpinReadFlag(i) ==
  /\ pc[i] = "spin_flag"
  /\ IF multithreading
       THEN count' = [count EXCEPT ![i] = 0] /\ Goto(i, "find")
       ELSE SpinAgain(i)
  /\ UNCHANGED <<queueVars, start_lock, untaken_lock, suspendVars, taskVars,
                 optionVars, this_task, u_in, masterVars>>

\* With untaken_lock set: u_in == untaken_out || ...
DecideReadOut(i) ==
  /\ pc[i] = "decide_out"
  /\ Goto(i, IF u_in[i] = untaken_out THEN "will_suspend" ELSE "decide_flag")
  /\ u_in' = [u_in EXCEPT ![i] = 0]
  /\ UNCHANGED <<queueVars, start_lock, untaken_lock, suspendVars, taskVars,
                 optionVars, this_task, count, masterVars>>

\* ... || helpers_not_multithreading_now
DecideReadFlag(i) ==
  /\ pc[i] = "decide_flag"
  /\ IF multithreading
       THEN untaken_lock' = NoThread /\ Goto(i, "find")
       ELSE Goto(i, "will_suspend") /\ UNCHANGED untaken_lock
  /\ UNCHANGED <<queueVars, start_lock, suspendVars, taskVars, optionVars,
                 localVars, masterVars>>

\* suspended = this_thread, and untaken_lock is unset.
WillSuspend(i) ==
  /\ pc[i] = "will_suspend"
  /\ suspended' = i
  /\ untaken_lock' = NoThread
  /\ Goto(i, "suspend")
  /\ UNCHANGED <<queueVars, start_lock, suspend_lock, which_suspends,
                 which_wakes, taskVars, optionVars, localVars, masterVars>>

\* The helper blocks while the master has the lock set, then sets it, unsets
\* it, and goes back to the start of the main loop.
Suspend(i) ==
  /\ pc[i] = "suspend"
  /\ ~suspend_lock[which_suspends]
  /\ which_suspends' = 1 - which_suspends
  /\ Goto(i, "spin_in")
  /\ UNCHANGED <<queueVars, start_lock, untaken_lock, suspend_lock, suspended,
                 which_wakes, taskVars, optionVars, localVars, masterVars>>

helper_proc(i) ==
  \/ SetStartLock(i) \/ ReadIn(i) \/ SpinReadOut(i) \/ SpinReadFlag(i)
  \/ DecideReadOut(i) \/ DecideReadFlag(i) \/ WillSuspend(i) \/ Suspend(i)
  \/ find_and_run(i)

-----------------------------------------------------------------------------
(* The master: helpers_do_task, helpers_wait_for_all and                   *)
(* helpers_no_multithreading, as the application calls them.               *)

Completed == {t \in used : done[t]}

\* notice_completed: finished tasks leave "used", and the "pipe" fields that
\* refer to them are cleared.  The other fields of an entry not in use, which
\* nobody looks at, here get their initial values back.
NoticeCompleted ==
  /\ used' = used \ Completed
  /\ pipe' = [t \in Tasks |-> IF pipe[t] \in Completed THEN NoTask ELSE pipe[t]]
  /\ done' = [t \in Tasks |-> done[t] /\ t \notin Completed]
  /\ helper' = [t \in Tasks |-> IF t \in Completed THEN NoThread
                                                  ELSE helper[t]]
  /\ UNCHANGED master_only

\* helpers_do_task, up to where it has noticed the tasks completed.
DoTask ==
  /\ pc[Master] = "app"
  /\ NoticeCompleted
  /\ Goto(Master, "new")
  /\ UNCHANGED <<queueVars, start_lock, untaken_lock, suspendVars, optionVars,
                 localVars, masterVars>>

\* helpers_tasks==MAX_TASKS: the master does tasks until an entry is free.
TableFull ==
  /\ pc[Master] = "new" /\ used = Tasks
  /\ ret' = "notice" /\ goal' = "slot"
  /\ Goto(Master, "do_task")
  /\ UNCHANGED <<queueVars, start_lock, untaken_lock, suspendVars, taskVars,
                 optionVars, localVars, h, arg, late_wake>>

\* An entry is filled in.  A master-only task is queued at once.
NewTask ==
  /\ pc[Master] = "new"
  /\ \E t \in Tasks \ used, p \in used \union {NoTask} :
       /\ used' = used \union {t}
       /\ pipe' = [pipe EXCEPT ![t] = p]
       /\ \/ /\ arg' = t /\ Goto(Master, "put") /\ UNCHANGED master_only
          \/ /\ MasterOnly
             /\ master_only' = Append(master_only, t)
             /\ Goto(Master, "app")
             /\ UNCHANGED arg
  /\ UNCHANGED <<queueVars, start_lock, untaken_lock, suspendVars, done,
                 helper, optionVars, localVars, h, ret, goal, late_wake>>

FaultyNotLocking == TRUE

\* The master sets untaken_lock to add to the queue, if multithreading.
CanSetUntakenLock == multithreading => untaken_lock = NoThread

\* put_in_untaken, up to where untaken_lock is unset.
PutInUntaken ==
  /\ pc[Master] = "put"
  /\ CanSetUntakenLock
  /\ untaken' = [untaken EXCEPT ![untaken_in] = arg]
  /\ untaken_in' = Incr(untaken_in)
  /\ arg' = NoTask
  /\ Goto(Master, IF multithreading /\ suspended # NoThread THEN "wake"
                                                            ELSE "app")
  /\ UNCHANGED <<untaken_out, start_lock, untaken_lock, suspendVars, taskVars,
                 optionVars, localVars, h, ret, goal, late_wake>>

FaultyWake ==
  /\ suspended' = NoThread
  /\ suspend_lock' = [suspend_lock EXCEPT ![which_wakes] = FALSE]
  /\ UNCHANGED <<which_suspends, which_wakes>>

\* The lock the helper will use next is set, and the one it waits for unset.
Wake ==
  /\ ~suspend_lock[1 - which_wakes]
  /\ suspended' = NoThread
  /\ suspend_lock' = [i \in {0, 1} |-> i = 1 - which_wakes]
  /\ which_wakes' = 1 - which_wakes
  /\ UNCHANGED which_suspends

WakeHelper ==
  /\ pc[Master] = "wake"
  /\ Wake
  /\ Goto(Master, "app")
  /\ UNCHANGED <<queueVars, start_lock, untaken_lock, taskVars, optionVars,
                 localVars, masterVars>>

\* A new master-only task can merge with task t, which no other task waits for
\* and which seems not to have been taken.  The new task has no HELPERS_MERGE_OUT,
\* so none merges with the result.
MergeBegin ==
  /\ pc[Master] = "app" /\ MasterOnly
  /\ NoticeCompleted
  /\ \E t \in used' :
       /\ \A i \in 1..Len(master_only) : master_only[i] # t
       /\ \A x \in used' : pipe'[x] # t
       /\ helper[t] = NoThread
       /\ arg' = t
  /\ Goto(Master, IF multithreading THEN "merge_lock" ELSE "merge")
  /\ UNCHANGED <<queueVars, start_lock, untaken_lock, suspendVars, optionVars,
                 localVars, h, ret, goal, late_wake>>

\* Set start_lock to be sure, doing tasks while a helper has it set.
MergeTestLock ==
  /\ pc[Master] = "merge_lock"
  /\ \/ /\ start_lock = NoThread
        /\ start_lock' = Master
        /\ Goto(Master, "merge")
        /\ UNCHANGED <<arg, ret>>
     \/ /\ start_lock # NoThread /\ helper[arg] = NoThread
        /\ ret' = "merge_lock"
        /\ Goto(Master, "do_task")
        /\ UNCHANGED <<start_lock, arg>>
     \/ /\ start_lock # NoThread /\ helper[arg] # NoThread
        /\ arg' = NoTask /\ ret' = "notice"
        /\ Goto(Master, "new")
        /\ UNCHANGED start_lock
  /\ UNCHANGED <<queueVars, untaken_lock, suspendVars, taskVars, optionVars,
                 localVars, h, goal, late_wake>>

\* The task moves from the untaken to the master-only queue, unless a helper
\* has it; the code exits if it is in the untaken queue no more.
Merge ==
  /\ pc[Master] = "merge"
  /\ MasterUnsetsStartLock
  /\ LET at == {j \in Between(untaken_out, untaken_in) : untaken[j] = arg}
     IN  IF multithreading /\ helper[arg] # NoThread
           THEN /\ Goto(Master, "new")
                /\ UNCHANGED <<untaken, untaken_out, master_only>>
         ELSE IF at = {}
           THEN /\ Goto(Master, "exit")
                /\ UNCHANGED <<untaken, untaken_out, master_only>>
         ELSE /\ \E j \in at : untaken' = RemoveAt(j)
              /\ untaken_out' = Incr(untaken_out)
              /\ master_only' = Append(master_only, arg)
              /\ Goto(Master, "app")
  /\ arg' = NoTask /\ ret' = "notice"
  /\ UNCHANGED <<untaken_in, untaken_lock, suspendVars, used, done, helper,
                 pipe, optionVars, localVars, h, goal, late_wake>>

\* helpers_wait_for_all, by itself or in helpers_no_multithreading.
WaitForAll ==
  /\ pc[Master] = "app"
  /\ \/ goal' = "all" /\ used # {}
     \/ goal' = "toggle" /\ toggles < MaxToggles
  /\ ret' = "notice"
  /\ Goto(Master, IF used # {} THEN "do_task" ELSE "toggle")
  /\ UNCHANGED <<queueVars, start_lock, untaken_lock, suspendVars, taskVars,
                 optionVars, localVars, h, arg, late_wake>>

\* The rest of helpers_no_multithreading, changing the option.
ToggleMultithreading ==
  /\ pc[Master] = "toggle"
  /\ helpers_not_multithreading_now' = ~helpers_not_multithreading_now
  /\ toggles' = toggles + 1
  /\ Goto(Master, "app")
  /\ UNCHANGED <<queueVars, start_lock, untaken_lock, suspendVars, taskVars,
                 localVars, masterVars>>

\* The end of one round of a waiting loop.
WaitNotice ==
  /\ pc[Master] = "notice"
  /\ NoticeCompleted
  /\ Goto(Master, CASE goal = "slot" /\ used' # Tasks -> "new"
                    [] goal = "all" /\ used' = {} -> "app"
                    [] goal = "toggle" /\ used' = {} -> "toggle"
                    [] OTHER -> "do_task")
  /\ goal' = IF pc'[Master] = "do_task" THEN goal ELSE "all"
  /\ UNCHANGED <<queueVars, start_lock, untaken_lock, suspendVars, optionVars,
                 localVars, h, arg, ret, late_wake>>

-----------------------------------------------------------------------------
(* do_task_in_master, which returns to ret.                                *)

HeadRunnable == master_only # << >> /\ Runnable(Head(master_only))

\* The next master-only task, if it is runnable.
DoMasterOnly ==
  /\ pc[Master] = "do_task"
  /\ HeadRunnable
  /\ master_only' = Tail(master_only)
  /\ this_task' = [this_task EXCEPT ![Master] = Head(master_only)]
  /\ Goto(Master, "claim")
  /\ UNCHANGED <<queueVars, start_lock, untaken_lock, suspendVars, used, done,
                 helper, pipe, optionVars, u_in, count, masterVars>>

\* Otherwise h = suspended, then FLUSH ...
ReadSuspended ==
  /\ pc[Master] = "do_task"
  /\ ~HeadRunnable
  /\ h' = IF multithreading THEN suspended ELSE NoThread
  /\ Goto(Master, "queue")
  /\ UNCHANGED <<queueVars, start_lock, untaken_lock, suspendVars, taskVars,
                 optionVars, localVars, arg, ret, goal, late_wake>>

\* ... and untaken_in == untaken_out.
ReadQueueEmpty ==
  /\ pc[Master] = "queue"
  /\ Goto(Master, IF untaken_in = untaken_out THEN ret
                  ELSE IF multithreading THEN "test_lock" ELSE "find")
  /\ h' = IF untaken_in = untaken_out THEN NoThread ELSE h
  /\ UNCHANGED <<queueVars, start_lock, untaken_lock, suspendVars, taskVars,
                 optionVars, localVars, arg, ret, goal, late_wake>>

\* If start_lock is set, a helper that was seen suspended is woken.
TestStartLock ==
  /\ pc[Master] = "test_lock"
  /\ h' = NoThread
  /\ IF start_lock = NoThread
       THEN /\ start_lock' = Master
            /\ Goto(Master, "find")
            /\ UNCHANGED <<suspendVars, late_wake>>
       ELSE /\ IF h # NoThread THEN Wake /\ late_wake' = TRUE
                        ELSE UNCHANGED <<suspendVars, late_wake>>
            /\ Goto(Master, ret)
            /\ UNCHANGED start_lock
  /\ UNCHANGED <<queueVars, untaken_lock, taskVars, optionVars, localVars,
                 arg, ret, goal>>

\* What the application may begin, and the steps of a call under way.
application == DoTask \/ MergeBegin \/ WaitForAll

master_call ==
  \/ TableFull \/ NewTask \/ PutInUntaken \/ WakeHelper
  \/ MergeTestLock \/ Merge \/ ToggleMultithreading \/ WaitNotice
  \/ DoMasterOnly \/ ReadSuspended \/ ReadQueueEmpty \/ TestStartLock
  \/ find_and_run(Master)

Next == application \/ master_call \/ \E i \in Helpers : helper_proc(i)

Spec == Init /\ [][Next]_vars

\* Each thread that can take a step eventually does; nothing obliges the
\* application to make another call.
FairSpec ==
  /\ Spec
  /\ WF_vars(master_call)
  /\ \A i \in Helpers : WF_vars(helper_proc(i))

-----------------------------------------------------------------------------
(* What must hold.                                                         *)

\* The places of the code where a thread can be.
Labels ==
  {"app", "new", "put", "wake", "merge_lock", "merge", "exit", "do_task",
   "queue", "test_lock", "toggle", "notice", "start", "spin_in", "spin_out",
   "spin_flag", "decide_in", "decide_out", "decide_flag", "will_suspend",
   "suspend", "find", "scan", "advance", "claim", "run"}

QueuesTypeOK ==
  /\ untaken \in [Slots -> Tasks \union {NoTask}]
  /\ untaken_in \in Slots /\ untaken_out \in Slots
  /\ master_only \in Seq(Tasks \union {NoTask})

LocksTypeOK ==
  /\ start_lock \in Threads \union {NoThread}
  /\ untaken_lock \in Helpers \union {NoThread}
  /\ suspend_lock \in [{0, 1} -> BOOLEAN]
  /\ suspended \in Helpers \union {NoThread}
  /\ which_suspends \in {0, 1} /\ which_wakes \in {0, 1}

TasksTypeOK ==
  /\ used \subseteq Tasks
  /\ done \in [Tasks -> BOOLEAN]
  /\ helper \in [Tasks -> Threads \union {NoThread}]
  /\ pipe \in [Tasks -> Tasks \union {NoTask}]

ThreadsTypeOK ==
  /\ pc \in [Threads -> Labels]
  /\ this_task \in [Threads -> Tasks \union {NoTask}]
  /\ u_in \in [Threads -> Slots]
  /\ count \in [Helpers -> Nat]

MasterTypeOK ==
  /\ helpers_not_multithreading_now \in BOOLEAN
  /\ toggles \in Nat
  /\ h \in Helpers \union {NoThread} /\ arg \in Tasks \union {NoTask}
  /\ ret \in {"notice", "merge_lock"} /\ goal \in {"all", "slot", "toggle"}
  /\ late_wake \in BOOLEAN

\* Every variable keeps its type (the declarations of lines 249-411).
TypeOK ==
  /\ QueuesTypeOK /\ LocksTypeOK /\ TasksTypeOK /\ ThreadsTypeOK
  /\ MasterTypeOK

\* Where task t is: at which positions of the queues, with which thread.  A
\* thread about to advance untaken_out has copied the entry there elsewhere.
Places(t) ==
  LET advancing == \E th \in Threads : pc[th] = "advance"
      first == IF advancing THEN Incr(untaken_out) ELSE untaken_out
  IN  {<<"untaken", i>> : i \in {j \in Between(first, untaken_in) :
                                   untaken[j] = t}}
      \union {<<"master_only", i>> : i \in {j \in 1..Len(master_only) :
                                              master_only[j] = t}}
      \union {<<"thread", th>> : th \in {x \in Threads : this_task[x] = t}}
      \union (IF pc[Master] = "put" /\ arg = t THEN {<<"put", 0>>} ELSE {})

\* No task is lost and none is started twice: a task in use and not yet done
\* is in one place, queued or with the one thread that has taken it, and any
\* other index is in none (find_untaken_runnable's removal by copying and
\* put_in_untaken's addition, lines 1246-1393).
TaskInOnePlace ==
  \A t \in Tasks :
    Cardinality(Places(t)) = IF t \in used /\ ~done[t] THEN 1 ELSE 0

\* Only one thread at a time looks through and removes from the untaken queue
\* ("so that another thread will not be manipulating the queue
\* simultaneously", lines 1239-1240).
FindExclusive ==
  \A a, b \in Threads :
    /\ pc[a] \in {"find", "scan", "advance"}
    /\ pc[b] \in {"find", "scan", "advance"}
    => a = b

\* At least while multithreading, with any number of changes of that option
\* (start_lock, lines 1665-1750, 1774-1862 and 2004-2190).
TakenExclusively == multithreading => FindExclusive

\* A helper that went to suspend itself either is recorded as suspended and
\* blocks on the lock that the master will unset next, or has been woken and
\* finds its lock unset: no wake-up is lost and none wakes the wrong suspension
\* (lines 1355-1371, 1799-1837).
SuspendHandshake ==
  /\ suspended # NoThread =>
       /\ pc[suspended] = "suspend"
       /\ which_suspends = which_wakes
  /\ \A i \in Helpers :
       pc[i] = "suspend" =>
         /\ start_lock = i
         /\ suspended \in {NoThread, i}
         /\ suspend_lock[which_suspends] <=> suspended = i

\* The master never finds a helper suspended while a task is queued ("HELPER
\* WAS SUSPENDED WHEN IT SHOULDN'T HAVE BEEN!", lines 1716-1731), and never
\* exits because a task to merge into has left the untaken queue (line 2143).
MasterNeverSurprised == ~late_wake /\ pc[Master] # "exit"

\* While the application computes without calling on the helpers facility,
\* every task queued for the helpers gets done by them alone: one that suspends
\* itself just as a task is queued is woken, and the spinning of the one that
\* has start_lock set ends (lines 1327-1393, 1774-1862).  (An application that
\* keeps scheduling can postpone a task it does not wait for without limit, and
\* one that waits for a master-only task cannot be done.)
HelpersFinishAlone ==
  \A t \in Tasks :
    t \in used /\ multithreading /\ master_only = << >> ~>
      done[t] \/ pc[Master] # "app"

\* Every call of the master returns: the waiting loops end whoever does the
\* tasks, whether or not helpers are in use (lines 1637-1656, 2393-2409,
\* 3055-3090).
EveryCallReturns == pc[Master] # "app" ~> pc[Master] = "app"
=============================================================================
