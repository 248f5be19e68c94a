------------------------ MODULE HelpersUntakenProofs ------------------------
(***************************************************************************)
(* Theorems about HelpersUntaken, for any set of helpers, any finite set   *)
(* of task indexes and any number of changes of the multithreading option. *)
(*                                                                         *)
(* The properties are not inductive: that a helper is the only one in      *)
(* find_untaken_runnable, or suspended, rests on its having start_lock     *)
(* set.  The inductive invariant IInv says who has it set in each place of *)
(* the code (LockInv), and how the two suspend locks alternate (WakeInv).  *)
(***************************************************************************)
EXTENDS HelpersUntaken, FiniteSetTheorems, TLAPS

\* Where a helper does not have start_lock set, and where the master has, if
\* multithreading.
Outside == {"start", "run"}
MasterInside == {"find", "scan", "advance", "merge"}

\* Where the master tests start_lock, which it does only when multithreading,
\* and where it can be while it waits to merge a task.
Testing == {"merge_lock", "test_lock"}
Merging == {"merge_lock", "merge", "do_task", "queue", "test_lock", "find",
            "scan", "advance", "claim", "run"}

\* start_lock is held by the thread whose place in the code says so.
LockInv ==
  /\ \A i \in Helpers : start_lock = i <=> pc[i] \notin Outside
  /\ start_lock = Master <=> multithreading /\ pc[Master] \in MasterInside
  /\ pc[Master] \in Testing => multithreading
  /\ ret = "merge_lock" => multithreading /\ pc[Master] \in Merging

\* The master has one of the two suspend locks set, the one which_wakes names.
\* which_suspends names the other one just while a helper that has been woken
\* has not yet gone on.  The value of "suspended" that do_task_in_master has
\* read, if not zero, is still that of the variable.
WakeInv ==
  /\ suspend_lock = [j \in {0, 1} |-> j = which_wakes]
  /\ suspended # NoThread => pc[suspended] = "suspend"
  /\ which_suspends # which_wakes <=>
       \E i \in Helpers : pc[i] = "suspend" /\ suspended = NoThread
  /\ pc[Master] = "wake" => suspended # NoThread
  /\ h # NoThread => /\ suspended = h
                     /\ multithreading /\ pc[Master] \in {"queue", "test_lock"}

IInv == TypeOK /\ LockInv /\ WakeInv

-----------------------------------------------------------------------------
(* The size of the queue and its positions.                                *)

\* MAX_TASKS is a natural number.
LEMMA MaxTasksType == MaxTasks \in Nat
BY FS_CardinalityType, ConstantsAssumption DEF MaxTasks

\* The first position of the circular queue.
LEMMA ZeroType == 0 \in Slots
BY MaxTasksType DEF Slots

\* Advancing a position of a circular queue gives a position of it.
LEMMA IncrType == ASSUME NEW i \in Slots PROVE Incr(i) \in Slots
BY MaxTasksType DEF Incr, Slots

\* Whatever is between two positions is a position.
LEMMA BetweenType ==
  ASSUME NEW out \in Slots, NEW in \in Slots
  PROVE  Between(out, in) \subseteq Slots
BY MaxTasksType DEF Between, Slots

\* Each place that a step goes to is one, the enumeration being left closed in
\* the proofs below.
LEMMA LabelsType ==
  /\ "app" \in Labels /\ "new" \in Labels /\ "put" \in Labels
  /\ "wake" \in Labels /\ "merge_lock" \in Labels /\ "merge" \in Labels
  /\ "exit" \in Labels /\ "do_task" \in Labels /\ "queue" \in Labels
  /\ "test_lock" \in Labels /\ "toggle" \in Labels /\ "notice" \in Labels
  /\ "start" \in Labels /\ "spin_in" \in Labels /\ "spin_out" \in Labels
  /\ "spin_flag" \in Labels /\ "decide_in" \in Labels
  /\ "decide_out" \in Labels /\ "decide_flag" \in Labels
  /\ "will_suspend" \in Labels /\ "suspend" \in Labels /\ "find" \in Labels
  /\ "scan" \in Labels /\ "advance" \in Labels /\ "claim" \in Labels
  /\ "run" \in Labels
BY DEF Labels

-----------------------------------------------------------------------------
(* The type invariant.                                                     *)

\* The initial state is well typed.
LEMMA InitType == Init => TypeOK
<1> SUFFICES ASSUME Init PROVE TypeOK
  OBVIOUS
<1> USE ZeroType, ConstantsAssumption DEF Init, Threads
<1>1. QueuesTypeOK
  BY DEF QueuesTypeOK
<1>2. LocksTypeOK
  BY DEF LocksTypeOK
<1>3. TasksTypeOK
  BY DEF TasksTypeOK
<1>4. ThreadsTypeOK
  BY LabelsType DEF ThreadsTypeOK
<1>5. MasterTypeOK
  BY DEF MasterTypeOK
<1>6. QED
  BY <1>1, <1>2, <1>3, <1>4, <1>5 DEF TypeOK

\* Every step keeps the types.
LEMMA NextType == TypeOK /\ [Next]_vars => TypeOK'
<1> SUFFICES ASSUME TypeOK, [Next]_vars PROVE TypeOK'
  OBVIOUS
<1> USE DEF TypeOK, Goto, Threads, queueVars, suspendVars, taskVars,
            optionVars, localVars, masterVars
<1>1. ASSUME NEW th \in Threads, FindReadIn(th) PROVE TypeOK'
  <2>1. ThreadsTypeOK'
    BY <1>1, LabelsType DEF FindReadIn, ThreadsTypeOK, QueuesTypeOK
  <2>2. QED
    BY <1>1, <2>1 DEF FindReadIn, QueuesTypeOK, LocksTypeOK, TasksTypeOK,
       MasterTypeOK
<1>2. ASSUME NEW th \in Threads, FindTake(th) PROVE TypeOK'
  <2>1. QueuesTypeOK'
    BY <1>2, BetweenType DEF FindTake, QueuesTypeOK, RemoveAt, ThreadsTypeOK
  <2>2. ThreadsTypeOK'
    BY <1>2, BetweenType, LabelsType, ZeroType DEF FindTake, ThreadsTypeOK,
       QueuesTypeOK
  <2>3. QED
    BY <1>2, <2>1, <2>2 DEF FindTake, LocksTypeOK, TasksTypeOK, MasterTypeOK
<1>3. ASSUME NEW th \in Threads, FindNone(th) PROVE TypeOK'
  <2>1. LocksTypeOK'
    BY <1>3 DEF FindNone, LocksTypeOK, MasterUnsetsStartLock
  <2>2. ThreadsTypeOK'
    BY <1>3, LabelsType, ZeroType DEF FindNone, ThreadsTypeOK, MasterTypeOK
  <2>3. QED
    BY <1>3, <2>1, <2>2 DEF FindNone, QueuesTypeOK, TasksTypeOK, MasterTypeOK
<1>4. ASSUME NEW th \in Threads, FindAdvance(th) PROVE TypeOK'
  <2>1. QueuesTypeOK'
    BY <1>4, IncrType DEF FindAdvance, QueuesTypeOK
  <2>2. LocksTypeOK'
    BY <1>4 DEF FindAdvance, LocksTypeOK, MasterUnsetsStartLock
  <2>3. ThreadsTypeOK'
    BY <1>4, LabelsType DEF FindAdvance, ThreadsTypeOK
  <2>4. QED
    BY <1>4, <2>1, <2>2, <2>3 DEF FindAdvance, TasksTypeOK, MasterTypeOK
<1>5. ASSUME NEW th \in Threads, Claim(th) PROVE TypeOK'
  <2>1. LocksTypeOK'
    BY <1>5 DEF Claim, LocksTypeOK
  <2>2. TasksTypeOK'
    BY <1>5 DEF Claim, TasksTypeOK
  <2>3. ThreadsTypeOK'
    BY <1>5, LabelsType DEF Claim, ThreadsTypeOK
  <2>4. QED
    BY <1>5, <2>1, <2>2, <2>3 DEF Claim, QueuesTypeOK, MasterTypeOK
<1>6. ASSUME NEW th \in Threads, RunThisTask(th) PROVE TypeOK'
  <2>1. TasksTypeOK'
    BY <1>6 DEF RunThisTask, TasksTypeOK
  <2>2. ThreadsTypeOK'
    BY <1>6, LabelsType DEF RunThisTask, ThreadsTypeOK, MasterTypeOK
  <2>3. QED
    BY <1>6, <2>1, <2>2 DEF RunThisTask, QueuesTypeOK, LocksTypeOK,
       MasterTypeOK
<1>7. ASSUME NEW i \in Helpers, SetStartLock(i) PROVE TypeOK'
  <2>1. LocksTypeOK'
    BY <1>7 DEF SetStartLock, LocksTypeOK
  <2>2. ThreadsTypeOK'
    BY <1>7, LabelsType DEF SetStartLock, ThreadsTypeOK
  <2>3. QED
    BY <1>7, <2>1, <2>2 DEF SetStartLock, QueuesTypeOK, TasksTypeOK,
       MasterTypeOK
<1>8. ASSUME NEW i \in Helpers, ReadIn(i) PROVE TypeOK'
  <2>1. LocksTypeOK'
    BY <1>8 DEF ReadIn, LocksTypeOK
  <2>2. ThreadsTypeOK'
    BY <1>8, LabelsType DEF ReadIn, ThreadsTypeOK, QueuesTypeOK
  <2>3. QED
    BY <1>8, <2>1, <2>2 DEF ReadIn, QueuesTypeOK, TasksTypeOK, MasterTypeOK
<1>9. ASSUME NEW i \in Helpers, SpinReadOut(i) PROVE TypeOK'
  <2>1. ThreadsTypeOK'
    BY <1>9, LabelsType, ZeroType DEF SpinReadOut, ThreadsTypeOK, SpinAgain
  <2>2. QED
    BY <1>9, <2>1 DEF SpinReadOut, QueuesTypeOK, LocksTypeOK, TasksTypeOK,
       MasterTypeOK
<1>10. ASSUME NEW i \in Helpers, SpinReadFlag(i) PROVE TypeOK'
  <2>1. ThreadsTypeOK'
    BY <1>10, LabelsType DEF SpinReadFlag, ThreadsTypeOK, SpinAgain
  <2>2. QED
    BY <1>10, <2>1 DEF SpinReadFlag, QueuesTypeOK, LocksTypeOK, TasksTypeOK,
       MasterTypeOK
<1>11. ASSUME NEW i \in Helpers, DecideReadOut(i) PROVE TypeOK'
  <2>1. ThreadsTypeOK'
    BY <1>11, LabelsType, ZeroType DEF DecideReadOut, ThreadsTypeOK
  <2>2. QED
    BY <1>11, <2>1 DEF DecideReadOut, QueuesTypeOK, LocksTypeOK, TasksTypeOK,
       MasterTypeOK
<1>12. ASSUME NEW i \in Helpers, DecideReadFlag(i) PROVE TypeOK'
  <2>1. LocksTypeOK'
    BY <1>12 DEF DecideReadFlag, LocksTypeOK
  <2>2. ThreadsTypeOK'
    BY <1>12, LabelsType DEF DecideReadFlag, ThreadsTypeOK
  <2>3. QED
    BY <1>12, <2>1, <2>2 DEF DecideReadFlag, QueuesTypeOK, TasksTypeOK,
       MasterTypeOK
<1>13. ASSUME NEW i \in Helpers, WillSuspend(i) PROVE TypeOK'
  <2>1. LocksTypeOK'
    BY <1>13 DEF WillSuspend, LocksTypeOK
  <2>2. ThreadsTypeOK'
    BY <1>13, LabelsType DEF WillSuspend, ThreadsTypeOK
  <2>3. QED
    BY <1>13, <2>1, <2>2 DEF WillSuspend, QueuesTypeOK, TasksTypeOK,
       MasterTypeOK
<1>14. ASSUME NEW i \in Helpers, Suspend(i) PROVE TypeOK'
  <2>1. LocksTypeOK'
    BY <1>14 DEF Suspend, LocksTypeOK
  <2>2. ThreadsTypeOK'
    BY <1>14, LabelsType DEF Suspend, ThreadsTypeOK
  <2>3. QED
    BY <1>14, <2>1, <2>2 DEF Suspend, QueuesTypeOK, TasksTypeOK, MasterTypeOK
<1>15. CASE DoTask
  <2>1. TasksTypeOK'
    BY <1>15 DEF DoTask, TasksTypeOK, NoticeCompleted, Completed
  <2>2. ThreadsTypeOK'
    BY <1>15, LabelsType DEF DoTask, ThreadsTypeOK
  <2>3. QED
    BY <1>15, <2>1, <2>2 DEF DoTask, NoticeCompleted, QueuesTypeOK,
       LocksTypeOK, MasterTypeOK
<1>16. CASE MergeBegin
  <2>1. TasksTypeOK'
    BY <1>16 DEF MergeBegin, TasksTypeOK, NoticeCompleted, Completed
  <2>2. ThreadsTypeOK'
    BY <1>16, LabelsType DEF MergeBegin, ThreadsTypeOK
  <2>3. MasterTypeOK'
    BY <1>16 DEF MergeBegin, MasterTypeOK, NoticeCompleted, Completed,
       TasksTypeOK
  <2>4. QED
    BY <1>16, <2>1, <2>2, <2>3 DEF MergeBegin, NoticeCompleted, QueuesTypeOK,
       LocksTypeOK
<1>17. CASE WaitForAll
  <2>1. ThreadsTypeOK'
    BY <1>17, LabelsType DEF WaitForAll, ThreadsTypeOK
  <2>2. MasterTypeOK'
    BY <1>17 DEF WaitForAll, MasterTypeOK
  <2>3. QED
    BY <1>17, <2>1, <2>2 DEF WaitForAll, QueuesTypeOK, LocksTypeOK,
       TasksTypeOK
<1>18. CASE TableFull
  <2>1. ThreadsTypeOK'
    BY <1>18, LabelsType DEF TableFull, ThreadsTypeOK
  <2>2. MasterTypeOK'
    BY <1>18 DEF TableFull, MasterTypeOK
  <2>3. QED
    BY <1>18, <2>1, <2>2 DEF TableFull, QueuesTypeOK, LocksTypeOK, TasksTypeOK
<1>19. CASE NewTask
  <2>1. QueuesTypeOK'
    BY <1>19 DEF NewTask, QueuesTypeOK, TasksTypeOK
  <2>2. TasksTypeOK'
    BY <1>19 DEF NewTask, TasksTypeOK
  <2>3. ThreadsTypeOK'
    BY <1>19, LabelsType DEF NewTask, ThreadsTypeOK
  <2>4. MasterTypeOK'
    BY <1>19 DEF NewTask, MasterTypeOK
  <2>5. QED
    BY <1>19, <2>1, <2>2, <2>3, <2>4 DEF NewTask, LocksTypeOK
<1>20. CASE PutInUntaken
  <2>1. QueuesTypeOK'
    BY <1>20, IncrType DEF PutInUntaken, QueuesTypeOK, MasterTypeOK
  <2>2. ThreadsTypeOK'
    BY <1>20, LabelsType DEF PutInUntaken, ThreadsTypeOK
  <2>3. MasterTypeOK'
    BY <1>20 DEF PutInUntaken, MasterTypeOK
  <2>4. QED
    BY <1>20, <2>1, <2>2, <2>3 DEF PutInUntaken, LocksTypeOK, TasksTypeOK
<1>21. CASE WakeHelper
  <2>1. LocksTypeOK'
    BY <1>21 DEF WakeHelper, LocksTypeOK, Wake
  <2>2. ThreadsTypeOK'
    BY <1>21, LabelsType DEF WakeHelper, ThreadsTypeOK
  <2>3. QED
    BY <1>21, <2>1, <2>2 DEF WakeHelper, QueuesTypeOK, TasksTypeOK,
       MasterTypeOK
<1>22. CASE MergeTestLock
  <2>1. LocksTypeOK'
    BY <1>22 DEF MergeTestLock, LocksTypeOK
  <2>2. ThreadsTypeOK'
    BY <1>22, LabelsType DEF MergeTestLock, ThreadsTypeOK
  <2>3. MasterTypeOK'
    BY <1>22 DEF MergeTestLock, MasterTypeOK
  <2>4. QED
    BY <1>22, <2>1, <2>2, <2>3 DEF MergeTestLock, QueuesTypeOK, TasksTypeOK
<1>23. CASE Merge
  <2>1. QueuesTypeOK'
    <3>1. untaken_in' = untaken_in
      BY <1>23 DEF Merge
    <3>2. CASE UNCHANGED <<untaken, untaken_out, master_only>>
      BY <3>1, <3>2 DEF QueuesTypeOK
    <3>3. CASE \E j \in Between(untaken_out, untaken_in) :
                 /\ untaken[j] = arg
                 /\ untaken' = RemoveAt(j)
                 /\ untaken_out' = Incr(untaken_out)
                 /\ master_only' = Append(master_only, arg)
      <4>1. PICK j \in Slots :
              /\ untaken[j] = arg
              /\ untaken' = RemoveAt(j)
              /\ untaken_out' = Incr(untaken_out)
              /\ master_only' = Append(master_only, arg)
        BY <3>3, BetweenType DEF QueuesTypeOK
      <4>2. arg \in Tasks \union {NoTask}
        BY <1>23 DEF Merge, MasterTypeOK
      <4>3. QED
        BY <3>1, <4>1, <4>2, IncrType DEF QueuesTypeOK, RemoveAt
    <3>4. QED
      BY <1>23, <3>2, <3>3 DEF Merge
  <2>2. LocksTypeOK'
    BY <1>23 DEF Merge, LocksTypeOK, MasterUnsetsStartLock
  <2>3. ThreadsTypeOK'
    BY <1>23, LabelsType DEF Merge, ThreadsTypeOK
  <2>4. MasterTypeOK'
    BY <1>23 DEF Merge, MasterTypeOK
  <2>5. QED
    BY <1>23, <2>1, <2>2, <2>3, <2>4 DEF Merge, TasksTypeOK
<1>24. CASE ToggleMultithreading
  <2>1. ThreadsTypeOK'
    BY <1>24, LabelsType DEF ToggleMultithreading, ThreadsTypeOK
  <2>2. MasterTypeOK'
    BY <1>24 DEF ToggleMultithreading, MasterTypeOK
  <2>3. QED
    BY <1>24, <2>1, <2>2 DEF ToggleMultithreading, QueuesTypeOK, LocksTypeOK,
       TasksTypeOK
<1>25. CASE WaitNotice
  <2>1. TasksTypeOK'
    BY <1>25 DEF WaitNotice, TasksTypeOK, NoticeCompleted, Completed
  <2>2. ThreadsTypeOK'
    BY <1>25, LabelsType DEF WaitNotice, ThreadsTypeOK
  <2>3. MasterTypeOK'
    BY <1>25 DEF WaitNotice, MasterTypeOK
  <2>4. QED
    BY <1>25, <2>1, <2>2, <2>3 DEF WaitNotice, NoticeCompleted, QueuesTypeOK,
       LocksTypeOK
<1>26. CASE DoMasterOnly
  <2>1. QueuesTypeOK'
    BY <1>26 DEF DoMasterOnly, QueuesTypeOK, HeadRunnable
  <2>2. ThreadsTypeOK'
    BY <1>26, LabelsType DEF DoMasterOnly, ThreadsTypeOK, HeadRunnable,
       QueuesTypeOK
  <2>3. QED
    BY <1>26, <2>1, <2>2 DEF DoMasterOnly, LocksTypeOK, TasksTypeOK,
       MasterTypeOK
<1>27. CASE ReadSuspended
  <2>1. ThreadsTypeOK'
    BY <1>27, LabelsType DEF ReadSuspended, ThreadsTypeOK
  <2>2. MasterTypeOK'
    BY <1>27 DEF ReadSuspended, MasterTypeOK, LocksTypeOK
  <2>3. QED
    BY <1>27, <2>1, <2>2 DEF ReadSuspended, QueuesTypeOK, LocksTypeOK,
       TasksTypeOK
<1>28. CASE ReadQueueEmpty
  <2>1. ThreadsTypeOK'
    BY <1>28, LabelsType DEF ReadQueueEmpty, ThreadsTypeOK, MasterTypeOK
  <2>2. MasterTypeOK'
    BY <1>28 DEF ReadQueueEmpty, MasterTypeOK
  <2>3. QED
    BY <1>28, <2>1, <2>2 DEF ReadQueueEmpty, QueuesTypeOK, LocksTypeOK,
       TasksTypeOK
<1>29. CASE TestStartLock
  <2>1. LocksTypeOK'
    <3>1. CASE Wake
      BY <1>29, <3>1 DEF TestStartLock, Wake, LocksTypeOK
    <3>2. CASE UNCHANGED suspendVars
      BY <1>29, <3>2 DEF TestStartLock, LocksTypeOK
    <3>3. QED
      BY <1>29, <3>1, <3>2 DEF TestStartLock
  <2>2. ThreadsTypeOK'
    BY <1>29, LabelsType DEF TestStartLock, ThreadsTypeOK, MasterTypeOK
  <2>3. MasterTypeOK'
    BY <1>29 DEF TestStartLock, MasterTypeOK
  <2>4. QED
    BY <1>29, <2>1, <2>2, <2>3 DEF TestStartLock, QueuesTypeOK, TasksTypeOK
<1>30. CASE UNCHANGED vars
  BY <1>30 DEF vars, QueuesTypeOK, LocksTypeOK, TasksTypeOK, ThreadsTypeOK,
     MasterTypeOK
<1>31. QED
  BY <1>1, <1>2, <1>3, <1>4, <1>5, <1>6, <1>7, <1>8, <1>9, <1>10, <1>11,
     <1>12, <1>13, <1>14, <1>15, <1>16, <1>17, <1>18, <1>19, <1>20, <1>21,
     <1>22, <1>23, <1>24, <1>25, <1>26, <1>27, <1>28, <1>29, <1>30 DEF Next,
     application, master_call, helper_proc, find_and_run

\* Every variable keeps its type, whatever the threads do.
THEOREM TypeCorrect == Spec => []TypeOK
BY InitType, NextType, PTL DEF Spec

-----------------------------------------------------------------------------
(* Who has start_lock, and the suspend locks.                              *)

\* What the next two lemmas use of the types.
TypeFacts ==
  /\ pc \in [Threads -> Labels]
  /\ ret \in {"notice", "merge_lock"}
  /\ suspended \in Helpers \union {NoThread}
  /\ suspend_lock \in [{0, 1} -> BOOLEAN]
  /\ which_suspends \in {0, 1} /\ which_wakes \in {0, 1}

\* LockInv holds at first.
LEMMA LockInvInit == Init => LockInv
BY ConstantsAssumption DEF Init, LockInv, Threads, Outside, MasterInside, Testing, Merging,
   multithreading

\* LockInv is kept by every step.
LEMMA LockInvNext == TypeOK /\ LockInv /\ [Next]_vars => LockInv'
<1> SUFFICES ASSUME TypeOK, LockInv, [Next]_vars PROVE LockInv'
  OBVIOUS
<1>0. TypeFacts
  BY DEF TypeOK, LocksTypeOK, ThreadsTypeOK, MasterTypeOK, TypeFacts
<1> USE <1>0, ConstantsAssumption
    DEF TypeFacts, LockInv, Goto, Threads, Outside, MasterInside, Testing, Merging,
        multithreading, optionVars, masterVars
<1>1. ASSUME NEW th \in Threads, FindReadIn(th) PROVE LockInv'
  BY <1>1 DEF FindReadIn
<1>2. ASSUME NEW th \in Threads, FindTake(th) PROVE LockInv'
  BY <1>2 DEF FindTake
<1>3. ASSUME NEW th \in Threads, FindNone(th) PROVE LockInv'
  BY <1>3 DEF FindNone, MasterUnsetsStartLock
<1>4. ASSUME NEW th \in Threads, FindAdvance(th) PROVE LockInv'
  BY <1>4 DEF FindAdvance, MasterUnsetsStartLock
<1>5. ASSUME NEW th \in Threads, Claim(th) PROVE LockInv'
  BY <1>5 DEF Claim
<1>6. ASSUME NEW th \in Threads, RunThisTask(th) PROVE LockInv'
  BY <1>6 DEF RunThisTask
<1>7. ASSUME NEW i \in Helpers, SetStartLock(i) PROVE LockInv'
  BY <1>7 DEF SetStartLock
<1>8. ASSUME NEW i \in Helpers, ReadIn(i) PROVE LockInv'
  BY <1>8 DEF ReadIn
<1>9. ASSUME NEW i \in Helpers, SpinReadOut(i) PROVE LockInv'
  BY <1>9 DEF SpinReadOut, SpinAgain
<1>10. ASSUME NEW i \in Helpers, SpinReadFlag(i) PROVE LockInv'
  BY <1>10 DEF SpinReadFlag, SpinAgain
<1>11. ASSUME NEW i \in Helpers, DecideReadOut(i) PROVE LockInv'
  BY <1>11 DEF DecideReadOut
<1>12. ASSUME NEW i \in Helpers, DecideReadFlag(i) PROVE LockInv'
  BY <1>12 DEF DecideReadFlag
<1>13. ASSUME NEW i \in Helpers, WillSuspend(i) PROVE LockInv'
  BY <1>13 DEF WillSuspend
<1>14. ASSUME NEW i \in Helpers, Suspend(i) PROVE LockInv'
  BY <1>14 DEF Suspend
<1>15. CASE DoTask
  BY <1>15 DEF DoTask
<1>16. CASE MergeBegin
  BY <1>16 DEF MergeBegin
<1>17. CASE WaitForAll
  BY <1>17 DEF WaitForAll
<1>18. CASE TableFull
  BY <1>18 DEF TableFull
<1>19. CASE NewTask
  BY <1>19 DEF NewTask
<1>20. CASE PutInUntaken
  BY <1>20 DEF PutInUntaken
<1>21. CASE WakeHelper
  BY <1>21 DEF WakeHelper
<1>22. CASE MergeTestLock
  BY <1>22 DEF MergeTestLock
<1>23. CASE Merge
  BY <1>23 DEF Merge, MasterUnsetsStartLock
<1>24. CASE ToggleMultithreading
  BY <1>24 DEF ToggleMultithreading
<1>25. CASE WaitNotice
  BY <1>25 DEF WaitNotice
<1>26. CASE DoMasterOnly
  BY <1>26 DEF DoMasterOnly
<1>27. CASE ReadSuspended
  BY <1>27 DEF ReadSuspended
<1>28. CASE ReadQueueEmpty
  BY <1>28 DEF ReadQueueEmpty
<1>29. CASE TestStartLock
  BY <1>29 DEF TestStartLock
<1>30. CASE UNCHANGED vars
  BY <1>30 DEF vars
<1>31. QED
  BY <1>1, <1>2, <1>3, <1>4, <1>5, <1>6, <1>7, <1>8, <1>9, <1>10, <1>11,
     <1>12, <1>13, <1>14, <1>15, <1>16, <1>17, <1>18, <1>19, <1>20, <1>21,
     <1>22, <1>23, <1>24, <1>25, <1>26, <1>27, <1>28, <1>29, <1>30 DEF Next,
     application, master_call, helper_proc, find_and_run

\* WakeInv holds at first.
LEMMA WakeInvInit == Init => WakeInv
BY ConstantsAssumption DEF Init, WakeInv, Threads, multithreading

\* WakeInv is kept by every step; LockInv is needed for the two that suspend.
LEMMA WakeInvNext == IInv /\ [Next]_vars => WakeInv'
<1> SUFFICES ASSUME IInv, [Next]_vars PROVE WakeInv'
  OBVIOUS
<1>0. TypeFacts /\ LockInv /\ WakeInv
  BY DEF IInv, TypeOK, LocksTypeOK, ThreadsTypeOK, MasterTypeOK, TypeFacts
<1> USE <1>0, ConstantsAssumption
    DEF TypeFacts, WakeInv, Goto, Threads, suspendVars, optionVars,
        masterVars, multithreading
<1>1. ASSUME NEW th \in Threads, FindReadIn(th) PROVE WakeInv'
  BY <1>1 DEF FindReadIn
<1>2. ASSUME NEW th \in Threads, FindTake(th) PROVE WakeInv'
  BY <1>2 DEF FindTake
<1>3. ASSUME NEW th \in Threads, FindNone(th) PROVE WakeInv'
  BY <1>3 DEF FindNone
<1>4. ASSUME NEW th \in Threads, FindAdvance(th) PROVE WakeInv'
  BY <1>4 DEF FindAdvance
<1>5. ASSUME NEW th \in Threads, Claim(th) PROVE WakeInv'
  BY <1>5 DEF Claim
<1>6. ASSUME NEW th \in Threads, RunThisTask(th) PROVE WakeInv'
  BY <1>6 DEF RunThisTask
<1>7. ASSUME NEW i \in Helpers, SetStartLock(i) PROVE WakeInv'
  BY <1>7 DEF SetStartLock
<1>8. ASSUME NEW i \in Helpers, ReadIn(i) PROVE WakeInv'
  BY <1>8 DEF ReadIn
<1>9. ASSUME NEW i \in Helpers, SpinReadOut(i) PROVE WakeInv'
  BY <1>9 DEF SpinReadOut, SpinAgain
<1>10. ASSUME NEW i \in Helpers, SpinReadFlag(i) PROVE WakeInv'
  BY <1>10 DEF SpinReadFlag, SpinAgain
<1>11. ASSUME NEW i \in Helpers, DecideReadOut(i) PROVE WakeInv'
  BY <1>11 DEF DecideReadOut
<1>12. ASSUME NEW i \in Helpers, DecideReadFlag(i) PROVE WakeInv'
  BY <1>12 DEF DecideReadFlag
<1>13. ASSUME NEW i \in Helpers, WillSuspend(i) PROVE WakeInv'
  BY <1>13 DEF WillSuspend, LockInv, Outside
<1>14. ASSUME NEW i \in Helpers, Suspend(i) PROVE WakeInv'
  <2>1. pc[i] = "suspend" /\ \A j \in Helpers : pc[j] = "suspend" => j = i
    BY <1>14 DEF Suspend, LockInv, Outside
  <2>2. which_suspends # which_wakes
    BY <1>14 DEF Suspend
  <2>3. which_suspends' = which_wakes /\ which_wakes' = which_wakes
    BY <1>14, <2>2 DEF Suspend
  <2>4. suspended = NoThread /\ suspended' = NoThread
    BY <1>14, <2>2 DEF Suspend
  <2>5. \A j \in Helpers : pc'[j] # "suspend"
    BY <1>14, <2>1 DEF Suspend
  <2>6. QED
    BY <1>14, <2>1, <2>3, <2>4, <2>5 DEF Suspend
<1>15. CASE DoTask
  BY <1>15 DEF DoTask
<1>16. CASE MergeBegin
  BY <1>16 DEF MergeBegin
<1>17. CASE WaitForAll
  BY <1>17 DEF WaitForAll
<1>18. CASE TableFull
  BY <1>18 DEF TableFull
<1>19. CASE NewTask
  BY <1>19 DEF NewTask
<1>20. CASE PutInUntaken
  BY <1>20 DEF PutInUntaken
<1>21. CASE WakeHelper
  BY <1>21 DEF WakeHelper, Wake
<1>22. CASE MergeTestLock
  BY <1>22 DEF MergeTestLock
<1>23. CASE Merge
  BY <1>23 DEF Merge
<1>24. CASE ToggleMultithreading
  BY <1>24 DEF ToggleMultithreading
<1>25. CASE WaitNotice
  BY <1>25 DEF WaitNotice
<1>26. CASE DoMasterOnly
  BY <1>26 DEF DoMasterOnly
<1>27. CASE ReadSuspended
  BY <1>27 DEF ReadSuspended
<1>28. CASE ReadQueueEmpty
  BY <1>28 DEF ReadQueueEmpty
<1>29. CASE TestStartLock
  BY <1>29 DEF TestStartLock, Wake
<1>30. CASE UNCHANGED vars
  BY <1>30 DEF vars
<1>31. QED
  BY <1>1, <1>2, <1>3, <1>4, <1>5, <1>6, <1>7, <1>8, <1>9, <1>10, <1>11,
     <1>12, <1>13, <1>14, <1>15, <1>16, <1>17, <1>18, <1>19, <1>20, <1>21,
     <1>22, <1>23, <1>24, <1>25, <1>26, <1>27, <1>28, <1>29, <1>30 DEF Next,
     application, master_call, helper_proc, find_and_run

-----------------------------------------------------------------------------
(* What follows.                                                           *)

\* The inductive invariant holds in every state.
LEMMA InvariantHolds == Spec => []IInv
<1>1. Init => IInv
  BY InitType, LockInvInit, WakeInvInit DEF IInv
<1>2. IInv /\ [Next]_vars => IInv'
  BY NextType, LockInvNext, WakeInvNext DEF IInv
<1>3. QED
  BY <1>1, <1>2, PTL DEF Spec

\* No wake-up is lost and none wakes the wrong suspension: a helper that went to
\* suspend itself is recorded and blocks on the lock unset next, or has been
\* woken and finds its lock unset (put_in_untaken, helper_proc).
THEOREM Handshake == Spec => []SuspendHandshake
<1>1. IInv => SuspendHandshake
  <2> SUFFICES ASSUME IInv PROVE SuspendHandshake
    OBVIOUS
  <2>0. TypeFacts
    BY DEF IInv, TypeOK, LocksTypeOK, ThreadsTypeOK, MasterTypeOK, TypeFacts
  <2>1. ASSUME NEW i \in Helpers, pc[i] = "suspend"
        PROVE  start_lock = i
    BY <2>1 DEF IInv, LockInv, Outside
  <2>2. QED
    BY <2>0, <2>1, ConstantsAssumption
       DEF IInv, WakeInv, TypeFacts, SuspendHandshake
<1>2. QED
  BY <1>1, InvariantHolds, PTL

\* While multithreading, only one thread at a time is in find_untaken_runnable,
\* which start_lock is for.  (Without the condition it is false: run
\* UntakenToggle.)
THEOREM Exclusion == Spec => []TakenExclusively
<1>1. IInv => TakenExclusively
  BY ConstantsAssumption
     DEF IInv, LockInv, Outside, MasterInside, FindExclusive, Threads,
         TakenExclusively
<1>2. QED
  BY <1>1, InvariantHolds, PTL

-----------------------------------------------------------------------------
(* The queue itself: no task is lost or started twice, and the master is   *)
(* never surprised, as long as the multithreading option has been changed  *)
(* at most twice: with a third change two threads can be in                *)
(* find_untaken_runnable, and a task can be lost (run UntakenToggle).      *)
(*                                                                         *)
(* QInv, with IInv, is inductive.  Its parts are about the option, the     *)
(* master, what the threads have taken, where a task is, the part of the   *)
(* queue that a thread has seen, and what one that decides to suspend      *)
(* knows of the queue.                                                     *)

\* Where a thread has taken a task, and where it may be about to.
Busy == {"advance", "claim", "run"}
Active == {"find", "scan"} \union Busy

\* The positions of the untaken queue that have tasks not taken: one that advances
\* untaken_out has copied the entry there elsewhere.
Advancing == \E th \in Threads : pc[th] = "advance"
First == IF Advancing THEN Incr(untaken_out) ELSE untaken_out
Window == Between(First, untaken_in)

Putting == pc[Master] = "put"
Merges == pc[Master] \in {"merge_lock", "merge"} \/ ret = "merge_lock"

\* Without helpers none of them is looking for a task or doing one.
OptionInv ==
  /\ multithreading <=> toggles # 1
  /\ ~multithreading => \A i \in Helpers : pc[i] \notin Active
  /\ pc[Master] = "toggle" => used = {}

MasterInv ==
  /\ ~late_wake /\ pc[Master] # "exit"
  /\ h # NoThread => pc[Master] = "queue"
  /\ Putting \/ Merges => arg \in used
  /\ Merges => \A j \in 1..Len(master_only) : master_only[j] # arg
  /\ pc[Master] = "merge" /\ ~multithreading => helper[arg] = NoThread

\* What a thread has taken is in use and not yet done.
TakenInv ==
  /\ \A th \in Threads : this_task[th] # NoTask <=> pc[th] \in Busy
  /\ \A th \in Threads : pc[th] \in Busy =>
       this_task[th] \in used /\ ~done[this_task[th]]
  /\ \A th \in Threads : pc[th] = "run" => helper[this_task[th]] # NoThread
  /\ \A t \in Tasks : done[t] => t \in used /\ helper[t] # NoThread

\* A task in use and not done is in one place.
OnceInv ==
  /\ \A i \in Window : untaken[i] \in used /\ ~done[untaken[i]]
  /\ \A i, j \in Window : untaken[i] = untaken[j] => i = j
  /\ \A i \in 1..Len(master_only) : master_only[i] \in used /\ ~done[master_only[i]]
  /\ \A i, j \in 1..Len(master_only) : master_only[i] = master_only[j] => i = j
  /\ \A a, b \in Threads : pc[a] \in Busy /\ this_task[a] = this_task[b] => a = b
  /\ \A i \in Window, j \in 1..Len(master_only) : untaken[i] # master_only[j]
  /\ \A i \in Window, th \in Threads : untaken[i] # this_task[th]
  /\ \A i \in 1..Len(master_only), th \in Threads : master_only[i] # this_task[th]
  /\ Putting => /\ ~done[arg]
                /\ \A i \in Window : untaken[i] # arg
                /\ \A i \in 1..Len(master_only) : master_only[i] # arg
                /\ \A th \in Threads : this_task[th] # arg
  /\ \A t \in used : ~done[t] =>
                     \/ \E i \in Window : untaken[i] = t
                     \/ \E i \in 1..Len(master_only) : master_only[i] = t
                     \/ \E th \in Threads : this_task[th] = t
                     \/ Putting /\ arg = t

WindowInv ==
  /\ Advancing => untaken_in # untaken_out
  /\ \A th \in Threads : pc[th] = "scan" =>
       Between(untaken_out, u_in[th]) \subseteq Between(untaken_out, untaken_in)

SuspendInv ==
  /\ \A i \in Helpers :
       /\ pc[i] \in {"decide_out", "decide_flag", "will_suspend"} => untaken_lock = i
       /\ toggles = 0 /\ pc[i] \in {"spin_out", "decide_out"} =>
            (untaken_in = untaken_out => u_in[i] = untaken_out)
       /\ toggles = 0 /\ pc[i] \in {"spin_flag", "decide_flag", "find", "scan"} =>
            untaken_in # untaken_out
       /\ multithreading /\ pc[i] = "decide_out" /\ u_in[i] = untaken_out =>
            untaken_in = untaken_out
       /\ multithreading /\ pc[i] = "will_suspend" => untaken_in = untaken_out
  /\ multithreading /\ suspended # NoThread =>
       untaken_in = untaken_out \/ pc[Master] = "wake"

QInv == OptionInv /\ MasterInv /\ TakenInv /\ OnceInv /\ WindowInv /\ SuspendInv

-----------------------------------------------------------------------------
(* Positions of the circular queue.                                        *)

\* The positions from one to another, and what advancing either does to them.
LEMMA Positions ==
  ASSUME NEW a \in Slots, NEW b \in Slots
  PROVE  /\ Incr(a) \in Slots /\ Between(a, b) \subseteq Slots
         /\ Between(a, b) = {} <=> a = b
         /\ b \notin Between(a, b)
         /\ Incr(a) = Incr(b) => a = b
         /\ a # b => /\ a \in Between(a, b)
                     /\ Between(Incr(a), b) = Between(a, b) \ {a}
         /\ Incr(b) # a => Between(a, Incr(b)) = Between(a, b) \union {b}
         /\ Incr(b) = a => Between(a, b) \union {b} = Slots
<1> USE MaxTasksType DEF Slots, Incr, Between
<1>1. Incr(a) \in Slots /\ Between(a, b) \subseteq Slots
  OBVIOUS
<1>2. Between(a, b) = {} <=> a = b
  OBVIOUS
<1>3. b \notin Between(a, b)
  OBVIOUS
<1>4. Incr(a) = Incr(b) => a = b
  OBVIOUS
<1>5. ASSUME a # b PROVE a \in Between(a, b) /\ Between(Incr(a), b) = Between(a, b) \ {a}
  BY <1>5
<1>6. ASSUME Incr(b) # a PROVE Between(a, Incr(b)) = Between(a, b) \union {b}
  BY <1>6
<1>7. ASSUME Incr(b) = a PROVE Between(a, b) \union {b} = Slots
  BY <1>7
<1> QED BY <1>1, <1>2, <1>3, <1>4, <1>5, <1>6, <1>7

-----------------------------------------------------------------------------
Before == IInv /\ QInv /\ toggles <= 2

\* What the lemmas below use of the types and of the invariant.
ThreadFacts ==
  /\ pc \in [Threads -> Labels] /\ this_task \in [Threads -> Tasks \union {NoTask}]
  /\ u_in \in [Threads -> Slots] /\ toggles \in Nat
  /\ ret \in {"notice", "merge_lock"} /\ goal \in {"all", "slot", "toggle"}
  /\ suspended \in Helpers \union {NoThread} /\ h \in Helpers \union {NoThread}
  /\ start_lock \in Threads \union {NoThread}
  /\ untaken_lock \in Helpers \union {NoThread}
  /\ helpers_not_multithreading_now \in BOOLEAN
QueueFacts ==
  /\ untaken \in [Slots -> Tasks \union {NoTask}]
  /\ untaken_in \in Slots /\ untaken_out \in Slots
  /\ First \in Slots /\ Window \subseteq Slots
  /\ master_only \in Seq(Tasks \union {NoTask})
  /\ used \subseteq Tasks /\ done \in [Tasks -> BOOLEAN]
  /\ helper \in [Tasks -> Threads \union {NoThread}]
  /\ pipe \in [Tasks -> Tasks \union {NoTask}]
  /\ arg \in Tasks \union {NoTask}

LEMMA BeforeGives ==
  Before => /\ ThreadFacts /\ QueueFacts /\ LockInv /\ WakeInv /\ toggles <= 2
            /\ OptionInv /\ MasterInv /\ TakenInv /\ OnceInv /\ WindowInv /\ SuspendInv
<1> SUFFICES ASSUME Before
             PROVE  /\ ThreadFacts /\ QueueFacts /\ LockInv /\ WakeInv /\ toggles <= 2
                    /\ OptionInv /\ MasterInv /\ TakenInv /\ OnceInv /\ WindowInv /\ SuspendInv
  OBVIOUS
<1>1. TypeOK /\ LockInv /\ WakeInv /\ QInv /\ toggles <= 2
  BY DEF Before, IInv
<1>2. ThreadFacts
  BY <1>1 DEF TypeOK, ThreadsTypeOK, MasterTypeOK, LocksTypeOK, ThreadFacts
<1>3. QueueFacts
  <2>1. untaken_in \in Slots /\ untaken_out \in Slots
    BY <1>1 DEF TypeOK, QueuesTypeOK
  <2>2. First \in Slots
    BY <2>1, Positions DEF First
  <2>3. Window \subseteq Slots
    BY <2>1, <2>2, Positions DEF Window
  <2> QED BY <1>1, <2>1, <2>2, <2>3
         DEF TypeOK, QueuesTypeOK, TasksTypeOK, MasterTypeOK, QueueFacts
<1> QED BY <1>1, <1>2, <1>3 DEF QInv

\* When nothing is in use nothing is queued and no helper does a task.
LEMMA Unused ==
  ASSUME Before, used = {}, pc[Master] \notin Busy
  PROVE  /\ untaken_in = untaken_out
         /\ \A i \in Helpers : /\ pc[i] \notin Busy
                               /\ toggles = 0 => pc[i] \notin {"find", "scan"}
<1>1. /\ ThreadFacts /\ QueueFacts /\ TakenInv /\ OnceInv /\ SuspendInv
  BY BeforeGives
<1>2. \A th \in Threads : pc[th] \notin Busy
  BY <1>1 DEF TakenInv
<1>3. First = untaken_out
  BY <1>2 DEF First, Advancing, Busy
<1>4. untaken_in = untaken_out
  <2>1. \A i \in Window : untaken[i] \in used
    BY <1>1 DEF OnceInv
  <2>2. Window = {}
    BY <2>1
  <2> QED BY <1>1, <1>3, <2>2, Positions DEF Window, QueueFacts
<1> QED BY <1>1, <1>2, <1>4 DEF SuspendInv, Threads

\* The option changes when nothing is in use, so that no helper does a task.
LEMMA OptionNext == Before /\ [Next]_vars /\ toggles' <= 2 => OptionInv'
<1> SUFFICES ASSUME Before, [Next]_vars, toggles' <= 2 PROVE OptionInv'
  OBVIOUS
<1>0. ThreadFacts /\ LockInv /\ OptionInv
  BY BeforeGives
<1> USE <1>0, ConstantsAssumption
    DEF ThreadFacts, OptionInv, LockInv, Outside, MasterInside, Testing, Merging,
        Active, Busy, Goto, Threads, queueVars, suspendVars, taskVars, optionVars,
        localVars, masterVars, multithreading
<1>1. ASSUME NEW th \in Threads, FindReadIn(th) PROVE OptionInv'
  BY <1>1 DEF FindReadIn
<1>2. ASSUME NEW th \in Threads, FindTake(th) PROVE OptionInv'
  BY <1>2 DEF FindTake
<1>3. ASSUME NEW th \in Threads, FindNone(th) PROVE OptionInv'
  BY <1>3 DEF FindNone, MasterUnsetsStartLock
<1>4. ASSUME NEW th \in Threads, FindAdvance(th) PROVE OptionInv'
  BY <1>4 DEF FindAdvance, MasterUnsetsStartLock
<1>5. ASSUME NEW th \in Threads, Claim(th) PROVE OptionInv'
  BY <1>5 DEF Claim
<1>6. ASSUME NEW th \in Threads, RunThisTask(th) PROVE OptionInv'
  BY <1>6 DEF RunThisTask
<1>7. ASSUME NEW i \in Helpers, SetStartLock(i) PROVE OptionInv'
  BY <1>7 DEF SetStartLock
<1>8. ASSUME NEW i \in Helpers, ReadIn(i) PROVE OptionInv'
  BY <1>8 DEF ReadIn
<1>9. ASSUME NEW i \in Helpers, SpinReadOut(i) PROVE OptionInv'
  BY <1>9 DEF SpinReadOut, SpinAgain
<1>10. ASSUME NEW i \in Helpers, SpinReadFlag(i) PROVE OptionInv'
  BY <1>10 DEF SpinReadFlag, SpinAgain
<1>11. ASSUME NEW i \in Helpers, DecideReadOut(i) PROVE OptionInv'
  BY <1>11 DEF DecideReadOut
<1>12. ASSUME NEW i \in Helpers, DecideReadFlag(i) PROVE OptionInv'
  BY <1>12 DEF DecideReadFlag
<1>13. ASSUME NEW i \in Helpers, WillSuspend(i) PROVE OptionInv'
  BY <1>13 DEF WillSuspend
<1>14. ASSUME NEW i \in Helpers, Suspend(i) PROVE OptionInv'
  BY <1>14 DEF Suspend
<1>15. CASE DoTask
  BY <1>15 DEF DoTask, NoticeCompleted, Completed
<1>16. CASE MergeBegin
  BY <1>16 DEF MergeBegin, NoticeCompleted, Completed
<1>17. CASE WaitForAll
  BY <1>17 DEF WaitForAll
<1>18. CASE TableFull
  BY <1>18 DEF TableFull
<1>19. CASE NewTask
  BY <1>19 DEF NewTask
<1>20. CASE PutInUntaken
  BY <1>20 DEF PutInUntaken, CanSetUntakenLock
<1>21. CASE WakeHelper
  BY <1>21 DEF WakeHelper, Wake
<1>22. CASE MergeTestLock
  BY <1>22 DEF MergeTestLock
<1>23. CASE Merge
  BY <1>23 DEF Merge, MasterUnsetsStartLock
<1>24. CASE ToggleMultithreading
  <2>1. /\ untaken_in = untaken_out
        /\ \A i \in Helpers : /\ pc[i] \notin Busy
                              /\ toggles = 0 => pc[i] \notin {"find", "scan"}
    BY <1>24, Unused DEF ToggleMultithreading
  <2>2. helpers_not_multithreading_now' <=> ~helpers_not_multithreading_now
    BY <1>24, Zenon DEF ToggleMultithreading
  <2>3. toggles' = toggles + 1 /\ pc' = [pc EXCEPT ![Master] = "app"] /\ used' = used
    BY <1>24 DEF ToggleMultithreading
  <2> QED BY <2>1, <2>2, <2>3
<1>25. CASE WaitNotice
  BY <1>25 DEF WaitNotice, NoticeCompleted, Completed
<1>26. CASE DoMasterOnly
  BY <1>26 DEF DoMasterOnly, HeadRunnable
<1>27. CASE ReadSuspended
  BY <1>27 DEF ReadSuspended
<1>28. CASE ReadQueueEmpty
  BY <1>28 DEF ReadQueueEmpty
<1>29. CASE TestStartLock
  BY <1>29 DEF TestStartLock, Wake
<1>30. CASE UNCHANGED vars
  BY <1>30 DEF vars
<1>31. QED
  BY <1>1, <1>2, <1>3, <1>4, <1>5, <1>6, <1>7, <1>8, <1>9, <1>10, <1>11, <1>12, <1>13,
     <1>14, <1>15, <1>16, <1>17, <1>18, <1>19, <1>20, <1>21, <1>22, <1>23, <1>24, <1>25,
     <1>26, <1>27, <1>28, <1>29, <1>30
     DEF Next, application, master_call, helper_proc, find_and_run

\* Only one thread at a time looks through the untaken queue, and not with helpers that
\* start a task, as long as the option has been changed at most twice.
LEMMA Alone ==
  ASSUME Before, NEW a \in Threads, NEW b \in Threads,
         pc[a] \in {"find", "scan", "advance"}, pc[b] \in {"find", "scan", "advance"}
  PROVE  a = b
<1>1. LockInv /\ OptionInv
  BY BeforeGives
<1> QED BY <1>1, ConstantsAssumption
       DEF LockInv, OptionInv, Outside, MasterInside, Threads, Active, Busy

\* What is chosen in the part of the queue that was seen is queued.
LEMMA Seen ==
  ASSUME Before, NEW th \in Threads, pc[th] = "scan",
         NEW f \in Between(untaken_out, u_in[th])
  PROVE  /\ ~Advancing /\ First = untaken_out /\ untaken_in # untaken_out
         /\ f \in Window /\ untaken_out \in Window /\ f \in Slots
         /\ untaken[f] \in used /\ ~done[untaken[f]] /\ untaken[f] \in Tasks
<1>1. ThreadFacts /\ QueueFacts /\ OnceInv /\ WindowInv
  BY BeforeGives
<1>2. ~Advancing /\ First = untaken_out
  BY Alone DEF Advancing, First
<1>3. f \in Window
  BY <1>1, <1>2 DEF WindowInv, Window
<1>4. untaken_in # untaken_out /\ untaken_out \in Window
  BY <1>1, <1>2, <1>3, Positions DEF Window, QueueFacts
<1> QED BY <1>1, <1>2, <1>3, <1>4 DEF OnceInv, QueueFacts

\* The master does the first of the master-only tasks.
LEMMA FirstOfMasterOnly ==
  ASSUME Before, master_only # << >>
  PROVE  /\ Head(master_only) = master_only[1] /\ 1 \in 1..Len(master_only)
         /\ Head(master_only) \in used /\ ~done[Head(master_only)]
         /\ Head(master_only) \in Tasks
         /\ Len(Tail(master_only)) = Len(master_only) - 1
         /\ \A j \in 1..Len(Tail(master_only)) :
              j + 1 \in 1..Len(master_only) /\ Tail(master_only)[j] = master_only[j + 1]
<1>1. QueueFacts /\ OnceInv
  BY BeforeGives
<1>2. /\ Head(master_only) = master_only[1] /\ 1 \in 1..Len(master_only)
      /\ Len(Tail(master_only)) = Len(master_only) - 1
      /\ \A j \in 1..Len(Tail(master_only)) :
           j + 1 \in 1..Len(master_only) /\ Tail(master_only)[j] = master_only[j + 1]
  BY <1>1 DEF QueueFacts
<1> QED BY <1>1, <1>2 DEF OnceInv, QueueFacts

\* A task that the master would merge another with is queued, unless a helper has it.
LEMMA MergeFinds ==
  ASSUME Before, pc[Master] = "merge", ~(multithreading /\ helper[arg] # NoThread)
  PROVE  /\ First = untaken_out /\ ~Advancing
         /\ \E j \in Window : untaken[j] = arg
<1>1. ThreadFacts /\ QueueFacts /\ LockInv /\ OptionInv /\ MasterInv /\ TakenInv /\ OnceInv
  BY BeforeGives
<1>2. arg \in used /\ arg \in Tasks /\ helper[arg] = NoThread
  BY <1>1 DEF MasterInv, Merges, QueueFacts
<1>3. ~done[arg]
  BY <1>1, <1>2 DEF TakenInv
<1>4. ASSUME NEW i \in Helpers PROVE pc[i] \notin {"find", "scan", "advance", "claim"}
  BY <1>1, ConstantsAssumption
     DEF LockInv, OptionInv, Outside, MasterInside, Active, Busy
<1>5. ~Advancing /\ First = untaken_out
  BY <1>4 DEF Advancing, First, Threads
<1>6. ASSUME NEW th \in Threads PROVE this_task[th] # arg
  <2>1. CASE pc[th] \in Busy
    <3>1. pc[th] = "run"
      BY <1>4, <2>1 DEF Busy, Threads
    <3> QED BY <1>1, <1>2, <3>1 DEF TakenInv
  <2>2. CASE pc[th] \notin Busy
    BY <1>1, <1>2, <2>2, ConstantsAssumption DEF TakenInv
  <2> QED BY <2>1, <2>2
<1>7. \A j \in 1..Len(master_only) : master_only[j] # arg
  BY <1>1 DEF MasterInv, Merges
<1> QED BY <1>1, <1>2, <1>3, <1>5, <1>6, <1>7 DEF OnceInv, Putting

\* What is taken is in use and not done until it is run: by Seen for what is taken from
\* the untaken queue.
LEMMA TakenNext == Before /\ [Next]_vars /\ toggles' <= 2 => TakenInv'
<1> SUFFICES ASSUME Before, [Next]_vars, toggles' <= 2 PROVE TakenInv'
  OBVIOUS
<1>0. ThreadFacts /\ QueueFacts /\ TakenInv
  BY BeforeGives
<1> USE <1>0, ConstantsAssumption
    DEF ThreadFacts, QueueFacts, TakenInv, Busy, Goto, Threads, queueVars, suspendVars,
        taskVars, optionVars, localVars, masterVars, multithreading
<1>1. ASSUME NEW th \in Threads, FindReadIn(th) PROVE TakenInv'
  BY <1>1 DEF FindReadIn
<1>2. ASSUME NEW th \in Threads, FindTake(th) PROVE TakenInv'
  <2>1. PICK f \in Between(untaken_out, u_in[th]) :
          this_task' = [this_task EXCEPT ![th] = untaken[f]]
    BY <1>2 DEF FindTake
  <2>2. untaken[f] \in used /\ ~done[untaken[f]] /\ untaken[f] \in Tasks
    BY <1>2, Seen DEF FindTake
  <2> QED BY <1>2, <2>1, <2>2 DEF FindTake
<1>3. ASSUME NEW th \in Threads, FindNone(th) PROVE TakenInv'
  BY <1>3 DEF FindNone, MasterUnsetsStartLock
<1>4. ASSUME NEW th \in Threads, FindAdvance(th) PROVE TakenInv'
  BY <1>4 DEF FindAdvance, MasterUnsetsStartLock
<1>5. ASSUME NEW th \in Threads, Claim(th) PROVE TakenInv'
  BY <1>5 DEF Claim
<1>6. ASSUME NEW th \in Threads, RunThisTask(th) PROVE TakenInv'
  <2>1. \A x \in Threads : pc[x] \in Busy /\ this_task[x] = this_task[th] => x = th
    BY <1>6, BeforeGives DEF OnceInv, RunThisTask
  <2>2. this_task[th] \in Tasks /\ pc[th] = "run"
    BY <1>6 DEF RunThisTask
  <2> QED BY <1>6, <2>1, <2>2 DEF RunThisTask
<1>7. ASSUME NEW i \in Helpers, SetStartLock(i) PROVE TakenInv'
  BY <1>7 DEF SetStartLock
<1>8. ASSUME NEW i \in Helpers, ReadIn(i) PROVE TakenInv'
  BY <1>8 DEF ReadIn
<1>9. ASSUME NEW i \in Helpers, SpinReadOut(i) PROVE TakenInv'
  BY <1>9 DEF SpinReadOut, SpinAgain
<1>10. ASSUME NEW i \in Helpers, SpinReadFlag(i) PROVE TakenInv'
  BY <1>10 DEF SpinReadFlag, SpinAgain
<1>11. ASSUME NEW i \in Helpers, DecideReadOut(i) PROVE TakenInv'
  BY <1>11 DEF DecideReadOut
<1>12. ASSUME NEW i \in Helpers, DecideReadFlag(i) PROVE TakenInv'
  BY <1>12 DEF DecideReadFlag
<1>13. ASSUME NEW i \in Helpers, WillSuspend(i) PROVE TakenInv'
  BY <1>13 DEF WillSuspend
<1>14. ASSUME NEW i \in Helpers, Suspend(i) PROVE TakenInv'
  BY <1>14 DEF Suspend
<1>15. CASE DoTask
  BY <1>15 DEF DoTask, NoticeCompleted, Completed
<1>16. CASE MergeBegin
  BY <1>16 DEF MergeBegin, NoticeCompleted, Completed
<1>17. CASE WaitForAll
  BY <1>17 DEF WaitForAll
<1>18. CASE TableFull
  BY <1>18 DEF TableFull
<1>19. CASE NewTask
  BY <1>19 DEF NewTask
<1>20. CASE PutInUntaken
  BY <1>20 DEF PutInUntaken, CanSetUntakenLock
<1>21. CASE WakeHelper
  BY <1>21 DEF WakeHelper, Wake
<1>22. CASE MergeTestLock
  BY <1>22 DEF MergeTestLock
<1>23. CASE Merge
  BY <1>23 DEF Merge, MasterUnsetsStartLock
<1>24. CASE ToggleMultithreading
  BY <1>24 DEF ToggleMultithreading
<1>25. CASE WaitNotice
  BY <1>25 DEF WaitNotice, NoticeCompleted, Completed
<1>26. CASE DoMasterOnly
  <2>1. Head(master_only) \in used /\ ~done[Head(master_only)] /\ Head(master_only) \in Tasks
    BY <1>26, FirstOfMasterOnly DEF DoMasterOnly, HeadRunnable
  <2> QED BY <1>26, <2>1 DEF DoMasterOnly
<1>27. CASE ReadSuspended
  BY <1>27 DEF ReadSuspended
<1>28. CASE ReadQueueEmpty
  BY <1>28 DEF ReadQueueEmpty
<1>29. CASE TestStartLock
  BY <1>29 DEF TestStartLock, Wake
<1>30. CASE UNCHANGED vars
  BY <1>30 DEF vars
<1>31. QED
  BY <1>1, <1>2, <1>3, <1>4, <1>5, <1>6, <1>7, <1>8, <1>9, <1>10, <1>11, <1>12, <1>13,
     <1>14, <1>15, <1>16, <1>17, <1>18, <1>19, <1>20, <1>21, <1>22, <1>23, <1>24, <1>25,
     <1>26, <1>27, <1>28, <1>29, <1>30
     DEF Next, application, master_call, helper_proc, find_and_run

\* The master finds the task it merges with (MergeFinds), and finds no helper suspended
\* when something is queued (SuspendInv).
LEMMA MasterNext == Before /\ [Next]_vars /\ toggles' <= 2 => MasterInv'
<1> SUFFICES ASSUME Before, [Next]_vars, toggles' <= 2 PROVE MasterInv'
  OBVIOUS
<1>0. ThreadFacts /\ QueueFacts /\ LockInv /\ WakeInv /\ OptionInv /\ TakenInv /\ MasterInv
  BY BeforeGives
<1> USE <1>0, ConstantsAssumption
    DEF ThreadFacts, QueueFacts, MasterInv, LockInv, WakeInv, OptionInv, Merges,
        Putting, Merging, Testing, Goto, Threads, queueVars, suspendVars, taskVars,
        optionVars, localVars, masterVars, multithreading
<1>1. ASSUME NEW th \in Threads, FindReadIn(th) PROVE MasterInv'
  BY <1>1 DEF FindReadIn
<1>2. ASSUME NEW th \in Threads, FindTake(th) PROVE MasterInv'
  BY <1>2 DEF FindTake
<1>3. ASSUME NEW th \in Threads, FindNone(th) PROVE MasterInv'
  BY <1>3 DEF FindNone, MasterUnsetsStartLock
<1>4. ASSUME NEW th \in Threads, FindAdvance(th) PROVE MasterInv'
  BY <1>4 DEF FindAdvance, MasterUnsetsStartLock
<1>5. ASSUME NEW th \in Threads, Claim(th) PROVE MasterInv'
  <2>1. ~multithreading /\ pc[Master] = "merge" => FALSE
    BY <1>5 DEF Claim, Active, Busy
  <2> QED BY <1>5, <2>1 DEF Claim
<1>6. ASSUME NEW th \in Threads, RunThisTask(th) PROVE MasterInv'
  BY <1>6 DEF RunThisTask
<1>7. ASSUME NEW i \in Helpers, SetStartLock(i) PROVE MasterInv'
  BY <1>7 DEF SetStartLock
<1>8. ASSUME NEW i \in Helpers, ReadIn(i) PROVE MasterInv'
  BY <1>8 DEF ReadIn
<1>9. ASSUME NEW i \in Helpers, SpinReadOut(i) PROVE MasterInv'
  BY <1>9 DEF SpinReadOut, SpinAgain
<1>10. ASSUME NEW i \in Helpers, SpinReadFlag(i) PROVE MasterInv'
  BY <1>10 DEF SpinReadFlag, SpinAgain
<1>11. ASSUME NEW i \in Helpers, DecideReadOut(i) PROVE MasterInv'
  BY <1>11 DEF DecideReadOut
<1>12. ASSUME NEW i \in Helpers, DecideReadFlag(i) PROVE MasterInv'
  BY <1>12 DEF DecideReadFlag
<1>13. ASSUME NEW i \in Helpers, WillSuspend(i) PROVE MasterInv'
  BY <1>13 DEF WillSuspend
<1>14. ASSUME NEW i \in Helpers, Suspend(i) PROVE MasterInv'
  BY <1>14 DEF Suspend
<1>15. CASE DoTask
  BY <1>15 DEF DoTask, NoticeCompleted, Completed
<1>16. CASE MergeBegin
  BY <1>16 DEF MergeBegin, NoticeCompleted, Completed
<1>17. CASE WaitForAll
  BY <1>17 DEF WaitForAll
<1>18. CASE TableFull
  BY <1>18 DEF TableFull
<1>19. CASE NewTask
  BY <1>19 DEF NewTask
<1>20. CASE PutInUntaken
  BY <1>20 DEF PutInUntaken, CanSetUntakenLock
<1>21. CASE WakeHelper
  BY <1>21 DEF WakeHelper, Wake
<1>22. CASE MergeTestLock
  BY <1>22 DEF MergeTestLock
<1>23. CASE Merge
  <2>1. ASSUME ~(multithreading /\ helper[arg] # NoThread)
        PROVE  {j \in Between(untaken_out, untaken_in) : untaken[j] = arg} # {}
    BY <1>23, <2>1, MergeFinds DEF Merge, Window
  <2>2. ASSUME multithreading /\ helper[arg] # NoThread PROVE pc' = [pc EXCEPT ![Master] = "new"]
    BY <1>23, <2>2 DEF Merge
  <2>3. pc' = [pc EXCEPT ![Master] = "new"] \/ pc' = [pc EXCEPT ![Master] = "app"]
    BY <1>23, <2>1, <2>2 DEF Merge
  <2>4. ret' = "notice" /\ UNCHANGED <<late_wake, h, used, helper,
                                   helpers_not_multithreading_now>>
    BY <1>23 DEF Merge
  <2> QED BY <1>23, <2>3, <2>4 DEF Merge
<1>24. CASE ToggleMultithreading
  BY <1>24 DEF ToggleMultithreading
<1>25. CASE WaitNotice
  BY <1>25 DEF WaitNotice, NoticeCompleted, Completed
<1>26. CASE DoMasterOnly
  BY <1>26 DEF DoMasterOnly, HeadRunnable
<1>27. CASE ReadSuspended
  BY <1>27 DEF ReadSuspended
<1>28. CASE ReadQueueEmpty
  <2>1. SuspendInv
    BY BeforeGives
  <2> QED BY <1>28, <2>1 DEF ReadQueueEmpty, SuspendInv
<1>29. CASE TestStartLock
  BY <1>29 DEF TestStartLock, Wake
<1>30. CASE UNCHANGED vars
  BY <1>30 DEF vars
<1>31. QED
  BY <1>1, <1>2, <1>3, <1>4, <1>5, <1>6, <1>7, <1>8, <1>9, <1>10, <1>11, <1>12, <1>13,
     <1>14, <1>15, <1>16, <1>17, <1>18, <1>19, <1>20, <1>21, <1>22, <1>23, <1>24, <1>25,
     <1>26, <1>27, <1>28, <1>29, <1>30
     DEF Next, application, master_call, helper_proc, find_and_run

\* The tasks stay where they are.
LEMMA OnceStays ==
  ASSUME Before, Window' = Window,
         UNCHANGED <<untaken, master_only, this_task, used, done>>,
         Putting' => Putting /\ arg' = arg, Putting => Putting',
         \A x \in Threads : pc'[x] \in Busy => pc[x] \in Busy
  PROVE  OnceInv'
<1>1. OnceInv
  BY BeforeGives
<1> QED BY <1>1 DEF OnceInv

\* Tasks done are taken out of the table: they were in no queue.
LEMMA OnceNoticed ==
  ASSUME Before, NoticeCompleted, ~Putting', ~Putting,
         UNCHANGED <<untaken, untaken_in, untaken_out, this_task>>,
         \E l \in Labels : l \notin Busy /\ pc' = [pc EXCEPT ![Master] = l],
         pc[Master] \notin Busy
  PROVE  OnceInv'
<1>1. OnceInv /\ TakenInv /\ ThreadFacts /\ QueueFacts
  BY BeforeGives
<1>2. \A x \in Threads : pc'[x] \in Busy => pc[x] \in Busy
  BY <1>1 DEF ThreadFacts
<1>3. Advancing' = Advancing
  BY <1>1 DEF Advancing, Busy, ThreadFacts
<1>4. Window' = Window
  BY <1>3 DEF Window, First
<1>5. /\ \A t \in Tasks : done'[t] <=> done[t] /\ t \notin used
      /\ \A t \in Tasks : t \in used' <=> t \in used /\ ~done[t]
      /\ master_only' = master_only
  BY <1>1 DEF NoticeCompleted, Completed, QueueFacts
<1>6. \A t \in Tasks : ~done'[t]
  BY <1>1, <1>5 DEF TakenInv
<1> USE <1>1, <1>4, <1>5, <1>6 DEF QueueFacts
<1>7. \A t \in used' : t \in Tasks /\ t \in used /\ ~done[t]
  BY DEF NoticeCompleted
<1>8. \A t \in used : ~done[t] => t \in used' /\ ~done'[t]
  OBVIOUS
<1> HIDE <1>5, <1>6
<1> QED BY <1>2, <1>5, <1>7, <1>8 DEF OnceInv

\* Copying the first entry to where one is removed leaves the other tasks in the queue,
\* each once.
LEMMA Removed ==
  ASSUME Before, NEW f \in Window, First = untaken_out, untaken_in # untaken_out,
         untaken' = RemoveAt(f), NEW W, W = Between(Incr(untaken_out), untaken_in)
  PROVE  /\ W = Window \ {untaken_out} /\ W \subseteq Slots
         /\ \A i \in W : \E j \in Window : j # f /\ untaken'[i] = untaken[j]
         /\ \A i, j \in W : untaken'[i] = untaken'[j] => i = j
         /\ \A j \in Window : j # f => \E i \in W : untaken'[i] = untaken[j]
<1>1. QueueFacts /\ \A i, j \in Window : untaken[i] = untaken[j] => i = j
  BY BeforeGives DEF OnceInv
<1>2. W = Window \ {untaken_out} /\ untaken_out \in Window
  BY <1>1, Positions DEF Window, QueueFacts
<1>3. \A i \in Slots : untaken'[i] = IF i = f THEN untaken[untaken_out] ELSE untaken[i]
  BY <1>1 DEF RemoveAt, QueueFacts
<1>4. Window \subseteq Slots
  BY <1>1 DEF QueueFacts
<1>5. ASSUME NEW i \in W PROVE \E j \in Window : j # f /\ untaken'[i] = untaken[j]
  BY <1>2, <1>3, <1>4
<1>6. ASSUME NEW i \in W, NEW j \in W, untaken'[i] = untaken'[j] PROVE i = j
  BY <1>1, <1>2, <1>3, <1>4, <1>6
<1>7. ASSUME NEW j \in Window, j # f PROVE \E i \in W : untaken'[i] = untaken[j]
  <2>1. CASE j = untaken_out
    BY <1>2, <1>3, <1>4, <1>7, <2>1
  <2>2. CASE j # untaken_out
    BY <1>2, <1>3, <1>4, <1>7, <2>2
  <2> QED BY <2>1, <2>2
<1> QED BY <1>2, <1>4, <1>5, <1>6, <1>7

\* The queue never fills: there are more positions than tasks.
LEMMA NotFull ==
  ASSUME Before, Putting
  PROVE  Incr(untaken_in) # untaken_out /\ Incr(untaken_in) # First
<1>1. QueueFacts /\ ThreadFacts /\ OnceInv /\ MasterInv /\ TakenInv /\ WindowInv
  BY BeforeGives
<1>2. arg \in Tasks /\ arg \in used
  BY <1>1 DEF MasterInv, QueueFacts
<1>3. untaken_in \in Slots /\ untaken_out \in Slots /\ Window \subseteq Slots
  BY <1>1 DEF QueueFacts
<1>4. ASSUME Incr(untaken_in) = untaken_out PROVE FALSE
  <2> DEFINE task[i \in Slots] ==
        IF i = untaken_in THEN arg
        ELSE IF i = untaken_out /\ Advancing
               THEN this_task[CHOOSE th \in Threads : pc[th] = "advance"]
               ELSE untaken[i]
  <2>1. Between(untaken_out, untaken_in) \union {untaken_in} = Slots
    BY <1>3, <1>4, Positions
  <2>2. \A i \in Slots : \/ i = untaken_in
                         \/ i = untaken_out /\ Advancing /\ i # untaken_in
                         \/ i \in Window /\ i # untaken_in
    <3>1. ASSUME Advancing PROVE Window = Between(untaken_out, untaken_in) \ {untaken_out}
      BY <1>1, <1>3, <3>1, Positions DEF Window, First, WindowInv
    <3>2. ASSUME ~Advancing PROVE Window = Between(untaken_out, untaken_in)
      BY <3>2 DEF Window, First
    <3> QED BY <2>1, <3>1, <3>2
  <2>3. untaken_out \in Window => ~Advancing
    BY <1>1, <1>3, Positions DEF Window, First, WindowInv
  <2> DEFINE th == CHOOSE x \in Threads : pc[x] = "advance"
  <2>4. Advancing => th \in Threads /\ pc[th] = "advance" /\ this_task[th] \in Tasks
    BY <1>1 DEF Advancing, TakenInv, Busy, QueueFacts
  <2>5. \A i \in Slots :
          /\ i = untaken_in => task[i] = arg
          /\ i # untaken_in /\ i = untaken_out /\ Advancing => task[i] = this_task[th]
          /\ i # untaken_in /\ i \in Window => task[i] = untaken[i] /\ untaken[i] \in Tasks
    BY <1>1, <2>3 DEF OnceInv, QueueFacts
  <2> HIDE DEF task, th
  <2>6. \A i \in Slots : task[i] \in Tasks
    BY <1>2, <2>2, <2>4, <2>5
  <2>7. \A i, j \in Slots : task[i] = task[j] => i = j
    <3>1. /\ \A i, j \in Window : untaken[i] = untaken[j] => i = j
          /\ \A i \in Window, x \in Threads : untaken[i] # this_task[x]
          /\ \A i \in Window : untaken[i] # arg
          /\ \A x \in Threads : this_task[x] # arg
      BY <1>1 DEF OnceInv
    <3> QED BY <2>2, <2>4, <2>5, <3>1
  <2>8. task \in [Slots -> Tasks]
    BY <2>6 DEF task
  <2>9. IsFiniteSet(Slots) /\ Cardinality(Slots) = MaxTasks + 1
    BY MaxTasksType, FS_Interval DEF Slots
  <2>10. \E i, j \in Slots : i # j /\ task[i] = task[j]
    <3>1. Cardinality(Tasks) < Cardinality(Slots)
      BY <2>9, MaxTasksType DEF MaxTasks
    <3> QED BY <2>8, <2>9, <3>1, FS_PigeonHole, ConstantsAssumption
  <2> QED BY <2>7, <2>10
<1>5. First # untaken_out => untaken_in # untaken_out /\ First = Incr(untaken_out)
  BY <1>1 DEF First, WindowInv
<1> QED BY <1>3, <1>4, <1>5, Positions

\* A step that neither touches the queues nor takes a task or ends doing one.
Quiet ==
  /\ UNCHANGED <<untaken, untaken_in, untaken_out, master_only, this_task, used, done>>
  /\ Advancing' <=> Advancing
  /\ Putting' <=> Putting
  /\ Putting => arg' = arg
  /\ \A x \in Threads : pc'[x] \in Busy => pc[x] \in Busy

\* Such a step leaves the tasks where they are.
LEMMA OnceQuiet == Before /\ Quiet => OnceInv'
<1> SUFFICES ASSUME Before, Quiet PROVE OnceInv'
  OBVIOUS
<1>1. Window' = Window
  BY DEF Quiet, Window, First
<1> QED BY <1>1, OnceStays DEF Quiet

\* What is in use and not done is somewhere.
LEMMA Somewhere ==
  ASSUME Before, NEW t \in used, ~done[t]
  PROVE  \/ \E i \in Window : untaken[i] = t
         \/ \E i \in 1..Len(master_only) : master_only[i] = t
         \/ \E th \in Threads : this_task[th] = t
         \/ Putting /\ arg = t
<1> QED BY BeforeGives DEF OnceInv

\* A task that was in no queue, with no thread, becomes the last of the master-only tasks.
LEMMA Appended ==
  ASSUME Before, NEW t \in Tasks, master_only' = Append(master_only, t), ~Putting',
         UNCHANGED <<this_task, done>>, used' = used \union {t}, ~done[t],
         \A x \in Threads : pc'[x] \in Busy => pc[x] \in Busy,
         \A i \in Window' : untaken'[i] \in used /\ ~done[untaken'[i]] /\ untaken'[i] # t,
         \A i, j \in Window' : untaken'[i] = untaken'[j] => i = j,
         \A i \in Window', j \in 1..Len(master_only) : untaken'[i] # master_only[j],
         \A i \in Window', x \in Threads : untaken'[i] # this_task[x],
         \A i \in 1..Len(master_only) : master_only[i] # t,
         \A x \in Threads : this_task[x] # t,
         \A u \in used : ~done[u] =>
                         \/ u = t
                         \/ \E i \in Window' : untaken'[i] = u
                         \/ \E i \in 1..Len(master_only) : master_only[i] = u
                         \/ \E x \in Threads : this_task[x] = u
  PROVE  OnceInv'
<1>1. OnceInv /\ QueueFacts
  BY BeforeGives
<1>2. master_only \in Seq(Tasks \union {NoTask})
  BY <1>1 DEF QueueFacts
<1>3. /\ Len(master_only') = Len(master_only) + 1 /\ Len(master_only) \in Nat
      /\ master_only'[Len(master_only) + 1] = t
      /\ \A i \in 1..Len(master_only) : master_only'[i] = master_only[i]
  BY <1>2
<1>4. \A i \in 1..Len(master_only') :
        i \in 1..Len(master_only) \/ i = Len(master_only) + 1
  BY <1>3
<1>5. \A i \in 1..Len(master_only') : master_only'[i] \in used' /\ ~done[master_only'[i]]
  BY <1>1, <1>3, <1>4 DEF OnceInv
<1>6. \A i, j \in 1..Len(master_only') : master_only'[i] = master_only'[j] => i = j
  BY <1>1, <1>3, <1>4 DEF OnceInv
<1>7. /\ \A i \in Window', j \in 1..Len(master_only') : untaken'[i] # master_only'[j]
      /\ \A i \in 1..Len(master_only'), x \in Threads : master_only'[i] # this_task[x]
  BY <1>1, <1>3, <1>4 DEF OnceInv
<1>8. \A u \in used' : ~done[u] =>
                       \/ \E i \in Window' : untaken'[i] = u
                       \/ \E i \in 1..Len(master_only') : master_only'[i] = u
                       \/ \E x \in Threads : this_task[x] = u
  <2>1. Len(master_only) + 1 \in 1..Len(master_only')
        /\ \A i \in 1..Len(master_only) : i \in 1..Len(master_only')
    BY <1>3
  <2> QED BY <1>3, <2>1
<1> QED BY <1>1, <1>5, <1>6, <1>7, <1>8 DEF OnceInv
\* A task goes from one place to the next.
LEMMA OnceNext == Before /\ [Next]_vars /\ toggles' <= 2 => OnceInv'
<1> SUFFICES ASSUME Before, [Next]_vars, toggles' <= 2 PROVE OnceInv'
  OBVIOUS
<1>0. ThreadFacts /\ QueueFacts /\ LockInv /\ WakeInv /\ OptionInv /\ OnceInv
  BY BeforeGives
<1> USE <1>0, ConstantsAssumption
    DEF ThreadFacts, QueueFacts, Goto, Threads, queueVars, suspendVars, taskVars,
        optionVars, localVars, masterVars, multithreading
<1>1. ASSUME NEW th \in Threads, FindReadIn(th) PROVE OnceInv'
  <2>1. Quiet
    BY <1>1 DEF FindReadIn, Quiet, Advancing, Putting, Busy, Threads
  <2> QED BY <2>1, OnceQuiet
<1>2. ASSUME NEW th \in Threads, FindTake(th) PROVE OnceInv'
  <2>1. PICK f \in Between(untaken_out, u_in[th]) :
          this_task' = [this_task EXCEPT ![th] = untaken[f]] /\ untaken' = RemoveAt(f)
    BY <1>2 DEF FindTake
  <2>2. /\ pc[th] = "scan" /\ pc' = [pc EXCEPT ![th] = "advance"]
        /\ UNCHANGED <<untaken_in, untaken_out, master_only, used, done, arg>>
    BY <1>2 DEF FindTake
  <2>3. /\ ~Advancing /\ First = untaken_out /\ untaken_in # untaken_out
        /\ f \in Window /\ untaken[f] \in used /\ ~done[untaken[f]] /\ untaken[f] \in Tasks
    BY <2>2, Seen
  <2>4. Window' = Between(Incr(untaken_out), untaken_in)
    BY <2>2 DEF Window, First, Advancing
  <2>5. /\ Window' \subseteq Slots
        /\ \A i \in Window' : \E j \in Window : j # f /\ untaken'[i] = untaken[j]
        /\ \A i, j \in Window' : untaken'[i] = untaken'[j] => i = j
        /\ \A j \in Window : j # f => \E i \in Window' : untaken'[i] = untaken[j]
    BY <2>1, <2>3, <2>4, Removed
  <2>6. /\ Putting' <=> Putting
        /\ pc[th] \notin Busy /\ pc'[th] \in Busy
        /\ \A x \in Threads : x # th => pc'[x] = pc[x] /\ this_task'[x] = this_task[x]
        /\ this_task'[th] = untaken[f] /\ this_task[th] = NoTask /\ th \in Threads
    BY <2>1, <2>2, BeforeGives DEF Putting, Busy, ThreadFacts, TakenInv
  <2> HIDE DEF Threads, QueueFacts, ThreadFacts
  <2>7. /\ \A i \in Window' : untaken'[i] \in used /\ ~done[untaken'[i]] /\ untaken'[i] # untaken[f]
        /\ \A i \in 1..Len(master_only) : master_only[i] # untaken[f]
        /\ \A x \in Threads : this_task[x] # untaken[f]
        /\ Putting => arg # untaken[f]
    BY <2>3, <2>5 DEF OnceInv
  <2>8. \A x \in Threads : pc'[x] \in Busy => pc[x] \in Busy \/ x = th
    BY <2>6
  <2>9. \A i \in Window', x \in Threads : untaken'[i] # this_task'[x]
    BY <2>5, <2>6, <2>7 DEF OnceInv
  <2>10. \A t \in used : t # NoTask
    BY ConstantsAssumption DEF QueueFacts
  <2>11. \A t \in used : ~done[t] =>
                     \/ \E i \in Window' : untaken'[i] = t
                     \/ \E i \in 1..Len(master_only) : master_only[i] = t
                     \/ \E x \in Threads : this_task'[x] = t
                     \/ Putting /\ arg = t
    <3> SUFFICES ASSUME NEW t \in used, ~done[t]
                 PROVE  \/ \E i \in Window' : untaken'[i] = t
                        \/ \E i \in 1..Len(master_only) : master_only[i] = t
                        \/ \E x \in Threads : this_task'[x] = t
                        \/ Putting /\ arg = t
      OBVIOUS
    <3>1. CASE t = untaken[f]
      BY <2>6, <3>1, Zenon
    <3>2. ASSUME NEW i \in Window, untaken[i] = t, t # untaken[f]
          PROVE  \E j \in Window' : untaken'[j] = t
      BY <2>5, <3>2
    <3>3. ASSUME NEW x \in Threads, this_task[x] = t PROVE \E y \in Threads : this_task'[y] = t
      <4>1. x # th
        BY <2>6, <2>10, <3>3
      <4> QED BY <2>6, <3>3, <4>1
    <3> QED BY <3>1, <3>2, <3>3, Somewhere
  <2> QED BY <2>2, <2>5, <2>6, <2>7, <2>8, <2>9, <2>11 DEF OnceInv
<1>3. ASSUME NEW th \in Threads, FindNone(th) PROVE OnceInv'
  <2>1. Quiet
    BY <1>3 DEF FindNone, MasterUnsetsStartLock, Quiet, Advancing, Putting, Busy, Threads
  <2> QED BY <2>1, OnceQuiet
<1>4. ASSUME NEW th \in Threads, FindAdvance(th) PROVE OnceInv'
  <2>1. /\ pc[th] = "advance" /\ pc' = [pc EXCEPT ![th] = "claim"]
        /\ untaken_out' = Incr(untaken_out)
        /\ UNCHANGED <<untaken, untaken_in, master_only, this_task, used, done, arg>>
    BY <1>4 DEF FindAdvance
  <2>2. First = Incr(untaken_out)
    BY <2>1 DEF First, Advancing
  <2>3. ~Advancing'
    BY <2>1, Alone DEF Advancing
  <2>4. Window' = Window
    BY <2>1, <2>2, <2>3 DEF Window, First
  <2>5. /\ Putting' <=> Putting
        /\ \A x \in Threads : pc'[x] \in Busy => pc[x] \in Busy
    BY <2>1 DEF Putting, Busy
  <2> QED BY <2>1, <2>4, <2>5, OnceStays
<1>5. ASSUME NEW th \in Threads, Claim(th) PROVE OnceInv'
  <2>1. Quiet
    BY <1>5 DEF Claim, Quiet, Advancing, Putting, Busy, Threads
  <2> QED BY <2>1, OnceQuiet
<1>6. ASSUME NEW th \in Threads, RunThisTask(th) PROVE OnceInv'
  <2>1. /\ pc[th] = "run" /\ done' = [done EXCEPT ![this_task[th]] = TRUE]
        /\ this_task' = [this_task EXCEPT ![th] = NoTask]
        /\ UNCHANGED <<untaken, untaken_in, untaken_out, master_only, used, arg>>
        /\ \E l \in {"start", "notice", "merge_lock"} : pc' = [pc EXCEPT ![th] = l]
    BY <1>6 DEF RunThisTask
  <2>2. Window' = Window
    <3>1. Advancing' <=> Advancing
      BY <2>1 DEF Advancing
    <3> QED BY <2>1, <3>1 DEF Window, First
  <2>3. /\ this_task[th] \in used /\ th \in Threads /\ this_task[th] \in Tasks
        /\ \A x \in Threads : this_task[x] = this_task[th] => x = th
    BY <2>1, BeforeGives DEF TakenInv, OnceInv, Busy
  <2>4. /\ \A t \in Tasks : done'[t] <=> done[t] \/ t = this_task[th]
        /\ \A x \in Threads : this_task'[x] = IF x = th THEN NoTask ELSE this_task[x]
        /\ \A x \in Threads : pc'[x] \in Busy => pc[x] \in Busy /\ x # th
        /\ Putting' => Putting
        /\ th # Master => (Putting' <=> Putting)
        /\ ~Putting \/ th # Master
    BY <2>1, <2>3 DEF Putting, Busy
  <2>5. /\ \A i \in Window : untaken[i] # NoTask
        /\ \A i \in 1..Len(master_only) : master_only[i] # NoTask
        /\ Putting => arg # NoTask /\ arg \in Tasks
        /\ \A t \in used : t \in Tasks
    BY BeforeGives, ConstantsAssumption DEF OnceInv, QueueFacts, MasterInv
  <2> HIDE DEF Threads, QueueFacts, ThreadFacts
  <2>6. /\ \A i \in Window : untaken[i] # this_task[th]
        /\ \A i \in 1..Len(master_only) : master_only[i] # this_task[th]
        /\ Putting => arg # this_task[th]
    BY <2>3 DEF OnceInv
  <2>7. \A t \in used : ~done'[t] => ~done[t] /\ t # this_task[th]
    BY <2>4, <2>5
  <2>8. \A t \in used : ~done'[t] =>
                     \/ \E i \in Window : untaken[i] = t
                     \/ \E i \in 1..Len(master_only) : master_only[i] = t
                     \/ \E x \in Threads : this_task'[x] = t
                     \/ Putting' /\ arg = t
    <3> SUFFICES ASSUME NEW t \in used, ~done'[t]
                 PROVE  \/ \E i \in Window : untaken[i] = t
                        \/ \E i \in 1..Len(master_only) : master_only[i] = t
                        \/ \E x \in Threads : this_task'[x] = t
                        \/ Putting' /\ arg = t
      OBVIOUS
    <3>1. ~done[t] /\ t # this_task[th]
      BY <2>7
    <3>2. ASSUME NEW x \in Threads, this_task[x] = t PROVE this_task'[x] = t
      BY <2>4, <3>1, <3>2
    <3>3. Putting => Putting'
      BY <2>4
    <3> QED BY <3>1, <3>2, <3>3, Somewhere
  <2>9. \A i \in Window : untaken[i] \in used /\ ~done'[untaken[i]]
    BY <2>4, <2>5, <2>6 DEF OnceInv
  <2>10. \A i \in 1..Len(master_only) : master_only[i] \in used /\ ~done'[master_only[i]]
    BY <2>4, <2>5, <2>6 DEF OnceInv
  <2>11. /\ \A a, b \in Threads : pc'[a] \in Busy /\ this_task'[a] = this_task'[b] => a = b
         /\ \A i \in Window, x \in Threads : untaken[i] # this_task'[x]
         /\ \A i \in 1..Len(master_only), x \in Threads : master_only[i] # this_task'[x]
    <3>1. \A x \in Threads : pc'[x] \in Busy => this_task[x] # NoTask
      BY <2>4, BeforeGives DEF TakenInv
    <3> QED BY <2>4, <2>5, <3>1 DEF OnceInv
  <2>12. Putting' => /\ Putting /\ ~done'[arg]
                     /\ \A x \in Threads : this_task'[x] # arg
    BY <2>4, <2>5, <2>6 DEF OnceInv
  <2> QED BY <2>1, <2>2, <2>8, <2>9, <2>10, <2>11, <2>12 DEF OnceInv
<1>7. ASSUME NEW i \in Helpers, SetStartLock(i) PROVE OnceInv'
  <2>1. Quiet
    BY <1>7 DEF SetStartLock, Quiet, Advancing, Putting, Busy, Threads
  <2> QED BY <2>1, OnceQuiet
<1>8. ASSUME NEW i \in Helpers, ReadIn(i) PROVE OnceInv'
  <2>1. Quiet
    BY <1>8 DEF ReadIn, Quiet, Advancing, Putting, Busy, Threads
  <2> QED BY <2>1, OnceQuiet
<1>9. ASSUME NEW i \in Helpers, SpinReadOut(i) PROVE OnceInv'
  <2>1. Quiet
    BY <1>9 DEF SpinReadOut, SpinAgain, Quiet, Advancing, Putting, Busy, Threads
  <2> QED BY <2>1, OnceQuiet
<1>10. ASSUME NEW i \in Helpers, SpinReadFlag(i) PROVE OnceInv'
  <2>1. Quiet
    BY <1>10 DEF SpinReadFlag, SpinAgain, Quiet, Advancing, Putting, Busy, Threads
  <2> QED BY <2>1, OnceQuiet
<1>11. ASSUME NEW i \in Helpers, DecideReadOut(i) PROVE OnceInv'
  <2>1. Quiet
    BY <1>11 DEF DecideReadOut, Quiet, Advancing, Putting, Busy, Threads
  <2> QED BY <2>1, OnceQuiet
<1>12. ASSUME NEW i \in Helpers, DecideReadFlag(i) PROVE OnceInv'
  <2>1. Quiet
    BY <1>12 DEF DecideReadFlag, Quiet, Advancing, Putting, Busy, Threads
  <2> QED BY <2>1, OnceQuiet
<1>13. ASSUME NEW i \in Helpers, WillSuspend(i) PROVE OnceInv'
  <2>1. Quiet
    BY <1>13 DEF WillSuspend, Quiet, Advancing, Putting, Busy, Threads
  <2> QED BY <2>1, OnceQuiet
<1>14. ASSUME NEW i \in Helpers, Suspend(i) PROVE OnceInv'
  <2>1. Quiet
    BY <1>14 DEF Suspend, Quiet, Advancing, Putting, Busy, Threads
  <2> QED BY <2>1, OnceQuiet
<1>15. CASE DoTask
  <2>1. NoticeCompleted
    BY <1>15 DEF DoTask
  <2>2. /\ ~Putting /\ ~Putting' /\ pc[Master] \notin Busy
        /\ UNCHANGED <<untaken, untaken_in, untaken_out, this_task>>
        /\ \E l \in Labels : l \notin Busy /\ pc' = [pc EXCEPT ![Master] = l]
    BY <1>15 DEF DoTask, Putting, Busy, Labels
  <2> QED BY <2>1, <2>2, OnceNoticed
<1>16. CASE MergeBegin
  <2>1. NoticeCompleted
    BY <1>16 DEF MergeBegin
  <2>2. /\ ~Putting /\ ~Putting' /\ pc[Master] \notin Busy
        /\ UNCHANGED <<untaken, untaken_in, untaken_out, this_task>>
        /\ \E l \in Labels : l \notin Busy /\ pc' = [pc EXCEPT ![Master] = l]
    BY <1>16 DEF MergeBegin, Putting, Busy, Labels
  <2> QED BY <2>1, <2>2, OnceNoticed
<1>17. CASE WaitForAll
  <2>1. Quiet
    BY <1>17 DEF WaitForAll, Quiet, Advancing, Putting, Busy, Threads
  <2> QED BY <2>1, OnceQuiet
<1>18. CASE TableFull
  <2>1. Quiet
    BY <1>18 DEF TableFull, Quiet, Advancing, Putting, Busy, Threads
  <2> QED BY <2>1, OnceQuiet
<1>19. CASE NewTask
  <2>1. PICK t \in Tasks \ used :
          /\ used' = used \union {t}
          /\ \/ /\ arg' = t /\ pc' = [pc EXCEPT ![Master] = "put"]
                /\ UNCHANGED master_only
             \/ /\ master_only' = Append(master_only, t)
                /\ pc' = [pc EXCEPT ![Master] = "app"] /\ UNCHANGED arg
    BY <1>19 DEF NewTask
  <2>2. /\ pc[Master] = "new" /\ UNCHANGED <<untaken, untaken_in, untaken_out, this_task, done>>
    BY <1>19 DEF NewTask
  <2>3. Window' = Window
    <3>1. Advancing' <=> Advancing
      BY <2>1, <2>2 DEF Advancing
    <3> QED BY <2>2, <3>1 DEF Window, First
  <2>4. /\ ~Putting /\ \A x \in Threads : pc'[x] \in Busy => pc[x] \in Busy
    BY <2>1, <2>2 DEF Putting, Busy
  <2>5. /\ t \notin used /\ ~done[t] /\ t \in Tasks
        /\ \A x \in Threads : this_task[x] # t
    <3>1. ~done[t] /\ t # NoTask
      BY BeforeGives, ConstantsAssumption DEF TakenInv
    <3>2. ASSUME NEW x \in Threads PROVE this_task[x] # t
      <4>1. pc[x] \in Busy => this_task[x] \in used
        BY BeforeGives DEF TakenInv
      <4>2. pc[x] \notin Busy => this_task[x] = NoTask
        BY BeforeGives DEF TakenInv
      <4> QED BY <3>1, <4>1, <4>2
    <3> QED BY <3>1, <3>2
  <2>6. /\ \A i \in Window : untaken[i] # t
        /\ \A i \in 1..Len(master_only) : master_only[i] # t
    BY <2>5 DEF OnceInv
  <2> HIDE DEF Threads
  <2>7. CASE arg' = t /\ pc' = [pc EXCEPT ![Master] = "put"] /\ UNCHANGED master_only
    <3>1. Putting'
      BY <2>7 DEF Putting, Threads
    <3> HIDE DEF QueueFacts, ThreadFacts
    <3> QED BY <2>1, <2>2, <2>3, <2>4, <2>5, <2>6, <2>7, <3>1 DEF OnceInv
  <2>8. CASE /\ master_only' = Append(master_only, t)
             /\ pc' = [pc EXCEPT ![Master] = "app"]
    <3>1. ~Putting'
      BY <2>8 DEF Putting, Threads
    <3> HIDE DEF QueueFacts, ThreadFacts
    <3>2. /\ \A i \in Window' : untaken'[i] \in used /\ ~done[untaken'[i]] /\ untaken'[i] # t
          /\ \A i, j \in Window' : untaken'[i] = untaken'[j] => i = j
          /\ \A i \in Window', j \in 1..Len(master_only) : untaken'[i] # master_only[j]
          /\ \A i \in Window', x \in Threads : untaken'[i] # this_task[x]
      BY <2>2, <2>3, <2>6 DEF OnceInv
    <3>3. \A u \in used : ~done[u] =>
                           \/ u = t
                           \/ \E i \in Window' : untaken'[i] = u
                           \/ \E i \in 1..Len(master_only) : master_only[i] = u
                           \/ \E x \in Threads : this_task[x] = u
      <4> SUFFICES ASSUME NEW u \in used, ~done[u]
                   PROVE  \/ u = t
                          \/ \E i \in Window' : untaken'[i] = u
                          \/ \E i \in 1..Len(master_only) : master_only[i] = u
                          \/ \E x \in Threads : this_task[x] = u
        OBVIOUS
      <4> QED BY <2>2, <2>3, <2>4, Somewhere
    <3> QED BY <2>1, <2>2, <2>3, <2>4, <2>5, <2>6, <2>8, <3>1, <3>2, <3>3, Appended
  <2> QED BY <2>1, <2>7, <2>8
<1>20. CASE PutInUntaken
  <2>1. /\ Putting /\ untaken' = [untaken EXCEPT ![untaken_in] = arg]
        /\ untaken_in' = Incr(untaken_in)
        /\ UNCHANGED <<untaken_out, this_task, used, done, master_only>>
        /\ \E l \in {"wake", "app"} : pc' = [pc EXCEPT ![Master] = l]
    BY <1>20 DEF PutInUntaken, Putting
  <2>2. First' = First
    BY <2>1 DEF Putting, First, Advancing
  <2>3. Window' = Window \union {untaken_in} /\ untaken_in \notin Window
    BY <2>1, <2>2, NotFull, Positions DEF Window
  <2>4. /\ ~Putting' /\ \A x \in Threads : pc'[x] \in Busy => pc[x] \in Busy
    BY <2>1 DEF Putting, Busy
  <2>5. untaken'[untaken_in] = arg /\ \A i \in Window : untaken'[i] = untaken[i]
    BY <2>1, <2>3
  <2>6. arg \in used
    BY <2>1, BeforeGives DEF MasterInv
  <2> HIDE DEF QueueFacts, ThreadFacts, Threads
  <2>7. /\ \A i \in Window' : untaken'[i] \in used /\ ~done[untaken'[i]]
        /\ \A i, j \in Window' : untaken'[i] = untaken'[j] => i = j
        /\ \A i \in Window', j \in 1..Len(master_only) : untaken'[i] # master_only[j]
        /\ \A i \in Window', x \in Threads : untaken'[i] # this_task[x]
    BY <2>1, <2>3, <2>5, <2>6 DEF OnceInv
  <2>8. \A t \in used : ~done[t] =>
                     \/ \E i \in Window' : untaken'[i] = t
                     \/ \E i \in 1..Len(master_only) : master_only[i] = t
                     \/ \E x \in Threads : this_task[x] = t
    <3>1. ASSUME NEW t \in used, ~done[t]
          PROVE  \/ \E i \in Window' : untaken'[i] = t
                 \/ \E i \in 1..Len(master_only) : master_only[i] = t
                 \/ \E x \in Threads : this_task[x] = t
      BY <2>3, <2>5, <3>1, Somewhere
    <3> QED BY <3>1
  <2> QED BY <2>1, <2>4, <2>7, <2>8 DEF OnceInv
<1>21. CASE WakeHelper
  <2>1. Quiet
    BY <1>21 DEF WakeHelper, Wake, Quiet, Advancing, Putting, Busy, Threads
  <2> QED BY <2>1, OnceQuiet
<1>22. CASE MergeTestLock
  <2>1. Quiet
    BY <1>22 DEF MergeTestLock, Quiet, Advancing, Putting, Busy, Threads
  <2> QED BY <2>1, OnceQuiet
<1>23. CASE Merge
  <2>1. pc[Master] = "merge" /\ UNCHANGED <<untaken_in, this_task, used, done>>
        /\ \E l \in {"app", "new", "exit"} : pc' = [pc EXCEPT ![Master] = l]
    BY <1>23 DEF Merge
  <2>2. /\ ~Putting /\ ~Putting' /\ \A x \in Threads : pc'[x] \in Busy => pc[x] \in Busy
    BY <2>1 DEF Putting, Busy
  <2>3. Advancing' <=> Advancing
    BY <2>1 DEF Advancing
  <2>4. CASE multithreading /\ helper[arg] # NoThread
    <3>1. UNCHANGED <<untaken, untaken_out, master_only>>
      BY <1>23, <2>4 DEF Merge
    <3>2. Window' = Window
      BY <2>1, <2>3, <3>1 DEF Window, First
    <3> QED BY <2>1, <2>2, <3>1, <3>2, OnceStays
  <2>5. CASE ~(multithreading /\ helper[arg] # NoThread)
    <3>1. /\ First = untaken_out /\ ~Advancing
          /\ \E j \in Window : untaken[j] = arg
      BY <2>1, <2>5, MergeFinds
    <3>2. Window = Between(untaken_out, untaken_in)
      BY <3>1 DEF Window
    <3>3. PICK f \in Window : /\ untaken[f] = arg /\ untaken' = RemoveAt(f)
                              /\ untaken_out' = Incr(untaken_out)
                              /\ master_only' = Append(master_only, arg)
      BY <1>23, <2>5, <3>1, <3>2 DEF Merge
    <3>4. untaken_in # untaken_out
      BY <3>2, Positions
    <3>5. Window' = Between(Incr(untaken_out), untaken_in)
      BY <2>1, <2>3, <3>1, <3>3 DEF Window, First
    <3>6. /\ \A i \in Window' : \E j \in Window : j # f /\ untaken'[i] = untaken[j]
          /\ \A i, j \in Window' : untaken'[i] = untaken'[j] => i = j
          /\ \A j \in Window : j # f => \E i \in Window' : untaken'[i] = untaken[j]
      BY <3>1, <3>3, <3>4, <3>5, Removed
    <3> HIDE DEF QueueFacts, ThreadFacts, Threads
    <3>8. /\ arg \in used /\ ~done[arg]
          /\ \A i \in 1..Len(master_only) : master_only[i] # arg
          /\ \A x \in Threads : this_task[x] # arg
      BY <3>3 DEF OnceInv
    <3>9. /\ \A i \in Window' : untaken'[i] \in used /\ ~done[untaken'[i]] /\ untaken'[i] # arg
          /\ \A i \in Window', j \in 1..Len(master_only) : untaken'[i] # master_only[j]
          /\ \A i \in Window', x \in Threads : untaken'[i] # this_task[x]
      BY <3>3, <3>6 DEF OnceInv
    <3>10. \A t \in used : ~done[t] =>
                     \/ t = arg
                     \/ \E i \in Window' : untaken'[i] = t
                     \/ \E i \in 1..Len(master_only) : master_only[i] = t
                     \/ \E x \in Threads : this_task[x] = t
      <4>1. ASSUME NEW t \in used, ~done[t], t # arg
            PROVE  \/ \E i \in Window' : untaken'[i] = t
                   \/ \E i \in 1..Len(master_only) : master_only[i] = t
                   \/ \E x \in Threads : this_task[x] = t
        <5>1. ASSUME NEW i \in Window, untaken[i] = t PROVE \E j \in Window' : untaken'[j] = t
          BY <3>3, <3>6, <4>1, <5>1
        <5> QED BY <2>2, <4>1, <5>1, Somewhere
      <4> QED BY <4>1
    <3>11. arg \in Tasks
      BY <3>8 DEF QueueFacts
    <3>12. used' = used \union {arg}
      BY <2>1, <3>8
    <3>13. /\ master_only' = Append(master_only, arg) /\ UNCHANGED <<this_task, done>>
           /\ \A i, j \in Window' : untaken'[i] = untaken'[j] => i = j
      BY <2>1, <3>3, <3>6
    <3> HIDE <1>0
    <3> QED BY <2>2, <3>13, <3>12, <3>8, <3>9, <3>10, <3>11, Appended
  <2> QED BY <2>4, <2>5
<1>24. CASE ToggleMultithreading
  <2>1. Quiet
    BY <1>24 DEF ToggleMultithreading, Quiet, Advancing, Putting, Busy, Threads
  <2> QED BY <2>1, OnceQuiet
<1>25. CASE WaitNotice
  <2>1. NoticeCompleted
    BY <1>25 DEF WaitNotice
  <2>2. /\ ~Putting /\ ~Putting' /\ pc[Master] \notin Busy
        /\ UNCHANGED <<untaken, untaken_in, untaken_out, this_task>>
        /\ \E l \in Labels : l \notin Busy /\ pc' = [pc EXCEPT ![Master] = l]
    BY <1>25 DEF WaitNotice, Putting, Busy, Labels
  <2> QED BY <2>1, <2>2, OnceNoticed
<1>26. CASE DoMasterOnly
  <2>1. /\ pc[Master] = "do_task" /\ master_only' = Tail(master_only)
        /\ this_task' = [this_task EXCEPT ![Master] = Head(master_only)]
        /\ pc' = [pc EXCEPT ![Master] = "claim"] /\ master_only # << >>
        /\ UNCHANGED <<untaken, untaken_in, untaken_out, used, done>>
    BY <1>26 DEF DoMasterOnly, HeadRunnable
  <2>2. Window' = Window
    <3>1. Advancing' <=> Advancing
      BY <2>1 DEF Advancing
    <3> QED BY <2>1, <3>1 DEF Window, First
  <2>3. /\ ~Putting /\ ~Putting' /\ pc[Master] \notin Busy /\ this_task[Master] = NoTask
        /\ \A x \in Threads : x # Master => pc'[x] = pc[x] /\ this_task'[x] = this_task[x]
        /\ this_task'[Master] = master_only[1] /\ Master \in Threads
    BY <2>1, BeforeGives, FirstOfMasterOnly DEF Putting, Busy, TakenInv
  <2>4. /\ 1 \in 1..Len(master_only)
        /\ Len(master_only') = Len(master_only) - 1
        /\ \A j \in 1..Len(master_only') :
             j + 1 \in 1..Len(master_only) /\ master_only'[j] = master_only[j + 1] /\ j + 1 # 1
    BY <2>1, FirstOfMasterOnly
  <2>5. \A j \in 1..Len(master_only) : j # 1 =>
          \E k \in 1..Len(master_only') : master_only'[k] = master_only[j]
    <3> SUFFICES ASSUME NEW j \in 1..Len(master_only), j # 1
                 PROVE  \E k \in 1..Len(master_only') : master_only'[k] = master_only[j]
      OBVIOUS
    <3>1. j - 1 \in 1..Len(master_only') /\ (j - 1) + 1 = j
      BY <2>4
    <3> QED BY <2>4, <3>1
  <2>6. \A t \in used : t # NoTask
    BY ConstantsAssumption
  <2> HIDE DEF QueueFacts, ThreadFacts, Threads
  <2>7. \A j \in 1..Len(master_only') :
          /\ master_only'[j] \in used /\ ~done[master_only'[j]] /\ master_only'[j] # master_only[1]
          /\ \A i \in Window : untaken[i] # master_only'[j]
          /\ \A x \in Threads : this_task[x] # master_only'[j]
    <3> SUFFICES ASSUME NEW j \in 1..Len(master_only')
                 PROVE  /\ master_only'[j] \in used /\ ~done[master_only'[j]]
                        /\ master_only'[j] # master_only[1]
                        /\ \A i \in Window : untaken[i] # master_only'[j]
                        /\ \A x \in Threads : this_task[x] # master_only'[j]
      OBVIOUS
    <3>1. PICK k \in 1..Len(master_only) : master_only'[j] = master_only[k] /\ k # 1
      BY <2>4
    <3>2. /\ master_only[k] \in used /\ ~done[master_only[k]]
          /\ \A i \in Window : untaken[i] # master_only[k]
          /\ \A x \in Threads : this_task[x] # master_only[k]
      BY DEF OnceInv
    <3>3. master_only[k] # master_only[1]
      BY <2>4, <3>1 DEF OnceInv
    <3> QED BY <3>1, <3>2, <3>3
  <2>8. \A i, j \in 1..Len(master_only') : master_only'[i] = master_only'[j] => i = j
    <3> SUFFICES ASSUME NEW i \in 1..Len(master_only'), NEW j \in 1..Len(master_only'),
                        master_only'[i] = master_only'[j]
                 PROVE  i = j
      OBVIOUS
    <3>1. /\ i + 1 \in 1..Len(master_only) /\ j + 1 \in 1..Len(master_only)
          /\ master_only[i + 1] = master_only[j + 1]
      BY <2>4
    <3>2. i + 1 = j + 1
      BY <3>1 DEF OnceInv
    <3> QED BY <3>2
  <2>9. /\ \A i \in Window : untaken[i] # master_only[1]
        /\ \A x \in Threads : this_task[x] # master_only[1]
    BY <2>4 DEF OnceInv
  <2>10. /\ \A i \in Window, x \in Threads : untaken[i] # this_task'[x]
         /\ \A i \in 1..Len(master_only'), x \in Threads : master_only'[i] # this_task'[x]
         /\ \A a, b \in Threads : pc'[a] \in Busy /\ this_task'[a] = this_task'[b] => a = b
    BY <2>3, <2>7, <2>9 DEF OnceInv
  <2>11. \A t \in used : ~done[t] =>
                     \/ \E i \in Window : untaken[i] = t
                     \/ \E i \in 1..Len(master_only') : master_only'[i] = t
                     \/ \E x \in Threads : this_task'[x] = t
    <3> SUFFICES ASSUME NEW t \in used, ~done[t]
                 PROVE  \/ \E i \in Window : untaken[i] = t
                        \/ \E i \in 1..Len(master_only') : master_only'[i] = t
                        \/ \E x \in Threads : this_task'[x] = t
      OBVIOUS
    <3>1. ASSUME NEW i \in 1..Len(master_only), master_only[i] = t
          PROVE  \/ \E k \in 1..Len(master_only') : master_only'[k] = t
                 \/ this_task'[Master] = t
      BY <2>3, <2>5, <3>1
    <3>2. ASSUME NEW x \in Threads, this_task[x] = t PROVE this_task'[x] = t
      BY <2>3, <2>6, <3>2
    <3> QED BY <2>3, <3>1, <3>2, Somewhere
  <2> QED BY <2>1, <2>2, <2>3, <2>7, <2>8, <2>10, <2>11 DEF OnceInv
<1>27. CASE ReadSuspended
  <2>1. Quiet
    BY <1>27 DEF ReadSuspended, Quiet, Advancing, Putting, Busy, Threads
  <2> QED BY <2>1, OnceQuiet
<1>28. CASE ReadQueueEmpty
  <2>1. Quiet
    BY <1>28 DEF ReadQueueEmpty, Quiet, Advancing, Putting, Busy, Threads
  <2> QED BY <2>1, OnceQuiet
<1>29. CASE TestStartLock
  <2>1. Quiet
    BY <1>29 DEF TestStartLock, Wake, Quiet, Advancing, Putting, Busy, Threads
  <2> QED BY <2>1, OnceQuiet
<1>30. CASE UNCHANGED vars
  <2>1. Quiet
    BY <1>30 DEF vars, Quiet, Advancing, Putting, Busy, Threads
  <2> QED BY <2>1, OnceQuiet
<1>31. QED
  BY <1>1, <1>2, <1>3, <1>4, <1>5, <1>6, <1>7, <1>8, <1>9, <1>10, <1>11, <1>12, <1>13,
     <1>14, <1>15, <1>16, <1>17, <1>18, <1>19, <1>20, <1>21, <1>22, <1>23, <1>24, <1>25,
     <1>26, <1>27, <1>28, <1>29, <1>30
     DEF Next, application, master_call, helper_proc, find_and_run

\* Nothing in the part seen is removed by another thread (Alone), and what is added does
\* not overtake what is there (NotFull).
LEMMA WindowNext == Before /\ [Next]_vars /\ toggles' <= 2 => WindowInv'
<1> SUFFICES ASSUME Before, [Next]_vars, toggles' <= 2 PROVE WindowInv'
  OBVIOUS
<1>0. ThreadFacts /\ QueueFacts /\ LockInv /\ OptionInv /\ WindowInv
  BY BeforeGives
<1> USE <1>0, ConstantsAssumption
    DEF ThreadFacts, QueueFacts, WindowInv, Advancing, Goto, Threads, queueVars,
        suspendVars, taskVars, optionVars, localVars, masterVars, multithreading
<1>1. ASSUME NEW th \in Threads, FindReadIn(th) PROVE WindowInv'
  BY <1>1 DEF FindReadIn
<1>2. ASSUME NEW th \in Threads, FindTake(th) PROVE WindowInv'
  <2>1. /\ pc[th] = "scan" /\ pc' = [pc EXCEPT ![th] = "advance"]
        /\ u_in' = [u_in EXCEPT ![th] = 0] /\ UNCHANGED <<untaken_in, untaken_out>>
        /\ \E f \in Between(untaken_out, u_in[th]) : untaken' = RemoveAt(f)
    BY <1>2 DEF FindTake
  <2>2. untaken_in # untaken_out
    BY <2>1, Seen
  <2> QED BY <2>1, <2>2
<1>3. ASSUME NEW th \in Threads, FindNone(th) PROVE WindowInv'
  BY <1>3 DEF FindNone, MasterUnsetsStartLock
<1>4. ASSUME NEW th \in Threads, FindAdvance(th) PROVE WindowInv'
  <2>1. /\ pc[th] = "advance" /\ pc' = [pc EXCEPT ![th] = "claim"] /\ u_in' = u_in
    BY <1>4 DEF FindAdvance
  <2>2. \A x \in Threads : pc'[x] \notin {"scan", "advance"}
    BY <2>1, Alone
  <2> QED BY <2>2
<1>5. ASSUME NEW th \in Threads, Claim(th) PROVE WindowInv'
  BY <1>5 DEF Claim
<1>6. ASSUME NEW th \in Threads, RunThisTask(th) PROVE WindowInv'
  BY <1>6 DEF RunThisTask
<1>7. ASSUME NEW i \in Helpers, SetStartLock(i) PROVE WindowInv'
  BY <1>7 DEF SetStartLock
<1>8. ASSUME NEW i \in Helpers, ReadIn(i) PROVE WindowInv'
  BY <1>8 DEF ReadIn
<1>9. ASSUME NEW i \in Helpers, SpinReadOut(i) PROVE WindowInv'
  BY <1>9 DEF SpinReadOut, SpinAgain
<1>10. ASSUME NEW i \in Helpers, SpinReadFlag(i) PROVE WindowInv'
  BY <1>10 DEF SpinReadFlag, SpinAgain
<1>11. ASSUME NEW i \in Helpers, DecideReadOut(i) PROVE WindowInv'
  BY <1>11 DEF DecideReadOut
<1>12. ASSUME NEW i \in Helpers, DecideReadFlag(i) PROVE WindowInv'
  BY <1>12 DEF DecideReadFlag
<1>13. ASSUME NEW i \in Helpers, WillSuspend(i) PROVE WindowInv'
  BY <1>13 DEF WillSuspend
<1>14. ASSUME NEW i \in Helpers, Suspend(i) PROVE WindowInv'
  BY <1>14 DEF Suspend
<1>15. CASE DoTask
  BY <1>15 DEF DoTask, NoticeCompleted, Completed
<1>16. CASE MergeBegin
  BY <1>16 DEF MergeBegin, NoticeCompleted, Completed
<1>17. CASE WaitForAll
  BY <1>17 DEF WaitForAll
<1>18. CASE TableFull
  BY <1>18 DEF TableFull
<1>19. CASE NewTask
  BY <1>19 DEF NewTask
<1>20. CASE PutInUntaken
  <2>1. /\ untaken_in' = Incr(untaken_in) /\ UNCHANGED <<untaken_out, u_in>>
        /\ \A x \in Threads : pc'[x] \in {"scan", "advance"} => pc'[x] = pc[x]
        /\ Putting
    BY <1>20 DEF PutInUntaken, Putting
  <2>2. untaken_in' # untaken_out
    BY <2>1, NotFull
  <2>3. Between(untaken_out, untaken_in') = Between(untaken_out, untaken_in) \union {untaken_in}
    BY <2>1, <2>2, Positions
  <2> HIDE <1>0
  <2> QED BY <1>0, <2>1, <2>2, <2>3
<1>21. CASE WakeHelper
  BY <1>21 DEF WakeHelper, Wake
<1>22. CASE MergeTestLock
  BY <1>22 DEF MergeTestLock
<1>23. CASE Merge
  <2>1. /\ pc[Master] = "merge" /\ untaken_in' = untaken_in /\ u_in' = u_in
        /\ \A x \in Threads : pc'[x] \in {"scan", "advance"} => pc'[x] = pc[x]
    BY <1>23 DEF Merge
  <2>2. ~(multithreading /\ helper[arg] # NoThread) =>
           \A x \in Threads : pc[x] \notin {"scan", "advance"}
    BY <2>1, ConstantsAssumption DEF LockInv, OptionInv, Outside, MasterInside, Active, Busy
  <2>3. multithreading /\ helper[arg] # NoThread => untaken_out' = untaken_out
    BY <1>23 DEF Merge
  <2> QED BY <2>1, <2>2, <2>3
<1>24. CASE ToggleMultithreading
  BY <1>24 DEF ToggleMultithreading
<1>25. CASE WaitNotice
  BY <1>25 DEF WaitNotice, NoticeCompleted, Completed
<1>26. CASE DoMasterOnly
  BY <1>26 DEF DoMasterOnly, HeadRunnable
<1>27. CASE ReadSuspended
  BY <1>27 DEF ReadSuspended
<1>28. CASE ReadQueueEmpty
  BY <1>28 DEF ReadQueueEmpty
<1>29. CASE TestStartLock
  BY <1>29 DEF TestStartLock, Wake
<1>30. CASE UNCHANGED vars
  BY <1>30 DEF vars
<1>31. QED
  BY <1>1, <1>2, <1>3, <1>4, <1>5, <1>6, <1>7, <1>8, <1>9, <1>10, <1>11, <1>12, <1>13,
     <1>14, <1>15, <1>16, <1>17, <1>18, <1>19, <1>20, <1>21, <1>22, <1>23, <1>24, <1>25,
     <1>26, <1>27, <1>28, <1>29, <1>30
     DEF Next, application, master_call, helper_proc, find_and_run

\* Nothing is added while untaken_lock is set, and whoever adds wakes a suspended helper.
LEMMA SuspendNext == Before /\ [Next]_vars /\ toggles' <= 2 => SuspendInv'
<1> SUFFICES ASSUME Before, [Next]_vars, toggles' <= 2 PROVE SuspendInv'
  OBVIOUS
<1>0. ThreadFacts /\ QueueFacts /\ LockInv /\ WakeInv /\ OptionInv /\ WindowInv /\ SuspendInv
  BY BeforeGives
<1> USE <1>0, ConstantsAssumption
    DEF ThreadFacts, QueueFacts, LockInv, OptionInv, Outside, MasterInside, WindowInv,
        SuspendInv, WakeInv, Goto, Threads, queueVars, suspendVars, taskVars,
        optionVars, localVars, masterVars, multithreading
<1>1. ASSUME NEW th \in Threads, FindReadIn(th) PROVE SuspendInv'
  BY <1>1 DEF FindReadIn
<1>2. ASSUME NEW th \in Threads, FindTake(th) PROVE SuspendInv'
  BY <1>2 DEF FindTake
<1>3. ASSUME NEW th \in Threads, FindNone(th) PROVE SuspendInv'
  BY <1>3 DEF FindNone, MasterUnsetsStartLock
<1>4. ASSUME NEW th \in Threads, FindAdvance(th) PROVE SuspendInv'
  BY <1>4 DEF FindAdvance, MasterUnsetsStartLock
<1>5. ASSUME NEW th \in Threads, Claim(th) PROVE SuspendInv'
  BY <1>5 DEF Claim
<1>6. ASSUME NEW th \in Threads, RunThisTask(th) PROVE SuspendInv'
  BY <1>6 DEF RunThisTask
<1>7. ASSUME NEW i \in Helpers, SetStartLock(i) PROVE SuspendInv'
  BY <1>7 DEF SetStartLock
<1>8. ASSUME NEW i \in Helpers, ReadIn(i) PROVE SuspendInv'
  BY <1>8 DEF ReadIn
<1>9. ASSUME NEW i \in Helpers, SpinReadOut(i) PROVE SuspendInv'
  BY <1>9 DEF SpinReadOut, SpinAgain
<1>10. ASSUME NEW i \in Helpers, SpinReadFlag(i) PROVE SuspendInv'
  BY <1>10 DEF SpinReadFlag, SpinAgain
<1>11. ASSUME NEW i \in Helpers, DecideReadOut(i) PROVE SuspendInv'
  BY <1>11 DEF DecideReadOut
<1>12. ASSUME NEW i \in Helpers, DecideReadFlag(i) PROVE SuspendInv'
  BY <1>12 DEF DecideReadFlag
<1>13. ASSUME NEW i \in Helpers, WillSuspend(i) PROVE SuspendInv'
  BY <1>13 DEF WillSuspend
<1>14. ASSUME NEW i \in Helpers, Suspend(i) PROVE SuspendInv'
  BY <1>14 DEF Suspend
<1>15. CASE DoTask
  BY <1>15 DEF DoTask, NoticeCompleted, Completed
<1>16. CASE MergeBegin
  BY <1>16 DEF MergeBegin, NoticeCompleted, Completed
<1>17. CASE WaitForAll
  BY <1>17 DEF WaitForAll
<1>18. CASE TableFull
  BY <1>18 DEF TableFull
<1>19. CASE NewTask
  BY <1>19 DEF NewTask
<1>20. CASE PutInUntaken
  <2>1. untaken_in' # untaken_out
    BY <1>20, NotFull DEF PutInUntaken, Putting
  <2>2. multithreading => untaken_lock = NoThread
    BY <1>20 DEF PutInUntaken, CanSetUntakenLock
  <2>3. /\ UNCHANGED <<untaken_out, untaken_lock, u_in, suspended, toggles,
                       helpers_not_multithreading_now>>
        /\ \A i \in Helpers : pc'[i] = pc[i]
        /\ multithreading /\ suspended # NoThread => pc'[Master] = "wake"
    BY <1>20, ConstantsAssumption DEF PutInUntaken
  <2>4. multithreading =>
          \A i \in Helpers : pc[i] \notin {"decide_out", "decide_flag", "will_suspend"}
    BY <2>2, ConstantsAssumption
  <2> QED BY <2>1, <2>3, <2>4
<1>21. CASE WakeHelper
  BY <1>21 DEF WakeHelper, Wake
<1>22. CASE MergeTestLock
  BY <1>22 DEF MergeTestLock
<1>23. CASE Merge
  BY <1>23 DEF Merge, MasterUnsetsStartLock
<1>24. CASE ToggleMultithreading
  <2>1. untaken_in = untaken_out /\ toggles' = toggles + 1 /\ toggles' # 0
    BY <1>24, Unused DEF ToggleMultithreading, Busy
  <2>2. UNCHANGED <<untaken_in, untaken_out, untaken_lock, u_in, suspended>>
        /\ \A i \in Helpers : pc'[i] = pc[i]
    BY <1>24, ConstantsAssumption DEF ToggleMultithreading
  <2> QED BY <2>1, <2>2
<1>25. CASE WaitNotice
  BY <1>25 DEF WaitNotice, NoticeCompleted, Completed
<1>26. CASE DoMasterOnly
  BY <1>26 DEF DoMasterOnly, HeadRunnable
<1>27. CASE ReadSuspended
  BY <1>27 DEF ReadSuspended
<1>28. CASE ReadQueueEmpty
  BY <1>28 DEF ReadQueueEmpty
<1>29. CASE TestStartLock
  BY <1>29 DEF TestStartLock, Wake
<1>30. CASE UNCHANGED vars
  BY <1>30 DEF vars
<1>31. QED
  BY <1>1, <1>2, <1>3, <1>4, <1>5, <1>6, <1>7, <1>8, <1>9, <1>10, <1>11, <1>12, <1>13,
     <1>14, <1>15, <1>16, <1>17, <1>18, <1>19, <1>20, <1>21, <1>22, <1>23, <1>24, <1>25,
     <1>26, <1>27, <1>28, <1>29, <1>30
     DEF Next, application, master_call, helper_proc, find_and_run

-----------------------------------------------------------------------------
(* The invariant, up to two changes of the option.                         *)

\* Nothing is queued, taken or suspended at first.
LEMMA InitQueue == Init => QInv
<1> SUFFICES ASSUME Init PROVE QInv
  OBVIOUS
<1>1. QueuesTypeOK
  BY InitType DEF TypeOK
<1>2. First = untaken_out /\ Window = {} /\ ~Advancing
  <2>1. ~Advancing
    BY DEF Init, Advancing
  <2> QED BY <1>1, <2>1, Positions DEF Init, First, Window, QueuesTypeOK
<1> USE ConstantsAssumption DEF Init, Threads
<1>3. OptionInv
  BY DEF OptionInv, multithreading, Active, Busy
<1>4. MasterInv
  BY DEF MasterInv, Putting, Merges
<1>5. TakenInv
  BY DEF TakenInv, Busy
<1>6. OnceInv
  BY <1>2 DEF OnceInv, Putting, Busy
<1>7. WindowInv
  BY <1>2 DEF WindowInv
<1>8. SuspendInv
  BY DEF SuspendInv
<1> QED BY <1>3, <1>4, <1>5, <1>6, <1>7, <1>8 DEF QInv

\* The option changes are only counted up.
LEMMA TogglesGrow == TypeOK /\ [Next]_vars => toggles' \in Nat /\ toggles <= toggles'
<1> SUFFICES ASSUME TypeOK, [Next]_vars PROVE toggles' \in Nat /\ toggles <= toggles'
  OBVIOUS
<1>1. toggles \in Nat
  BY DEF TypeOK, MasterTypeOK
<1>2. toggles' \in {toggles, toggles + 1}
  BY
     DEF Next, application, master_call, helper_proc, find_and_run, vars, optionVars,
         FindReadIn, FindTake, FindNone, FindAdvance, Claim, RunThisTask, SetStartLock,
         ReadIn, SpinReadOut, SpinReadFlag, DecideReadOut, DecideReadFlag, WillSuspend,
         Suspend, DoTask, MergeBegin, WaitForAll, TableFull, NewTask, PutInUntaken,
         WakeHelper, MergeTestLock, Merge, ToggleMultithreading, WaitNotice, DoMasterOnly,
         ReadSuspended, ReadQueueEmpty, TestStartLock
<1> QED BY <1>1, <1>2

\* QInv is kept by every step that leaves the number of changes at most two.
LEMMA QueueNext == IInv /\ (toggles <= 2 => QInv) /\ [Next]_vars => (toggles <= 2 => QInv)'
<1> SUFFICES ASSUME IInv, toggles <= 2 => QInv, [Next]_vars, toggles' <= 2 PROVE QInv'
  OBVIOUS
<1>1. toggles <= 2
  BY TogglesGrow DEF IInv, TypeOK, MasterTypeOK
<1>2. Before
  BY <1>1 DEF Before
<1> QED BY <1>2, OptionNext, MasterNext, TakenNext, OnceNext, WindowNext, SuspendNext DEF QInv

\* The invariant holds in every state.
LEMMA QueueHolds == Spec => [](IInv /\ (toggles <= 2 => QInv))
<1>1. Init => (toggles <= 2 => QInv)
  BY InitQueue
<1> QED BY <1>1, QueueNext, InvariantHolds, PTL DEF Spec

\* The places of a task, one by one.
LEMMA PlacesAre ==
  ASSUME NEW t, NEW p
  PROVE  p \in Places(t) <=>
           \/ \E i \in Window : untaken[i] = t /\ p = <<"untaken", i>>
           \/ \E i \in 1..Len(master_only) : master_only[i] = t /\ p = <<"master_only", i>>
           \/ \E th \in Threads : this_task[th] = t /\ p = <<"thread", th>>
           \/ Putting /\ arg = t /\ p = <<"put", 0>>
<1> DEFINE U == {<<"untaken", i>> : i \in {j \in Window : untaken[j] = t}}
           M == {<<"master_only", i>> : i \in {j \in 1..Len(master_only) : master_only[j] = t}}
           T == {<<"thread", th>> : th \in {x \in Threads : this_task[x] = t}}
           P == IF Putting /\ arg = t THEN {<<"put", 0>>} ELSE {}
<1>1. Places(t) = U \union M \union T \union P
  BY Zenon DEF Places, Window, First, Advancing, Putting
<1>2. p \in U <=> \E i \in Window : untaken[i] = t /\ p = <<"untaken", i>>
  BY Zenon
<1>3. p \in M <=> \E i \in 1..Len(master_only) : master_only[i] = t /\ p = <<"master_only", i>>
  BY Zenon
<1>4. p \in T <=> \E th \in Threads : this_task[th] = t /\ p = <<"thread", th>>
  BY Zenon
<1>5. p \in P <=> Putting /\ arg = t /\ p = <<"put", 0>>
  BY Zenon
<1> HIDE DEF U, M, T, P
<1> QED BY <1>1, <1>2, <1>3, <1>4, <1>5

\* OnceInv says what TaskInOnePlace counts.
LEMMA InOnePlace == Before => TaskInOnePlace
<1> SUFFICES ASSUME Before, NEW t \in Tasks
             PROVE  Cardinality(Places(t)) = IF t \in used /\ ~done[t] THEN 1 ELSE 0
  BY DEF TaskInOnePlace
<1>1. OnceInv /\ TakenInv /\ MasterInv /\ QueueFacts
  BY BeforeGives
<1>2. CASE t \in used /\ ~done[t]
  <2>1. PICK p : p \in Places(t)
    BY <1>2, Somewhere, PlacesAre
  <2>2. ASSUME NEW q \in Places(t) PROVE q = p
    <3>1. \A a, b \in Threads : this_task[a] = t /\ this_task[b] = t => a = b
      BY <1>1, ConstantsAssumption DEF OnceInv, TakenInv
    <3> QED BY <1>1, <2>1, <2>2, <3>1, PlacesAre DEF OnceInv
  <2>3. Places(t) = {p}
    BY <2>1, <2>2
  <2> QED BY <1>2, <2>3, FS_Singleton
<1>3. CASE ~(t \in used /\ ~done[t])
  <2>1. ASSUME NEW p \in Places(t) PROVE FALSE
    <3>1. CASE \E i \in Window : untaken[i] = t
      BY <1>1, <1>3, <3>1 DEF OnceInv
    <3>2. CASE \E i \in 1..Len(master_only) : master_only[i] = t
      BY <1>1, <1>3, <3>2 DEF OnceInv
    <3>3. CASE \E th \in Threads : this_task[th] = t
      BY <1>1, <1>3, <3>3, ConstantsAssumption DEF TakenInv
    <3>4. CASE Putting /\ arg = t
      BY <1>1, <1>3, <3>4 DEF OnceInv, MasterInv
    <3> QED BY <3>1, <3>2, <3>3, <3>4, PlacesAre
  <2>2. Places(t) = {}
    BY <2>1
  <2> QED BY <1>3, <2>2, FS_EmptySet
<1> QED BY <1>2, <1>3

\* No task is lost and none is started twice: one in use and not yet done is at one
\* position of one queue or with one thread, whatever the interleaving of the threads that
\* take from the untaken queue by copying its first entry over the one taken, the master
\* that adds to it, and the merging that moves a task out of it (find_untaken_runnable,
\* put_in_untaken, helpers_do_task).
THEOREM TasksKept == Spec => [](toggles <= 2 => TaskInOnePlace)
<1>1. IInv /\ (toggles <= 2 => QInv) => (toggles <= 2 => TaskInOnePlace)
  BY InOnePlace DEF Before
<1> QED BY <1>1, QueueHolds, PTL

\* The master never finds a helper suspended while a task is queued, and never exits
\* because the task to merge with has left the untaken queue: the two errors that
\* do_task_in_master and helpers_do_task report.
THEOREM MasterUnsurprised == Spec => [](toggles <= 2 => MasterNeverSurprised)
<1>1. IInv /\ (toggles <= 2 => QInv) => (toggles <= 2 => MasterNeverSurprised)
  BY DEF QInv, MasterInv, MasterNeverSurprised
<1> QED BY <1>1, QueueHolds, PTL

=============================================================================
