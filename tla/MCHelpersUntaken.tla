-------------------------- MODULE MCHelpersUntaken --------------------------
(* HelpersUntaken for TLC.  The cfg files give the constants their values. *)
EXTENDS HelpersUntaken, TLC

\* Neither the task indexes nor the helpers are ever compared, only tested for
\* equality.
Symmetry == Permutations(Tasks) \union Permutations(Helpers)

\* Two states are the same if their untaken queues differ only in where they
\* start, and in what is left in the entries that are free.
Offset(i) == (i - untaken_out) % (MaxTasks + 1)
QueueView ==
  <<[d \in Slots |-> LET i == (untaken_out + d) % (MaxTasks + 1)
                     IN  IF i \in Between(untaken_out, untaken_in)
                           THEN untaken[i] ELSE NoTask],
    Offset(untaken_in),
    [th \in Threads |-> IF pc[th] \in {"scan", "spin_out", "decide_out"}
                          THEN Offset(u_in[th]) ELSE 0],
    start_lock, untaken_lock, suspendVars, taskVars, optionVars, pc,
    this_task, count, masterVars>>
=============================================================================
