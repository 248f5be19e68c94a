--------------------------- MODULE MCHelpersTasks ---------------------------
(* HelpersTasks for TLC: the tasks that the application schedules.         *)
EXTENDS HelpersTasks, TLC

CONSTANTS a, b, c

K(out, in1, in2, flags) ==
  [var |-> [w \in 0..2 |-> <<out, in1, in2>>[w + 1]], flags |-> flags]

\* Operations on whole vectors, as those of arithmetic.c: their output may be
\* merged into, and is put on hold, or not.
New(out, in1, hold) ==
  K(out, in1, Null, {"PIPE_IN1", "PIPE_OUT", "MERGE_OUT"} \union hold)

\* Operations that update their operand, which may merge, the other operand being a
\* scalar if any.
InPlace(out, scalar, others) ==
  K(out, out, scalar,
    {"PIPE_IN0", "PIPE_IN1", "MERGE_IN", "MERGE_OUT", "HOLD"} \union others)

\* Tasks for the helpers, and some that the master must do, later or at once.  The
\* scalar c is computed too.  (The operations in place do not pipeline their output:
\* if they did, there would be four times as many states.)
AllKinds ==
  {New(a, b, {"HOLD"}), InPlace(a, c, {}), K(b, c, a, {"PIPE_IN2", "PIPE_OUT"}),
   K(a, a, Null, {"MERGE_IN", "MASTER_NOW"}),
   K(c, b, Null, {"MASTER_ONLY"})}

\* Tasks on hold, some of them to be taken up by others, and tasks that the
\* master must do in order.
WaitKinds ==
  {New(a, b, {"HOLD"}), K(b, a, Null, {"HOLD"}), K(a, a, Null, {"MASTER_ONLY"}),
   K(c, a, b, {"MASTER_ONLY"}),
   K(c, a, Null, {"MASTER_NOW"})}

\* What pqR may merge into a task on hold.
HoldKinds == {New(a, b, {"HOLD"}), InPlace(a, Null, {"PIPE_OUT"})}

\* The task indexes are only tested for equality.
Symmetry == Permutations(Tasks)
=============================================================================
