---------------------------- MODULE InOrderValues ----------------------------
(***************************************************************************)
(* What the order that InOrder keeps is good for: the values of the        *)
(* variables.  Three variables are added to those of InOrder, and change   *)
(* with its steps but never restrict them: what the pending operations     *)
(* compute, the values there are, and those there would be if each         *)
(* operation were done at once, as without helpers.  The application may   *)
(* also change by itself what nothing pending reads or writes (as it does  *)
(* after WAIT_UNTIL_NOT_IN_USE, src/src/include/Defn.h).                   *)
(***************************************************************************)
EXTENDS InOrder

CONSTANT Values

VARIABLES
  does,    \* what each pending operation writes, as a function of all the values
  value,   \* the value of each variable
  meant    \* the value it would have if nothing had been pending ever

allVars == <<pending, does, value, meant>>

Memories == [Vars -> Values]

\* The function f looks only at the variables that the operation o reads.
LooksAt(o, f) ==
  \A m, k \in Memories : (\A v \in Read(o) \intersect Vars : m[v] = k[v]) => f[m] = f[k]

\* The values after the operation o, which computes f, is done with the values m.
Done(o, f, m) == [v \in Vars |-> IF v \in Written(o) THEN f[m] ELSE m[v]]

-----------------------------------------------------------------------------
InitValues == Init /\ does = << >> /\ value \in Memories /\ meant = value

ScheduleValues ==
  /\ Schedule
  /\ \E f \in [Memories -> Values] :
       /\ LooksAt(Last(pending'), f)
       /\ does' = Append(does, f)
       /\ meant' = Done(Last(pending'), f, meant)
  /\ UNCHANGED value

EffectValues(i) ==
  /\ Effect(i)
  /\ does' = RemoveAt(does, i)
  /\ value' = Done(pending[i], does[i], value)
  /\ UNCHANGED meant

\* What the operation at i and the newest compute together: the newest takes what the
\* first would write, and all else that it reads as it is now (helpers_merge_proc,
\* src/src/main/merged-ops.c lines 422-428).
Joined(i) ==
  [m \in Memories |->
     does[Len(pending)][[v \in Vars |-> IF v \in Written(pending[i]) THEN does[i][m]
                                                                    ELSE value[v]]]]

JoinEarlierValues(i) ==
  /\ JoinEarlier(i)
  /\ does' = Front([does EXCEPT ![i] = Joined(i)])
  /\ UNCHANGED <<value, meant>>

JoinLaterValues(i) ==
  /\ JoinLater(i)
  /\ does' = Append(RemoveAt(Front(does), i), Joined(i))
  /\ UNCHANGED <<value, meant>>

ChangeValue(v) ==
  /\ Untouched(v)
  /\ \E x \in Values : /\ value' = [value EXCEPT ![v] = x]
                       /\ meant' = [meant EXCEPT ![v] = x]
  /\ UNCHANGED <<pending, does>>

NextValues ==
  \/ ScheduleValues
  \/ \E i \in 1..Len(pending) : EffectValues(i)
  \/ \E i \in 1..(Len(pending) - 1) : JoinEarlierValues(i) \/ JoinLaterValues(i)
  \/ \E v \in Vars : ChangeValue(v)

SpecValues == InitValues /\ [][NextValues]_allVars

-----------------------------------------------------------------------------
\* What nothing pending writes has the value it would have without helpers, in
\* particular all that helpers_wait_until_not_being_computed has waited for
\* (helpers_do_task, lines 1904-2313).
Settled == \A v \in Vars : Unwritten(v) => value[v] = meant[v]
=============================================================================
