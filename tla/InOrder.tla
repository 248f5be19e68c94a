------------------------------- MODULE InOrder -------------------------------
(***************************************************************************)
(* What helpers_do_task promises the application, whoever does the tasks:  *)
(* the operations take effect as if each were done when it was scheduled.  *)
(* They take effect one at a time, perhaps in another order, but never     *)
(* before an earlier one with a variable in common that either writes.     *)
(* Operations on the same variable may be joined to be done together.      *)
(***************************************************************************)
EXTENDS Naturals, Sequences, SequencesExt

CONSTANTS Vars, Null

VARIABLE pending   \* the operations that have had no effect yet, in the order
                   \* scheduled: their variables and how many are joined

\* What an operation writes, var[0], and what it reads, among them what it writes,
\* which it may update.
Written(o) == {o.var[0]} \ {Null}
Read(o) == {o.var[w] : w \in 0..2} \ {Null}

\* Two operations that may not take effect in either order.
Conflict(a, b) ==
  Written(a) \intersect Read(b) # {} \/ Written(b) \intersect Read(a) # {}

\* No pending operation writes the variable v; none reads or writes it.
Unwritten(v) == \A i \in 1..Len(pending) : v \notin Written(pending[i])
Untouched(v) == \A i \in 1..Len(pending) : v \notin Read(pending[i])

\* The operation at i conflicts with none of those at the positions in js.
Free(i, js) == \A j \in js : ~Conflict(pending[i], pending[j])

Init == pending = << >>

\* A new operation, by itself.
Schedule ==
  /\ Len(pending') > Len(pending)
  /\ Last(pending') \in [var : [0..2 -> Vars \union {Null}], ops : {1}]
  /\ pending' = Append(pending, Last(pending'))

Effect(i) ==
  /\ pending' = RemoveAt(pending, i)
  /\ Free(i, 1..(i - 1))

\* No operation before the newest still has to write what that one only reads, so that
\* the values of these can be taken when it is joined with another.
Known ==
  LET new == pending[Len(pending)]
  IN  \A j \in 1..(Len(pending) - 1) :
        Written(pending[j]) \intersect (Read(new) \ Written(new)) = {}

\* The newest operation is to be done with the one at i, on the same variable, at
\* the place of that one in the order ...
JoinEarlier(i) ==
  LET n == Len(pending)
  IN  /\ pending' = Front([pending EXCEPT ![i].ops = @ + pending[n].ops])
      /\ Written(pending[i]) = Written(pending[n])
      /\ Free(n, (i + 1)..(n - 1)) /\ Known

\* ... or at its own place.
JoinLater(i) ==
  LET n == Len(pending)
  IN  /\ pending' = Append(RemoveAt(Front(pending), i),
                          [pending[i] EXCEPT !.ops = @ + pending[n].ops])
      /\ Written(pending[i]) = Written(pending[n])
      /\ Free(i, (i + 1)..(n - 1)) /\ Known

Next ==
  \/ Schedule
  \/ /\ Len(pending') < Len(pending)
     /\ \/ \E i \in 1..Len(pending) : Effect(i)
        \/ \E i \in 1..(Len(pending) - 1) : JoinEarlier(i) \/ JoinLater(i)

Spec == Init /\ [][Next]_pending
=============================================================================
