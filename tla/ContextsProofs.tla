--------------------------- MODULE ContextsProofs ---------------------------
(***************************************************************************)
(* Theorems about Contexts, for stacks of any depth and any number of exit *)
(* codes, handlers and restarts.                                           *)
(*                                                                         *)
(* The inductive invariant is StackInv: which frames the others point to   *)
(* (TopOf, LinksInv), that each exit code waits in one place only          *)
(* (CodesInv), and what the contexts that restore inError will set it to   *)
(* (CendsInv).  Jumps are where it is hard to keep: UnwindStep says what   *)
(* an Unwind does to each frame, and Jumped that this keeps the invariant. *)
(* Every other action leaves the frames alone but for one or two at the    *)
(* top of the stack, for which the lemmas ending in "Kept" and "Same" are. *)
(*                                                                         *)
(* The second part, from RInv on, is about the handlers and restarts that  *)
(* the frames keep, of what functions they are, and about the exit code of *)
(* the functions that jumps have passed.                                   *)
(***************************************************************************)
EXTENDS Contexts, TLAPS, SequenceTheorems, FiniteSetTheorems, WellFoundedInduction

\* Sets of natural numbers: a least element, Min and Max.
LEMMA LeastExists ==
  ASSUME NEW S \in SUBSET Nat, S # {}
  PROVE  \E m \in S : \A x \in S : m <= x
<1> DEFINE R == OpToRel(<, Nat)
<1>1. IsWellFoundedOn(R, Nat)
  BY NatLessThanWellFounded
<1>2. PICK m \in S : \A y \in S : ~(<<y, m>> \in R)
  BY <1>1, WFMin
<1>3. \A y \in S : ~(y < m)
  BY <1>2 DEF OpToRel
<1> QED BY <1>3

LEMMA MinOf ==
  ASSUME NEW S \in SUBSET Nat, S # {}
  PROVE  Min(S) \in S /\ \A x \in S : Min(S) <= x
BY LeastExists DEF Min

LEMMA MaxOf ==
  ASSUME NEW n \in Nat, NEW S \in SUBSET (0..n), S # {}
  PROVE  Max(S) \in S /\ \A x \in S : x <= Max(S)
<1> DEFINE T == {n - x : x \in S}
<1>1. PICK m \in T : \A y \in T : m <= y
  BY LeastExists, T \in SUBSET Nat, T # {}
<1>2. PICK x \in S : m = n - x
  BY <1>1
<1>3. ASSUME NEW y \in S
      PROVE  x >= y
  <2>1. m <= n - y
    BY <1>1
  <2> QED BY <2>1, <1>2
<1> QED BY <1>2, <1>3 DEF Max

-----------------------------------------------------------------------------
\* The types of the frames, and which of them a frame has by its kind.
Saved == Seq(Entries)

ToplevelFrames ==
  [kind : {"toplevel"}, handlerstack : Saved, restartstack : Saved, left : BOOLEAN,
   oldHStack : Saved, saveToplevelContext : Nat]
FunctionFrames ==
  [kind : {"function"}, handlerstack : Saved, restartstack : Saved, env : Envs,
   conexit : Seq(Codes), left : BOOLEAN]
CcodeFrames == [kind : {"ccode"}, cend : 0..NoCend]
SignalFrames ==
  [kind : {"signal"}, error : BOOLEAN, oldstack : Saved, entry : Entries \union {NoEntry}]
ExitFrames == [kind : {"exit"}, of : Nat, target : Nat, todo : Seq(Codes)]
OptionFrames == [kind : {"option"}]

Frames == ToplevelFrames \union FunctionFrames \union CcodeFrames \union SignalFrames
            \union ExitFrames \union OptionFrames

LEMMA FrameOfKind ==
  ASSUME NEW f \in Frames
  PROVE  /\ f.kind \in {"toplevel", "function", "ccode", "signal", "exit", "option"}
         /\ f.kind = "toplevel" => f \in ToplevelFrames
         /\ f.kind = "function" => f \in FunctionFrames
         /\ f.kind = "ccode" => f \in CcodeFrames
         /\ f.kind = "signal" => f \in SignalFrames
         /\ f.kind = "exit" => f \in ExitFrames
BY DEF Frames, ToplevelFrames, FunctionFrames, CcodeFrames, SignalFrames, ExitFrames,
       OptionFrames

-----------------------------------------------------------------------------
\* A context that will restore inError when it is left.
Live(f) == f.kind = "ccode" /\ f.cend # NoCend

\* What a jump leaves as it is of a frame f that becomes g.
Like(f, g) ==
  /\ g.kind = f.kind
  /\ f.kind = "exit" => g = f
  /\ f.kind = "toplevel" =>
       /\ g.handlerstack = f.handlerstack /\ g.restartstack = f.restartstack
       /\ g.oldHStack = f.oldHStack /\ g.saveToplevelContext = f.saveToplevelContext
  /\ f.kind = "function" =>
       /\ g.handlerstack = f.handlerstack /\ g.restartstack = f.restartstack
       /\ g.env = f.env /\ g.conexit \in {f.conexit, << >>}

\* A frame of a context is still like itself when it has been jumped to, or its exit
\* code has been taken from it.
LEMMA WithLeft ==
  ASSUME NEW f \in ToplevelFrames \union FunctionFrames, NEW b \in BOOLEAN
  PROVE  [f EXCEPT !.left = b] \in Frames /\ Like(f, [f EXCEPT !.left = b])
<1> DEFINE g == [f EXCEPT !.left = b]
<1>1. CASE f \in ToplevelFrames
  <2>1. g \in ToplevelFrames
    BY <1>1 DEF ToplevelFrames
  <2>2. /\ g.kind = f.kind /\ g.handlerstack = f.handlerstack
        /\ g.restartstack = f.restartstack /\ g.oldHStack = f.oldHStack
        /\ g.saveToplevelContext = f.saveToplevelContext /\ f.kind = "toplevel"
    BY <1>1 DEF ToplevelFrames
  <2> QED BY <2>1, <2>2 DEF Like, Frames
<1>2. CASE f \in FunctionFrames
  <2>1. g \in FunctionFrames
    BY <1>2 DEF FunctionFrames
  <2>2. /\ g.kind = f.kind /\ g.handlerstack = f.handlerstack
        /\ g.restartstack = f.restartstack /\ g.env = f.env
        /\ g.conexit = f.conexit /\ f.kind = "function"
    BY <1>2 DEF FunctionFrames
  <2> QED BY <2>1, <2>2 DEF Like, Frames
<1> QED BY <1>1, <1>2

LEMMA CodeTaken ==
  ASSUME NEW f \in FunctionFrames
  PROVE  /\ WithoutCode(f) \in FunctionFrames /\ WithoutCode(f).conexit = << >>
         /\ Like(f, WithoutCode(f))
<1> DEFINE g == [f EXCEPT !.conexit = << >>]
<1>1. << >> \in Seq(Codes)
  BY EmptySeq
<1>2. g \in FunctionFrames
  BY <1>1 DEF FunctionFrames
<1>3. /\ g.kind = f.kind /\ g.handlerstack = f.handlerstack
      /\ g.restartstack = f.restartstack /\ g.env = f.env
      /\ g.conexit = << >> /\ f.kind = "function"
  BY DEF FunctionFrames
<1> QED BY <1>2, <1>3 DEF Like, Frames, WithoutCode

\* The contexts between "from" and the target whose cend R_run_onexits calls.
Passed(st, from, target) == {i \in target + 1..from - 1 : Live(st[i])}

\* What Unwind does: the contexts down to "next" have been gone through, which is the
\* target, or a function whose exit code is now run.
Unwound(st, from, target, next) ==
  /\ stack' \in Seq(Frames)
  /\ \A i \in 1..Len(st) : i <= Len(stack') =>
       /\ Like(st[i], stack'[i]) /\ (st[i].kind = "signal" => stack'[i] = st[i])
       /\ st[i].kind = "ccode" =>
            stack'[i].cend = IF i \in next + 1..from - 1 THEN NoCend ELSE st[i].cend
  /\ inError' = IF Passed(st, from, next) = {} THEN inError
                ELSE st[Min(Passed(st, from, next))].cend
  /\ R_HandlerStack' = st[next].handlerstack /\ R_RestartStack' = st[next].restartstack
  /\ \/ /\ next = target /\ Len(stack') = target /\ ran' = ran
        /\ \A i \in target + 1..from - 1 :
              st[i].kind = "function" => st[i].conexit = << >>
     \/ /\ next \in target + 1..from - 1
        /\ st[next].kind = "function" /\ st[next].conexit # << >>
        /\ Len(stack') = Len(st) + 1 /\ stack'[Len(st) + 1] = Exit(next, target, st[next].conexit)
        /\ stack'[next].conexit = << >>
        /\ ran' = ran \union {Head(st[next].conexit)}
        /\ \A i \in next + 1..from - 1 :
              st[i].kind = "function" => st[i].conexit = << >>

\* Unwind does what Unwound says, for the highest context that has exit code.
LEMMA UnwindStep ==
  ASSUME NEW st \in Seq(Frames), NEW from \in 1..Len(st) + 1, NEW target \in 1..Len(st),
         target < from, st[target].kind \in {"toplevel", "function"},
         Unwind(st, from, target)
  PROVE  \E next \in target..from - 1 : Unwound(st, from, target, next)
<1> DEFINE todo == StillToLeave(st, from, target)
           exits == {i \in todo : st[i].kind = "function" /\ st[i].conexit # << >>}
           next == IF exits = {} THEN target ELSE Max(exits)
           cends == Cends(st, {i \in todo : i > next})
           called == [i \in DOMAIN st |-> IF i \in cends THEN [st[i] EXCEPT !.cend = NoCend]
                                           ELSE st[i]]
<1>1. Len(st) \in Nat /\ DOMAIN st = 1..Len(st) /\ \A i \in 1..Len(st) : st[i] \in Frames
  BY LenProperties, ElementOfSeq
<1>2. /\ next \in target..from - 1
      /\ exits = {} => next = target
      /\ exits # {} => next \in exits
      /\ \A i \in next + 1..from - 1 : st[i].kind = "function" => st[i].conexit = << >>
  <2>1. CASE exits = {}
    BY <2>1 DEF StillToLeave, IsContext
  <2>2. CASE exits # {}
    <3>1. exits \in SUBSET (0..Len(st))
      BY <1>1 DEF StillToLeave
    <3>2. next \in exits /\ \A x \in exits : x <= next
      BY <2>2, <3>1, <1>1, MaxOf
    <3>3. next \in target + 1..from - 1 /\ next \in 1..Len(st)
      BY <3>2 DEF StillToLeave
    <3> HIDE DEF next
    <3>4. ASSUME NEW i \in next + 1..from - 1, st[i].kind = "function"
          PROVE  st[i].conexit = << >>
      <4>1. i \notin exits
        <5> HIDE DEF exits
        <5> QED BY <3>2, <3>3
      <4>2. i \in target + 1..from - 1
        BY <3>3
      <4>3. i \in todo
        BY <4>2, <3>4 DEF StillToLeave, IsContext
      <4> QED BY <4>1, <4>3, <3>4
    <3> QED BY <2>2, <3>2, <3>3, <3>4
  <2> QED BY <2>1, <2>2
<1> HIDE DEF next
<1>3. cends = Passed(st, from, next)
  BY <1>1, <1>2 DEF Cends, StillToLeave, Passed, Live, IsContext
<1> HIDE DEF cends
<1>4. /\ called \in Seq(Frames) /\ Len(called) = Len(st)
      /\ \A i \in 1..Len(st) :
           /\ Like(st[i], called[i])
           /\ st[i].kind = "ccode" =>
                called[i].cend = IF i \in next + 1..from - 1 THEN NoCend ELSE st[i].cend
           /\ st[i].kind = "function" => called[i] = st[i]
           /\ st[i].kind = "toplevel" => called[i] = st[i]
           /\ st[i].kind = "signal" => called[i] = st[i]
  <2>1. ASSUME NEW i \in 1..Len(st)
        PROVE  /\ called[i] \in Frames
               /\ Like(st[i], called[i])
               /\ st[i].kind = "ccode" =>
                    called[i].cend = IF i \in next + 1..from - 1 THEN NoCend ELSE st[i].cend
               /\ st[i].kind # "ccode" => called[i] = st[i]
    <3>1. CASE i \in cends
      <4>1. st[i].kind = "ccode" /\ st[i] \in CcodeFrames
        BY <3>1, <1>1, <1>3, FrameOfKind DEF Passed, Live
      <4>2. called[i] = [st[i] EXCEPT !.cend = NoCend]
        BY <3>1, <1>1
      <4>3. called[i] \in CcodeFrames /\ called[i].cend = NoCend
        BY <4>1, <4>2 DEF CcodeFrames, NoCend
      <4> QED BY <4>1, <4>3, <3>1, <1>3 DEF Like, Frames, CcodeFrames, Passed
    <3>2. CASE i \notin cends
      <4>1. called[i] = st[i]
        BY <3>2, <1>1
      <4>2. st[i].kind = "ccode" /\ i \in next + 1..from - 1 => st[i].cend = NoCend
        BY <3>2, <1>3 DEF Passed, Live
      <4> QED BY <4>1, <4>2, <1>1 DEF Like
    <3> QED BY <3>1, <3>2
  <2>2. called \in [1..Len(st) -> Frames]
    BY <2>1, <1>1
  <2>3. called \in Seq(Frames)
    BY <2>2, <1>1, SeqDef
  <2>4. Len(called) = Len(st)
    BY <2>2, <2>3, <1>1, LenProperties
  <2> QED BY <2>1, <2>3, <2>4
<1> HIDE DEF called
<1>5. inError' = IF Passed(st, from, next) = {} THEN inError
                 ELSE st[Min(Passed(st, from, next))].cend
  BY <1>3 DEF Unwind, next, cends, called
<1>6. CASE exits = {}
  <2> DEFINE new == [SubSeq(called, 1, target) EXCEPT ![target].left = target > 1]
  <2>1. /\ stack' = new /\ UNCHANGED ran
        /\ R_HandlerStack' = st[target].handlerstack
        /\ R_RestartStack' = st[target].restartstack
    BY <1>6 DEF Unwind, called, cends, next
  <2>2. /\ SubSeq(called, 1, target) \in Seq(Frames)
        /\ Len(SubSeq(called, 1, target)) = target
        /\ \A i \in 1..target : SubSeq(called, 1, target)[i] = called[i]
    BY <1>4, SubSeqProperties, ElementOfSeq
  <2>3. /\ called[target] = st[target]
        /\ called[target] \in ToplevelFrames \union FunctionFrames
    BY <1>1, <1>4, FrameOfKind
  <2>4. /\ [called[target] EXCEPT !.left = target > 1] \in Frames
        /\ Like(st[target], [called[target] EXCEPT !.left = target > 1])
    BY <2>3, WithLeft, (target > 1) \in BOOLEAN
  <2>5. /\ new \in Seq(Frames) /\ Len(new) = target
        /\ \A i \in 1..target : i # target => new[i] = called[i]
        /\ new[target] = [called[target] EXCEPT !.left = target > 1]
    <3> DEFINE base == SubSeq(called, 1, target)
               g == [called[target] EXCEPT !.left = target > 1]
    <3>1. base[target] = called[target]
      BY <2>2
    <3>2. new = [base EXCEPT ![target] = [base[target] EXCEPT !.left = target > 1]]
      OBVIOUS
    <3>3. new = [base EXCEPT ![target] = g]
      BY <3>1, <3>2
    <3>4. g \in Frames /\ base \in Seq(Frames) /\ Len(base) = target
      BY <2>2, <2>4
    <3>5. \A i \in 1..target : base[i] = called[i]
      BY <2>2
    <3> HIDE DEF g, base
    <3>6. /\ [base EXCEPT ![target] = g] \in Seq(Frames)
          /\ Len([base EXCEPT ![target] = g]) = Len(base)
          /\ \A i \in 1..Len(base) :
               [base EXCEPT ![target] = g][i] = IF i = target THEN g ELSE base[i]
      BY <3>4, ExceptSeq
    <3> HIDE DEF new
    <3>7. /\ new \in Seq(Frames) /\ Len(new) = target
          /\ \A i \in 1..target : i # target => new[i] = called[i]
          /\ new[target] = g
      BY <3>3, <3>4, <3>5, <3>6
    <3> QED BY <3>7 DEF g
  <2> HIDE DEF new
  <2>6. Unwound(st, from, target, next)
    <3>1. \A i \in 1..Len(st) : i <= Len(stack') =>
            /\ Like(st[i], stack'[i]) /\ (st[i].kind = "signal" => stack'[i] = st[i])
            /\ st[i].kind = "ccode" =>
                 stack'[i].cend = IF i \in next + 1..from - 1 THEN NoCend ELSE st[i].cend
      BY <2>1, <2>3, <2>4, <2>5, <1>4
    <3>2. \A i \in target + 1..from - 1 : st[i].kind = "function" => st[i].conexit = << >>
      BY <1>2, <1>6
    <3> QED BY <2>1, <2>5, <3>1, <3>2, <1>2, <1>5, <1>6 DEF Unwound
  <2> QED BY <2>6, <1>2
<1>7. CASE exits # {}
  <2> DEFINE exit == Exit(next, target, st[next].conexit)
             new == Append([called EXCEPT ![next] = WithoutCode(@)], exit)
  <2>1. /\ stack' = new
        /\ R_HandlerStack' = st[next].handlerstack
        /\ R_RestartStack' = st[next].restartstack
        /\ ran' = ran \union {Head(st[next].conexit)}
    BY <1>7 DEF Unwind, called, cends, next, StacksFor
  <2>2. /\ next \in 1..Len(st) /\ next \in target + 1..from - 1
        /\ st[next].kind = "function" /\ st[next].conexit # << >>
        /\ st[next] \in FunctionFrames /\ called[next] = st[next]
    BY <1>1, <1>2, <1>4, <1>7, FrameOfKind DEF StillToLeave
  <2>3. /\ WithoutCode(called[next]) \in FunctionFrames
        /\ WithoutCode(called[next]).conexit = << >>
        /\ Like(st[next], WithoutCode(called[next]))
    BY <2>2, CodeTaken
  <2>4. exit \in Frames
    BY <2>2 DEF Exit, Frames, ExitFrames, FunctionFrames
  <2>5. /\ [called EXCEPT ![next] = WithoutCode(@)] \in Seq(Frames)
        /\ Len([called EXCEPT ![next] = WithoutCode(@)]) = Len(st)
        /\ \A i \in 1..Len(st) : [called EXCEPT ![next] = WithoutCode(@)][i]
               = IF i = next THEN WithoutCode(called[next]) ELSE called[i]
    BY <1>4, <2>2, <2>3, ExceptSeq DEF Frames
  <2>6. /\ new \in Seq(Frames) /\ Len(new) = Len(st) + 1 /\ new[Len(st) + 1] = exit
        /\ \A i \in 1..Len(st) : new[i] = IF i = next THEN WithoutCode(called[next])
                                           ELSE called[i]
    BY <2>4, <2>5, AppendProperties
  <2> HIDE DEF new
  <2>7. Unwound(st, from, target, next)
    BY <2>1, <2>2, <2>3, <2>6, <1>1, <1>2, <1>4, <1>5 DEF Unwound
  <2> QED BY <2>7, <1>2
<1> QED BY <1>6, <1>7
-----------------------------------------------------------------------------
\* R_ToplevelContext is t, the innermost top level context.
TopOf(st, t) ==
  /\ t \in 1..Len(st) /\ st[t].kind = "toplevel"
  /\ \A j \in t + 1..Len(st) : st[j].kind # "toplevel"

\* The frame f, at i of the stack, points to frames below it: the previous top level
\* context, the function whose exit code is run, the target of a jump (below which no
\* top level context is left out).
LinkAt(st, i, f) ==
  /\ f.kind = "toplevel" /\ i > 1 =>
       /\ f.saveToplevelContext \in 1..i - 1
       /\ st[f.saveToplevelContext].kind = "toplevel"
       /\ \A j \in f.saveToplevelContext + 1..i - 1 : st[j].kind # "toplevel"
  /\ f.kind = "exit" =>
       /\ f.of \in 1..i - 1 /\ st[f.of].kind = "function"
       /\ f.target = 0 => f.of = i - 1
       /\ f.target > 0 =>
            /\ f.target < f.of /\ st[f.target].kind \in {"toplevel", "function"}
            /\ \A j \in f.target + 1..i - 1 : st[j].kind # "toplevel"

LinksInv(st) == \A i \in 1..Len(st) : LinkAt(st, i, st[i])

\* g points to where f does.
Alike(f, g) ==
  /\ g.kind = f.kind
  /\ f.kind = "toplevel" => g.saveToplevelContext = f.saveToplevelContext
  /\ f.kind = "exit" => g.of = f.of /\ g.target = f.target

\* The frames that stay still point to what they should, if the one on top does.
LEMMA LinksKept ==
  ASSUME NEW st \in Seq(Frames), NEW new \in Seq(Frames), LinksInv(st),
         Len(new) <= Len(st) + 1,
         \A i \in 1..Len(st) : i <= Len(new) => Alike(st[i], new[i]),
         Len(new) = Len(st) + 1 => LinkAt(st, Len(new), new[Len(new)])
  PROVE  LinksInv(new)
<1>1. Len(st) \in Nat /\ Len(new) \in Nat
  BY LenProperties
<1>2. ASSUME NEW i \in 1..Len(new)
      PROVE  LinkAt(new, i, new[i])
  <2>1. \A j \in 1..i - 1 : new[j].kind = st[j].kind
    BY <1>1 DEF Alike
  <2>2. LinkAt(st, i, new[i])
    <3>1. CASE i <= Len(st)
      <4>1. i \in 1..Len(st) /\ Alike(st[i], new[i]) /\ LinkAt(st, i, st[i])
        BY <3>1, <1>1 DEF LinksInv
      <4> QED BY <4>1 DEF LinkAt, Alike
    <3>2. CASE i = Len(st) + 1
      BY <3>2, <1>1
    <3> QED BY <3>1, <3>2, <1>1
  <2>3. new[i] \in Frames
    BY <1>1, ElementOfSeq
  <2>4. ASSUME new[i].kind = "toplevel", i > 1
        PROVE  /\ new[i].saveToplevelContext \in 1..i - 1
               /\ new[new[i].saveToplevelContext].kind = "toplevel"
               /\ \A j \in new[i].saveToplevelContext + 1..i - 1 : new[j].kind # "toplevel"
    <3> DEFINE t == new[i].saveToplevelContext
    <3>1. /\ t \in 1..i - 1 /\ st[t].kind = "toplevel"
          /\ \A j \in t + 1..i - 1 : st[j].kind # "toplevel"
      BY <2>2, <2>4 DEF LinkAt
    <3> HIDE DEF t
    <3>2. /\ new[t].kind = "toplevel"
          /\ \A j \in t + 1..i - 1 : new[j].kind # "toplevel"
      BY <3>1, <2>1, SMTT(30)
    <3> QED BY <3>1, <3>2 DEF t
  <2>5. ASSUME new[i].kind = "exit"
        PROVE  /\ new[i].of \in 1..i - 1 /\ new[new[i].of].kind = "function"
               /\ new[i].target = 0 => new[i].of = i - 1
               /\ new[i].target > 0 =>
                    /\ new[i].target < new[i].of
                    /\ new[new[i].target].kind \in {"toplevel", "function"}
                    /\ \A j \in new[i].target + 1..i - 1 : new[j].kind # "toplevel"
    <3> DEFINE of == new[i].of
               target == new[i].target
    <3>1. of \in Nat /\ target \in Nat
      BY <2>3, <2>5, FrameOfKind DEF ExitFrames
    <3>2. /\ of \in 1..i - 1 /\ st[of].kind = "function"
          /\ target = 0 => of = i - 1
          /\ target > 0 =>
               /\ target < of
               /\ st[target].kind \in {"toplevel", "function"}
               /\ \A j \in target + 1..i - 1 : st[j].kind # "toplevel"
      BY <2>2, <2>5 DEF LinkAt
    <3> HIDE DEF of, target
    <3>3. /\ new[of].kind = "function"
          /\ target > 0 =>
               /\ new[target].kind \in {"toplevel", "function"}
               /\ \A j \in target + 1..i - 1 : new[j].kind # "toplevel"
      BY <3>1, <3>2, <2>1, SMTT(30)
    <3> QED BY <3>2, <3>3 DEF of, target
  <2> QED BY <2>4, <2>5 DEF LinkAt
<1> QED BY <1>2 DEF LinksInv

\* The exit codes in a frame that have not been started.
Waiting(f) ==
  CASE f.kind = "function" -> f.conexit
    [] f.kind = "exit" -> Tail(f.todo)
    [] OTHER -> << >>

\* g has the exit codes of f, or none that wait.
SameCode(f, g) ==
  /\ Waiting(g) \in {Waiting(f), << >>}
  /\ g.kind = "exit" => f.kind = "exit" /\ g.todo = f.todo

LEMMA LikeIs ==
  ASSUME NEW f, NEW g, Like(f, g)
  PROVE  Alike(f, g) /\ SameCode(f, g)
BY DEF Like, Alike, SameCode, Waiting

\* The exit code being run is among those that have been started.
Started(st, r) ==
  \A i \in 1..Len(st) :
    st[i].kind = "exit" => st[i].todo # << >> /\ Head(st[i].todo) \in r

\* The exit code x is the one at k of those that wait in the frame at i.
WaitsAt(st, i, k, x) ==
  i \in 1..Len(st) /\ k \in 1..Len(Waiting(st[i])) /\ Waiting(st[i])[k] = x

\* Exit codes that wait have not been started, and none waits twice.
Unstarted(st, r, n) ==
  \A i, k, x : WaitsAt(st, i, k, x) => x \in (1..n) \ r

Distinct(st) ==
  \A i, j, k, l, x : WaitsAt(st, i, k, x) /\ WaitsAt(st, j, l, x) => i = j /\ k = l

CodesInv(st, r, n) == r \subseteq 1..n /\ Started(st, r) /\ Unstarted(st, r, n) /\ Distinct(st)

\* Exit codes that wait are numbers of exit codes.
LEMMA WaitingType ==
  ASSUME NEW f \in Frames, f.kind = "exit" => f.todo # << >>
  PROVE  Waiting(f) \in Seq(Codes)
<1>1. CASE f.kind = "function"
  BY <1>1, FrameOfKind DEF Waiting, FunctionFrames
<1>2. CASE f.kind = "exit"
  <2>1. f.todo \in Seq(Codes)
    BY <1>2, FrameOfKind DEF ExitFrames
  <2> QED BY <1>2, <2>1, HeadTailProperties DEF Waiting
<1>3. CASE f.kind # "function" /\ f.kind # "exit"
  BY <1>3, EmptySeq DEF Waiting
<1> QED BY <1>1, <1>2, <1>3

\* No exit code is started.
LEMMA CodesSame ==
  ASSUME NEW st \in Seq(Frames), NEW new \in Seq(Frames), NEW r, NEW n \in Nat,
         CodesInv(st, r, n), Len(new) <= Len(st) + 1,
         \A i \in 1..Len(st) : i <= Len(new) => SameCode(st[i], new[i]),
         Len(new) = Len(st) + 1 =>
           new[Len(new)].kind # "exit" /\ Waiting(new[Len(new)]) = << >>
  PROVE  CodesInv(new, r, n)
<1>1. Len(st) \in Nat /\ Len(new) \in Nat /\ Len(<< >>) = 0
  BY LenProperties, EmptySeq
<1>2. ASSUME NEW i, NEW k, NEW x, WaitsAt(new, i, k, x)
      PROVE  WaitsAt(st, i, k, x)
  <2>1. i \in 1..Len(new) /\ k \in 1..Len(Waiting(new[i])) /\ Waiting(new[i])[k] = x
    BY <1>2 DEF WaitsAt
  <2>2. i \in 1..Len(st) /\ Waiting(new[i]) = Waiting(st[i])
    BY <2>1, <1>1 DEF SameCode
  <2> QED BY <2>1, <2>2 DEF WaitsAt
<1>3. Started(new, r)
  BY <1>1 DEF CodesInv, Started, SameCode
<1>4. Unstarted(new, r, n) /\ Distinct(new)
  BY <1>2 DEF CodesInv, Unstarted, Distinct
<1> QED BY <1>3, <1>4 DEF CodesInv

\* The first exit code that waits at "from" is started, the others go to "to".
LEMMA CodesStarted ==
  ASSUME NEW st \in Seq(Frames), NEW new \in Seq(Frames), NEW r, NEW n \in Nat,
         CodesInv(st, r, n), Len(new) <= Len(st) + 1,
         NEW from \in 1..Len(st), NEW to \in 1..Len(new),
         Waiting(st[from]) # << >>, new[to].kind = "exit", new[to].todo = Waiting(st[from]),
         from # to /\ from <= Len(new) => Waiting(new[from]) = << >>,
         \A i \in 1..Len(new) : i # to => i <= Len(st) /\ SameCode(st[i], new[i])
  PROVE  /\ CodesInv(new, r \union {Head(Waiting(st[from]))}, n)
         /\ Head(Waiting(st[from])) \notin r
<1> DEFINE w == Waiting(st[from])
<1>1. Len(st) \in Nat /\ Len(new) \in Nat /\ Len(<< >>) = 0
  BY LenProperties, EmptySeq
<1>2. w \in Seq(Codes)
  BY WaitingType, ElementOfSeq DEF CodesInv, Started
<1> HIDE DEF w
<1>3. /\ Head(w) = w[1] /\ 1 \in 1..Len(w) /\ Len(w) \in Nat
      /\ Len(Tail(w)) = Len(w) - 1 /\ \A k \in 1..Len(w) - 1 : Tail(w)[k] = w[k + 1]
  BY <1>2, HeadTailProperties, LenProperties, EmptySeq DEF w
<1>4. Waiting(new[to]) = Tail(w)
  BY DEF Waiting, w
<1>5. WaitsAt(st, from, 1, w[1])
  BY <1>3 DEF WaitsAt, w
<1> DEFINE I(i) == IF i = to THEN from ELSE i
           K(i, k) == IF i = to THEN k + 1 ELSE k
<1>6. ASSUME NEW i, NEW k, NEW x, WaitsAt(new, i, k, x)
      PROVE  /\ WaitsAt(st, I(i), K(i, k), x) /\ k \in Int
             /\ I(i) = from => i = to /\ K(i, k) # 1
  <2>1. i \in 1..Len(new) /\ k \in 1..Len(Waiting(new[i])) /\ Waiting(new[i])[k] = x
    BY <1>6 DEF WaitsAt
  <2>2. CASE i = to
    <3>1. k \in 1..Len(w) - 1 /\ x = Tail(w)[k]
      BY <1>3, <1>4, <2>1, <2>2
    <3>2. k + 1 \in 1..Len(w) /\ x = w[k + 1] /\ k + 1 # 1
      BY <3>1, <1>3
    <3>3. WaitsAt(st, from, k + 1, x)
      BY <3>2 DEF WaitsAt, w
    <3> QED BY <3>1, <3>2, <3>3, <2>2
  <2>3. CASE i # to
    <3>0. Waiting(new[i]) # << >>
      BY <1>1, <2>1
    <3>1. i \in 1..Len(st) /\ Waiting(new[i]) = Waiting(st[i]) /\ i # from
      BY <1>1, <2>1, <2>3, <3>0 DEF SameCode
    <3>2. WaitsAt(st, i, k, x)
      BY <2>1, <3>1 DEF WaitsAt
    <3> QED BY <2>1, <2>3, <3>1, <3>2
  <2> QED BY <2>2, <2>3
<1>7. Unstarted(new, r \union {w[1]}, n)
  <2> SUFFICES ASSUME NEW i, NEW k, NEW x, WaitsAt(new, i, k, x)
               PROVE  x \in (1..n) \ (r \union {w[1]})
    BY DEF Unstarted
  <2>1. WaitsAt(st, I(i), K(i, k), x) /\ (I(i) = from => K(i, k) # 1)
    BY <1>6
  <2> HIDE DEF I, K
  <2>2. x # w[1]
    BY <2>1, <1>5 DEF CodesInv, Distinct
  <2>3. x \in (1..n) \ r
    BY <2>1 DEF CodesInv, Unstarted
  <2> QED BY <2>2, <2>3
<1>8. Distinct(new)
  <2> SUFFICES ASSUME NEW i, NEW j, NEW k, NEW l, NEW x,
                      WaitsAt(new, i, k, x), WaitsAt(new, j, l, x)
               PROVE  i = j /\ k = l
    BY DEF Distinct
  <2>1. WaitsAt(st, I(i), K(i, k), x) /\ (I(i) = from => i = to) /\ k \in Int
    BY <1>6
  <2>2. WaitsAt(st, I(j), K(j, l), x) /\ (I(j) = from => j = to) /\ l \in Int
    BY <1>6
  <2>3. I(i) = I(j) /\ K(i, k) = K(j, l)
    <3> HIDE DEF I, K
    <3> QED BY <2>1, <2>2 DEF CodesInv, Distinct
  <2>4. i = j
    BY <2>1, <2>2, <2>3
  <2> QED BY <2>1, <2>2, <2>3, <2>4
<1>9. Started(new, r \union {w[1]})
  <2> SUFFICES ASSUME NEW i \in 1..Len(new), new[i].kind = "exit"
               PROVE  new[i].todo # << >> /\ Head(new[i].todo) \in r \union {w[1]}
    BY DEF Started
  <2>1. CASE i = to
    BY <2>1, <1>3 DEF w
  <2>2. CASE i # to
    <3>1. i \in 1..Len(st) /\ st[i].kind = "exit" /\ new[i].todo = st[i].todo
      BY <2>2, <1>1 DEF SameCode
    <3> QED BY <3>1 DEF CodesInv, Started
  <2> QED BY <2>1, <2>2
<1>10. w[1] \in (1..n) \ r
  BY <1>5 DEF CodesInv, Unstarted
<1> QED BY <1>3, <1>7, <1>8, <1>9, <1>10 DEF CodesInv, w

-----------------------------------------------------------------------------
\* Of the contexts that restore inError, e at present, the outermost sets it to 0, there
\* is one unless it is 0 already, and none has been passed by a jump under way.
CendsInv(st, e) ==
  /\ \A i \in 1..Len(st) : Live(st[i]) => st[i].cend = 0 \/ \E j \in 1..i - 1 : Live(st[j])
  /\ e # 0 => \E i \in 1..Len(st) : Live(st[i])
  /\ \A i \in 1..Len(st) : st[i].kind = "exit" /\ st[i].target > 0 =>
       \A j \in st[i].of + 1..i - 1 : ~Live(st[j])

\* No top level context comes or goes.
LEMMA TopKept ==
  ASSUME NEW st \in Seq(Frames), NEW new \in Seq(Frames), NEW t, TopOf(st, t),
         Len(new) <= Len(st) + 1,
         \A i \in 1..Len(st) : IF i <= Len(new) THEN new[i].kind = st[i].kind
                                                ELSE st[i].kind # "toplevel",
         Len(new) = Len(st) + 1 => new[Len(new)].kind # "toplevel"
  PROVE  TopOf(new, t)
<1>1. Len(st) \in Nat /\ Len(new) \in Nat
  BY LenProperties
<1>2. t \in 1..Len(new) /\ new[t].kind = "toplevel"
  BY <1>1 DEF TopOf
<1>3. ASSUME NEW j \in t + 1..Len(new)
      PROVE  new[j].kind # "toplevel"
  <2>1. j \in t + 1..Len(st) \/ j = Len(st) + 1
    BY <1>1, <1>2, SMTT(30)
  <2> QED BY <2>1, <1>1, <1>2 DEF TopOf
<1> QED BY <1>2, <1>3 DEF TopOf

\* No context that restores inError comes or goes.
LEMMA CendsKept ==
  ASSUME NEW st \in Seq(Frames), NEW new \in Seq(Frames), NEW e, CendsInv(st, e), LinksInv(st),
         Len(new) <= Len(st) + 1,
         \A i \in 1..Len(st) : IF i <= Len(new)
                               THEN /\ Alike(st[i], new[i])
                                    /\ st[i].kind = "ccode" => new[i].cend = st[i].cend
                               ELSE ~Live(st[i]),
         Len(new) = Len(st) + 1 =>
           /\ ~Live(new[Len(new)])
           /\ new[Len(new)].kind = "exit" => new[Len(new)].target = 0
  PROVE  CendsInv(new, e)
<1>1. Len(st) \in Nat /\ Len(new) \in Nat
  BY LenProperties
<1>2. \A i \in 1..Len(st) : i <= Len(new) =>
        (Live(new[i]) <=> Live(st[i])) /\ (Live(st[i]) => new[i].cend = st[i].cend)
  BY <1>1 DEF Alike, Live
<1>3. \A i \in 1..Len(new) : Live(new[i]) => i \in 1..Len(st) /\ Live(st[i])
  BY <1>1, <1>2
<1>4. \A i \in 1..Len(st) : Live(st[i]) => i \in 1..Len(new) /\ Live(new[i])
  BY <1>1, <1>2
<1>5. ASSUME NEW i \in 1..Len(new), Live(new[i])
      PROVE  new[i].cend = 0 \/ \E j \in 1..i - 1 : Live(new[j])
  <2>1. i \in 1..Len(st) /\ Live(st[i]) /\ new[i].cend = st[i].cend
    BY <1>2, <1>3, <1>5
  <2>2. CASE \E j \in 1..i - 1 : Live(st[j])
    BY <1>4, <2>1, <2>2
  <2> QED BY <2>1, <2>2 DEF CendsInv
<1>6. ASSUME NEW i \in 1..Len(new), new[i].kind = "exit", new[i].target > 0,
             NEW j \in new[i].of + 1..i - 1
      PROVE  ~Live(new[j])
  <2>1. i \in 1..Len(st)
    BY <1>1, <1>6
  <2>2. /\ st[i].kind = "exit" /\ st[i].of = new[i].of /\ st[i].target = new[i].target
    BY <2>1, <1>6 DEF Alike
  <2>3. ~Live(st[j])
    BY <2>1, <2>2, <1>6 DEF CendsInv
  <2>4. st[i].of \in 1..i - 1
    BY <2>1, <2>2 DEF LinksInv, LinkAt
  <2>5. j \in 1..Len(new)
    BY <2>2, <2>4, <1>1
  <2> QED BY <2>3, <2>5, <1>3
<1> QED BY <1>4, <1>5, <1>6 DEF CendsInv

-----------------------------------------------------------------------------
\* The invariant of the stack, with t for R_ToplevelContext, e for inError, r for ran and
\* n for registered.
StackInv(st, t, e, r, n) ==
  st \in Seq(Frames) /\ TopOf(st, t) /\ LinksInv(st) /\ CodesInv(st, r, n) /\ CendsInv(st, e)

\* It is kept when frames are left alone, or taken from or put on the top.
LEMMA ChangedInv ==
  ASSUME NEW st, NEW new \in Seq(Frames), NEW t, NEW e, NEW r, NEW n \in Nat,
         StackInv(st, t, e, r, n), Len(new) <= Len(st) + 1,
         \A i \in 1..Len(st) : IF i <= Len(new)
                               THEN /\ Like(st[i], new[i])
                                    /\ st[i].kind = "ccode" => new[i].cend = st[i].cend
                               ELSE ~Live(st[i]) /\ st[i].kind # "toplevel",
         Len(new) = Len(st) + 1 =>
           /\ new[Len(new)].kind \in {"function", "signal", "option"}
           /\ Waiting(new[Len(new)]) = << >>
  PROVE  StackInv(new, t, e, r, n)
<1>1. st \in Seq(Frames) /\ TopOf(st, t) /\ LinksInv(st) /\ CodesInv(st, r, n) /\ CendsInv(st, e)
  BY DEF StackInv
<1>2. \A i \in 1..Len(st) : i <= Len(new) => Alike(st[i], new[i]) /\ SameCode(st[i], new[i])
  BY LikeIs
<1>3. TopOf(new, t)
  BY <1>1, <1>2, TopKept DEF Alike
<1>4. LinksInv(new)
  BY <1>1, <1>2, LinksKept DEF LinkAt
<1>5. CodesInv(new, r, n)
  BY <1>1, <1>2, CodesSame
<1>6. CendsInv(new, e)
  BY <1>1, <1>2, CendsKept DEF Live
<1> QED BY <1>3, <1>4, <1>5, <1>6 DEF StackInv

\* A new exit code is given to a function, with or without those it has.
LEMMA CodesAdded ==
  ASSUME NEW st \in Seq(Frames), NEW new \in Seq(Frames), NEW r, NEW n \in Nat,
         CodesInv(st, r, n), Len(new) = Len(st),
         NEW at \in 1..Len(st), st[at].kind = "function", new[at].kind = "function",
         NEW old \in {st[at].conexit, << >>}, new[at].conexit = Append(old, n + 1),
         \A i \in 1..Len(st) : i # at => new[i] = st[i]
  PROVE  CodesInv(new, r, n + 1)
<1>1. Len(st) \in Nat /\ Len(<< >>) = 0
  BY LenProperties, EmptySeq
<1>2. /\ old \in Seq(Codes \union {n + 1}) /\ Waiting(new[at]) = Append(old, n + 1)
      /\ old \in {Waiting(st[at]), << >>} /\ Len(old) \in Nat
  <2>1. st[at].conexit \in Seq(Codes)
    BY ElementOfSeq, FrameOfKind DEF FunctionFrames
  <2>2. old \in Seq(Codes)
    BY <2>1, EmptySeq
  <2>3. old \in Seq(Codes \union {n + 1})
    BY <2>2, SeqMonotonic
  <2> QED BY <2>2, <2>3, LenProperties DEF Waiting
<1>3. /\ Len(Waiting(new[at])) = Len(old) + 1
      /\ \A k \in 1..Len(old) : Waiting(new[at])[k] = old[k]
      /\ Waiting(new[at])[Len(old) + 1] = n + 1
  BY <1>2, AppendProperties
<1>4. ASSUME NEW i, NEW k, NEW x, WaitsAt(new, i, k, x)
      PROVE  WaitsAt(st, i, k, x) \/ (i = at /\ k = Len(old) + 1 /\ x = n + 1)
  <2>1. i \in 1..Len(st) /\ k \in 1..Len(Waiting(new[i])) /\ Waiting(new[i])[k] = x
    BY <1>4 DEF WaitsAt
  <2>2. CASE i = at /\ k = Len(old) + 1
    BY <2>1, <2>2, <1>3
  <2>3. CASE i = at /\ k # Len(old) + 1
    <3>1. k \in 1..Len(old) /\ x = old[k] /\ old = Waiting(st[i])
      BY <2>1, <2>3, <1>1, <1>2, <1>3
    <3>2. k \in 1..Len(Waiting(st[i])) /\ Waiting(st[i])[k] = x
      BY <3>1
    <3> QED BY <3>2, <2>1 DEF WaitsAt
  <2>4. CASE i # at
    <3>1. new[i] = st[i]
      BY <2>1, <2>4
    <3> QED BY <3>1, <2>1 DEF WaitsAt
  <2> QED BY <2>2, <2>3, <2>4
<1>5. \A i, k, x : WaitsAt(st, i, k, x) => x \in (1..n) \ r /\ x # n + 1
  BY DEF CodesInv, Unstarted
<1>6. r \subseteq 1..n
  BY DEF CodesInv
<1>7. Unstarted(new, r, n + 1)
  <2>1. n + 1 \notin r /\ 1..n \subseteq 1..n + 1 /\ n + 1 \in 1..n + 1
    BY <1>6
  <2> QED BY <1>4, <1>5, <2>1 DEF Unstarted
<1>8. Distinct(new)
  BY <1>4, <1>5 DEF CodesInv, Distinct
<1>9. Started(new, r)
  BY <1>1 DEF CodesInv, Started
<1> QED BY <1>6, <1>7, <1>8, <1>9 DEF CodesInv

-----------------------------------------------------------------------------
\* Exit code that is being run, and was not, has not been run before.
OnlyNew(st) ==
  \A i \in 1..Len(stack') : stack'[i].kind = "exit" =>
    (i <= Len(st) /\ stack'[i] = st[i]) \/ Head(stack'[i].todo) \notin ran

\* A jump keeps the invariant, if what "from" leaves out has nothing to restore.
LEMMA Jumped ==
  ASSUME NEW st, NEW t, NEW n \in Nat, StackInv(st, t, inError, ran, n), inError \in 0..3,
         NEW from \in 1..Len(st) + 1, NEW target \in 1..Len(st), target < from,
         st[target].kind \in {"toplevel", "function"},
         \A j \in target + 1..Len(st) : st[j].kind # "toplevel",
         \A j \in from..Len(st) : ~Live(st[j]),
         Unwind(st, from, target)
  PROVE  /\ StackInv(stack', t, inError', ran', n) /\ inError' \in 0..3
         /\ R_HandlerStack' \in Saved /\ R_RestartStack' \in Saved
         /\ OnlyNew(st)
<1>1. st \in Seq(Frames) /\ TopOf(st, t) /\ LinksInv(st) /\ CodesInv(st, ran, n)
      /\ CendsInv(st, inError) /\ Len(st) \in Nat
  BY LenProperties DEF StackInv
<1>2. PICK next \in target..from - 1 : Unwound(st, from, target, next)
  BY <1>1, UnwindStep
<1>3. /\ stack' \in Seq(Frames) /\ Len(stack') \in Nat
      /\ \A i \in 1..Len(st) : i <= Len(stack') => Like(st[i], stack'[i])
      /\ next \in 1..Len(st) /\ next <= Len(stack')
      /\ st[next].kind \in {"toplevel", "function"} /\ st[next] \in Frames
  BY <1>1, <1>2, LenProperties, ElementOfSeq DEF Unwound
<1>4. R_HandlerStack' \in Saved /\ R_RestartStack' \in Saved
  <2>1. st[next] \in ToplevelFrames \/ st[next] \in FunctionFrames
    BY <1>3, FrameOfKind
  <2>2. st[next].handlerstack \in Saved /\ st[next].restartstack \in Saved
    BY <2>1 DEF ToplevelFrames, FunctionFrames
  <2> QED BY <2>2, <1>2 DEF Unwound
<1>5. \A i \in 1..Len(st) :
        i <= Len(stack') => Alike(st[i], stack'[i]) /\ SameCode(st[i], stack'[i])
  BY <1>3, LikeIs
<1> DEFINE done == Len(stack') = target /\ ran' = ran /\ next = target
           code == /\ next \in target + 1..from - 1
                   /\ st[next].kind = "function" /\ st[next].conexit # << >>
                   /\ Len(stack') = Len(st) + 1
                   /\ stack'[Len(st) + 1] = Exit(next, target, st[next].conexit)
                   /\ stack'[next].conexit = << >>
                   /\ ran' = ran \union {Head(st[next].conexit)}
<1>6. done \/ code
  BY <1>2 DEF Unwound
<1>7. ASSUME code
      PROVE  LET f == stack'[Len(st) + 1]
             IN  /\ f.kind = "exit" /\ f.of = next /\ f.target = target
                 /\ f.todo = st[next].conexit
  BY <1>7 DEF Exit
<1> HIDE DEF code
<1>8. TopOf(stack', t)
  <2>1. \A i \in 1..Len(st) : IF i <= Len(stack') THEN stack'[i].kind = st[i].kind
                                               ELSE st[i].kind # "toplevel"
    BY <1>1, <1>3, <1>5, <1>6 DEF Alike, code
  <2>2. /\ Len(stack') <= Len(st) + 1
        /\ Len(stack') = Len(st) + 1 => stack'[Len(stack')].kind # "toplevel"
    BY <1>1, <1>6, <1>7 DEF code
  <2> QED BY ONLY <2>1, <2>2, <1>1, <1>3, TopKept
<1>len. Len(stack') <= Len(st) + 1
  BY <1>1, <1>6 DEF code
<1>9. LinksInv(stack')
  <2>1. CASE done
    <3>1. Len(stack') # Len(st) + 1
      BY <2>1, <1>1
    <3> QED BY ONLY <3>1, <1>1, <1>3, <1>5, <1>len, LinksKept
  <2>2. CASE code
    <3>1. LinkAt(st, Len(st) + 1, stack'[Len(st) + 1])
      BY <1>1, <1>7, <2>2 DEF LinkAt, code
    <3>2. Len(stack') = Len(st) + 1
      BY <2>2 DEF code
    <3> QED BY ONLY <3>1, <3>2, <1>1, <1>3, <1>5, <1>len, LinksKept
  <2> QED BY <2>1, <2>2, <1>6
<1>10. CodesInv(stack', ran', n) /\ OnlyNew(st)
  <2>1. CASE done
    <3>1. CodesInv(stack', ran', n)
      <4>1. Len(stack') # Len(st) + 1 /\ ran' = ran
        BY <2>1, <1>1
      <4>2. CodesInv(stack', ran, n)
        BY ONLY <4>1, <1>1, <1>3, <1>5, <1>len, n \in Nat, CodesSame
      <4> QED BY <4>1, <4>2
    <3> QED BY <3>1, <2>1, <1>1, <1>3 DEF OnlyNew, Like
  <2>2. CASE code
    <3> DEFINE to == Len(st) + 1
               w == Waiting(st[next])
    <3>1. /\ w = st[next].conexit /\ w # << >>
          /\ stack'[to].kind = "exit" /\ stack'[to].todo = w
          /\ Waiting(stack'[next]) = << >> /\ ran' = ran \union {Head(w)}
      BY <2>2, <1>7, <1>3 DEF Waiting, Like, code
    <3>2. /\ to \in 1..Len(stack') /\ next # to
          /\ \A i \in 1..Len(stack') : i # to => i <= Len(st) /\ SameCode(st[i], stack'[i])
      BY <2>2, <1>1, <1>3, <1>5, SMTT(30) DEF code
    <3> HIDE DEF to
    <3>3. CodesInv(stack', ran \union {Head(w)}, n) /\ Head(w) \notin ran
      BY ONLY <3>1, <3>2, <1>1, <1>3, <1>len, n \in Nat, CodesStarted DEF w
    <3> HIDE DEF w
    <3>4. OnlyNew(st)
      BY <3>1, <3>2, <3>3, <1>3, SMTT(60) DEF OnlyNew, Like, to
    <3> QED BY <3>1, <3>3, <3>4
  <2> QED BY <2>1, <2>2, <1>6
<1>11. CendsInv(stack', inError') /\ inError' \in 0..3
  <2> DEFINE passed == Passed(st, from, next)
  <2>1. \A i \in 1..Len(st) : i <= Len(stack') /\ st[i].kind = "ccode" =>
          /\ stack'[i].kind = "ccode"
          /\ stack'[i].cend = IF i \in next + 1..from - 1 THEN NoCend ELSE st[i].cend
    BY <1>2, <1>3 DEF Unwound, Like
  <2>2. \A i \in 1..Len(st) : Live(st[i]) => i \in passed \/ i <= next
    BY <1>1, <1>3 DEF Passed
  <2>3. \A i \in 1..next : Live(st[i]) =>
          Live(stack'[i]) /\ stack'[i].cend = st[i].cend /\ i <= Len(stack')
    BY <2>1, <1>1, <1>3 DEF Live
  <2>4. ASSUME NEW i \in 1..Len(stack'), Live(stack'[i])
        PROVE  i \in 1..next /\ Live(st[i]) /\ stack'[i].cend = st[i].cend
    <3>1. i \in 1..Len(st)
      BY <2>4, <1>1, <1>3, <1>6, <1>7 DEF Live, code
    <3>2. st[i].kind = "ccode" /\ i \notin next + 1..from - 1 /\ Live(st[i])
          /\ stack'[i].cend = st[i].cend
      BY <3>1, <2>1, <2>4, <1>3, SMTT(30) DEF Live, Like
    <3> QED BY <3>1, <3>2, <1>1, <1>3
  <2>5. inError' \in 0..3 /\ (inError' # 0 => \E i \in 1..Len(stack') : Live(stack'[i]))
    <3>1. CASE passed = {}
      <4>1. inError' = inError
        BY <3>1, <1>2 DEF Unwound
      <4>2. inError # 0 => \E i \in 1..next : Live(st[i])
        BY <3>1, <2>2, <1>1, <1>3 DEF CendsInv
      <4> QED BY <4>1, <4>2, <2>3
    <3>2. CASE passed # {}
      <4> DEFINE m == Min(passed)
      <4>1. inError' = st[m].cend
        BY <3>2, <1>2 DEF Unwound
      <4>2. m \in passed /\ \A x \in passed : m <= x
        <5>1. passed \in SUBSET Nat
          BY <1>3 DEF Passed
        <5> HIDE DEF passed
        <5> QED BY <5>1, <3>2, MinOf
      <4> HIDE DEF m
      <4>3. m \in next + 1..from - 1 /\ m \in 1..Len(st) /\ Live(st[m]) /\ st[m].cend \in 0..3
        <5>1. m \in next + 1..from - 1 /\ m \in 1..Len(st) /\ Live(st[m])
          BY <4>2, <1>1, <1>3 DEF Passed
        <5>2. st[m] \in CcodeFrames
          BY <5>1, <1>1, ElementOfSeq, FrameOfKind DEF Live
        <5> QED BY <5>1, <5>2 DEF CcodeFrames, Live, NoCend
      <4>4. CASE st[m].cend = 0
        BY <4>1, <4>4
      <4>5. CASE \E j \in 1..m - 1 : Live(st[j])
        <5>1. PICK j \in 1..m - 1 : Live(st[j])
          BY <4>5
        <5>2. j <= next
          BY <5>1, <4>2, <4>3, <2>2
        <5> QED BY <5>1, <5>2, <4>1, <4>3, <2>3
      <4> QED BY <4>3, <4>4, <4>5, <1>1 DEF CendsInv
    <3> QED BY <3>1, <3>2
  <2>6. ASSUME NEW i \in 1..Len(stack'), Live(stack'[i])
        PROVE  stack'[i].cend = 0 \/ \E j \in 1..i - 1 : Live(stack'[j])
    <3>1. i \in 1..next /\ Live(st[i]) /\ stack'[i].cend = st[i].cend
      BY <2>4, <2>6
    <3>2. CASE \E j \in 1..i - 1 : Live(st[j])
      BY <3>1, <3>2, <2>3, <1>3
    <3>3. st[i].cend = 0 \/ \E j \in 1..i - 1 : Live(st[j])
      BY <3>1, <1>1, <1>3 DEF CendsInv
    <3> QED BY <3>1, <3>2, <3>3
  <2>7. ASSUME NEW i \in 1..Len(stack'), stack'[i].kind = "exit", stack'[i].target > 0,
               NEW j \in stack'[i].of + 1..i - 1
        PROVE  ~Live(stack'[j])
    <3>1. CASE i <= Len(st)
      <4>1. /\ i \in 1..Len(st) /\ st[i].kind = "exit" /\ st[i].of = stack'[i].of
            /\ st[i].target = stack'[i].target
        BY <3>1, <2>7, <1>3, <1>5 DEF Alike
      <4>2. ~Live(st[j]) /\ st[i].of \in 1..i - 1
        BY <4>1, <2>7, <1>1 DEF CendsInv, LinksInv, LinkAt
      <4>3. j \in 1..Len(stack')
        <5> DEFINE o == stack'[i].of
        <5>1. j \in o + 1..i - 1 /\ o \in 1..i - 1
          BY <4>1, <4>2
        <5> HIDE DEF o
        <5> QED BY <5>1, <1>3
      <4> QED BY <4>2, <4>3, <2>4
    <3>2. CASE i > Len(st)
      <4>1. i = Len(st) + 1 /\ stack'[i].of = next
        BY <3>2, <1>1, <1>3, <1>6, <1>7 DEF code
      <4>2. j \in 1..Len(stack') /\ j > next
        BY <4>1, <1>1, <1>3
      <4> QED BY <4>2, <2>4
    <3> QED BY <3>1, <3>2, <1>1
  <2> QED BY <2>5, <2>6, <2>7 DEF CendsInv
<1> QED BY <1>3, <1>4, <1>8, <1>9, <1>10, <1>11 DEF StackInv

-----------------------------------------------------------------------------
\* The inductive invariant.
IInv ==
  /\ R_HandlerStack \in Saved /\ R_RestartStack \in Saved
  /\ inError \in 0..3 /\ registered \in 0..MaxExits /\ late \subseteq Codes
  /\ StackInv(stack, R_ToplevelContext, inError, ran, registered)

\* What of the invariant most steps need.
LEMMA Basics ==
  ASSUME IInv
  PROVE  /\ stack \in Seq(Frames) /\ Depth \in Nat /\ DOMAIN stack = 1..Depth
         /\ Depth = Len(stack) /\ Depth \in 1..Depth /\ Top = stack[Depth] /\ Top \in Frames
         /\ \A i \in 1..Depth : stack[i] \in Frames
         /\ TopOf(stack, R_ToplevelContext) /\ R_ToplevelContext \in 1..Depth
         /\ Top.kind # "toplevel" => R_ToplevelContext < Depth
         /\ LinksInv(stack) /\ CodesInv(stack, ran, registered) /\ CendsInv(stack, inError)
         /\ LinkAt(stack, Depth, Top)
         /\ registered \in Nat /\ MaxExits \in Nat /\ MaxDepth \in Nat
<1>1. /\ stack \in Seq(Frames) /\ TopOf(stack, R_ToplevelContext)
      /\ LinksInv(stack) /\ CodesInv(stack, ran, registered) /\ CendsInv(stack, inError)
  BY DEF IInv, StackInv
<1>2. Len(stack) \in Nat /\ DOMAIN stack = 1..Len(stack)
  BY <1>1, LenProperties
<1>3. /\ R_ToplevelContext \in 1..Len(stack) /\ stack[R_ToplevelContext].kind = "toplevel"
      /\ Len(stack) \in 1..Len(stack)
  BY <1>1, <1>2 DEF TopOf
<1>4. \A i \in 1..Len(stack) : stack[i] \in Frames
  BY <1>1, ElementOfSeq
<1>5. LinkAt(stack, Len(stack), stack[Len(stack)])
  BY <1>1, <1>3 DEF LinksInv
<1>6. MaxExits \in Nat /\ MaxDepth \in Nat /\ registered \in Nat
  BY ConstantsAssumption DEF IInv
<1>7. stack[Len(stack)].kind # "toplevel" => R_ToplevelContext < Len(stack)
  BY <1>2, <1>3
<1> QED BY <1>1, <1>2, <1>3, <1>4, <1>5, <1>6, <1>7 DEF Depth, Top

\* The loop of C code on top is left, or a function.
LEMMA FrontInv ==
  ASSUME IInv, Top.kind \notin {"toplevel", "ccode"}
  PROVE  /\ StackInv(Front(stack), R_ToplevelContext, inError, ran, registered)
         /\ Front(stack) \in Seq(Frames) /\ Len(Front(stack)) = Depth - 1
         /\ \A i \in 1..Depth - 1 : Front(stack)[i] = stack[i]
<1> DEFINE new == Front(stack)
<1>1. /\ stack \in Seq(Frames) /\ Depth \in Nat /\ Depth = Len(stack) /\ Depth > 1
      /\ \A i \in 1..Depth : stack[i] \in Frames
      /\ registered \in Nat
  BY Basics
<1>2. /\ new \in Seq(Frames) /\ Len(new) = Depth - 1 /\ \A i \in 1..Depth - 1 : new[i] = stack[i]
  <2>1. new = SubSeq(stack, 1, Depth - 1)
    BY <1>1 DEF Front
  <2> HIDE DEF new
  <2> QED BY <1>1, <2>1, SubSeqProperties
<1> HIDE DEF new
<1>3. \A i \in 1..Len(stack) : IF i <= Len(new)
                               THEN /\ Like(stack[i], new[i])
                                    /\ stack[i].kind = "ccode" => new[i].cend = stack[i].cend
                               ELSE ~Live(stack[i]) /\ stack[i].kind # "toplevel"
  BY <1>1, <1>2 DEF Like, Live, Top
<1>4. StackInv(new, R_ToplevelContext, inError, ran, registered)
  <2>1. StackInv(stack, R_ToplevelContext, inError, ran, registered)
    BY DEF IInv
  <2>2. Len(new) <= Len(stack) + 1 /\ Len(new) # Len(stack) + 1
    BY <1>1, <1>2
  <2> QED BY ONLY <2>1, <2>2, <1>1, <1>2, <1>3, ChangedInv
<1> QED BY <1>2, <1>4 DEF new

\* ChangedInv, as it is used for a step.
LEMMA StackKept ==
  ASSUME IInv, stack' \in Seq(Frames), Len(stack') <= Len(stack) + 1,
         \A i \in 1..Len(stack) : IF i <= Len(stack')
                               THEN /\ Like(stack[i], stack'[i])
                                    /\ stack[i].kind = "ccode" => stack'[i].cend = stack[i].cend
                               ELSE ~Live(stack[i]) /\ stack[i].kind # "toplevel",
         Len(stack') = Len(stack) + 1 =>
           /\ stack'[Len(stack')].kind \in {"function", "signal", "option"}
           /\ Waiting(stack'[Len(stack')]) = << >>,
         UNCHANGED <<R_ToplevelContext, inError, ran, registered>>
  PROVE  /\ StackInv(stack, R_ToplevelContext, inError, ran, registered)'
         /\ OnlyNew(stack)
<1>1. StackInv(stack, R_ToplevelContext, inError, ran, registered) /\ registered \in Nat
  BY Basics DEF IInv
<1>2. StackInv(stack', R_ToplevelContext, inError, ran, registered)
  BY <1>1, ChangedInv
<1>3. OnlyNew(stack)
  <2>1. Len(stack) \in Nat /\ Len(stack') \in Nat
    BY Basics, LenProperties
  <2> QED BY <2>1 DEF OnlyNew, Like
<1> QED BY <1>2, <1>3 DEF StackInv, CodesInv, Unstarted, Started, Distinct

-----------------------------------------------------------------------------
\* A step keeps what there is of the invariant but for "registered" and "late".
KeepsInv ==
  /\ StackInv(stack, R_ToplevelContext, inError, ran, registered)' /\ OnlyNew(stack)
  /\ inError' \in 0..3 /\ R_HandlerStack' \in Saved /\ R_RestartStack' \in Saved

\* StackInv of the next state's variables is StackInv in the next state.
LEMMA StackInvNext ==
  ASSUME StackInv(stack', R_ToplevelContext', inError', ran', registered')
  PROVE  StackInv(stack, R_ToplevelContext, inError, ran, registered)'
BY DEF StackInv, CodesInv, Started, Unstarted, Distinct

\* A function or a loop of C code is put on the stack.
LEMMA Pushed ==
  ASSUME IInv, NEW f \in Frames, f.kind \in {"function", "signal", "option"},
         Waiting(f) = << >>, stack' = Append(stack, f),
         UNCHANGED <<R_ToplevelContext, inError, ran, registered>>
  PROVE  StackInv(stack, R_ToplevelContext, inError, ran, registered)' /\ OnlyNew(stack)
<1>1. stack \in Seq(Frames) /\ Len(stack) \in Nat
  BY Basics
<1>2. /\ stack' \in Seq(Frames) /\ Len(stack') = Len(stack) + 1
      /\ \A i \in 1..Len(stack) : stack'[i] = stack[i]
      /\ stack'[Len(stack) + 1] = f
  BY <1>1, AppendProperties
<1>3. \A i \in 1..Len(stack) : IF i <= Len(stack')
                               THEN /\ Like(stack[i], stack'[i])
                                    /\ stack[i].kind = "ccode" => stack'[i].cend = stack[i].cend
                               ELSE ~Live(stack[i]) /\ stack[i].kind # "toplevel"
  BY <1>1, <1>2 DEF Like
<1>4. Len(stack') <= Len(stack) + 1
  BY <1>1, <1>2
<1> QED BY <1>2, <1>3, <1>4, StackKept

\* A jump from the top of the stack.
LEMMA JumpedHere ==
  ASSUME IInv, NEW target \in 1..Depth, stack[target].kind \in {"toplevel", "function"},
         \A j \in target + 1..Depth : stack[j].kind # "toplevel",
         Unwind(stack, Depth + 1, target), UNCHANGED <<R_ToplevelContext, registered>>
  PROVE  KeepsInv
<1>1. /\ StackInv(stack, R_ToplevelContext, inError, ran, registered) /\ inError \in 0..3
      /\ Depth \in Nat /\ Depth = Len(stack) /\ registered \in Nat
  BY Basics DEF IInv
<1>2. /\ Depth + 1 \in 1..Len(stack) + 1 /\ target \in 1..Len(stack) /\ target < Depth + 1
      /\ \A j \in target + 1..Len(stack) : stack[j].kind # "toplevel"
      /\ \A j \in Depth + 1..Len(stack) : ~Live(stack[j])
  BY <1>1
<1>3. /\ StackInv(stack', R_ToplevelContext, inError', ran', registered) /\ inError' \in 0..3
      /\ R_HandlerStack' \in Saved /\ R_RestartStack' \in Saved /\ OnlyNew(stack)
  BY <1>1, <1>2, Jumped
<1> QED BY <1>3 DEF KeepsInv, StackInv, CodesInv, Unstarted, Started, Distinct

\* Frames that are put on the stack have their types.
LEMMA SignallingFrame ==
  ASSUME NEW error \in BOOLEAN, NEW hs \in Saved, R_HandlerStack \in Saved
  PROVE  LET f == [Signalling(error) EXCEPT !.oldstack = hs]
         IN  f \in Frames /\ f.kind = "signal" /\ Waiting(f) = << >>
<1> DEFINE f == [Signalling(error) EXCEPT !.oldstack = hs]
<1>1. f \in SignalFrames
  BY DEF Signalling, SignalFrames, Saved
<1>2. f.kind = "signal"
  BY <1>1 DEF SignalFrames
<1> QED BY <1>1, <1>2 DEF Frames, Waiting

\* findcontext jumps, or raises an error.
LEMMA Found ==
  ASSUME IInv, NEW env, NEW hs \in Saved, NEW rs \in Saved, FindContext(env, hs, rs),
         UNCHANGED <<R_ToplevelContext, registered>>
  PROVE  KeepsInv
<1> DEFINE found == {i \in InReach : stack[i].kind = "function" /\ stack[i].env = env}
<1>1. stack \in Seq(Frames) /\ Depth \in Nat /\ DOMAIN stack = 1..Depth /\ Depth = Len(stack)
      /\ R_HandlerStack \in Saved /\ inError \in 0..3
  BY Basics DEF IInv
<1>2. CASE found # {}
  <2>1. found \in SUBSET (0..Depth)
    BY <1>1 DEF InReach
  <2>2. Max(found) \in found
    <3> HIDE DEF found
    <3> QED BY <2>1, <1>1, <1>2, MaxOf
  <2>3. Unwind(stack, Depth + 1, Max(found))
    BY <1>2 DEF FindContext
  <2> DEFINE target == Max(found)
  <2>4. /\ target \in 1..Depth /\ stack[target].kind = "function"
        /\ \A j \in target..Depth : stack[j].kind # "toplevel"
    BY <2>2, <1>1 DEF InReach
  <2> HIDE DEF target
  <2>5. \A j \in target + 1..Depth : stack[j].kind # "toplevel"
    BY <2>4, <1>1
  <2>6. Unwind(stack, Depth + 1, target)
    BY <2>3 DEF target
  <2> QED BY <2>4, <2>5, <2>6, JumpedHere
<1>3. CASE found = {}
  <2> DEFINE f == [Signalling(TRUE) EXCEPT !.oldstack = hs]
  <2>1. /\ stack' = Append(stack, f)
        /\ R_HandlerStack' = hs /\ R_RestartStack' = rs /\ UNCHANGED <<inError, ran>>
    BY <1>3 DEF FindContext
  <2>2. f \in Frames /\ f.kind = "signal" /\ Waiting(f) = << >>
    BY <1>1, SignallingFrame
  <2> HIDE DEF f
  <2>3. StackInv(stack, R_ToplevelContext, inError, ran, registered)' /\ OnlyNew(stack)
    BY <2>1, <2>2, Pushed
  <2> QED BY <2>1, <2>3, <1>1 DEF KeepsInv
<1> QED BY <1>2, <1>3

\* The environment and the frame of a new function have their types.
LEMMA NewEnvType ==
  ASSUME IInv, Free # {}
  PROVE  NewEnv \in Envs
<1>1. Free \subseteq Envs /\ Envs \subseteq Nat
  BY Basics DEF Free, Envs
<1>2. Min(Free) \in Free
  BY <1>1, MinOf
<1> QED BY <1>1, <1>2 DEF NewEnv

LEMMA FunctionFrame ==
  ASSUME IInv, Free # {}, NEW hs \in Saved
  PROVE  LET f == Function(NewEnv, hs)
         IN  f \in Frames /\ f.kind = "function" /\ Waiting(f) = << >>
<1> DEFINE f == Function(NewEnv, hs)
<1>1. NewEnv \in Envs /\ << >> \in Seq(Codes) /\ R_RestartStack \in Saved
  BY NewEnvType, EmptySeq DEF IInv
<1>2. f \in FunctionFrames /\ f.kind = "function" /\ f.conexit = << >>
  BY <1>1 DEF Function, FunctionFrames
<1> QED BY <1>2 DEF Frames, Waiting

\* The entries after one of a stack of handlers or restarts.
LEMMA AtEnd ==
  ASSUME NEW s \in Saved, NEW i \in DOMAIN s
  PROVE  /\ s[i] \in Entries /\ SubSeq(s, i + 1, Len(s)) \in Saved
<1>1. Len(s) \in Nat /\ i \in 1..Len(s)
  BY LenProperties DEF Saved
<1>2. \A j \in 1..Len(s) : s[j] \in Entries
  BY ElementOfSeq DEF Saved
<1> QED BY <1>1, <1>2, SubSeqProperties DEF Saved

-----------------------------------------------------------------------------
\* The actions, one by one.
LEMMA CallKeeps ==
  ASSUME IInv, Call
  PROVE  KeepsInv
<1> DEFINE f == Function(NewEnv, R_HandlerStack)
<1>1. /\ stack' = Append(stack, f) /\ Free # {}
      /\ UNCHANGED <<R_HandlerStack, R_RestartStack, R_ToplevelContext, inError, ran, registered>>
  BY DEF Call, handlers, exitcodes
<1>2. f \in Frames /\ f.kind = "function" /\ Waiting(f) = << >>
  BY <1>1, FunctionFrame DEF IInv
<1> HIDE DEF f
<1> QED BY <1>1, <1>2, Pushed DEF KeepsInv, IInv

LEMMA SignalKeeps ==
  ASSUME IInv, Signal
  PROVE  KeepsInv
<1>1. PICK error \in BOOLEAN : stack' = Append(stack, Signalling(error))
  BY DEF Signal
<1>2. UNCHANGED <<R_HandlerStack, R_RestartStack, R_ToplevelContext, inError, ran, registered>>
  BY DEF Signal, handlers, exitcodes
<1>3. Signalling(error) \in Frames /\ Signalling(error).kind = "signal"
      /\ Waiting(Signalling(error)) = << >>
  BY DEF Signalling, Frames, SignalFrames, Waiting, IInv
<1> QED BY <1>1, <1>2, <1>3, Pushed DEF KeepsInv, IInv

LEMMA OnExitKeeps ==
  ASSUME IInv, OnExit
  PROVE  KeepsInv /\ registered' \in 0..MaxExits /\ late' \subseteq Codes
<1> DEFINE of == IF Top.kind = "exit" THEN Top.of ELSE Depth
<1>1. /\ stack \in Seq(Frames) /\ Depth \in Nat /\ Depth = Len(stack) /\ Depth \in 1..Depth
      /\ TopOf(stack, R_ToplevelContext) /\ LinksInv(stack) /\ CodesInv(stack, ran, registered)
      /\ CendsInv(stack, inError) /\ LinkAt(stack, Depth, Top) /\ registered \in Nat
      /\ MaxExits \in Nat /\ Top = stack[Depth]
  BY Basics
<1>2. /\ registered < MaxExits /\ registered' = registered + 1
      /\ UNCHANGED <<R_HandlerStack, R_RestartStack, R_ToplevelContext, inError, ran>>
      /\ Evaluating /\ CodeEnv # 0
      /\ late' = IF Top.kind = "exit" THEN late \union {registered'} ELSE late
  BY DEF OnExit, handlers
<1>3. of \in 1..Depth /\ stack[of].kind = "function"
  BY <1>1, <1>2 DEF LinkAt, CodeEnv, Evaluating
<1>4. PICK old \in {stack[of].conexit, << >>} :
        stack' = [stack EXCEPT ![of].conexit = Append(old, registered + 1)]
  BY DEF OnExit
<1> HIDE DEF of
<1> DEFINE f == stack[of]
           g == [f EXCEPT !.conexit = Append(old, registered + 1)]
<1>5. f \in FunctionFrames
  BY <1>1, <1>3, ElementOfSeq, FrameOfKind
<1>6. Append(old, registered + 1) \in Seq(Codes) /\ registered + 1 \in Codes
  <2>1. f.conexit \in Seq(Codes) /\ << >> \in Seq(Codes)
    BY <1>5, EmptySeq DEF FunctionFrames
  <2>2. registered + 1 \in Codes
    BY <1>1, <1>2 DEF Codes
  <2> QED BY <2>1, <2>2, AppendProperties
<1>7. g \in FunctionFrames /\ g.kind = "function" /\ g.conexit = Append(old, registered + 1)
  BY <1>5, <1>6 DEF FunctionFrames
<1>8. stack' = [stack EXCEPT ![of] = g]
  BY <1>4
<1> HIDE DEF f, g
<1>9. /\ stack' \in Seq(Frames) /\ Len(stack') = Len(stack)
      /\ \A i \in 1..Len(stack) : stack'[i] = IF i = of THEN g ELSE stack[i]
  <2>1. g \in Frames
    BY <1>7 DEF Frames
  <2> QED BY <2>1, <1>1, <1>3, <1>8, ExceptSeq
<1>10. \A i \in 1..Len(stack) :
         /\ Alike(stack[i], stack'[i]) /\ (i # of => stack'[i] = stack[i])
         /\ stack[i].kind = "ccode" => stack'[i].cend = stack[i].cend
  BY <1>3, <1>7, <1>9 DEF Alike
<1>11. Len(stack') <= Len(stack) + 1 /\ Len(stack') # Len(stack) + 1
  BY <1>1, <1>9
<1>12. TopOf(stack', R_ToplevelContext)
  <2>1. \A i \in 1..Len(stack) : IF i <= Len(stack') THEN stack'[i].kind = stack[i].kind
                                                   ELSE stack[i].kind # "toplevel"
    BY <1>1, <1>9, <1>10 DEF Alike
  <2> QED BY ONLY <2>1, <1>1, <1>9, <1>11, TopKept
<1>13. LinksInv(stack')
  BY ONLY <1>1, <1>9, <1>10, <1>11, LinksKept
<1>14. CendsInv(stack', inError)
  <2>1. \A i \in 1..Len(stack) : i <= Len(stack')
    BY <1>1, <1>9
  <2> QED BY ONLY <2>1, <1>1, <1>9, <1>10, <1>11, CendsKept
<1>15. CodesInv(stack', ran, registered + 1)
  <2>1. stack'[of].kind = "function" /\ stack'[of].conexit = Append(old, registered + 1)
    BY <1>1, <1>3, <1>7, <1>9
  <2>2. of \in 1..Len(stack)
    BY <1>1, <1>3
  <2>3. /\ stack \in Seq(Frames) /\ stack' \in Seq(Frames) /\ registered \in Nat
        /\ CodesInv(stack, ran, registered) /\ Len(stack') = Len(stack)
        /\ stack[of].kind = "function" /\ old \in {stack[of].conexit, << >>}
        /\ \A i \in 1..Len(stack) : i # of => stack'[i] = stack[i]
    BY <1>1, <1>3, <1>9, <1>10
  <2> QED BY ONLY <2>1, <2>2, <2>3, CodesAdded
<1>16. OnlyNew(stack)
  <2>1. \A i \in 1..Len(stack') : stack'[i].kind = "exit" => i # of /\ i <= Len(stack)
    BY <1>1, <1>7, <1>9
  <2> QED BY <2>1, <1>1, <1>9, <1>10 DEF OnlyNew
<1>17. StackInv(stack, R_ToplevelContext, inError, ran, registered)'
  BY <1>2, <1>9, <1>12, <1>13, <1>14, <1>15 DEF StackInv
<1>18. registered' \in 0..MaxExits /\ late' \subseteq Codes
  BY <1>1, <1>2, <1>6 DEF IInv
<1> QED BY <1>2, <1>16, <1>17, <1>18 DEF KeepsInv, IInv

LEMMA EntriesKeep ==
  ASSUME IInv, AddCondHands \/ AddRestart
  PROVE  KeepsInv
<1>1. \E calling \in BOOLEAN : [env |-> CodeEnv, calling |-> calling] \in Entries
  <2>1. Top \in FunctionFrames
    BY Basics, FrameOfKind DEF AddCondHands, AddRestart
  <2> QED BY <2>1 DEF CodeEnv, FunctionFrames, Entries
<1>2. ASSUME NEW calling \in BOOLEAN, NEW s \in Saved
      PROVE  << [env |-> CodeEnv, calling |-> calling] >> \o s \in Saved
  <2>1. [env |-> CodeEnv, calling |-> calling] \in Entries
    BY <1>1 DEF Entries
  <2>2. << [env |-> CodeEnv, calling |-> calling] >> \in Seq(Entries)
    BY <2>1
  <2> QED BY <2>2, ConcatProperties DEF Saved
<1>3. R_HandlerStack' \in Saved /\ R_RestartStack' \in Saved
  BY <1>2, FALSE \in BOOLEAN DEF AddCondHands, AddRestart, IInv
<1>4. UNCHANGED <<stack, R_ToplevelContext, inError, ran, registered>>
  BY DEF AddCondHands, AddRestart, exitcodes
<1>5. OnlyNew(stack)
  BY <1>4, Basics DEF OnlyNew
<1>6. StackInv(stack, R_ToplevelContext, inError, ran, registered)'
  BY <1>4 DEF IInv, StackInv, CodesInv, Started, Unstarted, Distinct
<1> QED BY <1>3, <1>4, <1>5, <1>6 DEF KeepsInv, IInv

LEMMA JumpsKeep ==
  ASSUME IInv, InvokeRestart \/ ReturnFrom \/ GotoExitingHandler
  PROVE  KeepsInv
<1>1. R_HandlerStack \in Saved /\ R_RestartStack \in Saved
  BY DEF IInv
<1>2. UNCHANGED <<R_ToplevelContext, registered>>
  BY DEF InvokeRestart, ReturnFrom, GotoExitingHandler
<1>3. CASE InvokeRestart
  <2>1. PICK i \in DOMAIN R_RestartStack :
          FindContext(R_RestartStack[i].env, R_HandlerStack,
                      SubSeq(R_RestartStack, i + 1, Len(R_RestartStack)))
    BY <1>3 DEF InvokeRestart
  <2> QED BY <2>1, <1>1, <1>2, AtEnd, Found
<1>4. CASE ReturnFrom
  <2>1. PICK i \in DOMAIN stack : FindContext(stack[i].env, R_HandlerStack, R_RestartStack)
    BY <1>4 DEF ReturnFrom
  <2> QED BY <2>1, <1>1, <1>2, Found
<1>5. CASE GotoExitingHandler
  <2>1. PICK i \in DOMAIN R_HandlerStack :
          FindContext(R_HandlerStack[i].env, HandlersFor(i), R_RestartStack)
    BY <1>5 DEF GotoExitingHandler
  <2> QED BY <2>1, <1>1, <1>2, AtEnd, Found DEF HandlersFor
<1> QED BY <1>3, <1>4, <1>5

LEMMA AbortKeeps ==
  ASSUME IInv, Abort
  PROVE  KeepsInv
<1>1. /\ Unwind(stack, Depth + 1, R_ToplevelContext)
      /\ UNCHANGED <<R_ToplevelContext, registered>>
  BY DEF Abort
<1>2. /\ R_ToplevelContext \in 1..Depth /\ stack[R_ToplevelContext].kind = "toplevel"
      /\ \A j \in R_ToplevelContext + 1..Depth : stack[j].kind # "toplevel"
  BY Basics DEF TopOf
<1> QED BY <1>1, <1>2, JumpedHere

LEMMA ToplevelExecKeeps ==
  ASSUME IInv, NEW clears \in BOOLEAN, ToplevelExec(clears)
  PROVE  KeepsInv
<1> DEFINE f == Toplevel(clears)
<1>1. /\ stack \in Seq(Frames) /\ Depth \in Nat /\ Depth = Len(stack)
      /\ TopOf(stack, R_ToplevelContext) /\ LinksInv(stack) /\ CodesInv(stack, ran, registered)
      /\ CendsInv(stack, inError) /\ registered \in Nat
  BY Basics
<1>2. /\ stack' = Append(stack, f) /\ R_HandlerStack' = stack'[Depth + 1].handlerstack
      /\ R_ToplevelContext' = Depth + 1
      /\ UNCHANGED <<R_RestartStack, inError, ran, registered>>
  BY DEF ToplevelExec, exitcodes
<1>3. /\ f \in ToplevelFrames /\ f.kind = "toplevel"
      /\ f.saveToplevelContext = R_ToplevelContext /\ f.handlerstack \in Saved
  <2>1. << >> \in Saved /\ R_HandlerStack \in Saved /\ R_RestartStack \in Saved
        /\ R_ToplevelContext \in Nat
    BY EmptySeq, Basics DEF Saved, IInv
  <2> QED BY <2>1 DEF Toplevel, ToplevelFrames
<1> HIDE DEF f
<1>4. /\ stack' \in Seq(Frames) /\ Len(stack') = Depth + 1
      /\ \A i \in 1..Depth : stack'[i] = stack[i]
      /\ stack'[Depth + 1] = f
  <2>1. f \in Frames
    BY <1>3 DEF Frames
  <2> QED BY <2>1, <1>1, <1>2, AppendProperties
<1>5. \A i \in 1..Len(stack) : /\ Alike(stack[i], stack'[i]) /\ SameCode(stack[i], stack'[i])
                              /\ stack'[i] = stack[i] /\ i <= Len(stack')
  BY <1>1, <1>4 DEF Alike, SameCode
<1>6. /\ Len(stack') <= Len(stack) + 1 /\ stack'[Len(stack')].kind = "toplevel"
      /\ Waiting(stack'[Len(stack')]) = << >> /\ ~Live(stack'[Len(stack')])
  BY <1>1, <1>3, <1>4 DEF Waiting, Live
<1>7. TopOf(stack', R_ToplevelContext')
  BY <1>1, <1>2, <1>3, <1>4 DEF TopOf
<1>8. LinksInv(stack')
  <2>1. LinkAt(stack, Len(stack'), stack'[Len(stack')])
    BY <1>1, <1>3, <1>4 DEF LinkAt, TopOf
  <2> QED BY ONLY <2>1, <1>1, <1>4, <1>5, <1>6, LinksKept
<1>9. CodesInv(stack', ran, registered)
  BY <1>1, <1>4, <1>5, <1>6, CodesSame
<1>10. CendsInv(stack', inError)
  BY <1>1, <1>4, <1>5, <1>6, CendsKept
<1>11. OnlyNew(stack)
  BY <1>1, <1>3, <1>4 DEF OnlyNew
<1>12. StackInv(stack, R_ToplevelContext, inError, ran, registered)'
  BY <1>2, <1>4, <1>7, <1>8, <1>9, <1>10 DEF StackInv
<1> QED BY <1>2, <1>3, <1>4, <1>11, <1>12 DEF KeepsInv, IInv

LEMMA EndToplevelKeeps ==
  ASSUME IInv, EndToplevel
  PROVE  KeepsInv
<1>1. /\ stack \in Seq(Frames) /\ Depth \in Nat /\ Depth = Len(stack)
      /\ LinksInv(stack) /\ CodesInv(stack, ran, registered) /\ CendsInv(stack, inError)
      /\ registered \in Nat /\ LinkAt(stack, Depth, Top) /\ Top \in Frames /\ Top = stack[Depth]
  BY Basics
<1>2. /\ Top.kind = "toplevel" /\ Depth > 1 /\ stack' = Front(stack)
      /\ R_HandlerStack' = Top.oldHStack /\ R_RestartStack' = Top.restartstack
      /\ R_ToplevelContext' = Top.saveToplevelContext /\ UNCHANGED <<inError, ran, registered>>
  BY DEF EndToplevel, exitcodes
<1>3. R_HandlerStack' \in Saved /\ R_RestartStack' \in Saved
  <2>1. Top \in ToplevelFrames
    BY <1>1, <1>2, FrameOfKind
  <2> QED BY <2>1, <1>2 DEF ToplevelFrames
<1>4. /\ stack' \in Seq(Frames) /\ Len(stack') = Depth - 1
      /\ \A i \in 1..Depth - 1 : stack'[i] = stack[i]
  <2>1. \A i \in 1..Depth - 1 : stack[i] \in Frames
    BY <1>1, ElementOfSeq
  <2> QED BY <2>1, <1>1, <1>2, SubSeqProperties DEF Front
<1>5. \A i \in 1..Len(stack) : IF i <= Len(stack')
        THEN /\ Alike(stack[i], stack'[i]) /\ SameCode(stack[i], stack'[i])
             /\ stack'[i] = stack[i]
        ELSE ~Live(stack[i])
  BY <1>1, <1>2, <1>4 DEF Alike, SameCode, Live
<1>6. Len(stack') <= Len(stack) + 1 /\ Len(stack') # Len(stack) + 1
  BY <1>1, <1>4
<1>7. TopOf(stack', R_ToplevelContext')
  <2> DEFINE t == Top.saveToplevelContext
  <2>1. /\ t \in 1..Depth - 1 /\ stack[t].kind = "toplevel"
        /\ \A j \in t + 1..Depth - 1 : stack[j].kind # "toplevel"
    BY <1>1, <1>2 DEF LinkAt
  <2> HIDE DEF t
  <2>2. /\ t \in 1..Len(stack') /\ stack'[t].kind = "toplevel"
        /\ \A j \in t + 1..Len(stack') : j \in 1..Depth - 1 /\ stack'[j].kind # "toplevel"
    BY <2>1, <1>1, <1>4, SMTT(30)
  <2>3. TopOf(stack', t)
    BY <2>2 DEF TopOf
  <2> QED BY <2>3, <1>2 DEF t
<1>8. LinksInv(stack')
  BY ONLY <1>1, <1>4, <1>5, <1>6, LinksKept
<1>9. CodesInv(stack', ran, registered)
  BY ONLY <1>1, <1>4, <1>5, <1>6, CodesSame
<1>10. CendsInv(stack', inError)
  BY ONLY <1>1, <1>4, <1>5, <1>6, CendsKept
<1>11. OnlyNew(stack)
  BY <1>1, <1>4 DEF OnlyNew
<1>12. StackInv(stack, R_ToplevelContext, inError, ran, registered)'
  BY <1>2, <1>4, <1>7, <1>8, <1>9, <1>10 DEF StackInv
<1> QED BY <1>2, <1>3, <1>11, <1>12 DEF KeepsInv, IInv

LEMMA CallHandlerKeeps ==
  ASSUME IInv, CallHandler
  PROVE  KeepsInv
<1>1. /\ stack \in Seq(Frames) /\ Depth \in Nat /\ Depth = Len(stack) /\ Depth \in 1..Depth
      /\ Top \in Frames /\ Top = stack[Depth] /\ R_HandlerStack \in Saved
  BY Basics DEF IInv
<1>2. PICK i \in DOMAIN R_HandlerStack :
        /\ stack' = Append([stack EXCEPT ![Depth].entry = R_HandlerStack[i]],
                           Function(NewEnv, HandlersFor(i)))
        /\ R_HandlerStack' = HandlersFor(i)
  BY DEF CallHandler
<1>3. /\ Top.kind = "signal" /\ Free # {}
      /\ UNCHANGED <<R_RestartStack, R_ToplevelContext, inError, ran, registered>>
  BY DEF CallHandler, exitcodes
<1>4. R_HandlerStack[i] \in Entries /\ HandlersFor(i) \in Saved
  BY <1>1, AtEnd DEF HandlersFor
<1> DEFINE f == Function(NewEnv, HandlersFor(i))
           g == [Top EXCEPT !.entry = R_HandlerStack[i]]
           base == [stack EXCEPT ![Depth] = g]
<1>5. f \in Frames /\ f.kind = "function" /\ Waiting(f) = << >>
  BY <1>3, <1>4, FunctionFrame
<1>6. g \in SignalFrames /\ g.kind = "signal"
  <2>1. Top \in SignalFrames
    BY <1>1, <1>3, FrameOfKind
  <2> QED BY <2>1, <1>4 DEF SignalFrames
<1>7. stack' = Append(base, f)
  BY <1>1, <1>2
<1> HIDE DEF f, g
<1>8. /\ base \in Seq(Frames) /\ Len(base) = Depth
      /\ \A j \in 1..Depth : base[j] = IF j = Depth THEN g ELSE stack[j]
  <2>1. g \in Frames
    BY <1>6 DEF Frames
  <2> QED BY <2>1, <1>1, ExceptSeq
<1> HIDE DEF base
<1>9. /\ stack' \in Seq(Frames) /\ Len(stack') = Len(stack) + 1
      /\ \A j \in 1..Len(stack) : stack'[j] = IF j = Depth THEN g ELSE stack[j]
      /\ stack'[Len(stack')] = f
  BY <1>1, <1>5, <1>7, <1>8, AppendProperties
<1>10. \A j \in 1..Len(stack) : IF j <= Len(stack')
                               THEN /\ Like(stack[j], stack'[j])
                                    /\ stack[j].kind = "ccode" => stack'[j].cend = stack[j].cend
                               ELSE ~Live(stack[j]) /\ stack[j].kind # "toplevel"
  BY <1>1, <1>3, <1>6, <1>9 DEF Like
<1>11. Len(stack') <= Len(stack) + 1
  BY <1>1, <1>9
<1>12. StackInv(stack, R_ToplevelContext, inError, ran, registered)' /\ OnlyNew(stack)
  BY <1>3, <1>5, <1>9, <1>10, <1>11, StackKept
<1> QED BY <1>2, <1>3, <1>4, <1>12 DEF KeepsInv, IInv

LEMMA OptionDoneKeeps ==
  ASSUME IInv, OptionDone
  PROVE  KeepsInv
<1>1. /\ Top.kind = "option" /\ Unwind(Front(stack), Depth, R_ToplevelContext)
      /\ UNCHANGED <<R_ToplevelContext, registered>>
  BY DEF OptionDone
<1> DEFINE st == Front(stack)
<1>2. /\ StackInv(st, R_ToplevelContext, inError, ran, registered) /\ inError \in 0..3
      /\ Len(st) = Depth - 1 /\ \A i \in 1..Depth - 1 : st[i] = stack[i]
  BY <1>1, FrontInv DEF IInv
<1>3. Depth \in Nat /\ Depth = Len(stack) /\ registered \in Nat
  BY Basics
<1> HIDE DEF st
<1>4. /\ R_ToplevelContext \in 1..Len(st) /\ st[R_ToplevelContext].kind = "toplevel"
      /\ \A j \in R_ToplevelContext + 1..Len(st) : st[j].kind # "toplevel"
  BY <1>2 DEF StackInv, TopOf
<1>5. /\ Depth \in 1..Len(st) + 1 /\ R_ToplevelContext < Depth
      /\ \A j \in Depth..Len(st) : ~Live(st[j])
  BY <1>2, <1>3, <1>4
<1>6. Unwind(st, Depth, R_ToplevelContext)
  BY <1>1 DEF st
<1>7. /\ StackInv(stack', R_ToplevelContext, inError', ran', registered) /\ inError' \in 0..3
      /\ R_HandlerStack' \in Saved /\ R_RestartStack' \in Saved /\ OnlyNew(st)
  BY <1>2, <1>3, <1>4, <1>5, <1>6, Jumped
<1>8. OnlyNew(stack)
  BY <1>2, <1>3, <1>7 DEF OnlyNew
<1> QED BY <1>1, <1>7, <1>8 DEF KeepsInv, StackInv, CodesInv, Unstarted, Started, Distinct

LEMMA EndFunctionKeeps ==
  ASSUME IInv, EndFunction
  PROVE  KeepsInv
<1>1. /\ stack \in Seq(Frames) /\ Depth \in Nat /\ Depth = Len(stack) /\ Depth \in 1..Depth
      /\ LinksInv(stack) /\ CodesInv(stack, ran, registered) /\ CendsInv(stack, inError)
      /\ TopOf(stack, R_ToplevelContext) /\ registered \in Nat
      /\ Top \in Frames /\ Top = stack[Depth]
  BY Basics
<1>2. /\ Top.kind = "function"
      /\ R_HandlerStack' = Top.handlerstack /\ R_RestartStack' = Top.restartstack
      /\ UNCHANGED <<R_ToplevelContext, inError, registered>>
  BY DEF EndFunction
<1>3. Top \in FunctionFrames
  BY <1>1, <1>2, FrameOfKind
<1>4. R_HandlerStack' \in Saved /\ R_RestartStack' \in Saved
  BY <1>2, <1>3 DEF FunctionFrames
<1>5. CASE Top.conexit = << >>
  <2>1. stack' = Front(stack) /\ UNCHANGED ran
    BY <1>5 DEF EndFunction
  <2>2. /\ StackInv(stack', R_ToplevelContext, inError, ran, registered)
        /\ Len(stack') = Depth - 1 /\ \A i \in 1..Depth - 1 : stack'[i] = stack[i]
    BY <2>1, <1>2, FrontInv
  <2>3. OnlyNew(stack)
    BY <2>2, <1>1 DEF OnlyNew
  <2> QED BY <2>1, <2>2, <2>3, <1>2, <1>4
          DEF KeepsInv, IInv, StackInv, CodesInv, Unstarted, Started, Distinct
<1>6. CASE Top.conexit # << >>
  <2> DEFINE f == Exit(Depth, 0, Top.conexit)
             g == WithoutCode(Top)
             base == [stack EXCEPT ![Depth] = g]
             to == Len(stack) + 1
  <2>1. stack' = Append(base, f) /\ ran' = ran \union {Head(Top.conexit)}
    BY <1>1, <1>6 DEF EndFunction
  <2>2. /\ f \in Frames /\ f.kind = "exit" /\ f.of = Depth /\ f.target = 0
        /\ f.todo = Top.conexit
    BY <1>1, <1>3 DEF Exit, Frames, ExitFrames, FunctionFrames
  <2>3. g \in FunctionFrames /\ g.conexit = << >> /\ Like(Top, g)
    BY <1>3, CodeTaken
  <2> HIDE DEF f, g
  <2>4. /\ base \in Seq(Frames) /\ Len(base) = Depth
        /\ \A j \in 1..Depth : base[j] = IF j = Depth THEN g ELSE stack[j]
    <3>1. g \in Frames
      BY <2>3 DEF Frames
    <3> QED BY <3>1, <1>1, ExceptSeq
  <2> HIDE DEF base
  <2>5. /\ stack' \in Seq(Frames) /\ Len(stack') = Len(stack) + 1
        /\ \A j \in 1..Len(stack) : stack'[j] = IF j = Depth THEN g ELSE stack[j]
        /\ stack'[Len(stack) + 1] = f
    BY <1>1, <2>1, <2>2, <2>4, AppendProperties
  <2>6. \A j \in 1..Len(stack) :
          /\ Like(stack[j], stack'[j]) /\ Alike(stack[j], stack'[j])
          /\ SameCode(stack[j], stack'[j])
          /\ stack[j].kind = "ccode" => stack'[j].cend = stack[j].cend
          /\ stack'[j].kind = stack[j].kind /\ j <= Len(stack')
          /\ stack[j].kind = "exit" => stack'[j] = stack[j]
    <3>1. \A j \in 1..Len(stack) : Like(stack[j], stack'[j])
      BY <1>1, <2>3, <2>5 DEF Like
    <3>2. \A j \in 1..Len(stack) : Alike(stack[j], stack'[j]) /\ SameCode(stack[j], stack'[j])
      BY <3>1, LikeIs
    <3> QED BY <3>1, <3>2, <1>1, <1>2, <2>5 DEF Like
  <2>7. Len(stack') <= Len(stack) + 1 /\ stack'[Len(stack')] = f
    BY <1>1, <2>5
  <2>8. TopOf(stack', R_ToplevelContext)
    BY <1>1, <2>2, <2>5, <2>6, <2>7, TopKept
  <2>9. LinksInv(stack')
    <3>1. LinkAt(stack, Len(stack'), stack'[Len(stack')])
      BY <1>1, <1>2, <2>2, <2>5, <2>7 DEF LinkAt
    <3> QED BY ONLY <3>1, <1>1, <2>5, <2>6, <2>7, LinksKept
  <2>10. CendsInv(stack', inError)
    <3>1. ~Live(stack'[Len(stack')]) /\ stack'[Len(stack')].target = 0
      BY <2>2, <2>7 DEF Live
    <3> QED BY <3>1, <1>1, <2>5, <2>6, <2>7, CendsKept
  <2>11. CodesInv(stack', ran', registered) /\ OnlyNew(stack)
    <3> DEFINE w == Waiting(stack[Depth])
    <3>1. /\ w = Top.conexit /\ w # << >>
          /\ stack'[to].kind = "exit" /\ stack'[to].todo = w
          /\ Waiting(stack'[Depth]) = << >> /\ ran' = ran \union {Head(w)}
      BY <1>1, <1>2, <1>6, <2>1, <2>2, <2>3, <2>5 DEF Waiting, Like
    <3>2. /\ to \in 1..Len(stack') /\ Depth # to /\ Depth \in 1..Len(stack)
          /\ \A i \in 1..Len(stack') : i # to => i <= Len(stack) /\ SameCode(stack[i], stack'[i])
      BY <1>1, <2>5, <2>6
    <3> HIDE DEF to
    <3>3. CodesInv(stack', ran \union {Head(w)}, registered) /\ Head(w) \notin ran
      BY ONLY <3>1, <3>2, <1>1, <2>5, <2>7, CodesStarted DEF w
    <3> HIDE DEF w
    <3>4. OnlyNew(stack)
      BY <3>1, <3>2, <3>3, <1>1, <2>5, <2>6 DEF OnlyNew, to
    <3> QED BY <3>1, <3>3, <3>4
  <2>12. StackInv(stack, R_ToplevelContext, inError, ran, registered)'
    BY <1>2, <2>5, <2>8, <2>9, <2>10, <2>11 DEF StackInv
  <2> QED BY <1>2, <1>4, <2>11, <2>12 DEF KeepsInv, IInv
<1> QED BY <1>5, <1>6

LEMMA ExitDoneKeeps ==
  ASSUME IInv, ExitDone
  PROVE  KeepsInv
<1>1. /\ stack \in Seq(Frames) /\ Depth \in Nat /\ Depth = Len(stack) /\ Depth \in 1..Depth
      /\ LinksInv(stack) /\ CodesInv(stack, ran, registered) /\ CendsInv(stack, inError)
      /\ TopOf(stack, R_ToplevelContext) /\ registered \in Nat
      /\ Top \in Frames /\ Top = stack[Depth] /\ LinkAt(stack, Depth, Top)
      /\ \A i \in 1..Depth : stack[i] \in Frames
  BY Basics
<1>2. Top.kind = "exit" /\ UNCHANGED <<R_ToplevelContext, registered>>
  BY DEF ExitDone
<1>3. /\ Top \in ExitFrames /\ Top.of \in Nat /\ Top.target \in Nat /\ Top.todo \in Seq(Codes)
      /\ Top.todo # << >> /\ Len(Top.todo) \in Nat
      /\ Top.of \in 1..Depth - 1 /\ stack[Top.of].kind = "function"
  <2>1. Top \in ExitFrames
    BY <1>1, <1>2, FrameOfKind
  <2>2. Top.of \in Nat /\ Top.target \in Nat /\ Top.todo \in Seq(Codes)
    BY <2>1 DEF ExitFrames
  <2>3. Top.todo # << >>
    BY <1>1, <1>2 DEF CodesInv, Started
  <2> QED BY <2>1, <2>2, <2>3, <1>1, <1>2, LenProperties DEF LinkAt
<1>4. CASE Len(Top.todo) > 1
  <2> DEFINE g == [Top EXCEPT !.todo = Tail(Top.todo)]
             w == Waiting(stack[Depth])
  <2>1. /\ stack' = [stack EXCEPT ![Depth] = g] /\ ran' = ran \union {Top.todo[2]}
        /\ UNCHANGED <<R_HandlerStack, R_RestartStack, inError>>
    BY <1>1, <1>4 DEF ExitDone, handlers
  <2>2. /\ Tail(Top.todo) \in Seq(Codes) /\ Tail(Top.todo) # << >>
        /\ Head(Tail(Top.todo)) = Top.todo[2]
    <3>1. /\ Tail(Top.todo) \in Seq(Codes) /\ Len(Tail(Top.todo)) = Len(Top.todo) - 1
          /\ \A i \in 1..Len(Top.todo) - 1 : Tail(Top.todo)[i] = Top.todo[i + 1]
      BY <1>3, HeadTailProperties
    <3>2. 1 \in 1..Len(Top.todo) - 1 /\ Tail(Top.todo)[1] = Top.todo[2]
      BY <3>1, <1>3, <1>4
    <3>3. Tail(Top.todo) # << >>
      <4> DEFINE tail == Tail(Top.todo)
      <4>1. Len(<< >>) = 0
        BY EmptySeq
      <4>2. Len(tail) = Len(Top.todo) - 1
        BY <3>1
      <4> HIDE DEF tail
      <4>3. tail # << >>
        BY <4>1, <4>2, <1>3, <1>4
      <4> QED BY <4>3 DEF tail
    <3> QED BY <3>1, <3>2, <3>3
  <2>3. /\ g \in ExitFrames /\ g.kind = "exit" /\ g.of = Top.of /\ g.target = Top.target
        /\ g.todo = Tail(Top.todo)
    BY <1>3, <2>2 DEF ExitFrames
  <2> HIDE DEF g
  <2>4. /\ stack' \in Seq(Frames) /\ Len(stack') = Len(stack)
        /\ \A j \in 1..Len(stack) : stack'[j] = IF j = Depth THEN g ELSE stack[j]
    <3>1. g \in Frames
      BY <2>3 DEF Frames
    <3> QED BY <3>1, <1>1, <2>1, ExceptSeq
  <2>5. \A j \in 1..Len(stack) :
          /\ Alike(stack[j], stack'[j]) /\ stack'[j].kind = stack[j].kind
          /\ stack[j].kind = "ccode" => stack'[j].cend = stack[j].cend
          /\ j <= Len(stack') /\ (j # Depth => stack'[j] = stack[j])
    BY <1>1, <1>2, <2>3, <2>4 DEF Alike
  <2>6. Len(stack') <= Len(stack) + 1 /\ Len(stack') # Len(stack) + 1
    BY <1>1, <2>4
  <2>7. TopOf(stack', R_ToplevelContext)
    BY ONLY <1>1, <2>4, <2>5, <2>6, TopKept
  <2>8. LinksInv(stack')
    BY ONLY <1>1, <2>4, <2>5, <2>6, LinksKept
  <2>9. CendsInv(stack', inError)
    BY ONLY <1>1, <2>4, <2>5, <2>6, CendsKept
  <2>10. CodesInv(stack', ran', registered) /\ Head(w) \notin ran /\ Head(w) = Top.todo[2]
    <3>1. /\ w = Tail(Top.todo) /\ w # << >> /\ Head(w) = Top.todo[2]
          /\ stack'[Depth].kind = "exit" /\ stack'[Depth].todo = w
      BY <1>1, <1>2, <2>2, <2>3, <2>4 DEF Waiting
    <3>2. /\ Depth \in 1..Len(stack') /\ Depth \in 1..Len(stack)
          /\ \A i \in 1..Len(stack') : i # Depth => i <= Len(stack) /\ SameCode(stack[i], stack'[i])
      BY <1>1, <2>4, <2>5 DEF SameCode
    <3>3. CodesInv(stack', ran \union {Head(w)}, registered) /\ Head(w) \notin ran
      BY ONLY <3>1, <3>2, <1>1, <2>4, <2>6, CodesStarted DEF w
    <3> QED BY <3>1, <3>3, <2>1
  <2>11. OnlyNew(stack)
    <3>1. stack'[Depth].todo = Tail(Top.todo)
      BY <1>1, <2>3, <2>4
    <3>2. Head(stack'[Depth].todo) \notin ran
      BY <3>1, <2>2, <2>10
    <3> QED BY <3>2, <1>1, <2>4, <2>5 DEF OnlyNew
  <2>12. StackInv(stack, R_ToplevelContext, inError, ran, registered)'
    BY <1>2, <2>1, <2>4, <2>7, <2>8, <2>9, <2>10 DEF StackInv
  <2> QED BY <2>1, <2>11, <2>12 DEF KeepsInv, IInv
<1>5. CASE Len(Top.todo) <= 1 /\ Top.target = 0
  <2>1. /\ stack' = SubSeq(stack, 1, Depth - 2)
        /\ UNCHANGED <<R_HandlerStack, R_RestartStack, inError, ran>>
    BY <1>3, <1>5 DEF ExitDone, handlers
  <2>2. Top.of = Depth - 1 /\ stack[Depth - 1].kind = "function" /\ Depth - 1 \in 1..Depth
    BY <1>1, <1>2, <1>3, <1>5 DEF LinkAt
  <2>3. /\ stack' \in Seq(Frames) /\ Len(stack') = Depth - 2
        /\ \A i \in 1..Depth - 2 : stack'[i] = stack[i]
    <3>1. \A i \in 1..Depth - 2 : stack[i] \in Frames
      BY <1>1
    <3>2. Depth - 2 \in Nat
      BY <1>1, <2>2
    <3> QED BY <3>1, <3>2, <2>1, SubSeqProperties
  <2>4. \A j \in 1..Len(stack) : IF j <= Len(stack')
                                THEN /\ Like(stack[j], stack'[j])
                                     /\ stack[j].kind = "ccode" => stack'[j].cend = stack[j].cend
                                ELSE ~Live(stack[j]) /\ stack[j].kind # "toplevel"
    BY <1>1, <1>2, <2>2, <2>3 DEF Like, Live
  <2>5. Len(stack') <= Len(stack) + 1 /\ Len(stack') # Len(stack) + 1
    BY <1>1, <2>3
  <2>6. StackInv(stack, R_ToplevelContext, inError, ran, registered)' /\ OnlyNew(stack)
    BY <1>2, <2>1, <2>3, <2>4, <2>5, StackKept
  <2> QED BY <2>1, <2>6 DEF KeepsInv, IInv
<1>6. CASE Len(Top.todo) <= 1 /\ Top.target # 0
  <2> DEFINE st == Front(stack)
             of == Top.of
             target == Top.target
  <2>1. Unwind(st, of, target)
    BY <1>3, <1>6 DEF ExitDone
  <2>2. /\ StackInv(st, R_ToplevelContext, inError, ran, registered) /\ inError \in 0..3
        /\ Len(st) = Depth - 1 /\ \A i \in 1..Depth - 1 : st[i] = stack[i]
    BY <1>2, FrontInv DEF IInv
  <2>3. /\ target \in Nat /\ target > 0 /\ of \in 1..Depth - 1 /\ target < of
        /\ stack[target].kind \in {"toplevel", "function"}
        /\ \A j \in target + 1..Depth - 1 : stack[j].kind # "toplevel"
        /\ stack[of].kind = "function"
    BY <1>1, <1>2, <1>3, <1>6 DEF LinkAt
  <2>4. \A j \in of + 1..Depth - 1 : ~Live(stack[j])
    BY <1>1, <1>2, <2>3 DEF CendsInv
  <2> HIDE DEF st, of, target
  <2>5. /\ of \in 1..Len(st) + 1 /\ target \in 1..Len(st)
        /\ st[target].kind \in {"toplevel", "function"}
        /\ \A j \in target + 1..Len(st) : st[j].kind # "toplevel"
    BY <1>1, <2>2, <2>3
  <2>6. ASSUME NEW j \in of..Len(st)
        PROVE  ~Live(st[j])
    <3>1. st[j] = stack[j] /\ (j = of \/ j \in of + 1..Depth - 1)
      BY <1>1, <2>2, <2>3, SMTT(30)
    <3> QED BY <3>1, <2>3, <2>4 DEF Live
  <2>7. /\ StackInv(stack', R_ToplevelContext, inError', ran', registered) /\ inError' \in 0..3
        /\ R_HandlerStack' \in Saved /\ R_RestartStack' \in Saved /\ OnlyNew(st)
    BY <1>1, <2>1, <2>2, <2>3, <2>5, <2>6, Jumped
  <2>8. OnlyNew(stack)
    BY <1>1, <2>2, <2>7 DEF OnlyNew
  <2> QED BY <1>2, <2>7, <2>8 DEF KeepsInv, StackInv, CodesInv, Unstarted, Started, Distinct
<1> QED BY <1>3, <1>4, <1>5, <1>6

\* The context of the default error handling is put on the stack, for which inError is 3
\* if options("error") is evaluated.
LEMMA CcodePushed ==
  ASSUME NEW st, NEW t, NEW e \in 0..3, NEW r, NEW n \in Nat, StackInv(st, t, e, r, n),
         NEW f, f = [kind |-> "ccode", cend |-> e], NEW new, new = Append(st, f)
  PROVE  /\ StackInv(new, t, e, r, n) /\ StackInv(new, t, 3, r, n) /\ Len(new) = Len(st) + 1
         /\ new[Len(st) + 1] = f /\ \A i \in 1..Len(st) : new[i] = st[i]
<1>1. /\ st \in Seq(Frames) /\ TopOf(st, t) /\ LinksInv(st) /\ CodesInv(st, r, n) /\ CendsInv(st, e)
      /\ Len(st) \in Nat
  BY LenProperties DEF StackInv
<1>2. f \in Frames /\ f.kind = "ccode" /\ f.cend = e /\ Live(f) /\ Waiting(f) = << >>
  BY DEF Frames, CcodeFrames, NoCend, Live, Waiting
<1>3. /\ new \in Seq(Frames) /\ Len(new) = Len(st) + 1 /\ new[Len(st) + 1] = f
      /\ \A i \in 1..Len(st) : new[i] = st[i]
  BY <1>1, <1>2, AppendProperties
<1>4. \A i \in 1..Len(st) : /\ Alike(st[i], new[i]) /\ SameCode(st[i], new[i])
                           /\ i <= Len(new) /\ new[i].kind = st[i].kind
  BY <1>1, <1>3 DEF Alike, SameCode
<1>5. Len(new) <= Len(st) + 1 /\ new[Len(new)] = f
  BY <1>1, <1>3
<1>6. TopOf(new, t)
  BY <1>1, <1>2, <1>3, <1>4, <1>5, TopKept
<1>7. LinksInv(new)
  <2>1. LinkAt(st, Len(new), new[Len(new)])
    BY <1>2, <1>5 DEF LinkAt
  <2> QED BY ONLY <2>1, <1>1, <1>3, <1>4, <1>5, LinksKept
<1>8. CodesInv(new, r, n)
  BY <1>1, <1>2, <1>3, <1>4, <1>5, CodesSame
<1>9. ASSUME NEW i \in 1..Len(new), Live(new[i])
      PROVE  new[i].cend = 0 \/ \E j \in 1..i - 1 : Live(new[j])
  <2>1. CASE i = Len(st) + 1 /\ e = 0
    BY <2>1, <1>2, <1>3
  <2>2. CASE i = Len(st) + 1 /\ e # 0
    <3>1. PICK j \in 1..Len(st) : Live(st[j])
      BY <2>2, <1>1 DEF CendsInv
    <3>2. j \in 1..i - 1 /\ Live(new[j])
      BY <3>1, <2>2, <1>1, <1>3
    <3> QED BY <3>2
  <2>3. CASE i # Len(st) + 1
    <3>1. i \in 1..Len(st) /\ Live(st[i]) /\ new[i] = st[i]
      BY <2>3, <1>1, <1>3, <1>9
    <3>2. \A j \in 1..i - 1 : new[j] = st[j]
      BY <3>1, <1>1, <1>3
    <3>3. st[i].cend = 0 \/ \E j \in 1..i - 1 : Live(st[j])
      BY <3>1, <1>1 DEF CendsInv
    <3> QED BY <3>1, <3>2, <3>3
  <2> QED BY <2>1, <2>2, <2>3
<1>10. \E i \in 1..Len(new) : Live(new[i])
  <2>1. Len(new) \in 1..Len(new) /\ Live(new[Len(new)])
    BY <1>1, <1>2, <1>3
  <2> QED BY <2>1
<1>11. ASSUME NEW i \in 1..Len(new), new[i].kind = "exit", new[i].target > 0,
              NEW j \in new[i].of + 1..i - 1
       PROVE  ~Live(new[j])
  <2>1. i \in 1..Len(st) /\ new[i] = st[i]
    BY <1>11, <1>1, <1>2, <1>3
  <2>2. ~Live(st[j]) /\ st[i].of \in 1..i - 1
    BY <2>1, <1>1, <1>11 DEF CendsInv, LinksInv, LinkAt
  <2>3. j \in 1..Len(st)
    BY <2>1, <2>2, <1>1
  <2> QED BY <2>2, <2>3, <1>3
<1>12. CendsInv(new, e) /\ CendsInv(new, 3)
  BY <1>9, <1>10, <1>11 DEF CendsInv
<1>13. StackInv(new, t, e, r, n) /\ StackInv(new, t, 3, r, n)
  BY <1>3, <1>6, <1>7, <1>8, <1>12 DEF StackInv
<1> QED BY <1>3, <1>13

LEMMA NoHandlerKeeps ==
  ASSUME IInv, NoHandler
  PROVE  KeepsInv
<1>1. /\ stack \in Seq(Frames) /\ Depth \in Nat /\ Depth = Len(stack) /\ Depth \in 1..Depth
      /\ registered \in Nat /\ Top \in Frames /\ Top = stack[Depth]
      /\ inError \in 0..3 /\ R_HandlerStack \in Saved /\ R_RestartStack \in Saved
  BY Basics DEF IInv
<1>2. Top.kind = "signal" /\ UNCHANGED <<R_ToplevelContext, registered>>
  BY DEF NoHandler
<1>3. Top.oldstack \in Saved
  BY <1>1, <1>2, FrameOfKind DEF SignalFrames
<1> DEFINE front == Front(stack)
<1>4. /\ StackInv(front, R_ToplevelContext, inError, ran, registered)
      /\ Len(front) = Depth - 1 /\ \A i \in 1..Depth - 1 : front[i] = stack[i]
  BY <1>2, FrontInv
<1>5. CASE ~Top.error
  <2>1. /\ stack' = front /\ R_HandlerStack' = Top.oldstack
        /\ UNCHANGED <<R_RestartStack, inError, ran>>
    BY <1>5 DEF NoHandler
  <2> HIDE DEF front
  <2>2. OnlyNew(stack)
    BY <2>1, <1>1, <1>4 DEF OnlyNew
  <2>3. StackInv(stack', R_ToplevelContext', inError', ran', registered')
    BY <2>1, <1>2, <1>4
  <2> QED BY <2>1, <2>2, <2>3, <1>1, <1>3, StackInvNext DEF KeepsInv
<1>6. CASE Top.error
  <2> DEFINE c == [kind |-> "ccode", cend |-> inError]
             st == Append(front, c)
  <2>1. IF ErrorOption /\ inError = 0
          THEN /\ stack' = Append(st, Option) /\ inError' = 3
               /\ R_HandlerStack' = Top.oldstack /\ UNCHANGED <<R_RestartStack, ran>>
          ELSE Unwind(st, Len(st) + 1, R_ToplevelContext)
    BY <1>6 DEF NoHandler, Ccode
  <2> HIDE DEF front
  <2>2. /\ StackInv(st, R_ToplevelContext, inError, ran, registered)
        /\ StackInv(st, R_ToplevelContext, 3, ran, registered)
        /\ Len(st) = Depth /\ st[Depth] = c /\ \A i \in 1..Depth - 1 : st[i] = stack[i]
    <3>1. c = [kind |-> "ccode", cend |-> inError] /\ st = Append(front, c)
      OBVIOUS
    <3> HIDE DEF st, c
    <3>2. /\ StackInv(st, R_ToplevelContext, inError, ran, registered)
          /\ StackInv(st, R_ToplevelContext, 3, ran, registered)
          /\ Len(st) = Len(front) + 1 /\ st[Len(front) + 1] = c
          /\ \A i \in 1..Len(front) : st[i] = front[i]
      <4>1. StackInv(front, R_ToplevelContext, inError, ran, registered)
        BY <1>4
      <4>2. inError \in 0..3 /\ registered \in Nat
        BY <1>1
      <4>3. StackInv(st, R_ToplevelContext, inError, ran, registered)
        BY ONLY <3>1, <4>1, <4>2, CcodePushed, ZenonT(60)
      <4>4. StackInv(st, R_ToplevelContext, 3, ran, registered)
        BY ONLY <3>1, <4>1, <4>2, CcodePushed, ZenonT(60)
      <4>5. Len(st) = Len(front) + 1 /\ st[Len(front) + 1] = c
        BY ONLY <3>1, <4>1, <4>2, CcodePushed
      <4>6. \A i \in 1..Len(front) : st[i] = front[i]
        BY ONLY <3>1, <4>1, <4>2, CcodePushed
      <4> QED BY <4>3, <4>4, <4>5, <4>6
    <3> QED BY <3>2, <1>1, <1>4
  <2>3. c.kind = "ccode"
    OBVIOUS
  <2> HIDE DEF c, st
  <2>4. /\ st \in Seq(Frames) /\ TopOf(st, R_ToplevelContext)
    BY <2>2 DEF StackInv
  <2>5. \A i \in 1..Depth : st[i].kind = "exit" => i <= Len(stack) /\ st[i] = stack[i]
    BY <1>1, <2>2, <2>3
  <2>6. CASE ErrorOption /\ inError = 0
    <3>1. /\ stack' = Append(st, Option) /\ inError' = 3
          /\ R_HandlerStack' = Top.oldstack /\ UNCHANGED <<R_RestartStack, ran>>
      BY <2>1, <2>6
    <3>2. Option \in Frames /\ Option.kind = "option" /\ Waiting(Option) = << >>
      BY DEF Option, Frames, OptionFrames, Waiting
    <3>3. /\ stack' \in Seq(Frames) /\ Len(stack') = Len(st) + 1
          /\ \A i \in 1..Len(st) : stack'[i] = st[i]
          /\ stack'[Len(st) + 1] = Option
      BY <3>1, <3>2, <2>4, AppendProperties
    <3>4. \A i \in 1..Len(st) : IF i <= Len(stack')
                               THEN /\ Like(st[i], stack'[i])
                                    /\ st[i].kind = "ccode" => stack'[i].cend = st[i].cend
                               ELSE ~Live(st[i]) /\ st[i].kind # "toplevel"
      BY <1>1, <2>2, <3>3 DEF Like
    <3>5. Len(stack') <= Len(st) + 1 /\ stack'[Len(stack')] = Option
      BY <1>1, <2>2, <3>3
    <3>6. StackInv(stack', R_ToplevelContext, 3, ran, registered)
      <4>1. StackInv(st, R_ToplevelContext, 3, ran, registered) /\ registered \in Nat
        BY <1>1, <2>2
      <4>2. /\ stack'[Len(stack')].kind \in {"function", "signal", "option"}
            /\ Waiting(stack'[Len(stack')]) = << >>
        BY <3>2, <3>5
      <4>3. stack' \in Seq(Frames) /\ Len(stack') <= Len(st) + 1
        BY <3>3, <3>5
      <4> QED BY ONLY <4>1, <4>2, <4>3, <3>4, ChangedInv
    <3>7. OnlyNew(stack)
      BY <1>1, <2>2, <2>5, <3>2, <3>3 DEF OnlyNew
    <3>8. StackInv(stack', R_ToplevelContext', inError', ran', registered')
      BY <3>1, <3>6, <1>2
    <3> QED BY <3>1, <3>7, <3>8, <1>1, <1>3, StackInvNext DEF KeepsInv
  <2>7. CASE ~(ErrorOption /\ inError = 0)
    <3>1. Unwind(st, Len(st) + 1, R_ToplevelContext)
      BY <2>1, <2>7
    <3>2. /\ R_ToplevelContext \in 1..Len(st) /\ st[R_ToplevelContext].kind = "toplevel"
          /\ \A j \in R_ToplevelContext + 1..Len(st) : st[j].kind # "toplevel"
      BY <2>4 DEF TopOf
    <3>3. /\ Len(st) + 1 \in 1..Len(st) + 1 /\ R_ToplevelContext < Len(st) + 1
          /\ \A j \in Len(st) + 1..Len(st) : ~Live(st[j])
      BY <3>2, <2>2, <1>1
    <3>4. /\ StackInv(stack', R_ToplevelContext, inError', ran', registered) /\ inError' \in 0..3
          /\ R_HandlerStack' \in Saved /\ R_RestartStack' \in Saved /\ OnlyNew(st)
      BY <1>1, <2>2, <3>1, <3>2, <3>3, Jumped
    <3>5. OnlyNew(stack)
      BY <1>1, <2>2, <2>5, <3>4 DEF OnlyNew
    <3> QED BY <3>4, <3>5, <1>2 DEF KeepsInv, StackInv, CodesInv, Unstarted, Started, Distinct
  <2> QED BY <2>6, <2>7
<1> QED BY <1>5, <1>6

-----------------------------------------------------------------------------
\* The invariant holds at first and is kept by every step.
LEMMA InitInv ==
  ASSUME Init
  PROVE  IInv
<1>1. << >> \in Saved /\ 1 \in Nat
  BY EmptySeq DEF Saved
<1> DEFINE f == [kind |-> "toplevel", handlerstack |-> << >>, restartstack |-> << >>,
                 left |-> FALSE, oldHStack |-> << >>, saveToplevelContext |-> 1]
<1>2. f \in Frames /\ f.kind = "toplevel" /\ Waiting(f) = << >> /\ ~Live(f)
  BY <1>1 DEF Frames, ToplevelFrames, Waiting, Live
<1>3. stack = << f >>
  BY DEF Init
<1> HIDE DEF f
<1>4. stack \in Seq(Frames) /\ Len(stack) = 1 /\ stack[1] = f
  BY <1>2, <1>3
<1>5. /\ R_ToplevelContext = 1 /\ inError = 0 /\ registered = 0 /\ late = {} /\ ran = {}
      /\ R_HandlerStack = << >> /\ R_RestartStack = << >> /\ MaxExits \in Nat
  BY ConstantsAssumption DEF Init
<1>6. \A i \in 1..Len(stack) : i = 1 /\ stack[i] = f
  BY <1>4
<1>7. TopOf(stack, 1) /\ LinksInv(stack) /\ CendsInv(stack, 0)
  BY <1>2, <1>4, <1>6 DEF TopOf, LinksInv, LinkAt, CendsInv
<1>8. CodesInv(stack, {}, 0)
  <2>1. Len(<< >>) = 0
    BY EmptySeq
  <2> QED BY <2>1, <1>2, <1>6 DEF CodesInv, Started, Unstarted, Distinct, WaitsAt
<1> QED BY <1>1, <1>4, <1>5, <1>7, <1>8 DEF IInv, StackInv

LEMMA NextInv ==
  ASSUME IInv, Next
  PROVE  IInv' /\ OnlyNew(stack)
<1>1. CASE OnExit
  BY <1>1, OnExitKeeps DEF KeepsInv, IInv
<1>2. CASE ~OnExit
  <2>1. KeepsInv
    BY <1>2, CallKeeps, SignalKeeps, EntriesKeep, JumpsKeep, AbortKeeps, ToplevelExecKeeps,
       EndFunctionKeeps, EndToplevelKeeps, ExitDoneKeeps, CallHandlerKeeps, NoHandlerKeeps,
       OptionDoneKeeps DEF Next
  <2>2. UNCHANGED <<registered, late>>
    BY <1>2 DEF Next, Call, AddCondHands, AddRestart, Signal, InvokeRestart, ReturnFrom, Abort,
                ToplevelExec, EndFunction, EndToplevel, ExitDone, CallHandler,
                GotoExitingHandler, NoHandler, OptionDone, exitcodes
  <2> QED BY <2>1, <2>2 DEF KeepsInv, IInv
<1> QED BY <1>1, <1>2

LEMMA Invariance == Spec => []IInv
<1>1. ASSUME IInv, UNCHANGED vars
      PROVE  IInv'
  <2>1. /\ UNCHANGED <<stack, R_HandlerStack, R_RestartStack, R_ToplevelContext, inError>>
        /\ UNCHANGED <<registered, late, ran>>
    BY <1>1 DEF vars, handlers, exitcodes
  <2>2. StackInv(stack', R_ToplevelContext', inError', ran', registered')
    BY <2>1, <1>1 DEF IInv
  <2> QED BY <2>1, <2>2, <1>1, StackInvNext DEF IInv
<1>2. IInv /\ [Next]_vars => IInv'
  BY <1>1, NextInv
<1> QED BY InitInv, <1>2, PTL DEF Spec

\* Every variable keeps its type, and R_ToplevelContext is the innermost top level
\* context, whatever jumps, finalizers and errors there were (R_ToplevelExec, RunFinalizers).
THEOREM TypeCorrect == Spec => []TypeOK
<1>1. ASSUME IInv
      PROVE  TypeOK
  <2>1. /\ stack \in Seq(Frames) /\ DOMAIN stack = 1..Depth /\ Depth \in Nat /\ Depth = Len(stack)
        /\ \A i \in 1..Depth : stack[i] \in Frames
        /\ TopOf(stack, R_ToplevelContext) /\ CodesInv(stack, ran, registered)
    BY <1>1, Basics
  <2>2. stack # << >>
    <3>1. Len(<< >>) = 0
      BY EmptySeq
    <3>2. Len(stack) # 0
      BY <2>1 DEF TopOf
    <3> QED BY <3>1, <3>2
  <2>3. \A i \in DOMAIN stack :
          stack[i].kind \in {"toplevel", "function", "ccode", "signal", "exit", "option"}
    BY <2>1, FrameOfKind
  <2>4. R_ToplevelContext = Max({i \in DOMAIN stack : stack[i].kind = "toplevel"})
    <3> DEFINE S == {i \in DOMAIN stack : stack[i].kind = "toplevel"}
               m == Max(S)
    <3>1. S \in SUBSET (0..Depth) /\ S # {} /\ R_ToplevelContext \in S
      BY <2>1 DEF TopOf
    <3>2. \A x \in S : x <= R_ToplevelContext
      BY <2>1 DEF TopOf
    <3> HIDE DEF S
    <3>3. m \in S /\ \A x \in S : x <= m
      BY <3>1, <2>1, MaxOf
    <3> HIDE DEF m
    <3>4. m \in Nat /\ R_ToplevelContext \in Nat
      BY <3>1, <3>3, <2>1
    <3>5. m = R_ToplevelContext
      BY <3>1, <3>2, <3>3, <3>4
    <3> QED BY <3>5 DEF m, S
  <2> QED BY <2>1, <2>2, <2>3, <2>4, <1>1 DEF TypeOK, IInv, CodesInv, Saved
<1> QED BY <1>1, Invariance, PTL

\* Exit code is not run twice, however often it is jumped out of: R_run_onexits and
\* endcontext take it from the context before they run it.
THEOREM CodeOnce == Spec => ExitOnce
<1>1. ASSUME IInv, [Next]_vars
      PROVE  [\A i \in DOMAIN stack' :
                stack'[i].kind = "exit" /\ (i > Depth \/ stack'[i] # stack[i])
                  => Head(stack'[i].todo) \notin ran]_vars
  <2>1. CASE UNCHANGED vars
    BY <2>1
  <2>2. CASE Next
    <3>1. IInv' /\ OnlyNew(stack)
      BY <1>1, <2>2, NextInv
    <3>2. DOMAIN stack' = 1..Len(stack')
      <4>1. stack' \in Seq(Frames)
        BY <3>1 DEF IInv, StackInv
      <4> QED BY <4>1, LenProperties
    <3>3. Depth = Len(stack) /\ Len(stack) \in Nat /\ Len(stack') \in Nat
      <4>1. stack' \in Seq(Frames)
        BY <3>1 DEF IInv, StackInv
      <4> QED BY <4>1, <1>1, Basics, LenProperties
    <3> QED BY <3>1, <3>2, <3>3 DEF OnlyNew
  <2> QED BY <1>1, <2>1, <2>2
<1> QED BY <1>1, Invariance, PTL DEF Spec, ExitOnce

\* inError is not 0 only while a context that restores it is still to be left
\* (restore_inError, for verrorcall_dflt).
THEOREM ErrorRestored == Spec => []InErrorRestored
<1>1. ASSUME IInv
      PROVE  InErrorRestored
  <2>1. /\ DOMAIN stack = 1..Depth /\ Depth \in Nat /\ Depth = Len(stack)
        /\ CendsInv(stack, inError)
    BY <1>1, Basics
  <2>2. ASSUME inError # 0
        PROVE  \E i \in DOMAIN stack \ Dead : stack[i].kind = "ccode" /\ stack[i].cend # NoCend
    <3>1. PICK i \in 1..Depth : Live(stack[i])
      BY <2>1, <2>2 DEF CendsInv
    <3>2. i \notin Dead
      BY <3>1, <2>1 DEF Dead, CendsInv
    <3> QED BY <3>1, <3>2, <2>1 DEF Live
  <2> QED BY <2>2 DEF InErrorRestored
<1> QED BY <1>1, Invariance, PTL

-----------------------------------------------------------------------------
(* What the frames keep of handlers and restarts, and which of them have   *)
(* been left.                                                              *)

\* The entries, and the handlers, that f will put back, or has called.
EntriesIn(f) ==
  CASE f.kind = "function" -> Range(f.handlerstack) \union Range(f.restartstack)
    [] f.kind = "toplevel" -> Range(f.handlerstack) \union Range(f.restartstack)
                                \union Range(f.oldHStack)
    [] f.kind = "signal"   -> Range(f.oldstack)
    [] OTHER -> {}

HandlersIn(f) ==
  CASE f.kind = "function" -> Range(f.handlerstack)
    [] f.kind = "toplevel" -> Range(f.handlerstack) \union Range(f.oldHStack)
    [] f.kind = "signal"   -> Range(f.oldstack) \union ({f.entry} \ {NoEntry})
    [] OTHER -> {}

\* A jump under way below n has left the frame at j.
Left(st, j, n) ==
  \E k \in 1..n - 1 : st[k].kind = "exit" /\ st[k].target > 0 /\ st[k].of < j /\ j < k

\* So has one, or the function at j only runs its exit code any more; but when exit code
\* has given exit code, what jumps have left may be of use again.
Gone(st, j, n, l) ==
  \E k \in 1..n - 1 : /\ st[k].kind = "exit" /\ st[k].of <= j /\ j < k
                      /\ st[k].target = 0 \/ l = {}

\* There is a function below n with the environment e.
Known(st, n, e, l) ==
  \E j \in 1..n - 1 : st[j].kind = "function" /\ st[j].env = e /\ ~Gone(st, j, n, l)

\* The frame f has called a handler, which is not one of those in H.
Uncalled(f, H) == f.kind = "signal" /\ f.entry # NoEntry => f.entry \notin H

\* Frames keep only entries of functions below them.
ScopeInv(st, l) ==
  \A i \in 1..Len(st) : \A e \in EntriesIn(st[i]) : Known(st, i, e.env, l)

\* Nor do they keep a handler that a frame below them has called.
HandledInv(st) ==
  \A j \in 1..Len(st) : \A i \in 1..j - 1 : ~Left(st, i, j) => Uncalled(st[i], HandlersIn(st[j]))

\* The environment of a function is not that of one below it, nor of a handler that a
\* frame below it has called.
Apart(f, e) ==
  (f.kind = "function" => f.env # e) /\ (f.kind = "signal" => f.entry.env # e)

ApartInv(st) ==
  \A j \in 1..Len(st) : \A i \in 1..j - 1 : st[j].kind = "function" => Apart(st[i], st[j].env)

\* No stack of handlers has a handler twice.
Once(H) == \A i, j \in DOMAIN H : H[i] = H[j] => i = j

OnceIn(f) ==
  /\ f.kind = "function" => Once(f.handlerstack)
  /\ f.kind = "toplevel" => Once(f.handlerstack) /\ Once(f.oldHStack)
  /\ f.kind = "signal" => Once(f.oldstack)

OnceInv(st) == \A i \in 1..Len(st) : OnceIn(st[i])

\* Functions that have been left, or are being left, have no exit code any more but what
\* exit code has given.
OnlyLate(f, l) == f.kind = "function" => Range(f.conexit) \subseteq l

LateInv(st, l) ==
  \A i \in 1..Len(st) : st[i].kind = "exit" =>
    \A j \in st[i].of..i - 1 : OnlyLate(st[j], l)

KeptInv(st, l) ==
  ScopeInv(st, l) /\ HandledInv(st) /\ ApartInv(st) /\ OnceInv(st) /\ LateInv(st, l)

\* The same for the handlers and restarts in use.
NowInv(st, H, R, l) ==
  /\ \A e \in Range(H) \union Range(R) : Known(st, Len(st) + 1, e.env, l)
  /\ \A i \in 1..Len(st) : ~Left(st, i, Len(st) + 1) => Uncalled(st[i], Range(H))
  /\ Once(H)

RInv == KeptInv(stack, late) /\ NowInv(stack, R_HandlerStack, R_RestartStack, late)

\* What all steps leave of a frame f that becomes g, but the top one.
Kept(f, g) ==
  /\ g.kind = f.kind
  /\ f.kind = "function" =>
       g.env = f.env /\ g.handlerstack = f.handlerstack /\ g.restartstack = f.restartstack
  /\ f.kind = "toplevel" =>
       /\ g.handlerstack = f.handlerstack /\ g.restartstack = f.restartstack
       /\ g.oldHStack = f.oldHStack
  /\ f.kind = "signal" => g = f
  /\ f.kind = "exit" => g.of = f.of /\ g.target = f.target

LEMMA LikeKept ==
  ASSUME NEW f, NEW g, Like(f, g), f.kind = "signal" => g = f
  PROVE  Kept(f, g) /\ \A l : OnlyLate(f, l) => OnlyLate(g, l)
<1>1. Kept(f, g)
  BY DEF Like, Kept
<1>2. ASSUME NEW l, OnlyLate(f, l)
      PROVE  OnlyLate(g, l)
  <2>1. CASE f.kind = "function" /\ g.conexit = << >>
    <3>1. Range(g.conexit) = {}
      BY <2>1, EmptySeq DEF Range
    <3> QED BY <3>1 DEF OnlyLate
  <2>2. CASE f.kind = "function" /\ g.conexit = f.conexit
    BY <1>2, <2>2 DEF OnlyLate
  <2> QED BY <2>1, <2>2 DEF OnlyLate, Like
<1> QED BY <1>1, <1>2

LEMMA KeptIs ==
  ASSUME NEW f, NEW g, Kept(f, g)
  PROVE  /\ EntriesIn(g) = EntriesIn(f) /\ HandlersIn(g) = HandlersIn(f)
         /\ \A H : Uncalled(f, H) => Uncalled(g, H)
         /\ \A e : Apart(f, e) => Apart(g, e)
         /\ OnceIn(f) => OnceIn(g)
<1>1. CASE f.kind = "function"
  BY <1>1 DEF Kept, EntriesIn, HandlersIn, Uncalled, Apart, OnceIn
<1>2. CASE f.kind = "toplevel"
  BY <1>2 DEF Kept, EntriesIn, HandlersIn, Uncalled, Apart, OnceIn
<1>3. CASE f.kind = "signal"
  BY <1>3 DEF Kept
<1>4. CASE f.kind \notin {"function", "toplevel", "signal"}
  BY <1>4 DEF Kept, EntriesIn, HandlersIn, Uncalled, Apart, OnceIn
<1> QED BY <1>1, <1>2, <1>3, <1>4

\* Frames at k and above take no function below k from sight, if they are not to run the
\* exit code of one.
LEMMA Onward ==
  ASSUME NEW st, NEW new, NEW l, NEW k \in Nat, NEW n \in Nat, k <= n,
         \A i \in 1..k - 1 : Kept(st[i], new[i]),
         \A i \in k..n - 1 : new[i].kind = "exit" => new[i].of \in Nat /\ k <= new[i].of
  PROVE  /\ \A j \in 1..k - 1 : Left(st, j, k) => Left(new, j, n)
         /\ \A e : Known(st, k, e, l) => Known(new, n, e, l)
<1>1. ASSUME NEW i \in 1..k - 1
      PROVE  /\ new[i].kind = st[i].kind
             /\ (st[i].kind = "function" => new[i].env = st[i].env)
             /\ (st[i].kind = "exit" => new[i].of = st[i].of /\ new[i].target = st[i].target)
  <2>1. Kept(st[i], new[i])
    OBVIOUS
  <2> QED BY <2>1 DEF Kept
<1>2. \A i \in 1..k - 1 : i \in 1..n - 1
  OBVIOUS
<1>3. ASSUME NEW j \in 1..k - 1, Left(st, j, k)
      PROVE  Left(new, j, n)
  <2>1. PICK i \in 1..k - 1 : /\ st[i].kind = "exit" /\ st[i].target > 0
                              /\ st[i].of < j /\ j < i
    BY <1>3 DEF Left
  <2>2. /\ new[i].kind = "exit" /\ new[i].target = st[i].target /\ new[i].of = st[i].of
        /\ i \in 1..n - 1
    BY <1>1, <1>2, <2>1
  <2>3. new[i].target > 0 /\ new[i].of < j /\ j < i
    BY <2>1, <2>2
  <2> QED BY <2>2, <2>3 DEF Left
<1>4. ASSUME NEW j \in 1..k - 1, Gone(new, j, n, l)
      PROVE  Gone(st, j, k, l)
  <2>1. PICK i \in 1..n - 1 : /\ new[i].kind = "exit" /\ new[i].of <= j /\ j < i
                              /\ new[i].target = 0 \/ l = {}
    BY <1>4 DEF Gone
  <2>2. i \in 1..k - 1
    BY <2>1
  <2>3. st[i].kind = "exit" /\ new[i].of = st[i].of /\ new[i].target = st[i].target
    BY <1>1, <2>1, <2>2
  <2>4. st[i].of <= j /\ j < i /\ (st[i].target = 0 \/ l = {})
    BY <2>1, <2>3
  <2> QED BY <2>2, <2>3, <2>4 DEF Gone
<1>5. ASSUME NEW e, Known(st, k, e, l)
      PROVE  Known(new, n, e, l)
  <2>1. PICK j \in 1..k - 1 : st[j].kind = "function" /\ st[j].env = e /\ ~Gone(st, j, k, l)
    BY <1>5 DEF Known
  <2>2. new[j].kind = "function" /\ new[j].env = e
    BY <1>1, <2>1
  <2>3. j \in 1..n - 1 /\ ~Gone(new, j, n, l)
    BY <1>2, <1>4, <2>1
  <2> QED BY <2>2, <2>3 DEF Known
<1> QED BY <1>3, <1>5

\* The other way: what is known at n is known at k if there is no function in between.
LEMMA Downward ==
  ASSUME NEW st, NEW l, NEW k \in Nat, NEW n \in Nat, k <= n
  PROVE  /\ \A j \in 1..k - 1 : Left(st, j, k) => Left(st, j, n)
         /\ \A e : (\A i \in k..n - 1 : st[i].kind # "function" \/ Gone(st, i, n, l))
                      /\ Known(st, n, e, l) => Known(st, k, e, l)
<1>1. ASSUME NEW j \in 1..k - 1, Left(st, j, k)
      PROVE  Left(st, j, n)
  BY <1>1 DEF Left
<1>2. ASSUME NEW e, \A i \in k..n - 1 : st[i].kind # "function" \/ Gone(st, i, n, l),
             Known(st, n, e, l)
      PROVE  Known(st, k, e, l)
  <2>1. PICK j \in 1..n - 1 : st[j].kind = "function" /\ st[j].env = e /\ ~Gone(st, j, n, l)
    BY <1>2 DEF Known
  <2>2. j \in 1..k - 1
    BY <1>2, <2>1
  <2>3. ~Gone(st, j, k, l)
    BY <2>1 DEF Gone
  <2> QED BY <2>1, <2>2, <2>3 DEF Known
<1> QED BY <1>1, <1>2

\* Known with less of late is known with more.
LEMMA KnownLater ==
  ASSUME NEW st, NEW n, NEW e, NEW l, NEW m, l \subseteq m, Known(st, n, e, l)
  PROVE  Known(st, n, e, m)
BY DEF Known, Gone

\* What the frame f put on top of st, which becomes new, must be like.
TopInv(st, new, f, l) ==
  /\ \A e \in EntriesIn(f) : Known(st, Len(st) + 1, e.env, l)
  /\ \A i \in 1..Len(st) : ~Left(st, i, Len(st) + 1) => Uncalled(st[i], HandlersIn(f))
  /\ f.kind = "function" => \A i \in 1..Len(st) : Apart(st[i], f.env)
  /\ OnceIn(f)
  /\ f.kind = "exit" => \A j \in f.of..Len(st) : OnlyLate(new[j], l)

LEMMA FramesKept ==
  ASSUME NEW st \in Seq(Frames), NEW new \in Seq(Frames), NEW l, NEW m, l \subseteq m,
         KeptInv(st, l), LinksInv(st), Len(new) <= Len(st) + 1,
         \A i \in 1..Len(st) : i <= Len(new) => Kept(st[i], new[i]),
         \A i \in 1..Len(st) : i < Len(new) /\ OnlyLate(st[i], l) => OnlyLate(new[i], m),
         Len(new) = Len(st) + 1 => TopInv(st, new, new[Len(st) + 1], m)
  PROVE  KeptInv(new, m)
<1>1. Len(st) \in Nat /\ Len(new) \in Nat
  BY LenProperties
<1>2. \A i \in 1..Len(new) : i <= Len(st) \/ (i = Len(st) + 1 /\ Len(new) = Len(st) + 1)
  BY <1>1
<1>3. ASSUME NEW i \in 1..Len(new)
      PROVE  /\ \A j \in 1..i - 1 : Left(st, j, i) => Left(new, j, i)
             /\ \A e : Known(st, i, e, l) => Known(new, i, e, l)
             /\ \A e : Known(st, i, e, m) => Known(new, i, e, m)
  <2>1. /\ i \in Nat /\ i <= i /\ \A j \in i..i - 1 : FALSE
        /\ \A j \in 1..i - 1 : Kept(st[j], new[j])
    BY <1>1, SMTT(30)
  <2> QED BY <2>1, Onward
<1>4. ASSUME NEW i \in 1..Len(new), i <= Len(st)
      PROVE  /\ i \in 1..Len(st) /\ new[i].kind = st[i].kind
             /\ EntriesIn(new[i]) = EntriesIn(st[i]) /\ HandlersIn(new[i]) = HandlersIn(st[i])
             /\ \A H : Uncalled(st[i], H) => Uncalled(new[i], H)
             /\ \A e : Apart(st[i], e) => Apart(new[i], e)
             /\ OnceIn(st[i]) => OnceIn(new[i])
             /\ st[i].kind = "function" => new[i].env = st[i].env
             /\ st[i].kind = "exit" => new[i].of = st[i].of
  <2>1. i \in 1..Len(st) /\ Kept(st[i], new[i])
    BY <1>1, <1>4
  <2> QED BY <2>1, KeptIs DEF Kept
<1> DEFINE f == new[Len(st) + 1]
<1>5. ScopeInv(new, m)
  <2>1. ASSUME NEW i \in 1..Len(new), NEW e \in EntriesIn(new[i])
        PROVE  Known(new, i, e.env, m)
    <3>1. CASE i <= Len(st)
      <4>1. Known(st, i, e.env, l)
        BY <1>4, <2>1, <3>1 DEF KeptInv, ScopeInv
      <4>2. Known(st, i, e.env, m)
        BY <4>1, KnownLater
      <4> QED BY <4>2, <1>3
    <3>2. CASE ~(i <= Len(st))
      BY <1>2, <1>3, <2>1, <3>2 DEF TopInv
    <3> QED BY <3>1, <3>2
  <2> QED BY <2>1 DEF ScopeInv
<1>6. HandledInv(new)
  <2>1. ASSUME NEW j \in 1..Len(new), NEW i \in 1..j - 1, ~Left(new, i, j)
        PROVE  Uncalled(new[i], HandlersIn(new[j]))
    <3>1. i \in 1..Len(new) /\ i <= Len(st) /\ ~Left(st, i, j)
      BY <1>1, <1>3, <2>1
    <3>2. Uncalled(st[i], HandlersIn(new[j]))
      <4>1. CASE j <= Len(st)
        BY <1>4, <2>1, <3>1, <4>1 DEF KeptInv, HandledInv
      <4>2. CASE ~(j <= Len(st))
        BY <1>2, <2>1, <3>1, <4>2 DEF TopInv
      <4> QED BY <4>1, <4>2
    <3> QED BY <1>4, <3>1, <3>2
  <2> QED BY <2>1 DEF HandledInv
<1>7. ApartInv(new)
  <2>1. ASSUME NEW j \in 1..Len(new), NEW i \in 1..j - 1, new[j].kind = "function"
        PROVE  Apart(new[i], new[j].env)
    <3>1. i \in 1..Len(new) /\ i <= Len(st)
      BY <1>1, <2>1
    <3>2. Apart(st[i], new[j].env)
      <4>1. CASE j <= Len(st)
        BY <1>4, <2>1, <3>1, <4>1 DEF KeptInv, ApartInv
      <4>2. CASE ~(j <= Len(st))
        BY <1>2, <2>1, <3>1, <4>2 DEF TopInv
      <4> QED BY <4>1, <4>2
    <3> QED BY <1>4, <3>1, <3>2
  <2> QED BY <2>1 DEF ApartInv
<1>8. OnceInv(new)
  <2>1. ASSUME NEW i \in 1..Len(new)
        PROVE  OnceIn(new[i])
    <3>1. CASE i <= Len(st)
      BY <1>4, <3>1 DEF KeptInv, OnceInv
    <3>2. CASE ~(i <= Len(st))
      BY <1>2, <3>2 DEF TopInv
    <3> QED BY <3>1, <3>2
  <2> QED BY <2>1 DEF OnceInv
<1>9. LateInv(new, m)
  <2>1. ASSUME NEW i \in 1..Len(new), new[i].kind = "exit", NEW j \in new[i].of..i - 1
        PROVE  OnlyLate(new[j], m)
    <3>1. CASE i <= Len(st)
      <4>1. i \in 1..Len(st) /\ st[i].kind = "exit" /\ new[i].of = st[i].of
        BY <1>4, <2>1, <3>1
      <4>2. st[i].of \in 1..i - 1 /\ OnlyLate(st[j], l)
        BY <4>1, <2>1 DEF LinksInv, LinkAt, KeptInv, LateInv
      <4>3. j \in 1..Len(st) /\ j < Len(new)
        BY <1>1, <2>1, <4>1, <4>2
      <4> QED BY <4>2, <4>3
    <3>2. CASE ~(i <= Len(st))
      BY <1>1, <1>2, <2>1, <3>2 DEF TopInv
    <3> QED BY <3>1, <3>2
  <2> QED BY <2>1 DEF LateInv
<1> QED BY <1>5, <1>6, <1>7, <1>8, <1>9 DEF KeptInv

\* A frame is put on the stack, and H and R may lose entries.
LEMMA PutOn ==
  ASSUME NEW st \in Seq(Frames), NEW l, NEW H0, NEW R0, KeptInv(st, l), LinksInv(st),
         NowInv(st, H0, R0, l), NEW f \in Frames, f.kind # "exit", Uncalled(f, {f.entry}),
         EntriesIn(f) \subseteq Range(H0) \union Range(R0), HandlersIn(f) \subseteq Range(H0),
         OnceIn(f), f.kind = "function" => \A i \in 1..Len(st) : Apart(st[i], f.env),
         NEW H, NEW R, Range(H) \subseteq Range(H0), Range(R) \subseteq Range(R0), Once(H),
         NEW new, new = Append(st, f)
  PROVE  KeptInv(new, l) /\ NowInv(new, H, R, l)
<1>1. /\ Len(st) \in Nat /\ new \in Seq(Frames) /\ Len(new) = Len(st) + 1
      /\ \A i \in 1..Len(st) : new[i] = st[i]
      /\ new[Len(st) + 1] = f
  BY LenProperties, AppendProperties
<1>2. \A i \in 1..Len(st) : Kept(st[i], new[i]) /\ (OnlyLate(st[i], l) => OnlyLate(new[i], l))
  BY <1>1 DEF Kept
<1>3. ASSUME NEW H1, NEW H2, NEW g, H1 \subseteq H2, Uncalled(g, H2)
      PROVE  Uncalled(g, H1)
  BY <1>3 DEF Uncalled
<1>4. TopInv(st, new, new[Len(st) + 1], l)
  BY <1>1, <1>3 DEF TopInv, NowInv
<1>5. KeptInv(new, l)
  <2>1. /\ Len(new) <= Len(st) + 1 /\ l \subseteq l /\ new \in Seq(Frames)
        /\ \A i \in 1..Len(st) : i <= Len(new) => Kept(st[i], new[i])
        /\ \A i \in 1..Len(st) : i < Len(new) /\ OnlyLate(st[i], l) => OnlyLate(new[i], l)
    BY <1>1, <1>2
  <2> QED BY ONLY <2>1, <1>4, st \in Seq(Frames), KeptInv(st, l), LinksInv(st), FramesKept
<1>6. /\ \A j \in 1..Len(st) : Left(st, j, Len(st) + 1) => Left(new, j, Len(new) + 1)
      /\ \A e : Known(st, Len(st) + 1, e, l) => Known(new, Len(new) + 1, e, l)
  <2> DEFINE k == Len(st) + 1
             n == Len(new) + 1
  <2>1. /\ k \in Nat /\ n \in Nat /\ k <= n
        /\ \A i \in 1..k - 1 : Kept(st[i], new[i])
        /\ \A i \in k..n - 1 : new[i].kind # "exit"
    BY <1>1, <1>2
  <2>2. Len(st) = k - 1
    BY <1>1
  <2> HIDE DEF k, n
  <2>3. /\ \A j \in 1..k - 1 : Left(st, j, k) => Left(new, j, n)
        /\ \A e : Known(st, k, e, l) => Known(new, n, e, l)
    BY <2>1, Onward
  <2> QED BY <2>2, <2>3 DEF k, n
<1>7. \A e \in Range(H) \union Range(R) : Known(new, Len(new) + 1, e.env, l)
  BY <1>6 DEF NowInv
<1>8. ASSUME NEW i \in 1..Len(new), ~Left(new, i, Len(new) + 1)
      PROVE  Uncalled(new[i], Range(H))
  <2>1. CASE i = Len(st) + 1
    BY <1>1, <2>1 DEF Uncalled
  <2>2. CASE i # Len(st) + 1
    <3>1. i \in 1..Len(st) /\ new[i] = st[i] /\ ~Left(st, i, Len(st) + 1)
      BY <1>1, <1>6, <1>8, <2>2
    <3>2. Uncalled(st[i], Range(H0))
      BY <3>1 DEF NowInv
    <3> QED BY <1>3, <3>1, <3>2
  <2> QED BY <2>1, <2>2
<1> QED BY <1>5, <1>7, <1>8 DEF NowInv

\* The frame on top is taken off; H and R are what it had kept, or had been.
LEMMA TakenOff ==
  ASSUME NEW st \in Seq(Frames), NEW l, KeptInv(st, l), LinksInv(st), st # << >>,
         NEW new \in Seq(Frames), Len(new) = Len(st) - 1,
         \A i \in 1..Len(st) - 1 : new[i] = st[i]
  PROVE  /\ KeptInv(new, l)
         /\ \A e : Known(st, Len(st), e, l) => Known(new, Len(new) + 1, e, l)
         /\ \A i \in 1..Len(new) : Left(st, i, Len(st)) => Left(new, i, Len(new) + 1)
<1>1. Len(st) \in Nat /\ Len(new) \in Nat /\ Len(new) + 1 = Len(st)
  BY LenProperties
<1>2. \A i \in 1..Len(st) : i <= Len(new) =>
        Kept(st[i], new[i]) /\ (OnlyLate(st[i], l) => OnlyLate(new[i], l))
  BY <1>1 DEF Kept
<1>3. KeptInv(new, l)
  BY <1>1, <1>2, FramesKept
<1> DEFINE k == Len(st)
<1>4. /\ k \in Nat /\ k <= k /\ \A i \in 1..k - 1 : Kept(st[i], new[i])
      /\ \A i \in k..k - 1 : FALSE
  BY <1>1, <1>2
<1>5. /\ \A j \in 1..k - 1 : Left(st, j, k) => Left(new, j, k)
      /\ \A e : Known(st, k, e, l) => Known(new, k, e, l)
  <2> HIDE DEF k
  <2> QED BY <1>4, Onward
<1> QED BY <1>1, <1>3, <1>5

\* What is left out when the stack is cut has no exit code to be run.
Dropped(st, l) == \A i \in 1..Len(st) : i > Len(stack') => OnlyLate(st[i], l)

\* A jump keeps the invariant: the handlers and restarts are again those that the context
\* had where exit code is run, or that is jumped to.
LEMMA JumpedKept ==
  ASSUME NEW st \in Seq(Frames), LinksInv(st), NEW l, KeptInv(st, l),
         NEW from \in 1..Len(st) + 1, NEW target \in 1..Len(st), target < from,
         st[target].kind \in {"toplevel", "function"},
         \A j \in from..Len(st) : OnlyLate(st[j], l),
         Unwind(st, from, target)
  PROVE  /\ KeptInv(stack', l) /\ NowInv(stack', R_HandlerStack', R_RestartStack', l)
         /\ Dropped(st, l)
<1>1. PICK next \in target..from - 1 : Unwound(st, from, target, next)
  BY UnwindStep
<1>2. /\ Len(st) \in Nat /\ stack' \in Seq(Frames) /\ Len(stack') \in Nat
      /\ next \in 1..Len(st) /\ st[next].kind \in {"toplevel", "function"}
      /\ R_HandlerStack' = st[next].handlerstack /\ R_RestartStack' = st[next].restartstack
  BY <1>1, LenProperties DEF Unwound
<1>3. \A i \in 1..Len(st) : i <= Len(stack') =>
        Kept(st[i], stack'[i]) /\ (OnlyLate(st[i], l) => OnlyLate(stack'[i], l))
  BY <1>1, LikeKept DEF Unwound
<1>4. \A i \in next + 1..from - 1 : OnlyLate(st[i], l)
  <2>1. ASSUME NEW i \in next + 1..from - 1, st[i].kind = "function"
        PROVE  st[i].conexit = << >>
    BY <1>1, <2>1 DEF Unwound
  <2>2. Range(<< >>) = {}
    BY EmptySeq DEF Range
  <2> QED BY <2>1, <2>2 DEF OnlyLate
<1>5. \A i \in next + 1..Len(st) : OnlyLate(st[i], l)
  BY <1>2, <1>4
<1>6. /\ \A e \in Range(R_HandlerStack') \union Range(R_RestartStack') : Known(st, next, e.env, l)
      /\ \A i \in 1..next - 1 : ~Left(st, i, next) => Uncalled(st[i], Range(R_HandlerStack'))
      /\ Once(R_HandlerStack')
  <2>1. OnceIn(st[next])
    BY <1>2 DEF KeptInv, OnceInv
  <2>2. /\ Range(R_HandlerStack') \union Range(R_RestartStack') \subseteq EntriesIn(st[next])
        /\ Range(R_HandlerStack') \subseteq HandlersIn(st[next])
        /\ Once(R_HandlerStack')
    BY <1>2, <2>1 DEF EntriesIn, HandlersIn, OnceIn
  <2>3. /\ \A e \in EntriesIn(st[next]) : Known(st, next, e.env, l)
        /\ \A i \in 1..next - 1 : ~Left(st, i, next) => Uncalled(st[i], HandlersIn(st[next]))
    BY <1>2 DEF KeptInv, ScopeInv, HandledInv
  <2> QED BY <2>2, <2>3 DEF Uncalled
<1>7. CASE next = target /\ Len(stack') = target
  <2>1. KeptInv(stack', l)
    BY <1>2, <1>3, <1>7, FramesKept
  <2>2. /\ \A j \in 1..next - 1 : Left(st, j, next) => Left(stack', j, next + 1)
        /\ \A e : Known(st, next, e, l) => Known(stack', next + 1, e, l)
    <3> DEFINE n == next + 1
    <3>1. /\ next \in Nat /\ n \in Nat /\ next <= n
          /\ \A i \in 1..next - 1 : Kept(st[i], stack'[i])
      BY <1>2, <1>3, <1>7
    <3>2. stack'[next].kind # "exit"
      BY <1>2, <1>3, <1>7 DEF Kept
    <3>3. \A i \in next..n - 1 : stack'[i].kind # "exit"
      BY <1>2, <3>2
    <3> HIDE DEF n
    <3>4. /\ \A j \in 1..next - 1 : Left(st, j, next) => Left(stack', j, n)
          /\ \A e : Known(st, next, e, l) => Known(stack', n, e, l)
      BY ONLY <3>1, <3>3, Onward
    <3> QED BY <3>4 DEF n
  <2>3. ASSUME NEW i \in 1..Len(stack'), ~Left(stack', i, Len(stack') + 1)
        PROVE  Uncalled(stack'[i], Range(R_HandlerStack'))
    <3>1. CASE i = next
      BY <1>2, <1>3, <1>7, <3>1 DEF Kept, Uncalled
    <3>2. CASE i # next
      <4>1. i \in 1..next - 1 /\ i \in 1..Len(st) /\ ~Left(st, i, next)
        BY <1>2, <1>7, <2>2, <2>3, <3>2
      <4>2. Uncalled(st[i], Range(R_HandlerStack')) /\ Kept(st[i], stack'[i])
        BY <1>3, <1>6, <1>7, <4>1
      <4> QED BY <4>2, KeptIs
    <3> QED BY <3>1, <3>2
  <2>4. NowInv(stack', R_HandlerStack', R_RestartStack', l)
    BY <1>6, <1>7, <2>2, <2>3 DEF NowInv
  <2>5. Dropped(st, l)
    BY <1>2, <1>5, <1>7 DEF Dropped
  <2> QED BY <2>1, <2>4, <2>5
<1>8. CASE /\ next \in target + 1..from - 1
           /\ st[next].kind = "function" /\ st[next].conexit # << >>
           /\ Len(stack') = Len(st) + 1
           /\ stack'[Len(st) + 1] = Exit(next, target, st[next].conexit)
           /\ stack'[next].conexit = << >>
  <2> DEFINE f == stack'[Len(st) + 1]
  <2>1. f.kind = "exit" /\ f.of = next /\ f.target = target
    BY <1>8 DEF Exit
  <2> HIDE DEF f
  <2>2. \A j \in next..Len(st) : OnlyLate(stack'[j], l)
    <3>1. OnlyLate(stack'[next], l)
      <4>1. Range(<< >>) = {}
        BY EmptySeq DEF Range
      <4> QED BY <1>8, <4>1 DEF OnlyLate
    <3>2. ASSUME NEW j \in next..Len(st), j # next
          PROVE  OnlyLate(stack'[j], l)
      BY <1>2, <1>3, <1>5, <1>8, <3>2
    <3> QED BY <3>1, <3>2
  <2>3. TopInv(st, stack', f, l)
    <3>1. EntriesIn(f) = {} /\ HandlersIn(f) = {} /\ OnceIn(f) /\ f.kind # "function"
      BY <2>1 DEF EntriesIn, HandlersIn, OnceIn
    <3> QED BY <2>1, <2>2, <3>1 DEF TopInv, Uncalled
  <2>4. KeptInv(stack', l)
    BY <1>2, <1>3, <1>8, <2>3, FramesKept DEF f
  <2>5. ASSUME NEW e, Known(st, next, e, l)
        PROVE  Known(stack', Len(stack') + 1, e, l)
    <3>1. PICK j \in 1..next - 1 : st[j].kind = "function" /\ st[j].env = e /\ ~Gone(st, j, next, l)
      BY <2>5 DEF Known
    <3>2. j \in 1..Len(stack') /\ stack'[j].kind = "function" /\ stack'[j].env = e
      BY <1>2, <1>3, <1>8, <3>1 DEF Kept
    <3>3. ASSUME NEW i \in 1..Len(stack'), stack'[i].kind = "exit", stack'[i].of <= j, j < i,
                 stack'[i].target = 0 \/ l = {}
          PROVE  FALSE
      <4>1. CASE i = Len(st) + 1
        BY <1>2, <2>1, <3>1, <3>3, <4>1 DEF f
      <4>2. CASE i # Len(st) + 1
        <5>1. i \in 1..Len(st) /\ Kept(st[i], stack'[i])
          BY <1>2, <1>3, <1>8, <4>2
        <5>2. /\ st[i].kind = "exit" /\ st[i].of = stack'[i].of /\ st[i].target = stack'[i].target
          BY <3>3, <5>1 DEF Kept
        <5>3. ~(i < next)
          BY <3>1, <3>3, <5>1, <5>2 DEF Gone
        <5>4. i > next
          BY <1>2, <1>8, <5>1, <5>2, <5>3
        <5>5. /\ st[i].of \in 1..i - 1 /\ (st[i].target = 0 => st[i].of = i - 1)
          BY <5>1, <5>2 DEF LinksInv, LinkAt
        <5>6. st[i].target # 0 /\ l = {}
          BY <1>2, <3>1, <3>3, <5>2, <5>4, <5>5
        <5>7. next \in st[i].of..i - 1
          BY <1>2, <3>1, <3>3, <5>2, <5>4, <5>5
        <5>8. Range(st[next].conexit) = {}
          BY <1>8, <5>1, <5>2, <5>6, <5>7 DEF KeptInv, LateInv, OnlyLate
        <5>9. st[next].conexit \in Seq(Codes)
          BY <1>2, <1>8, ElementOfSeq, FrameOfKind DEF FunctionFrames
        <5>10. st[next].conexit = << >>
          <6> DEFINE s == st[next].conexit
          <6>1. DOMAIN s = {} /\ s \in Seq(Codes)
            BY <5>8, <5>9 DEF Range
          <6> HIDE DEF s
          <6>2. Len(s) \in Nat /\ DOMAIN s = 1..Len(s)
            BY <6>1, LenProperties
          <6>3. Len(s) = 0
            BY <6>1, <6>2
          <6>4. s = << >>
            BY <6>1, <6>3, EmptySeq
          <6> QED BY <6>4 DEF s
        <5> QED BY <1>8, <5>10
      <4> QED BY <4>1, <4>2
    <3>4. ~Gone(stack', j, Len(stack') + 1, l)
      BY <1>2, <3>3 DEF Gone
    <3> QED BY <1>2, <3>2, <3>4 DEF Known
  <2>6. ASSUME NEW i \in 1..Len(stack'), ~Left(stack', i, Len(stack') + 1)
        PROVE  Uncalled(stack'[i], Range(R_HandlerStack'))
    <3>1. CASE i = Len(st) + 1
      BY <2>1, <3>1 DEF f, Uncalled
    <3>2. CASE i = next
      BY <1>2, <1>3, <1>8, <3>2 DEF Kept, Uncalled
    <3>3. CASE i # Len(st) + 1 /\ i # next
      <4>1. i \in 1..Len(st)
        BY <1>2, <1>8, <3>3
      <4>2. ~(i > next)
        <5>1. Len(st) + 1 \in 1..Len(stack') + 1 - 1 /\ target > 0
          BY <1>2, <1>8
        <5> QED BY <1>2, <2>1, <2>6, <4>1, <5>1 DEF f, Left
      <4>3. i \in 1..next - 1
        BY <1>2, <3>3, <4>1, <4>2
      <4>4. ~Left(st, i, next)
        <5>1. /\ next \in Nat /\ next <= next /\ \A j \in 1..next - 1 : Kept(st[j], stack'[j])
              /\ \A j \in next..next - 1 : stack'[j].kind # "exit"
          BY <1>2, <1>3, <1>8
        <5>2. \A j \in 1..next - 1 : Left(st, j, next) => Left(stack', j, next)
          BY ONLY <5>1, Onward
        <5>3. Left(stack', i, next) => Left(stack', i, Len(stack') + 1)
          BY <1>2, <1>8 DEF Left
        <5> QED BY <2>6, <4>3, <5>2, <5>3
      <4>5. Uncalled(st[i], Range(R_HandlerStack')) /\ Kept(st[i], stack'[i])
        BY <1>2, <1>3, <1>6, <1>8, <4>1, <4>3, <4>4
      <4> QED BY <4>5, KeptIs
    <3> QED BY <3>1, <3>2, <3>3
  <2>7. NowInv(stack', R_HandlerStack', R_RestartStack', l)
    BY <1>6, <2>5, <2>6 DEF NowInv
  <2>8. Dropped(st, l)
    BY <1>2, <1>8 DEF Dropped
  <2> QED BY <2>4, <2>7, <2>8
<1> QED BY <1>1, <1>7, <1>8 DEF Unwound


-----------------------------------------------------------------------------
\* Each action keeps RInv, and leaves out of the stack no function with exit code.
StepKept ==
  /\ KeptInv(stack', late') /\ NowInv(stack', R_HandlerStack', R_RestartStack', late')
  /\ Dropped(stack, late)

\* The entries after one of a stack of handlers.
LEMMA LaterEntries ==
  ASSUME NEW s \in Saved, NEW i \in DOMAIN s
  PROVE  /\ Range(SubSeq(s, i + 1, Len(s))) \subseteq Range(s)
         /\ Once(s) => /\ Once(SubSeq(s, i + 1, Len(s)))
                        /\ s[i] \notin Range(SubSeq(s, i + 1, Len(s)))
<1> DEFINE t == SubSeq(s, i + 1, Len(s))
<1>1. Len(s) \in Nat /\ DOMAIN s = 1..Len(s) /\ i \in 1..Len(s)
  BY LenProperties DEF Saved
<1>2. \A j \in 1..Len(s) : s[j] \in Entries
  BY ElementOfSeq DEF Saved
<1>3. /\ t \in Seq(Entries) /\ Len(t) = Len(s) - i
      /\ \A j \in 1..Len(s) - i : t[j] = s[i + j]
  <2>1. t \in Seq(Entries) /\ Len(t) = IF i + 1 <= Len(s) THEN Len(s) - (i + 1) + 1 ELSE 0
    BY <1>1, <1>2, SubSeqProperties
  <2>2. \A j \in 1..Len(s) - (i + 1) + 1 : t[j] = s[i + 1 + j - 1]
    BY <1>1, <1>2, SubSeqProperties
  <2>3. \A j \in 1..Len(s) - i : i + 1 + j - 1 = i + j
    BY <1>1
  <2> QED BY <1>1, <2>1, <2>2, <2>3
<1> HIDE DEF t
<1>4. \A j \in DOMAIN t : j \in 1..Len(s) - i /\ i + j \in DOMAIN s /\ i + j # i /\ t[j] = s[i + j]
  <2>1. DOMAIN t = 1..Len(t)
    BY <1>3, LenProperties
  <2> QED BY <1>1, <1>3, <2>1
<1>5. Range(t) \subseteq Range(s)
  BY <1>4 DEF Range
<1>6. ASSUME Once(s)
      PROVE  Once(t) /\ s[i] \notin Range(t)
  <2>1. ASSUME NEW j \in DOMAIN t, NEW k \in DOMAIN t, t[j] = t[k]
        PROVE  j = k
    <3>1. i + j = i + k
      BY <1>4, <1>6, <2>1 DEF Once
    <3>2. i \in Nat /\ j \in Nat /\ k \in Nat
      BY <1>1, <1>4
    <3> QED BY <3>1, <3>2
  <2>2. s[i] \notin Range(t)
    BY <1>4, <1>6 DEF Once, Range
  <2> QED BY <2>1, <2>2 DEF Once
<1> QED BY <1>5, <1>6 DEF t

\* Frames may change if they stay like themselves, and the entries in use are the same.
LEMMA SameFrames ==
  ASSUME NEW st \in Seq(Frames), NEW new \in Seq(Frames), NEW l, NEW m, l \subseteq m,
         KeptInv(st, l), LinksInv(st), Len(new) = Len(st),
         \A i \in 1..Len(st) : Kept(st[i], new[i]),
         \A i \in 1..Len(st) - 1 : OnlyLate(st[i], l) => OnlyLate(new[i], m),
         NEW H, NEW R, NowInv(st, H, R, l)
  PROVE  KeptInv(new, m) /\ NowInv(new, H, R, m)
<1> DEFINE n == Len(st) + 1
<1>1. Len(st) \in Nat /\ n \in Nat /\ n <= n
  BY LenProperties
<1>2. KeptInv(new, m)
  <2>1. /\ Len(new) <= Len(st) + 1 /\ Len(new) # Len(st) + 1
        /\ \A i \in 1..Len(st) : i <= Len(new) => Kept(st[i], new[i])
        /\ \A i \in 1..Len(st) : i < Len(new) /\ OnlyLate(st[i], l) => OnlyLate(new[i], m)
    BY <1>1
  <2> QED BY <2>1, FramesKept
<1>3. /\ \A j \in 1..n - 1 : Left(st, j, n) => Left(new, j, n)
      /\ \A e : Known(st, n, e, m) => Known(new, n, e, m)
  <2>1. /\ \A i \in 1..n - 1 : Kept(st[i], new[i])
        /\ \A i \in n..n - 1 : FALSE
    BY <1>1
  <2> HIDE DEF n
  <2> QED BY ONLY <1>1, <2>1, Onward
<1>4. ASSUME NEW e \in Range(H) \union Range(R)
      PROVE  Known(new, Len(new) + 1, e.env, m)
  <2>1. Known(st, n, e.env, m)
    BY <1>4, KnownLater DEF NowInv
  <2> QED BY <1>3, <2>1
<1>5. ASSUME NEW i \in 1..Len(new), ~Left(new, i, Len(new) + 1)
      PROVE  Uncalled(new[i], Range(H))
  <2>1. i \in 1..Len(st) /\ ~Left(st, i, n)
    BY <1>1, <1>3, <1>5
  <2>2. Uncalled(st[i], Range(H)) /\ Kept(st[i], new[i])
    BY <2>1 DEF NowInv
  <2> QED BY <2>2, KeptIs
<1> QED BY <1>2, <1>4, <1>5 DEF NowInv

\* The frame on top is taken off, and what it kept is in use again.
LEMMA Restored ==
  ASSUME NEW st \in Seq(Frames), NEW l, KeptInv(st, l), LinksInv(st), st # << >>,
         NEW new \in Seq(Frames), Len(new) = Len(st) - 1,
         \A i \in 1..Len(st) - 1 : new[i] = st[i],
         NEW H, NEW R,
         \A e \in Range(H) \union Range(R) : Known(st, Len(st), e.env, l),
         Range(H) \subseteq HandlersIn(st[Len(st)]), Once(H)
  PROVE  KeptInv(new, l) /\ NowInv(new, H, R, l)
<1>1. /\ KeptInv(new, l)
      /\ \A e : Known(st, Len(st), e, l) => Known(new, Len(new) + 1, e, l)
      /\ \A i \in 1..Len(new) : Left(st, i, Len(st)) => Left(new, i, Len(new) + 1)
  BY TakenOff
<1>2. Len(st) \in Nat /\ Len(st) \in 1..Len(st)
  BY LenProperties, EmptySeq
<1>3. ASSUME NEW i \in 1..Len(new), ~Left(new, i, Len(new) + 1)
      PROVE  Uncalled(new[i], Range(H))
  <2>1. i \in 1..Len(st) - 1 /\ new[i] = st[i] /\ ~Left(st, i, Len(st))
    BY <1>1, <1>2, <1>3
  <2>2. Uncalled(st[i], HandlersIn(st[Len(st)]))
    BY <1>2, <2>1 DEF KeptInv, HandledInv
  <2> QED BY <2>1, <2>2 DEF Uncalled
<1> QED BY <1>1, <1>3 DEF NowInv

\* What is used of RInv, with what Basics says.
LEMMA RBasics ==
  ASSUME IInv, RInv
  PROVE  /\ KeptInv(stack, late) /\ NowInv(stack, R_HandlerStack, R_RestartStack, late)
         /\ stack \in Seq(Frames) /\ Depth \in Nat /\ Depth = Len(stack)
         /\ Depth \in 1..Depth /\ LinksInv(stack) /\ stack # << >>
         /\ Once(R_HandlerStack)
<1>1. stack \in Seq(Frames) /\ Depth \in Nat /\ Depth = Len(stack) /\ Depth \in 1..Depth
      /\ LinksInv(stack)
  BY Basics
<1>2. Len(<< >>) = 0
  BY EmptySeq
<1>3. stack # << >>
  BY <1>1, <1>2
<1> QED BY <1>1, <1>3 DEF RInv, NowInv

\* A new environment is none that anything refers to.
LEMMA NewEnvApart ==
  ASSUME IInv, Free # {}
  PROVE  /\ \A i \in 1..Depth : Apart(stack[i], NewEnv)
         /\ \A e \in Range(R_HandlerStack) : e.env # NewEnv
<1>1. NewEnv \in Free
  <2>1. Free \subseteq Envs /\ Envs \subseteq Nat
    BY Basics DEF Free, Envs
  <2> QED BY <2>1, MinOf DEF NewEnv
<1>2. /\ DOMAIN stack = 1..Depth /\ \A i \in 1..Depth : stack[i] \in Frames
  BY Basics
<1>3. ASSUME NEW i \in 1..Depth
      PROVE  Apart(stack[i], NewEnv)
  <2>1. NewEnv \notin EnvsOf(stack[i])
    BY <1>1, <1>2 DEF Free
  <2>2. CASE stack[i].kind = "function"
    BY <2>1, <2>2 DEF EnvsOf, Apart
  <2>3. CASE stack[i].kind = "signal"
    BY <2>1, <2>3 DEF EnvsOf, Apart
  <2> QED BY <2>2, <2>3 DEF Apart
<1>4. ASSUME NEW e \in Range(R_HandlerStack)
      PROVE  e.env # NewEnv
  <2>1. PICK i \in DOMAIN R_HandlerStack : e = R_HandlerStack[i]
    BY <1>4 DEF Range
  <2> DEFINE list == R_HandlerStack \o R_RestartStack
  <2>2. i \in DOMAIN list /\ list[i] = R_HandlerStack[i]
    <3>1. R_HandlerStack \in Seq(Entries) /\ R_RestartStack \in Seq(Entries)
      BY DEF IInv, Saved
    <3>2. /\ Len(R_HandlerStack) \in Nat /\ Len(R_RestartStack) \in Nat
          /\ DOMAIN R_HandlerStack = 1..Len(R_HandlerStack)
      BY <3>1, LenProperties
    <3>3. /\ list \in Seq(Entries) /\ Len(list) = Len(R_HandlerStack) + Len(R_RestartStack)
          /\ \A j \in 1..Len(R_HandlerStack) + Len(R_RestartStack) :
               list[j] = IF j <= Len(R_HandlerStack) THEN R_HandlerStack[j]
                         ELSE R_RestartStack[j - Len(R_HandlerStack)]
      BY <3>1, ConcatProperties
    <3> HIDE DEF list
    <3>4. DOMAIN list = 1..Len(list)
      BY <3>3, LenProperties
    <3> QED BY <2>1, <3>2, <3>3, <3>4
  <2> HIDE DEF list
  <2>3. e.env \in EnvsIn(list)
    BY <2>1, <2>2 DEF EnvsIn
  <2> QED BY <1>1, <2>3 DEF Free, list
<1> QED BY <1>3, <1>4

\* A frame put on the stack leaves none out.
LEMMA PushedKept ==
  ASSUME IInv, RInv, UNCHANGED late, NEW f \in Frames, f.kind # "exit", Uncalled(f, {f.entry}),
         EntriesIn(f) \subseteq Range(R_HandlerStack) \union Range(R_RestartStack),
         HandlersIn(f) \subseteq Range(R_HandlerStack), OnceIn(f),
         f.kind = "function" => \A i \in 1..Depth : Apart(stack[i], f.env),
         Range(R_HandlerStack') \subseteq Range(R_HandlerStack),
         Range(R_RestartStack') \subseteq Range(R_RestartStack),
         Once(R_HandlerStack'), stack' = Append(stack, f)
  PROVE  StepKept
<1>1. KeptInv(stack', late) /\ NowInv(stack', R_HandlerStack', R_RestartStack', late)
  <2>1. /\ stack \in Seq(Frames) /\ KeptInv(stack, late) /\ LinksInv(stack)
        /\ NowInv(stack, R_HandlerStack, R_RestartStack, late) /\ Depth = Len(stack)
    BY RBasics
  <2>2. f.kind = "function" => \A i \in 1..Len(stack) : Apart(stack[i], f.env)
    BY <2>1
  <2> QED BY <2>1, <2>2, PutOn
<1>2. Len(stack') = Len(stack) + 1 /\ Len(stack) \in Nat
  BY RBasics, AppendProperties
<1>3. Dropped(stack, late)
  BY <1>2 DEF Dropped
<1> QED BY <1>1, <1>3 DEF StepKept

LEMMA CallKept ==
  ASSUME IInv, RInv, Call
  PROVE  StepKept
<1> DEFINE f == Function(NewEnv, R_HandlerStack)
<1>1. /\ stack' = Append(stack, f) /\ Free # {}
      /\ UNCHANGED <<R_HandlerStack, R_RestartStack, late>>
  BY DEF Call, handlers, exitcodes
<1>2. /\ f \in Frames /\ f.kind = "function" /\ f.env = NewEnv
      /\ f.handlerstack = R_HandlerStack /\ f.restartstack = R_RestartStack
  BY <1>1, FunctionFrame DEF IInv, Function
<1> HIDE DEF f
<1>3. /\ EntriesIn(f) = Range(R_HandlerStack) \union Range(R_RestartStack)
      /\ HandlersIn(f) = Range(R_HandlerStack) /\ Uncalled(f, {f.entry})
      /\ OnceIn(f) /\ Once(R_HandlerStack)
  BY <1>2, RBasics DEF EntriesIn, HandlersIn, Uncalled, OnceIn
<1>4. \A i \in 1..Depth : Apart(stack[i], f.env)
  BY <1>1, <1>2, NewEnvApart
<1> QED BY <1>1, <1>2, <1>3, <1>4, PushedKept

\* The frame of a condition that is signalled while the handlers are hs.
LEMMA SignalPushed ==
  ASSUME IInv, RInv, UNCHANGED late, NEW error \in BOOLEAN, NEW hs \in Saved,
         Range(hs) \subseteq Range(R_HandlerStack), Once(hs),
         NEW f, f = [Signalling(error) EXCEPT !.oldstack = hs], stack' = Append(stack, f),
         R_HandlerStack' = hs, Range(R_RestartStack') \subseteq Range(R_RestartStack)
  PROVE  StepKept
<1>1. /\ f \in Frames /\ f.kind = "signal" /\ f.oldstack = hs /\ f.entry = NoEntry
  <2>1. R_HandlerStack \in Saved
    BY DEF IInv
  <2> QED BY <2>1, SignallingFrame DEF Signalling
<1>2. /\ EntriesIn(f) = Range(hs) /\ HandlersIn(f) = Range(hs) /\ OnceIn(f)
      /\ Uncalled(f, {f.entry})
  BY <1>1 DEF EntriesIn, HandlersIn, OnceIn, Uncalled
<1> QED BY <1>1, <1>2, PushedKept

LEMMA SignalKept ==
  ASSUME IInv, RInv, Signal
  PROVE  StepKept
<1>1. PICK error \in BOOLEAN : stack' = Append(stack, Signalling(error))
  BY DEF Signal
<1>2. UNCHANGED <<R_HandlerStack, R_RestartStack, late>> /\ R_HandlerStack \in Saved
  BY DEF Signal, handlers, exitcodes, IInv
<1>3. Signalling(error) = [Signalling(error) EXCEPT !.oldstack = R_HandlerStack]
  BY DEF Signalling
<1>4. Once(R_HandlerStack)
  BY RBasics
<1> QED BY <1>1, <1>2, <1>3, <1>4, SignalPushed

LEMMA JumpsKept ==
  ASSUME IInv, RInv, InvokeRestart \/ ReturnFrom \/ GotoExitingHandler
  PROVE  StepKept
<1>1. R_HandlerStack \in Saved /\ R_RestartStack \in Saved /\ UNCHANGED late
  BY DEF IInv, InvokeRestart, ReturnFrom, GotoExitingHandler
<1>2. Once(R_HandlerStack)
  BY RBasics
<1>3. ASSUME NEW env, NEW hs \in Saved, NEW rs \in Saved, FindContext(env, hs, rs),
             Range(hs) \subseteq Range(R_HandlerStack), Once(hs),
             Range(rs) \subseteq Range(R_RestartStack)
      PROVE  StepKept
  <2> DEFINE found == {i \in InReach : stack[i].kind = "function" /\ stack[i].env = env}
  <2>1. stack \in Seq(Frames) /\ Depth \in Nat /\ DOMAIN stack = 1..Depth /\ Depth = Len(stack)
    BY Basics
  <2>2. CASE found # {}
    <3> DEFINE target == Max(found)
    <3>1. target \in found
      <4>1. found \in SUBSET (0..Depth)
        BY <2>1 DEF InReach
      <4> HIDE DEF found
      <4> QED BY <4>1, <2>1, <2>2, MaxOf
    <3>2. Unwind(stack, Depth + 1, target)
      BY <1>3, <2>2 DEF FindContext
    <3>3. target \in 1..Depth /\ stack[target].kind = "function"
      BY <3>1, <2>1 DEF InReach
    <3> HIDE DEF target
    <3>4. /\ KeptInv(stack, late) /\ LinksInv(stack)
          /\ Depth + 1 \in 1..Len(stack) + 1 /\ target < Depth + 1 /\ target \in 1..Len(stack)
          /\ stack[target].kind \in {"toplevel", "function"}
          /\ \A j \in Depth + 1..Len(stack) : OnlyLate(stack[j], late)
      BY <2>1, <3>3, RBasics
    <3>5. /\ KeptInv(stack', late) /\ NowInv(stack', R_HandlerStack', R_RestartStack', late)
          /\ Dropped(stack, late)
      BY ONLY <2>1, <3>2, <3>4, JumpedKept
    <3> QED BY <3>5, <1>1 DEF StepKept
  <2>3. CASE found = {}
    <3>1. /\ stack' = Append(stack, [Signalling(TRUE) EXCEPT !.oldstack = hs])
          /\ R_HandlerStack' = hs /\ R_RestartStack' = rs
      BY <1>3, <2>3 DEF FindContext
    <3> QED BY <3>1, <1>1, <1>3, TRUE \in BOOLEAN, SignalPushed
  <2> QED BY <2>2, <2>3
<1>4. CASE InvokeRestart
  <2>1. PICK i \in DOMAIN R_RestartStack :
          FindContext(R_RestartStack[i].env, R_HandlerStack,
                      SubSeq(R_RestartStack, i + 1, Len(R_RestartStack)))
    BY <1>4 DEF InvokeRestart
  <2> DEFINE rs == SubSeq(R_RestartStack, i + 1, Len(R_RestartStack))
  <2>2. rs \in Saved /\ Range(rs) \subseteq Range(R_RestartStack)
    BY <1>1, AtEnd, LaterEntries
  <2>3. FindContext(R_RestartStack[i].env, R_HandlerStack, rs)
    BY <2>1
  <2> HIDE DEF rs
  <2> QED BY <2>2, <2>3, <1>1, <1>2, <1>3
<1>5. CASE ReturnFrom
  <2>1. PICK i \in DOMAIN stack : FindContext(stack[i].env, R_HandlerStack, R_RestartStack)
    BY <1>5 DEF ReturnFrom
  <2> QED BY <2>1, <1>1, <1>2, <1>3
<1>6. CASE GotoExitingHandler
  <2>1. PICK i \in DOMAIN R_HandlerStack :
          FindContext(R_HandlerStack[i].env, HandlersFor(i), R_RestartStack)
    BY <1>6 DEF GotoExitingHandler
  <2>2. /\ HandlersFor(i) \in Saved /\ Range(HandlersFor(i)) \subseteq Range(R_HandlerStack)
        /\ Once(HandlersFor(i))
    BY <1>1, <1>2, AtEnd, LaterEntries DEF HandlersFor
  <2> QED BY <2>1, <2>2, <1>1, <1>3
<1> QED BY <1>4, <1>5, <1>6

LEMMA AbortKept ==
  ASSUME IInv, RInv, Abort
  PROVE  StepKept
<1>1. Unwind(stack, Depth + 1, R_ToplevelContext) /\ UNCHANGED late
  BY DEF Abort
<1>2. /\ R_ToplevelContext \in 1..Depth /\ stack[R_ToplevelContext].kind = "toplevel"
      /\ stack \in Seq(Frames) /\ Depth \in Nat /\ Depth = Len(stack)
      /\ KeptInv(stack, late) /\ LinksInv(stack)
  BY Basics, RBasics DEF TopOf
<1>3. /\ Depth + 1 \in 1..Len(stack) + 1 /\ R_ToplevelContext < Depth + 1
      /\ R_ToplevelContext \in 1..Len(stack)
      /\ stack[R_ToplevelContext].kind \in {"toplevel", "function"}
      /\ \A j \in Depth + 1..Len(stack) : OnlyLate(stack[j], late)
  BY <1>2
<1>4. /\ KeptInv(stack', late) /\ NowInv(stack', R_HandlerStack', R_RestartStack', late)
      /\ Dropped(stack, late)
  BY ONLY <1>1, <1>2, <1>3, JumpedKept
<1> QED BY <1>4, <1>1 DEF StepKept

LEMMA ToplevelExecKept ==
  ASSUME IInv, RInv, NEW clears \in BOOLEAN, ToplevelExec(clears)
  PROVE  StepKept
<1> DEFINE f == Toplevel(clears)
<1>1. /\ stack' = Append(stack, f) /\ R_HandlerStack' = stack'[Depth + 1].handlerstack
      /\ UNCHANGED <<R_RestartStack, late>>
  BY DEF ToplevelExec, exitcodes
<1>2. /\ f \in Frames /\ f.kind = "toplevel" /\ f.oldHStack = R_HandlerStack
      /\ f.handlerstack \in {R_HandlerStack, << >>} /\ f.restartstack = R_RestartStack
  <2>1. << >> \in Saved /\ R_HandlerStack \in Saved /\ R_RestartStack \in Saved
        /\ R_ToplevelContext \in Nat
    BY EmptySeq, Basics DEF Saved, IInv
  <2>2. f \in ToplevelFrames
    BY <2>1 DEF Toplevel, ToplevelFrames
  <2> QED BY <2>2 DEF Toplevel, Frames
<1> HIDE DEF f
<1>3. R_HandlerStack' = f.handlerstack
  <2>1. stack'[Depth + 1] = f
    BY <1>1, <1>2, RBasics, AppendProperties
  <2> QED BY <1>1, <2>1
<1>4. Range(f.handlerstack) \subseteq Range(R_HandlerStack) /\ Once(f.handlerstack)
  <2>1. Range(<< >>) = {} /\ Once(<< >>)
    BY EmptySeq DEF Range, Once
  <2> QED BY <2>1, <1>2, RBasics
<1>5. /\ EntriesIn(f) \subseteq Range(R_HandlerStack) \union Range(R_RestartStack)
      /\ HandlersIn(f) \subseteq Range(R_HandlerStack) /\ OnceIn(f) /\ Uncalled(f, {f.entry})
  BY <1>2, <1>4, RBasics DEF EntriesIn, HandlersIn, OnceIn, Uncalled
<1> QED BY <1>1, <1>2, <1>3, <1>4, <1>5, PushedKept

LEMMA OnExitKept ==
  ASSUME IInv, RInv, OnExit
  PROVE  StepKept
<1> DEFINE of == IF Top.kind = "exit" THEN Top.of ELSE Depth
           m == late'
<1>1. /\ stack \in Seq(Frames) /\ Depth \in Nat /\ Depth = Len(stack) /\ Depth \in 1..Depth
      /\ LinksInv(stack) /\ LinkAt(stack, Depth, Top) /\ Top = stack[Depth]
  BY Basics
<1>2. /\ UNCHANGED <<R_HandlerStack, R_RestartStack>> /\ Evaluating /\ CodeEnv # 0
      /\ late' = IF Top.kind = "exit" THEN late \union {registered + 1} ELSE late
  BY DEF OnExit, handlers
<1>3. /\ of \in 1..Depth /\ stack[of].kind = "function"
      /\ of # Depth => registered + 1 \in late'
  BY <1>1, <1>2 DEF LinkAt, CodeEnv, Evaluating
<1>4. PICK old \in {stack[of].conexit, << >>} :
        stack' = [stack EXCEPT ![of].conexit = Append(old, registered + 1)]
  BY DEF OnExit
<1> HIDE DEF of
<1> DEFINE f == stack[of]
           code == Append(old, registered + 1)
           g == [f EXCEPT !.conexit = code]
<1>5. f \in FunctionFrames
  BY <1>1, <1>3, ElementOfSeq, FrameOfKind
<1>6. code \in Seq(Codes) /\ Range(code) \subseteq Range(f.conexit) \union {registered + 1}
  <2>1. old \in Seq(Codes) /\ Range(old) \subseteq Range(f.conexit)
    <3>1. f.conexit \in Seq(Codes) /\ << >> \in Seq(Codes) /\ Range(<< >>) = {}
      BY <1>5, EmptySeq DEF FunctionFrames, Range
    <3> HIDE DEF f
    <3>2. old = f.conexit \/ old = << >>
      BY <1>4 DEF f
    <3> QED BY <3>1, <3>2
  <2>2. registered + 1 \in Codes
    BY Basics DEF Codes, OnExit
  <2>3. /\ code \in Seq(Codes) /\ Len(code) = Len(old) + 1 /\ Len(old) \in Nat
        /\ \A i \in 1..Len(old) : code[i] = old[i]
        /\ code[Len(old) + 1] = registered + 1
    BY <2>1, <2>2, AppendProperties, LenProperties
  <2>4. DOMAIN code = 1..Len(code) /\ DOMAIN old = 1..Len(old)
    BY <2>1, <2>3, LenProperties
  <2> HIDE DEF code
  <2>5. \A i \in DOMAIN code : code[i] \in Range(old) \union {registered + 1}
    BY <2>3, <2>4 DEF Range
  <2> QED BY <2>1, <2>3, <2>5 DEF Range
<1> HIDE DEF code
<1>7. /\ g \in Frames /\ Kept(f, g) /\ g.conexit = code
  <2>1. /\ g \in FunctionFrames /\ g.kind = f.kind /\ g.env = f.env /\ g.conexit = code
        /\ g.handlerstack = f.handlerstack /\ g.restartstack = f.restartstack
        /\ f.kind = "function"
    BY <1>5, <1>6 DEF FunctionFrames
  <2> HIDE DEF g
  <2> QED BY <2>1 DEF Frames, Kept
<1>8. stack' = [stack EXCEPT ![of] = g]
  BY <1>4 DEF code
<1> HIDE DEF g
<1>9. /\ stack' \in Seq(Frames) /\ Len(stack') = Len(stack)
      /\ \A i \in 1..Len(stack) : stack'[i] = IF i = of THEN g ELSE stack[i]
  BY <1>1, <1>3, <1>7, <1>8, ExceptSeq
<1>10. \A i \in 1..Len(stack) : Kept(stack[i], stack'[i])
  BY <1>7, <1>9 DEF Kept
<1>11. late \subseteq m
  BY <1>2
<1>12. ASSUME NEW i \in 1..Len(stack) - 1, OnlyLate(stack[i], late)
       PROVE  OnlyLate(stack'[i], m)
  <2>1. CASE i = of
    <3>1. registered + 1 \in m /\ stack'[i] = g /\ stack[i] = f
      BY <1>1, <1>3, <1>9, <2>1
    <3>2. Range(f.conexit) \subseteq late
      BY <1>3, <1>12, <3>1 DEF OnlyLate
    <3> QED BY <3>1, <3>2, <1>6, <1>7, <1>11 DEF OnlyLate
  <2>2. CASE i # of
    <3>1. stack'[i] = stack[i]
      BY <1>1, <1>9, <2>2
    <3> QED BY <3>1, <1>11, <1>12 DEF OnlyLate
  <2> QED BY <2>1, <2>2
<1> HIDE DEF m
<1>13. KeptInv(stack', m) /\ NowInv(stack', R_HandlerStack, R_RestartStack, m)
  <2>1. KeptInv(stack, late) /\ NowInv(stack, R_HandlerStack, R_RestartStack, late)
    BY RBasics
  <2> QED BY ONLY <2>1, <1>1, <1>9, <1>10, <1>11, <1>12, SameFrames
<1>14. Dropped(stack, late)
  BY <1>1, <1>9 DEF Dropped
<1> QED BY <1>2, <1>13, <1>14 DEF StepKept, m

\* The function on top is known, and what it has put back when it returns is not its own.
LEMMA NewEntry ==
  ASSUME IInv, RInv, Top.kind = "function", NEW e, e.env = Top.env
  PROVE  /\ Known(stack, Depth + 1, e.env, late)
         /\ \A i \in 1..Depth : Uncalled(stack[i], {e})
         /\ e \notin Range(Top.handlerstack)
<1>1. Depth \in Nat /\ Depth \in 1..Depth /\ Depth = Len(stack) /\ KeptInv(stack, late)
      /\ Top = stack[Depth]
  BY RBasics, Basics
<1>2. Known(stack, Depth + 1, e.env, late)
  <2>1. Depth \in 1..Depth + 1 - 1 /\ ~Gone(stack, Depth, Depth + 1, late)
    BY <1>1 DEF Gone
  <2> QED BY <1>1, <2>1 DEF Known
<1>3. \A i \in 1..Depth - 1 : Apart(stack[i], e.env)
  BY <1>1 DEF KeptInv, ApartInv
<1>4. ASSUME NEW i \in 1..Depth
      PROVE  Uncalled(stack[i], {e})
  <2>1. CASE i = Depth
    BY <1>1, <2>1 DEF Uncalled
  <2>2. CASE i # Depth
    <3>1. Apart(stack[i], e.env)
      BY <1>1, <1>3, <2>2
    <3> QED BY <3>1 DEF Apart, Uncalled
  <2> QED BY <2>1, <2>2
<1>5. ASSUME e \in Range(Top.handlerstack)
      PROVE  FALSE
  <2>1. Known(stack, Depth, e.env, late)
    BY <1>1, <1>5 DEF KeptInv, ScopeInv, EntriesIn
  <2>2. PICK j \in 1..Depth - 1 : stack[j].kind = "function" /\ stack[j].env = e.env
    BY <2>1 DEF Known
  <2> QED BY <1>3, <2>2 DEF Apart
<1> QED BY <1>2, <1>4, <1>5

LEMMA EntriesKept ==
  ASSUME IInv, RInv, AddCondHands \/ AddRestart
  PROVE  StepKept
<1>1. /\ KeptInv(stack, late) /\ NowInv(stack, R_HandlerStack, R_RestartStack, late)
      /\ Depth \in Nat /\ Depth = Len(stack) /\ Once(R_HandlerStack)
      /\ R_HandlerStack \in Saved /\ R_RestartStack \in Saved
  BY RBasics DEF IInv
<1>2. UNCHANGED <<stack, late>> /\ Top.kind = "function" /\ CodeEnv = Top.env
  BY DEF AddCondHands, AddRestart, exitcodes, CodeEnv
<1>3. Dropped(stack, late)
  BY <1>2, <1>1 DEF Dropped
<1>4. Top.env \in Envs
  BY <1>2, Basics, FrameOfKind DEF FunctionFrames
<1>5. ASSUME NEW s \in Saved, NEW e \in Entries
      PROVE  /\ Range(<< e >> \o s) = {e} \union Range(s)
             /\ Once(s) /\ e \notin Range(s) => Once(<< e >> \o s)
  <2> DEFINE t == << e >> \o s
  <2>1. s \in Seq(Entries) /\ << e >> \in Seq(Entries) /\ Len(<< e >>) = 1 /\ << e >>[1] = e
    BY DEF Saved
  <2>2. /\ Len(s) \in Nat /\ DOMAIN s = 1..Len(s) /\ t \in Seq(Entries)
        /\ Len(t) = 1 + Len(s) /\ t[1] = e /\ \A i \in 1..Len(s) : t[i + 1] = s[i]
    <3>1. /\ Len(s) \in Nat /\ DOMAIN s = 1..Len(s)
          /\ t \in Seq(Entries) /\ Len(t) = 1 + Len(s)
          /\ \A i \in 1..1 + Len(s) : t[i] = IF i <= 1 THEN << e >>[i] ELSE s[i - 1]
      BY <2>1, LenProperties, ConcatProperties
    <3> HIDE DEF t
    <3>2. t[1] = e
      BY <2>1, <3>1
    <3>3. \A i \in 1..Len(s) : t[i + 1] = s[i]
      BY <3>1
    <3> QED BY <3>1, <3>2, <3>3
  <2> HIDE DEF t
  <2>3. DOMAIN t = 1..Len(t)
    BY <2>2, LenProperties
  <2>4. \A i \in DOMAIN t : i = 1 \/ (i - 1 \in DOMAIN s /\ t[i] = s[i - 1])
    BY <2>2, <2>3
  <2>5. Range(t) = {e} \union Range(s)
    <3>1. Range(t) \subseteq {e} \union Range(s)
      BY <2>2, <2>4 DEF Range
    <3>2. 1 \in DOMAIN t /\ \A i \in DOMAIN s : i + 1 \in DOMAIN t
      BY <2>2, <2>3
    <3>3. e \in Range(t) /\ Range(s) \subseteq Range(t)
      BY <2>2, <3>2 DEF Range
    <3> QED BY <3>1, <3>3
  <2>6. ASSUME Once(s), e \notin Range(s), NEW i \in DOMAIN t, NEW j \in DOMAIN t, t[i] = t[j]
        PROVE  i = j
    <3>1. CASE i = 1 \/ j = 1
      BY <2>2, <2>4, <2>6, <3>1 DEF Range
    <3>2. CASE i # 1 /\ j # 1
      <4>1. i - 1 = j - 1
        BY <2>4, <2>6, <3>2 DEF Once
      <4> QED BY <4>1, <2>2, <2>3
    <3> QED BY <3>1, <3>2
  <2> QED BY <2>5, <2>6 DEF Once, t
<1>6. ASSUME NEW e \in Entries, e.env = Top.env
      PROVE  /\ \A x \in {e} \union Range(R_HandlerStack) \union Range(R_RestartStack) :
                  Known(stack, Len(stack) + 1, x.env, late)
             /\ \A i \in 1..Len(stack) : ~Left(stack, i, Len(stack) + 1) =>
                  Uncalled(stack[i], {e} \union Range(R_HandlerStack))
  BY <1>1, <1>2, <1>6, NewEntry DEF NowInv, Uncalled
<1>7. CASE AddCondHands
  <2>1. PICK calling \in BOOLEAN :
          R_HandlerStack' = << [env |-> CodeEnv, calling |-> calling] >> \o R_HandlerStack
    BY <1>7 DEF AddCondHands
  <2> DEFINE e == [env |-> Top.env, calling |-> calling]
  <2>2. e \in Entries /\ e.env = Top.env /\ R_HandlerStack' = << e >> \o R_HandlerStack
    BY <1>2, <1>4, <2>1 DEF Entries
  <2> HIDE DEF e
  <2>3. e \notin Range(R_HandlerStack) /\ R_RestartStack' = R_RestartStack
    BY <1>2, <1>7, <2>2, NewEntry DEF AddCondHands
  <2>4. Range(R_HandlerStack') = {e} \union Range(R_HandlerStack) /\ Once(R_HandlerStack')
    BY <1>1, <1>5, <2>2, <2>3
  <2>5. NowInv(stack, R_HandlerStack', R_RestartStack', late)
    BY <1>6, <2>2, <2>3, <2>4 DEF NowInv
  <2> QED BY <1>1, <1>2, <1>3, <2>5 DEF StepKept
<1>8. CASE AddRestart
  <2> DEFINE e == [env |-> Top.env, calling |-> FALSE]
  <2>1. e \in Entries /\ e.env = Top.env /\ R_RestartStack' = << e >> \o R_RestartStack
    BY <1>2, <1>4, <1>8 DEF Entries, AddRestart
  <2> HIDE DEF e
  <2>2. Range(R_RestartStack') = {e} \union Range(R_RestartStack)
    BY <1>1, <1>5, <2>1
  <2>3. R_HandlerStack' = R_HandlerStack
    BY <1>8 DEF AddRestart
  <2>4. NowInv(stack, R_HandlerStack', R_RestartStack', late)
    BY <1>1, <1>6, <2>1, <2>2, <2>3 DEF NowInv
  <2> QED BY <1>1, <1>2, <1>3, <2>4 DEF StepKept
<1> QED BY <1>7, <1>8

LEMMA EndFunctionKept ==
  ASSUME IInv, RInv, EndFunction
  PROVE  StepKept
<1>1. /\ KeptInv(stack, late) /\ stack \in Seq(Frames) /\ Depth \in Nat /\ Depth = Len(stack)
      /\ Depth \in 1..Depth /\ LinksInv(stack) /\ stack # << >> /\ Top \in Frames
      /\ Top = stack[Depth]
  BY RBasics, Basics
<1>2. /\ Top.kind = "function" /\ UNCHANGED late
      /\ R_HandlerStack' = Top.handlerstack /\ R_RestartStack' = Top.restartstack
  BY DEF EndFunction
<1>3. Top \in FunctionFrames
  BY <1>1, <1>2, FrameOfKind
<1>4. /\ \A e \in Range(R_HandlerStack') \union Range(R_RestartStack') :
           Known(stack, Depth, e.env, late)
      /\ Range(R_HandlerStack') = HandlersIn(Top) /\ Once(R_HandlerStack')
  <2>1. /\ EntriesIn(Top) = Range(R_HandlerStack') \union Range(R_RestartStack')
        /\ HandlersIn(Top) = Range(R_HandlerStack')
    BY <1>2 DEF EntriesIn, HandlersIn
  <2> QED BY <2>1, <1>1, <1>2 DEF KeptInv, ScopeInv, OnceInv, OnceIn
<1>5. CASE Top.conexit = << >>
  <2>1. stack' = Front(stack)
    BY <1>5 DEF EndFunction
  <2>2. /\ stack' \in Seq(Frames) /\ Len(stack') = Depth - 1
        /\ \A i \in 1..Depth - 1 : stack'[i] = stack[i]
    BY <2>1, <1>2, FrontInv
  <2>3. KeptInv(stack', late) /\ NowInv(stack', R_HandlerStack', R_RestartStack', late)
    BY <1>1, <1>4, <2>2, Restored
  <2>4. OnlyLate(Top, late)
    <3>1. Range(<< >>) = {}
      BY EmptySeq DEF Range
    <3> QED BY <3>1, <1>5 DEF OnlyLate
  <2>5. Dropped(stack, late)
    <3>1. \A i \in 1..Len(stack) : i > Len(stack') => i = Depth
      BY <1>1, <2>2
    <3> QED BY <3>1, <2>4, <1>1 DEF Dropped
  <2> QED BY <2>3, <2>5, <1>2 DEF StepKept
<1>6. CASE Top.conexit # << >>
  <2> DEFINE f == Exit(Depth, 0, Top.conexit)
             g == WithoutCode(Top)
             base == [stack EXCEPT ![Depth] = g]
             n == Depth + 2
  <2>1. stack' = Append(base, f)
    BY <1>1, <1>6 DEF EndFunction
  <2>2. f \in Frames /\ f.kind = "exit" /\ f.of = Depth /\ f.target = 0
    BY <1>1, <1>3 DEF Exit, Frames, ExitFrames, FunctionFrames
  <2>3. g \in FunctionFrames /\ g.conexit = << >> /\ Like(Top, g)
    BY <1>3, CodeTaken
  <2> HIDE DEF f, g
  <2>4. /\ base \in Seq(Frames) /\ Len(base) = Depth
        /\ \A j \in 1..Depth : base[j] = IF j = Depth THEN g ELSE stack[j]
    <3>1. g \in Frames
      BY <2>3 DEF Frames
    <3> QED BY <3>1, <1>1, ExceptSeq
  <2> HIDE DEF base
  <2>5. /\ stack' \in Seq(Frames) /\ Len(stack') = Len(stack) + 1
        /\ \A j \in 1..Len(stack) : stack'[j] = IF j = Depth THEN g ELSE stack[j]
        /\ stack'[Len(stack) + 1] = f
    BY <1>1, <2>1, <2>2, <2>4, AppendProperties
  <2>6. Kept(Top, g) /\ OnlyLate(g, late)
    <3>1. Range(<< >>) = {}
      BY EmptySeq DEF Range
    <3> QED BY <3>1, <1>2, <2>3, LikeKept DEF OnlyLate
  <2>7. \A i \in 1..Len(stack) : Kept(stack[i], stack'[i])
    BY <1>1, <2>5, <2>6 DEF Kept
  <2>8. TopInv(stack, stack', f, late)
    <3>1. EntriesIn(f) = {} /\ HandlersIn(f) = {} /\ OnceIn(f) /\ f.kind # "function"
      BY <2>2 DEF EntriesIn, HandlersIn, OnceIn
    <3>2. \A j \in f.of..Len(stack) : stack'[j] = g
      BY <1>1, <2>2, <2>5
    <3> QED BY <2>6, <3>1, <3>2 DEF TopInv, Uncalled
  <2>9. KeptInv(stack', late)
    <3>1. /\ Len(stack') <= Len(stack) + 1
          /\ \A i \in 1..Len(stack) : OnlyLate(stack[i], late) => OnlyLate(stack'[i], late)
      BY <1>1, <2>5, <2>6
    <3> QED BY <3>1, <1>1, <2>5, <2>7, <2>8, FramesKept
  <2>10. /\ \A j \in 1..Depth - 1 : Left(stack, j, Depth) => Left(stack', j, n)
         /\ \A e : Known(stack, Depth, e, late) => Known(stack', n, e, late)
    <3>1. /\ Depth \in Nat /\ n \in Nat /\ Depth <= n
          /\ \A i \in 1..Depth - 1 : Kept(stack[i], stack'[i])
      BY <1>1, <2>7
    <3>2. stack'[Depth].kind # "exit" /\ stack'[Depth + 1].of = Depth
      BY <1>1, <2>2, <2>3, <2>5 DEF FunctionFrames
    <3>3. \A i \in Depth..n - 1 : i = Depth \/ i = Depth + 1
      BY <1>1
    <3>4. \A i \in Depth..n - 1 : stack'[i].kind = "exit" =>
                                    stack'[i].of \in Nat /\ Depth <= stack'[i].of
      BY <1>1, <3>2, <3>3
    <3> HIDE DEF n
    <3> QED BY ONLY <3>1, <3>4, Onward
  <2>11. Len(stack') + 1 = n
    BY <1>1, <2>5
  <2>12. ASSUME NEW i \in 1..Len(stack'), ~Left(stack', i, n)
         PROVE  Uncalled(stack'[i], Range(R_HandlerStack'))
    <3>1. CASE i = Depth \/ i = Depth + 1
      BY <3>1, <1>1, <2>2, <2>3, <2>5 DEF Uncalled, FunctionFrames
    <3>2. CASE i # Depth /\ i # Depth + 1
      <4>1. i \in 1..Depth - 1 /\ i \in 1..Len(stack) /\ ~Left(stack, i, Depth)
        BY <3>2, <1>1, <2>5, <2>10, <2>12
      <4>2. Uncalled(stack[i], Range(R_HandlerStack'))
        BY <4>1, <1>1, <1>4 DEF KeptInv, HandledInv
      <4> QED BY <4>1, <4>2, <2>7, KeptIs
    <3> QED BY <3>1, <3>2
  <2> HIDE DEF n
  <2>13. NowInv(stack', R_HandlerStack', R_RestartStack', late)
    BY <1>4, <2>10, <2>11, <2>12 DEF NowInv
  <2>14. Dropped(stack, late)
    BY <1>1, <2>5 DEF Dropped
  <2> QED BY <2>9, <2>13, <2>14, <1>2 DEF StepKept
<1> QED BY <1>5, <1>6

LEMMA EndToplevelKept ==
  ASSUME IInv, RInv, EndToplevel
  PROVE  StepKept
<1>1. /\ KeptInv(stack, late) /\ stack \in Seq(Frames) /\ Depth \in Nat /\ Depth = Len(stack)
      /\ Depth \in 1..Depth /\ LinksInv(stack) /\ stack # << >> /\ Top = stack[Depth]
      /\ \A i \in 1..Depth : stack[i] \in Frames
  BY RBasics, Basics
<1>2. /\ Top.kind = "toplevel" /\ stack' = Front(stack) /\ Depth > 1 /\ UNCHANGED late
      /\ R_HandlerStack' = Top.oldHStack /\ R_RestartStack' = Top.restartstack
  BY DEF EndToplevel, exitcodes
<1>3. /\ \A e \in Range(R_HandlerStack') \union Range(R_RestartStack') :
           Known(stack, Depth, e.env, late)
      /\ Range(R_HandlerStack') \subseteq HandlersIn(Top) /\ Once(R_HandlerStack')
  <2>1. /\ Range(R_HandlerStack') \union Range(R_RestartStack') \subseteq EntriesIn(Top)
        /\ Range(R_HandlerStack') \subseteq HandlersIn(Top)
    BY <1>2 DEF EntriesIn, HandlersIn
  <2> QED BY <2>1, <1>1, <1>2 DEF KeptInv, ScopeInv, OnceInv, OnceIn
<1>4. /\ stack' \in Seq(Frames) /\ Len(stack') = Depth - 1
      /\ \A i \in 1..Depth - 1 : stack'[i] = stack[i]
  <2>1. \A i \in 1..Depth - 1 : stack[i] \in Frames
    BY <1>1
  <2> QED BY <2>1, <1>1, <1>2, SubSeqProperties DEF Front
<1>5. KeptInv(stack', late) /\ NowInv(stack', R_HandlerStack', R_RestartStack', late)
  BY <1>1, <1>3, <1>4, Restored
<1>6. Dropped(stack, late)
  <2>1. \A i \in 1..Len(stack) : i > Len(stack') => i = Depth
    BY <1>1, <1>4
  <2> QED BY <2>1, <1>1, <1>2 DEF Dropped, OnlyLate
<1> QED BY <1>5, <1>6, <1>2 DEF StepKept

LEMMA OptionDoneKept ==
  ASSUME IInv, RInv, OptionDone
  PROVE  StepKept
<1>1. /\ Top.kind = "option" /\ Unwind(Front(stack), Depth, R_ToplevelContext)
      /\ UNCHANGED late
  BY DEF OptionDone
<1>2. /\ KeptInv(stack, late) /\ stack \in Seq(Frames) /\ Depth \in Nat /\ Depth = Len(stack)
      /\ LinksInv(stack) /\ stack # << >> /\ Top = stack[Depth]
  BY RBasics, Basics
<1> DEFINE st == Front(stack)
<1>3. /\ StackInv(st, R_ToplevelContext, inError, ran, registered) /\ st \in Seq(Frames)
      /\ Len(st) = Depth - 1 /\ \A i \in 1..Depth - 1 : st[i] = stack[i]
  BY <1>1, FrontInv
<1>4. Unwind(st, Depth, R_ToplevelContext)
  BY <1>1
<1> HIDE DEF st
<1>5. KeptInv(st, late) /\ LinksInv(st)
  BY <1>2, <1>3, TakenOff DEF StackInv
<1>6. /\ R_ToplevelContext \in 1..Len(st) /\ Depth \in 1..Len(st) + 1
      /\ R_ToplevelContext < Depth
      /\ st[R_ToplevelContext].kind \in {"toplevel", "function"}
      /\ \A j \in Depth..Len(st) : OnlyLate(st[j], late)
  BY <1>2, <1>3 DEF StackInv, TopOf
<1>7. /\ KeptInv(stack', late) /\ NowInv(stack', R_HandlerStack', R_RestartStack', late)
      /\ Dropped(st, late)
  BY ONLY <1>3, <1>4, <1>5, <1>6, JumpedKept
<1>8. Dropped(stack, late)
  <2>1. \A i \in 1..Len(stack) : i = Depth \/ (i \in 1..Len(st) /\ st[i] = stack[i])
    BY <1>2, <1>3
  <2> QED BY <2>1, <1>1, <1>2, <1>7 DEF Dropped, OnlyLate
<1> QED BY <1>1, <1>7, <1>8 DEF StepKept

LEMMA ExitDoneKept ==
  ASSUME IInv, RInv, ExitDone
  PROVE  StepKept
<1>1. /\ KeptInv(stack, late) /\ NowInv(stack, R_HandlerStack, R_RestartStack, late)
      /\ stack \in Seq(Frames) /\ Depth \in Nat /\ Depth = Len(stack) /\ Depth \in 1..Depth
      /\ LinksInv(stack) /\ stack # << >> /\ Top = stack[Depth] /\ LinkAt(stack, Depth, Top)
      /\ \A i \in 1..Depth : stack[i] \in Frames
  BY RBasics, Basics
<1>2. Top.kind = "exit" /\ UNCHANGED late
  BY DEF ExitDone
<1>3. Top \in ExitFrames /\ Top.target \in Nat /\ Len(Top.todo) \in Nat
  <2>1. Top \in ExitFrames
    BY <1>1, <1>2, FrameOfKind
  <2> QED BY <2>1, LenProperties DEF ExitFrames
<1>4. \A j \in Top.of..Depth - 1 : OnlyLate(stack[j], late)
  BY <1>1, <1>2 DEF KeptInv, LateInv
<1>5. CASE Len(Top.todo) > 1
  <2> DEFINE g == [Top EXCEPT !.todo = Tail(Top.todo)]
  <2>1. stack' = [stack EXCEPT ![Depth] = g] /\ UNCHANGED <<R_HandlerStack, R_RestartStack>>
    BY <1>1, <1>5 DEF ExitDone, handlers
  <2>2. g \in ExitFrames /\ g.kind = "exit" /\ g.of = Top.of /\ g.target = Top.target
    <3>1. Top.todo \in Seq(Codes) /\ Top.todo # << >>
      BY <1>3, <1>5, EmptySeq DEF ExitFrames
    <3>2. Tail(Top.todo) \in Seq(Codes)
      BY <3>1, HeadTailProperties
    <3> QED BY <3>2, <1>3 DEF ExitFrames
  <2> HIDE DEF g
  <2>3. /\ stack' \in Seq(Frames) /\ Len(stack') = Len(stack)
        /\ \A j \in 1..Len(stack) : stack'[j] = IF j = Depth THEN g ELSE stack[j]
    <3>1. g \in Frames
      BY <2>2 DEF Frames
    <3> QED BY <3>1, <1>1, <2>1, ExceptSeq
  <2>4. /\ \A j \in 1..Len(stack) : Kept(stack[j], stack'[j])
        /\ \A j \in 1..Len(stack) - 1 : OnlyLate(stack[j], late) => OnlyLate(stack'[j], late)
    BY <1>1, <1>2, <2>2, <2>3 DEF Kept
  <2>5. KeptInv(stack', late) /\ NowInv(stack', R_HandlerStack, R_RestartStack, late)
    BY <1>1, <2>3, <2>4, SameFrames
  <2>6. Dropped(stack, late)
    BY <1>1, <2>3 DEF Dropped
  <2> QED BY <1>2, <2>1, <2>5, <2>6 DEF StepKept
<1>6. CASE Len(Top.todo) <= 1 /\ Top.target = 0
  <2> DEFINE k == Depth - 1
             n == Depth + 1
  <2>1. /\ stack' = SubSeq(stack, 1, Depth - 2)
        /\ UNCHANGED <<R_HandlerStack, R_RestartStack>>
    BY <1>3, <1>6 DEF ExitDone, handlers
  <2>2. Top.of = k /\ stack[k].kind = "function" /\ k \in 1..Depth
    BY <1>1, <1>2, <1>6 DEF LinkAt
  <2>3. /\ stack' \in Seq(Frames) /\ Len(stack') = Depth - 2
        /\ \A i \in 1..Depth - 2 : stack'[i] = stack[i]
    <3>1. (\A i \in 1..Depth - 2 : stack[i] \in Frames) /\ Depth - 2 \in Nat
      BY <1>1, <2>2
    <3> QED BY <3>1, <2>1, SubSeqProperties
  <2>4. KeptInv(stack', late)
    <3>1. /\ Len(stack') <= Len(stack) + 1 /\ Len(stack') # Len(stack) + 1
          /\ \A i \in 1..Len(stack) : i <= Len(stack') =>
               Kept(stack[i], stack'[i]) /\ (OnlyLate(stack[i], late) => OnlyLate(stack'[i], late))
      BY <1>1, <2>3 DEF Kept
    <3> QED BY <3>1, <1>1, <2>3, FramesKept
  <2>5. \A e : Known(stack, n, e, late) => Known(stack', k, e, late)
    <3>1. Gone(stack, k, n, late)
      BY <1>1, <1>2, <1>6, <2>2 DEF Gone
    <3>2. /\ k \in Nat /\ n \in Nat /\ k <= n /\ k <= k
          /\ \A i \in k..n - 1 : i = k \/ i = Depth
      BY <1>1, <2>2
    <3>3. \A i \in k..n - 1 : stack[i].kind # "function" \/ Gone(stack, i, n, late)
      BY <3>1, <3>2, <1>1, <1>2
    <3>4. (\A i \in 1..k - 1 : Kept(stack[i], stack'[i])) /\ \A i \in k..k - 1 : FALSE
      BY <1>1, <2>2, <2>3 DEF Kept
    <3> HIDE DEF k, n
    <3>5. \A e : Known(stack, n, e, late) => Known(stack, k, e, late)
      BY ONLY <3>2, <3>3, Downward
    <3>6. \A e : Known(stack, k, e, late) => Known(stack', k, e, late)
      BY ONLY <3>2, <3>4, Onward
    <3> QED BY <3>5, <3>6
  <2>6. ASSUME NEW i \in 1..k - 1, Left(stack, i, n)
        PROVE  Left(stack', i, k)
    <3>1. PICK j \in 1..Depth : /\ stack[j].kind = "exit" /\ stack[j].target > 0
                                /\ stack[j].of < i /\ i < j
      BY <2>6, <1>1 DEF Left
    <3>2. j \in 1..k - 1 /\ stack'[j] = stack[j]
      <4>1. j # Depth /\ j # Depth - 1
        BY <3>1, <1>1, <1>6, <2>2
      <4>2. j \in 1..Depth - 2
        BY <4>1, <1>1
      <4> QED BY <4>2, <1>1, <2>3
    <3> QED BY <3>1, <3>2 DEF Left
  <2>7. Len(stack') + 1 = k /\ Len(stack) + 1 = n
    BY <1>1, <2>3
  <2>8. ASSUME NEW i \in 1..Len(stack'), ~Left(stack', i, k)
        PROVE  Uncalled(stack'[i], Range(R_HandlerStack))
    <3>1. i \in 1..k - 1 /\ i \in 1..Len(stack) /\ stack'[i] = stack[i]
      BY <1>1, <2>3
    <3> QED BY <3>1, <1>1, <2>6, <2>7, <2>8 DEF NowInv
  <2> HIDE DEF k, n
  <2>9. NowInv(stack', R_HandlerStack, R_RestartStack, late)
    BY <1>1, <2>5, <2>7, <2>8 DEF NowInv
  <2>10. Dropped(stack, late)
    <3>1. \A i \in 1..Len(stack) : i > Len(stack') =>
            i = Depth \/ i \in Top.of..Depth - 1
      BY <1>1, <2>2, <2>3 DEF k
    <3> QED BY <3>1, <1>1, <1>2, <1>4 DEF Dropped, OnlyLate
  <2> QED BY <1>2, <2>1, <2>4, <2>9, <2>10 DEF StepKept
<1>7. CASE Len(Top.todo) <= 1 /\ Top.target # 0
  <2> DEFINE st == Front(stack)
             of == Top.of
             target == Top.target
  <2>1. Unwind(st, of, target)
    BY <1>3, <1>7 DEF ExitDone
  <2>2. /\ StackInv(st, R_ToplevelContext, inError, ran, registered) /\ st \in Seq(Frames)
        /\ Len(st) = Depth - 1 /\ \A i \in 1..Depth - 1 : st[i] = stack[i]
    BY <1>2, FrontInv
  <2>3. /\ target \in Nat /\ target > 0 /\ of \in 1..Depth - 1 /\ target < of
        /\ stack[target].kind \in {"toplevel", "function"}
        /\ \A j \in of..Depth - 1 : OnlyLate(stack[j], late)
    BY <1>1, <1>2, <1>3, <1>4, <1>7 DEF LinkAt
  <2> HIDE DEF st, of, target
  <2>4. KeptInv(st, late) /\ LinksInv(st)
    BY <1>1, <2>2, TakenOff DEF StackInv
  <2>5. /\ of \in 1..Len(st) + 1 /\ target \in 1..Len(st)
        /\ st[target].kind \in {"toplevel", "function"}
    BY <1>1, <2>2, <2>3
  <2>6. \A j \in of..Len(st) : OnlyLate(st[j], late)
    <3>1. \A j \in of..Len(st) : j \in of..Depth - 1 /\ st[j] = stack[j]
      BY <1>1, <2>2, <2>3
    <3> QED BY <3>1, <2>3
  <2>7. /\ KeptInv(stack', late) /\ NowInv(stack', R_HandlerStack', R_RestartStack', late)
        /\ Dropped(st, late)
    BY ONLY <2>1, <2>2, <2>3, <2>4, <2>5, <2>6, JumpedKept
  <2>8. Dropped(stack, late)
    <3>1. \A i \in 1..Len(stack) : i = Depth \/ (i \in 1..Len(st) /\ st[i] = stack[i])
      BY <1>1, <2>2
    <3> QED BY <3>1, <1>1, <1>2, <2>7 DEF Dropped, OnlyLate
  <2> QED BY <1>2, <2>7, <2>8 DEF StepKept
<1> QED BY <1>3, <1>5, <1>6, <1>7

\* Where no function is on top, what is known is so below it.
LEMMA NoFunctionOnTop ==
  ASSUME IInv, RInv, Top.kind = "signal"
  PROVE  /\ \A e \in Range(R_HandlerStack) \union Range(R_RestartStack) :
              Known(stack, Depth, e.env, late)
         /\ \A i \in 1..Depth - 1 : ~Left(stack, i, Depth) =>
              Uncalled(stack[i], Range(R_HandlerStack))
<1> DEFINE n == Depth + 1
<1>1. /\ Depth \in Nat /\ n \in Nat /\ Depth <= n /\ Depth = Len(stack) /\ Top = stack[Depth]
      /\ NowInv(stack, R_HandlerStack, R_RestartStack, late)
  BY RBasics, Basics
<1>2. \A i \in Depth..n - 1 : stack[i].kind # "function"
  <2>1. \A i \in Depth..n - 1 : i = Depth
    BY <1>1
  <2> QED BY <2>1, <1>1
<1>3. ASSUME NEW i \in 1..Depth - 1, Left(stack, i, n)
      PROVE  Left(stack, i, Depth)
  <2>1. PICK j \in 1..Depth : /\ stack[j].kind = "exit" /\ stack[j].target > 0
                              /\ stack[j].of < i /\ i < j
    BY <1>1, <1>3 DEF Left
  <2>2. j \in 1..Depth - 1
    BY <1>1, <2>1
  <2> QED BY <2>1, <2>2 DEF Left
<1>4. \A e : Known(stack, n, e, late) => Known(stack, Depth, e, late)
  <2> HIDE DEF n
  <2> QED BY <1>1, <1>2, Downward
<1> QED BY <1>1, <1>3, <1>4 DEF NowInv

LEMMA CallHandlerKept ==
  ASSUME IInv, RInv, CallHandler
  PROVE  StepKept
<1>1. /\ KeptInv(stack, late) /\ stack \in Seq(Frames) /\ Depth \in Nat /\ Depth = Len(stack)
      /\ Depth \in 1..Depth /\ LinksInv(stack) /\ stack # << >> /\ Top = stack[Depth]
      /\ Top \in Frames /\ R_HandlerStack \in Saved /\ Once(R_HandlerStack)
  BY RBasics, Basics DEF IInv
<1>2. PICK i \in DOMAIN R_HandlerStack :
        /\ stack' = Append([stack EXCEPT ![Depth].entry = R_HandlerStack[i]],
                           Function(NewEnv, HandlersFor(i)))
        /\ R_HandlerStack' = HandlersFor(i)
  BY DEF CallHandler
<1>3. Top.kind = "signal" /\ Free # {} /\ UNCHANGED <<R_RestartStack, late>>
  BY DEF CallHandler, exitcodes
<1> DEFINE e == R_HandlerStack[i]
           H == HandlersFor(i)
           front == Front(stack)
<1>4. /\ e \in Entries /\ e \in Range(R_HandlerStack)
      /\ H \in Saved /\ Range(H) \subseteq Range(R_HandlerStack) /\ Once(H) /\ e \notin Range(H)
  BY <1>1, AtEnd, LaterEntries DEF HandlersFor, Range
<1>5. /\ front \in Seq(Frames) /\ Len(front) = Depth - 1
      /\ \A j \in 1..Depth - 1 : front[j] = stack[j]
      /\ LinksInv(front)
  BY <1>3, FrontInv DEF StackInv
<1> DEFINE f == Function(NewEnv, H)
           g == [Top EXCEPT !.entry = e]
           base == [stack EXCEPT ![Depth] = g]
<1>6. /\ f \in Frames /\ f.kind = "function" /\ f.env = NewEnv
      /\ f.handlerstack = H /\ f.restartstack = R_RestartStack
  BY <1>3, <1>4, FunctionFrame DEF Function
<1>7. g \in Frames /\ g.kind = "signal" /\ g.oldstack = Top.oldstack /\ g.entry = e
  <2>1. Top \in SignalFrames
    BY <1>1, <1>3, FrameOfKind
  <2> QED BY <2>1, <1>4 DEF SignalFrames, Frames
<1>8. stack' = Append(base, f) /\ R_HandlerStack' = H
  BY <1>1, <1>2
<1> HIDE DEF e, f, g, H, front
<1>9. /\ base \in Seq(Frames) /\ Len(base) = Depth
      /\ \A j \in 1..Depth : base[j] = IF j = Depth THEN g ELSE stack[j]
  BY <1>1, <1>7, ExceptSeq
<1> HIDE DEF base
<1>10. LinksInv(base)
  <2>1. \A j \in 1..Len(stack) : Alike(stack[j], base[j])
    BY <1>1, <1>3, <1>7, <1>9 DEF Alike
  <2>2. Len(base) <= Len(stack) + 1 /\ Len(base) # Len(stack) + 1
    BY <1>1, <1>9
  <2> QED BY ONLY <2>1, <2>2, <1>1, <1>9, LinksKept
<1>11. /\ KeptInv(front, late)
       /\ \A x : Known(stack, Depth, x, late) => Known(front, Depth, x, late)
       /\ \A j \in 1..Depth - 1 : Left(stack, j, Depth) => Left(front, j, Depth)
  <2>1. /\ KeptInv(front, late)
        /\ \A x : Known(stack, Len(stack), x, late) => Known(front, Len(front) + 1, x, late)
        /\ \A j \in 1..Len(front) : Left(stack, j, Len(stack)) => Left(front, j, Len(front) + 1)
    BY ONLY <1>1, <1>5, TakenOff
  <2>2. Len(front) + 1 = Depth
    BY <1>1, <1>5
  <2> QED BY <2>1, <2>2, <1>1, <1>5
<1>12. \A j \in 1..Depth - 1 : ~Left(stack, j, Depth) => Uncalled(stack[j], HandlersIn(g))
  <2>1. HandlersIn(g) \subseteq HandlersIn(Top) \union Range(R_HandlerStack)
    BY <1>3, <1>4, <1>7 DEF HandlersIn
  <2>2. \A j \in 1..Depth - 1 : ~Left(stack, j, Depth) =>
          Uncalled(stack[j], HandlersIn(Top)) /\ Uncalled(stack[j], Range(R_HandlerStack))
    BY <1>1, <1>3, NoFunctionOnTop DEF KeptInv, HandledInv
  <2> QED BY <2>1, <2>2 DEF Uncalled
<1>13. KeptInv(base, late)
  <2>1. TopInv(front, base, g, late)
    <3>1. \A x \in EntriesIn(g) : Known(front, Depth, x.env, late)
      <4>1. EntriesIn(g) = EntriesIn(Top)
        BY <1>3, <1>7 DEF EntriesIn
      <4> QED BY <4>1, <1>1, <1>11 DEF KeptInv, ScopeInv
    <3>2. \A j \in 1..Len(front) : ~Left(front, j, Depth) => Uncalled(front[j], HandlersIn(g))
      BY <1>1, <1>5, <1>11, <1>12
    <3>3. OnceIn(g)
      BY <1>1, <1>3, <1>7 DEF OnceIn, KeptInv, OnceInv
    <3>4. Len(front) + 1 = Depth
      BY <1>1, <1>5
    <3> QED BY <3>1, <3>2, <3>3, <3>4, <1>7 DEF TopInv
  <2>2. /\ Len(base) = Len(front) + 1 /\ base[Len(front) + 1] = g
        /\ \A j \in 1..Len(front) : base[j] = front[j]
    BY <1>1, <1>5, <1>9
  <2>3. /\ Len(base) <= Len(front) + 1
        /\ \A j \in 1..Len(front) : Kept(front[j], base[j])
        /\ \A j \in 1..Len(front) : OnlyLate(front[j], late) => OnlyLate(base[j], late)
    BY <1>1, <1>5, <2>2 DEF Kept
  <2> QED BY <2>1, <2>2, <2>3, <1>5, <1>9, <1>11, FramesKept
<1>14. NowInv(base, H, R_RestartStack, late)
  <2> DEFINE n == Depth + 1
  <2>1. /\ \A j \in 1..Depth - 1 : Left(stack, j, Depth) => Left(base, j, n)
        /\ \A x : Known(stack, Depth, x, late) => Known(base, n, x, late)
    <3>1. /\ Depth \in Nat /\ n \in Nat /\ Depth <= n
          /\ \A j \in 1..Depth - 1 : Kept(stack[j], base[j])
      BY <1>1, <1>9 DEF Kept
    <3>2. base[Depth].kind # "exit" /\ \A j \in Depth..n - 1 : j = Depth
      BY <1>1, <1>7, <1>9
    <3>3. \A j \in Depth..n - 1 : base[j].kind # "exit"
      BY <3>2
    <3> HIDE DEF n
    <3> QED BY ONLY <3>1, <3>3, Onward
  <2>2. ASSUME NEW x \in Range(H) \union Range(R_RestartStack)
        PROVE  Known(base, n, x.env, late)
    BY <1>3, <1>4, <2>1, <2>2, NoFunctionOnTop
  <2>3. ASSUME NEW j \in 1..Depth, ~Left(base, j, n)
        PROVE  Uncalled(base[j], Range(H))
    <3>1. CASE j = Depth
      BY <3>1, <1>4, <1>7, <1>9 DEF Uncalled
    <3>2. CASE j # Depth
      <4>1. j \in 1..Depth - 1 /\ base[j] = stack[j] /\ ~Left(stack, j, Depth)
        BY <3>2, <1>1, <1>9, <2>1, <2>3
      <4>2. Uncalled(stack[j], Range(R_HandlerStack))
        BY <4>1, <1>3, NoFunctionOnTop
      <4> QED BY <4>1, <4>2, <1>4 DEF Uncalled
    <3> QED BY <3>1, <3>2
  <2>4. Len(base) + 1 = n
    BY <1>9
  <2> HIDE DEF n
  <2> QED BY <1>4, <1>9, <2>2, <2>3, <2>4 DEF NowInv
<1>15. KeptInv(stack', late) /\ NowInv(stack', H, R_RestartStack, late)
  <2>1. /\ EntriesIn(f) = Range(H) \union Range(R_RestartStack) /\ HandlersIn(f) = Range(H)
        /\ OnceIn(f) /\ f.kind # "exit" /\ Uncalled(f, {f.entry})
    BY <1>4, <1>6 DEF EntriesIn, HandlersIn, OnceIn, Uncalled
  <2>2. \A j \in 1..Len(base) : Apart(base[j], f.env)
    <3>1. \A j \in 1..Depth : Apart(stack[j], NewEnv)
      BY <1>3, NewEnvApart
    <3>2. e.env # NewEnv
      BY <1>3, <1>4, NewEnvApart
    <3>3. Apart(g, NewEnv)
      BY <3>2, <1>7 DEF Apart
    <3> QED BY <3>1, <3>3, <1>6, <1>9
  <2> QED BY <2>1, <2>2, <1>4, <1>6, <1>8, <1>9, <1>10, <1>13, <1>14, PutOn
<1>16. Dropped(stack, late)
  <2>1. Len(stack') = Len(stack) + 1
    BY <1>1, <1>6, <1>8, <1>9, AppendProperties
  <2> QED BY <2>1, <1>1 DEF Dropped
<1> QED BY <1>3, <1>8, <1>15, <1>16 DEF StepKept

LEMMA NoHandlerKept ==
  ASSUME IInv, RInv, NoHandler
  PROVE  StepKept
<1>1. /\ KeptInv(stack, late) /\ stack \in Seq(Frames) /\ Depth \in Nat /\ Depth = Len(stack)
      /\ Depth \in 1..Depth /\ LinksInv(stack) /\ stack # << >> /\ Top = stack[Depth]
      /\ inError \in 0..3 /\ registered \in Nat
  BY RBasics, Basics DEF IInv
<1>2. Top.kind = "signal" /\ UNCHANGED late
  BY DEF NoHandler
<1> DEFINE front == Front(stack)
           H == Top.oldstack
<1>3. /\ StackInv(front, R_ToplevelContext, inError, ran, registered)
      /\ front \in Seq(Frames) /\ Len(front) = Depth - 1
      /\ \A i \in 1..Depth - 1 : front[i] = stack[i]
  BY <1>2, FrontInv
<1> HIDE DEF front
<1>4. Range(H) \subseteq HandlersIn(Top) /\ Range(H) = EntriesIn(Top) /\ Once(H)
  BY <1>1, <1>2 DEF HandlersIn, EntriesIn, KeptInv, OnceInv, OnceIn
<1>5. \A e \in Range(H) \union Range(R_RestartStack) : Known(stack, Depth, e.env, late)
  BY <1>1, <1>2, <1>4, NoFunctionOnTop DEF KeptInv, ScopeInv
<1> HIDE DEF H
<1>6. KeptInv(front, late) /\ NowInv(front, H, R_RestartStack, late)
  BY <1>1, <1>3, <1>4, <1>5, Restored
<1>7. CASE ~Top.error
  <2>1. stack' = front /\ R_HandlerStack' = H /\ UNCHANGED R_RestartStack
    BY <1>7 DEF NoHandler, front, H
  <2>2. Dropped(stack, late)
    <3>1. \A i \in 1..Len(stack) : i > Len(stack') => i = Depth
      BY <1>1, <1>3, <2>1
    <3> QED BY <3>1, <1>1, <1>2 DEF Dropped, OnlyLate
  <2> QED BY <1>2, <1>6, <2>1, <2>2 DEF StepKept
<1>8. CASE Top.error
  <2> DEFINE c == [kind |-> "ccode", cend |-> inError]
             st == Append(front, c)
  <2>1. IF ErrorOption /\ inError = 0
          THEN stack' = Append(st, Option) /\ R_HandlerStack' = H /\ UNCHANGED R_RestartStack
          ELSE Unwind(st, Len(st) + 1, R_ToplevelContext)
    BY <1>8 DEF NoHandler, Ccode, front, H
  <2>2. /\ StackInv(st, R_ToplevelContext, inError, ran, registered)
        /\ Len(st) = Depth /\ \A i \in 1..Depth - 1 : st[i] = stack[i]
    <3>1. c = [kind |-> "ccode", cend |-> inError] /\ st = Append(front, c)
      OBVIOUS
    <3> HIDE DEF st, c
    <3>2. /\ StackInv(st, R_ToplevelContext, inError, ran, registered)
          /\ Len(st) = Len(front) + 1 /\ \A i \in 1..Len(front) : st[i] = front[i]
      <4>1. /\ StackInv(front, R_ToplevelContext, inError, ran, registered)
            /\ inError \in 0..3 /\ registered \in Nat
        BY <1>1, <1>3
      <4>2. StackInv(st, R_ToplevelContext, inError, ran, registered)
        BY ONLY <3>1, <4>1, CcodePushed
      <4>3. Len(st) = Len(front) + 1
        BY ONLY <3>1, <4>1, CcodePushed
      <4>4. \A i \in 1..Len(front) : st[i] = front[i]
        BY ONLY <3>1, <4>1, CcodePushed
      <4> QED BY <4>2, <4>3, <4>4
    <3> QED BY <3>2, <1>1, <1>3
  <2>3. c \in Frames /\ c.kind = "ccode" /\ st = Append(front, c)
    BY <1>1 DEF Frames, CcodeFrames, NoCend
  <2> HIDE DEF c, st
  <2>4. st \in Seq(Frames) /\ LinksInv(st) /\ TopOf(st, R_ToplevelContext)
    BY <2>2 DEF StackInv
  <2>5. KeptInv(st, late) /\ NowInv(st, H, R_RestartStack, late)
    <3>1. /\ EntriesIn(c) = {} /\ HandlersIn(c) = {} /\ OnceIn(c) /\ Uncalled(c, {c.entry})
          /\ c.kind # "exit" /\ c.kind # "function"
      BY <2>3 DEF EntriesIn, HandlersIn, OnceIn, Uncalled
    <3>2. LinksInv(front)
      BY <1>3 DEF StackInv
    <3> QED BY <3>1, <3>2, <1>3, <1>4, <1>6, <2>3, PutOn
  <2>6. ASSUME Dropped(st, late)
        PROVE  Dropped(stack, late)
    <3>1. \A i \in 1..Len(stack) : i = Depth \/ (i \in 1..Len(st) /\ st[i] = stack[i])
      BY <1>1, <2>2
    <3> QED BY <3>1, <1>1, <1>2, <2>6 DEF Dropped, OnlyLate
  <2>7. CASE ErrorOption /\ inError = 0
    <3>1. stack' = Append(st, Option) /\ R_HandlerStack' = H /\ UNCHANGED R_RestartStack
      BY <2>1, <2>7
    <3>2. /\ Option \in Frames /\ EntriesIn(Option) = {} /\ HandlersIn(Option) = {}
          /\ OnceIn(Option) /\ Uncalled(Option, {Option.entry})
          /\ Option.kind # "exit" /\ Option.kind # "function"
      BY DEF Option, Frames, OptionFrames, EntriesIn, HandlersIn, OnceIn, Uncalled
    <3>3. KeptInv(stack', late) /\ NowInv(stack', H, R_RestartStack, late)
      BY <3>1, <3>2, <1>4, <2>4, <2>5, PutOn
    <3>4. Len(stack') = Len(st) + 1
      BY <3>1, <3>2, <2>4, AppendProperties
    <3>5. Dropped(stack, late)
      BY <3>4, <1>1, <2>2 DEF Dropped
    <3> QED BY <3>1, <3>3, <3>5, <1>2 DEF StepKept
  <2>8. CASE ~(ErrorOption /\ inError = 0)
    <3>1. Unwind(st, Len(st) + 1, R_ToplevelContext)
      BY <2>1, <2>8
    <3>2. /\ R_ToplevelContext \in 1..Len(st) /\ Len(st) + 1 \in 1..Len(st) + 1
          /\ R_ToplevelContext < Len(st) + 1
          /\ st[R_ToplevelContext].kind \in {"toplevel", "function"}
          /\ \A j \in Len(st) + 1..Len(st) : OnlyLate(st[j], late)
      BY <1>1, <2>2, <2>4 DEF TopOf
    <3>3. /\ KeptInv(stack', late) /\ NowInv(stack', R_HandlerStack', R_RestartStack', late)
          /\ Dropped(st, late)
      BY ONLY <3>1, <3>2, <2>4, <2>5, JumpedKept
    <3> QED BY <3>3, <1>2, <2>6 DEF StepKept
  <2> QED BY <2>7, <2>8
<1> QED BY <1>7, <1>8

\* RInv holds at first and is kept by every step.
LEMMA InitKept ==
  ASSUME Init
  PROVE  RInv
<1>1. /\ Len(stack) = 1 /\ stack[1].kind = "toplevel" /\ EntriesIn(stack[1]) = {}
      /\ OnceIn(stack[1]) /\ R_HandlerStack = << >> /\ R_RestartStack = << >>
  <2>1. Range(<< >>) = {} /\ Once(<< >>)
    BY EmptySeq DEF Range, Once
  <2> QED BY <2>1 DEF Init, EntriesIn, OnceIn
<1>2. \A i \in 1..Len(stack) : i = 1
  BY <1>1
<1>3. KeptInv(stack, late)
  <2>1. \A i \in 1..Len(stack) : stack[i].kind \notin {"function", "exit"} /\ 1..i - 1 = {}
    BY <1>1, <1>2
  <2>2. ScopeInv(stack, late) /\ OnceInv(stack)
    BY <1>1, <1>2 DEF ScopeInv, OnceInv
  <2>3. HandledInv(stack) /\ ApartInv(stack) /\ LateInv(stack, late)
    BY <2>1 DEF HandledInv, ApartInv, LateInv
  <2> QED BY <2>2, <2>3 DEF KeptInv
<1>4. NowInv(stack, R_HandlerStack, R_RestartStack, late)
  <2>1. Range(<< >>) = {} /\ Once(<< >>)
    BY EmptySeq DEF Range, Once
  <2> QED BY <2>1, <1>1, <1>2 DEF NowInv, Uncalled
<1> QED BY <1>3, <1>4 DEF RInv

\* RInv of the next state's variables is RInv in the next state.
LEMMA RInvNext ==
  ASSUME KeptInv(stack', late'), NowInv(stack', R_HandlerStack', R_RestartStack', late')
  PROVE  RInv'
BY DEF RInv, KeptInv, NowInv, ScopeInv, HandledInv, ApartInv, OnceInv, LateInv, Known, Gone,
       Left, Uncalled, Apart, OnceIn, Once, OnlyLate, EntriesIn, HandlersIn

LEMMA NextKept ==
  ASSUME IInv, RInv, Next
  PROVE  RInv' /\ Dropped(stack, late)
<1>1. StepKept
  BY CallKept, OnExitKept, EntriesKept, SignalKept, JumpsKept, AbortKept, ToplevelExecKept,
     EndFunctionKept, EndToplevelKept, ExitDoneKept, CallHandlerKept, NoHandlerKept,
     OptionDoneKept DEF Next
<1> QED BY <1>1, RInvNext DEF StepKept

LEMMA KeptInvariance == Spec => [](IInv /\ RInv)
<1>1. ASSUME RInv, UNCHANGED vars
      PROVE  RInv'
  <2>1. UNCHANGED <<stack, R_HandlerStack, R_RestartStack, late>>
    BY <1>1 DEF vars, exitcodes
  <2> QED BY <2>1, <1>1, RInvNext DEF RInv
<1>2. RInv /\ IInv /\ [Next]_vars => RInv'
  BY <1>1, NextKept
<1> QED BY InitKept, <1>2, Invariance, PTL DEF Spec

\* A handler or restart that can be used is that of a function that has not been left, until
\* exit code gives exit code, and of one that is still on the stack even then: R_run_onexits
\* and endcontext put back what the function had before they run its exit code.
THEOREM HandlersStayAlive == Spec => []HandlersAlive
<1>1. ASSUME IInv, RInv
      PROVE  HandlersAlive
  <2> DEFINE list == R_HandlerStack \o R_RestartStack
             alive == IF late = {} THEN DOMAIN stack \ Dead ELSE DOMAIN stack
             n == Len(stack) + 1
  <2>1. /\ DOMAIN stack = 1..Len(stack) /\ Len(stack) \in Nat
        /\ NowInv(stack, R_HandlerStack, R_RestartStack, late)
    BY <1>1, Basics, RBasics
  <2>2. \A i \in DOMAIN list : list[i] \in Range(R_HandlerStack) \union Range(R_RestartStack)
    <3>1. R_HandlerStack \in Seq(Entries) /\ R_RestartStack \in Seq(Entries)
      BY <1>1 DEF IInv, Saved
    <3>2. /\ Len(R_HandlerStack) \in Nat /\ DOMAIN R_HandlerStack = 1..Len(R_HandlerStack)
          /\ Len(R_RestartStack) \in Nat /\ DOMAIN R_RestartStack = 1..Len(R_RestartStack)
      BY <3>1, LenProperties
    <3>3. /\ list \in Seq(Entries) /\ Len(list) = Len(R_HandlerStack) + Len(R_RestartStack)
          /\ \A j \in 1..Len(R_HandlerStack) + Len(R_RestartStack) :
               list[j] = IF j <= Len(R_HandlerStack) THEN R_HandlerStack[j]
                         ELSE R_RestartStack[j - Len(R_HandlerStack)]
      BY <3>1, ConcatProperties
    <3> HIDE DEF list
    <3>4. DOMAIN list = 1..Len(list)
      BY <3>3, LenProperties
    <3>5. ASSUME NEW j \in DOMAIN list
          PROVE  list[j] \in Range(R_HandlerStack) \union Range(R_RestartStack)
      <4>1. CASE j <= Len(R_HandlerStack)
        BY <3>2, <3>3, <3>4, <3>5, <4>1 DEF Range
      <4>2. CASE ~(j <= Len(R_HandlerStack))
        <5>1. j - Len(R_HandlerStack) \in DOMAIN R_RestartStack
          BY <3>2, <3>3, <3>4, <3>5, <4>2
        <5> QED BY <5>1, <3>3, <3>4, <3>5, <4>2 DEF Range
      <4> QED BY <4>1, <4>2
    <3> QED BY <3>5
  <2> HIDE DEF list, alive
  <2>3. ASSUME NEW e, Known(stack, n, e, late)
        PROVE  e \in {stack[i].env : i \in {j \in alive : stack[j].kind = "function"}}
    <3>1. PICK j \in 1..Len(stack) : /\ stack[j].kind = "function" /\ stack[j].env = e
                                     /\ ~Gone(stack, j, n, late)
      BY <2>1, <2>3 DEF Known
    <3>2. ASSUME late = {}, j \in Dead
          PROVE  FALSE
      <4>1. PICK i \in 1..Len(stack) : /\ stack[i].kind = "exit" /\ stack[i].target > 0
                                       /\ j \in stack[i].of + 1..i - 1
        BY <2>1, <3>2 DEF Dead
      <4>2. stack[i].of \in 1..i - 1
        BY <1>1, <4>1, Basics DEF LinksInv, LinkAt
      <4>3. i \in 1..n - 1 /\ stack[i].of <= j /\ j < i
        BY <2>1, <4>1, <4>2
      <4> QED BY <3>1, <3>2, <4>1, <4>3 DEF Gone
    <3>3. j \in alive
      BY <2>1, <3>1, <3>2 DEF alive
    <3> QED BY <3>1, <3>3
  <2>4. EnvsIn(list) \subseteq {stack[i].env : i \in {j \in alive : stack[j].kind = "function"}}
    <3>1. ASSUME NEW i \in DOMAIN list
          PROVE  list[i].env \in
                   {stack[j].env : j \in {k \in alive : stack[k].kind = "function"}}
      BY <2>1, <2>2, <2>3, <3>1 DEF NowInv
    <3> QED BY <3>1 DEF EnvsIn
  <2> QED BY <2>4 DEF HandlersAlive, list, alive
<1> QED BY <1>1, KeptInvariance, PTL

\* No handler is called while the loop of do_signalCondition that called it before has not
\* been left: what it was called with is what was established before it.
THEOREM NotCalledAgain == Spec => []NotReentered
<1>1. ASSUME IInv, RInv
      PROVE  NotReentered
  <2>1. /\ DOMAIN stack = 1..Len(stack) /\ Len(stack) \in Nat /\ HandledInv(stack)
        /\ LinksInv(stack)
    BY <1>1, Basics, RBasics DEF KeptInv
  <2>2. ASSUME NEW i \in 1..Len(stack), NEW j \in 1..Len(stack), i < j, i \notin Dead,
               stack[i].kind = "signal", stack[i].entry # NoEntry,
               stack[j].kind = "signal", stack[j].entry = stack[i].entry
        PROVE  FALSE
    <3>1. stack[i].entry \in HandlersIn(stack[j])
      BY <2>2 DEF HandlersIn
    <3>2. i \in 1..j - 1
      BY <2>1, <2>2
    <3>3. Left(stack, i, j)
      BY <2>1, <2>2, <3>1, <3>2 DEF HandledInv, Uncalled
    <3>4. PICK k \in 1..j - 1 : /\ stack[k].kind = "exit" /\ stack[k].target > 0
                                /\ stack[k].of < i /\ i < k
      BY <3>3 DEF Left
    <3>5. k \in 1..Len(stack)
      BY <2>1
    <3>6. stack[k].of \in 1..k - 1
      BY <2>1, <3>4, <3>5 DEF LinksInv, LinkAt
    <3>7. i \in stack[k].of + 1..k - 1
      BY <3>4, <3>6
    <3> QED BY <2>1, <2>2, <3>4, <3>5, <3>7 DEF Dead
  <2>3. ASSUME NEW i \in DOMAIN stack \ Dead, NEW j \in DOMAIN stack \ Dead,
               stack[i].kind = "signal", stack[i].entry # NoEntry,
               stack[j].kind = "signal", stack[j].entry # NoEntry,
               stack[i].entry = stack[j].entry
        PROVE  i = j
    <3>1. i \in 1..Len(stack) /\ j \in 1..Len(stack) /\ i \notin Dead /\ j \notin Dead
      BY <2>1
    <3>2. ~(i < j) /\ ~(j < i)
      BY <2>2, <2>3, <3>1
    <3> QED BY <3>1, <3>2
  <2> QED BY <2>3 DEF NotReentered
<1> QED BY <1>1, KeptInvariance, PTL

\* The exit code of a function that is no longer on the stack was started on, but for what
\* exit code itself gave (R_run_onexits, endcontext): LateInv says that what a jump has passed
\* has none left.
THEOREM CodeStarted == Spec => ExitsStarted
<1>1. ASSUME IInv, RInv, [Next]_vars
      PROVE  [\A i \in DOMAIN stack : stack[i].kind = "function" /\ i > Len(stack') =>
                \A n \in DOMAIN stack[i].conexit : stack[i].conexit[n] \in late]_vars
  <2>1. CASE UNCHANGED vars
    BY <2>1
  <2>2. CASE Next
    <3>1. Dropped(stack, late) /\ DOMAIN stack = 1..Len(stack)
      BY <1>1, <2>2, NextKept, Basics
    <3> QED BY <3>1 DEF Dropped, OnlyLate, Range
  <2> QED BY <1>1, <2>1, <2>2
<1> QED BY <1>1, KeptInvariance, PTL DEF Spec, ExitsStarted
=============================================================================
