------------------------------ MODULE Contexts ------------------------------
(***************************************************************************)
(* Contexts, exit code, handlers and restarts: how R functions are left by *)
(* returning, by jumps and by errors (src/src/main/eval.c, context.c,      *)
(* errors.c), and how finalizers and C code are kept apart from what they  *)
(* interrupt (RunFinalizers, R_ToplevelExec).                              *)
(*                                                                         *)
(* The stack has the contexts (RCNTXT) and, between them, the loops of C   *)
(* code that have called R code and go on when it is done.                 *)
(***************************************************************************)
EXTENDS Integers, Sequences, FiniteSets, FiniteSetsExt, SequencesExt

CONSTANTS MaxDepth,      \* bounds on the length of the stack where R code is evaluated,
          MaxExits,      \* on how often code is given to on.exit,
          MaxEntries,    \* and on how many handlers and restarts there are
          ErrorOption    \* whether options("error") is set

ASSUME ConstantsAssumption ==
  {MaxDepth, MaxExits, MaxEntries} \subseteq Nat /\ ErrorOption \in BOOLEAN

VARIABLES stack,         \* the last one is the innermost
          R_HandlerStack, R_RestartStack,   \* the last one established first
          R_ToplevelContext, inError,
          registered, late, ran   \* the number of exit codes given, those given by exit
                                  \* code, and those that have been run

handlers == <<R_HandlerStack, R_RestartStack>>
exitcodes == <<registered, late, ran>>
vars == <<stack, R_HandlerStack, R_RestartStack, R_ToplevelContext, inError,
          exitcodes>>

Envs == 1..MaxDepth
Codes == 1..MaxExits
Entries == [env : Envs, calling : BOOLEAN]
NoEntry == [env |-> 0, calling |-> FALSE]

\* CTXT_TOPLEVEL, with what RunFinalizers or R_ToplevelExec restores in the end.
Toplevel(clears) ==
  [kind |-> "toplevel", handlerstack |-> IF clears THEN << >> ELSE R_HandlerStack,
   restartstack |-> R_RestartStack, left |-> FALSE,
   oldHStack |-> R_HandlerStack, saveToplevelContext |-> R_ToplevelContext]

\* CTXT_FUNCTION.  A function that has been jumped to has been "left": it only returns.
Function(env, hs) ==
  [kind |-> "function", handlerstack |-> hs, restartstack |-> R_RestartStack,
   env |-> env, conexit |-> << >>, left |-> FALSE]

\* CTXT_CCODE of the default error handling, with restore_inError for its cend.
NoCend == 4
Ccode == [kind |-> "ccode", cend |-> inError]

\* The loop of do_signalCondition or vsignalError, "entry" being the one called.
Signalling(error) == [kind |-> "signal", error |-> error, oldstack |-> R_HandlerStack,
                      entry |-> NoEntry]

\* The running of the exit code "todo" of the context at "of", by endcontext if target
\* is 0, and otherwise by R_run_onexits on the way to the target.
Exit(of, target, todo) == [kind |-> "exit", of |-> of, target |-> target, todo |-> todo]

\* The evaluation of options("error") in jump_to_top_ex.
Option == [kind |-> "option"]

Init ==
  /\ stack = << [kind |-> "toplevel", handlerstack |-> << >>, restartstack |-> << >>,
                 left |-> FALSE, oldHStack |-> << >>, saveToplevelContext |-> 1] >>
  /\ R_HandlerStack = << >> /\ R_RestartStack = << >>
  /\ R_ToplevelContext = 1 /\ inError = 0 /\ registered = 0 /\ late = {} /\ ran = {}

Depth == Len(stack)
Top == stack[Depth]
IsContext(f) == f.kind \in {"toplevel", "function", "ccode"}

\* R code is being evaluated, in the environment of ...
Evaluating == Top.kind \in {"toplevel", "function", "exit", "option"}
              /\ (Top.kind \in {"toplevel", "function"} => ~Top.left)
CodeEnv == CASE Top.kind = "function" -> Top.env
             [] Top.kind = "exit" -> stack[Top.of].env
             [] OTHER -> 0

\* An environment that nothing refers to any more can be that of another function.
EnvsIn(list) == {list[i].env : i \in DOMAIN list}
EnvsOf(f) ==
  CASE f.kind = "function" -> {f.env} \union EnvsIn(f.handlerstack \o f.restartstack)
    [] f.kind = "toplevel" -> EnvsIn(f.handlerstack \o f.restartstack \o f.oldHStack)
    [] f.kind = "signal"   -> {f.entry.env} \union EnvsIn(f.oldstack)
    [] OTHER -> {}
Free == Envs \ (EnvsIn(R_HandlerStack \o R_RestartStack)
                  \union UNION {EnvsOf(stack[i]) : i \in DOMAIN stack})
NewEnv == Min(Free)

-----------------------------------------------------------------------------
(* Jumps.                                                                  *)

\* Operators with a "Faulty" name differ from the one that follows them as a
\* plausible mistake in the code would: no action uses them, they serve to see
\* that the properties would find the mistake.

FaultyStacksFor(c) == [hs |-> R_HandlerStack, rs |-> R_RestartStack]

\* The stacks with which exit code of the context c is run.
StacksFor(c) == [hs |-> c.handlerstack, rs |-> c.restartstack]

FaultyWithoutCode(c) == c

\* The context c when its exit code is about to be run.
WithoutCode(c) == [c EXCEPT !.conexit = << >>]

FaultyStillToLeave(st, from, target) ==
  {i \in target + 1..from - 2 : IsContext(st[i])}

\* The contexts from R_GlobalContext on, when "from" is above it, down to the target.
StillToLeave(st, from, target) == {i \in target + 1..from - 1 : IsContext(st[i])}

FaultyCends(st, todo) == {}

\* Those of the contexts "todo" that have a cend.
Cends(st, todo) == {i \in todo : st[i].kind = "ccode" /\ st[i].cend # NoCend}

\* R_run_onexits, from the context below "from" on, to where it evaluates exit code
\* or is done; in the latter case what follows in jumpfun or jump_to_top_ex.
Unwind(st, from, target) ==
  LET todo  == StillToLeave(st, from, target)
      exits == {i \in todo : st[i].kind = "function" /\ st[i].conexit # << >>}
      next  == IF exits = {} THEN target ELSE Max(exits)
      cends == Cends(st, {i \in todo : i > next})
      called == [i \in DOMAIN st |-> IF i \in cends THEN [st[i] EXCEPT !.cend = NoCend]
                                     ELSE st[i]]
  IN  /\ inError' = IF cends = {} THEN inError ELSE st[Min(cends)].cend
      /\ IF exits = {}
           THEN /\ stack' = [SubSeq(called, 1, target) EXCEPT ![target].left = target > 1]
                /\ R_HandlerStack' = st[target].handlerstack
                /\ R_RestartStack' = st[target].restartstack
                /\ UNCHANGED ran
           ELSE /\ stack' = Append([called EXCEPT ![next] = WithoutCode(@)],
                                   Exit(next, target, st[next].conexit))
                /\ R_HandlerStack' = StacksFor(st[next]).hs
                /\ R_RestartStack' = StacksFor(st[next]).rs
                /\ ran' = ran \union {Head(st[next].conexit)}

FaultyInReach == DOMAIN stack

\* What findcontext looks at: the contexts above the innermost top level one.
InReach == {i \in DOMAIN stack : \A j \in i..Depth : stack[j].kind # "toplevel"}

\* findcontext(CTXT_FUNCTION, env, ...) with hs and rs for R_HandlerStack and
\* R_RestartStack; when there is no such context it raises an error.
FindContext(env, hs, rs) ==
  LET found == {i \in InReach : stack[i].kind = "function" /\ stack[i].env = env}
  IN  IF found # {} THEN Unwind(stack, Depth + 1, Max(found))
      ELSE /\ Depth < MaxDepth
           /\ stack' = Append(stack, [Signalling(TRUE) EXCEPT !.oldstack = hs])
           /\ R_HandlerStack' = hs /\ R_RestartStack' = rs
           /\ UNCHANGED <<inError, ran>>

-----------------------------------------------------------------------------
(* What R code does.                                                       *)

\* A closure is applied.
Call ==
  /\ Evaluating /\ Depth < MaxDepth /\ Free # {}
  /\ stack' = Append(stack, Function(NewEnv, R_HandlerStack))
  /\ UNCHANGED <<handlers, R_ToplevelContext, inError, exitcodes>>

\* do_onexit: the code is added to that of the function in which on.exit is called, or
\* replaces it.
OnExit ==
  /\ Evaluating /\ CodeEnv # 0 /\ registered < MaxExits
  /\ LET of == IF Top.kind = "exit" THEN Top.of ELSE Depth
     IN  \E old \in {stack[of].conexit, << >>} :
           stack' = [stack EXCEPT ![of].conexit = Append(old, registered + 1)]
  /\ registered' = registered + 1
  /\ late' = IF Top.kind = "exit" THEN late \union {registered'} ELSE late
  /\ UNCHANGED <<handlers, R_ToplevelContext, inError, ran>>

FewEntries == Len(R_HandlerStack) + Len(R_RestartStack) < MaxEntries

\* do_addCondHands and do_addRestart, as used by tryCatch, withCallingHandlers and
\* withRestarts: the function in which they are called is the target, once for each.
AddCondHands ==
  /\ Evaluating /\ Top.kind = "function" /\ FewEntries
  /\ R_HandlerStack = Top.handlerstack
  /\ \E calling \in BOOLEAN :
       R_HandlerStack' = << [env |-> CodeEnv, calling |-> calling] >> \o R_HandlerStack
  /\ UNCHANGED <<stack, R_RestartStack, R_ToplevelContext, inError, exitcodes>>

AddRestart ==
  /\ Evaluating /\ Top.kind = "function" /\ FewEntries
  /\ R_RestartStack = Top.restartstack
  /\ R_RestartStack' = << [env |-> CodeEnv, calling |-> FALSE] >> \o R_RestartStack
  /\ UNCHANGED <<stack, R_HandlerStack, R_ToplevelContext, inError, exitcodes>>

\* A condition is signalled, by stop (an error) or otherwise.
Signal ==
  /\ Evaluating /\ Depth < MaxDepth
  /\ \E error \in BOOLEAN : stack' = Append(stack, Signalling(error))
  /\ UNCHANGED <<handlers, R_ToplevelContext, inError, exitcodes>>

\* invokeRestart with an entry of the stack, of which the others before it are dropped.
InvokeRestart ==
  /\ Evaluating
  /\ \E i \in DOMAIN R_RestartStack :
       FindContext(R_RestartStack[i].env, R_HandlerStack,
                   SubSeq(R_RestartStack, i + 1, Len(R_RestartStack)))
  /\ UNCHANGED <<R_ToplevelContext, registered, late>>

\* The frames that a jump under way has left, though they are still there.
Dead == UNION {stack[i].of + 1..i - 1 :
                 i \in {j \in DOMAIN stack : stack[j].kind = "exit" /\ stack[j].target > 0}}

\* A promise is forced that returns from the function it was created in.
ReturnFrom ==
  /\ Evaluating
  /\ \E i \in DOMAIN stack \ Dead :
       /\ stack[i].kind = "function" /\ ~stack[i].left /\ i < Depth
       /\ FindContext(stack[i].env, R_HandlerStack, R_RestartStack)
  /\ UNCHANGED <<R_ToplevelContext, registered, late>>

\* The "abort" restart: jump_to_toplevel.
Abort ==
  /\ Evaluating
  /\ Unwind(stack, Depth + 1, R_ToplevelContext)
  /\ UNCHANGED <<R_ToplevelContext, registered, late>>

\* RunFinalizers runs a finalizer, or R_ToplevelExec a function (and clears the handlers).
ToplevelExec(clears) ==
  /\ Evaluating /\ Depth < MaxDepth
  /\ stack' = Append(stack, Toplevel(clears))
  /\ R_HandlerStack' = stack'[Depth + 1].handlerstack
  /\ R_ToplevelContext' = Depth + 1
  /\ UNCHANGED <<R_RestartStack, inError, exitcodes>>

-----------------------------------------------------------------------------
(* What C code does when that is done.                                     *)

\* A function returns, or what a jump to it gave is returned: endcontext.
EndFunction ==
  /\ Top.kind = "function"
  /\ R_HandlerStack' = Top.handlerstack /\ R_RestartStack' = Top.restartstack
  /\ IF Top.conexit = << >>
       THEN stack' = Front(stack) /\ UNCHANGED ran
       ELSE /\ stack' = Append([stack EXCEPT ![Depth] = WithoutCode(@)],
                               Exit(Depth, 0, Top.conexit))
            /\ ran' = ran \union {Head(Top.conexit)}
  /\ UNCHANGED <<R_ToplevelContext, inError, registered, late>>

EndToplevel ==
  /\ Top.kind = "toplevel" /\ Depth > 1
  /\ stack' = Front(stack)
  /\ R_HandlerStack' = Top.oldHStack /\ R_RestartStack' = Top.restartstack
  /\ R_ToplevelContext' = Top.saveToplevelContext
  /\ UNCHANGED <<inError, exitcodes>>

\* One exit code is done: the next, or endcontext returns, or R_run_onexits goes on.
ExitDone ==
  /\ Top.kind = "exit"
  /\ IF Len(Top.todo) > 1
       THEN /\ stack' = [stack EXCEPT ![Depth].todo = Tail(@)]
            /\ ran' = ran \union {Top.todo[2]}
            /\ UNCHANGED <<handlers, inError>>
       ELSE IF Top.target = 0
              THEN stack' = SubSeq(stack, 1, Depth - 2) /\ UNCHANGED <<handlers, inError, ran>>
              ELSE Unwind(Front(stack), Top.of, Top.target)
  /\ UNCHANGED <<R_ToplevelContext, registered, late>>

FaultyHandlersFor(i) == R_HandlerStack

\* What R_HandlerStack is while the handler i of it is called.
HandlersFor(i) == SubSeq(R_HandlerStack, i + 1, Len(R_HandlerStack))

\* The handler for the condition is a calling one ...
CallHandler ==
  /\ Top.kind = "signal" /\ Depth < MaxDepth /\ Free # {}
  /\ \E i \in DOMAIN R_HandlerStack :
       /\ R_HandlerStack[i].calling
       /\ stack' = Append([stack EXCEPT ![Depth].entry = R_HandlerStack[i]],
                          Function(NewEnv, HandlersFor(i)))
       /\ R_HandlerStack' = HandlersFor(i)
  /\ UNCHANGED <<R_RestartStack, R_ToplevelContext, inError, exitcodes>>

\* ... or an exiting one ...
GotoExitingHandler ==
  /\ Top.kind = "signal"
  /\ \E i \in DOMAIN R_HandlerStack :
       /\ ~R_HandlerStack[i].calling
       /\ FindContext(R_HandlerStack[i].env, HandlersFor(i), R_RestartStack)
  /\ UNCHANGED <<R_ToplevelContext, registered, late>>

\* ... or there is none (more), which for an error means verrorcall_dflt and
\* jump_to_top_ex, where options("error") is evaluated if this is not another error.
NoHandler ==
  /\ Top.kind = "signal"
  /\ IF ~Top.error
       THEN /\ stack' = Front(stack) /\ R_HandlerStack' = Top.oldstack
            /\ UNCHANGED <<R_RestartStack, inError, ran>>
       ELSE LET st == Append(Front(stack), Ccode)
            IN  IF ErrorOption /\ inError = 0
                  THEN /\ stack' = Append(st, Option) /\ inError' = 3
                       /\ R_HandlerStack' = Top.oldstack
                       /\ UNCHANGED <<R_RestartStack, ran>>
                  ELSE Unwind(st, Len(st) + 1, R_ToplevelContext)
  /\ UNCHANGED <<R_ToplevelContext, registered, late>>

OptionDone ==
  /\ Top.kind = "option"
  /\ Unwind(Front(stack), Depth, R_ToplevelContext)
  /\ UNCHANGED <<R_ToplevelContext, registered, late>>

Next ==
  \/ Call \/ OnExit \/ AddCondHands \/ AddRestart \/ Signal \/ InvokeRestart
  \/ ReturnFrom \/ Abort \/ \E clears \in BOOLEAN : ToplevelExec(clears)
  \/ EndFunction \/ EndToplevel \/ ExitDone
  \/ CallHandler \/ GotoExitingHandler \/ NoHandler \/ OptionDone

Spec == Init /\ [][Next]_vars

-----------------------------------------------------------------------------
(* What must hold.                                                         *)

\* Every variable keeps its type, and R_ToplevelContext is the innermost top level
\* context (context.c lines 587-606, memory.c 436-464).
TypeOK ==
  /\ stack # << >>
  /\ \A i \in DOMAIN stack :
       stack[i].kind \in {"toplevel", "function", "ccode", "signal", "exit", "option"}
  /\ R_HandlerStack \in Seq(Entries) /\ R_RestartStack \in Seq(Entries)
  /\ R_ToplevelContext = Max({i \in DOMAIN stack : stack[i].kind = "toplevel"})
  /\ inError \in 0..3
  /\ registered \in 0..MaxExits /\ late \subseteq Codes /\ ran \subseteq 1..registered

\* Where a handler or restart that can be used would jump to is a function on the stack,
\* and one that has not been left, whatever way exit code, handlers and finalizers came to
\* be run (R_run_onexits, lines 130-145: exit code is run before the jump is made) - except
\* that exit code given by exit code may be run when its function is passed once more.
HandlersAlive ==
  LET alive == IF late = {} THEN DOMAIN stack \ Dead ELSE DOMAIN stack
  IN  EnvsIn(R_HandlerStack \o R_RestartStack) \subseteq
        {stack[i].env : i \in {j \in alive : stack[j].kind = "function"}}

\* Exit code is not run twice, also when it raises an error itself, or returns from its
\* function ("prevent recursion", context.c line 138, eval.c line 329).
ExitOnce ==
  [][\A i \in DOMAIN stack' :
       stack'[i].kind = "exit" /\ (i > Depth \/ stack'[i] # stack[i])
         => Head(stack'[i].todo) \notin ran]_vars

\* However a function is left, by whatever number of jumps that exit code started anew,
\* its exit code was run, or at least started on - except for what exit code itself
\* gave to on.exit (R_run_onexits, endcontext).
ExitsStarted ==
  [][\A i \in DOMAIN stack : stack[i].kind = "function" /\ i > Len(stack') =>
       \A n \in DOMAIN stack[i].conexit : stack[i].conexit[n] \in late]_vars

\* A handler is not called for a condition that it signals itself, directly or in what
\* it calls (do_signalCondition, errors.c lines 1598-1603).
NotReentered ==
  LET called == {i \in DOMAIN stack \ Dead : stack[i].kind = "signal" /\ stack[i].entry # NoEntry}
  IN  \A i, j \in called : stack[i].entry = stack[j].entry => i = j

\* Only while an error is being handled is inError set ("set up a context to restore
\* inError value on exit", errors.c line 600).
InErrorRestored ==
  inError # 0 => \E i \in DOMAIN stack \ Dead : stack[i].kind = "ccode" /\ stack[i].cend # NoCend
=============================================================================
