------------------------------- MODULE Caches -------------------------------
(***************************************************************************)
(* Environments and the caches that lookups of variables go by             *)
(* (src/src/main/envir.c, with parts of eval.c): for each symbol the last  *)
(* frame and cell where it was found (LASTSYMENV, LASTSYMBINDING), the last*)
(* frame where it was not (LASTENVNOTFOUND), and its cell among the frames *)
(* of R_GlobalEnv and what is attached (the global cache); for each        *)
(* environment a filter for the symbols it may have (ENVSYMBITS).          *)
(*                                                                         *)
(* What a variable is bound to is left open: each search may take it for a *)
(* function, for another value, or for a promise or active binding, whose  *)
(* evaluation does anything that R code can do.                            *)
(***************************************************************************)
EXTENDS Integers, Sequences, FiniteSets, FiniteSetsExt, SequencesExt

CONSTANTS Envs,              \* environments besides those that R starts with
          R_GlobalEnv, R_BaseEnv, R_EmptyEnv, None,
          Syms, SYMBITS,     \* the symbols, with the bits of each
          Assigned,          \* those that are assigned, searched for and removed
          FORMALS,           \* the sets of symbols that functions have as arguments
          MaxAttached, MaxSearches,    \* bounds on the environments attached and
                                       \* on searches within searches
          Redefines          \* whether R code evaluated in a search for a symbol may
                             \* bind that symbol where it was not bound

ASSUME ConstantsAssumption ==
  /\ {R_GlobalEnv, R_BaseEnv, R_EmptyEnv, None} \intersect Envs = {}
  /\ R_GlobalEnv \notin {R_BaseEnv, R_EmptyEnv, None}
  /\ R_BaseEnv \notin {R_EmptyEnv, None} /\ R_EmptyEnv # None
  /\ DOMAIN SYMBITS = Syms /\ Assigned \subseteq Syms /\ FORMALS \subseteq SUBSET Syms
  /\ MaxAttached \in Nat /\ MaxSearches \in Nat /\ Redefines \in BOOLEAN

Frames == Envs \union {R_GlobalEnv}
AllBits == UNION {SYMBITS[s] : s \in Syms}

\* The cells for a symbol in one frame: a removed one may still be in a cache when the
\* symbol is bound again.
Copies == {0, 1}

VARIABLES
  used, hashed, attached,    \* environments in use, with hash table, IS_GLOBAL_FRAME
  ENCLOS, ENVSYMBITS,
  cells,        \* of each symbol in each frame, one unless something is wrong
  active,       \* the cells that are active bindings
  base,         \* how symbols are bound in R_BaseEnv
  LASTSYMENV, LASTSYMBINDING, LASTENVNOTFOUND,
  cache,        \* the global cache: ATTRIB_W of a symbol, or R_BaseEnv for BASE_CACHE
  searches      \* those under way, the innermost first

envs == <<used, hashed, attached, ENCLOS>>
bindings == <<ENVSYMBITS, cells, active, base>>
lastFound == <<LASTSYMENV, LASTSYMBINDING>>
vars == <<envs, bindings, lastFound, LASTENVNOTFOUND, cache, searches>>

NoCell == [env |-> None, copy |-> 0]
NotFound == [env |-> R_EmptyEnv, copy |-> 0]
InBase == [env |-> R_BaseEnv, copy |-> 0]

Init ==
  /\ used = {} /\ hashed = {R_GlobalEnv} /\ attached = {}
  /\ ENCLOS = [e \in Frames |-> R_BaseEnv] /\ ENVSYMBITS = [e \in Frames |-> AllBits]
  /\ cells = [e \in Frames |-> [s \in Syms |-> << >>]] /\ active = {}
  /\ base = [s \in Syms |-> "unbound"]
  /\ LASTSYMENV = [s \in Syms |-> None] /\ LASTSYMBINDING = [s \in Syms |-> 0]
  /\ LASTENVNOTFOUND = [s \in Syms |-> None]
  /\ cache = [s \in Syms |-> NoCell]
  /\ searches = << >>

Enclosing(e) == IF e \in Frames THEN ENCLOS[e] ELSE R_EmptyEnv

\* The first environment in S, from rho on, or R_EmptyEnv.
FirstOn(rho, S) ==
  LET first[e \in Frames \union {R_BaseEnv, R_EmptyEnv}] ==
        IF e \in S \union {R_EmptyEnv} THEN e ELSE first[Enclosing(e)]
  IN  first[rho]

Encloses(e, rho) == FirstOn(rho, {e}) = e

BoundIn(e, s) == IF e \in Frames THEN cells[e][s] # << >>
                 ELSE e = R_BaseEnv /\ base[s] # "unbound"

\* Where a symbol is bound, seen from rho, whatever the caches say.
Lookup(s, rho) == FirstOn(rho, {e \in Frames \union {R_BaseEnv} : BoundIn(e, s)})

-----------------------------------------------------------------------------
(* Lookups in one frame.                                                   *)

FrameIsNil(e) == \A s \in Syms : cells[e][s] = << >>

\* The cell found by LASTSYMBINDING; one that was removed has R_UnboundValue.
LastHit(s, e) == LASTSYMENV[s] = e /\ Contains(cells[e][s], LASTSYMBINDING[s])

\* findVarInFrame3 and set_var_in_frame: the cell they find, if any.
InFrame(s, e) ==
  IF LastHit(s, e) THEN <<LASTSYMBINDING[s]>>
  ELSE IF e \notin hashed /\ LASTENVNOTFOUND[s] = e THEN << >>
  ELSE IF cells[e][s] = << >> THEN << >> ELSE <<cells[e][s][1]>>

\* The cell k found is noted, if it is in an unhashed frame and not active.
NoteFound(s, e, k) ==
  IF e \in hashed \/ <<e, s, k>> \in active THEN UNCHANGED lastFound
  ELSE /\ LASTSYMENV' = [LASTSYMENV EXCEPT ![s] = e]
       /\ LASTSYMBINDING' = [LASTSYMBINDING EXCEPT ![s] = k]

\* What findVarInFrame3 changes.
FindVarInFrame3(s, e) ==
  LET found == InFrame(s, e)
  IN  IF found # << >> THEN NoteFound(s, e, found[1]) /\ UNCHANGED LASTENVNOTFOUND
      ELSE /\ LASTENVNOTFOUND' = IF e \in hashed \/ FrameIsNil(e) THEN LASTENVNOTFOUND
                                 ELSE [LASTENVNOTFOUND EXCEPT ![s] = e]
           /\ UNCHANGED lastFound

\* Environments whose symbits allow that they have the symbol ...
MayHave(s) == {e \in Frames : SYMBITS[s] \subseteq ENVSYMBITS[e]} \union {R_BaseEnv}

\* ... of which SKIP_USING_SYMBITS gives the first.
SKIP_USING_SYMBITS(rho, s) == FirstOn(rho, MayHave(s))

-----------------------------------------------------------------------------
(* The global cache.                                                       *)

R_FlushGlobalCache(S) == [s \in Syms |-> IF s \in S THEN NoCell ELSE cache[s]]

\* findGlobalVar_uncached, and what it puts in the cache.
Uncached(s) ==
  LET e == Lookup(s, R_GlobalEnv)
  IN  CASE e = R_EmptyEnv -> NotFound
        [] e = R_BaseEnv -> IF base[s] = "active" THEN NoCell ELSE InBase
        [] OTHER -> [env |-> e, copy |-> cells[e][s][1]]

\* R_GetGlobalCache has something.
Cached(s) == /\ cache[s] # NoCell
             /\ cache[s].env \in Frames =>
                  Contains(cells[cache[s].env][s], cache[s].copy)

FindGlobalVar(s) == cache' = IF Cached(s) THEN cache ELSE [cache EXCEPT ![s] = Uncached(s)]

\* Where findGlobalVar finds the symbol.
Globally(s) == IF Cached(s) THEN cache[s].env ELSE Lookup(s, R_GlobalEnv)

-----------------------------------------------------------------------------
(* Searches: findVar, findFun_nospecsym, and findVar1mode, which exists and *)
(* get call.  One step looks at one environment.                           *)

Kinds == {"var", "fun", "mode"}

\* nf is last_unhashed_env_nf, last is last_sym_not_found.
Searches == [sym : Syms, kind : Kinds, from : Frames, rho : Frames \union {R_BaseEnv, R_EmptyEnv},
             nf : Envs \union {None}, last : Envs \union {None}, scanning : BOOLEAN]

Top == Head(searches)
Scanning == searches # << >> /\ Top.scanning
\* R code is evaluated, in a search only that of a promise or an active binding.
Evaluating == ~Scanning

Go(h) == searches' = << h >> \o Tail(searches)
Leave == searches' = Tail(searches)

StartSearch ==
  /\ Evaluating /\ Len(searches) < MaxSearches
  /\ \E s \in Assigned, rho \in used \union {R_GlobalEnv}, kind \in Kinds :
       /\ searches' = << [sym |-> s, kind |-> kind, from |-> rho, scanning |-> TRUE,
                          rho |-> SKIP_USING_SYMBITS(rho, s), nf |-> None,
                          last |-> IF kind = "fun" THEN LASTENVNOTFOUND[s] ELSE None] >>
                      \o searches
       \* evalv_sym drops a cell that has been removed.
       /\ LASTSYMENV' = IF kind = "var" /\ LASTSYMENV[s] = rho /\ ~LastHit(s, rho)
                          THEN [LASTSYMENV EXCEPT ![s] = None] ELSE LASTSYMENV
       /\ LASTSYMBINDING' = [LASTSYMBINDING EXCEPT
            ![s] = IF LASTSYMENV'[s] = None THEN 0 ELSE @]
  /\ UNCHANGED <<envs, bindings, LASTENVNOTFOUND, cache>>

\* The search is over with a function found.
NoteNotFound(h) ==
  LASTENVNOTFOUND' = IF h.kind = "fun" /\ h.nf # None
                       THEN [LASTENVNOTFOUND EXCEPT ![h.sym] = h.nf] ELSE LASTENVNOTFOUND

\* Operators with a "Faulty" name differ from the one that follows them as a
\* plausible mistake in the code would: no action uses them, they serve to see
\* that the properties would find the mistake.

FaultyPassed(h, found) == IF h.rho \notin hashed THEN h.rho ELSE h.nf

\* What nf is after an environment with (found) or without the symbol.
Passed(h, found) == IF ~found /\ h.rho \notin hashed THEN h.rho ELSE h.nf

\* A frame is passed unseen, as the symbol was not found there last time.
PassFrame ==
  /\ Scanning /\ Top.rho \in Envs /\ Top.kind = "fun" /\ Top.rho = Top.last
  /\ Go([Top EXCEPT !.nf = Top.rho, !.rho = Enclosing(Top.rho)])
  /\ UNCHANGED <<envs, bindings, lastFound, LASTENVNOTFOUND, cache>>

\* A binding was found: it is what is searched for, or else its value is looked at
\* (and may not be what is searched for).
Found(nf) ==
  \/ Leave /\ NoteNotFound([Top EXCEPT !.nf = nf])
  \/ /\ Top.kind # "var" /\ UNCHANGED LASTENVNOTFOUND
     /\ Go([Top EXCEPT !.nf = nf, !.scanning = FALSE])

\* The symbol is looked up in a frame; in that of R_GlobalEnv only by findVar1mode.
ScanFrame ==
  /\ Scanning /\ Top.rho \in Frames
  /\ Top.rho = R_GlobalEnv => Top.kind = "mode"
  /\ Top.kind = "fun" => Top.rho # Top.last
  /\ LET found == InFrame(Top.sym, Top.rho)
     IN  IF found = << >>
           THEN /\ Go([Top EXCEPT !.nf = Passed(Top, FALSE), !.rho = Enclosing(Top.rho)])
                /\ FindVarInFrame3(Top.sym, Top.rho)
           ELSE /\ Found(Passed(Top, TRUE))
                /\ NoteFound(Top.sym, Top.rho, found[1])
  /\ UNCHANGED <<envs, bindings, cache>>

\* The others look in the global cache.
ScanGlobal ==
  /\ Scanning /\ Top.rho = R_GlobalEnv /\ Top.kind # "mode"
  /\ FindGlobalVar(Top.sym)
  /\ IF Globally(Top.sym) # R_EmptyEnv THEN Found(Top.nf)
     ELSE Leave /\ UNCHANGED LASTENVNOTFOUND
  /\ UNCHANGED <<envs, bindings, lastFound>>

ScanBase ==
  /\ Scanning /\ Top.rho = R_BaseEnv
  /\ IF BoundIn(R_BaseEnv, Top.sym) THEN Found(Top.nf)
     ELSE Go([Top EXCEPT !.rho = R_EmptyEnv]) /\ UNCHANGED LASTENVNOTFOUND
  /\ UNCHANGED <<envs, bindings, lastFound, cache>>

SearchFails ==
  /\ Scanning /\ Top.rho = R_EmptyEnv
  /\ Leave
  /\ UNCHANGED <<envs, bindings, lastFound, LASTENVNOTFOUND, cache>>

\* The value is there (or its evaluation was left by a jump).
Evaluated ==
  /\ Evaluating /\ searches # << >>
  /\ \/ Leave /\ NoteNotFound(Top)
     \/ /\ Go([Top EXCEPT !.scanning = TRUE, !.rho = Enclosing(Top.rho)])
        /\ UNCHANGED LASTENVNOTFOUND
     \/ Leave /\ UNCHANGED LASTENVNOTFOUND
  /\ UNCHANGED <<envs, bindings, lastFound, cache>>

\* findVarInFrame, for one environment.
FindVarInFrame ==
  /\ Evaluating
  /\ \E s \in Assigned, e \in used : FindVarInFrame3(s, e)
  /\ UNCHANGED <<envs, bindings, cache, searches>>

-----------------------------------------------------------------------------
(* Changes of environments and bindings.                                   *)

\* What can be allocated.  Of an environment that is freed a search may still have the
\* address as last_sym_not_found, and that it is used again is left out as well.
Fresh == Envs \ (used \union (IF Redefines THEN {}
                              ELSE {searches[i].last : i \in DOMAIN searches}))

NewEnvironment(e, enclos, bits, frame) ==
  /\ used' = used \union {e}
  /\ ENCLOS' = [ENCLOS EXCEPT ![e] = enclos]
  /\ ENVSYMBITS' = [ENVSYMBITS EXCEPT ![e] = bits]
  /\ cells' = [cells EXCEPT ![e] = [s \in Syms |-> IF s \in frame THEN <<0>> ELSE << >>]]

\* new.env, hashed or not.
NewEnv ==
  /\ Evaluating
  /\ \E e \in Fresh, enclos \in used \union {R_GlobalEnv} :
       /\ NewEnvironment(e, enclos, AllBits, {})
       /\ hashed' \in {hashed, hashed \union {e}}
  /\ UNCHANGED <<attached, active, base, lastFound, LASTENVNOTFOUND, cache, searches>>

\* applyClosure_v: the arguments that are not missing are noted as found last.
ApplyClosure ==
  /\ Evaluating
  /\ \E e \in Fresh, enclos \in used \union {R_GlobalEnv}, formals \in FORMALS :
       \E given \in SUBSET formals :
         /\ NewEnvironment(e, enclos, UNION {SYMBITS[s] : s \in formals}, formals)
         /\ LASTSYMENV' = [s \in Syms |-> IF s \in given THEN e ELSE LASTSYMENV[s]]
         /\ LASTSYMBINDING' = [s \in Syms |-> IF s \in given THEN 0 ELSE LASTSYMBINDING[s]]
  /\ UNCHANGED <<hashed, attached, active, base, LASTENVNOTFOUND, cache, searches>>

\* A copy that neither the frame nor LASTSYMBINDING has.
Unused(s, e) == {k \in Copies : ~Contains(cells[e][s], k)
                                /\ ~(LASTSYMENV[s] = e /\ LASTSYMBINDING[s] = k)
                                /\ cache[s] # [env |-> e, copy |-> k]}

FaultyClearNotFound(s, e) == LASTENVNOTFOUND

ClearNotFound(s, e) ==
  IF LASTENVNOTFOUND[s] = e THEN [LASTENVNOTFOUND EXCEPT ![s] = None] ELSE LASTENVNOTFOUND

FaultyWithSymbits(s, e) == ENVSYMBITS

WithSymbits(s, e) == [ENVSYMBITS EXCEPT ![e] = @ \union SYMBITS[s]]

\* The part of set_var_in_frame that creates a binding.
Create(s, e, isActive) ==
  /\ Redefines \/ \A i \in DOMAIN searches : searches[i].sym # s
  /\ Unused(s, e) # {}
  /\ LET k == Min(Unused(s, e))
     IN  /\ cells' = [cells EXCEPT ![e][s] = <<k>> \o @]
         /\ active' = IF isActive THEN active \union {<<e, s, k>>} ELSE active
         /\ IF e \in hashed /\ ~(isActive /\ LASTSYMENV[s] = e) THEN UNCHANGED lastFound
            ELSE /\ LASTSYMENV' = [LASTSYMENV EXCEPT ![s] = IF isActive THEN None ELSE e]
                 /\ LASTSYMBINDING' = [LASTSYMBINDING EXCEPT ![s] = IF isActive THEN 0 ELSE k]
  /\ ENVSYMBITS' = WithSymbits(s, e)
  /\ LASTENVNOTFOUND' = ClearNotFound(s, e)
  /\ cache' = R_FlushGlobalCache(IF e \in attached \union {R_GlobalEnv} THEN {s} ELSE {})
  /\ UNCHANGED base

\* gsetVar, where nothing waits.
SetInBase(s) ==
  /\ base[s] = "unbound" => Redefines \/ \A i \in DOMAIN searches : searches[i].sym # s
  /\ base' = [base EXCEPT ![s] = IF @ = "unbound" THEN "value" ELSE @]
  /\ cache' = R_FlushGlobalCache({s})
  /\ UNCHANGED <<ENVSYMBITS, cells, active, lastFound, LASTENVNOTFOUND>>

\* An existing binding is changed: for the caches, this is what finding it is.
SetExisting(s, e) ==
  /\ NoteFound(s, e, InFrame(s, e)[1])
  /\ UNCHANGED <<bindings, LASTENVNOTFOUND, cache>>

set_var_in_frame(s, e) ==
  IF e = R_BaseEnv THEN SetInBase(s)
  ELSE IF InFrame(s, e) # << >> THEN SetExisting(s, e)
  ELSE Create(s, e, FALSE)

\* Assignment in an environment, ...
Assign ==
  /\ Evaluating
  /\ \E s \in Assigned, e \in used \union {R_GlobalEnv, R_BaseEnv} : set_var_in_frame(s, e)
  /\ UNCHANGED <<envs, searches>>

\* ... or with <<- in the first that has the variable, or in R_GlobalEnv.
set_var_nonlocal ==
  /\ Evaluating
  /\ \E s \in Assigned, rho \in used \union {R_GlobalEnv} :
       LET e == FirstOn(rho, {f \in Frames : InFrame(s, f) # << >>}
                               \union (IF BoundIn(R_BaseEnv, s) THEN {R_BaseEnv} ELSE {}))
       IN  set_var_in_frame(s, IF e = R_EmptyEnv THEN R_GlobalEnv ELSE e)
  /\ UNCHANGED <<envs, searches>>

\* A binding is made active when it is created (R_MakeActiveBinding) ...
MakeActiveBinding ==
  /\ Evaluating
  /\ \E s \in Assigned, e \in used \union {R_GlobalEnv} :
       InFrame(s, e) = << >> /\ Create(s, e, TRUE)
  /\ UNCHANGED <<envs, searches>>

\* ... also in the base environment, where this does not touch the global cache.
MakeActiveInBase ==
  /\ Evaluating
  /\ \E s \in Assigned :
       /\ base[s] # "value"
       /\ Redefines \/ \A i \in DOMAIN searches : searches[i].sym # s
       /\ base' = [base EXCEPT ![s] = "active"]
  /\ UNCHANGED <<envs, ENVSYMBITS, cells, active, lastFound, LASTENVNOTFOUND, cache, searches>>

\* RemoveVariable leaves its cell unbound, which is how caches notice.
RemoveVariable ==
  /\ Evaluating
  /\ \E s \in Assigned, e \in used \union {R_GlobalEnv} :
       /\ cells[e][s] # << >>
       /\ cells' = [cells EXCEPT ![e][s] = Tail(@)]
       /\ active' = active \ {<<e, s, Head(cells[e][s])>>}
       /\ cache' = R_FlushGlobalCache(IF e \in attached \union {R_GlobalEnv} THEN {s} ELSE {})
  /\ UNCHANGED <<envs, ENVSYMBITS, base, lastFound, LASTENVNOTFOUND, searches>>

\* The symbols flushed from the global cache when e is attached or detached.
Flushed(e) == {s \in Syms : cells'[e][s] # << >>}

\* do_attach: a copy of a list or environment, with its variables in a hash table, is
\* put somewhere between R_GlobalEnv and the base environment.  The variables of an
\* environment are assigned while the copy is unhashed, and so noted as found last; their
\* cells then move to the table.  A list that has a name twice is left out.
Attach ==
  /\ Evaluating /\ Cardinality(attached) < MaxAttached
  /\ \E e \in Fresh, t \in {R_GlobalEnv} \union attached, frame \in SUBSET Assigned :
       /\ frame \intersect {searches[i].sym : i \in DOMAIN searches} = {} \/ Redefines
       /\ used' = used \union {e} /\ hashed' = hashed \union {e}
       /\ attached' = attached \union {e}
       /\ ENCLOS' = [ENCLOS EXCEPT ![t] = e, ![e] = ENCLOS[t]]
       /\ ENVSYMBITS' = [ENVSYMBITS EXCEPT ![e] = AllBits]
       /\ cells' = [cells EXCEPT ![e] = [s \in Syms |-> IF s \in frame THEN <<0>> ELSE << >>]]
       /\ \E noted \in {{}, frame} :
            /\ LASTSYMENV' = [s \in Syms |-> IF s \in noted THEN e ELSE LASTSYMENV[s]]
            /\ LASTSYMBINDING' = [s \in Syms |-> IF s \in noted THEN 0 ELSE LASTSYMBINDING[s]]
       /\ cache' = R_FlushGlobalCache(Flushed(e))
  /\ UNCHANGED <<active, base, LASTENVNOTFOUND, searches>>

Detach ==
  /\ Evaluating
  /\ \E t \in {R_GlobalEnv} \union attached :
       /\ ENCLOS[t] # R_BaseEnv
       /\ ENCLOS' = [ENCLOS EXCEPT ![t] = ENCLOS[ENCLOS[t]], ![ENCLOS[t]] = R_BaseEnv]
       /\ attached' = attached \ {ENCLOS[t]}
       /\ UNCHANGED bindings
       /\ cache' = R_FlushGlobalCache(Flushed(ENCLOS[t]))
  /\ UNCHANGED <<used, hashed, lastFound, LASTENVNOTFOUND, searches>>

FaultyForgotten(e, kept) == FALSE

\* A collection clears what was noted about any environment.
Forgotten(e, kept) == TRUE

\* Environments are freed, and may be allocated again as others.
Held == {e \in used : \E rho \in {R_GlobalEnv}
                             \union UNION {{searches[i].from, searches[i].rho} :
                                             i \in DOMAIN searches} : Encloses(e, rho)}
Collect ==
  /\ Evaluating
  /\ \E kept \in SUBSET used :
       /\ Held \subseteq kept
       /\ \A e \in kept : ENCLOS[e] \in kept \union {R_GlobalEnv, R_BaseEnv}
       /\ used' = kept /\ hashed' = hashed \intersect (kept \union {R_GlobalEnv})
       /\ ENCLOS' = [e \in Frames |-> IF e \in Envs \ kept THEN R_BaseEnv ELSE ENCLOS[e]]
       /\ ENVSYMBITS' = [e \in Frames |-> IF e \in Envs \ kept THEN AllBits
                                          ELSE ENVSYMBITS[e]]
       /\ cells' = [e \in Frames |-> IF e \in Envs \ kept THEN [s \in Syms |-> << >>]
                                     ELSE cells[e]]
       /\ active' = {c \in active : c[1] \in kept \union {R_GlobalEnv}}
       /\ LASTSYMENV' = [s \in Syms |-> IF Forgotten(LASTSYMENV[s], kept) THEN None
                                        ELSE LASTSYMENV[s]]
       /\ LASTENVNOTFOUND' = [s \in Syms |-> IF Forgotten(LASTENVNOTFOUND[s], kept) THEN None
                                             ELSE LASTENVNOTFOUND[s]]
  /\ LASTSYMBINDING' = [s \in Syms |-> IF LASTSYMENV'[s] = None THEN 0
                                       ELSE LASTSYMBINDING[s]]
  /\ UNCHANGED <<attached, base, cache, searches>>

Next ==
  \/ StartSearch \/ PassFrame \/ ScanFrame \/ ScanGlobal \/ ScanBase \/ SearchFails
  \/ Evaluated \/ FindVarInFrame
  \/ NewEnv \/ ApplyClosure \/ Assign \/ set_var_nonlocal \/ MakeActiveBinding \/ MakeActiveInBase
  \/ RemoveVariable \/ Attach \/ Detach \/ Collect

Spec == Init /\ [][Next]_vars

-----------------------------------------------------------------------------
(* What must hold.                                                         *)

\* Every variable keeps its type.
TypeOK ==
  /\ used \subseteq Envs /\ hashed \subseteq Frames /\ attached \subseteq used
  /\ ENCLOS \in [Frames -> Envs \union {R_GlobalEnv, R_BaseEnv}]
  /\ ENVSYMBITS \in [Frames -> SUBSET AllBits]
  /\ cells \in [Frames -> [Syms -> Seq(Copies)]]
  /\ active \subseteq Frames \X Syms \X Copies
  /\ base \in [Syms -> {"unbound", "value", "active"}]
  /\ LASTSYMENV \in [Syms -> used \union {None}]
  /\ LASTSYMBINDING \in [Syms -> Copies]
  /\ LASTENVNOTFOUND \in [Syms -> used \union {None}]
  /\ cache \in [Syms -> [env : Frames \union {None, R_BaseEnv, R_EmptyEnv}, copy : Copies]]
  /\ searches \in Seq(Searches)

\* No variable is created in a frame that has it already: set_var_in_frame, lines
\* 1589-1638, trusts LASTENVNOTFOUND to tell.
OneBinding == \A e \in Frames, s \in Syms : Len(cells[e][s]) <= 1

\* Where findVar finds the symbol, from rho on (lines 1174-1226).
FoundByCaches(s, rho) ==
  LET start == SKIP_USING_SYMBITS(rho, s)
      e == FirstOn(start, {f \in Frames : f = R_GlobalEnv \/ InFrame(s, f) # << >>}
                            \union (IF BoundIn(R_BaseEnv, s) THEN {R_BaseEnv} ELSE {}))
  IN  IF e = R_GlobalEnv THEN Globally(s) ELSE e

\* From any environment, whatever has been searched for, bound, removed, attached or
\* freed before, a variable is found where it is: the symbits, the frames noted last
\* and the global cache change nothing but the time it takes (lines 643-655, 1398-1400).
\* There is one exception: from R_GlobalEnv on, an active binding made in the base
\* environment after a search that failed is not found at all (FoundAlways).
FoundFrom ==
  \A s \in Assigned, rho \in used \union {R_GlobalEnv} :
    \/ FoundByCaches(s, rho) = Lookup(s, rho)
    \/ /\ base[s] = "active" /\ cache[s] = NotFound
       /\ Lookup(s, rho) = R_BaseEnv /\ FoundByCaches(s, rho) = R_EmptyEnv

\* The same without exception, R_MakeActiveBinding being free to leave the global cache
\* alone ("we don't need to worry about the global cache here as a regular binding cannot
\* be changed", lines 3235-3236).
FoundAlways == \A s \in Assigned, rho \in used \union {R_GlobalEnv} :
                 FoundByCaches(s, rho) = Lookup(s, rho)

\* While a search for a function goes on, code that it evaluates may change what it is
\* looking through; still it passes no environment that has the symbol when it is
\* passed, except after looking at the value (findFun_nospecsym, lines 1411-1470).
PassesOnlyUnbound ==
  [][Scanning /\ Len(searches') = Len(searches) /\ Head(searches').scanning
       /\ Top.rho \in Envs => ~BoundIn(Top.rho, Top.sym)]_vars
=============================================================================
