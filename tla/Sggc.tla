-------------------------------- MODULE Sggc --------------------------------
(***************************************************************************)
(* The segmented generational garbage collector of src/src/extra/sggc:     *)
(* allocation, the references from old objects to new ones that have to be *)
(* noted, and collections.                                                 *)
(*                                                                         *)
(* An object is a segment and a position in it.  Sets of objects are sets; *)
(* only for the chain of segments of free and new objects does the order   *)
(* matter, since allocation walks along it.  A collection is a sequence of *)
(* steps between which the application does nothing.  "in_use" is what     *)
(* SGGC_TRACE_CPTR records of an object.  An object of a big kind has one  *)
(* chunk.                                                                  *)
(***************************************************************************)
EXTENDS Integers, FiniteSets, Sequences, SequencesExt, FiniteSetsExt

CONSTANTS SmallKinds, BigKinds,   \* kinds with many objects, or one, in a segment
          Uncollected,            \* sggc_kind_uncollected
          Told,                   \* kinds with a call_for_newly_freed procedure
          KindObjects,            \* kind_objects
          MaxRefs,                \* how many references an object of a kind has
          DataFails,              \* kinds for which allocating a data area may fail
          MaxSegments,            \* maximum_segments
          MaxRoots, MaxKept,      \* bounds on what the application holds, and
          MaxLinks                \* on how many references there are

Kinds == SmallKinds \union BigKinds

ASSUME ConstantsAssumption ==
  /\ IsFiniteSet(Kinds) /\ SmallKinds \intersect BigKinds = {}
  /\ Uncollected \subseteq SmallKinds /\ Told \subseteq Kinds \ Uncollected
  /\ DataFails \subseteq Kinds
  /\ KindObjects \in [Kinds -> Nat \ {0}] /\ \A k \in BigKinds : KindObjects[k] = 1
  /\ MaxRefs \in [Kinds -> Nat] /\ \A k \in Told : MaxRefs[k] = 0
  /\ MaxSegments \in Nat /\ MaxRoots \in Nat /\ MaxKept \in Nat /\ MaxLinks \in Nat

Segments == 1..MaxSegments
ObjectsOf(s, k) == {<<s, i>> : i \in 0..(KindObjects[k] - 1)}
Objects == UNION {ObjectsOf(s, k) : s \in Segments, k \in Kinds}

VARIABLES
  kind,            \* the kinds of the segments 1..next_segment-1
  free_or_new, unused, old_gen1, old_gen2, uncollected, constants,
  old_to_new, to_look_at,
  chain,           \* <<s, t>> if segment t is s, or follows it, in a chain free_or_new[k]
  next_free,       \* the objects that next_free_val[k] and next_free_bits[k] tell of
  segment_not_free,       \* sggc_next_segment_not_free
  big_chunks,      \* gen0_big_chunks, gen1_big_chunks and gen2_big_chunks
  no_data,         \* segments with a data pointer that points to no data area
  in_use,          \* sggc_trace_cptr_in_use, for every object
  ref, roots, kept,       \* references, and what the application holds
  collect_level, pc

gens == <<free_or_new, old_gen1, old_gen2>>
next == <<next_free, segment_not_free>>
app == <<ref, roots, kept>>
segs == <<kind, no_data>>
vars == <<segs, gens, unused, uncollected, constants, old_to_new, to_look_at,
          chain, next, big_chunks, in_use, app, collect_level, pc>>

next_segment == Len(kind) + 1
Kind(o) == kind[o[1]]
Big(S) == {o \in S : Kind(o) \in BigKinds}
Bits(s) == {o \in free_or_new : o[1] = s}
Lowest(S) == {o \in S : \A x \in S : o[2] <= x[2]}
Chain(k) == {s \in DOMAIN kind : kind[s] = k /\ <<s, s>> \in chain}

\* The sets that share the chain SGGC_OLD_GEN2_UNCOL.
Gen2Uncol == old_gen2 \union uncollected \union constants

Init ==
  /\ kind = << >> /\ no_data = {}
  /\ free_or_new = {} /\ unused = {} /\ old_gen1 = {} /\ old_gen2 = {}
  /\ uncollected = {} /\ constants = {} /\ old_to_new = {} /\ to_look_at = {}
  /\ chain = {}
  /\ next_free = [k \in SmallKinds |-> {}]
  /\ segment_not_free = [k \in SmallKinds |-> FALSE]
  /\ big_chunks = [g \in 0..2 |-> 0]
  /\ in_use = {} /\ ref = [o \in Objects |-> {}] /\ roots = {} /\ kept = {}
  /\ collect_level = -1 /\ pc = "app"

-----------------------------------------------------------------------------
(* Allocation.                                                             *)

\* Allocated object o is referenced by the application if it may be collected.
NewObject(o, k) ==
  /\ in_use' = in_use \union {o}
  /\ ref' = [ref EXCEPT ![o] = {}]
  /\ roots' = IF k \in Uncollected THEN roots ELSE roots \union {o}
  /\ Cardinality(roots') <= MaxRoots
  /\ UNCHANGED <<kept, old_gen1, old_gen2, constants, old_to_new, to_look_at,
                 collect_level, pc>>

\* The objects in the first of some segments of a chain that is not empty.
FirstBits(S) ==
  LET full == {s \in S : Bits(s) # {}}
  IN  UNION {Bits(s) : s \in {t \in full : \A u \in full : <<t, u>> \in chain}}

Following(s) == {t \in Segments : t # s /\ <<s, t>> \in chain}

FaultyNextFree(k, o) ==
  IF next_free[k] \ {o} # {} THEN next_free[k] \ {o} ELSE FirstBits(Following(o[1]))

NextFree(k, o) ==
  IF next_free[k] \ {o} # {} THEN next_free[k] \ {o}
  ELSE IF segment_not_free[k] THEN {} ELSE FirstBits(Following(o[1]))

\* sggc_alloc_small_kind_quickly
AllocQuickly(k) ==
  /\ pc = "app"
  /\ \E o \in Lowest(next_free[k]) :
       /\ next_free' = [next_free EXCEPT ![k] = NextFree(k, o)]
       /\ uncollected' = IF k \in Uncollected THEN uncollected \union {o}
                                              ELSE uncollected
       /\ NewObject(o, k)
  /\ UNCHANGED <<segs, free_or_new, unused, chain, segment_not_free, big_chunks>>

\* A new segment for small objects, its data area being obtained before.
AllocSegment(k) ==
  /\ pc = "app" /\ next_free[k] = {} /\ next_segment <= MaxSegments
  /\ LET o == <<next_segment, 0>>
         full == ObjectsOf(next_segment, k)
     IN  /\ kind' = Append(kind, k)
         /\ IF k \in Uncollected
              THEN /\ uncollected' = uncollected \union {o}
                   /\ UNCHANGED <<free_or_new, chain>>
              ELSE /\ free_or_new' = free_or_new \union full
                   /\ chain' = chain \union ({next_segment} \X (Chain(k) \union {next_segment}))
                   /\ UNCHANGED uncollected
         /\ next_free' = [next_free EXCEPT ![k] = full \ {o}]
         /\ segment_not_free' = [segment_not_free EXCEPT ![k] = TRUE]
         /\ \E failed \in {FALSE} \union (IF k \in DataFails THEN {TRUE} ELSE {}) :
              no_data' = IF failed THEN no_data \union {next_segment} ELSE no_data
         /\ NewObject(o, k)
  /\ UNCHANGED <<unused, big_chunks>>

\* The segment of an unused big object, which may have been of another kind, or a
\* new one.
AllocBig(k) ==
  /\ pc = "app"
  /\ \E o \in IF unused # {} THEN unused ELSE {<<next_segment, 0>>} :
       /\ o[1] <= MaxSegments
       /\ kind' = [s \in 1..(IF o[1] = next_segment THEN o[1] ELSE Len(kind)) |->
                     IF s = o[1] THEN k ELSE kind[s]]
       /\ unused' = unused \ {o}
       /\ free_or_new' = free_or_new \union {o}
       /\ NewObject(o, k)
  /\ big_chunks' = [big_chunks EXCEPT ![0] = @ + 1]
  /\ UNCHANGED <<no_data, uncollected, chain, next>>

\* No data area can be obtained for a big object.
AllocBigFails(k) ==
  /\ pc = "app" /\ k \in DataFails
  /\ \E o \in unused :
       /\ unused' = unused \ {o}
       /\ kind' = [kind EXCEPT ![o[1]] = k]
  /\ UNCHANGED <<no_data, gens, uncollected, constants, old_to_new, to_look_at,
                 chain, next, big_chunks, in_use, app, collect_level, pc>>

\* sggc_constant, for one object: it is called before anything is allocated.
RegisterConstant(k) ==
  /\ pc = "app" /\ kind = << >> /\ next_segment <= MaxSegments
  /\ kind' = Append(kind, k)
  /\ constants' = {<<next_segment, 0>>}
  /\ UNCHANGED <<no_data, gens, unused, uncollected, old_to_new, to_look_at,
                 chain, next, big_chunks, in_use, app, collect_level, pc>>

-----------------------------------------------------------------------------
(* What the application does with objects.                                 *)

Permanent == uncollected \union constants \union kept
Held == roots \union Permanent

FaultyNoteOldToNew(from, to) ==
  /\ from \notin free_or_new \union old_to_new
  /\ to \in free_or_new

\* sggc_old_to_new_check: whether an object must be added to old_to_new when it is
\* made to refer to another.
NoteOldToNew(from, to) ==
  /\ from \notin free_or_new \union old_to_new
  /\ IF from \in Gen2Uncol
       THEN to \in Gen2Uncol =>
              from \in uncollected /\ to \notin constants \union uncollected
       ELSE to \in free_or_new

Links == MapThenSumSet(LAMBDA o : Cardinality(ref[o]), Objects)

\* A reference in object o is set to one of the objects held, with the check.
SetRef ==
  /\ pc = "app"
  /\ \E o \in roots \union uncollected, to \in Held :
     \E from \in {{}} \union {{x} : x \in ref[o]} :
       /\ to \notin ref[o]
       /\ Cardinality(ref[o] \ from) < MaxRefs[Kind(o)]
       /\ ref' = [ref EXCEPT ![o] = (@ \ from) \union {to}]
       /\ Links' <= MaxLinks
       /\ old_to_new' = IF NoteOldToNew(o, to) THEN old_to_new \union {o}
                                               ELSE old_to_new
  /\ UNCHANGED <<segs, gens, unused, uncollected, constants, to_look_at, chain,
                 next, big_chunks, in_use, roots, kept, collect_level, pc>>

\* It takes hold of an object that one it holds refers to, or lets go of one, or
\* makes one permanent of those that it is asked about before they are freed (a
\* string that becomes the name of a symbol).
HoldRef ==
  /\ pc = "app"
  /\ \/ \E o \in Held : \E x \in ref[o] \ Held :
          /\ Cardinality(roots) < MaxRoots
          /\ roots' = roots \union {x} /\ UNCHANGED kept
     \/ \E o \in roots : roots' = roots \ {o} /\ UNCHANGED kept
     \/ \E o \in roots : /\ Kind(o) \in Told /\ Cardinality(kept) < MaxKept
                         /\ kept' = kept \union {o} /\ roots' = roots \ {o}
  /\ UNCHANGED <<segs, gens, unused, uncollected, constants, old_to_new, to_look_at,
                 chain, next, big_chunks, in_use, ref, collect_level, pc>>

-----------------------------------------------------------------------------
(* A collection.                                                           *)

\* put_in_right_old_gen, for each of the objects in S: generations 1 and 2.
Gen1With(S) ==
  IF collect_level = 0 THEN old_gen1 \union S
  ELSE (old_gen1 \ S) \union
         {o \in S : o \notin old_gen1 /\ (collect_level = 2 => o \notin old_gen2)}

Gen2With(S) ==
  IF collect_level = 0 THEN old_gen2 ELSE old_gen2 \union (S \intersect old_gen1)

\* The objects in the old generations that are collected.
Collected(level) ==
  (IF level = 2 THEN old_gen2 ELSE {}) \union (IF level >= 1 THEN old_gen1 ELSE {})

\* sggc_collect_put_in_free_or_new, after the update of the big chunk counts.
\* Segments that are not in the chain go to its front, in an order that depends on
\* that of the old generations; an empty segment stays in it until something walks
\* past it.
Collect(level) ==
  /\ pc = "app"
  /\ free_or_new' = free_or_new \union Collected(level)
  /\ LET linked == UNION {Chain(k) : k \in SmallKinds}
         full == {s \in linked : Bits(s) # {}}
     IN  \E empty \in SUBSET (linked \ full) :
         LET left == full \union empty
             added == {o[1] : o \in {x \in Collected(level) : Kind(x) \in SmallKinds}} \ left
         IN  \E order \in Injection(added, 1..Cardinality(added)) :
               chain' = (chain \intersect (left \X left))
                 \union {p \in added \X (added \union left) :
                           /\ kind[p[1]] = kind[p[2]]
                           /\ p[2] \in added => order[p[1]] <= order[p[2]]}
  /\ big_chunks' =
       [g \in 0..2 |->
          CASE g = 0 -> 0
            [] g = 1 -> big_chunks[0] + (IF level > 0 THEN 0 ELSE big_chunks[1])
            [] g = 2 -> big_chunks[2] + (IF level > 0 THEN big_chunks[1] ELSE 0)]
  /\ collect_level' = level
  /\ pc' = "old_to_new"
  /\ UNCHANGED <<segs, old_gen1, old_gen2, unused, uncollected, constants, old_to_new,
                 to_look_at, next, in_use, app>>

\* sggc_look_at, for each object in S, when it need not be checked.
LookAt(S) ==
  /\ free_or_new' = free_or_new \ S
  /\ to_look_at' = to_look_at \union (S \intersect free_or_new)

\* old_to_new_check for object v
Check(v) ==
  IF v \in uncollected THEN 3 ELSE IF v \in old_gen2 THEN 2
  ELSE IF collect_level = 0 THEN 0 ELSE 1

FaultyStillOldToNew(v, to) ==
  CASE Check(v) = 3 -> to \notin constants \union uncollected
    [] Check(v) = 0 -> FALSE
    [] OTHER -> to \notin Gen2Uncol \union old_gen1

\* Whether sggc_look_at finds that a reference from v needs old_to_new from now on.
StillOldToNew(v, to) ==
  CASE Check(v) = 3 -> to \notin constants \union uncollected
    [] Check(v) = 0 -> FALSE
    [] Check(v) = 2 /\ collect_level = 0 -> to \notin Gen2Uncol
    [] OTHER -> to \notin Gen2Uncol \union old_gen1

FaultyMarks(v) == Check(v) # 1

\* Whether it marks what v refers to, v not being collected itself.
Marks(v) == Check(v) \in {0, 3} \/ (Check(v) = 2 /\ collect_level < 2)

\* sggc_collect_old_to_new
CollectOldToNew ==
  /\ pc = "old_to_new"
  /\ LookAt(UNION {ref[v] : v \in {x \in old_to_new : Marks(x)}})
  /\ old_to_new' = {v \in old_to_new : \E to \in ref[v] : StillOldToNew(v, to)}
  /\ pc' = "roots"
  /\ UNCHANGED <<segs, old_gen1, old_gen2, unused, uncollected, constants, chain, next,
                 big_chunks, in_use, app, collect_level>>

\* sggc_find_root_ptrs: the application looks at the objects it holds; in a full
\* collection it also marks those that it wants to keep.
FindRoots ==
  /\ pc = "roots"
  /\ LET marked == IF collect_level = 2 THEN (kept \ roots) \intersect free_or_new
                                        ELSE {}
     IN  /\ free_or_new' = (free_or_new \ roots) \ marked
         /\ to_look_at' = to_look_at \union (roots \intersect free_or_new)
         /\ old_gen1' = Gen1With(marked) /\ old_gen2' = Gen2With(marked)
  /\ pc' = "look"
  /\ UNCHANGED <<segs, unused, uncollected, constants, old_to_new, chain, next,
                 big_chunks, in_use, app, collect_level>>

\* One pass of sggc_collect_look_at over the objects that it finds in to_look_at.
CollectLookAt ==
  /\ pc = "look" /\ to_look_at # {}
  /\ LET found == UNION {ref[v] : v \in to_look_at}
     IN  /\ free_or_new' = free_or_new \ found
         /\ to_look_at' = found \intersect free_or_new
  /\ old_gen1' = Gen1With(to_look_at) /\ old_gen2' = Gen2With(to_look_at)
  /\ UNCHANGED <<segs, unused, uncollected, constants, old_to_new, chain, next,
                 big_chunks, in_use, app, collect_level, pc>>

FaultyAllocatedSince(k) ==
  {o \in free_or_new : o[1] \in Chain(k) /\ \A x \in next_free[k] :
                         IF o[1] = x[1] THEN o[2] < x[2] ELSE <<o[1], x[1]>> \in chain}

\* The objects in free_or_new[k] up to the next free one, and those in the segments
\* after it if they are not free.
AllocatedSince(k) ==
  {o \in free_or_new :
     o[1] \in Chain(k) /\ \A x \in next_free[k] :
       IF o[1] = x[1] THEN o[2] < x[2]
                      ELSE <<o[1], x[1]>> \in chain \/ segment_not_free[k]}

FaultyLeftOldToNew(S) == old_to_new

\* What stays in old_to_new when the objects in S are free.
LeftOldToNew(S) == old_to_new \ (S \ kept)

\* The objects in S are free, except those that the application wants to keep when
\* it is told (object_now_free).
NowFree(S) ==
  /\ in_use' = in_use \ (S \ kept)
  /\ ref' = [o \in Objects |-> IF o \in S \ kept THEN {} ELSE ref[o]]
  /\ old_to_new' = LeftOldToNew(S)
  /\ old_gen1' = Gen1With(S \intersect kept) \ (S \ kept)
  /\ old_gen2' = Gen2With(S \intersect kept) \ (S \ kept)

\* sggc_collect_remove_free_small: the small objects allocated since the last
\* collection, and those in the old generations, that have not been looked at.
RemoveFreeSmall ==
  /\ pc = "look" /\ to_look_at = {}
  /\ LET old == {o \in Collected(collect_level) : Kind(o) \in SmallKinds}
         free == (old \intersect free_or_new)
                   \union UNION {AllocatedSince(k) : k \in SmallKinds \ Uncollected}
     IN  NowFree(free) /\ free_or_new' = free_or_new \ (free \intersect kept)
  /\ pc' = "big"
  /\ UNCHANGED <<segs, unused, uncollected, constants, to_look_at, chain, next,
                 big_chunks, roots, kept, collect_level>>

FaultyFreedChunks(g, free) ==
  Cardinality(CASE g = 0 -> {}
                [] g = 1 -> free \ old_gen2
                [] g = 2 -> free \intersect old_gen2)

\* How many chunks counted for a generation are found to be free: by now those of
\* old_gen1 are counted for the next one.
FreedChunks(g, free) ==
  Cardinality(CASE g = 0 -> {}
                [] g = 1 -> free \ (old_gen1 \union old_gen2)
                [] g = 2 -> free \intersect (old_gen1 \union old_gen2))

\* sggc_collect_remove_free_big, and the end of sggc_collect: allocation is to
\* start with the first free object of each kind.
RemoveFreeBig ==
  /\ pc = "big"
  /\ LET free == Big(free_or_new) \ kept
         Renewed(k) == k \notin Uncollected
     IN  /\ NowFree(Big(free_or_new))
         /\ free_or_new' = free_or_new \ Big(free_or_new)
         /\ unused' = unused \union free
         /\ big_chunks' = [g \in 0..2 |-> big_chunks[g] - FreedChunks(g, free)]
         /\ next_free' = [k \in SmallKinds |-> IF Renewed(k) THEN FirstBits(Chain(k))
                                                             ELSE next_free[k]]
         /\ segment_not_free' = [k \in SmallKinds |->
                                   IF Renewed(k) THEN FALSE ELSE segment_not_free[k]]
  /\ collect_level' = -1 /\ pc' = "app"
  /\ UNCHANGED <<segs, uncollected, constants, to_look_at, chain, roots, kept>>

application ==
  \/ \E k \in SmallKinds : AllocQuickly(k) \/ AllocSegment(k) \/ RegisterConstant(k)
  \/ \E k \in BigKinds : AllocBig(k) \/ AllocBigFails(k)
  \/ SetRef \/ HoldRef

sggc_collect ==
  \/ \E level \in 0..2 : Collect(level)
  \/ CollectOldToNew \/ FindRoots \/ CollectLookAt
  \/ RemoveFreeSmall \/ RemoveFreeBig

Next == application \/ sggc_collect

Spec == Init /\ [][Next]_vars

-----------------------------------------------------------------------------
(* What must hold.                                                         *)

\* Every variable keeps its type (sggc.c, lines 194-275).
TypeOK ==
  /\ kind \in Seq(Kinds) /\ Len(kind) <= MaxSegments /\ no_data \subseteq Segments
  /\ \A S \in {free_or_new, unused, old_gen1, old_gen2, uncollected, constants,
               old_to_new, to_look_at, in_use, roots, kept} : S \subseteq Objects
  /\ chain \subseteq Segments \X Segments
  /\ next_free \in [SmallKinds -> SUBSET Objects]
  /\ segment_not_free \in [SmallKinds -> BOOLEAN]
  /\ big_chunks \in [0..2 -> Nat]
  /\ ref \in [Objects -> SUBSET Objects]
  /\ collect_level \in -1..2
  /\ pc \in {"app", "old_to_new", "roots", "look", "big"}

\* The free objects that allocation would find, one after the other, if no segment
\* were added (sggc_alloc_small_kind_quickly, sggc.h lines 377-408).
Findable(k) ==
  next_free[k] \union
    {o \in free_or_new : /\ ~segment_not_free[k]
                         /\ \E x \in next_free[k] : o[1] \in Following(x[1])}

\* While the application runs, every object of a small segment is in use, in one
\* generation, or will be found by allocation, and not both: none is given out
\* twice and none is lost (sggc_collect, lines 1970-1993, and sggc.h lines 386-408).
FreeListExact ==
  pc = "app" =>
    LET new == in_use \intersect free_or_new
    IN  /\ in_use = new \union old_gen1 \union old_gen2 \union uncollected
        /\ old_gen1 \intersect (old_gen2 \union new) = {} /\ old_gen2 \intersect new = {}
        /\ \A k \in SmallKinds \ Uncollected :
             Findable(k) = {o \in free_or_new \ in_use : Kind(o) = k}

\* Whenever the application runs, an object is in old_to_new if it refers to one that
\* a collection may look for without looking at the object itself
\* (sggc_old_to_new_check, sggc.h lines 459-524, and sggc_look_at, lines 2131-2160).
OldToNewCovers ==
  pc = "app" =>
    \A o \in in_use \ old_to_new, to \in Objects : to \in ref[o] =>
      CASE o \in uncollected -> to \in uncollected \union constants
        [] o \in old_gen2 -> to \in Gen2Uncol
        [] o \in old_gen1 -> to \notin free_or_new
        [] OTHER -> TRUE

\* Only old objects in use are in old_to_new: a freed one left there would be met
\* again under its next owner ("if (sbset_contains (&old_to_new, v)) abort()",
\* line 1027, under EXTRA_CHECKS).
OldToNewInUse ==
  pc = "app" => old_to_new \subseteq in_use \ free_or_new

\* No object in use, though perhaps unreachable, refers to one that is not, which a
\* collection might then look at (sggc_collect_old_to_new, lines 1521-1571).
NoDangling ==
  pc = "app" => \A o \in in_use : ref[o] \subseteq in_use \union constants

\* The counts of chunks in big objects, from which the next collection's level is
\* chosen, are those of the generations (lines 1935-1943 and 1862-1894).
ChunksCounted ==
  pc = "app" => big_chunks = [g \in 0..2 |-> Cardinality(Big(
    CASE g = 0 -> free_or_new [] g = 1 -> old_gen1 [] g = 2 -> old_gen2))]

SggcHeap == INSTANCE Heap WITH
  live <- in_use \union constants, permanent <- Permanent

\* To the application the collector is a heap in which objects that it can reach
\* never disappear and no object in use is given out again (sggc_collect).
ImplementsHeap == SggcHeap!Spec

\* A full collection frees everything that cannot be reached (level 2,
\* src/src/extra/sggc/sggc-doc lines 577-583).
FullCollection ==
  [][pc = "big" /\ pc' = "app" /\ collect_level = 2 =>
       in_use' \union constants \subseteq SggcHeap!Reachable]_vars

\* An object is allocated only if its data area could be ("Return with failure
\* indication if this allocation fails", lines 770-771).
AllHaveData == \A o \in in_use : o[1] \notin no_data
=============================================================================
