----------------------------- MODULE SggcProofs -----------------------------
(***************************************************************************)
(* What Sggc promises, for any numbers of segments, kinds, objects held    *)
(* and references: its invariants, that it implements Heap, and that a     *)
(* full collection frees all that cannot be reached.                       *)
(*                                                                         *)
(* HeapInv holds in every state, also between the phases of a collection.  *)
(* Its parts say in which sets an object may be, what generation it is in, *)
(* what refers to what, how segments are chained, what allocation takes    *)
(* next, and that references to objects which may be freed start at        *)
(* objects that are noted or yet to be looked at.  There is one lemma for  *)
(* each action (...Keeps), with one step for each part.  Counted and       *)
(* Marked are kept once HeapInv is known.                                  *)
(***************************************************************************)
EXTENDS Sggc, FiniteSetTheorems, SequenceTheorems, WellFoundedInduction, TLAPS

\* The objects that have not been looked at in a collection, or are new.
White == in_use \intersect free_or_new

\* The objects that were in the generations collected, and those in old_gen2: what is
\* left of them will be in old_gen2.
Elder == old_gen2 \union
  IF collect_level >= 1 THEN old_gen1 \intersect (free_or_new \union to_look_at) ELSE {}

Fixed == uncollected \union constants

TypeInv ==
  /\ kind \in Seq(Kinds) /\ Len(kind) <= MaxSegments /\ no_data \subseteq Segments
  /\ chain \subseteq Segments \X Segments
  /\ next_free \in [SmallKinds -> SUBSET Objects]
  /\ segment_not_free \in [SmallKinds -> BOOLEAN]
  /\ ref \in [Objects -> SUBSET Objects]
  /\ collect_level \in -1..2
  /\ pc \in {"app", "old_to_new", "roots", "look", "big"}
  /\ pc = "app" <=> collect_level = -1

\* Where objects are.
Placed ==
  /\ in_use \union constants \union free_or_new \union unused \subseteq
       {o \in Objects : o[1] \in DOMAIN kind}
  /\ \A o \in unused : Kind(o) \in BigKinds /\ o \notin in_use \union free_or_new
  /\ \A o \in unused \union in_use : Kind(o) \in BigKinds => o[2] = 0
  /\ \A o \in free_or_new : Kind(o) \notin Uncollected
                            /\ (Kind(o) \in BigKinds => o \in in_use)
  /\ \A o \in constants : /\ o \notin in_use \union free_or_new \union unused
                           /\ Kind(o) \in SmallKinds
  /\ uncollected \subseteq in_use
  /\ \A o \in in_use : o \in uncollected <=> Kind(o) \in Uncollected

\* What generation they are in.
Aged ==
  /\ to_look_at \union old_gen1 \union old_gen2 \subseteq in_use \ uncollected
  /\ in_use \subseteq free_or_new \union to_look_at \union old_gen1 \union old_gen2
                        \union uncollected
  /\ old_gen1 \intersect old_gen2 = {} /\ to_look_at \intersect free_or_new = {}
  /\ collect_level < 2 => old_gen2 \intersect (free_or_new \union to_look_at) = {}
  /\ collect_level < 1 => old_gen1 \intersect (free_or_new \union to_look_at) = {}
  /\ pc \in {"app", "old_to_new", "big"} => to_look_at = {}
  /\ pc = "old_to_new" => Collected(collect_level) \subseteq free_or_new
  /\ old_to_new \subseteq old_gen1 \union old_gen2 \union uncollected

\* What the application holds, and what refers to what.
Referred ==
  /\ roots \union kept \subseteq in_use \ uncollected
  /\ \A o \in kept : Kind(o) \in Told
  /\ pc \in {"look", "big"} => roots \intersect free_or_new = {}
  /\ \A o \in Objects \ in_use : ref[o] = {}
  /\ \A o \in in_use : Kind(o) \in Told => ref[o] = {}
  /\ \A o \in in_use : (pc = "big" => o \notin free_or_new) => ref[o] \subseteq in_use \union constants

\* The chains.
Chained ==
  /\ \A s, t \in Segments : <<s, t>> \in chain =>
       /\ s \in DOMAIN kind /\ t \in DOMAIN kind
       /\ kind[s] = kind[t] /\ kind[s] \in SmallKinds \ Uncollected
       /\ <<s, s>> \in chain /\ <<t, t>> \in chain
       /\ <<t, s>> \in chain => s = t
  /\ \A s, t \in Segments :
       /\ <<s, s>> \in chain /\ <<t, t>> \in chain /\ kind[s] = kind[t] =>
            <<s, t>> \in chain \/ <<t, s>> \in chain
       /\ \A u \in Segments : <<s, t>> \in chain /\ <<t, u>> \in chain => <<s, u>> \in chain
  /\ \A o \in free_or_new : Kind(o) \in SmallKinds => <<o[1], o[1]>> \in chain

\* What allocation takes next.
Free(k) ==
  /\ \A x \in next_free[k] : /\ x[1] \in DOMAIN kind /\ Kind(x) = k
                             /\ x \notin in_use \union constants
                             /\ k \notin Uncollected => x \in free_or_new
                             /\ \A y \in next_free[k] : x[1] = y[1]
  /\ pc # "big" =>
       \A x \in next_free[k], y \in free_or_new \ in_use : y[1] = x[1] => y \in next_free[k]
  /\ pc # "big" /\ k \notin Uncollected =>
       /\ AllocatedSince(k) \subseteq in_use
       /\ \A o \in White : Kind(o) = k =>
            o \in AllocatedSince(k) \union Collected(collect_level)
FreeInv ==
  /\ \A k \in SmallKinds : Free(k)
  /\ pc = "big" => \A o \in White : Kind(o) \in BigKinds

\* What refers to newer objects.
Covered ==
  /\ \A o \in uncollected \ old_to_new : ref[o] \subseteq Fixed
  /\ pc \in {"app", "old_to_new"} =>
       /\ \A o \in old_gen2 \ old_to_new : ref[o] \subseteq Gen2Uncol
       /\ \A o \in old_gen1 \ old_to_new : ref[o] \subseteq old_gen1 \union Gen2Uncol
  /\ pc \in {"roots", "look"} =>
       \A o \in Elder \ old_to_new : ref[o] \subseteq Elder \union Fixed
  /\ pc \in {"roots", "look", "big"} =>
       \A o \in in_use \ (free_or_new \union to_look_at) : ref[o] \intersect free_or_new = {}
  /\ pc = "big" =>
       \A o \in old_gen2 \ (free_or_new \union old_to_new) : ref[o] \subseteq Gen2Uncol

HeapInv == TypeInv /\ Placed /\ Aged /\ Referred /\ Chained /\ FreeInv /\ Covered

-----------------------------------------------------------------------------
(* Objects and segments.                                                   *)

LEMMA ObjectsAre ==
  /\ \A o \in Objects : /\ o[1] \in Segments /\ o[2] \in Nat /\ o = <<o[1], o[2]>>
                        /\ o[1] \in 1..MaxSegments
  /\ \A k \in Kinds, s \in Segments : /\ <<s, 0>> \in ObjectsOf(s, k)
                                      /\ ObjectsOf(s, k) \subseteq Objects
                                      /\ \A o \in ObjectsOf(s, k) : o[1] = s
  /\ Segments \subseteq Nat /\ MaxSegments \in Nat
<1>1. \A k \in Kinds : KindObjects[k] \in Nat \ {0}
  BY ConstantsAssumption
<1>2. MaxSegments \in Nat
  BY ConstantsAssumption
<1>3. \A k \in Kinds, s \in Segments : <<s, 0>> \in ObjectsOf(s, k)
  BY <1>1 DEF ObjectsOf
<1>4. \A k \in Kinds, s \in Segments : \A o \in ObjectsOf(s, k) : o[1] = s /\ o \in Objects
  <2> SUFFICES ASSUME NEW k \in Kinds, NEW s \in Segments, NEW o \in ObjectsOf(s, k)
               PROVE  o[1] = s /\ o \in Objects
    OBVIOUS
  <2>1. PICK i \in 0..(KindObjects[k] - 1) : o = <<s, i>>
    BY DEF ObjectsOf
  <2>2. o \in Objects
    BY DEF Objects
  <2> QED BY <2>1, <2>2
<1>5. ASSUME NEW o \in Objects
      PROVE  o[1] \in Segments /\ o[2] \in Nat /\ o = <<o[1], o[2]>>
  <2>1. PICK s \in Segments, k \in Kinds : o \in ObjectsOf(s, k)
    BY DEF Objects
  <2>2. PICK i \in 0..(KindObjects[k] - 1) : o = <<s, i>>
    BY <2>1 DEF ObjectsOf
  <2> QED BY <2>2, <1>1
<1> QED BY <1>2, <1>3, <1>4, <1>5 DEF Segments

LEMMA ObjectsFinite == \A S \in SUBSET Objects : IsFiniteSet(S)
<1> DEFINE positions == [k \in Kinds |-> 0..(KindObjects[k] - 1)]
           images == {positions[k] : k \in Kinds}
<1>1. IsFiniteSet(Kinds) /\ IsFiniteSet(Segments)
  BY ConstantsAssumption, FS_Interval DEF Segments
<1>2. positions \in Surjection(Kinds, images)
  BY DEF Surjection
<1>3. IsFiniteSet(images)
  BY <1>1, <1>2, FS_Surjection
<1>4. \A T \in images : IsFiniteSet(T)
  <2> SUFFICES ASSUME NEW k \in Kinds PROVE IsFiniteSet(positions[k])
    OBVIOUS
  <2>1. KindObjects[k] - 1 \in Int
    BY ConstantsAssumption
  <2>2. IsFiniteSet(0..(KindObjects[k] - 1))
    BY <2>1, FS_Interval
  <2> QED BY <2>2
<1>5. IsFiniteSet(UNION images)
  BY <1>3, <1>4, FS_UNION
<1>6. IsFiniteSet(Segments \X UNION images)
  BY <1>1, <1>5, FS_Product
<1>7. Objects \subseteq Segments \X UNION images
  BY DEF Objects, ObjectsOf
<1>8. \A S \in SUBSET Objects : S \in SUBSET (Segments \X UNION images)
  BY <1>7
<1> QED BY <1>6, <1>8, FS_Subset

\* Of some segments of a chain one comes first.
LEMMA ChainHasFirst ==
  ASSUME Chained, NEW S \in SUBSET Segments, S # {},
         \A s, t \in S : <<s, t>> \in chain \/ <<t, s>> \in chain
  PROVE  \E t \in S : \A u \in S : <<t, u>> \in chain
<1> DEFINE upto(t) == {u \in S : <<u, t>> \in chain}
           all == {upto(t) : t \in S}
<1>1. IsFiniteSet(Segments)
  BY ConstantsAssumption, FS_Interval DEF Segments
<1>2. all \subseteq FiniteSubsetsOf(Segments) /\ all # {}
  <2>1. \A t \in S : upto(t) \in SUBSET Segments
    OBVIOUS
  <2>2. \A t \in S : IsFiniteSet(upto(t))
    BY <1>1, <2>1, FS_Subset
  <2> QED BY <2>1, <2>2 DEF FiniteSubsetsOf
<1>3. PICK x \in all : \A y \in all : <<y, x>> \notin StrictSubsetOrdering(Segments)
  BY <1>2, WFMin, FS_StrictSubsetOrderingWellFounded
<1>4. PICK t \in S : x = upto(t)
  OBVIOUS
<1>5. ASSUME NEW u \in S, <<t, u>> \notin chain PROVE FALSE
  <2>1. <<u, t>> \in chain
    BY <1>5
  <2>2. upto(u) \subseteq upto(t)
    BY <2>1 DEF Chained
  <2>3. t \in upto(t) /\ t \notin upto(u)
    BY <1>5
  <2>4. upto(u) \in SUBSET Segments /\ upto(t) \in SUBSET Segments /\ upto(u) # upto(t)
    BY <2>3
  <2> DEFINE a == upto(u)
             b == upto(t)
  <2>5. a \in all /\ b = x /\ a \in SUBSET Segments /\ b \in SUBSET Segments
        /\ a \subseteq b /\ a # b
    BY <1>4, <2>2, <2>4
  <2> HIDE DEF a, b
  <2>6. <<a, b>> \in StrictSubsetOrdering(Segments)
    BY <2>5 DEF StrictSubsetOrdering
  <2> QED BY <1>3, <2>5, <2>6
<1> QED BY <1>5

LEMMA FirstBitsAre ==
  ASSUME Chained, NEW S \in SUBSET Segments,
         \A s, t \in S : <<s, t>> \in chain \/ <<t, s>> \in chain
  PROVE  \/ FirstBits(S) = {} /\ \A s \in S : Bits(s) = {}
         \/ \E t \in S : /\ FirstBits(S) = Bits(t) /\ Bits(t) # {}
                         /\ \A u \in S : Bits(u) # {} => <<t, u>> \in chain
<1> DEFINE full == {s \in S : Bits(s) # {}}
<1>1. CASE full = {}
  BY <1>1 DEF FirstBits
<1>2. CASE full # {}
  <2>1. PICK t \in full : \A u \in full : <<t, u>> \in chain
    BY <1>2, ChainHasFirst
  <2>2. \A v \in full : <<v, t>> \in chain => v = t
    BY <2>1 DEF Chained
  <2>4. {v \in full : \A u \in full : <<v, u>> \in chain} = {t}
    BY <2>1, <2>2
  <2>3. FirstBits(S) = Bits(t)
    BY <2>4 DEF FirstBits
  <2> QED BY <2>1, <2>3
<1> QED BY <1>1, <1>2

LEMMA SegmentsInUse ==
  ASSUME TypeInv
  PROVE  /\ Len(kind) \in Nat /\ DOMAIN kind = 1..Len(kind) /\ DOMAIN kind \subseteq Segments
         /\ \A s \in DOMAIN kind : kind[s] \in Kinds
<1>1. Len(kind) \in Nat /\ DOMAIN kind = 1..Len(kind) /\ \A s \in DOMAIN kind : kind[s] \in Kinds
  BY DEF TypeInv
<1>2. MaxSegments \in Nat /\ Len(kind) <= MaxSegments
  BY ConstantsAssumption DEF TypeInv
<1>3. 1..Len(kind) \subseteq 1..MaxSegments
  BY <1>1, <1>2
<1> QED BY <1>1, <1>3 DEF Segments

-----------------------------------------------------------------------------
(* Steps that leave much as it is.                                         *)

LEMMA ChainedStays ==
  ASSUME Chained, UNCHANGED <<kind, chain>>, free_or_new' \subseteq free_or_new
  PROVE  Chained'
BY DEF Chained, Kind

\* What is allocated and what allocation takes next stay.
LEMMA FreeStays ==
  ASSUME FreeInv, pc # "big", pc' # "big",
         UNCHANGED <<kind, chain, next, in_use, constants>>,
         free_or_new' \subseteq free_or_new, free_or_new \ in_use \subseteq free_or_new',
         Collected(collect_level) \intersect free_or_new' \subseteq Collected(collect_level)'
  PROVE  FreeInv'
<1> SUFFICES ASSUME NEW k \in SmallKinds PROVE Free(k)'
  BY DEF FreeInv
<1>1. Free(k)
  BY DEF FreeInv
<1>2. AllocatedSince(k)' = AllocatedSince(k) \intersect free_or_new'
  BY DEF AllocatedSince, next, Chain
<1>3. White' \subseteq White
  BY DEF White
<1> QED BY <1>1, <1>2, <1>3 DEF Free, next, Kind, White

-----------------------------------------------------------------------------
(* The application.                                                        *)

LEMMA SetRefKeeps == ASSUME HeapInv, SetRef PROVE HeapInv'
<1> USE DEF HeapInv
<1> PICK o \in roots \union uncollected, to \in Held :
      \E from \in {{}} \union {{x} : x \in ref[o]} :
        /\ Cardinality(ref[o] \ from) < MaxRefs[Kind(o)]
        /\ ref' = [ref EXCEPT ![o] = (@ \ from) \union {to}]
        /\ old_to_new' = IF NoteOldToNew(o, to) THEN old_to_new \union {o} ELSE old_to_new
  BY DEF SetRef
<1>1. PICK from \in {{}} \union {{x} : x \in ref[o]} :
        /\ Cardinality(ref[o] \ from) < MaxRefs[Kind(o)]
        /\ ref' = [ref EXCEPT ![o] = (@ \ from) \union {to}]
        /\ old_to_new' = IF NoteOldToNew(o, to) THEN old_to_new \union {o} ELSE old_to_new
  OBVIOUS
<1>2. /\ UNCHANGED <<segs, gens, unused, uncollected, constants, to_look_at, chain, next,
                     in_use, roots, kept, collect_level, pc>>
      /\ pc = "app"
  BY DEF SetRef
<1>3. o \in in_use /\ o \in Objects /\ to \in in_use \union constants /\ to \in Objects
  BY DEF Referred, Placed, Held, Permanent
<1>4. ref' \in [Objects -> SUBSET Objects]
  BY <1>1, <1>3 DEF TypeInv
<1>5. /\ ref'[o] = (ref[o] \ from) \union {to}
      /\ \A x \in Objects : x # o => ref'[x] = ref[x]
  BY <1>1, <1>3 DEF TypeInv
<1>6. Kind(o) \notin Told
  <2>1. IsFiniteSet(ref[o] \ from)
    BY <1>3, ObjectsFinite DEF TypeInv
  <2>2. Cardinality(ref[o] \ from) \in Nat
    BY <2>1, FS_CardinalityType
  <2> QED BY <1>1, <2>2, ConstantsAssumption
<1>10. TypeInv'
  BY <1>2, <1>4 DEF TypeInv, segs, next
<1>20. Placed'
  BY <1>2 DEF Placed, segs, gens, Kind
<1>30. Aged'
  BY <1>1, <1>2, <1>3 DEF Aged, gens, Referred, TypeInv, NoteOldToNew, Gen2Uncol
<1>40. Referred'
  <2>1. ref'[o] \subseteq in_use \union constants
    BY <1>2, <1>3, <1>5 DEF Referred
  <2> QED BY <1>2, <1>3, <1>5, <1>6, <2>1 DEF Referred, Kind, Placed, segs, gens
<1>50. Chained'
  BY <1>2, ChainedStays DEF segs, gens
<1>60. FreeInv'
  BY <1>2, FreeStays DEF segs, gens, Collected
<1>70. Covered'
  <2>1. old_to_new \subseteq old_to_new'
    BY <1>1
  <2>2. collect_level = -1
    BY <1>2 DEF TypeInv
  <2>3. o \in old_gen1 \union old_gen2 \union uncollected => o \notin free_or_new
    BY <2>2 DEF Aged, Placed
  <2>4. o \notin old_to_new' =>
          /\ o \in uncollected => to \in Fixed
          /\ o \in old_gen2 => to \in Gen2Uncol
          /\ o \in old_gen1 => to \in old_gen1 \union Gen2Uncol
    BY <1>1, <1>2, <1>3, <2>3 DEF NoteOldToNew, Gen2Uncol, Fixed, Aged
  <2> QED BY <1>2, <1>3, <1>5, <2>1, <2>4 DEF Covered, Gen2Uncol, Fixed, Aged, Placed, gens
<1> QED BY <1>10, <1>20, <1>30, <1>40, <1>50, <1>60, <1>70

LEMMA HoldRefKeeps == ASSUME HeapInv, HoldRef PROVE HeapInv'
<1> USE DEF HeapInv
<1>1. TypeInv'
  BY DEF TypeInv, HoldRef, segs, gens, next
<1>2. Placed'
  BY DEF Placed, HoldRef, segs, gens, Kind
<1>3. Aged'
  BY DEF Aged, HoldRef, gens
<1>4. Referred'
  BY DEF Referred, HoldRef, Held, Permanent, segs, gens, Placed, Kind
<1>5. Chained'
  BY ChainedStays DEF HoldRef, segs, gens
<1>6. FreeInv'
  BY FreeStays DEF HoldRef, segs, gens, Collected
<1>7. Covered'
  BY DEF Covered, HoldRef, Gen2Uncol, Fixed, gens
<1> QED BY <1>1, <1>2, <1>3, <1>4, <1>5, <1>6, <1>7

LEMMA AllocBigFailsKeeps == ASSUME HeapInv, NEW k \in BigKinds, AllocBigFails(k) PROVE HeapInv'
<1> USE DEF HeapInv
<1>1. PICK o \in unused : /\ unused' = unused \ {o}
                          /\ kind' = [kind EXCEPT ![o[1]] = k]
  BY DEF AllocBigFails
<1>2. /\ o \in Objects /\ o[1] \in DOMAIN kind /\ Kind(o) \in BigKinds /\ o \notin in_use
      /\ k \in Kinds
  BY <1>1 DEF Placed, Kinds
<1>3. /\ DOMAIN kind' = DOMAIN kind /\ kind' \in Seq(Kinds) /\ Len(kind') = Len(kind)
      /\ \A s \in DOMAIN kind : kind'[s] = IF s = o[1] THEN k ELSE kind[s]
  BY <1>1, <1>2 DEF TypeInv
<1>4. \A x \in in_use \union constants \union free_or_new : Kind(x)' = Kind(x)
  <2> SUFFICES ASSUME NEW x \in in_use \union constants \union free_or_new, x[1] = o[1]
               PROVE  FALSE
    BY <1>3 DEF Placed, Kind
  <2>1. Kind(x) = Kind(o) /\ x \in Objects
    BY DEF Kind, Placed
  <2>2. x \in in_use \/ x \in constants
    BY <2>1, <1>2 DEF Placed
  <2>3. x \in in_use => x[2] = 0 /\ o[2] = 0
    BY <2>1, <1>2 DEF Placed
  <2> QED BY <1>2, <2>1, <2>2, <2>3, ObjectsAre, ConstantsAssumption DEF Placed
<1>5. \A x \in unused : Kind(x)' \in BigKinds
  BY <1>2, <1>3 DEF Kind, Placed
<1>6. UNCHANGED <<no_data, gens, uncollected, constants, old_to_new, to_look_at,
                  chain, next, in_use, app, collect_level, pc>> /\ pc = "app"
  BY DEF AllocBigFails
<1>10. TypeInv'
  BY <1>3, <1>6 DEF TypeInv, next, app
<1>20. Placed'
  BY <1>1, <1>3, <1>4, <1>5, <1>6 DEF Placed, gens
<1>30. Aged'
  BY <1>6 DEF Aged, gens
<1>40. Referred'
  BY <1>4, <1>6 DEF Referred, gens, app
<1>50. Chained'
  <2>1. \A s \in DOMAIN kind : kind[s] \in SmallKinds => kind'[s] = kind[s]
    BY <1>2, <1>3, ConstantsAssumption DEF Kind
  <2>2. \A x \in free_or_new : x[1] \in DOMAIN kind
    BY DEF Placed
  <2>3. UNCHANGED <<chain, free_or_new>>
    BY <1>6 DEF gens
  <2>4. \A x \in free_or_new : Kind(x)' \in SmallKinds => <<x[1], x[1]>> \in chain
    BY <1>4 DEF Chained
  <2> QED BY <1>3, <2>1, <2>3, <2>4 DEF Chained
<1>60. FreeInv'
  <2> SUFFICES ASSUME NEW j \in SmallKinds PROVE Free(j)'
    BY <1>4, <1>6 DEF FreeInv, White, gens
  <2>1. Free(j)
    BY DEF FreeInv
  <2>2. \A x \in next_free[j] : x[1] # o[1]
    BY <1>2, <2>1, ConstantsAssumption DEF Free, Kind
  <2>3. Chain(j)' = Chain(j)
    BY <1>2, <1>3, <1>6, ConstantsAssumption DEF Chain, Kind
  <2>4. AllocatedSince(j)' = AllocatedSince(j)
    BY <1>6, <2>3 DEF AllocatedSince, next, gens
  <2>5. \A x \in next_free[j] : Kind(x)' = Kind(x)
    BY <1>3, <2>1, <2>2 DEF Free, Kind
  <2> QED BY <1>3, <1>4, <1>6, <2>1, <2>4, <2>5 DEF Free, next, gens, White, Collected
<1>70. Covered'
  BY <1>6 DEF Covered, Gen2Uncol, Fixed, gens, app
<1> QED BY <1>10, <1>20, <1>30, <1>40, <1>50, <1>60, <1>70

LEMMA RegisterConstantKeeps ==
  ASSUME HeapInv, NEW k \in SmallKinds, RegisterConstant(k) PROVE HeapInv'
<1> USE DEF HeapInv
<1> DEFINE o == <<next_segment, 0>>
<1>1. /\ kind = << >> /\ Len(kind) = 0 /\ next_segment = 1 /\ 1 \in Segments /\ o = <<1, 0>>
      /\ k \in Kinds
  BY ObjectsAre DEF RegisterConstant, next_segment, Segments, Kinds
<1>2. /\ o \in Objects /\ kind' \in Seq(Kinds) /\ DOMAIN kind' = 1..1 /\ Len(kind') = 1
      /\ kind'[1] = k
  BY <1>1, ObjectsAre DEF RegisterConstant
<1>3. /\ UNCHANGED <<no_data, gens, unused, uncollected, old_to_new, to_look_at,
                     chain, next, in_use, app, collect_level, pc>>
      /\ constants' = {o} /\ pc = "app"
  BY DEF RegisterConstant
<1>4. /\ in_use = {} /\ constants = {} /\ free_or_new = {} /\ unused = {}
      /\ \A j \in SmallKinds : next_free[j] = {}
  BY <1>1 DEF Placed, FreeInv, Free
<1>5. chain = {}
  BY <1>1 DEF Chained, TypeInv
<1>10. TypeInv'
  BY <1>1, <1>2, <1>3 DEF TypeInv, next, app, Segments
<1>20. Placed'
  <2> HIDE DEF o
  <2>1. o[1] = 1 /\ kind'[o[1]] = k /\ k \in Kinds
    BY <1>1, <1>2
  <2>2. uncollected' = {} /\ in_use' = {} /\ free_or_new' = {} /\ unused' = {}
    BY <1>3, <1>4 DEF Placed, gens
  <2>3. constants' = {o}
    BY <1>3
  <2> QED BY <1>2, <2>1, <2>2, <2>3 DEF Placed, Kind
<1>30. Aged'
  BY <1>3 DEF Aged, gens
<1>40. Referred'
  BY <1>3, <1>4 DEF Referred, gens, app
<1>50. Chained'
  BY <1>3, <1>4, <1>5 DEF Chained, gens
<1>60. FreeInv'
  BY <1>3, <1>4 DEF FreeInv, Free, next, gens, White, AllocatedSince
<1>70. Covered'
  BY <1>3, <1>4 DEF Covered, Aged, Placed, gens, app
<1> QED BY <1>10, <1>20, <1>30, <1>40, <1>50, <1>60, <1>70

-----------------------------------------------------------------------------
(* Allocation.                                                             *)

LEMMA AllocQuicklyKeeps ==
  ASSUME HeapInv, NEW k \in SmallKinds, AllocQuickly(k) PROVE HeapInv'
<1> USE DEF HeapInv
<1>1. PICK o \in Lowest(next_free[k]) :
        /\ next_free' = [next_free EXCEPT ![k] = NextFree(k, o)]
        /\ uncollected' = IF k \in Uncollected THEN uncollected \union {o} ELSE uncollected
        /\ NewObject(o, k)
  BY DEF AllocQuickly
<1>2. /\ UNCHANGED <<segs, free_or_new, unused, chain, segment_not_free, kept, old_gen1,
                     old_gen2, constants, old_to_new, to_look_at, collect_level, pc>>
      /\ pc = "app" /\ collect_level = -1 /\ to_look_at = {}
      /\ in_use' = in_use \union {o}
      /\ ref' = [ref EXCEPT ![o] = {}]
      /\ roots' = IF k \in Uncollected THEN roots ELSE roots \union {o}
  BY <1>1 DEF AllocQuickly, NewObject, TypeInv, Aged
<1>3. /\ o \in next_free[k] /\ o \in Objects /\ o[1] \in DOMAIN kind /\ Kind(o) = k
      /\ o \notin in_use \union constants
      /\ k \notin Uncollected => o \in free_or_new
      /\ \A x \in next_free[k] : o[2] <= x[2]
  BY <1>1 DEF Lowest, TypeInv, FreeInv, Free
<1>4. k \notin BigKinds /\ o \notin unused
  BY <1>3, ConstantsAssumption DEF Placed
<1>5. \A x \in Objects : ref'[x] = IF x = o THEN {} ELSE ref[x]
  BY <1>2, <1>3 DEF TypeInv
<1>6. /\ Following(o[1]) \subseteq Segments
      /\ \A s, t \in Following(o[1]) : <<s, t>> \in chain \/ <<t, s>> \in chain
  <2>1. Following(o[1]) \subseteq Segments /\ o[1] \in Segments
    BY <1>3, ObjectsAre DEF Following
  <2>2. \A s \in Following(o[1]) : /\ kind[s] = kind[o[1]] /\ <<s, s>> \in chain
                                   /\ <<o[1], s>> \in chain /\ o[1] # s
    BY <2>1 DEF Following, Chained
  <2> QED BY <2>1, <2>2 DEF Chained
<1>7. \/ FirstBits(Following(o[1])) = {} /\ \A s \in Following(o[1]) : Bits(s) = {}
      \/ \E t \in Following(o[1]) :
           /\ FirstBits(Following(o[1])) = Bits(t) /\ Bits(t) # {}
           /\ \A u \in Following(o[1]) : Bits(u) # {} => <<t, u>> \in chain
  BY <1>6, FirstBitsAre
<1>8. /\ \A j \in SmallKinds : j # k => next_free'[j] = next_free[j]
      /\ next_free'[k] = NextFree(k, o)
  BY <1>1 DEF TypeInv
<1>9. NextFree(k, o) \subseteq Objects
  BY <1>7 DEF NextFree, Bits, Placed, TypeInv
<1>10. TypeInv'
  BY <1>1, <1>2, <1>3, <1>9 DEF TypeInv, segs
<1>20. Placed'
  BY <1>1, <1>2, <1>3, <1>4 DEF Placed, Kind, segs
<1>30. Aged'
  BY <1>1, <1>2, <1>3 DEF Aged
<1>40. Referred'
  BY <1>1, <1>2, <1>3, <1>5 DEF Referred, Kind, segs, Placed
<1>50. Chained'
  BY <1>2, ChainedStays DEF segs
<1>60. FreeInv'
  <2> SUFFICES ASSUME NEW j \in SmallKinds PROVE Free(j)'
    BY <1>2 DEF FreeInv
  <2>1. Free(j) /\ Free(k)
    BY DEF FreeInv
  <2>2. ASSUME j # k PROVE Free(j)'
    <3>1. AllocatedSince(j)' = AllocatedSince(j)
      BY <1>2, <1>8, <2>2 DEF AllocatedSince, Chain, segs
    <3> QED BY <1>2, <1>3, <1>8, <2>1, <2>2, <3>1 DEF Free, White, Kind, segs, Collected
  <2>3. ASSUME k \in Uncollected PROVE Free(k)'
    <3>1. next_free'[k] \subseteq next_free[k] \ {o}
      <4>1. Following(o[1]) = {}
        BY <1>3, <2>3, ObjectsAre DEF Following, Chained, Kind
      <4> QED BY <1>7, <1>8, <4>1 DEF NextFree
    <3>2. \A x \in Objects : Kind(x)' = Kind(x)
      BY <1>2 DEF Kind, segs
    <3>3. \A x \in next_free[k], y \in free_or_new : y[1] # x[1]
      BY <2>1, <2>3 DEF Free, Placed, Kind
    <3> QED BY <1>2, <1>3, <2>1, <2>3, <3>1, <3>2, <3>3 DEF Free, segs, TypeInv
  <2>4. ASSUME k \notin Uncollected PROVE Free(k)'
    <3> DEFINE ahead(p, nf) ==
          \A x \in nf : IF p[1] = x[1] THEN p[2] < x[2]
                                       ELSE <<p[1], x[1]>> \in chain \/ segment_not_free[k]
    <3>1. \A p \in free_or_new : Kind(p) = k <=> p[1] \in Chain(k)
      BY ObjectsAre DEF Chain, Chained, Kind, Placed
    <3>2. \A p \in free_or_new : Kind(p) = k => (p \in in_use <=> ahead(p, next_free[k]))
      BY <1>2, <2>1, <2>4, <3>1 DEF Free, AllocatedSince, White, Collected
    <3>3. SUFFICES
            /\ \A p \in free_or_new :
                 Kind(p) = k => (p \in in_use \union {o} <=> ahead(p, next_free'[k]))
            /\ \A x \in next_free'[k] :
                 /\ x[1] \in DOMAIN kind /\ Kind(x) = k /\ x \notin in_use \union {o}
                 /\ x \in free_or_new /\ \A y \in next_free'[k] : x[1] = y[1]
                 /\ \A y \in free_or_new \ (in_use \union {o}) :
                      y[1] = x[1] => y \in next_free'[k]
      <4>1. AllocatedSince(k)' = {p \in free_or_new : p[1] \in Chain(k) /\ ahead(p, next_free'[k])}
        BY <1>2 DEF AllocatedSince, Chain, segs
      <4> QED BY <1>2, <3>1, <4>1 DEF Free, White, Kind, segs, Placed
    <3>4. \A p \in free_or_new \ in_use : p[1] = o[1] => p \in next_free[k]
      BY <1>2, <1>3, <2>1 DEF Free
    <3>10. \A p \in free_or_new : p[2] \in Nat /\ p = <<p[1], p[2]>>
      BY ObjectsAre DEF Placed
    <3>11. o[2] \in Nat /\ o = <<o[1], o[2]>>
      BY <1>3, ObjectsAre
    <3>5. CASE next_free[k] \ {o} # {}
      <4>1. next_free'[k] = next_free[k] \ {o}
        BY <1>8, <3>5 DEF NextFree
      <4>2. \A x \in next_free[k] : /\ x[1] = o[1] /\ x \in Objects /\ x \notin in_use
                                    /\ x[1] \in DOMAIN kind /\ Kind(x) = k /\ x \in free_or_new
        BY <1>3, <2>1, <2>4 DEF Free, Placed
      <4>3. \A p \in free_or_new : p \in Objects
        BY DEF Placed
      <4>4. ASSUME NEW p \in free_or_new, Kind(p) = k
            PROVE  p \in in_use \union {o} <=> ahead(p, next_free'[k])
        <5>1. CASE p[1] # o[1]
          BY <3>2, <3>5, <4>1, <4>2, <4>4, <5>1
        <5>2. CASE p[1] = o[1] /\ p \in in_use
          BY <3>2, <4>1, <4>2, <4>4, <5>2
        <5>3. CASE p = o
          BY <1>3, <4>1, <4>2, <5>3, ObjectsAre
        <5>4. CASE p[1] = o[1] /\ p \notin in_use /\ p # o
          <6>1. p \in next_free[k] /\ p \in next_free'[k]
            BY <3>4, <4>1, <5>4
          <6>2. ~(p[2] < p[2])
            BY <3>10
          <6> QED BY <5>4, <6>1, <6>2
        <5> QED BY <5>1, <5>2, <5>3, <5>4
      <4> QED BY <3>4, <4>1, <4>2, <4>4
    <3>6. CASE next_free[k] = {o} /\ segment_not_free[k]
      <4>1. next_free'[k] = {}
        BY <1>8, <3>6 DEF NextFree
      <4>2. ASSUME NEW p \in free_or_new, Kind(p) = k PROVE p \in in_use \union {o}
        BY <3>2, <3>4, <3>6, <4>2
      <4> QED BY <4>1, <4>2
    <3>7. CASE next_free[k] = {o} /\ ~segment_not_free[k]
      <4>1. next_free'[k] = FirstBits(Following(o[1]))
        BY <1>8, <3>7 DEF NextFree
      <4>2. \A p \in free_or_new : p[1] = o[1] => p \in in_use \union {o}
        BY <3>4, <3>7
      <4>3. \A p \in free_or_new : Kind(p) = k /\ p[1] # o[1] =>
               (p \in in_use <=> <<p[1], o[1]>> \in chain)
        BY <3>2, <3>7
      <4>4. \A p \in free_or_new : Kind(p) = k => p[1] \in Segments /\ <<p[1], p[1]>> \in chain
                                     /\ p \in Bits(p[1]) /\ p \in Objects
        BY <3>1, ObjectsAre DEF Chain, Bits, Placed
      <4>5. o[1] \in Segments /\ <<o[1], o[1]>> \in chain
        BY <1>3, <2>4, <4>4
      <4>6. \A p \in free_or_new : Kind(p) = k /\ p[1] # o[1] =>
               (<<p[1], o[1]>> \in chain <=> p[1] \notin Following(o[1]))
        BY <1>3, <4>4, <4>5 DEF Chained, Following, Kind
      <4>7. CASE FirstBits(Following(o[1])) = {} /\ \A s \in Following(o[1]) : Bits(s) = {}
        <5>1. \A p \in free_or_new : Kind(p) = k => p[1] \notin Following(o[1])
          BY <4>4, <4>7
        <5>2. \A p \in free_or_new : Kind(p) = k => p \in in_use \union {o}
          BY <4>2, <4>3, <4>6, <5>1
        <5> QED BY <4>1, <4>7, <5>2
      <4>8. ASSUME NEW t \in Following(o[1]), FirstBits(Following(o[1])) = Bits(t), Bits(t) # {},
                   \A u \in Following(o[1]) : Bits(u) # {} => <<t, u>> \in chain
            PROVE  /\ \A p \in free_or_new :
                        Kind(p) = k => (p \in in_use \union {o} <=> ahead(p, next_free'[k]))
                   /\ \A x \in next_free'[k] :
                        /\ x[1] \in DOMAIN kind /\ Kind(x) = k /\ x \notin in_use \union {o}
                        /\ x \in free_or_new /\ \A y \in next_free'[k] : x[1] = y[1]
                        /\ \A y \in free_or_new \ (in_use \union {o}) :
                             y[1] = x[1] => y \in next_free'[k]
        <5>1. \A x : x \in next_free'[k] <=> x \in free_or_new /\ x[1] = t
          BY <4>1, <4>8 DEF Bits
        <5>2. t \in Segments /\ t # o[1] /\ <<o[1], t>> \in chain /\ t \in DOMAIN kind /\ kind[t] = k
          BY <1>3, <4>5 DEF Following, Chained, Kind
        <5>3. \A x \in next_free'[k] : Kind(x) = k /\ x \notin in_use \union {o}
          <6>1. \A x \in next_free'[k] : x \in free_or_new /\ x[1] = t /\ Kind(x) = k
            BY <5>1, <5>2 DEF Kind
          <6>2. \A x \in next_free'[k] : <<x[1], o[1]>> \notin chain /\ x[1] # o[1]
            BY <4>6, <5>2, <6>1
          <6>3. \A x \in next_free'[k] : x \notin in_use
            BY <4>3, <6>1, <6>2
          <6> QED BY <6>1, <6>2, <6>3
        <5>4. ASSUME NEW p \in free_or_new, Kind(p) = k, p[1] = t
              PROVE  ~ahead(p, next_free'[k])
          <6>1. p \in next_free'[k]
            BY <5>1, <5>4
          <6>2. ~(p[2] < p[2])
            BY <3>10
          <6> QED BY <6>1, <6>2
        <5>5. ASSUME NEW p \in free_or_new, Kind(p) = k, p[1] # t
              PROVE  ahead(p, next_free'[k]) <=> <<p[1], t>> \in chain
          BY <3>7, <4>8, <5>1, <5>5 DEF Bits
        <5>6. ASSUME NEW p \in free_or_new, Kind(p) = k, p[1] # t, p \in in_use \union {o}
              PROVE  <<p[1], t>> \in chain
          BY <4>3, <4>4, <4>5, <5>2, <5>6 DEF Chained
        <5>7. ASSUME NEW p \in free_or_new, Kind(p) = k, p[1] # t, p \notin in_use \union {o}
              PROVE  <<p[1], t>> \notin chain
          <6>1. p[1] \in Following(o[1]) /\ Bits(p[1]) # {}
            BY <4>2, <4>3, <4>4, <4>6, <5>7
          <6> QED BY <4>8, <6>1, <5>7, <4>4, <5>2 DEF Chained
        <5> QED BY <5>1, <5>2, <5>3, <5>4, <5>5, <5>6, <5>7
      <4> QED BY <1>7, <4>7, <4>8
    <3> QED BY <1>3, <3>5, <3>6, <3>7
  <2> QED BY <2>2, <2>3, <2>4
<1>70. Covered'
  BY <1>1, <1>2, <1>3, <1>5 DEF Covered, Gen2Uncol, Fixed, Aged
<1> QED BY <1>10, <1>20, <1>30, <1>40, <1>50, <1>60, <1>70

LEMMA AllocSegmentKeeps ==
  ASSUME HeapInv, NEW k \in SmallKinds, AllocSegment(k) PROVE HeapInv'
<1> USE DEF HeapInv
<1> DEFINE n == next_segment
           o == <<n, 0>>
           full == ObjectsOf(n, k)
<1>1. /\ n = Len(kind) + 1 /\ n \in Segments /\ Len(kind) \in Nat /\ kind \in Seq(Kinds)
      /\ DOMAIN kind = 1..Len(kind) /\ k \in Kinds /\ n \notin DOMAIN kind /\ n <= MaxSegments
  BY ObjectsAre DEF AllocSegment, next_segment, Segments, Kinds, TypeInv
<1>2. /\ o \in full /\ full \subseteq Objects /\ \A x \in full : x[1] = n
      /\ o \in Objects /\ o[1] = n
  BY <1>1, ObjectsAre
<1>3. /\ kind' = Append(kind, k) /\ pc = "app" /\ collect_level = -1 /\ to_look_at = {}
      /\ IF k \in Uncollected
           THEN /\ uncollected' = uncollected \union {o}
                /\ UNCHANGED <<free_or_new, chain>>
           ELSE /\ free_or_new' = free_or_new \union full
                /\ chain' = chain \union ({n} \X (Chain(k) \union {n}))
                /\ UNCHANGED uncollected
      /\ next_free' = [next_free EXCEPT ![k] = full \ {o}]
      /\ segment_not_free' = [segment_not_free EXCEPT ![k] = TRUE]
      /\ next_free[k] = {}
      /\ in_use' = in_use \union {o}
      /\ ref' = [ref EXCEPT ![o] = {}]
      /\ roots' = IF k \in Uncollected THEN roots ELSE roots \union {o}
      /\ UNCHANGED <<unused, kept, old_gen1, old_gen2, constants, old_to_new, to_look_at,
                     collect_level, pc>>
  BY DEF AllocSegment, NewObject, TypeInv, Aged
<1>4. no_data' \subseteq Segments
  BY <1>1 DEF AllocSegment, TypeInv
<1>5. /\ kind' \in Seq(Kinds) /\ Len(kind') = n /\ DOMAIN kind' = 1..n /\ kind'[n] = k
      /\ n \in DOMAIN kind'
      /\ \A s \in DOMAIN kind : s \in DOMAIN kind' /\ kind'[s] = kind[s] /\ s # n
      /\ \A s \in DOMAIN kind' : s \in DOMAIN kind \/ s = n
  BY <1>1, <1>3
<1> HIDE DEF o, n, full
<1>6. /\ \A x \in in_use \union constants \union free_or_new \union unused :
           /\ x[1] \in DOMAIN kind /\ x[1] \in DOMAIN kind' /\ x[1] # n /\ Kind(x)' = Kind(x)
           /\ x \notin full
      /\ \A j \in SmallKinds : \A x \in next_free[j] :
           x[1] \in DOMAIN kind /\ Kind(x)' = Kind(x) /\ x[1] # n
      /\ \A x \in full : Kind(x)' = k /\ x[1] \in DOMAIN kind'
  <2>1. \A x \in in_use \union constants \union free_or_new \union unused : x[1] \in DOMAIN kind
    BY DEF Placed
  <2>2. \A j \in SmallKinds : \A x \in next_free[j] : x[1] \in DOMAIN kind
    BY DEF FreeInv, Free
  <2>3. \A x : x[1] \in DOMAIN kind => /\ x[1] \in DOMAIN kind' /\ x[1] # n /\ Kind(x)' = Kind(x)
                                       /\ x \notin full
    BY <1>2, <1>5 DEF Kind
  <2>4. \A x \in full : Kind(x)' = k /\ x[1] \in DOMAIN kind'
    BY <1>2, <1>5 DEF Kind
  <2> QED BY <2>1, <2>2, <2>3, <2>4
<1>7. k \notin BigKinds /\ o \notin in_use
  BY <1>2, <1>6, ConstantsAssumption
<1>8. \A x \in Objects : ref'[x] = IF x = o THEN {} ELSE ref[x]
  BY <1>2, <1>3 DEF TypeInv
<1>9. \A s \in Chain(k) : s \in Segments /\ s \in DOMAIN kind /\ kind[s] = k /\ <<s, s>> \in chain
  BY SegmentsInUse DEF Chain
<1>10. TypeInv'
  <2>1. chain' \subseteq Segments \X Segments
    <3>1. {n} \X (Chain(k) \union {n}) \subseteq Segments \X Segments
      BY <1>1, <1>9
    <3> QED BY <1>3, <3>1 DEF TypeInv
  <2>2. /\ next_free' \in [SmallKinds -> SUBSET Objects] /\ ref' \in [Objects -> SUBSET Objects]
        /\ segment_not_free' \in [SmallKinds -> BOOLEAN]
    <3>1. full \ {o} \in SUBSET Objects /\ {} \in SUBSET Objects /\ TRUE \in BOOLEAN
      BY <1>2
    <3>2. next_free' \in [SmallKinds -> SUBSET Objects]
      BY <1>3, <3>1 DEF TypeInv
    <3>3. ref' \in [Objects -> SUBSET Objects]
      BY <1>3, <3>1 DEF TypeInv
    <3> QED BY <1>3, <3>1, <3>2, <3>3 DEF TypeInv
  <2> QED BY <1>1, <1>3, <1>4, <1>5, <2>1, <2>2 DEF TypeInv
<1>20. Placed'
  BY <1>2, <1>3, <1>6, <1>7 DEF Placed
<1>30. Aged'
  <2>1. k \notin Uncollected => o \in free_or_new'
    BY <1>2, <1>3
  <2>2. collect_level < 2 /\ collect_level < 1
    BY <1>3
  <2>3. \A x \in full : x \notin in_use
    BY <1>6
  <2> QED BY <1>3, <1>7, <2>1, <2>2, <2>3 DEF Aged
<1>40. Referred'
  BY <1>2, <1>3, <1>6, <1>7, <1>8 DEF Referred, Placed
<1>50. Chained'
  <2>1. CASE k \in Uncollected
    <3>1. \A s \in Segments : <<s, s>> \in chain => s \in DOMAIN kind
      BY DEF Chained
    <3>2. UNCHANGED <<chain, free_or_new>>
      BY <1>3, <2>1
    <3>3. \A x \in free_or_new : Kind(x)' \in SmallKinds => <<x[1], x[1]>> \in chain
      BY <1>6 DEF Chained
    <3> QED BY <1>5, <3>1, <3>2, <3>3 DEF Chained
  <2>2. CASE k \notin Uncollected
    <3>1. /\ free_or_new' = free_or_new \union full
          /\ \A s, t \in Segments :
               <<s, t>> \in chain' <=> <<s, t>> \in chain \/ (s = n /\ (t \in Chain(k) \/ t = n))
      BY <1>3, <2>2
    <3>2. \A s, t \in Segments : <<s, t>> \in chain => s # n /\ t # n
      BY <1>1 DEF Chained
    <3>3. \A s \in Segments : s \in Chain(k) <=> <<s, s>> \in chain /\ kind[s] = k
      BY <1>1 DEF Chain, Chained
    <3>4. \A s, t \in Segments : <<s, t>> \in chain' =>
            /\ s \in DOMAIN kind' /\ t \in DOMAIN kind'
            /\ kind'[s] = kind'[t] /\ kind'[s] \in SmallKinds \ Uncollected
            /\ <<s, s>> \in chain' /\ <<t, t>> \in chain'
            /\ <<t, s>> \in chain' => s = t
      <4> SUFFICES ASSUME NEW s \in Segments, NEW t \in Segments, <<s, t>> \in chain'
                   PROVE  /\ s \in DOMAIN kind' /\ t \in DOMAIN kind'
                          /\ kind'[s] = kind'[t] /\ kind'[s] \in SmallKinds \ Uncollected
                          /\ <<s, s>> \in chain' /\ <<t, t>> \in chain'
                          /\ <<t, s>> \in chain' => s = t
        OBVIOUS
      <4>1. CASE <<s, t>> \in chain
        BY <1>5, <3>1, <3>2, <4>1 DEF Chained
      <4>2. CASE s = n /\ t \in Chain(k)
        BY <1>1, <1>5, <1>9, <2>2, <3>1, <3>2, <4>2
      <4>3. CASE s = n /\ t = n
        BY <1>1, <1>5, <2>2, <3>1, <4>3
      <4> QED BY <3>1, <4>1, <4>2, <4>3
    <3>5. \A s, t \in Segments : <<s, s>> \in chain' /\ <<t, t>> \in chain' /\ kind'[s] = kind'[t] =>
                                   <<s, t>> \in chain' \/ <<t, s>> \in chain'
      <4> SUFFICES ASSUME NEW s \in Segments, NEW t \in Segments, <<s, s>> \in chain',
                          <<t, t>> \in chain', kind'[s] = kind'[t]
                   PROVE  <<s, t>> \in chain' \/ <<t, s>> \in chain'
        OBVIOUS
      <4>1. CASE s # n /\ t # n
        <5>1. /\ <<s, s>> \in chain /\ <<t, t>> \in chain
              /\ s \in DOMAIN kind /\ t \in DOMAIN kind
          BY <3>1, <4>1 DEF Chained
        <5> QED BY <1>5, <3>1, <5>1 DEF Chained
      <4>2. CASE s = n
        BY <1>5, <3>1, <3>3, <3>4, <4>2 DEF Chained
      <4>3. CASE t = n
        BY <1>5, <3>1, <3>3, <3>4, <4>3 DEF Chained
      <4> QED BY <4>1, <4>2, <4>3
    <3>6. \A s, t, u \in Segments : <<s, t>> \in chain' /\ <<t, u>> \in chain' => <<s, u>> \in chain'
      <4> SUFFICES ASSUME NEW s \in Segments, NEW t \in Segments, NEW u \in Segments,
                          <<s, t>> \in chain', <<t, u>> \in chain'
                   PROVE  <<s, u>> \in chain'
        OBVIOUS
      <4>1. CASE s # n
        <5>1. <<s, t>> \in chain /\ t # n
          BY <3>1, <3>2, <4>1
        <5>2. <<t, u>> \in chain
          BY <3>1, <5>1
        <5> QED BY <3>1, <5>1, <5>2 DEF Chained
      <4>2. CASE s = n /\ t # n
        <5>1. t \in Chain(k) /\ <<t, u>> \in chain
          BY <3>1, <3>2, <4>2
        <5>2. u \in Chain(k)
          BY <3>3, <5>1 DEF Chained
        <5> QED BY <3>1, <4>2, <5>2
      <4>3. CASE s = n /\ t = n
        BY <4>3
      <4> QED BY <4>1, <4>2, <4>3
    <3>7. \A x \in free_or_new' : Kind(x)' \in SmallKinds => <<x[1], x[1]>> \in chain'
      <4>1. \A x \in free_or_new : x[1] \in Segments
        BY ObjectsAre DEF Placed
      <4>2. \A x \in free_or_new : Kind(x)' \in SmallKinds => <<x[1], x[1]>> \in chain
        BY <1>6 DEF Chained
      <4> QED BY <1>1, <1>2, <3>1, <4>1, <4>2
    <3> QED BY <3>4, <3>5, <3>6, <3>7 DEF Chained
  <2> QED BY <2>1, <2>2
<1>60. FreeInv'
  <2> SUFFICES ASSUME NEW j \in SmallKinds PROVE Free(j)'
    BY <1>3 DEF FreeInv
  <2>1. Free(j) /\ Free(k)
    BY DEF FreeInv
  <2>2. \A x \in in_use \union constants \union free_or_new : x \in Objects /\ x[1] \in Segments
    BY ObjectsAre DEF Placed
  <2>3. \A s, t \in Segments : t # n => (<<t, s>> \in chain' <=> <<t, s>> \in chain)
    BY <1>3
  <2>4. ASSUME j # k PROVE Free(j)'
    <3>1. next_free'[j] = next_free[j] /\ segment_not_free'[j] = segment_not_free[j]
      BY <1>3, <2>4 DEF TypeInv
    <3>2. \A s \in Segments : s \in Chain(j)' <=> s \in Chain(j)
      BY <1>5, <2>3, <2>4 DEF Chain
    <3>3. \A x \in next_free[j] : x[1] \in Segments /\ x \in Objects
      BY ObjectsAre DEF TypeInv
    <3>4. ASSUME NEW x \in AllocatedSince(j)' PROVE x \in AllocatedSince(j)
      <4>1. x \in free_or_new' /\ x[1] \in Chain(j)'
        BY DEF AllocatedSince
      <4>2. x \in free_or_new
        BY <1>2, <1>3, <1>5, <2>4, <4>1 DEF Chain
      <4> QED BY <2>2, <2>3, <3>1, <3>2, <3>3, <3>4, <4>1, <4>2, <1>6 DEF AllocatedSince
    <3>5. ASSUME NEW x \in AllocatedSince(j) PROVE x \in AllocatedSince(j)'
      <4>1. x \in free_or_new /\ x[1] \in Chain(j) /\ x \in free_or_new'
        BY <1>3 DEF AllocatedSince
      <4> QED BY <2>2, <2>3, <3>1, <3>2, <3>3, <3>5, <4>1, <1>6 DEF AllocatedSince
    <3>6. \A x \in free_or_new' : x \in free_or_new \/ (x[1] = n /\ Kind(x)' = k)
      <4>1. free_or_new' \subseteq free_or_new \union full
        BY <1>3
      <4>2. \A x \in full : x[1] = n /\ Kind(x)' = k
        BY <1>2, <1>6
      <4> QED BY <4>1, <4>2 DEF Kind
    <3>7. ASSUME NEW x \in White', Kind(x)' = j PROVE x \in AllocatedSince(j)'
      <4>1. x \in White /\ Kind(x) = j
        BY <1>2, <1>3, <1>6, <2>4, <3>6, <3>7 DEF White
      <4>2. Collected(collect_level) = {}
        BY <1>3 DEF Collected
      <4>3. j \notin Uncollected
        BY <4>1 DEF White, Placed
      <4> QED BY <1>3, <2>1, <3>5, <4>1, <4>2, <4>3 DEF Free
    <3>8. \A x \in next_free'[j] : /\ x[1] \in DOMAIN kind' /\ Kind(x)' = j /\ x[1] # n
                                   /\ x \notin in_use' \union constants'
                                   /\ j \notin Uncollected => x \in free_or_new'
                                   /\ \A y \in next_free'[j] : x[1] = y[1]
      BY <1>2, <1>3, <1>5, <1>6, <2>1, <3>1 DEF Free
    <3>9. \A x \in next_free'[j], y \in free_or_new' \ in_use' : y[1] = x[1] => y \in next_free'[j]
      BY <1>3, <2>1, <3>1, <3>6, <3>8 DEF Free
    <3>10. j \notin Uncollected => AllocatedSince(j)' \subseteq in_use'
      BY <1>3, <2>1, <3>4 DEF Free
    <3> QED BY <3>7, <3>8, <3>9, <3>10 DEF Free
  <2>5. next_free'[k] = full \ {o}
    BY <1>3 DEF TypeInv
  <2>6. \A x \in full \ {o} : x \notin in_use' \union constants' /\ x[1] = n /\ Kind(x)' = k
                             /\ x[1] \in DOMAIN kind'
    BY <1>2, <1>3, <1>6
  <2>7. \A y \in free_or_new' \ in_use' : y[1] = n => y \in full \ {o}
    BY <1>3, <1>6
  <2>8. ASSUME k \in Uncollected PROVE Free(k)'
    BY <1>3, <2>5, <2>6, <2>7, <2>8 DEF Free
  <2>9. ASSUME k \notin Uncollected PROVE Free(k)'
    <3>1. /\ free_or_new' = free_or_new \union full
          /\ \A s \in Segments : s \in Chain(k)' <=> s \in Chain(k) \/ s = n
          /\ segment_not_free'[k] = TRUE
      <4>1. \A s \in Segments : <<s, s>> \in chain' <=> <<s, s>> \in chain \/ s = n
        BY <1>3, <2>9
      <4>2. \A s \in Segments : <<s, s>> \in chain => s \in DOMAIN kind
        BY DEF Chained
      <4> QED BY <1>3, <1>5, <2>9, <4>1, <4>2 DEF Chain, TypeInv
    <3>2. AllocatedSince(k) = {x \in free_or_new : x[1] \in Chain(k)}
      BY <1>3 DEF AllocatedSince
    <3>3. \A x \in AllocatedSince(k)' :
            /\ x \in free_or_new' /\ x[1] \in Chain(k)' /\ x \notin full \ {o}
      <4>1. \A x \in full \ {o} : x[2] \in Nat
        BY <1>2, ObjectsAre
      <4>2. \A x \in full \ {o} : ~(x[2] < x[2])
        BY <4>1
      <4> QED BY <2>5, <4>2 DEF AllocatedSince
    <3>4. \A x \in free_or_new : x[1] \in Chain(k) => x \in in_use
      BY <1>3, <2>1, <2>9, <3>2 DEF Free
    <3>5. AllocatedSince(k)' \subseteq in_use'
      <4>1. \A x \in free_or_new : x[1] \in Segments /\ x[1] # n
        BY <1>6, <2>2
      <4> QED BY <1>2, <1>3, <3>1, <3>3, <3>4, <4>1
    <3>6. \A x \in free_or_new : x[1] \in Chain(k)' => x \in AllocatedSince(k)'
      <4>1. \A x \in free_or_new : \A y \in full \ {o} : x[1] # y[1]
        BY <1>2, <1>6
      <4> QED BY <2>5, <3>1, <4>1 DEF AllocatedSince
    <3>7. o \in AllocatedSince(k)'
      <4>1. \A x \in full \ {o} : x[1] = o[1] /\ o[2] < x[2]
        <5> SUFFICES ASSUME NEW x \in full \ {o} PROVE x[1] = o[1] /\ o[2] < x[2]
          OBVIOUS
        <5>1. x[1] = n /\ x[2] \in Nat /\ x = <<n, x[2]>>
          BY <1>2, ObjectsAre
        <5>2. o = <<n, 0>>
          BY DEF o
        <5> QED BY <5>1, <5>2
      <4>2. o \in free_or_new' /\ o[1] \in Chain(k)'
        BY <1>1, <1>2, <3>1
      <4> QED BY <2>5, <4>1, <4>2 DEF AllocatedSince
    <3>8. \A x \in White' : Kind(x)' = k => x \in AllocatedSince(k)'
      <4>1. \A x \in free_or_new : Kind(x) = k => x[1] \in Chain(k)
        BY <2>2 DEF Chain, Chained, Kind
      <4>2. \A x \in free_or_new : Kind(x) = k => x \in AllocatedSince(k)'
        BY <2>2, <3>1, <3>6, <4>1
      <4> QED BY <1>3, <1>6, <2>6, <3>1, <3>7, <4>2 DEF White
    <3> QED BY <1>3, <2>5, <2>6, <2>7, <3>1, <3>5, <3>8 DEF Free
  <2> QED BY <2>4, <2>8, <2>9
<1>70. Covered'
  BY <1>2, <1>3, <1>7, <1>8 DEF Covered, Gen2Uncol, Fixed, Aged, Placed
<1> QED BY <1>10, <1>20, <1>30, <1>40, <1>50, <1>60, <1>70

LEMMA AllocBigKeeps ==
  ASSUME HeapInv, NEW k \in BigKinds, AllocBig(k) PROVE HeapInv'
<1> USE DEF HeapInv
<1>1. PICK o \in IF unused # {} THEN unused ELSE {<<next_segment, 0>>} :
        /\ o[1] <= MaxSegments
        /\ kind' = [s \in 1..(IF o[1] = next_segment THEN o[1] ELSE Len(kind)) |->
                      IF s = o[1] THEN k ELSE kind[s]]
        /\ unused' = unused \ {o}
        /\ free_or_new' = free_or_new \union {o}
        /\ NewObject(o, k)
  BY DEF AllocBig
<1>2. /\ UNCHANGED <<no_data, uncollected, chain, next, kept, old_gen1, old_gen2, constants,
                     old_to_new, to_look_at, collect_level, pc>>
      /\ pc = "app" /\ collect_level = -1 /\ to_look_at = {}
      /\ in_use' = in_use \union {o}
      /\ ref' = [ref EXCEPT ![o] = {}]
      /\ k \notin Uncollected /\ k \in Kinds /\ k \notin SmallKinds
      /\ roots' = roots \union {o}
  BY <1>1, ConstantsAssumption DEF AllocBig, NewObject, TypeInv, Aged, Kinds
<1>3. /\ Len(kind) \in Nat /\ DOMAIN kind = 1..Len(kind) /\ kind \in Seq(Kinds)
      /\ \A s \in DOMAIN kind : kind[s] \in Kinds
      /\ Len(kind) <= MaxSegments
  BY DEF TypeInv
<1>4. /\ o \in Objects /\ o[1] \in Nat /\ o[2] = 0
      /\ \/ o \in unused /\ o[1] \in DOMAIN kind
         \/ o[1] = Len(kind) + 1
  <2>1. CASE o \in unused
    <3>1. o \in Objects /\ o[1] \in DOMAIN kind /\ o[2] = 0
      BY <2>1 DEF Placed
    <3> QED BY <2>1, <3>1, ObjectsAre
  <2>2. CASE o = <<next_segment, 0>>
    <3>1. next_segment = Len(kind) + 1 /\ next_segment \in Nat /\ o[1] = next_segment
      BY <1>3, <2>2 DEF next_segment
    <3>2. next_segment \in Segments
      BY <1>1, <1>3, <3>1, ObjectsAre DEF Segments
    <3> QED BY <1>2, <2>2, <3>1, <3>2, ObjectsAre
  <2> QED BY <2>1, <2>2
<1>5. /\ kind' \in Seq(Kinds) /\ Len(kind') <= MaxSegments
      /\ DOMAIN kind' = DOMAIN kind \union {o[1]}
      /\ kind'[o[1]] = k
      /\ \A s \in DOMAIN kind : s # o[1] => kind'[s] = kind[s]
  <2> DEFINE m == IF o[1] = next_segment THEN o[1] ELSE Len(kind)
  <2>1. /\ m \in Nat /\ m <= MaxSegments /\ 1..m = DOMAIN kind \union {o[1]}
    BY <1>1, <1>3, <1>4 DEF next_segment
  <2>2. \A s \in 1..m : (IF s = o[1] THEN k ELSE kind[s]) \in Kinds
    BY <1>2, <1>3, <2>1
  <2> HIDE DEF m
  <2>3. kind' = [s \in 1..m |-> IF s = o[1] THEN k ELSE kind[s]]
    BY <1>1 DEF m
  <2>4. kind' \in [1..m -> Kinds]
    BY <2>2, <2>3
  <2>5. kind' \in Seq(Kinds) /\ Len(kind') = m
    BY <2>1, <2>4, SeqDef
  <2> QED BY <2>1, <2>3, <2>5
<1>6. /\ \A x \in in_use \union constants \union free_or_new :
           x[1] \in DOMAIN kind /\ x[1] # o[1] /\ Kind(x)' = Kind(x) /\ x # o
      /\ \A x \in unused : x = o \/ Kind(x)' = Kind(x)
      /\ \A j \in SmallKinds : \A x \in next_free[j] :
           x[1] \in DOMAIN kind /\ x[1] # o[1] /\ Kind(x)' = Kind(x) /\ x # o
  <2>1. CASE o[1] = Len(kind) + 1
    <3>1. o[1] \notin DOMAIN kind
      BY <1>3, <2>1
    <3>2. \A x \in in_use \union constants \union free_or_new \union unused : x[1] \in DOMAIN kind
      BY DEF Placed
    <3>3. \A j \in SmallKinds : \A x \in next_free[j] : x[1] \in DOMAIN kind
      BY DEF FreeInv, Free
    <3>4. \A s \in DOMAIN kind : s # o[1] /\ kind'[s] = kind[s]
      BY <1>5, <3>1
    <3> QED BY <3>2, <3>3, <3>4 DEF Kind
  <2>2. CASE o \in unused /\ o[1] \in DOMAIN kind
    <3>1. kind[o[1]] \in BigKinds /\ kind[o[1]] \notin SmallKinds /\ o \notin in_use
      BY <2>2, ConstantsAssumption DEF Placed, Kind
    <3>2. \A x \in in_use \union unused : x[1] = o[1] => x = o
      <4>1. \A x \in in_use \union unused : x[1] = o[1] => x[2] = 0 /\ x \in Objects
        BY <3>1 DEF Placed, Kind
      <4> QED BY <1>4, <4>1, ObjectsAre
    <3>3. \A x \in constants \union free_or_new : x[1] = o[1] => x \in in_use
      BY <3>1 DEF Placed, Kind
    <3>4. \A j \in SmallKinds : \A x \in next_free[j] : x[1] # o[1] /\ x[1] \in DOMAIN kind
      BY <3>1 DEF FreeInv, Free, Kind
    <3>5. \A x \in in_use \union constants \union free_or_new \union unused : x[1] \in DOMAIN kind
      BY DEF Placed
    <3>6. \A x \in in_use \union constants \union free_or_new : x[1] # o[1]
      BY <3>1, <3>2, <3>3
    <3> QED BY <1>5, <3>2, <3>4, <3>5, <3>6 DEF Kind
  <2> QED BY <1>4, <2>1, <2>2
<1>7. \A s \in DOMAIN kind : kind[s] \in SmallKinds => s # o[1] /\ kind'[s] = kind[s]
  <2>1. o \in unused => kind[o[1]] \in BigKinds
    BY DEF Placed, Kind
  <2>2. o[1] = Len(kind) + 1 => o[1] \notin DOMAIN kind
    BY <1>3
  <2> QED BY <1>4, <1>5, <2>1, <2>2, ConstantsAssumption
<1>8. \A x \in Objects : ref'[x] = IF x = o THEN {} ELSE ref[x]
  BY <1>2, <1>4 DEF TypeInv
<1>9. Kind(o)' = k
  BY <1>5 DEF Kind
<1>10. TypeInv'
  <2>1. ref' \in [Objects -> SUBSET Objects]
    BY <1>2, <1>4 DEF TypeInv
  <2> QED BY <1>2, <1>5, <2>1 DEF TypeInv, next
<1>20. Placed'
  BY <1>1, <1>2, <1>4, <1>5, <1>6, <1>9 DEF Placed
<1>30. Aged'
  BY <1>1, <1>2, <1>6 DEF Aged
<1>40. Referred'
  BY <1>2, <1>4, <1>6, <1>8, <1>9 DEF Referred, Placed
<1>50. Chained'
  <2>1. \A s, t \in Segments : <<s, t>> \in chain => /\ kind'[s] = kind[s] /\ kind'[t] = kind[t]
                                                     /\ s \in DOMAIN kind' /\ t \in DOMAIN kind'
    BY <1>5, <1>7 DEF Chained
  <2>2. \A x \in free_or_new' : Kind(x)' \in SmallKinds => <<x[1], x[1]>> \in chain
    BY <1>1, <1>2, <1>6, <1>9 DEF Chained
  <2>3. chain' = chain
    BY <1>2
  <2> QED BY <2>1, <2>2, <2>3 DEF Chained
<1>60. FreeInv'
  <2> SUFFICES ASSUME NEW j \in SmallKinds PROVE Free(j)'
    BY <1>2 DEF FreeInv
  <2>1. Free(j) /\ pc' # "big"
    BY <1>2 DEF FreeInv
  <2>2. UNCHANGED <<next_free, segment_not_free, chain>>
    BY <1>2 DEF next
  <2>3. Chain(j)' = Chain(j)
    BY <1>2, <1>5, <1>7, <2>2 DEF Chain
  <2>4. o[1] \notin Chain(j)
    BY <1>7 DEF Chain
  <2>5. AllocatedSince(j)' = AllocatedSince(j)
    BY <1>1, <2>2, <2>3, <2>4 DEF AllocatedSince
  <2>6. \A x \in White' : Kind(x)' = j => x \in White /\ Kind(x) = j
    BY <1>1, <1>2, <1>6, <1>9 DEF White
  <2>7. \A y \in free_or_new' \ in_use' : y \in free_or_new \ in_use
    BY <1>1, <1>2
  <2>8. Collected(collect_level) = {} /\ Collected(collect_level)' = {}
    BY <1>2 DEF Collected
  <2>9. \A x \in next_free'[j] : /\ x[1] \in DOMAIN kind' /\ Kind(x)' = j
                                 /\ x \notin in_use' \union constants'
                                 /\ j \notin Uncollected => x \in free_or_new'
                                 /\ \A y \in next_free'[j] : x[1] = y[1]
    BY <1>1, <1>2, <1>5, <1>6, <2>1, <2>2 DEF Free
  <2>10. \A x \in next_free'[j], y \in free_or_new' \ in_use' : y[1] = x[1] => y \in next_free'[j]
    BY <1>2, <2>1, <2>2, <2>7 DEF Free
  <2> QED BY <1>2, <2>1, <2>5, <2>6, <2>8, <2>9, <2>10 DEF Free
<1>70. Covered'
  BY <1>2, <1>6, <1>8 DEF Covered, Gen2Uncol, Fixed, Aged, Placed
<1> QED BY <1>10, <1>20, <1>30, <1>40, <1>50, <1>60, <1>70

-----------------------------------------------------------------------------
(* A collection.                                                           *)

LEMMA CollectKeeps == ASSUME HeapInv, NEW level \in 0..2, Collect(level) PROVE HeapInv'
<1> USE DEF HeapInv
<1> DEFINE C == Collected(level)
           linked == UNION {Chain(k) : k \in SmallKinds}
           full == {s \in linked : Bits(s) # {}}
<1>1. PICK empty \in SUBSET (linked \ full) :
        LET left == full \union empty
            added == {o[1] : o \in {x \in C : Kind(x) \in SmallKinds}} \ left
        IN  \E order \in Injection(added, 1..Cardinality(added)) :
              chain' = (chain \intersect (left \X left))
                \union {p \in added \X (added \union left) :
                          /\ kind[p[1]] = kind[p[2]]
                          /\ p[2] \in added => order[p[1]] <= order[p[2]]}
  BY DEF Collect
<1> DEFINE left == full \union empty
           added == {o[1] : o \in {x \in C : Kind(x) \in SmallKinds}} \ left
<1>2. PICK order \in Injection(added, 1..Cardinality(added)) :
        chain' = (chain \intersect (left \X left))
          \union {p \in added \X (added \union left) :
                    /\ kind[p[1]] = kind[p[2]]
                    /\ p[2] \in added => order[p[1]] <= order[p[2]]}
  BY <1>1
<1>3. /\ free_or_new' = free_or_new \union C /\ pc = "app" /\ collect_level = -1
      /\ to_look_at = {} /\ pc' = "old_to_new" /\ collect_level' = level
      /\ UNCHANGED <<segs, old_gen1, old_gen2, unused, uncollected, constants, old_to_new,
                     to_look_at, next, in_use, app>>
  BY DEF Collect, TypeInv, Aged
<1>4. /\ C \subseteq old_gen1 \union old_gen2
      /\ level < 2 => C \intersect old_gen2 = {}
      /\ level < 1 => C = {}
      /\ level >= 1 => old_gen1 \subseteq C
      /\ level = 2 => old_gen2 \subseteq C
  BY DEF Collected, Aged
<1>5. \A o \in C : o \in in_use /\ o \in Objects /\ o[1] \in DOMAIN kind /\ Kind(o) \notin Uncollected
  BY <1>4 DEF Aged, Placed
<1>6. Collected(collect_level)' = C
  BY <1>3 DEF Collected
<1> HIDE DEF C
<1>7. \A s, t \in Segments : <<s, t>> \in chain' <=>
        \/ s \in left /\ t \in left /\ <<s, t>> \in chain
        \/ /\ s \in added /\ t \in added \union left /\ kind[s] = kind[t]
           /\ t \in added => order[s] <= order[t]
  BY <1>2
<1>8. /\ \A s \in left : s \in Segments /\ s \in DOMAIN kind /\ <<s, s>> \in chain
                         /\ kind[s] \in SmallKinds \ Uncollected
      /\ \A s \in added : s \in Segments /\ s \in DOMAIN kind /\ s \notin left
                          /\ kind[s] \in SmallKinds \ Uncollected
  <2>1. DOMAIN kind \subseteq Segments
    BY SegmentsInUse
  <2>2. \A s \in left : \E k \in SmallKinds : s \in Chain(k)
    OBVIOUS
  <2>3. \A s \in added : \E o \in C : s = o[1] /\ Kind(o) \in SmallKinds
    OBVIOUS
  <2> QED BY <1>5, <2>1, <2>2, <2>3 DEF Chain, Chained, Kind
<1>9. /\ \A s \in added : order[s] \in Int
      /\ \A s, t \in added : order[s] = order[t] => s = t
  <2>1. order \in [added -> 1..Cardinality(added)] /\ IsInjective(order)
    BY DEF Injection
  <2> HIDE DEF added
  <2>2. \A i \in 1..Cardinality(added) : i \in Int
    OBVIOUS
  <2> QED BY <2>1, <2>2 DEF IsInjective
<1>10. \A o \in free_or_new : Kind(o) \in SmallKinds => o[1] \in left /\ o[1] \in Segments
  <2> SUFFICES ASSUME NEW o \in free_or_new, Kind(o) \in SmallKinds
               PROVE  o[1] \in full /\ o[1] \in Segments
    OBVIOUS
  <2>1. o[1] \in Segments /\ <<o[1], o[1]>> \in chain /\ o \in Bits(o[1])
    BY ObjectsAre DEF Placed, Chained, Bits
  <2>2. o[1] \in Chain(Kind(o))
    BY <2>1 DEF Chain, Chained, Kind
  <2> QED BY <2>1, <2>2
<1>11. \A o \in C : Kind(o) \in SmallKinds => o[1] \in left \union added
  OBVIOUS
<1>12. chain' \subseteq Segments \X Segments
  <2>1. left \subseteq Segments /\ added \subseteq Segments
    BY <1>8
  <2> HIDE DEF left, added
  <2> QED BY <1>2, <2>1
<1> HIDE DEF left, added, full, linked
<1>20. TypeInv'
  BY <1>3, <1>12 DEF TypeInv, segs, next, app
<1>30. Placed'
  BY <1>3, <1>5 DEF Placed, segs, Kind
<1>40. Aged'
  BY <1>3, <1>4, <1>5, <1>6 DEF Aged
<1>50. Referred'
  BY <1>3 DEF Referred, segs, app, Kind
<1>60. Chained'
  <2>1. \A s, t \in Segments : <<s, t>> \in chain' =>
          /\ s \in DOMAIN kind' /\ t \in DOMAIN kind'
          /\ kind'[s] = kind'[t] /\ kind'[s] \in SmallKinds \ Uncollected
          /\ <<s, s>> \in chain' /\ <<t, t>> \in chain'
          /\ <<t, s>> \in chain' => s = t
    <3> SUFFICES ASSUME NEW s \in Segments, NEW t \in Segments, <<s, t>> \in chain'
                 PROVE  /\ s \in DOMAIN kind /\ t \in DOMAIN kind
                        /\ kind[s] = kind[t] /\ kind[s] \in SmallKinds \ Uncollected
                        /\ <<s, s>> \in chain' /\ <<t, t>> \in chain'
                        /\ <<t, s>> \in chain' => s = t
      BY <1>3 DEF segs
    <3>1. CASE s \in left /\ t \in left /\ <<s, t>> \in chain
      BY <1>7, <1>8, <3>1 DEF Chained
    <3>2. CASE s \in added /\ t \in left /\ kind[s] = kind[t]
      BY <1>7, <1>8, <1>9, <3>2 DEF Chained
    <3>3. CASE s \in added /\ t \in added /\ kind[s] = kind[t] /\ order[s] <= order[t]
      BY <1>7, <1>8, <1>9, <3>3
    <3> QED BY <1>7, <3>1, <3>2, <3>3
  <2>2. \A s, t \in Segments :
          <<s, s>> \in chain' /\ <<t, t>> \in chain' /\ kind'[s] = kind'[t] =>
            <<s, t>> \in chain' \/ <<t, s>> \in chain'
    <3> SUFFICES ASSUME NEW s \in left \union added, NEW t \in left \union added, kind[s] = kind[t]
                 PROVE  <<s, t>> \in chain' \/ <<t, s>> \in chain'
      BY <1>3, <1>7 DEF segs
    <3>1. CASE s \in left /\ t \in left
      BY <1>7, <1>8, <3>1 DEF Chained
    <3>2. CASE s \in added /\ t \in added
      BY <1>7, <1>8, <1>9, <3>2
    <3> QED BY <1>7, <1>8, <3>1, <3>2
  <2>3. \A s, t, u \in Segments : <<s, t>> \in chain' /\ <<t, u>> \in chain' => <<s, u>> \in chain'
    <3> SUFFICES ASSUME NEW s \in Segments, NEW t \in Segments, NEW u \in Segments,
                        <<s, t>> \in chain', <<t, u>> \in chain'
                 PROVE  <<s, u>> \in chain'
      OBVIOUS
    <3>1. CASE s \in left
      BY <1>7, <1>8, <3>1 DEF Chained
    <3>2. CASE s \in added /\ u \in left
      <4>1. kind[s] = kind[t] /\ kind[t] = kind[u]
        BY <1>3, <2>1 DEF segs
      <4>2. u \notin added
        BY <1>8, <3>2
      <4> QED BY <1>7, <3>2, <4>1, <4>2
    <3>3. CASE s \in added /\ u \in added
      <4>1. kind[s] = kind[t] /\ kind[t] = kind[u]
        BY <1>3, <2>1 DEF segs
      <4>2. t \in added /\ order[s] <= order[t] /\ order[t] <= order[u]
        BY <1>7, <1>8, <3>3
      <4> QED BY <1>7, <1>9, <3>3, <4>1, <4>2
    <3> QED BY <1>7, <1>8, <3>1, <3>2, <3>3
  <2>4. \A o \in free_or_new' : Kind(o)' \in SmallKinds => <<o[1], o[1]>> \in chain'
    <3>1. ASSUME NEW s \in left \union added PROVE <<s, s>> \in chain'
      <4>1. s \in Segments
        BY <1>8
      <4>2. CASE s \in left
        BY <1>7, <1>8, <4>1, <4>2
      <4>3. CASE s \in added
        BY <1>7, <1>9, <4>1, <4>3
      <4> QED BY <4>2, <4>3
    <3> QED BY <1>3, <1>10, <1>11, <3>1 DEF Kind, segs
  <2> QED BY <2>1, <2>2, <2>3, <2>4 DEF Chained
<1>70. FreeInv'
  <2> SUFFICES ASSUME NEW k \in SmallKinds PROVE Free(k)'
    BY <1>3 DEF FreeInv
  <2>1. Free(k) /\ \A x : Kind(x)' = Kind(x)
    BY <1>3 DEF FreeInv, Kind, segs
  <2>2. \A y \in free_or_new' \ in_use' : y \in free_or_new \ in_use
    BY <1>3, <1>5
  <2>3. ASSUME k \notin Uncollected
        PROVE  \A x \in free_or_new : Kind(x) = k =>
                 (x \in AllocatedSince(k) <=> x \in AllocatedSince(k)')
    <3> SUFFICES ASSUME NEW x \in free_or_new, Kind(x) = k
                 PROVE  x \in AllocatedSince(k) <=> x \in AllocatedSince(k)'
      OBVIOUS
    <3>1. x[1] \in left /\ x[1] \in Segments
      BY <1>10
    <3>2. \A y \in next_free[k] : y[1] \in left /\ y[1] \in Segments
      BY <1>10, <2>1, <2>3 DEF Free
    <3>3. \A s, t \in left : <<s, t>> \in chain' <=> <<s, t>> \in chain
      BY <1>7, <1>8
    <3>4. x[1] \in Chain(k) /\ x[1] \in Chain(k)'
      BY <1>3, <1>8, <3>1, <3>3 DEF Chain, Kind, segs
    <3> QED BY <1>3, <3>1, <3>2, <3>3, <3>4 DEF AllocatedSince, next
  <2>4. \A x \in AllocatedSince(k)' : x \in free_or_new' /\ Kind(x) = k
    BY <1>3 DEF AllocatedSince, Chain, Kind, segs
  <2>5. k \notin Uncollected => AllocatedSince(k)' \subseteq in_use'
    BY <1>3, <1>5, <2>1, <2>3, <2>4 DEF Free
  <2>6. k \notin Uncollected =>
          \A x \in White' : Kind(x)' = k => x \in AllocatedSince(k)' \union Collected(collect_level)'
    <3>1. Collected(collect_level) = {}
      BY <1>3 DEF Collected
    <3> QED BY <1>3, <1>6, <2>1, <2>3, <3>1 DEF Free, White
  <2> QED BY <1>3, <2>1, <2>2, <2>5, <2>6 DEF Free, next, segs
<1>80. Covered'
  BY <1>3 DEF Covered, Gen2Uncol, Fixed, app
<1> QED BY <1>20, <1>30, <1>40, <1>50, <1>60, <1>70, <1>80

LEMMA CollectOldToNewKeeps == ASSUME HeapInv, CollectOldToNew PROVE HeapInv'
<1> USE DEF HeapInv
<1> DEFINE S == UNION {ref[v] : v \in {x \in old_to_new : Marks(x)}}
<1>1. /\ free_or_new' = free_or_new \ S
      /\ to_look_at' = S \intersect free_or_new
      /\ old_to_new' = {v \in old_to_new : \E to \in ref[v] : StillOldToNew(v, to)}
      /\ pc = "old_to_new" /\ pc' = "roots" /\ to_look_at = {}
      /\ collect_level \in 0..2
      /\ UNCHANGED <<segs, old_gen1, old_gen2, unused, uncollected, constants, chain, next,
                     in_use, app, collect_level>>
  BY DEF CollectOldToNew, LookAt, Aged, TypeInv
<1>2. S \subseteq in_use \union constants
  <2>1. \A v \in old_to_new : v \in in_use
    BY DEF Aged, Placed
  <2> QED BY <1>1, <2>1 DEF Referred
<1> HIDE DEF S
<1>3. \A x \in free_or_new : x \in S => x \in in_use /\ x \notin uncollected
  BY <1>2 DEF Placed
<1>10. TypeInv'
  BY <1>1 DEF TypeInv, segs, next, app
<1>20. Placed'
  BY <1>1 DEF Placed, segs, Kind
<1>30. Aged'
  BY <1>1, <1>3 DEF Aged
<1>40. Referred'
  BY <1>1 DEF Referred, segs, app, Kind
<1>50. Chained'
  BY <1>1, ChainedStays DEF segs
<1>60. FreeInv'
  <2>1. free_or_new \ in_use \subseteq free_or_new'
    BY <1>1, <1>3
  <2> QED BY <1>1, <2>1, FreeStays DEF segs, Collected
<1>4. \A v \in old_to_new : Marks(v) => ref[v] \subseteq S
  BY DEF S
<1>5. \A v \in old_to_new \ old_to_new' : \A to \in ref[v] : ~StillOldToNew(v, to)
  BY <1>1
<1>6. /\ collect_level < 2 => old_gen2 \intersect free_or_new = {}
      /\ collect_level < 1 => old_gen1 \intersect free_or_new = {}
      /\ collect_level >= 1 => old_gen1 \subseteq free_or_new
      /\ collect_level = 2 => old_gen2 \subseteq free_or_new
      /\ old_gen1 \intersect old_gen2 = {}
      /\ uncollected \intersect (old_gen1 \union old_gen2 \union free_or_new) = {}
      /\ constants \intersect free_or_new = {}
      /\ in_use \subseteq free_or_new \union old_gen1 \union old_gen2 \union uncollected
  BY <1>1 DEF Aged, Collected, Placed
<1>7. \A v \in uncollected \ old_to_new' : ref[v] \subseteq Fixed
  BY <1>5, <1>6 DEF Covered, StillOldToNew, Check, Fixed
<1>8. Elder' = old_gen2 \union IF collect_level >= 1 THEN old_gen1 ELSE {}
  BY <1>1, <1>6 DEF Elder
<1>9. \A v \in Elder' \ old_to_new' : ref[v] \subseteq Elder' \union Fixed
  <2>1. ASSUME NEW v \in old_gen2 \ old_to_new' PROVE ref[v] \subseteq Elder' \union Fixed
    <3>1. CASE v \notin old_to_new
      BY <1>1, <1>8, <2>1, <3>1 DEF Covered, Gen2Uncol, Fixed
    <3>2. CASE v \in old_to_new
      BY <1>1, <1>5, <1>6, <1>8, <2>1, <3>2 DEF StillOldToNew, Check, Gen2Uncol, Fixed
    <3> QED BY <3>1, <3>2
  <2>2. ASSUME NEW v \in old_gen1 \ old_to_new', collect_level >= 1
        PROVE  ref[v] \subseteq Elder' \union Fixed
    <3>1. CASE v \notin old_to_new
      BY <1>1, <1>8, <2>2, <3>1 DEF Covered, Gen2Uncol, Fixed
    <3>2. CASE v \in old_to_new
      BY <1>1, <1>5, <1>6, <1>8, <2>2, <3>2 DEF StillOldToNew, Check, Gen2Uncol, Fixed
    <3> QED BY <3>1, <3>2
  <2> QED BY <1>8, <2>1, <2>2
<1>61. \A v \in in_use \ free_or_new : ref[v] \intersect free_or_new' = {}
  <2> SUFFICES ASSUME NEW v \in in_use, v \notin free_or_new
               PROVE  ref[v] \intersect free_or_new' = {}
    OBVIOUS
  <2>1. CASE v \in old_to_new
    <3>1. Marks(v)
      BY <1>1, <1>6 DEF Marks, Check
    <3> QED BY <1>1, <1>4, <2>1, <3>1
  <2>2. CASE v \notin old_to_new
    BY <1>1, <1>6, <2>2 DEF Covered, Gen2Uncol, Fixed
  <2> QED BY <2>1, <2>2
<1>70. Covered'
  <2>1. free_or_new' \union to_look_at' = free_or_new
    BY <1>1
  <2>2. UNCHANGED <<in_use, ref, uncollected, Fixed>>
    BY <1>1 DEF app, Fixed
  <2> QED BY <1>1, <1>7, <1>9, <1>61, <2>1, <2>2 DEF Covered
<1> QED BY <1>10, <1>20, <1>30, <1>40, <1>50, <1>60, <1>70

LEMMA FindRootsKeeps == ASSUME HeapInv, FindRoots PROVE HeapInv'
<1> USE DEF HeapInv
<1> DEFINE marked == IF collect_level = 2 THEN (kept \ roots) \intersect free_or_new ELSE {}
<1>1. /\ free_or_new' = (free_or_new \ roots) \ marked
      /\ to_look_at' = to_look_at \union (roots \intersect free_or_new)
      /\ old_gen1' = Gen1With(marked) /\ old_gen2' = Gen2With(marked)
      /\ pc = "roots" /\ pc' = "look" /\ collect_level \in 0..2
      /\ UNCHANGED <<segs, unused, uncollected, constants, old_to_new, chain, next,
                     in_use, app, collect_level>>
  BY DEF FindRoots, TypeInv
<1>2. /\ marked \subseteq kept /\ marked \subseteq free_or_new
      /\ collect_level < 2 => marked = {}
      /\ \A x \in marked : x \in in_use /\ ref[x] = {} /\ x \notin to_look_at /\ x \notin uncollected
  BY DEF Referred, Aged
<1> HIDE DEF marked
<1>10. TypeInv'
  BY <1>1 DEF TypeInv, segs, next, app
<1>20. Placed'
  BY <1>1 DEF Placed, segs, Kind
<1>30. Aged'
  BY <1>1, <1>2 DEF Aged, Gen1With, Gen2With, Referred
<1>40. Referred'
  BY <1>1 DEF Referred, segs, app, Kind
<1>50. Chained'
  BY <1>1, ChainedStays DEF segs
<1>60. FreeInv'
  <2>1. free_or_new \ in_use \subseteq free_or_new'
    BY <1>1, <1>2 DEF Referred
  <2>2. Collected(collect_level) \intersect free_or_new' \subseteq Collected(collect_level)'
    BY <1>1 DEF Collected, Gen1With, Gen2With
  <2> QED BY <1>1, <2>1, <2>2, FreeStays DEF segs
<1>70. Covered'
  BY <1>1, <1>2 DEF Covered, Elder, Gen1With, Gen2With, Gen2Uncol, Fixed, app, Referred, Aged
<1> QED BY <1>10, <1>20, <1>30, <1>40, <1>50, <1>60, <1>70

LEMMA CollectLookAtKeeps == ASSUME HeapInv, CollectLookAt PROVE HeapInv'
<1> USE DEF HeapInv
<1> DEFINE found == UNION {ref[v] : v \in to_look_at}
<1>1. /\ free_or_new' = free_or_new \ found
      /\ to_look_at' = found \intersect free_or_new
      /\ old_gen1' = Gen1With(to_look_at) /\ old_gen2' = Gen2With(to_look_at)
      /\ pc = "look" /\ pc' = "look" /\ collect_level \in 0..2
      /\ UNCHANGED <<segs, unused, uncollected, constants, old_to_new, chain, next,
                     in_use, app, collect_level>>
  BY DEF CollectLookAt, TypeInv
<1>2. /\ found \subseteq in_use \union constants
      /\ \A v \in to_look_at : ref[v] \subseteq found
  BY <1>1 DEF Referred, Aged
<1> HIDE DEF found
<1>3. \A x \in free_or_new : x \in found => x \in in_use /\ x \notin uncollected
  BY <1>2 DEF Placed
<1>10. TypeInv'
  BY <1>1 DEF TypeInv, segs, next, app
<1>20. Placed'
  BY <1>1 DEF Placed, segs, Kind
<1>30. Aged'
  BY <1>1, <1>3 DEF Aged, Gen1With, Gen2With
<1>40. Referred'
  BY <1>1 DEF Referred, segs, app, Kind
<1>50. Chained'
  BY <1>1, ChainedStays DEF segs
<1>60. FreeInv'
  <2>1. free_or_new \ in_use \subseteq free_or_new'
    BY <1>1, <1>3
  <2>2. Collected(collect_level) \intersect free_or_new' \subseteq Collected(collect_level)'
    BY <1>1 DEF Collected, Gen1With, Gen2With, Aged
  <2> QED BY <1>1, <2>1, <2>2, FreeStays DEF segs
<1>70. Covered'
  BY <1>1, <1>2, <1>3 DEF Covered, Elder, Gen1With, Gen2With, Fixed, app, Aged
<1> QED BY <1>10, <1>20, <1>30, <1>40, <1>50, <1>60, <1>70

\* What the end of a collection does to the objects in S.
LEMMA NowFreeGives ==
  ASSUME HeapInv, pc \in {"look", "big"}, to_look_at = {}, NEW S \in SUBSET White, NowFree(S)
  PROVE  /\ in_use' = in_use \ (S \ kept)
         /\ ref' \in [Objects -> SUBSET Objects]
         /\ \A o \in Objects : ref'[o] = IF o \in S \ kept THEN {} ELSE ref[o]
         /\ old_to_new' = old_to_new \ (S \ kept)
         /\ old_gen1' \union old_gen2' = ((old_gen1 \union old_gen2) \ S) \union (S \intersect kept)
         /\ old_gen1' \intersect old_gen2' = {}
         /\ old_gen2 \ (S \ kept) \subseteq old_gen2'
         /\ old_gen1' \subseteq old_gen1 \union (S \intersect kept)
         /\ old_gen2' \subseteq old_gen2 \union (S \intersect kept)
         /\ S \subseteq in_use \ (roots \union uncollected \union constants)
         /\ \A o \in in_use \ free_or_new : ref[o] \subseteq (in_use \union constants) \ free_or_new
         /\ \A o \in S \intersect kept : ref[o] = {} /\ ref'[o] = {}
<1> USE DEF HeapInv
<1>1. S \subseteq in_use /\ S \subseteq free_or_new /\ S \subseteq Objects
  BY DEF White, Placed
<1>2. S \intersect (roots \union uncollected \union constants) = {}
  BY <1>1 DEF Referred, Placed
<1>3. /\ ref' \in [Objects -> SUBSET Objects]
      /\ \A o \in Objects : ref'[o] = IF o \in S \ kept THEN {} ELSE ref[o]
  BY DEF NowFree, TypeInv
<1>4. \A o \in S \intersect kept : ref[o] = {}
  BY <1>1 DEF Referred
<1>5. /\ in_use' = in_use \ (S \ kept)
      /\ old_to_new' = old_to_new \ (S \ kept)
      /\ old_gen1' = Gen1With(S \intersect kept) \ (S \ kept)
      /\ old_gen2' = Gen2With(S \intersect kept) \ (S \ kept)
  BY DEF NowFree, LeftOldToNew
<1>6. /\ collect_level \in 0..2
      /\ old_gen1 \intersect old_gen2 = {}
      /\ collect_level < 2 => old_gen2 \intersect S = {}
      /\ collect_level < 1 => old_gen1 \intersect S = {}
  BY <1>1 DEF Aged, TypeInv
<1>7. /\ old_gen1' \union old_gen2' = ((old_gen1 \union old_gen2) \ S) \union (S \intersect kept)
      /\ old_gen1' \intersect old_gen2' = {}
      /\ old_gen2 \ (S \ kept) \subseteq old_gen2'
      /\ old_gen1' \subseteq old_gen1 \union (S \intersect kept)
      /\ old_gen2' \subseteq old_gen2 \union (S \intersect kept)
  <2>1. CASE collect_level = 0
    BY <1>5, <1>6, <2>1 DEF Gen1With, Gen2With
  <2>2. CASE collect_level = 1
    BY <1>5, <1>6, <2>2 DEF Gen1With, Gen2With
  <2>3. CASE collect_level = 2
    BY <1>5, <1>6, <2>3 DEF Gen1With, Gen2With
  <2> QED BY <1>6, <2>1, <2>2, <2>3
<1>8. \A o \in in_use \ free_or_new : ref[o] \subseteq (in_use \union constants) \ free_or_new
  BY DEF Referred, Covered
<1>9. \A o \in S \intersect kept : ref'[o] = {}
  BY <1>1, <1>3, <1>4
<1> QED BY <1>1, <1>2, <1>3, <1>4, <1>5, <1>7, <1>8, <1>9

\* The small objects that are found to be free are those not looked at.
LEMMA SmallFreed ==
  ASSUME HeapInv, RemoveFreeSmall
  PROVE  \E S \in SUBSET White : /\ NowFree(S) /\ free_or_new' = free_or_new \ (S \intersect kept)
                                 /\ \A o \in White : o \in S <=> Kind(o) \in SmallKinds
<1> USE DEF HeapInv
<1> DEFINE old == {o \in Collected(collect_level) : Kind(o) \in SmallKinds}
           S == (old \intersect free_or_new)
                  \union UNION {AllocatedSince(k) : k \in SmallKinds \ Uncollected}
<1>1. NowFree(S) /\ free_or_new' = free_or_new \ (S \intersect kept) /\ pc = "look"
  BY DEF RemoveFreeSmall
<1>2. ASSUME NEW o \in White, Kind(o) \in SmallKinds PROVE o \in S
  <2>1. Free(Kind(o)) /\ Kind(o) \notin Uncollected
    BY <1>2 DEF FreeInv, White, Placed
  <2>2. o \in AllocatedSince(Kind(o)) \union Collected(collect_level)
    BY <1>1, <1>2, <2>1 DEF Free
  <2> QED BY <1>2, <2>1, <2>2 DEF White
<1>3. ASSUME NEW o \in S PROVE o \in White /\ Kind(o) \in SmallKinds
  <2>1. CASE o \in old \intersect free_or_new
    BY <2>1 DEF White, Collected, Aged
  <2>2. ASSUME NEW k \in SmallKinds \ Uncollected, o \in AllocatedSince(k)
        PROVE  o \in White /\ Kind(o) \in SmallKinds
    <3>1. o \in free_or_new /\ Kind(o) = k
      BY <2>2 DEF AllocatedSince, Chain, Kind
    <3>2. o \in in_use
      BY <1>1, <2>2 DEF FreeInv, Free
    <3> QED BY <3>1, <3>2 DEF White
  <2> QED BY <2>1, <2>2
<1> QED BY <1>1, <1>2, <1>3

LEMMA RemoveFreeSmallKeeps == ASSUME HeapInv, RemoveFreeSmall PROVE HeapInv'
<1> USE DEF HeapInv
<1>0. PICK S \in SUBSET White : /\ NowFree(S) /\ free_or_new' = free_or_new \ (S \intersect kept)
                               /\ \A o \in White : o \in S <=> Kind(o) \in SmallKinds
  BY SmallFreed
<1>1. /\ free_or_new' = free_or_new \ (S \intersect kept)
      /\ pc = "look" /\ pc' = "big" /\ to_look_at = {} /\ collect_level \in 0..2
      /\ UNCHANGED <<segs, unused, uncollected, constants, to_look_at, chain, next,
                     roots, kept, collect_level>>
  BY <1>0 DEF RemoveFreeSmall, TypeInv
<1>2. \A o \in White : Kind(o) \in SmallKinds => o \in S
  BY <1>0
<1>3. \A o \in S : o \in White /\ Kind(o) \in SmallKinds
  BY <1>0
<1>4. S \in SUBSET White
  OBVIOUS
<1>5. /\ in_use' = in_use \ (S \ kept)
      /\ ref' \in [Objects -> SUBSET Objects]
      /\ \A o \in Objects : ref'[o] = IF o \in S \ kept THEN {} ELSE ref[o]
      /\ old_to_new' = old_to_new \ (S \ kept)
      /\ old_gen1' \union old_gen2' = ((old_gen1 \union old_gen2) \ S) \union (S \intersect kept)
      /\ old_gen1' \intersect old_gen2' = {}
      /\ old_gen2 \ (S \ kept) \subseteq old_gen2'
      /\ old_gen1' \subseteq old_gen1 \union (S \intersect kept)
      /\ old_gen2' \subseteq old_gen2 \union (S \intersect kept)
      /\ S \subseteq in_use \ (roots \union uncollected \union constants)
      /\ \A o \in in_use \ free_or_new : ref[o] \subseteq (in_use \union constants) \ free_or_new
      /\ \A o \in S \intersect kept : ref[o] = {} /\ ref'[o] = {}
  BY <1>0, <1>1, NowFreeGives
<1>6. S \subseteq free_or_new /\ S \subseteq in_use
  BY <1>4 DEF White
<1>7. /\ \A o : Kind(o)' = Kind(o)
      /\ \A k \in Kinds : k \in SmallKinds => k \notin BigKinds
  BY <1>1, ConstantsAssumption DEF Kind, segs
<1>8. \A o \in in_use' \ free_or_new' : /\ ref'[o] \subseteq (in_use \union constants) \ free_or_new
                                        /\ ref'[o] = ref[o]
  <2> SUFFICES ASSUME NEW o \in in_use', o \notin free_or_new'
               PROVE  /\ ref'[o] \subseteq (in_use \union constants) \ free_or_new
                      /\ ref'[o] = ref[o]
    OBVIOUS
  <2>1. o \in Objects /\ o \in in_use /\ o \notin S \ kept
    BY <1>5 DEF Placed
  <2>2. CASE o \in free_or_new
    <3>1. o \in S \intersect kept
      BY <1>1, <2>2
    <3> QED BY <1>5, <3>1
  <2>3. CASE o \notin free_or_new
    BY <1>5, <2>1, <2>3
  <2> QED BY <2>2, <2>3
<1>10. TypeInv'
  BY <1>1, <1>5 DEF TypeInv, segs, next
<1>20. Placed'
  BY <1>1, <1>3, <1>5, <1>6, <1>7, ConstantsAssumption DEF Placed, segs, Kinds
<1>30. Aged'
  <2>1. old_gen1' \union old_gen2' \subseteq in_use' \ uncollected
    BY <1>1, <1>5, <1>6 DEF Aged
  <2>2. in_use' \subseteq free_or_new' \union old_gen1' \union old_gen2' \union uncollected
    BY <1>1, <1>5, <1>6 DEF Aged
  <2>3. /\ collect_level < 2 => old_gen2' \intersect free_or_new' = {}
        /\ collect_level < 1 => old_gen1' \intersect free_or_new' = {}
    BY <1>1, <1>5 DEF Aged
  <2>4. old_to_new' \subseteq old_gen1' \union old_gen2' \union uncollected
    BY <1>5, <1>6 DEF Aged
  <2> QED BY <1>1, <1>5, <2>1, <2>2, <2>3, <2>4 DEF Aged
<1>40. Referred'
  <2>1. roots' \union kept' \subseteq in_use' \ uncollected'
    BY <1>1, <1>5 DEF Referred
  <2>2. \A o \in Objects \ in_use' : ref'[o] = {}
    BY <1>5 DEF Referred
  <2>3. \A o \in in_use' : Kind(o)' \in Told => ref'[o] = {}
    BY <1>5, <1>7 DEF Referred, Placed
  <2>4. \A o \in in_use' : o \notin free_or_new' => ref'[o] \subseteq in_use' \union constants'
    BY <1>1, <1>5, <1>6, <1>8
  <2>5. roots' \intersect free_or_new' = {} /\ \A o \in kept' : Kind(o)' \in Told
    BY <1>1, <1>7 DEF Referred
  <2> QED BY <1>1, <2>1, <2>2, <2>3, <2>4, <2>5 DEF Referred
<1>50. Chained'
  BY <1>1, ChainedStays DEF segs
<1>60. FreeInv'
  <2>1. \A o \in White' : Kind(o)' \in BigKinds
    <3> SUFFICES ASSUME NEW o \in White' PROVE Kind(o) \in BigKinds
      BY <1>7
    <3>1. o \in White /\ o \notin S
      BY <1>1, <1>5 DEF White
    <3>2. Kind(o) \in Kinds
      BY <3>1, SegmentsInUse DEF White, Placed, Kind
    <3> QED BY <1>2, <3>1, <3>2 DEF Kinds
  <2>2. ASSUME NEW k \in SmallKinds PROVE Free(k)'
    <3>1. Free(k)
      BY DEF FreeInv
    <3> QED BY <1>1, <1>5, <1>6, <1>7, <3>1 DEF Free, segs, next
  <2> QED BY <2>1, <2>2 DEF FreeInv
<1>70. Covered'
  <2>1. \A o \in uncollected' \ old_to_new' : ref'[o] \subseteq Fixed'
    BY <1>1, <1>5 DEF Covered, Fixed, Placed
  <2>2. ASSUME NEW o \in old_gen2', o \notin free_or_new', o \notin old_to_new'
        PROVE  ref'[o] \subseteq Gen2Uncol'
    <3>1. o \in in_use' /\ ref'[o] = ref[o] /\ ref[o] \intersect free_or_new = {}
      BY <1>8, <1>30, <2>2 DEF Aged
    <3>2. CASE o \in S \intersect kept
      BY <1>5, <3>2
    <3>3. CASE o \notin S \intersect kept
      <4>1. o \in old_gen2 /\ o \notin old_to_new /\ o \notin S
        BY <1>5, <2>2, <3>1, <3>3
      <4>2. ref[o] \subseteq Elder \union Fixed
        BY <1>1, <4>1 DEF Covered, Elder
      <4>3. ref[o] \subseteq old_gen2 \union Fixed
        BY <1>1, <3>1, <4>2 DEF Elder
      <4>4. ref[o] \intersect S = {}
        BY <1>6, <3>1
      <4> QED BY <1>1, <1>5, <3>1, <4>3, <4>4 DEF Gen2Uncol, Fixed
    <3> QED BY <3>2, <3>3
  <2>3. \A o \in in_use' \ (free_or_new' \union to_look_at') : ref'[o] \intersect free_or_new' = {}
    BY <1>1, <1>8
  <2> QED BY <1>1, <2>1, <2>2, <2>3 DEF Covered
<1> QED BY <1>10, <1>20, <1>30, <1>40, <1>50, <1>60, <1>70

LEMMA RemoveFreeBigKeeps == ASSUME HeapInv, RemoveFreeBig PROVE HeapInv'
<1> USE DEF HeapInv
<1> DEFINE S == Big(free_or_new)
<1>1. /\ NowFree(S) /\ free_or_new' = free_or_new \ S /\ unused' = unused \union (S \ kept)
      /\ pc = "big" /\ pc' = "app" /\ to_look_at = {} /\ collect_level' = -1
      /\ next_free' = [k \in SmallKinds |-> IF k \notin Uncollected THEN FirstBits(Chain(k))
                                                                   ELSE next_free[k]]
      /\ segment_not_free' = [k \in SmallKinds |-> IF k \notin Uncollected THEN FALSE
                                                                   ELSE segment_not_free[k]]
      /\ UNCHANGED <<segs, uncollected, constants, to_look_at, chain, roots, kept>>
  BY DEF RemoveFreeBig, Aged
<1>2. S = White
  BY <1>1 DEF Big, White, FreeInv, Placed
<1>3. \A o \in S : Kind(o) \in BigKinds /\ Kind(o) \notin SmallKinds /\ o[2] = 0
                   /\ o \in Objects /\ o[1] \in DOMAIN kind
  BY <1>2, ConstantsAssumption DEF Big, White, Placed
<1> HIDE DEF S
<1>4. S \in SUBSET White /\ in_use \intersect free_or_new \subseteq S
  BY <1>2 DEF White
<1>5. /\ in_use' = in_use \ (S \ kept)
      /\ ref' \in [Objects -> SUBSET Objects]
      /\ \A o \in Objects : ref'[o] = IF o \in S \ kept THEN {} ELSE ref[o]
      /\ old_to_new' = old_to_new \ (S \ kept)
      /\ old_gen1' \union old_gen2' = ((old_gen1 \union old_gen2) \ S) \union (S \intersect kept)
      /\ old_gen1' \intersect old_gen2' = {}
      /\ old_gen2 \ (S \ kept) \subseteq old_gen2'
      /\ old_gen1' \subseteq old_gen1 \union (S \intersect kept)
      /\ old_gen2' \subseteq old_gen2 \union (S \intersect kept)
      /\ S \subseteq in_use \ (roots \union uncollected \union constants)
      /\ \A o \in in_use \ free_or_new : ref[o] \subseteq (in_use \union constants) \ free_or_new
      /\ \A o \in S \intersect kept : ref[o] = {} /\ ref'[o] = {}
  BY <1>1, <1>4, NowFreeGives
<1>6. S \subseteq free_or_new /\ S \subseteq in_use
  BY <1>4 DEF White
<1>7. \A o : Kind(o)' = Kind(o)
  BY <1>1 DEF Kind, segs
<1>8. ASSUME NEW o \in in_use'
      PROVE  /\ o \in Objects /\ ref'[o] = ref[o] /\ o \notin free_or_new'
             /\ \/ o \in S \intersect kept /\ ref[o] = {}
                \/ o \notin free_or_new /\ ref[o] \subseteq (in_use' \union constants') \ free_or_new
  <2>1. o \in Objects /\ o \in in_use /\ o \notin S \ kept
    BY <1>5, <1>8 DEF Placed
  <2>2. CASE o \in free_or_new
    <3>1. o \in S \intersect kept
      BY <1>4, <2>1, <2>2
    <3> QED BY <1>1, <1>5, <2>1, <3>1
  <2>3. CASE o \notin free_or_new
    <3>1. ref[o] \subseteq (in_use \union constants) \ free_or_new
      BY <1>5, <2>1, <2>3
    <3> QED BY <1>1, <1>5, <1>6, <2>1, <2>3, <3>1
  <2> QED BY <2>2, <2>3
<1>9. \A k \in SmallKinds \ Uncollected :
        \/ FirstBits(Chain(k)) = {} /\ \A s \in Chain(k) : Bits(s) = {}
        \/ \E t \in Chain(k) : /\ FirstBits(Chain(k)) = Bits(t) /\ Bits(t) # {}
                               /\ \A u \in Chain(k) : Bits(u) # {} => <<t, u>> \in chain
  <2> SUFFICES ASSUME NEW k \in SmallKinds \ Uncollected
               PROVE  \/ FirstBits(Chain(k)) = {} /\ \A s \in Chain(k) : Bits(s) = {}
                      \/ \E t \in Chain(k) : /\ FirstBits(Chain(k)) = Bits(t) /\ Bits(t) # {}
                                             /\ \A u \in Chain(k) : Bits(u) # {} => <<t, u>> \in chain
    OBVIOUS
  <2>1. Chain(k) \in SUBSET Segments
    BY SegmentsInUse DEF Chain
  <2>2. \A s, t \in Chain(k) : <<s, t>> \in chain \/ <<t, s>> \in chain
    BY <2>1 DEF Chained, Chain
  <2> QED BY <2>1, <2>2, FirstBitsAre
<1>10. TypeInv'
  <2>1. \A k \in SmallKinds \ Uncollected : FirstBits(Chain(k)) \subseteq Objects
    BY <1>9 DEF Bits, Placed
  <2>2. next_free' \in [SmallKinds -> SUBSET Objects]
    BY <1>1, <2>1 DEF TypeInv
  <2>3. segment_not_free' \in [SmallKinds -> BOOLEAN]
    BY <1>1 DEF TypeInv
  <2>4. kind' = kind /\ no_data' = no_data /\ chain' = chain
    BY <1>1 DEF segs
  <2>5. collect_level' \in -1..2 /\ (pc' = "app" <=> collect_level' = -1)
    BY <1>1
  <2>6. pc' \in {"app", "old_to_new", "roots", "look", "big"}
    BY <1>1
  <2> QED BY <1>5, <2>2, <2>3, <2>4, <2>5, <2>6 DEF TypeInv
<1>20. Placed'
  BY <1>1, <1>3, <1>5, <1>6, <1>7 DEF Placed, segs
<1>30. Aged'
  <2>1. old_gen1' \union old_gen2' \subseteq in_use' \ uncollected
    BY <1>1, <1>5, <1>6 DEF Aged
  <2>2. in_use' \subseteq free_or_new' \union old_gen1' \union old_gen2' \union uncollected
    BY <1>1, <1>5, <1>6 DEF Aged
  <2>3. old_to_new' \subseteq old_gen1' \union old_gen2' \union uncollected
    BY <1>5, <1>6 DEF Aged
  <2> QED BY <1>1, <1>5, <1>8, <2>1, <2>2, <2>3 DEF Aged
<1>40. Referred'
  <2>1. roots' \union kept' \subseteq in_use' \ uncollected'
    BY <1>1, <1>5 DEF Referred
  <2>2. \A o \in Objects \ in_use' : ref'[o] = {}
    BY <1>5 DEF Referred
  <2>3. \A o \in in_use' : Kind(o)' \in Told => ref'[o] = {}
    BY <1>5, <1>7 DEF Referred, Placed
  <2>4. \A o \in in_use' : ref'[o] \subseteq in_use' \union constants'
    BY <1>8
  <2> QED BY <1>1, <1>7, <2>1, <2>2, <2>3, <2>4 DEF Referred
<1>50. Chained'
  BY <1>1, ChainedStays DEF segs
<1>60. FreeInv'
  <2> SUFFICES ASSUME NEW k \in SmallKinds PROVE Free(k)'
    BY <1>1 DEF FreeInv
  <2>1. Free(k)
    BY DEF FreeInv
  <2>2. CASE k \in Uncollected
    <3>1. next_free'[k] = next_free[k]
      BY <1>1, <2>2
    <3>2. \A y \in free_or_new' : Kind(y) # k
      BY <1>1, <2>2 DEF Placed
    <3>3. \A x \in next_free[k], y \in free_or_new' \ in_use' : y[1] # x[1]
      BY <2>1, <3>2 DEF Free, Kind
    <3> QED BY <1>1, <1>5, <1>7, <2>1, <2>2, <3>1, <3>3 DEF Free, segs
  <2>3. CASE k \notin Uncollected
    <3>1. next_free'[k] = FirstBits(Chain(k)) /\ segment_not_free'[k] = FALSE
      BY <1>1, <2>3
    <3>2. White' = {}
      BY <1>8 DEF White
    <3>3. \A s \in Chain(k) : s \in Segments /\ s \in DOMAIN kind /\ kind[s] = k
      BY SegmentsInUse DEF Chain
    <3>4. \A s \in Chain(k) : Bits(s) \subseteq free_or_new' \ (in_use' \union constants')
      <4>1. \A s \in Chain(k) : \A o \in Bits(s) : o \in free_or_new /\ Kind(o) = k
        BY <3>3 DEF Bits, Kind
      <4> QED BY <1>1, <1>3, <1>8, <4>1 DEF Placed
    <3>5. AllocatedSince(k)' = {o \in free_or_new' :
            o[1] \in Chain(k) /\ \A x \in next_free'[k] :
              IF o[1] = x[1] THEN o[2] < x[2] ELSE <<o[1], x[1]>> \in chain}
      BY <1>1, <3>1 DEF AllocatedSince, Chain, segs
    <3>6. \A o \in free_or_new' : o \in Bits(o[1]) /\ o \in Objects
      BY <1>1 DEF Bits, Placed
    <3>7. CASE FirstBits(Chain(k)) = {} /\ \A s \in Chain(k) : Bits(s) = {}
      BY <1>1, <3>1, <3>2, <3>5, <3>6, <3>7 DEF Free
    <3>8. ASSUME NEW t \in Chain(k), FirstBits(Chain(k)) = Bits(t), Bits(t) # {},
                 \A u \in Chain(k) : Bits(u) # {} => <<t, u>> \in chain
          PROVE  Free(k)'
      <4>1. next_free'[k] = Bits(t) /\ \A x \in Bits(t) : x[1] = t
        BY <3>1, <3>8 DEF Bits
      <4>2. ASSUME NEW o \in AllocatedSince(k)' PROVE FALSE
        <5>1. o \in free_or_new' /\ o[1] \in Chain(k) /\ o \in Bits(o[1]) /\ o[2] \in Nat
          BY <3>5, <3>6, <4>2, ObjectsAre
        <5>2. CASE o[1] = t
          <6>1. o \in next_free'[k]
            BY <4>1, <5>1, <5>2
          <6>2. o[2] < o[2]
            BY <3>5, <4>2, <6>1
          <6> QED BY <5>1, <6>2
        <5>3. CASE o[1] # t
          <6>1. <<t, o[1]>> \in chain
            BY <3>8, <5>1
          <6>2. <<o[1], t>> \in chain
            BY <3>5, <3>8, <4>1, <4>2, <5>3
          <6> QED BY <3>3, <5>1, <5>3, <6>1, <6>2 DEF Chained
        <5> QED BY <5>2, <5>3
      <4>3. \A x \in next_free'[k] : /\ x[1] \in DOMAIN kind' /\ Kind(x)' = k
                                     /\ x \notin in_use' \union constants' /\ x \in free_or_new'
                                     /\ \A y \in next_free'[k] : x[1] = y[1]
        BY <1>1, <1>7, <3>3, <3>4, <4>1 DEF segs, Kind
      <4>4. \A x \in next_free'[k], y \in free_or_new' \ in_use' : y[1] = x[1] => y \in next_free'[k]
        BY <1>1, <4>1 DEF Bits
      <4> QED BY <3>2, <4>2, <4>3, <4>4 DEF Free
    <3> QED BY <1>9, <2>3, <3>7, <3>8
  <2> QED BY <2>2, <2>3
<1>70. Covered'
  <2>1. \A o \in uncollected' \ old_to_new' : ref'[o] \subseteq Fixed'
    BY <1>1, <1>5 DEF Covered, Fixed, Placed
  <2>2. ASSUME NEW o \in old_gen2', o \notin old_to_new' PROVE ref'[o] \subseteq Gen2Uncol'
    <3>1. o \in in_use'
      BY <1>30, <2>2 DEF Aged
    <3>2. CASE o \in S \intersect kept
      BY <1>5, <3>2
    <3>3. CASE o \notin S \intersect kept
      <4>1. /\ o \in old_gen2 /\ o \notin old_to_new /\ o \notin free_or_new /\ ref'[o] = ref[o]
            /\ ref[o] \intersect S = {}
        BY <1>5, <1>6, <1>8, <2>2, <3>1, <3>3
      <4>2. ref[o] \subseteq Gen2Uncol
        BY <1>1, <4>1 DEF Covered
      <4> QED BY <1>1, <1>5, <4>1, <4>2 DEF Gen2Uncol
    <3> QED BY <3>2, <3>3
  <2>3. ASSUME NEW o \in old_gen1' PROVE ref'[o] \subseteq old_gen1' \union Gen2Uncol'
    <3>1. o \in in_use'
      BY <1>30, <2>3 DEF Aged
    <3>2. CASE o \in S \intersect kept
      BY <1>5, <3>2
    <3>3. CASE ref[o] \subseteq (in_use' \union constants') \ free_or_new
      <4>1. in_use \ free_or_new \subseteq old_gen1 \union old_gen2 \union uncollected
        BY <1>1 DEF Aged
      <4> QED BY <1>1, <1>5, <1>6, <1>8, <3>1, <3>3, <4>1 DEF Gen2Uncol
    <3> QED BY <1>8, <3>1, <3>2, <3>3
  <2> QED BY <1>1, <2>1, <2>2, <2>3 DEF Covered
<1> QED BY <1>10, <1>20, <1>30, <1>40, <1>50, <1>60, <1>70

-----------------------------------------------------------------------------
(* The invariant.                                                          *)

LEMMA InitHolds == Init => HeapInv
<1> SUFFICES ASSUME Init PROVE HeapInv
  OBVIOUS
<1>1. Len(kind) = 0 /\ DOMAIN kind = {} /\ kind \in Seq(Kinds) /\ MaxSegments \in Nat
  BY ConstantsAssumption DEF Init
<1>2. TypeInv
  BY <1>1 DEF Init, TypeInv
<1>3. Placed /\ Aged /\ Referred
  BY DEF Init, Placed, Aged, Referred, Collected
<1>4. Chained
  BY DEF Init, Chained
<1>5. FreeInv
  BY DEF Init, FreeInv, Free, AllocatedSince, White
<1>6. Covered
  BY DEF Init, Covered
<1> QED BY <1>2, <1>3, <1>4, <1>5, <1>6 DEF HeapInv

LEMMA NextKeeps == HeapInv /\ [Next]_vars => HeapInv'
<1> SUFFICES ASSUME HeapInv, [Next]_vars PROVE HeapInv'
  OBVIOUS
<1>1. ASSUME NEW k \in SmallKinds, AllocQuickly(k) \/ AllocSegment(k) \/ RegisterConstant(k)
      PROVE  HeapInv'
  BY <1>1, AllocQuicklyKeeps, AllocSegmentKeeps, RegisterConstantKeeps
<1>2. ASSUME NEW k \in BigKinds, AllocBig(k) \/ AllocBigFails(k) PROVE HeapInv'
  BY <1>2, AllocBigKeeps, AllocBigFailsKeeps
<1>3. CASE SetRef \/ HoldRef
  BY <1>3, SetRefKeeps, HoldRefKeeps
<1>4. ASSUME NEW level \in 0..2, Collect(level) PROVE HeapInv'
  BY <1>4, CollectKeeps
<1>5. CASE CollectOldToNew \/ FindRoots \/ CollectLookAt
  BY <1>5, CollectOldToNewKeeps, FindRootsKeeps, CollectLookAtKeeps
<1>6. CASE RemoveFreeSmall \/ RemoveFreeBig
  BY <1>6, RemoveFreeSmallKeeps, RemoveFreeBigKeeps
<1>7. CASE UNCHANGED vars
  <2>1. UNCHANGED <<kind, no_data, free_or_new, old_gen1, old_gen2, unused, uncollected, constants,
                    old_to_new, to_look_at, chain, next_free, segment_not_free, in_use,
                    ref, roots, kept, collect_level, pc>>
    BY <1>7 DEF vars, segs, gens, next, app
  <2>2. TypeInv' /\ Placed' /\ Chained'
    BY <2>1 DEF HeapInv, TypeInv, Placed, Chained, Kind
  <2>4. Aged'
    BY <2>1 DEF HeapInv, Aged, Collected
  <2>5. Referred'
    BY <2>1 DEF HeapInv, Referred, Kind
  <2>6. Covered'
    BY <2>1 DEF HeapInv, Covered, Gen2Uncol, Elder, Fixed
  <2>3. FreeInv'
    BY <2>1 DEF HeapInv, FreeInv, Free, AllocatedSince, Chain, Kind, White, Collected
  <2> QED BY <2>2, <2>3, <2>4, <2>5, <2>6 DEF HeapInv
<1> QED BY <1>1, <1>2, <1>3, <1>4, <1>5, <1>6, <1>7 DEF Next, application, sggc_collect

LEMMA Invariance == Spec => []HeapInv
BY InitHolds, NextKeeps, PTL DEF Spec

LEMMA FreeListFromInv == HeapInv => FreeListExact
<1> USE DEF HeapInv
<1> SUFFICES ASSUME HeapInv, pc = "app"
             PROVE  LET new == in_use \intersect free_or_new
                    IN  /\ in_use = new \union old_gen1 \union old_gen2 \union uncollected
                        /\ old_gen1 \intersect (old_gen2 \union new) = {} /\ old_gen2 \intersect new = {}
                        /\ \A k \in SmallKinds \ Uncollected :
                             Findable(k) = {o \in free_or_new \ in_use : Kind(o) = k}
  BY DEF FreeListExact
<1>1. collect_level = -1 /\ Collected(collect_level) = {}
  BY DEF TypeInv, Collected
<1>2. ASSUME NEW k \in SmallKinds, k \notin Uncollected, NEW o \in free_or_new
      PROVE  o \in Findable(k) <=> o \notin in_use /\ Kind(o) = k
  <2>1. Free(k) /\ o \in Objects /\ o[1] \in Segments /\ o[2] \in Nat
    BY ObjectsAre DEF FreeInv, Placed
  <2>2. \A x \in next_free[k] : x \in free_or_new /\ x \in Objects /\ x[1] \in Segments /\ Kind(x) = k
    BY <1>2, <2>1, ObjectsAre DEF Free, TypeInv
  <2>3. ASSUME NEW x \in next_free[k], ~segment_not_free[k], o[1] # x[1], <<x[1], o[1]>> \in chain
        PROVE  o \notin in_use /\ Kind(o) = k
    <3>1. Kind(o) = k /\ <<o[1], x[1]>> \notin chain
      BY <2>1, <2>2, <2>3 DEF Chained, Kind
    <3>2. o \notin AllocatedSince(k)
      BY <2>3, <3>1 DEF AllocatedSince
    <3> QED BY <1>1, <1>2, <2>1, <3>1, <3>2 DEF Free, White
  <2>4. o \in Findable(k) => o \notin in_use /\ Kind(o) = k
    BY <2>1, <2>2, <2>3 DEF Findable, Following, Free
  <2>5. ASSUME o \notin in_use, Kind(o) = k PROVE o \in Findable(k)
    <3>1. o \notin AllocatedSince(k)
      BY <1>2, <2>1, <2>5 DEF Free
    <3>2. <<o[1], o[1]>> \in chain /\ o[1] \in Chain(k)
      BY <2>5 DEF Chained, Chain, Kind, Placed
    <3>3. PICK x \in next_free[k] :
            ~ IF o[1] = x[1] THEN o[2] < x[2] ELSE <<o[1], x[1]>> \in chain \/ segment_not_free[k]
      BY <3>1, <3>2 DEF AllocatedSince
    <3>4. CASE o[1] = x[1]
      BY <2>1, <2>5, <3>4 DEF Free, Findable
    <3>5. CASE o[1] # x[1]
      <4>1. <<x[1], o[1]>> \in chain
        BY <2>1, <2>2, <2>5, <3>2, <3>3, <3>5 DEF Chained, Kind
      <4> QED BY <2>1, <3>3, <3>5, <4>1 DEF Findable, Following
    <3> QED BY <3>4, <3>5
  <2> QED BY <2>4, <2>5
<1>3. \A k \in SmallKinds \ Uncollected : Findable(k) \subseteq free_or_new
  BY DEF Findable, FreeInv, Free
<1>4. \A k \in SmallKinds \ Uncollected : Findable(k) = {o \in free_or_new \ in_use : Kind(o) = k}
  BY <1>2, <1>3
<1>5. uncollected \subseteq in_use
  BY DEF Placed
<1> QED BY <1>1, <1>4, <1>5 DEF Aged

\* While the application runs, allocation will come to every free object of a small
\* segment and to no other, however segments have been added and collections have
\* changed their order (sggc_alloc_small_kind_quickly, sggc_collect).
THEOREM FreeListIsExact == Spec => []FreeListExact
BY Invariance, FreeListFromInv, PTL

\* An object that is old is noted whenever it may refer to a newer one, for every
\* sequence of stores and collections of the three levels (sggc_old_to_new_check,
\* sggc_look_at).
THEOREM OldToNewIsCovered == Spec => []OldToNewCovers
<1>1. HeapInv => OldToNewCovers
  <2> SUFFICES ASSUME HeapInv, pc = "app", NEW o \in in_use \ old_to_new,
                      NEW to \in Objects, to \in ref[o]
               PROVE  CASE o \in uncollected -> to \in uncollected \union constants
                        [] o \in old_gen2 -> to \in Gen2Uncol
                        [] o \in old_gen1 -> to \notin free_or_new
                        [] OTHER -> TRUE
    BY DEF OldToNewCovers
  <2> USE DEF HeapInv
  <2>1. /\ collect_level = -1
        /\ (old_gen1 \union old_gen2 \union uncollected \union constants)
             \intersect free_or_new = {}
    BY DEF TypeInv, Aged, Placed
  <2>2. /\ o \in uncollected => to \in uncollected \union constants
        /\ o \in old_gen2 => to \in Gen2Uncol
        /\ o \in old_gen1 => to \notin free_or_new
    BY <2>1 DEF Covered, Fixed, Gen2Uncol
  <2>3. /\ o \in old_gen1 => o \notin old_gen2 \union uncollected
        /\ o \in old_gen2 => o \notin old_gen1 \union uncollected
    BY DEF Aged
  <2> QED BY <2>2, <2>3
<1> QED BY <1>1, Invariance, PTL

\* What is in old_to_new exists and is old, so that no freed object is met there again
\* under its next owner (object_now_free in sggc_collect_remove_free_small and _big).
THEOREM OldToNewIsInUse == Spec => []OldToNewInUse
<1>1. HeapInv => OldToNewInUse
  BY DEF HeapInv, OldToNewInUse, TypeInv, Aged, Placed
<1> QED BY <1>1, Invariance, PTL

\* No object in use refers to one that is not, so that no collection looks at a freed
\* object (sggc_collect).
THEOREM NothingDangles == Spec => []NoDangling
<1>1. HeapInv => NoDangling
  BY DEF HeapInv, NoDangling, Referred
<1> QED BY <1>1, Invariance, PTL

-----------------------------------------------------------------------------
(* The heap that the application sees.                                     *)

\* What is reachable is closed, and in every closed set with what is held.
LeastClosed ==
  /\ Held \subseteq SggcHeap!Reachable /\ SggcHeap!Reachable \subseteq Objects
  /\ \A o \in SggcHeap!Reachable : ref[o] \subseteq SggcHeap!Reachable
  /\ \A T \in SUBSET Objects : Held \subseteq T /\ (\A o \in T : ref[o] \subseteq T) =>
       SggcHeap!Reachable \subseteq T

LEMMA ReachableIs == HeapInv => LeastClosed
<1> SUFFICES ASSUME HeapInv PROVE LeastClosed
  OBVIOUS
<1> USE DEF HeapInv
<1> DEFINE enough == {more \in SUBSET (Objects \ Held) :
                        \A o \in Held \union more : ref[o] \subseteq Held \union more}
<1>1. SggcHeap!Reachable = Held \union {o \in Objects : \A more \in enough : o \in more}
  BY DEF SggcHeap!Reachable, SggcHeap!Closed, Held
<1>2. Held \subseteq Objects /\ ref \in [Objects -> SUBSET Objects]
  BY DEF Held, Permanent, Referred, Placed, TypeInv
<1>3. ASSUME NEW o \in SggcHeap!Reachable, NEW x \in ref[o] PROVE x \in SggcHeap!Reachable
  <2>1. x \in Objects /\ o \in Objects
    BY <1>1, <1>2, <1>3
  <2>2. \A more \in enough : x \in Held \union more
    BY <1>1, <1>3
  <2> QED BY <1>1, <2>1, <2>2
<1>4. ASSUME NEW T \in SUBSET Objects, Held \subseteq T, \A o \in T : ref[o] \subseteq T
      PROVE  SggcHeap!Reachable \subseteq T
  <2>1. Held \union (T \ Held) = T /\ T \ Held \in SUBSET (Objects \ Held)
    BY <1>4
  <2>2. T \ Held \in enough
    BY <1>4, <2>1
  <2> QED BY <1>1, <1>4, <2>2
<1> QED BY <1>1, <1>2, <1>3, <1>4 DEF LeastClosed

LEMMA ReachableLater == HeapInv' => LeastClosed'
BY ReachableIs, PTL

LEMMA ReachableStays ==
  ASSUME UNCHANGED <<ref, roots, uncollected, constants, kept>>
  PROVE  SggcHeap!Reachable' = SggcHeap!Reachable
BY DEF SggcHeap!Reachable, SggcHeap!Closed, Permanent

\* When all that is to be looked at has been, what is left unlooked at is unreachable.
LEMMA BlackIsClosed ==
  ASSUME HeapInv, pc \in {"look", "big"}, to_look_at = {}
  PROVE  SggcHeap!Reachable \subseteq (in_use \ free_or_new) \union constants \union kept
<1> USE DEF HeapInv
<1> DEFINE B == (in_use \ free_or_new) \union constants \union kept
<1>1. B \in SUBSET Objects /\ Held \subseteq B
  BY DEF Held, Permanent, Referred, Placed
<1>2. \A o \in B : ref[o] \subseteq B
  BY DEF Referred, Placed, Covered
<1> QED BY <1>1, <1>2, ReachableIs DEF LeastClosed

\* The end of a collection frees only what cannot be reached.
LEMMA NowFreeIsFree ==
  ASSUME HeapInv, pc \in {"look", "big"}, to_look_at = {}, NEW S \in SUBSET White, NowFree(S),
         UNCHANGED <<roots, uncollected, constants, kept>>
  PROVE  SggcHeap!Free
<1> USE DEF HeapInv
<1>1. /\ in_use' = in_use \ (S \ kept)
      /\ ref' \in [Objects -> SUBSET Objects]
      /\ \A o \in Objects : ref'[o] = IF o \in S \ kept THEN {} ELSE ref[o]
      /\ S \subseteq in_use \ (roots \union uncollected \union constants)
  BY NowFreeGives
<1>2. SggcHeap!Reachable \subseteq in_use' \union constants'
  BY <1>1, BlackIsClosed DEF White, Referred, Placed
<1>3. \A o \in Objects : ref'[o] = IF o \in in_use' \union constants' THEN ref[o] ELSE {}
  BY <1>1 DEF Referred
<1>4. ref' = [o \in Objects |-> IF o \in in_use' \union constants' THEN ref[o] ELSE {}]
  BY <1>1, <1>3
<1> QED BY <1>1, <1>2, <1>4 DEF SggcHeap!Free, Permanent

LEMMA AllocatesInHeap ==
  ASSUME HeapInv, NEW k \in Kinds, NEW o \in Objects, o \notin in_use \union constants,
         NewObject(o, k),
         uncollected' = IF k \in Uncollected THEN uncollected \union {o} ELSE uncollected
  PROVE  SggcHeap!Allocate
<1>1. in_use' \union constants' = in_use \union constants \union {o} /\ UNCHANGED <<kept, constants>>
  BY DEF NewObject
<1>2. ref' = [ref EXCEPT ![o] = {}]
  BY DEF NewObject
<1>3. \/ roots' = roots \union {o} /\ UNCHANGED Permanent
      \/ Permanent' = Permanent \union {o} /\ UNCHANGED roots
  BY <1>1 DEF NewObject, Permanent
<1> QED BY <1>1, <1>2, <1>3 DEF SggcHeap!Allocate

LEMMA StepsOfHeap == HeapInv /\ [Next]_vars => [SggcHeap!Next]_(SggcHeap!vars)
<1> SUFFICES ASSUME HeapInv, [Next]_vars
             PROVE  SggcHeap!Next \/ UNCHANGED SggcHeap!vars
  OBVIOUS
<1> USE DEF HeapInv
<1>0. MaxSegments \in Nat /\ Len(kind) \in Nat /\ DOMAIN kind = 1..Len(kind)
  BY SegmentsInUse, ConstantsAssumption
<1>1. ASSUME next_segment <= MaxSegments, NEW k \in Kinds
      PROVE  <<next_segment, 0>> \in Objects /\ <<next_segment, 0>> \notin in_use \union constants
  <2>1. next_segment \in Segments /\ next_segment \notin DOMAIN kind
    BY <1>0, <1>1 DEF next_segment, Segments
  <2> QED BY <2>1, ObjectsAre DEF Placed
<1>2. ASSUME NEW k \in SmallKinds, AllocQuickly(k) PROVE SggcHeap!Next
  <2>1. PICK o \in Lowest(next_free[k]) :
          /\ uncollected' = IF k \in Uncollected THEN uncollected \union {o} ELSE uncollected
          /\ NewObject(o, k)
    BY <1>2 DEF AllocQuickly
  <2>2. o \in Objects /\ o \notin in_use \union constants
    BY DEF Lowest, FreeInv, Free, TypeInv
  <2> QED BY <2>1, <2>2, AllocatesInHeap DEF SggcHeap!Next, Kinds
<1>3. ASSUME NEW k \in SmallKinds, AllocSegment(k) PROVE SggcHeap!Next
  <2> DEFINE o == <<next_segment, 0>>
  <2>1. /\ uncollected' = IF k \in Uncollected THEN uncollected \union {o} ELSE uncollected
        /\ NewObject(o, k) /\ next_segment <= MaxSegments
    BY <1>3 DEF AllocSegment
  <2>2. o \in Objects /\ o \notin in_use \union constants
    BY <1>1, <2>1 DEF Kinds
  <2> HIDE DEF o
  <2> QED BY <2>1, <2>2, AllocatesInHeap DEF SggcHeap!Next, Kinds
<1>4. ASSUME NEW k \in SmallKinds, RegisterConstant(k) PROVE SggcHeap!Next
  <2> DEFINE o == <<next_segment, 0>>
  <2>1. /\ constants' = {o} /\ next_segment <= MaxSegments /\ kind = << >>
        /\ UNCHANGED <<uncollected, in_use, ref, roots, kept>>
    BY <1>4 DEF RegisterConstant, app
  <2>2. o \in Objects /\ o \notin in_use \union constants
    BY <1>1, <2>1 DEF Kinds
  <2> HIDE DEF o
  <2>3. constants = {}
    BY <1>0, <2>1 DEF Placed
  <2>4. ref' = [ref EXCEPT ![o] = {}]
    BY <2>1, <2>2 DEF Referred, TypeInv
  <2>5. Permanent' = Permanent \union {o}
    BY <2>1, <2>3 DEF Permanent
  <2> QED BY <2>1, <2>2, <2>3, <2>4, <2>5 DEF SggcHeap!Next, SggcHeap!Allocate
<1>5. ASSUME NEW k \in BigKinds, AllocBig(k) PROVE SggcHeap!Next
  <2>1. PICK o \in IF unused # {} THEN unused ELSE {<<next_segment, 0>>} :
          o[1] <= MaxSegments /\ NewObject(o, k)
    BY <1>5 DEF AllocBig
  <2>2. uncollected' = uncollected /\ k \notin Uncollected /\ k \in Kinds
    BY <1>5, ConstantsAssumption DEF AllocBig, Kinds
  <2>3. o \in Objects /\ o \notin in_use \union constants
    <3>1. CASE o \in unused
      BY <3>1 DEF Placed
    <3>2. CASE o = <<next_segment, 0>>
      BY <1>1, <2>1, <2>2, <3>2
    <3> QED BY <3>1, <3>2
  <2> QED BY <2>1, <2>2, <2>3, AllocatesInHeap DEF SggcHeap!Next
<1>6. ASSUME NEW k \in BigKinds, AllocBigFails(k) PROVE UNCHANGED SggcHeap!vars
  BY <1>6 DEF AllocBigFails, app, SggcHeap!vars, Permanent
<1>7. CASE SetRef
  <2>1. PICK o \in roots \union uncollected, to \in Held :
          \E from \in {{}} \union {{x} : x \in ref[o]} :
            ref' = [ref EXCEPT ![o] = (@ \ from) \union {to}]
    BY <1>7 DEF SetRef
  <2>2. PICK from : ref' = [ref EXCEPT ![o] = (ref[o] \ from) \union {to}]
    BY <2>1
  <2>3. UNCHANGED <<in_use, constants, roots, uncollected, kept>>
    BY <1>7 DEF SetRef
  <2>4. o \in SggcHeap!Reachable /\ to \in SggcHeap!Reachable /\ ref[o] \subseteq SggcHeap!Reachable
        /\ o \in Objects
    BY ReachableIs DEF Held, Permanent, LeastClosed
  <2>5. ref'[o] = (ref[o] \ from) \union {to} /\ ref' = [ref EXCEPT ![o] = ref'[o]]
    BY <2>2, <2>4 DEF TypeInv
  <2>6. {o} \union ref'[o] \subseteq SggcHeap!Reachable
    BY <2>4, <2>5
  <2>7. UNCHANGED <<in_use \union constants, roots, Permanent>>
    BY <2>3 DEF Permanent
  <2> QED BY <2>4, <2>5, <2>6, <2>7 DEF SggcHeap!Next, SggcHeap!Store
<1>8. CASE HoldRef
  <2>1. UNCHANGED <<in_use, constants, ref, uncollected>>
    BY <1>8 DEF HoldRef
  <2>2. Permanent \subseteq Permanent' /\ Permanent' \subseteq Permanent \union roots
    BY <1>8, <2>1 DEF HoldRef, Permanent
  <2>3. roots' \subseteq SggcHeap!Reachable
    BY <1>8, ReachableIs DEF HoldRef, Held, LeastClosed
  <2>4. Permanent' \subseteq SggcHeap!Reachable
    BY <2>2, ReachableIs DEF Held, LeastClosed
  <2> QED BY <2>1, <2>2, <2>3, <2>4 DEF SggcHeap!Next, SggcHeap!Hold
<1>9. ASSUME NEW level \in 0..2, Collect(level) PROVE UNCHANGED SggcHeap!vars
  BY <1>9 DEF Collect, app, SggcHeap!vars, Permanent
<1>10. CASE CollectOldToNew \/ FindRoots \/ CollectLookAt
  BY <1>10 DEF CollectOldToNew, FindRoots, CollectLookAt, app, SggcHeap!vars, Permanent
<1>11. CASE RemoveFreeSmall
  <2>1. PICK S \in SUBSET White : NowFree(S)
    BY <1>11, SmallFreed
  <2>2. pc = "look" /\ to_look_at = {} /\ UNCHANGED <<roots, uncollected, constants, kept>>
    BY <1>11 DEF RemoveFreeSmall
  <2> QED BY <2>1, <2>2, NowFreeIsFree DEF SggcHeap!Next
<1>12. CASE RemoveFreeBig
  <2>1. pc = "big" /\ to_look_at = {} /\ UNCHANGED <<roots, uncollected, constants, kept>>
        /\ NowFree(Big(free_or_new))
    BY <1>12 DEF RemoveFreeBig, Aged
  <2>2. Big(free_or_new) \in SUBSET White
    BY DEF Big, White, Placed
  <2> QED BY <2>1, <2>2, NowFreeIsFree DEF SggcHeap!Next
<1>13. CASE UNCHANGED vars
  BY <1>13 DEF vars, app, SggcHeap!vars, Permanent
<1> QED BY <1>2, <1>3, <1>4, <1>5, <1>6, <1>7, <1>8, <1>9, <1>10, <1>11, <1>12, <1>13
        DEF Next, application, sggc_collect

\* To the application the collector is a heap in which only objects that it cannot reach
\* disappear, and no object that exists is given out again (sggc_collect, sggc_alloc).
THEOREM SggcIsAHeap == Spec => ImplementsHeap
<1>1. Init => SggcHeap!Init
  BY DEF Init, SggcHeap!Init, Permanent
<1> QED BY <1>1, StepsOfHeap, Invariance, PTL DEF Spec, ImplementsHeap, SggcHeap!Spec

\* What a full collection has looked at can be reached.
Marked == collect_level = 2 => in_use \ free_or_new \subseteq SggcHeap!Reachable

LEMMA MarkedKept == HeapInv /\ Marked /\ [Next]_vars => Marked'
<1> SUFFICES ASSUME HeapInv, Marked, [Next]_vars, collect_level' = 2
             PROVE  in_use' \ free_or_new' \subseteq SggcHeap!Reachable'
  BY DEF Marked
<1> USE DEF HeapInv
<1>0. /\ Held \subseteq SggcHeap!Reachable
      /\ \A o \in SggcHeap!Reachable : ref[o] \subseteq SggcHeap!Reachable
  BY ReachableIs DEF LeastClosed
<1>1. CASE application
  <2>1. UNCHANGED collect_level /\ pc = "app"
    BY <1>1 DEF application, AllocQuickly, AllocSegment, RegisterConstant, AllocBig, AllocBigFails,
                SetRef, HoldRef, NewObject
  <2> QED BY <2>1 DEF TypeInv
<1>2. ASSUME NEW level \in 0..2, Collect(level)
      PROVE  in_use' \ free_or_new' \subseteq SggcHeap!Reachable'
  <2>1. /\ free_or_new' = free_or_new \union Collected(2) /\ in_use' = in_use
        /\ UNCHANGED <<ref, roots, uncollected, constants, kept>> /\ pc = "app"
    BY <1>2 DEF Collect, app
  <2>2. in_use \ free_or_new' \subseteq uncollected
    BY <2>1 DEF Collected, Aged
  <2> QED BY <1>0, <2>1, <2>2, ReachableStays DEF Held, Permanent
<1>3. CASE CollectOldToNew
  <2>1. /\ free_or_new' = free_or_new \ UNION {ref[v] : v \in {x \in old_to_new : Marks(x)}}
        /\ UNCHANGED <<in_use, collect_level, ref, roots, uncollected, constants, kept>>
    BY <1>3 DEF CollectOldToNew, LookAt, app
  <2>2. \A v \in old_to_new : Marks(v) => v \in uncollected
    BY <2>1 DEF Marks, Check
  <2>3. \A v \in uncollected : ref[v] \subseteq SggcHeap!Reachable
    BY <1>0 DEF Held, Permanent
  <2> QED BY <2>1, <2>2, <2>3, ReachableStays DEF Marked
<1>4. CASE FindRoots
  <2>1. /\ free_or_new \subseteq free_or_new' \union roots \union kept
        /\ UNCHANGED <<in_use, collect_level, ref, roots, uncollected, constants, kept>>
    BY <1>4 DEF FindRoots, app
  <2> QED BY <1>0, <2>1, ReachableStays DEF Marked, Held, Permanent
<1>5. CASE CollectLookAt
  <2>1. /\ free_or_new' = free_or_new \ UNION {ref[v] : v \in to_look_at}
        /\ UNCHANGED <<in_use, collect_level, ref, roots, uncollected, constants, kept>>
    BY <1>5 DEF CollectLookAt, app
  <2>2. \A v \in to_look_at : v \in SggcHeap!Reachable
    BY <2>1 DEF Marked, Aged
  <2> QED BY <1>0, <2>1, <2>2, ReachableStays DEF Marked
<1>6. CASE RemoveFreeSmall
  <2>1. PICK S \in SUBSET White : NowFree(S) /\ free_or_new' = free_or_new \ (S \intersect kept)
    BY <1>6, SmallFreed
  <2>2. /\ pc = "look" /\ to_look_at = {}
        /\ UNCHANGED <<roots, uncollected, constants, kept, collect_level>>
    BY <1>6 DEF RemoveFreeSmall
  <2>3. /\ in_use' = in_use \ (S \ kept)
        /\ \A o \in Objects : ref'[o] = IF o \in S \ kept THEN {} ELSE ref[o]
        /\ S \subseteq in_use \ (roots \union uncollected \union constants)
    BY <2>1, <2>2, NowFreeGives
  <2>4. HeapInv'
    BY <1>6, RemoveFreeSmallKeeps
  <2>5. /\ Held' \subseteq SggcHeap!Reachable' /\ SggcHeap!Reachable' \subseteq Objects
        /\ \A o \in SggcHeap!Reachable' : ref'[o] \subseteq SggcHeap!Reachable'
    BY <2>4, ReachableLater DEF LeastClosed
  <2>6. SggcHeap!Reachable \subseteq (in_use \ free_or_new) \union constants \union kept
    BY <2>2, BlackIsClosed
  <2> DEFINE T == SggcHeap!Reachable \intersect SggcHeap!Reachable'
  <2>7. Held \subseteq T /\ T \in SUBSET Objects
    BY <1>0, <2>2, <2>5 DEF Held, Permanent
  <2>8. \A o \in T : ref[o] \subseteq T
    <3>1. \A o \in T : o \notin S \ kept /\ o \in Objects
      BY <2>3, <2>5, <2>6 DEF White
    <3>2. \A o \in T : ref'[o] = ref[o]
      BY <2>3, <3>1
    <3> QED BY <1>0, <2>5, <3>2
  <2> HIDE DEF T
  <2>9. SggcHeap!Reachable \subseteq T
    BY <2>7, <2>8, ReachableIs DEF LeastClosed
  <2>10. SggcHeap!Reachable \subseteq SggcHeap!Reachable'
    BY <2>9 DEF T
  <2>11. kept \subseteq SggcHeap!Reachable'
    BY <2>2, <2>5 DEF Held, Permanent
  <2> QED BY <2>1, <2>2, <2>3, <2>10, <2>11 DEF Marked
<1>7. CASE RemoveFreeBig
  BY <1>7 DEF RemoveFreeBig
<1>8. CASE UNCHANGED vars
  BY <1>8, ReachableStays DEF vars, gens, app, Marked
<1> QED BY <1>1, <1>2, <1>3, <1>4, <1>5, <1>6, <1>7, <1>8 DEF Next, sggc_collect

\* After a full collection no object is left that cannot be reached, for any sharing or
\* cycles among the objects (sggc_collect with level 2).
THEOREM FullCollectionIsFull == Spec => FullCollection
<1>1. Init => Marked
  BY DEF Init, Marked
<1>2. HeapInv /\ Marked /\ [Next]_vars =>
        [pc = "big" /\ pc' = "app" /\ collect_level = 2 =>
           in_use' \union constants \subseteq SggcHeap!Reachable]_vars
  <2> SUFFICES ASSUME HeapInv, Marked, Next, pc = "big", pc' = "app", collect_level = 2
               PROVE  in_use' \union constants \subseteq SggcHeap!Reachable
    OBVIOUS
  <2>1. RemoveFreeBig
    BY DEF Next, application, sggc_collect, AllocQuickly, AllocSegment, RegisterConstant, AllocBig,
           AllocBigFails, SetRef, HoldRef, Collect, CollectOldToNew, FindRoots, CollectLookAt,
           RemoveFreeSmall
  <2>2. in_use' \subseteq (in_use \ free_or_new) \union kept
    BY <2>1 DEF RemoveFreeBig, NowFree, Big, HeapInv, FreeInv, White
  <2>3. Held \subseteq SggcHeap!Reachable
    BY ReachableIs DEF LeastClosed
  <2> QED BY <2>2, <2>3 DEF Marked, Held, Permanent
<1> QED BY <1>1, <1>2, MarkedKept, Invariance, PTL DEF Spec, FullCollection

-----------------------------------------------------------------------------
(* The counts of chunks.                                                   *)

Three(a, b, c) == [g \in 0..2 |-> CASE g = 0 -> a [] g = 1 -> b [] g = 2 -> c]

\* What the counts are, during a collection too.
Counted ==
  big_chunks = IF pc = "app"
    THEN Three(Cardinality(Big(free_or_new)), Cardinality(Big(old_gen1)), Cardinality(Big(old_gen2)))
    ELSE Three(0, Cardinality(Big(in_use) \ Elder), Cardinality(Big(Elder)))

LEMMA ThreeAre ==
  \A a, b, c : Three(a, b, c)[0] = a /\ Three(a, b, c)[1] = b /\ Three(a, b, c)[2] = c
BY DEF Three

LEMMA Counting ==
  \A A, B \in SUBSET Objects :
    /\ Cardinality(A) \in Nat
    /\ A \intersect B = {} => Cardinality(A \union B) = Cardinality(A) + Cardinality(B)
    /\ A \subseteq B => Cardinality(B \ A) = Cardinality(B) - Cardinality(A)
<1>1. \A A \in SUBSET Objects : IsFiniteSet(A) /\ Cardinality(A) \in Nat
  BY ObjectsFinite, FS_CardinalityType
<1>2. ASSUME NEW A \in SUBSET Objects, NEW B \in SUBSET Objects, A \intersect B = {}
      PROVE  Cardinality(A \union B) = Cardinality(A) + Cardinality(B)
  <2>1. Cardinality(A \union B) = Cardinality(A) + Cardinality(B) - Cardinality(A \intersect B)
    BY <1>1, FS_Union
  <2>2. Cardinality(A \intersect B) = 0
    BY <1>2, FS_EmptySet
  <2> QED BY <1>1, <2>1, <2>2
<1>3. ASSUME NEW A \in SUBSET Objects, NEW B \in SUBSET Objects, A \subseteq B
      PROVE  Cardinality(B \ A) = Cardinality(B) - Cardinality(A)
  <2>1. (B \ A) \union A = B /\ (B \ A) \intersect A = {} /\ B \ A \in SUBSET Objects
    BY <1>3
  <2>2. Cardinality(B) = Cardinality(B \ A) + Cardinality(A)
    BY <1>2, <2>1
  <2> QED BY <1>1, <2>1, <2>2
<1> QED BY <1>1, <1>2, <1>3

\* What big objects there are, and their segments, are the same.
LEMMA SameBig ==
  ASSUME Counted, UNCHANGED <<big_chunks, pc>>, pc = "app",
         Big(free_or_new)' = Big(free_or_new), Big(old_gen1)' = Big(old_gen1),
         Big(old_gen2)' = Big(old_gen2)
  PROVE  Counted'
BY DEF Counted

LEMMA AppCounts == ASSUME HeapInv, Counted, application PROVE Counted'
<1> USE DEF HeapInv
<1>0. /\ \A x \in free_or_new \union old_gen1 \union old_gen2 : x \in Objects /\ x[1] \in DOMAIN kind
      /\ Len(kind) \in Nat /\ DOMAIN kind = 1..Len(kind)
      /\ \A k \in SmallKinds : k \notin BigKinds
  BY SegmentsInUse, ConstantsAssumption DEF Placed, Aged
<1>1. CASE (\E k \in SmallKinds : AllocQuickly(k)) \/ SetRef \/ HoldRef
  <2>1. UNCHANGED <<kind, free_or_new, old_gen1, old_gen2, big_chunks, pc>> /\ pc = "app"
    BY <1>1 DEF AllocQuickly, SetRef, HoldRef, NewObject, segs, gens
  <2> QED BY <2>1, SameBig DEF Big, Kind
<1>2. ASSUME NEW k \in SmallKinds, AllocSegment(k) PROVE Counted'
  <2>1. /\ kind' = Append(kind, k) /\ UNCHANGED <<old_gen1, old_gen2, big_chunks, pc>> /\ pc = "app"
        /\ free_or_new \subseteq free_or_new'
        /\ free_or_new' \subseteq free_or_new \union ObjectsOf(next_segment, k)
    BY <1>2 DEF AllocSegment, NewObject
  <2>2. \A x : x[1] \in DOMAIN kind => Kind(x)' = Kind(x)
    BY <1>0, <2>1 DEF Kind, TypeInv
  <2>3. \A x \in ObjectsOf(next_segment, k) : Kind(x)' = k
    BY <1>0, <2>1 DEF Kind, ObjectsOf, next_segment, TypeInv
  <2>4. /\ Big(free_or_new)' = Big(free_or_new)
        /\ Big(old_gen1)' = Big(old_gen1) /\ Big(old_gen2)' = Big(old_gen2)
    BY <1>0, <2>1, <2>2, <2>3 DEF Big
  <2> QED BY <2>1, <2>4, SameBig
<1>3. ASSUME NEW k \in SmallKinds, RegisterConstant(k) PROVE Counted'
  <2>1. free_or_new = {} /\ old_gen1 = {} /\ old_gen2 = {}
    BY <1>0, <1>3 DEF RegisterConstant
  <2>2. UNCHANGED <<free_or_new, old_gen1, old_gen2, big_chunks, pc>> /\ pc = "app"
    BY <1>3 DEF RegisterConstant, gens
  <2> QED BY <2>1, <2>2, SameBig DEF Big
<1>4. ASSUME NEW o \in unused, NEW x \in free_or_new \union old_gen1 \union old_gen2 PROVE x[1] # o[1]
  <2> SUFFICES ASSUME x[1] = o[1] PROVE FALSE
    OBVIOUS
  <2>1. Kind(x) \in BigKinds /\ o \in Objects /\ o[2] = 0 /\ o \notin in_use
    BY DEF Placed, Kind
  <2>2. x \in in_use /\ x \in Objects /\ x[2] = 0
    BY <2>1 DEF Placed, Aged
  <2> QED BY <2>1, <2>2, ObjectsAre
<1>5. ASSUME NEW k \in BigKinds, AllocBigFails(k) PROVE Counted'
  <2>1. PICK o \in unused : kind' = [kind EXCEPT ![o[1]] = k]
    BY <1>5 DEF AllocBigFails
  <2>2. \A x \in free_or_new \union old_gen1 \union old_gen2 : Kind(x)' = Kind(x)
    BY <1>0, <1>4, <2>1 DEF Kind, TypeInv
  <2>3. UNCHANGED <<free_or_new, old_gen1, old_gen2, big_chunks, pc>> /\ pc = "app"
    BY <1>5 DEF AllocBigFails, gens
  <2> QED BY <2>2, <2>3, SameBig DEF Big
<1>6. ASSUME NEW k \in BigKinds, AllocBig(k) PROVE Counted'
  <2>1. PICK o \in IF unused # {} THEN unused ELSE {<<next_segment, 0>>} :
          /\ o[1] <= MaxSegments
          /\ kind' = [s \in 1..(IF o[1] = next_segment THEN o[1] ELSE Len(kind)) |->
                        IF s = o[1] THEN k ELSE kind[s]]
          /\ free_or_new' = free_or_new \union {o} /\ in_use' = in_use \union {o}
    BY <1>6 DEF AllocBig, NewObject
  <2>2. /\ UNCHANGED <<old_gen1, old_gen2, pc>> /\ pc = "app"
        /\ big_chunks' = [big_chunks EXCEPT ![0] = @ + 1]
    BY <1>6 DEF AllocBig, NewObject
  <2>3. /\ next_segment = Len(kind) + 1
        /\ (o \in unused /\ o[1] \in DOMAIN kind) \/ o[1] = next_segment
    BY <2>1 DEF Placed, next_segment
  <2>4. \A x \in free_or_new \union old_gen1 \union old_gen2 : Kind(x)' = Kind(x) /\ x # o
    <3> SUFFICES ASSUME NEW x \in free_or_new \union old_gen1 \union old_gen2
                 PROVE  Kind(x)' = Kind(x) /\ x # o
      OBVIOUS
    <3>1. x[1] \in 1..Len(kind) /\ x[1] # o[1]
      BY <1>0, <1>4, <2>3
    <3>2. x[1] \in 1..(IF o[1] = next_segment THEN o[1] ELSE Len(kind))
      BY <1>0, <2>3, <3>1
    <3> QED BY <2>1, <3>1, <3>2 DEF Kind
  <2>5. Kind(o)' = k
    <3>1. o[1] \in 1..(IF o[1] = next_segment THEN o[1] ELSE Len(kind))
      BY <1>0, <2>3
    <3> QED BY <2>1, <3>1 DEF Kind
  <2>6. /\ Big(free_or_new)' = Big(free_or_new) \union {o} /\ o \notin Big(free_or_new)
        /\ Big(old_gen1)' = Big(old_gen1) /\ Big(old_gen2)' = Big(old_gen2)
    BY <2>1, <2>2, <2>4, <2>5 DEF Big
  <2>7. IsFiniteSet(Big(free_or_new))
    BY <1>0, ObjectsFinite DEF Big
  <2>8. Cardinality(Big(free_or_new)') = Cardinality(Big(free_or_new)) + 1
    BY <2>6, <2>7, FS_AddElement
  <2>9. big_chunks = Three(Cardinality(Big(free_or_new)), Cardinality(Big(old_gen1)),
                           Cardinality(Big(old_gen2)))
    BY <2>2 DEF Counted
  <2>10. big_chunks' = Three(Cardinality(Big(free_or_new)) + 1, Cardinality(Big(old_gen1)),
                             Cardinality(Big(old_gen2)))
    <3> DEFINE a == Cardinality(Big(free_or_new))
               b == Cardinality(Big(old_gen1))
               c == Cardinality(Big(old_gen2))
    <3>1. big_chunks = Three(a, b, c)
      BY <2>9
    <3> HIDE DEF a, b, c
    <3>2. big_chunks[0] = a
      BY <3>1, ThreeAre
    <3>3. big_chunks' = [Three(a, b, c) EXCEPT ![0] = a + 1]
      BY <2>2, <3>1, <3>2
    <3>4. /\ big_chunks'[0] = a + 1 /\ big_chunks'[1] = b /\ big_chunks'[2] = c
          /\ big_chunks' = [g \in 0..2 |-> big_chunks'[g]]
      <4> DEFINE f == Three(a, b, c)
                 d == a + 1
      <4>1. f[0] = a /\ f[1] = b /\ f[2] = c /\ DOMAIN f = 0..2
        BY DEF Three
      <4>2. big_chunks' = [f EXCEPT ![0] = d]
        BY <3>3
      <4> HIDE DEF f, d
      <4>3. big_chunks' = [g \in 0..2 |-> IF g = 0 THEN d ELSE f[g]]
        BY <4>1, <4>2
      <4>4. /\ big_chunks'[0] = d /\ big_chunks'[1] = b /\ big_chunks'[2] = c
            /\ big_chunks' = [g \in 0..2 |-> big_chunks'[g]]
        BY <4>1, <4>3
      <4> QED BY <4>4 DEF d
    <3>5. big_chunks' = Three(a + 1, b, c)
      <4>1. \A g \in 0..2 : g = 0 \/ g = 1 \/ g = 2
        OBVIOUS
      <4> QED BY <3>4, <4>1 DEF Three
    <3> QED BY <3>5 DEF a, b, c
  <2> QED BY <2>2, <2>6, <2>8, <2>10 DEF Counted
<1> QED BY <1>1, <1>2, <1>3, <1>5, <1>6 DEF application

LEMMA CollectCounts == ASSUME HeapInv, Counted, NEW level \in 0..2, Collect(level) PROVE Counted'
<1> USE DEF HeapInv
<1>1. /\ pc = "app" /\ collect_level = -1 /\ pc' # "app" /\ collect_level' = level
      /\ free_or_new' = free_or_new \union Collected(level) /\ to_look_at' = {}
      /\ UNCHANGED <<kind, in_use, old_gen1, old_gen2>>
      /\ big_chunks' = [g \in 0..2 |->
           CASE g = 0 -> 0
             [] g = 1 -> big_chunks[0] + (IF level > 0 THEN 0 ELSE big_chunks[1])
             [] g = 2 -> big_chunks[2] + (IF level > 0 THEN big_chunks[1] ELSE 0)]
  BY DEF Collect, segs, TypeInv, Aged
<1> DEFINE b0 == Big(free_or_new)
           b1 == Big(old_gen1)
           b2 == Big(old_gen2)
<1>2. /\ b0 \in SUBSET Objects /\ b1 \in SUBSET Objects /\ b2 \in SUBSET Objects
      /\ b0 \intersect b1 = {} /\ b0 \intersect b2 = {} /\ b1 \intersect b2 = {}
  BY <1>1 DEF Big, Placed, Aged
<1>3. Big(in_use) = b0 \union b1 \union b2
  <2>1. Big(uncollected) = {}
    BY ConstantsAssumption DEF Big, Placed
  <2>2. Big(in_use) \subseteq b0 \union b1 \union b2
    BY <1>1, <2>1 DEF Big, Aged
  <2>3. b0 \union b1 \union b2 \subseteq Big(in_use)
    BY DEF Big, Placed, Aged
  <2> QED BY <2>2, <2>3
<1>4. /\ Big(in_use)' = Big(in_use)
      /\ Elder' = old_gen2 \union IF level >= 1 THEN old_gen1 ELSE {}
  BY <1>1 DEF Elder, Big, Kind, Collected
<1>5. /\ Big(Elder)' = b2 \union IF level >= 1 THEN b1 ELSE {}
      /\ Big(in_use)' \ Elder' = b0 \union IF level >= 1 THEN {} ELSE b1
  BY <1>1, <1>2, <1>3, <1>4 DEF Big, Kind
<1>6. big_chunks = Three(Cardinality(b0), Cardinality(b1), Cardinality(b2))
  BY <1>1 DEF Counted
<1> HIDE DEF b0, b1, b2
<1>7. /\ big_chunks[0] = Cardinality(b0) /\ big_chunks[1] = Cardinality(b1)
      /\ big_chunks[2] = Cardinality(b2)
      /\ Cardinality(b0) \in Nat /\ Cardinality(b1) \in Nat /\ Cardinality(b2) \in Nat
  <2>1. Cardinality(b0) \in Nat /\ Cardinality(b1) \in Nat /\ Cardinality(b2) \in Nat
    BY <1>2, Counting
  <2>2. \A x, y, z : Three(x, y, z)[0] = x /\ Three(x, y, z)[1] = y /\ Three(x, y, z)[2] = z
    BY ThreeAre
  <2> QED BY <1>6, <2>1, <2>2
<1>8. /\ Cardinality(Big(Elder)') = Cardinality(b2) + (IF level > 0 THEN Cardinality(b1) ELSE 0)
      /\ Cardinality(Big(in_use)' \ Elder') = Cardinality(b0) + (IF level > 0 THEN 0 ELSE Cardinality(b1))
  <2>1. /\ Cardinality(b2 \union b1) = Cardinality(b2) + Cardinality(b1)
        /\ Cardinality(b0 \union b1) = Cardinality(b0) + Cardinality(b1)
    <3>1. b2 \intersect b1 = {}
      BY <1>2
    <3> QED BY <1>2, <3>1, Counting
  <2>2. b2 \union {} = b2 /\ b0 \union {} = b0 /\ (level > 0 <=> level >= 1)
    OBVIOUS
  <2>3. CASE level > 0
    <3>1. Big(Elder)' = b2 \union b1 /\ Big(in_use)' \ Elder' = b0
      BY <1>5, <2>2, <2>3
    <3>2. Cardinality(Big(Elder)') = Cardinality(b2) + Cardinality(b1)
      BY <2>1, <3>1
    <3>3. Cardinality(Big(in_use)' \ Elder') = Cardinality(b0) + 0
      BY <1>7, <3>1
    <3> QED BY <2>3, <3>2, <3>3
  <2>4. CASE ~(level > 0)
    <3>1. Big(Elder)' = b2 /\ Big(in_use)' \ Elder' = b0 \union b1
      BY <1>5, <2>2, <2>4
    <3> QED BY <1>7, <2>1, <2>4, <3>1
  <2> QED BY <2>3, <2>4
<1>9. big_chunks' = Three(0, Cardinality(Big(in_use)' \ Elder'), Cardinality(Big(Elder)'))
  BY <1>1, <1>7, <1>8 DEF Three
<1> QED BY <1>1, <1>9 DEF Counted

LEMMA LookingCounts ==
  ASSUME HeapInv, Counted, CollectOldToNew \/ FindRoots \/ CollectLookAt
  PROVE  Counted'
<1> USE DEF HeapInv
<1>1. /\ UNCHANGED <<kind, in_use, big_chunks, collect_level>> /\ pc # "app" /\ pc' # "app"
      /\ collect_level \in 0..2
  BY DEF CollectOldToNew, FindRoots, CollectLookAt, segs, TypeInv
<1>2. Elder' = Elder
  <2>1. CASE CollectOldToNew
    <3>1. /\ UNCHANGED <<old_gen1, old_gen2>> /\ to_look_at = {}
          /\ free_or_new' \union to_look_at' = free_or_new
      BY <2>1 DEF CollectOldToNew, LookAt, Aged
    <3> QED BY <1>1, <3>1 DEF Elder
  <2>2. ASSUME NEW S, S \subseteq free_or_new \union to_look_at,
               collect_level < 2 => S \intersect old_gen2 = {},
               collect_level < 1 => S \intersect old_gen1 = {},
               old_gen1' = Gen1With(S), old_gen2' = Gen2With(S),
               free_or_new' \union to_look_at' = (free_or_new \union to_look_at) \ S
        PROVE  Elder' = Elder
    <3>1. CASE collect_level = 0
      BY <1>1, <2>2, <3>1 DEF Elder, Gen2With
    <3>2. CASE collect_level >= 1
      BY <1>1, <2>2, <3>2 DEF Elder, Gen1With, Gen2With
    <3> QED BY <1>1, <3>1, <3>2
  <2>3. CASE FindRoots
    <3> DEFINE marked == IF collect_level = 2 THEN (kept \ roots) \intersect free_or_new ELSE {}
    <3>1. /\ free_or_new' = (free_or_new \ roots) \ marked
          /\ to_look_at' = to_look_at \union (roots \intersect free_or_new)
          /\ old_gen1' = Gen1With(marked) /\ old_gen2' = Gen2With(marked)
      BY <2>3 DEF FindRoots
    <3>2. /\ marked \subseteq free_or_new /\ marked \intersect roots = {}
          /\ collect_level < 2 => marked = {}
      OBVIOUS
    <3>3. marked \intersect to_look_at = {}
      BY <3>2 DEF Aged
    <3> HIDE DEF marked
    <3> QED BY <1>1, <2>2, <3>1, <3>2, <3>3
  <2>4. CASE CollectLookAt
    <3>1. /\ free_or_new' \union to_look_at' = free_or_new
          /\ old_gen1' = Gen1With(to_look_at) /\ old_gen2' = Gen2With(to_look_at)
      BY <2>4 DEF CollectLookAt
    <3>2. free_or_new = (free_or_new \union to_look_at) \ to_look_at
      BY DEF Aged
    <3>3. /\ collect_level < 2 => to_look_at \intersect old_gen2 = {}
          /\ collect_level < 1 => to_look_at \intersect old_gen1 = {}
      BY DEF Aged
    <3> QED BY <2>2, <3>1, <3>2, <3>3
  <2> QED BY <2>1, <2>3, <2>4
<1> QED BY <1>1, <1>2 DEF Counted, Big, Kind

LEMMA RemoveFreeSmallCounts == ASSUME HeapInv, Counted, RemoveFreeSmall PROVE Counted'
<1> USE DEF HeapInv
<1>1. PICK S \in SUBSET White : /\ NowFree(S) /\ free_or_new' = free_or_new \ (S \intersect kept)
                               /\ \A o \in White : o \in S <=> Kind(o) \in SmallKinds
  BY SmallFreed
<1>2. /\ pc = "look" /\ pc' = "big" /\ to_look_at = {} /\ to_look_at' = {}
      /\ collect_level \in 0..2 /\ UNCHANGED <<kind, big_chunks, collect_level>>
  BY DEF RemoveFreeSmall, segs, TypeInv
<1>3. \A o \in S : Kind(o) \notin BigKinds
  BY <1>1, ConstantsAssumption
<1>4. /\ in_use' = in_use \ (S \ kept)
      /\ old_gen1' = Gen1With(S \intersect kept) \ (S \ kept)
      /\ old_gen2' = Gen2With(S \intersect kept) \ (S \ kept)
  BY <1>1 DEF NowFree
<1>5. Big(in_use)' = Big(in_use)
  BY <1>2, <1>3, <1>4 DEF Big, Kind
<1>6. \A o : Kind(o) \in BigKinds => (o \in Elder' <=> o \in Elder)
  <2> SUFFICES ASSUME NEW o, Kind(o) \in BigKinds PROVE o \in Elder' <=> o \in Elder
    OBVIOUS
  <2>1. o \notin S
    BY <1>3
  <2>2. (o \in old_gen1' <=> o \in old_gen1) /\ (o \in old_gen2' <=> o \in old_gen2)
    BY <1>4, <2>1 DEF Gen1With, Gen2With
  <2>3. o \in free_or_new' <=> o \in free_or_new
    BY <1>1, <2>1
  <2> QED BY <1>2, <2>2, <2>3 DEF Elder
<1>7. Big(Elder)' = Big(Elder) /\ Big(in_use)' \ Elder' = Big(in_use) \ Elder
  BY <1>2, <1>5, <1>6 DEF Big, Kind
<1> QED BY <1>2, <1>7 DEF Counted

LEMMA RemoveFreeBigCounts == ASSUME HeapInv, Counted, RemoveFreeBig PROVE Counted'
<1> USE DEF HeapInv
<1> DEFINE S == Big(free_or_new)
           D == S \ kept
<1>1. /\ NowFree(S) /\ free_or_new' = free_or_new \ S
      /\ pc = "big" /\ pc' = "app" /\ to_look_at = {} /\ collect_level \in 0..2
      /\ UNCHANGED <<kind, uncollected>>
      /\ big_chunks' = [g \in 0..2 |-> big_chunks[g] - FreedChunks(g, D)]
  BY DEF RemoveFreeBig, Aged, segs, TypeInv
<1>2. S = White /\ S \subseteq Big(in_use) /\ S \subseteq Objects /\ S \subseteq free_or_new
      /\ Big(in_use) \intersect free_or_new = S
  BY <1>1 DEF Big, White, FreeInv, Placed
<1>3. /\ in_use' = in_use \ D
      /\ old_gen1' = Gen1With(S \intersect kept) \ D
      /\ old_gen2' = Gen2With(S \intersect kept) \ D
  BY <1>1 DEF NowFree
<1>4. Big(free_or_new)' = {} /\ \A X : X \subseteq in_use => Big(X) \subseteq Objects
  BY <1>1 DEF Big, Kind, Placed
<1> HIDE DEF S
<1>5. D \intersect (old_gen1 \union old_gen2) = D \intersect Elder
  BY <1>1, <1>2 DEF Elder, Aged
<1>6. Elder \subseteq in_use
  BY DEF Elder, Aged
<1>7. Big(old_gen2)' = Big(Elder) \ (D \intersect Elder)
  <2>1. \A o : Kind(o)' = Kind(o)
    BY <1>1 DEF Kind
  <2>2. ASSUME NEW o, Kind(o) \in BigKinds PROVE o \in old_gen2' <=> o \in Elder /\ o \notin D
    <3>1. o \in in_use /\ o \in free_or_new <=> o \in S
      BY <1>2, <2>2 DEF White
    <3>2. old_gen1 \subseteq in_use
      BY DEF Aged
    <3>3. CASE collect_level = 0
      BY <1>1, <1>3, <3>3 DEF Gen2With, Elder
    <3>4. CASE collect_level >= 1
      BY <1>1, <1>3, <3>1, <3>2, <3>4 DEF Gen2With, Elder
    <3> QED BY <1>1, <3>3, <3>4
  <2> QED BY <2>1, <2>2 DEF Big
<1>8. Big(old_gen1)' = (Big(in_use) \ Elder) \ (D \ Elder)
  <2>1. HeapInv'
    BY RemoveFreeBigKeeps
  <2>2. /\ in_use' \intersect free_or_new' = {}
        /\ in_use' \subseteq old_gen1' \union old_gen2' \union uncollected'
        /\ old_gen1' \union old_gen2' \subseteq in_use' /\ old_gen1' \intersect old_gen2' = {}
    BY <1>1, <1>2, <1>3, <2>1 DEF Aged, White
  <2>3. Big(uncollected') = {}
    BY <1>1, ConstantsAssumption DEF Big, Placed
  <2>4. Big(old_gen1)' = Big(in_use)' \ Big(old_gen2)'
    BY <1>1, <2>2, <2>3 DEF Big, Kind
  <2>5. Big(in_use)' = Big(in_use) \ D
    BY <1>1, <1>3 DEF Big, Kind
  <2> QED BY <1>7, <2>4, <2>5 DEF Big
<1>9. big_chunks = Three(0, Cardinality(Big(in_use) \ Elder), Cardinality(Big(Elder)))
  BY <1>1 DEF Counted
<1>10. big_chunks[0] = 0 /\ big_chunks[1] = Cardinality(Big(in_use) \ Elder)
       /\ big_chunks[2] = Cardinality(Big(Elder))
  BY <1>9, ThreeAre
<1>11. /\ FreedChunks(0, D) = 0 /\ FreedChunks(1, D) = Cardinality(D \ Elder)
       /\ FreedChunks(2, D) = Cardinality(D \intersect Elder)
  <2>1. D \ (old_gen1 \union old_gen2) = D \ Elder
    BY <1>5
  <2>2. Cardinality({}) = 0
    BY FS_EmptySet
  <2> HIDE DEF D
  <2> QED BY <1>5, <2>1, <2>2 DEF FreedChunks
<1>12. /\ D \subseteq Big(in_use) /\ D \intersect Elder \subseteq Big(Elder)
       /\ D \ Elder \subseteq Big(in_use) \ Elder
       /\ D \intersect Elder \in SUBSET Objects /\ Big(Elder) \in SUBSET Objects
       /\ D \ Elder \in SUBSET Objects /\ Big(in_use) \ Elder \in SUBSET Objects
  BY <1>2, <1>4, <1>6 DEF Big
<1>13. /\ Cardinality(Big(old_gen2)') = Cardinality(Big(Elder)) - Cardinality(D \intersect Elder)
       /\ Cardinality(Big(old_gen1)') = Cardinality(Big(in_use) \ Elder) - Cardinality(D \ Elder)
       /\ Cardinality(Big(free_or_new)') = 0
  BY <1>4, <1>7, <1>8, <1>12, Counting, FS_EmptySet
<1> HIDE DEF D
<1>14. /\ big_chunks'[0] = Cardinality(Big(free_or_new)')
       /\ big_chunks'[1] = Cardinality(Big(old_gen1)')
       /\ big_chunks'[2] = Cardinality(Big(old_gen2)')
       /\ big_chunks' = [g \in 0..2 |-> big_chunks'[g]]
  BY <1>1, <1>10, <1>11, <1>13
<1>15. big_chunks' = Three(Cardinality(Big(free_or_new)'), Cardinality(Big(old_gen1)'),
                           Cardinality(Big(old_gen2)'))
  <2>1. \A g \in 0..2 : g = 0 \/ g = 1 \/ g = 2
    OBVIOUS
  <2> QED BY <1>14, <2>1 DEF Three
<1> QED BY <1>1, <1>15 DEF Counted

LEMMA CountedKept == HeapInv /\ Counted /\ [Next]_vars => Counted'
<1> SUFFICES ASSUME HeapInv, Counted, [Next]_vars PROVE Counted'
  OBVIOUS
<1>1. CASE UNCHANGED vars
  BY <1>1 DEF vars, segs, gens, Counted, Big, Kind, Elder
<1> QED BY <1>1, AppCounts, CollectCounts, LookingCounts, RemoveFreeSmallCounts, RemoveFreeBigCounts
        DEF Next, sggc_collect

LEMMA CountsHold == Spec => []Counted
<1>1. Init => Counted
  <2> SUFFICES ASSUME Init PROVE Counted
    OBVIOUS
  <2>1. Big(free_or_new) = {} /\ Big(old_gen1) = {} /\ Big(old_gen2) = {} /\ pc = "app"
    BY DEF Init, Big
  <2>2. Cardinality({}) = 0
    BY FS_EmptySet
  <2>3. big_chunks = Three(0, 0, 0)
    BY DEF Init, Three
  <2> QED BY <2>1, <2>2, <2>3 DEF Counted
<1> QED BY <1>1, CountedKept, Invariance, PTL DEF Spec

\* The chunks counted for a generation are those of the big objects in it, whatever was
\* moved or freed between two collections (gen0_big_chunks, gen1_big_chunks and
\* gen2_big_chunks).
THEOREM CountsAreRight == Spec => []ChunksCounted
<1>1. Counted => ChunksCounted
  <2> SUFFICES ASSUME Counted, pc = "app"
               PROVE  big_chunks = [g \in 0..2 |-> Cardinality(Big(
                        CASE g = 0 -> free_or_new [] g = 1 -> old_gen1 [] g = 2 -> old_gen2))]
    BY DEF ChunksCounted
  <2>1. \A g \in 0..2 :
          Cardinality(Big(CASE g = 0 -> free_or_new [] g = 1 -> old_gen1 [] g = 2 -> old_gen2)) =
          CASE g = 0 -> Cardinality(Big(free_or_new)) [] g = 1 -> Cardinality(Big(old_gen1))
            [] g = 2 -> Cardinality(Big(old_gen2))
    <3> SUFFICES ASSUME NEW g \in 0..2
                 PROVE  Cardinality(Big(CASE g = 0 -> free_or_new [] g = 1 -> old_gen1
                                          [] g = 2 -> old_gen2)) =
                        CASE g = 0 -> Cardinality(Big(free_or_new)) [] g = 1 -> Cardinality(Big(old_gen1))
                          [] g = 2 -> Cardinality(Big(old_gen2))
      OBVIOUS
    <3>1. CASE g = 0
      BY <3>1
    <3>2. CASE g = 1
      BY <3>2
    <3>3. CASE g = 2
      BY <3>3
    <3> QED BY <3>1, <3>2, <3>3
  <2> QED BY <2>1 DEF Counted, Three
<1> QED BY <1>1, CountsHold, PTL

\* Every variable keeps its type; above all, no count of chunks goes below zero
\* (sggc_collect_remove_free_big).
THEOREM TypesAreOK == Spec => []TypeOK
<1>1. HeapInv /\ Counted => TypeOK
  <2> SUFFICES ASSUME HeapInv, Counted PROVE TypeOK
    OBVIOUS
  <2> USE DEF HeapInv
  <2>1. \A S \in {free_or_new, unused, old_gen1, old_gen2, uncollected, constants,
                   old_to_new, to_look_at, in_use, roots, kept} : S \subseteq Objects
    BY DEF Placed, Aged, Referred
  <2>2. big_chunks \in [0..2 -> Nat]
    <3>1. \A X \in SUBSET Objects : Cardinality(X) \in Nat
      BY Counting
    <3>2. /\ Big(free_or_new) \in SUBSET Objects /\ Big(old_gen1) \in SUBSET Objects
          /\ Big(old_gen2) \in SUBSET Objects /\ Big(in_use) \ Elder \in SUBSET Objects
          /\ Big(Elder) \in SUBSET Objects
      BY <2>1 DEF Big, Elder
    <3>3. \A a, b, c \in Nat : Three(a, b, c) \in [0..2 -> Nat]
      BY DEF Three
    <3> QED BY <3>1, <3>2, <3>3 DEF Counted
  <2> QED BY <2>1, <2>2 DEF TypeOK, TypeInv
<1> QED BY <1>1, CountsHold, Invariance, PTL
=============================================================================
