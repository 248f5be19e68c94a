------------------------------- MODULE MCSggc -------------------------------
(* Sggc with list cells and strings, vectors that are big, and symbols that *)
(* are never collected.                                                     *)
EXTENDS Sggc

\* Two cells in a segment, so that a free one is found by walking.
MCTwoCells == [k \in Kinds |-> IF k = "cons" THEN 2 ELSE 1]

\* A string, unlike the others, refers to nothing.
MCMaxRefs == [k \in Kinds |-> IF k = "char" THEN 0 ELSE 1]
=============================================================================
