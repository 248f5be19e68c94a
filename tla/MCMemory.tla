------------------------------ MODULE MCMemory ------------------------------
(* Memory for TLC.  The cfg files give the constants their values.          *)
EXTENDS Memory, TLC

\* Objects are only tested for equality.
Symmetry == Permutations(Objs) \union Permutations(Refs)
=============================================================================
