----------------------------- MODULE MCContexts -----------------------------
(* Contexts for TLC.  The cfg files give the constants their values.        *)
EXTENDS Contexts
=============================================================================
