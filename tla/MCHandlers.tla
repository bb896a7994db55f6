----------------------------- MODULE MCHandlers -----------------------------
(***************************************************************************)
(* Handlers on small instances.                                            *)
(***************************************************************************)
EXTENDS Handlers, TLC
=============================================================================
