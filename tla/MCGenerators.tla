---------------------------- MODULE MCGenerators ----------------------------
(***************************************************************************)
(* One generator and one async generator, and every program of MaxOps      *)
(* operations over them.                                                   *)
(***************************************************************************)
EXTENDS GeneratorPromises
=============================================================================
