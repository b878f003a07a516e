-------------------------- MODULE MCProcessRunner --------------------------
(* Two exceptions are the fewest that reach the handler itself. *)
EXTENDS ProcessRunner
=============================================================================
