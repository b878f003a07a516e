--------------------------- MODULE MCPublication ---------------------------
(* Two operators are the fewest that can answer one request at the same time. *)
EXTENDS Publication
CONSTANTS alice, bob

MCOperators == {alice, bob}
=============================================================================
