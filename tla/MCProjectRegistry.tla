-------------------------- MODULE MCProjectRegistry --------------------------
(* Two callers contend; two roots are the fewest that differ, and a third id lets a *)
(* registration be abandoned and repeated beside another root's.                    *)
EXTENDS ProjectRegistry
CONSTANTS first, second, here, there, one, two, three

MCCallers == {first, second}
MCRoots   == {here, there}
MCIds     == {one, two, three}
=============================================================================
