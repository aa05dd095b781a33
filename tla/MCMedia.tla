--------------------------------- MODULE MCMedia ---------------------------------
(* Two jobs that share an item, one of which has an item of its own.          *)
EXTENDS Media

CONSTANTS j1, j2, i1, i2

Shared == [j \in Jobs |-> IF j = j1 THEN {i1, i2} ELSE {i2}]

=============================================================================
