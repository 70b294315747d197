------------------------------- MODULE MCDjlc -------------------------------
(* Four keys, three of which collide in a table of four, and wrap around.  *)
EXTENDS Djlc

MCKeys == {0, 4, 7, 3}
MCHash == [k \in MCKeys |-> k]
=============================================================================
