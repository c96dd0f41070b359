------------------------------ MODULE MCLogger ------------------------------
(* Two writers and one reader, up to the first accident: nothing is claimed  *)
(* of a log after it.                                                        *)
EXTENDS Logger

CONSTANTS w1, w2, a

Undamaged == ~ damaged
=============================================================================
