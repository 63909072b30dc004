--------------------------- MODULE MCLocationAgent ---------------------------
(***************************************************************************)
(* Three agents started for one location.                                  *)
(***************************************************************************)
EXTENDS LocationAgent

CONSTANTS a1, a2, a3

MCAgents == {a1, a2, a3}
Pair == {a1, a2}
=============================================================================
