----------------------------- MODULE MCCasting -----------------------------
(* Bounds for Casting: a decision is empty, cleared or a vote.             *)
EXTENDS Casting
CONSTANTS none, zero, yes
MCOpinions == {none, zero, yes}
=============================================================================
