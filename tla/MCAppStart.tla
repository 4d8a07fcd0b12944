----------------------------- MODULE MCAppStart -----------------------------
(* An instance of AppStart: wallets without, with one and with two accounts. *)
EXTENDS AppStart

CONSTANTS alice, bob

MCListings == { <<>>, <<alice>>, <<alice, bob>> }
=============================================================================
