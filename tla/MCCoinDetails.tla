--------------------------- MODULE MCCoinDetails ----------------------------
(* The instance of VoteDatabase with several hours, and a client that asks   *)
(* for histories of different lengths, one of them too long.                 *)
EXTENDS MCVoteDatabase, CoinDetails

MCLengths == {-1, 2, 3, 4}
=============================================================================
