--------------------------- MODULE MCVoteDatabase ---------------------------
(* Instances of VoteDatabase for TLC: one with every kind of datagram, one   *)
(* with valid decisions only, transfers and several hours.                   *)
EXTENDS VoteDatabase, TLC

CONSTANTS fmv, alice, nobody, coin1, coin2, zoe

Opinion(c, o) == [contestant |-> c, opinion |-> o]
Ballot(km, ops, w) == [keyMatches |-> km, opinions |-> ops, writeIns |-> w]

\* Valid for the first contestant, for a write-in, a null decision; an index
\* one too large, a negative one, two opinions, an opinion of 2, wrong key.
MCAllBallots ==
    { Ballot(TRUE, <<Opinion(0, 1)>>, <<>>),
      Ballot(TRUE, <<Opinion(1, 1)>>, <<zoe>>),
      Ballot(TRUE, <<>>, <<>>),
      Ballot(TRUE, <<Opinion(1, 1)>>, <<>>),
      Ballot(TRUE, <<Opinion(-1, 1)>>, <<>>),
      Ballot(TRUE, <<Opinion(0, 1), Opinion(1, 1)>>, <<zoe>>),
      Ballot(TRUE, <<Opinion(0, 2)>>, <<>>),
      Ballot(FALSE, <<Opinion(0, 1)>>, <<>>) }

MCPlainBallots == { Ballot(TRUE, <<Opinion(0, 1)>>, <<>>) }

Draft(creator, sig, coin, start, end) ==
    [creator |-> creator, coin |-> coin, start |-> start, end |-> end,
     sigValid |-> sig, contestants |-> 1]

MCAllDrafts ==
    { Draft(nobody, FALSE, coin1, 0, 0),
      Draft(alice, TRUE, coin2, 7300, 7400),
      Draft(alice, FALSE, coin1, 0, 0) }

MCPlainDrafts == { Draft(nobody, FALSE, coin1, 0, 0) }

\* alice has no balance of coin1 until she receives some.
MCSparseHoldings == { (<<fmv, coin1>> :> 2) @@ (<<alice, coin2>> :> 0) }

MCFullHoldings == { (<<fmv, coin1>> :> 1) @@ (<<alice, coin1>> :> 0) }

MCBlacklist == {2}
MCNoBlacklist == {}
=============================================================================
