-------------------------- MODULE MCContestResults --------------------------
(* An instance of ContestResults for TLC: one contest, two voters who may    *)
(* vote for a contestant or a write-in.                                      *)
EXTENDS ContestResults, TLC

CONSTANTS fmv, alice, nobody, coin1, zoe, nothing

Opinion(c) == [contestant |-> c, opinion |-> 1]
Ballot(ops, w) == [keyMatches |-> TRUE, opinions |-> ops, writeIns |-> w]

MCBallots == { Ballot(<<Opinion(0)>>, <<>>),
               Ballot(<<Opinion(1)>>, <<zoe>>),
               Ballot(<<>>, <<>>) }

MCDrafts == { [creator |-> nobody, sigValid |-> FALSE, coin |-> coin1,
               contestants |-> 1, start |-> 0, end |-> 0] }

MCBlacklist == {}

MCHoldings == { (<<fmv, coin1>> :> 2) @@ (<<alice, coin1>> :> 1) }

MCRank == (<<fmv, coin1>> :> 7) @@ (<<alice, coin1>> :> 4)
=============================================================================
