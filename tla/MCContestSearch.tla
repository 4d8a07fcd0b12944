-------------------------- MODULE MCContestSearch ---------------------------
(* Instances of ContestSearch for TLC: contests of two coins and two         *)
(* creators, and the filter lists of the app and some that combine filters.  *)
EXTENDS ContestSearch

CONSTANTS none, vote, coin

Draft(creator, c, words, start, end) ==
    [creator |-> creator, coin |-> c, words |-> words,
     start |-> start, end |-> end]

\* A contest that never ends, one that ends early, one that starts late, and
\* contests that match different words.
MCDrafts == { Draft(1, 1, {vote}, 0, 0),
              Draft(2, 1, {coin}, 0, 1),
              Draft(1, 2, {vote, coin}, 2, 3) }

Filter(type, args) == [type |-> type, args |-> args]

MCSearches == { <<Filter("terms", <<vote>>)>>,
                <<Filter("coin", <<1>>)>>,
                <<Filter("creator", <<1>>)>>,
                <<Filter("coin", <<1>>), Filter("creator", <<1>>)>>,
                <<Filter("terms", <<coin>>), Filter("creator", <<1>>)>>,
                <<Filter("terms", <<vote>>), Filter("voter", <<1>>)>> }

ASSUME MCSearchesIntended == \A filters \in MCSearches : Intended(filters)
=============================================================================
