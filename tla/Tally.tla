------------------------------- MODULE Tally --------------------------------
(***************************************************************************)
(* The tally of a contest: the walk LiveContestResultsServer makes through *)
(* the decisions-by-contest index of the vote database.                    *)
(***************************************************************************)
EXTENDS VoteDatabase, SequencesExt

CONSTANT
    Rank    \* object ID of each balance, which orders the voters in the index

ASSUME TallyAssumption ==
    /\ Rank \in [BalanceIds -> Nat]
    /\ \A a, b \in BalanceIds : Rank[a] = Rank[b] => a = b

-----------------------------------------------------------------------------
\* The order of the index by (contest, voter, decision), within a contest.
Before(d, e) ==
    \/ Rank[d.voter] < Rank[e.voter]
    \/ d.voter = e.voter /\ d.decisionId < e.decisionId

DecisionsOn(id) == {d \in decisions : d.contestId = id}

\* The decisions on a contest in index order.
ByContest(id) ==
    CHOOSE s \in [1 .. Cardinality(DecisionsOn(id)) -> DecisionsOn(id)] :
        \A i, j \in DOMAIN s : i < j => Before(s[i], s[j])

\* Mutant: the walk keeps the first decision of a voter's block.
Counted_first(s) ==
    {i \in DOMAIN s : IF i = 1 THEN TRUE ELSE s[i - 1].voter # s[i].voter}

\* The positions of the decisions that the walk looks at: it takes the voter
\* of the first decision of a block and steps back from the end of that block.
Counted(s) ==
    {i \in DOMAIN s : IF i = Len(s) THEN TRUE ELSE s[i + 1].voter # s[i].voter}

\* A decision without an opinion, or with an opinion of 0.
IsNull(d) == IF d.opinions = <<>> THEN TRUE ELSE d.opinions[1].opinion = 0

\* The candidate an opinion is for: a contestant by his index, a write-in by
\* his name.
Candidate(d, contest) ==
    LET index == d.opinions[1].contestant
    IN  IF index < contest.contestants
        THEN <<"contestant", index>>
        ELSE <<"writeIn", d.writeIns[index - contest.contestants + 1]>>

\* LiveContestResultsServer::tallyResults
tallyResults(contest) ==
    LET s == ByContest(contest.contestId)
        voting == {i \in Counted(s) : ~ IsNull(s[i])}
        stake == [i \in voting |-> balances[s[i].voter]]
        For(x) == {i \in voting : Candidate(s[i], contest) = x}
    IN  [x \in {Candidate(s[i], contest) : i \in voting} |->
            SumFunctionOnSet(stake, For(x))]

totalVotingStake(contest) == SumFunction(tallyResults(contest))

-----------------------------------------------------------------------------
(* Properties                                                              *)

VotersOn(id) == {d.voter : d \in DecisionsOn(id)}

LastDecision(id, voter) ==
    CHOOSE d \in decisions :
        /\ d.contestId = id /\ d.voter = voter
        /\ \A e \in decisions : e.contestId = id /\ e.voter = voter
                                   => e.decisionId <= d.decisionId

NoChoice == <<"none">>

ChoiceOf(d, contest) == IF IsNull(d) THEN NoChoice ELSE Candidate(d, contest)

ContestOf(id) == CHOOSE c \in contests : c.contestId = id

\* The poll that the decision index represents.
PollBox ==
    [id \in {c.contestId : c \in contests} |->
        [v \in VotersOn(id) |-> ChoiceOf(LastDecision(id, v), ContestOf(id))]]

PollVotes ==
    {NoChoice}
        \cup {<<"contestant", i>> :
                  i \in UNION {0 .. d.contestants - 1 : d \in Drafts}}
        \cup {<<"writeIn", n>> : n \in Names}

ThePoll == INSTANCE Poll WITH box <- PollBox,
                              ContestIds <- 0 .. MaxOps,
                              Voters <- BalanceIds,
                              Votes <- PollVotes

\* The decision index implements the poll: whatever operations the chain
\* applies, a step opens one contest or changes the choice of the one voter
\* who paid for the decision, in one contest (CustomEvaluator.cpp:71-80).
ImplementsPoll == ThePoll!Spec

\* The index walk arrives at the poll's result: every candidate gets the stake
\* that the voters whose last choice he is hold now, and nobody else is listed
\* ("Let D = last decision V cast on C. Add D to tally",
\* LiveContestResultsServer.cpp:99-102).  The total is what those voters hold.
TallyMatchesPoll ==
    \A contest \in contests :
        LET results == tallyResults(contest)
            cast == PollBox[contest.contestId]
            chosen == {cast[v] : v \in DOMAIN cast} \ {NoChoice}
        IN  /\ DOMAIN results = chosen
            /\ \A x \in chosen :
                   results[x] = Stake({v \in DOMAIN cast : cast[v] = x})
            /\ totalVotingStake(contest) =
                   Stake({v \in DOMAIN cast : cast[v] # NoChoice})
=============================================================================
