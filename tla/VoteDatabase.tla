---------------------------- MODULE VoteDatabase ----------------------------
(***************************************************************************)
(* The vote database of the backend: what CustomEvaluator stores when the  *)
(* chain applies an operation that carries a voting datagram, and the      *)
(* per-coin voting volume that CoinVolumeHistory keeps.                    *)
(*                                                                         *)
(* The chain itself (graphene) is external.  It shows here as the          *)
(* operation history, the operations applied in the block being pushed,    *)
(* the account balances and the head block time, with the meaning the code *)
(* under GrapheneBackend relies on.  State is modelled at the granularity  *)
(* of an applied operation; pending transactions and chain reorganisations *)
(* (which graphene undoes by itself) are left out.                         *)
(***************************************************************************)
EXTENDS Integers, Sequences, FiniteSets, FiniteSetsExt

CONSTANTS
    Accounts,       \* chain accounts
    Publisher,      \* the account named "follow-my-vote"
    NoAccount,      \* GRAPHENE_NULL_ACCOUNT, creator of an anonymous contest
    Coins,          \* assets
    Names,          \* names of write-in contestants
    Ballots,        \* contents of decision datagrams
    Drafts,         \* contents of contest datagrams
    ContestRefs,    \* operation IDs a decision datagram may name as contest
    Blacklist,      \* operation IDs in Config.contestBlacklist
    Holdings,       \* the balances that may exist at start
    Amounts,        \* amounts an account may transfer
    BlockTimes,     \* times a block may carry, in seconds
    MaxOps,         \* bound: operations in a behaviour
    MaxRestarts     \* bound: restarts of the node

BallotType == [keyMatches : BOOLEAN,  \* key and content name the same contest
               opinions : Seq([contestant : Int, opinion : Int]),
               writeIns : Seq(Names)] \* names of the write-in entries

DraftType == [creator : Accounts \cup {NoAccount},
              sigValid : BOOLEAN,     \* signature recovers the memo key
              coin : Coins,
              contestants : Nat,      \* number of contestants
              start : Nat,
              end : Nat]              \* 0 means that the contest never ends

BalanceIds == Accounts \X Coins

ASSUME VoteDatabaseAssumption ==
    /\ Publisher \in Accounts
    /\ NoAccount \notin Accounts
    /\ Ballots \subseteq BallotType
    /\ Drafts \subseteq DraftType
    /\ ContestRefs \subseteq Nat
    /\ \A h \in Holdings : /\ DOMAIN h \subseteq BalanceIds
                           /\ IsFiniteSet(DOMAIN h)
                           /\ \A b \in DOMAIN h : h[b] \in Nat
    /\ Amounts \subseteq Nat \ {0}
    /\ BlockTimes \subseteq Nat \ (0 .. 3599)
    /\ MaxOps \in Nat /\ MaxRestarts \in Nat

VARIABLES
    headTime,   \* chain: time of the head block
    history,    \* chain: operation history, index 1 is operation ID 0
    applied,    \* chain: operations applied so far in the current block
    balances,   \* chain: amount of each balance object that exists
    contests,   \* ContestIndex
    decisions,  \* DecisionIndex
    volume,     \* CoinVolumeHistoryIndex, a function from coin to its object
    restarts    \* number of restarts, bounded by MaxRestarts

chainVars == <<headTime, history, applied, balances>>
vdbVars == <<contests, decisions, volume>>
vars == <<headTime, history, applied, balances,
          contests, decisions, volume, restarts>>

-----------------------------------------------------------------------------
(* Operation identifiers                                                   *)

\* Everything the chain has executed, in order.
Log == history \o applied

\* Mutant: the operation itself is forgotten in the count.
CurrentOpId_offByOne == Len(history) + Len(applied')

\* The ID the operation now being evaluated gets: the chain appends an
\* operation to its applied operations before it runs the evaluator.
CurrentOpId == Len(history) + Len(applied') - 1

\* The log entry of an operation ID.
OpAt(id) == Log[id + 1]

-----------------------------------------------------------------------------
(* Volume accounting                                                       *)

\* The beginning of the hour of a time.
Hour(t) == t - (t % 3600)

NewVolume == [histogram |-> <<>>, hourOfLastUpdate |-> 0, active |-> {}]

\* The stake that a set of balances holds at the moment of the tally.
Stake(voters) == MapThenSumSet(LAMBDA v : balances[v], voters)

Tallied(vol) ==
    IF vol.active = {} THEN vol.histogram
    ELSE LET h == vol.hourOfLastUpdate
             old == IF h \in DOMAIN vol.histogram THEN vol.histogram[h] ELSE 0
         IN  [k \in DOMAIN vol.histogram \cup {h} |->
                 IF k = h THEN old + Stake(vol.active) ELSE vol.histogram[k]]

\* Mutant: volume is measured when the vote is cast.
recordDecision_atVote(vol, voter) ==
    LET h == Hour(headTime)
        old == IF h \in DOMAIN vol.histogram THEN vol.histogram[h] ELSE 0
    IN  [histogram |-> [k \in DOMAIN vol.histogram \cup {h} |->
                           IF k = h THEN old + balances[voter]
                           ELSE vol.histogram[k]],
         hourOfLastUpdate |-> h,
         active |-> {}]

\* CoinVolumeHistory::recordDecision, with the new state of the object.
recordDecision(vol, voter) ==
    IF vol.hourOfLastUpdate = Hour(headTime)
    THEN [vol EXCEPT !.active = @ \cup {voter}]
    ELSE [histogram |-> Tallied(vol),
          hourOfLastUpdate |-> Hour(headTime),
          active |-> {}]

VolumeOf(coin) == IF coin \in DOMAIN volume THEN volume[coin] ELSE NewVolume

-----------------------------------------------------------------------------
(* Datagrams                                                               *)

DecisionOp(payer, contestId, ballot) ==
    [type |-> "decision", payer |-> payer, time |-> headTime,
     contestId |-> contestId, ballot |-> ballot]

ContestOp(payer, draft) ==
    [type |-> "contest", payer |-> payer, time |-> headTime, draft |-> draft]

OtherOp(payer) == [type |-> "other", payer |-> payer, time |-> headTime]

\* Mutant: <= for <.
OpinionValid_lax(o, contest, ballot) ==
    /\ o.contestant \in 0 .. contest.contestants + Len(ballot.writeIns)
    /\ o.opinion = 1

\* Contestant indices are compared as unsigned numbers: a negative one is
\* larger than any size.
OpinionValid(o, contest, ballot) ==
    /\ o.contestant \in 0 .. contest.contestants + Len(ballot.writeIns) - 1
    /\ o.opinion = 1

\* The requirements of do_apply and processDecision on a decision datagram.
Admissible(payer, contest, ballot) ==
    /\ ballot.keyMatches
    /\ Len(ballot.opinions) <= 1
    /\ <<payer, contest.coin>> \in DOMAIN balances
    /\ \A i \in DOMAIN ballot.opinions :
           OpinionValid(ballot.opinions[i], contest, ballot)

\* The Decision object that is stored.
NewDecision(payer, contest, ballot) ==
    [decisionId |-> CurrentOpId,
     voter |-> <<payer, contest.coin>>,
     contestId |-> contest.contestId,
     opinions |-> ballot.opinions,
     writeIns |-> ballot.writeIns]

\* Mutant: a contest has one decision, not one per voter.
processDecision_onePerContest(payer, contest, ballot) ==
    LET d == NewDecision(payer, contest, ballot)
    IN  /\ decisions' = {e \in decisions : e.contestId # d.contestId} \cup {d}
        /\ volume' = [c \in DOMAIN volume \cup {contest.coin} |->
                         IF c = contest.coin
                         THEN recordDecision(VolumeOf(c), d.voter)
                         ELSE volume[c]]
        /\ UNCHANGED contests

processDecision(payer, contest, ballot) ==
    LET d == NewDecision(payer, contest, ballot)
    IN  /\ decisions' = decisions \cup {d}
        /\ volume' = [c \in DOMAIN volume \cup {contest.coin} |->
                         IF c = contest.coin
                         THEN recordDecision(VolumeOf(c), d.voter)
                         ELSE volume[c]]
        /\ UNCHANGED contests

\* The Contest object that is stored.
NewContest(draft) ==
    [contestId |-> CurrentOpId,
     creator |-> draft.creator,
     coin |-> draft.coin,
     contestants |-> draft.contestants,
     startTime |-> Max({draft.start, headTime}),
     endTime |-> draft.end]

\* The requirements on a contest datagram: who pays, the blacklist, and the
\* creator's signature when the contest claims a creator.
Publishable(payer, draft) ==
    /\ payer = Publisher
    /\ CurrentOpId \notin Blacklist
    /\ draft.creator # NoAccount => draft.sigValid

processContest(draft) ==
    /\ contests' = contests \cup {NewContest(draft)}
    /\ UNCHANGED <<decisions, volume>>

-----------------------------------------------------------------------------
(* Actions                                                                 *)

\* The chain pushes the operation, then evaluates it.
Push(op) ==
    /\ Len(history) + Len(applied) < MaxOps
    /\ applied' = Append(applied, op)
    /\ UNCHANGED <<headTime, history, restarts>>

\* An accepted or refused decision.  A failed requirement throws a
\* kj::Exception that do_apply swallows: the operation still succeeds.
ApplyDecision(payer, contestId, ballot) ==
    /\ Push(DecisionOp(payer, contestId, ballot))
    /\ UNCHANGED balances
    /\ \/ \E contest \in contests :
             /\ contest.contestId = contestId
             /\ Admissible(payer, contest, ballot)
             /\ processDecision(payer, contest, ballot)
       \/ /\ ~ \E contest \in contests :
                  /\ contest.contestId = contestId
                  /\ Admissible(payer, contest, ballot)
          /\ UNCHANGED vdbVars

ApplyContest(payer, draft) ==
    /\ Push(ContestOp(payer, draft))
    /\ UNCHANGED balances
    /\ \/ Publishable(payer, draft) /\ processContest(draft)
       \/ ~ Publishable(payer, draft) /\ UNCHANGED vdbVars

\* An operation without the vote magic; a transfer moves stake.
ApplyTransfer(from, to, coin, amount) ==
    LET src == <<from, coin>>
        dst == <<to, coin>>
        held == IF dst \in DOMAIN balances THEN balances[dst] ELSE 0
    IN  /\ from # to
        /\ src \in DOMAIN balances
        /\ balances[src] >= amount
        /\ Push(OtherOp(from))
        /\ balances' = [b \in DOMAIN balances \cup {dst} |->
                           IF b = src THEN balances[src] - amount
                           ELSE IF b = dst THEN held + amount
                           ELSE balances[b]]
        /\ UNCHANGED vdbVars

\* The block is complete: its operations enter the operation history and the
\* next block will be applied at a later head time.
FinishBlock(t) ==
    /\ t > headTime
    /\ headTime' = t
    /\ history' = Log
    /\ applied' = <<>>
    /\ UNCHANGED <<balances, contests, decisions, volume, restarts>>

\* Mutant: the histogram is not persisted either.
Restart_unreflected ==
    /\ restarts < MaxRestarts
    /\ applied = <<>>
    /\ restarts' = restarts + 1
    /\ volume' = [c \in DOMAIN volume |-> NewVolume]
    /\ UNCHANGED <<headTime, history, applied, balances, contests, decisions>>

\* The node closes its database and opens it again.  Only the members listed
\* in FC_REFLECT_DERIVED are written, so the two members that track the
\* current hour come back with their default values.
Restart ==
    /\ restarts < MaxRestarts
    /\ applied = <<>>
    /\ restarts' = restarts + 1
    /\ volume' = [c \in DOMAIN volume |->
                     [NewVolume EXCEPT !.histogram = volume[c].histogram]]
    /\ UNCHANGED <<headTime, history, applied, balances, contests, decisions>>

-----------------------------------------------------------------------------
Init ==
    /\ headTime \in BlockTimes
    /\ history = <<>>
    /\ applied = <<>>
    /\ balances \in Holdings
    /\ contests = {}
    /\ decisions = {}
    /\ volume = <<>>
    /\ restarts = 0

\* An operation of some transaction in the block.
EvaluateOperation ==
    \/ \E payer \in Accounts, id \in ContestRefs, ballot \in Ballots :
           ApplyDecision(payer, id, ballot)
    \/ \E payer \in Accounts, draft \in Drafts : ApplyContest(payer, draft)
    \/ \E from, to \in Accounts, coin \in Coins, amount \in Amounts :
           ApplyTransfer(from, to, coin, amount)

Next ==
    \/ EvaluateOperation
    \/ \E t \in BlockTimes : FinishBlock(t)
    \/ Restart

Spec == Init /\ [][Next]_vars

-----------------------------------------------------------------------------
(* Properties                                                              *)

OpType ==
    [type : {"decision"}, payer : Accounts, time : Nat,
     contestId : Nat, ballot : Ballots]
        \cup [type : {"contest"}, payer : Accounts, time : Nat, draft : Drafts]
        \cup [type : {"other"}, payer : Accounts, time : Nat]

ContestType == [contestId : Nat, creator : Accounts \cup {NoAccount},
                coin : Coins, contestants : Nat,
                startTime : Nat, endTime : Nat]

DecisionType == [decisionId : Nat, voter : BalanceIds, contestId : Nat,
                 opinions : Seq([contestant : Int, opinion : Int]),
                 writeIns : Seq(Names)]

VolumeOK(vol) ==
    /\ vol = [histogram |-> vol.histogram,
              hourOfLastUpdate |-> vol.hourOfLastUpdate,
              active |-> vol.active]
    /\ DOMAIN vol.histogram \subseteq Nat
    /\ vol.hourOfLastUpdate \in Nat
    /\ vol.active \subseteq BalanceIds

\* The state has the shape the object definitions of GrapheneBackend/Objects
\* give it.
TypeOK ==
    /\ headTime \in BlockTimes
    /\ history \in Seq(OpType)
    /\ applied \in Seq(OpType)
    /\ DOMAIN balances \subseteq BalanceIds
    /\ \A b \in DOMAIN balances : balances[b] \in Nat
    /\ contests \subseteq ContestType
    /\ decisions \subseteq DecisionType
    /\ DOMAIN volume \subseteq Coins
    /\ \A c \in DOMAIN volume : VolumeOK(volume[c])
    /\ restarts \in 0 .. MaxRestarts

ContestStored(c) ==
    /\ c.contestId + 1 \in DOMAIN Log
    /\ c.contestId \notin Blacklist
    /\ LET op == OpAt(c.contestId)
       IN  /\ op.type = "contest" /\ op.payer = Publisher
           /\ c.creator = op.draft.creator
           /\ c.coin = op.draft.coin
           /\ c.contestants = op.draft.contestants

DecisionStored(d) ==
    /\ d.decisionId + 1 \in DOMAIN Log
    /\ LET op == OpAt(d.decisionId)
       IN  /\ op.type = "decision" /\ op.payer = d.voter[1]
           /\ op.contestId = d.contestId
           /\ op.ballot.opinions = d.opinions

\* Clients on other nodes look a contest or decision up by the ID stored with
\* it, an operation history ID computed while the operation is still being
\* applied (CustomEvaluator.cpp:73, 109): in every state that ID names the
\* very operation that carried the object.
StoredUnderOwnOperation ==
    /\ \A c \in contests : ContestStored(c)
    /\ \A d \in decisions : DecisionStored(d)

\* d is a decision on contest c that the tally may read without a check.
DecidesOn(d, c) ==
    /\ c.contestId = d.contestId
    /\ c.contestId < d.decisionId
    /\ d.voter[2] = c.coin
    /\ d.voter \in DOMAIN balances
    /\ Len(d.opinions) <= 1
    /\ \A i \in DOMAIN d.opinions :
           /\ d.opinions[i].contestant >= 0
           /\ d.opinions[i].contestant < c.contestants + Len(d.writeIns)
           /\ d.opinions[i].opinion = 1

\* The tally indexes a contest's contestants and a decision's write-ins with
\* the stored opinion and reads the stored balance without a check
\* (Decision.cpp:29, LiveContestResultsServer.cpp:91): every stored decision
\* belongs to a contest published before it, weighs a balance of that
\* contest's coin that still exists, and its opinion is for one of the
\* contestants.
DecisionsWellFounded ==
    \A d \in decisions : \E c \in contests : DecidesOn(d, c)

Supply(coin) ==
    MapThenSumSet(LAMBDA b : balances[b],
                  {b \in DOMAIN balances : b[2] = coin})

\* "Ghost volume cannot be created by voting several times with the same stake
\* in the same hour or voting with the stake, moving it to another account,
\* and voting again" (CoinVolumeHistory.hpp:47): no hour's volume exceeds the
\* coin's supply, however stake moves between votes.
VolumeWithinSupply ==
    \A coin \in DOMAIN volume : \A h \in DOMAIN volume[coin].histogram :
        volume[coin].histogram[h] \in 0 .. Supply(coin)

\* The volume of an hour, once tallied, is final: getCoinDetails reports it as
\* history (BackendServer.cpp:32).
PastHoursFrozen ==
    [][\A coin \in DOMAIN volume : \A h \in DOMAIN volume[coin].histogram :
           /\ coin \in DOMAIN volume'
           /\ h \in DOMAIN volume'[coin].histogram
           /\ volume'[coin].histogram[h] = volume[coin].histogram[h]]_vars
=============================================================================
