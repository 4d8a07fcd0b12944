--------------------------- MODULE DecisionLookup ---------------------------
(***************************************************************************)
(* How the app reads decisions from the chain and writes them to it:       *)
(* BlockchainWalletApi::_getDecision, VotingSystem::castPendingDecision    *)
(* and BlockchainWallet's getDecisionRecordById, through the calls of      *)
(* blockchainwallet.capnp as BitsharesWalletBridge answers them.           *)
(*                                                                         *)
(* A decision is a datagram on each balance of the voter in the contest's  *)
(* coin.  The interface lets an account have several balances in a coin,   *)
(* each with its place in the order they were created; balances are named  *)
(* here by that place.  With the Bitshares wallet an account has at most   *)
(* one in a coin.                                                          *)
(*                                                                         *)
(* Each operation is a row of calls, and casts of this app, of another     *)
(* device of the user and transfers may come between any two of them.      *)
(***************************************************************************)
EXTENDS Integers, Sequences, FiniteSets, FiniteSetsExt, SequencesExt

CONSTANTS
    Contests,       \* contest IDs: operations on the chain
    Operation,      \* the operation a contest ID names, and its coin
    Publisher,      \* the contest publishing account
    Ballots,        \* contents of decisions
    NoBallot,       \* no decision
    Stakes,         \* what a balance can be: a coin and an amount
    Holdings,       \* the balances the account may start with, oldest first
    TooLarge,       \* 2^31: from here QJsonValue::toInt gives 0
    MaxBalances,    \* bound: balances the account ever has
    MaxBegun,       \* bound: operations of the app
    MaxMoves,       \* bound: what others and other devices do
    MaxFailures     \* bound: calls that fail

ASSUME LookupAssumption ==
    /\ NoBallot \notin Ballots
    /\ (\A s \in Stakes : s.amount \in Nat) /\ Holdings \subseteq Seq(Stakes)
    /\ TooLarge \in Nat
    /\ {MaxBalances, MaxBegun, MaxMoves, MaxFailures} \subseteq Nat

VARIABLES
    held,       \* chain: coin and amount of each balance the account has
    created,    \* chain: number of balances created so far
    published,  \* chain: decision datagrams of the account, oldest first
    publisher,  \* contestPublisherIdPromise: "asked", "known" or "failed"
    look,       \* the look-up of an official decision: one of each operation
    cast,       \* the cast of a pending decision
    record,     \* the look-up of a decision record
    begun, moves, failures  \* counted for the bounds and for Moment

vars == <<held, created, published, publisher, look, cast, record,
          begun, moves, failures>>

(* Two equal moments: the chain has not changed and no call has failed.    *)
Moment == <<Len(published), moves, failures>>

(* A call succeeds or, up to the bound, fails.                             *)
Answered(ok) ==
    /\ ok \/ failures < MaxFailures
    /\ failures' = IF ok THEN failures ELSE failures + 1

Begin == begun < MaxBegun /\ begun' = begun + 1

(* The balances in a contest's coin: the only ones that can have valid     *)
(* decisions on it.                                                        *)
BalancesFor(contest) == {b \in DOMAIN held : held[b].coin = Operation[contest].coin}

-----------------------------------------------------------------------------
(* The wallet's answers                                                    *)

(* getContestById: a custom operation that the publishing account paid for *)
(* and that carries a contest after the magic.                             *)
Authentic(contest) ==
    LET op == Operation[contest]
    IN  /\ op.opcode = 35
        /\ op.payer = Publisher
        /\ op.magic
        /\ op.key = "contest"

(* getDatagramByBalance: the most recent datagram with this key.  An       *)
(* operation of the history that cannot be fetched is passed over.         *)
Datagram(b, contest, missed) ==
    LET found == {i \in DOMAIN published \ missed :
                     published[i].balance = b /\ published[i].contest = contest}
    IN  IF found = {} THEN NoBallot ELSE published[Max(found)].ballot

(* The weight in a decision record: the amount comes as a number or as a   *)
(* string, and a number is read with toInt.                                *)
Weights(b, coin) ==
    IF b \in DOMAIN held /\ held[b].coin = coin
    THEN {held[b].amount, IF held[b].amount < TooLarge THEN held[b].amount ELSE 0}
    ELSE {0}

-----------------------------------------------------------------------------
(* Looking the official decision up                                        *)

Idle == [phase |-> "idle", todo |-> {}, order |-> <<>>]

getDecision(contest) ==
    /\ look.phase = "idle"
    /\ Begin
    /\ look' = [phase |-> "contest", contest |-> contest, order |-> <<>>,
                answers |-> <<>>, found |-> NoBallot, alarm |-> FALSE,
                from |-> Moment, to |-> Moment]
    /\ UNCHANGED <<held, created, published, publisher, cast, record, moves, failures>>

(* The bridge asks for the publishing account when it is made.  Its answer *)
(* is kept: every getContestById of this connection waits for it.          *)
PublisherArrives ==
    /\ publisher = "asked"
    /\ \E ok \in BOOLEAN : Answered(ok) /\ publisher' = IF ok THEN "known" ELSE "failed"
    /\ UNCHANGED <<held, created, published, look, cast, record, begun, moves>>

NotFound == look' = [look EXCEPT !.phase = "done", !.to = Moment']

ContestArrives ==
    /\ look.phase = "contest"
    /\ publisher # "asked"
    /\ UNCHANGED <<held, created, published, publisher, cast, record, begun, moves>>
    /\ \E ok \in BOOLEAN :
           /\ Answered(ok)
           /\ IF ok /\ publisher = "known" /\ Authentic(look.contest)
              THEN look' = [look EXCEPT !.phase = "balances"]
              ELSE NotFound

\* Mutant: the newest balance is not remembered.
AddPromise_forgetful(acc, b) ==
    LET all == Append(acc.promises, b)
        n == Len(all)
    IN  IF n = 1 THEN [promises |-> all, newest |-> b]
        ELSE IF b > acc.newest
        THEN [acc EXCEPT !.promises = [all EXCEPT ![1] = all[n], ![n] = all[1]]]
        ELSE [acc EXCEPT !.promises = all]

(* The accumulator: the promise of the newest balance is swapped to the    *)
(* front.                                                                  *)
AddPromise(acc, b) ==
    LET all == Append(acc.promises, b)
        n == Len(all)
    IN  IF n = 1 THEN [promises |-> all, newest |-> b]
        ELSE IF b > acc.newest
        THEN [promises |-> [all EXCEPT ![1] = all[n], ![n] = all[1]], newest |-> b]
        ELSE [acc EXCEPT !.promises = all]

PromiseOrder(listing) ==
    FoldLeft(AddPromise, [promises |-> <<>>, newest |-> 0], listing).promises

(* The balances come in any order; a look-up starts on each in the coin.   *)
BalancesArrive ==
    /\ look.phase = "balances"
    /\ UNCHANGED <<held, created, published, publisher, cast, record, begun, moves>>
    /\ \E ok \in BOOLEAN, listing \in SetToSeqs(BalancesFor(look.contest)) :
           /\ Answered(ok)
           /\ IF ok /\ listing # <<>>
              THEN look' = [look EXCEPT !.phase = "datagrams",
                                        !.order = PromiseOrder(listing)]
              ELSE NotFound

DatagramArrives(b) ==
    /\ look.phase = "datagrams"
    /\ b \in ToSet(look.order) \ DOMAIN look.answers
    /\ \E missed \in SUBSET {i \in DOMAIN published : published[i].balance = b} :
           /\ Answered(missed = {})
           /\ look' = [look EXCEPT !.answers =
                          [a \in DOMAIN @ \cup {b} |->
                              IF a = b THEN Datagram(b, look.contest, missed) ELSE @[a]]]
    /\ UNCHANGED <<held, created, published, publisher, cast, record, begun, moves>>

\* Mutant: a balance without a decision is no reason to act.
Stale_missingIsFine(answers, found) ==
    \E b \in DOMAIN answers : answers[b] \notin {found, NoBallot}

(* Non-matching or missing decisions mean that the decision is stale.      *)
Stale(answers, found) == \E b \in DOMAIN answers : answers[b] # found

(* All look-ups are back: the first that found something is official.      *)
Decide ==
    LET valid == {i \in DOMAIN look.order : look.answers[look.order[i]] # NoBallot}
        found == look.answers[look.order[Min(valid)]]
    IN  /\ look.phase = "datagrams"
        /\ DOMAIN look.answers = ToSet(look.order)
        /\ look' = IF valid = {} THEN [look EXCEPT !.phase = "done", !.to = Moment]
                   ELSE [look EXCEPT !.phase = "done", !.to = Moment, !.found = found,
                                     !.alarm = Stale(look.answers, found)]
        /\ UNCHANGED <<held, created, published, publisher, cast, record,
                       begun, moves, failures>>

-----------------------------------------------------------------------------
(* Casting a decision                                                      *)

castPendingDecision(contest, ballot) ==
    /\ cast.phase = "idle"
    /\ Begin
    /\ cast' = [phase |-> "balances", contest |-> contest, ballot |-> ballot,
                balances |-> {}, todo |-> {}, lost |-> FALSE,
                from |-> Moment, to |-> Moment]
    /\ UNCHANGED <<held, created, published, publisher, look, record, moves, failures>>

\* Mutant: one balance is enough.
CastOn_one(contest) ==
    IF BalancesFor(contest) = {} THEN {} ELSE {Max(BalancesFor(contest))}

(* The balances a cast publishes on: all in the contest's coin.            *)
CastOn(contest) == BalancesFor(contest)

(* Without a balance in the coin there is nothing to cast with.            *)
CastBalancesArrive ==
    /\ cast.phase = "balances"
    /\ \E ok \in BOOLEAN :
           /\ Answered(ok)
           /\ cast' = IF ok /\ CastOn(cast.contest) # {}
                      THEN [cast EXCEPT !.phase = "publishing",
                                        !.balances = CastOn(cast.contest),
                                        !.todo = CastOn(cast.contest)]
                      ELSE [cast EXCEPT !.phase = "failed"]
    /\ UNCHANGED <<held, created, published, publisher, look, record, begun, moves>>

Publish(b, contest, ballot) ==
    published' = Append(published, [balance |-> b, contest |-> contest, ballot |-> ballot])

(* publishDatagram on one balance: fees, then the broadcast.  A failed call*)
(* may have broadcast.  The cast waits for all, and fails if one did.      *)
DatagramPublished(b) ==
    /\ cast.phase = "publishing"
    /\ b \in cast.todo
    /\ UNCHANGED <<held, created, publisher, look, record, begun, moves>>
    /\ \E ok, broadcast \in BOOLEAN :
           /\ ok => broadcast
           /\ Answered(ok)
           /\ IF broadcast THEN Publish(b, cast.contest, cast.ballot)
              ELSE UNCHANGED published
           /\ cast' = [cast EXCEPT !.todo = @ \ {b}, !.lost = @ \/ ~ok,
                                   !.to = Moment',
                                   !.phase = IF cast.todo # {b} THEN @
                                             ELSE IF cast.lost \/ ~ok THEN "failed"
                                             ELSE "done"]

-----------------------------------------------------------------------------
(* Looking a decision record up                                            *)

getDecisionRecordById(i) ==
    /\ record.phase = "idle"
    /\ i \in DOMAIN published
    /\ Begin
    /\ record' = [phase |-> "operation", id |-> i, todo |-> {}, lost |-> FALSE,
                  weight |-> -1]
    /\ UNCHANGED <<held, created, published, publisher, look, cast, moves, failures>>

(* With the decision's operation at hand three look-ups start.             *)
OperationArrives ==
    /\ record.phase = "operation"
    /\ \E ok \in BOOLEAN :
           /\ Answered(ok)
           /\ record' = IF ok THEN [record EXCEPT !.phase = "details",
                                                  !.todo = {"block", "voter", "contest"}]
                        ELSE [record EXCEPT !.phase = "failed"]
    /\ UNCHANGED <<held, created, published, publisher, look, cast, begun, moves>>

\* Mutant: the record is ready when the contest is there.
Left_noStake(part) == record.todo \ {part}

(* What is left once a part has come: the stake is asked for when the      *)
(* contest has told its coin.                                              *)
Left(part) == (record.todo \ {part}) \cup (IF part = "contest" THEN {"stake"} ELSE {})

DetailArrives(part) ==
    /\ record.phase = "details"
    /\ part \in record.todo
    /\ \E ok \in BOOLEAN :
           LET d == published[record.id]
               left == IF ok THEN Left(part) ELSE record.todo \ {part}
           IN  /\ Answered(ok)
               /\ \E w \in Weights(d.balance, Operation[d.contest].coin) :
                      record' = [record EXCEPT
                          !.todo = left,
                          !.lost = @ \/ ~ok,
                          !.weight = IF ok /\ part = "stake" THEN w ELSE @,
                          !.phase = IF left # {} THEN @
                                    ELSE IF record.lost \/ ~ok THEN "failed" ELSE "done"]
    /\ UNCHANGED <<held, created, published, publisher, look, cast, begun, moves>>

-----------------------------------------------------------------------------
(* The chain                                                               *)

(* Another device of the user publishes a decision.                        *)
PublishedElsewhere(b, contest, ballot) ==
    /\ b \in BalancesFor(contest)
    /\ moves < MaxMoves
    /\ moves' = moves + 1
    /\ Publish(b, contest, ballot)
    /\ UNCHANGED <<held, created, publisher, look, cast, record, begun, failures>>

Receive(stake) ==
    /\ created < MaxBalances
    /\ moves < MaxMoves
    /\ moves' = moves + 1
    /\ created' = created + 1
    /\ held' = [b \in DOMAIN held \cup {created + 1} |->
                   IF b = created + 1 THEN stake ELSE held[b]]
    /\ UNCHANGED <<published, publisher, look, cast, record, begun, failures>>

Spend(b) ==
    /\ b \in DOMAIN held
    /\ moves < MaxMoves
    /\ moves' = moves + 1
    /\ held' = [a \in DOMAIN held \ {b} |-> held[a]]
    /\ UNCHANGED <<created, published, publisher, look, cast, record, begun, failures>>

-----------------------------------------------------------------------------
Init ==
    /\ held \in Holdings
    /\ created = Len(held)
    /\ published = <<>>
    /\ publisher = "asked"
    /\ look = Idle /\ cast = Idle /\ record = Idle
    /\ begun = 0 /\ moves = 0 /\ failures = 0

(* The app casts on contests it has fetched, so on authentic ones.         *)
Genuine == {contest \in Contests : Authentic(contest)}

AppBegins ==
    \/ \E contest \in Contests : getDecision(contest)
    \/ \E contest \in Genuine, ballot \in Ballots : castPendingDecision(contest, ballot)
    \/ \E i \in DOMAIN published : getDecisionRecordById(i)

WalletAnswers ==
    \/ PublisherArrives
    \/ ContestArrives
    \/ BalancesArrive
    \/ \E b \in DOMAIN held \cup ToSet(look.order) : DatagramArrives(b)
    \/ CastBalancesArrive
    \/ \E b \in cast.todo : DatagramPublished(b)
    \/ OperationArrives
    \/ \E part \in record.todo : DetailArrives(part)

ChainMoves ==
    \/ \E b \in DOMAIN held, contest \in Genuine, ballot \in Ballots :
           PublishedElsewhere(b, contest, ballot)
    \/ \E stake \in Stakes : Receive(stake)
    \/ \E b \in DOMAIN held : Spend(b)

Next == AppBegins \/ WalletAnswers \/ Decide \/ ChainMoves

Spec == Init /\ [][Next]_vars

-----------------------------------------------------------------------------
(* Properties                                                              *)

(* The ballot a balance carried when n datagrams had been published.       *)
OnRecord(b, contest, n) ==
    LET of == {i \in 1 .. n : /\ published[i].balance = b
                              /\ published[i].contest = contest}
    IN  IF of = {} THEN NoBallot ELSE published[Max(of)].ballot

Found == look.phase = "done" /\ look.found # NoBallot

(* "The Official Decision should contain the decision currently on record  *)
(* (i.e. the newest one on the blockchain)" (Contest.hpp:44): what a       *)
(* look-up finds is what the newest of the balances carried for the contest*)
(* at some moment while the look-up ran, when that balance carried one as  *)
(* it began and no call failed, in whatever order the wallet lists the     *)
(* balances, the answers come and casts are published meanwhile.           *)
FoundWasOnRecord ==
    LET newest == Max(ToSet(look.order))
    IN  Found /\ look.from[3] = look.to[3]
              /\ OnRecord(newest, look.contest, look.from[1]) # NoBallot
        => \E n \in look.from[1] .. look.to[1] :
               look.found = OnRecord(newest, look.contest, n)

(* contestActionRequired is emitted "when it is discovered that a contest  *)
(* requires action": when nothing has changed and nothing failed, it tells *)
(* exactly that the balances do not all carry the same decision, as after  *)
(* a cast that failed on some of them or when stake has come in.           *)
AlarmMeansDisagreement ==
    Found /\ look.from = Moment =>
        (look.alarm <=>
            \E a, b \in BalancesFor(look.contest) :
                OnRecord(a, look.contest, Len(published))
                    # OnRecord(b, look.contest, Len(published)))

(* Nothing else was published, received, spent or lost during the cast.    *)
CastAlone ==
    /\ cast.phase = "done"
    /\ cast.to = <<cast.from[1] + Cardinality(cast.balances), cast.from[2], cast.from[3]>>

(* A cast that the app takes for done, by which it sets the official       *)
(* decision (VotingSystem.cpp:430), is what the next look-up finds, and it *)
(* needs no action.                                                        *)
CastIsFound ==
    /\ CastAlone
    /\ look.phase = "done" /\ look.contest = cast.contest
    /\ publisher = "known"
    /\ cast.to = look.from /\ look.from = look.to
    => look.found = cast.ballot /\ ~look.alarm

(* A decision record is not answered before the stake is known ("when      *)
(* they're done, the result will be ready to return",                      *)
(* BitsharesWalletBridge.cpp:384), and a weight of 0 means that the balance*)
(* is gone, or that its amount does not fit an int.                        *)
RecordIsComplete ==
    LET b == published[record.id].balance
    IN  record.phase = "done" =>
            /\ record.weight \in {stake.amount : stake \in Stakes} \cup {0}
            /\ b \in DOMAIN held /\ held[b].amount < TooLarge
                   => record.weight = held[b].amount
=============================================================================
