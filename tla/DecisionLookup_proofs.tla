----------------------- MODULE DecisionLookup_proofs -----------------------
(* Proofs about DecisionLookup: a record waits for its stake; what is found *)
(* was on record; the alarm tells that the balances disagree; and a cast is *)
(* found again.  What all rest on is that the chain only grows, so that a   *)
(* moment that comes again is one at which nothing has happened.  ChainInv  *)
(* and LookInv type the state; each theorem has an invariant of its own.    *)
EXTENDS DecisionLookup, SequenceTheorems, FiniteSetTheorems, SumLemmas

(* What the account has.                                                   *)
Answers == Ballots \cup {NoBallot}

Datagrams == [balance : Nat, contest : Contests, ballot : Ballots]

Moments == Nat \X Nat \X Nat

Bounded(m) == m[1] <= Len(published) /\ m[2] <= moves /\ m[3] <= failures

(* Balances are numbered as they are created; a number never comes back,   *)
(* so the balance of a decision is in its contest's coin or is gone.       *)
InCoin(b, contest) ==
    /\ b \in 1 .. created
    /\ b \in DOMAIN held => held[b].coin = Operation[contest].coin

ChainOK ==
    /\ created \in Nat /\ moves \in Nat /\ failures \in Nat
    /\ DOMAIN held \subseteq 1 .. created
    /\ held \in [DOMAIN held -> Stakes]
    /\ published \in Seq(Datagrams)
    /\ \A i \in DOMAIN published : InCoin(published[i].balance, published[i].contest)

(* The cast is under way on balances in the coin of its contest.           *)
CastOK ==
    \/ cast = Idle
    \/ /\ cast \in [phase : {"balances", "publishing", "done", "failed"},
                    contest : Genuine, ballot : Ballots, balances : SUBSET (1 .. created),
                    todo : SUBSET (1 .. created), lost : BOOLEAN,
                    from : Moments, to : Moments]
       /\ cast.todo \subseteq cast.balances
       /\ \A b \in cast.balances : InCoin(b, cast.contest)
       /\ IsFiniteSet(cast.balances)
       /\ Bounded(cast.from) /\ Bounded(cast.to)

(* The order of the look-ups puts the newest balance first.                *)
NewestFirst(order) ==
    /\ order # <<>>
    /\ \A b \in ToSet(order) : b <= order[1]

LookOK ==
    \/ look = Idle
    \/ /\ look \in [phase : {"contest", "balances", "datagrams", "done"},
                    contest : Contests, order : Seq(Nat),
                    answers : UNION {[S -> Answers] : S \in SUBSET Nat},
                    found : Answers, alarm : BOOLEAN, from : Moments, to : Moments]
       /\ Bounded(look.from) /\ Bounded(look.to)
       /\ look.phase = "datagrams" =>
              NewestFirst(look.order) /\ DOMAIN look.answers \subseteq ToSet(look.order)
       /\ look.phase \in {"contest", "balances"} => look.answers = <<>>
       /\ look.phase # "done" => look.found = NoBallot
       /\ look.phase = "done" /\ look.found # NoBallot => NewestFirst(look.order)
       /\ look.phase \in {"balances", "datagrams", "done"} => publisher # "asked"

(* The record's weight is that of its balance, unless it is yet to come.   *)
WeightRight ==
    LET b == published[record.id].balance
    IN  /\ record.weight \in {stake.amount : stake \in Stakes} \cup {0}
        /\ b \in DOMAIN held /\ held[b].amount < TooLarge
               => record.weight = held[b].amount

RecordOK ==
    \/ record = Idle
    \/ /\ record \in [phase : {"operation", "details", "done", "failed"}, id : Nat,
                      todo : SUBSET {"block", "voter", "contest", "stake"},
                      lost : BOOLEAN, weight : Int]
       /\ record.id \in DOMAIN published
       /\ record.phase = "details" =>
              record.todo \cap {"contest", "stake"} # {} \/ record.lost \/ WeightRight
       /\ record.phase = "done" => WeightRight

Base == ChainOK /\ CastOK /\ LookOK

-----------------------------------------------------------------------------
(* The chain only grows.                                                   *)

(* A step leaves what the account had or spends it, and adds to the log.   *)
Grown ==
    /\ published' \in Seq(Datagrams) /\ Len(published) <= Len(published')
    /\ \A i \in DOMAIN published : i \in DOMAIN published' /\ published'[i] = published[i]
    /\ moves <= moves' /\ failures <= failures'
    /\ created <= created'
    /\ \A b \in DOMAIN held' : b \in 1 .. created =>
           b \in DOMAIN held /\ held'[b] = held[b]
    /\ Moment' = Moment => UNCHANGED <<held, published, moves, failures>>

\* A datagram on a balance in its contest's coin.
LEMMA PublishGrows ==
    ASSUME ChainOK, NEW b, NEW contest \in Contests, NEW ballot \in Ballots,
           InCoin(b, contest), Publish(b, contest, ballot),
           UNCHANGED <<held, created>>,
           moves' \in Nat, failures' \in Nat, moves <= moves', failures <= failures'
    PROVE  ChainOK' /\ Grown
<1> DEFINE d == [balance |-> b, contest |-> contest, ballot |-> ballot]
<1>1. d \in Datagrams /\ d.balance = b /\ d.contest = contest
  BY DEF Datagrams, InCoin, ChainOK
<1>2. published' = Append(published, d)
  BY DEF Publish
<1> HIDE DEF d
<1>3. /\ published' \in Seq(Datagrams) /\ Len(published') = Len(published) + 1
      /\ \A i \in DOMAIN published : i \in DOMAIN published' /\ published'[i] = published[i]
      /\ published'[Len(published) + 1] = d
  BY <1>1, <1>2 DEF ChainOK
<1>4. \A i \in DOMAIN published' : i \in DOMAIN published \/ i = Len(published) + 1
  BY <1>3 DEF ChainOK
<1>5. \A i \in DOMAIN published' : InCoin(published'[i].balance, published'[i].contest)
  BY <1>1, <1>3, <1>4 DEF ChainOK
<1>6. Len(published) \in Nat /\ Moment' # Moment
  BY <1>3 DEF Moment, ChainOK
<1> QED
  BY <1>3, <1>5, <1>6 DEF ChainOK, Grown, InCoin

\* The steps that leave the chain alone.
LEMMA QuietGrows ==
    ASSUME ChainOK, UNCHANGED <<held, created, published, moves>>,
           failures' \in Nat, failures <= failures'
    PROVE  ChainOK' /\ Grown
BY DEF ChainOK, Grown, InCoin, Moment

\* A call that fails is counted.
LEMMA AnsweredCounts ==
    ASSUME ChainOK, NEW ok \in BOOLEAN, Answered(ok)
    PROVE  failures' \in Nat /\ failures <= failures' /\ (~ok => failures' = failures + 1)
           /\ (ok => failures' = failures)
BY DEF Answered, ChainOK

\* So does every step of the whole.
LEMMA StepGrows ==
    ASSUME ChainOK, CastOK, Next
    PROVE  ChainOK' /\ Grown
<1> USE AnsweredCounts
<1> USE DEF ChainOK
<1>1. ASSUME NEW contest, getDecision(contest) PROVE ChainOK' /\ Grown
  BY <1>1, QuietGrows DEF getDecision
<1>2. ASSUME NEW contest, NEW ballot, castPendingDecision(contest, ballot) PROVE ChainOK' /\ Grown
  BY <1>2, QuietGrows DEF castPendingDecision
<1>3. ASSUME NEW i, getDecisionRecordById(i) PROVE ChainOK' /\ Grown
  BY <1>3, QuietGrows DEF getDecisionRecordById
<1>4. CASE PublisherArrives
  BY <1>4, QuietGrows DEF PublisherArrives
<1>5. CASE ContestArrives
  BY <1>5, QuietGrows DEF ContestArrives
<1>6. CASE BalancesArrive
  BY <1>6, QuietGrows DEF BalancesArrive
<1>7. ASSUME NEW b, DatagramArrives(b) PROVE ChainOK' /\ Grown
  <2>1. \E ok \in BOOLEAN : Answered(ok)
    BY <1>7 DEF DatagramArrives
  <2> QED
    BY <1>7, <2>1, QuietGrows DEF DatagramArrives
<1>8. CASE CastBalancesArrive
  BY <1>8, QuietGrows DEF CastBalancesArrive
<1>9. ASSUME NEW b, DatagramPublished(b) PROVE ChainOK' /\ Grown
  <2>1. PICK ok \in BOOLEAN, broadcast \in BOOLEAN :
            /\ Answered(ok)
            /\ IF broadcast THEN Publish(b, cast.contest, cast.ballot)
               ELSE UNCHANGED published
    BY <1>9 DEF DatagramPublished
  <2>2. UNCHANGED <<held, created, moves>> /\ b \in cast.todo /\ cast.phase = "publishing"
    BY <1>9 DEF DatagramPublished
  <2>3. cast.contest \in Contests /\ cast.ballot \in Ballots /\ InCoin(b, cast.contest)
    BY <2>2 DEF CastOK, Idle, Genuine
  <2>4. CASE broadcast
    <3>1. Publish(b, cast.contest, cast.ballot)
      BY <2>1, <2>4
    <3>2. moves' \in Nat /\ moves <= moves'
      BY <2>2
    <3> QED
      BY <2>1, <2>2, <2>3, <3>1, <3>2, PublishGrows
  <2> QED
    BY <2>1, <2>2, <2>4, QuietGrows
<1>10. CASE OperationArrives
  BY <1>10, QuietGrows DEF OperationArrives
<1>11. ASSUME NEW part, DetailArrives(part) PROVE ChainOK' /\ Grown
  <2>1. \E ok \in BOOLEAN : Answered(ok)
    BY <1>11 DEF DetailArrives
  <2> QED
    BY <1>11, <2>1, QuietGrows DEF DetailArrives
<1>12. CASE Decide
  BY <1>12, QuietGrows DEF Decide
<1>13. ASSUME NEW b \in DOMAIN held, NEW contest \in Genuine, NEW ballot \in Ballots,
              PublishedElsewhere(b, contest, ballot)
       PROVE  ChainOK' /\ Grown
  <2>1. contest \in Contests /\ InCoin(b, contest)
    BY <1>13 DEF PublishedElsewhere, BalancesFor, InCoin, Genuine
  <2> QED
    BY <1>13, <2>1, PublishGrows DEF PublishedElsewhere
<1>14. ASSUME NEW stake \in Stakes, Receive(stake) PROVE ChainOK' /\ Grown
  <2>1. /\ UNCHANGED <<published, failures>> /\ created' = created + 1 /\ moves' = moves + 1
        /\ held' = [b \in DOMAIN held \cup {created + 1} |->
                       IF b = created + 1 THEN stake ELSE held[b]]
    BY <1>14 DEF Receive
  <2>2. DOMAIN held' = DOMAIN held \cup {created + 1}
    BY <2>1
  <2>3. DOMAIN held' \subseteq 1 .. created'
    BY <2>1, <2>2
  <2>4. \A b \in DOMAIN held : held'[b] = held[b]
    BY <2>1
  <2>5. held' \in [DOMAIN held' -> Stakes]
    BY <2>1
  <2>6. \A b \in DOMAIN held' : b \in 1 .. created => b \in DOMAIN held /\ held'[b] = held[b]
    BY <2>2, <2>4
  <2>7. ASSUME NEW i \in DOMAIN published
        PROVE  InCoin(published[i].balance, published[i].contest)'
    <3>1. InCoin(published[i].balance, published[i].contest)
      OBVIOUS
    <3> QED
      BY <2>1, <2>2, <2>4, <3>1 DEF InCoin
  <2>8. Moment' # Moment
    BY <2>1 DEF Moment
  <2> QED
    BY <2>1, <2>3, <2>5, <2>6, <2>7, <2>8 DEF Grown
<1>15. ASSUME NEW b \in DOMAIN held, Spend(b) PROVE ChainOK' /\ Grown
  <2>1. /\ UNCHANGED <<published, failures, created>> /\ moves' = moves + 1
        /\ held' = [a \in DOMAIN held \ {b} |-> held[a]]
    BY <1>15 DEF Spend
  <2>2. held' \in [DOMAIN held' -> Stakes] /\ DOMAIN held' = DOMAIN held \ {b}
        /\ \A a \in DOMAIN held' : held'[a] = held[a]
    BY <2>1
  <2>3. Moment' # Moment
    BY <2>1 DEF Moment
  <2> QED
    BY <2>1, <2>2, <2>3 DEF Grown, InCoin
<1> QED
  BY <1>1, <1>2, <1>3, <1>4, <1>5, <1>6, <1>7, <1>8, <1>9, <1>10, <1>11, <1>12, <1>13,
     <1>14, <1>15, Zenon DEF Next, AppBegins, WalletAnswers, ChainMoves

(* A balance in a coin stays in it until it is gone.                       *)
LEMMA CoinsStay ==
    ASSUME ChainOK, ChainOK', Grown, NEW b, NEW contest, InCoin(b, contest)
    PROVE  InCoin(b, contest)'
BY DEF InCoin, Grown, ChainOK

\* What has happened stays so.
LEMMA MomentsStay ==
    ASSUME ChainOK, ChainOK', Grown, NEW m \in Moments, Bounded(m)
    PROVE  Bounded(m)'
BY DEF Bounded, Grown, ChainOK, Moments

\* The present moment.
LEMMA MomentIsMoment ==
    ASSUME ChainOK
    PROVE  Moment \in Moments /\ Bounded(Moment)
BY DEF Moment, Moments, Bounded, ChainOK

(* The balances of a contest.                                              *)
LEMMA BalancesInCoin ==
    ASSUME ChainOK, NEW contest
    PROVE  /\ BalancesFor(contest) \in SUBSET (1 .. created)
           /\ \A b \in BalancesFor(contest) : InCoin(b, contest)
           /\ IsFiniteSet(BalancesFor(contest))
<1>1. IsFiniteSet(1 .. created)
  <2>1. created \in Int /\ 1 \in Int
    BY DEF ChainOK
  <2> QED
    BY <2>1, FS_Interval
<1>2. BalancesFor(contest) \in SUBSET (1 .. created)
  BY DEF BalancesFor, ChainOK
<1> QED
  BY <1>1, <1>2, FS_Subset DEF BalancesFor, InCoin

(* The cast, when only the chain moves.                                    *)
LEMMA CastStays ==
    ASSUME ChainOK, ChainOK', Grown, CastOK, UNCHANGED cast
    PROVE  CastOK'
<1>1. CASE cast = Idle
  BY <1>1 DEF CastOK
<1>2. CASE cast # Idle
  <2>1. created \in Nat /\ created' \in Nat /\ created <= created'
    BY DEF Grown, ChainOK
  <2>2. SUBSET (1 .. created) \subseteq SUBSET (1 .. created')
    BY <2>1
  <2>3. \A b \in cast.balances : InCoin(b, cast.contest)'
    BY <1>2, CoinsStay DEF CastOK
  <2>4. Bounded(cast.from)' /\ Bounded(cast.to)'
    BY <1>2, MomentsStay DEF CastOK
  <2> QED
    BY <1>2, <2>2, <2>3, <2>4 DEF CastOK
<1> QED
  BY <1>1, <1>2

\* The cast, whatever step is taken.
LEMMA StepCasts ==
    ASSUME ChainOK, ChainOK', Grown, CastOK, Next
    PROVE  CastOK'
<1>1. ASSUME NEW contest \in Genuine, NEW ballot \in Ballots, castPendingDecision(contest, ballot)
      PROVE  CastOK'
  <2>0. PICK m : m = Moment
    OBVIOUS
  <2>1. m \in Moments /\ Bounded(m)'
    BY <2>0, MomentIsMoment, MomentsStay
  <2>2. cast' = [phase |-> "balances", contest |-> contest, ballot |-> ballot,
                balances |-> {}, todo |-> {}, lost |-> FALSE,
                from |-> m, to |-> m]
    BY <1>1, <2>0 DEF castPendingDecision
  <2>3. IsFiniteSet({})
    BY FS_EmptySet
  <2> QED
    BY <2>1, <2>2, <2>3 DEF CastOK
<1>2. CASE CastBalancesArrive
  <2>1. cast.phase = "balances" /\ cast # Idle /\ UNCHANGED created
    BY <1>2 DEF CastBalancesArrive, Idle
  <2> DEFINE B == BalancesFor(cast.contest)
  <2>2. B \in SUBSET (1 .. created) /\ (\A b \in B : InCoin(b, cast.contest)) /\ IsFiniteSet(B)
    BY BalancesInCoin
  <2>3. cast' \in {[cast EXCEPT !.phase = "publishing", !.balances = B, !.todo = B],
                   [cast EXCEPT !.phase = "failed"]}
    BY <1>2 DEF CastBalancesArrive, CastOn
  <2> HIDE DEF B
  <2>4. PICK c, f, m, old, new :
            c = cast.contest /\ f = cast.from /\ m = cast.to /\ old = cast.balances /\ new = B
    OBVIOUS
  <2>5. c \in Genuine /\ f \in Moments /\ m \in Moments
        /\ Bounded(f) /\ Bounded(m) /\ \A b \in old : InCoin(b, c)
    BY <2>1, <2>4 DEF CastOK
  <2>6. Bounded(f)' /\ Bounded(m)' /\ (\A b \in old : InCoin(b, c)') /\ (\A b \in new : InCoin(b, c)')
    BY <2>2, <2>4, <2>5, MomentsStay, CoinsStay
  <2>7. cast'.contest = c /\ cast'.from = f /\ cast'.to = m
        /\ (cast'.balances = old \/ cast'.balances = new) /\ cast'.todo \subseteq cast'.balances
    BY <2>1, <2>3, <2>4 DEF CastOK
  <2>8. cast' \in [phase : {"balances", "publishing", "done", "failed"},
                    contest : Genuine, ballot : Ballots, balances : SUBSET (1 .. created),
                    todo : SUBSET (1 .. created), lost : BOOLEAN,
                    from : Moments, to : Moments]
    BY <2>1, <2>2, <2>3 DEF CastOK
  <2>9. IsFiniteSet(cast'.balances)
    BY <2>1, <2>2, <2>4, <2>7 DEF CastOK
  <2> QED
    BY <2>1, <2>6, <2>7, <2>8, <2>9 DEF CastOK, Bounded, InCoin
<1>3. ASSUME NEW b, DatagramPublished(b) PROVE CastOK'
  <2>1. cast.phase = "publishing" /\ cast # Idle /\ UNCHANGED created
    BY <1>3 DEF DatagramPublished, Idle
  <2>2. PICK ok \in BOOLEAN :
           cast' = [cast EXCEPT !.todo = @ \ {b}, !.lost = @ \/ ~ok,
                                   !.to = Moment',
                                   !.phase = IF cast.todo # {b} THEN @
                                             ELSE IF cast.lost \/ ~ok THEN "failed"
                                             ELSE "done"]
    BY <1>3 DEF DatagramPublished
  <2>3. PICK c, f, m, old :
            c = cast.contest /\ f = cast.from /\ m = Moment' /\ old = cast.balances
    OBVIOUS
  <2>4. m \in Moments /\ m[1] <= Len(published') /\ m[2] <= moves' /\ m[3] <= failures'
    BY <2>3 DEF Moment, Moments, ChainOK
  <2>5. c \in Genuine /\ f \in Moments /\ Bounded(f) /\ \A a \in old : InCoin(a, c)
    BY <2>1, <2>3 DEF CastOK
  <2>6. Bounded(f)' /\ \A a \in old : InCoin(a, c)'
    BY <2>5, MomentsStay, CoinsStay
  <2>7. /\ cast'.contest = c /\ cast'.from = f /\ cast'.to = m /\ cast'.balances = old
        /\ cast'.todo = cast.todo \ {b}
        /\ cast' \in [phase : {"balances", "publishing", "done", "failed"},
                    contest : Genuine, ballot : Ballots, balances : SUBSET (1 .. created),
                    todo : SUBSET (1 .. created), lost : BOOLEAN,
                    from : Moments, to : Moments]
    BY <2>1, <2>2, <2>3, <2>4 DEF CastOK
  <2>8. IsFiniteSet(old) /\ cast.todo \subseteq old
    BY <2>1, <2>3 DEF CastOK
  <2> QED
    BY <2>1, <2>4, <2>6, <2>7, <2>8 DEF CastOK, Bounded, InCoin
<1>4. UNCHANGED cast \/ (\E contest \in Genuine, ballot \in Ballots : castPendingDecision(contest, ballot))
      \/ CastBalancesArrive \/ (\E b \in cast.todo : DatagramPublished(b))
  BY DEF Next, AppBegins, WalletAnswers, ChainMoves, getDecision, getDecisionRecordById,
     PublisherArrives, ContestArrives, BalancesArrive, DatagramArrives, Decide,
     OperationArrives, DetailArrives, PublishedElsewhere, Receive, Spend
<1> QED
  BY <1>1, <1>2, <1>3, <1>4, CastStays

ChainInv == ChainOK /\ CastOK

\* The chain and the cast as they begin.
LEMMA ChainInvInit == ASSUME LookupAssumption, Init PROVE ChainInv
<1>1. held \in Seq(Stakes) /\ created = Len(held) /\ published = <<>> /\ cast = Idle
      /\ moves = 0 /\ failures = 0
  BY DEF Init, LookupAssumption
<1>2. ChainOK
  BY <1>1 DEF ChainOK
<1> QED
  BY <1>1, <1>2 DEF ChainInv, CastOK

\* The chain and the cast from step to step.
LEMMA ChainInvNext == ASSUME ChainInv, [Next]_vars PROVE ChainInv' /\ Grown
<1>1. CASE Next
  BY <1>1, StepGrows, StepCasts DEF ChainInv
<1>2. CASE UNCHANGED vars
  <2>1. ChainOK' /\ Grown /\ UNCHANGED cast
    BY <1>2, QuietGrows DEF vars, ChainInv, ChainOK
  <2> QED
    BY <2>1, CastStays DEF ChainInv
<1> QED
  BY <1>1, <1>2

-----------------------------------------------------------------------------
(* Records.                                                                *)

\* A record's weight stays right: the balance keeps its amount or is gone.
LEMMA WeightStays ==
    ASSUME ChainInv, Grown, record.id \in DOMAIN published, WeightRight,
           NEW r, r.weight = record.weight, r.id = record.id, record' = r
    PROVE  WeightRight'
<1> DEFINE b == published[record.id].balance
<1>1. record.id \in DOMAIN published' /\ published'[record.id] = published[record.id]
  BY DEF Grown
<1>2. InCoin(b, published[record.id].contest)
  BY DEF ChainInv, ChainOK
<1>3. b \in DOMAIN held' => b \in DOMAIN held /\ held'[b] = held[b]
  BY <1>2 DEF Grown, InCoin
<1> QED
  BY <1>1, <1>3 DEF WeightRight

\* The record, when only the chain moves.
LEMMA RecordStays ==
    ASSUME ChainInv, Grown, RecordOK, UNCHANGED record
    PROVE  RecordOK'
<1>1. CASE record = Idle
  BY <1>1 DEF RecordOK
<1>2. CASE record # Idle
  <2>1. record.id \in DOMAIN published'
    BY <1>2 DEF RecordOK, Grown
  <2>2. WeightRight => WeightRight'
    BY <1>2, WeightStays DEF RecordOK
  <2> QED
    BY <1>2, <2>1, <2>2 DEF RecordOK
<1> QED
  BY <1>1, <1>2

(* The stake of a decision's balance is what its record should show.       *)
LEMMA WeightsAreRight ==
    ASSUME LookupAssumption, ChainOK, NEW i \in DOMAIN published,
           NEW w \in Weights(published[i].balance, Operation[published[i].contest].coin)
    PROVE  LET b == published[i].balance
           IN  /\ w \in {stake.amount : stake \in Stakes} \cup {0}
               /\ w \in Int
               /\ b \in DOMAIN held /\ held[b].amount < TooLarge => w = held[b].amount
<1>1. InCoin(published[i].balance, published[i].contest)
  BY DEF ChainOK
<1>2. \A b \in DOMAIN held : held[b] \in Stakes /\ held[b].amount \in Nat
  BY DEF ChainOK, LookupAssumption
<1> QED
  BY <1>1, <1>2 DEF Weights, InCoin

\* The record, whatever step is taken.
LEMMA RecordStep ==
    ASSUME LookupAssumption, ChainInv, ChainInv', Grown, RecordOK, Next
    PROVE  RecordOK'
<1>1. ASSUME NEW i \in DOMAIN published, getDecisionRecordById(i) PROVE RecordOK'
  <2>1. i \in Nat /\ i \in DOMAIN published'
    BY DEF ChainInv, ChainOK, Grown
  <2>2. record' = [phase |-> "operation", id |-> i, todo |-> {}, lost |-> FALSE, weight |-> -1]
    BY <1>1 DEF getDecisionRecordById
  <2> QED
    BY <2>1, <2>2 DEF RecordOK
<1>2. CASE OperationArrives
  <2>1. record.phase = "operation" /\ record # Idle
    BY <1>2 DEF OperationArrives, Idle
  <2>2. record' \in {[record EXCEPT !.phase = "details", !.todo = {"block", "voter", "contest"}],
                     [record EXCEPT !.phase = "failed"]}
    BY <1>2 DEF OperationArrives
  <2>3. record.id \in DOMAIN published'
    BY <2>1 DEF RecordOK, Grown
  <2>4. {"block", "voter", "contest"} \cap {"contest", "stake"} # {}
    OBVIOUS
  <2>5. /\ record'.id = record.id
        /\ record' \in [phase : {"operation", "details", "done", "failed"}, id : Nat,
                      todo : SUBSET {"block", "voter", "contest", "stake"},
                      lost : BOOLEAN, weight : Int]
        /\ record'.phase # "done"
        /\ record'.phase = "details" => record'.todo = {"block", "voter", "contest"}
    BY <2>1, <2>2 DEF RecordOK
  <2> QED
    BY <2>3, <2>4, <2>5 DEF RecordOK
<1>3. ASSUME NEW part \in record.todo, DetailArrives(part) PROVE RecordOK'
  <2>1. record.phase = "details" /\ record # Idle
    BY <1>3 DEF DetailArrives, Idle
  <2>2. record.id \in DOMAIN published /\ record.id \in DOMAIN published'
        /\ part \in {"block", "voter", "contest", "stake"}
    BY <2>1 DEF RecordOK, Grown
  <2> DEFINE d == published[record.id]
  <2>a. PICK ok \in BOOLEAN :
            \E w \in Weights(d.balance, Operation[d.contest].coin) :
               LET left == IF ok THEN Left(part) ELSE record.todo \ {part}
               IN  record' = [record EXCEPT
                          !.todo = left,
                          !.lost = @ \/ ~ok,
                          !.weight = IF ok /\ part = "stake" THEN w ELSE @,
                          !.phase = IF left # {} THEN @
                                    ELSE IF record.lost \/ ~ok THEN "failed" ELSE "done"]
    BY <1>3, Zenon DEF DetailArrives
  <2>b. PICK left : left = IF ok THEN Left(part) ELSE record.todo \ {part}
    OBVIOUS
  <2>3. PICK w \in Weights(d.balance, Operation[d.contest].coin) :
            /\ left = IF ok THEN Left(part) ELSE record.todo \ {part}
            /\ record' = [record EXCEPT
                          !.todo = left,
                          !.lost = @ \/ ~ok,
                          !.weight = IF ok /\ part = "stake" THEN w ELSE @,
                          !.phase = IF left # {} THEN @
                                    ELSE IF record.lost \/ ~ok THEN "failed" ELSE "done"]
    BY <2>a, <2>b
  <2>4. /\ w \in {stake.amount : stake \in Stakes} \cup {0}
        /\ w \in Int
        /\ d.balance \in DOMAIN held /\ held[d.balance].amount < TooLarge
              => w = held[d.balance].amount
    BY <2>2, WeightsAreRight DEF ChainInv
  <2>5. /\ record'.id = record.id /\ record'.todo = left
        /\ record'.lost = (record.lost \/ ~ok)
        /\ record'.weight = IF ok /\ part = "stake" THEN w ELSE record.weight
        /\ record'.phase = IF left # {} THEN "details"
                           ELSE IF record.lost \/ ~ok THEN "failed" ELSE "done"
    BY <2>1, <2>3 DEF RecordOK
  <2>6. record' \in [phase : {"operation", "details", "done", "failed"}, id : Nat,
                     todo : SUBSET {"block", "voter", "contest", "stake"},
                     lost : BOOLEAN, weight : Int]
    <3>1. left \in SUBSET {"block", "voter", "contest", "stake"}
      BY <2>1, <2>3 DEF RecordOK, Left
    <3> QED
      BY <2>1, <2>3, <2>4, <3>1 DEF RecordOK
  <2>7. CASE ok /\ part = "stake"
    <3>1. d.balance \in DOMAIN held' => d.balance \in DOMAIN held /\ held'[d.balance] = held[d.balance]
      <4>1. InCoin(d.balance, d.contest)
        BY <2>2 DEF ChainInv, ChainOK
      <4> QED
        BY <4>1 DEF Grown, InCoin
    <3>2. published'[record.id] = d
      BY <2>2 DEF Grown
    <3>3. WeightRight'
      BY <2>4, <2>5, <2>7, <3>1, <3>2 DEF WeightRight
    <3> QED
      BY <2>2, <2>5, <2>6, <3>3 DEF RecordOK
  <2>8. CASE ok /\ part # "stake"
    <3>1. part = "contest" => "stake" \in left
      BY <2>3, <2>8 DEF Left
    <3>2. part # "contest" => left \cap {"contest", "stake"} = record.todo \cap {"contest", "stake"}
      BY <2>3, <2>8 DEF Left
    <3>3. record'.weight = record.weight /\ record'.lost = record.lost
      BY <2>1, <2>5, <2>8 DEF RecordOK
    <3>4. WeightRight => WeightRight'
      BY <2>2, <2>5, <3>3, WeightStays
    <3>5. left \cap {"contest", "stake"} # {} \/ record.lost \/ WeightRight
      BY <2>1, <3>1, <3>2 DEF RecordOK
    <3> QED
      BY <2>2, <2>5, <2>6, <2>8, <3>3, <3>4, <3>5 DEF RecordOK
  <2>9. CASE ~ok
    BY <2>2, <2>5, <2>6, <2>9 DEF RecordOK
  <2> QED
    BY <2>7, <2>8, <2>9
<1>4. UNCHANGED record \/ (\E i \in DOMAIN published : getDecisionRecordById(i))
      \/ OperationArrives \/ \E part \in record.todo : DetailArrives(part)
  BY DEF Next, AppBegins, WalletAnswers, ChainMoves, getDecision, castPendingDecision,
     PublisherArrives, ContestArrives, BalancesArrive, DatagramArrives, Decide,
     CastBalancesArrive, DatagramPublished, PublishedElsewhere, Receive, Spend
<1> QED
  BY <1>1, <1>2, <1>3, <1>4, RecordStays

(* RecordIsComplete: a decision record is answered with the stake of its   *)
(* balance, since whatever asks for the stake is asked for before          *)
(* (getDecisionRecordById).                                                *)
THEOREM RecordIsCompleteCorrect == Spec => []RecordIsComplete
<1> DEFINE RecordInv == ChainInv /\ RecordOK
<1>1. Init => RecordInv
  BY LookupAssumption, ChainInvInit DEF Init, RecordOK
<1>2. RecordInv /\ [Next]_vars => RecordInv'
  <2> SUFFICES ASSUME RecordInv, [Next]_vars PROVE RecordInv'
    OBVIOUS
  <2>1. ChainInv' /\ Grown
    BY ChainInvNext
  <2>2. CASE Next
    BY <2>1, <2>2, LookupAssumption, RecordStep
  <2>3. CASE UNCHANGED vars
    BY <2>1, <2>3, RecordStays DEF vars
  <2> QED
    BY <2>1, <2>2, <2>3
<1>3. RecordInv => RecordIsComplete
  BY DEF RecordOK, RecordIsComplete, WeightRight, Idle
<1> QED
  BY <1>1, <1>2, <1>3, PTL DEF Spec

-----------------------------------------------------------------------------
(* The order of the look-ups: whatever the order of the listing, it has    *)
(* the balances of the listing, the newest first.                          *)

(* A listing of a set has just its members.                                *)
LEMMA ListingOfSet ==
    ASSUME NEW S, IsFiniteSet(S), NEW listing \in SetToSeqs(S)
    PROVE  listing \in Seq(S) /\ ToSet(listing) = S
<1> DEFINE n == Cardinality(S)
<1>1. n \in Nat
  BY FS_CardinalityType
<1>2. listing \in [1 .. n -> S] /\ \A i, j \in 1 .. n : i # j => listing[i] # listing[j]
  BY DEF SetToSeqs
<1>3. IsFiniteSet(1 .. n) /\ Cardinality(1 .. n) = n
  BY <1>1, FS_Interval
<1> HIDE DEF n
<1>4. listing \in Injection(1 .. n, S)
  BY <1>2 DEF Injection, IsInjective
<1>5. listing \in Surjection(1 .. n, S)
  BY <1>3, <1>4, FS_Injection DEF n
<1> QED
  BY <1>1, <1>2, <1>5 DEF Surjection, ToSet

Empty == [promises |-> <<>>, newest |-> 0]

(* The balances up to a place of the listing, accumulated.                 *)
Unwound(it, listing, S) ==
    it = [T \in SUBSET S |-> IF T = {} THEN Empty
                             ELSE AddPromise(it[T \ {Max(T)}], listing[Max(T)])]

Unwinding(listing, S) == CHOOSE it : Unwound(it, listing, S)

\* PromiseOrder is the fold that FoldLeft chooses.
LEMMA OrderIsFold ==
    ASSUME NEW listing
    PROVE  PromiseOrder(listing) = Unwinding(listing, DOMAIN listing)[DOMAIN listing].promises
BY Zenon DEF PromiseOrder, FoldLeft, MapThenFoldSet, Unwinding, Unwound, Empty

(* The fold exists, for one place more than it is known for.               *)
LEMMA UnwoundExtends ==
    ASSUME NEW listing, NEW n \in Nat, NEW h, Unwound(h, listing, 1 .. n)
    PROVE  \E it : Unwound(it, listing, 1 .. n + 1)
<1> DEFINE S == 1 .. n
           R == 1 .. n + 1
           it == [T \in SUBSET R |-> IF n + 1 \in T
                                     THEN AddPromise(h[T \ {n + 1}], listing[n + 1])
                                     ELSE h[T]]
<1>1. ASSUME NEW T \in SUBSET R
      PROVE  it[T] = IF T = {} THEN Empty ELSE AddPromise(it[T \ {Max(T)}], listing[Max(T)])
  <2>1. CASE n + 1 \in T
    <3> DEFINE m == Max(T)
    <3>0. n + 1 \in Nat
      OBVIOUS
    <3>1. m \in T /\ n + 1 <= m
      BY <2>1, <3>0, LastPlace
    <3> HIDE DEF m
    <3>a. m = n + 1
      <4>1. m \in 1 .. n + 1
        BY <3>1
      <4> QED
        BY <3>1, <4>1
    <3>2. Max(T) = n + 1
      BY <3>a DEF m
    <3>3. T \ {n + 1} \in SUBSET R /\ n + 1 \notin T \ {n + 1}
      OBVIOUS
    <3>4. it[T \ {n + 1}] = h[T \ {n + 1}]
      BY <3>3
    <3> QED
      BY <2>1, <3>2, <3>4
  <2>2. CASE n + 1 \notin T
    <3>1. T \in SUBSET S
      BY <2>2
    <3>2. h[T] = IF T = {} THEN Empty ELSE AddPromise(h[T \ {Max(T)}], listing[Max(T)])
      BY <3>1 DEF Unwound
    <3>3. T \ {Max(T)} \in SUBSET R /\ n + 1 \notin T \ {Max(T)}
      BY <2>2
    <3>4. it[T \ {Max(T)}] = h[T \ {Max(T)}]
      BY <3>3
    <3> QED
      BY <2>2, <3>2, <3>4
  <2> QED
    BY <2>1, <2>2
<1>2. it = [T \in SUBSET R |-> it[T]]
  OBVIOUS
<1> HIDE DEF it, R
<1>3. it = [T \in SUBSET R |-> IF T = {} THEN Empty
                               ELSE AddPromise(it[T \ {Max(T)}], listing[Max(T)])]
  BY <1>1, <1>2
<1>4. Unwound(it, listing, R)
  BY <1>3, Zenon DEF Unwound
<1> QED
  BY <1>4 DEF R

\* So it exists for any number of places.
LEMMA UnwoundExists ==
    ASSUME NEW listing, NEW n \in Nat
    PROVE  \E it : Unwound(it, listing, 1 .. n)
<1> DEFINE C == {k \in Nat : ~ \E it : Unwound(it, listing, 1 .. k)}
<1> SUFFICES ASSUME C # {} PROVE FALSE
  OBVIOUS
<1>1. PICK k \in C : \A m \in C : ~ (m < k)
  <2>1. C \subseteq Nat
    OBVIOUS
  <2> HIDE DEF C
  <2> QED
    BY <2>1, SmallestNumber
<1>2. k # 0
  <2> SUFFICES ASSUME k = 0 PROVE FALSE
    OBVIOUS
  <2> DEFINE z == [T \in SUBSET {} |-> Empty]
  <2>1. 1 .. k = {}
    OBVIOUS
  <2>2. z = [T \in SUBSET {} |-> IF T = {} THEN Empty
                                 ELSE AddPromise(z[T \ {Max(T)}], listing[Max(T)])]
    OBVIOUS
  <2> HIDE DEF z
  <2>3. Unwound(z, listing, {})
    BY <2>2, Zenon DEF Unwound
  <2> QED
    BY <2>1, <2>3
<1>3. k - 1 \in Nat /\ k - 1 \notin C /\ k = (k - 1) + 1
  BY <1>1, <1>2
<1>4. PICK h : Unwound(h, listing, 1 .. k - 1)
  BY <1>3
<1>5. \E it : Unwound(it, listing, 1 .. k)
  BY <1>3, <1>4, UnwoundExtends
<1> QED
  BY <1>5

(* What the accumulator has after k places.                                *)
Accumulates(acc, listing, k) ==
    /\ acc \in [promises : Seq(Nat), newest : Nat]
    /\ Len(acc.promises) = k
    /\ ToSet(acc.promises) = {listing[i] : i \in 1 .. k}
    /\ k > 0 => acc.promises[1] = acc.newest
    /\ \A i \in 1 .. k : acc.promises[i] <= acc.newest

(* The last promise and the first change places.                           *)
Swapped(all) == [all EXCEPT ![1] = all[Len(all)], ![Len(all)] = all[1]]

\* That changes the order only.
LEMMA SwapKeeps ==
    ASSUME NEW all \in Seq(Nat), Len(all) > 0
    PROVE  /\ Swapped(all) \in Seq(Nat) /\ Len(Swapped(all)) = Len(all)
           /\ ToSet(Swapped(all)) = ToSet(all)
           /\ Swapped(all)[1] = all[Len(all)]
<1> DEFINE n == Len(all)
           swapped == [all EXCEPT ![1] = all[n], ![n] = all[1]]
<1>1. n \in Nat /\ 1 \in 1 .. n /\ n \in 1 .. n /\ DOMAIN all = 1 .. n
  OBVIOUS
<1>2. swapped \in Seq(Nat) /\ Len(swapped) = n /\ DOMAIN swapped = 1 .. n
  BY <1>1
<1>3. swapped[1] = all[n] /\ swapped[n] = all[1]
      /\ \A i \in 1 .. n : i # 1 /\ i # n => swapped[i] = all[i]
  BY <1>1
<1> HIDE DEF swapped
<1>4. ToSet(swapped) = ToSet(all)
  <2>1. ASSUME NEW x \in ToSet(swapped) PROVE x \in ToSet(all)
    BY <1>1, <1>2, <1>3, <2>1 DEF ToSet
  <2>2. ASSUME NEW x \in ToSet(all) PROVE x \in ToSet(swapped)
    <3>1. PICK i \in 1 .. n : x = all[i]
      BY <1>1, <2>2 DEF ToSet
    <3> QED
      BY <1>1, <1>2, <1>3, <3>1 DEF ToSet
  <2> QED
    BY <2>1, <2>2
<1> QED
  BY <1>2, <1>3, <1>4 DEF swapped, Swapped

\* One more balance is accumulated.
LEMMA AddPromiseAccumulates ==
    ASSUME NEW listing \in Seq(Nat), NEW k \in Nat, k + 1 <= Len(listing),
           \A i \in DOMAIN listing : listing[i] > 0,
           NEW acc, Accumulates(acc, listing, k)
    PROVE  Accumulates(AddPromise(acc, listing[k + 1]), listing, k + 1)
<1> DEFINE b == listing[k + 1]
           all == Append(acc.promises, b)
<1>1. b \in Nat /\ b > 0
  OBVIOUS
<1>2. /\ all \in Seq(Nat) /\ Len(all) = k + 1 /\ all[k + 1] = b
      /\ \A i \in 1 .. k : all[i] = acc.promises[i]
  BY <1>1 DEF Accumulates
<1>3. ToSet(all) = {listing[i] : i \in 1 .. k + 1}
  <2>1. DOMAIN all = 1 .. k + 1 /\ DOMAIN acc.promises = 1 .. k
    BY <1>2 DEF Accumulates
  <2>2. ToSet(all) = ToSet(acc.promises) \cup {b}
    <3>1. ASSUME NEW x \in ToSet(all) PROVE x \in ToSet(acc.promises) \cup {b}
      BY <1>2, <2>1, <3>1 DEF ToSet
    <3>2. ASSUME NEW x \in ToSet(acc.promises) \cup {b} PROVE x \in ToSet(all)
      <4>1. CASE x = b
        <5>1. k + 1 \in 1 .. k + 1 /\ all[k + 1] = x
          BY <1>2, <4>1
        <5> HIDE DEF all
        <5> QED
          BY <2>1, <5>1 DEF ToSet
      <4>2. CASE x # b
        <5>1. PICK i \in 1 .. k : x = acc.promises[i]
          BY <2>1, <3>2, <4>2 DEF ToSet
        <5>2. i \in 1 .. k + 1 /\ x = all[i]
          BY <1>2, <5>1
        <5> QED
          BY <2>1, <5>2 DEF ToSet
      <4> QED
        BY <4>1, <4>2
    <3> QED
      BY <3>1, <3>2
  <2>3. {listing[i] : i \in 1 .. k + 1} = {listing[i] : i \in 1 .. k} \cup {b}
    OBVIOUS
  <2> QED
    BY <2>2, <2>3 DEF Accumulates
<1>4. AddPromise(acc, b) = IF Len(all) = 1 THEN [promises |-> all, newest |-> b]
        ELSE IF b > acc.newest
        THEN [promises |-> Swapped(all), newest |-> b]
        ELSE [acc EXCEPT !.promises = all]
  BY Zenon DEF AddPromise, Swapped
<1>a. acc.newest \in Nat /\ acc \in [promises : Seq(Nat), newest : Nat]
      /\ \A i \in 1 .. k : acc.promises[i] <= acc.newest /\ acc.promises[i] \in Nat
  BY DEF Accumulates
<1>b. \A i \in 1 .. k + 1 : i \in 1 .. k \/ i = k + 1
  OBVIOUS
<1> HIDE DEF all, b
<1>5. CASE k = 0
  <2>1. AddPromise(acc, b) = [promises |-> all, newest |-> b]
    BY <1>2, <1>4, <1>5
  <2> QED
    BY <1>1, <1>2, <1>3, <1>5, <2>1 DEF Accumulates, b
<1>6. CASE k > 0 /\ b > acc.newest
  <2>1. AddPromise(acc, b) = [promises |-> Swapped(all), newest |-> b]
    <3>1. Len(all) # 1
      BY <1>2, <1>6
    <3> QED
      BY <1>4, <1>6, <3>1
  <2>2. Swapped(all) \in Seq(Nat) /\ Len(Swapped(all)) = k + 1
        /\ ToSet(Swapped(all)) = ToSet(all) /\ Swapped(all)[1] = b
    <3>1. Len(all) > 0 /\ all[Len(all)] = b
      BY <1>2
    <3> QED
      BY <1>2, <3>1, SwapKeeps
  <2>3. \A i \in 1 .. k + 1 : all[i] <= b
    <3>1. acc.newest <= b
      BY <1>1, <1>6, <1>a
    <3>2. \A x, y, z \in Nat : x <= y /\ y <= z => x <= z
      OBVIOUS
    <3>3. \A i \in 1 .. k : all[i] <= b
      BY <1>1, <1>2, <1>a, <3>1, <3>2
    <3>4. all[k + 1] <= b
      BY <1>1, <1>2
    <3> QED
      BY <1>b, <3>3, <3>4
  <2>4. \A i \in 1 .. k + 1 : Swapped(all)[i] <= b
    <3> TAKE i \in 1 .. k + 1
    <3>0. DOMAIN Swapped(all) = 1 .. k + 1 /\ DOMAIN all = 1 .. k + 1
      BY <1>2, <2>2
    <3>1. Swapped(all)[i] \in ToSet(Swapped(all))
      BY <3>0 DEF ToSet
    <3>2. PICK j \in 1 .. k + 1 : Swapped(all)[i] = all[j]
      BY <2>2, <3>0, <3>1 DEF ToSet
    <3> QED
      BY <2>3, <3>2
  <2>5. [promises |-> Swapped(all), newest |-> b] \in [promises : Seq(Nat), newest : Nat]
    BY <1>1, <2>2
  <2>6. Accumulates([promises |-> Swapped(all), newest |-> b], listing, k + 1)
    BY <1>3, <2>2, <2>4, <2>5 DEF Accumulates
  <2> QED
    BY <2>1, <2>6 DEF b
<1>7. CASE k > 0 /\ ~ (b > acc.newest)
  <2>1. AddPromise(acc, b) = [acc EXCEPT !.promises = all]
    BY <1>2, <1>4, <1>7
  <2>2. \A i \in 1 .. k + 1 : all[i] <= acc.newest
    <3>1. b <= acc.newest
      BY <1>1, <1>7, <1>a
    <3> QED
      BY <1>2, <1>a, <1>b, <3>1
  <2>3. all[1] = acc.promises[1] /\ acc.promises[1] = acc.newest
    BY <1>2, <1>7 DEF Accumulates
  <2>4. AddPromise(acc, b).promises = all /\ AddPromise(acc, b).newest = acc.newest
        /\ AddPromise(acc, b) \in [promises : Seq(Nat), newest : Nat]
    BY <1>2, <2>1 DEF Accumulates
  <2>5. Accumulates(AddPromise(acc, b), listing, k + 1)
    BY <1>2, <1>3, <2>2, <2>3, <2>4 DEF Accumulates
  <2> QED
    BY <2>5 DEF b
<1> QED
  BY <1>5, <1>6, <1>7

\* The fold accumulates the listing, place by place.
LEMMA UnwoundAccumulates ==
    ASSUME NEW listing \in Seq(Nat), \A i \in DOMAIN listing : listing[i] > 0,
           NEW it, Unwound(it, listing, 1 .. Len(listing)),
           NEW n \in 0 .. Len(listing)
    PROVE  Accumulates(it[1 .. n], listing, n)
<1> DEFINE C == {k \in 0 .. Len(listing) : ~ Accumulates(it[1 .. k], listing, k)}
<1> SUFFICES ASSUME C # {} PROVE FALSE
  OBVIOUS
<1>1. PICK k \in C : \A m \in C : ~ (m < k)
  <2>1. C \subseteq Nat
    OBVIOUS
  <2> HIDE DEF C
  <2> QED
    BY <2>1, SmallestNumber
<1>2. it[1 .. k] = IF 1 .. k = {} THEN Empty
                   ELSE AddPromise(it[(1 .. k) \ {Max(1 .. k)}], listing[Max(1 .. k)])
  <2>1. 1 .. k \in SUBSET (1 .. Len(listing))
    OBVIOUS
  <2> QED
    BY <2>1 DEF Unwound
<1>3. k # 0
  <2> SUFFICES ASSUME k = 0 PROVE FALSE
    OBVIOUS
  <2>1. it[1 .. k] = Empty
    BY <1>2
  <2>2. Accumulates(Empty, listing, 0)
    <3>1. Empty.promises = <<>> /\ Empty \in [promises : Seq(Nat), newest : Nat]
      BY DEF Empty
    <3>2. ToSet(<<>>) = {} /\ {listing[i] : i \in 1 .. 0} = {}
      BY DEF ToSet
    <3> QED
      BY <3>1, <3>2 DEF Accumulates
  <2> QED
    BY <2>1, <2>2
<1>4. k - 1 \in Nat /\ k - 1 \notin C /\ k = (k - 1) + 1 /\ k - 1 \in 0 .. Len(listing)
  BY <1>1, <1>3
<1>5. Max(1 .. k) = k
  <2>1. k \in Nat /\ k \in 1 .. k
    BY <1>3
  <2>2. Max(1 .. k) \in 1 .. k /\ k <= Max(1 .. k)
    BY <2>1, LastPlace
  <2> QED
    BY <2>1, <2>2
<1>6. (1 .. k) \ {k} = 1 .. k - 1 /\ 1 .. k # {}
  <2>1. k \in Nat /\ k > 0
    BY <1>3
  <2> HIDE DEF C
  <2>2. k \in 1 .. k /\ (1 .. k) \ {k} = 1 .. k - 1
    BY <2>1
  <2> QED
    BY <2>2
<1>7. it[1 .. k] = AddPromise(it[1 .. k - 1], listing[k])
  BY <1>2, <1>5, <1>6
<1>8. Accumulates(it[1 .. k - 1], listing, k - 1)
  BY <1>4
<1>9. Accumulates(it[1 .. k], listing, k)
  <2> DEFINE j == k - 1
  <2>1. j \in Nat /\ j + 1 = k /\ j + 1 <= Len(listing)
    BY <1>4
  <2> HIDE DEF j
  <2>2. Accumulates(it[1 .. j], listing, j) /\ it[1 .. k] = AddPromise(it[1 .. j], listing[j + 1])
    BY <1>7, <1>8, <2>1 DEF j
  <2>3. Accumulates(AddPromise(it[1 .. j], listing[j + 1]), listing, j + 1)
    BY <2>1, <2>2, AddPromiseAccumulates
  <2> QED
    BY <2>1, <2>2, <2>3
<1> QED
  BY <1>9

(* The newest balance leads the order.                                     *)
LEMMA OrderLeads ==
    ASSUME NEW listing \in Seq(Nat), listing # <<>>,
           \A i \in DOMAIN listing : listing[i] > 0
    PROVE  /\ PromiseOrder(listing) \in Seq(Nat)
           /\ ToSet(PromiseOrder(listing)) = ToSet(listing)
           /\ NewestFirst(PromiseOrder(listing))
<1> DEFINE n == Len(listing)
           it == Unwinding(listing, 1 .. n)
<1>1. DOMAIN listing = 1 .. n /\ n \in Nat /\ n > 0 /\ n \in 0 .. n
  OBVIOUS
<1>2. Unwound(it, listing, 1 .. n)
  <2>1. \E h : Unwound(h, listing, 1 .. n)
    BY <1>1, UnwoundExists
  <2> QED
    BY <2>1, Zenon DEF Unwinding
<1>3. PromiseOrder(listing) = it[1 .. n].promises
  BY <1>1, OrderIsFold
<1> HIDE DEF it
<1>4. Accumulates(it[1 .. n], listing, n)
  BY <1>1, <1>2, UnwoundAccumulates
<1> DEFINE order == PromiseOrder(listing)
<1>5. /\ order \in Seq(Nat) /\ Len(order) = n
      /\ ToSet(order) = {listing[i] : i \in 1 .. n}
      /\ \A i \in 1 .. n : order[i] <= order[1]
  <2> HIDE DEF order
  <2>1. order = it[1 .. n].promises
    BY <1>3 DEF order
  <2> QED
    BY <1>1, <1>4, <2>1 DEF Accumulates
<1> HIDE DEF order
<1>6. ToSet(order) = ToSet(listing)
  BY <1>1, <1>5 DEF ToSet
<1>7. NewestFirst(order)
  <2>1. order # <<>> /\ DOMAIN order = 1 .. n
    BY <1>1, <1>5
  <2>2. \A b \in ToSet(order) : \E i \in 1 .. n : b = order[i]
    BY <2>1 DEF ToSet
  <2> QED
    BY <1>5, <2>1, <2>2 DEF NewestFirst
<1> QED
  BY <1>5, <1>6, <1>7 DEF order

-----------------------------------------------------------------------------
(* What balances carry.                                                    *)

(* The decisions on a contest among the first n datagrams of a log.        *)
Upto(log, b, contest, n) ==
    {i \in 1 .. n : log[i].balance = b /\ log[i].contest = contest}

CarriedIn(log, b, contest, n) ==
    IF Upto(log, b, contest, n) = {} THEN NoBallot
    ELSE log[Max(Upto(log, b, contest, n))].ballot

\* OnRecord says so of the log ...
LEMMA OnRecordIsCarried ==
    ASSUME NEW b, NEW contest, NEW n
    PROVE  OnRecord(b, contest, n) = CarriedIn(published, b, contest, n)
BY DEF OnRecord, CarriedIn, Upto

\* ... and of the log after a step.
LEMMA OnRecordIsCarriedNext ==
    ASSUME NEW b, NEW contest, NEW n
    PROVE  OnRecord(b, contest, n)' = CarriedIn(published', b, contest, n)
BY DEF OnRecord, CarriedIn, Upto

(* It depends on the datagrams so far only.                                *)
LEMMA CarriedInPrefix ==
    ASSUME NEW p, NEW q, NEW n \in Nat, NEW b, NEW contest,
           \A i \in 1 .. n : p[i] = q[i]
    PROVE  CarriedIn(p, b, contest, n) = CarriedIn(q, b, contest, n)
<1> DEFINE S == Upto(p, b, contest, n)
<1>1. S = Upto(q, b, contest, n)
  BY DEF Upto
<1>2. S # {} => Max(S) \in 1 .. n
  <2> SUFFICES ASSUME S # {} PROVE Max(S) \in 1 .. n
    OBVIOUS
  <2>1. S \in SUBSET (1 .. n)
    BY DEF Upto
  <2> HIDE DEF S
  <2> QED
    BY <2>1, LastPlace
<1> HIDE DEF S
<1>3. S # {} => p[Max(S)].ballot = q[Max(S)].ballot
  BY <1>2
<1>4. CarriedIn(p, b, contest, n) = IF S = {} THEN NoBallot ELSE p[Max(S)].ballot
  BY DEF CarriedIn, S
<1>5. CarriedIn(q, b, contest, n) = IF S = {} THEN NoBallot ELSE q[Max(S)].ballot
  BY <1>1 DEF CarriedIn
<1> QED
  BY <1>3, <1>4, <1>5

(* So later datagrams do not change it.                                    *)
LEMMA OnRecordKept ==
    ASSUME ChainOK, Grown, NEW b, NEW contest, NEW n \in 0 .. Len(published)
    PROVE  OnRecord(b, contest, n)' = OnRecord(b, contest, n)
<1>1. n \in Nat /\ \A i \in 1 .. n : published[i] = published'[i]
  BY DEF ChainOK, Grown
<1>2. CarriedIn(published, b, contest, n) = CarriedIn(published', b, contest, n)
  BY <1>1, CarriedInPrefix
<1> QED
  BY <1>2, OnRecordIsCarried, OnRecordIsCarriedNext

(* A balance that carries a decision goes on carrying one.                 *)
LEMMA CarriedOn ==
    ASSUME LookupAssumption, ChainOK, NEW b, NEW contest,
           NEW n \in 0 .. Len(published), NEW m \in n .. Len(published)
    PROVE  /\ OnRecord(b, contest, n) \in Answers
           /\ OnRecord(b, contest, n) # NoBallot => OnRecord(b, contest, m) # NoBallot
<1>1. \A i \in 1 .. Len(published) : published[i].ballot \in Ballots
  <2>1. \A i \in 1 .. Len(published) : published[i] \in Datagrams
    BY DEF ChainOK
  <2> QED
    BY <2>1 DEF Datagrams
<1>2. ASSUME NEW k \in 0 .. Len(published), Upto(published, b, contest, k) # {}
      PROVE  CarriedIn(published, b, contest, k) \in Ballots
  <2> DEFINE S == Upto(published, b, contest, k)
  <2>1. S \in SUBSET (1 .. k) /\ k \in Nat /\ k <= Len(published) /\ Len(published) \in Nat
    BY DEF Upto, ChainOK
  <2>2. S # {}
    BY <1>2
  <2> HIDE DEF S
  <2>3. Max(S) \in 1 .. k
    BY <2>1, <2>2, LastPlace
  <2>4. Max(S) \in 1 .. Len(published)
    BY <2>1, <2>3
  <2>5. CarriedIn(published, b, contest, k) = published[Max(S)].ballot
    BY <2>2 DEF CarriedIn, S
  <2> QED
    BY <1>1, <2>4, <2>5
<1>3. n \in Nat /\ m \in 0 .. Len(published) /\ n <= m /\ m \in Nat
  BY DEF ChainOK
<1>4. Upto(published, b, contest, n) \subseteq Upto(published, b, contest, m)
  BY <1>3 DEF Upto
<1>5. CarriedIn(published, b, contest, n) # NoBallot => Upto(published, b, contest, n) # {}
  BY DEF CarriedIn
<1>6. CarriedIn(published, b, contest, n) \in Answers
  BY <1>2 DEF CarriedIn, Answers
<1>7. Upto(published, b, contest, m) # {} => CarriedIn(published, b, contest, m) # NoBallot
  BY <1>2, <1>3 DEF LookupAssumption
<1> QED
  BY <1>4, <1>5, <1>6, <1>7, OnRecordIsCarried

(* An answer of which nothing was missed is what the balance carries now.  *)
LEMMA DatagramIsCarried ==
    ASSUME ChainOK, NEW b, NEW contest
    PROVE  Datagram(b, contest, {}) = OnRecord(b, contest, Len(published))
<1> DEFINE S == {i \in DOMAIN published \ {} :
                    published[i].balance = b /\ published[i].contest = contest}
<1>1. S = Upto(published, b, contest, Len(published))
  BY DEF Upto, ChainOK
<1>2. Datagram(b, contest, {}) = IF S = {} THEN NoBallot ELSE published[Max(S)].ballot
  BY DEF Datagram
<1> QED
  BY <1>1, <1>2, OnRecordIsCarried DEF CarriedIn

(* Whatever was missed, it is a ballot or none.                            *)
LEMMA DatagramIsAnswer ==
    ASSUME ChainOK, NEW b, NEW contest, NEW missed
    PROVE  Datagram(b, contest, missed) \in Answers
<1> DEFINE S == {i \in DOMAIN published \ missed :
                    published[i].balance = b /\ published[i].contest = contest}
<1>1. Datagram(b, contest, missed) = IF S = {} THEN NoBallot ELSE published[Max(S)].ballot
  BY DEF Datagram
<1>2. S \in SUBSET (1 .. Len(published)) /\ Len(published) \in Nat
  BY DEF ChainOK
<1> HIDE DEF S
<1>3. S # {} => Max(S) \in 1 .. Len(published)
  BY <1>2, LastPlace
<1>4. \A i \in 1 .. Len(published) : published[i].ballot \in Ballots
  <2>1. \A i \in 1 .. Len(published) : published[i] \in Datagrams
    BY DEF ChainOK
  <2> QED
    BY <2>1 DEF Datagrams
<1> QED
  BY <1>1, <1>3, <1>4 DEF Answers

-----------------------------------------------------------------------------
(* The look-up.                                                            *)

LookStep ==
    \/ \E contest \in Contests : getDecision(contest)
    \/ ContestArrives
    \/ BalancesArrive
    \/ \E b \in DOMAIN held \cup ToSet(look.order) : DatagramArrives(b)
    \/ Decide

\* The steps that change the look-up, and those that do not.
LEMMA LookSteps ==
    ASSUME Next
    PROVE  \/ UNCHANGED look /\ (publisher' # publisher => publisher = "asked" /\ publisher' # "asked")
           \/ UNCHANGED publisher /\ LookStep
BY DEF Next, AppBegins, WalletAnswers, ChainMoves, getDecision, castPendingDecision,
   PublisherArrives, ContestArrives, BalancesArrive, DatagramArrives, Decide,
   CastBalancesArrive, DatagramPublished, PublishedElsewhere, Receive, Spend,
   getDecisionRecordById, OperationArrives, DetailArrives, LookStep

(* The kind of thing a look-up is.                                         *)
LookType(l) ==
    l \in [phase : {"contest", "balances", "datagrams", "done"},
           contest : Contests, order : Seq(Nat),
           answers : UNION {[S -> Answers] : S \in SUBSET Nat},
           found : Answers, alarm : BOOLEAN, from : Moments, to : Moments]

(* The look-up ends; the chain has not moved meanwhile.                    *)
Ends(l) == l = [look EXCEPT !.phase = "done", !.to = Moment']

\* Nothing else of it changes.
LEMMA LookEnds ==
    ASSUME ChainOK, ChainOK', Grown, LookOK, look # Idle, NEW l, Ends(l)
    PROVE  /\ LookType(l) /\ l.phase = "done" /\ l.contest = look.contest
           /\ l.order = look.order /\ l.answers = look.answers
           /\ l.found = look.found /\ l.alarm = look.alarm /\ l.from = look.from
           /\ l.to = Moment'
<1>1. PICK m : m = Moment'
  OBVIOUS
<1>2. m \in Moments
  BY <1>1 DEF Moment, Moments, ChainOK
<1>3. l = [look EXCEPT !.phase = "done", !.to = m]
  BY <1>1 DEF Ends
<1> QED
  BY <1>1, <1>2, <1>3 DEF LookOK, LookType

\* A look-up that has begun.
LEMMA LookIsTyped ==
    ASSUME LookOK, look # Idle
    PROVE  LookType(look)
BY DEF LookOK, LookType

(* What stays of a look-up from step to step.                              *)
Goes(l) == /\ LookType(l) /\ l.contest = look.contest /\ l.from = look.from

\* What the arrival of the contest does.
LEMMA ContestFacts ==
    ASSUME ChainOK, ChainOK', Grown, LookOK, ContestArrives
    PROVE  /\ look.phase = "contest" /\ look # Idle /\ publisher # "asked"
           /\ UNCHANGED publisher
           /\ \/ /\ Ends(look')
                 /\ publisher = "known" /\ Authentic(look.contest) => Moment' # Moment
              \/ /\ look'.phase = "balances" /\ Goes(look') /\ look'.answers = <<>>
                 /\ look'.found = NoBallot /\ look'.to = look.to
                 /\ UNCHANGED <<published, moves, failures>>
<1>1. look.phase = "contest" /\ look # Idle /\ publisher # "asked" /\ UNCHANGED <<published, publisher, moves>>
  BY DEF ContestArrives, Idle
<1>2. PICK ok \in BOOLEAN :
           /\ Answered(ok)
           /\ IF ok /\ publisher = "known" /\ Authentic(look.contest)
              THEN look' = [look EXCEPT !.phase = "balances"]
              ELSE NotFound
  BY DEF ContestArrives
<1>3. CASE ok /\ publisher = "known" /\ Authentic(look.contest)
  <2>1. look' = [look EXCEPT !.phase = "balances"] /\ failures' = failures
    BY <1>2, <1>3 DEF Answered
  <2> QED
    BY <1>1, <2>1 DEF LookOK, Goes, LookType
<1>4. CASE ~(ok /\ publisher = "known" /\ Authentic(look.contest))
  <2>1. Ends(look')
    BY <1>2, <1>4 DEF NotFound, Ends
  <2>2. ~ok => Moment' # Moment
    <3>1. ~ok => failures' = failures + 1
      BY <1>2, AnsweredCounts
    <3> QED
      BY <3>1 DEF Moment, ChainOK
  <2> QED
    BY <1>1, <1>4, <2>1, <2>2
<1> QED
  BY <1>3, <1>4

\* What the arrival of the balances does.
LEMMA BalancesFacts ==
    ASSUME ChainOK, ChainOK', Grown, LookOK, BalancesArrive
    PROVE  /\ look.phase = "balances" /\ look # Idle /\ UNCHANGED publisher
           /\ \/ /\ Ends(look')
                 /\ BalancesFor(look.contest) # {} => Moment' # Moment
              \/ /\ look'.phase = "datagrams" /\ Goes(look') /\ look'.answers = <<>>
                 /\ NewestFirst(look'.order)
                 /\ ToSet(look'.order) = BalancesFor(look.contest)
                 /\ look'.found = NoBallot /\ look'.to = look.to
                 /\ UNCHANGED <<held, published, moves, failures>>
<1>1. look.phase = "balances" /\ look # Idle /\ UNCHANGED <<held, published, publisher, moves>>
  BY DEF BalancesArrive, Idle
<1> DEFINE S == BalancesFor(look.contest)
<1>2. PICK ok \in BOOLEAN, listing \in SetToSeqs(S) :
           /\ Answered(ok)
           /\ IF ok /\ listing # <<>>
              THEN look' = [look EXCEPT !.phase = "datagrams",
                                        !.order = PromiseOrder(listing)]
              ELSE NotFound
  BY DEF BalancesArrive
<1>3. S \in SUBSET (1 .. created) /\ IsFiniteSet(S)
  BY BalancesInCoin
<1> HIDE DEF S
<1>4. listing \in Seq(S) /\ ToSet(listing) = S
  BY <1>3, ListingOfSet
<1>5. CASE ok /\ listing # <<>>
  <2> DEFINE order == PromiseOrder(listing)
  <2>1. look' = [look EXCEPT !.phase = "datagrams", !.order = order] /\ failures' = failures
    BY <1>2, <1>5 DEF Answered
  <2>2. listing \in Seq(Nat) /\ \A i \in DOMAIN listing : listing[i] > 0
    <3>1. \A x \in S : x \in Nat /\ x > 0
      BY <1>3 DEF ChainOK
    <3> QED
      BY <1>4, <3>1
  <2>3. order \in Seq(Nat) /\ ToSet(order) = S /\ NewestFirst(order)
    BY <1>4, <1>5, <2>2, OrderLeads
  <2> HIDE DEF order
  <2>4. LookType(look)
    BY <1>1, LookIsTyped
  <2> QED
    BY <1>1, <2>1, <2>3, <2>4 DEF LookOK, Goes, LookType, S
<1>6. CASE ~(ok /\ listing # <<>>)
  <2>1. Ends(look')
    BY <1>2, <1>6 DEF NotFound, Ends
  <2>2. ~ok => Moment' # Moment
    <3>1. ~ok => failures' = failures + 1
      BY <1>2, AnsweredCounts
    <3> QED
      BY <3>1 DEF Moment, ChainOK
  <2>3. listing = <<>> => S = {}
    BY <1>4 DEF ToSet
  <2> QED
    BY <1>1, <1>6, <2>1, <2>2, <2>3 DEF S
<1> QED
  BY <1>5, <1>6

\* What the arrival of a datagram does.
LEMMA DatagramFacts ==
    ASSUME LookupAssumption, ChainOK, ChainOK', Grown, LookOK, NEW b, DatagramArrives(b)
    PROVE  /\ look.phase = "datagrams" /\ look # Idle /\ UNCHANGED <<held, published, publisher>>
           /\ look'.phase = "datagrams" /\ Goes(look')
           /\ look'.order = look.order /\ look'.found = look.found /\ look'.to = look.to
           /\ b \in ToSet(look.order) /\ DOMAIN look'.answers = DOMAIN look.answers \cup {b}
           /\ \A a \in DOMAIN look.answers : a # b => look'.answers[a] = look.answers[a]
           /\ \/ UNCHANGED <<moves, failures>>
                 /\ look'.answers[b] = OnRecord(b, look.contest, Len(published))
              \/ failures' = failures + 1
<1>1. /\ look.phase = "datagrams" /\ look # Idle /\ b \in ToSet(look.order)
      /\ UNCHANGED <<held, published, publisher, moves>>
  BY DEF DatagramArrives, Idle
<1>2. PICK missed \in SUBSET {i \in DOMAIN published : published[i].balance = b} :
           /\ Answered(missed = {})
           /\ look' = [look EXCEPT !.answers =
                          [a \in DOMAIN @ \cup {b} |->
                              IF a = b THEN Datagram(b, look.contest, missed) ELSE @[a]]]
  BY DEF DatagramArrives
<1> DEFINE answer == Datagram(b, look.contest, missed)
           answers == [a \in DOMAIN look.answers \cup {b} |->
                          IF a = b THEN answer ELSE look.answers[a]]
<1>3. LookType(look)
  BY <1>1, LookIsTyped
<1>4. look' = [look EXCEPT !.answers = answers]
  BY <1>2
<1>5. answer \in Answers
  BY DatagramIsAnswer
<1>6. missed = {} => answer = OnRecord(b, look.contest, Len(published))
  BY DatagramIsCarried
<1> HIDE DEF answer
<1>7. DOMAIN answers = DOMAIN look.answers \cup {b} /\ answers[b] = answer
      /\ \A a \in DOMAIN look.answers : a # b => answers[a] = look.answers[a]
  OBVIOUS
<1>8. answers \in UNION {[S -> Answers] : S \in SUBSET Nat}
  <2>1. look.answers \in UNION {[S -> Answers] : S \in SUBSET Nat} /\ look.order \in Seq(Nat)
    BY <1>3 DEF LookType
  <2>2. PICK S \in SUBSET Nat : look.answers \in [S -> Answers]
    BY <2>1
  <2>3. b \in Nat
    BY <1>1, <2>1 DEF ToSet
  <2>4. answers \in [S \cup {b} -> Answers]
    BY <1>5, <2>2
  <2>5. S \cup {b} \in SUBSET Nat
    BY <2>3
  <2> HIDE DEF answers
  <2> QED
    BY <2>4, <2>5
<1> HIDE DEF answers
<1>9. Goes(look') /\ look'.phase = "datagrams" /\ look'.order = look.order
      /\ look'.found = look.found /\ look'.to = look.to /\ look'.answers = answers
  BY <1>1, <1>3, <1>4, <1>8 DEF Goes, LookType
<1>10. IF missed = {} THEN failures' = failures ELSE failures' = failures + 1
  BY <1>2 DEF Answered
<1> QED
  BY <1>1, <1>6, <1>7, <1>9, <1>10

(* The least place of some.                                                *)
LEMMA FirstPlace ==
    ASSUME NEW T \in SUBSET Nat, T # {}
    PROVE  Min(T) \in T /\ \A y \in T : Min(T) <= y
<1>1. PICK x \in T : \A y \in T : ~ (y < x)
  BY SmallestNumber
<1>2. \A y \in T : x <= y
  BY <1>1
<1>3. \E z \in T : \A y \in T : z =< y
  BY <1>2
<1> QED
  BY <1>3, Zenon DEF Min

\* What the decision does.
LEMMA DecideFacts ==
    ASSUME ChainOK, ChainOK', Grown, LookOK, Decide
    PROVE  /\ look.phase = "datagrams" /\ look # Idle
           /\ UNCHANGED <<held, published, publisher, moves, failures>>
           /\ look'.phase = "done" /\ Goes(look') /\ look'.to = Moment
           /\ look'.order = look.order /\ look'.answers = look.answers
           /\ DOMAIN look.answers = ToSet(look.order)
           /\ \/ /\ look'.found = NoBallot
                 /\ \A i \in DOMAIN look.order : look.answers[look.order[i]] = NoBallot
              \/ /\ look'.alarm = Stale(look.answers, look'.found)
                 /\ \E i \in DOMAIN look.order :
                        /\ look'.found = look.answers[look.order[i]]
                        /\ look'.found # NoBallot
                        /\ \A j \in DOMAIN look.order :
                               look.answers[look.order[j]] # NoBallot => i <= j
<1> DEFINE valid == {i \in DOMAIN look.order : look.answers[look.order[i]] # NoBallot}
           found == look.answers[look.order[Min(valid)]]
<1>1. /\ look.phase = "datagrams" /\ look # Idle
      /\ UNCHANGED <<held, published, publisher, moves, failures>>
      /\ DOMAIN look.answers = ToSet(look.order)
  BY DEF Decide, Idle
<1>2. look' = IF valid = {} THEN [look EXCEPT !.phase = "done", !.to = Moment]
              ELSE [look EXCEPT !.phase = "done", !.to = Moment, !.found = found,
                                !.alarm = Stale(look.answers, found)]
  BY Zenon DEF Decide
<1>3. LookType(look) /\ Moment \in Moments
  BY <1>1, LookIsTyped, MomentIsMoment
<1>4. CASE valid = {}
  <2>1. look' = [look EXCEPT !.phase = "done", !.to = Moment]
    BY <1>2, <1>4
  <2>2. \A i \in DOMAIN look.order : look.answers[look.order[i]] = NoBallot
    BY <1>4
  <2> HIDE DEF valid
  <2>3. look.found = NoBallot
    BY <1>1 DEF LookOK
  <2> QED
    BY <1>1, <1>3, <2>1, <2>2, <2>3 DEF Goes, LookType
<1>5. CASE valid # {}
  <2>1. valid \in SUBSET Nat
    BY <1>3 DEF LookType
  <2>2. look' = [look EXCEPT !.phase = "done", !.to = Moment, !.found = found,
                             !.alarm = Stale(look.answers, found)]
    BY <1>2, <1>5
  <2> DEFINE k == Min(valid)
  <2> HIDE DEF valid
  <2>3. k \in valid /\ \A y \in valid : k <= y
    BY <1>5, <2>1, FirstPlace
  <2> HIDE DEF k
  <2>4. k \in DOMAIN look.order /\ found = look.answers[look.order[k]] /\ found # NoBallot
        /\ \A j \in DOMAIN look.order : look.answers[look.order[j]] # NoBallot => k <= j
    BY <2>3 DEF valid, k
  <2> HIDE DEF found
  <2>5. found \in Answers
    <3>1. PICK S \in SUBSET Nat : look.answers \in [S -> Answers]
      BY <1>3 DEF LookType
    <3>2. look.order[k] \in DOMAIN look.answers
      BY <1>1, <2>4 DEF ToSet
    <3> QED
      BY <2>4, <3>1, <3>2
  <2>6. Stale(look.answers, found) \in BOOLEAN
    BY DEF Stale
  <2>7. LookType(look')
    BY <1>3, <2>2, <2>5, <2>6 DEF LookType
  <2>8. /\ look'.phase = "done" /\ look'.to = Moment /\ look'.found = found
        /\ look'.alarm = Stale(look.answers, found) /\ look'.contest = look.contest
        /\ look'.from = look.from /\ look'.order = look.order /\ look'.answers = look.answers
    BY <1>3, <2>2 DEF LookType
  <2> QED
    BY <1>1, <2>4, <2>7, <2>8 DEF Goes
<1> QED
  BY <1>4, <1>5

\* What the beginning does.
LEMMA BeginFacts ==
    ASSUME ChainOK, NEW contest \in Contests, getDecision(contest)
    PROVE  /\ UNCHANGED <<held, published, publisher, moves, failures>>
           /\ LookType(look') /\ look'.phase = "contest" /\ look'.contest = contest
           /\ look'.answers = <<>> /\ look'.found = NoBallot
           /\ look'.from = Moment /\ look'.to = Moment
<1>1. look' = [phase |-> "contest", contest |-> contest, order |-> <<>>,
               answers |-> <<>>, found |-> NoBallot, alarm |-> FALSE,
               from |-> Moment, to |-> Moment]
  BY DEF getDecision
<1>2. Moment \in Moments
  BY MomentIsMoment
<1>3. <<>> \in UNION {[S -> Answers] : S \in SUBSET Nat}
  <2>1. <<>> \in [{} -> Answers] /\ {} \in SUBSET Nat
    OBVIOUS
  <2> QED
    BY <2>1
<1>4. <<>> \in Seq(Nat) /\ NoBallot \in Answers
  BY DEF Answers
<1> QED
  BY <1>1, <1>2, <1>3, <1>4 DEF LookType, getDecision

(* A moment that is bounded stays so.                                      *)
LEMMA FromStays ==
    ASSUME ChainOK, ChainOK', Grown, LookOK, look # Idle
    PROVE  /\ look.from[1] <= Len(published') /\ look.from[2] <= moves'
           /\ look.from[3] <= failures'
           /\ look.to[1] <= Len(published') /\ look.to[2] <= moves'
           /\ look.to[3] <= failures'
<1>1. look.from \in Moments /\ look.to \in Moments /\ Bounded(look.from) /\ Bounded(look.to)
  BY DEF LookOK
<1>2. ASSUME NEW m \in Moments, Bounded(m)
      PROVE  m[1] <= Len(published') /\ m[2] <= moves' /\ m[3] <= failures'
  BY <1>2, MomentsStay DEF Bounded
<1> QED
  BY <1>1, <1>2

\* The look-up, whatever step is taken.
LEMMA LookKeeps ==
    ASSUME LookupAssumption, ChainOK, ChainOK', Grown, LookOK, Next
    PROVE  LookOK'
<1>1. CASE UNCHANGED look /\ (publisher' # publisher => publisher = "asked" /\ publisher' # "asked")
  <2>1. CASE look = Idle
    BY <1>1, <2>1 DEF LookOK
  <2>2. CASE look # Idle
    BY <1>1, <2>2, FromStays DEF LookOK, Bounded
  <2> QED
    BY <2>1, <2>2
<1>2. ASSUME NEW contest \in Contests, getDecision(contest) PROVE LookOK'
  <2>1. PICK m : m = Moment
    OBVIOUS
  <2>2. m \in Moments /\ Bounded(m)'
    BY <2>1, MomentIsMoment, MomentsStay
  <2> QED
    BY <1>2, <2>1, <2>2, BeginFacts DEF LookOK, LookType, Bounded
<1>3. ASSUME look # Idle, Ends(look'), look.phase # "datagrams",
             publisher # "asked", UNCHANGED publisher
      PROVE  LookOK'
  <2>1. /\ LookType(look') /\ look'.phase = "done" /\ look'.found = look.found
        /\ look'.from = look.from /\ look'.to = Moment' /\ look'.order = look.order
    BY <1>3, LookEnds
  <2>2. Bounded(look.from)
    BY <1>3 DEF LookOK
  <2>3. look.found # NoBallot => NewestFirst(look.order)
    BY <1>3 DEF LookOK
  <2>4. /\ Moment'[1] <= Len(published') /\ Moment'[2] <= moves' /\ Moment'[3] <= failures'
    BY DEF Moment, ChainOK
  <2> QED
    BY <1>3, <2>1, <2>3, <2>4, FromStays DEF LookOK, LookType, Bounded
<1>4. CASE ContestArrives
  <2>1. CASE Ends(look')
    BY <1>3, <1>4, <2>1, ContestFacts
  <2>2. CASE look'.phase = "balances" /\ Goes(look') /\ look'.answers = <<>>
             /\ look'.found = NoBallot /\ look'.to = look.to
    <3>1. look # Idle /\ publisher # "asked" /\ UNCHANGED publisher
      BY <1>4, ContestFacts
    <3> QED
      BY <2>2, <3>1, FromStays DEF LookOK, Goes, LookType, Bounded
  <2> QED
    BY <1>4, <2>1, <2>2, ContestFacts
<1>5. CASE BalancesArrive
  <2>1. CASE Ends(look')
    BY <1>3, <1>5, <2>1, BalancesFacts DEF LookOK
  <2>2. CASE look'.phase = "datagrams" /\ Goes(look') /\ look'.answers = <<>>
             /\ NewestFirst(look'.order) /\ look'.found = NoBallot /\ look'.to = look.to
    <3>1. look # Idle /\ publisher # "asked" /\ UNCHANGED publisher
      BY <1>5, BalancesFacts DEF LookOK
    <3>2. DOMAIN look'.answers = {}
      BY <2>2
    <3> QED
      BY <2>2, <3>1, <3>2, FromStays DEF LookOK, Goes, LookType, Bounded
  <2> QED
    BY <1>5, <2>1, <2>2, BalancesFacts
<1>6. ASSUME NEW b, DatagramArrives(b) PROVE LookOK'
  <2>1. /\ look.phase = "datagrams" /\ look # Idle /\ UNCHANGED publisher
        /\ look'.phase = "datagrams" /\ Goes(look')
        /\ look'.order = look.order /\ look'.found = look.found /\ look'.to = look.to
        /\ b \in ToSet(look.order) /\ DOMAIN look'.answers = DOMAIN look.answers \cup {b}
    BY <1>6, DatagramFacts
  <2>2. /\ NewestFirst(look.order) /\ DOMAIN look.answers \subseteq ToSet(look.order)
        /\ publisher # "asked" /\ look.found = NoBallot
    BY <2>1 DEF LookOK
  <2> QED
    BY <2>1, <2>2, FromStays DEF LookOK, Goes, LookType, Bounded
<1>7. CASE Decide
  <2>1. /\ look.phase = "datagrams" /\ look # Idle
        /\ UNCHANGED <<published, publisher, moves, failures>>
        /\ look'.phase = "done" /\ Goes(look') /\ look'.to = Moment /\ look'.order = look.order
    BY <1>7, DecideFacts
  <2>2. NewestFirst(look.order) /\ publisher # "asked"
    BY <2>1 DEF LookOK
  <2>3. Moment[1] <= Len(published) /\ Moment[2] <= moves /\ Moment[3] <= failures
    BY DEF Moment, ChainOK
  <2> QED
    BY <2>1, <2>2, <2>3, FromStays DEF LookOK, Goes, LookType, Bounded
<1> QED
  BY <1>1, <1>2, <1>4, <1>5, <1>6, <1>7, LookSteps DEF LookStep

LookInv == ChainInv /\ LookOK

\* The look-up as it begins.
LEMMA LookInvInit == ASSUME LookupAssumption, Init PROVE LookInv
BY ChainInvInit DEF LookInv, LookOK, Init

\* The look-up from step to step.
LEMMA LookInvNext ==
    ASSUME LookupAssumption, LookInv, [Next]_vars
    PROVE  LookInv' /\ Grown
<1>1. ChainInv' /\ Grown
  BY ChainInvNext DEF LookInv
<1>2. CASE Next
  BY <1>1, <1>2, LookKeeps DEF LookInv, ChainInv
<1>3. CASE UNCHANGED vars
  <2>1. Bounded(look.from) /\ look.from \in Moments => Bounded(look.from)'
    BY <1>3 DEF vars, Bounded
  <2>2. Bounded(look.to) /\ look.to \in Moments => Bounded(look.to)'
    BY <1>3 DEF vars, Bounded
  <2>3. LookOK'
    BY <1>3, <2>1, <2>2 DEF vars, LookInv, LookOK
  <2> QED
    BY <1>1, <2>3 DEF LookInv
<1> QED
  BY <1>1, <1>2, <1>3

-----------------------------------------------------------------------------
(* What is found was on record.                                            *)

(* While no call has failed an answer is what its balance carried for the  *)
(* contest at some moment since the look-up began.                         *)
Since(l, log, answer, b) ==
    \E n \in l.from[1] .. Len(log) : answer = CarriedIn(log, b, l.contest, n)

AnswersCarried(l, log) ==
    \A b \in DOMAIN l.answers : Since(l, log, l.answers[b], b)

(* So what was found is what the first of the balances carried.            *)
FoundCarried(l, log) ==
    l.from[3] = l.to[3] /\ CarriedIn(log, l.order[1], l.contest, l.from[1]) # NoBallot
        => \E n \in l.from[1] .. l.to[1] : l.found = CarriedIn(log, l.order[1], l.contest, n)

FoundInv ==
    /\ LookInv
    /\ look.phase = "datagrams" /\ look.from[3] = failures => AnswersCarried(look, published)
    /\ Found => FoundCarried(look, published)

\* What was carried at a moment stays so as the log grows.
LEMMA CarriedKept ==
    ASSUME ChainOK, Grown, NEW b, NEW contest, NEW n \in 0 .. Len(published)
    PROVE  CarriedIn(published', b, contest, n) = CarriedIn(published, b, contest, n)
<1>1. n \in Nat /\ \A i \in 1 .. n : published'[i] = published[i]
  BY DEF ChainOK, Grown
<1> QED
  BY <1>1, CarriedInPrefix

\* An answer that was on record stays one that was.
LEMMA SinceKept ==
    ASSUME ChainOK, ChainOK', Grown, NEW l, l.from \in Moments, NEW b, NEW answer,
           Since(l, published, answer, b)
    PROVE  Since(l, published', answer, b)
<1>1. PICK n \in l.from[1] .. Len(published) : answer = CarriedIn(published, b, l.contest, n)
  BY DEF Since
<1>2. l.from[1] \in Nat /\ Len(published) \in Nat /\ Len(published') \in Nat
      /\ Len(published) <= Len(published')
  BY DEF Moments, ChainOK, Grown
<1>3. n \in 0 .. Len(published) /\ n \in l.from[1] .. Len(published')
  BY <1>2
<1>4. answer = CarriedIn(published', b, l.contest, n)
  BY <1>1, <1>3, CarriedKept
<1> QED
  BY <1>3, <1>4 DEF Since

\* So does what was found.
LEMMA FoundKept ==
    ASSUME ChainOK, Grown, NEW l, l.from \in Moments, l.to \in Moments,
           l.from[1] <= Len(published), l.to[1] <= Len(published),
           FoundCarried(l, published)
    PROVE  FoundCarried(l, published')
<1>1. l.from[1] \in 0 .. Len(published) /\ l.to[1] \in Nat /\ Len(published) \in Nat
  BY DEF Moments, ChainOK
<1>2. \A n \in l.from[1] .. l.to[1] : n \in 0 .. Len(published)
  BY <1>1
<1>3. \A n \in 0 .. Len(published) :
         CarriedIn(published', l.order[1], l.contest, n) = CarriedIn(published, l.order[1], l.contest, n)
  BY CarriedKept
<1> QED
  BY <1>1, <1>2, <1>3 DEF FoundCarried

(* The newest of the balances leads the order.                             *)
LEMMA NewestLeads ==
    ASSUME NEW order \in Seq(Nat), NewestFirst(order)
    PROVE  Max(ToSet(order)) = order[1] /\ order[1] \in ToSet(order) /\ 1 \in DOMAIN order
<1>1. 1 \in DOMAIN order /\ order[1] \in ToSet(order)
  BY DEF NewestFirst, ToSet
<1>2. \A b \in ToSet(order) : b \in Nat /\ order[1] >= b
  BY <1>1 DEF NewestFirst, ToSet
<1>3. Max(ToSet(order)) \in ToSet(order) /\ \A y \in ToSet(order) : Max(ToSet(order)) >= y
  <2>1. \E x \in ToSet(order) : \A y \in ToSet(order) : x >= y
    BY <1>1, <1>2
  <2> QED
    BY <2>1, Zenon DEF Max
<1>4. \A p, q \in Nat : p >= q /\ q >= p => p = q
  OBVIOUS
<1> QED
  BY <1>1, <1>2, <1>3, <1>4

\* The invariant says what the property says.
LEMMA FoundInvImplies ==
    ASSUME FoundInv
    PROVE  FoundWasOnRecord
<1> SUFFICES ASSUME Found, look.from[3] = look.to[3],
                    OnRecord(Max(ToSet(look.order)), look.contest, look.from[1]) # NoBallot
             PROVE  \E n \in look.from[1] .. look.to[1] :
                       look.found = OnRecord(Max(ToSet(look.order)), look.contest, n)
  BY DEF FoundWasOnRecord
<1>1. look # Idle /\ look.order \in Seq(Nat) /\ NewestFirst(look.order)
  BY DEF FoundInv, LookInv, LookOK, Found, Idle
<1>2. Max(ToSet(look.order)) = look.order[1]
  BY <1>1, NewestLeads
<1>3. FoundCarried(look, published)
  BY DEF FoundInv
<1> QED
  BY <1>2, <1>3, OnRecordIsCarried DEF FoundCarried

\* It holds from step to step.
LEMMA FoundInvNext ==
    ASSUME LookupAssumption, FoundInv, [Next]_vars
    PROVE  FoundInv'
<1>1. LookInv' /\ Grown /\ ChainOK /\ ChainOK' /\ LookOK
  BY LookInvNext DEF FoundInv, LookInv, ChainInv
<1>2. CASE UNCHANGED look
  <2>1. CASE look = Idle
    BY <1>1, <1>2, <2>1 DEF FoundInv, Idle, Found
  <2>2. CASE look # Idle
    <3>1. look.from \in Moments /\ look.to \in Moments /\ Bounded(look.from) /\ Bounded(look.to)
      BY <1>1, <2>2 DEF LookOK
    <3>2. PICK l : l = look
      OBVIOUS
    <3>3. look.from[3] = failures' => look.from[3] = failures
      BY <1>1, <3>1 DEF Moments, Bounded, Grown, ChainOK
    <3>4. AnswersCarried(l, published) => AnswersCarried(l, published')
      BY <1>1, <3>1, <3>2, SinceKept DEF AnswersCarried
    <3>5. FoundCarried(l, published) => FoundCarried(l, published')
      BY <1>1, <3>1, <3>2, FoundKept DEF Bounded
    <3> QED
      BY <1>1, <1>2, <3>2, <3>3, <3>4, <3>5 DEF FoundInv, Found
  <2> QED
    BY <2>1, <2>2
<1>3. ASSUME look'.phase \notin {"datagrams", "done"} PROVE FoundInv'
  BY <1>1, <1>3 DEF FoundInv, Found
<1>4. ASSUME look # Idle, look.phase # "datagrams", look.phase # "done", Ends(look') PROVE FoundInv'
  <2>1. look'.found = look.found /\ look'.phase = "done" /\ look.found = NoBallot
    BY <1>1, <1>4, LookEnds DEF LookOK
  <2> QED
    BY <1>1, <2>1 DEF FoundInv, Found
<1>5. CASE ContestArrives
  BY <1>1, <1>3, <1>4, <1>5, ContestFacts
<1>6. CASE BalancesArrive
  <2>1. CASE Ends(look')
    BY <1>1, <1>4, <1>6, <2>1, BalancesFacts
  <2>2. CASE ~Ends(look')
    <3>1. look'.phase = "datagrams" /\ look'.answers = <<>>
      BY <1>1, <1>6, <2>2, BalancesFacts
    <3>2. DOMAIN look'.answers = {}
      BY <3>1
    <3> QED
      BY <1>1, <3>1, <3>2 DEF FoundInv, Found, AnswersCarried
  <2> QED
    BY <2>1, <2>2
<1>7. ASSUME NEW b, DatagramArrives(b) PROVE FoundInv'
  <2>1. /\ look.phase = "datagrams" /\ look # Idle /\ UNCHANGED published
        /\ look'.phase = "datagrams" /\ Goes(look')
        /\ DOMAIN look'.answers = DOMAIN look.answers \cup {b}
        /\ \A a \in DOMAIN look.answers : a # b => look'.answers[a] = look.answers[a]
        /\ \/ UNCHANGED <<moves, failures>>
              /\ look'.answers[b] = OnRecord(b, look.contest, Len(published))
           \/ failures' = failures + 1
    BY <1>1, <1>7, DatagramFacts
  <2>2. look.from \in Moments /\ Bounded(look.from)
    BY <1>1, <2>1 DEF LookOK
  <2>3. CASE failures' = failures + 1
    <3>1. look'.from[3] # failures'
      BY <1>1, <2>1, <2>2, <2>3 DEF Goes, Moments, Bounded, ChainOK
    <3> QED
      BY <1>1, <2>1, <3>1 DEF FoundInv, Found
  <2>4. CASE UNCHANGED failures /\ look'.answers[b] = OnRecord(b, look.contest, Len(published))
    <3>1. Since(look, published, look'.answers[b], b)
      <4>1. Len(published) \in look.from[1] .. Len(published)
        BY <1>1, <2>2 DEF Moments, Bounded, ChainOK
      <4> QED
        BY <2>4, <4>1, OnRecordIsCarried DEF Since
    <3>2. look.from[3] = failures =>
            \A a \in DOMAIN look'.answers : Since(look, published, look'.answers[a], a)
      BY <2>1, <3>1 DEF FoundInv, AnswersCarried
    <3>3. \A a : Since(look, published, look'.answers[a], a) = Since(look', published', look'.answers[a], a)
      BY <2>1 DEF Since, Goes
    <3> QED
      BY <1>1, <2>1, <2>4, <3>2, <3>3 DEF FoundInv, Found, AnswersCarried, Goes
  <2> QED
    BY <2>1, <2>3, <2>4
<1>8. CASE Decide
  <2>1. /\ look.phase = "datagrams" /\ look # Idle
        /\ UNCHANGED <<held, published, publisher, moves, failures>>
        /\ look'.phase = "done" /\ Goes(look') /\ look'.to = Moment
        /\ look'.order = look.order /\ look'.answers = look.answers
        /\ DOMAIN look.answers = ToSet(look.order)
        /\ \/ /\ look'.found = NoBallot
              /\ \A i \in DOMAIN look.order : look.answers[look.order[i]] = NoBallot
           \/ /\ look'.alarm = Stale(look.answers, look'.found)
              /\ \E i \in DOMAIN look.order :
                        /\ look'.found = look.answers[look.order[i]]
                        /\ look'.found # NoBallot
                        /\ \A j \in DOMAIN look.order :
                               look.answers[look.order[j]] # NoBallot => i <= j
    BY <1>1, <1>8, DecideFacts
  <2>2. SUFFICES ASSUME look'.found # NoBallot, look.from[3] = failures,
                        CarriedIn(published, look.order[1], look.contest, look.from[1]) # NoBallot
                 PROVE  \E n \in look.from[1] .. Len(published) :
                           look'.found = CarriedIn(published, look.order[1], look.contest, n)
    BY <1>1, <2>1 DEF FoundInv, Found, FoundCarried, Goes, Moment
  <2>3. look.order \in Seq(Nat) /\ NewestFirst(look.order) /\ look.from \in Moments
        /\ Bounded(look.from)
    BY <1>1, <2>1 DEF LookOK
  <2>4. look.order[1] \in ToSet(look.order) /\ 1 \in DOMAIN look.order
    BY <2>3, NewestLeads
  <2>5. PICK i \in DOMAIN look.order :
            /\ look'.found = look.answers[look.order[i]]
            /\ \A j \in DOMAIN look.order : look.answers[look.order[j]] # NoBallot => i <= j
    BY <2>1, <2>2
  <2>6. Since(look, published, look.answers[look.order[1]], look.order[1])
    BY <2>1, <2>2, <2>4 DEF FoundInv, AnswersCarried
  <2>7. PICK n \in look.from[1] .. Len(published) :
            look.answers[look.order[1]] = CarriedIn(published, look.order[1], look.contest, n)
    BY <2>6 DEF Since
  <2>8. CarriedIn(published, look.order[1], look.contest, n) # NoBallot
    <3>1. look.from[1] \in 0 .. Len(published)
      BY <1>1, <2>3 DEF Moments, Bounded, ChainOK
    <3> QED
      BY <1>1, <2>2, <3>1, CarriedOn, OnRecordIsCarried
  <2>9. i <= 1 /\ i \in Nat /\ i >= 1
    BY <2>3, <2>4, <2>5, <2>7, <2>8
  <2>10. i = 1
    BY <2>9
  <2> QED
    BY <2>5, <2>7, <2>10
<1>9. ASSUME NEW contest \in Contests, getDecision(contest) PROVE FoundInv'
  BY <1>1, <1>3, <1>9, BeginFacts
<1> QED
  <2>1. CASE UNCHANGED vars
    BY <1>2, <2>1 DEF vars
  <2>2. CASE Next
    BY <1>2, <1>5, <1>6, <1>7, <1>8, <1>9, <2>2, LookSteps DEF LookStep
  <2> QED
    BY <2>1, <2>2

(* FoundWasOnRecord: what _getDecision finds is what the newest balance    *)
(* carried at a moment while it looked.                                    *)
THEOREM FoundWasOnRecordCorrect == Spec => []FoundWasOnRecord
<1>1. Init => FoundInv
  BY LookupAssumption, LookInvInit DEF Init, FoundInv, Found, Idle
<1>2. FoundInv /\ [Next]_vars => FoundInv'
  BY LookupAssumption, FoundInvNext
<1>3. FoundInv => FoundWasOnRecord
  BY FoundInvImplies
<1> QED
  BY <1>1, <1>2, <1>3, PTL DEF Spec

-----------------------------------------------------------------------------
(* The alarm.                                                              *)

(* Two moments are equal only if nothing has happened between them.        *)
LEMMA FromBefore ==
    ASSUME LookInv, LookInv', Grown, look # Idle, look'.from = look.from, look'.from = Moment'
    PROVE  look.from = Moment /\ Moment' = Moment
           /\ UNCHANGED <<held, published, moves, failures>>
<1>1. look.from \in Moments /\ Bounded(look.from)
  BY DEF LookInv, LookOK
<1>2. PICK p, q, r \in Nat : look.from = <<p, q, r>>
  BY <1>1 DEF Moments
<1>3. p <= Len(published) /\ q <= moves /\ r <= failures
  <2>1. look.from[1] = p /\ look.from[2] = q /\ look.from[3] = r
    <3>1. PICK m : m = look.from
      OBVIOUS
    <3>2. m = <<p, q, r>>
      BY <1>2, <3>1
    <3>3. m[1] = p /\ m[2] = q /\ m[3] = r
      BY <3>2
    <3> QED
      BY <3>1, <3>3
  <2> QED
    BY <1>1, <2>1 DEF Bounded
<1>4. p = Len(published') /\ q = moves' /\ r = failures'
  <2>1. <<p, q, r>> = <<Len(published'), moves', failures'>>
    BY <1>2 DEF Moment
  <2> QED
    BY <2>1
<1>5. Len(published) \in Nat /\ moves \in Nat /\ failures \in Nat
      /\ Len(published) <= Len(published') /\ moves <= moves' /\ failures <= failures'
  BY DEF Grown, LookInv, ChainInv, ChainOK
<1>6. p = Len(published) /\ q = moves /\ r = failures
  BY <1>3, <1>4, <1>5
<1>7. look.from = Moment /\ Moment' = Moment
  BY <1>2, <1>4, <1>6 DEF Moment
<1> QED
  BY <1>7 DEF Grown

(* The balances of the account in the contest's coin.                      *)
In(h, contest) == {b \in DOMAIN h : h[b].coin = Operation[contest].coin}

Agrees(l, h, log) ==
    /\ ToSet(l.order) = In(h, l.contest)
    /\ \A b \in DOMAIN l.answers : l.answers[b] = CarriedIn(log, b, l.contest, Len(log))

Disagree(l, h, log) ==
    \E a, b \in In(h, l.contest) :
        CarriedIn(log, a, l.contest, Len(log)) # CarriedIn(log, b, l.contest, Len(log))

(* While nothing has happened since the look-up began the answers are what *)
(* the balances carry.                                                     *)
AlarmInv ==
    /\ LookInv
    /\ look.phase = "datagrams" /\ look.from = Moment => Agrees(look, held, published)
    /\ Found /\ look.from = Moment => (look.alarm <=> Disagree(look, held, published))

\* The invariant says what the property says.
LEMMA AlarmInvImplies ==
    ASSUME AlarmInv
    PROVE  AlarmMeansDisagreement
BY OnRecordIsCarried DEF AlarmInv, AlarmMeansDisagreement, Disagree, In, BalancesFor

\* It holds from step to step.
LEMMA AlarmInvNext ==
    ASSUME LookupAssumption, AlarmInv, [Next]_vars
    PROVE  AlarmInv'
<1>1. LookInv' /\ Grown /\ LookInv /\ ChainOK /\ ChainOK' /\ LookOK
  BY LookInvNext DEF AlarmInv, LookInv, ChainInv
<1>2. CASE UNCHANGED look
  <2>1. CASE look = Idle
    BY <1>1, <1>2, <2>1 DEF AlarmInv, Idle, Found
  <2>2. CASE look # Idle
    <3>1. look'.from = Moment' => look.from = Moment /\ UNCHANGED <<held, published>>
      BY <1>1, <1>2, <2>2, FromBefore
    <3>2. CASE look'.from = Moment'
      BY <1>1, <1>2, <3>1, <3>2 DEF AlarmInv, Found
    <3>3. CASE look'.from # Moment'
      BY <1>1, <3>3 DEF AlarmInv
    <3> QED
      BY <3>2, <3>3
  <2> QED
    BY <2>1, <2>2
<1>3. ASSUME look'.phase \notin {"datagrams", "done"} PROVE AlarmInv'
  BY <1>1, <1>3 DEF AlarmInv, Found
<1>4. ASSUME look # Idle, look.phase # "datagrams", look.phase # "done", Ends(look') PROVE AlarmInv'
  <2>1. look'.found = look.found /\ look'.phase = "done" /\ look.found = NoBallot
    BY <1>1, <1>4, LookEnds DEF LookOK
  <2> QED
    BY <1>1, <2>1 DEF AlarmInv, Found
<1>5. CASE ContestArrives
  BY <1>1, <1>3, <1>4, <1>5, ContestFacts
<1>6. CASE BalancesArrive
  <2>1. CASE Ends(look')
    BY <1>1, <1>4, <1>6, <2>1, BalancesFacts
  <2>2. CASE ~Ends(look')
    <3>1. look'.phase = "datagrams" /\ look'.answers = <<>> /\ Goes(look')
          /\ ToSet(look'.order) = BalancesFor(look.contest) /\ UNCHANGED <<held, published>>
      BY <1>1, <1>6, <2>2, BalancesFacts
    <3>2. DOMAIN look'.answers = {}
      BY <3>1
    <3>3. Agrees(look', held', published')
      BY <3>1, <3>2 DEF Agrees, In, BalancesFor, Goes
    <3> QED
      BY <1>1, <3>1, <3>3 DEF AlarmInv, Found
  <2> QED
    BY <2>1, <2>2
<1>7. ASSUME NEW b, DatagramArrives(b) PROVE AlarmInv'
  <2>1. /\ look.phase = "datagrams" /\ look # Idle /\ UNCHANGED <<held, published>>
        /\ look'.phase = "datagrams" /\ Goes(look') /\ look'.order = look.order
        /\ DOMAIN look'.answers = DOMAIN look.answers \cup {b}
        /\ \A a \in DOMAIN look.answers : a # b => look'.answers[a] = look.answers[a]
        /\ \/ UNCHANGED <<moves, failures>>
              /\ look'.answers[b] = OnRecord(b, look.contest, Len(published))
           \/ failures' = failures + 1
    BY <1>1, <1>7, DatagramFacts
  <2>2. SUFFICES ASSUME look'.from = Moment' PROVE Agrees(look', held', published')
    BY <1>1, <2>1 DEF AlarmInv, Found
  <2>3. look.from = Moment /\ UNCHANGED failures
    BY <1>1, <2>1, <2>2, FromBefore DEF Goes
  <2>4. failures \in Nat
    BY <1>1 DEF ChainOK
  <2>5. look'.answers[b] = CarriedIn(published, b, look.contest, Len(published))
    BY <2>1, <2>3, <2>4, OnRecordIsCarried
  <2> QED
    BY <2>1, <2>3, <2>5 DEF AlarmInv, Agrees, Goes
<1>8. CASE Decide
  <2>1. /\ look.phase = "datagrams" /\ look # Idle
        /\ UNCHANGED <<held, published, publisher, moves, failures>>
        /\ look'.phase = "done" /\ Goes(look')
        /\ look'.order = look.order /\ look'.answers = look.answers
        /\ DOMAIN look.answers = ToSet(look.order)
        /\ look'.found = NoBallot \/
              /\ look'.alarm = Stale(look.answers, look'.found)
              /\ \E i \in DOMAIN look.order : look'.found = look.answers[look.order[i]]
    BY <1>1, <1>8, DecideFacts
  <2>2. SUFFICES ASSUME look'.found # NoBallot, look'.from = Moment'
                 PROVE  look'.alarm <=> Disagree(look', held', published')
    BY <1>1, <2>1 DEF AlarmInv, Found
  <2>3. look.from = Moment
    BY <1>1, <2>1, <2>2, FromBefore DEF Goes
  <2>4. Agrees(look, held, published)
    BY <2>1, <2>3 DEF AlarmInv
  <2>5. PICK i \in DOMAIN look.order : look'.found = look.answers[look.order[i]]
    BY <2>1, <2>2
  <2>6. look.order[i] \in In(held, look.contest)
    BY <2>4 DEF Agrees, ToSet
  <2>7. \A b \in In(held, look.contest) :
            look.answers[b] = CarriedIn(published, b, look.contest, Len(published))
    BY <2>1, <2>4 DEF Agrees
  <2>8. Stale(look.answers, look'.found) <=> Disagree(look, held, published)
    <3>1. ASSUME Stale(look.answers, look'.found) PROVE Disagree(look, held, published)
      <4>1. PICK b \in In(held, look.contest) : look.answers[b] # look'.found
        BY <2>1, <2>4, <3>1 DEF Stale, Agrees
      <4> QED
        BY <2>5, <2>6, <2>7, <4>1 DEF Disagree
    <3>2. ASSUME Disagree(look, held, published) PROVE Stale(look.answers, look'.found)
      <4>1. PICK a, b \in In(held, look.contest) : look.answers[a] # look.answers[b]
        BY <2>7, <3>2 DEF Disagree
      <4>2. a \in DOMAIN look.answers /\ b \in DOMAIN look.answers
        BY <2>1, <2>4 DEF Agrees
      <4> QED
        BY <4>1, <4>2 DEF Stale
    <3> QED
      BY <3>1, <3>2
  <2>9. Disagree(look', held', published') <=> Disagree(look, held, published)
    BY <2>1 DEF Disagree, Goes
  <2>10. look'.alarm <=> Stale(look.answers, look'.found)
    BY <2>1, <2>2
  <2> QED
    BY <2>8, <2>9, <2>10
<1>9. ASSUME NEW contest \in Contests, getDecision(contest) PROVE AlarmInv'
  BY <1>1, <1>3, <1>9, BeginFacts
<1> QED
  <2>1. CASE UNCHANGED vars
    BY <1>2, <2>1 DEF vars
  <2>2. CASE Next
    BY <1>2, <1>5, <1>6, <1>7, <1>8, <1>9, <2>2, LookSteps DEF LookStep
  <2> QED
    BY <2>1, <2>2

\* It holds as the app begins.
LEMMA AlarmInvInit == ASSUME LookupAssumption, Init PROVE AlarmInv
BY LookInvInit DEF Init, AlarmInv, Found, Idle

(* AlarmMeansDisagreement: contestActionRequired is emitted just when the  *)
(* balances disagree.                                                      *)
THEOREM AlarmMeansDisagreementCorrect == Spec => []AlarmMeansDisagreement
<1>1. Init => AlarmInv
  BY LookupAssumption, AlarmInvInit
<1>2. AlarmInv /\ [Next]_vars => AlarmInv'
  BY LookupAssumption, AlarmInvNext
<1>3. AlarmInv => AlarmMeansDisagreement
  BY AlarmInvImplies
<1> QED
  BY <1>1, <1>2, <1>3, PTL DEF Spec

-----------------------------------------------------------------------------
(* Casts.                                                                  *)

(* The balances that the cast has published on so far.                     *)
Carrying(c) == c.balances \ c.todo

(* The moment at which the cast is here when nothing else has happened.    *)
Alone(c, m) == m = <<c.from[1] + Cardinality(Carrying(c)), c.from[2], c.from[3]>>

AllCarry(c, h, log) ==
    /\ c.balances = In(h, c.contest)
    /\ \A b \in Carrying(c) : CarriedIn(log, b, c.contest, Len(log)) = c.ballot

(* Every balance on which the cast has published is a datagram more; while *)
(* these are all that happened, the balances are those it began with and   *)
(* carry its ballot.                                                       *)
Standing ==
    cast.phase \in {"publishing", "done"} /\ ~cast.lost =>
        /\ cast.from[1] + Cardinality(Carrying(cast)) <= Len(published)
        /\ Alone(cast, Moment) => AllCarry(cast, held, published)

Complete ==
    /\ cast.phase \in {"publishing", "done"} => cast.balances # {}
    /\ cast.phase = "done" => cast.todo = {} /\ ~cast.lost

CastInv == LookInv /\ Complete /\ Standing

(* Appending a datagram leaves what the other balances carry.              *)
LEMMA PublishCarries ==
    ASSUME ChainOK, ChainOK', NEW b, NEW contest, NEW ballot, Publish(b, contest, ballot)
    PROVE  /\ CarriedIn(published', b, contest, Len(published')) = ballot
           /\ \A a : a # b => CarriedIn(published', a, contest, Len(published'))
                                = CarriedIn(published, a, contest, Len(published))
<1> DEFINE d == [balance |-> b, contest |-> contest, ballot |-> ballot]
           n == Len(published)
<1>1. published' = Append(published, d)
  BY DEF Publish
<1>2. /\ n \in Nat /\ Len(published') = n + 1 /\ published'[n + 1] = d
      /\ \A i \in 1 .. n : published'[i] = published[i]
  BY <1>1 DEF ChainOK
<1>3. d.balance = b /\ d.contest = contest /\ d.ballot = ballot
  OBVIOUS
<1> HIDE DEF d
<1>4. CarriedIn(published', b, contest, n + 1) = ballot
  <2> DEFINE S == Upto(published', b, contest, n + 1)
  <2>1. n + 1 \in S /\ S \in SUBSET (1 .. n + 1) /\ n + 1 \in Nat
    BY <1>2, <1>3 DEF Upto
  <2> HIDE DEF S
  <2> DEFINE m == Max(S)
  <2>2. m \in S /\ n + 1 <= m
    BY <2>1, LastPlace
  <2> HIDE DEF m
  <2>3. m = n + 1
    <3>1. m \in 1 .. n + 1
      BY <2>1, <2>2
    <3> QED
      BY <1>2, <2>2, <3>1
  <2>4. S # {} /\ Max(S) = n + 1
    BY <2>1, <2>3 DEF m
  <2> QED
    BY <1>2, <1>3, <2>4 DEF CarriedIn, S
<1>5. ASSUME NEW a, a # b
      PROVE  CarriedIn(published', a, contest, n + 1) = CarriedIn(published, a, contest, n)
  <2> DEFINE S == Upto(published', a, contest, n + 1)
  <2>1. S = Upto(published, a, contest, n)
    <3>1. \A i \in 1 .. n + 1 : i \in 1 .. n \/ i = n + 1
      BY <1>2
    <3>2. \A i \in 1 .. n : i \in 1 .. n + 1
      BY <1>2
    <3> QED
      BY <1>2, <1>3, <1>5, <3>1, <3>2 DEF Upto
  <2>2. S \in SUBSET (1 .. n)
    BY <2>1 DEF Upto
  <2> HIDE DEF S
  <2>3. S # {} => Max(S) \in 1 .. n
    BY <1>2, <2>2, LastPlace
  <2>4. S # {} => published'[Max(S)].ballot = published[Max(S)].ballot
    BY <1>2, <2>3
  <2>5. CarriedIn(published', a, contest, n + 1) = IF S = {} THEN NoBallot ELSE published'[Max(S)].ballot
    BY DEF CarriedIn, S
  <2>6. CarriedIn(published, a, contest, n) = IF S = {} THEN NoBallot ELSE published[Max(S)].ballot
    BY <2>1 DEF CarriedIn
  <2> QED
    BY <2>4, <2>5, <2>6
<1> QED
  BY <1>2, <1>4, <1>5

(* Two moments: whatever has been counted has been counted.                *)
LEMMA AloneBefore ==
    ASSUME ChainOK, ChainOK', Grown, NEW c, c.from \in Moments, Cardinality(Carrying(c)) \in Nat,
           c.from[1] + Cardinality(Carrying(c)) <= Len(published),
           c.from[2] <= moves, c.from[3] <= failures,
           Alone(c, Moment')
    PROVE  Alone(c, Moment) /\ Moment' = Moment
<1> DEFINE k == Cardinality(Carrying(c))
<1>1. PICK p, q, r \in Nat : c.from = <<p, q, r>>
  BY DEF Moments
<1>2. c.from[1] = p /\ c.from[2] = q /\ c.from[3] = r
  BY <1>1
<1> HIDE DEF k
<1>3. k \in Nat /\ p + k <= Len(published) /\ q <= moves /\ r <= failures
  BY <1>2 DEF k
<1>4. <<Len(published'), moves', failures'>> = <<p + k, q, r>>
  BY <1>2 DEF Moment, Alone, k
<1>5. Len(published') = p + k /\ moves' = q /\ failures' = r
  BY <1>4
<1>6. Len(published) \in Nat /\ moves \in Nat /\ failures \in Nat
      /\ Len(published') \in Nat /\ moves' \in Nat /\ failures' \in Nat
      /\ Len(published) <= Len(published') /\ moves <= moves' /\ failures <= failures'
  BY DEF Grown, ChainOK
<1>7. Len(published) = p + k /\ moves = q /\ failures = r
  BY <1>3, <1>5, <1>6
<1> QED
  BY <1>2, <1>5, <1>7 DEF Moment, Alone, k

\* What a cast has done stands while others move.
LEMMA StandingStays ==
    ASSUME LookInv, LookInv', Grown, Standing, UNCHANGED cast
    PROVE  Standing'
<1> SUFFICES ASSUME cast.phase \in {"publishing", "done"}, ~cast.lost
             PROVE  Standing'
  BY DEF Standing
<1>1. ChainOK /\ ChainOK' /\ cast # Idle
  BY DEF LookInv, ChainInv, Idle
<1>2. PICK c : c = cast
  OBVIOUS
<1>3. c.from \in Moments /\ c.from[2] <= moves /\ c.from[3] <= failures /\ IsFiniteSet(c.balances)
  BY <1>1, <1>2 DEF LookInv, ChainInv, CastOK, Bounded
<1>4. Cardinality(Carrying(c)) \in Nat
  <2>1. Carrying(c) \in SUBSET c.balances
    BY DEF Carrying
  <2> QED
    BY <1>3, <2>1, FS_Subset, FS_CardinalityType
<1>5. c.from[1] + Cardinality(Carrying(c)) <= Len(published)
      /\ (Alone(c, Moment) => AllCarry(c, held, published))
  BY <1>2 DEF Standing
<1>6. c.from[1] + Cardinality(Carrying(c)) <= Len(published')
  <2>1. c.from[1] \in Nat
    BY <1>3 DEF Moments
  <2> QED
    BY <1>1, <1>4, <1>5, <2>1 DEF Grown, ChainOK
<1>7. Alone(c, Moment') => Alone(c, Moment) /\ Moment' = Moment
  BY <1>1, <1>3, <1>4, <1>5, AloneBefore
<1>8. Alone(c, Moment') => AllCarry(c, held', published')
  BY <1>5, <1>7 DEF Grown
<1> QED
  BY <1>2, <1>6, <1>8 DEF Standing

CastStep ==
    \/ \E contest \in Genuine, ballot \in Ballots : castPendingDecision(contest, ballot)
    \/ CastBalancesArrive
    \/ \E b \in cast.todo : DatagramPublished(b)

\* The steps that change the cast, and those that do not.
LEMMA CastSteps ==
    ASSUME Next
    PROVE  UNCHANGED cast \/ (UNCHANGED <<held, look>> /\ CastStep)
BY DEF Next, AppBegins, WalletAnswers, ChainMoves, getDecision, getDecisionRecordById,
   PublisherArrives, ContestArrives, BalancesArrive, DatagramArrives, Decide,
   OperationArrives, DetailArrives, PublishedElsewhere, Receive, Spend,
   castPendingDecision, CastBalancesArrive, DatagramPublished, CastStep

\* What a publication does.
LEMMA PublishedFacts ==
    ASSUME LookInv, Complete, NEW b, DatagramPublished(b)
    PROVE  /\ cast.phase = "publishing" /\ cast # Idle /\ b \in cast.todo
           /\ UNCHANGED <<held, moves, look>>
           /\ cast'.contest = cast.contest /\ cast'.ballot = cast.ballot
           /\ cast'.balances = cast.balances /\ cast'.from = cast.from
           /\ cast'.todo = cast.todo \ {b} /\ cast'.to = Moment'
           /\ cast'.phase \in {"publishing", "failed", "done"}
           /\ cast'.phase = "done" => cast'.todo = {} /\ ~cast'.lost
           /\ ~cast'.lost => /\ ~cast.lost /\ Publish(b, cast.contest, cast.ballot)
                             /\ UNCHANGED failures
<1>1. cast.phase = "publishing" /\ cast # Idle /\ b \in cast.todo
      /\ UNCHANGED <<held, moves, look>>
  BY DEF DatagramPublished, Idle
<1>2. PICK ok \in BOOLEAN, broadcast \in BOOLEAN :
           /\ ok => broadcast
           /\ Answered(ok)
           /\ IF broadcast THEN Publish(b, cast.contest, cast.ballot)
              ELSE UNCHANGED published
           /\ cast' = [cast EXCEPT !.todo = @ \ {b}, !.lost = @ \/ ~ok,
                                   !.to = Moment',
                                   !.phase = IF cast.todo # {b} THEN @
                                             ELSE IF cast.lost \/ ~ok THEN "failed"
                                             ELSE "done"]
  BY DEF DatagramPublished
<1>3. PICK m : m = Moment'
  OBVIOUS
<1>4. cast \in [phase : {"balances", "publishing", "done", "failed"},
                    contest : Genuine, ballot : Ballots, balances : SUBSET (1 .. created),
                    todo : SUBSET (1 .. created), lost : BOOLEAN,
                    from : Moments, to : Moments]
  BY <1>1 DEF LookInv, ChainInv, CastOK
<1>5. cast' = [cast EXCEPT !.todo = cast.todo \ {b}, !.lost = cast.lost \/ ~ok, !.to = m,
                           !.phase = IF cast.todo # {b} THEN "publishing"
                                     ELSE IF cast.lost \/ ~ok THEN "failed" ELSE "done"]
  BY <1>1, <1>2, <1>3
<1>6. /\ cast'.contest = cast.contest /\ cast'.ballot = cast.ballot
      /\ cast'.balances = cast.balances /\ cast'.from = cast.from
      /\ cast'.todo = cast.todo \ {b} /\ cast'.to = m
      /\ cast'.lost = (cast.lost \/ ~ok)
      /\ cast'.phase = IF cast.todo # {b} THEN "publishing"
                       ELSE IF cast.lost \/ ~ok THEN "failed" ELSE "done"
  BY <1>4, <1>5
<1>7. ~cast'.lost => ~cast.lost /\ ok
  BY <1>6
<1>8. cast'.phase = "done" => cast'.todo = {} /\ ~cast'.lost
  BY <1>6
<1>9. ok => Publish(b, cast.contest, cast.ballot) /\ UNCHANGED failures
  BY <1>2 DEF Answered
<1> QED
  BY <1>1, <1>3, <1>6, <1>7, <1>8, <1>9

\* What the arrival of the balances does for a cast.
LEMMA CastArriveFacts ==
    ASSUME LookInv, Complete, CastBalancesArrive
    PROVE  /\ UNCHANGED <<held, published, moves, look>>
           /\ \/ cast'.phase = "failed"
              \/ /\ cast'.phase = "publishing" /\ UNCHANGED failures
                 /\ cast'.contest = cast.contest /\ cast'.from = cast.from
                 /\ cast'.balances = BalancesFor(cast'.contest) /\ cast'.balances # {}
                 /\ cast'.todo = cast'.balances
                 /\ cast.from \in Moments /\ Bounded(cast.from)
<1>1. cast.phase = "balances" /\ cast # Idle /\ UNCHANGED <<held, published, moves, look>>
  BY DEF CastBalancesArrive, Idle
<1>2. PICK ok \in BOOLEAN :
           /\ Answered(ok)
           /\ cast' = IF ok /\ CastOn(cast.contest) # {}
                      THEN [cast EXCEPT !.phase = "publishing",
                                        !.balances = CastOn(cast.contest),
                                        !.todo = CastOn(cast.contest)]
                      ELSE [cast EXCEPT !.phase = "failed"]
  BY DEF CastBalancesArrive
<1>4. cast \in [phase : {"balances", "publishing", "done", "failed"},
                    contest : Genuine, ballot : Ballots, balances : SUBSET (1 .. created),
                    todo : SUBSET (1 .. created), lost : BOOLEAN,
                    from : Moments, to : Moments] /\ Bounded(cast.from)
  BY <1>1 DEF LookInv, ChainInv, CastOK
<1>5. CASE ok /\ CastOn(cast.contest) # {}
  <2> DEFINE B == CastOn(cast.contest)
  <2>0. B = BalancesFor(cast.contest) /\ B # {}
    BY <1>5 DEF CastOn
  <2> HIDE DEF B
  <2>1. cast' = [cast EXCEPT !.phase = "publishing", !.balances = B, !.todo = B]
    BY <1>2, <1>5 DEF B
  <2>2. /\ cast'.phase = "publishing" /\ cast'.balances = B /\ cast'.todo = B
        /\ cast'.contest = cast.contest /\ cast'.from = cast.from
    BY <1>4, <2>1
  <2>3. failures' = failures
    BY <1>2, <1>5 DEF Answered
  <2>4. cast'.balances = BalancesFor(cast'.contest)
    BY <2>0, <2>2 DEF BalancesFor
  <2> QED
    BY <1>1, <1>4, <2>0, <2>2, <2>3, <2>4
<1>6. CASE ~(ok /\ CastOn(cast.contest) # {})
  <2>1. cast' = [cast EXCEPT !.phase = "failed"]
    BY <1>2, <1>6
  <2> QED
    BY <1>1, <1>4, <2>1
<1> QED
  BY <1>5, <1>6

\* The cast from step to step.
LEMMA CastInvNext ==
    ASSUME LookupAssumption, CastInv, [Next]_vars
    PROVE  CastInv'
<1>1. LookInv' /\ Grown /\ LookInv /\ ChainOK /\ ChainOK' /\ Complete /\ Standing
  BY LookInvNext DEF CastInv, LookInv, ChainInv
<1>2. CASE UNCHANGED cast
  <2>1. Complete'
    BY <1>1, <1>2 DEF Complete
  <2>2. Standing'
    BY <1>1, <1>2, StandingStays
  <2> QED
    BY <1>1, <2>1, <2>2 DEF CastInv
<1>3. ASSUME NEW contest, NEW ballot, castPendingDecision(contest, ballot) PROVE CastInv'
  <2>1. cast'.phase = "balances"
    BY <1>3 DEF castPendingDecision
  <2> QED
    BY <1>1, <2>1 DEF CastInv, Complete, Standing
<1>4. CASE CastBalancesArrive
  <2>1. CASE cast'.phase = "failed"
    BY <1>1, <2>1 DEF CastInv, Complete, Standing
  <2>2. CASE cast'.phase # "failed"
    <3>1. /\ UNCHANGED <<held, published, moves, failures>> /\ cast'.phase = "publishing"
          /\ cast'.from = cast.from /\ cast'.todo = cast'.balances
          /\ cast'.balances = BalancesFor(cast'.contest) /\ cast'.balances # {}
          /\ cast.from \in Moments /\ Bounded(cast.from)
      BY <1>1, <1>4, <2>2, CastArriveFacts
    <3>2. PICK c : c = cast'
      OBVIOUS
    <3>3. Carrying(c) = {} /\ Cardinality(Carrying(c)) = 0
      BY <3>1, <3>2, FS_EmptySet DEF Carrying
    <3>4. c.from[1] + 0 <= Len(published')
      BY <1>1, <3>1, <3>2 DEF Bounded, Moments, ChainOK
    <3>5. AllCarry(c, held', published')
      BY <3>1, <3>2, <3>3 DEF AllCarry, BalancesFor, In
    <3> QED
      BY <1>1, <3>1, <3>2, <3>3, <3>4, <3>5 DEF CastInv, Complete, Standing
  <2> QED
    BY <2>1, <2>2
<1>5. ASSUME NEW b, DatagramPublished(b) PROVE CastInv'
  <2>1. PICK c, e : c = cast /\ e = cast'
    OBVIOUS
  <2>2. /\ c.phase = "publishing" /\ c # Idle /\ b \in c.todo
        /\ UNCHANGED <<held, moves>>
        /\ e.contest = c.contest /\ e.ballot = c.ballot
        /\ e.balances = c.balances /\ e.from = c.from /\ e.todo = c.todo \ {b}
        /\ e.phase \in {"publishing", "failed", "done"}
        /\ e.phase = "done" => e.todo = {} /\ ~e.lost
        /\ ~e.lost => ~c.lost /\ Publish(b, c.contest, c.ballot) /\ UNCHANGED failures
    BY <1>1, <1>5, <2>1, PublishedFacts
  <2>3. Complete'
    BY <1>1, <2>1, <2>2 DEF Complete
  <2>4. ASSUME ~e.lost PROVE Standing'
    <3>1. c.from \in Moments /\ c.todo \subseteq c.balances /\ IsFiniteSet(c.balances)
          /\ c.from[2] <= moves /\ c.from[3] <= failures
      BY <1>1, <2>1, <2>2 DEF LookInv, ChainInv, CastOK, Bounded
    <3>2. Carrying(e) = Carrying(c) \cup {b} /\ b \notin Carrying(c)
      BY <2>2, <3>1 DEF Carrying
    <3>3. IsFiniteSet(Carrying(c)) /\ Carrying(c) \in SUBSET c.balances
      <4>1. Carrying(c) \in SUBSET c.balances
        BY DEF Carrying
      <4> QED
        BY <3>1, <4>1, FS_Subset
    <3>4. Cardinality(Carrying(c)) \in Nat /\ Cardinality(Carrying(e)) = Cardinality(Carrying(c)) + 1
      BY <3>2, <3>3, FS_CardinalityType, FS_AddElement
    <3>5. Len(published') = Len(published) + 1 /\ Len(published) \in Nat
          /\ moves' = moves /\ failures' = failures
      BY <1>1, <2>2, <2>4 DEF Publish, ChainOK
    <3>6. c.from[1] + Cardinality(Carrying(c)) <= Len(published)
          /\ (Alone(c, Moment) => AllCarry(c, held, published))
      BY <1>1, <2>1, <2>2, <2>4 DEF Standing
    <3>7. e.from[1] + Cardinality(Carrying(e)) <= Len(published')
      BY <2>2, <3>1, <3>4, <3>5, <3>6 DEF Moments
    <3>8. ASSUME Alone(e, Moment') PROVE AllCarry(e, held', published')
      <4>1. Alone(c, Moment)
        <5> DEFINE k == Cardinality(Carrying(c))
        <5>1. PICK p, q, r \in Nat : c.from = <<p, q, r>>
          BY <3>1 DEF Moments
        <5>2. c.from[1] = p /\ c.from[2] = q /\ c.from[3] = r /\ e.from[1] = p /\ e.from[2] = q /\ e.from[3] = r
          BY <2>2, <5>1
        <5> HIDE DEF k
        <5>3. <<Len(published'), moves', failures'>> = <<p + (k + 1), q, r>>
          BY <3>4, <3>8, <5>2 DEF Moment, Alone, k
        <5>4. Len(published') = p + (k + 1) /\ moves' = q /\ failures' = r
          BY <5>3
        <5>5. Len(published) = p + k /\ moves = q /\ failures = r
          BY <3>4, <3>5, <5>4 DEF k
        <5> QED
          BY <5>2, <5>5 DEF Moment, Alone, k
      <4>2. AllCarry(c, held, published)
        BY <3>6, <4>1
      <4>3. /\ CarriedIn(published', b, c.contest, Len(published')) = c.ballot
            /\ \A a : a # b => CarriedIn(published', a, c.contest, Len(published'))
                                = CarriedIn(published, a, c.contest, Len(published))
        BY <1>1, <2>2, <2>4, PublishCarries
      <4> QED
        BY <2>2, <3>2, <4>2, <4>3 DEF AllCarry
    <3> QED
      BY <2>1, <3>7, <3>8 DEF Standing
  <2>5. CASE e.lost
    BY <1>1, <2>1, <2>3, <2>5 DEF CastInv, Standing
  <2> QED
    BY <1>1, <2>3, <2>4, <2>5 DEF CastInv
<1> QED
  <2>1. CASE UNCHANGED vars
    BY <1>2, <2>1 DEF vars
  <2>2. CASE Next
    BY <1>2, <1>3, <1>4, <1>5, <2>2, CastSteps DEF CastStep
  <2> QED
    BY <2>1, <2>2

FindInv == AlarmInv /\ CastInv /\ CastIsFound

\* A cast that was alone has put its ballot on all balances.
LEMMA CastAloneIsAlone ==
    ASSUME CastInv, CastAlone
    PROVE  /\ cast # Idle /\ cast.phase = "done" /\ ~cast.lost /\ cast.contest \in Genuine
           /\ cast.ballot \in Ballots /\ cast.balances # {} /\ Carrying(cast) = cast.balances
           /\ Alone(cast, cast.to)
           /\ cast.to = Moment => AllCarry(cast, held, published)
<1>1. cast.phase = "done" /\ cast # Idle
  BY DEF CastAlone, Idle
<1>2. cast.todo = {} /\ ~cast.lost /\ cast.balances # {}
  BY <1>1 DEF CastInv, Complete
<1>3. Carrying(cast) = cast.balances
  BY <1>2 DEF Carrying
<1>4. Alone(cast, cast.to)
  BY <1>3 DEF CastAlone, Alone
<1>5. cast.contest \in Genuine /\ cast.ballot \in Ballots
  BY <1>1 DEF CastInv, LookInv, ChainInv, CastOK
<1>6. cast.to = Moment => Alone(cast, Moment)
  BY <1>4
<1>7. cast.to = Moment => AllCarry(cast, held, published)
  BY <1>1, <1>2, <1>6 DEF CastInv, Standing
<1> QED
  BY <1>1, <1>2, <1>3, <1>4, <1>5, <1>7

\* A look-up after such a cast, from step to step.
LEMMA FindInvNext ==
    ASSUME LookupAssumption, FindInv, [Next]_vars
    PROVE  FindInv'
<1>1. AlarmInv' /\ CastInv' /\ AlarmInv /\ CastInv /\ CastIsFound
  BY AlarmInvNext, CastInvNext DEF FindInv
<1>2. LookInv' /\ Grown /\ LookInv /\ ChainOK /\ ChainOK' /\ LookOK /\ LookOK'
  BY LookInvNext, <1>1 DEF AlarmInv, LookInv, ChainInv
<1> SUFFICES ASSUME CastAlone', look'.phase = "done", look'.contest = cast'.contest,
                    publisher' = "known", cast'.to = look'.from, look'.from = look'.to
             PROVE  look'.found = cast'.ballot /\ ~look'.alarm
  BY <1>1 DEF FindInv, CastIsFound
<1>3. CASE UNCHANGED <<cast, look, publisher>>
  BY <1>1, <1>3 DEF CastIsFound, CastAlone
<1>4. CASE PublisherArrives
  <2>1. publisher = "asked" /\ UNCHANGED look /\ look # Idle
    BY <1>4 DEF PublisherArrives, Idle
  <2> QED
    BY <1>2, <2>1 DEF LookOK
<1>5. ASSUME NEW b, DatagramPublished(b) PROVE FALSE
  <2>1. /\ cast'.to = Moment' /\ UNCHANGED look
        /\ cast'.phase = "done" => ~cast'.lost
        /\ ~cast'.lost => Publish(b, cast.contest, cast.ballot)
    BY <1>1, <1>2, <1>5, PublishedFacts DEF CastInv
  <2>2. Len(published') = Len(published) + 1 /\ Len(published) \in Nat
    BY <1>2, <2>1 DEF CastAlone, Publish, ChainOK
  <2>3. look # Idle
    BY <2>1 DEF Idle
  <2>4. look'.from = Moment' /\ look'.from = look.from
    BY <2>1
  <2>5. UNCHANGED published
    BY <1>2, <2>3, <2>4, FromBefore
  <2> QED
    BY <2>2, <2>5
<1>6. ASSUME NEW contest, NEW ballot, castPendingDecision(contest, ballot) PROVE FALSE
  BY <1>6 DEF castPendingDecision, CastAlone
<1>7. CASE CastBalancesArrive
  BY <1>2, <1>1, <1>7, CastArriveFacts DEF CastInv, CastAlone
<1>8. ASSUME UNCHANGED cast
      PROVE  /\ CastAlone /\ cast.contest \in Genuine /\ cast.ballot \in Ballots
             /\ cast.balances # {} /\ Carrying(cast) = cast.balances
             /\ cast.to = Moment => AllCarry(cast, held, published)
  <2>1. CastAlone
    BY <1>8 DEF CastAlone
  <2> QED
    BY <1>1, <2>1, CastAloneIsAlone
<1>9. CASE ContestArrives
  <2>1. /\ look.phase = "contest" /\ look # Idle /\ UNCHANGED <<publisher, cast>>
        /\ \/ /\ Ends(look')
              /\ publisher = "known" /\ Authentic(look.contest) => Moment' # Moment
           \/ look'.phase = "balances"
    BY <1>2, <1>9, ContestFacts DEF ContestArrives
  <2>2. /\ publisher = "known" /\ Authentic(look.contest) => Moment' # Moment
        /\ look'.contest = look.contest /\ look'.from = look.from /\ look'.to = Moment'
    BY <1>2, <2>1, LookEnds
  <2>3. Authentic(look.contest)
    BY <1>8, <2>1, <2>2 DEF Genuine
  <2>4. Moment' = Moment
    BY <1>2, <2>1, <2>2, FromBefore
  <2> QED
    BY <2>1, <2>2, <2>3, <2>4
<1>10. CASE BalancesArrive
  <2>1. /\ look.phase = "balances" /\ look # Idle /\ UNCHANGED cast
        /\ \/ /\ Ends(look')
              /\ BalancesFor(look.contest) # {} => Moment' # Moment
           \/ look'.phase = "datagrams"
    BY <1>2, <1>10, BalancesFacts DEF BalancesArrive
  <2>2. /\ BalancesFor(look.contest) # {} => Moment' # Moment
        /\ look'.contest = look.contest /\ look'.from = look.from /\ look'.to = Moment'
    BY <1>2, <2>1, LookEnds
  <2>3. Moment' = Moment /\ look.from = Moment
    BY <1>2, <2>1, <2>2, FromBefore
  <2>4. cast.to = Moment /\ cast.contest = look.contest
    BY <2>1, <2>2, <2>3
  <2>5. BalancesFor(look.contest) # {}
    BY <1>8, <2>1, <2>4 DEF AllCarry, In, BalancesFor
  <2> QED
    BY <2>2, <2>3, <2>5
<1>11. ASSUME NEW b, DatagramArrives(b) PROVE FALSE
  BY <1>2, <1>11, DatagramFacts
<1>12. CASE Decide
  <2>1. /\ look.phase = "datagrams" /\ look # Idle
        /\ UNCHANGED <<held, published, publisher, moves, failures, cast>>
        /\ Goes(look') /\ look'.to = Moment
        /\ look'.order = look.order /\ look'.answers = look.answers
        /\ DOMAIN look.answers = ToSet(look.order)
        /\ \/ /\ look'.found = NoBallot
              /\ \A i \in DOMAIN look.order : look.answers[look.order[i]] = NoBallot
           \/ /\ look'.alarm = Stale(look.answers, look'.found)
              /\ \E i \in DOMAIN look.order :
                    look'.found = look.answers[look.order[i]]
    BY <1>2, <1>12, DecideFacts DEF Decide
  <2>2. look.from = Moment /\ cast.to = Moment /\ cast.contest = look.contest
    BY <2>1 DEF Goes
  <2>3. AllCarry(cast, held, published) /\ cast.ballot # NoBallot /\ Carrying(cast) = cast.balances
    BY <1>8, <2>1, <2>2 DEF LookupAssumption
  <2>4. Agrees(look, held, published)
    BY <1>1, <2>1, <2>2 DEF AlarmInv
  <2>5. \A b \in DOMAIN look.answers : look.answers[b] = cast.ballot
    BY <2>1, <2>2, <2>3, <2>4 DEF Agrees, AllCarry
  <2>6. look.order \in Seq(Nat) /\ NewestFirst(look.order)
    BY <1>2, <2>1 DEF LookOK
  <2>7. 1 \in DOMAIN look.order /\ \A i \in DOMAIN look.order : look.order[i] \in DOMAIN look.answers
    BY <2>1, <2>6, NewestLeads DEF ToSet
  <2>8. \A i \in DOMAIN look.order : look.answers[look.order[i]] = cast.ballot
    BY <2>5, <2>7
  <2>9. look'.found = cast.ballot /\ look'.alarm = Stale(look.answers, cast.ballot)
    BY <2>1, <2>3, <2>7, <2>8
  <2>10. ~Stale(look.answers, cast.ballot)
    BY <2>5 DEF Stale
  <2> QED
    BY <2>1, <2>9, <2>10
<1>13. ASSUME NEW contest, getDecision(contest) PROVE FALSE
  BY <1>13 DEF getDecision
<1>14. ASSUME Next
       PROVE  \/ UNCHANGED <<cast, look, publisher>> \/ PublisherArrives \/ CastStep \/ LookStep
  BY <1>14 DEF Next, AppBegins, WalletAnswers, ChainMoves, getDecisionRecordById,
   OperationArrives, DetailArrives, PublishedElsewhere, Receive, Spend, CastStep, LookStep
<1> QED
  <2>1. CASE UNCHANGED vars
    BY <1>3, <2>1 DEF vars
  <2>2. CASE Next
    BY <1>3, <1>4, <1>5, <1>6, <1>7, <1>9, <1>10, <1>11, <1>12, <1>13, <1>14, <2>2
    DEF LookStep, CastStep
  <2> QED
    BY <2>1, <2>2

(* CastIsFound: what castPendingDecision has cast, the next _getDecision   *)
(* finds, and without an alarm.                                            *)
THEOREM CastIsFoundCorrect == Spec => []CastIsFound
<1>1. Init => FindInv
  <2> SUFFICES ASSUME Init PROVE FindInv
    OBVIOUS
  <2>1. cast.phase = "idle"
    BY DEF Init, Idle
  <2> QED
    BY <2>1, LookupAssumption, AlarmInvInit, LookInvInit
    DEF FindInv, CastInv, Complete, Standing, CastIsFound, CastAlone
<1>2. FindInv /\ [Next]_vars => FindInv'
  BY LookupAssumption, FindInvNext
<1>3. FindInv => CastIsFound
  BY DEF FindInv
<1> QED
  BY <1>1, <1>2, <1>3, PTL DEF Spec
=============================================================================
