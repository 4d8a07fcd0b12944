--------------------------- MODULE Backend_proofs ---------------------------
(***************************************************************************)
(* Theorems about the backend's modules, for every choice of their         *)
(* constants.                                                              *)
(*                                                                         *)
(* VoteDatabase: the type invariant, that stored IDs name the operations   *)
(* that carried the objects, that stored decisions are well founded, that  *)
(* the volume history of past hours is final, and that no hour's volume    *)
(* exceeds the supply of the coin.                                         *)
(*                                                                         *)
(* Tally and ContestResults: the decision index implements the poll, the   *)
(* walk through the index arrives at the poll's result, and the app shows  *)
(* the contestants' results of the last block once everything that was     *)
(* sent has arrived.                                                       *)
(*                                                                         *)
(* CoinDetails: any two histories that clients are told of a coin agree on *)
(* the hours they share.                                                   *)
(***************************************************************************)
EXTENDS ContestResults, CoinDetails, SumLemmas, SequenceTheorems

-----------------------------------------------------------------------------
(* The log grows at its end only                                           *)

\* What a new operation does to the log, and the ID the operation gets.
LEMMA PushLog ==
    ASSUME history \in Seq(OpType), applied \in Seq(OpType),
           NEW op \in OpType, Push(op)
    PROVE  /\ Log \in Seq(OpType)
           /\ Len(Log') = Len(Log) + 1
           /\ \A i \in 1 .. Len(Log) : Log'[i] = Log[i]
           /\ Log'[Len(Log) + 1] = op
           /\ CurrentOpId = Len(Log)
           /\ applied' \in Seq(OpType)
<1> DEFINE H == Len(history)  A == Len(applied)
<1>1. /\ history' = history
      /\ applied' = Append(applied, op)
      /\ Len(applied') = A + 1
      /\ applied' \in Seq(OpType)
      /\ \A i \in 1 .. A : applied'[i] = applied[i]
      /\ applied'[A + 1] = op
      /\ H \in Nat /\ A \in Nat
  BY DEF Push
<1>2. /\ Log \in Seq(OpType)
      /\ Len(Log) = H + A
      /\ \A i \in 1 .. H + A :
             Log[i] = IF i <= H THEN history[i] ELSE applied[i - H]
  BY <1>1, ConcatProperties DEF Log
<1>3. /\ Len(Log') = H + A + 1
      /\ \A i \in 1 .. H + A + 1 :
             Log'[i] = IF i <= H THEN history[i] ELSE applied'[i - H]
  <2>1. Log' = history \o applied'
    BY <1>1 DEF Log
  <2> DEFINE cat == history \o applied'
  <2>2. /\ Len(cat) = Len(history) + Len(applied')
        /\ \A i \in 1 .. Len(history) + Len(applied') :
               cat[i] = IF i <= Len(history) THEN history[i]
                                             ELSE applied'[i - Len(history)]
    BY <1>1, ConcatProperties
  <2>3. Len(history) + Len(applied') = H + A + 1
    BY <1>1
  <2> QED
    BY <2>1, <2>2, <2>3
<1>4. CurrentOpId = H + A
  BY <1>1 DEF CurrentOpId
<1>5. \A i \in 1 .. Len(Log) : Log'[i] = Log[i]
  <2> TAKE i \in 1 .. Len(Log)
  <2>1. /\ i \in 1 .. H + A
        /\ i \in 1 .. H + A + 1
        /\ i > H => i - H \in 1 .. A
    BY <1>1, <1>2
  <2>2. CASE i <= H
    BY <1>2, <1>3, <2>1, <2>2
  <2>3. CASE i > H
    <3>1. /\ ~ (i <= H)
          /\ applied'[i - H] = applied[i - H]
      BY <1>1, <2>1, <2>3
    <3> QED
      BY <1>2, <1>3, <2>1, <3>1
  <2> QED
    BY <1>1, <2>1, <2>2, <2>3
<1>6. Log'[Len(Log) + 1] = op
  <2>1. /\ H + A + 1 \in 1 .. H + A + 1
        /\ ~ (H + A + 1 <= H)
        /\ (H + A + 1) - H = A + 1
        /\ Len(Log) = H + A
    BY <1>1, <1>2
  <2> QED
    BY <1>1, <1>3, <2>1
<1> QED
  BY <1>1, <1>2, <1>3, <1>4, <1>5, <1>6

\* Moving the applied operations into the history leaves the log as it is.
LEMMA FinishLog ==
    ASSUME history \in Seq(OpType), applied \in Seq(OpType),
           history' = Log, applied' = <<>>
    PROVE  /\ Log' = Log
           /\ Log \in Seq(OpType)
<1>1. Log' = Log \o <<>>
  BY DEF Log
<1> QED
  BY <1>1, ConcatProperties DEF Log

-----------------------------------------------------------------------------
(* Types                                                                   *)

\* Every operation the actions push is one of the three kinds.
LEMMA OpsTyped ==
    ASSUME headTime \in Nat
    PROVE  /\ \A p \in Accounts, id \in ContestRefs, b \in Ballots :
                  DecisionOp(p, id, b) \in OpType
           /\ \A p \in Accounts, d \in Drafts : ContestOp(p, d) \in OpType
           /\ \A p \in Accounts : OtherOp(p) \in OpType
<1>1. ASSUME NEW p \in Accounts, NEW id \in ContestRefs, NEW b \in Ballots
      PROVE  DecisionOp(p, id, b) \in
                 [type : {"decision"}, payer : Accounts, time : Nat,
                  contestId : Nat, ballot : Ballots]
  <2>1. id \in Nat
    BY VoteDatabaseAssumption
  <2> QED
    BY <2>1 DEF DecisionOp
<1>2. ASSUME NEW p \in Accounts, NEW d \in Drafts
      PROVE  ContestOp(p, d) \in
                 [type : {"contest"}, payer : Accounts, time : Nat, draft : Drafts]
  BY DEF ContestOp
<1>3. ASSUME NEW p \in Accounts
      PROVE  OtherOp(p) \in [type : {"other"}, payer : Accounts, time : Nat]
  BY DEF OtherOp
<1> QED
  BY <1>1, <1>2, <1>3, Zenon DEF OpType

\* The beginning of the hour is a time no later than the moment it is for.
LEMMA HourType ==
    ASSUME NEW t \in Nat
    PROVE  Hour(t) \in Nat /\ Hour(t) <= t
  BY DEF Hour

\* recordDecision keeps the shape of the volume object.
LEMMA RecordType ==
    ASSUME headTime \in Nat, NEW vol, VolumeOK(vol), NEW v \in BalanceIds
    PROVE  VolumeOK(recordDecision(vol, v))
<1>1. CASE vol.hourOfLastUpdate = Hour(headTime)
  <2>1. recordDecision(vol, v) = [vol EXCEPT !.active = @ \cup {v}]
    BY <1>1 DEF recordDecision
  <2>2. recordDecision(vol, v) =
            [histogram |-> vol.histogram,
             hourOfLastUpdate |-> vol.hourOfLastUpdate,
             active |-> vol.active \cup {v}]
    BY <2>1 DEF VolumeOK
  <2> QED
    BY <2>2 DEF VolumeOK
<1>2. CASE vol.hourOfLastUpdate # Hour(headTime)
  <2>1. recordDecision(vol, v) =
            [histogram |-> Tallied(vol), hourOfLastUpdate |-> Hour(headTime),
             active |-> {}]
    BY <1>2 DEF recordDecision
  <2>2. DOMAIN Tallied(vol) \subseteq DOMAIN vol.histogram \cup {vol.hourOfLastUpdate}
    BY DEF Tallied
  <2> QED
    BY <2>1, <2>2, HourType DEF VolumeOK
<1> QED
  BY <1>1, <1>2

\* A volume object that was just made has the shape of one.
LEMMA NewVolumeType == VolumeOK(NewVolume)
  BY DEF VolumeOK, NewVolume

\* An accepted decision keeps the indexes typed.
LEMMA ProcessDecisionType ==
    ASSUME TypeOK, headTime \in Nat, CurrentOpId \in Nat,
           NEW payer \in Accounts, NEW contest \in contests,
           NEW ballot \in Ballots,
           processDecision(payer, contest, ballot)
    PROVE  /\ contests' \subseteq ContestType
           /\ decisions' \subseteq DecisionType
           /\ DOMAIN volume' \subseteq Coins
           /\ \A c \in DOMAIN volume' : VolumeOK(volume'[c])
<1> DEFINE d == NewDecision(payer, contest, ballot)
<1>1. /\ contest.coin \in Coins
      /\ contest.contestId \in Nat
  BY DEF TypeOK, ContestType
<1>2. /\ ballot.opinions \in Seq([contestant : Int, opinion : Int])
      /\ ballot.writeIns \in Seq(Names)
  BY VoteDatabaseAssumption DEF BallotType
<1>3. <<payer, contest.coin>> \in BalanceIds
  BY <1>1 DEF BalanceIds
<1>4. d \in DecisionType /\ d.voter \in BalanceIds
  BY <1>1, <1>2, <1>3 DEF NewDecision, DecisionType
<1>5. \A c \in DOMAIN volume' : VolumeOK(volume'[c])
  <2> SUFFICES ASSUME NEW c \in DOMAIN volume'
               PROVE  VolumeOK(volume'[c])
    OBVIOUS
  <2>1. CASE c = contest.coin
    <3>1. volume'[c] = recordDecision(VolumeOf(c), d.voter)
      BY <2>1 DEF processDecision
    <3>2. VolumeOK(VolumeOf(c))
      BY NewVolumeType DEF VolumeOf, TypeOK
    <3> QED
      BY <1>4, <3>1, <3>2, RecordType
  <2>2. CASE c # contest.coin
    BY <2>2 DEF processDecision, TypeOK
  <2> QED
    BY <2>1, <2>2
<1> QED
  BY <1>1, <1>4, <1>5 DEF processDecision, TypeOK

\* A published contest keeps the contest index typed.
LEMMA ProcessContestType ==
    ASSUME TypeOK, headTime \in Nat, CurrentOpId \in Nat,
           NEW draft \in Drafts, processContest(draft)
    PROVE  contests' \subseteq ContestType
<1>1. /\ draft.creator \in Accounts \cup {NoAccount} /\ draft.coin \in Coins
      /\ draft.contestants \in Nat /\ draft.start \in Nat /\ draft.end \in Nat
  BY VoteDatabaseAssumption DEF DraftType
<1>2. Max({draft.start, headTime}) \in Nat
  <2>1. \E x \in {draft.start, headTime} :
            \A y \in {draft.start, headTime} : x >= y
    BY <1>1
  <2> QED
    BY <1>1, <2>1 DEF Max
<1> QED
  BY <1>1, <1>2 DEF processContest, NewContest, ContestType, TypeOK

\* TypeOK holds in every reachable state.
THEOREM TypeCorrect == Spec => []TypeOK
<1>1. Init => TypeOK
  BY VoteDatabaseAssumption DEF Init, TypeOK
<1>2. TypeOK /\ [Next]_vars => TypeOK'
  <2> SUFFICES ASSUME TypeOK, [Next]_vars
               PROVE  TypeOK'
    OBVIOUS
  <2>0. headTime \in Nat
    BY VoteDatabaseAssumption DEF TypeOK
  <2>1. ASSUME NEW payer \in Accounts, NEW id \in ContestRefs,
               NEW ballot \in Ballots, ApplyDecision(payer, id, ballot)
        PROVE  TypeOK'
    <3>1. DecisionOp(payer, id, ballot) \in OpType
      BY <2>0, OpsTyped
    <3>2. /\ CurrentOpId \in Nat
          /\ applied' \in Seq(OpType)
          /\ UNCHANGED <<headTime, history, restarts, balances>>
      BY <2>1, <3>1, PushLog DEF ApplyDecision, Push, TypeOK
    <3>3. CASE UNCHANGED vdbVars
      BY <3>2, <3>3 DEF vdbVars, TypeOK
    <3>4. ASSUME NEW contest \in contests,
                 processDecision(payer, contest, ballot)
          PROVE  TypeOK'
      BY <2>0, <3>2, <3>4, ProcessDecisionType DEF TypeOK
    <3> QED
      BY <2>1, <3>3, <3>4 DEF ApplyDecision
  <2>2. ASSUME NEW payer \in Accounts, NEW draft \in Drafts,
               ApplyContest(payer, draft)
        PROVE  TypeOK'
    <3>1. ContestOp(payer, draft) \in OpType
      BY <2>0, OpsTyped
    <3>2. /\ CurrentOpId \in Nat
          /\ applied' \in Seq(OpType)
          /\ UNCHANGED <<headTime, history, restarts, balances>>
      BY <2>2, <3>1, PushLog DEF ApplyContest, Push, TypeOK
    <3>3. CASE UNCHANGED vdbVars
      BY <3>2, <3>3 DEF vdbVars, TypeOK
    <3>4. CASE processContest(draft)
      <4>1. contests' \subseteq ContestType
        BY <2>0, <3>2, <3>4, ProcessContestType
      <4> QED
        BY <3>2, <3>4, <4>1 DEF processContest, TypeOK
    <3> QED
      BY <2>2, <3>3, <3>4 DEF ApplyContest
  <2>3. ASSUME NEW from \in Accounts, NEW to \in Accounts, NEW coin \in Coins,
               NEW amount \in Amounts, ApplyTransfer(from, to, coin, amount)
        PROVE  TypeOK'
    <3>1. OtherOp(from) \in OpType
      BY <2>0, OpsTyped
    <3>2. /\ applied' \in Seq(OpType)
          /\ UNCHANGED <<headTime, history, restarts, contests, decisions, volume>>
      BY <2>3, <3>1, PushLog DEF ApplyTransfer, Push, TypeOK, vdbVars
    <3>3. amount \in Nat
      BY VoteDatabaseAssumption
    <3>4. /\ DOMAIN balances' \subseteq BalanceIds
          /\ \A b \in DOMAIN balances' : balances'[b] \in Nat
      BY <2>3, <3>3 DEF ApplyTransfer, TypeOK, BalanceIds
    <3> QED
      BY <3>2, <3>4 DEF TypeOK
  <2>4. ASSUME NEW t \in BlockTimes, FinishBlock(t)
        PROVE  TypeOK'
    <3>1. history' \in Seq(OpType) /\ applied' \in Seq(OpType)
      BY <2>4, FinishLog DEF FinishBlock, TypeOK
    <3> QED
      BY <2>4, <3>1 DEF FinishBlock, TypeOK
  <2>5. CASE Restart
    <3>1. \A c \in DOMAIN volume' : VolumeOK(volume'[c])
      BY <2>5 DEF Restart, NewVolume, VolumeOK, TypeOK
    <3>2. restarts' \in 0 .. MaxRestarts
      <4>1. MaxRestarts \in Nat
        BY VoteDatabaseAssumption
      <4> QED
        BY <2>5, <4>1 DEF Restart, TypeOK
    <3> QED
      BY <2>5, <3>1, <3>2 DEF Restart, TypeOK
  <2>6. CASE UNCHANGED vars
    BY <2>6 DEF vars, TypeOK
  <2> QED
    BY <2>1, <2>2, <2>3, <2>4, <2>5, <2>6 DEF Next, EvaluateOperation
<1> QED
  BY <1>1, <1>2, PTL DEF Spec
-----------------------------------------------------------------------------
(* Stored IDs name the operations that carried the objects                 *)

\* Operations already in the log keep their IDs when another one is pushed.
LEMMA PushKeepsStored ==
    ASSUME TypeOK, StoredUnderOwnOperation, NEW op \in OpType, Push(op)
    PROVE  /\ \A c \in contests : ContestStored(c)'
           /\ \A d \in decisions : DecisionStored(d)'
<1>1. /\ Log \in Seq(OpType) /\ Len(Log') = Len(Log) + 1
      /\ \A i \in 1 .. Len(Log) : Log'[i] = Log[i]
      /\ applied' \in Seq(OpType) /\ history' \in Seq(OpType)
  BY PushLog DEF TypeOK, Push
<1>2. Log' \in Seq(OpType)
  BY <1>1, ConcatProperties DEF Log
<1>3. \A id : id + 1 \in DOMAIN Log =>
                  id + 1 \in DOMAIN Log' /\ Log'[id + 1] = Log[id + 1]
  BY <1>1, <1>2
<1>4. ASSUME NEW c \in contests
      PROVE  ContestStored(c)'
  <2>1. ContestStored(c)
    BY DEF StoredUnderOwnOperation
  <2> QED
    BY <1>3, <2>1 DEF ContestStored, OpAt
<1>5. ASSUME NEW d \in decisions
      PROVE  DecisionStored(d)'
  <2>1. DecisionStored(d)
    BY DEF StoredUnderOwnOperation
  <2> QED
    BY <1>3, <2>1 DEF DecisionStored, OpAt
<1> QED
  BY <1>4, <1>5

\* The operation just pushed is the one that its own ID names.
LEMMA PushedOp ==
    ASSUME TypeOK, NEW op \in OpType, Push(op)
    PROVE  /\ CurrentOpId \in Nat
           /\ CurrentOpId = Len(Log)
           /\ CurrentOpId + 1 \in DOMAIN Log'
           /\ Log'[CurrentOpId + 1] = op
<1>1. /\ Log \in Seq(OpType) /\ Len(Log') = Len(Log) + 1
      /\ CurrentOpId = Len(Log) /\ Log'[Len(Log) + 1] = op
      /\ applied' \in Seq(OpType) /\ history' \in Seq(OpType)
  BY PushLog DEF TypeOK, Push
<1>2. Log' \in Seq(OpType)
  BY <1>1, ConcatProperties DEF Log
<1> QED
  BY <1>1, <1>2

\* The step facts the invariant needs, for a step that stores nothing new and
\* leaves the log as it is.
LEMMA SameLogKeepsStored ==
    ASSUME StoredUnderOwnOperation, Log' = Log,
           contests' = contests, decisions' = decisions
    PROVE  StoredUnderOwnOperation'
  BY DEF StoredUnderOwnOperation, ContestStored, DecisionStored, OpAt

\* Every step keeps the stored IDs right: a new object is stored under the ID
\* of the operation being pushed, and a push moves nothing.
LEMMA StoredStep ==
    TypeOK /\ StoredUnderOwnOperation /\ [Next]_vars => StoredUnderOwnOperation'
<1> SUFFICES ASSUME TypeOK, StoredUnderOwnOperation, [Next]_vars
             PROVE  StoredUnderOwnOperation'
  OBVIOUS
<1>0. headTime \in Nat
  BY VoteDatabaseAssumption DEF TypeOK
<1>1. ASSUME NEW payer \in Accounts, NEW id \in ContestRefs,
             NEW ballot \in Ballots, ApplyDecision(payer, id, ballot)
      PROVE  StoredUnderOwnOperation'
  <2> DEFINE op == DecisionOp(payer, id, ballot)
  <2>1. op \in OpType /\ Push(op)
    BY <1>0, <1>1, OpsTyped DEF ApplyDecision
  <2>2. /\ \A c \in contests : ContestStored(c)'
        /\ \A d \in decisions : DecisionStored(d)'
    BY <2>1, PushKeepsStored
  <2>3. CASE UNCHANGED vdbVars
    BY <2>2, <2>3 DEF vdbVars, StoredUnderOwnOperation
  <2>4. ASSUME NEW contest \in contests, contest.contestId = id,
               processDecision(payer, contest, ballot)
        PROVE  StoredUnderOwnOperation'
    <3>0. PICK d : d = NewDecision(payer, contest, ballot)
      OBVIOUS
    <3>1. /\ CurrentOpId + 1 \in DOMAIN Log'
          /\ Log'[CurrentOpId + 1] = op
      BY <2>1, PushedOp
    <3>2. /\ d.decisionId = CurrentOpId /\ d.voter[1] = payer
          /\ d.contestId = id /\ d.opinions = ballot.opinions
      BY <2>4, <3>0 DEF NewDecision
    <3>3. /\ op.type = "decision" /\ op.payer = payer
          /\ op.contestId = id /\ op.ballot = ballot
      BY DEF DecisionOp
    <3> HIDE DEF op
    <3>4. DecisionStored(d)'
      BY <3>1, <3>2, <3>3 DEF DecisionStored, OpAt
    <3>5. /\ contests' = contests
          /\ decisions' = decisions \cup {d}
      BY <2>4, <3>0 DEF processDecision
    <3> QED
      BY <2>2, <3>4, <3>5 DEF StoredUnderOwnOperation
  <2> QED
    BY <1>1, <2>3, <2>4 DEF ApplyDecision
<1>2. ASSUME NEW payer \in Accounts, NEW draft \in Drafts,
             ApplyContest(payer, draft)
      PROVE  StoredUnderOwnOperation'
  <2> DEFINE op == ContestOp(payer, draft)
  <2>1. op \in OpType /\ Push(op)
    BY <1>0, <1>2, OpsTyped DEF ApplyContest
  <2>2. /\ \A c \in contests : ContestStored(c)'
        /\ \A d \in decisions : DecisionStored(d)'
    BY <2>1, PushKeepsStored
  <2>3. CASE UNCHANGED vdbVars
    BY <2>2, <2>3 DEF vdbVars, StoredUnderOwnOperation
  <2>4. CASE Publishable(payer, draft) /\ processContest(draft)
    <3>0. PICK c : c = NewContest(draft)
      OBVIOUS
    <3>1. /\ CurrentOpId + 1 \in DOMAIN Log'
          /\ Log'[CurrentOpId + 1] = op
      BY <2>1, PushedOp
    <3>2. /\ c.contestId = CurrentOpId /\ c.creator = draft.creator
          /\ c.coin = draft.coin /\ c.contestants = draft.contestants
      BY <3>0 DEF NewContest
    <3>3. /\ op.type = "contest" /\ op.payer = Publisher /\ op.draft = draft
          /\ CurrentOpId \notin Blacklist
      BY <2>4 DEF ContestOp, Publishable
    <3> HIDE DEF op
    <3>4. ContestStored(c)'
      BY <3>1, <3>2, <3>3 DEF ContestStored, OpAt
    <3>5. /\ decisions' = decisions
          /\ contests' = contests \cup {c}
      BY <2>4, <3>0 DEF processContest
    <3> QED
      BY <2>2, <3>4, <3>5 DEF StoredUnderOwnOperation
  <2> QED
    BY <1>2, <2>3, <2>4 DEF ApplyContest
<1>3. ASSUME NEW from \in Accounts, NEW to \in Accounts, NEW coin \in Coins,
             NEW amount \in Amounts, ApplyTransfer(from, to, coin, amount)
      PROVE  StoredUnderOwnOperation'
  <2>1. OtherOp(from) \in OpType /\ Push(OtherOp(from)) /\ UNCHANGED vdbVars
    BY <1>0, <1>3, OpsTyped DEF ApplyTransfer
  <2> QED
    BY <2>1, PushKeepsStored DEF vdbVars, StoredUnderOwnOperation
<1>4. ASSUME NEW t \in BlockTimes, FinishBlock(t)
      PROVE  StoredUnderOwnOperation'
  BY <1>4, FinishLog, SameLogKeepsStored DEF FinishBlock, TypeOK
<1>5. CASE Restart
  BY <1>5, SameLogKeepsStored DEF Restart, Log
<1>6. CASE UNCHANGED vars
  BY <1>6, SameLogKeepsStored DEF vars, Log
<1> QED
  BY <1>1, <1>2, <1>3, <1>4, <1>5, <1>6 DEF Next, EvaluateOperation

\* The operation ID stored with a contest or a decision names the operation
\* that carried it, whatever else the blocks contain.
THEOREM StoredUnderOwnOperationCorrect == Spec => []StoredUnderOwnOperation
<1>1. Init => StoredUnderOwnOperation
  BY DEF Init, StoredUnderOwnOperation
<1> QED
  BY <1>1, StoredStep, TypeCorrect, PTL DEF Spec

-----------------------------------------------------------------------------
(* Stored decisions are well founded                                       *)

\* Contests and balances are never taken away, so a decision that is well
\* founded stays so.
LEMMA WellFoundedKept ==
    ASSUME DecisionsWellFounded,
           contests \subseteq contests', DOMAIN balances \subseteq DOMAIN balances'
    PROVE  \A d \in decisions : \E c \in contests' : DecidesOn(d, c)'
<1> SUFFICES ASSUME NEW d \in decisions
             PROVE  \E c \in contests' : DecidesOn(d, c)'
  OBVIOUS
<1>1. PICK c \in contests : DecidesOn(d, c)
  BY DEF DecisionsWellFounded
<1>2. DecidesOn(d, c)'
  BY <1>1 DEF DecidesOn
<1> QED
  BY <1>2

\* A decision that passes the checks of processDecision is well founded.
LEMMA AdmittedWellFounded ==
    ASSUME TypeOK, StoredUnderOwnOperation,
           NEW payer \in Accounts, NEW contest \in contests,
           NEW ballot \in Ballots, NEW op \in OpType, Push(op),
           Admissible(payer, contest, ballot), UNCHANGED balances,
           NEW d, d = NewDecision(payer, contest, ballot)
    PROVE  DecidesOn(d, contest)'
<1>1. /\ contest.contestId \in Nat /\ contest.contestants \in Nat
      /\ contest.contestId < Len(Log)
  <2>1. contest.contestId + 1 \in DOMAIN Log
    BY DEF StoredUnderOwnOperation, ContestStored
  <2>2. Log \in Seq(OpType) /\ contest \in ContestType
    BY PushLog DEF TypeOK
  <2>3. contest.contestId \in Nat /\ contest.contestants \in Nat
    BY <2>2 DEF ContestType
  <2> QED
    BY <2>1, <2>2, <2>3
<1>2. /\ d.decisionId = Len(Log) /\ d.voter = <<payer, contest.coin>>
      /\ d.contestId = contest.contestId
      /\ d.opinions = ballot.opinions /\ d.writeIns = ballot.writeIns
  BY PushedOp DEF NewDecision
<1>3. /\ ballot.opinions \in Seq([contestant : Int, opinion : Int])
      /\ ballot.writeIns \in Seq(Names)
  BY VoteDatabaseAssumption DEF BallotType
<1>4. ASSUME NEW i \in DOMAIN ballot.opinions
      PROVE  /\ ballot.opinions[i].contestant >= 0
             /\ ballot.opinions[i].contestant < contest.contestants + Len(ballot.writeIns)
             /\ ballot.opinions[i].opinion = 1
  BY <1>1, <1>3, <1>4 DEF Admissible, OpinionValid
<1>5. Len(ballot.opinions) <= 1 /\ <<payer, contest.coin>> \in DOMAIN balances
  BY DEF Admissible
<1> QED
  BY <1>1, <1>2, <1>4, <1>5 DEF DecidesOn

\* Every step keeps the decisions well founded: new ones passed the checks, and
\* what old ones refer to is still there.
LEMMA WellFoundedStep ==
    TypeOK /\ StoredUnderOwnOperation /\ DecisionsWellFounded /\ [Next]_vars
        => DecisionsWellFounded'
<1> SUFFICES ASSUME TypeOK, StoredUnderOwnOperation, DecisionsWellFounded,
                    [Next]_vars
             PROVE  DecisionsWellFounded'
  OBVIOUS
<1>0. headTime \in Nat
  BY VoteDatabaseAssumption DEF TypeOK
<1>1. ASSUME NEW payer \in Accounts, NEW id \in ContestRefs,
             NEW ballot \in Ballots, ApplyDecision(payer, id, ballot)
      PROVE  DecisionsWellFounded'
  <2>1. /\ DecisionOp(payer, id, ballot) \in OpType
        /\ Push(DecisionOp(payer, id, ballot)) /\ UNCHANGED balances
    BY <1>0, <1>1, OpsTyped DEF ApplyDecision
  <2>2. CASE UNCHANGED vdbVars
    BY <2>1, <2>2, WellFoundedKept DEF vdbVars, DecisionsWellFounded
  <2>3. ASSUME NEW contest \in contests, Admissible(payer, contest, ballot),
               processDecision(payer, contest, ballot)
        PROVE  DecisionsWellFounded'
    <3>1. PICK d : d = NewDecision(payer, contest, ballot)
      OBVIOUS
    <3>2. DecidesOn(d, contest)'
      BY <2>1, <2>3, <3>1, AdmittedWellFounded
    <3>3. contests' = contests /\ decisions' = decisions \cup {d}
      BY <2>3, <3>1 DEF processDecision
    <3>4. \A e \in decisions : \E c \in contests' : DecidesOn(e, c)'
      BY <2>1, <3>3, WellFoundedKept
    <3> QED
      BY <3>2, <3>3, <3>4 DEF DecisionsWellFounded
  <2> QED
    BY <1>1, <2>2, <2>3 DEF ApplyDecision
<1>2. ASSUME NEW payer \in Accounts, NEW draft \in Drafts,
             ApplyContest(payer, draft)
      PROVE  DecisionsWellFounded'
  <2>1. /\ decisions' = decisions /\ contests \subseteq contests'
        /\ UNCHANGED balances
    BY <1>2 DEF ApplyContest, processContest, vdbVars
  <2> QED
    BY <2>1, WellFoundedKept DEF DecisionsWellFounded
<1>3. ASSUME NEW from \in Accounts, NEW to \in Accounts, NEW coin \in Coins,
             NEW amount \in Amounts, ApplyTransfer(from, to, coin, amount)
      PROVE  DecisionsWellFounded'
  <2>1. /\ decisions' = decisions /\ contests' = contests
        /\ DOMAIN balances \subseteq DOMAIN balances'
    BY <1>3 DEF ApplyTransfer, vdbVars
  <2> QED
    BY <2>1, WellFoundedKept DEF DecisionsWellFounded
<1>4. ASSUME UNCHANGED <<contests, decisions, balances>>
      PROVE  DecisionsWellFounded'
  BY <1>4, WellFoundedKept DEF DecisionsWellFounded
<1> QED
  BY <1>1, <1>2, <1>3, <1>4 DEF Next, EvaluateOperation, FinishBlock, Restart, vars

\* Every stored decision is one the tally can read without a check.
THEOREM DecisionsWellFoundedCorrect == Spec => []DecisionsWellFounded
<1>1. Init => DecisionsWellFounded
  BY DEF Init, DecisionsWellFounded
<1> QED
  BY <1>1, WellFoundedStep, TypeCorrect, StoredUnderOwnOperationCorrect, PTL
  DEF Spec

-----------------------------------------------------------------------------
(* Tallied hours are final                                                 *)

\* The hours in the histogram are over, and while balances wait for their
\* tally, their hour is later than all of those: the strengthening that makes
\* PastHoursFrozen inductive.
HistogramInPast(vol) ==
    /\ vol.hourOfLastUpdate <= Hour(headTime)
    /\ \A h \in DOMAIN vol.histogram :
           /\ h < Hour(headTime)
           /\ vol.active # {} => h < vol.hourOfLastUpdate

VolumeInv == \A c \in DOMAIN volume : HistogramInPast(volume[c])

\* Hours do not run backwards.
LEMMA HourMonotone ==
    ASSUME NEW s \in Nat, NEW t \in Nat, s <= t
    PROVE  Hour(s) <= Hour(t)
  BY DEF Hour

\* What one recorded decision does to the volume object of a coin.
LEMMA RecordKeepsHistogram ==
    ASSUME headTime \in Nat, headTime >= 3600,
           NEW vol, VolumeOK(vol), HistogramInPast(vol), NEW v \in BalanceIds
    PROVE  /\ HistogramInPast(recordDecision(vol, v))
           /\ \A h \in DOMAIN vol.histogram :
                  /\ h \in DOMAIN recordDecision(vol, v).histogram
                  /\ recordDecision(vol, v).histogram[h] = vol.histogram[h]
<1>1. Hour(headTime) \in Nat /\ vol.hourOfLastUpdate \in Nat
      /\ DOMAIN vol.histogram \subseteq Nat
  BY HourType DEF VolumeOK
<1>2. CASE vol.hourOfLastUpdate = Hour(headTime)
  <2>1. recordDecision(vol, v) =
            [histogram |-> vol.histogram,
             hourOfLastUpdate |-> vol.hourOfLastUpdate,
             active |-> vol.active \cup {v}]
    BY <1>2 DEF recordDecision, VolumeOK
  <2> QED
    BY <1>1, <1>2, <2>1 DEF HistogramInPast
<1>3. CASE vol.hourOfLastUpdate # Hour(headTime)
  <2>1. recordDecision(vol, v) =
            [histogram |-> Tallied(vol), hourOfLastUpdate |-> Hour(headTime),
             active |-> {}]
    BY <1>3 DEF recordDecision
  <2>2. \A h \in DOMAIN Tallied(vol) : h < Hour(headTime)
    BY <1>1, <1>3 DEF Tallied, HistogramInPast
  <2>3. \A h \in DOMAIN vol.histogram :
            h \in DOMAIN Tallied(vol) /\ Tallied(vol)[h] = vol.histogram[h]
    BY <1>1 DEF Tallied, HistogramInPast
  <2> QED
    BY <1>1, <2>1, <2>2, <2>3 DEF HistogramInPast
<1> QED
  BY <1>2, <1>3

\* PastHoursFrozen as a relation between two states.
KeepsHistogram ==
    \A coin \in DOMAIN volume : \A h \in DOMAIN volume[coin].histogram :
        /\ coin \in DOMAIN volume'
        /\ h \in DOMAIN volume'[coin].histogram
        /\ volume'[coin].histogram[h] = volume[coin].histogram[h]

\* A new volume object has no hour that could be reopened.
LEMMA NewVolumePast ==
    ASSUME headTime \in Nat
    PROVE  HistogramInPast(NewVolume)
<1>1. Hour(headTime) \in Nat
  BY HourType
<1> QED
  BY <1>1 DEF HistogramInPast, NewVolume

\* A later head time leaves the histogram in the past.
LEMMA TimeKeepsPast ==
    ASSUME headTime \in Nat, headTime' \in Nat, headTime <= headTime',
           NEW vol, VolumeOK(vol), HistogramInPast(vol)
    PROVE  HistogramInPast(vol)'
<1>1. /\ Hour(headTime) \in Nat /\ Hour(headTime') \in Nat
      /\ Hour(headTime) <= Hour(headTime')
  BY HourType, HourMonotone
<1>2. vol.hourOfLastUpdate \in Nat /\ DOMAIN vol.histogram \subseteq Nat
  BY DEF VolumeOK
<1>3. Hour(headTime)' = Hour(headTime')
  BY DEF Hour
<1> QED
  BY <1>1, <1>2, <1>3 DEF HistogramInPast

\* Every step keeps the histograms in the past and changes no entry of them.
LEMMA VolumeStep ==
    TypeOK /\ VolumeInv /\ [Next]_vars => VolumeInv' /\ KeepsHistogram
<1> SUFFICES ASSUME TypeOK, VolumeInv, [Next]_vars
             PROVE  VolumeInv' /\ KeepsHistogram
  OBVIOUS
<1>0. headTime \in Nat /\ headTime >= 3600
  BY VoteDatabaseAssumption DEF TypeOK
<1>1. ASSUME UNCHANGED <<volume, headTime>>
      PROVE  VolumeInv' /\ KeepsHistogram
  BY <1>1 DEF VolumeInv, KeepsHistogram, HistogramInPast, Hour
<1>2. ASSUME NEW payer \in Accounts, NEW id \in ContestRefs,
             NEW ballot \in Ballots, ApplyDecision(payer, id, ballot)
      PROVE  VolumeInv' /\ KeepsHistogram
  <2>1. headTime' = headTime
    BY <1>2 DEF ApplyDecision, Push
  <2>2. CASE UNCHANGED vdbVars
    BY <1>1, <2>1, <2>2 DEF vdbVars
  <2>3. ASSUME NEW contest \in contests,
               processDecision(payer, contest, ballot)
        PROVE  VolumeInv' /\ KeepsHistogram
    <3> DEFINE v == <<payer, contest.coin>>
               vol == VolumeOf(contest.coin)
    <3>1. v \in BalanceIds
      BY DEF BalanceIds, TypeOK, ContestType
    <3>2. VolumeOK(vol) /\ HistogramInPast(vol)
      BY <1>0, NewVolumeType, NewVolumePast DEF VolumeOf, TypeOK, VolumeInv
    <3>3. /\ DOMAIN volume' = DOMAIN volume \cup {contest.coin}
          /\ volume'[contest.coin] = recordDecision(vol, v)
          /\ \A c \in DOMAIN volume : c # contest.coin => volume'[c] = volume[c]
      BY <2>3 DEF processDecision, NewDecision
    <3> HIDE DEF v, vol
    <3>4. /\ HistogramInPast(recordDecision(vol, v))
          /\ \A h \in DOMAIN vol.histogram :
                 /\ h \in DOMAIN recordDecision(vol, v).histogram
                 /\ recordDecision(vol, v).histogram[h] = vol.histogram[h]
      BY <1>0, <3>1, <3>2, RecordKeepsHistogram
    <3>5. \A c \in DOMAIN volume' : HistogramInPast(volume'[c])
      BY <3>3, <3>4 DEF VolumeInv
    <3>6. VolumeInv'
      BY <2>1, <3>5 DEF VolumeInv, HistogramInPast, Hour
    <3>7. contest.coin \in DOMAIN volume => vol = volume[contest.coin]
      BY DEF vol, VolumeOf
    <3>8. KeepsHistogram
      BY <3>3, <3>4, <3>7 DEF KeepsHistogram
    <3> QED
      BY <3>6, <3>8
  <2> QED
    BY <1>2, <2>2, <2>3 DEF ApplyDecision
<1>3. ASSUME NEW payer \in Accounts, NEW draft \in Drafts,
             ApplyContest(payer, draft)
      PROVE  VolumeInv' /\ KeepsHistogram
  BY <1>1, <1>3 DEF ApplyContest, processContest, vdbVars, Push
<1>4. ASSUME NEW from \in Accounts, NEW to \in Accounts, NEW coin \in Coins,
             NEW amount \in Amounts, ApplyTransfer(from, to, coin, amount)
      PROVE  VolumeInv' /\ KeepsHistogram
  BY <1>1, <1>4 DEF ApplyTransfer, vdbVars, Push
<1>5. ASSUME NEW t \in BlockTimes, FinishBlock(t)
      PROVE  VolumeInv' /\ KeepsHistogram
  <2>1. /\ headTime' \in Nat /\ headTime <= headTime' /\ volume' = volume
    BY <1>0, <1>5, VoteDatabaseAssumption DEF FinishBlock
  <2>2. ASSUME NEW c \in DOMAIN volume
        PROVE  HistogramInPast(volume[c])'
    <3>1. PICK vol : vol = volume[c]
      OBVIOUS
    <3>2. HistogramInPast(vol)'
      BY <1>0, <2>1, <3>1, TimeKeepsPast DEF VolumeInv, TypeOK
    <3> QED
      BY <2>1, <3>1, <3>2 DEF HistogramInPast
  <2> QED
    BY <2>1, <2>2 DEF VolumeInv, KeepsHistogram
<1>6. CASE Restart
  <2>1. /\ DOMAIN volume' = DOMAIN volume /\ headTime' = headTime
        /\ \A c \in DOMAIN volume :
               volume'[c] = [histogram |-> volume[c].histogram,
                             hourOfLastUpdate |-> 0, active |-> {}]
    BY <1>6 DEF Restart, NewVolume
  <2>2. Hour(headTime) \in Nat
    BY <1>0, HourType
  <2>3. VolumeInv'
    BY <2>1, <2>2 DEF VolumeInv, HistogramInPast, Hour
  <2>4. KeepsHistogram
    BY <2>1 DEF KeepsHistogram
  <2> QED
    BY <2>3, <2>4
<1>7. CASE UNCHANGED vars
  BY <1>1, <1>7 DEF vars
<1> QED
  BY <1>2, <1>3, <1>4, <1>5, <1>6, <1>7 DEF Next, EvaluateOperation

\* The voting volume reported for an hour never changes once it is tallied,
\* across restarts as well.
THEOREM PastHoursFrozenCorrect == Spec => PastHoursFrozen
<1>1. Init => VolumeInv
  BY DEF Init, VolumeInv
<1>2. VolumeInv /\ TypeOK /\ [Next]_vars => [KeepsHistogram]_vars
  BY VolumeStep
<1>3. VolumeInv /\ TypeOK /\ [Next]_vars => VolumeInv'
  BY VolumeStep
<1>4. Spec => [][KeepsHistogram]_vars
  BY <1>1, <1>2, <1>3, TypeCorrect, PTL DEF Spec
<1> QED
  BY <1>4 DEF PastHoursFrozen, KeepsHistogram

-----------------------------------------------------------------------------
(* No hour's volume exceeds the supply                                     *)

\* The balances of a coin.
Held(coin) == {b \in DOMAIN balances : b[2] = coin}

\* What waits for the tally are balances of the coin that exist: with it the
\* bound on the volume is inductive.
SupplyInv ==
    /\ IsFiniteSet(DOMAIN balances)
    /\ \A c \in DOMAIN volume : volume[c].active \subseteq Held(c)
    /\ VolumeWithinSupply

\* The supply and the stake as sums over balances.
LEMMA SupplyIsSum ==
    /\ \A c : Supply(c) = SumOver(balances, Held(c))
    /\ \A S : Stake(S) = SumOver(balances, S)
<1>1. ASSUME NEW c PROVE Supply(c) = SumOver(balances, Held(c))
  BY Zenon DEF Supply, SumOver, Held
<1>2. ASSUME NEW S PROVE Stake(S) = SumOver(balances, S)
  BY Zenon DEF Stake, SumOver
<1> QED
  BY <1>1, <1>2

\* The same of the state after a step.
LEMMA NextSupplyIsSum == \A c : Supply(c)' = SumOver(balances', Held(c)')
<1>1. (\A c : Supply(c) = SumOver(balances, Held(c)))'
  BY SupplyIsSum, PTL
<1> QED
  BY <1>1

\* Balances of a coin are finitely many, and their sum is a number.
LEMMA HeldTyped ==
    ASSUME TypeOK, IsFiniteSet(DOMAIN balances), NEW c
    PROVE  /\ IsFiniteSet(Held(c)) /\ \A b \in Held(c) : balances[b] \in Nat
           /\ Supply(c) \in Nat
<1>1. IsFiniteSet(Held(c)) /\ \A b \in Held(c) : balances[b] \in Nat
  BY FS_Subset DEF Held, TypeOK
<1> QED
  BY <1>1, SumOfNats, SupplyIsSum

\* Some of the balances of a coin hold no more than its supply.
LEMMA StakeWithinSupply ==
    ASSUME TypeOK, IsFiniteSet(DOMAIN balances), NEW c, NEW S \in SUBSET Held(c)
    PROVE  Stake(S) \in 0 .. Supply(c)
<1>1. IsFiniteSet(Held(c)) /\ \A b \in Held(c) : balances[b] \in Nat /\ Supply(c) \in Nat
  BY HeldTyped
<1>2. SumOver(balances, S) <= SumOver(balances, Held(c))
  BY <1>1, SumOfPart
<1>3. IsFiniteSet(S) /\ \A b \in S : balances[b] \in Nat
  BY <1>1, FS_Subset
<1>4. SumOver(balances, S) \in Nat
  BY <1>3, SumOfNats
<1>5. Stake(S) \in Nat /\ Stake(S) <= Supply(c) /\ Supply(c) \in Nat
  BY <1>2, <1>4, HeldTyped, SupplyIsSum
<1> QED
  BY <1>5

\* Moving stake from one balance to another, which may be new, keeps the sum.
LEMMA MovedSum ==
    ASSUME NEW S, IsFiniteSet(S), NEW f, NEW g, NEW src \in S, NEW dst, src # dst,
           NEW amount \in Nat,
           \A b \in S : f[b] \in Nat,
           g[src] = f[src] - amount,
           g[dst] = (IF dst \in S THEN f[dst] ELSE 0) + amount,
           \A b \in S : b # src /\ b # dst => g[b] = f[b]
    PROVE  SumOver(g, S \cup {dst}) = SumOver(f, S)
<1> DEFINE rest == S \ {src, dst}  T == S \cup {dst}  r == SumOver(f, rest)
<1>1. IsFiniteSet(rest) /\ IsFiniteSet(T) /\ IsFiniteSet(S \ {src}) /\ IsFiniteSet(T \ {src})
  BY FS_Subset, FS_AddElement
<1>2. \A b \in rest : f[b] \in Int /\ g[b] = f[b]
  OBVIOUS
<1>3. SumOver(g, rest) = r /\ r \in Int
  BY <1>1, <1>2, SumOfSame, SumType DEF Numeric
<1>4. f[src] \in Int /\ (dst \in S => f[dst] \in Int)
  OBVIOUS
<1>5. g[src] \in Int /\ g[dst] \in Int
  BY <1>4
<1>6. SumOver(g, T) = g[src] + (g[dst] + r)
  <2>1. Numeric(g, T) /\ Numeric(g, T \ {src})
    BY <1>2, <1>5 DEF Numeric
  <2>2. SumOver(g, T) = g[src] + SumOver(g, T \ {src})
    BY <1>1, <2>1, SumTakesOut
  <2>3. dst \in T \ {src} /\ (T \ {src}) \ {dst} = rest
    OBVIOUS
  <2>4. SumOver(g, T \ {src}) = g[dst] + SumOver(g, rest)
    BY <1>1, <2>1, <2>3, SumTakesOut
  <2> QED
    BY <1>3, <2>2, <2>4
<1>7. Numeric(f, S) /\ Numeric(f, S \ {src})
  BY DEF Numeric
<1>8. SumOver(f, S) = f[src] + SumOver(f, S \ {src})
  BY <1>1, <1>7, SumTakesOut
<1> HIDE DEF r
<1>9. CASE dst \in S
  <2>1. dst \in S \ {src} /\ (S \ {src}) \ {dst} = rest
    BY <1>9
  <2>2. SumOver(f, S \ {src}) = f[dst] + SumOver(f, rest)
    BY <1>1, <1>7, <2>1, SumTakesOut
  <2>3. SumOver(f, S) = f[src] + (f[dst] + r) /\ g[dst] = f[dst] + amount
    BY <1>8, <1>9, <2>2 DEF r
  <2> QED
    BY <1>3, <1>4, <1>6, <1>9, <2>3
<1>10. CASE dst \notin S
  <2>1. S \ {src} = rest
    BY <1>10
  <2>2. SumOver(f, S) = f[src] + r /\ g[dst] = amount
    BY <1>8, <1>10, <2>1 DEF r
  <2> QED
    BY <1>3, <1>4, <1>6, <2>2
<1> QED
  BY <1>9, <1>10

\* A transfer does not change the supply of any coin.
LEMMA TransferKeepsSupply ==
    ASSUME TypeOK, IsFiniteSet(DOMAIN balances),
           NEW from \in Accounts, NEW to \in Accounts, NEW coin \in Coins,
           NEW amount \in Amounts, ApplyTransfer(from, to, coin, amount)
    PROVE  /\ IsFiniteSet(DOMAIN balances')
           /\ \A c : Held(c) \subseteq Held(c)' /\ Supply(c)' = Supply(c)
<1> DEFINE src == <<from, coin>>  dst == <<to, coin>>
<1>1. /\ src # dst /\ src[2] = coin /\ dst[2] = coin /\ amount \in Nat
      /\ src \in DOMAIN balances
      /\ DOMAIN balances' = DOMAIN balances \cup {dst}
      /\ balances'[src] = balances[src] - amount
      /\ balances'[dst] = (IF dst \in DOMAIN balances THEN balances[dst] ELSE 0) + amount
      /\ \A b \in DOMAIN balances : b # src /\ b # dst => balances'[b] = balances[b]
  BY VoteDatabaseAssumption DEF ApplyTransfer
<1> HIDE DEF src, dst
<1>2. IsFiniteSet(DOMAIN balances')
  BY <1>1, FS_AddElement
<1>3. ASSUME NEW c, c # coin
      PROVE  Held(c)' = Held(c) /\ Supply(c)' = Supply(c)
  <2>1. Held(c)' = Held(c)
    BY <1>1, <1>3 DEF Held
  <2>2. \A b \in Held(c) : balances'[b] = balances[b]
    BY <1>1, <1>3 DEF Held
  <2>3. IsFiniteSet(Held(c)) /\ Numeric(balances, Held(c))
    BY HeldTyped DEF Numeric
  <2>4. SumOver(balances', Held(c)) = SumOver(balances, Held(c))
    BY <2>2, <2>3, SumOfSame
  <2> QED
    BY <2>1, <2>4, SupplyIsSum, NextSupplyIsSum
<1>4. Held(coin) \subseteq Held(coin)' /\ Supply(coin)' = Supply(coin)
  <2>1. Held(coin)' = Held(coin) \cup {dst}
    BY <1>1 DEF Held
  <2>2. /\ IsFiniteSet(Held(coin)) /\ \A b \in Held(coin) : balances[b] \in Nat
        /\ src \in Held(coin)
        /\ dst \in Held(coin) <=> dst \in DOMAIN balances
        /\ \A b \in Held(coin) : b # src /\ b # dst => balances'[b] = balances[b]
    BY <1>1, HeldTyped DEF Held
  <2>3. SumOver(balances', Held(coin) \cup {dst}) = SumOver(balances, Held(coin))
    BY <1>1, <2>2, MovedSum
  <2> QED
    BY <2>1, <2>3, SupplyIsSum, NextSupplyIsSum
<1> QED
  BY <1>2, <1>3, <1>4

\* The tally of an hour that has ended stays within the supply.
LEMMA RecordWithinSupply ==
    ASSUME TypeOK, IsFiniteSet(DOMAIN balances),
           NEW c, NEW vol, VolumeOK(vol), HistogramInPast(vol), vol.active \subseteq Held(c),
           \A h \in DOMAIN vol.histogram : vol.histogram[h] \in 0 .. Supply(c),
           NEW v \in Held(c)
    PROVE  /\ recordDecision(vol, v).active \subseteq Held(c)
           /\ \A h \in DOMAIN recordDecision(vol, v).histogram :
                  recordDecision(vol, v).histogram[h] \in 0 .. Supply(c)
<1>1. vol = [histogram |-> vol.histogram, hourOfLastUpdate |-> vol.hourOfLastUpdate,
             active |-> vol.active]
  BY DEF VolumeOK
<1>2. CASE vol.hourOfLastUpdate = Hour(headTime)
  <2>1. recordDecision(vol, v) = [vol EXCEPT !.active = @ \cup {v}]
    BY <1>2 DEF recordDecision
  <2>2. /\ recordDecision(vol, v).active = vol.active \cup {v}
        /\ recordDecision(vol, v).histogram = vol.histogram
    BY <1>1, <2>1
  <2> QED
    BY <2>2
<1>3. CASE vol.hourOfLastUpdate # Hour(headTime)
  <2>1. /\ recordDecision(vol, v).active = {}
        /\ recordDecision(vol, v).histogram = Tallied(vol)
    BY <1>3 DEF recordDecision
  <2>2. ASSUME NEW h \in DOMAIN Tallied(vol) PROVE Tallied(vol)[h] \in 0 .. Supply(c)
    <3>1. CASE vol.active = {}
      BY <3>1 DEF Tallied
    <3>2. CASE vol.active # {}
      <4>1. vol.hourOfLastUpdate \notin DOMAIN vol.histogram
        BY <3>2 DEF HistogramInPast, VolumeOK
      <4>2. Stake(vol.active) \in 0 .. Supply(c)
        BY StakeWithinSupply
      <4>3. /\ h \in DOMAIN vol.histogram \cup {vol.hourOfLastUpdate}
            /\ Tallied(vol)[h] = IF h = vol.hourOfLastUpdate THEN 0 + Stake(vol.active)
                                                             ELSE vol.histogram[h]
        BY <3>2, <4>1 DEF Tallied
      <4> HIDE DEF Stake, Supply
      <4>4. 0 + Stake(vol.active) = Stake(vol.active)
        BY <4>2
      <4> QED
        BY <4>2, <4>3, <4>4
    <3> QED
      BY <3>1, <3>2
  <2> QED
    BY <2>1, <2>2
<1> QED
  BY <1>2, <1>3

\* Every step keeps the volume within the supply.
LEMMA SupplyStep ==
    TypeOK /\ VolumeInv /\ SupplyInv /\ [Next]_vars => SupplyInv'
<1> SUFFICES ASSUME TypeOK, VolumeInv, SupplyInv, [Next]_vars
             PROVE  SupplyInv'
  OBVIOUS
<1>0. headTime \in Nat
  BY VoteDatabaseAssumption DEF TypeOK
<1>1. ASSUME UNCHANGED <<volume, balances>>
      PROVE  SupplyInv'
  BY <1>1, SupplyIsSum, NextSupplyIsSum DEF SupplyInv, VolumeWithinSupply, Held
<1>2. ASSUME NEW payer \in Accounts, NEW id \in ContestRefs,
             NEW ballot \in Ballots, ApplyDecision(payer, id, ballot)
      PROVE  SupplyInv'
  <2>1. balances' = balances
    BY <1>2 DEF ApplyDecision
  <2>2. CASE UNCHANGED vdbVars
    BY <1>1, <2>1, <2>2 DEF vdbVars
  <2>3. ASSUME NEW contest \in contests, Admissible(payer, contest, ballot),
               processDecision(payer, contest, ballot)
        PROVE  SupplyInv'
    <3> DEFINE v == <<payer, contest.coin>>
               vol == VolumeOf(contest.coin)
    <3>1. v \in Held(contest.coin)
      BY <2>3 DEF Admissible, Held
    <3>2. VolumeOK(vol) /\ HistogramInPast(vol)
      BY <1>0, NewVolumeType, NewVolumePast DEF VolumeOf, TypeOK, VolumeInv
    <3>3. /\ vol.active \subseteq Held(contest.coin)
          /\ \A h \in DOMAIN vol.histogram : vol.histogram[h] \in 0 .. Supply(contest.coin)
      <4>1. CASE contest.coin \in DOMAIN volume
        BY <4>1 DEF VolumeOf, SupplyInv, VolumeWithinSupply
      <4>2. CASE contest.coin \notin DOMAIN volume
        BY <4>2 DEF VolumeOf, NewVolume
      <4> QED
        BY <4>1, <4>2
    <3>4. /\ DOMAIN volume' = DOMAIN volume \cup {contest.coin}
          /\ volume'[contest.coin] = recordDecision(vol, v)
          /\ \A c \in DOMAIN volume : c # contest.coin => volume'[c] = volume[c]
      BY <2>3 DEF processDecision, NewDecision
    <3> HIDE DEF v, vol
    <3>5. /\ recordDecision(vol, v).active \subseteq Held(contest.coin)
          /\ \A h \in DOMAIN recordDecision(vol, v).histogram :
                 recordDecision(vol, v).histogram[h] \in 0 .. Supply(contest.coin)
      BY <3>1, <3>2, <3>3, RecordWithinSupply DEF SupplyInv
    <3>6. \A c : Supply(c)' = Supply(c) /\ Held(c)' = Held(c)
      <4>1. \A c : Held(c)' = Held(c)
        BY <2>1 DEF Held
      <4> QED
        BY <2>1, <4>1, SupplyIsSum, NextSupplyIsSum
    <3>7. ASSUME NEW c \in DOMAIN volume'
          PROVE  /\ volume'[c].active \subseteq Held(c)'
                 /\ \A h \in DOMAIN volume'[c].histogram :
                        volume'[c].histogram[h] \in 0 .. Supply(c)'
      <4>1. CASE c = contest.coin
        BY <3>4, <3>5, <3>6, <4>1
      <4>2. CASE c # contest.coin
        <5>1. c \in DOMAIN volume /\ volume'[c] = volume[c]
          BY <3>4, <4>2
        <5> QED
          BY <3>6, <5>1 DEF SupplyInv, VolumeWithinSupply
      <4> QED
        BY <4>1, <4>2
    <3> QED
      BY <2>1, <3>7 DEF SupplyInv, VolumeWithinSupply
  <2> QED
    BY <1>2, <2>2, <2>3 DEF ApplyDecision
<1>3. ASSUME NEW payer \in Accounts, NEW draft \in Drafts,
             ApplyContest(payer, draft)
      PROVE  SupplyInv'
  BY <1>1, <1>3 DEF ApplyContest, processContest, vdbVars
<1>4. ASSUME NEW from \in Accounts, NEW to \in Accounts, NEW coin \in Coins,
             NEW amount \in Amounts, ApplyTransfer(from, to, coin, amount)
      PROVE  SupplyInv'
  <2>1. /\ IsFiniteSet(DOMAIN balances')
        /\ \A c : Held(c) \subseteq Held(c)' /\ Supply(c)' = Supply(c)
    BY <1>4, TransferKeepsSupply DEF SupplyInv
  <2>2. volume' = volume
    BY <1>4 DEF ApplyTransfer, vdbVars
  <2> QED
    BY <2>1, <2>2 DEF SupplyInv, VolumeWithinSupply
<1>5. ASSUME NEW t \in BlockTimes, FinishBlock(t)
      PROVE  SupplyInv'
  BY <1>1, <1>5 DEF FinishBlock
<1>6. CASE Restart
  <2>1. /\ DOMAIN volume' = DOMAIN volume /\ balances' = balances
        /\ \A c \in DOMAIN volume :
               volume'[c].histogram = volume[c].histogram /\ volume'[c].active = {}
    BY <1>6 DEF Restart, NewVolume
  <2>2. \A c : Supply(c)' = Supply(c)
    <3>1. \A c : Held(c)' = Held(c)
      BY <2>1 DEF Held
    <3> QED
      BY <2>1, <3>1, SupplyIsSum, NextSupplyIsSum
  <2> QED
    BY <2>1, <2>2 DEF SupplyInv, VolumeWithinSupply
<1>7. CASE UNCHANGED vars
  BY <1>1, <1>7 DEF vars
<1> QED
  BY <1>2, <1>3, <1>4, <1>5, <1>6, <1>7 DEF Next, EvaluateOperation

\* No hour's voting volume exceeds the supply of the coin, for any number of
\* accounts, votes and transfers.
THEOREM VolumeWithinSupplyCorrect == Spec => []VolumeWithinSupply
<1>1. Init => VolumeInv /\ SupplyInv
  BY VoteDatabaseAssumption DEF Init, VolumeInv, SupplyInv, VolumeWithinSupply
<1>2. VolumeInv /\ TypeOK /\ [Next]_vars => VolumeInv'
  BY VolumeStep
<1>3. SupplyInv => VolumeWithinSupply
  BY DEF SupplyInv
<1> QED
  BY <1>1, <1>2, <1>3, SupplyStep, TypeCorrect, PTL DEF Spec

-----------------------------------------------------------------------------
(* Contests and decisions have IDs of their own                            *)

Unique ==
    /\ \A b, c \in contests : b.contestId = c.contestId => b = c
    /\ \A d, e \in decisions : d.decisionId = e.decisionId => d = e

\* An object that is stored now gets an ID that no object has.
LEMMA FreshId ==
    ASSUME TypeOK, StoredUnderOwnOperation, NEW op \in OpType, Push(op)
    PROVE  /\ CurrentOpId \in Nat /\ CurrentOpId < MaxOps
           /\ \A c \in contests : c.contestId \in Nat /\ c.contestId < CurrentOpId
           /\ \A d \in decisions : d.decisionId \in Nat /\ d.decisionId < CurrentOpId
<1>1. CurrentOpId \in Nat /\ CurrentOpId = Len(Log)
  BY PushedOp
<1>2. Log \in Seq(OpType) /\ Len(Log) = Len(history) + Len(applied)
  BY ConcatProperties DEF Log, TypeOK
<1>3. CurrentOpId < MaxOps
  BY <1>1, <1>2 DEF Push
<1>4. \A id \in Nat : id + 1 \in DOMAIN Log => id < Len(Log)
  BY <1>2
<1>5. \A c \in contests : c.contestId \in Nat /\ c.contestId + 1 \in DOMAIN Log
  BY DEF StoredUnderOwnOperation, ContestStored, TypeOK, ContestType
<1>6. \A d \in decisions : d.decisionId \in Nat /\ d.decisionId + 1 \in DOMAIN Log
  BY DEF StoredUnderOwnOperation, DecisionStored, TypeOK, DecisionType
<1> QED
  BY <1>1, <1>3, <1>4, <1>5, <1>6

\* What a step does to contests and decisions: nothing, or it stores one
\* decision on a contest there is, or one contest nobody has decided on.
StoresNothing == UNCHANGED <<contests, decisions>>

StoresDecision(payer, contest, ballot) ==
    /\ contest \in contests
    /\ contests' = contests
    /\ decisions' = decisions \cup {NewDecision(payer, contest, ballot)}
    /\ \A d \in decisions : d.decisionId \in Nat /\ d.decisionId < CurrentOpId
    /\ CurrentOpId \in Nat
    /\ contest.contestId \in 0 .. MaxOps
    /\ payer \in Accounts /\ ballot \in Ballots
    /\ Admissible(payer, contest, ballot)

StoresContest(draft) ==
    /\ decisions' = decisions
    /\ contests' = contests \cup {NewContest(draft)}
    /\ \A c \in contests : c.contestId # CurrentOpId
    /\ CurrentOpId \in 0 .. MaxOps
    /\ draft \in Drafts

StoredBy ==
    \/ StoresNothing
    \/ \E payer \in Accounts, contest \in contests, ballot \in Ballots :
           StoresDecision(payer, contest, ballot)
    \/ \E draft \in Drafts : StoresContest(draft)

\* Every step of the database stores one object or none.
LEMMA StepStores ==
    TypeOK /\ StoredUnderOwnOperation /\ [Next]_vars => StoredBy
<1> SUFFICES ASSUME TypeOK, StoredUnderOwnOperation, [Next]_vars
             PROVE  StoredBy
  OBVIOUS
<1>0. headTime \in Nat /\ MaxOps \in Nat
  BY VoteDatabaseAssumption DEF TypeOK
<1>1. ASSUME NEW payer \in Accounts, NEW id \in ContestRefs,
             NEW ballot \in Ballots, ApplyDecision(payer, id, ballot)
      PROVE  StoredBy
  <2>1. CASE UNCHANGED vdbVars
    BY <2>1 DEF StoredBy, StoresNothing, vdbVars
  <2>2. ASSUME NEW contest \in contests, Admissible(payer, contest, ballot),
               processDecision(payer, contest, ballot)
        PROVE  StoredBy
    <3>1. DecisionOp(payer, id, ballot) \in OpType /\ Push(DecisionOp(payer, id, ballot))
      BY <1>0, <1>1, OpsTyped DEF ApplyDecision
    <3>2. /\ CurrentOpId \in Nat /\ CurrentOpId < MaxOps
          /\ \A c \in contests : c.contestId \in Nat /\ c.contestId < CurrentOpId
          /\ \A d \in decisions : d.decisionId \in Nat /\ d.decisionId < CurrentOpId
      BY <3>1, FreshId
    <3>3. contest.contestId \in 0 .. MaxOps
      BY <1>0, <3>2
    <3>4. StoresDecision(payer, contest, ballot)
      BY <2>2, <3>2, <3>3 DEF StoresDecision, processDecision
    <3> QED
      BY <3>4 DEF StoredBy
  <2> QED
    BY <1>1, <2>1, <2>2 DEF ApplyDecision
<1>2. ASSUME NEW payer \in Accounts, NEW draft \in Drafts, ApplyContest(payer, draft)
      PROVE  StoredBy
  <2>1. CASE UNCHANGED vdbVars
    BY <2>1 DEF StoredBy, StoresNothing, vdbVars
  <2>2. CASE processContest(draft)
    <3>1. ContestOp(payer, draft) \in OpType /\ Push(ContestOp(payer, draft))
      BY <1>0, <1>2, OpsTyped DEF ApplyContest
    <3>2. /\ CurrentOpId \in Nat /\ CurrentOpId < MaxOps
          /\ \A c \in contests : c.contestId \in Nat /\ c.contestId < CurrentOpId
      BY <3>1, FreshId
    <3>3. CurrentOpId \in 0 .. MaxOps /\ \A c \in contests : c.contestId # CurrentOpId
      BY <1>0, <3>2
    <3>4. StoresContest(draft)
      BY <2>2, <3>3 DEF StoresContest, processContest
    <3> QED
      BY <3>4 DEF StoredBy
  <2> QED
    BY <1>2, <2>1, <2>2 DEF ApplyContest
<1>3. ASSUME NEW from \in Accounts, NEW to \in Accounts, NEW coin \in Coins,
             NEW amount \in Amounts, ApplyTransfer(from, to, coin, amount)
      PROVE  StoredBy
  BY <1>3 DEF ApplyTransfer, StoredBy, StoresNothing, vdbVars
<1>4. ASSUME NEW t \in BlockTimes, FinishBlock(t)
      PROVE  StoredBy
  BY <1>4 DEF FinishBlock, StoredBy, StoresNothing
<1>5. CASE Restart
  BY <1>5 DEF Restart, StoredBy, StoresNothing
<1>6. CASE UNCHANGED vars
  BY <1>6 DEF vars, StoredBy, StoresNothing
<1> QED
  BY <1>1, <1>2, <1>3, <1>4, <1>5, <1>6 DEF Next, EvaluateOperation

\* A new ID is nobody else's.
LEMMA UniqueStep == Unique /\ StoredBy => Unique'
<1> SUFFICES ASSUME Unique, StoredBy
             PROVE  Unique'
  OBVIOUS
<1>1. CASE StoresNothing
  BY <1>1 DEF StoresNothing, Unique
<1>2. ASSUME NEW payer \in Accounts, NEW contest \in contests, NEW ballot \in Ballots,
             StoresDecision(payer, contest, ballot)
      PROVE  Unique'
  <2> DEFINE n == NewDecision(payer, contest, ballot)
  <2>1. contests' = contests /\ decisions' = decisions \cup {n}
    BY <1>2 DEF StoresDecision
  <2>2. n.decisionId = CurrentOpId
    BY DEF NewDecision
  <2> HIDE DEF n
  <2>3. \A d \in decisions : d.decisionId # n.decisionId
    BY <1>2, <2>2 DEF StoresDecision
  <2> QED
    BY <2>1, <2>3 DEF Unique
<1>3. ASSUME NEW draft \in Drafts, StoresContest(draft)
      PROVE  Unique'
  <2> DEFINE n == NewContest(draft)
  <2>1. decisions' = decisions /\ contests' = contests \cup {n}
    BY <1>3 DEF StoresContest
  <2>2. n.contestId = CurrentOpId
    BY DEF NewContest
  <2> HIDE DEF n
  <2>3. \A c \in contests : c.contestId # n.contestId
    BY <1>3, <2>2 DEF StoresContest
  <2> QED
    BY <2>1, <2>3 DEF Unique
<1> QED
  BY <1>1, <1>2, <1>3 DEF StoredBy

\* No two contests and no two decisions share an ID.
LEMMA UniqueAlways == Spec => []Unique
<1>1. Init => Unique
  BY DEF Init, Unique
<1> QED
  BY <1>1, StepStores, UniqueStep, TypeCorrect, StoredUnderOwnOperationCorrect, PTL DEF Spec

-----------------------------------------------------------------------------
(* The poll box                                                            *)

\* d is what the voter cast last on the contest.
IsLast(d, id, voter) ==
    /\ d \in decisions /\ d.contestId = id /\ d.voter = voter
    /\ \A e \in decisions : e.contestId = id /\ e.voter = voter
                               => e.decisionId <= d.decisionId

\* A voter has cast one last decision on a contest.
LEMMA LastIs == (TypeOK /\ Unique) => \A d, id, v : IsLast(d, id, v) => LastDecision(id, v) = d
<1> SUFFICES ASSUME TypeOK, Unique, NEW d, NEW id, NEW v, IsLast(d, id, v)
             PROVE  LastDecision(id, v) = d
  OBVIOUS
<1> DEFINE L == LastDecision(id, v)
<1>1. IsLast(L, id, v)
  BY DEF IsLast, LastDecision
<1>2. /\ d \in decisions /\ L \in decisions
      /\ d.decisionId <= L.decisionId /\ L.decisionId <= d.decisionId
  BY <1>1 DEF IsLast
<1> HIDE DEF L
<1>3. d.decisionId \in Nat /\ L.decisionId \in Nat
  BY <1>2 DEF TypeOK, DecisionType
<1>4. d.decisionId = L.decisionId
  BY <1>2, <1>3
<1>5. d = L
  BY <1>2, <1>4 DEF Unique
<1> QED
  BY <1>5 DEF L

\* Whoever voted on a contest has cast a last decision.
LEMMA LastExists ==
    ASSUME TypeOK, StoredUnderOwnOperation, NEW id, NEW v \in VotersOn(id)
    PROVE  \E d \in decisions : IsLast(d, id, v)
<1> DEFINE mine == {d \in decisions : d.contestId = id /\ d.voter = v}
           left == {Len(Log) - d.decisionId : d \in mine}
<1>1. Log \in Seq(OpType)
  BY ConcatProperties DEF Log, TypeOK
<1>2. \A d \in decisions : d.decisionId \in Nat /\ d.decisionId < Len(Log)
  BY <1>1 DEF StoredUnderOwnOperation, DecisionStored, TypeOK, DecisionType
<1>3. mine # {}
  BY DEF VotersOn, DecisionsOn
<1>4. Len(Log) \in Nat
  BY <1>1
<1> HIDE DEF mine
<1>5. \A d \in mine : d \in decisions
  BY DEF mine
<1>6. left \subseteq Nat
  BY <1>2, <1>4, <1>5
<1>7. left # {}
  BY <1>3
<1> HIDE DEF left
<1>8. PICK n \in left : \A m \in left : ~ (m < n)
  BY <1>6, <1>7, SmallestNumber
<1>9. PICK d \in mine : n = Len(Log) - d.decisionId
  BY <1>8 DEF left
<1>10. \A e \in mine : e.decisionId <= d.decisionId
  <2>1. ASSUME NEW e \in mine PROVE ~ (Len(Log) - e.decisionId < Len(Log) - d.decisionId)
    BY <1>8, <1>9 DEF left
  <2>2. \A e \in mine : e.decisionId \in Nat /\ d.decisionId \in Nat
    BY <1>2, <1>5
  <2> QED
    BY <1>4, <2>1, <2>2
<1>11. IsLast(d, id, v)
  BY <1>9, <1>10 DEF mine, IsLast
<1> QED
  BY <1>11, <1>5

\* Who cast a last decision has voted.
LEMMA VoterOfLast ==
    ASSUME NEW d, NEW id, NEW v, IsLast(d, id, v)
    PROVE  v \in VotersOn(id)
BY DEF IsLast, VotersOn, DecisionsOn

\* The box, entry by entry.
BoxIs ==
    /\ PollBox = [id \in {c.contestId : c \in contests} |-> PollBox[id]]
    /\ \A c \in contests :
           /\ PollBox[c.contestId] =
                  [v \in VotersOn(c.contestId) |-> PollBox[c.contestId][v]]
           /\ \A v, d : IsLast(d, c.contestId, v)
                            => PollBox[c.contestId][v] = ChoiceOf(d, c)

\* The poll box has an entry for each contest and each of its voters.
LEMMA BoxOf == TypeOK /\ Unique => BoxIs
<1> SUFFICES ASSUME TypeOK, Unique
             PROVE  BoxIs
  OBVIOUS
<1>1. PollBox = [id \in {c.contestId : c \in contests} |-> PollBox[id]]
  BY DEF PollBox
<1>2. ASSUME NEW c \in contests
      PROVE  /\ PollBox[c.contestId] =
                    [v \in VotersOn(c.contestId) |-> PollBox[c.contestId][v]]
             /\ \A v, d : IsLast(d, c.contestId, v)
                              => PollBox[c.contestId][v] = ChoiceOf(d, c)
  <2> DEFINE id == c.contestId
  <2>1. ContestOf(id) = c
    BY DEF ContestOf, Unique
  <2>2. PollBox[id] = [v \in VotersOn(id) |-> ChoiceOf(LastDecision(id, v), ContestOf(id))]
    BY DEF PollBox
  <2> HIDE DEF id
  <2>3. PollBox[id] = [v \in VotersOn(id) |-> PollBox[id][v]]
    BY <2>2
  <2>4. ASSUME NEW v, NEW d, IsLast(d, id, v)
        PROVE  PollBox[id][v] = ChoiceOf(d, c)
    <3>1. LastDecision(id, v) = d /\ v \in VotersOn(id)
      BY <2>4, LastIs, VoterOfLast
    <3> QED
      BY <2>1, <2>2, <3>1
  <2> QED
    BY <2>3, <2>4 DEF id
<1> QED
  BY <1>1, <1>2 DEF BoxIs

\* The same after a step.
LEMMA NextBoxOf == TypeOK' /\ Unique' => BoxIs'
BY BoxOf, PTL

\* Two boxes with the same entries are the same.
LEMMA SameBox ==
    ASSUME NEW f, NEW g, NEW S, f = [x \in S |-> f[x]], g = [x \in S |-> g[x]],
           \A x \in S : f[x] = g[x]
    PROVE  f = g
OBVIOUS

-----------------------------------------------------------------------------
(* Steps of the poll                                                       *)

\* Nothing stored: the box stays.
LEMMA BoxStays ==
    ASSUME TypeOK, StoredUnderOwnOperation, Unique, TypeOK', Unique', StoresNothing
    PROVE  PollBox' = PollBox
<1>1. contests' = contests /\ decisions' = decisions
  BY DEF StoresNothing
<1>2. BoxIs /\ BoxIs'
  BY BoxOf, NextBoxOf
<1>3. \A d, id, v : IsLast(d, id, v) => IsLast(d, id, v)'
  BY <1>1 DEF IsLast
<1>4. \A id : VotersOn(id)' = VotersOn(id)
  BY <1>1 DEF VotersOn, DecisionsOn
<1>5. ASSUME NEW c \in contests
      PROVE  PollBox'[c.contestId] = PollBox[c.contestId]
  <2> DEFINE id == c.contestId
  <2>1. /\ PollBox[id] = [v \in VotersOn(id) |-> PollBox[id][v]]
        /\ PollBox'[id] = [v \in VotersOn(id) |-> PollBox'[id][v]]
    BY <1>1, <1>2, <1>4 DEF BoxIs
  <2>2. ASSUME NEW v \in VotersOn(id) PROVE PollBox'[id][v] = PollBox[id][v]
    <3>1. PICK d \in decisions : IsLast(d, id, v)
      BY LastExists
    <3>2. IsLast(d, id, v)'
      BY <1>3, <3>1
    <3>3. PollBox[id][v] = ChoiceOf(d, c)
      BY <1>2, <3>1 DEF BoxIs
    <3>4. PollBox'[id][v] = ChoiceOf(d, c)
      BY <1>1, <1>2, <3>2 DEF BoxIs
    <3> QED
      BY <3>3, <3>4
  <2> HIDE DEF id
  <2>3. PollBox'[id] = PollBox[id]
    BY <2>1, <2>2, SameBox
  <2> QED
    BY <2>3 DEF id
<1> QED
  BY <1>1, <1>2, <1>5, SameBox DEF BoxIs

\* An entry that the new decision is not for stays.
LEMMA EntryStays ==
    ASSUME TypeOK, StoredUnderOwnOperation, BoxIs, BoxIs',
           NEW c \in contests, c \in contests', NEW v \in VotersOn(c.contestId),
           \A d : IsLast(d, c.contestId, v) => IsLast(d, c.contestId, v)'
    PROVE  PollBox'[c.contestId][v] = PollBox[c.contestId][v]
<1> DEFINE id == c.contestId
<1>1. PICK d \in decisions : IsLast(d, id, v)
  BY LastExists
<1>2. IsLast(d, id, v)'
  BY <1>1
<1>3. PollBox[id][v] = ChoiceOf(d, c)
  BY <1>1 DEF BoxIs
<1>4. PollBox'[id][v] = ChoiceOf(d, c)
  BY <1>2 DEF BoxIs
<1> QED
  BY <1>3, <1>4

\* What an accepted decision says is one of the votes of the poll.
LEMMA ChoiceIsVote ==
    ASSUME TypeOK, StoredUnderOwnOperation, NEW payer, NEW contest, NEW ballot,
           StoresDecision(payer, contest, ballot)
    PROVE  ChoiceOf(NewDecision(payer, contest, ballot), contest) \in PollVotes
<1> DEFINE d == NewDecision(payer, contest, ballot)
<1>1. d.opinions = ballot.opinions /\ d.writeIns = ballot.writeIns
  BY DEF NewDecision
<1>2. CASE IsNull(d)
  BY <1>2 DEF ChoiceOf, PollVotes
<1>3. CASE ~ IsNull(d)
  <2> DEFINE index == d.opinions[1].contestant
  <2>1. ballot \in BallotType /\ contest \in contests /\ Admissible(payer, contest, ballot)
    BY VoteDatabaseAssumption DEF StoresDecision
  <2>2. ballot.opinions # <<>>
    BY <1>1, <1>3 DEF IsNull
  <2>3. 1 \in DOMAIN ballot.opinions
    BY <2>1, <2>2 DEF BallotType
  <2>4. index \in 0 .. contest.contestants + Len(ballot.writeIns) - 1
    BY <1>1, <2>1, <2>3 DEF Admissible, OpinionValid
  <2>5. ballot.writeIns \in Seq(Names)
    BY <2>1 DEF BallotType
  <2>6. contest.contestants \in Nat
    BY <2>1 DEF TypeOK, ContestType
  <2>7. ChoiceOf(d, contest) = Candidate(d, contest)
    BY <1>3 DEF ChoiceOf
  <2>8. CASE index < contest.contestants
    <3>1. Candidate(d, contest) = <<"contestant", index>>
      BY <2>8 DEF Candidate
    <3>2. PICK draft \in Drafts : contest.contestants = draft.contestants
      <4>1. ContestStored(contest) /\ Log \in Seq(OpType)
        BY <2>1, ConcatProperties DEF StoredUnderOwnOperation, Log, TypeOK
      <4>2. OpAt(contest.contestId) \in OpType /\ OpAt(contest.contestId).type = "contest"
        BY <4>1 DEF ContestStored, OpAt
      <4>3. OpAt(contest.contestId).draft \in Drafts
        BY <4>2 DEF OpType
      <4> QED
        BY <4>1, <4>3 DEF ContestStored
    <3> HIDE DEF d, index
    <3>3. index \in 0 .. draft.contestants - 1
      BY <2>4, <2>6, <2>8, <3>2
    <3>4. index \in UNION {0 .. e.contestants - 1 : e \in Drafts}
      BY <3>3
    <3> QED
      BY <2>7, <3>1, <3>4 DEF PollVotes, d
  <2>9. CASE ~ (index < contest.contestants)
    <3>1. Candidate(d, contest) =
              <<"writeIn", ballot.writeIns[index - contest.contestants + 1]>>
      BY <1>1, <2>9 DEF Candidate
    <3> HIDE DEF d, index
    <3>2. index - contest.contestants + 1 \in 1 .. Len(ballot.writeIns)
      BY <2>4, <2>5, <2>6, <2>9
    <3>3. ballot.writeIns[index - contest.contestants + 1] \in Names
      BY <2>5, <3>2
    <3> QED
      BY <2>7, <3>1, <3>3 DEF PollVotes, d
  <2> QED
    BY <2>8, <2>9
<1> QED
  BY <1>2, <1>3

\* A stored decision is a vote of its voter.
LEMMA DecisionCasts ==
    ASSUME TypeOK, StoredUnderOwnOperation, Unique, TypeOK', Unique',
           NEW payer, NEW contest, NEW ballot,
           StoresDecision(payer, contest, ballot)
    PROVE  ThePoll!Next
<1>0. PICK n : n = NewDecision(payer, contest, ballot)
  OBVIOUS
<1> DEFINE cid == contest.contestId
           voter == <<payer, contest.coin>>
           choice == ChoiceOf(n, contest)
           new == [w \in DOMAIN PollBox[cid] \cup {voter} |->
                       IF w = voter THEN choice ELSE PollBox[cid][w]]
           box == [PollBox EXCEPT ![cid] = new]
<1>1. /\ contests' = contests /\ decisions' = decisions \cup {n}
      /\ contest \in contests /\ cid \in 0 .. MaxOps /\ payer \in Accounts
      /\ \A d \in decisions : d.decisionId \in Nat /\ d.decisionId < CurrentOpId
      /\ CurrentOpId \in Nat
  BY <1>0 DEF StoresDecision
<1>2. choice \in PollVotes
  BY <1>0, ChoiceIsVote
<1>3. voter \in BalanceIds
  BY <1>1 DEF TypeOK, ContestType, BalanceIds
<1>4. n.contestId = cid /\ n.voter = voter /\ n.decisionId = CurrentOpId
  BY <1>0 DEF NewDecision
<1>5. BoxIs /\ BoxIs'
  BY BoxOf, NextBoxOf
<1> HIDE DEF choice
<1>6. IsLast(n, cid, voter)'
  BY <1>1, <1>4 DEF IsLast
<1>7. \A d, id, v : IsLast(d, id, v) /\ (id # cid \/ v # voter) => IsLast(d, id, v)'
  BY <1>1, <1>4 DEF IsLast
<1>8. \A id : VotersOn(id)' = IF id = cid THEN VotersOn(id) \cup {voter} ELSE VotersOn(id)
  BY <1>1, <1>4 DEF VotersOn, DecisionsOn
<1> HIDE DEF cid, voter
<1>9. cid \in {c.contestId : c \in contests}
  BY <1>1 DEF cid
<1>10. PollBox'[cid] = new
  <2>1. /\ PollBox'[cid] = [v \in VotersOn(cid)' |-> PollBox'[cid][v]]
        /\ DOMAIN PollBox[cid] = VotersOn(cid)
    BY <1>1, <1>5 DEF BoxIs, cid
  <2>2. PollBox'[cid][voter] = choice
    BY <1>1, <1>5, <1>6 DEF BoxIs, cid, choice
  <2>3. ASSUME NEW v \in VotersOn(cid), v # voter
        PROVE  PollBox'[cid][v] = PollBox[cid][v]
    <3>1. \A d : IsLast(d, cid, v) => IsLast(d, cid, v)'
      BY <1>7, <2>3
    <3> QED
      BY <1>1, <1>5, <3>1, EntryStays DEF cid
  <2> QED
    BY <1>8, <2>1, <2>2, <2>3
<1>11. ASSUME NEW c \in contests, c.contestId # cid
       PROVE  PollBox'[c.contestId] = PollBox[c.contestId]
  <2> DEFINE id == c.contestId
  <2>1. /\ PollBox[id] = [v \in VotersOn(id) |-> PollBox[id][v]]
        /\ PollBox'[id] = [v \in VotersOn(id) |-> PollBox'[id][v]]
    BY <1>1, <1>5, <1>8, <1>11 DEF BoxIs
  <2>2. ASSUME NEW v \in VotersOn(id) PROVE PollBox'[id][v] = PollBox[id][v]
    <3>1. \A d : IsLast(d, id, v) => IsLast(d, id, v)'
      BY <1>7, <1>11
    <3> QED
      BY <1>1, <1>5, <3>1, EntryStays
  <2> HIDE DEF id
  <2>3. PollBox'[id] = PollBox[id]
    BY <2>1, <2>2, SameBox
  <2> QED
    BY <2>3 DEF id
<1> HIDE DEF new
<1>12. PollBox' = box
  <2> DEFINE S == {c.contestId : c \in contests}
  <2>1. PollBox = [id \in S |-> PollBox[id]] /\ PollBox' = [id \in S |-> PollBox'[id]]
    BY <1>1, <1>5 DEF BoxIs
  <2>2. ASSUME NEW id \in S PROVE PollBox'[id] = box[id]
    <3>1. CASE id = cid
      BY <1>9, <1>10, <2>1, <3>1
    <3>2. CASE id # cid
      BY <1>11, <2>1, <3>2
    <3> QED
      BY <3>1, <3>2
  <2>3. box = [id \in S |-> box[id]]
    BY <2>1
  <2> QED
    BY <2>1, <2>2, <2>3, SameBox
<1>13. cid \in DOMAIN PollBox
  BY <1>5, <1>9 DEF BoxIs
<1>14. ThePoll!Cast(voter, cid, choice)
  BY <1>12, <1>13 DEF ThePoll!Cast, new
<1> QED
  BY <1>1, <1>2, <1>3, <1>14 DEF ThePoll!Next, cid

\* A stored contest is opened.
LEMMA ContestOpens ==
    ASSUME TypeOK, StoredUnderOwnOperation, DecisionsWellFounded, Unique,
           TypeOK', Unique', NEW draft, StoresContest(draft)
    PROVE  ThePoll!Next
<1>0. PICK n : n = NewContest(draft)
  OBVIOUS
<1> DEFINE cid == n.contestId
           box == [k \in DOMAIN PollBox \cup {cid} |->
                      IF k = cid THEN [v \in {} |-> {}] ELSE PollBox[k]]
<1>1. /\ decisions' = decisions /\ contests' = contests \cup {n}
      /\ \A c \in contests : c.contestId # cid
      /\ cid \in 0 .. MaxOps
  BY <1>0 DEF StoresContest, NewContest
<1>2. BoxIs /\ BoxIs'
  BY BoxOf, NextBoxOf
<1>3. \A d, id, v : IsLast(d, id, v) => IsLast(d, id, v)'
  BY <1>1 DEF IsLast
<1>4. \A id : VotersOn(id)' = VotersOn(id)
  BY <1>1 DEF VotersOn, DecisionsOn
<1>5. VotersOn(cid) = {}
  <2>1. \A d \in decisions : d.contestId # cid
    BY <1>1 DEF DecisionsWellFounded, DecidesOn
  <2> QED
    BY <2>1 DEF VotersOn, DecisionsOn
<1>6. PollBox'[cid] = [v \in {} |-> {}]
  <2>1. PollBox'[cid] = [v \in VotersOn(cid)' |-> PollBox'[cid][v]]
    BY <1>1, <1>2 DEF BoxIs
  <2> QED
    BY <1>4, <1>5, <2>1
<1>7. ASSUME NEW c \in contests
      PROVE  PollBox'[c.contestId] = PollBox[c.contestId]
  <2> DEFINE id == c.contestId
  <2>1. /\ PollBox[id] = [v \in VotersOn(id) |-> PollBox[id][v]]
        /\ PollBox'[id] = [v \in VotersOn(id) |-> PollBox'[id][v]]
    BY <1>1, <1>2, <1>4 DEF BoxIs
  <2>2. ASSUME NEW v \in VotersOn(id) PROVE PollBox'[id][v] = PollBox[id][v]
    BY <1>1, <1>2, <1>3, EntryStays
  <2> HIDE DEF id
  <2>3. PollBox'[id] = PollBox[id]
    BY <2>1, <2>2, SameBox
  <2> QED
    BY <2>3 DEF id
<1>8. PollBox' = box
  <2> DEFINE S == {c.contestId : c \in contests}  T == S \cup {cid}
  <2>1. DOMAIN PollBox = S /\ PollBox' = [id \in {c.contestId : c \in contests'} |-> PollBox'[id]]
    BY <1>2 DEF BoxIs
  <2>2. {c.contestId : c \in contests'} = T
    BY <1>1
  <2>3. ASSUME NEW id \in T PROVE PollBox'[id] = box[id]
    BY <1>1, <1>6, <1>7, <2>1
  <2>4. box = [id \in T |-> box[id]]
    BY <2>1
  <2> HIDE DEF T, box
  <2> QED
    BY <2>1, <2>2, <2>3, <2>4, SameBox
<1>9. cid \notin DOMAIN PollBox
  BY <1>1, <1>2 DEF BoxIs
<1>10. ThePoll!Open(cid)
  BY <1>8, <1>9 DEF ThePoll!Open
<1> QED
  BY <1>1, <1>10 DEF ThePoll!Next

\* The decision index implements the poll, for any set of voters, contests
\* and ballots: a stored decision is a vote of its voter, a stored contest is
\* opened, and nothing else changes a choice.
THEOREM ImplementsPollCorrect == Spec => ImplementsPoll
<1>1. Init => ThePoll!Init
  BY DEF Init, ThePoll!Init, PollBox
<1>2. /\ TypeOK /\ StoredUnderOwnOperation /\ DecisionsWellFounded /\ Unique
      /\ TypeOK' /\ Unique' /\ [Next]_vars
      => [ThePoll!Next]_PollBox
  BY StepStores, BoxStays, DecisionCasts, ContestOpens DEF StoredBy
<1> QED
  BY <1>1, <1>2, TypeCorrect, StoredUnderOwnOperationCorrect, DecisionsWellFoundedCorrect,
     UniqueAlways, PTL DEF Spec, ImplementsPoll, ThePoll!Spec

-----------------------------------------------------------------------------
(* The results behind the poll                                             *)

\* The specification of the results runs the vote database.
LEMMA ResultsRunDatabase == ResultsSpec => Spec
<1>1. ResultsInit => Init
  BY DEF ResultsInit
<1>2. [ResultsNext]_allVars => [Next]_vars
  BY DEF ResultsNext, allVars, OpenResults, Receive, results, subscribe, BlockApplied, Next
<1> QED
  BY <1>1, <1>2, PTL DEF ResultsSpec, Spec

\* What the tally of the watched contest is a function of.
TalliedFrom(ds, bs, cs, id) ==
    LET contest == CHOOSE c \in cs : c.contestId = id
        on == {d \in ds : d.contestId = contest.contestId}
        s == CHOOSE t \in [1 .. Cardinality(on) -> on] :
                 \A i, j \in DOMAIN t : i < j => Before(t[i], t[j])
        voting == {i \in Counted(s) : ~ IsNull(s[i])}
        stake == [i \in voting |-> bs[s[i].voter]]
        For(x) == {i \in voting : Candidate(s[i], contest) = x}
    IN  [x \in {Candidate(s[i], contest) : i \in voting} |->
            SumFunctionOnSet(stake, For(x))]

\* The tally depends on nothing else.
LEMMA TalliedIs == tallyResults(Watched) = TalliedFrom(decisions, balances, contests, watching)
BY DEF tallyResults, Watched, ByContest, DecisionsOn, TalliedFrom

\* The same after a step.
LEMMA NextTalliedIs ==
    tallyResults(Watched)' = TalliedFrom(decisions', balances', contests', watching')
<1>1. (tallyResults(Watched) = TalliedFrom(decisions, balances, contests, watching))'
  BY TalliedIs, PTL
<1> QED
  BY <1>1

\* While decisions, balances and contests stay, so does the tally.
LEMMA SameTally ==
    ASSUME UNCHANGED <<decisions, balances, contests, watching>>
    PROVE  tallyResults(Watched)' = tallyResults(Watched)
<1>1. TalliedFrom(decisions', balances', contests', watching')
          = TalliedFrom(decisions, balances, contests, watching)
  <2> HIDE DEF TalliedFrom
  <2> QED
    OBVIOUS
<1> QED
  BY <1>1, TalliedIs, NextTalliedIs

-----------------------------------------------------------------------------
(* The contestants' results in the app                                     *)

IsSeq(s) == s \in Seq({s[i] : i \in DOMAIN s})

\* Appending, taking the head off and joining, place by place.
LEMMA SeqPlaces ==
    ASSUME NEW s, IsSeq(s)
    PROVE  /\ Len(s) \in Nat /\ (s # <<>> <=> Len(s) > 0)
           /\ \A x : /\ IsSeq(Append(s, x)) /\ Len(Append(s, x)) = Len(s) + 1
                     /\ Append(s, x)[Len(s) + 1] = x
           /\ s # <<>> => /\ Head(s) = s[1]
                          /\ IsSeq(Tail(s)) /\ Len(Tail(s)) = Len(s) - 1
                          /\ \A i \in 1 .. Len(s) - 1 : Tail(s)[i] = s[i + 1]
<1> DEFINE S == {s[i] : i \in DOMAIN s}
<1>1. s \in Seq(S) /\ Len(s) \in Nat /\ DOMAIN s = 1 .. Len(s)
  BY DEF IsSeq
<1>2. s # <<>> <=> Len(s) > 0
  BY <1>1
<1>3. ASSUME NEW x
      PROVE  /\ IsSeq(Append(s, x)) /\ Len(Append(s, x)) = Len(s) + 1
             /\ Append(s, x)[Len(s) + 1] = x
  <2> DEFINE t == Append(s, x)
  <2>1. s \in Seq(S \cup {x})
    BY <1>1
  <2>2. /\ t \in Seq(S \cup {x}) /\ Len(t) = Len(s) + 1
        /\ t[Len(s) + 1] = x
    BY <2>1, AppendProperties
  <2> HIDE DEF t
  <2>3. t \in Seq({t[i] : i \in DOMAIN t})
    BY <2>2
  <2> QED
    BY <2>2, <2>3 DEF IsSeq, t
<1>4. ASSUME s # <<>>
      PROVE  /\ Head(s) = s[1]
             /\ IsSeq(Tail(s)) /\ Len(Tail(s)) = Len(s) - 1
             /\ \A i \in 1 .. Len(s) - 1 : Tail(s)[i] = s[i + 1]
  <2> DEFINE t == Tail(s)
  <2>1. /\ Head(s) = s[1] /\ t \in Seq(S) /\ Len(t) = Len(s) - 1
        /\ \A i \in 1 .. Len(s) - 1 : t[i] = s[i + 1]
    BY <1>1, <1>4, HeadTailProperties
  <2> HIDE DEF t
  <2>2. t \in Seq({t[i] : i \in DOMAIN t})
    BY <2>1
  <2> QED
    BY <2>1, <2>2 DEF IsSeq, t
<1> QED
  BY <1>1, <1>2, <1>3, <1>4

\* A sequence over any set is one over its elements.
LEMMA SeqOfItsPlaces ==
    ASSUME NEW S, NEW t \in Seq(S)
    PROVE  IsSeq(t)
BY DEF IsSeq

Copies(k, v) == [i \in 1 .. k |-> v]

\* As many copies of one message at the end.
LEMMA SeqMore ==
    ASSUME NEW s, IsSeq(s), NEW k \in Nat, NEW v, NEW t, t = s \o Copies(k, v)
    PROVE  /\ IsSeq(t) /\ Len(t) = Len(s) + k
           /\ \A i \in Len(s) + 1 .. Len(s) + k : t[i] = v
<1> DEFINE S == {s[i] : i \in DOMAIN s} \cup {v}
           m == Copies(k, v)
<1>1. s \in Seq(S) /\ m \in Seq(S) /\ Len(m) = k /\ \A i \in 1 .. k : m[i] = v
  BY DEF IsSeq, Copies
<1>0. t = s \o m
  OBVIOUS
<1> HIDE DEF m, S
<1>2. /\ t \in Seq(S) /\ Len(t) = Len(s) + k /\ Len(s) \in Nat
      /\ \A i \in 1 .. Len(s) + k : t[i] = IF i <= Len(s) THEN s[i] ELSE m[i - Len(s)]
  <2>1. /\ s \o m \in Seq(S) /\ Len(s \o m) = Len(s) + Len(m) /\ Len(s) \in Nat
        /\ \A i \in 1 .. Len(s) + Len(m) :
               (s \o m)[i] = IF i <= Len(s) THEN s[i] ELSE m[i - Len(s)]
    <3>1. s \in Seq(S) /\ m \in Seq(S)
      BY <1>1
    <3>2. s \o m \in Seq(S)
      BY <3>1, ConcatProperties
    <3>3. Len(s \o m) = Len(s) + Len(m) /\ Len(s) \in Nat
      BY <3>1, ConcatProperties
    <3>4. ASSUME NEW i \in 1 .. Len(s) + Len(m)
          PROVE  (s \o m)[i] = IF i <= Len(s) THEN s[i] ELSE m[i - Len(s)]
      BY <3>1, ConcatProperties
    <3> QED
      BY <3>2, <3>3, <3>4
  <2> QED
    BY <1>0, <1>1, <2>1
<1>3. \A i \in Len(s) + 1 .. Len(s) + k : t[i] = v
  <2> TAKE i \in Len(s) + 1 .. Len(s) + k
  <2>1. i \in 1 .. Len(s) + k /\ ~ (i <= Len(s)) /\ i - Len(s) \in 1 .. k
    BY <1>2
  <2>2. t[i] = m[i - Len(s)]
    BY <1>2, <2>1
  <2> QED
    BY <1>1, <2>1, <2>2
<1> QED
  BY <1>2, <1>3, SeqOfItsPlaces

\* Who watches has opened a contest that exists, and the last that was sent
\* to him since the last block is the tally there is now.
Sent ==
    /\ IsSeq(calls) /\ IsSeq(messages)
    /\ notifiers \in Nat
    /\ notified \in BOOLEAN
    /\ calls # <<>> \/ notifiers > 0 \/ notified => watching # Nothing
    /\ UpToDate => IF messages = <<>>
                   THEN shown.contestants = ContestantList(tallyResults(Watched))
                   ELSE messages[Len(messages)] = tallyResults(Watched)

\* A step that leaves the database alone and the capability as it is.
LEMMA SentStays ==
    ASSUME Sent, UNCHANGED <<vars, appVars>>
    PROVE  Sent'
<1>1. tallyResults(Watched)' = tallyResults(Watched)
  BY SameTally DEF vars, appVars
<1> DEFINE now == tallyResults(Watched)
<1> HIDE DEF now
<1>2. tallyResults(Watched)' = now /\ tallyResults(Watched) = now
  BY <1>1 DEF now
<1> QED
  BY <1>2 DEF Sent, UpToDate, vars, appVars

\* Every step of the app, the server and the chain keeps Sent.
LEMMA SentStep ==
    TypeOK /\ Sent /\ [ResultsNext]_allVars => Sent'
<1> SUFFICES ASSUME TypeOK, Sent, [ResultsNext]_allVars
             PROVE  Sent'
  OBVIOUS
<1>1. ASSUME NEW id \in ContestRefs, OpenResults(id)
      PROVE  Sent'
  <2>1. /\ watching = Nothing /\ watching' # Nothing
        /\ calls' = <<"results", "subscribe">>
        /\ UNCHANGED <<vars, notifiers, messages, shown, notified>>
    BY <1>1, ResultsAssumption DEF OpenResults
  <2>2. IsSeq(calls')
    BY <2>1 DEF IsSeq
  <2>3. ~ notified'
    BY <2>1 DEF Sent
  <2> QED
    BY <2>1, <2>2, <2>3 DEF Sent, UpToDate, vars
<1>2. ASSUME Receive
      PROVE  Sent'
  <2> DEFINE now == tallyResults(Watched)
  <2>1. /\ messages # <<>>
        /\ shown' = updateResults(shown, Head(messages))
        /\ messages' = Tail(messages)
        /\ UNCHANGED <<vars, watching, calls, notifiers, notified>>
    BY <1>2 DEF Receive
  <2>2. tallyResults(Watched)' = tallyResults(Watched)
    BY <2>1, SameTally DEF vars
  <2>3. /\ Head(messages) = messages[1] /\ IsSeq(messages')
        /\ Len(messages') = Len(messages) - 1 /\ Len(messages) \in Nat /\ Len(messages) > 0
        /\ \A i \in 1 .. Len(messages) - 1 : messages'[i] = messages[i + 1]
        /\ messages' # <<>> <=> Len(messages') > 0
    <3>1. IsSeq(messages)
      BY DEF Sent
    <3>2. /\ Head(messages) = messages[1] /\ IsSeq(messages')
          /\ Len(messages') = Len(messages) - 1 /\ Len(messages) \in Nat /\ Len(messages) > 0
          /\ \A i \in 1 .. Len(messages) - 1 : messages'[i] = messages[i + 1]
      BY <2>1, <3>1, SeqPlaces
    <3>3. messages' # <<>> <=> Len(messages') > 0
      BY <3>2, SeqPlaces
    <3> QED
      BY <3>2, <3>3
  <2>4. shown'.contestants = ContestantList(Head(messages))
    BY <2>1 DEF updateResults
  <2> HIDE DEF now
  <2>5. tallyResults(Watched)' = now /\ tallyResults(Watched) = now
    BY <2>2 DEF now
  <2>6. ASSUME UpToDate'
        PROVE  IF messages' = <<>> THEN shown'.contestants = ContestantList(now)
                                   ELSE messages'[Len(messages')] = now
    <3>1. UpToDate
      BY <2>1, <2>6 DEF UpToDate, vars
    <3>2. messages[Len(messages)] = now
      BY <2>1, <2>5, <3>1 DEF Sent
    <3>3. CASE messages' = <<>>
      <4>1. Len(messages) = 1
        BY <2>3, <3>3
      <4> QED
        BY <2>3, <2>4, <3>2, <3>3, <4>1
    <3>4. CASE messages' # <<>>
      <4>1. Len(messages) - 1 \in 1 .. Len(messages) - 1
        BY <2>3, <3>4
      <4>2. messages'[Len(messages) - 1] = messages[(Len(messages) - 1) + 1]
        BY <2>3, <4>1
      <4>3. (Len(messages) - 1) + 1 = Len(messages)
        BY <2>3
      <4> QED
        BY <2>3, <3>2, <3>4, <4>2, <4>3
    <3> QED
      BY <3>3, <3>4
  <2> QED
    BY <2>1, <2>3, <2>5, <2>6 DEF Sent
<1>3. ASSUME results
      PROVE  Sent'
  <2> DEFINE now == tallyResults(Watched)
  <2>1. /\ calls # <<>>
        /\ calls' = Tail(calls)
        /\ messages' = Append(messages, tallyResults(Watched))
        /\ UNCHANGED <<vars, watching, notifiers, shown, notified>>
    BY <1>3 DEF results
  <2>2. tallyResults(Watched)' = tallyResults(Watched)
    BY <2>1, SameTally DEF vars
  <2>3. IsSeq(calls')
    BY <2>1, SeqPlaces DEF Sent
  <2> HIDE DEF now
  <2>4. tallyResults(Watched)' = now /\ messages' = Append(messages, now)
    BY <2>1, <2>2 DEF now
  <2>5. /\ IsSeq(messages') /\ Len(messages') = Len(messages) + 1
        /\ messages'[Len(messages')] = now
    <3>1. IsSeq(messages)
      BY DEF Sent
    <3>2. /\ IsSeq(Append(messages, now)) /\ Len(Append(messages, now)) = Len(messages) + 1
          /\ Append(messages, now)[Len(messages) + 1] = now
      BY <3>1, SeqPlaces
    <3> QED
      BY <2>4, <3>2
  <2>6. messages' # <<>>
    BY <2>4, <2>5, SeqPlaces DEF Sent
  <2> QED
    BY <2>1, <2>3, <2>4, <2>5, <2>6 DEF Sent
<1>4. ASSUME subscribe
      PROVE  Sent'
  <2>1. /\ calls # <<>>
        /\ calls' = Tail(calls)
        /\ notifiers' = notifiers + 1
        /\ UNCHANGED <<vars, watching, messages, shown, notified>>
    BY <1>4 DEF subscribe
  <2>2. tallyResults(Watched)' = tallyResults(Watched)
    BY <2>1, SameTally DEF vars
  <2>3. IsSeq(calls')
    BY <2>1, SeqPlaces DEF Sent
  <2> DEFINE now == tallyResults(Watched)
  <2> HIDE DEF now
  <2>4. tallyResults(Watched)' = now /\ tallyResults(Watched) = now
    BY <2>2 DEF now
  <2>5. notifiers' \in Nat /\ watching' # Nothing
    BY <2>1 DEF Sent
  <2>6. UpToDate' => UpToDate
    BY <2>1 DEF UpToDate, vars
  <2> QED
    BY <2>1, <2>3, <2>4, <2>5, <2>6 DEF Sent
<1>5. ASSUME EvaluateOperation, UNCHANGED appVars
      PROVE  Sent'
  <2>1. applied' # <<>>
    <3>1. \A op : Push(op) => applied' # <<>>
      BY AppendProperties DEF Push, TypeOK
    <3> QED
      BY <1>5, <3>1 DEF EvaluateOperation, ApplyDecision, ApplyContest, ApplyTransfer
  <2> QED
    BY <1>5, <2>1 DEF Sent, UpToDate, appVars
<1>6. ASSUME NEW t \in BlockTimes, BlockApplied(t)
      PROVE  Sent'
  <2> DEFINE now == tallyResults(Watched)
             k == notifiers * notifiers
  <2>1. /\ UNCHANGED <<balances, contests, decisions, watching, calls, notifiers, shown>>
        /\ messages' = messages \o Notifications
        /\ notified' = (notifiers > 0)
    BY <1>6 DEF BlockApplied, FinishBlock
  <2>2. tallyResults(Watched)' = tallyResults(Watched)
    BY <2>1, SameTally
  <2>3. Notifications = [i \in 1 .. k |-> now]
    BY DEF Notifications
  <2>4. k \in Nat /\ (notifiers > 0 => k > 0)
    BY DEF Sent
  <2> HIDE DEF now, k
  <2>5. tallyResults(Watched)' = now
    BY <2>2 DEF now
  <2>6. /\ IsSeq(messages') /\ Len(messages') = Len(messages) + k
        /\ \A i \in Len(messages) + 1 .. Len(messages) + k : messages'[i] = now
    <3>1. IsSeq(messages)
      BY DEF Sent
    <3>2. messages' = messages \o Copies(k, now)
      BY <2>1, <2>3 DEF Copies
    <3> QED
      BY <2>4, <3>1, <3>2, SeqMore
  <2>7. Len(messages) \in Nat /\ (messages' # <<>> <=> Len(messages') > 0)
    BY <2>6, SeqPlaces DEF Sent
  <2>8. ASSUME UpToDate'
        PROVE  messages' # <<>> /\ messages'[Len(messages')] = now
    <3>1. k > 0
      BY <2>1, <2>4, <2>8 DEF UpToDate
    <3>2. Len(messages) + k \in Len(messages) + 1 .. Len(messages) + k
      BY <2>4, <2>7, <3>1
    <3> QED
      BY <2>4, <2>6, <2>7, <3>1, <3>2
  <2>9. notified' \in BOOLEAN
    BY <2>1
  <2>10. notified' => notifiers > 0
    BY <2>1
  <2> QED
    BY <2>1, <2>5, <2>6, <2>8, <2>9, <2>10 DEF Sent
<1>7. CASE UNCHANGED allVars
  BY <1>7, SentStays DEF allVars
<1> QED
  BY <1>1, <1>2, <1>3, <1>4, <1>5, <1>6, <1>7 DEF ResultsNext

\* However blocks, votes, calls and answers interleave: once everything has
\* arrived, the app shows the contestants' results of the last block.
THEOREM ContestantsCurrentCorrect == ResultsSpec => []ContestantsCurrent
<1>1. ResultsInit => Sent
  <2>1. IsSeq(<<>>)
    BY DEF IsSeq
  <2>2. 0 \in Nat /\ ~ (0 > 0)
    OBVIOUS
  <2> QED
    BY <2>1, <2>2, Zenon DEF ResultsInit, Sent, UpToDate
<1>2. Sent => ContestantsCurrent
  BY DEF Sent, ContestantsCurrent, Quiet, ContestantsShown, UpToDate
<1> QED
  BY <1>1, <1>2, SentStep, ResultsRunDatabase, TypeCorrect, PTL DEF ResultsSpec

-----------------------------------------------------------------------------
(* The index of the decisions on a contest                                 *)

\* s lists decisions in index order.
Indexed(s) == \A i, j \in DOMAIN s : i < j => Before(s[i], s[j])

\* The decisions of S may be kept in one index.
Indexable(S) ==
    /\ S \subseteq DecisionType
    /\ \A d, e \in S : d.decisionId = e.decisionId => d = e

\* Of two decisions one comes before the other, and never the other way.
LEMMA OrderTotal ==
    ASSUME NEW d \in DecisionType, NEW e \in DecisionType
    PROVE  /\ d.decisionId # e.decisionId => Before(d, e) \/ Before(e, d)
           /\ Before(d, e) => ~ Before(e, d) /\ d # e
           /\ Before(d, e) <=> \/ Rank[d.voter] < Rank[e.voter]
                               \/ /\ Rank[d.voter] = Rank[e.voter]
                                  /\ d.decisionId < e.decisionId
<1>1. /\ d.voter \in BalanceIds /\ e.voter \in BalanceIds
      /\ d.decisionId \in Nat /\ e.decisionId \in Nat
  BY DEF DecisionType
<1>2. /\ Rank[d.voter] \in Nat /\ Rank[e.voter] \in Nat
      /\ Rank[d.voter] = Rank[e.voter] <=> d.voter = e.voter
  BY <1>1, TallyAssumption
<1>3. Before(d, e) <=> \/ Rank[d.voter] < Rank[e.voter]
                       \/ /\ Rank[d.voter] = Rank[e.voter]
                          /\ d.decisionId < e.decisionId
  BY <1>1, <1>2 DEF Before
<1>4. Before(e, d) <=> \/ Rank[e.voter] < Rank[d.voter]
                       \/ /\ Rank[e.voter] = Rank[d.voter]
                          /\ e.decisionId < d.decisionId
  BY <1>1, <1>2 DEF Before
<1>5. d.decisionId # e.decisionId => Before(d, e) \/ Before(e, d)
  BY <1>1, <1>2, <1>3, <1>4
<1>6. Before(d, e) => ~ Before(e, d) /\ d # e
  BY <1>1, <1>2, <1>3, <1>4
<1> QED
  BY <1>3, <1>5, <1>6

\* The order of the index is transitive.
LEMMA OrderTransitive ==
    ASSUME NEW d \in DecisionType, NEW e \in DecisionType, NEW f \in DecisionType,
           Before(d, e), Before(e, f)
    PROVE  Before(d, f)
<1>1. /\ d.voter \in BalanceIds /\ e.voter \in BalanceIds /\ f.voter \in BalanceIds
      /\ d.decisionId \in Nat /\ e.decisionId \in Nat /\ f.decisionId \in Nat
  BY DEF DecisionType
<1>2. /\ Rank[d.voter] \in Nat /\ Rank[e.voter] \in Nat /\ Rank[f.voter] \in Nat
  BY <1>1, TallyAssumption
<1> QED
  BY <1>1, <1>2, OrderTotal

\* A set of decisions that is not empty has a first one.
LEMMA FirstDecision ==
    ASSUME NEW S, Indexable(S), S # {}
    PROVE  \E d \in S : \A e \in S : e # d => Before(d, e)
<1>1. \A d \in S : /\ d \in DecisionType /\ d.voter \in BalanceIds /\ d.decisionId \in Nat
                   /\ Rank[d.voter] \in Nat
  BY TallyAssumption DEF Indexable, DecisionType
<1> DEFINE ranks == {Rank[d.voter] : d \in S}
<1>2. ranks \subseteq Nat /\ ranks # {}
  BY <1>1
<1>3. PICK r \in ranks : \A q \in ranks : ~ (q < r)
  BY <1>2, SmallestNumber
<1> DEFINE front == {d \in S : Rank[d.voter] = r}
           ids == {d.decisionId : d \in front}
<1>4. front # {}
  BY <1>3
<1>5. ids \subseteq Nat /\ ids # {}
  BY <1>1, <1>4
<1>6. PICK k \in ids : \A m \in ids : ~ (m < k)
  BY <1>5, SmallestNumber
<1>7. PICK d \in front : d.decisionId = k
  BY <1>6
<1>8. ASSUME NEW e \in S, e # d
      PROVE  Before(d, e)
  <2>1. /\ d \in DecisionType /\ e \in DecisionType
        /\ Rank[d.voter] = r /\ ~ (Rank[e.voter] < r)
        /\ r \in Nat /\ Rank[e.voter] \in Nat
        /\ d.decisionId \in Nat /\ e.decisionId \in Nat
    BY <1>1, <1>3, <1>7
  <2>2. d.decisionId # e.decisionId
    BY <1>8 DEF Indexable
  <2>3. Rank[e.voter] = r => ~ (e.decisionId < d.decisionId)
    BY <1>6, <1>7
  <2> QED
    BY <2>1, <2>2, <2>3, OrderTotal
<1> QED
  BY <1>7, <1>8

\* Finitely many decisions can be listed in index order: of the sets that
\* cannot, a smallest one would have a first decision to start its list with.
LEMMA IndexExists ==
    ASSUME NEW S, IsFiniteSet(S), Indexable(S)
    PROVE  \E s \in [1 .. Cardinality(S) -> S] : Indexed(s)
<1> DEFINE C == {T \in SUBSET S : ~ \E s \in [1 .. Cardinality(T) -> T] : Indexed(s)}
<1> SUFFICES ASSUME C # {} PROVE FALSE
  OBVIOUS
<1>1. \A T \in SUBSET S : IsFiniteSet(T) /\ Indexable(T)
  BY FS_Subset DEF Indexable
<1>2. PICK T \in C : \A V \in C : ~ (Cardinality(V) < Cardinality(T))
  <2>1. \A T \in C : IsFiniteSet(T)
    BY <1>1
  <2> HIDE DEF C
  <2> QED
    BY <2>1, SmallestSet
<1> DEFINE n == Cardinality(T)
<1>3. n \in Nat /\ IsFiniteSet(T) /\ Indexable(T)
  BY <1>1, FS_CardinalityType
<1>4. T # {}
  <2> SUFFICES ASSUME T = {} PROVE FALSE
    OBVIOUS
  <2>1. n = 0
    BY FS_EmptySet
  <2>2. [i \in 1 .. n |-> i] \in [1 .. n -> T] /\ 1 .. n = {}
    BY <2>1
  <2>3. Indexed([i \in 1 .. n |-> i])
    BY <2>2 DEF Indexed
  <2> QED
    BY <2>2, <2>3
<1>5. PICK first \in T : \A e \in T : e # first => Before(first, e)
  BY <1>3, <1>4, FirstDecision
<1> DEFINE rest == T \ {first}
<1>6. Cardinality(rest) = n - 1
  BY <1>3, FS_RemoveElement
<1>7. n - 1 \in Nat /\ n - 1 < n
  BY <1>3, <1>4, FS_EmptySet
<1>8. rest \notin C /\ rest \in SUBSET S
  BY <1>2, <1>6, <1>7
<1>9. PICK t \in [1 .. n - 1 -> rest] : Indexed(t)
  BY <1>6, <1>8
<1> HIDE DEF n
<1> DEFINE s == [i \in 1 .. n |-> IF i = 1 THEN first ELSE t[i - 1]]
<1>10. s \in [1 .. n -> T]
  <2>1. \A i \in 1 .. n : i # 1 => i - 1 \in 1 .. n - 1
    BY <1>3
  <2> QED
    BY <1>9, <2>1
<1>11. Indexed(s)
  <2> SUFFICES ASSUME NEW i \in 1 .. n, NEW j \in 1 .. n, i < j
               PROVE  Before(s[i], s[j])
    BY DEF Indexed
  <2>1. j # 1 /\ j - 1 \in 1 .. n - 1 /\ s[j] = t[j - 1]
    BY <1>3
  <2>2. s[j] \in rest
    BY <1>9, <2>1
  <2>3. CASE i = 1
    BY <1>5, <2>2, <2>3
  <2>4. CASE i # 1
    <3>1. i - 1 \in 1 .. n - 1 /\ i - 1 < j - 1 /\ s[i] = t[i - 1]
      BY <1>3, <2>4
    <3> QED
      BY <1>9, <2>1, <3>1 DEF Indexed
  <2> QED
    BY <2>3, <2>4
<1> QED
  BY <1>2, <1>10, <1>11 DEF n

\* Only finitely many decisions are ever stored.
LEMMA DecisionsFinite == Spec => []IsFiniteSet(decisions)
<1>1. Init => IsFiniteSet(decisions)
  BY FS_EmptySet DEF Init
<1>2. StoredBy /\ IsFiniteSet(decisions) => IsFiniteSet(decisions)'
  BY FS_AddElement DEF StoredBy, StoresNothing, StoresDecision, StoresContest
<1> QED
  BY <1>1, <1>2, StepStores, TypeCorrect, StoredUnderOwnOperationCorrect, PTL DEF Spec

\* The index of a contest holds every decision on it once.
IndexIs(s, S) ==
    /\ Cardinality(S) \in Nat /\ Len(s) = Cardinality(S)
    /\ s \in [1 .. Len(s) -> S]
    /\ Indexed(s)
    /\ \A i, j \in 1 .. Len(s) : s[i] = s[j] => i = j
    /\ \A d \in S : \E i \in 1 .. Len(s) : s[i] = d

\* The index of a contest lists its decisions, each once.
LEMMA IndexOf ==
    ASSUME TypeOK, Unique, IsFiniteSet(decisions), NEW id
    PROVE  IndexIs(ByContest(id), DecisionsOn(id)) /\ Indexable(DecisionsOn(id))
<1> DEFINE S == DecisionsOn(id)
           n == Cardinality(S)
           s == ByContest(id)
<1>1. S \in SUBSET decisions
  BY DEF DecisionsOn
<1>2. IsFiniteSet(S) /\ n \in Nat
  BY <1>1, FS_Subset, FS_CardinalityType
<1>3. Indexable(S)
  BY <1>1 DEF Indexable, Unique, TypeOK
<1>4. s \in [1 .. n -> S] /\ Indexed(s)
  BY <1>2, <1>3, IndexExists DEF ByContest, Indexed
<1> HIDE DEF S, s
<1>5. Len(s) = n
  <2> HIDE DEF n
  <2> QED
    BY <1>2, <1>4
<1>6. ASSUME NEW i \in 1 .. n, NEW j \in 1 .. n, s[i] = s[j]
      PROVE  i = j
  <2>1. s[i] \in DecisionType /\ s[j] \in DecisionType
    BY <1>3, <1>4 DEF Indexable
  <2>2. ~ (i < j) /\ ~ (j < i)
    <3>1. ~ Before(s[i], s[j]) /\ ~ Before(s[j], s[i])
      BY <1>6, <2>1, OrderTotal
    <3>2. i \in DOMAIN s /\ j \in DOMAIN s
      BY <1>4
    <3> QED
      BY <1>4, <3>1, <3>2 DEF Indexed
  <2> QED
    BY <1>2, <2>2
<1>7. \A d \in S : \E i \in 1 .. n : s[i] = d
  <2>1. IsFiniteSet(1 .. n) /\ Cardinality(1 .. n) = n
    BY <1>2, FS_Interval
  <2>2. s \in Injection(1 .. n, S)
    BY <1>4, <1>6 DEF Injection, IsInjective
  <2>3. s \in Surjection(1 .. n, S)
    BY <1>2, <2>1, <2>2, FS_Injection
  <2> QED
    BY <2>3 DEF Surjection
<1> QED
  BY <1>2, <1>3, <1>4, <1>5, <1>6, <1>7 DEF IndexIs, S, s

\* The walk looks at a decision exactly if it is the last of its voter.
LEMMA CountedAreLast ==
    ASSUME TypeOK, Unique, IsFiniteSet(decisions), NEW id,
           NEW i \in 1 .. Len(ByContest(id))
    PROVE  i \in Counted(ByContest(id))
               <=> IsLast(ByContest(id)[i], id, ByContest(id)[i].voter)
<1> DEFINE s == ByContest(id)  S == DecisionsOn(id)  n == Len(s)
<1>1. IndexIs(s, S) /\ Indexable(S)
  BY IndexOf
<1>2. \A d : d \in S <=> d \in decisions /\ d.contestId = id
  BY DEF DecisionsOn
<1> HIDE DEF s, S
<1>3. /\ n \in Nat /\ DOMAIN s = 1 .. n
      /\ \A j \in 1 .. n : s[j] \in S /\ s[j] \in DecisionType
      /\ \A j, k \in 1 .. n : j < k => Before(s[j], s[k])
      /\ \A d \in S : \E j \in 1 .. n : s[j] = d
  BY <1>1 DEF IndexIs, Indexable, Indexed
<1>4. \A j \in 1 .. n : /\ s[j].voter \in BalanceIds /\ s[j].decisionId \in Nat
                        /\ Rank[s[j].voter] \in Nat
  BY <1>3, TallyAssumption DEF DecisionType
<1>5. i \in 1 .. n /\ (i \in Counted(s) <=> i = n \/ s[i + 1].voter # s[i].voter)
  BY <1>3 DEF Counted, s
<1> HIDE DEF n
<1>6. ASSUME i = n \/ s[i + 1].voter # s[i].voter
      PROVE  IsLast(s[i], id, s[i].voter)
  <2> SUFFICES ASSUME NEW e \in S, e.voter = s[i].voter
               PROVE  e.decisionId <= s[i].decisionId
    BY <1>2, <1>3, <1>5 DEF IsLast
  <2>1. PICK j \in 1 .. n : s[j] = e
    BY <1>3
  <2>2. CASE j < i
    <3>1. Before(s[j], s[i])
      BY <1>3, <1>5, <2>2
    <3>2. s[j].decisionId < s[i].decisionId
      BY <1>3, <1>4, <1>5, <2>1, <3>1, OrderTotal
    <3> QED
      BY <1>4, <1>5, <2>1, <3>2
  <2>3. CASE j = i
    BY <1>4, <1>5, <2>1, <2>3
  <2>4. CASE i < j
    <3>1. i + 1 \in 1 .. n /\ i < i + 1 /\ (i + 1 < j \/ i + 1 = j) /\ i # n
      BY <1>3, <1>5, <2>4
    <3>2. s[i + 1].voter # s[i].voter
      BY <1>6, <3>1
    <3>3. Before(s[i], s[i + 1])
      BY <1>3, <1>5, <3>1
    <3>4. Rank[s[i].voter] < Rank[s[i + 1].voter]
      <4>1. Rank[s[i].voter] # Rank[s[i + 1].voter]
        BY <1>4, <1>5, <3>1, <3>2, TallyAssumption
      <4> QED
        BY <1>3, <1>5, <3>1, <3>3, <4>1, OrderTotal
    <3>5. CASE i + 1 = j
      BY <2>1, <3>2, <3>5
    <3>6. CASE i + 1 < j
      <4>1. Before(s[i + 1], s[j])
        BY <1>3, <3>1, <3>6
      <4>2. Rank[s[i + 1].voter] <= Rank[s[j].voter]
        BY <1>3, <1>4, <3>1, <4>1, OrderTotal
      <4>3. Rank[s[i].voter] < Rank[s[j].voter]
        BY <1>4, <1>5, <3>1, <3>4, <4>2
      <4> QED
        BY <1>4, <1>5, <2>1, <4>3
    <3> QED
      BY <3>1, <3>5, <3>6
  <2> QED
    BY <1>5, <2>2, <2>3, <2>4
<1>7. ASSUME IsLast(s[i], id, s[i].voter), i # n, s[i + 1].voter = s[i].voter
      PROVE  FALSE
  <2>1. i + 1 \in 1 .. n /\ i < i + 1
    BY <1>3, <1>5, <1>7
  <2>2. Before(s[i], s[i + 1])
    BY <1>3, <1>5, <2>1
  <2>3. s[i].decisionId < s[i + 1].decisionId
    BY <1>3, <1>4, <1>5, <1>7, <2>1, <2>2, OrderTotal
  <2>4. s[i + 1] \in decisions /\ s[i + 1].contestId = id
    BY <1>2, <1>3, <2>1
  <2>5. s[i + 1].decisionId <= s[i].decisionId
    BY <1>7, <2>4 DEF IsLast
  <2> QED
    BY <1>4, <1>5, <2>1, <2>3, <2>5
<1> QED
  BY <1>5, <1>6, <1>7 DEF s

-----------------------------------------------------------------------------
(* The tally and the poll                                                  *)

\* Both library sums are the same one.
LEMMA SumFunctionIs ==
    ASSUME NEW f, NEW S
    PROVE  SumFunctionOnSet(f, S) = SumOver(f, S)
BY Zenon DEF SumFunctionOnSet, FoldFunctionOnSet, SumOver, MapThenSumSet

\* Finitely many arguments have finitely many values.
LEMMA ImageFinite ==
    ASSUME NEW f, NEW S, IsFiniteSet(S)
    PROVE  IsFiniteSet({f[x] : x \in S})
<1> DEFINE T == {f[x] : x \in S}  g == [x \in S |-> f[x]]
<1>1. g \in Surjection(S, T)
  BY DEF Surjection
<1> HIDE DEF g, T
<1>2. IsFiniteSet(T)
  BY <1>1, FS_Surjection
<1> QED
  BY <1>2 DEF T

\* A candidate is a choice.
LEMMA CandidateIsChoice == \A d, c : Candidate(d, c) # NoChoice
BY DEF Candidate, NoChoice

TallyInv == TypeOK /\ StoredUnderOwnOperation /\ DecisionsWellFounded /\ Unique
                /\ IsFiniteSet(decisions)

\* The positions the walk looks at stand for the voters of the poll.
Represents(s, at, cast, contest) ==
    /\ \A i \in at : /\ s[i].voter \in DOMAIN cast
                     /\ cast[s[i].voter] = ChoiceOf(s[i], contest)
    /\ \A v \in DOMAIN cast : \E i \in at : s[i].voter = v
    /\ \A i, j \in at : s[i].voter = s[j].voter => i = j

\* The walk looks at one decision of each voter, the one that counts.
LEMMA WalkRepresents ==
    ASSUME TallyInv, NEW contest \in contests
    PROVE  Represents(ByContest(contest.contestId), Counted(ByContest(contest.contestId)),
                      PollBox[contest.contestId], contest)
<1> DEFINE id == contest.contestId
           s == ByContest(id)
           cast == PollBox[id]
<1>1. BoxIs
  BY BoxOf DEF TallyInv
<1>2. /\ DOMAIN cast = VotersOn(id)
      /\ \A v, d : IsLast(d, id, v) => cast[v] = ChoiceOf(d, contest)
  BY <1>1 DEF BoxIs
<1>3. IndexIs(s, DecisionsOn(id))
  BY IndexOf DEF TallyInv
<1>4. \A i \in 1 .. Len(s) : i \in Counted(s) <=> IsLast(s[i], id, s[i].voter)
  BY CountedAreLast DEF TallyInv
<1>5. Counted(s) \subseteq 1 .. Len(s)
  BY <1>3 DEF Counted, IndexIs
<1>6. \A d : d \in decisions /\ d.contestId = id => d \in DecisionsOn(id)
  BY DEF DecisionsOn
<1> HIDE DEF s, cast, id
<1>7. \A i \in Counted(s) : IsLast(s[i], id, s[i].voter)
  BY <1>4, <1>5
<1>8. \A i \in Counted(s) : s[i].voter \in DOMAIN cast /\ cast[s[i].voter] = ChoiceOf(s[i], contest)
  BY <1>2, <1>7, VoterOfLast
<1>9. ASSUME NEW v \in DOMAIN cast PROVE \E i \in Counted(s) : s[i].voter = v
  <2>1. PICK d \in decisions : IsLast(d, id, v)
    BY <1>2, LastExists DEF TallyInv
  <2>2. d \in DecisionsOn(id) /\ d.voter = v
    BY <1>6, <2>1 DEF IsLast
  <2>3. PICK i \in 1 .. Len(s) : s[i] = d
    BY <1>3, <2>2 DEF IndexIs
  <2> QED
    BY <1>4, <2>1, <2>2, <2>3
<1>10. ASSUME NEW i \in Counted(s), NEW j \in Counted(s), s[i].voter = s[j].voter
       PROVE  i = j
  <2>1. LastDecision(id, s[i].voter) = s[i] /\ LastDecision(id, s[i].voter) = s[j]
    BY <1>7, <1>10, LastIs DEF TallyInv
  <2> QED
    BY <1>3, <1>5, <2>1 DEF IndexIs
<1> QED
  BY <1>8, <1>9, <1>10 DEF Represents, s, cast, id

\* The voters of a contest are finitely many and hold a balance each.
LEMMA VotersHold ==
    ASSUME TallyInv, NEW id
    PROVE  IsFiniteSet(VotersOn(id)) /\ \A v \in VotersOn(id) : balances[v] \in Nat
<1> DEFINE S == DecisionsOn(id)  f == [d \in S |-> d.voter]
<1>1. S \in SUBSET decisions
  BY DEF DecisionsOn
<1>2. IsFiniteSet(S)
  BY <1>1, FS_Subset DEF TallyInv
<1>3. VotersOn(id) = {f[d] : d \in S}
  BY DEF VotersOn
<1>4. IsFiniteSet(VotersOn(id))
  <2> HIDE DEF f, S
  <2> QED
    BY <1>2, <1>3, ImageFinite
<1>5. \A d \in decisions : d.voter \in DOMAIN balances
  BY DEF TallyInv, DecisionsWellFounded, DecidesOn
<1>6. \A v \in VotersOn(id) : balances[v] \in Nat
  BY <1>1, <1>5 DEF VotersOn, TallyInv, TypeOK
<1> QED
  BY <1>4, <1>6

\* The result of a walk through s at the positions in at.
ResultOf(s, at, contest) ==
    LET voting == {i \in at : ~ IsNull(s[i])}
        stake == [i \in voting |-> balances[s[i].voter]]
        For(x) == {i \in voting : Candidate(s[i], contest) = x}
    IN  [x \in {Candidate(s[i], contest) : i \in voting} |->
            SumFunctionOnSet(stake, For(x))]

\* The results, and their total, are the poll's.
Matches(res, total, cast) ==
    LET chosen == {cast[v] : v \in DOMAIN cast} \ {NoChoice}
    IN  /\ DOMAIN res = chosen
        /\ \A x \in chosen : res[x] = Stake({v \in DOMAIN cast : cast[v] = x})
        /\ total = Stake({v \in DOMAIN cast : cast[v] # NoChoice})

\* A walk that represents a poll gives its result.
LEMMA ResultMatches ==
    ASSUME NEW s, NEW at, IsFiniteSet(at), NEW cast, NEW contest,
           Represents(s, at, cast, contest),
           IsFiniteSet(DOMAIN cast), \A v \in DOMAIN cast : balances[v] \in Nat
    PROVE  Matches(ResultOf(s, at, contest), SumFunction(ResultOf(s, at, contest)), cast)
<1> DEFINE voting == {i \in at : ~ IsNull(s[i])}
           stake == [i \in voting |-> balances[s[i].voter]]
           For(x) == {i \in voting : Candidate(s[i], contest) = x}
           X == {Candidate(s[i], contest) : i \in voting}
           By(x) == {v \in DOMAIN cast : cast[v] = x}
           r == ResultOf(s, at, contest)
           chosen == {cast[v] : v \in DOMAIN cast} \ {NoChoice}
<1>1. r = [x \in X |-> SumFunctionOnSet(stake, For(x))]
  BY DEF ResultOf
<1>2. \A i \in at : /\ s[i].voter \in DOMAIN cast
                    /\ IsNull(s[i]) => cast[s[i].voter] = NoChoice
                    /\ ~ IsNull(s[i]) => /\ cast[s[i].voter] = Candidate(s[i], contest)
                                         /\ cast[s[i].voter] # NoChoice
  BY CandidateIsChoice DEF Represents, ChoiceOf
<1>3. /\ \A v \in DOMAIN cast : \E i \in at : s[i].voter = v
      /\ \A i, j \in at : s[i].voter = s[j].voter => i = j
  BY DEF Represents
<1>4. X = chosen
  BY <1>2, <1>3
<1>5. IsFiniteSet(voting) /\ \A x : IsFiniteSet(For(x)) /\ IsFiniteSet(By(x))
  BY FS_Subset
<1>6. ASSUME NEW x \in X
      PROVE  SumOver(stake, For(x)) = SumOver(balances, By(x))
  <2> DEFINE h == [i \in voting |-> s[i].voter]
             A == For(x)
             B == By(x)
  <2>1. x # NoChoice
    BY <1>4
  <2>2. \A i \in A : h[i] \in B /\ stake[i] = balances[h[i]]
    BY <1>2
  <2>3. \A i, j \in A : h[i] = h[j] => i = j
    BY <1>3
  <2>4. \A v \in B : \E i \in A : h[i] = v
    <3> TAKE v \in B
    <3>1. PICK i \in at : s[i].voter = v
      BY <1>3
    <3>2. ~ IsNull(s[i]) /\ Candidate(s[i], contest) = x
      BY <1>2, <2>1, <3>1
    <3> QED
      BY <3>1, <3>2
  <2>5. Numeric(balances, B)
    BY DEF Numeric
  <2>6. IsFiniteSet(A) /\ IsFiniteSet(B)
    BY <1>5
  <2> HIDE DEF h, A, B, stake
  <2>7. SumOver(stake, A) = SumOver(balances, B)
    BY <2>2, <2>3, <2>4, <2>5, <2>6, SumReindexed
  <2> QED
    BY <2>7 DEF A, B
<1>7. \A x \in X : r[x] = SumOver(balances, By(x))
  <2> TAKE x \in X
  <2>1. r[x] = SumFunctionOnSet(stake, For(x))
    BY <1>1
  <2> HIDE DEF r, stake, X
  <2>2. r[x] = SumOver(stake, For(x))
    BY <2>1, SumFunctionIs
  <2> QED
    BY <1>6, <2>2
<1>8. SumOver(r, X) = SumOver(balances, {v \in DOMAIN cast : cast[v] # NoChoice})
  <2> DEFINE P == [x \in X |-> By(x)]
             U == UNION {P[x] : x \in X}
             V == {v \in DOMAIN cast : cast[v] # NoChoice}
  <2>1. U = V
    <3>1. ASSUME NEW v \in DOMAIN cast PROVE v \in U <=> cast[v] # NoChoice
      <4>1. CASE cast[v] = NoChoice
        BY <1>4, <4>1
      <4>2. CASE cast[v] # NoChoice
        <5>1. cast[v] \in X /\ v \in P[cast[v]]
          BY <1>4, <4>2
        <5> QED
          BY <4>2, <5>1
      <4> QED
        BY <4>1, <4>2
    <3>2. \A v \in U : v \in DOMAIN cast
      OBVIOUS
    <3> HIDE DEF U
    <3> QED
      BY <3>1, <3>2
  <2>2. IsFiniteSet(V) /\ Numeric(balances, V)
    BY FS_Subset DEF Numeric
  <2>3. IsFiniteSet(X)
    <3>1. X = {cast[v] : v \in V}
      BY <1>4
    <3> HIDE DEF V, X
    <3> QED
      BY <2>2, <3>1, ImageFinite
  <2>4. \A x \in X : r[x] = SumOver(balances, P[x])
    BY <1>7
  <2>5. \A x, y \in X : x # y => P[x] \cap P[y] = {}
    OBVIOUS
  <2> HIDE DEF P, X, r, V
  <2>0. IsFiniteSet(U) /\ Numeric(balances, U)
    BY <2>1, <2>2
  <2>6. SumOver(r, X) = SumOver(balances, U)
    BY <2>0, <2>3, <2>4, <2>5, SumOfClasses
  <2> QED
    BY <2>1, <2>6 DEF V
<1>9. DOMAIN r = X
  BY <1>1
<1> HIDE DEF r, X
<1>10. SumFunction(r) = SumOver(r, X)
  BY <1>9, SumFunctionIs DEF SumFunction
<1>11. \A S : Stake(S) = SumOver(balances, S)
  BY SupplyIsSum
<1> QED
  BY <1>4, <1>7, <1>8, <1>9, <1>10, <1>11 DEF r, Matches

\* The walk arrives at the poll's result.
LEMMA TallyInvMatches == TallyInv => TallyMatchesPoll
<1> SUFFICES ASSUME TallyInv, NEW contest \in contests
             PROVE  Matches(tallyResults(contest), totalVotingStake(contest),
                            PollBox[contest.contestId])
  BY DEF TallyMatchesPoll, Matches
<1> DEFINE id == contest.contestId
           s == ByContest(id)
           cast == PollBox[id]
<1>1. tallyResults(contest) = ResultOf(s, Counted(s), contest)
  BY DEF tallyResults, ResultOf
<1>2. totalVotingStake(contest) = SumFunction(ResultOf(s, Counted(s), contest))
  BY <1>1 DEF totalVotingStake
<1>3. Represents(s, Counted(s), cast, contest)
  BY WalkRepresents
<1>4. IsFiniteSet(Counted(s))
  <2>1. IndexIs(s, DecisionsOn(id))
    BY IndexOf DEF TallyInv
  <2>2. Len(s) \in Nat /\ Counted(s) \in SUBSET (1 .. Len(s))
    BY <2>1 DEF IndexIs, Counted
  <2> HIDE DEF s
  <2>3. IsFiniteSet(1 .. Len(s))
    BY <2>2, FS_Interval
  <2> QED
    BY <2>2, <2>3, FS_Subset
<1>5. DOMAIN cast = VotersOn(id)
  BY BoxOf DEF BoxIs, TallyInv
<1>6. IsFiniteSet(DOMAIN cast) /\ \A v \in DOMAIN cast : balances[v] \in Nat
  BY <1>5, VotersHold
<1> HIDE DEF s, cast
<1> QED
  BY <1>1, <1>2, <1>3, <1>4, <1>6, ResultMatches DEF s, cast

\* For any votes and transfers, the tally of every contest is the poll's: each
\* candidate gets what the voters whose last choice he is hold now.
THEOREM TallyMatchesPollCorrect == Spec => []TallyMatchesPoll
<1> QED
  BY TallyInvMatches, TypeCorrect, StoredUnderOwnOperationCorrect, DecisionsWellFoundedCorrect,
     UniqueAlways, DecisionsFinite, PTL DEF TallyInv

-----------------------------------------------------------------------------
(* What getCoinDetails reports                                             *)

\* A number by what it is divided by.
LEMMA DividedIs ==
    ASSUME NEW W \in Nat \ {0}, NEW x \in Int
    PROVE  x = (x \div W) * W + (x % W) /\ x \div W \in Int
  OBVIOUS

\* A remainder by what was taken away.
LEMMA RemainderIs ==
    ASSUME NEW W \in Nat \ {0}, NEW x \in Int
    PROVE  \E q \in Int : x % W = x - q * W
<1>1. PICK q \in Int : q = x \div W
  BY DividedIs
<1>2. x = q * W + (x % W) /\ x % W \in Int /\ q * W \in Int
  BY <1>1, DividedIs
<1>3. x % W = x - q * W
  BY <1>2
<1> QED
  BY <1>3

\* Multiples leave nothing.
LEMMA MultipleRemainder ==
    ASSUME NEW W \in Nat \ {0}, NEW q \in Int
    PROVE  (q * W) % W = 0
  OBVIOUS

\* Numbers with the same remainder differ by a multiple.
LEMMA SameRemainder ==
    ASSUME NEW W \in Nat \ {0}, NEW x \in Int, NEW y \in Int, x % W = y % W
    PROVE  \E q \in Int : x - y = q * W
<1>1. PICK p, q \in Int : x = p * W + (x % W) /\ y = q * W + (y % W)
  BY DividedIs
<1>2. x - y = (p - q) * W
  BY <1>1
<1> QED
  BY <1>2

\* No multiple of M up to K of them is one of W.
Apart(M, W, K) == \A k \in 1 .. K : (M * k) % W # 0

\* Hours x and y have one time, counted from ends that have wrapped p and q
\* times, and hours x and y are no more than K apart.
SameTime(M, W, x, p, y, q) == (M * x - p * W) % W = (M * y - q * W) % W
Near(x, y, K) == x - y <= K /\ y - x <= K

\* Hours x and y, in units M, are told apart modulo W, even if they are
\* counted from ends that have wrapped, p and q times.
LEMMA TimesApart ==
    ASSUME NEW W \in Nat \ {0}, NEW M \in Nat, NEW K \in Nat, Apart(M, W, K),
           NEW x \in Int, NEW y \in Int, Near(x, y, K),
           NEW p \in Int, NEW q \in Int, SameTime(M, W, x, p, y, q)
    PROVE  x = y
<1>1. \A n \in Int : \A r \in Int : M * n = r * W /\ n \in 1 .. K => FALSE
  <2> SUFFICES ASSUME NEW n \in Int, NEW r \in Int, M * n = r * W, n \in 1 .. K
               PROVE  FALSE
    OBVIOUS
  <2>1. (r * W) % W = 0
    BY MultipleRemainder
  <2> QED
    BY <2>1 DEF Apart
<1>2. PICK r \in Int : (M * x - p * W) - (M * y - q * W) = r * W
  <2>1. M * x - p * W \in Int /\ M * y - q * W \in Int
    OBVIOUS
  <2> QED
    BY <2>1, SameRemainder DEF SameTime
<1>3. M * (x - y) = (r + p - q) * W /\ M * (y - x) = (q - p - r) * W
  <2>1. M * (x - y) = M * x - M * y /\ M * (y - x) = M * y - M * x
    OBVIOUS
  <2>2. (r + p - q) * W = r * W + p * W - q * W /\ (q - p - r) * W = q * W - p * W - r * W
    OBVIOUS
  <2>3. M * x \in Int /\ M * y \in Int /\ p * W \in Int /\ q * W \in Int /\ r * W \in Int
    OBVIOUS
  <2> QED
    BY <1>2, <2>1, <2>2, <2>3
<1>4. ~ (x - y \in 1 .. K) /\ ~ (y - x \in 1 .. K)
  <2>1. r + p - q \in Int /\ q - p - r \in Int /\ x - y \in Int /\ y - x \in Int
    OBVIOUS
  <2> QED
    BY <1>1, <1>3, <2>1
<1> QED
  BY <1>4 DEF Near

\* The beginning of an hour that has come by the time t.
IsHour(h, t) == \E k \in 0 .. t \div 3600 : h = 3600 * k

\* Volumes are updated on the hour.
OnHours == \A c \in DOMAIN volume : IsHour(volume[c].hourOfLastUpdate, headTime)

\* The volume of an hour, 0 if none was recorded.
VolumeAt(vol, h) == IF h \in DOMAIN vol.histogram THEN vol.histogram[h] ELSE 0

\* The hour h is over, and no balances wait for its tally.
Over(vol, h) ==
    /\ h < Hour(headTime)
    /\ vol.active # {} => h < vol.hourOfLastUpdate

\* The volume of coin in the hour h is x, and will be.
Stands(coin, h, x) ==
    /\ coin \in DOMAIN volume
    /\ Over(volume[coin], h)
    /\ VolumeAt(volume[coin], h) = x

\* The answer has samples of the n hours up to last, and they stand.
TellsOf(coin, answer, last, n) ==
    /\ answer.end = (last * 1000) % TimeWidth
    /\ Len(answer.histogram) = n
    /\ \A i \in 1 .. n - 1 : Stands(coin, last - 3600 * (n - i), answer.histogram[i])

Tells(coin, answer) ==
    \E last : IsHour(last, headTime) /\ \E n \in 0 .. MaxHistoryLength : TellsOf(coin, answer, last, n)

\* What clients were told stands: the invariant behind HistoriesAgree.
DetailsInv == VolumeInv /\ OnHours /\ \A t \in told : Tells(t.coin, t.history)

\* The hour of a time is the beginning of an hour.
LEMMA HourIs ==
    ASSUME NEW t \in Nat
    PROVE  /\ t \div 3600 \in Nat /\ Hour(t) = 3600 * (t \div 3600)
           /\ t \div 3600 \in 0 .. t \div 3600
<1>1. t = (t \div 3600) * 3600 + (t % 3600) /\ t \div 3600 \in Nat
  OBVIOUS
<1> QED
  BY <1>1 DEF Hour

\* Later, at least as many hours have come.
LEMMA HoursMonotone ==
    ASSUME NEW s \in Nat, NEW t \in Nat, s <= t
    PROVE  s \div 3600 <= t \div 3600
  OBVIOUS

\* Hours that have come stay so.
LEMMA IsHourStays ==
    ASSUME NEW s \in Nat, NEW t \in Nat, s <= t, NEW h, IsHour(h, s)
    PROVE  IsHour(h, t)
<1>1. PICK k \in 0 .. s \div 3600 : h = 3600 * k
  BY DEF IsHour
<1>2. s \div 3600 <= t \div 3600 /\ s \div 3600 \in Nat /\ t \div 3600 \in Nat
  BY HoursMonotone, HourIs
<1>3. k \in 0 .. t \div 3600
  BY <1>1, <1>2
<1> QED
  BY <1>1, <1>3 DEF IsHour

\* A recorded decision leaves an hour that is over as it was.
LEMMA RecordStands ==
    ASSUME headTime \in Nat, NEW vol, VolumeOK(vol), HistogramInPast(vol), NEW v \in BalanceIds,
           NEW h \in Int, Over(vol, h)
    PROVE  /\ Over(recordDecision(vol, v), h)
           /\ VolumeAt(recordDecision(vol, v), h) = VolumeAt(vol, h)
<1>1. Hour(headTime) \in Nat /\ vol.hourOfLastUpdate \in Nat /\ h < Hour(headTime)
  BY HourType DEF VolumeOK, Over
<1>2. CASE vol.hourOfLastUpdate = Hour(headTime)
  <2>1. recordDecision(vol, v) =
            [histogram |-> vol.histogram,
             hourOfLastUpdate |-> vol.hourOfLastUpdate,
             active |-> vol.active \cup {v}]
    BY <1>2 DEF recordDecision, VolumeOK
  <2> QED
    BY <1>1, <1>2, <2>1 DEF Over, VolumeAt
<1>3. CASE vol.hourOfLastUpdate # Hour(headTime)
  <2>1. recordDecision(vol, v) =
            [histogram |-> Tallied(vol), hourOfLastUpdate |-> Hour(headTime),
             active |-> {}]
    BY <1>3 DEF recordDecision
  <2>2. /\ h \in DOMAIN Tallied(vol) <=> h \in DOMAIN vol.histogram
        /\ h \in DOMAIN vol.histogram => Tallied(vol)[h] = vol.histogram[h]
    <3>1. CASE vol.active = {}
      BY <3>1 DEF Tallied
    <3>2. CASE vol.active # {}
      <4>1. h # vol.hourOfLastUpdate
        BY <1>1, <3>2 DEF Over
      <4> QED
        BY <3>2, <4>1 DEF Tallied
    <3> QED
      BY <3>1, <3>2
  <2>3. VolumeAt(recordDecision(vol, v), h) = VolumeAt(vol, h)
    BY <2>1, <2>2 DEF VolumeAt
  <2> QED
    BY <1>1, <2>1, <2>3 DEF Over
<1> QED
  BY <1>2, <1>3

\* What stands and the hours volumes are updated on, over a step.
Standing(coin, h, x) == (OnHours => OnHours') /\ (Stands(coin, h, x) => Stands(coin, h, x)')

\* Nothing changes if neither the volumes nor the hour do.
LEMMA SameStands ==
    ASSUME UNCHANGED <<volume, headTime>>, NEW coin, NEW h, NEW x
    PROVE  Standing(coin, h, x)
BY DEF Standing, OnHours, IsHour, Stands, Over, VolumeAt, Hour

\* A volume that stands does so after any step.
LEMMA StandsStep ==
    ASSUME TypeOK, VolumeInv, [Next]_vars, NEW coin, NEW h \in Int, NEW x
    PROVE  Standing(coin, h, x)
<1>0. headTime \in Nat /\ headTime >= 3600
  BY VoteDatabaseAssumption DEF TypeOK
<1>2. ASSUME NEW payer \in Accounts, NEW id \in ContestRefs,
             NEW ballot \in Ballots, ApplyDecision(payer, id, ballot)
      PROVE  Standing(coin, h, x)
  <2>1. headTime' = headTime
    BY <1>2 DEF ApplyDecision, Push
  <2>2. CASE UNCHANGED vdbVars
    BY <2>1, <2>2, SameStands DEF vdbVars
  <2>3. ASSUME NEW contest \in contests,
               processDecision(payer, contest, ballot)
        PROVE  Standing(coin, h, x)
    <3> DEFINE v == <<payer, contest.coin>>
               vol == VolumeOf(contest.coin)
               new == recordDecision(vol, v)
    <3>1. v \in BalanceIds
      BY DEF BalanceIds, TypeOK, ContestType
    <3>2. VolumeOK(vol) /\ HistogramInPast(vol)
      BY <1>0, NewVolumeType, NewVolumePast DEF VolumeOf, TypeOK, VolumeInv
    <3>3. /\ DOMAIN volume' = DOMAIN volume \cup {contest.coin}
          /\ volume'[contest.coin] = new
          /\ \A c \in DOMAIN volume : c # contest.coin => volume'[c] = volume[c]
      BY <2>3 DEF processDecision, NewDecision
    <3>4. contest.coin \in DOMAIN volume => vol = volume[contest.coin]
      BY DEF VolumeOf
    <3> HIDE DEF v, vol
    <3>5. ASSUME OnHours PROVE OnHours'
      <4>1. new.hourOfLastUpdate \in {vol.hourOfLastUpdate, Hour(headTime)}
        BY DEF recordDecision
      <4>2. CASE new.hourOfLastUpdate = Hour(headTime)
        <5>1. IsHour(new.hourOfLastUpdate, headTime)
          BY <1>0, <4>2, HourIs DEF IsHour
        <5>2. \A c \in DOMAIN volume' : IsHour(volume'[c].hourOfLastUpdate, headTime)
          BY <3>3, <3>5, <5>1 DEF OnHours
        <5> QED
          BY <2>1, <5>2 DEF OnHours, IsHour
      <4>3. CASE new.hourOfLastUpdate # Hour(headTime)
        <5>1. FALSE
          BY <4>3 DEF new, recordDecision
        <5> QED
          BY <5>1
      <4> QED
        BY <4>2, <4>3
    <3>6. ASSUME Stands(coin, h, x) PROVE Stands(coin, h, x)'
      <4>1. CASE coin = contest.coin
        <5>1. Over(vol, h) /\ VolumeAt(vol, h) = x
          BY <3>4, <3>6, <4>1 DEF Stands
        <5>2. Over(new, h) /\ VolumeAt(new, h) = x
          BY <1>0, <3>1, <3>2, <5>1, RecordStands
        <5> QED
          BY <2>1, <3>3, <4>1, <5>2 DEF Stands, Over, VolumeAt, Hour
      <4>2. CASE coin # contest.coin
        BY <2>1, <3>3, <3>6, <4>2 DEF Stands, Over, VolumeAt, Hour
      <4> QED
        BY <4>1, <4>2
    <3> QED
      BY <3>5, <3>6 DEF Standing
  <2> QED
    BY <1>2, <2>2, <2>3 DEF ApplyDecision
<1>3. ASSUME NEW payer \in Accounts, NEW draft \in Drafts,
             ApplyContest(payer, draft)
      PROVE  Standing(coin, h, x)
  BY <1>3, SameStands DEF ApplyContest, processContest, vdbVars, Push
<1>4. ASSUME NEW from \in Accounts, NEW to \in Accounts, NEW c \in Coins,
             NEW amount \in Amounts, ApplyTransfer(from, to, c, amount)
      PROVE  Standing(coin, h, x)
  BY <1>4, SameStands DEF ApplyTransfer, vdbVars, Push
<1>5. ASSUME NEW t \in BlockTimes, FinishBlock(t)
      PROVE  Standing(coin, h, x)
  <2>1. /\ headTime' \in Nat /\ headTime <= headTime' /\ volume' = volume
    BY <1>0, <1>5, VoteDatabaseAssumption DEF FinishBlock
  <2>2. ASSUME OnHours PROVE OnHours'
    <3>1. ASSUME NEW c \in DOMAIN volume PROVE IsHour(volume[c].hourOfLastUpdate, headTime)'
      <4>1. PICK last : last = volume[c].hourOfLastUpdate
        OBVIOUS
      <4>2. IsHour(last, headTime)
        BY <2>2, <4>1 DEF OnHours
      <4>3. IsHour(last, headTime')
        BY <1>0, <2>1, <4>2, IsHourStays
      <4>4. volume'[c].hourOfLastUpdate = last
        BY <2>1, <4>1
      <4> QED
        BY <4>3, <4>4, Zenon
    <3> QED
      BY <2>1, <3>1 DEF OnHours
  <2>3. ASSUME Stands(coin, h, x) PROVE Stands(coin, h, x)'
    <3>1. Hour(headTime)' = Hour(headTime')
      BY DEF Hour
    <3>2. /\ Hour(headTime) \in Nat /\ Hour(headTime') \in Nat
          /\ Hour(headTime) <= Hour(headTime')
      BY <1>0, <2>1, HourType, HourMonotone
    <3> QED
      BY <2>1, <2>3, <3>1, <3>2 DEF Stands, Over, VolumeAt
  <2> QED
    BY <2>2, <2>3 DEF Standing
<1>6. CASE Restart
  <2>1. /\ DOMAIN volume' = DOMAIN volume /\ headTime' = headTime
        /\ \A c \in DOMAIN volume :
               volume'[c] = [histogram |-> volume[c].histogram,
                             hourOfLastUpdate |-> 0, active |-> {}]
    BY <1>6 DEF Restart, NewVolume
  <2>2. OnHours'
    <3>1. 0 \in 0 .. headTime \div 3600 /\ 0 = 3600 * 0
      BY <1>0, HourIs
    <3> QED
      BY <2>1, <3>1 DEF OnHours, IsHour
  <2>3. Stands(coin, h, x) => Stands(coin, h, x)'
    BY <2>1 DEF Stands, Over, VolumeAt, Hour
  <2> QED
    BY <2>2, <2>3 DEF Standing
<1>7. CASE UNCHANGED vars
  BY <1>7, SameStands DEF vars
<1> QED
  BY <1>2, <1>3, <1>4, <1>5, <1>6, <1>7 DEF Next, EvaluateOperation

\* So what was told stands after it.
LEMMA TellsStep ==
    ASSUME TypeOK, VolumeInv, [Next]_vars, headTime' \in Nat, headTime <= headTime',
           NEW coin, NEW answer, Tells(coin, answer)
    PROVE  Tells(coin, answer)'
<1>0. headTime \in Nat
  BY VoteDatabaseAssumption DEF TypeOK
<1>1. PICK last : IsHour(last, headTime) /\ \E n \in 0 .. MaxHistoryLength : TellsOf(coin, answer, last, n)
  BY DEF Tells
<1>2. PICK n \in 0 .. MaxHistoryLength : TellsOf(coin, answer, last, n)
  BY <1>1
<1>3. IsHour(last, headTime)'
  BY <1>0, <1>1, IsHourStays
<1>4. last \in Int /\ n \in Int
  BY <1>0, <1>1, HourIs, CoinDetailsAssumption DEF IsHour
<1>5. ASSUME NEW i \in 1 .. n - 1
      PROVE  Stands(coin, last - 3600 * (n - i), answer.histogram[i])'
  <2>1. PICK h, x : h = last - 3600 * (n - i) /\ x = answer.histogram[i]
    OBVIOUS
  <2>2. h \in Int
    BY <1>4, <2>1
  <2>3. Stands(coin, h, x)
    BY <1>2, <2>1 DEF TellsOf
  <2>4. Stands(coin, h, x)'
    BY <2>2, <2>3, StandsStep DEF Standing
  <2> QED
    BY <2>1, <2>4
<1>6. TellsOf(coin, answer, last, n)'
  BY <1>2, <1>5 DEF TellsOf
<1> QED
  BY <1>3, <1>6 DEF Tells

\* An answer tells what stands.
LEMMA AnswerTells ==
    ASSUME TypeOK, VolumeInv, OnHours, NEW coin, NEW length \in HistoryLengths,
           Answered(coin, length)
    PROVE  Tells(coin, getCoinDetails(coin, length).history)
<1> DEFINE answer == getCoinDetails(coin, length).history
<1>0. /\ headTime \in Nat /\ length \in Int /\ MaxHistoryLength \in Nat
      /\ TimeWidth \in Nat \ {0}
  BY VoteDatabaseAssumption, CoinDetailsAssumption DEF TypeOK
<1>1. answer = IF coin \in DOMAIN volume THEN populateCoinVolumeHistory(volume[coin], length)
               ELSE NoHistory
  BY DEF getCoinDetails
<1> HIDE DEF answer
<1>2. CASE answer = NoHistory
  <2>1. IsHour(0, headTime)
    BY <1>0, HourIs DEF IsHour
  <2>2. 0 \in 0 .. MaxHistoryLength /\ (0 * 1000) % TimeWidth = 0
    <3>1. (0 * TimeWidth) % TimeWidth = 0
      BY <1>0, MultipleRemainder
    <3> QED
      BY <1>0, <3>1
  <2>3. answer.end = 0 /\ answer.histogram = <<>>
    BY <1>2 DEF NoHistory
  <2>4. TellsOf(coin, answer, 0, 0)
    BY <2>2, <2>3 DEF TellsOf
  <2>5. \E n \in 0 .. MaxHistoryLength : TellsOf(coin, answer, 0, n)
    BY <2>2, <2>4
  <2>6. Tells(coin, answer)
    BY <2>1, <2>5, Zenon DEF Tells
  <2> QED
    BY <2>6 DEF answer
<1>3. CASE coin \in DOMAIN volume /\ length > 0
  <2> DEFINE vol == volume[coin]
             At(i) == vol.hourOfLastUpdate - 3600 * (length - i)
  <2>1. /\ answer.end = (vol.hourOfLastUpdate * 1000) % TimeWidth
        /\ answer.histogram = [i \in 1 .. length |-> VolumeAt(vol, At(i))]
    BY <1>0, <1>1, <1>3 DEF populateCoinVolumeHistory, VolumeAt
  <2>2. length \in 0 .. MaxHistoryLength /\ length \in Nat
    BY <1>0, <1>3 DEF Answered
  <2>3. IsHour(vol.hourOfLastUpdate, headTime) /\ HistogramInPast(vol) /\ vol.hourOfLastUpdate \in Nat
    BY <1>3 DEF OnHours, VolumeInv, TypeOK, VolumeOK
  <2>4. Len(answer.histogram) = length
    BY <2>1, <2>2
  <2>5. ASSUME NEW i \in 1 .. length - 1 PROVE Stands(coin, At(i), answer.histogram[i])
    <3>1. i \in 1 .. length
      BY <2>2
    <3>2. answer.histogram[i] = VolumeAt(vol, At(i))
      BY <2>1, <3>1
    <3>3. At(i) < vol.hourOfLastUpdate
      BY <2>2, <2>3
    <3>4. Hour(headTime) \in Nat /\ vol.hourOfLastUpdate <= Hour(headTime) /\ At(i) \in Int
      BY <1>0, <2>2, <2>3, HourType DEF HistogramInPast
    <3> HIDE DEF At
    <3>5. Over(vol, At(i))
      BY <2>3, <3>3, <3>4 DEF Over
    <3> QED
      BY <1>3, <3>2, <3>5 DEF Stands
  <2>6. TellsOf(coin, answer, vol.hourOfLastUpdate, length)
    BY <2>1, <2>4, <2>5 DEF TellsOf
  <2> QED
    BY <2>2, <2>3, <2>6, Zenon DEF Tells, answer
<1> QED
  <2>1. answer = NoHistory \/ (coin \in DOMAIN volume /\ length > 0)
    BY <1>0, <1>1 DEF populateCoinVolumeHistory
  <2> QED
    BY <1>2, <1>3, <2>1

\* What two answers tell, they agree on.
LEMMA TellingAgrees ==
    ASSUME headTime \in BlockTimes, NEW coin, NEW old, NEW new, Tells(coin, old), Tells(coin, new)
    PROVE  Agree(old, new)
<1>1. PICK a : IsHour(a, headTime) /\ \E n \in 0 .. MaxHistoryLength : TellsOf(coin, old, a, n)
  BY DEF Tells
<1>2. PICK n \in 0 .. MaxHistoryLength : TellsOf(coin, old, a, n)
  BY <1>1
<1>3. PICK b : IsHour(b, headTime) /\ \E m \in 0 .. MaxHistoryLength : TellsOf(coin, new, b, m)
  BY DEF Tells
<1>4. PICK m \in 0 .. MaxHistoryLength : TellsOf(coin, new, b, m)
  BY <1>3
<1> SUFFICES ASSUME NEW i \in 1 .. n - 1, NEW j \in 1 .. m - 1,
                    SampleTime(old, i) = SampleTime(new, j)
             PROVE  old.histogram[i] = new.histogram[j]
  BY <1>2, <1>4 DEF Agree, TellsOf
<1>5. PICK p : p \in 0 .. headTime \div 3600 /\ a = 3600 * p
  BY <1>1 DEF IsHour
<1>6. PICK q : q \in 0 .. headTime \div 3600 /\ b = 3600 * q
  BY <1>3 DEF IsHour
<1>7. PICK K : K = (headTime \div 3600) + MaxHistoryLength
  OBVIOUS
<1>8. /\ headTime \in Nat /\ headTime \div 3600 \in Nat /\ MaxHistoryLength \in Nat
      /\ TimeWidth \in Nat \ {0} /\ K \in Nat /\ a \in Nat /\ b \in Nat
  BY <1>5, <1>6, <1>7, HourIs, VoteDatabaseAssumption, CoinDetailsAssumption
<1>9. PICK x, y : x = p - (n - i) /\ y = q - (m - j)
  OBVIOUS
<1>10. x \in Int /\ y \in Int /\ x - y <= K /\ y - x <= K
  BY <1>5, <1>6, <1>7, <1>8, <1>9
<1>11. PICK M \in Nat : M = 1000 * 3600
  OBVIOUS
<1>12. Apart(M, TimeWidth, K)
  BY <1>7, <1>11, CoinDetailsAssumption, SMT DEF Apart
<1>13. PICK e, f : e = a * 1000 /\ f = b * 1000
  OBVIOUS
<1>14. e \in Int /\ f \in Int
  BY <1>8, <1>13
<1>15. TimeWidth \in Nat \ {0} /\ K \in Nat
  BY <1>8
<1>16. PICK r \in Int : e % TimeWidth = e - r * TimeWidth
  BY <1>14, <1>15, RemainderIs, Zenon
<1>17. PICK s \in Int : f % TimeWidth = f - s * TimeWidth
  BY <1>14, <1>15, RemainderIs, Zenon
<1>18. SampleTime(old, i) = (M * x - r * TimeWidth) % TimeWidth
  <2>1. old.end = e - r * TimeWidth
    BY <1>2, <1>13, <1>16 DEF TellsOf
  <2>2. M * x = e - 1000 * 3600 * (n - i)
    BY <1>5, <1>8, <1>9, <1>11, <1>13, SMT
  <2>3. r * TimeWidth \in Int /\ e \in Int
    BY <1>8, <1>14
  <2>4. PICK u : u = old.end - 1000 * 3600 * (n - i)
    OBVIOUS
  <2>5. u = M * x - r * TimeWidth
    BY <1>8, <2>1, <2>2, <2>3, <2>4, SMT
  <2>6. SampleTime(old, i) = u % TimeWidth
    BY <1>2, <2>4 DEF SampleTime, TellsOf
  <2> QED
    BY <2>5, <2>6, Zenon
<1>19. SampleTime(new, j) = (M * y - s * TimeWidth) % TimeWidth
  <2>1. new.end = f - s * TimeWidth
    BY <1>4, <1>13, <1>17 DEF TellsOf
  <2>2. M * y = f - 1000 * 3600 * (m - j)
    BY <1>6, <1>8, <1>9, <1>11, <1>13, SMT
  <2>3. s * TimeWidth \in Int /\ f \in Int
    BY <1>8, <1>14
  <2>4. PICK u : u = new.end - 1000 * 3600 * (m - j)
    OBVIOUS
  <2>5. u = M * y - s * TimeWidth
    BY <1>8, <2>1, <2>2, <2>3, <2>4, SMT
  <2>6. SampleTime(new, j) = u % TimeWidth
    BY <1>4, <2>4 DEF SampleTime, TellsOf
  <2> QED
    BY <2>5, <2>6, Zenon
<1>20. SameTime(M, TimeWidth, x, r, y, s)
  BY <1>18, <1>19, Zenon DEF SameTime
<1>21. x = y
  <2>1. M \in Nat /\ r \in Int /\ s \in Int /\ TimeWidth \in Nat \ {0} /\ K \in Nat
    BY <1>15
  <2>2. x \in Int /\ y \in Int /\ Near(x, y, K)
    BY <1>10 DEF Near
  <2>3. Apart(M, TimeWidth, K)
    BY <1>12
  <2> QED
    BY <1>20, <2>1, <2>2, <2>3, TimesApart, Zenon
<1>22. a - 3600 * (n - i) = b - 3600 * (m - j)
  BY <1>5, <1>6, <1>8, <1>9, <1>21
<1>23. /\ Stands(coin, a - 3600 * (n - i), old.histogram[i])
       /\ Stands(coin, b - 3600 * (m - j), new.histogram[j])
  BY <1>2, <1>4 DEF TellsOf
<1> QED
  BY <1>22, <1>23 DEF Stands

\* A client changes nothing in the database.
LEMMA DetailsRunDatabase == DetailsSpec => Spec
<1>1. DetailsInit => Init
  BY DEF DetailsInit
<1>2. [DetailsNext]_detailsVars => [Next]_vars
  BY DEF DetailsNext, detailsVars, Ask
<1> QED
  BY <1>1, <1>2, PTL DEF DetailsSpec, Spec

\* Every step keeps what was told.
LEMMA DetailsStep ==
    TypeOK /\ TypeOK' /\ DetailsInv /\ [DetailsNext]_detailsVars => DetailsInv'
<1> SUFFICES ASSUME TypeOK, TypeOK', DetailsInv, [DetailsNext]_detailsVars
             PROVE  DetailsInv'
  OBVIOUS
<1>0. headTime \in Nat /\ headTime' \in Nat
  BY VoteDatabaseAssumption DEF TypeOK
<1>1. CASE [Next]_vars /\ UNCHANGED told
  <2>1. headTime <= headTime'
    <3>1. ASSUME EvaluateOperation PROVE headTime' = headTime
      BY <3>1 DEF EvaluateOperation, ApplyDecision, ApplyContest, ApplyTransfer, Push
    <3>2. ASSUME NEW t \in BlockTimes, FinishBlock(t) PROVE headTime <= headTime'
      BY <1>0, <3>2, VoteDatabaseAssumption DEF FinishBlock
    <3>3. ASSUME Restart \/ UNCHANGED vars PROVE headTime' = headTime
      BY <3>3 DEF Restart, vars
    <3> QED
      BY <1>0, <1>1, <3>1, <3>2, <3>3 DEF Next
  <2>2. VolumeInv'
    BY <1>1, VolumeStep DEF DetailsInv
  <2>3. OnHours'
    <3>1. Standing(0, 0, 0)
      BY <1>1, StandsStep DEF DetailsInv
    <3> QED
      BY <3>1 DEF Standing, DetailsInv
  <2>4. ASSUME NEW t \in told PROVE Tells(t.coin, t.history)'
    <3>1. PICK coin, answer : coin = t.coin /\ answer = t.history
      OBVIOUS
    <3>2. Tells(coin, answer)
      BY <3>1 DEF DetailsInv
    <3>3. Tells(coin, answer)'
      BY <1>0, <1>1, <2>1, <3>2, TellsStep DEF DetailsInv
    <3> QED
      BY <3>1, <3>3
  <2> QED
    BY <1>1, <2>2, <2>3, <2>4 DEF DetailsInv
<1>2. ASSUME NEW coin \in Coins, NEW length \in HistoryLengths, Ask(coin, length)
      PROVE  DetailsInv'
  <2>1. UNCHANGED <<headTime, volume, vars>>
    BY <1>2 DEF Ask, vars
  <2>2. PICK answer : answer = getCoinDetails(coin, length).history
    OBVIOUS
  <2>3. Tells(coin, answer)
    BY <1>2, <2>2, AnswerTells DEF Ask, DetailsInv
  <2>4. told' = {[coin |-> coin, history |-> answer]}
    BY <1>2, <2>2 DEF Ask
  <2>5. Tells(coin, answer)'
    BY <1>0, <2>1, <2>3, TellsStep DEF DetailsInv
  <2>6. VolumeInv' /\ OnHours'
    BY <2>1 DEF DetailsInv, VolumeInv, HistogramInPast, Hour, OnHours, IsHour
  <2> QED
    BY <2>4, <2>5, <2>6 DEF DetailsInv
<1> QED
  BY <1>1, <1>2 DEF DetailsNext, detailsVars

\* Any two histories that clients are told of a coin, however far apart the
\* calls, give the hours they share the same volume: votes, transfers, later
\* hours and restarts in between change nothing of it.
THEOREM HistoriesAgreeCorrect == DetailsSpec => []HistoriesAgree
<1>1. DetailsInit => DetailsInv
  BY DEF DetailsInit, Init, DetailsInv, VolumeInv, OnHours
<1>2. TypeOK /\ DetailsInv => HistoriesAgree
  <2> SUFFICES ASSUME TypeOK, DetailsInv, NEW t \in told, NEW length \in HistoryLengths,
                      Answered(t.coin, length)
               PROVE  Agree(t.history, getCoinDetails(t.coin, length).history)
    BY DEF HistoriesAgree
  <2>1. Tells(t.coin, t.history) /\ Tells(t.coin, getCoinDetails(t.coin, length).history)
    BY AnswerTells DEF DetailsInv
  <2> QED
    BY <2>1, TellingAgrees DEF TypeOK
<1>3. DetailsSpec => []TypeOK
  BY DetailsRunDatabase, TypeCorrect
<1> QED
  BY <1>1, <1>2, <1>3, DetailsStep, PTL DEF DetailsSpec
=============================================================================
