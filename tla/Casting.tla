------------------------------ MODULE Casting ------------------------------
(***************************************************************************)
(* Casting, revoking and cancelling a decision in the voting app           *)
(* (VotingApp/VotingSystem.cpp, Apis/BlockchainWalletApi.cpp,              *)
(* DataStructures/Decision.cpp, qml/ContestStatusRow.qml,                  *)
(* qml/WalletConfirmationPopup.qml, qml/FeedPage.qml, qml/main.qml) through*)
(* the wallet bridge.                                                      *)
(*                                                                         *)
(* One contest of the feed and one account: changing the account rebuilds  *)
(* the feed with new contest objects.  An account has one balance per      *)
(* coin, so a cast publishes one datagram.  The reads of the chain that an *)
(* operation makes in a row are one call, answered with what the chain     *)
(* held at one moment.                                                     *)
(***************************************************************************)
EXTENDS WalletBridge

CONSTANTS
    Opinions,   \* what a user can think of the contestants; see below
    NoOpinion,  \* the empty map
    Zero,       \* a map with a contestant whose opinion is zero
    NoDecision, \* no decision object
    MaxPresses, \* bound: uses of the Cast Vote and Revoke Vote buttons
    MaxCancels  \* bound: uses of the Cancel button

ASSUME CastingAssumption ==
    /\ {NoOpinion, Zero} \subseteq Opinions
    /\ NoOpinion # Zero
    /\ MaxPresses \in Nat /\ MaxCancels \in Nat

VARIABLES
    backend,    \* "up", "connecting" or "down"
    pending,    \* contest.pendingDecision
    official,   \* contest.officialDecision
    popup,      \* the confirmation popup: open, kind, and current, the try whose
                \* promise is transactionPromise
    tries,      \* calls of authorizeTransaction, oldest first
    loaded,     \* whether the feed has asked for the official decision
    cancels,    \* uses of the Cancel button
    chain,      \* external: decisions on the chain, as [try, decision]
    disturbed   \* history: two operations on the contest have run at once, or
                \* the popup could not submit again because the backend was gone

appVars == <<backend, pending, official, popup, tries, loaded, cancels, chain, disturbed>>
vars == <<bridgeVars, appVars>>

(* A decision has write-ins or has none; which ones makes no difference.   *)
Decisions == [opinions : Opinions, writeIns : BOOLEAN]

(* canonicalizeOpinions drops opinions of zero: done by Decision's         *)
(* assignment and by serialize, and not by the setters or ==.              *)
Canonical(d) == [d EXCEPT !.opinions = IF @ = Zero THEN NoOpinion ELSE @]

IsNull(d) == Canonical(d).opinions = NoOpinion

(* serializeWriteIns takes the write-ins out of the decision it serializes.*)
Serialized(d) == [d EXCEPT !.writeIns = FALSE]

(* The setters announce a change, and getContest's persist() answers every *)
(* change by serializing the decision.                                     *)
SetOpinions(d, o) == IF o = d.opinions THEN d ELSE Serialized([d EXCEPT !.opinions = o])
SetWriteIns(d, w) == IF w = d.writeIns THEN d ELSE Serialized([d EXCEPT !.writeIns = w])

(* set_opinions({}) and set_writeIns({})                                   *)
Emptied(d) == SetWriteIns(SetOpinions(d, NoOpinion), FALSE)

(* The newest decision on the chain.                                       *)
OnRecord == IF chain = <<>> THEN NoDecision ELSE Last(chain).decision

(* ContestDelegate.status: what the status row's buttons depend on.        *)
Status ==
    CASE IsNull(pending) /\ (official = NoDecision \/ IsNull(official)) -> "none"
      [] official # NoDecision /\ pending = official -> "official"
      [] OTHER -> "pending"

Try(n) == [part |-> "try", n |-> n]
Cancel(n) == [part |-> "cancel", n |-> n]
Feed == [part |-> "feed", n |-> 0]

(* The owners with a call that has not been continued.                     *)
Busy == {q.owner : q \in pendingRequests}
            \union {e.call.owner : e \in {e \in ToSet(events) : e.kind = "reply"}}

-----------------------------------------------------------------------------
Init ==
    /\ BridgeInit
    /\ backend = "up"
    /\ pending \in {d \in Decisions : d.opinions # Zero}
    /\ official = NoDecision
    /\ popup = [open |-> FALSE, kind |-> "cast", current |-> 0]
    /\ tries = <<>>
    /\ loaded = FALSE
    /\ cancels = 0
    /\ chain \in {<<>>} \union
           {<<[try |-> 0, decision |-> d]>> : d \in {d \in Decisions : d.opinions # Zero}}
    /\ disturbed = FALSE

(* The feed shows the contest and asks for its official decision.          *)
ShowContest ==
    /\ ~loaded
    /\ client # 0
    /\ loaded' = TRUE
    /\ BeginCall(client, Feed, "decision", events)
    /\ UNCHANGED <<opened, open, pendingConnections, contexts, served, client, replies,
                   backend, pending, official, popup, tries, cancels, chain>>
    /\ disturbed' = (disturbed \/ Busy # {})

(* The user chooses; the popup is modal and keeps the user off the rest.   *)
Choose(o) ==
    /\ loaded /\ ~popup.open
    /\ pending' = SetOpinions(pending, o)
    /\ UNCHANGED <<bridgeVars, backend, official, popup, tries, loaded, cancels, chain,
                   disturbed>>

\* Mutant: what is noted is the decision from before the preparation.
NewTry_early(kind, press, p, backup) ==
    [press |-> press, kind |-> kind, snapshot |-> Canonical(backup), backup |-> backup,
     cast |-> NoDecision, conn |-> 0, ignored |-> FALSE, outcome |-> "running"]

(* castPendingDecision notes the pending decision p as the official one to *)
(* be; backup is what the status row has kept of it before.                *)
NewTry(kind, press, p, backup) ==
    [press |-> press, kind |-> kind, snapshot |-> Canonical(p), backup |-> backup,
     cast |-> NoDecision, conn |-> 0, ignored |-> FALSE, outcome |-> "running"]

(* VotingSystem::castPendingDecision with the backend there, called by     *)
(* makeTransactionPromise: it goes on to ask the wallet, by the chain      *)
(* client to, for the account's balances.                                  *)
Submit(kind, press, p, backup, to, rest) ==
    LET n == Len(tries) + 1
    IN  /\ pending' = p
        /\ tries' = Append(tries, NewTry(kind, press, p, backup))
        /\ popup' = [open |-> TRUE, kind |-> kind, current |-> n]
        /\ BeginCall(to, Try(n), "balances", rest)
        /\ disturbed' = (disturbed \/ Busy # {})

(* The press the newest try belongs to.                                    *)
Presses == IF tries = <<>> THEN 0 ELSE Last(tries).press

(* What the status row's functions do before they cast.                    *)
Prepared(kind) == IF kind = "revoke" THEN Emptied(pending) ELSE pending

(* authorizeTransaction without a backend returns null, and the caller     *)
(* fails on it: of all this only the preparation stays.                    *)
SubmitNothing(kind) ==
    /\ pending' = Prepared(kind)
    /\ UNCHANGED <<tries, popup>>

(* Cast Vote or Revoke Vote is pressed.                                    *)
Press(kind) ==
    /\ loaded /\ ~popup.open
    /\ Status = (IF kind = "cast" THEN "pending" ELSE "official")
    /\ Presses < MaxPresses
    /\ IF backend = "up"
       THEN Submit(kind, Presses + 1, Prepared(kind), pending, client, events)
       ELSE /\ SubmitNothing(kind)
            /\ UNCHANGED <<pendingRequests, nextQueryId, inbox, events, disturbed>>
    /\ UNCHANGED <<opened, open, pendingConnections, contexts, served, client, replies,
                   backend, official, loaded, cancels, chain>>

(* Cancel is pressed: VotingSystem::cancelPendingDecision.                 *)
PressCancel ==
    /\ loaded /\ ~popup.open
    /\ Status = "pending"
    /\ backend = "up"
    /\ cancels < MaxCancels
    /\ cancels' = cancels + 1
    /\ BeginCall(client, Cancel(cancels + 1), "decision", events)
    /\ disturbed' = (disturbed \/ Busy # {})
    /\ UNCHANGED <<opened, open, pendingConnections, contexts, served, client, replies,
                   backend, pending, official, popup, tries, loaded, chain>>

-----------------------------------------------------------------------------
\* Mutant: the popup does not hear of the new connection.
ClientArrives_unheard ==
    /\ events # <<>>
    /\ Head(events).kind = "client"
    /\ client' = Head(events).conn
    /\ backend' = IF backend = "up" THEN "up" ELSE "connecting"
    /\ events' = Tail(events)
    /\ UNCHANGED <<opened, open, pendingConnections, contexts, served, replies,
                   pendingRequests, nextQueryId, inbox, pending, tries, popup, disturbed,
                   official, loaded, cancels, chain>>

(* blockchainWalletConnected is emitted by the continuation of             *)
(* nextWalletClient.  main.qml reconnects the backend if it is gone, and   *)
(* an open popup submits its transaction again.                            *)
ClientArrives ==
    /\ events # <<>>
    /\ Head(events).kind = "client"
    /\ LET c == Head(events).conn
           rest == Tail(events)
       IN  /\ client' = c
           /\ backend' = IF backend = "up" THEN "up" ELSE "connecting"
           /\ IF popup.open /\ backend = "up"
              THEN Submit(popup.kind, Presses, Prepared(popup.kind), pending, c, rest)
              ELSE /\ events' = rest
                   /\ UNCHANGED <<pendingRequests, nextQueryId, inbox>>
                   /\ IF popup.open THEN SubmitNothing(popup.kind) /\ disturbed' = TRUE
                      ELSE UNCHANGED <<pending, tries, popup, disturbed>>
    /\ UNCHANGED <<opened, open, pendingConnections, contexts, served, replies,
                   official, loaded, cancels, chain>>

(* The popup's handlers of the promise of try n: an ignored promise says   *)
(* nothing, another one settles the popup's promise, which closes it and   *)
(* disconnects its handlers.  A rejected revocation has been resolved by   *)
(* its own handler.                                                        *)
Report(n, outcome) ==
    /\ tries' = [tries EXCEPT ![n].outcome = outcome]
    /\ popup' = IF tries[n].ignored THEN popup ELSE [popup EXCEPT !.open = FALSE]

\* Mutant: a revocation that is rejected has no handler.
Rejected_unhandled(n) == Report(n, "rejected") /\ UNCHANGED pending

\* Mutant: every rejection empties the pending decision.
Rejected_empties(n) == Report(n, "rejected") /\ pending' = Emptied(pending)

Rejected(n) ==
    /\ Report(n, "rejected")
    /\ pending' = IF tries[n].kind = "revoke"
                  THEN SetWriteIns(SetOpinions(pending, tries[n].backup.opinions),
                                   tries[n].backup.writeIns)
                  ELSE pending

(* A continuation of castPendingDecision and of publishDatagram below it:  *)
(* from the balances to the fees, with the pending decision serialized as  *)
(* it is now and over the chain client of now; from the fees to the        *)
(* broadcast over the same connection; then the official decision is set.  *)
ContinueTry(n, e) ==
    LET rest == Tail(events)
        Stay == UNCHANGED <<pendingRequests, nextQueryId, inbox>> /\ events' = rest
    IN  CASE ~e.ok ->
               Rejected(n) /\ Stay /\ UNCHANGED official
          [] e.ok /\ e.call.method = "balances" ->
               /\ tries' = [tries EXCEPT ![n].cast = Canonical(pending), ![n].conn = client]
               /\ pending' = Serialized(pending)
               /\ BeginCall(client, Try(n), "fees", rest)
               /\ UNCHANGED <<popup, official>>
          [] e.ok /\ e.call.method = "fees" ->
               /\ BeginCall(e.call.conn, Try(n), "broadcast", rest)
               /\ UNCHANGED <<pending, tries, popup, official>>
          [] e.ok /\ e.call.method = "broadcast" ->
               /\ official' = tries[n].snapshot
               /\ Report(n, "resolved")
               /\ Stay /\ UNCHANGED pending

(* The continuations of getDecision: for Cancel the pending decision       *)
(* becomes the one on the chain, or empty when none was found or the call  *)
(* failed; the feed sets the official decision it has got.                 *)
ContinueLookup(e) ==
    /\ events' = Tail(events)
    /\ IF e.call.owner.part = "cancel"
       THEN /\ pending' = IF e.ok
                          THEN SetOpinions(SetWriteIns(pending, e.value.writeIns),
                                           e.value.opinions)
                          ELSE Emptied(pending)
            /\ UNCHANGED official
       ELSE /\ official' = IF e.ok THEN e.value ELSE official
            /\ UNCHANGED pending
    /\ UNCHANGED <<pendingRequests, nextQueryId, inbox, tries, popup>>

Continue ==
    /\ events # <<>>
    /\ Head(events).kind = "reply"
    /\ LET e == Head(events)
       IN  IF e.call.owner.part = "try" THEN ContinueTry(e.call.owner.n, e)
           ELSE ContinueLookup(e)
    /\ UNCHANGED <<opened, open, pendingConnections, contexts, served, client, replies,
                   backend, loaded, cancels, chain, disturbed>>

-----------------------------------------------------------------------------
(* The wallet and its user deal with a call: any of them may fail, and     *)
(* only a broadcast that succeeds changes the chain.  The answer is lost   *)
(* with the connection.                                                    *)
WalletAnswers(q, ok) ==
    /\ q \in inbox
    /\ q.method = "decision" /\ ok => chain # <<>>
    /\ inbox' = inbox \ {q}
    /\ chain' = IF q.method = "broadcast" /\ ok
                THEN Append(chain, [try |-> q.owner.n, decision |-> tries[q.owner.n].cast])
                ELSE chain
    /\ replies' = IF q.conn \in open
                  THEN replies \union
                       {[call |-> q, ok |-> ok,
                         value |-> IF q.method = "decision" /\ ok THEN OnRecord ELSE <<>>]}
                  ELSE replies
    /\ UNCHANGED <<opened, open, pendingConnections, contexts, served, client,
                   pendingRequests, nextQueryId, events,
                   backend, pending, official, popup, tries, loaded, cancels, disturbed>>

Receive ==
    /\ \E r \in replies : FinishCall(r)
    /\ UNCHANGED appVars

WalletConnects == WalletOpens /\ UNCHANGED appVars

(* The popup hears of a loss by blockchainWalletDisconnected.              *)
WalletLost ==
    /\ \E c \in open : ServedConnectionLost(c)
    /\ tries' = IF popup.open THEN [tries EXCEPT ![popup.current].ignored = TRUE] ELSE tries
    /\ UNCHANGED <<backend, pending, official, popup, loaded, cancels, chain, disturbed>>

QueuedLost ==
    /\ \E c \in open : QueuedConnectionLost(c)
    /\ UNCHANGED appVars

(* VotingSystem::disconnected; main.qml connects again at once.            *)
BackendLost ==
    /\ backend = "up"
    /\ backend' = "connecting"
    /\ UNCHANGED <<bridgeVars, pending, official, popup, tries, loaded, cancels, chain,
                   disturbed>>

(* completeConnection asks the wallet for the shared secret and shakes     *)
(* hands; socketError and a failed call leave the backend disconnected.    *)
BackendSettles(up) ==
    /\ backend = "connecting"
    /\ up => client \in open
    /\ backend' = IF up THEN "up" ELSE "down"
    /\ UNCHANGED <<bridgeVars, pending, official, popup, tries, loaded, cancels, chain,
                   disturbed>>

Next ==
    \/ ShowContest \/ PressCancel
    \/ \E o \in Opinions : Choose(o)
    \/ \E kind \in {"cast", "revoke"} : Press(kind)
    \/ ClientArrives \/ Continue \/ Receive
    \/ \E q \in inbox, ok \in BOOLEAN : WalletAnswers(q, ok)
    \/ WalletConnects \/ WalletLost \/ QueuedLost
    \/ BackendLost \/ \E up \in BOOLEAN : BackendSettles(up)

(* The event loop runs what it has to run, messages arrive, the wallet's   *)
(* user answers every request and the wallet connects when it is asked to. *)
Fairness ==
    /\ WF_vars(ClientArrives) /\ WF_vars(Continue) /\ WF_vars(Receive)
    /\ WF_vars(\E q \in inbox, ok \in BOOLEAN : WalletAnswers(q, ok))
    /\ WF_vars(contexts > 0 /\ WalletConnects)

Spec == Init /\ [][Next]_vars /\ Fairness
-----------------------------------------------------------------------------
Calls == [conn : Conns, id : Nat \union {-1},
          owner : [part : {"try", "cancel", "feed"}, n : Nat],
          method : {"decision", "balances", "fees", "broadcast"}]

TypeOK ==
    /\ opened \in 0 .. MaxConn /\ open \subseteq 1 .. opened /\ served \subseteq 1 .. opened
    /\ ToSet(pendingConnections) \subseteq 1 .. opened
    /\ contexts \in Nat /\ client \in {0} \union served
    /\ nextQueryId \in [Conns -> Nat]
    /\ pendingRequests \union inbox \subseteq Calls
    /\ backend \in {"up", "connecting", "down"}
    /\ pending \in Decisions
    /\ official \in Decisions \union {NoDecision}
    /\ popup \in [open : BOOLEAN, kind : {"cast", "revoke"}, current : 0 .. Len(tries)]
    /\ loaded \in BOOLEAN /\ cancels \in 0 .. MaxCancels /\ disturbed \in BOOLEAN

(* When all is quiet the official decision is the newest one on the chain  *)
(* (DataStructures/Contest.hpp:44-46), unless operations on the contest    *)
(* have overlapped, or the app never heard of a transaction of its own     *)
(* because the connection to the wallet was lost meanwhile.                *)
RecordShown ==
    /\ ~disturbed /\ Busy = {}
    /\ \A i \in DOMAIN chain : chain[i].try # 0 => tries[chain[i].try].outcome = "resolved"
    => official \in {NoDecision, OnRecord}

(* The transactions that one press of a button puts on the chain, however  *)
(* often the wallet comes and goes, express the same opinions, and each    *)
(* was asked for over a connection of its own: the popup submits again     *)
(* only when the connection of the last try is gone.                       *)
ResubmissionsAgree ==
    \A i, j \in DOMAIN chain :
        LET s == chain[i].try
            t == chain[j].try
        IN  i # j /\ s # 0 /\ t # 0 /\ tries[s].press = tries[t].press =>
                /\ tries[s].conn # tries[t].conn
                /\ disturbed \/ chain[i].decision.opinions = chain[j].decision.opinions

(* When every try of a revocation has failed the user's opinions are what  *)
(* they were when the button was pressed, although each try empties them   *)
(* and keeps its own backup (ContestStatusRow.qml:65-75).                  *)
PressTries(ts) == {n \in DOMAIN ts : ts[n].press = Last(ts).press}

RevokeRestores ==
    [][/\ popup.open /\ ~popup'.open /\ ~disturbed /\ popup.kind = "revoke"
       /\ \A n \in PressTries(tries') : tries'[n].outcome = "rejected"
       => pending'.opinions = tries[Min(PressTries(tries))].backup.opinions]_vars

(* If the backend stays connected, the popup always closes in the end:     *)
(* lost connections lead to new tries, and the last one is answered.       *)
PopupCloses == [](backend = "up") => (popup.open ~> ~popup.open)
=============================================================================
