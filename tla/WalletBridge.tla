---------------------------- MODULE WalletBridge ----------------------------
(***************************************************************************)
(* The bridge between the voting app and a Bitshares wallet                *)
(* (VotingApp/BitsharesWalletBridge.cpp and the end of it in               *)
(* VotingSystem::connectToBlockchainWallet and main.qml).                  *)
(*                                                                         *)
(* The app listens; the wallet opens web sockets to it, numbered here in   *)
(* the order they are opened.  At most one of them is served at a time by  *)
(* a BlockchainWalletApiImpl, which sends JSON calls over it and keeps     *)
(* those that are not answered in pendingRequests.  A call has an owner:   *)
(* the piece of the app that continues when the call is answered.          *)
(*                                                                         *)
(* The module gives the state and the operations; Casting composes them    *)
(* with the parts of the app that call the wallet.  The look-up of the     *)
(* publishing account that a new connection starts with, and calls made as *)
(* notifications, are left out: no state depends on them.                  *)
(***************************************************************************)
EXTENDS Integers, Sequences, FiniteSets, SequencesExt

CONSTANTS
    MaxConn,    \* bound: connections the wallet opens
    MaxLosses   \* bound: connections that are lost

(* Fewer losses than connections: the wallet can always come back.         *)
ASSUME BridgeAssumption == MaxLosses \in Nat /\ MaxConn \in Nat /\ MaxLosses < MaxConn

VARIABLES
    opened,             \* connections the wallet has opened so far
    open,               \* those whose socket is connected
    pendingConnections, \* accepted and not served yet, oldest first
    contexts,           \* nextWalletClient() promises that wait for one
    served,             \* those a BlockchainWalletApiImpl was made for
    client,             \* the one the app's chain client calls; 0 at the start
    pendingRequests,    \* calls waiting for an answer
    nextQueryId,        \* the next call ID on each connection
    inbox,              \* external: calls the wallet has not dealt with
    replies,            \* external: answers on their way to the app
    events              \* continuations the event loop has to run, in order

bridgeVars == <<opened, open, pendingConnections, contexts, served, client,
                pendingRequests, nextQueryId, inbox, replies, events>>

Conns == 1 .. MaxConn

(* Only these calls make the wallet do something when it deals with them.  *)
Broadcasts(calls) == {q \in calls : q.method = "broadcast"}

Settled(q, ok, value) == [kind |-> "reply", call |-> q, ok |-> ok, value |-> value]
Arrived(c) == [kind |-> "client", conn |-> c]

(* The calls of a set in the order of their IDs, as the map keeps them.    *)
ById(calls) ==
    CHOOSE s \in [1 .. Cardinality(calls) -> calls] :
        \A i, j \in DOMAIN s : i < j => s[i] # s[j] /\ s[i].id <= s[j].id

-----------------------------------------------------------------------------
BridgeInit ==
    /\ opened = 0
    /\ open = {}
    /\ pendingConnections = <<>>
    /\ contexts = 1         \* main.qml connects when it is completed
    /\ served = {}
    /\ client = 0
    /\ pendingRequests = {}
    /\ nextQueryId = [c \in Conns |-> 0]
    /\ inbox = {}
    /\ replies = {}
    /\ events = <<>>

(* beginCall on connection c, as the last thing a continuation does that   *)
(* leaves the events rest behind.  On a dead connection checkConnection    *)
(* throws, and the caller sees a rejected promise.                         *)
BeginCall(c, owner, method, rest) ==
    LET q(id) == [conn |-> c, id |-> id, owner |-> owner, method |-> method]
    IN  IF c \in open
        THEN /\ pendingRequests' = pendingRequests \union {q(nextQueryId[c])}
             /\ inbox' = inbox \union {q(nextQueryId[c])}
             /\ nextQueryId' = [nextQueryId EXCEPT ![c] = @ + 1]
             /\ events' = rest
        ELSE /\ events' = Append(rest, Settled(q(-1), FALSE, <<>>))
             /\ UNCHANGED <<pendingRequests, inbox, nextQueryId>>

(* finishCall: a message with the ID of an outstanding call of its         *)
(* connection ends that call; one with another ID is ignored.              *)
FinishCall(r) ==
    LET found == {q \in pendingRequests : q.conn = r.call.conn /\ q.id = r.call.id}
    IN  /\ r \in replies
        /\ replies' = replies \ {r}
        /\ pendingRequests' = pendingRequests \ found
        /\ events' = events \o
               [i \in 1 .. Cardinality(found) |-> Settled(ById(found)[i], r.ok, r.value)]
        /\ UNCHANGED <<opened, open, pendingConnections, contexts, served, client,
                       nextQueryId, inbox>>

(* The wallet opens a connection.  A waiting context serves the first      *)
(* pending one; without a context the connection stays in the queue.       *)
WalletOpens ==
    LET c == opened + 1
        queue == Append(pendingConnections, c)
    IN  /\ opened < MaxConn
        /\ opened' = c
        /\ open' = open \union {c}
        /\ IF contexts > 0
           THEN /\ contexts' = contexts - 1
                /\ served' = served \union {Head(queue)}
                /\ pendingConnections' = Tail(queue)
                /\ events' = Append(events, Arrived(Head(queue)))
           ELSE /\ pendingConnections' = queue
                /\ UNCHANGED <<contexts, served, events>>
        /\ UNCHANGED <<client, pendingRequests, nextQueryId, inbox, replies>>

\* Mutant: nobody asks for the next connection.
NextWalletClient_notAsked(stillOpen, after) ==
    events' = events \o after /\ UNCHANGED <<contexts, pendingConnections, served>>

(* nextWalletClient: discard closed sockets, serve the first one that is   *)
(* connected, or wait.  stillOpen and the events before it are the         *)
(* caller's; after are those the caller adds.                              *)
NextWalletClient(stillOpen, after) ==
    LET live == SelectInSeq(pendingConnections, LAMBDA c : c \in stillOpen)
    IN  IF live = 0
        THEN /\ contexts' = contexts + 1
             /\ pendingConnections' = <<>>
             /\ events' = events \o after
             /\ UNCHANGED served
        ELSE /\ served' = served \union {pendingConnections[live]}
             /\ pendingConnections' =
                    SubSeq(pendingConnections, live + 1, Len(pendingConnections))
             /\ events' = Append(events, Arrived(pendingConnections[live])) \o after
             /\ UNCHANGED contexts

\* Mutant: the outstanding calls are left in the map.
ServedConnectionLost_forgets(c) ==
    /\ opened - Cardinality(open) < MaxLosses
    /\ c \in open \intersect served
    /\ open' = open \ {c}
    /\ NextWalletClient(open \ {c}, <<>>)
    /\ inbox' = {q \in inbox : q.conn # c} \union Broadcasts(inbox)
    /\ replies' = {r \in replies : r.call.conn # c}
    /\ UNCHANGED <<opened, client, pendingRequests, nextQueryId>>

(* The socket of a served connection is lost.  connectionLost was          *)
(* connected first: main.qml asks for the next connection before the calls *)
(* that are outstanding on this one are rejected, in the order of their    *)
(* IDs.  The wallet keeps the transactions it was asked to broadcast.      *)
ServedConnectionLost(c) ==
    LET dead == {q \in pendingRequests : q.conn = c}
    IN  /\ opened - Cardinality(open) < MaxLosses
        /\ c \in open \intersect served
        /\ open' = open \ {c}
        /\ NextWalletClient(open \ {c},
               [i \in 1 .. Cardinality(dead) |-> Settled(ById(dead)[i], FALSE, <<>>)])
        /\ pendingRequests' = pendingRequests \ dead
        /\ inbox' = {q \in inbox : q.conn # c} \union Broadcasts(inbox)
        /\ replies' = {r \in replies : r.call.conn # c}
        /\ UNCHANGED <<opened, client, nextQueryId>>

(* A connection nobody serves yet closes: it stays in the queue.           *)
QueuedConnectionLost(c) ==
    /\ opened - Cardinality(open) < MaxLosses
    /\ c \in open \ served
    /\ open' = open \ {c}
    /\ UNCHANGED <<opened, pendingConnections, contexts, served, client,
                   pendingRequests, nextQueryId, inbox, replies, events>>

-----------------------------------------------------------------------------
(* The app waits for a connection exactly when it has none: it is never    *)
(* without a line it will hear of, and two contexts never wait for the     *)
(* same connection (the second would be handed a null socket,              *)
(* BitsharesWalletBridge.cpp:543).                                         *)
OneLine == contexts + Cardinality(open \intersect served) = 1

(* No call waits on a connection that is lost, where nobody would ever     *)
(* answer it (BitsharesWalletBridge.cpp:65-74), and no two calls of a      *)
(* connection share an ID.                                                 *)
CallsHaveALine ==
    /\ \A q \in pendingRequests : q.conn \in open
    /\ \A p, q \in pendingRequests : p.conn = q.conn /\ p.id = q.id => p = q
=============================================================================
