----------------------------- MODULE Connection -----------------------------
(***************************************************************************)
(* How the voting app connects to the backend, loses it and connects again *)
(* (VotingSystem.cpp, main.qml), with the end of the TLS adaptor that      *)
(* reports on the handshake and the backend's table of clients             *)
(* (BackendPlugin.cpp).                                                    *)
(*                                                                         *)
(* An attempt is a call of connectToBackend and has a number.  Its socket  *)
(* connection has the same number: connectToHost aborts the one before.    *)
(* When the connection opens the app asks the wallet for the shared        *)
(* secret, makes a TLS stream of it, and once the handshake completes a    *)
(* client and a backend on that stream.  The account is set before the     *)
(* first attempt, as main.qml sees to.                                     *)
(***************************************************************************)
EXTENDS Integers, Sequences, SequencesExt

CONSTANTS
    MaxLosses,          \* bound: connections the server gives up
    MaxWalletLosses     \* bound: times the wallet goes away

ASSUME ConnectionAssumption == MaxLosses \in Nat /\ MaxWalletLosses \in Nat

VARIABLES
    wallet,     \* is a wallet connected?
    attempts,   \* calls of connectToBackend so far
    socket,     \* the state of the one QTcpSocket
    handlers,   \* attempts whose slot on connected() is still connected
    secrets,    \* attempts with a getSharedSecret call under way
    stream,     \* serverStream: the attempt it was made for, or 0
    hello,      \* the connection its ClientHello was written to, or 0
    backend,    \* client and backend: the attempt they were made for, or 0
    promise,    \* the promise each attempt returned
    clients,    \* the backend's connections
    gone,       \* connections the backend has closed
    losses, walletLosses,   \* counters for the bounds
    mishap,     \* history: something other than a working connection failed
    doubled     \* history: one connection has completed two attempts

appVars == <<attempts, socket, handlers, secrets, stream, hello, backend, promise>>
serverVars == <<clients, gone, losses>>
vars == <<wallet, appVars, serverVars, walletLosses, mishap, doubled>>

MaxAttempts == 1 + MaxLosses + MaxWalletLosses
Attempts == 1 .. MaxAttempts
Settled == {"resolved", "rejected"}

\* Is c the connection the app's socket is on?
OnSocket(c) == socket = "open" /\ c = attempts

TypeOK ==
    /\ {wallet, mishap, doubled} \subseteq BOOLEAN
    /\ {attempts, stream, hello, backend} \subseteq 0 .. MaxAttempts
    /\ socket \in {"idle", "connecting", "open"}
    /\ {handlers, secrets} \subseteq Seq(Attempts)
    /\ promise \in [Attempts -> {"none", "pending", "dropped"} \union Settled]
    /\ clients \subseteq Attempts /\ gone \subseteq Attempts
    /\ losses \in 0 .. MaxLosses /\ walletLosses \in 0 .. MaxWalletLosses

Init ==
    /\ wallet = FALSE
    /\ attempts = 0
    /\ socket = "idle"
    /\ handlers = <<>>
    /\ secrets = <<>>
    /\ stream = 0
    /\ hello = 0
    /\ backend = 0
    /\ promise = [a \in Attempts |-> "none"]
    /\ clients = {} /\ gone = {}
    /\ losses = 0 /\ walletLosses = 0
    /\ mishap = FALSE /\ doubled = FALSE

-----------------------------------------------------------------------------
(* The app                                                                 *)

\* connectToBackend: a slot for connected(), abort, connectToHost.
connectToBackend ==
    /\ attempts' = attempts + 1
    /\ handlers' = Append(handlers, attempts + 1)
    /\ socket' = "connecting"
    /\ promise' = [promise EXCEPT ![attempts + 1] = "pending"]

\* Mutant: connects even if the backend is connected.
WalletArrives_always ==
    /\ ~wallet
    /\ wallet' = TRUE
    /\ connectToBackend
    /\ UNCHANGED <<secrets, stream, hello, backend, serverVars, walletLosses,
                   mishap, doubled>>

\* main.qml, onBlockchainWalletConnected (and onBlockchainSynced the first
\* time): connect unless the backend is connected.
WalletArrives ==
    /\ ~wallet
    /\ wallet' = TRUE
    /\ IF backend = 0
       THEN connectToBackend
       ELSE UNCHANGED <<attempts, handlers, socket, promise>>
    /\ UNCHANGED <<secrets, stream, hello, backend, serverVars, walletLosses,
                   mishap, doubled>>

\* The bridge rejects the calls under way; each took its attempt's promise.
Dropped(as) == [a \in Attempts |-> IF a \in as THEN "dropped" ELSE promise[a]]

Calling == ToSet(secrets)

\* Mutant: the calls under way stay and are answered by the next wallet.
WalletLost_waits ==
    /\ wallet /\ walletLosses < MaxWalletLosses
    /\ wallet' = FALSE
    /\ walletLosses' = walletLosses + 1
    /\ mishap' = (mishap \/ backend = 0)
    /\ UNCHANGED <<appVars, serverVars, doubled>>

WalletLost ==
    /\ wallet /\ walletLosses < MaxWalletLosses
    /\ wallet' = FALSE
    /\ walletLosses' = walletLosses + 1
    /\ secrets' = <<>>
    /\ promise' = Dropped(Calling)
    /\ mishap' = (mishap \/ backend = 0)
    /\ UNCHANGED <<attempts, socket, handlers, stream, hello, backend, serverVars,
                   doubled>>

\* The socket connects: every slot fires, cuts itself off, and calls
\* completeConnection, which asks the wallet for the secret.  A call to a
\* wallet that is gone is rejected at once.
Connected ==
    /\ socket = "connecting"
    /\ socket' = "open"
    /\ handlers' = <<>>
    /\ doubled' = (doubled \/ Len(secrets \o handlers) > 1)
    /\ IF wallet
       THEN secrets' = secrets \o handlers /\ UNCHANGED <<promise, mishap>>
       ELSE /\ promise' = Dropped(ToSet(handlers))
            /\ mishap' = TRUE
            /\ UNCHANGED secrets
    /\ UNCHANGED <<wallet, attempts, stream, hello, backend, serverVars, walletLosses>>

\* The connection is refused: socketError, and no backend to disconnect.
Refused ==
    /\ socket = "connecting"
    /\ socket' = "idle"
    /\ mishap' = TRUE
    /\ UNCHANGED <<wallet, attempts, handlers, secrets, stream, hello, backend,
                   promise, serverVars, walletLosses, doubled>>

\* completeConnection's continuation puts the new stream in serverStream.  A
\* stream that was there is destroyed: its wrapper closes the socket, which
\* the new stream uses too, and if its handshake was under way the broken
\* promise runs the rejection handler, which clears everything, the new
\* stream included.
NewStream(a) ==
    /\ socket' = IF stream = 0 THEN socket ELSE "idle"
    /\ IF stream # 0 /\ promise[stream] = "pending"
       THEN /\ promise' = [promise EXCEPT ![stream] = "rejected", ![a] = "rejected"]
            /\ stream' = 0 /\ hello' = 0 /\ backend' = 0
       ELSE /\ stream' = a
            /\ hello' = IF socket' = "open" THEN attempts ELSE 0
            /\ UNCHANGED <<promise, backend>>

SecretArrives ==
    /\ secrets # <<>>
    /\ NewStream(Head(secrets))
    /\ secrets' = Tail(secrets)
    /\ UNCHANGED <<wallet, attempts, handlers, serverVars, walletLosses, mishap, doubled>>

\* The wallet or its user refuses: nothing handles the rejection.
SecretFails ==
    /\ secrets # <<>>
    /\ promise' = Dropped({Head(secrets)})
    /\ secrets' = Tail(secrets)
    /\ mishap' = TRUE
    /\ UNCHANGED <<wallet, attempts, socket, handlers, stream, hello, backend,
                   serverVars, walletLosses, doubled>>

\* The handshake is over: the client and the backend are made.
HandshakeCompletes ==
    /\ stream # 0 /\ promise[stream] = "pending"
    /\ OnSocket(hello) /\ hello \in clients
    /\ backend' = stream
    /\ promise' = [promise EXCEPT ![stream] = "resolved"]
    /\ UNCHANGED <<wallet, attempts, socket, handlers, secrets, stream, hello,
                   serverVars, walletLosses, mishap, doubled>>

\* Mutant: disconnected() does not let the stream go.
RemoteHostClosed_keepsStream ==
    /\ attempts \in gone /\ OnSocket(attempts)
    /\ mishap' = (mishap \/ backend = 0)
    /\ IF backend = 0
       THEN /\ socket' = "idle"
            /\ UNCHANGED <<attempts, handlers, promise, stream, hello, backend>>
       ELSE backend' = 0 /\ connectToBackend /\ UNCHANGED <<stream, hello>>
    /\ UNCHANGED <<wallet, secrets, serverVars, walletLosses, doubled>>

\* socketError: with a backend, disconnected() lets it, the client and the
\* stream go, and main.qml's onBackendDisconnected connects again.
RemoteHostClosed ==
    /\ attempts \in gone /\ OnSocket(attempts)
    /\ mishap' = (mishap \/ backend = 0)
    /\ IF backend = 0
       THEN /\ socket' = "idle"
            /\ UNCHANGED <<attempts, handlers, promise, stream, hello, backend>>
       ELSE /\ backend' = 0 /\ stream' = 0 /\ hello' = 0
            /\ connectToBackend
    /\ UNCHANGED <<wallet, secrets, serverVars, walletLosses, doubled>>

-----------------------------------------------------------------------------
(* The backend                                                             *)

\* acceptLoop: the client is in the table until its network disconnects.
Accept ==
    /\ socket = "open" /\ attempts \notin clients \union gone
    /\ clients' = clients \union {attempts}
    /\ UNCHANGED <<wallet, appVars, gone, losses, walletLosses, mishap, doubled>>

\* The server closes a connection: it has no secret for the account, the
\* secrets differ, or it shuts down.
Close(c) ==
    /\ c \in clients /\ losses < MaxLosses
    /\ clients' = clients \ {c}
    /\ gone' = gone \union {c}
    /\ losses' = losses + 1
    /\ UNCHANGED <<wallet, appVars, walletLosses, mishap, doubled>>

\* It reads the end of the stream, and onDisconnect erases the client.
Erase(c) ==
    /\ c \in clients /\ ~OnSocket(c)
    /\ clients' = clients \ {c}
    /\ gone' = gone \union {c}
    /\ UNCHANGED <<wallet, appVars, losses, walletLosses, mishap, doubled>>

-----------------------------------------------------------------------------
Next ==
    \/ WalletArrives
    \/ WalletLost
    \/ Connected
    \/ Refused
    \/ SecretArrives
    \/ SecretFails
    \/ HandshakeCompletes
    \/ RemoteHostClosed
    \/ Accept
    \/ \E c \in clients : Close(c) \/ Erase(c)

\* The user brings the wallet back, the network and the wallet answer, the
\* server runs; nothing obliges any of them to fail.
Fairness ==
    /\ WF_vars(WalletArrives)
    /\ WF_vars(Connected \/ Refused)
    /\ WF_vars(SecretArrives \/ SecretFails)
    /\ WF_vars(HandshakeCompletes)
    /\ WF_vars(RemoteHostClosed)
    /\ WF_vars(Accept)
    /\ WF_vars(\E c \in clients : Erase(c))

Spec == Init /\ [][Next]_vars /\ Fairness

-----------------------------------------------------------------------------
(* As long as no socket connection has completed two attempts, a backend   *)
(* the app holds is one it can talk to: it was made on the stream that is  *)
(* kept, whose handshake ran on the connection the socket has open.        *)
BackendIsLive ==
    ~doubled /\ backend # 0 => stream = backend /\ OnSocket(hello)

(* Under the same condition the secret that is being fetched is for the    *)
(* newest attempt, and no slot is waiting that belongs to a connection     *)
(* that is open.                                                           *)
NewestCompletes ==
    ~doubled => /\ Len(secrets) <= 1
                /\ socket = "open" => handlers = <<>>
                /\ \A a \in Calling : a = attempts

(* VotingSystem.hpp on connectToBackend: the promise it returns "will      *)
(* resolve or break when the connection succeeds or fails".                *)
ConnectPromiseSettles ==
    \A a \in Attempts :
        (promise[a] = "pending" /\ socket = "idle") ~> promise[a] \in Settled
=============================================================================
