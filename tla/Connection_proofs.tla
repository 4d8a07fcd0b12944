------------------------- MODULE Connection_proofs --------------------------
(* Proofs about Connection: its attempts stay within the bound, and unless  *)
(* one socket connection completes two attempts, the backend that the app   *)
(* holds is on the open connection.                                         *)
EXTENDS Connection, SequenceTheorems, TLAPS

(* What an attempt is paid with: an arrival of the wallet, or the loss of a *)
(* connection by the server, which is spent when the app hears of it.       *)
Arrivals == walletLosses + (IF wallet THEN 1 ELSE 0)
LossUnheard == IF OnSocket(attempts) /\ attempts \in gone THEN 1 ELSE 0

AttemptsPaid == attempts + LossUnheard <= Arrivals + losses

(* The server and the stream know of no attempt that was not made, and      *)
(* nothing of the one under way, whose slot is the last of those waiting.   *)
AttemptsKnown ==
    /\ clients \subseteq 1 .. attempts
    /\ gone \subseteq 1 .. attempts
    /\ hello \in 0 .. attempts
    /\ attempts = 0 => socket = "idle"
    /\ socket = "connecting" =>
          /\ attempts \notin clients \union gone
          /\ hello # attempts
          /\ handlers # <<>> /\ handlers[Len(handlers)] = attempts

(* The wallet's calls end with the wallet.                                  *)
CallsEnd == ~wallet => secrets = <<>>

(* The strengthening of BackendIsLive and NewestCompletes: no secret is     *)
(* being fetched while the socket connects or once the stream has written   *)
(* to the connection that is open.                                          *)
OneCompletion ==
    ~doubled => /\ Len(secrets) <= 1
                /\ socket = "open" => handlers = <<>>
                /\ \A a \in Calling : a = attempts
                /\ socket = "connecting" \/ OnSocket(hello) => secrets = <<>>
                /\ backend # 0 => stream = backend /\ OnSocket(hello)

IInv == TypeOK /\ AttemptsPaid /\ AttemptsKnown /\ CallsEnd /\ OneCompletion

-----------------------------------------------------------------------------
(* connectToBackend can be called when the bound allows: it makes a new     *)
(* attempt, whose slot is the last one.                                     *)
LEMMA ConnectTyped ==
    ASSUME TypeOK, attempts < MaxAttempts, connectToBackend
    PROVE  /\ attempts' \in 0 .. MaxAttempts
           /\ socket' = "connecting"
           /\ handlers' \in Seq(Attempts)
           /\ handlers' # <<>> /\ handlers'[Len(handlers')] = attempts'
           /\ promise' \in [Attempts -> {"none", "pending", "dropped"} \union Settled]
<1>1. attempts \in Nat /\ MaxAttempts \in Nat
  BY ConnectionAssumption DEF TypeOK, MaxAttempts
<1>2. attempts + 1 \in Attempts
  BY <1>1 DEF Attempts
<1>3. handlers \in Seq(Attempts)
  BY DEF TypeOK
<1>4. handlers' = Append(handlers, attempts + 1)
  BY DEF connectToBackend
<1>5. handlers' \in Seq(Attempts)
  BY <1>2, <1>3, <1>4
<1>6. Len(handlers') = Len(handlers) + 1 /\ handlers'[Len(handlers) + 1] = attempts + 1
  BY <1>2, <1>3, <1>4
<1>7. promise' \in [Attempts -> {"none", "pending", "dropped"} \union Settled]
  BY <1>2 DEF connectToBackend, TypeOK
<1> QED
  BY <1>1, <1>2, <1>5, <1>6, <1>7 DEF connectToBackend, TypeOK

(* The wallet arrives.                                                      *)
LEMMA WalletArrivesStep == IInv /\ WalletArrives => IInv'
<1> SUFFICES ASSUME IInv, WalletArrives
             PROVE  IInv'
  OBVIOUS
<1>1. losses \in Nat /\ walletLosses \in Nat /\ attempts \in Nat /\ MaxAttempts \in Nat
      /\ losses <= MaxLosses /\ walletLosses <= MaxWalletLosses
      /\ MaxAttempts = 1 + MaxLosses + MaxWalletLosses
      /\ MaxLosses \in Nat /\ MaxWalletLosses \in Nat
  BY ConnectionAssumption DEF IInv, TypeOK, MaxAttempts
<1>2. attempts < MaxAttempts
  BY <1>1 DEF IInv, AttemptsPaid, Arrivals, LossUnheard, WalletArrives
<1>3. secrets = <<>>
  BY DEF IInv, CallsEnd, WalletArrives
<1>4. CASE backend # 0
  <2>1. TypeOK'
    BY <1>4 DEF WalletArrives, IInv, TypeOK, serverVars
  <2>2. AttemptsPaid'
    BY <1>1, <1>4 DEF WalletArrives, IInv, AttemptsPaid, Arrivals, LossUnheard, OnSocket, serverVars
  <2>3. AttemptsKnown' /\ CallsEnd' /\ OneCompletion'
    BY <1>3, <1>4 DEF WalletArrives, IInv, AttemptsKnown, CallsEnd, OneCompletion, OnSocket, Calling, serverVars
  <2> QED
    BY <2>1, <2>2, <2>3 DEF IInv
<1>5. CASE backend = 0
  <2>0. connectToBackend /\ TypeOK
    BY <1>5 DEF WalletArrives, IInv
  <2>1. TypeOK'
    BY <2>0, <1>2, <1>5, ConnectTyped DEF WalletArrives, TypeOK, serverVars
  <2>2. AttemptsPaid'
    BY <1>1, <2>0 DEF connectToBackend, WalletArrives, IInv, AttemptsPaid, AttemptsKnown, Arrivals, LossUnheard, OnSocket, serverVars
  <2>3. AttemptsKnown'
    BY <1>1, <1>2, <2>0, ConnectTyped DEF connectToBackend, WalletArrives, IInv, AttemptsKnown, serverVars
  <2>4. CallsEnd' /\ OneCompletion'
    BY <1>1, <1>3, <1>5, <2>0 DEF connectToBackend, WalletArrives, IInv, CallsEnd, OneCompletion, OnSocket, Calling, ToSet
  <2> QED
    BY <2>1, <2>2, <2>3, <2>4 DEF IInv
<1> QED
  BY <1>4, <1>5

(* The wallet goes away, and its calls with it.                             *)
LEMMA WalletLostStep == IInv /\ WalletLost => IInv'
<1> SUFFICES ASSUME IInv, WalletLost
             PROVE  IInv'
  OBVIOUS
<1>0. TypeOK
  BY DEF IInv
<1>1. TypeOK'
  <2>1. promise' \in [Attempts -> {"none", "pending", "dropped"} \union Settled]
    BY <1>0 DEF TypeOK, WalletLost, Dropped
  <2>2. walletLosses' \in 0 .. MaxWalletLosses /\ wallet' = FALSE /\ mishap' \in BOOLEAN
    BY <1>0, ConnectionAssumption DEF TypeOK, WalletLost
  <2>3. secrets' \in Seq(Attempts)
    BY DEF WalletLost
  <2> QED
    BY <1>0, <2>1, <2>2, <2>3 DEF TypeOK, WalletLost, serverVars
<1>2. AttemptsPaid'
  BY DEF IInv, TypeOK, WalletLost, AttemptsPaid, Arrivals, LossUnheard, OnSocket, serverVars
<1>3. AttemptsKnown' /\ CallsEnd' /\ OneCompletion'
  BY DEF IInv, WalletLost, AttemptsKnown, CallsEnd, OneCompletion, OnSocket, Calling, ToSet, serverVars
<1> QED
  BY <1>1, <1>2, <1>3 DEF IInv
(* The socket connects: the newest attempt's slot fires, and unless that    *)
(* completes a second attempt it is the only one.                           *)
LEMMA ConnectedStep == IInv /\ Connected => IInv'
<1> SUFFICES ASSUME IInv, Connected
             PROVE  IInv'
  OBVIOUS
<1>0. TypeOK
  BY DEF IInv
<1>1. secrets \in Seq(Attempts) /\ handlers \in Seq(Attempts)
  BY <1>0 DEF TypeOK
<1>2. PICK both : both = secrets \o handlers
  OBVIOUS
<1>3. /\ both \in Seq(Attempts) /\ Len(both) = Len(secrets) + Len(handlers)
      /\ \A i \in 1 .. Len(handlers) : both[Len(secrets) + i] = handlers[i]
  <2>1. /\ secrets \o handlers \in Seq(Attempts)
        /\ Len(secrets \o handlers) = Len(secrets) + Len(handlers)
        /\ \A i \in 1 .. Len(secrets) + Len(handlers) :
              (secrets \o handlers)[i] =
                  IF i <= Len(secrets) THEN secrets[i] ELSE handlers[i - Len(secrets)]
    BY <1>1, ConcatProperties
  <2>2. Len(secrets) \in Nat /\ Len(handlers) \in Nat
    BY <1>1
  <2> QED
    BY <1>2, <2>1, <2>2
<1>4. /\ handlers' = <<>>
      /\ doubled' = (doubled \/ Len(both) > 1)
      /\ secrets' = IF wallet THEN both ELSE secrets
  BY <1>2 DEF Connected
<1>5. TypeOK'
  <2>1. handlers' \in Seq(Attempts) /\ secrets' \in Seq(Attempts)
    BY <1>1, <1>3, <1>4
  <2>2. promise' \in [Attempts -> {"none", "pending", "dropped"} \union Settled]
    BY <1>0 DEF TypeOK, Connected, Dropped
  <2>3. mishap' \in BOOLEAN /\ doubled' \in BOOLEAN
    BY <1>0 DEF TypeOK, Connected
  <2> QED
    BY <1>0, <2>1, <2>2, <2>3 DEF TypeOK, Connected, serverVars
<1>6. AttemptsPaid' /\ AttemptsKnown'
  BY <1>0 DEF IInv, TypeOK, Connected, AttemptsPaid, AttemptsKnown, Arrivals, LossUnheard, OnSocket, serverVars
<1>7. CallsEnd'
  BY DEF IInv, Connected, CallsEnd
<1>8. OneCompletion'
  <2> SUFFICES ASSUME ~doubled'
               PROVE  OneCompletion'
    BY DEF OneCompletion
  <2>0. Len(both) \in Nat /\ Len(handlers) \in Nat /\ Len(secrets) \in Nat
    BY <1>1, <1>3
  <2>1. ~doubled /\ ~(Len(both) > 1)
    BY <1>4, Zenon
  <2>2. handlers # <<>> /\ handlers[Len(handlers)] = attempts
    BY DEF IInv, AttemptsKnown, Connected
  <2>3. Len(handlers) # 0
    BY <1>1, <2>2, EmptySeq
  <2>4. Len(handlers) = 1 /\ Len(secrets) = 0 /\ Len(both) = 1
    <3>1. Len(both) = Len(secrets) + Len(handlers)
      BY <1>3
    <3>2. ~(Len(both) > 1)
      BY <2>1
    <3>3. \A b, s, h \in Nat : b = s + h /\ ~(b > 1) /\ h # 0 => h = 1 /\ s = 0 /\ b = 1
      OBVIOUS
    <3> QED
      BY <2>0, <2>3, <3>1, <3>2, <3>3, Zenon
  <2>5. both[1] = attempts /\ secrets = <<>>
    BY <1>1, <1>3, <2>2, <2>4
  <2>6. Len(secrets') <= 1 /\ \A i \in DOMAIN secrets' : secrets'[i] = attempts
    <3>1. CASE wallet
      <4>1. secrets' = both
        BY <3>1, <1>4
      <4>2. DOMAIN both = {1} /\ both[1] = attempts
        BY <1>3, <2>4, <2>5
      <4> QED
        BY <4>1, <4>2, <2>4
    <3>2. CASE ~wallet
      BY <3>2, <1>4, <2>5
    <3> QED
      BY <3>1, <3>2
  <2>7. \A a \in Calling' : a = attempts'
    BY <2>6 DEF Calling, ToSet, Connected
  <2>8. ~OnSocket(hello)'
    BY DEF IInv, AttemptsKnown, Connected, OnSocket
  <2>9. backend' = 0
    BY <2>1 DEF IInv, OneCompletion, Connected, OnSocket
  <2> QED
    BY <1>4, <2>6, <2>7, <2>8, <2>9 DEF OneCompletion, Connected
<1> QED
  BY <1>5, <1>6, <1>7, <1>8 DEF IInv

(* The connection is refused.                                               *)
LEMMA RefusedStep == IInv /\ Refused => IInv'
<1> SUFFICES ASSUME IInv, Refused
             PROVE  IInv'
  OBVIOUS
<1>1. TypeOK'
  BY DEF IInv, TypeOK, Refused, serverVars
<1>2. AttemptsPaid' /\ AttemptsKnown' /\ CallsEnd'
  BY DEF IInv, TypeOK, Refused, AttemptsPaid, AttemptsKnown, Arrivals, LossUnheard, OnSocket, CallsEnd, serverVars
<1>3. OneCompletion'
  BY DEF IInv, OneCompletion, Refused, OnSocket, Calling
<1> QED
  BY <1>1, <1>2, <1>3 DEF IInv

(* The secret arrives and makes a stream; the one completion is over.       *)
LEMMA SecretArrivesStep == IInv /\ SecretArrives => IInv'
<1> SUFFICES ASSUME IInv, SecretArrives
             PROVE  IInv'
  OBVIOUS
<1>0. TypeOK
  BY DEF IInv
<1>1. /\ secrets \in Seq(Attempts) /\ secrets # <<>>
      /\ Head(secrets) \in Attempts /\ Head(secrets) \in Calling
      /\ Tail(secrets) \in Seq(Attempts) /\ Len(Tail(secrets)) = Len(secrets) - 1
  BY <1>0 DEF TypeOK, SecretArrives, Calling, ToSet
<1>2. NewStream(Head(secrets))
  BY DEF SecretArrives
<1>3. Head(secrets) \in 0 .. MaxAttempts /\ 0 \in 0 .. MaxAttempts /\ attempts \in 0 .. MaxAttempts
  BY <1>0, <1>1, ConnectionAssumption DEF TypeOK, Attempts, MaxAttempts
<1>4. promise' \in [Attempts -> {"none", "pending", "dropped"} \union Settled]
  BY <1>0, <1>1, <1>2 DEF TypeOK, NewStream, Settled
<1>5. /\ stream' \in 0 .. MaxAttempts /\ backend' \in 0 .. MaxAttempts
      /\ hello' \in {0, attempts}
      /\ socket' \in {"idle", socket}
      /\ socket' = "connecting" => hello' = 0
  BY <1>0, <1>2, <1>3 DEF TypeOK, NewStream
<1>6. TypeOK'
  BY <1>0, <1>1, <1>3, <1>4, <1>5 DEF TypeOK, SecretArrives, serverVars
<1>7. AttemptsPaid'
  BY <1>0, <1>5 DEF IInv, TypeOK, AttemptsPaid, Arrivals, LossUnheard, OnSocket, SecretArrives, serverVars
<1>8. AttemptsKnown'
  BY <1>0, <1>5 DEF IInv, TypeOK, AttemptsKnown, SecretArrives, serverVars
<1>9. CallsEnd'
  BY <1>1 DEF IInv, CallsEnd, SecretArrives
<1>10. OneCompletion'
  <2> SUFFICES ASSUME ~doubled
               PROVE  OneCompletion'
    BY DEF OneCompletion, SecretArrives
  <2>1. backend = 0 /\ socket # "connecting"
    BY <1>1 DEF IInv, OneCompletion
  <2>2. Len(secrets) = 1
    BY <1>1 DEF IInv, OneCompletion
  <2>3. secrets' = <<>>
    BY <1>1, <2>2 DEF SecretArrives
  <2>4. backend' = 0
    BY <1>2, <2>1 DEF NewStream
  <2> QED
    BY <1>5, <2>3, <2>4 DEF IInv, OneCompletion, SecretArrives, Calling, ToSet
<1> QED
  BY <1>6, <1>7, <1>8, <1>9, <1>10 DEF IInv
(* The secret is refused: the attempt's promise is lost.                    *)
LEMMA SecretFailsStep == IInv /\ SecretFails => IInv'
<1> SUFFICES ASSUME IInv, SecretFails
             PROVE  IInv'
  OBVIOUS
<1>0. TypeOK
  BY DEF IInv
<1>1. /\ secrets \in Seq(Attempts) /\ secrets # <<>>
      /\ Tail(secrets) \in Seq(Attempts) /\ Len(Tail(secrets)) = Len(secrets) - 1
  BY <1>0 DEF TypeOK, SecretFails
<1>2. promise' \in [Attempts -> {"none", "pending", "dropped"} \union Settled]
  BY <1>0 DEF TypeOK, SecretFails, Dropped
<1>3. TypeOK'
  BY <1>0, <1>1, <1>2 DEF TypeOK, SecretFails, serverVars
<1>4. AttemptsPaid' /\ AttemptsKnown'
  BY DEF IInv, TypeOK, SecretFails, AttemptsPaid, AttemptsKnown, Arrivals, LossUnheard, OnSocket, serverVars
<1>5. CallsEnd'
  BY <1>1 DEF IInv, CallsEnd, SecretFails
<1>6. OneCompletion'
  <2> SUFFICES ASSUME ~doubled
               PROVE  OneCompletion'
    BY DEF OneCompletion, SecretFails
  <2>1. Len(secrets) = 1
    BY <1>1 DEF IInv, OneCompletion
  <2>2. secrets' = <<>>
    BY <1>1, <2>1 DEF SecretFails
  <2> QED
    BY <2>2 DEF IInv, OneCompletion, SecretFails, OnSocket, Calling, ToSet
<1> QED
  BY <1>3, <1>4, <1>5, <1>6 DEF IInv

(* The handshake completes on the connection that is open.                  *)
LEMMA HandshakeCompletesStep == IInv /\ HandshakeCompletes => IInv'
<1> SUFFICES ASSUME IInv, HandshakeCompletes
             PROVE  IInv'
  OBVIOUS
<1>0. TypeOK
  BY DEF IInv
<1>1. promise' \in [Attempts -> {"none", "pending", "dropped"} \union Settled]
  BY <1>0 DEF TypeOK, HandshakeCompletes, Settled
<1>2. TypeOK'
  BY <1>0, <1>1 DEF TypeOK, HandshakeCompletes, serverVars
<1>3. AttemptsPaid' /\ AttemptsKnown' /\ CallsEnd'
  BY DEF IInv, TypeOK, HandshakeCompletes, AttemptsPaid, AttemptsKnown, CallsEnd, Arrivals, LossUnheard, OnSocket, serverVars
<1>4. OneCompletion'
  BY DEF IInv, OneCompletion, HandshakeCompletes, OnSocket, Calling
<1> QED
  BY <1>2, <1>3, <1>4 DEF IInv

(* The app hears that its connection is gone, and connects again if it had  *)
(* a backend.  The loss it hears of pays for the attempt.                   *)
LEMMA RemoteHostClosedStep == IInv /\ RemoteHostClosed => IInv'
<1> SUFFICES ASSUME IInv, RemoteHostClosed
             PROVE  IInv'
  OBVIOUS
<1>1. losses \in Nat /\ walletLosses \in Nat /\ attempts \in Nat /\ MaxAttempts \in Nat
      /\ losses <= MaxLosses /\ walletLosses <= MaxWalletLosses
      /\ MaxAttempts = 1 + MaxLosses + MaxWalletLosses
      /\ MaxLosses \in Nat /\ MaxWalletLosses \in Nat
  BY ConnectionAssumption DEF IInv, TypeOK, MaxAttempts
<1>2. LossUnheard = 1 /\ OnSocket(attempts)
  BY DEF RemoteHostClosed, LossUnheard
<1>3. attempts < MaxAttempts
  BY <1>1, <1>2 DEF IInv, AttemptsPaid, Arrivals
<1>4. CASE backend = 0
  <2>1. TypeOK'
    BY <1>4 DEF RemoteHostClosed, IInv, TypeOK, serverVars
  <2>2. AttemptsPaid'
    BY <1>1, <1>4 DEF RemoteHostClosed, IInv, AttemptsPaid, Arrivals, LossUnheard, OnSocket, serverVars
  <2>3. AttemptsKnown' /\ CallsEnd' /\ OneCompletion'
    BY <1>4 DEF RemoteHostClosed, IInv, AttemptsKnown, CallsEnd, OneCompletion, OnSocket, Calling, serverVars
  <2> QED
    BY <2>1, <2>2, <2>3 DEF IInv
<1>5. CASE backend # 0
  <2>0. connectToBackend /\ TypeOK
    BY <1>5 DEF RemoteHostClosed, IInv
  <2>1. TypeOK'
    BY <2>0, <1>1, <1>3, <1>5, ConnectTyped DEF RemoteHostClosed, TypeOK, serverVars
  <2>2. AttemptsPaid'
    <3>1. LossUnheard' = 0 /\ attempts' = attempts + 1 /\ Arrivals' = Arrivals /\ losses' = losses
      BY <2>0 DEF connectToBackend, RemoteHostClosed, Arrivals, LossUnheard, OnSocket, serverVars
    <3> QED
      BY <3>1, <1>1, <1>2 DEF IInv, AttemptsPaid
  <2>3. AttemptsKnown'
    BY <1>1, <1>3, <1>5, <2>0, ConnectTyped DEF connectToBackend, RemoteHostClosed, IInv, AttemptsKnown, serverVars
  <2>4. CallsEnd' /\ OneCompletion'
    BY <1>1, <1>5, <2>0 DEF connectToBackend, RemoteHostClosed, IInv, CallsEnd, OneCompletion, OnSocket, Calling, ToSet
  <2> QED
    BY <2>1, <2>2, <2>3, <2>4 DEF IInv
<1> QED
  BY <1>4, <1>5

(* The server's own steps change its table only; a connection it closes is  *)
(* the app's loss to hear of.                                               *)
LEMMA ServerStep ==
    IInv /\ (Accept \/ \E c \in clients : Close(c) \/ Erase(c)) => IInv'
<1>1. ASSUME IInv, Accept
      PROVE  IInv'
  <2>1. attempts \in 1 .. attempts /\ attempts \in Attempts
    BY <1>1, ConnectionAssumption
    DEF IInv, TypeOK, AttemptsKnown, Accept, Attempts, MaxAttempts
  <2>2. clients' = clients \union {attempts} /\ UNCHANGED <<wallet, appVars, gone, losses, walletLosses, mishap, doubled>>
    BY <1>1 DEF Accept
  <2>3. TypeOK'
    BY <1>1, <2>1, <2>2 DEF IInv, TypeOK, appVars
  <2>4. AttemptsPaid'
    BY <1>1, <2>2 DEF IInv, AttemptsPaid, Arrivals, LossUnheard, OnSocket, appVars
  <2>5. AttemptsKnown'
    BY <1>1, <2>1, <2>2 DEF IInv, AttemptsKnown, appVars, Accept
  <2>6. CallsEnd' /\ OneCompletion'
    BY <1>1, <2>2 DEF IInv, CallsEnd, OneCompletion, OnSocket, Calling, appVars
  <2> QED
    BY <2>3, <2>4, <2>5, <2>6 DEF IInv
<1>2. ASSUME IInv, NEW c \in clients, Close(c)
      PROVE  IInv'
  <2>1. TypeOK' /\ AttemptsPaid'
    BY <1>2, ConnectionAssumption DEF IInv, TypeOK, AttemptsPaid, Arrivals, LossUnheard, OnSocket, Close, appVars
  <2>2. AttemptsKnown' /\ CallsEnd' /\ OneCompletion'
    BY <1>2 DEF IInv, AttemptsKnown, CallsEnd, OneCompletion, OnSocket, Calling, Close, appVars
  <2> QED
    BY <2>1, <2>2 DEF IInv
<1>3. ASSUME IInv, NEW c \in clients, Erase(c)
      PROVE  IInv'
  <2>1. TypeOK' /\ AttemptsPaid'
    BY <1>3 DEF IInv, TypeOK, AttemptsPaid, Arrivals, LossUnheard, OnSocket, Erase, appVars
  <2>2. AttemptsKnown' /\ CallsEnd' /\ OneCompletion'
    BY <1>3 DEF IInv, AttemptsKnown, CallsEnd, OneCompletion, OnSocket, Calling, Erase, appVars
  <2> QED
    BY <2>1, <2>2 DEF IInv
<1> QED
  BY <1>1, <1>2, <1>3

-----------------------------------------------------------------------------
(* The invariant holds at first, and every step keeps it.                   *)
LEMMA InvariantInit == Init => IInv
<1> SUFFICES ASSUME Init
             PROVE  IInv
  OBVIOUS
<1>1. 0 \in 0 .. MaxAttempts /\ 0 \in 0 .. MaxLosses /\ 0 \in 0 .. MaxWalletLosses
  BY ConnectionAssumption DEF MaxAttempts
<1>2. handlers \in Seq(Attempts) /\ secrets \in Seq(Attempts) /\ Len(secrets) = 0
  BY DEF Init
<1>3. TypeOK
  BY <1>1, <1>2 DEF Init, TypeOK
<1>4. AttemptsPaid /\ AttemptsKnown /\ CallsEnd
  BY DEF Init, AttemptsPaid, AttemptsKnown, CallsEnd, Arrivals, LossUnheard, OnSocket
<1>5. OneCompletion
  BY <1>2 DEF Init, OneCompletion, Calling, ToSet
<1> QED
  BY <1>3, <1>4, <1>5 DEF IInv

LEMMA InvariantStep == IInv /\ [Next]_vars => IInv'
<1>1. IInv /\ UNCHANGED vars => IInv'
  BY DEF vars, appVars, serverVars, IInv, TypeOK, AttemptsPaid, AttemptsKnown, CallsEnd,
         OneCompletion, Arrivals, LossUnheard, OnSocket, Calling
<1> QED
  BY <1>1, WalletArrivesStep, WalletLostStep, ConnectedStep, RefusedStep,
     SecretArrivesStep, SecretFailsStep, HandshakeCompletesStep,
     RemoteHostClosedStep, ServerStep
  DEF Next

LEMMA Invariant == Spec => []IInv
BY InvariantInit, InvariantStep, PTL DEF Spec

(* Attempts, handlers and secrets keep their types, and the app makes no    *)
(* more attempts than the losses account for.                               *)
THEOREM TypeCorrect == Spec => []TypeOK
<1>1. IInv => TypeOK
  BY DEF IInv
<1> QED
  BY <1>1, Invariant, PTL

(* A backend the app holds is on the connection that is open, for every     *)
(* number of losses, unless one connection has completed two attempts.      *)
THEOREM BackendIsLiveCorrect == Spec => []BackendIsLive
<1>1. IInv => BackendIsLive
  BY DEF IInv, OneCompletion, BackendIsLive
<1> QED
  BY <1>1, Invariant, PTL

(* Only the newest attempt is being completed, under the same condition.    *)
THEOREM NewestCompletesCorrect == Spec => []NewestCompletes
<1>1. IInv => NewestCompletes
  BY DEF IInv, OneCompletion, NewestCompletes
<1> QED
  BY <1>1, Invariant, PTL
=============================================================================
