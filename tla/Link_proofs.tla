---------------------------- MODULE Link_proofs ----------------------------
(***************************************************************************)
(* Proofs about what links the app to the backend.  AppStart: the start of *)
(* the app leads into Connection, lists its accounts once, and leaves the  *)
(* app with its coins.  SecureStream: the types of the state of the stream *)
(* wrappers and the TLS adaptor, that the adaptor has one read of its      *)
(* socket under way until it meets the end, and that the stream is a pipe. *)
(***************************************************************************)
EXTENDS AppStart, SecureStream, SequenceTheorems, FiniteSetTheorems, SumLemmas, TLAPS

-----------------------------------------------------------------------------
(* The start of the app.                                                   *)

(* Until the first attempt, which needs an account, nothing is connected.   *)
NothingBefore ==
    /\ attempts \in Nat /\ wallet \in BOOLEAN
    /\ attempts = 0 => socket = "idle" /\ backend = 0
    /\ attempts > 0 => currentAccount # NoAccount

(* A sync needs the wallet and precedes the first attempt.  It is begun     *)
(* with an empty list, which it fills once.                                 *)
SyncFirst ==
    /\ calls # {} => wallet /\ attempts = 0
    /\ ~("names" \in calls /\ "balances" \in calls)
    /\ names \in Seq(Accounts) /\ Cardinality(ToSet(names)) = Len(names)
    /\ \/ myAccounts = <<>>
       \/ myAccounts = names /\ "names" \notin calls /\ "balances" \notin calls
    /\ currentAccount = NoAccount => myAccounts = <<>>

(* An account that was set without the coins is left to a sync under way,   *)
(* or to nobody.                                                            *)
CoinsOwed ==
    ~halfSynced /\ ~coins =>
        /\ calls = {} => currentAccount = NoAccount
        /\ calls # {} => failed \/ "coins" \in calls

StartInv == NothingBefore /\ SyncFirst /\ CoinsOwed

-----------------------------------------------------------------------------
LEMMA InitInv == StartInit => StartInv
<1> SUFFICES ASSUME StartInit
             PROVE  StartInv
  OBVIOUS
<1>1. CoinsOwed
  BY DEF StartInit, CoinsOwed
<1>5. NothingBefore
  <2>1. 0 \in Nat /\ ~(0 > 0)
    OBVIOUS
  <2> QED
    BY <2>1, Zenon DEF StartInit, Init, NothingBefore
<1>2. names = <<>> /\ names \in Seq(Accounts) /\ Len(names) = 0
  BY DEF StartInit
<1>3. ToSet(names) = {}
  BY <1>2 DEF ToSet
<1>4. Cardinality(ToSet(names)) = 0
  BY <1>3, FS_EmptySet
<1>6. SyncFirst
  BY <1>2, <1>4 DEF StartInit, SyncFirst
<1> QED
  BY <1>1, <1>5, <1>6 DEF StartInv

(* The wallet comes: before there is an account, and after.                 *)
LEMMA WalletComesStep ==
    ASSUME StartInv, FirstWalletArrives \/ LaterWalletArrives
    PROVE  StartInv'
<1>1. CASE FirstWalletArrives
  <2>1. NothingBefore'
    BY <1>1 DEF FirstWalletArrives, StartInv, NothingBefore, appVars
  <2>2. SyncFirst'
    BY <1>1 DEF FirstWalletArrives, StartInv, NothingBefore, SyncFirst, appVars
  <2>3. CoinsOwed'
    BY <1>1 DEF FirstWalletArrives, CoinsOwed
  <2> QED
    BY <2>1, <2>2, <2>3 DEF StartInv
<1>2. CASE LaterWalletArrives
  <2>1. NothingBefore'
    BY <1>2 DEF LaterWalletArrives, WalletArrives, connectToBackend, StartInv,
                NothingBefore, startVars
  <2>2. SyncFirst' /\ CoinsOwed'
    BY <1>2 DEF LaterWalletArrives, WalletArrives, StartInv, NothingBefore, SyncFirst,
                CoinsOwed, startVars
  <2> QED
    BY <2>1, <2>2 DEF StartInv
<1> QED
  BY <1>1, <1>2

(* It goes before there has been an attempt.                                *)
LEMMA StartWalletLostStep ==
    ASSUME StartInv, StartWalletLost
    PROVE  StartInv'
<1>1. NothingBefore'
  BY DEF StartWalletLost, StartInv, NothingBefore, appVars
<1>2. SyncFirst'
  BY DEF StartWalletLost, StartInv, SyncFirst, appVars
<1>3. CoinsOwed'
  BY DEF StartWalletLost, CoinsOwed
<1> QED
  BY <1>1, <1>2, <1>3 DEF StartInv

(* What an answer brings.                                                   *)
LEMMA AnswerListed ==
    ASSUME SyncFirst, StartAssumption, NEW call \in calls, SyncAnswered(call)
    PROVE  /\ ~("names" \in calls' /\ "balances" \in calls')
           /\ names' \in Seq(Accounts) /\ Cardinality(ToSet(names')) = Len(names')
           /\ \/ myAccounts' = <<>>
              \/ myAccounts' = names' /\ "names" \notin calls' /\ "balances" \notin calls'
           /\ currentAccount' = NoAccount => myAccounts' = <<>>
           /\ currentAccount' = NoAccount => currentAccount = NoAccount
<1>0. calls' = (calls \ {call}) \union (IF call = "names" THEN {"balances"} ELSE {})
  BY DEF SyncAnswered, CallsAfter
<1>1. CASE call = "coins"
  <2>1. UNCHANGED <<names, myAccounts, currentAccount>>
    BY <1>1 DEF SyncAnswered, CoinsArrive
  <2> QED
    BY <1>0, <1>1, <2>1 DEF SyncFirst
<1>2. CASE call = "names"
  <2>1. names' \in Listings /\ UNCHANGED <<myAccounts, currentAccount>>
    BY <1>2 DEF SyncAnswered, NamesArrive
  <2>2. names' \in Seq(Accounts) /\ Cardinality(ToSet(names')) = Len(names')
    BY <2>1 DEF StartAssumption
  <2>3. myAccounts = <<>>
    BY <1>2 DEF SyncFirst
  <2> QED
    BY <1>0, <1>2, <2>1, <2>2, <2>3 DEF SyncFirst
<1>3. CASE call = "balances"
  <2>1. /\ UNCHANGED names
        /\ myAccounts' = myAccounts \o names
        /\ currentAccount' = Chosen(myAccounts')
    BY <1>3 DEF SyncAnswered, BalancesArrive
  <2>2. myAccounts = <<>> /\ names \in Seq(Accounts)
    BY <1>3 DEF SyncFirst
  <2>3. myAccounts' = names
    BY <2>1, <2>2
  <2>4. ASSUME names # <<>>
        PROVE  Head(names) \in Accounts
    BY <2>2, <2>4
  <2>5. settings \in ToSet(names) => settings \in Accounts
    BY <2>2 DEF ToSet
  <2>6. currentAccount' = NoAccount => names = <<>> /\ currentAccount = NoAccount
    BY <2>1, <2>3, <2>4, <2>5 DEF Chosen, StartAssumption
  <2> QED
    BY <1>0, <1>3, <2>1, <2>3, <2>6 DEF SyncFirst
<1> QED
  BY <1>1, <1>2, <1>3 DEF SyncAnswered

(* A call of the sync is answered, and perhaps the app connects.            *)
LEMMA SyncAnsweredStep ==
    ASSUME StartInv, NEW call \in calls, SyncAnswered(call)
    PROVE  StartInv'
<1>0. /\ calls' = (calls \ {call}) \union (IF call = "names" THEN {"balances"} ELSE {})
      /\ wallet /\ attempts = 0 /\ backend = 0 /\ wallet' = wallet /\ backend' = backend
  BY DEF SyncAnswered, CallsAfter, StartInv, SyncFirst, NothingBefore
<1>1. /\ ~("names" \in calls' /\ "balances" \in calls')
      /\ names' \in Seq(Accounts) /\ Cardinality(ToSet(names')) = Len(names')
      /\ \/ myAccounts' = <<>>
         \/ myAccounts' = names' /\ "names" \notin calls' /\ "balances" \notin calls'
      /\ currentAccount' = NoAccount => myAccounts' = <<>>
      /\ currentAccount' = NoAccount => currentAccount = NoAccount
  BY StartAssumption, AnswerListed DEF StartInv
<1>2. \/ UNCHANGED <<attempts, socket>>
      \/ calls' = {} /\ ~failed /\ currentAccount' # NoAccount /\ attempts' = 1
  BY <1>0 DEF SyncAnswered, Synced, connectToBackend
<1>3. NothingBefore'
  BY <1>0, <1>2 DEF StartInv, NothingBefore
<1>4. SyncFirst'
  BY <1>0, <1>1, <1>2 DEF SyncFirst
<1>5. /\ failed' = failed
      /\ ~halfSynced' => ~halfSynced
      /\ ~halfSynced' /\ ~coins' /\ calls' = {} /\ failed => currentAccount' = NoAccount
  BY DEF SyncAnswered
<1>6. coins => coins'
  BY DEF SyncAnswered, CoinsArrive, NamesArrive, BalancesArrive
<1>7. call = "coins" => coins'
  BY DEF SyncAnswered, CoinsArrive
<1>8. CoinsOwed'
  BY <1>0, <1>5, <1>6, <1>7 DEF StartInv, CoinsOwed
<1> QED
  BY <1>3, <1>4, <1>8 DEF StartInv

(* A call is refused, or the user picks an account.                         *)
LEMMA SyncRefusedStep ==
    ASSUME StartInv, NEW call \in calls, SyncRefused(call)
    PROVE  StartInv'
<1>1. NothingBefore'
  BY DEF SyncRefused, StartInv, NothingBefore, vars, appVars
<1>2. SyncFirst'
  BY DEF SyncRefused, StartInv, SyncFirst, vars, appVars
<1>3. CoinsOwed'
  BY DEF SyncRefused, StartInv, CoinsOwed
<1> QED
  BY <1>1, <1>2, <1>3 DEF StartInv

LEMMA SetAccountStep ==
    ASSUME StartInv, NEW account \in Accounts, setCurrentAccount(account)
    PROVE  StartInv'
<1>1. account # NoAccount
  BY StartAssumption DEF StartAssumption
<1>2. myAccounts # <<>>
  BY DEF setCurrentAccount, ToSet
<1>3. NothingBefore'
  BY <1>1 DEF setCurrentAccount, StartInv, NothingBefore, vars, appVars
<1>4. SyncFirst' /\ CoinsOwed'
  BY <1>1, <1>2 DEF setCurrentAccount, StartInv, SyncFirst, CoinsOwed, vars, appVars
<1> QED
  BY <1>3, <1>4 DEF StartInv

(* The steps of Connection leave the start alone.                           *)
LEMMA ConnectionStepStep ==
    ASSUME StartInv, ConnectionStep
    PROVE  StartInv'
<1>1. UNCHANGED startVars
  BY DEF ConnectionStep
<1>2. CoinsOwed'
  BY <1>1 DEF StartInv, CoinsOwed, startVars
<1>3. CASE attempts > 0 /\ WalletLost
  <2>1. calls = {}
    BY <1>3 DEF StartInv, NothingBefore, SyncFirst
  <2>2. NothingBefore'
    BY <1>1, <1>3 DEF WalletLost, StartInv, NothingBefore, startVars
  <2>3. SyncFirst'
    BY <1>1, <2>1 DEF StartInv, SyncFirst, startVars
  <2> QED
    BY <1>2, <2>2, <2>3 DEF StartInv
<1>4. CASE Connected \/ Refused
  BY <1>1, <1>2, <1>4 DEF Connected, Refused, StartInv, NothingBefore, SyncFirst, startVars
<1>5. CASE SecretArrives \/ SecretFails
  BY <1>1, <1>2, <1>5 DEF SecretArrives, NewStream, SecretFails, StartInv, NothingBefore,
                          SyncFirst, startVars
<1>6. CASE HandshakeCompletes
  BY <1>1, <1>2, <1>6 DEF HandshakeCompletes, OnSocket, StartInv, NothingBefore, SyncFirst,
                          startVars
<1>7. CASE RemoteHostClosed
  <2>1. attempts \in Nat /\ attempts # 0
    BY <1>7 DEF RemoteHostClosed, OnSocket, StartInv, NothingBefore
  <2> QED
    BY <1>1, <1>2, <1>7, <2>1 DEF RemoteHostClosed, connectToBackend, StartInv,
                                  NothingBefore, SyncFirst, startVars
<1>8. CASE Accept \/ \E c \in clients : Close(c) \/ Erase(c)
  BY <1>1, <1>2, <1>8 DEF Accept, Close, Erase, appVars, StartInv, NothingBefore,
                          SyncFirst, startVars
<1> QED
  BY <1>3, <1>4, <1>5, <1>6, <1>7, <1>8 DEF ConnectionStep

LEMMA StartInvariant == StartSpec => []StartInv
<1>1. StartInv /\ UNCHANGED allVars => StartInv'
  BY DEF allVars, vars, appVars, startVars, StartInv, NothingBefore, SyncFirst, CoinsOwed
<1>2. StartInv /\ [StartNext]_allVars => StartInv'
  BY <1>1, WalletComesStep, StartWalletLostStep, SyncAnsweredStep, SyncRefusedStep,
     SetAccountStep, ConnectionStepStep DEF StartNext
<1> QED
  BY <1>2, InitInv, PTL DEF StartSpec

-----------------------------------------------------------------------------
(* The app lists every account of the wallet once, whatever wallet losses,  *)
(* refusals and choices of the user come between the calls.                 *)
THEOREM AccountsOnceCorrect == StartSpec => []AccountsOnce
<1>1. StartInv => AccountsOnce
  <2> SUFFICES ASSUME StartInv
               PROVE  AccountsOnce
    OBVIOUS
  <2>1. ToSet(<<>>) = {} /\ Len(<<>>) = 0
    BY DEF ToSet
  <2>2. Cardinality(ToSet(<<>>)) = Len(<<>>)
    BY <2>1, FS_EmptySet
  <2> QED
    BY <2>2 DEF StartInv, SyncFirst, AccountsOnce
<1> QED
  BY <1>1, StartInvariant, PTL

(* An app that is connected to the backend knows its coins, unless a sync   *)
(* was cut off between the two lists.                                       *)
THEOREM CoinsKnownCorrect == StartSpec => []CoinsKnown
<1>1. StartInv => CoinsKnown
  BY DEF StartInv, NothingBefore, SyncFirst, CoinsOwed, CoinsKnown
<1> QED
  BY <1>1, StartInvariant, PTL

-----------------------------------------------------------------------------
(* The refinement of Connection.  For Connection the wallet is there when   *)
(* one is connected and there has been an attempt.                          *)
Present == wallet /\ attempts > 0

(* What keeps Connection's variables is a stutter of it.                    *)
LEMMA Stutter ==
    ASSUME Present' = Present,
           UNCHANGED <<appVars, serverVars, walletLosses, mishap, doubled>>
    PROVE  UNCHANGED C!vars
BY DEF Present, C!vars, C!appVars, C!serverVars, appVars, serverVars

(* The attempt that a sync or a wallet makes is one of a wallet that        *)
(* arrives.                                                                 *)
LEMMA Arrival ==
    ASSUME attempts \in Nat, ~Present, Present',
           IF backend = 0 THEN connectToBackend
           ELSE UNCHANGED <<attempts, handlers, socket, promise>>,
           UNCHANGED <<secrets, stream, hello, backend, serverVars, walletLosses,
                       mishap, doubled>>
    PROVE  C!WalletArrives
BY DEF Present, C!WalletArrives, C!connectToBackend, connectToBackend, C!serverVars,
       serverVars

(* The copies of the helpers of Connection are the same.                    *)
LEMMA SameHelpers ==
    /\ \A as : C!Dropped(as) = Dropped(as)
    /\ \A q : C!ToSet(q) = ToSet(q)
    /\ C!Calling = Calling
<1>1. \A q : C!ToSet(q) = ToSet(q)
  BY DEF C!ToSet, ToSet
<1>2. C!Calling = Calling
  BY <1>1 DEF C!Calling, Calling
<1>3. \A as : C!Dropped(as) = Dropped(as)
  BY DEF C!Dropped, Dropped, C!Attempts, Attempts, C!MaxAttempts, MaxAttempts
<1> QED
  BY <1>1, <1>2, <1>3

(* The steps that Connection and AppStart share.                            *)
LEMMA ConnectionStepRefines ==
    ASSUME NothingBefore, ConnectionStep
    PROVE  C!Next
<1>0. attempts \in Nat /\ (attempts = 0 => socket = "idle" /\ backend = 0)
  BY DEF NothingBefore
<1>1. CASE attempts > 0 /\ WalletLost
  <2>1. Present /\ Present' = FALSE
    BY <1>1 DEF WalletLost, Present
  <2>2. promise' = C!Dropped(C!Calling)
    BY <1>1, SameHelpers DEF WalletLost
  <2>3. C!WalletLost
    BY <1>1, <2>1, <2>2 DEF WalletLost, C!WalletLost, Present, C!serverVars, serverVars
  <2> QED
    BY <2>3 DEF C!Next
<1>2. CASE Connected
  <2>0. attempts > 0
    BY <1>0, <1>2 DEF Connected
  <2>1. Present' = Present /\ wallet' = wallet /\ Present = wallet
    <3>1. wallet' = wallet /\ attempts' = attempts /\ wallet \in BOOLEAN
      BY <1>2 DEF Connected, NothingBefore
    <3>2. Present = wallet
      BY <2>0, <3>1, Zenon DEF Present
    <3> QED
      BY <3>1, <3>2, Zenon DEF Present
  <2>2. IF Present
        THEN secrets' = secrets \o handlers /\ UNCHANGED <<promise, mishap>>
        ELSE /\ promise' = C!Dropped(C!ToSet(handlers))
             /\ mishap' = TRUE
             /\ UNCHANGED secrets
    BY <1>2, <2>1, SameHelpers DEF Connected
  <2>3. C!Connected
    BY <1>2, <2>1, <2>2 DEF Connected, C!Connected, Present, C!serverVars, serverVars
  <2> QED
    BY <2>3 DEF C!Next
<1>3. CASE Refused
  <2>1. Present' = Present
    BY <1>3 DEF Refused, Present
  <2>2. C!Refused
    BY <1>3, <2>1 DEF Refused, C!Refused, Present, C!serverVars, serverVars
  <2> QED
    BY <2>2 DEF C!Next
<1>4. CASE SecretArrives
  <2>1. Present' = Present
    BY <1>4 DEF SecretArrives, Present
  <2>2. C!NewStream(Head(secrets))
    BY <1>4 DEF SecretArrives, NewStream, C!NewStream
  <2>3. C!SecretArrives
    BY <1>4, <2>1, <2>2 DEF SecretArrives, C!SecretArrives, Present, C!serverVars, serverVars
  <2> QED
    BY <2>3 DEF C!Next
<1>5. CASE SecretFails
  <2>1. Present' = Present
    BY <1>5 DEF SecretFails, Present
  <2>2. promise' = C!Dropped({Head(secrets)})
    BY <1>5, SameHelpers DEF SecretFails
  <2>3. C!SecretFails
    BY <1>5, <2>1, <2>2 DEF SecretFails, C!SecretFails, Present, C!serverVars, serverVars
  <2> QED
    BY <2>3 DEF C!Next
<1>6. CASE HandshakeCompletes
  <2>1. Present' = Present
    BY <1>6 DEF HandshakeCompletes, Present
  <2>2. C!HandshakeCompletes
    BY <1>6, <2>1 DEF HandshakeCompletes, C!HandshakeCompletes, OnSocket, C!OnSocket,
                      Present, C!serverVars, serverVars
  <2> QED
    BY <2>2 DEF C!Next
<1>7. CASE RemoteHostClosed
  <2>1. attempts > 0
    BY <1>0, <1>7 DEF RemoteHostClosed, OnSocket
  <2>2. attempts' > 0 /\ wallet' = wallet
    BY <1>0, <1>7, <2>1 DEF RemoteHostClosed, connectToBackend
  <2>3. Present' = Present
    BY <2>1, <2>2 DEF Present
  <2>4. C!RemoteHostClosed
    BY <1>7, <2>3 DEF RemoteHostClosed, C!RemoteHostClosed, OnSocket, C!OnSocket,
                      connectToBackend, C!connectToBackend, Present, C!serverVars, serverVars
  <2> QED
    BY <2>4 DEF C!Next
<1>8. CASE Accept
  <2>1. Present' = Present
    BY <1>8 DEF Accept, Present, appVars
  <2>2. C!Accept
    BY <1>8, <2>1 DEF Accept, C!Accept, Present, C!appVars, appVars
  <2> QED
    BY <2>2 DEF C!Next
<1>9. ASSUME NEW c \in clients, Close(c) \/ Erase(c)
      PROVE  C!Next
  <2>1. Present' = Present
    BY <1>9 DEF Close, Erase, Present, appVars
  <2>2. C!Close(c) \/ C!Erase(c)
    BY <1>9, <2>1 DEF Close, C!Close, Erase, C!Erase, OnSocket, C!OnSocket, Present,
                      C!appVars, appVars
  <2> QED
    BY <2>2 DEF C!Next
<1> QED
  BY <1>1, <1>2, <1>3, <1>4, <1>5, <1>6, <1>7, <1>8, <1>9 DEF ConnectionStep

(* Every step of the app is a step of Connection or none.                   *)
LEMMA StepRefines ==
    ASSUME StartInv, [StartNext]_allVars
    PROVE  [C!Next]_(C!vars)
<1>0. /\ NothingBefore /\ attempts \in Nat
      /\ calls # {} => wallet /\ attempts = 0
      /\ attempts > 0 => currentAccount # NoAccount
      /\ attempts = 0 => backend = 0
  BY DEF StartInv, NothingBefore, SyncFirst
<1>1. CASE FirstWalletArrives
  <2>1. ~(attempts > 0) /\ attempts' = attempts
    BY <1>0, <1>1 DEF FirstWalletArrives, appVars
  <2>2. Present' = Present
    BY <2>1 DEF Present
  <2> QED
    BY <1>1, <2>2, Stutter DEF FirstWalletArrives
<1>2. CASE LaterWalletArrives
  <2>1. ~Present /\ wallet'
    BY <1>2 DEF LaterWalletArrives, WalletArrives, Present
  <2>2. attempts' > 0
    BY <1>0, <1>2 DEF LaterWalletArrives, WalletArrives, connectToBackend
  <2>3. Present'
    BY <2>1, <2>2 DEF Present
  <2>4. C!WalletArrives
    BY <1>0, <1>2, <2>1, <2>3, Arrival DEF LaterWalletArrives, WalletArrives
  <2> QED
    BY <2>4 DEF C!Next
<1>3. CASE StartWalletLost
  <2>1. ~(attempts > 0) /\ attempts' = attempts
    BY <1>0, <1>3 DEF StartWalletLost, appVars
  <2>2. Present' = Present
    BY <2>1 DEF Present
  <2> QED
    BY <1>3, <2>2, Stutter DEF StartWalletLost
<1>4. ASSUME NEW call \in calls, SyncAnswered(call)
      PROVE  [C!Next]_(C!vars)
  <2>1. wallet /\ wallet' = wallet /\ attempts = 0 /\ backend = 0
    BY <1>0, <1>4 DEF SyncAnswered
  <2>2. CASE UNCHANGED <<attempts, handlers, socket, promise>>
    <3>1. Present' = Present
      BY <2>1, <2>2 DEF Present
    <3>2. UNCHANGED <<appVars, serverVars, walletLosses, mishap, doubled>>
      BY <1>4, <2>2 DEF SyncAnswered, appVars
    <3> QED
      BY <3>1, <3>2, Stutter
  <2>3. CASE connectToBackend
    <3>1. attempts' > 0
      BY <2>1, <2>3 DEF connectToBackend
    <3>2. ~Present /\ Present'
      BY <2>1, <3>1 DEF Present
    <3>3. C!WalletArrives
      BY <1>0, <1>4, <2>1, <2>3, <3>2, Arrival DEF SyncAnswered
    <3> QED
      BY <3>3 DEF C!Next
  <2> QED
    BY <1>4, <2>2, <2>3 DEF SyncAnswered, Synced
<1>5. ASSUME NEW call \in calls, SyncRefused(call)
      PROVE  [C!Next]_(C!vars)
  <2>1. Present' = Present
    BY <1>5 DEF SyncRefused, Present, vars, appVars
  <2> QED
    BY <1>5, <2>1, Stutter DEF SyncRefused, vars
<1>6. ASSUME NEW account \in Accounts, setCurrentAccount(account)
      PROVE  [C!Next]_(C!vars)
  <2>1. Present' = Present
    BY <1>6 DEF setCurrentAccount, Present, vars, appVars
  <2> QED
    BY <1>6, <2>1, Stutter DEF setCurrentAccount, vars
<1>7. CASE ConnectionStep
  BY <1>0, <1>7, ConnectionStepRefines
<1>8. CASE UNCHANGED allVars
  <2>1. Present' = Present
    BY <1>8 DEF allVars, Present, vars, appVars
  <2> QED
    BY <1>8, <2>1, Stutter DEF allVars, vars
<1> QED
  BY <1>1, <1>2, <1>3, <1>4, <1>5, <1>6, <1>7, <1>8 DEF StartNext

(* The start leads into Connection, so that whatever holds of Connection    *)
(* holds of the app from its start.                                         *)
THEOREM ImplementsConnectionCorrect == StartSpec => ImplementsConnection
<1>1. StartInit => C!Init
  <2>1. StartInit => Present = FALSE
    BY DEF StartInit, Init, Present
  <2> QED
    BY <2>1 DEF StartInit, Init, C!Init, Present, C!Attempts, Attempts, C!MaxAttempts,
                MaxAttempts
<1>2. StartInv /\ [StartNext]_allVars => [C!Next]_(C!vars)
  BY StepRefines
<1> QED
  BY <1>1, <1>2, StartInvariant, PTL DEF StartSpec, ImplementsConnection

-----------------------------------------------------------------------------
(* The theorems about Connection, for the app from its start.               *)
P == INSTANCE Connection_proofs WITH wallet <- wallet /\ attempts > 0

(* The Connection that the proofs are about is the one that is implemented. *)
LEMMA SameInit == C!Init => P!Init
BY DEF C!Init, P!Init, C!Attempts, P!Attempts, C!MaxAttempts, P!MaxAttempts

LEMMA SameStep == [C!Next]_(C!vars) => [P!Next]_(P!vars)
<1>1. UNCHANGED C!vars => UNCHANGED P!vars
  BY DEF C!vars, P!vars, C!appVars, P!appVars, C!serverVars, P!serverVars
<1>2. C!Calling = P!Calling /\ \A q : C!ToSet(q) = P!ToSet(q)
  BY DEF C!Calling, P!Calling, C!ToSet, P!ToSet
<1>3. \A as : C!Dropped(as) = P!Dropped(as)
  BY DEF C!Dropped, P!Dropped, C!Attempts, P!Attempts, C!MaxAttempts, P!MaxAttempts
<1>4. ASSUME C!WalletArrives
      PROVE  P!Next
  <2>1. P!WalletArrives
    BY <1>4 DEF C!WalletArrives, P!WalletArrives, C!connectToBackend, P!connectToBackend,
                C!serverVars, P!serverVars
  <2> QED
    BY <2>1 DEF P!Next
<1>5. ASSUME C!WalletLost
      PROVE  P!Next
  <2>1. P!WalletLost
    BY <1>2, <1>3, <1>5 DEF C!WalletLost, P!WalletLost, C!serverVars, P!serverVars
  <2> QED
    BY <2>1 DEF P!Next
<1>6. ASSUME C!Connected
      PROVE  P!Next
  <2>1. P!Connected
    BY <1>2, <1>3, <1>6 DEF C!Connected, P!Connected, C!serverVars, P!serverVars
  <2> QED
    BY <2>1 DEF P!Next
<1>7. ASSUME C!Refused
      PROVE  P!Next
  <2>1. P!Refused
    BY <1>7 DEF C!Refused, P!Refused, C!serverVars, P!serverVars
  <2> QED
    BY <2>1 DEF P!Next
<1>8. ASSUME C!SecretArrives
      PROVE  P!Next
  <2>1. P!NewStream(Head(secrets))
    BY <1>8 DEF C!SecretArrives, C!NewStream, P!NewStream
  <2>2. P!SecretArrives
    BY <1>8, <2>1 DEF C!SecretArrives, P!SecretArrives, C!serverVars, P!serverVars
  <2> QED
    BY <2>2 DEF P!Next
<1>9. ASSUME C!SecretFails
      PROVE  P!Next
  <2>1. P!SecretFails
    BY <1>3, <1>9 DEF C!SecretFails, P!SecretFails, C!serverVars, P!serverVars
  <2> QED
    BY <2>1 DEF P!Next
<1>10. ASSUME C!HandshakeCompletes
       PROVE  P!Next
  <2>1. P!HandshakeCompletes
    BY <1>10 DEF C!HandshakeCompletes, P!HandshakeCompletes, C!OnSocket, P!OnSocket,
                 C!serverVars, P!serverVars
  <2> QED
    BY <2>1 DEF P!Next
<1>11. ASSUME C!RemoteHostClosed
       PROVE  P!Next
  <2>1. P!RemoteHostClosed
    BY <1>11 DEF C!RemoteHostClosed, P!RemoteHostClosed, C!OnSocket, P!OnSocket,
                 C!connectToBackend, P!connectToBackend, C!serverVars, P!serverVars
  <2> QED
    BY <2>1 DEF P!Next
<1>12. ASSUME C!Accept
       PROVE  P!Next
  <2>1. P!Accept
    BY <1>12 DEF C!Accept, P!Accept, C!appVars, P!appVars
  <2> QED
    BY <2>1 DEF P!Next
<1>13. ASSUME NEW c \in clients, C!Close(c) \/ C!Erase(c)
       PROVE  P!Next
  <2>1. P!Close(c) \/ P!Erase(c)
    BY <1>13 DEF C!Close, P!Close, C!Erase, P!Erase, C!OnSocket, P!OnSocket,
                 C!appVars, P!appVars
  <2> QED
    BY <2>1 DEF P!Next
<1> QED
  BY <1>1, <1>4, <1>5, <1>6, <1>7, <1>8, <1>9, <1>10, <1>11, <1>12, <1>13 DEF C!Next

LEMMA ConnectionInvariant == StartSpec => []P!IInv
<1>1. C!Init => P!IInv
  BY P!InvariantInit, ConnectionAssumption, SameInit
<1>2. P!IInv /\ [C!Next]_(C!vars) => P!IInv'
  BY P!InvariantStep, ConnectionAssumption, SameStep
<1> QED
  BY <1>1, <1>2, ImplementsConnectionCorrect, PTL DEF ImplementsConnection

(* A backend that the started app holds is on the open connection, unless   *)
(* one connection has completed two attempts.                               *)
THEOREM StartedBackendIsLive == StartSpec => []BackendIsLive
<1>1. P!IInv => BackendIsLive
  BY DEF P!IInv, P!OneCompletion, BackendIsLive, P!OnSocket, OnSocket
<1> QED
  BY <1>1, ConnectionInvariant, PTL

(* And it completes the newest attempt only.                                *)
THEOREM StartedNewestCompletes == StartSpec => []NewestCompletes
<1>1. P!IInv => NewestCompletes
  <2>1. P!Calling = Calling
    BY DEF P!Calling, Calling, P!ToSet, ToSet
  <2> QED
    BY <2>1 DEF P!IInv, P!OneCompletion, NewestCompletes
<1> QED
  BY <1>1, ConnectionInvariant, PTL

-----------------------------------------------------------------------------
(* The adaptor's loops, over read requests and over records. Each is a     *)
(* fold, and runs from its first state to its last.                        *)

(* One turn of a loop of the adaptor, over read requests or over records.  *)
Turn(loop, x, y) ==
    CASE loop = "requests" -> Serve(x, y)
      [] loop = "wire" -> Received(x, y)

(* What a loop has come to, by the set of turns.                           *)
Turned(it, loop, base, seq, S) ==
    it = [T \in SUBSET S |-> IF T = {} THEN base
                             ELSE Turn(loop, it[T \ {Max(T)}], seq[Max(T)])]

(* There is such a function, for one turn more than it is known for.       *)
LEMMA TurnedExtends ==
    ASSUME NEW loop, NEW base, NEW seq, NEW n \in Nat, NEW h, Turned(h, loop, base, seq, 1 .. n)
    PROVE  \E it : Turned(it, loop, base, seq, 1 .. n + 1)
<1> DEFINE S == 1 .. n
           R == 1 .. n + 1
           it == [T \in SUBSET R |-> IF n + 1 \in T
                                     THEN Turn(loop, h[T \ {n + 1}], seq[n + 1])
                                     ELSE h[T]]
<1>1. ASSUME NEW T \in SUBSET R
      PROVE  it[T] = IF T = {} THEN base ELSE Turn(loop, it[T \ {Max(T)}], seq[Max(T)])
  <2>1. CASE n + 1 \in T
    <3> DEFINE top == Max(T)
    <3>0. n + 1 \in Nat
      OBVIOUS
    <3>1. top \in T /\ n + 1 <= top
      BY <2>1, <3>0, LastPlace
    <3> HIDE DEF top
    <3>a. top = n + 1
      <4>1. top \in 1 .. n + 1
        BY <3>1
      <4> QED
        BY <3>1, <4>1
    <3>2. Max(T) = n + 1
      BY <3>a DEF top
    <3>3. T \ {n + 1} \in SUBSET R /\ n + 1 \notin T \ {n + 1}
      OBVIOUS
    <3>4. it[T \ {n + 1}] = h[T \ {n + 1}]
      BY <3>3
    <3> QED
      BY <2>1, <3>2, <3>4
  <2>2. CASE n + 1 \notin T
    <3>1. T \in SUBSET S
      BY <2>2
    <3>2. h[T] = IF T = {} THEN base ELSE Turn(loop, h[T \ {Max(T)}], seq[Max(T)])
      BY <3>1 DEF Turned
    <3>3. T \ {Max(T)} \in SUBSET R /\ n + 1 \notin T \ {Max(T)}
      BY <2>2
    <3>4. it[T \ {Max(T)}] = h[T \ {Max(T)}]
      BY <3>3
    <3> QED
      BY <2>2, <3>2, <3>4
  <2> QED
    BY <2>1, <2>2
<1>2. it = [T \in SUBSET R |-> it[T]]
  OBVIOUS
<1> HIDE DEF it, R
<1>3. it = [T \in SUBSET R |-> IF T = {} THEN base
                               ELSE Turn(loop, it[T \ {Max(T)}], seq[Max(T)])]
  BY <1>1, <1>2
<1>4. Turned(it, loop, base, seq, R)
  BY <1>3, Zenon DEF Turned
<1> QED
  BY <1>4 DEF R

(* So there is one for any number of turns.                                *)
LEMMA TurnedExists ==
    ASSUME NEW loop, NEW base, NEW seq, NEW n \in Nat
    PROVE  \E it : Turned(it, loop, base, seq, 1 .. n)
<1> DEFINE Wrong == {k \in Nat : ~ \E it : Turned(it, loop, base, seq, 1 .. k)}
<1> SUFFICES ASSUME Wrong # {} PROVE FALSE
  OBVIOUS
<1>1. PICK k \in Wrong : \A j \in Wrong : ~ (j < k)
  <2>1. Wrong \subseteq Nat
    OBVIOUS
  <2> HIDE DEF Wrong
  <2> QED
    BY <2>1, SmallestNumber
<1>2. k # 0
  <2> SUFFICES ASSUME k = 0 PROVE FALSE
    OBVIOUS
  <2> DEFINE z == [T \in SUBSET {} |-> base]
  <2>1. 1 .. k = {}
    OBVIOUS
  <2>2. z = [T \in SUBSET {} |-> IF T = {} THEN base
                                 ELSE Turn(loop, z[T \ {Max(T)}], seq[Max(T)])]
    OBVIOUS
  <2> HIDE DEF z
  <2>3. Turned(z, loop, base, seq, {})
    BY <2>2, Zenon DEF Turned
  <2> QED
    BY <2>1, <2>3
<1>3. k - 1 \in Nat /\ k - 1 \notin Wrong /\ k = (k - 1) + 1
  BY <1>1, <1>2
<1>4. PICK h : Turned(h, loop, base, seq, 1 .. k - 1)
  BY <1>3
<1>5. \E it : Turned(it, loop, base, seq, 1 .. k)
  BY <1>3, <1>4, TurnedExtends
<1> QED
  BY <1>5

(* A loop's states, from the first to the last.                            *)
Runs(run, loop, base, seq, n) ==
    /\ run[0] = base
    /\ \A k \in 1 .. n : run[k] = Turn(loop, run[k - 1], seq[k])

(* The states the loop is in after each turn.                              *)
LEMMA TurnedRuns ==
    ASSUME NEW loop, NEW base, NEW seq, NEW n \in Nat, NEW it,
           Turned(it, loop, base, seq, 1 .. n)
    PROVE  Runs([k \in 0 .. n |-> it[1 .. k]], loop, base, seq, n)
<1> DEFINE run == [k \in 0 .. n |-> it[1 .. k]]
<1>1. run[0] = base
  <2>1. 0 \in 0 .. n /\ 1 .. 0 = {} /\ {} \in SUBSET (1 .. n)
    OBVIOUS
  <2> QED
    BY <2>1 DEF Turned
<1>2. ASSUME NEW k \in 1 .. n PROVE run[k] = Turn(loop, run[k - 1], seq[k])
  <2>1. 1 .. k \in SUBSET (1 .. n) /\ k \in 1 .. k /\ (1 .. k) \ {k} = 1 .. k - 1
        /\ k \in 0 .. n /\ k - 1 \in 0 .. n /\ k \in Nat
    OBVIOUS
  <2>2. Max(1 .. k) \in 1 .. k /\ k <= Max(1 .. k)
    BY <2>1, LastPlace
  <2>3. Max(1 .. k) = k
    BY <2>1, <2>2
  <2>4. it[1 .. k] = Turn(loop, it[(1 .. k) \ {Max(1 .. k)}], seq[Max(1 .. k)])
    BY <2>1 DEF Turned
  <2> QED
    BY <2>1, <2>3, <2>4
<1> QED
  BY <1>1, <1>2 DEF Runs

(* What is left of a list.                                                 *)
LEMMA RestOf ==
    ASSUME NEW S, NEW s \in Seq(S), NEW k \in 0 .. Len(s)
    PROVE  /\ SubSeq(s, k + 1, Len(s)) \in Seq(S)
           /\ Len(SubSeq(s, k + 1, Len(s))) = Len(s) - k
           /\ \A i \in 1 .. Len(s) - k : SubSeq(s, k + 1, Len(s))[i] = s[k + i]
<1> DEFINE L == Len(s)
           m == k + 1
           ids == SubSeq(s, m, L)
<1>1. L \in Nat /\ m \in Int /\ k \in Nat /\ k <= L /\ \A i \in m .. L : s[i] \in S
  OBVIOUS
<1> HIDE DEF L, m
<1>2. /\ ids \in Seq(S)
      /\ Len(ids) = IF m <= L THEN L - m + 1 ELSE 0
      /\ \A i \in 1 .. L - m + 1 : ids[i] = s[m + i - 1]
  BY <1>1, SubSeqProperties
<1>3. Len(ids) = L - k
  BY <1>1, <1>2 DEF m
<1>4. L - m + 1 = L - k /\ \A i \in Int : m + i - 1 = k + i
  BY <1>1 DEF m
<1> HIDE DEF ids
<1>5. \A i \in 1 .. L - k : ids[i] = s[k + i]
  BY <1>2, <1>4
<1> QED
  BY <1>2, <1>3, <1>5 DEF ids, m, L

-----------------------------------------------------------------------------
(* The stream.                                                             *)

(* The adaptor's loop over requests, and over records, runs.               *)
LEMMA ServeRuns ==
    ASSUME NEW base, NEW seq, NEW n \in Nat, DOMAIN seq = 1 .. n
    PROVE  \E run : /\ Runs(run, "requests", base, seq, n)
                    /\ FoldLeft(Serve, base, seq) = run[n]
<1> DEFINE U(it) == it = [T \in SUBSET (1 .. n) |-> IF T = {} THEN base
                             ELSE Serve(it[T \ {Max(T)}], seq[Max(T)])]
           it == CHOOSE it : U(it)
<1>1. ASSUME NEW h PROVE U(h) <=> Turned(h, "requests", base, seq, 1 .. n)
  BY DEF Turned, Turn
<1>2. U(it)
  <2>1. \E h : U(h)
    BY <1>1, TurnedExists
  <2> HIDE DEF U
  <2> QED
    BY <2>1, Zenon
<1>3. FoldLeft(Serve, base, seq) = it[1 .. n]
  BY Zenon DEF FoldLeft, MapThenFoldSet
<1> HIDE DEF it, U
<1>4. Runs([k \in 0 .. n |-> it[1 .. k]], "requests", base, seq, n)
  BY <1>1, <1>2, TurnedRuns
<1> QED
  BY <1>3, <1>4

(* So does its loop over records.                                          *)
LEMMA ReceivedRuns ==
    ASSUME NEW base, NEW seq, NEW n \in Nat, DOMAIN seq = 1 .. n
    PROVE  \E run : /\ Runs(run, "wire", base, seq, n)
                    /\ FoldLeft(Received, base, seq) = run[n]
<1> DEFINE U(it) == it = [T \in SUBSET (1 .. n) |-> IF T = {} THEN base
                             ELSE Received(it[T \ {Max(T)}], seq[Max(T)])]
           it == CHOOSE it : U(it)
<1>1. ASSUME NEW h PROVE U(h) <=> Turned(h, "wire", base, seq, 1 .. n)
  BY DEF Turned, Turn
<1>2. U(it)
  <2>1. \E h : U(h)
    BY <1>1, TurnedExists
  <2> HIDE DEF U
  <2> QED
    BY <2>1, Zenon
<1>3. FoldLeft(Received, base, seq) = it[1 .. n]
  BY Zenon DEF FoldLeft, MapThenFoldSet
<1> HIDE DEF it, U
<1>4. Runs([k \in 0 .. n |-> it[1 .. k]], "wire", base, seq, n)
  BY <1>1, <1>2, TurnedRuns
<1> QED
  BY <1>3, <1>4

(* Records are cut into bytes, and put together from them.                 *)
LEMMA Quotient ==
    ASSUME NEW a \in Nat, NEW m \in Nat, m > 0
    PROVE  a \div m \in Nat /\ m * (a \div m) <= a /\ m * (a \div m) > a - m
<1>1. a \div m \in Nat
  OBVIOUS
<1>2. m * (a \div m) <= a
  OBVIOUS
<1>3. m * (a \div m) > a - m
  OBVIOUS
<1> QED
  BY <1>1, <1>2, <1>3

(* A byte of some records is in one of them, at a place in it.             *)
LEMMA Cut ==
    ASSUME NEW n \in Nat, NEW m \in Nat, m > 0, NEW a \in Nat, a < n * m
    PROVE  a \div m \in 0 .. n - 1 /\ a % m \in 0 .. m - 1
<1>1. PICK q : q = a \div m
  OBVIOUS
<1>2. q \in Nat /\ m * q <= a
  BY <1>1, Quotient
<1>3. q < n
  <2> SUFFICES ASSUME q >= n PROVE FALSE
    BY <1>2
  <2>1. m * q >= n * m
    BY <1>2
  <2>2. m * q \in Nat /\ n * m \in Nat
    BY <1>2
  <2> QED
    BY <1>2, <2>1, <2>2
<1>4. a % m \in 0 .. m - 1
  OBVIOUS
<1> QED
  BY <1>1, <1>2, <1>3, <1>4

(* Some bytes have a number of whole records, each with a last byte.       *)
LEMMA Joined ==
    ASSUME NEW l \in Nat, NEW m \in Nat, m > 0
    PROVE  /\ l \div m \in Nat /\ (l \div m) * m \in 0 .. l /\ l - (l \div m) * m < m
           /\ \A i \in 1 .. l \div m : i * m \in 1 .. l
<1>1. PICK q : q = l \div m
  OBVIOUS
<1>2. q \in Nat /\ m * q <= l /\ m * q > l - m
  BY <1>1, Quotient
<1>3. q * m = m * q /\ q * m \in Nat
  BY <1>2
<1>4. q * m \in 0 .. l /\ l - q * m < m
  BY <1>2, <1>3
<1>5. ASSUME NEW i \in 1 .. q PROVE i * m \in 1 .. l
  <2>1. i * m <= q * m /\ i * m >= m /\ i * m \in Int
    BY <1>2
  <2> QED
    BY <1>4, <2>1
<1> QED
  BY <1>1, <1>2, <1>4, <1>5

(* Records become bytes of the wire.                                       *)
LEMMA OnWireType ==
    ASSUME NEW records \in Seq(RecordSet)
    PROVE  OnWire(records) \in Seq(WireBytes)
<1> DEFINE n == Len(records)
           l == n * RecordSize
<1>1. n \in Nat /\ RecordSize \in Nat /\ RecordSize > 0 /\ l \in Nat
  BY StreamAssumption
<1>2. ASSUME NEW k \in 1 .. l
      PROVE  /\ records[((k - 1) \div RecordSize) + 1] \in RecordSet
             /\ ((k - 1) % RecordSize) + 1 \in 1 .. RecordSize
  <2>1. k - 1 \in Nat /\ k - 1 < n * RecordSize
    BY <1>1
  <2> HIDE DEF n
  <2>2. (k - 1) \div RecordSize \in 0 .. n - 1 /\ (k - 1) % RecordSize \in 0 .. RecordSize - 1
    BY <1>1, <2>1, Cut
  <2>3. ((k - 1) \div RecordSize) + 1 \in 1 .. n /\ ((k - 1) % RecordSize) + 1 \in 1 .. RecordSize
    BY <1>1, <2>2
  <2> QED
    BY <2>3 DEF n
<1>3. OnWire(records) = [k \in 1 .. l |->
          <<records[((k - 1) \div RecordSize) + 1], ((k - 1) % RecordSize) + 1>>]
  BY DEF OnWire
<1>4. OnWire(records) \in [1 .. l -> WireBytes]
  BY <1>2, <1>3 DEF WireBytes
<1> HIDE DEF l
<1> QED
  BY <1>1, <1>4

-----------------------------------------------------------------------------
(* What the adaptor's helpers keep.                                        *)

Bytes == 1 .. MaxBytes

(* A piece from the front of a sequence and what it leaves.                *)
LEMMA Piece ==
    ASSUME NEW S, NEW s \in Seq(S), NEW max \in Nat, NEW n, n = Smaller(max, Len(s))
    PROVE  /\ n \in 0 .. Len(s) /\ n <= max
           /\ SubSeq(s, 1, n) \in Seq(S) /\ Len(SubSeq(s, 1, n)) = n
           /\ SubSeq(s, n + 1, Len(s)) \in Seq(S)
<1>1. n \in 0 .. Len(s) /\ n <= max /\ Len(s) \in Nat
  BY DEF Smaller
<1>2. SubSeq(s, 1, n) \in Seq(S) /\ Len(SubSeq(s, 1, n)) = n
  <2>1. \A i \in 1 .. n : s[i] \in S
    BY <1>1
  <2>2. n \in Int /\ 1 \in Int
    BY <1>1
  <2>3. SubSeq(s, 1, n) \in Seq(S) /\ Len(SubSeq(s, 1, n)) = IF 1 <= n THEN n - 1 + 1 ELSE 0
    BY <2>1, <2>2, SubSeqProperties
  <2> QED
    BY <1>1, <2>3
<1>3. SubSeq(s, n + 1, Len(s)) \in Seq(S)
  BY <1>1, RestOf
<1> QED
  BY <1>1, <1>2, <1>3

(* A request is answered from what has come in and taken off the list, or  *)
(* it waits and so do those after it.                                      *)
LEMMA ServeKeeps ==
    ASSUME NEW t \in Adaptors, NEW req \in Requests, ~t.stuck => t.requests # <<>>,
           NEW u, u = Serve(t, req)
    PROVE  /\ u \in Adaptors
           /\ u.partial = t.partial /\ u.hitEof = t.hitEof /\ u.channel = t.channel
           /\ ~u.stuck => ~t.stuck /\ Len(u.requests) = Len(t.requests) - 1
<1>1. /\ t.stuck \in BOOLEAN /\ t.incoming \in Seq(Bytes) /\ t.requests \in Seq(Requests)
      /\ t.answers \in Seq(Answers)
  BY DEF Adaptors, Bytes
<1>2. CASE t.stuck \/ Len(t.incoming) < req.min
  <2>1. u = [t EXCEPT !.stuck = TRUE]
    BY <1>2 DEF Serve
  <2> QED
    BY <2>1 DEF Adaptors
<1>3. CASE ~ (t.stuck \/ Len(t.incoming) < req.min)
  <2>1. PICK n : n = Smaller(req.max, Len(t.incoming))
    OBVIOUS
  <2>2. PICK bytes, left : bytes = SubSeq(t.incoming, 1, n)
                           /\ left = SubSeq(t.incoming, n + 1, Len(t.incoming))
    OBVIOUS
  <2>3. bytes \in Seq(Bytes) /\ left \in Seq(Bytes)
    <3>1. req.max \in Nat
      BY StreamAssumption
    <3> QED
      BY <1>1, <2>1, <2>2, <3>1, Piece
  <2>4. PICK answers, rest : answers = Append(t.answers, [req |-> req, bytes |-> bytes])
                             /\ rest = Tail(t.requests)
    OBVIOUS
  <2>5. answers \in Seq(Answers)
    <3>1. [req |-> req, bytes |-> bytes] \in Answers
      BY <2>3 DEF Answers, Bytes
    <3> QED
      BY <1>1, <2>4, <3>1
  <2>6. rest \in Seq(Requests) /\ Len(rest) = Len(t.requests) - 1
    BY <1>1, <1>3, <2>4
  <2>7. u = [t EXCEPT !.answers = answers, !.incoming = left, !.requests = rest]
    BY <1>3, <2>1, <2>2, <2>4 DEF Serve
  <2>8. u \in Adaptors
    BY <2>3, <2>5, <2>6, <2>7 DEF Adaptors, Bytes
  <2> QED
    BY <1>3, <2>6, <2>7, <2>8 DEF Adaptors
<1> QED
  BY <1>2, <1>3

(* The fields that answering reads leaves alone.                           *)
LEMMA RequestsKeep ==
    ASSUME NEW t \in Adaptors, ~t.stuck, NEW u, u = processReadRequests(t)
    PROVE  u \in Adaptors /\ ~u.stuck /\ u.partial = t.partial /\ u.hitEof = t.hitEof
<1>1. CASE t.channel # "active"
  BY <1>1 DEF processReadRequests
<1>2. CASE t.channel = "active"
  <2> DEFINE n == Len(t.requests)
  <2>1. t.requests \in Seq(Requests)
    BY DEF Adaptors
  <2>2. n \in Nat /\ DOMAIN t.requests = 1 .. n /\ \A i \in 1 .. n : t.requests[i] \in Requests
    BY <2>1
  <2> HIDE DEF n
  <2>3. PICK run : Runs(run, "requests", t, t.requests, n) /\ FoldLeft(Serve, t, t.requests) = run[n]
    BY <2>2, ServeRuns
  <2> DEFINE Good(v, k) == /\ v \in Adaptors
                           /\ v.partial = t.partial /\ v.hitEof = t.hitEof
                           /\ ~v.stuck => Len(v.requests) = n - k
             Wrong == {k \in 0 .. n : ~ Good(run[k], k)}
  <2>4. Wrong = {}
    <3> SUFFICES ASSUME Wrong # {} PROVE FALSE
      OBVIOUS
    <3>1. PICK k \in Wrong : \A j \in Wrong : ~ (j < k)
      <4>1. Wrong \subseteq Nat
        OBVIOUS
      <4> HIDE DEF Wrong
      <4> QED
        BY <4>1, SmallestNumber
    <3>2. k # 0
      <4>1. run[0] = t
        BY <2>3 DEF Runs
      <4>2. Good(t, 0)
        BY <2>2 DEF n
      <4> QED
        BY <3>1, <4>1, <4>2
    <3>3. k \in 1 .. n /\ k - 1 \in 0 .. n /\ k - 1 < k /\ k \in Nat
      BY <2>2, <3>1, <3>2
    <3>4. PICK v : v = run[k - 1]
      OBVIOUS
    <3>5. Good(v, k - 1)
      <4>1. k - 1 \notin Wrong
        BY <3>1, <3>3
      <4> QED
        BY <3>3, <3>4, <4>1
    <3>6. run[k] = Serve(v, t.requests[k])
      BY <2>3, <3>3, <3>4 DEF Runs, Turn
    <3>7. ~v.stuck => v.requests # <<>>
      <4>1. ~v.stuck => Len(v.requests) # 0
        BY <2>2, <3>3, <3>5
      <4> QED
        BY <4>1
    <3>8. t.requests[k] \in Requests
      BY <2>2, <3>3
    <3>9. PICK w : w = run[k]
      OBVIOUS
    <3>10. /\ w \in Adaptors /\ w.partial = v.partial /\ w.hitEof = v.hitEof
           /\ ~w.stuck => ~v.stuck /\ Len(w.requests) = Len(v.requests) - 1
      BY <3>5, <3>6, <3>7, <3>8, <3>9, ServeKeeps
    <3>11. Good(w, k)
      <4>1. ~w.stuck => Len(w.requests) = n - k
        <5>1. ~w.stuck => Len(w.requests) = n - (k - 1) - 1
          BY <3>5, <3>10
        <5>2. n - (k - 1) - 1 = n - k
          BY <2>2, <3>3
        <5> QED
          BY <5>1, <5>2
      <4> QED
        BY <3>5, <3>10, <4>1
    <3> QED
      BY <3>1, <3>9, <3>11
  <2>5. PICK v : v = run[n]
    OBVIOUS
  <2>6. v \in Adaptors /\ v.partial = t.partial /\ v.hitEof = t.hitEof
    BY <2>2, <2>4, <2>5
  <2>7. u = [v EXCEPT !.stuck = FALSE]
    BY <1>2, <2>3, <2>5 DEF processReadRequests
  <2> QED
    BY <2>6, <2>7 DEF Adaptors
<1> QED
  BY <1>1, <1>2

(* At the end every request that waits is answered.                        *)
LEMMA EofKeeps ==
    ASSUME NEW t \in Adaptors, ~t.stuck, NEW u, u = handleEof(t)
    PROVE  u \in Adaptors /\ ~u.stuck /\ u.partial = t.partial /\ u.hitEof
<1>1. PICK s : s = processReadRequests(t)
  OBVIOUS
<1>2. s \in Adaptors /\ ~s.stuck /\ s.partial = t.partial
  BY <1>1, RequestsKeep
<1>3. PICK ends : ends = [i \in DOMAIN s.requests |-> [req |-> s.requests[i], bytes |-> <<>>]]
  OBVIOUS
<1>4. s.answers \in Seq(Answers) /\ s.requests \in Seq(Requests)
  BY <1>2 DEF Adaptors
<1>5. ends \in Seq(Answers)
  <2> DEFINE n == Len(s.requests)
  <2>1. n \in Nat /\ DOMAIN s.requests = 1 .. n /\ \A i \in 1 .. n : s.requests[i] \in Requests
    BY <1>4
  <2>2. <<>> \in Seq(1 .. MaxBytes)
    OBVIOUS
  <2> HIDE DEF n
  <2>3. \A i \in 1 .. n : [req |-> s.requests[i], bytes |-> <<>>] \in Answers
    BY <2>1, <2>2 DEF Answers
  <2>4. ends \in [1 .. n -> Answers]
    BY <1>3, <2>1, <2>3
  <2> QED
    BY <2>1, <2>4
<1>6. PICK answers : answers = s.answers \o ends
  OBVIOUS
<1>7. answers \in Seq(Answers) /\ <<>> \in Seq(Requests)
  BY <1>4, <1>5, <1>6
<1>8. u = [s EXCEPT !.hitEof = TRUE, !.answers = answers, !.requests = <<>>]
  BY <1>1, <1>3, <1>6 DEF handleEof
<1> QED
  BY <1>2, <1>7, <1>8 DEF Adaptors

(* A record leaves an adaptor an adaptor.                                  *)
LEMMA ReceivedKeeps ==
    ASSUME NEW t \in Adaptors, ~t.stuck, NEW record \in RecordSet, NEW u, u = Received(t, record)
    PROVE  u \in Adaptors /\ ~u.stuck
<1>1. /\ record.kind \in {"data", "finished", "fatal", "close"}
      /\ record.bytes \in Seq(1 .. MaxBytes) /\ t.incoming \in Seq(1 .. MaxBytes)
  BY DEF RecordSet, Adaptors
<1>2. CASE record.kind = "finished"
  <2>1. u = [t EXCEPT !.channel = "active"]
    BY <1>2 DEF Received
  <2> QED
    BY <2>1 DEF Adaptors
<1>3. CASE record.kind = "data"
  <2>1. PICK all : all = t.incoming \o record.bytes
    OBVIOUS
  <2>2. all \in Seq(1 .. MaxBytes)
    BY <1>1, <2>1
  <2>3. PICK v : v = [t EXCEPT !.incoming = all]
    OBVIOUS
  <2>4. v \in Adaptors /\ ~v.stuck
    BY <2>2, <2>3 DEF Adaptors
  <2>5. u = processReadRequests(v)
    BY <1>3, <2>1, <2>3 DEF Received
  <2> QED
    BY <2>4, <2>5, RequestsKeep
<1>4. CASE record.kind = "close"
  <2>1. u = [t EXCEPT !.channel = "closed"]
    BY <1>4 DEF Received
  <2> QED
    BY <2>1 DEF Adaptors
<1>5. CASE record.kind = "fatal"
  <2>1. PICK v : v = handleEof(t)
    OBVIOUS
  <2>2. v \in Adaptors /\ ~v.stuck
    BY <2>1, EofKeeps
  <2>3. u = [v EXCEPT !.channel = "closed"]
    BY <1>5, <2>1 DEF Received
  <2> QED
    BY <2>2, <2>3 DEF Adaptors
<1> QED
  BY <1>1, <1>2, <1>3, <1>4, <1>5

(* So do wire bytes, and less than a record of them is kept.               *)
LEMMA DataKeeps ==
    ASSUME NEW t \in Adaptors, ~t.stuck, NEW bytes \in Seq(WireBytes),
           NEW u, u = ReceivedData(t, bytes)
    PROVE  u \in Adaptors /\ ~u.stuck /\ Len(u.partial) < RecordSize
<1>1. PICK all : all = t.partial \o bytes
  OBVIOUS
<1>2. all \in Seq(WireBytes) /\ Len(all) \in Nat
  <2>1. t.partial \in Seq(WireBytes)
    BY DEF Adaptors
  <2> QED
    BY <1>1, <2>1
<1>3. PICK n : n = Len(all) \div RecordSize
  OBVIOUS
<1>4. RecordSize \in Nat /\ RecordSize > 0
  BY StreamAssumption
<1>5. /\ n \in Nat /\ n * RecordSize \in 0 .. Len(all) /\ Len(all) - n * RecordSize < RecordSize
      /\ \A i \in 1 .. n : i * RecordSize \in 1 .. Len(all)
  BY <1>2, <1>3, <1>4, Joined
<1>6. PICK records, left : /\ records = [i \in 1 .. n |-> all[i * RecordSize][1]]
                           /\ left = SubSeq(all, n * RecordSize + 1, Len(all))
  OBVIOUS
<1>7. DOMAIN records = 1 .. n /\ \A i \in 1 .. n : records[i] \in RecordSet
  <2>1. \A i \in 1 .. n : all[i * RecordSize] \in WireBytes
    BY <1>2, <1>5
  <2> QED
    BY <1>6, <2>1 DEF WireBytes
<1>8. left \in Seq(WireBytes) /\ Len(left) < RecordSize
  <2>1. PICK k : k = n * RecordSize
    OBVIOUS
  <2>2. left \in Seq(WireBytes) /\ Len(left) = Len(all) - k
    <3>1. k \in 0 .. Len(all) /\ left = SubSeq(all, k + 1, Len(all))
      BY <1>5, <1>6, <2>1
    <3> QED
      BY <1>2, <3>1, RestOf
  <2> QED
    BY <1>5, <2>1, <2>2
<1>9. PICK run : Runs(run, "wire", t, records, n) /\ FoldLeft(Received, t, records) = run[n]
  BY <1>5, <1>7, ReceivedRuns
<1> DEFINE Wrong == {k \in 0 .. n : ~ (run[k] \in Adaptors /\ ~run[k].stuck)}
<1>10. Wrong = {}
  <2> SUFFICES ASSUME Wrong # {} PROVE FALSE
    OBVIOUS
  <2>1. PICK k \in Wrong : \A j \in Wrong : ~ (j < k)
    <3>1. Wrong \subseteq Nat
      OBVIOUS
    <3> HIDE DEF Wrong
    <3> QED
      BY <3>1, SmallestNumber
  <2>2. k # 0
    BY <1>9, <2>1 DEF Runs
  <2>3. k \in 1 .. n /\ k - 1 \in 0 .. n /\ k - 1 < k /\ k \in Nat
    BY <1>5, <2>1, <2>2
  <2>4. PICK v, w : v = run[k - 1] /\ w = run[k]
    OBVIOUS
  <2>5. v \in Adaptors /\ ~v.stuck
    <3>1. k - 1 \notin Wrong
      BY <2>1, <2>3
    <3> QED
      BY <2>3, <2>4, <3>1
  <2>6. w = Received(v, records[k])
    BY <1>9, <2>3, <2>4 DEF Runs, Turn
  <2>7. w \in Adaptors /\ ~w.stuck
    BY <1>7, <2>3, <2>5, <2>6, ReceivedKeeps
  <2> QED
    BY <2>1, <2>4, <2>7
<1>11. PICK v : v = run[n]
  OBVIOUS
<1>12. v \in Adaptors /\ ~v.stuck
  BY <1>5, <1>10, <1>11
<1>13. u = [v EXCEPT !.partial = left]
  BY <1>1, <1>3, <1>6, <1>9, <1>11 DEF ReceivedData
<1> QED
  BY <1>8, <1>12, <1>13 DEF Adaptors

-----------------------------------------------------------------------------
(* The wrappers.                                                           *)

(* What the adaptor puts out goes to the fiber or to the wire.             *)
LEMMA OutputKeeps ==
    ASSUME StreamTypeOK, NEW records \in Seq(RecordSet), Output(records)
    PROVE  /\ pendingWrites' \in Seq(RecordSet) /\ writing' \in BOOLEAN
           /\ wire' \in Seq(WireBytes)
<1>1. pendingWrites \in Seq(RecordSet) /\ wire \in Seq(WireBytes) /\ writing \in BOOLEAN
  BY DEF StreamTypeOK
<1>2. PICK bytes : bytes = OnWire(records)
  OBVIOUS
<1>3. bytes \in Seq(WireBytes)
  BY <1>2, OnWireType
<1>4. CASE reader = "app"
  <2>1. pendingWrites' = pendingWrites \o records /\ writing' = TRUE /\ wire' = wire
    BY <1>4 DEF Output
  <2> QED
    BY <1>1, <2>1
<1>5. CASE reader # "app"
  <2>1. wire' = wire \o bytes /\ pendingWrites' = pendingWrites /\ writing' = writing
    BY <1>2, <1>5 DEF Output
  <2> QED
    BY <1>1, <1>3, <2>1
<1> QED
  BY <1>4, <1>5

(* A read the adaptor starts asks for a byte at least and for no more than *)
(* the code's limit.                                                       *)
LEMMA PendingType ==
    ASSUME NEW min \in Nat \ {0}, NEW max \in Nat \ {0},
           \/ min = 1 /\ max = INITIAL_READ_SIZE
           \/ min = max /\ max < RecordSize
    PROVE  Pending(min, max) \in PendingReads
<1>1. <<>> \in Seq(WireBytes) /\ Len(<<>>) = 0
  OBVIOUS
<1> QED
  BY <1>1 DEF Pending, PendingReads

(* A read of the socket is answered or waits: there is one more of them.   *)
LEMMA ReadWireKeeps ==
    ASSUME StreamTypeOK, NEW req \in PendingReads, NEW rest \in Seq(Seq(WireBytes)),
           ReadWire(req, wireReads, rest)
    PROVE  /\ results' \in Seq(Seq(WireBytes)) /\ inbox' \in Seq(WireBytes)
           /\ wireReads' \in Seq(PendingReads)
           /\ Len(wireReads') + Len(results') = Len(wireReads) + Len(rest) + 1
<1>1. inbox \in Seq(WireBytes) /\ wireReads \in Seq(PendingReads) /\ req.max \in Nat
  BY StreamAssumption DEF StreamTypeOK, PendingReads
<1>a. req.min \in Nat /\ Len(inbox) \in Nat
  <2>1. req.min \in Nat
    BY DEF PendingReads
  <2> QED
    BY <1>1, <2>1, StreamAssumption
<1>2. CASE reader = "app" /\ Len(inbox) >= req.min
  <2>1. PICK n : n = Smaller(req.max, Len(inbox))
    OBVIOUS
  <2>2. PICK bytes, left : bytes = SubSeq(inbox, 1, n) /\ left = SubSeq(inbox, n + 1, Len(inbox))
    OBVIOUS
  <2>3. results' = Append(rest, bytes) /\ inbox' = left /\ wireReads' = wireReads
    BY <1>a, <1>2, <2>1, <2>2 DEF ReadWire
  <2>4. bytes \in Seq(WireBytes) /\ left \in Seq(WireBytes)
    BY <1>1, <2>1, <2>2, Piece
  <2> QED
    BY <1>1, <2>3, <2>4
<1>3. CASE ~ (reader = "app" /\ Len(inbox) >= req.min)
  <2>1. \/ results' = Append(rest, <<>>) /\ wireReads' = wireReads /\ inbox' = inbox
        \/ results' = rest /\ wireReads' = Append(wireReads, req) /\ inbox' = inbox
    BY <1>3 DEF ReadWire, Failed
  <2>2. CASE results' = Append(rest, <<>>) /\ wireReads' = wireReads /\ inbox' = inbox
    <3>1. <<>> \in Seq(WireBytes)
      OBVIOUS
    <3> QED
      BY <1>1, <2>2, <3>1
  <2>3. CASE results' = rest /\ wireReads' = Append(wireReads, req) /\ inbox' = inbox
    BY <1>1, <2>3
  <2> QED
    BY <2>1, <2>2, <2>3
<1> QED
  BY <1>2, <1>3

(* One action after another.                                               *)
StreamInv == StreamTypeOK /\ OneWireRead

(* A step of the writing end, which leaves the reading end as it was.      *)
LEMMA ReaderUntouched ==
    ASSUME StreamInv, UNCHANGED <<reader, fin, inbox, wireReads, eof, results, tls>>,
           sent' \in 0 .. MaxBytes, {shaken', closing', writing'} \subseteq BOOLEAN,
           deferred' \in Seq(RecordSet), pendingWrites' \in Seq(RecordSet), wire' \in Seq(WireBytes)
    PROVE  StreamInv'
<1>1. StreamTypeOK'
  BY DEF StreamInv, StreamTypeOK
<1>2. OneWireRead'
  BY DEF StreamInv, OneWireRead
<1> QED
  BY <1>1, <1>2 DEF StreamInv

(* The user writes.                                                        *)
LEMMA WriteStep ==
    ASSUME StreamInv, NEW n \in 1 .. MaxBytes, Write(n)
    PROVE  StreamInv'
<1>1. /\ sent \in 0 .. MaxBytes /\ {shaken, closing, writing} \subseteq BOOLEAN
      /\ deferred \in Seq(RecordSet) /\ pendingWrites \in Seq(RecordSet) /\ wire \in Seq(WireBytes)
  BY DEF StreamInv, StreamTypeOK
<1>2. /\ sent + n <= MaxBytes /\ sent' = sent + n
      /\ UNCHANGED <<reader, shaken, closing, fin, inbox, wireReads, eof, results, tls>>
  BY DEF Write
<1>3. PICK bytes : bytes = [i \in 1 .. n |-> sent + i]
  OBVIOUS
<1>4. PICK record : record = Record("data", bytes)
  OBVIOUS
<1>5. record \in RecordSet /\ sent' \in 0 .. MaxBytes
  <2>1. MaxBytes \in Nat
    BY StreamAssumption
  <2>2. bytes \in [1 .. n -> 1 .. MaxBytes] /\ n \in Nat
    BY <1>1, <1>2, <1>3, <2>1
  <2>3. bytes \in Seq(1 .. MaxBytes)
    <3>1. PICK S : S = 1 .. MaxBytes
      OBVIOUS
    <3>2. bytes \in [1 .. n -> S] /\ n \in Nat
      BY <2>2, <3>1
    <3>3. bytes \in Seq(S)
      BY <3>2
    <3> QED
      BY <3>1, <3>3
  <2> QED
    BY <1>1, <1>2, <1>4, <2>1, <2>3 DEF Record, RecordSet
<1>6. \/ shaken /\ Output(<<record>>) /\ deferred' = deferred
      \/ deferred' = Append(deferred, record) /\ UNCHANGED <<pendingWrites, writing, wire>>
  BY <1>3, <1>4 DEF Write
<1>7. CASE shaken /\ Output(<<record>>) /\ deferred' = deferred
  <2>1. <<record>> \in Seq(RecordSet)
    BY <1>5
  <2>2. /\ pendingWrites' \in Seq(RecordSet) /\ writing' \in BOOLEAN
        /\ wire' \in Seq(WireBytes)
    BY <1>7, <2>1, OutputKeeps DEF StreamInv
  <2> QED
    BY <1>1, <1>2, <1>5, <1>7, <2>2, ReaderUntouched
<1>8. CASE deferred' = Append(deferred, record) /\ UNCHANGED <<pendingWrites, writing, wire>>
  BY <1>1, <1>2, <1>5, <1>8, ReaderUntouched
<1> QED
  BY <1>6, <1>7, <1>8

(* The handshake ends, or the channel is closed.                           *)
LEMMA ControlStep ==
    ASSUME StreamInv, HandshakeFinishes \/ HandshakeFails \/ ShutdownWrite
    PROVE  StreamInv'
<1>1. /\ sent \in 0 .. MaxBytes /\ {shaken, closing, writing} \subseteq BOOLEAN
      /\ deferred \in Seq(RecordSet)
  BY DEF StreamInv, StreamTypeOK
<1>2. \A kind \in {"finished", "fatal", "close"} : Record(kind, <<>>) \in RecordSet
  <2>1. <<>> \in Seq(1 .. MaxBytes)
    OBVIOUS
  <2> QED
    BY <2>1 DEF Record, RecordSet
<1>3. PICK kind \in {"finished", "fatal", "close"} : Output(<<Record(kind, <<>>)>>)
  BY DEF HandshakeFinishes, HandshakeFails, ShutdownWrite
<1>4. /\ {shaken', closing'} \subseteq BOOLEAN
      /\ UNCHANGED <<reader, sent, deferred, fin, inbox, wireReads, eof, results, tls>>
  BY <1>1 DEF HandshakeFinishes, HandshakeFails, ShutdownWrite
<1>5. <<Record(kind, <<>>)>> \in Seq(RecordSet)
  BY <1>2
<1>6. /\ pendingWrites' \in Seq(RecordSet) /\ writing' \in BOOLEAN
      /\ wire' \in Seq(WireBytes)
  BY <1>3, <1>5, OutputKeeps DEF StreamInv
<1> QED
  BY <1>1, <1>4, <1>6, ReaderUntouched

(* A write that waited for the handshake is made.                          *)
LEMMA FlushStep ==
    ASSUME StreamInv, FlushDeferred
    PROVE  StreamInv'
<1>1. /\ sent \in 0 .. MaxBytes /\ {shaken, closing, writing} \subseteq BOOLEAN
      /\ deferred \in Seq(RecordSet)
  BY DEF StreamInv, StreamTypeOK
<1>2. /\ deferred # <<>> /\ Output(<<Head(deferred)>>) /\ deferred' = Tail(deferred)
      /\ UNCHANGED <<reader, sent, shaken, closing, fin, inbox, wireReads, eof, results, tls>>
  BY DEF FlushDeferred
<1>3. Head(deferred) \in RecordSet /\ deferred' \in Seq(RecordSet)
  BY <1>1, <1>2
<1>4. <<Head(deferred)>> \in Seq(RecordSet)
  BY <1>3
<1>5. /\ pendingWrites' \in Seq(RecordSet) /\ writing' \in BOOLEAN
      /\ wire' \in Seq(WireBytes)
  BY <1>2, <1>4, OutputKeeps DEF StreamInv
<1> QED
  BY <1>1, <1>2, <1>3, <1>5, ReaderUntouched

(* The writer's fiber takes a turn.                                        *)
LEMMA FiberStep ==
    ASSUME StreamInv, ProcessWrites
    PROVE  StreamInv'
<1>1. /\ sent \in 0 .. MaxBytes /\ {shaken, closing, writing} \subseteq BOOLEAN
      /\ deferred \in Seq(RecordSet) /\ pendingWrites \in Seq(RecordSet) /\ wire \in Seq(WireBytes)
  BY DEF StreamInv, StreamTypeOK
<1>2. UNCHANGED <<reader, sent, deferred, shaken, closing, fin, inbox, wireReads, eof, results, tls>>
  BY DEF ProcessWrites
<1>3. CASE pendingWrites = <<>>
  <2>1. writing' = FALSE /\ UNCHANGED <<pendingWrites, wire>>
    BY <1>3 DEF ProcessWrites
  <2> QED
    BY <1>1, <1>2, <2>1, ReaderUntouched
<1>4. CASE pendingWrites # <<>>
  <2>1. PICK bytes : bytes = OnWire(<<Head(pendingWrites)>>)
    OBVIOUS
  <2>2. wire' = wire \o bytes /\ pendingWrites' = Tail(pendingWrites) /\ writing' = writing
    BY <1>4, <2>1 DEF ProcessWrites
  <2>3. bytes \in Seq(WireBytes)
    <3>1. <<Head(pendingWrites)>> \in Seq(RecordSet)
      BY <1>1, <1>4
    <3> QED
      BY <2>1, <3>1, OnWireType
  <2>4. pendingWrites' \in Seq(RecordSet) /\ wire' \in Seq(WireBytes)
    BY <1>1, <1>4, <2>2, <2>3
  <2> QED
    BY <1>1, <1>2, <2>2, <2>4, ReaderUntouched
<1> QED
  BY <1>3, <1>4

(* The writer's end goes away.                                             *)
LEMMA DisconnectStep ==
    ASSUME StreamInv, Disconnect
    PROVE  StreamInv'
<1>1. /\ fin' = TRUE /\ pendingWrites' = <<>> /\ writing' = FALSE
      /\ UNCHANGED <<reader, sent, deferred, shaken, closing, inbox, wireReads, eof, results, tls>>
  BY DEF Disconnect
<1>2. PICK k \in 0 .. Len(wire) : wire' = SubSeq(wire, 1, k)
  BY DEF Disconnect
<1>3. wire' \in Seq(WireBytes)
  <2>1. wire \in Seq(WireBytes)
    BY DEF StreamInv, StreamTypeOK
  <2>2. k \in Int /\ 1 \in Int /\ \A i \in 1 .. k : wire[i] \in WireBytes
    BY <1>2, <2>1
  <2>3. SubSeq(wire, 1, k) \in Seq(WireBytes)
    BY <2>2, SubSeqProperties
  <2> QED
    BY <1>2, <2>3
<1>4. <<>> \in Seq(RecordSet)
  OBVIOUS
<1>5. StreamTypeOK'
  BY <1>1, <1>3, <1>4 DEF StreamInv, StreamTypeOK
<1>6. OneWireRead'
  BY <1>1 DEF StreamInv, OneWireRead
<1> QED
  BY <1>5, <1>6 DEF StreamInv

(* A read is answered, or goes on: the writing end has no part in it.      *)
LEMMA WriterUntouched ==
    ASSUME StreamInv, UNCHANGED <<reader, writerVars, fin>>, eof' \in BOOLEAN,
           wire' \in Seq(WireBytes), inbox' \in Seq(WireBytes),
           wireReads' \in Seq(PendingReads), results' \in Seq(Seq(WireBytes)),
           \/ tls' = tls
           \/ tls' \in Adaptors /\ Len(tls'.partial) < RecordSize /\ ~tls'.stuck,
           Len(wireReads') + Len(results') <= 1,
           ~tls'.hitEof => Len(wireReads') + Len(results') = 1
    PROVE  StreamInv'
<1>1. StreamTypeOK'
  BY DEF StreamInv, StreamTypeOK, writerVars
<1>2. OneWireRead'
  BY DEF OneWireRead
<1> QED
  BY <1>1, <1>2 DEF StreamInv

(* Bytes arrive, and answer the read that waits for them if they are       *)
(* enough.                                                                 *)
LEMMA ArriveStep ==
    ASSUME StreamInv, Arrive
    PROVE  StreamInv'
<1>1. /\ inbox \in Seq(WireBytes) /\ wire \in Seq(WireBytes) /\ eof \in BOOLEAN
      /\ wireReads \in Seq(PendingReads) /\ results \in Seq(Seq(WireBytes))
  BY DEF StreamInv, StreamTypeOK
<1>2. UNCHANGED <<reader, writerVars, fin, eof, tls>>
  BY DEF Arrive
<1>3. PICK n, here, req, take :
         /\ n \in 1 .. Len(wire)
         /\ here = inbox \o SubSeq(wire, 1, n) /\ req = Head(wireReads)
         /\ take = Smaller(req.max, Len(here))
         /\ wire' = SubSeq(wire, n + 1, Len(wire))
         /\ IF reader = "app" /\ wireReads # <<>> /\ Len(here) >= req.min
            THEN /\ results' = Append(results, SubSeq(here, 1, take))
                 /\ inbox' = SubSeq(here, take + 1, Len(here))
                 /\ wireReads' = Tail(wireReads)
            ELSE inbox' = here /\ UNCHANGED <<results, wireReads>>
  BY DEF Arrive
<1>4. wire' \in Seq(WireBytes) /\ here \in Seq(WireBytes)
  <2>1. n \in 0 .. Len(wire) /\ n \in Int /\ 1 \in Int /\ \A i \in 1 .. n : wire[i] \in WireBytes
    <3>1. n \in 1 .. Len(wire)
      BY <1>3
    <3> QED
      BY <1>1, <3>1
  <2>2. SubSeq(wire, n + 1, Len(wire)) \in Seq(WireBytes)
    BY <1>1, <2>1, RestOf
  <2>3. SubSeq(wire, 1, n) \in Seq(WireBytes)
    BY <2>1, SubSeqProperties
  <2> QED
    BY <1>1, <1>3, <2>2, <2>3
<1>5. CASE reader = "app" /\ wireReads # <<>> /\ Len(here) >= req.min
  <2>1. PICK bytes, left : bytes = SubSeq(here, 1, take) /\ left = SubSeq(here, take + 1, Len(here))
    OBVIOUS
  <2>2. results' = Append(results, bytes) /\ inbox' = left /\ wireReads' = Tail(wireReads)
    BY <1>3, <1>5, <2>1
  <2>3. bytes \in Seq(WireBytes) /\ left \in Seq(WireBytes)
    <3>1. req.max \in Nat
      <4>1. req \in PendingReads
        BY <1>1, <1>3, <1>5
      <4> QED
        BY <4>1, StreamAssumption DEF PendingReads
    <3> QED
      BY <1>3, <1>4, <2>1, <3>1, Piece
  <2>4. /\ results' \in Seq(Seq(WireBytes)) /\ wireReads' \in Seq(PendingReads)
        /\ Len(wireReads') + Len(results') = Len(wireReads) + Len(results)
    BY <1>1, <1>5, <2>2, <2>3
  <2>5. /\ Len(wireReads') + Len(results') <= 1
        /\ ~tls'.hitEof => Len(wireReads') + Len(results') = 1
    BY <1>2, <2>4 DEF StreamInv, OneWireRead
  <2> QED
    BY <1>1, <1>2, <1>4, <2>2, <2>3, <2>4, <2>5, WriterUntouched
<1>6. CASE ~ (reader = "app" /\ wireReads # <<>> /\ Len(here) >= req.min)
  <2>1. inbox' = here /\ UNCHANGED <<results, wireReads>>
    BY <1>3, <1>6
  <2>2. /\ Len(wireReads') + Len(results') <= 1
        /\ ~tls'.hitEof => Len(wireReads') + Len(results') = 1
    BY <1>2, <2>1 DEF StreamInv, OneWireRead
  <2> QED
    BY <1>1, <1>2, <1>4, <2>1, <2>2, WriterUntouched
<1> QED
  BY <1>5, <1>6

(* The reader's fiber takes what has arrived.                              *)
LEMMA ReadSomeStep ==
    ASSUME StreamInv, ReadSome
    PROVE  StreamInv'
<1>1. /\ inbox \in Seq(WireBytes) /\ wire \in Seq(WireBytes) /\ eof \in BOOLEAN
      /\ wireReads \in Seq(PendingReads) /\ results \in Seq(Seq(WireBytes))
  BY DEF StreamInv, StreamTypeOK
<1>2. wireReads # <<>> /\ UNCHANGED <<reader, writerVars, wire, fin, eof, tls>>
  BY DEF ReadSome
<1>3. PICK req : req = Head(wireReads)
  OBVIOUS
<1>4. PICK n : n = Smaller(req.max - Len(req.bytes), Len(inbox))
  OBVIOUS
<1>5. PICK bytes : bytes = req.bytes \o SubSeq(inbox, 1, n)
  OBVIOUS
<1>6. /\ inbox' = SubSeq(inbox, n + 1, Len(inbox))
      /\ IF Len(bytes) >= req.min
         THEN results' = Append(results, bytes) /\ wireReads' = Tail(wireReads)
         ELSE wireReads' = [wireReads EXCEPT ![1].bytes = bytes] /\ UNCHANGED results
  BY <1>3, <1>4, <1>5 DEF ReadSome
<1>7. req \in PendingReads
  BY <1>1, <1>2, <1>3
<1>8. /\ req.min \in Nat /\ req.max \in Nat /\ req.min <= req.max
      /\ req.bytes \in Seq(WireBytes) /\ Len(req.bytes) < req.min
  BY <1>7, StreamAssumption DEF PendingReads
<1>9. bytes \in Seq(WireBytes) /\ inbox' \in Seq(WireBytes)
  <2>1. req.max - Len(req.bytes) \in Nat
    BY <1>8
  <2>2. SubSeq(inbox, 1, n) \in Seq(WireBytes) /\ SubSeq(inbox, n + 1, Len(inbox)) \in Seq(WireBytes)
    BY <1>1, <1>4, <2>1, Piece
  <2> QED
    BY <1>5, <1>6, <1>8, <2>2
<1>10. CASE Len(bytes) >= req.min
  <2>1. /\ results' \in Seq(Seq(WireBytes)) /\ wireReads' \in Seq(PendingReads)
        /\ Len(wireReads') + Len(results') = Len(wireReads) + Len(results)
    <3>1. results' = Append(results, bytes) /\ wireReads' = Tail(wireReads)
      BY <1>6, <1>10
    <3>2. results' \in Seq(Seq(WireBytes)) /\ Len(results') = Len(results) + 1
      BY <1>1, <1>9, <3>1
    <3>3. wireReads' \in Seq(PendingReads) /\ Len(wireReads') = Len(wireReads) - 1
      BY <1>1, <1>2, <3>1
    <3> QED
      BY <1>1, <3>2, <3>3
  <2>2. /\ Len(wireReads') + Len(results') <= 1
        /\ ~tls'.hitEof => Len(wireReads') + Len(results') = 1
    BY <1>2, <2>1 DEF StreamInv, OneWireRead
  <2> QED
    BY <1>1, <1>2, <1>9, <2>1, <2>2, WriterUntouched
<1>11. CASE ~ (Len(bytes) >= req.min)
  <2>1. PICK more : more = [req EXCEPT !.bytes = bytes]
    OBVIOUS
  <2>2. wireReads' = [wireReads EXCEPT ![1] = more] /\ results' = results
    BY <1>1, <1>2, <1>3, <1>6, <1>11, <2>1
  <2>3. more \in PendingReads
    BY <1>7, <1>8, <1>9, <1>11, <2>1 DEF PendingReads
  <2>4. wireReads' \in Seq(PendingReads) /\ Len(wireReads') = Len(wireReads)
    BY <1>1, <1>2, <2>2, <2>3
  <2>5. /\ Len(wireReads') + Len(results') <= 1
        /\ ~tls'.hitEof => Len(wireReads') + Len(results') = 1
    BY <1>2, <2>2, <2>4 DEF StreamInv, OneWireRead
  <2> QED
    BY <1>1, <1>2, <1>9, <2>2, <2>4, <2>5, WriterUntouched
<1> QED
  BY <1>10, <1>11

(* The wrapper learns of the end: a read that waits may fail, and is       *)
(* counted among the results.                                              *)
LEMMA EndStep ==
    ASSUME StreamInv, Disconnected \/ ReadEof
    PROVE  StreamInv'
<1>1. /\ inbox \in Seq(WireBytes) /\ wire \in Seq(WireBytes) /\ eof \in BOOLEAN
      /\ wireReads \in Seq(PendingReads) /\ results \in Seq(Seq(WireBytes))
  BY DEF StreamInv, StreamTypeOK
<1>2. eof' = TRUE /\ UNCHANGED <<reader, writerVars, wire, fin, inbox, tls>>
  BY DEF Disconnected, ReadEof
<1>3. /\ results' \in Seq(Seq(WireBytes)) /\ wireReads' \in Seq(PendingReads)
      /\ Len(wireReads') + Len(results') = Len(wireReads) + Len(results)
  <2>1. CASE Disconnected
    BY <1>1, <2>1 DEF Disconnected
  <2>2. CASE ReadEof
    <3>1. wireReads # <<>> /\ results' = Append(results, <<>>) /\ wireReads' = Tail(wireReads)
      BY <2>2 DEF ReadEof, Failed
    <3>2. <<>> \in Seq(WireBytes)
      OBVIOUS
    <3> QED
      BY <1>1, <3>1, <3>2
  <2> QED
    BY <2>1, <2>2
<1>4. /\ Len(wireReads') + Len(results') <= 1
      /\ ~tls'.hitEof => Len(wireReads') + Len(results') = 1
  BY <1>2, <1>3 DEF StreamInv, OneWireRead
<1> QED
  BY <1>1, <1>2, <1>3, <1>4, WriterUntouched

(* The adaptor takes a result and starts its next read, or meets the end.  *)
LEMMA BytesStep ==
    ASSUME StreamInv, ProcessBytes
    PROVE  StreamInv'
<1>1. /\ inbox \in Seq(WireBytes) /\ wire \in Seq(WireBytes) /\ eof \in BOOLEAN
      /\ wireReads \in Seq(PendingReads) /\ results \in Seq(Seq(WireBytes))
      /\ tls \in Adaptors /\ Len(tls.partial) < RecordSize /\ ~tls.stuck
  BY DEF StreamInv, StreamTypeOK
<1>2. results # <<>> /\ UNCHANGED <<reader, writerVars, wire, fin, eof>>
  BY DEF ProcessBytes
<1>3. PICK bytes, rest : bytes = Head(results) /\ rest = Tail(results)
  OBVIOUS
<1>4. /\ bytes \in Seq(WireBytes) /\ rest \in Seq(Seq(WireBytes))
      /\ Len(rest) = Len(results) - 1 /\ Len(results) > 0
  BY <1>1, <1>2, <1>3
<1>5. Len(wireReads) + Len(rest) = 0
  BY <1>1, <1>4 DEF StreamInv, OneWireRead
<1>6. PICK u : u = tls'
  OBVIOUS
<1>7. CASE bytes = Failed
  <2>1. u = handleEof(tls) /\ results' = rest /\ UNCHANGED <<inbox, wireReads>>
    BY <1>3, <1>6, <1>7 DEF ProcessBytes
  <2>2. u \in Adaptors /\ ~u.stuck /\ u.partial = tls.partial /\ u.hitEof
    BY <1>1, <2>1, EofKeeps
  <2>3. /\ Len(wireReads') + Len(results') <= 1
        /\ ~tls'.hitEof => Len(wireReads') + Len(results') = 1
    BY <1>5, <1>6, <2>1, <2>2
  <2>4. tls' \in Adaptors /\ Len(tls'.partial) < RecordSize /\ ~tls'.stuck
    BY <1>1, <1>6, <2>2
  <2> QED
    BY <1>1, <1>2, <1>4, <2>1, <2>3, <2>4, WriterUntouched
<1>8. CASE bytes # Failed
  <2>1. PICK short, req : /\ short = Len(u.partial)
                          /\ req = IF short = 0 THEN startReadLoop
                                   ELSE Pending(RecordSize - short, RecordSize - short)
    OBVIOUS
  <2>2. u = ReceivedData(tls, bytes) /\ ReadWire(req, wireReads, rest)
    BY <1>3, <1>6, <1>8, <2>1 DEF ProcessBytes
  <2>3. u \in Adaptors /\ ~u.stuck /\ Len(u.partial) < RecordSize
    BY <1>1, <1>4, <2>2, DataKeeps
  <2>4. req \in PendingReads
    <3>1. INITIAL_READ_SIZE \in Nat \ {0} /\ RecordSize \in Nat \ {0}
      BY StreamAssumption
    <3>2. short \in Nat /\ short < RecordSize
      <4>1. u.partial \in Seq(WireBytes)
        BY <2>3 DEF Adaptors
      <4> QED
        BY <2>1, <2>3, <4>1
    <3>3. CASE short = 0
      <4>1. 1 \in Nat \ {0} /\ INITIAL_READ_SIZE \in Nat \ {0}
        BY <3>1
      <4> QED
        BY <2>1, <3>3, <4>1, PendingType DEF startReadLoop
    <3>4. CASE short # 0
      <4>1. PICK need : need = RecordSize - short
        OBVIOUS
      <4>2. need \in Nat \ {0} /\ need < RecordSize
        BY <3>1, <3>2, <3>4, <4>1
      <4>3. req = Pending(need, need)
        BY <2>1, <3>4, <4>1
      <4> QED
        BY <4>2, <4>3, PendingType
    <3> QED
      BY <3>3, <3>4
  <2>5. /\ results' \in Seq(Seq(WireBytes)) /\ inbox' \in Seq(WireBytes)
        /\ wireReads' \in Seq(PendingReads)
        /\ Len(wireReads') + Len(results') = Len(wireReads) + Len(rest) + 1
    BY <1>4, <2>2, <2>4, ReadWireKeeps DEF StreamInv
  <2>6. /\ Len(wireReads') + Len(results') <= 1
        /\ ~tls'.hitEof => Len(wireReads') + Len(results') = 1
    BY <1>5, <2>5
  <2>7. tls' \in Adaptors /\ Len(tls'.partial) < RecordSize /\ ~tls'.stuck
    BY <1>6, <2>3
  <2> QED
    BY <1>1, <1>2, <2>5, <2>6, <2>7, WriterUntouched
<1> QED
  BY <1>7, <1>8

(* The user asks for bytes.                                                *)
LEMMA ReadStep ==
    ASSUME StreamInv, NEW req \in Requests, Read(req)
    PROVE  StreamInv'
<1>1. /\ inbox \in Seq(WireBytes) /\ wire \in Seq(WireBytes) /\ eof \in BOOLEAN
      /\ wireReads \in Seq(PendingReads) /\ results \in Seq(Seq(WireBytes))
      /\ tls \in Adaptors /\ Len(tls.partial) < RecordSize /\ ~tls.stuck
  BY DEF StreamInv, StreamTypeOK
<1>2. UNCHANGED <<reader, writerVars, wire, fin, inbox, wireReads, eof, results>>
  BY DEF Read
<1>3. PICK u : u = tls'
  OBVIOUS
<1>4. u \in Adaptors /\ ~u.stuck /\ u.partial = tls.partial /\ u.hitEof = tls.hitEof
  <2>1. CASE tls.hitEof
    <3>1. PICK answers : answers = Append(tls.answers, [req |-> req, bytes |-> <<>>])
      OBVIOUS
    <3>2. answers \in Seq(Answers)
      <4>1. <<>> \in Seq(1 .. MaxBytes)
        OBVIOUS
      <4>2. [req |-> req, bytes |-> <<>>] \in Answers
        BY <4>1 DEF Answers
      <4>3. tls.answers \in Seq(Answers)
        BY <1>1 DEF Adaptors
      <4> QED
        BY <3>1, <4>2, <4>3
    <3>3. u = [tls EXCEPT !.answers = answers]
      BY <1>3, <2>1, <3>1 DEF Read
    <3> QED
      BY <1>1, <3>2, <3>3 DEF Adaptors
  <2>2. CASE ~tls.hitEof
    <3>1. PICK requests : requests = Append(tls.requests, req)
      OBVIOUS
    <3>2. requests \in Seq(Requests)
      <4>1. tls.requests \in Seq(Requests)
        BY <1>1 DEF Adaptors
      <4> QED
        BY <3>1, <4>1
    <3>3. PICK t : t = [tls EXCEPT !.requests = requests]
      OBVIOUS
    <3>4. t \in Adaptors /\ ~t.stuck /\ t.partial = tls.partial /\ t.hitEof = tls.hitEof
      BY <1>1, <3>2, <3>3 DEF Adaptors
    <3>5. u = processReadRequests(t)
      BY <1>3, <2>2, <3>1, <3>3 DEF Read
    <3>6. u \in Adaptors /\ ~u.stuck /\ u.partial = t.partial /\ u.hitEof = t.hitEof
      BY <3>4, <3>5, RequestsKeep
    <3> QED
      BY <3>4, <3>6
  <2> QED
    BY <2>1, <2>2
<1>5. tls' \in Adaptors /\ Len(tls'.partial) < RecordSize /\ ~tls'.stuck
  BY <1>1, <1>3, <1>4
<1>6. /\ Len(wireReads') + Len(results') <= 1
      /\ ~tls'.hitEof => Len(wireReads') + Len(results') = 1
  BY <1>2, <1>3, <1>4 DEF StreamInv, OneWireRead
<1> QED
  BY <1>1, <1>2, <1>5, <1>6, WriterUntouched

(* The invariant.                                                          *)
LEMMA StreamInitially == StreamInit => StreamInv
<1> SUFFICES ASSUME StreamInit PROVE StreamInv
  OBVIOUS
<1>1. INITIAL_READ_SIZE \in Nat \ {0} /\ RecordSize \in Nat \ {0} /\ MaxBytes \in Nat
  BY StreamAssumption
<1>2. startReadLoop \in PendingReads
  <2>1. 1 \in Nat \ {0} /\ INITIAL_READ_SIZE \in Nat \ {0}
    BY <1>1
  <2> QED
    BY <2>1, PendingType DEF startReadLoop
<1>3. wireReads = <<startReadLoop>> /\ results = <<>>
  BY DEF StreamInit
<1>4. wireReads \in Seq(PendingReads) /\ Len(wireReads) + Len(results) = 1
  BY <1>2, <1>3
<1>5. tls \in Adaptors /\ Len(tls.partial) < RecordSize /\ ~tls.stuck
  <2>1. tls = [channel |-> "handshake", partial |-> <<>>, incoming |-> <<>>,
               requests |-> <<>>, answers |-> <<>>, hitEof |-> FALSE, stuck |-> FALSE]
    BY DEF StreamInit
  <2>2. /\ <<>> \in Seq(WireBytes) /\ <<>> \in Seq(1 .. MaxBytes) /\ <<>> \in Seq(Requests)
        /\ <<>> \in Seq(Answers) /\ Len(<<>>) = 0
    OBVIOUS
  <2> QED
    BY <1>1, <2>1, <2>2 DEF Adaptors
<1>6. StreamTypeOK
  <2>1. /\ reader \in {"app", "backend"} /\ sent \in 0 .. MaxBytes
        /\ {shaken, closing, writing, fin, eof} \subseteq BOOLEAN
    <3>1. reader \in {"app", "backend"} /\ sent = 0
      BY DEF StreamInit
    <3>2. shaken = FALSE /\ closing = FALSE /\ writing = FALSE /\ fin = FALSE /\ eof = FALSE
      BY Zenon DEF StreamInit
    <3>3. {shaken, closing, writing, fin, eof} \subseteq BOOLEAN
      BY <3>2
    <3> QED
      BY <1>1, <3>1, <3>3
  <2>2. /\ deferred \in Seq(RecordSet) /\ pendingWrites \in Seq(RecordSet)
        /\ wire \in Seq(WireBytes) /\ inbox \in Seq(WireBytes)
        /\ results \in Seq(Seq(WireBytes))
    BY DEF StreamInit
  <2> QED
    BY <1>4, <1>5, <2>1, <2>2 DEF StreamTypeOK
<1>7. OneWireRead
  BY <1>4 DEF OneWireRead
<1> QED
  BY <1>6, <1>7 DEF StreamInv

LEMMA StreamInvHolds == StreamSpec => []StreamInv
<1>1. StreamInv /\ [StreamNext]_streamVars => StreamInv'
  <2> SUFFICES ASSUME StreamInv, [StreamNext]_streamVars PROVE StreamInv'
    OBVIOUS
  <2>1. CASE \E n \in 1 .. MaxBytes : Write(n)
    BY <2>1, WriteStep
  <2>2. CASE HandshakeFinishes \/ HandshakeFails \/ ShutdownWrite
    BY <2>2, ControlStep
  <2>11. CASE FlushDeferred
    BY <2>11, FlushStep
  <2>3. CASE ProcessWrites
    BY <2>3, FiberStep
  <2>4. CASE Disconnect
    BY <2>4, DisconnectStep
  <2>5. CASE Arrive
    BY <2>5, ArriveStep
  <2>6. CASE Disconnected \/ ReadEof
    BY <2>6, EndStep
  <2>7. CASE ReadSome
    BY <2>7, ReadSomeStep
  <2>8. CASE ProcessBytes
    BY <2>8, BytesStep
  <2>9. CASE \E req \in Requests : Read(req)
    BY <2>9, ReadStep
  <2>10. CASE UNCHANGED streamVars
    BY <2>10 DEF streamVars, writerVars, StreamInv, StreamTypeOK, OneWireRead
  <2> QED
    BY <2>1, <2>2, <2>3, <2>4, <2>5, <2>6, <2>7, <2>8, <2>9, <2>10, <2>11 DEF StreamNext
<1> QED
  BY <1>1, StreamInitially, PTL DEF StreamSpec

(* Every variable of the stream has its type.                              *)
THEOREM StreamTypeCorrect == StreamSpec => []StreamTypeOK
<1>1. StreamInv => StreamTypeOK
  BY DEF StreamInv
<1> QED
  BY <1>1, StreamInvHolds, PTL

(* The adaptor has one read of its socket under way until it meets the     *)
(* end, and never two.                                                     *)
THEOREM OneWireReadHolds == StreamSpec => []OneWireRead
<1>1. StreamInv => OneWireRead
  BY DEF StreamInv
<1> QED
  BY <1>1, StreamInvHolds, PTL

-----------------------------------------------------------------------------
(* The stream is a pipe.                                                   *)

(* The bytes after number a, up to b.                                      *)
Numbered(a, b) == [i \in 1 .. b - a |-> a + i]

(* The records rs carry these bytes; e tells where each of them ends.      *)
Carrying(rs, e) ==
    \A j \in 1 .. Len(rs) :
        /\ e[j - 1] <= e[j]
        /\ IF rs[j].kind = "data" THEN rs[j].bytes = Numbered(e[j - 1], e[j]) ELSE e[j] = e[j - 1]

Carry(rs, a, b) ==
    \E e \in [0 .. Len(rs) -> Nat] : e[0] = a /\ e[Len(rs)] = b /\ Carrying(rs, e)

(* What the adaptor t has been given, b bytes, its user has been given or  *)
(* may ask for.                                                            *)
Holds(t, b) ==
    \E m \in 0 .. b : Pipe!Bytes(t.answers) = Numbered(0, m) /\ t.incoming = Numbered(m, b)

(* Reads are answered with bytes, and with none after the end.             *)
AnswersFit(t) == \A i \in DOMAIN t.answers : Pipe!Fits(t.answers[i])

AnswersEnd(t) ==
    /\ t.requests = <<>>
    /\ \A i \in DOMAIN t.answers :
          Pipe!Fits(t.answers[i]) \/ \A j \in i .. Len(t.answers) : Pipe!IsEnd(t.answers[j])

Replied(t) == IF t.hitEof THEN AnswersEnd(t) ELSE AnswersFit(t)

(* The wire bytes that the read under way has, and all that the channel of *)
(* the reader has not been given as records, in order.                     *)
Held(answered, waiting) ==
    IF answered # <<>> THEN Head(answered)
    ELSE IF waiting # <<>> THEN Head(waiting).bytes ELSE <<>>

Line == tls.partial \o (Held(results, wireReads) \o (inbox \o wire))

(* The whole records of some wire bytes.                                   *)
Whole(line) == [i \in 1 .. Len(line) \div RecordSize |-> line[i * RecordSize][1]]

Harmless(rs) == \A i \in 1 .. Len(rs) : rs[i].kind # "fatal"

(* The records of the line come after what the adaptor t has been given,   *)
(* and those that the writer holds after them, as long as its socket is    *)
(* there: with it their tail is gone.                                      *)
Carried(t, line, queue, later, written, lost) ==
    \E a, b \in 0 .. written :
        /\ Holds(t, a) /\ Carry(Whole(line), a, b)
        /\ \/ lost
           \/ /\ \E q \in Nat : Len(line) = q * RecordSize
              /\ \E c \in Nat : Carry(queue, b, c) /\ Carry(later, c, written)

(* The channel refuses nothing unless its end is coming.                   *)
Quiet(line, queue) == closing \/ fin \/ (Harmless(Whole(line)) /\ Harmless(queue))

Queue ==
    /\ reader # "app" => pendingWrites = <<>> /\ ~writing
    /\ pendingWrites # <<>> => writing
    /\ fin => ~writing
    /\ \A i \in 1 .. Len(deferred) : deferred[i].kind = "data"

AtEnd ==
    /\ tls.hitEof => closing \/ fin
    /\ eof => fin
    /\ results # <<>> /\ Head(results) = <<>> => fin
    /\ reader = "app" /\ wireReads # <<>> => Head(wireReads).bytes = <<>>

PipeInv ==
    /\ StreamInv
    /\ Carried(tls, Line, pendingWrites, deferred, sent, fin)
    /\ Quiet(Line, pendingWrites)
    /\ Queue /\ AtEnd /\ Replied(tls)

-----------------------------------------------------------------------------
(* The bytes of some answers, one after the other.                         *)

(* What the flattening of some sequences has come to after each of them.   *)
Flats(fl, seqs, n) ==
    fl = [i \in 1 .. n |-> IF i = 1 THEN seqs[i] ELSE fl[i - 1] \o seqs[i]]

(* There is such a function.                                               *)
LEMMA FlatsExist ==
    ASSUME NEW seqs, NEW n \in Nat
    PROVE  \E fl : Flats(fl, seqs, n)
<1> DEFINE Wrong == {k \in Nat : ~ \E fl : Flats(fl, seqs, k)}
<1> SUFFICES ASSUME Wrong # {} PROVE FALSE
  OBVIOUS
<1>1. PICK k \in Wrong : \A j \in Wrong : ~ (j < k)
  <2>1. Wrong \subseteq Nat
    OBVIOUS
  <2> HIDE DEF Wrong
  <2> QED
    BY <2>1, SmallestNumber
<1>2. k # 0
  <2> SUFFICES ASSUME k = 0 PROVE FALSE
    OBVIOUS
  <2> DEFINE z == [i \in {} |-> <<>>]
  <2>1. 1 .. k = {}
    OBVIOUS
  <2>2. z = [i \in 1 .. k |-> IF i = 1 THEN seqs[i] ELSE z[i - 1] \o seqs[i]]
    BY <2>1
  <2> QED
    BY <1>1, <2>2 DEF Flats
<1>3. k - 1 \in Nat /\ k - 1 \notin Wrong /\ k \in Nat /\ k > 0
  BY <1>1, <1>2
<1>4. PICK h : Flats(h, seqs, k - 1)
  BY <1>3
<1> DEFINE fl == [i \in 1 .. k |-> IF i < k THEN h[i]
                                   ELSE IF i = 1 THEN seqs[i] ELSE h[i - 1] \o seqs[i]]
<1>5. ASSUME NEW i \in 1 .. k
      PROVE  fl[i] = IF i = 1 THEN seqs[i] ELSE fl[i - 1] \o seqs[i]
  <2>1. CASE i < k
    <3>1. i \in 1 .. k - 1 /\ fl[i] = h[i]
      BY <1>3, <2>1
    <3>2. h[i] = IF i = 1 THEN seqs[i] ELSE h[i - 1] \o seqs[i]
      BY <1>4, <3>1 DEF Flats
    <3>3. i # 1 => fl[i - 1] = h[i - 1]
      BY <1>3, <2>1
    <3> QED
      BY <3>1, <3>2, <3>3
  <2>2. CASE i = k
    <3>1. i # 1 => fl[i - 1] = h[i - 1]
      BY <1>3, <2>2
    <3> QED
      BY <1>3, <2>2, <3>1
  <2> QED
    BY <1>3, <2>1, <2>2
<1>6. fl = [i \in 1 .. k |-> fl[i]]
  OBVIOUS
<1> HIDE DEF fl
<1>7. fl = [i \in 1 .. k |-> IF i = 1 THEN seqs[i] ELSE fl[i - 1] \o seqs[i]]
  BY <1>5, <1>6
<1>8. Flats(fl, seqs, k)
  BY <1>7, Zenon DEF Flats
<1> QED
  BY <1>1, <1>8

(* It gives the flattening.                                                *)
LEMMA FlattenIs ==
    ASSUME NEW seqs, NEW n \in Nat, n > 0, Len(seqs) = n
    PROVE  \E fl : Flats(fl, seqs, n) /\ FlattenSeq(seqs) = fl[n]
<1> DEFINE U(f) == f = [i \in 1 .. Len(seqs) |-> IF i = 1 THEN seqs[i] ELSE f[i - 1] \o seqs[i]]
           fl == CHOOSE f : U(f)
<1>1. ASSUME NEW f PROVE U(f) <=> Flats(f, seqs, n)
  BY Zenon DEF Flats
<1>2. U(fl)
  <2>1. \E f : U(f)
    BY <1>1, FlatsExist
  <2> HIDE DEF U
  <2> QED
    BY <2>1, Zenon
<1>3. Len(seqs) # 0
  OBVIOUS
<1>4. FlattenSeq(seqs) = fl[Len(seqs)]
  BY <1>3, Zenon DEF FlattenSeq
<1> HIDE DEF U, fl
<1> QED
  BY <1>1, <1>2, <1>4

(* Two functions agree up to n.                                            *)
Agree(f, g, n) == \A i \in 1 .. n : f[i] = g[i]

(* Two of them agree as far as their sequences do.                         *)
LEMMA FlatsAgree ==
    ASSUME NEW s, NEW t, NEW m \in Nat, NEW n \in Nat, NEW f, NEW g,
           Flats(f, s, m), Flats(g, t, n), m <= n, Agree(s, t, m)
    PROVE  Agree(f, g, m)
<1> DEFINE Wrong == {k \in 1 .. m : f[k] # g[k]}
<1> SUFFICES ASSUME Wrong # {} PROVE FALSE
  BY DEF Agree
<1>1. PICK k \in Wrong : \A j \in Wrong : ~ (j < k)
  <2>1. Wrong \subseteq Nat
    OBVIOUS
  <2> HIDE DEF Wrong
  <2> QED
    BY <2>1, SmallestNumber
<1>2. k \in 1 .. m /\ k \in 1 .. n /\ f[k] # g[k] /\ s[k] = t[k]
  BY <1>1 DEF Agree
<1>3. f[k] = IF k = 1 THEN s[k] ELSE f[k - 1] \o s[k]
  BY <1>2 DEF Flats
<1>4. g[k] = IF k = 1 THEN t[k] ELSE g[k - 1] \o t[k]
  BY <1>2 DEF Flats
<1>5. CASE k = 1
  BY <1>2, <1>3, <1>4, <1>5
<1>6. CASE k # 1
  <2>1. k - 1 \in 1 .. m /\ k - 1 < k
    BY <1>2, <1>6
  <2>2. f[k - 1] = g[k - 1]
    BY <1>1, <2>1
  <2> QED
    BY <1>2, <1>3, <1>4, <1>6, <2>2
<1> QED
  BY <1>5, <1>6

(* A sequence more is put at the end of the flattening.                    *)
LEMMA FlattenAppend ==
    ASSUME NEW S, NEW s \in Seq(Seq(S)), NEW x \in Seq(S)
    PROVE  FlattenSeq(Append(s, x)) = FlattenSeq(s) \o x
<1>1. PICK n, m, t : n = Len(s) /\ m = n + 1 /\ t = Append(s, x)
  OBVIOUS
<1>2. n \in Nat
  BY <1>1
<1>3. m \in Nat /\ m > 0 /\ m \in 1 .. m /\ m - 1 = n /\ n <= m
  BY <1>1, <1>2
<1>4. Len(t) = m /\ t[m] = x /\ \A i \in 1 .. n : t[i] = s[i]
  BY <1>1, AppendProperties
<1>5. PICK g : Flats(g, t, m) /\ FlattenSeq(t) = g[m]
  BY <1>3, <1>4, FlattenIs
<1>6. g[m] = IF m = 1 THEN t[m] ELSE g[m - 1] \o t[m]
  <2>1. g = [i \in 1 .. m |-> IF i = 1 THEN t[i] ELSE g[i - 1] \o t[i]]
    BY <1>5, Zenon DEF Flats
  <2>2. m \in 1 .. m
    BY <1>3
  <2> HIDE <1>4
  <2> QED
    BY <2>1, <2>2
<1>7. CASE n = 0
  <2>1. s = <<>>
    <3>1. s # <<>> => Len(s) \in Nat \ {0}
      BY EmptySeq, Zenon
    <3> QED
      BY <1>1, <1>7, <3>1
  <2>2. FlattenSeq(s) = <<>>
    <3>1. Len(s) = 0
      BY <1>1, <1>7
    <3> QED
      BY <2>1, <3>1, Zenon DEF FlattenSeq
  <2>3. <<>> \o x = x
    BY ConcatEmptySeq
  <2>4. m = 1
    BY <1>1, <1>7
  <2> QED
    BY <1>1, <1>4, <1>5, <1>6, <2>2, <2>3, <2>4, Zenon
<1>8. CASE n # 0
  <2>1. n > 0 /\ n \in 1 .. n
    BY <1>2, <1>8
  <2>2. PICK f : Flats(f, s, n) /\ FlattenSeq(s) = f[n]
    BY <1>1, <1>2, <2>1, FlattenIs
  <2>3. Agree(s, t, n)
    BY <1>4 DEF Agree
  <2>4. Agree(f, g, n)
    BY <1>2, <1>3, <1>5, <2>2, <2>3, FlatsAgree
  <2>5. f[n] = g[n]
    BY <2>1, <2>4, Zenon DEF Agree
  <2>6. m # 1
    BY <1>1, <1>2, <1>8
  <2> QED
    BY <1>1, <1>3, <1>4, <1>5, <1>6, <2>2, <2>5, <2>6, Zenon
<1> QED
  BY <1>7, <1>8

(* The bytes of an answer more.                                            *)
LEMMA BytesAppend ==
    ASSUME NEW given \in Seq(Answers), NEW a \in Answers
    PROVE  Pipe!Bytes(Append(given, a)) = Pipe!Bytes(given) \o a.bytes
<1>1. PICK n, m, all : n = Len(given) /\ m = n + 1 /\ all = Append(given, a)
  OBVIOUS
<1>2. n \in Nat /\ DOMAIN given = 1 .. n /\ \A i \in 1 .. n : given[i] \in Answers
  BY <1>1, LenProperties
<1>3. /\ all \in Seq(Answers) /\ Len(all) = m /\ all[m] = a
      /\ \A i \in 1 .. n : all[i] = given[i]
  BY <1>1, AppendProperties
<1>4. DOMAIN all = 1 .. m
  BY <1>3, LenProperties
<1>5. \A b \in Answers : b.bytes \in Seq(Bytes)
  BY DEF Answers, Bytes
<1>0. PICK s, t : s = [i \in DOMAIN given |-> given[i].bytes]
                  /\ t = [i \in DOMAIN all |-> all[i].bytes]
  OBVIOUS
<1>6. s = [i \in 1 .. n |-> given[i].bytes] /\ t = [i \in 1 .. m |-> all[i].bytes]
  BY <1>0, <1>2, <1>4
<1>7. s \in Seq(Seq(Bytes)) /\ Len(s) = n
  <2>1. \A i \in 1 .. n : given[i].bytes \in Seq(Bytes)
    BY <1>2, <1>5, Zenon
  <2>2. s \in [1 .. n -> Seq(Bytes)]
    BY <1>6, <2>1, Zenon
  <2> QED
    BY <1>2, <2>2
<1>8. t \in Seq(Seq(Bytes)) /\ Len(t) = m
  <2>1. \A i \in 1 .. m : all[i] \in Answers
    BY <1>3, <1>4, LenProperties
  <2>2. \A i \in 1 .. m : all[i].bytes \in Seq(Bytes)
    BY <1>5, <2>1, Zenon
  <2>3. t \in [1 .. m -> Seq(Bytes)]
    BY <1>6, <2>2, Zenon
  <2>4. m \in Nat
    BY <1>1, <1>2
  <2> QED
    BY <2>3, <2>4
<1>9. PICK u : u = Append(s, a.bytes)
  OBVIOUS
<1>10. /\ u \in Seq(Seq(Bytes)) /\ Len(u) = n + 1 /\ u[n + 1] = a.bytes
       /\ \A i \in 1 .. n : u[i] = s[i]
  <2>1. a.bytes \in Seq(Bytes)
    BY <1>5
  <2> QED
    BY <1>7, <1>9, <2>1, AppendProperties
<1>11. ASSUME NEW i \in 1 .. m PROVE t[i] = u[i]
  <2>1. t[i] = all[i].bytes
    BY <1>6, Zenon
  <2>2. CASE i = m
    BY <1>1, <1>3, <1>10, <2>1, <2>2, Zenon
  <2>3. CASE i # m
    <3>1. i \in 1 .. n
      BY <1>1, <1>2, <2>3
    <3>2. s[i] = given[i].bytes
      BY <1>6, <3>1, Zenon
    <3> QED
      BY <1>3, <1>10, <2>1, <3>1, <3>2, Zenon
  <2> QED
    BY <2>2, <2>3
<1>12. t = u
  <2>1. Len(t) = Len(u)
    BY <1>1, <1>8, <1>10
  <2>2. \A i \in 1 .. Len(t) : t[i] = u[i]
    BY <1>8, <1>11, Zenon
  <2> QED
    BY <1>8, <1>10, <2>1, <2>2, SeqEqual, Zenon
<1>13. FlattenSeq(t) = FlattenSeq(s) \o a.bytes
  <2>1. a.bytes \in Seq(Bytes)
    BY <1>5
  <2> QED
    BY <1>7, <1>9, <1>12, <2>1, FlattenAppend, Zenon
<1>14. \A w : Pipe!Bytes(w) = FlattenSeq([i \in DOMAIN w |-> w[i].bytes])
  BY Zenon DEF Pipe!Bytes, Pipe!FlattenSeq, FlattenSeq
<1>15. Pipe!Bytes(given) = FlattenSeq(s)
  BY <1>0, <1>14
<1>16. Pipe!Bytes(all) = FlattenSeq(t)
  BY <1>0, <1>14
<1> QED
  BY <1>1, <1>13, <1>15, <1>16, Zenon

(* One sequence goes on where the other ends.                              *)
Extends(s, t) == Len(s) <= Len(t) /\ \A i \in 1 .. Len(s) : t[i] = s[i]

(* From number n on, no answer has any bytes.                              *)
NoMore(all, n) == \A i \in n .. Len(all) : all[i].bytes = <<>>

(* Answers without bytes add nothing.                                      *)
LEMMA BytesOfEnds ==
    ASSUME NEW given \in Seq(Answers), NEW more \in Seq(Answers), Extends(given, more),
           NoMore(more, Len(given) + 1), Pipe!Bytes(given) \in Seq(Nat)
    PROVE  Pipe!Bytes(more) = Pipe!Bytes(given)
<1>1. PICK n, l : n = Len(given) /\ l = Len(more)
  OBVIOUS
<1>2. n \in Nat /\ l \in Nat
  BY <1>1, LenProperties
<1>3. n <= l /\ \A i \in 1 .. n : more[i] = given[i]
  BY <1>1, Zenon DEF Extends
<1>4. \A i \in n + 1 .. l : more[i].bytes = <<>>
  BY <1>1, Zenon DEF NoMore
<1> DEFINE UpTo(k) == SubSeq(more, 1, k)
<1>5. ASSUME NEW k \in 0 .. l
      PROVE  UpTo(k) \in Seq(Answers) /\ Len(UpTo(k)) = k /\ \A i \in 1 .. k : UpTo(k)[i] = more[i]
  <2>1. \A i \in 1 .. k : more[i] \in Answers
    BY <1>1, <1>2, LenProperties
  <2>2. k \in Int /\ 1 \in Int
    BY <1>2
  <2>3. /\ UpTo(k) \in Seq(Answers) /\ Len(UpTo(k)) = (IF 1 <= k THEN k - 1 + 1 ELSE 0)
        /\ \A i \in 1 .. k - 1 + 1 : UpTo(k)[i] = more[1 + i - 1]
    BY <2>1, <2>2, SubSeqProperties
  <2> HIDE DEF UpTo
  <2> QED
    BY <2>3
<1>6. UpTo(l) = more
  BY <1>1, SubSeqFull
<1> HIDE DEF UpTo
<1>7. UpTo(n) = given
  <2>1. n \in 0 .. l
    BY <1>2, <1>3
  <2>2. UpTo(n) \in Seq(Answers) /\ Len(UpTo(n)) = Len(given) /\ \A i \in 1 .. n : UpTo(n)[i] = more[i]
    BY <1>1, <1>5, <2>1
  <2>3. \A i \in 1 .. Len(UpTo(n)) : UpTo(n)[i] = given[i]
    BY <1>1, <1>3, <2>2, Zenon
  <2> QED
    BY <2>2, <2>3, SeqEqual, Zenon
<1>8. ASSUME NEW k \in n + 1 .. l, Pipe!Bytes(UpTo(k - 1)) = Pipe!Bytes(given)
      PROVE  Pipe!Bytes(UpTo(k)) = Pipe!Bytes(given)
  <2>1. k - 1 \in 0 .. l /\ k \in 0 .. l /\ k - 1 + 1 = k /\ k \in 1 .. l /\ k \in 1 .. k
    BY <1>2
  <2>2. more[k] \in Answers
    BY <1>1, <2>1, ElementOfSeq
  <2>3. PICK s, t, u : s = UpTo(k - 1) /\ t = UpTo(k) /\ u = Append(s, more[k])
    OBVIOUS
  <2>4. s \in Seq(Answers) /\ Len(s) = k - 1 /\ \A i \in 1 .. k - 1 : s[i] = more[i]
    BY <1>5, <2>1, <2>3
  <2>5. t \in Seq(Answers) /\ Len(t) = k /\ \A i \in 1 .. k : t[i] = more[i]
    BY <1>5, <2>1, <2>3
  <2>6. /\ u \in Seq(Answers) /\ Len(u) = k - 1 + 1 /\ u[k - 1 + 1] = more[k]
        /\ \A i \in 1 .. k - 1 : u[i] = s[i]
    BY <2>2, <2>3, <2>4, AppendProperties
  <2>7. ASSUME NEW i \in 1 .. k PROVE t[i] = u[i]
    <3>1. CASE i = k
      BY <2>1, <2>5, <2>6, <3>1, Zenon
    <3>2. CASE i # k
      <4>1. i \in 1 .. k - 1
        BY <2>1, <3>2
      <4> QED
        BY <2>4, <2>5, <2>6, <4>1, Zenon
    <3> QED
      BY <3>1, <3>2
  <2>8. t = u
    <3>1. Len(t) = Len(u)
      BY <2>1, <2>5, <2>6
    <3>2. \A i \in 1 .. Len(t) : t[i] = u[i]
      BY <2>5, <2>7, Zenon
    <3> QED
      BY <2>5, <2>6, <3>1, <3>2, SeqEqual, Zenon
  <2>9. Pipe!Bytes(u) = Pipe!Bytes(s) \o more[k].bytes
    BY <2>2, <2>3, <2>4, BytesAppend, Zenon
  <2>10. more[k].bytes = <<>>
    BY <1>4
  <2>11. Pipe!Bytes(given) \o <<>> = Pipe!Bytes(given)
    BY ConcatEmptySeq, Zenon
  <2> QED
    BY <1>8, <2>3, <2>8, <2>9, <2>10, <2>11, Zenon
<1> DEFINE Same(k) == Pipe!Bytes(UpTo(k)) = Pipe!Bytes(given)
<1>9. Same(n)
  BY <1>7, Zenon
<1>10. \A k \in n + 1 .. l : Same(k - 1) => Same(k)
  BY <1>8, Zenon
<1> HIDE DEF Same
<1> DEFINE Wrong == {k \in n .. l : ~Same(k)}
<1>11. Wrong = {}
  <2> SUFFICES ASSUME Wrong # {} PROVE FALSE
    OBVIOUS
  <2>1. PICK k \in Wrong : \A j \in Wrong : ~ (j < k)
    <3>1. Wrong \subseteq Nat
      <4>1. n .. l \subseteq Nat
        BY <1>2
      <4> QED
        BY <4>1, Zenon
    <3> HIDE DEF Wrong
    <3> QED
      BY <3>1, SmallestNumber
  <2>2. k \in n .. l /\ k # n
    BY <1>9, <2>1, Zenon
  <2>3. k \in n + 1 .. l /\ k - 1 \in n .. l /\ k - 1 < k
    BY <1>2, <2>2
  <2>4. Same(k - 1)
    BY <2>1, <2>3, Zenon
  <2>5. Same(k)
    BY <1>10, <2>3, <2>4, Zenon
  <2> QED
    BY <2>1, <2>5, Zenon
<1>12. l \in n .. l
  BY <1>2, <1>3
<1>13. Same(l)
  BY <1>11, <1>12, Zenon
<1> QED
  BY <1>6, <1>13, Zenon DEF Same

-----------------------------------------------------------------------------
(* Numbers, and the records that carry them.                               *)

(* Numbered bytes, one by one.                                             *)
LEMMA NumberedIs ==
    ASSUME NEW a \in Nat, NEW b \in Nat, a <= b
    PROVE  /\ Numbered(a, b) \in Seq(Nat) /\ Len(Numbered(a, b)) = b - a
           /\ \A i \in 1 .. b - a : Numbered(a, b)[i] = a + i
<1>1. PICK n : n = b - a
  OBVIOUS
<1>2. n \in Nat
  BY <1>1
<1>3. Numbered(a, b) = [i \in 1 .. n |-> a + i]
  BY <1>1 DEF Numbered
<1>4. Numbered(a, b) \in [1 .. n -> Nat]
  BY <1>2, <1>3
<1> QED
  BY <1>1, <1>2, <1>3, <1>4

(* What comes next goes on counting.                                       *)
LEMMA NumberedJoin ==
    ASSUME NEW a \in Nat, NEW b \in Nat, NEW c \in Nat, a <= b, b <= c
    PROVE  Numbered(a, b) \o Numbered(b, c) = Numbered(a, c)
<1>1. PICK s, t, u : s = Numbered(a, b) /\ t = Numbered(b, c) /\ u = Numbered(a, c)
  OBVIOUS
<1>2. s \in Seq(Nat) /\ Len(s) = b - a /\ \A i \in 1 .. b - a : s[i] = a + i
  BY <1>1, NumberedIs
<1>3. t \in Seq(Nat) /\ Len(t) = c - b /\ \A i \in 1 .. c - b : t[i] = b + i
  BY <1>1, NumberedIs
<1>4. a <= c
  OBVIOUS
<1>5. u \in Seq(Nat) /\ Len(u) = c - a /\ \A i \in 1 .. c - a : u[i] = a + i
  BY <1>1, <1>4, NumberedIs
<1>6. PICK v : v = s \o t
  OBVIOUS
<1>7. /\ v \in Seq(Nat) /\ Len(v) = Len(s) + Len(t)
      /\ \A i \in 1 .. Len(s) + Len(t) : v[i] = IF i <= Len(s) THEN s[i] ELSE t[i - Len(s)]
  BY <1>2, <1>3, <1>6, ConcatProperties
<1>8. Len(v) = Len(u) /\ Len(v) = c - a
  BY <1>2, <1>3, <1>5, <1>7
<1>9. ASSUME NEW i \in 1 .. c - a PROVE v[i] = u[i]
  <2>1. v[i] = IF i <= b - a THEN s[i] ELSE t[i - (b - a)]
    BY <1>2, <1>3, <1>7
  <2>2. CASE i <= b - a
    <3>1. i \in 1 .. b - a
      BY <2>2
    <3> QED
      BY <1>2, <1>5, <2>1, <2>2, <3>1
  <2>3. CASE i > b - a
    <3>1. i - (b - a) \in 1 .. c - b /\ b + (i - (b - a)) = a + i
      BY <2>3
    <3> QED
      BY <1>3, <1>5, <2>1, <2>3, <3>1
  <2> QED
    BY <2>2, <2>3
<1>10. v = u
  BY <1>5, <1>7, <1>8, <1>9, SeqEqual
<1> QED
  BY <1>1, <1>6, <1>10

(* Numbered bytes are cut into numbered bytes.                             *)
LEMMA NumberedCut ==
    ASSUME NEW a \in Nat, NEW b \in Nat, NEW n \in Nat, a + n <= b
    PROVE  /\ SubSeq(Numbered(a, b), 1, n) = Numbered(a, a + n)
           /\ SubSeq(Numbered(a, b), n + 1, Len(Numbered(a, b))) = Numbered(a + n, b)
<1>1. PICK s, t, u, l : s = Numbered(a, b) /\ t = Numbered(a, a + n) /\ u = Numbered(a + n, b)
                        /\ l = b - a
  OBVIOUS
<1>2. a <= b /\ a + n \in Nat /\ l \in Nat /\ n \in 0 .. l
  BY <1>1
<1>3. s \in Seq(Nat) /\ Len(s) = l /\ \A i \in 1 .. l : s[i] = a + i
  BY <1>1, <1>2, NumberedIs
<1>4. t \in Seq(Nat) /\ Len(t) = n /\ \A i \in 1 .. n : t[i] = a + i
  <2>1. PICK d : d = a + n
    OBVIOUS
  <2>2. d \in Nat /\ a <= d /\ d - a = n /\ t = Numbered(a, d)
    BY <1>1, <2>1
  <2>3. t \in Seq(Nat) /\ Len(t) = d - a /\ \A i \in 1 .. d - a : t[i] = a + i
    BY <2>2, NumberedIs
  <2> QED
    BY <2>2, <2>3
<1>5. u \in Seq(Nat) /\ Len(u) = l - n /\ \A i \in 1 .. l - n : u[i] = a + n + i
  <2>1. PICK d : d = a + n
    OBVIOUS
  <2>2. d \in Nat /\ d <= b /\ b - d = l - n /\ u = Numbered(d, b)
    BY <1>1, <2>1
  <2>3. u \in Seq(Nat) /\ Len(u) = b - d /\ \A i \in 1 .. b - d : u[i] = d + i
    BY <2>2, NumberedIs
  <2> QED
    BY <2>1, <2>2, <2>3
<1>6. SubSeq(s, 1, n) = t
  <2>1. PICK v : v = SubSeq(s, 1, n)
    OBVIOUS
  <2>2. \A i \in 1 .. n : s[i] \in Nat
    BY <1>2, <1>3
  <2>3. /\ v \in Seq(Nat) /\ Len(v) = (IF 1 <= n THEN n - 1 + 1 ELSE 0)
        /\ \A i \in 1 .. n - 1 + 1 : v[i] = s[1 + i - 1]
    BY <2>1, <2>2, SubSeqProperties
  <2>4. Len(v) = n /\ \A i \in 1 .. n : v[i] = s[i]
    BY <2>3
  <2>5. \A i \in 1 .. n : v[i] = t[i]
    BY <1>2, <1>3, <1>4, <2>4
  <2> QED
    BY <1>4, <2>1, <2>3, <2>4, <2>5, SeqEqual
<1>7. SubSeq(s, n + 1, Len(s)) = u
  <2>1. PICK v : v = SubSeq(s, n + 1, Len(s))
    OBVIOUS
  <2>2. /\ v \in Seq(Nat) /\ Len(v) = l - n
        /\ \A i \in 1 .. l - n : v[i] = s[n + i]
    BY <1>2, <1>3, <2>1, RestOf
  <2>3. \A i \in 1 .. l - n : v[i] = u[i]
    <3> SUFFICES ASSUME NEW i \in 1 .. l - n PROVE v[i] = u[i]
      OBVIOUS
    <3>1. n + i \in 1 .. l /\ a + (n + i) = a + n + i
      BY <1>2
    <3> QED
      BY <1>3, <1>5, <2>2, <3>1
  <2> QED
    BY <1>5, <2>1, <2>2, <2>3, SeqEqual
<1> QED
  BY <1>1, <1>6, <1>7

(* The records rs are p, followed by q.                                    *)
Parts(rs, p, q) ==
    /\ Len(p) \in Nat /\ Len(q) \in Nat /\ Len(rs) = Len(p) + Len(q)
    /\ \A i \in 1 .. Len(p) : rs[i] = p[i]
    /\ \A i \in 1 .. Len(q) : rs[Len(p) + i] = q[i]

(* A record, between two numbers of bytes.                                 *)
Fills(r, a, b) == a <= b /\ IF r.kind = "data" THEN r.bytes = Numbered(a, b) ELSE b = a

(* Where the bytes of n records end.                                       *)
EndAt(rs, e, n, a, b) ==
    /\ e \in [0 .. n -> Nat] /\ e[0] = a /\ e[n] = b
    /\ \A j \in 1 .. n : Fills(rs[j], e[j - 1], e[j])

(* The ends of records, one by one.                                        *)
LEMMA CarryIs ==
    ASSUME NEW rs, NEW n \in Nat, Len(rs) = n, NEW a, NEW b
    PROVE  Carry(rs, a, b) <=> \E e : EndAt(rs, e, n, a, b)
<1>1. ASSUME NEW e
      PROVE  Carrying(rs, e) <=> \A j \in 1 .. n : Fills(rs[j], e[j - 1], e[j])
  BY Zenon DEF Carrying, Fills
<1>2. Carry(rs, a, b) <=> \E e \in [0 .. n -> Nat] : e[0] = a /\ e[n] = b /\ Carrying(rs, e)
  BY Zenon DEF Carry
<1> QED
  BY <1>1, <1>2, Zenon DEF EndAt

(* No record carries nothing.                                              *)
LEMMA CarryNone ==
    ASSUME NEW a \in Nat
    PROVE  Carry(<<>>, a, a)
<1> DEFINE e == [k \in 0 .. 0 |-> a]
<1>1. e \in [0 .. 0 -> Nat] /\ e[0] = a
  OBVIOUS
<1>2. \A j \in 1 .. 0 : Fills(<<>>[j], e[j - 1], e[j])
  OBVIOUS
<1>3. Len(<<>>) = 0 /\ 0 \in Nat
  OBVIOUS
<1> HIDE DEF e
<1>4. EndAt(<<>>, e, 0, a, a)
  BY <1>1, <1>2, Zenon DEF EndAt
<1> QED
  BY <1>3, <1>4, CarryIs, Zenon

(* One record carries what it holds.                                       *)
LEMMA CarryOne ==
    ASSUME NEW r, NEW a \in Nat, NEW b \in Nat, Fills(r, a, b)
    PROVE  Carry(<<r>>, a, b)
<1> DEFINE e == [k \in 0 .. 1 |-> IF k = 0 THEN a ELSE b]
           rs == <<r>>
<1>1. e \in [0 .. 1 -> Nat] /\ e[0] = a /\ e[1] = b
  OBVIOUS
<1>2. rs[1] = r /\ Len(rs) = 1 /\ 1 \in Nat
  OBVIOUS
<1> HIDE DEF e, rs
<1>3. \A j \in 1 .. 1 : Fills(rs[j], e[j - 1], e[j])
  <2> SUFFICES ASSUME NEW j \in 1 .. 1 PROVE Fills(rs[j], e[j - 1], e[j])
    OBVIOUS
  <2>1. j = 1 /\ j - 1 = 0
    OBVIOUS
  <2> QED
    BY <1>1, <1>2, <2>1, Zenon
<1>4. EndAt(rs, e, 1, a, b)
  BY <1>1, <1>3, Zenon DEF EndAt
<1>5. Carry(rs, a, b)
  BY <1>2, <1>4, CarryIs, Zenon
<1> QED
  BY <1>5 DEF rs

(* Bytes are not taken back.                                               *)
LEMMA CarryGrows ==
    ASSUME NEW rs, Len(rs) \in Nat, NEW a, NEW b, Carry(rs, a, b)
    PROVE  a \in Nat /\ b \in Nat /\ a <= b
<1>1. PICK n : n = Len(rs)
  OBVIOUS
<1>0. n \in Nat
  BY <1>1
<1>a. PICK e : EndAt(rs, e, n, a, b)
  BY <1>0, <1>1, CarryIs, Zenon
<1>2. /\ e \in [0 .. n -> Nat] /\ e[0] = a /\ e[n] = b
      /\ \A j \in 1 .. n : Fills(rs[j], e[j - 1], e[j])
  BY <1>a, Zenon DEF EndAt
<1>3. n \in Nat /\ \A k \in 0 .. n : e[k] \in Nat
  BY <1>0, <1>2
<1>4. \A j \in 1 .. n : e[j - 1] <= e[j]
  BY <1>2, Zenon DEF Fills
<1>5. a \in Nat /\ b \in Nat
  BY <1>2, <1>3
<1> DEFINE Wrong == {k \in 0 .. n : ~ (a <= e[k])}
<1>6. Wrong = {}
  <2> SUFFICES ASSUME Wrong # {} PROVE FALSE
    OBVIOUS
  <2>1. PICK k \in Wrong : \A j \in Wrong : ~ (j < k)
    <3>1. Wrong \subseteq Nat
      OBVIOUS
    <3> HIDE DEF Wrong
    <3> QED
      BY <3>1, SmallestNumber
  <2>2. k # 0 /\ k \in 0 .. n
    BY <1>2, <1>5, <2>1
  <2>3. k \in 1 .. n /\ k - 1 \in 0 .. n /\ k - 1 < k
    BY <1>3, <2>2
  <2>4. a <= e[k - 1]
    BY <2>1, <2>3
  <2>5. e[k - 1] <= e[k] /\ e[k - 1] \in Nat /\ e[k] \in Nat
    BY <1>3, <1>4, <2>2, <2>3
  <2>6. a <= e[k]
    BY <1>5, <2>4, <2>5
  <2> QED
    BY <2>1, <2>6
<1>7. n \in 0 .. n
  BY <1>3
<1>8. a <= e[n]
  BY <1>6, <1>7
<1> QED
  BY <1>2, <1>5, <1>8

(* Records carry what their parts do.                                      *)
LEMMA CarryJoin ==
    ASSUME NEW rs, NEW p, NEW q, Parts(rs, p, q), NEW a, NEW b, NEW c,
           Carry(p, a, b), Carry(q, b, c)
    PROVE  Carry(rs, a, c)
<1>1. PICK m, n, l : m = Len(p) /\ n = Len(q) /\ l = m + n
  OBVIOUS
<1>2. m \in Nat /\ n \in Nat /\ l \in Nat /\ Len(rs) = l
  BY <1>1 DEF Parts
<1>3. \A i \in 1 .. m : rs[i] = p[i]
  BY <1>1, Zenon DEF Parts
<1>4. \A i \in 1 .. n : rs[m + i] = q[i]
  BY <1>1, Zenon DEF Parts
<1>a. PICK f : EndAt(p, f, m, a, b)
  BY <1>1, <1>2, CarryIs, Zenon
<1>b. PICK g : EndAt(q, g, n, b, c)
  BY <1>1, <1>2, CarryIs, Zenon
<1>5. /\ f \in [0 .. m -> Nat] /\ f[0] = a /\ f[m] = b
      /\ \A j \in 1 .. m : Fills(p[j], f[j - 1], f[j])
  BY <1>a, Zenon DEF EndAt
<1>6. /\ g \in [0 .. n -> Nat] /\ g[0] = b /\ g[n] = c
      /\ \A j \in 1 .. n : Fills(q[j], g[j - 1], g[j])
  BY <1>b, Zenon DEF EndAt
<1> DEFINE e == [k \in 0 .. l |-> IF k <= m THEN f[k] ELSE g[k - m]]
<1>7. ASSUME NEW k \in 0 .. m PROVE k \in 0 .. l /\ e[k] = f[k]
  BY <1>1, <1>2
<1>8. ASSUME NEW k \in 0 .. n PROVE m + k \in 0 .. l /\ e[m + k] = g[k]
  <2>1. m + k \in 0 .. l /\ m + k - m = k /\ (m + k <= m => k = 0)
    BY <1>1, <1>2
  <2>2. CASE k = 0
    <3>1. m + k = m /\ m \in 0 .. m
      BY <1>2, <2>2
    <3>2. e[m] = f[m]
      BY <1>7, <3>1
    <3> QED
      BY <1>5, <1>6, <2>1, <2>2, <3>1, <3>2
  <2>3. CASE k # 0
    <3>1. PICK i : i = m + k
      OBVIOUS
    <3>2. i \in 0 .. l /\ ~ (i <= m) /\ i - m = k
      BY <1>2, <2>1, <2>3, <3>1
    <3>3. e[i] = g[i - m]
      BY <3>2
    <3> HIDE DEF e
    <3> QED
      BY <2>1, <3>1, <3>2, <3>3
  <2> QED
    BY <2>2, <2>3
<1>9. e \in [0 .. l -> Nat]
  <2> SUFFICES ASSUME NEW k \in 0 .. l PROVE (IF k <= m THEN f[k] ELSE g[k - m]) \in Nat
    BY Zenon
  <2>1. CASE k <= m
    <3>1. k \in 0 .. m
      BY <1>2, <2>1
    <3> QED
      BY <1>5, <2>1, <3>1
  <2>2. CASE ~ (k <= m)
    <3>1. k - m \in 0 .. n
      BY <1>1, <1>2, <2>2
    <3> QED
      BY <1>6, <2>2, <3>1
  <2> QED
    BY <2>1, <2>2
<1> HIDE DEF e
<1>10. e[0] = a /\ e[l] = c
  <2>1. 0 \in 0 .. m /\ n \in 0 .. n
    BY <1>2
  <2> QED
    BY <1>1, <1>5, <1>6, <1>7, <1>8, <2>1
<1>11. ASSUME NEW j \in 1 .. l PROVE Fills(rs[j], e[j - 1], e[j])
  <2>1. CASE j <= m
    <3>1. j \in 1 .. m /\ j \in 0 .. m /\ j - 1 \in 0 .. m
      BY <1>2, <2>1
    <3>2. rs[j] = p[j] /\ e[j] = f[j] /\ e[j - 1] = f[j - 1]
      BY <1>3, <1>7, <3>1
    <3> QED
      BY <1>5, <3>1, <3>2, Zenon
  <2>2. CASE ~ (j <= m)
    <3>1. PICK i : i = j - m
      OBVIOUS
    <3>2. i \in 1 .. n /\ i \in 0 .. n /\ i - 1 \in 0 .. n /\ m + i = j /\ m + (i - 1) = j - 1
      BY <1>1, <1>2, <2>2, <3>1
    <3>3. rs[j] = q[i] /\ e[j] = g[i] /\ e[j - 1] = g[i - 1]
      BY <1>4, <1>8, <3>2
    <3> QED
      BY <1>6, <3>2, <3>3, Zenon
  <2> QED
    BY <2>1, <2>2
<1>12. EndAt(rs, e, l, a, c)
  BY <1>9, <1>10, <1>11, Zenon DEF EndAt
<1> QED
  BY <1>2, <1>12, CarryIs, Zenon

(* And the other way round.                                                *)
LEMMA CarryCut ==
    ASSUME NEW rs, NEW p, NEW q, Parts(rs, p, q), NEW a, NEW c, Carry(rs, a, c)
    PROVE  \E b \in Nat : Carry(p, a, b) /\ Carry(q, b, c)
<1>1. PICK m, n, l : m = Len(p) /\ n = Len(q) /\ l = m + n
  OBVIOUS
<1>2. m \in Nat /\ n \in Nat /\ l \in Nat /\ Len(rs) = l
  BY <1>1 DEF Parts
<1>3. \A i \in 1 .. m : rs[i] = p[i]
  BY <1>1, Zenon DEF Parts
<1>4. \A i \in 1 .. n : rs[m + i] = q[i]
  BY <1>1, Zenon DEF Parts
<1>a. PICK e : EndAt(rs, e, l, a, c)
  BY <1>2, CarryIs, Zenon
<1>5. /\ e \in [0 .. l -> Nat] /\ e[0] = a /\ e[l] = c
      /\ \A j \in 1 .. l : Fills(rs[j], e[j - 1], e[j])
  BY <1>a, Zenon DEF EndAt
<1> DEFINE f == [k \in 0 .. m |-> e[k]]
           g == [k \in 0 .. n |-> e[m + k]]
<1>6. f \in [0 .. m -> Nat] /\ g \in [0 .. n -> Nat]
  <2>1. \A k \in 0 .. m : k \in 0 .. l
    BY <1>1, <1>2
  <2>2. \A k \in 0 .. n : m + k \in 0 .. l
    BY <1>1, <1>2
  <2> QED
    BY <1>5, <2>1, <2>2
<1>7. \A k \in 0 .. m : f[k] = e[k]
  OBVIOUS
<1>8. \A k \in 0 .. n : g[k] = e[m + k]
  OBVIOUS
<1> HIDE DEF f, g
<1>9. e[m] \in Nat /\ f[0] = a /\ f[m] = e[m] /\ g[0] = e[m] /\ g[n] = c
  <2>1. m \in 0 .. l /\ 0 \in 0 .. m /\ m \in 0 .. m /\ 0 \in 0 .. n /\ n \in 0 .. n
        /\ m + 0 = m
    BY <1>1, <1>2
  <2> QED
    BY <1>1, <1>5, <1>7, <1>8, <2>1
<1>10. ASSUME NEW j \in 1 .. m PROVE Fills(p[j], f[j - 1], f[j])
  <2>1. j \in 0 .. m /\ j - 1 \in 0 .. m /\ j \in 1 .. l
    BY <1>1, <1>2
  <2>2. rs[j] = p[j] /\ f[j] = e[j] /\ f[j - 1] = e[j - 1]
    BY <1>3, <1>7, <2>1
  <2> QED
    BY <1>5, <2>1, <2>2, Zenon
<1>11. ASSUME NEW j \in 1 .. n PROVE Fills(q[j], g[j - 1], g[j])
  <2>1. PICK i : i = m + j
    OBVIOUS
  <2>2. j \in 0 .. n /\ j - 1 \in 0 .. n /\ i \in 1 .. l /\ m + (j - 1) = i - 1
    BY <1>1, <1>2, <2>1
  <2>3. rs[i] = q[j] /\ g[j] = e[i] /\ g[j - 1] = e[i - 1]
    BY <1>4, <1>8, <2>1, <2>2
  <2>4. Fills(rs[i], e[i - 1], e[i])
    BY <1>5, <2>2, Zenon
  <2> QED
    BY <2>3, <2>4, Zenon
<1>12. Carry(p, a, e[m])
  <2>1. EndAt(p, f, m, a, e[m])
    BY <1>6, <1>9, <1>10, Zenon DEF EndAt
  <2> QED
    BY <1>1, <1>2, <2>1, CarryIs, Zenon
<1>13. Carry(q, e[m], c)
  <2>1. EndAt(q, g, n, e[m], c)
    BY <1>6, <1>9, <1>11, Zenon DEF EndAt
  <2> QED
    BY <1>1, <1>2, <2>1, CarryIs, Zenon
<1> QED
  BY <1>9, <1>12, <1>13

-----------------------------------------------------------------------------
(* Records on the wire.                                                    *)

(* The sequence u is s, l elements, and then t, d elements.                *)
Follows(u, s, t, l, d) ==
    /\ Len(u) = l + d
    /\ \A i \in 1 .. l : u[i] = s[i]
    /\ \A i \in 1 .. d : u[l + i] = t[i]

(* What two sequences are together.                                        *)
LEMMA JoinIs ==
    ASSUME NEW S, NEW s \in Seq(S), NEW t \in Seq(S), NEW u, u = s \o t,
           NEW l, l = Len(s), NEW d, d = Len(t)
    PROVE  u \in Seq(S) /\ Follows(u, s, t, l, d)
<1>1. l \in Nat /\ d \in Nat
  BY LenProperties
<1>2. /\ u \in Seq(S) /\ Len(u) = l + d
      /\ \A i \in 1 .. l + d : u[i] = IF i <= l THEN s[i] ELSE t[i - l]
  BY ConcatProperties, Zenon
<1>3. ASSUME NEW i \in 1 .. l PROVE u[i] = s[i]
  <2>1. i \in 1 .. l + d /\ i <= l
    BY <1>1
  <2> QED
    BY <1>2, <2>1, Zenon
<1>4. ASSUME NEW i \in 1 .. d PROVE u[l + i] = t[i]
  <2>1. PICK j : j = l + i
    OBVIOUS
  <2>2. j \in 1 .. l + d /\ ~ (j <= l) /\ j - l = i
    BY <1>1, <2>1
  <2>3. u[j] = t[j - l]
    BY <1>2, <2>2, Zenon
  <2> QED
    BY <2>1, <2>2, <2>3
<1> QED
  BY <1>2, <1>3, <1>4, Zenon DEF Follows

(* There is one quotient.                                                  *)
LEMMA QuotientIs ==
    ASSUME NEW a \in Nat, NEW m \in Nat, m > 0, NEW d \in Nat, m * d <= a, a < m * d + m
    PROVE  a \div m = d
<1>1. PICK e : e = a \div m
  OBVIOUS
<1>2. e \in Nat /\ m * e <= a /\ m * e > a - m
  BY <1>1, Quotient
<1>3. m * d \in Nat /\ m * e \in Nat
  BY <1>2
<1>4. ~ (e < d)
  <2> SUFFICES ASSUME e < d PROVE FALSE
    OBVIOUS
  <2>1. e + 1 <= d /\ e + 1 \in Nat
    BY <1>2
  <2>2. m * (e + 1) <= m * d
    BY <2>1
  <2>3. m * (e + 1) = m * e + m
    BY <1>2
  <2> QED
    BY <1>2, <1>3, <2>2, <2>3
<1>5. ~ (d < e)
  <2> SUFFICES ASSUME d < e PROVE FALSE
    OBVIOUS
  <2>1. d + 1 <= e /\ d + 1 \in Nat
    BY <1>2
  <2>2. m * (d + 1) <= m * e
    BY <1>2, <2>1
  <2>3. m * (d + 1) = m * d + m
    OBVIOUS
  <2> QED
    BY <1>2, <1>3, <2>2, <2>3
<1> QED
  BY <1>1, <1>2, <1>4, <1>5

(* Whole records before the rest.                                          *)
LEMMA QuotientAdds ==
    ASSUME NEW x \in Nat, NEW m \in Nat, m > 0, NEW n \in Nat
    PROVE  n * m + x \in Nat /\ (n * m + x) \div m = n + (x \div m) /\ x \div m \in Nat
<1>1. PICK d, a, e : d = x \div m /\ a = n * m + x /\ e = n + d
  OBVIOUS
<1>2. d \in Nat /\ m * d <= x /\ m * d > x - m
  BY <1>1, Quotient
<1>3. m * e = n * m + m * d
  BY <1>1, <1>2
<1>4. n * m \in Nat /\ m * d \in Nat
  BY <1>2
<1>5. a \in Nat /\ e \in Nat /\ m * e <= a /\ a < m * e + m
  BY <1>1, <1>2, <1>3, <1>4
<1>6. a \div m = e
  BY <1>5, QuotientIs
<1> QED
  BY <1>1, <1>2, <1>5, <1>6

(* The whole records of some bytes, one by one.                            *)
LEMMA WholeIs ==
    ASSUME NEW line \in Seq(WireBytes), NEW n, n = Len(line) \div RecordSize
    PROVE  /\ n \in Nat /\ Whole(line) \in Seq(RecordSet) /\ Len(Whole(line)) = n
           /\ \A i \in 1 .. n : i * RecordSize \in 1 .. Len(line)
                                /\ Whole(line)[i] = line[i * RecordSize][1]
<1>1. RecordSize \in Nat /\ RecordSize > 0
  BY StreamAssumption
<1>2. Len(line) \in Nat
  BY LenProperties
<1>3. n \in Nat /\ \A i \in 1 .. n : i * RecordSize \in 1 .. Len(line)
  BY <1>1, <1>2, Joined
<1>4. Whole(line) = [i \in 1 .. n |-> line[i * RecordSize][1]]
  BY Zenon DEF Whole
<1>5. \A i \in 1 .. n : line[i * RecordSize][1] \in RecordSet
  <2>1. \A i \in 1 .. n : line[i * RecordSize] \in WireBytes
    BY <1>3, ElementOfSeq
  <2>2. \A w \in WireBytes : w[1] \in RecordSet
    BY DEF WireBytes
  <2> QED
    BY <2>1, <2>2, Zenon
<1>6. Whole(line) \in [1 .. n -> RecordSet]
  BY <1>4, <1>5, Zenon
<1>7. Whole(line) \in Seq(RecordSet) /\ Len(Whole(line)) = n
  BY <1>3, <1>6
<1>8. \A i \in 1 .. n : Whole(line)[i] = line[i * RecordSize][1]
  BY <1>4, Zenon
<1> QED
  BY <1>3, <1>7, <1>8

(* A record's last byte is at its end.                                     *)
LEMMA OnWireIs ==
    ASSUME NEW records \in Seq(RecordSet), NEW n, n = Len(records)
    PROVE  /\ OnWire(records) \in Seq(WireBytes) /\ Len(OnWire(records)) = n * RecordSize
           /\ \A i \in 1 .. n : i * RecordSize \in 1 .. n * RecordSize
                                /\ OnWire(records)[i * RecordSize][1] = records[i]
<1>1. RecordSize \in Nat /\ RecordSize > 0 /\ n \in Nat
  BY StreamAssumption, LenProperties
<1>2. PICK l : l = n * RecordSize
  OBVIOUS
<1>3. l \in Nat
  BY <1>1, <1>2
<1>4. OnWire(records) = [k \in 1 .. l |->
          <<records[((k - 1) \div RecordSize) + 1], ((k - 1) % RecordSize) + 1>>]
  BY <1>2, Zenon DEF OnWire
<1>5. Len(OnWire(records)) = l
  BY <1>3, <1>4
<1>6. ASSUME NEW i \in 1 .. n
      PROVE  i * RecordSize \in 1 .. l /\ OnWire(records)[i * RecordSize][1] = records[i]
  <2>1. PICK k, d : k = i * RecordSize /\ d = i - 1
    OBVIOUS
  <2>2. k \in Nat /\ k >= RecordSize /\ k <= l
    <3>1. i * RecordSize <= n * RecordSize
      BY <1>1
    <3>2. i * RecordSize >= RecordSize /\ i * RecordSize \in Nat
      BY <1>1
    <3> QED
      BY <1>2, <2>1, <3>1, <3>2
  <2>3. (k - 1) \div RecordSize = d
    <3>1. RecordSize * d = k - RecordSize
      BY <1>1, <2>1
    <3>2. PICK a, md : a = k - 1 /\ md = RecordSize * d
      OBVIOUS
    <3>3. d \in Nat /\ a \in Nat /\ RecordSize * d <= a /\ a < RecordSize * d + RecordSize
      BY <1>1, <2>1, <2>2, <3>1, <3>2
    <3>4. a \div RecordSize = d
      BY <1>1, <3>3, QuotientIs
    <3> QED
      BY <3>2, <3>4
  <2>4. k \in 1 .. l /\ d + 1 = i
    BY <1>1, <1>3, <2>1, <2>2
  <2>5. OnWire(records)[k] = <<records[d + 1], ((k - 1) % RecordSize) + 1>>
    BY <1>4, <2>3, <2>4
  <2>6. PICK w, y : w = OnWire(records)[k] /\ y = ((k - 1) % RecordSize) + 1
    OBVIOUS
  <2>7. w = <<records[i], y>>
    BY <2>4, <2>5, <2>6, Zenon
  <2>8. w[1] = records[i]
    BY <2>7
  <2> QED
    BY <2>1, <2>4, <2>6, <2>8, Zenon
<1> QED
  BY <1>2, <1>5, <1>6, OnWireType

(* Records that are put on the wire after others follow them.              *)
LEMMA WholeGrows ==
    ASSUME NEW line \in Seq(WireBytes), NEW rs \in Seq(RecordSet), NEW q \in Nat,
           Len(line) = q * RecordSize, NEW more, more = line \o OnWire(rs)
    PROVE  /\ more \in Seq(WireBytes) /\ Len(more) = (q + Len(rs)) * RecordSize
           /\ Parts(Whole(more), Whole(line), rs)
<1>1. PICK n, m, l, size, w : n = Len(rs) /\ m = q + n /\ l = q * size /\ size = RecordSize
                              /\ w = OnWire(rs)
  BY Zenon
<1>2. size \in Nat /\ size > 0 /\ n \in Nat /\ m \in Nat /\ l \in Nat
  BY <1>1, StreamAssumption, LenProperties
<1>3. /\ w \in Seq(WireBytes) /\ Len(w) = n * size
      /\ \A i \in 1 .. n : i * size \in 1 .. n * size /\ w[i * size][1] = rs[i]
  BY <1>1, OnWireIs, Zenon
<1>4. /\ more \in Seq(WireBytes) /\ Len(more) = l + n * size
      /\ \A i \in 1 .. l : more[i] = line[i]
      /\ \A i \in 1 .. n * size : more[l + i] = w[i]
  <2>1. PICK d : d = n * size
    OBVIOUS
  <2>2. more = line \o w /\ l = Len(line) /\ d = Len(w) /\ w \in Seq(WireBytes)
    BY <1>1, <1>3, <2>1
  <2>3. more \in Seq(WireBytes) /\ Follows(more, line, w, l, d)
    BY <2>2, JoinIs, Zenon
  <2> QED
    BY <2>1, <2>3, Zenon DEF Follows
<1>5. Len(more) = m * size
  <2>1. m * size = q * size + n * size
    BY <1>1, <1>2
  <2> QED
    BY <1>1, <1>4, <2>1
<1>6. Len(more) \div size = m /\ Len(line) \div size = q
  <2>1. ASSUME NEW k \in Nat PROVE (k * size) \div size = k
    <3>1. PICK a : a = k * size
      OBVIOUS
    <3>2. a \in Nat /\ size * k <= a /\ a < size * k + size
      BY <1>2, <3>1
    <3>3. a \div size = k
      BY <1>2, <3>2, QuotientIs
    <3> QED
      BY <3>1, <3>3
  <2> QED
    BY <1>1, <1>2, <1>5, <2>1, Zenon
<1>7. /\ Len(Whole(more)) = m
      /\ \A i \in 1 .. m : i * size \in 1 .. Len(more) /\ Whole(more)[i] = more[i * size][1]
  BY <1>1, <1>4, <1>6, WholeIs, Zenon
<1>8. /\ Len(Whole(line)) = q
      /\ \A i \in 1 .. q : i * size \in 1 .. Len(line) /\ Whole(line)[i] = line[i * size][1]
  BY <1>1, <1>6, WholeIs, Zenon
<1>9. ASSUME NEW i \in 1 .. q PROVE Whole(more)[i] = Whole(line)[i]
  <2>1. i \in 1 .. m
    BY <1>1, <1>2
  <2>2. PICK k : k = i * size
    OBVIOUS
  <2>3. k \in 1 .. l /\ k \in 1 .. Len(more) /\ k <= l
    BY <1>1, <1>2, <1>7, <1>8, <2>1, <2>2
  <2>4. more[k] = line[k]
    BY <1>4, <2>3, Zenon
  <2> QED
    BY <1>7, <1>8, <2>1, <2>2, <2>4, Zenon
<1>10. ASSUME NEW i \in 1 .. n PROVE Whole(more)[q + i] = rs[i]
  <2>1. q + i \in 1 .. m
    BY <1>1, <1>2
  <2>2. PICK k, j : k = (q + i) * size /\ j = i * size
    OBVIOUS
  <2>3. k = l + j /\ j \in 1 .. n * size
    <3>1. (q + i) * size = q * size + i * size
      BY <1>2
    <3> QED
      BY <1>1, <1>3, <2>2, <3>1
  <2>6. more[k] = w[j]
    BY <1>4, <2>3, Zenon
  <2>7. w[j][1] = rs[i]
    BY <1>3, <2>2, Zenon
  <2>8. Whole(more)[q + i] = more[k][1]
    BY <1>7, <2>1, <2>2, Zenon
  <2> QED
    BY <2>6, <2>7, <2>8, Zenon
<1>11. Parts(Whole(more), Whole(line), rs)
  BY <1>1, <1>2, <1>7, <1>8, <1>9, <1>10, Zenon DEF Parts
<1> QED
  BY <1>1, <1>4, <1>5, <1>11, Zenon

(* Without its last bytes, a line has fewer whole records.                 *)
LEMMA WholeShrinks ==
    ASSUME NEW part \in Seq(WireBytes), NEW rest \in Seq(WireBytes), NEW line, line = part \o rest
    PROVE  line \in Seq(WireBytes) /\ \E q : Parts(Whole(line), Whole(part), q)
<1>1. PICK l, d, m, n, k : l = Len(part) /\ d = Len(line) /\ m = l \div RecordSize
                           /\ n = d \div RecordSize /\ k = n - m
  OBVIOUS
<1>2. line \in Seq(WireBytes) /\ d = l + Len(rest) /\ \A i \in 1 .. l : line[i] = part[i]
  BY <1>1, JoinIs DEF Follows
<1>3. l \in Nat /\ Len(rest) \in Nat /\ RecordSize \in Nat /\ RecordSize > 0
  BY <1>1, StreamAssumption, LenProperties
<1>4. l <= d /\ d \in Nat
  BY <1>2, <1>3
<1>5. /\ m \in Nat /\ Whole(part) \in Seq(RecordSet) /\ Len(Whole(part)) = m
      /\ \A i \in 1 .. m : i * RecordSize \in 1 .. l
                           /\ Whole(part)[i] = part[i * RecordSize][1]
  BY <1>1, WholeIs, Zenon
<1>6. /\ n \in Nat /\ Whole(line) \in Seq(RecordSet) /\ Len(Whole(line)) = n
      /\ \A i \in 1 .. n : i * RecordSize \in 1 .. d
                           /\ Whole(line)[i] = line[i * RecordSize][1]
  BY <1>1, <1>2, WholeIs, Zenon
<1>7. m <= n
  <2>1. RecordSize * m <= l
    BY <1>1, <1>3, Quotient
  <2>2. RecordSize * n > d - RecordSize
    BY <1>1, <1>3, <1>4, Quotient
  <2>3. RecordSize * n \in Nat /\ RecordSize * m \in Nat
    BY <1>3, <1>5, <1>6
  <2>4. RecordSize * n + RecordSize > RecordSize * m
    BY <1>3, <1>4, <2>1, <2>2, <2>3
  <2> SUFFICES ASSUME n < m PROVE FALSE
    BY <1>5, <1>6
  <2>5. n + 1 <= m /\ n + 1 \in Nat
    BY <1>5, <1>6
  <2>6. RecordSize * (n + 1) <= RecordSize * m
    BY <1>3, <1>5, <2>5
  <2>7. RecordSize * (n + 1) = RecordSize * n + RecordSize
    BY <1>3, <1>6
  <2> QED
    BY <1>3, <2>3, <2>4, <2>6, <2>7
<1>8. k \in Nat /\ n = m + k
  BY <1>1, <1>5, <1>6, <1>7
<1> DEFINE q == [i \in 1 .. k |-> Whole(line)[m + i]]
<1>9. Len(q) = k /\ \A i \in 1 .. k : q[i] = Whole(line)[m + i]
  BY <1>8
<1>10. ASSUME NEW i \in 1 .. m PROVE Whole(line)[i] = Whole(part)[i]
  <2>1. i \in 1 .. n
    BY <1>5, <1>6, <1>7
  <2>2. PICK j : j = i * RecordSize
    OBVIOUS
  <2>3. j \in 1 .. l /\ Whole(part)[i] = part[j][1] /\ Whole(line)[i] = line[j][1]
    BY <1>5, <1>6, <2>1, <2>2, Zenon
  <2>4. line[j] = part[j]
    BY <1>2, <2>3, Zenon
  <2> QED
    BY <2>3, <2>4
<1> HIDE DEF q
<1>11. Parts(Whole(line), Whole(part), q)
  <2>1. \A i \in 1 .. k : Whole(line)[m + i] = q[i]
    BY <1>9, Zenon
  <2>2. Len(Whole(line)) = Len(Whole(part)) + Len(q)
    BY <1>5, <1>6, <1>8, <1>9
  <2> QED
    BY <1>5, <1>8, <1>9, <1>10, <2>1, <2>2, Zenon DEF Parts
<1> QED
  BY <1>2, <1>11

(* Whole records are taken off the front of a line.                        *)
Taken(line, all, left, rest) ==
    /\ left \in Seq(WireBytes) /\ rest \in Seq(WireBytes)
    /\ Parts(Whole(line), Whole(all), Whole(rest))
    /\ \A q \in Nat : Len(line) = q * RecordSize => \E p \in Nat : Len(rest) = p * RecordSize

LEMMA WholeTaken ==
    ASSUME NEW all \in Seq(WireBytes), NEW later \in Seq(WireBytes),
           NEW n, n = Len(all) \div RecordSize,
           NEW left, left = SubSeq(all, n * RecordSize + 1, Len(all)),
           NEW line, line = all \o later, NEW rest, rest = left \o later
    PROVE  Taken(line, all, left, rest)
<1>1. PICK size, k, l, d, b, m : size = RecordSize /\ k = n * size /\ l = Len(all)
                                 /\ d = Len(later) /\ b = Len(rest) /\ m = b \div size
  BY Zenon
<1>2. size \in Nat /\ size > 0 /\ l \in Nat /\ d \in Nat
  BY <1>1, StreamAssumption, LenProperties
<1>3. n \in Nat /\ k \in 0 .. l
  BY <1>1, <1>2, Joined
<1>a. PICK x : x = l - k
  OBVIOUS
<1>b. x \in Nat /\ k \in Nat /\ l = k + x
  BY <1>2, <1>3, <1>a
<1>4. left \in Seq(WireBytes) /\ x = Len(left) /\ \A i \in 1 .. x : left[i] = all[k + i]
  <2>1. left = SubSeq(all, k + 1, Len(all))
    BY <1>1, Zenon
  <2>2. k \in 0 .. Len(all)
    BY <1>1, <1>3, Zenon
  <2>3. /\ SubSeq(all, k + 1, Len(all)) \in Seq(WireBytes)
        /\ Len(SubSeq(all, k + 1, Len(all))) = Len(all) - k
        /\ \A i \in 1 .. Len(all) - k : SubSeq(all, k + 1, Len(all))[i] = all[k + i]
    BY <2>2, RestOf, Zenon
  <2>4. Len(all) - k = x
    BY <1>1, <1>a, Zenon
  <2> QED
    BY <2>1, <2>3, <2>4, Zenon
<1>5. /\ rest \in Seq(WireBytes) /\ b = x + d
      /\ \A i \in 1 .. x : rest[i] = left[i]
      /\ \A i \in 1 .. d : rest[x + i] = later[i]
  <2>1. rest = left \o later /\ left \in Seq(WireBytes) /\ x = Len(left) /\ d = Len(later)
    BY <1>1, <1>4, Zenon
  <2>2. rest \in Seq(WireBytes) /\ Follows(rest, left, later, x, d)
    BY <2>1, JoinIs, Zenon
  <2> QED
    BY <1>1, <2>2, Zenon DEF Follows
<1>6. /\ line \in Seq(WireBytes) /\ Len(line) = l + d
      /\ \A i \in 1 .. l : line[i] = all[i]
      /\ \A i \in 1 .. d : line[l + i] = later[i]
  <2>1. l = Len(all) /\ d = Len(later)
    BY <1>1, Zenon
  <2>2. line \in Seq(WireBytes) /\ Follows(line, all, later, l, d)
    BY <2>1, JoinIs, Zenon
  <2> QED
    BY <2>2, Zenon DEF Follows
<1>7. b \in Nat /\ Len(line) = k + b
  <2>1. b = x + d /\ Len(line) = l + d
    BY <1>5, <1>6, Zenon
  <2> QED
    BY <1>2, <1>b, <2>1
<1>8. ASSUME NEW i \in 1 .. b PROVE line[k + i] = rest[i]
  <2>0. b = x + d
    BY <1>5, Zenon
  <2>1. CASE i <= x
    <3>1. i \in 1 .. x /\ k + i \in 1 .. l
      BY <1>b, <2>1
    <3>2. line[k + i] = all[k + i] /\ rest[i] = left[i] /\ left[i] = all[k + i]
      BY <1>4, <1>5, <1>6, <1>a, <3>1, Zenon
    <3> QED
      BY <3>2, Zenon
  <2>2. CASE ~ (i <= x)
    <3>1. PICK j : j = i - x
      OBVIOUS
    <3>2. j \in 1 .. d /\ x + j = i /\ l + j = k + i
      BY <1>2, <1>b, <2>0, <2>2, <3>1
    <3>3. rest[x + j] = later[j] /\ line[l + j] = later[j]
      BY <1>5, <1>6, <3>2, Zenon
    <3> QED
      BY <3>2, <3>3
  <2> QED
    BY <2>1, <2>2
<1>9. m \in Nat /\ Len(line) \div size = n + m
  <2>1. (n * size + b) \div size = n + (b \div size) /\ b \div size \in Nat
    BY <1>2, <1>3, <1>7, QuotientAdds, Zenon
  <2>2. Len(line) = n * size + b
    BY <1>1, <1>7, Zenon
  <2> QED
    BY <1>1, <2>1, <2>2, Zenon
<1>10. /\ Len(Whole(all)) = n
       /\ \A i \in 1 .. n : i * size \in 1 .. l /\ Whole(all)[i] = all[i * size][1]
  BY <1>1, WholeIs, Zenon
<1>11. /\ Len(Whole(rest)) = m
       /\ \A i \in 1 .. m : i * size \in 1 .. b /\ Whole(rest)[i] = rest[i * size][1]
  <2>1. rest \in Seq(WireBytes) /\ m = Len(rest) \div RecordSize
    BY <1>1, <1>5, Zenon
  <2>2. /\ Len(Whole(rest)) = m
        /\ \A i \in 1 .. m : i * RecordSize \in 1 .. Len(rest)
                             /\ Whole(rest)[i] = rest[i * RecordSize][1]
    BY <2>1, WholeIs, Zenon
  <2> QED
    BY <1>1, <2>2, Zenon
<1>12. /\ Len(Whole(line)) = n + m
       /\ \A i \in 1 .. n + m : Whole(line)[i] = line[i * size][1]
  <2>1. PICK c : c = n + m
    OBVIOUS
  <2>2. c = Len(line) \div RecordSize
    BY <1>1, <1>9, <2>1, Zenon
  <2>3. Len(Whole(line)) = c /\ \A i \in 1 .. c : Whole(line)[i] = line[i * RecordSize][1]
    BY <1>6, <2>2, WholeIs, Zenon
  <2> QED
    BY <1>1, <2>1, <2>3, Zenon
<1>13. ASSUME NEW i \in 1 .. n PROVE Whole(line)[i] = Whole(all)[i]
  <2>1. i \in 1 .. n + m
    BY <1>3, <1>9
  <2>2. PICK j : j = i * size
    OBVIOUS
  <2>3. j \in 1 .. l /\ Whole(all)[i] = all[j][1] /\ Whole(line)[i] = line[j][1]
    BY <1>10, <1>12, <2>1, <2>2, Zenon
  <2>4. line[j] = all[j]
    BY <1>6, <2>3, Zenon
  <2> QED
    BY <2>3, <2>4
<1>14. ASSUME NEW i \in 1 .. m PROVE Whole(line)[n + i] = Whole(rest)[i]
  <2>1. n + i \in 1 .. n + m
    BY <1>3, <1>9
  <2>2. PICK j, h : j = i * size /\ h = (n + i) * size
    OBVIOUS
  <2>3. h = k + j
    <3>1. (n + i) * size = n * size + i * size
      BY <1>2, <1>3
    <3> QED
      BY <1>1, <2>2, <3>1
  <2>4. j \in 1 .. b /\ Whole(rest)[i] = rest[j][1] /\ Whole(line)[n + i] = line[h][1]
    BY <1>11, <1>12, <2>1, <2>2, Zenon
  <2>5. line[h] = rest[j]
    BY <1>8, <2>3, <2>4, Zenon
  <2> QED
    BY <2>4, <2>5
<1>15. Parts(Whole(line), Whole(all), Whole(rest))
  BY <1>3, <1>9, <1>10, <1>11, <1>12, <1>13, <1>14, Zenon DEF Parts
<1>16. ASSUME NEW q \in Nat, Len(line) = q * size
       PROVE  \E p \in Nat : Len(rest) = p * size
  <2>1. q * size = k + b
    BY <1>7, <1>16, Zenon
  <2>2. k = n * size
    BY <1>1, Zenon
  <2>3. ASSUME NEW p \in Int, p = q - n PROVE p * size = b
    <3>1. p * size = q * size - n * size
      BY <1>2, <1>3, <2>3
    <3>2. PICK z, y : z = q * size /\ y = p * size
      OBVIOUS
    <3>3. y = z - k /\ z = k + b
      BY <2>1, <2>2, <3>1, <3>2
    <3>4. y = b
      BY <1>7, <1>b, <3>3
    <3> QED
      BY <3>2, <3>4
  <2>4. PICK p : p = q - n
    OBVIOUS
  <2>5. p \in Int /\ p * size = b
    BY <1>3, <2>3, <2>4
  <2>6. p >= 0
    <3> SUFFICES ASSUME p < 0 PROVE FALSE
      BY <2>5
    <3>1. p * size < 0
      BY <1>2, <2>5
    <3> QED
      BY <1>7, <2>5, <3>1
  <2>7. p \in Nat
    BY <2>5, <2>6
  <2> QED
    BY <1>1, <2>5, <2>7, Zenon
<1> QED
  BY <1>1, <1>4, <1>5, <1>15, <1>16, Zenon DEF Taken

-----------------------------------------------------------------------------
(* What the adaptor gives its user.                                        *)

(* Extending is transitive.                                                *)
LEMMA ExtendsOn ==
    ASSUME NEW s, NEW t, NEW u, Len(s) \in Nat, Len(t) \in Nat, Len(u) \in Nat,
           Extends(s, t), Extends(t, u)
    PROVE  Extends(s, u)
<1>1. PICK l, m, n : l = Len(s) /\ m = Len(t) /\ n = Len(u)
  OBVIOUS
<1>2. l \in Nat /\ m \in Nat /\ n \in Nat
  BY <1>1
<1>3. l <= m /\ \A i \in 1 .. l : t[i] = s[i]
  BY <1>1, Zenon DEF Extends
<1>4. m <= n /\ \A i \in 1 .. m : u[i] = t[i]
  BY <1>1, Zenon DEF Extends
<1>5. l <= n
  BY <1>2, <1>3, <1>4
<1>6. ASSUME NEW i \in 1 .. l PROVE u[i] = s[i]
  <2>1. i \in 1 .. m
    BY <1>2, <1>3
  <2> QED
    BY <1>3, <1>4, <2>1, Zenon
<1> QED
  BY <1>1, <1>5, <1>6, Zenon DEF Extends

(* A sequence extends itself.                                              *)
LEMMA ExtendsSame ==
    ASSUME NEW s, Len(s) \in Nat
    PROVE  Extends(s, s)
BY DEF Extends

(* Answers are a sequence.                                                 *)
LEMMA AnswersType ==
    ASSUME NEW t \in Adaptors
    PROVE  /\ t.answers \in Seq(Answers) /\ Len(t.answers) \in Nat
           /\ DOMAIN t.answers = 1 .. Len(t.answers)
           /\ \A i \in DOMAIN t.answers : t.answers[i] \in Answers
           /\ t.incoming \in Seq(Bytes) /\ t.requests \in Seq(Requests)
<1>1. t.answers \in Seq(Answers) /\ t.incoming \in Seq(Bytes) /\ t.requests \in Seq(Requests)
  BY DEF Adaptors, Bytes
<1> QED
  BY <1>1, LenProperties

(* Adaptors with the same answers and bytes hold the same.                 *)
LEMMA SameHeld ==
    ASSUME NEW t, NEW u, NEW b, u.answers = t.answers, u.incoming = t.incoming
    PROVE  (Holds(t, b) => Holds(u, b)) /\ (AnswersFit(t) => AnswersFit(u))
BY Zenon DEF Holds, AnswersFit

(* A read is answered with the bytes that come next.                       *)
LEMMA ServeFills ==
    ASSUME NEW t \in Adaptors, NEW req \in Requests, NEW b \in Nat, Holds(t, b), AnswersFit(t),
           NEW u, u = Serve(t, req)
    PROVE  Holds(u, b) /\ AnswersFit(u) /\ Extends(t.answers, u.answers)
<1>1. CASE t.stuck \/ Len(t.incoming) < req.min
  <2>1. u = [t EXCEPT !.stuck = TRUE]
    BY <1>1 DEF Serve
  <2>2. u.answers = t.answers /\ u.incoming = t.incoming
    BY <2>1 DEF Adaptors
  <2>3. Extends(t.answers, t.answers)
    BY AnswersType, ExtendsSame, Zenon
  <2> QED
    BY <2>2, <2>3, SameHeld
<1>2. CASE ~ (t.stuck \/ Len(t.incoming) < req.min)
  <2>1. PICK n : n = Smaller(req.max, Len(t.incoming))
    OBVIOUS
  <2>2. PICK bytes, left : bytes = SubSeq(t.incoming, 1, n)
                           /\ left = SubSeq(t.incoming, n + 1, Len(t.incoming))
    OBVIOUS
  <2>3. PICK a, all : a = [req |-> req, bytes |-> bytes] /\ all = Append(t.answers, a)
    OBVIOUS
  <2>4. u.answers = all /\ u.incoming = left
    <3>1. u = [t EXCEPT !.answers = all, !.incoming = left, !.requests = Tail(t.requests)]
      BY <1>2, <2>1, <2>2, <2>3 DEF Serve
    <3> QED
      BY <3>1 DEF Adaptors
  <2>5. req.min \in Nat /\ req.max \in Nat /\ req.min <= req.max
    BY StreamAssumption
  <2>6. /\ t.incoming \in Seq(Bytes) /\ t.answers \in Seq(Answers) /\ Len(t.incoming) \in Nat
        /\ Len(t.answers) \in Nat
    BY AnswersType, LenProperties
  <2>7. n \in 0 .. Len(t.incoming) /\ n <= req.max /\ bytes \in Seq(Bytes) /\ Len(bytes) = n
    <3>1. PICK s, max : s = t.incoming /\ max = req.max
      OBVIOUS
    <3>2. s \in Seq(Bytes) /\ max \in Nat /\ n = Smaller(max, Len(s))
      BY <2>1, <2>5, <2>6, <3>1, Zenon
    <3>3. /\ n \in 0 .. Len(s) /\ n <= max
          /\ SubSeq(s, 1, n) \in Seq(Bytes) /\ Len(SubSeq(s, 1, n)) = n
      BY <3>2, Piece, Zenon
    <3> QED
      BY <2>2, <3>1, <3>3, Zenon
  <2>8. a \in Answers
    BY <2>3, <2>7 DEF Answers, Bytes
  <2>9. PICK m \in 0 .. b : /\ Pipe!Bytes(t.answers) = Numbered(0, m)
                            /\ t.incoming = Numbered(m, b)
    BY DEF Holds
  <2>10. PICK k : k = m + n
    OBVIOUS
  <2>11. m \in Nat /\ n \in Nat /\ k \in 0 .. b /\ k \in Nat /\ m <= k
    <3>1. m \in Nat /\ m <= b
      BY <2>9
    <3>2. Len(Numbered(m, b)) = b - m
      BY <3>1, NumberedIs, Zenon
    <3>3. Len(t.incoming) = b - m
      BY <2>9, <3>2, Zenon
    <3> QED
      BY <2>7, <2>10, <3>1, <3>3
  <2>12. bytes = Numbered(m, k) /\ left = Numbered(k, b)
    <3>1. m + n <= b
      BY <2>10, <2>11
    <3>2. SubSeq(Numbered(m, b), 1, n) = Numbered(m, m + n)
          /\ SubSeq(Numbered(m, b), n + 1, Len(Numbered(m, b))) = Numbered(m + n, b)
      BY <2>11, <3>1, NumberedCut, Zenon
    <3> QED
      BY <2>2, <2>9, <2>10, <3>2, Zenon
  <2>13. Pipe!Bytes(all) = Numbered(0, k)
    <3>1. Pipe!Bytes(all) = Pipe!Bytes(t.answers) \o a.bytes
      BY <2>3, <2>6, <2>8, BytesAppend, Zenon
    <3>2. a.bytes = bytes
      BY <2>3
    <3>3. 0 \in Nat /\ 0 <= m
      BY <2>11
    <3>4. Numbered(0, m) \o Numbered(m, k) = Numbered(0, k)
      BY <2>11, <3>3, NumberedJoin, Zenon
    <3> QED
      BY <2>9, <2>12, <3>1, <3>2, <3>4, Zenon
  <2>14. Holds(u, b)
    BY <2>4, <2>11, <2>12, <2>13, Zenon DEF Holds
  <2>15. /\ all \in Seq(Answers) /\ Len(all) = Len(t.answers) + 1
         /\ \A i \in 1 .. Len(t.answers) : all[i] = t.answers[i]
         /\ all[Len(t.answers) + 1] = a
    BY <2>3, <2>6, <2>8, AppendProperties
  <2>16. Extends(t.answers, all)
    BY <2>6, <2>15 DEF Extends
  <2>17. Pipe!Fits(a)
    <3>1. Len(bytes) \in req.min .. req.max
      <4>1. n >= req.min
        BY <1>2, <2>1, <2>5, <2>6 DEF Smaller
      <4> QED
        BY <2>5, <2>7, <4>1
    <3>2. a.bytes = bytes /\ a.req = req
      BY <2>3
    <3> QED
      BY <3>1, <3>2, Zenon DEF Pipe!Fits
  <2>18. AnswersFit(u)
    <3>1. \A i \in 1 .. Len(t.answers) : Pipe!Fits(t.answers[i])
      BY AnswersType, Zenon DEF AnswersFit
    <3>2. DOMAIN all = 1 .. Len(t.answers) + 1
      BY <2>15, LenProperties
    <3>3. \A i \in 1 .. Len(t.answers) + 1 : i \in 1 .. Len(t.answers) \/ i = Len(t.answers) + 1
      BY <2>6
    <3>4. \A i \in DOMAIN all : Pipe!Fits(all[i])
      BY <2>15, <2>17, <3>1, <3>2, <3>3, Zenon
    <3> QED
      BY <2>4, <3>4, Zenon DEF AnswersFit
  <2> QED
    BY <2>4, <2>14, <2>16, <2>18
<1> QED
  BY <1>1, <1>2

(* So are those that can be.                                               *)
LEMMA RequestsFill ==
    ASSUME NEW t \in Adaptors, ~t.stuck, NEW b \in Nat, Holds(t, b), Replied(t),
           NEW u, u = processReadRequests(t)
    PROVE  Holds(u, b) /\ Replied(u) /\ Extends(t.answers, u.answers)
<1>0. Extends(t.answers, t.answers)
  BY AnswersType, ExtendsSame, Zenon
<1>1. CASE t.channel # "active"
  BY <1>0, <1>1 DEF processReadRequests
<1>2. CASE t.channel = "active" /\ t.hitEof
  <2>1. t.requests = <<>>
    BY <1>2 DEF Replied, AnswersEnd
  <2>2. 0 \in Nat /\ DOMAIN t.requests = 1 .. 0
    BY <2>1
  <2>3. PICK run : Runs(run, "requests", t, t.requests, 0) /\ FoldLeft(Serve, t, t.requests) = run[0]
    BY <2>2, ServeRuns, Zenon
  <2>4. run[0] = t
    BY <2>3 DEF Runs
  <2>5. u = [t EXCEPT !.stuck = FALSE]
    BY <1>2, <2>3, <2>4 DEF processReadRequests
  <2>6. u = t
    BY <2>5 DEF Adaptors
  <2> QED
    BY <1>0, <2>6
<1>3. CASE t.channel = "active" /\ ~t.hitEof
  <2> DEFINE n == Len(t.requests)
  <2>1. t.requests \in Seq(Requests)
    BY AnswersType
  <2>2. n \in Nat /\ DOMAIN t.requests = 1 .. n /\ \A i \in 1 .. n : t.requests[i] \in Requests
    BY <2>1, LenProperties
  <2>a. Len(t.requests) = n
    OBVIOUS
  <2> HIDE DEF n
  <2>3. PICK run : Runs(run, "requests", t, t.requests, n) /\ FoldLeft(Serve, t, t.requests) = run[n]
    BY <2>2, ServeRuns
  <2> DEFINE Good(v, k) == /\ v \in Adaptors /\ v.hitEof = t.hitEof
                           /\ ~v.stuck => Len(v.requests) = n - k
                           /\ Holds(v, b) /\ AnswersFit(v) /\ Extends(t.answers, v.answers)
             Wrong == {k \in 0 .. n : ~ Good(run[k], k)}
  <2>b. Good(t, 0)
    <3>1. AnswersFit(t)
      BY <1>3, Zenon DEF Replied
    <3>2. n - 0 = n
      BY <2>2
    <3> QED
      BY <1>0, <2>a, <3>1, <3>2, Zenon
  <2>c. ASSUME NEW k \in 1 .. n, NEW v, NEW w, Good(v, k - 1), w = Serve(v, t.requests[k])
        PROVE  Good(w, k)
    <3>1. v \in Adaptors /\ Holds(v, b) /\ AnswersFit(v) /\ Extends(t.answers, v.answers)
          /\ v.hitEof = t.hitEof
      BY <2>c, Zenon
    <3>2. ~v.stuck => Len(v.requests) = n - (k - 1)
      BY <2>c, Zenon
    <3>3. n - (k - 1) # 0 /\ n - (k - 1) - 1 = n - k
      BY <2>2
    <3>4. ~v.stuck => v.requests # <<>>
      BY <3>2, <3>3
    <3>5. t.requests[k] \in Requests
      BY <2>2, Zenon
    <3>6. w = Serve(v, t.requests[k])
      BY <2>c, Zenon
    <3> HIDE <2>c
    <3> HIDE DEF Good
    <3>7. /\ w \in Adaptors /\ w.hitEof = v.hitEof
          /\ ~w.stuck => ~v.stuck /\ Len(w.requests) = Len(v.requests) - 1
      BY <3>1, <3>4, <3>5, <3>6, ServeKeeps
    <3>8. Holds(w, b) /\ AnswersFit(w) /\ Extends(v.answers, w.answers)
      BY <3>1, <3>5, <3>6, ServeFills, Zenon
    <3>9. Extends(t.answers, w.answers)
      <4>1. Len(t.answers) \in Nat /\ Len(v.answers) \in Nat /\ Len(w.answers) \in Nat
        BY <3>1, <3>7, AnswersType, Zenon
      <4> QED
        BY <3>1, <3>8, <4>1, ExtendsOn, Zenon
    <3>10. ~w.stuck => Len(w.requests) = n - k
      BY <3>2, <3>3, <3>7
    <3> QED
      BY <3>1, <3>7, <3>8, <3>9, <3>10, Zenon DEF Good
  <2>d. run[0] = t /\ \A k \in 1 .. n : run[k] = Serve(run[k - 1], t.requests[k])
    BY <2>3 DEF Runs, Turn
  <2> HIDE DEF Good
  <2>4. Wrong = {}
    <3> SUFFICES ASSUME Wrong # {} PROVE FALSE
      OBVIOUS
    <3>1. PICK k \in Wrong : \A j \in Wrong : ~ (j < k)
      <4>1. Wrong \subseteq Nat
        OBVIOUS
      <4> HIDE DEF Wrong
      <4> QED
        BY <4>1, SmallestNumber
    <3>2. k # 0 /\ k \in 0 .. n
      BY <2>b, <2>d, <3>1, Zenon
    <3>3. k \in 1 .. n /\ k - 1 \in 0 .. n /\ k - 1 < k
      BY <2>2, <3>2
    <3>4. Good(run[k - 1], k - 1)
      BY <3>1, <3>3, Zenon
    <3>5. Good(run[k], k)
      BY <2>c, <2>d, <3>3, <3>4, Zenon
    <3> QED
      BY <3>1, <3>5, Zenon
  <2>5. PICK v : v = run[n]
    OBVIOUS
  <2>6. Good(v, n)
    <3>1. n \in 0 .. n
      BY <2>2
    <3> QED
      BY <2>4, <2>5, <3>1, Zenon
  <2>7. u = [v EXCEPT !.stuck = FALSE]
    BY <1>3, <2>3, <2>5 DEF processReadRequests
  <2>8. v \in Adaptors /\ v.hitEof = t.hitEof /\ Holds(v, b) /\ AnswersFit(v)
        /\ Extends(t.answers, v.answers)
    BY <2>6, Zenon DEF Good
  <2>9. u.answers = v.answers /\ u.incoming = v.incoming /\ u.hitEof = v.hitEof
    BY <2>7, <2>8 DEF Adaptors
  <2>10. Holds(u, b) /\ AnswersFit(u)
    BY <2>8, <2>9, SameHeld, Zenon
  <2>11. ~u.hitEof
    BY <1>3, <2>8, <2>9, Zenon
  <2> QED
    BY <2>8, <2>9, <2>10, <2>11, Zenon DEF Replied
<1> QED
  BY <1>1, <1>2, <1>3

(* At the end the rest are answered with none.                             *)
LEMMA EofFills ==
    ASSUME NEW t \in Adaptors, ~t.stuck, NEW b \in Nat, Holds(t, b), Replied(t),
           NEW u, u = handleEof(t)
    PROVE  Holds(u, b) /\ Replied(u) /\ Extends(t.answers, u.answers) /\ u.hitEof
<1>1. PICK s : s = processReadRequests(t)
  OBVIOUS
<1>2. s \in Adaptors /\ ~s.stuck /\ s.hitEof = t.hitEof
  BY <1>1, RequestsKeep
<1>3. Holds(s, b) /\ Replied(s) /\ Extends(t.answers, s.answers)
  BY <1>1, RequestsFill
<1>4. PICK none, all, l, d : /\ none = [i \in DOMAIN s.requests |->
                                           [req |-> s.requests[i], bytes |-> <<>>]]
                             /\ all = s.answers \o none
                             /\ l = Len(s.answers) /\ d = Len(s.requests)
  OBVIOUS
<1>5. u \in Adaptors /\ u.answers = all /\ u.incoming = s.incoming /\ u.requests = <<>> /\ u.hitEof
  <2>1. u = [s EXCEPT !.hitEof = TRUE, !.answers = all, !.requests = <<>>]
    BY <1>1, <1>4 DEF handleEof
  <2>2. u \in Adaptors
    BY EofKeeps
  <2> QED
    BY <1>2, <2>1, <2>2 DEF Adaptors
<1>6. /\ s.answers \in Seq(Answers) /\ s.requests \in Seq(Requests) /\ all \in Seq(Answers)
      /\ l \in Nat /\ d \in Nat
  BY <1>2, <1>4, <1>5, AnswersType, LenProperties, Zenon
<1>7. DOMAIN s.requests = 1 .. d
  BY <1>4, <1>6, LenProperties
<1>8. none \in Seq(Answers) /\ Len(none) = d /\ \A i \in 1 .. d : none[i].bytes = <<>>
  <2>1. \A i \in 1 .. d : s.requests[i] \in Requests
    BY <1>6, <1>7, LenProperties
  <2>2. <<>> \in Seq(1 .. MaxBytes)
    OBVIOUS
  <2>3. \A i \in 1 .. d : [req |-> s.requests[i], bytes |-> <<>>] \in Answers
    BY <2>1, <2>2 DEF Answers
  <2>4. none = [i \in 1 .. d |-> [req |-> s.requests[i], bytes |-> <<>>]]
    BY <1>4, <1>7
  <2>5. none \in [1 .. d -> Answers]
    BY <2>3, <2>4, Zenon
  <2>6. none \in Seq(Answers) /\ Len(none) = d
    BY <1>6, <2>5
  <2>7. \A i \in 1 .. d : none[i] = [req |-> s.requests[i], bytes |-> <<>>]
    BY <2>4, Zenon
  <2>8. \A x : [req |-> x, bytes |-> <<>>].bytes = <<>>
    OBVIOUS
  <2> QED
    BY <2>6, <2>7, <2>8, Zenon
<1>9. Follows(all, s.answers, none, l, d)
  <2>1. all = s.answers \o none /\ l = Len(s.answers) /\ d = Len(none)
    BY <1>4, <1>8, Zenon
  <2> QED
    BY <1>6, <1>8, <2>1, JoinIs, Zenon
<1>10. /\ Len(all) = l + d /\ \A i \in 1 .. l : all[i] = s.answers[i]
       /\ \A i \in 1 .. d : all[l + i] = none[i]
  BY <1>9, Zenon DEF Follows
<1>11. \A i \in l + 1 .. l + d : all[i].bytes = <<>>
  <2> SUFFICES ASSUME NEW i \in l + 1 .. l + d PROVE all[i].bytes = <<>>
    OBVIOUS
  <2>1. PICK j : j = i - l
    OBVIOUS
  <2>2. j \in 1 .. d /\ i = l + j
    BY <1>6, <2>1
  <2> QED
    BY <1>8, <1>10, <2>2, Zenon
<1>12. Extends(s.answers, all)
  <2>1. l <= l + d
    BY <1>6
  <2>2. l = Len(s.answers)
    BY <1>4, Zenon
  <2> QED
    BY <1>10, <2>1, <2>2, Zenon DEF Extends
<1>13. PICK m \in 0 .. b : Pipe!Bytes(s.answers) = Numbered(0, m) /\ s.incoming = Numbered(m, b)
  BY <1>3 DEF Holds
<1>14. Pipe!Bytes(all) = Pipe!Bytes(s.answers)
  <2>1. Pipe!Bytes(s.answers) \in Seq(Nat)
    <3>1. 0 \in Nat /\ m \in Nat /\ 0 <= m
      OBVIOUS
    <3>2. Numbered(0, m) \in Seq(Nat)
      BY <3>1, NumberedIs, Zenon
    <3> QED
      BY <1>13, <3>2, Zenon
  <2>2. NoMore(all, Len(s.answers) + 1)
    <3>1. l = Len(s.answers)
      BY <1>4, Zenon
    <3> QED
      BY <1>10, <1>11, <3>1, Zenon DEF NoMore
  <2> QED
    BY <1>6, <1>12, <2>1, <2>2, BytesOfEnds, Zenon
<1>15. Holds(u, b)
  BY <1>5, <1>13, <1>14, Zenon DEF Holds
<1>16. Extends(t.answers, u.answers)
  <2>1. Len(t.answers) \in Nat /\ Len(s.answers) \in Nat /\ Len(all) \in Nat
    BY <1>2, <1>6, AnswersType, LenProperties, Zenon
  <2> QED
    BY <1>3, <1>5, <1>12, <2>1, ExtendsOn, Zenon
<1>17. AnswersEnd(u)
  <2>1. DOMAIN all = 1 .. l + d
    BY <1>6, <1>10, LenProperties
  <2>2. ASSUME NEW i \in 1 .. l + d
        PROVE  Pipe!Fits(all[i]) \/ \A j \in i .. l + d : Pipe!IsEnd(all[j])
    <3>1. \A j \in l + 1 .. l + d : Pipe!IsEnd(all[j])
      BY <1>11, Zenon DEF Pipe!IsEnd
    <3>2. CASE i > l
      <4>1. \A j \in i .. l + d : j \in l + 1 .. l + d
        BY <1>6, <3>2
      <4> QED
        BY <3>1, <4>1, Zenon
    <3>3. CASE i <= l
      <4>1. i \in 1 .. l /\ i \in DOMAIN s.answers
        <5>1. DOMAIN s.answers = 1 .. l
          BY <1>4, <1>6, LenProperties
        <5> QED
          BY <1>6, <3>3, <5>1
      <4>2. CASE Pipe!Fits(s.answers[i])
        BY <1>10, <4>1, <4>2, Zenon
      <4>3. CASE ~Pipe!Fits(s.answers[i])
        <5>1. s.hitEof
          BY <1>3, <4>1, <4>3, Zenon DEF Replied, AnswersFit
        <5>2. \A j \in i .. Len(s.answers) : Pipe!IsEnd(s.answers[j])
          BY <1>3, <4>1, <4>3, <5>1, Zenon DEF Replied, AnswersEnd
        <5>3. l = Len(s.answers)
          BY <1>4, Zenon
        <5>4. \A j \in i .. l + d : j \in l + 1 .. l + d \/ (j \in i .. l /\ j \in 1 .. l)
          BY <1>6, <4>1
        <5> QED
          BY <1>10, <3>1, <5>2, <5>3, <5>4, Zenon
      <4> QED
        BY <4>2, <4>3
    <3> QED
      BY <1>6, <3>2, <3>3
  <2> QED
    BY <1>5, <1>10, <2>1, <2>2, Zenon DEF AnswersEnd
<1> QED
  BY <1>5, <1>15, <1>16, <1>17, Zenon DEF Replied

(* A step of the adaptor: what it has answered stays.                      *)
Goes(t, u) == (t.hitEof => u.hitEof) /\ Extends(t.answers, u.answers)

(* A record brings its bytes.                                              *)
LEMMA RecordFills ==
    ASSUME NEW t \in Adaptors, ~t.stuck, NEW r \in RecordSet, NEW a \in Nat, NEW b \in Nat,
           Holds(t, a), Fills(r, a, b), Replied(t), NEW u, u = Received(t, r)
    PROVE  /\ Holds(u, b) /\ Replied(u) /\ Goes(t, u)
           /\ u.hitEof => t.hitEof \/ r.kind = "fatal"
<1>0. Extends(t.answers, t.answers)
  BY AnswersType, ExtendsSame, Zenon
<1>1. r.kind \in {"data", "finished", "fatal", "close"}
  BY DEF RecordSet
<1>2. CASE r.kind \in {"finished", "close"}
  <2>1. PICK c : u = [t EXCEPT !.channel = c]
    BY <1>2 DEF Received
  <2>2. /\ u.answers = t.answers /\ u.incoming = t.incoming /\ u.hitEof = t.hitEof
        /\ u.requests = t.requests
    BY <2>1 DEF Adaptors
  <2>3. a = b
    BY <1>2 DEF Fills
  <2>4. Holds(u, b)
    BY <2>2, <2>3, SameHeld, Zenon
  <2>5. Replied(u)
    BY <2>2, Zenon DEF Replied, AnswersEnd, AnswersFit
  <2>6. Goes(t, u)
    BY <1>0, <2>2, Zenon DEF Goes
  <2> QED
    BY <2>2, <2>4, <2>5, <2>6, Zenon
<1>3. CASE r.kind = "data"
  <2>1. PICK all, v : all = t.incoming \o r.bytes /\ v = [t EXCEPT !.incoming = all]
    OBVIOUS
  <2>2. /\ v \in Adaptors /\ ~v.stuck /\ v.incoming = all /\ v.answers = t.answers
        /\ v.requests = t.requests /\ v.hitEof = t.hitEof
    <3>1. r.bytes \in Seq(1 .. MaxBytes) /\ t.incoming \in Seq(1 .. MaxBytes)
      BY DEF RecordSet, Adaptors
    <3>2. all \in Seq(1 .. MaxBytes)
      BY <2>1, <3>1
    <3> QED
      BY <2>1, <3>2 DEF Adaptors
  <2>3. u = processReadRequests(v)
    BY <1>3, <2>1 DEF Received
  <2>4. a <= b /\ r.bytes = Numbered(a, b)
    BY <1>3 DEF Fills
  <2>5. PICK m \in 0 .. a : Pipe!Bytes(t.answers) = Numbered(0, m) /\ t.incoming = Numbered(m, a)
    BY DEF Holds
  <2>6. m \in Nat /\ m <= a /\ m \in 0 .. b
    BY <2>4
  <2>7. all = Numbered(m, b)
    <3>1. Numbered(m, a) \o Numbered(a, b) = Numbered(m, b)
      BY <2>4, <2>6, NumberedJoin, Zenon
    <3> QED
      BY <2>1, <2>4, <2>5, <3>1, Zenon
  <2>8. Holds(v, b)
    BY <2>2, <2>5, <2>6, <2>7, Zenon DEF Holds
  <2>9. Replied(v)
    BY <2>2, Zenon DEF Replied, AnswersEnd, AnswersFit
  <2>10. u \in Adaptors /\ u.hitEof = v.hitEof
    BY <2>2, <2>3, RequestsKeep
  <2>11. Holds(u, b) /\ Replied(u) /\ Extends(v.answers, u.answers)
    BY <2>2, <2>3, <2>8, <2>9, RequestsFill, Zenon
  <2> QED
    BY <2>2, <2>10, <2>11, Zenon DEF Goes
<1>4. CASE r.kind = "fatal"
  <2>1. PICK v : v = handleEof(t)
    OBVIOUS
  <2>2. v \in Adaptors
    BY <2>1, EofKeeps
  <2>3. Holds(v, a) /\ Replied(v) /\ Extends(t.answers, v.answers) /\ v.hitEof
    BY <2>1, EofFills
  <2>4. u = [v EXCEPT !.channel = "closed"]
    BY <1>4, <2>1 DEF Received
  <2>5. /\ u.answers = v.answers /\ u.incoming = v.incoming /\ u.hitEof = v.hitEof
        /\ u.requests = v.requests
    BY <2>2, <2>4 DEF Adaptors
  <2>6. a = b
    BY <1>4 DEF Fills
  <2>7. Holds(u, b)
    BY <2>3, <2>5, <2>6, SameHeld, Zenon
  <2>8. Replied(u)
    BY <2>3, <2>5, Zenon DEF Replied, AnswersEnd, AnswersFit
  <2>9. Goes(t, u)
    BY <2>3, <2>5, Zenon DEF Goes
  <2> QED
    BY <1>4, <2>7, <2>8, <2>9
<1> QED
  BY <1>1, <1>2, <1>3, <1>4

(* Wire bytes bring the bytes of their whole records.                      *)
Brought(t, all, u, b) ==
    /\ Holds(u, b) /\ Replied(u) /\ Goes(t, u)
    /\ u.partial = SubSeq(all, (Len(all) \div RecordSize) * RecordSize + 1, Len(all))
    /\ u.hitEof => t.hitEof \/ ~Harmless(Whole(all))

LEMMA DataFills ==
    ASSUME NEW t \in Adaptors, ~t.stuck, NEW bytes \in Seq(WireBytes),
           NEW all, all = t.partial \o bytes, NEW a \in Nat, NEW b \in Nat,
           Holds(t, a), Carry(Whole(all), a, b), Replied(t),
           NEW u, u = ReceivedData(t, bytes)
    PROVE  Brought(t, all, u, b)
<1>1. PICK n, records, left : /\ n = Len(all) \div RecordSize /\ records = Whole(all)
                              /\ left = SubSeq(all, n * RecordSize + 1, Len(all))
  OBVIOUS
<1>2. all \in Seq(WireBytes)
  <2>1. t.partial \in Seq(WireBytes)
    BY DEF Adaptors
  <2> QED
    BY <2>1, ConcatProperties, Zenon
<1>3. n \in Nat /\ records \in Seq(RecordSet) /\ Len(records) = n
  BY <1>1, <1>2, WholeIs, Zenon
<1>4. DOMAIN records = 1 .. n /\ \A i \in 1 .. n : records[i] \in RecordSet
  BY <1>3, LenProperties
<1>5. PICK run : Runs(run, "wire", t, records, n) /\ FoldLeft(Received, t, records) = run[n]
  BY <1>3, <1>4, ReceivedRuns, Zenon
<1>6. run[0] = t /\ \A k \in 1 .. n : run[k] = Received(run[k - 1], records[k])
  BY <1>5 DEF Runs, Turn
<1>7. PICK e : EndAt(records, e, n, a, b)
  BY <1>1, <1>3, CarryIs, Zenon
<1>8. /\ e \in [0 .. n -> Nat] /\ e[0] = a /\ e[n] = b
      /\ \A j \in 1 .. n : Fills(records[j], e[j - 1], e[j])
  BY <1>7, Zenon DEF EndAt
<1>9. \A k \in 0 .. n : e[k] \in Nat
  BY <1>8, Zenon
<1> DEFINE Good(v, k) == /\ v \in Adaptors /\ ~v.stuck
                         /\ Holds(v, e[k]) /\ Replied(v) /\ Goes(t, v)
                         /\ v.hitEof => t.hitEof \/ ~Harmless(records)
           Wrong == {k \in 0 .. n : ~ Good(run[k], k)}
<1>10. Good(t, 0)
  <2>1. Goes(t, t)
    BY AnswersType, ExtendsSame, Zenon DEF Goes
  <2> QED
    BY <1>8, <2>1, Zenon
<1>11. ASSUME NEW k \in 1 .. n, NEW v, NEW w, Good(v, k - 1), w = Received(v, records[k])
       PROVE  Good(w, k)
  <2>1. /\ v \in Adaptors /\ ~v.stuck /\ Holds(v, e[k - 1]) /\ Replied(v) /\ Goes(t, v)
        /\ v.hitEof => t.hitEof \/ ~Harmless(records)
    BY <1>11, Zenon
  <2>2. w = Received(v, records[k])
    BY <1>11, Zenon
  <2> HIDE <1>11
  <2> HIDE DEF Good
  <2>3. k - 1 \in 0 .. n /\ k \in 0 .. n
    BY <1>3
  <2>4. e[k - 1] \in Nat /\ e[k] \in Nat /\ Fills(records[k], e[k - 1], e[k])
        /\ records[k] \in RecordSet
    BY <1>4, <1>8, <1>9, <2>3, Zenon
  <2>5. w \in Adaptors /\ ~w.stuck
    BY <2>1, <2>2, <2>4, ReceivedKeeps, Zenon
  <2>6. /\ Holds(w, e[k]) /\ Replied(w) /\ Goes(v, w)
        /\ w.hitEof => v.hitEof \/ records[k].kind = "fatal"
    BY <2>1, <2>2, <2>4, RecordFills, Zenon
  <2>7. Goes(t, w)
    <3>1. Len(t.answers) \in Nat /\ Len(v.answers) \in Nat /\ Len(w.answers) \in Nat
      BY <2>1, <2>5, AnswersType, Zenon
    <3> QED
      BY <2>1, <2>6, <3>1, ExtendsOn, Zenon DEF Goes
  <2>8. records[k].kind = "fatal" => ~Harmless(records)
    BY <1>3, Zenon DEF Harmless
  <2>9. w.hitEof => t.hitEof \/ ~Harmless(records)
    BY <2>1, <2>6, <2>8, Zenon
  <2> QED
    BY <2>5, <2>6, <2>7, <2>9, Zenon DEF Good
<1> HIDE DEF Good
<1>12. Wrong = {}
  <2> SUFFICES ASSUME Wrong # {} PROVE FALSE
    OBVIOUS
  <2>1. PICK k \in Wrong : \A j \in Wrong : ~ (j < k)
    <3>1. Wrong \subseteq Nat
      OBVIOUS
    <3> HIDE DEF Wrong
    <3> QED
      BY <3>1, SmallestNumber
  <2>2. k # 0 /\ k \in 0 .. n
    BY <1>6, <1>10, <2>1, Zenon
  <2>3. k \in 1 .. n /\ k - 1 \in 0 .. n /\ k - 1 < k
    BY <1>3, <2>2
  <2>4. Good(run[k - 1], k - 1)
    BY <2>1, <2>3, Zenon
  <2>5. Good(run[k], k)
    BY <1>6, <1>11, <2>3, <2>4, Zenon
  <2> QED
    BY <2>1, <2>5, Zenon
<1>13. PICK v : v = run[n]
  OBVIOUS
<1>14. Good(v, n)
  <2>1. n \in 0 .. n
    BY <1>3
  <2> QED
    BY <1>12, <1>13, <2>1, Zenon
<1>15. /\ v \in Adaptors /\ Holds(v, b) /\ Replied(v) /\ Goes(t, v)
       /\ v.hitEof => t.hitEof \/ ~Harmless(records)
  BY <1>8, <1>14, Zenon DEF Good
<1>16. u = [v EXCEPT !.partial = left]
  <2>1. records = [i \in 1 .. n |-> all[i * RecordSize][1]]
    BY <1>1, Zenon DEF Whole
  <2> QED
    BY <1>1, <1>5, <1>13, <2>1 DEF ReceivedData
<1>17. /\ u.answers = v.answers /\ u.incoming = v.incoming /\ u.hitEof = v.hitEof
       /\ u.requests = v.requests /\ u.partial = left
  BY <1>15, <1>16 DEF Adaptors
<1>18. Holds(u, b)
  BY <1>15, <1>17, SameHeld, Zenon
<1>19. Replied(u)
  BY <1>15, <1>17, Zenon DEF Replied, AnswersEnd, AnswersFit
<1>20. Goes(t, u)
  BY <1>15, <1>17, Zenon DEF Goes
<1> QED
  BY <1>1, <1>15, <1>17, <1>18, <1>19, <1>20, Zenon DEF Brought

(* The user asks for bytes: it gets them, waits for them, or is told the   *)
(* end.                                                                    *)
Asked(t, req) ==
    IF t.hitEof
    THEN [t EXCEPT !.answers = Append(t.answers, [req |-> req, bytes |-> <<>>])]
    ELSE processReadRequests([t EXCEPT !.requests = Append(t.requests, req)])

LEMMA ReadFills ==
    ASSUME NEW t \in Adaptors, ~t.stuck, NEW req \in Requests, NEW b \in Nat,
           Holds(t, b), Replied(t), NEW u, u = Asked(t, req)
    PROVE  Holds(u, b) /\ Replied(u) /\ Goes(t, u) /\ u.hitEof = t.hitEof
<1>0. /\ t.answers \in Seq(Answers) /\ t.requests \in Seq(Requests) /\ Len(t.answers) \in Nat
      /\ DOMAIN t.answers = 1 .. Len(t.answers)
  BY AnswersType
<1>1. CASE t.hitEof
  <2>1. PICK a, all, l : a = [req |-> req, bytes |-> <<>>] /\ all = Append(t.answers, a)
                         /\ l = Len(t.answers)
    OBVIOUS
  <2>2. u = [t EXCEPT !.answers = all]
    BY <1>1, <2>1 DEF Asked
  <2>3. u.answers = all /\ u.incoming = t.incoming /\ u.requests = t.requests /\ u.hitEof = t.hitEof
    BY <2>2 DEF Adaptors
  <2>4. a \in Answers /\ a.bytes = <<>>
    <3>1. <<>> \in Seq(1 .. MaxBytes)
      OBVIOUS
    <3> QED
      BY <2>1, <3>1 DEF Answers
  <2>5. /\ all \in Seq(Answers) /\ Len(all) = l + 1
        /\ \A i \in 1 .. l : all[i] = t.answers[i]
        /\ all[l + 1] = a
    BY <1>0, <2>1, <2>4, AppendProperties
  <2>6. l \in Nat
    BY <1>0, <2>1
  <2>7. Extends(t.answers, all)
    <3>1. l <= l + 1 /\ l = Len(t.answers)
      BY <2>1, <2>6
    <3> QED
      BY <2>5, <3>1, Zenon DEF Extends
  <2>8. PICK m \in 0 .. b : Pipe!Bytes(t.answers) = Numbered(0, m) /\ t.incoming = Numbered(m, b)
    BY DEF Holds
  <2>9. Pipe!Bytes(all) = Numbered(0, m)
    <3>1. Pipe!Bytes(all) = Pipe!Bytes(t.answers) \o a.bytes
      BY <1>0, <2>1, <2>4, BytesAppend, Zenon
    <3>2. 0 \in Nat /\ m \in Nat /\ 0 <= m
      OBVIOUS
    <3>3. Numbered(0, m) \in Seq(Nat)
      BY <3>2, NumberedIs, Zenon
    <3>4. Numbered(0, m) \o <<>> = Numbered(0, m)
      BY <3>3, ConcatEmptySeq, Zenon
    <3> QED
      BY <2>4, <2>8, <3>1, <3>4, Zenon
  <2>10. Holds(u, b)
    BY <2>3, <2>8, <2>9, Zenon DEF Holds
  <2>11. t.requests = <<>> /\ \A i \in 1 .. l :
            Pipe!Fits(t.answers[i]) \/ \A j \in i .. l : Pipe!IsEnd(t.answers[j])
    BY <1>0, <1>1, <2>1, Zenon DEF Replied, AnswersEnd
  <2>12. ASSUME NEW i \in 1 .. l + 1
         PROVE  Pipe!Fits(all[i]) \/ \A j \in i .. l + 1 : Pipe!IsEnd(all[j])
    <3>1. Pipe!IsEnd(all[l + 1])
      BY <2>4, <2>5, Zenon DEF Pipe!IsEnd
    <3>2. CASE i = l + 1
      <4>1. \A j \in i .. l + 1 : j = l + 1
        BY <2>6, <3>2
      <4> QED
        BY <3>1, <4>1, Zenon
    <3>3. CASE i # l + 1
      <4>1. i \in 1 .. l
        BY <2>6, <3>3
      <4>2. \A j \in i .. l + 1 : j = l + 1 \/ (j \in i .. l /\ j \in 1 .. l)
        BY <2>6, <4>1
      <4> QED
        BY <2>5, <2>11, <3>1, <4>1, <4>2, Zenon
    <3> QED
      BY <3>2, <3>3
  <2>13. AnswersEnd(u)
    <3>1. DOMAIN all = 1 .. l + 1
      BY <2>5, <2>6, LenProperties
    <3> QED
      BY <2>3, <2>5, <2>11, <2>12, <3>1, Zenon DEF AnswersEnd
  <2> QED
    BY <1>1, <2>3, <2>7, <2>10, <2>13, Zenon DEF Replied, Goes
<1>2. CASE ~t.hitEof
  <2>1. PICK requests, v : requests = Append(t.requests, req)
                           /\ v = [t EXCEPT !.requests = requests]
    OBVIOUS
  <2>2. requests \in Seq(Requests)
    BY <1>0, <2>1
  <2>3. /\ v \in Adaptors /\ ~v.stuck /\ v.answers = t.answers /\ v.incoming = t.incoming
        /\ v.hitEof = t.hitEof
    BY <2>1, <2>2 DEF Adaptors
  <2>4. u = processReadRequests(v)
    BY <1>2, <2>1 DEF Asked
  <2>5. Holds(v, b)
    BY <2>3, SameHeld, Zenon
  <2>6. Replied(v)
    BY <1>2, <2>3, Zenon DEF Replied, AnswersFit
  <2>7. u.hitEof = v.hitEof
    BY <2>3, <2>4, RequestsKeep
  <2>8. Holds(u, b) /\ Replied(u) /\ Extends(v.answers, u.answers)
    BY <2>3, <2>4, <2>5, <2>6, RequestsFill, Zenon
  <2> QED
    BY <2>3, <2>7, <2>8, Zenon DEF Goes
<1> QED
  BY <1>1, <1>2

-----------------------------------------------------------------------------
(* The line, and the two ends of it.                                       *)

(* Records are harmless when their parts are.                              *)
LEMMA HarmlessParts ==
    ASSUME NEW rs, NEW p, NEW q, Parts(rs, p, q)
    PROVE  Harmless(rs) <=> Harmless(p) /\ Harmless(q)
<1>1. PICK n, m : n = Len(p) /\ m = Len(q)
  OBVIOUS
<1>2. /\ n \in Nat /\ m \in Nat /\ Len(rs) = n + m
      /\ \A i \in 1 .. n : rs[i] = p[i]
      /\ \A i \in 1 .. m : rs[n + i] = q[i]
  BY <1>1 DEF Parts
<1>3. /\ \A i \in 1 .. n : i \in 1 .. n + m
      /\ \A i \in 1 .. m : n + i \in 1 .. n + m
  BY <1>2
<1>4. ASSUME Harmless(rs) PROVE Harmless(p) /\ Harmless(q)
  <2>1. \A i \in 1 .. n + m : rs[i].kind # "fatal"
    BY <1>2, <1>4, Zenon DEF Harmless
  <2>2. \A i \in 1 .. n : p[i].kind # "fatal"
    BY <1>2, <1>3, <2>1, Zenon
  <2>3. \A i \in 1 .. m : q[i].kind # "fatal"
    BY <1>2, <1>3, <2>1, Zenon
  <2> QED
    BY <1>1, <2>2, <2>3, Zenon DEF Harmless
<1>5. ASSUME Harmless(p), Harmless(q) PROVE Harmless(rs)
  <2>1. ASSUME NEW i \in 1 .. n + m PROVE rs[i].kind # "fatal"
    <3>1. CASE i <= n
      <4>1. i \in 1 .. n
        BY <1>2, <3>1
      <4> QED
        BY <1>1, <1>2, <1>5, <4>1, Zenon DEF Harmless
    <3>2. CASE ~ (i <= n)
      <4>1. PICK k : k = i - n
        OBVIOUS
      <4>2. k \in 1 .. m /\ n + k = i
        BY <1>2, <3>2, <4>1
      <4> QED
        BY <1>1, <1>2, <1>5, <4>2, Zenon DEF Harmless
    <3> QED
      BY <3>1, <3>2
  <2> QED
    BY <1>2, <2>1, Zenon DEF Harmless
<1> QED
  BY <1>4, <1>5

(* The read under way has wire bytes.                                      *)
LEMMA HeldType ==
    ASSUME NEW answered \in Seq(Seq(WireBytes)), NEW waiting \in Seq(PendingReads)
    PROVE  Held(answered, waiting) \in Seq(WireBytes)
<1>1. CASE answered # <<>>
  <2>1. Head(answered) \in Seq(WireBytes)
    BY <1>1, HeadTailProperties
  <2> QED
    BY <1>1, <2>1, Zenon DEF Held
<1>2. CASE answered = <<>> /\ waiting # <<>>
  <2>1. Head(waiting) \in PendingReads
    BY <1>2, HeadTailProperties
  <2>2. Head(waiting).bytes \in Seq(WireBytes)
    BY <2>1 DEF PendingReads
  <2> QED
    BY <1>2, <2>2, Zenon DEF Held
<1>3. CASE answered = <<>> /\ waiting = <<>>
  <2>1. <<>> \in Seq(WireBytes)
    OBVIOUS
  <2> QED
    BY <1>3, <2>1, Zenon DEF Held
<1> QED
  BY <1>1, <1>2, <1>3

(* The pieces of the line are wire bytes.                                  *)
LEMMA LineType ==
    ASSUME StreamTypeOK
    PROVE  /\ tls.partial \in Seq(WireBytes) /\ Held(results, wireReads) \in Seq(WireBytes)
           /\ inbox \in Seq(WireBytes) /\ wire \in Seq(WireBytes)
           /\ tls \in Adaptors /\ ~tls.stuck
           /\ Line \in Seq(WireBytes)
<1>1. inbox \in Seq(WireBytes) /\ wire \in Seq(WireBytes) /\ tls \in Adaptors /\ ~tls.stuck
  BY DEF StreamTypeOK
<1>2. results \in Seq(Seq(WireBytes)) /\ wireReads \in Seq(PendingReads)
  BY DEF StreamTypeOK
<1>3. PICK h, p : h = Held(results, wireReads) /\ p = tls.partial
  OBVIOUS
<1>4. h \in Seq(WireBytes)
  BY <1>2, <1>3, HeldType
<1>5. p \in Seq(WireBytes)
  BY <1>1, <1>3 DEF Adaptors
<1>6. p \o (h \o (inbox \o wire)) \in Seq(WireBytes)
  BY <1>1, <1>4, <1>5, ConcatProperties
<1> QED
  BY <1>1, <1>3, <1>4, <1>5, <1>6, Zenon DEF Line

LEMMA LineNext ==
    ASSUME StreamTypeOK'
    PROVE  Line' \in Seq(WireBytes)
<1>1. inbox' \in Seq(WireBytes) /\ wire' \in Seq(WireBytes) /\ tls' \in Adaptors
  BY DEF StreamTypeOK
<1>2. results' \in Seq(Seq(WireBytes)) /\ wireReads' \in Seq(PendingReads)
  BY DEF StreamTypeOK
<1>3. PICK h, p, i, w :
          /\ h = Held(results', wireReads') /\ p = tls'.partial /\ i = inbox' /\ w = wire'
  OBVIOUS
<1>4. h \in Seq(WireBytes)
  BY <1>2, <1>3, HeldType
<1>5. p \in Seq(WireBytes)
  BY <1>1, <1>3 DEF Adaptors
<1>6. p \o (h \o (i \o w)) \in Seq(WireBytes)
  BY <1>1, <1>3, <1>4, <1>5, ConcatProperties
<1>7. Line' = p \o (h \o (i \o w))
  BY <1>3 DEF Line
<1> QED
  BY <1>6, <1>7

(* Sequences may be put together from either end.                          *)
Associate(s, t, u) == (s \o t) \o u = s \o (t \o u)

LEMMA Associates ==
    ASSUME NEW S, NEW s \in Seq(S), NEW t \in Seq(S), NEW u \in Seq(S)
    PROVE  Associate(s, t, u)
BY DEF Associate

(* What is put on the wire is put at the end of the line.                  *)
LEMMA LineEnd ==
    ASSUME StreamTypeOK, NEW front \in Seq(WireBytes), NEW back \in Seq(WireBytes)
    PROVE  tls.partial \o (Held(results, wireReads) \o (inbox \o (front \o back)))
           = (tls.partial \o (Held(results, wireReads) \o (inbox \o front))) \o back
<1>1. PICK h, p, i : h = Held(results, wireReads) /\ p = tls.partial /\ i = inbox
  OBVIOUS
<1>2. h \in Seq(WireBytes) /\ p \in Seq(WireBytes) /\ i \in Seq(WireBytes)
  BY <1>1, LineType
<1>3. (i \o front) \o back = i \o (front \o back)
  <2>1. Associate(i, front, back)
    BY <1>2, Associates, Zenon
  <2> QED
    BY <2>1, Zenon DEF Associate
<1>4. PICK inf : inf = i \o front
  OBVIOUS
<1>5. inf \in Seq(WireBytes)
  BY <1>2, <1>4, ConcatProperties
<1>6. (h \o inf) \o back = h \o (inf \o back)
  <2>1. Associate(h, inf, back)
    BY <1>2, <1>5, Associates, Zenon
  <2> QED
    BY <2>1, Zenon DEF Associate
<1>7. PICK hf : hf = h \o inf
  OBVIOUS
<1>8. hf \in Seq(WireBytes)
  BY <1>2, <1>5, <1>7, ConcatProperties
<1>9. (p \o hf) \o back = p \o (hf \o back)
  <2>1. Associate(p, hf, back)
    BY <1>2, <1>8, Associates, Zenon
  <2> QED
    BY <2>1, Zenon DEF Associate
<1> QED
  BY <1>1, <1>3, <1>4, <1>6, <1>7, <1>9, Zenon

(* What a sequence of records is, when records are put after others.       *)
LEMMA PartsJoin ==
    ASSUME NEW p \in Seq(RecordSet), NEW q \in Seq(RecordSet), NEW rs, rs = p \o q
    PROVE  rs \in Seq(RecordSet) /\ Parts(rs, p, q)
<1>1. PICK l, d : l = Len(p) /\ d = Len(q)
  OBVIOUS
<1>2. l \in Nat /\ d \in Nat
  BY <1>1
<1>3. rs \in Seq(RecordSet) /\ Follows(rs, p, q, l, d)
  BY <1>1, JoinIs
<1>4. Len(rs) = l + d /\ (\A i \in 1 .. l : rs[i] = p[i]) /\ \A i \in 1 .. d : rs[l + i] = q[i]
  BY <1>3, Zenon DEF Follows
<1> QED
  BY <1>1, <1>2, <1>3, <1>4, Zenon DEF Parts

(* And when one is put at the end, or taken from the front.                *)
LEMMA PartsAppend ==
    ASSUME NEW p \in Seq(RecordSet), NEW r \in RecordSet
    PROVE  Append(p, r) \in Seq(RecordSet) /\ Parts(Append(p, r), p, <<r>>)
<1>1. PICK n, rs, q : n = Len(p) /\ rs = Append(p, r) /\ q = <<r>>
  OBVIOUS
<1>2. n \in Nat /\ Len(q) = 1 /\ q[1] = r
  BY <1>1
<1>3. rs \in Seq(RecordSet) /\ Len(rs) = n + 1 /\ rs[n + 1] = r /\ \A i \in 1 .. n : rs[i] = p[i]
  BY <1>1, AppendProperties
<1>4. \A i \in 1 .. 1 : i = 1
  OBVIOUS
<1>5. \A i \in 1 .. 1 : rs[n + i] = q[i]
  BY <1>2, <1>3, <1>4, Zenon
<1>6. 1 \in Nat
  OBVIOUS
<1> QED
  BY <1>1, <1>2, <1>3, <1>5, <1>6, Zenon DEF Parts

LEMMA PartsTail ==
    ASSUME NEW rs \in Seq(RecordSet), rs # <<>>
    PROVE  /\ Head(rs) \in RecordSet /\ Tail(rs) \in Seq(RecordSet)
           /\ Parts(rs, <<Head(rs)>>, Tail(rs))
<1>1. PICK n, r, p, q : n = Len(rs) /\ r = Head(rs) /\ p = <<r>> /\ q = Tail(rs)
  OBVIOUS
<1>2. /\ r \in RecordSet /\ q \in Seq(RecordSet) /\ Len(q) = n - 1 /\ r = rs[1]
      /\ \A i \in 1 .. n - 1 : q[i] = rs[i + 1]
  BY <1>1, HeadTailProperties
<1>3. n \in Nat /\ n > 0
  BY <1>1, EmptySeq
<1>4. Len(p) = 1 /\ p[1] = r /\ 1 \in Nat
  BY <1>1
<1>5. Len(q) \in Nat /\ n = 1 + Len(q)
  BY <1>2, <1>3
<1>6. \A i \in 1 .. 1 : i = 1
  OBVIOUS
<1>7. \A i \in 1 .. 1 : rs[i] = p[i]
  BY <1>2, <1>4, <1>6, Zenon
<1>8. \A i \in 1 .. n - 1 : i + 1 = 1 + i
  BY <1>3
<1>9. \A i \in 1 .. n - 1 : rs[1 + i] = q[i]
  BY <1>2, <1>8, Zenon
<1> QED
  BY <1>1, <1>2, <1>4, <1>5, <1>7, <1>9, Zenon DEF Parts

(* No record has carried nothing.                                          *)
LEMMA CarryEmpty ==
    ASSUME NEW a, NEW b, Carry(<<>>, a, b)
    PROVE  a = b
BY DEF Carry

-----------------------------------------------------------------------------
(* The writing end.                                                        *)

(* The records carry what the writes that waited did, and those that wait  *)
(* now come after them.                                                    *)
Moves(old, n, records, new, m) ==
    \A c \in Nat : Carry(old, c, n) =>
        \E d \in Nat : Carry(records, c, d) /\ Carry(new, d, m)

(* What Carried says while the writer has its socket.                      *)
LEMMA CarriedIs ==
    ASSUME NEW t, NEW line, NEW queue, NEW later, NEW n,
           Carried(t, line, queue, later, n, FALSE)
    PROVE  \E a, b \in 0 .. n : \E q \in Nat : \E c \in Nat :
              /\ Holds(t, a) /\ Carry(Whole(line), a, b) /\ Len(line) = q * RecordSize
              /\ Carry(queue, b, c) /\ Carry(later, c, n)
BY Zenon DEF Carried

LEMMA IsCarried ==
    ASSUME NEW t, NEW line, NEW queue, NEW later, NEW n \in Nat,
           NEW a \in Nat, NEW b \in Nat, NEW q \in Nat, NEW c \in Nat, NEW lost,
           Holds(t, a), Carry(Whole(line), a, b), Len(line) = q * RecordSize,
           Carry(queue, b, c), Carry(later, c, n), Len(Whole(line)) \in Nat,
           Len(queue) \in Nat, Len(later) \in Nat
    PROVE  Carried(t, line, queue, later, n, lost)
<1>1. a <= b
  BY CarryGrows
<1>2. b <= c
  BY CarryGrows
<1>3. c <= n
  BY CarryGrows
<1>4. a \in 0 .. n /\ b \in 0 .. n
  BY <1>1, <1>2, <1>3
<1> QED
  BY <1>4, Zenon DEF Carried

LEMMA OutputCarries ==
    ASSUME PipeInv, ~fin, NEW records \in Seq(RecordSet), Output(records),
           UNCHANGED <<reader, inbox, wireReads, results, tls, fin>>,
           Moves(deferred, sent, records, deferred', sent'), sent' \in Nat, Len(deferred') \in Nat
    PROVE  /\ Carried(tls', Line', pendingWrites', deferred', sent', fin')
           /\ Harmless(Whole(Line)) /\ Harmless(pendingWrites) /\ Harmless(records)
              => Harmless(Whole(Line')) /\ Harmless(pendingWrites')
<1>1. PICK line, queue, t, n, m, later :
          /\ line = Line /\ queue = pendingWrites /\ t = tls /\ n = sent /\ m = sent'
          /\ later = deferred'
  OBVIOUS
<1>2. StreamTypeOK /\ Queue /\ Carried(t, line, queue, deferred, n, FALSE)
  <2>1. fin = FALSE
    BY DEF PipeInv, StreamInv, StreamTypeOK
  <2> QED
    BY <1>1, <2>1 DEF PipeInv, StreamInv
<1>3. PICK a \in 0 .. n, b \in 0 .. n, q \in Nat, c \in Nat :
          /\ Holds(t, a) /\ Carry(Whole(line), a, b) /\ Len(line) = q * RecordSize
          /\ Carry(queue, b, c) /\ Carry(deferred, c, n)
  BY <1>2, CarriedIs, Zenon
<1>4. PICK d \in Nat : Carry(records, c, d) /\ Carry(later, d, m)
  BY <1>1, <1>3, Zenon DEF Moves
<1>5. line \in Seq(WireBytes) /\ queue \in Seq(RecordSet) /\ n \in Nat /\ m \in Nat
  BY <1>1, <1>2, LineType DEF StreamTypeOK
<1>6. a \in Nat /\ b \in Nat
  BY <1>3, <1>5
<1>7. CASE reader = "app"
  <2>1. pendingWrites' = queue \o records /\ Line' = line
    BY <1>1, <1>7 DEF Output, Line
  <2>2. PICK more : more = queue \o records
    OBVIOUS
  <2>3. more \in Seq(RecordSet) /\ Parts(more, queue, records)
    BY <1>5, <2>2, PartsJoin, Zenon
  <2>4. Carry(more, b, d)
    BY <1>3, <1>4, <2>3, CarryJoin, Zenon
  <2>5. Len(more) \in Nat /\ Len(later) \in Nat
    BY <1>1, <2>3, LenProperties, Zenon
  <2>6. Len(Whole(line)) \in Nat
    BY <1>5, WholeIs, Zenon
  <2>7. Carried(t, line, more, later, m, fin')
    BY <1>3, <1>4, <1>5, <1>6, <2>4, <2>5, <2>6, IsCarried, Zenon
  <2>8. Harmless(more) <=> Harmless(queue) /\ Harmless(records)
    BY <2>3, HarmlessParts, Zenon
  <2> QED
    BY <1>1, <2>1, <2>2, <2>7, <2>8
<1>8. CASE reader # "app"
  <2>1. pendingWrites' = queue /\ wire' = wire \o OnWire(records)
    BY <1>1, <1>8 DEF Output
  <2>2. queue = <<>>
    BY <1>1, <1>2, <1>8 DEF Queue
  <2>3. b = c
    BY <1>3, <2>2, CarryEmpty
  <2>4. PICK put, more : put = OnWire(records) /\ more = line \o put
    OBVIOUS
  <2>5. Line' = more
    <3>1. put \in Seq(WireBytes) /\ wire \in Seq(WireBytes)
      BY <1>2, <2>4, OnWireType DEF StreamTypeOK
    <3>2. tls.partial \o (Held(results, wireReads) \o (inbox \o (wire \o put)))
          = (tls.partial \o (Held(results, wireReads) \o (inbox \o wire))) \o put
      BY <1>2, <3>1, LineEnd, Zenon
    <3>3. line = tls.partial \o (Held(results, wireReads) \o (inbox \o wire))
      BY <1>1, Zenon DEF Line
    <3>4. Line' = tls.partial \o (Held(results, wireReads) \o (inbox \o (wire \o put)))
      BY <2>1, <2>4 DEF Line
    <3> QED
      BY <2>4, <3>2, <3>3, <3>4, Zenon
  <2>6. /\ more \in Seq(WireBytes) /\ Len(more) = (q + Len(records)) * RecordSize
        /\ Parts(Whole(more), Whole(line), records)
    BY <1>3, <1>5, <2>4, WholeGrows, Zenon
  <2>7. q + Len(records) \in Nat /\ Len(later) \in Nat /\ Len(queue) \in Nat
    BY <1>1, <1>5
  <2>8. Carry(Whole(more), a, d)
    BY <1>3, <1>4, <2>3, <2>6, CarryJoin, Zenon
  <2>9. Carry(queue, d, d)
    BY <2>2, CarryNone, Zenon
  <2>10. Len(Whole(more)) \in Nat
    BY <2>6, WholeIs, Zenon
  <2>11. Carried(t, more, queue, later, m, fin')
    BY <1>3, <1>4, <1>5, <1>6, <2>6, <2>7, <2>8, <2>9, <2>10, IsCarried, Zenon
  <2>12. Harmless(Whole(more)) <=> Harmless(Whole(line)) /\ Harmless(records)
    BY <2>6, HarmlessParts, Zenon
  <2> QED
    BY <1>1, <2>1, <2>5, <2>11, <2>12
<1> QED
  BY <1>7, <1>8

(* The reader's end of the invariant is not disturbed by the writer's.     *)
LEMMA AtEndStays ==
    ASSUME PipeInv, UNCHANGED <<reader, wireReads, eof, results, tls>>,
           closing => closing', fin => fin'
    PROVE  AtEnd' /\ Replied(tls')
<1>1. Replied(tls') /\ AtEnd
  BY DEF PipeInv
<1>2. AtEnd'
  BY <1>1 DEF AtEnd
<1> QED
  BY <1>1, <1>2

(* The invariant, part by part.                                            *)
LEMMA PipeParts ==
    ASSUME StreamInv', Carried(tls', Line', pendingWrites', deferred', sent', fin'),
           closing' \/ fin' \/ (Harmless(Whole(Line')) /\ Harmless(pendingWrites')),
           Queue', AtEnd', Replied(tls')
    PROVE  PipeInv'
BY DEF PipeInv, Quiet

(* No data record is refused.                                              *)
LEMMA HarmlessOne ==
    ASSUME NEW r, r.kind # "fatal"
    PROVE  Harmless(<<r>>)
BY DEF Harmless

(* One action of the writing end after another.                            *)
LEMMA WriteKeepsPipe ==
    ASSUME PipeInv, NEW n \in 1 .. MaxBytes, Write(n)
    PROVE  PipeInv'
<1>1. StreamInv' /\ StreamTypeOK /\ Queue
  <2>1. StreamInv
    BY DEF PipeInv
  <2> QED
    BY <2>1, WriteStep DEF PipeInv, StreamInv
<1>2. PICK bytes, r : bytes = [i \in 1 .. n |-> sent + i] /\ r = Record("data", bytes)
  OBVIOUS
<1>3. /\ ~closing /\ ~fin /\ sent + n <= MaxBytes /\ sent' = sent + n
      /\ UNCHANGED <<reader, shaken, closing, fin, inbox, wireReads, eof, results, tls>>
      /\ \/ shaken /\ deferred = <<>> /\ Output(<<r>>) /\ deferred' = deferred
         \/ ~shaken /\ deferred' = Append(deferred, r) /\ UNCHANGED <<pendingWrites, writing, wire>>
  BY <1>2 DEF Write
<1>4. PICK k, m : k = sent /\ m = sent'
  OBVIOUS
<1>5. k \in Nat /\ m \in Nat /\ k <= m /\ m - k = n /\ sent' \in Nat
  BY <1>1, <1>3, <1>4 DEF StreamTypeOK
<1>6. r \in RecordSet /\ r.kind = "data" /\ r.bytes = bytes
  <2>1. MaxBytes \in Nat
    BY StreamAssumption
  <2>4. sent \in Nat /\ sent + n <= MaxBytes /\ bytes = [i \in 1 .. n |-> sent + i]
    BY <1>1, <1>2, <1>3 DEF StreamTypeOK
  <2>2. bytes \in [1 .. n -> 1 .. MaxBytes] /\ n \in Nat
    BY <2>1, <2>4
  <2>3. bytes \in Seq(1 .. MaxBytes)
    <3>1. PICK S : S = 1 .. MaxBytes
      OBVIOUS
    <3>2. bytes \in [1 .. n -> S] /\ n \in Nat
      BY <2>2, <3>1
    <3>3. bytes \in Seq(S)
      BY <3>2
    <3> QED
      BY <3>1, <3>3
  <2> QED
    BY <1>2, <2>3 DEF Record, RecordSet
<1>7. Carry(<<r>>, k, m)
  <2>1. bytes = Numbered(k, m)
    BY <1>2, <1>4, <1>5 DEF Numbered
  <2>2. Fills(r, k, m)
    BY <1>5, <1>6, <2>1, Zenon DEF Fills
  <2> QED
    BY <1>5, <2>2, CarryOne, Zenon
<1>8. Harmless(<<r>>)
  <2>1. r.kind # "fatal"
    BY <1>6
  <2> QED
    BY <2>1, HarmlessOne, Zenon
<1>9. AtEnd' /\ Replied(tls')
  BY <1>3, AtEndStays
<1>10. closing \/ fin \/ (Harmless(Whole(Line)) /\ Harmless(pendingWrites))
  BY DEF PipeInv, Quiet
<1>11. CASE shaken /\ deferred = <<>> /\ Output(<<r>>) /\ deferred' = deferred
  <2>1. deferred = <<>>
    BY <1>11
  <2>2. Moves(deferred, sent, <<r>>, deferred', sent')
    <3>1. \A c \in Nat : Carry(<<>>, c, k) => c = k
      BY CarryEmpty, Zenon
    <3>2. Carry(<<>>, m, m)
      BY <1>5, CarryNone, Zenon
    <3>3. Moves(<<>>, k, <<r>>, <<>>, m)
      BY <1>5, <1>7, <3>1, <3>2, Zenon DEF Moves
    <3> QED
      BY <1>4, <1>11, <2>1, <3>3
  <2>3. <<r>> \in Seq(RecordSet) /\ Len(deferred') \in Nat
    BY <1>6, <1>11, <2>1
  <2>4. /\ Carried(tls', Line', pendingWrites', deferred', sent', fin')
        /\ Harmless(Whole(Line)) /\ Harmless(pendingWrites) /\ Harmless(<<r>>)
           => Harmless(Whole(Line')) /\ Harmless(pendingWrites')
    <3>1. UNCHANGED <<reader, inbox, wireReads, results, tls, fin>> /\ ~fin
      BY <1>3
    <3> QED
      BY <1>5, <1>11, <2>2, <2>3, <3>1, OutputCarries
  <2>5. Queue'
    <3>1. Queue
      BY <1>1
    <3> QED
      BY <1>3, <1>11, <3>1 DEF Queue, Output
  <2> QED
    BY <1>1, <1>3, <1>8, <1>9, <1>10, <2>4, <2>5, PipeParts
<1>12. CASE ~shaken /\ deferred' = Append(deferred, r) /\ UNCHANGED <<pendingWrites, writing, wire>>
  <2>1. deferred \in Seq(RecordSet)
    BY <1>1 DEF StreamTypeOK
  <2>2. Line' = Line /\ pendingWrites' = pendingWrites
    BY <1>3, <1>12 DEF Line
  <2>3. Carried(tls', Line', pendingWrites', deferred', sent', fin')
    <3>1. PICK line, queue, t, old, new :
              /\ line = Line /\ queue = pendingWrites /\ t = tls /\ old = deferred
              /\ new = Append(deferred, r)
      OBVIOUS
    <3>2. Carried(t, line, queue, old, k, FALSE)
      <4>1. fin = FALSE
        BY <1>1, <1>3 DEF StreamTypeOK
      <4> QED
        BY <1>4, <3>1, <4>1 DEF PipeInv
    <3>3. PICK a \in 0 .. k, b \in 0 .. k, q \in Nat, c \in Nat :
              /\ Holds(t, a) /\ Carry(Whole(line), a, b) /\ Len(line) = q * RecordSize
              /\ Carry(queue, b, c) /\ Carry(old, c, k)
      BY <3>2, CarriedIs, Zenon
    <3>4. new \in Seq(RecordSet) /\ Parts(new, old, <<r>>)
      BY <1>6, <2>1, <3>1, PartsAppend, Zenon
    <3>5. Carry(new, c, m)
      BY <1>7, <3>3, <3>4, CarryJoin, Zenon
    <3>6. a \in Nat /\ b \in Nat
      BY <1>5, <3>3
    <3>7. Len(Whole(line)) \in Nat /\ Len(queue) \in Nat /\ Len(new) \in Nat
      <4>1. line \in Seq(WireBytes) /\ queue \in Seq(RecordSet)
        BY <1>1, <3>1, LineType DEF StreamTypeOK
      <4>2. Len(Whole(line)) \in Nat
        BY <4>1, WholeIs, Zenon
      <4> QED
        BY <3>4, <4>1, <4>2, LenProperties, Zenon
    <3>8. Carried(t, line, queue, new, m, fin')
      BY <1>5, <3>3, <3>5, <3>6, <3>7, IsCarried, Zenon
    <3> QED
      BY <1>3, <1>4, <1>12, <2>2, <3>1, <3>8
  <2>4. Queue'
    <3>1. Queue
      BY <1>1
    <3>2. \A i \in 1 .. Len(deferred') : deferred'[i].kind = "data"
      <4>1. \A i \in 1 .. Len(deferred) : deferred[i].kind = "data"
        BY <3>1 DEF Queue
      <4>2. PICK old, new, l : old = deferred /\ new = Append(deferred, r) /\ l = Len(old)
        OBVIOUS
      <4>3. l \in Nat /\ Len(new) = l + 1 /\ new[l + 1] = r /\ \A i \in 1 .. l : new[i] = old[i]
        BY <1>6, <2>1, <4>2, AppendProperties
      <4>4. \A i \in 1 .. l + 1 : i \in 1 .. l \/ i = l + 1
        BY <4>3
      <4>5. \A i \in 1 .. l + 1 : new[i].kind = "data"
        BY <1>6, <4>1, <4>2, <4>3, <4>4, Zenon
      <4>6. deferred' = new
        BY <1>12, <4>2
      <4> QED
        BY <4>3, <4>5, <4>6, Zenon
    <3>3. shaken' = shaken /\ writing' = writing /\ fin' = fin /\ reader' = reader
      BY <1>3, <1>12
    <3> QED
      BY <1>12, <2>2, <3>1, <3>2, <3>3 DEF Queue
  <2> QED
    BY <1>1, <1>3, <1>9, <1>10, <2>2, <2>3, <2>4, PipeParts
<1> QED
  BY <1>3, <1>11, <1>12

LEMMA ControlKeepsPipe ==
    ASSUME PipeInv, HandshakeFinishes \/ HandshakeFails \/ ShutdownWrite
    PROVE  PipeInv'
<1>1. StreamInv' /\ StreamTypeOK /\ Queue
  <2>1. StreamInv
    BY DEF PipeInv
  <2> QED
    BY <2>1, ControlStep DEF PipeInv, StreamInv
<1>2. PICK kind \in {"finished", "fatal", "close"} :
          Output(<<Record(kind, <<>>)>>) /\ (closing' \/ kind = "finished")
  BY DEF HandshakeFinishes, HandshakeFails, ShutdownWrite
<1>3. /\ ~fin /\ (closing => closing')
      /\ UNCHANGED <<reader, sent, deferred, fin, inbox, wireReads, eof, results, tls>>
  BY DEF HandshakeFinishes, HandshakeFails, ShutdownWrite
<1>4. PICK old, k, r, records : /\ old = deferred /\ k = sent
                                /\ r = Record(kind, <<>>) /\ records = <<r>>
  OBVIOUS
<1>5. old \in Seq(RecordSet) /\ Len(old) \in Nat /\ k \in Nat
  BY <1>1, <1>4 DEF StreamTypeOK
<1>6. r \in RecordSet /\ r.kind = kind
  <2>1. <<>> \in Seq(1 .. MaxBytes)
    OBVIOUS
  <2> QED
    BY <1>4, <2>1 DEF Record, RecordSet
<1>7. records \in Seq(RecordSet) /\ \A c \in Nat : Carry(records, c, c)
  <2>1. \A c \in Nat : Fills(r, c, c)
    BY <1>6 DEF Fills
  <2>2. \A c \in Nat : Carry(<<r>>, c, c)
    BY <2>1, CarryOne, Zenon
  <2> QED
    BY <1>4, <1>6, <2>2
<1>8. Moves(deferred, sent, records, deferred', sent')
  <2>1. Moves(old, k, records, old, k)
    BY <1>7, Zenon DEF Moves
  <2> QED
    BY <1>3, <1>4, <2>1
<1>9. /\ Carried(tls', Line', pendingWrites', deferred', sent', fin')
      /\ Harmless(Whole(Line)) /\ Harmless(pendingWrites) /\ Harmless(records)
         => Harmless(Whole(Line')) /\ Harmless(pendingWrites')
  <2>1. UNCHANGED <<reader, inbox, wireReads, results, tls, fin>> /\ ~fin
    BY <1>3
  <2>2. sent' \in Nat /\ Len(deferred') \in Nat
    BY <1>3, <1>4, <1>5
  <2> QED
    BY <1>2, <1>4, <1>7, <1>8, <2>1, <2>2, OutputCarries
<1>10. closing \/ fin \/ (Harmless(Whole(Line)) /\ Harmless(pendingWrites))
  BY DEF PipeInv, Quiet
<1>11. closing' \/ fin' \/ (Harmless(Whole(Line')) /\ Harmless(pendingWrites'))
  <2>1. CASE kind = "finished"
    <3>1. r.kind # "fatal"
      BY <1>6, <2>1
    <3>2. Harmless(records)
      BY <1>4, <3>1, HarmlessOne, Zenon
    <3> QED
      BY <1>3, <1>9, <1>10, <3>2
  <2> QED
    BY <1>2, <2>1
<1>12. Queue'
  <2>1. Queue
    BY <1>1
  <2> QED
    BY <1>2, <1>3, <2>1 DEF Queue, Output
<1>13. AtEnd' /\ Replied(tls')
  BY <1>3, AtEndStays
<1> QED
  BY <1>1, <1>9, <1>11, <1>12, <1>13, PipeParts

LEMMA FlushKeepsPipe ==
    ASSUME PipeInv, FlushDeferred
    PROVE  PipeInv'
<1>1. StreamInv' /\ StreamTypeOK /\ Queue
  <2>1. StreamInv
    BY DEF PipeInv
  <2> QED
    BY <2>1, FlushStep DEF PipeInv, StreamInv
<1>2. PICK old, k, r, records, rest : /\ old = deferred /\ k = sent /\ r = Head(deferred)
                                      /\ records = <<r>> /\ rest = Tail(deferred)
  OBVIOUS
<1>3. /\ ~fin /\ old # <<>> /\ Output(records) /\ deferred' = rest
      /\ UNCHANGED <<reader, sent, shaken, closing, fin, inbox, wireReads, eof, results, tls>>
  BY <1>2 DEF FlushDeferred
<1>4. old \in Seq(RecordSet) /\ k \in Nat
  BY <1>1, <1>2 DEF StreamTypeOK
<1>5. r \in RecordSet /\ rest \in Seq(RecordSet) /\ Parts(old, records, rest)
  BY <1>2, <1>3, <1>4, PartsTail
<1>6. Moves(deferred, sent, records, deferred', sent')
  <2>1. \A c \in Nat : Carry(old, c, k) =>
            \E d \in Nat : Carry(records, c, d) /\ Carry(rest, d, k)
    BY <1>5, CarryCut, Zenon
  <2>2. Moves(old, k, records, rest, k)
    BY <2>1, Zenon DEF Moves
  <2> QED
    BY <1>2, <1>3, <2>2
<1>7. /\ Carried(tls', Line', pendingWrites', deferred', sent', fin')
      /\ Harmless(Whole(Line)) /\ Harmless(pendingWrites) /\ Harmless(records)
         => Harmless(Whole(Line')) /\ Harmless(pendingWrites')
  <2>1. UNCHANGED <<reader, inbox, wireReads, results, tls, fin>> /\ ~fin
    BY <1>3
  <2>2. sent' \in Nat /\ Len(deferred') \in Nat /\ records \in Seq(RecordSet)
    BY <1>2, <1>3, <1>4, <1>5
  <2> QED
    BY <1>3, <1>6, <2>1, <2>2, OutputCarries
<1>8. Harmless(records) /\ \A i \in 1 .. Len(rest) : rest[i].kind = "data"
  <2>1. \A i \in 1 .. Len(old) : old[i].kind = "data"
    BY <1>1, <1>2 DEF Queue
  <2>2. /\ Len(old) \in Nat /\ Len(old) > 0 /\ r = old[1] /\ Len(rest) = Len(old) - 1
        /\ \A i \in 1 .. Len(rest) : rest[i] = old[i + 1]
    BY <1>2, <1>3, <1>4, HeadTailProperties
  <2>3. r.kind # "fatal"
    BY <2>1, <2>2
  <2>4. Harmless(records)
    BY <1>2, <2>3, HarmlessOne, Zenon
  <2>5. \A i \in 1 .. Len(rest) : rest[i].kind = "data"
    BY <2>1, <2>2
  <2> QED
    BY <2>4, <2>5
<1>9. closing \/ fin \/ (Harmless(Whole(Line)) /\ Harmless(pendingWrites))
  BY DEF PipeInv, Quiet
<1>10. Queue'
  <2>1. Queue
    BY <1>1
  <2> QED
    BY <1>3, <1>8, <2>1 DEF Queue, Output
<1>11. AtEnd' /\ Replied(tls')
  BY <1>3, AtEndStays
<1> QED
  BY <1>1, <1>3, <1>7, <1>8, <1>9, <1>10, <1>11, PipeParts

LEMMA FiberKeepsPipe ==
    ASSUME PipeInv, ProcessWrites
    PROVE  PipeInv'
<1>1. StreamInv' /\ StreamTypeOK /\ Queue
  <2>1. StreamInv
    BY DEF PipeInv
  <2> QED
    BY <2>1, FiberStep DEF PipeInv, StreamInv
<1>2. /\ writing
      /\ UNCHANGED <<reader, sent, deferred, shaken, closing, fin, inbox, wireReads, eof, results, tls>>
  BY DEF ProcessWrites
<1>3. reader = "app" /\ ~fin /\ fin = FALSE
  BY <1>1, <1>2 DEF Queue, StreamTypeOK
<1>4. AtEnd' /\ Replied(tls')
  BY <1>2, AtEndStays
<1>5. closing \/ fin \/ (Harmless(Whole(Line)) /\ Harmless(pendingWrites))
  BY DEF PipeInv, Quiet
<1>6. CASE pendingWrites = <<>>
  <2>1. writing' = FALSE /\ pendingWrites' = pendingWrites /\ wire' = wire
    BY <1>6 DEF ProcessWrites
  <2>2. Line' = Line
    BY <1>2, <2>1 DEF Line
  <2>3. Carried(tls', Line', pendingWrites', deferred', sent', fin')
    <3>1. Carried(tls, Line, pendingWrites, deferred, sent, fin)
      BY DEF PipeInv
    <3> QED
      BY <1>2, <2>1, <2>2, <3>1
  <2>4. Queue'
    <3>1. Queue
      BY <1>1
    <3> QED
      BY <1>2, <1>6, <2>1, <3>1 DEF Queue
  <2> QED
    BY <1>1, <1>2, <1>4, <1>5, <2>1, <2>2, <2>3, <2>4, PipeParts
<1>7. CASE pendingWrites # <<>>
  <2>1. PICK line, queue, t, old, n, r, one, put, more, rest :
            /\ line = Line /\ queue = pendingWrites /\ t = tls /\ old = deferred /\ n = sent
            /\ r = Head(pendingWrites) /\ rest = Tail(pendingWrites)
            /\ one = <<r>> /\ put = OnWire(one) /\ more = line \o put
    OBVIOUS
  <2>2. wire' = wire \o put /\ pendingWrites' = rest /\ writing' = writing
    BY <1>7, <2>1 DEF ProcessWrites
  <2>3. /\ line \in Seq(WireBytes) /\ queue \in Seq(RecordSet) /\ old \in Seq(RecordSet)
        /\ n \in Nat /\ wire \in Seq(WireBytes)
    BY <1>1, <2>1, LineType DEF StreamTypeOK
  <2>4. r \in RecordSet /\ rest \in Seq(RecordSet) /\ Parts(queue, one, rest)
    BY <1>7, <2>1, <2>3, PartsTail
  <2>5. one \in Seq(RecordSet) /\ Len(one) = 1
    BY <2>1, <2>4
  <2>6. Line' = more
    <3>1. put \in Seq(WireBytes)
      BY <2>1, <2>5, OnWireType, Zenon
    <3>2. tls.partial \o (Held(results, wireReads) \o (inbox \o (wire \o put)))
          = (tls.partial \o (Held(results, wireReads) \o (inbox \o wire))) \o put
      BY <1>1, <2>3, <3>1, LineEnd, Zenon
    <3>3. line = tls.partial \o (Held(results, wireReads) \o (inbox \o wire))
      BY <2>1, Zenon DEF Line
    <3>4. Line' = tls.partial \o (Held(results, wireReads) \o (inbox \o (wire \o put)))
      BY <1>2, <2>2 DEF Line
    <3> QED
      BY <2>1, <3>2, <3>3, <3>4, Zenon
  <2>7. Carried(t, line, queue, old, n, FALSE)
    BY <1>3, <2>1 DEF PipeInv
  <2>8. PICK a \in 0 .. n, b \in 0 .. n, q \in Nat, c \in Nat :
            /\ Holds(t, a) /\ Carry(Whole(line), a, b) /\ Len(line) = q * RecordSize
            /\ Carry(queue, b, c) /\ Carry(old, c, n)
    BY <2>7, CarriedIs, Zenon
  <2>9. PICK d \in Nat : Carry(one, b, d) /\ Carry(rest, d, c)
    BY <2>4, <2>8, CarryCut, Zenon
  <2>10. /\ more \in Seq(WireBytes) /\ Len(more) = (q + Len(one)) * RecordSize
         /\ Parts(Whole(more), Whole(line), one)
    <3>1. more = line \o OnWire(one)
      BY <2>1
    <3>2. line \in Seq(WireBytes) /\ one \in Seq(RecordSet) /\ Len(line) = q * RecordSize
      BY <2>3, <2>5, <2>8
    <3> QED
      BY <3>1, <3>2, WholeGrows, Zenon
  <2>11. q + Len(one) \in Nat /\ a \in Nat /\ b \in Nat
    BY <2>3, <2>5, <2>8
  <2>12. Carry(Whole(more), a, d)
    BY <2>8, <2>9, <2>10, CarryJoin, Zenon
  <2>13. Len(Whole(more)) \in Nat /\ Len(rest) \in Nat /\ Len(old) \in Nat
    <3>1. Len(Whole(more)) \in Nat
      BY <2>10, WholeIs, Zenon
    <3> QED
      BY <2>3, <2>4, <3>1, LenProperties, Zenon
  <2>14. Carried(t, more, rest, old, n, fin')
    BY <2>3, <2>8, <2>9, <2>10, <2>11, <2>12, <2>13, IsCarried, Zenon
  <2>15. Harmless(Whole(line)) /\ Harmless(queue) => Harmless(Whole(more)) /\ Harmless(rest)
    <3>1. Harmless(queue) <=> Harmless(one) /\ Harmless(rest)
      BY <2>4, HarmlessParts, Zenon
    <3>2. Harmless(Whole(more)) <=> Harmless(Whole(line)) /\ Harmless(one)
      BY <2>10, HarmlessParts, Zenon
    <3> QED
      BY <3>1, <3>2, Zenon
  <2>16. Carried(tls', Line', pendingWrites', deferred', sent', fin')
    BY <1>2, <2>1, <2>2, <2>6, <2>14
  <2>17. closing' \/ fin' \/ (Harmless(Whole(Line')) /\ Harmless(pendingWrites'))
    BY <1>2, <1>5, <2>1, <2>2, <2>6, <2>15
  <2>18. Queue'
    <3>1. Queue
      BY <1>1
    <3> QED
      BY <1>2, <1>3, <2>2, <3>1 DEF Queue
  <2> QED
    BY <1>1, <1>4, <2>16, <2>17, <2>18, PipeParts
<1> QED
  BY <1>6, <1>7

(* A tail of the line is lost: what is left still comes in order.          *)
LEMMA TailIsLost ==
    ASSUME NEW t, NEW line, NEW queue, NEW later, NEW n \in Nat, NEW lost,
           Carried(t, line, queue, later, n, lost),
           NEW part \in Seq(WireBytes), NEW rest \in Seq(WireBytes), line = part \o rest,
           NEW queue2, NEW later2
    PROVE  Carried(t, part, queue2, later2, n, TRUE)
<1>1. PICK a \in 0 .. n, b \in 0 .. n : Holds(t, a) /\ Carry(Whole(line), a, b)
  BY Zenon DEF Carried
<1>2. PICK q : Parts(Whole(line), Whole(part), q)
  BY WholeShrinks, Zenon
<1>3. PICK c \in Nat : Carry(Whole(part), a, c) /\ Carry(q, c, b)
  BY <1>1, <1>2, CarryCut, Zenon
<1>4. Len(q) \in Nat
  BY <1>2, Zenon DEF Parts
<1>5. c <= b
  BY <1>3, <1>4, CarryGrows, Zenon
<1>6. c \in 0 .. n
  BY <1>1, <1>5
<1> QED
  BY <1>1, <1>3, <1>6, Zenon DEF Carried

LEMMA DisconnectKeepsPipe ==
    ASSUME PipeInv, Disconnect
    PROVE  PipeInv'
<1>1. StreamInv' /\ StreamTypeOK /\ Queue
  <2>1. StreamInv
    BY DEF PipeInv
  <2> QED
    BY <2>1, DisconnectStep DEF PipeInv, StreamInv
<1>2. /\ fin' = TRUE /\ pendingWrites' = <<>> /\ writing' = FALSE
      /\ UNCHANGED <<reader, sent, deferred, shaken, closing, inbox, wireReads, eof, results, tls>>
  BY DEF Disconnect
<1>3. PICK k \in 0 .. Len(wire) : wire' = SubSeq(wire, 1, k)
  BY DEF Disconnect
<1>4. PICK all, front, back : /\ all = wire /\ front = SubSeq(all, 1, k)
                              /\ back = SubSeq(all, k + 1, Len(all))
  OBVIOUS
<1>5. all \in Seq(WireBytes) /\ Len(all) \in Nat
  BY <1>1, <1>4 DEF StreamTypeOK
<1>6. front \in Seq(WireBytes) /\ back \in Seq(WireBytes) /\ all = front \o back
  <2>1. /\ 1 \in 1 .. Len(all) + 1 /\ k \in 1 - 1 .. Len(all) /\ Len(all) \in k .. Len(all)
    BY <1>3, <1>4, <1>5
  <2>2. SubSeq(all, 1, k) \o SubSeq(all, k + 1, Len(all)) = SubSeq(all, 1, Len(all))
    BY <1>5, <2>1, ConcatAdjacentSubSeq
  <2>3. SubSeq(all, 1, Len(all)) = all
    BY <1>5, SubSeqFull
  <2>4. front \in Seq(WireBytes)
    BY <1>1, <1>3, <1>4 DEF StreamInv, StreamTypeOK
  <2>5. back \in Seq(WireBytes)
    <3>1. \A i \in k + 1 .. Len(all) : all[i] \in WireBytes
      BY <1>3, <1>4, <1>5, ElementOfSeq
    <3>2. k + 1 \in Int /\ Len(all) \in Int
      BY <1>3, <1>4, <1>5
    <3> QED
      BY <1>4, <3>1, <3>2, SubSeqProperties
  <2> QED
    BY <1>4, <2>2, <2>3, <2>4, <2>5
<1>7. PICK line, part, n : line = Line /\ part = Line' /\ n = sent
  OBVIOUS
<1>8. part \in Seq(WireBytes) /\ n \in Nat
  <2>1. StreamTypeOK'
    BY <1>1 DEF StreamInv
  <2>2. Line' \in Seq(WireBytes)
    BY <2>1, LineNext
  <2> QED
    BY <1>1, <1>7, <2>2 DEF StreamTypeOK
<1>9. line = part \o back
  <2>1. tls.partial \o (Held(results, wireReads) \o (inbox \o (front \o back)))
        = (tls.partial \o (Held(results, wireReads) \o (inbox \o front))) \o back
    BY <1>1, <1>6, LineEnd, Zenon
  <2>2. line = tls.partial \o (Held(results, wireReads) \o (inbox \o (front \o back)))
    BY <1>4, <1>6, <1>7, Zenon DEF Line
  <2>3. part = tls.partial \o (Held(results, wireReads) \o (inbox \o front))
    BY <1>2, <1>3, <1>4, <1>7 DEF Line
  <2> QED
    BY <2>1, <2>2, <2>3, Zenon
<1>10. Carried(tls, line, pendingWrites, deferred, n, fin)
  BY <1>7 DEF PipeInv
<1>11. \A queue2, later2 : Carried(tls, part, queue2, later2, n, TRUE)
  BY <1>6, <1>8, <1>9, <1>10, TailIsLost, Zenon
<1>12. Carried(tls', Line', pendingWrites', deferred', sent', fin')
  BY <1>2, <1>7, <1>11
<1>13. AtEnd' /\ Replied(tls')
  BY <1>2, AtEndStays
<1>14. Queue'
  <2>1. Queue
    BY <1>1
  <2> QED
    BY <1>2, <2>1 DEF Queue
<1> QED
  BY <1>1, <1>2, <1>12, <1>13, <1>14, PipeParts

-----------------------------------------------------------------------------
(* The reading end.                                                        *)

(* There is one read at a time, waiting or answered.                       *)
LEMMA OneRead ==
    ASSUME StreamInv
    PROVE  /\ wireReads # <<>> => /\ results = <<>> /\ Len(wireReads) = 1
                                  /\ Tail(wireReads) = <<>> /\ Head(wireReads) \in PendingReads
           /\ results # <<>> => /\ wireReads = <<>> /\ Tail(results) = <<>>
                                /\ Head(results) \in Seq(WireBytes)
<1>1. PICK w, r, l, k : w = wireReads /\ r = results /\ l = Len(w) /\ k = Len(r)
  OBVIOUS
<1>2. w \in Seq(PendingReads) /\ r \in Seq(Seq(WireBytes)) /\ l + k <= 1
  BY <1>1 DEF StreamInv, StreamTypeOK, OneWireRead
<1>3. l \in Nat /\ k \in Nat
  BY <1>1, <1>2, LenProperties
<1>4. (w # <<>> => l # 0) /\ (r # <<>> => k # 0)
  BY <1>1, <1>2, EmptySeq
<1>5. ASSUME NEW S, NEW s \in Seq(S), Len(s) = 1 PROVE Tail(s) = <<>> /\ Head(s) \in S
  <2>1. s # <<>>
    BY <1>5
  <2>2. Tail(s) \in Seq(S) /\ Len(Tail(s)) = Len(s) - 1 /\ Head(s) \in S
    BY <2>1, HeadTailProperties
  <2>3. Len(Tail(s)) = 0
    BY <1>5, <2>2
  <2>4. Tail(s) = <<>>
    BY <2>2, <2>3, EmptySeq, Zenon
  <2> QED
    BY <2>2, <2>4
<1>6. CASE w # <<>>
  <2>1. l = 1 /\ k = 0
    BY <1>2, <1>3, <1>4, <1>6
  <2>2. r = <<>>
    BY <1>1, <1>2, <2>1, EmptySeq
  <2>3. Tail(w) = <<>> /\ Head(w) \in PendingReads
    BY <1>1, <1>2, <1>5, <2>1, Zenon
  <2> QED
    BY <1>1, <2>1, <2>2, <2>3
<1>7. CASE r # <<>>
  <2>1. k = 1 /\ l = 0
    BY <1>2, <1>3, <1>4, <1>7
  <2>2. w = <<>>
    BY <1>1, <1>2, <2>1, EmptySeq
  <2>3. Tail(r) = <<>> /\ Head(r) \in Seq(WireBytes)
    BY <1>1, <1>2, <1>5, <2>1, Zenon
  <2> QED
    BY <1>1, <2>1, <2>2, <2>3
<1> QED
  BY <1>1, <1>6, <1>7

(* A sequence, cut in two.                                                 *)
LEMMA InTwo ==
    ASSUME NEW S, NEW s \in Seq(S), NEW k \in Nat, k <= Len(s)
    PROVE  /\ SubSeq(s, 1, k) \in Seq(S) /\ SubSeq(s, k + 1, Len(s)) \in Seq(S)
           /\ Len(SubSeq(s, 1, k)) = k
           /\ SubSeq(s, 1, k) \o SubSeq(s, k + 1, Len(s)) = s
<1>1. PICK l : l = Len(s)
  OBVIOUS
<1>2. l \in Nat /\ k \in 0 .. l
  BY <1>1
<1>3. \A i \in 1 .. l : s[i] \in S
  BY <1>1, ElementOfSeq
<1>4. SubSeq(s, 1, k) \in Seq(S) /\ Len(SubSeq(s, 1, k)) = k
  <2>1. (\A i \in 1 .. k : s[i] \in S) /\ 1 \in Int /\ k \in Int
    BY <1>2, <1>3
  <2>2. SubSeq(s, 1, k) \in Seq(S) /\ Len(SubSeq(s, 1, k)) = IF 1 <= k THEN k - 1 + 1 ELSE 0
    BY <2>1, SubSeqProperties
  <2> QED
    BY <1>2, <2>2
<1>5. SubSeq(s, k + 1, l) \in Seq(S)
  <2>1. (\A i \in k + 1 .. l : s[i] \in S) /\ k + 1 \in Int /\ l \in Int
    BY <1>2, <1>3
  <2> QED
    BY <2>1, SubSeqProperties
<1>6. SubSeq(s, 1, k) \o SubSeq(s, k + 1, l) = SubSeq(s, 1, l)
  <2>1. 1 \in 1 .. Len(s) + 1 /\ k \in 1 - 1 .. Len(s) /\ l \in k .. Len(s)
    BY <1>1, <1>2
  <2> QED
    BY <2>1, ConcatAdjacentSubSeq
<1>7. SubSeq(s, 1, l) = s
  BY <1>1, SubSeqFull
<1> QED
  BY <1>1, <1>4, <1>5, <1>6, <1>7

(* Wire bytes that only move along the line change nothing.                *)
LEMMA LineStays ==
    ASSUME PipeInv, StreamInv', UNCHANGED <<reader, writerVars, fin, tls>>, Line' = Line, AtEnd'
    PROVE  PipeInv'
<1>1. /\ Carried(tls, Line, pendingWrites, deferred, sent, fin) /\ Queue /\ Replied(tls)
      /\ closing \/ fin \/ (Harmless(Whole(Line)) /\ Harmless(pendingWrites))
  BY DEF PipeInv, Quiet
<1>2. /\ pendingWrites' = pendingWrites /\ deferred' = deferred /\ sent' = sent /\ fin' = fin
      /\ closing' = closing /\ shaken' = shaken /\ writing' = writing /\ tls' = tls
      /\ reader' = reader
  BY DEF writerVars
<1>3. Carried(tls', Line', pendingWrites', deferred', sent', fin') /\ Replied(tls')
  BY <1>1, <1>2
<1>4. closing' \/ fin' \/ (Harmless(Whole(Line')) /\ Harmless(pendingWrites'))
  BY <1>1, <1>2
<1>5. Queue'
  BY <1>1, <1>2 DEF Queue
<1> QED
  BY <1>3, <1>4, <1>5, PipeParts

(* The pieces of the line before and after two of them are joined.         *)
Rejoined(s, t, u, v) == s \o ((t \o u) \o v) = (s \o t) \o (u \o v)

LEMMA Rejoin ==
    ASSUME NEW S, NEW s \in Seq(S), NEW t \in Seq(S), NEW u \in Seq(S), NEW v \in Seq(S)
    PROVE  Rejoined(s, t, u, v)
<1>1. PICK tu, uv, st : tu = t \o u /\ uv = u \o v /\ st = s \o t
  OBVIOUS
<1>2. tu \in Seq(S) /\ uv \in Seq(S) /\ st \in Seq(S)
  BY <1>1, ConcatProperties
<1>3. Associate(t, u, v) /\ Associate(s, t, uv)
  BY <1>2, Associates, Zenon
<1>4. tu \o v = t \o uv
  BY <1>1, <1>3, Zenon DEF Associate
<1>5. st \o uv = s \o (t \o uv)
  BY <1>1, <1>3, Zenon DEF Associate
<1>6. s \o (tu \o v) = st \o uv
  BY <1>4, <1>5, Zenon
<1> QED
  BY <1>1, <1>6, Zenon DEF Rejoined

LEMMA ArriveKeepsPipe ==
    ASSUME PipeInv, Arrive
    PROVE  PipeInv'
<1>1. StreamInv /\ StreamInv' /\ StreamTypeOK /\ AtEnd
  <2>1. StreamInv
    BY DEF PipeInv
  <2> QED
    BY <2>1, ArriveStep DEF PipeInv, StreamInv
<1>2. PICK n \in 1 .. Len(wire) :
        LET here == inbox \o SubSeq(wire, 1, n)
            req == Head(wireReads)
            take == Smaller(req.max, Len(here))
        IN  /\ wire' = SubSeq(wire, n + 1, Len(wire))
            /\ IF reader = "app" /\ wireReads # <<>> /\ Len(here) >= req.min
               THEN /\ results' = Append(results, SubSeq(here, 1, take))
                    /\ inbox' = SubSeq(here, take + 1, Len(here))
                    /\ wireReads' = Tail(wireReads)
               ELSE inbox' = here /\ UNCHANGED <<results, wireReads>>
  BY DEF Arrive
<1>3. UNCHANGED <<reader, writerVars, fin, eof, tls>>
  BY DEF Arrive
<1>4. PICK h, p, i, front, back, here, take :
          /\ h = Held(results, wireReads) /\ p = tls.partial /\ i = inbox
          /\ front = SubSeq(wire, 1, n) /\ back = SubSeq(wire, n + 1, Len(wire))
          /\ here = i \o front /\ take = Smaller(Head(wireReads).max, Len(here))
  OBVIOUS
<1>5. /\ h \in Seq(WireBytes) /\ p \in Seq(WireBytes) /\ i \in Seq(WireBytes)
      /\ wire \in Seq(WireBytes)
  BY <1>1, <1>4, LineType
<1>6. front \in Seq(WireBytes) /\ back \in Seq(WireBytes) /\ front \o back = wire
  <2>1. n \in Nat /\ n <= Len(wire)
    BY <1>2, <1>5
  <2> QED
    BY <1>4, <1>5, <2>1, InTwo
<1>7. here \in Seq(WireBytes) /\ here \o back = i \o wire
  <2>1. here \in Seq(WireBytes)
    BY <1>4, <1>5, <1>6, ConcatProperties
  <2>2. Associate(i, front, back)
    BY <1>5, <1>6, Associates, Zenon
  <2> QED
    BY <1>4, <1>6, <2>1, <2>2, Zenon DEF Associate
<1>8. Line = p \o (h \o (here \o back))
  BY <1>4, <1>7, Zenon DEF Line
<1>9. CASE reader = "app" /\ wireReads # <<>> /\ Len(here) >= Head(wireReads).min
  <2>1. PICK taken, left : taken = SubSeq(here, 1, take) /\ left = SubSeq(here, take + 1, Len(here))
    OBVIOUS
  <2>2. /\ results' = Append(results, taken) /\ inbox' = left /\ wireReads' = Tail(wireReads)
        /\ wire' = back
    BY <1>2, <1>4, <1>9, <2>1
  <2>3. results = <<>> /\ Tail(wireReads) = <<>> /\ Head(wireReads) \in PendingReads
    BY <1>1, <1>9, OneRead
  <2>4. Head(wireReads).bytes = <<>>
    BY <1>1, <1>9 DEF AtEnd
  <2>5. take \in Nat /\ take > 0 /\ take <= Len(here)
    <3>1. Head(wireReads).min \in Nat /\ Head(wireReads).min > 0 /\ Head(wireReads).max \in Nat
          /\ Head(wireReads).min <= Head(wireReads).max
      BY <2>3, StreamAssumption DEF PendingReads
    <3>2. Len(here) \in Nat
      BY <1>7
    <3> QED
      BY <1>4, <1>9, <3>1, <3>2 DEF Smaller
  <2>6. taken \in Seq(WireBytes) /\ left \in Seq(WireBytes) /\ Len(taken) = take /\ taken \o left = here
    BY <1>7, <2>1, <2>5, InTwo
  <2>7. taken # <<>>
    BY <2>5, <2>6
  <2>8. results' = <<taken>> /\ wireReads' = <<>>
    BY <2>2, <2>3
  <2>9. h = <<>>
    BY <1>4, <1>9, <2>3, <2>4 DEF Held
  <2>10. Line' = p \o (taken \o (left \o back))
    <3>1. Held(results', wireReads') = taken
      BY <2>8 DEF Held
    <3> QED
      BY <1>3, <1>4, <2>2, <3>1 DEF Line
  <2>11. taken \o (left \o back) = h \o (here \o back)
    <3>1. Associate(taken, left, back)
      BY <1>6, <2>6, Associates, Zenon
    <3>2. taken \o (left \o back) = here \o back
      BY <2>6, <3>1, Zenon DEF Associate
    <3>3. here \o back \in Seq(WireBytes)
      BY <1>6, <1>7, ConcatProperties
    <3>4. <<>> \o (here \o back) = here \o back
      BY <3>3, ConcatEmptySeq, Zenon
    <3> QED
      BY <2>9, <3>2, <3>4, Zenon
  <2>12. AtEnd'
    <3>1. Head(results') = taken
      BY <2>8
    <3> QED
      BY <1>1, <1>3, <2>7, <2>8, <3>1 DEF AtEnd, writerVars
  <2> QED
    BY <1>1, <1>3, <1>8, <2>10, <2>11, <2>12, LineStays
<1>10. CASE ~ (reader = "app" /\ wireReads # <<>> /\ Len(here) >= Head(wireReads).min)
  <2>1. inbox' = here /\ results' = results /\ wireReads' = wireReads /\ wire' = back
    BY <1>2, <1>4, <1>10
  <2>2. Line' = p \o (h \o (here \o back))
    BY <1>3, <1>4, <2>1 DEF Line
  <2>3. AtEnd'
    BY <1>1, <1>3, <2>1 DEF AtEnd, writerVars
  <2> QED
    BY <1>1, <1>3, <1>8, <2>2, <2>3, LineStays
<1> QED
  BY <1>9, <1>10

LEMMA ReadSomeKeepsPipe ==
    ASSUME PipeInv, ReadSome
    PROVE  PipeInv'
<1>1. StreamInv /\ StreamInv' /\ StreamTypeOK /\ AtEnd
  <2>1. StreamInv
    BY DEF PipeInv
  <2> QED
    BY <2>1, ReadSomeStep DEF PipeInv, StreamInv
<1>2. /\ reader = "backend" /\ wireReads # <<>>
      /\ UNCHANGED <<reader, writerVars, wire, fin, eof, tls>>
  BY DEF ReadSome
<1>3. /\ results = <<>> /\ Len(wireReads) = 1 /\ Tail(wireReads) = <<>>
      /\ Head(wireReads) \in PendingReads
  BY <1>1, <1>2, OneRead
<1>4. PICK req : req = Head(wireReads)
  OBVIOUS
<1>5. PICK n : n = Smaller(req.max - Len(req.bytes), Len(inbox))
  OBVIOUS
<1>6. PICK h, p, i, front, back, bytes :
          /\ h = req.bytes /\ p = tls.partial /\ i = inbox
          /\ front = SubSeq(i, 1, n) /\ back = SubSeq(i, n + 1, Len(i)) /\ bytes = h \o front
  OBVIOUS
<1>7. /\ h \in Seq(WireBytes) /\ p \in Seq(WireBytes) /\ i \in Seq(WireBytes)
      /\ wire \in Seq(WireBytes)
  BY <1>1, <1>3, <1>4, <1>6, LineType DEF PendingReads
<1>8. /\ req.min \in Nat /\ req.min > 0 /\ req.max \in Nat /\ req.min <= req.max
      /\ Len(h) \in Nat /\ Len(h) < req.min
  BY <1>3, <1>4, <1>6, <1>7, StreamAssumption DEF PendingReads
<1>9. n \in Nat /\ n <= Len(i)
  <2>1. Len(i) \in Nat
    BY <1>7
  <2> QED
    BY <1>5, <1>6, <1>8, <2>1 DEF Smaller
<1>10. front \in Seq(WireBytes) /\ back \in Seq(WireBytes) /\ front \o back = i
  BY <1>6, <1>7, <1>9, InTwo
<1>11. bytes \in Seq(WireBytes)
  BY <1>6, <1>7, <1>10, ConcatProperties
<1>12. Line = p \o (h \o (i \o wire))
  <2>1. Held(results, wireReads) = h
    BY <1>2, <1>3, <1>4, <1>6 DEF Held
  <2> QED
    BY <1>6, <2>1, Zenon DEF Line
<1>13. h \o (i \o wire) = bytes \o (back \o wire)
  <2>1. Rejoined(h, front, back, wire)
    BY <1>7, <1>10, Rejoin, Zenon
  <2> QED
    BY <1>6, <1>10, <2>1, Zenon DEF Rejoined
<1>14. /\ inbox' = back
       /\ \/ Len(bytes) >= req.min /\ results' = Append(results, bytes) /\ wireReads' = Tail(wireReads)
          \/ wireReads' = [wireReads EXCEPT ![1].bytes = bytes] /\ results' = results
  BY <1>4, <1>5, <1>6 DEF ReadSome
<1>15. ASSUME Held(results', wireReads') = bytes PROVE Line' = Line
  <2>1. Line' = p \o (bytes \o (back \o wire))
    BY <1>2, <1>6, <1>14, <1>15 DEF Line
  <2> QED
    BY <1>12, <1>13, <2>1, Zenon
<1>16. CASE Len(bytes) >= req.min /\ results' = Append(results, bytes) /\ wireReads' = Tail(wireReads)
  <2>1. results' = <<bytes>> /\ wireReads' = <<>>
    BY <1>3, <1>16
  <2>2. Held(results', wireReads') = bytes
    BY <2>1 DEF Held
  <2>3. bytes # <<>>
    <3>1. bytes = <<>> => Len(bytes) = 0
      BY <1>11, EmptySeq
    <3> QED
      BY <1>8, <1>11, <1>16, <3>1
  <2>4. AtEnd'
    <3>1. Head(results') = bytes
      BY <2>1
    <3> QED
      BY <1>1, <1>2, <2>1, <2>3, <3>1 DEF AtEnd, writerVars
  <2> QED
    BY <1>1, <1>2, <1>15, <2>2, <2>4, LineStays
<1>17. CASE wireReads' = [wireReads EXCEPT ![1].bytes = bytes] /\ results' = results
  <2>1. Held(results', wireReads') = bytes
    <3>1. PICK w, u : w = wireReads /\ u = [w EXCEPT ![1].bytes = bytes]
      OBVIOUS
    <3>2. w \in Seq(PendingReads) /\ Len(w) = 1
      BY <1>1, <1>3, <3>1 DEF StreamTypeOK
    <3>3. w[1] \in PendingReads
      BY <3>2, ElementOfSeq
    <3>4. Len(u) = 1 /\ u[1] = [w[1] EXCEPT !.bytes = bytes]
      BY <3>1, <3>2
    <3>5. u[1].bytes = bytes
      BY <3>3, <3>4 DEF PendingReads
    <3>6. u # <<>> /\ Head(u) = u[1]
      BY <3>4
    <3>7. Held(<<>>, u) = bytes
      BY <3>5, <3>6 DEF Held
    <3> QED
      BY <1>3, <1>17, <3>1, <3>7
  <2>2. AtEnd'
    BY <1>1, <1>2, <1>3, <1>17 DEF AtEnd, writerVars
  <2> QED
    BY <1>1, <1>2, <1>15, <2>1, <2>2, LineStays
<1> QED
  BY <1>14, <1>16, <1>17

LEMMA EndKeepsPipe ==
    ASSUME PipeInv, Disconnected \/ ReadEof
    PROVE  PipeInv'
<1>1. StreamInv /\ StreamInv' /\ StreamTypeOK /\ AtEnd /\ Queue
  <2>1. StreamInv
    BY DEF PipeInv
  <2> QED
    BY <2>1, EndStep DEF PipeInv, StreamInv
<1>2. CASE Disconnected
  <2>1. /\ fin /\ eof' = TRUE
        /\ UNCHANGED <<reader, writerVars, wire, fin, inbox, wireReads, results, tls>>
    BY <1>2 DEF Disconnected
  <2>2. Line' = Line
    BY <2>1 DEF Line
  <2>3. AtEnd'
    BY <1>1, <2>1 DEF AtEnd, writerVars
  <2> QED
    BY <1>1, <2>1, <2>2, <2>3, LineStays
<1>3. CASE ReadEof
  <2>1. /\ reader = "backend" /\ wireReads # <<>> /\ inbox = <<>> /\ wire = <<>> /\ fin
        /\ eof' = TRUE /\ results' = Append(results, <<>>) /\ wireReads' = Tail(wireReads)
        /\ UNCHANGED <<reader, writerVars, wire, fin, inbox, tls>>
    BY <1>3 DEF ReadEof, Failed
  <2>2. results = <<>> /\ Tail(wireReads) = <<>>
    BY <1>1, <2>1, OneRead
  <2>3. results' = << <<>> >> /\ wireReads' = <<>>
    BY <2>1, <2>2
  <2>4. PICK line, part, p, h, n : /\ line = Line /\ part = Line' /\ p = tls.partial
                                   /\ h = Held(results, wireReads) /\ n = sent
    OBVIOUS
  <2>5. p \in Seq(WireBytes) /\ h \in Seq(WireBytes) /\ n \in Nat
    BY <1>1, <2>4, LineType DEF StreamTypeOK
  <2>6. <<>> \in Seq(WireBytes)
    OBVIOUS
  <2>7. line = p \o h
    <3>1. line = p \o (h \o (<<>> \o <<>>))
      BY <2>1, <2>4 DEF Line
    <3>2. <<>> \o <<>> = <<>>
      BY <2>6, ConcatEmptySeq
    <3>3. h \o <<>> = h
      BY <2>5, ConcatEmptySeq
    <3> QED
      BY <3>1, <3>2, <3>3, Zenon
  <2>8. part = p
    <3>1. Held(results', wireReads') = <<>>
      BY <2>3 DEF Held
    <3>2. part = p \o (<<>> \o (<<>> \o <<>>))
      BY <2>1, <2>4, <3>1 DEF Line
    <3>3. <<>> \o <<>> = <<>>
      BY <2>6, ConcatEmptySeq
    <3>4. p \o <<>> = p
      BY <2>5, ConcatEmptySeq
    <3> QED
      BY <3>2, <3>3, <3>4, Zenon
  <2>9. Carried(tls, line, pendingWrites, deferred, n, fin)
    BY <2>4 DEF PipeInv
  <2>10. \A queue2, later2 : Carried(tls, part, queue2, later2, n, TRUE)
    BY <2>5, <2>7, <2>8, <2>9, TailIsLost, Zenon
  <2>11. /\ pendingWrites' = pendingWrites /\ deferred' = deferred /\ sent' = sent /\ fin' = TRUE
         /\ closing' = closing /\ shaken' = shaken /\ writing' = writing /\ tls' = tls
         /\ reader' = reader
    BY <1>1, <2>1 DEF writerVars, StreamTypeOK
  <2>12. Carried(tls', Line', pendingWrites', deferred', sent', fin')
    BY <2>4, <2>10, <2>11
  <2>13. Queue'
    BY <1>1, <2>1, <2>11 DEF Queue
  <2>14. AtEnd'
    BY <1>1, <2>1, <2>3, <2>11 DEF AtEnd
  <2>15. Replied(tls')
    BY <2>11 DEF PipeInv
  <2> QED
    BY <1>1, <2>11, <2>12, <2>13, <2>14, <2>15, PipeParts
<1> QED
  BY <1>2, <1>3

(* The adaptor's next read, of which nothing has come yet.                 *)
LEMMA ReadWireHolds ==
    ASSUME StreamTypeOK, NEW req \in PendingReads, req.bytes = <<>>,
           NEW left, left = <<>>, NEW rest, rest = <<>>, ReadWire(req, left, rest)
    PROVE  /\ inbox' \in Seq(WireBytes) /\ Held(results', wireReads') \in Seq(WireBytes)
           /\ Held(results', wireReads') \o inbox' = inbox
           /\ results' # <<>> /\ Head(results') = <<>> => eof
           /\ wireReads' # <<>> => Head(wireReads').bytes = <<>>
<1>1. PICK i : i = inbox
  OBVIOUS
<1>2. i \in Seq(WireBytes) /\ Len(i) \in Nat /\ <<>> \in Seq(WireBytes)
  BY <1>1 DEF StreamTypeOK
<1>3. <<>> \o i = i
  BY <1>2, ConcatEmptySeq
<1>4. req.min \in Nat /\ req.min > 0 /\ req.max \in Nat /\ req.min <= req.max
  BY StreamAssumption DEF PendingReads
<1>5. CASE reader = "app" /\ Len(inbox) >= req.min
  <2>1. PICK n : n = Smaller(req.max, Len(inbox))
    OBVIOUS
  <2>2. PICK taken, back : taken = SubSeq(i, 1, n) /\ back = SubSeq(i, n + 1, Len(i))
    OBVIOUS
  <2>3. results' = Append(rest, taken) /\ inbox' = back /\ wireReads' = left
    <3>1. Len(inbox) \in Nat
      BY <1>1, <1>2
    <3> QED
      BY <1>1, <1>5, <1>4, <2>1, <2>2, <3>1 DEF ReadWire
  <2>4. n \in Nat /\ n > 0 /\ n <= Len(i)
    BY <1>1, <1>2, <1>5, <1>4, <2>1 DEF Smaller
  <2>5. /\ taken \in Seq(WireBytes) /\ back \in Seq(WireBytes) /\ Len(taken) = n
        /\ taken \o back = i
    BY <1>2, <2>2, <2>4, InTwo
  <2>6. taken # <<>>
    BY <2>4, <2>5
  <2>7. results' = <<taken>> /\ wireReads' = <<>>
    BY <2>3
  <2>8. Head(results') = taken /\ Held(results', wireReads') = taken
    BY <2>7 DEF Held
  <2> QED
    BY <1>1, <2>3, <2>5, <2>6, <2>7, <2>8
<1>6. CASE ~ (reader = "app" /\ Len(inbox) >= req.min)
  <2>1. /\ inbox' = inbox
        /\ \/ eof /\ results' = Append(rest, <<>>) /\ wireReads' = left
           \/ results' = rest /\ wireReads' = Append(left, req)
    BY <1>6 DEF ReadWire, Failed
  <2>2. CASE eof /\ results' = Append(rest, <<>>) /\ wireReads' = left
    <3>1. results' = << <<>> >> /\ wireReads' = <<>>
      BY <2>2
    <3>2. Held(results', wireReads') = <<>>
      BY <3>1 DEF Held
    <3> QED
      BY <1>1, <1>2, <1>3, <2>1, <2>2, <3>1, <3>2
  <2>3. CASE results' = rest /\ wireReads' = Append(left, req)
    <3>1. results' = <<>> /\ wireReads' = <<req>>
      BY <2>3
    <3>2. Held(results', wireReads') = <<>> /\ Head(wireReads') = req
      BY <3>1 DEF Held
    <3> QED
      BY <1>1, <1>2, <1>3, <2>1, <3>1, <3>2
  <2> QED
    BY <2>1, <2>2, <2>3
<1> QED
  BY <1>5, <1>6

(* The adaptor's next read is one of those the wrappers may have.          *)
LEMMA NextRead ==
    ASSUME NEW t \in Adaptors, Len(t.partial) < RecordSize, NEW req,
           req = IF Len(t.partial) = 0 THEN startReadLoop
                 ELSE Pending(RecordSize - Len(t.partial), RecordSize - Len(t.partial))
    PROVE  req \in PendingReads /\ req.bytes = <<>>
<1>1. PICK short : short = Len(t.partial)
  OBVIOUS
<1>2. short \in Nat /\ short < RecordSize
  <2>1. t.partial \in Seq(WireBytes)
    BY DEF Adaptors
  <2> QED
    BY <1>1, <2>1
<1>3. INITIAL_READ_SIZE \in Nat \ {0} /\ RecordSize \in Nat \ {0}
  BY StreamAssumption
<1>4. CASE short = 0
  <2>1. 1 \in Nat \ {0} /\ INITIAL_READ_SIZE \in Nat \ {0}
    BY <1>3
  <2>2. req = Pending(1, INITIAL_READ_SIZE)
    BY <1>1, <1>4 DEF startReadLoop
  <2>3. req.bytes = <<>>
    BY <2>2 DEF Pending
  <2> QED
    BY <2>1, <2>2, <2>3, PendingType
<1>5. CASE short # 0
  <2>1. PICK need : need = RecordSize - short
    OBVIOUS
  <2>2. need \in Nat \ {0} /\ need < RecordSize
    BY <1>2, <1>3, <1>5, <2>1
  <2>3. req = Pending(need, need)
    BY <1>1, <1>5, <2>1
  <2>4. req.bytes = <<>>
    BY <2>3 DEF Pending
  <2> QED
    BY <2>2, <2>3, <2>4, PendingType
<1> QED
  BY <1>4, <1>5

(* Carried, once the adaptor has taken a part of the line.                 *)
LEMMA PartIsTaken ==
    ASSUME NEW t, NEW u, NEW line, NEW all, NEW rest, NEW queue, NEW later, NEW n \in Nat, NEW lost,
           Carried(t, line, queue, later, n, lost),
           Parts(Whole(line), Whole(all), Whole(rest)),
           \A q \in Nat : Len(line) = q * RecordSize => \E p \in Nat : Len(rest) = p * RecordSize,
           \A a, b \in Nat : Holds(t, a) /\ Carry(Whole(all), a, b) => Holds(u, b)
    PROVE  Carried(u, rest, queue, later, n, lost)
<1>1. PICK a \in 0 .. n, b \in 0 .. n :
          /\ Holds(t, a) /\ Carry(Whole(line), a, b)
          /\ \/ lost
             \/ /\ \E q \in Nat : Len(line) = q * RecordSize
                /\ \E c \in Nat : Carry(queue, b, c) /\ Carry(later, c, n)
  BY Zenon DEF Carried
<1>2. PICK d \in Nat : Carry(Whole(all), a, d) /\ Carry(Whole(rest), d, b)
  BY <1>1, CarryCut, Zenon
<1>3. d \in 0 .. n
  <2>1. Len(Whole(rest)) \in Nat
    BY Zenon DEF Parts
  <2>2. d <= b
    BY <1>2, <2>1, CarryGrows, Zenon
  <2> QED
    BY <1>1, <2>2
<1>4. Holds(u, d)
  <2>1. a \in Nat
    BY <1>1
  <2> QED
    BY <1>1, <1>2, <2>1, Zenon
<1>5. lost \/ /\ \E q \in Nat : Len(rest) = q * RecordSize
              /\ \E c \in Nat : Carry(queue, b, c) /\ Carry(later, c, n)
  BY <1>1, Zenon
<1> QED
  BY <1>1, <1>2, <1>3, <1>4, <1>5, Zenon DEF Carried

(* The adaptor goes on with what its read has brought.                     *)
LEMMA BytesKeepPipe ==
    ASSUME PipeInv, ProcessBytes
    PROVE  PipeInv' /\ Goes(tls, tls')
<1>1. /\ StreamInv /\ StreamInv' /\ StreamTypeOK /\ AtEnd /\ Queue /\ Replied(tls)
      /\ Carried(tls, Line, pendingWrites, deferred, sent, fin)
      /\ closing \/ fin \/ (Harmless(Whole(Line)) /\ Harmless(pendingWrites))
  <2>1. StreamInv
    BY DEF PipeInv
  <2> QED
    BY <2>1, BytesStep DEF PipeInv, StreamInv, Quiet
<1>2. /\ results # <<>>
      /\ wire' = wire /\ eof' = eof
      /\ pendingWrites' = pendingWrites /\ deferred' = deferred /\ sent' = sent /\ fin' = fin
      /\ closing' = closing /\ shaken' = shaken /\ writing' = writing /\ reader' = reader
  BY DEF ProcessBytes, writerVars
<1>3. wireReads = <<>> /\ Tail(results) = <<>> /\ Head(results) \in Seq(WireBytes)
  BY <1>1, <1>2, OneRead
<1>4. PICK t, u, bytes, p, i, w, line, n :
          /\ t = tls /\ u = tls' /\ bytes = Head(results) /\ p = tls.partial /\ i = inbox
          /\ w = wire /\ line = Line /\ n = sent
  OBVIOUS
<1>5. /\ t \in Adaptors /\ ~t.stuck /\ p \in Seq(WireBytes) /\ i \in Seq(WireBytes)
      /\ w \in Seq(WireBytes) /\ bytes \in Seq(WireBytes) /\ n \in Nat
  BY <1>1, <1>3, <1>4, LineType DEF StreamTypeOK
<1>6. line = p \o (bytes \o (i \o w))
  <2>1. Held(results, wireReads) = bytes
    BY <1>2, <1>4 DEF Held
  <2> QED
    BY <1>4, <2>1, Zenon DEF Line
<1>7. Queue'
  BY <1>1, <1>2 DEF Queue
<1>8. CASE bytes = <<>>
  <2>1. u = handleEof(t) /\ results' = <<>> /\ inbox' = inbox /\ wireReads' = <<>>
    BY <1>3, <1>4, <1>8 DEF ProcessBytes, Failed
  <2>2. fin
    BY <1>1, <1>2, <1>4, <1>8 DEF AtEnd
  <2>3. u \in Adaptors /\ u.partial = t.partial
    BY <1>5, <2>1, EofKeeps
  <2>4. \A b \in Nat : Holds(t, b) => Holds(u, b) /\ Replied(u) /\ Extends(t.answers, u.answers) /\ u.hitEof
    BY <1>1, <1>4, <1>5, <2>1, EofFills, Zenon
  <2>5. Line' = line
    <3>1. Held(results', wireReads') = bytes
      BY <1>8, <2>1 DEF Held
    <3> QED
      BY <1>2, <1>4, <1>6, <2>1, <2>3, <3>1 DEF Line
  <2>6. Carried(t, line, pendingWrites, deferred, n, fin)
    BY <1>1, <1>4
  <2>7. PICK a \in 0 .. n : Holds(t, a)
    BY <2>6, Zenon DEF Carried
  <2>8. a \in Nat
    BY <1>5, <2>7
  <2>9. Replied(u) /\ Extends(t.answers, u.answers) /\ u.hitEof
    BY <2>4, <2>7, <2>8, Zenon
  <2>10. Carried(u, line, pendingWrites, deferred, n, fin)
    <3>1. \A b \in 0 .. n : b \in Nat
      BY <1>5
    <3>2. \A b \in 0 .. n : Holds(t, b) => Holds(u, b)
      BY <2>4, <3>1, Zenon
    <3> QED
      BY <2>6, <3>2, Zenon DEF Carried
  <2>11. Carried(tls', Line', pendingWrites', deferred', sent', fin')
    BY <1>2, <1>4, <2>5, <2>10
  <2>12. closing' \/ fin' \/ (Harmless(Whole(Line')) /\ Harmless(pendingWrites'))
    BY <1>2, <2>2
  <2>13. AtEnd'
    BY <1>1, <1>2, <2>1, <2>2 DEF AtEnd
  <2>14. PipeInv'
    BY <1>1, <1>4, <1>7, <2>9, <2>11, <2>12, <2>13, PipeParts
  <2>15. Goes(tls, tls')
    BY <1>4, <2>9 DEF Goes
  <2> QED
    BY <2>14, <2>15
<1>9. CASE bytes # <<>>
  <2>1. PICK req : req = IF Len(u.partial) = 0 THEN startReadLoop
                         ELSE Pending(RecordSize - Len(u.partial), RecordSize - Len(u.partial))
    OBVIOUS
  <2>2. u = ReceivedData(t, bytes) /\ ReadWire(req, wireReads, Tail(results))
    BY <1>4, <1>9, <2>1 DEF ProcessBytes, Failed
  <2>3. u \in Adaptors /\ ~u.stuck /\ Len(u.partial) < RecordSize
    BY <1>5, <2>2, DataKeeps
  <2>4. req \in PendingReads /\ req.bytes = <<>>
    BY <2>1, <2>3, NextRead
  <2>5. /\ inbox' \in Seq(WireBytes) /\ Held(results', wireReads') \in Seq(WireBytes)
        /\ Held(results', wireReads') \o inbox' = inbox
        /\ results' # <<>> /\ Head(results') = <<>> => eof
        /\ wireReads' # <<>> => Head(wireReads').bytes = <<>>
    BY <1>1, <1>3, <2>2, <2>4, ReadWireHolds
  <2>6. PICK all, ahead, left, rest, k :
            /\ all = p \o bytes /\ ahead = i \o w /\ k = Len(all) \div RecordSize
            /\ left = SubSeq(all, k * RecordSize + 1, Len(all)) /\ rest = left \o ahead
    OBVIOUS
  <2>7. all \in Seq(WireBytes) /\ ahead \in Seq(WireBytes)
    BY <1>5, <2>6, ConcatProperties
  <2>8. line = all \o ahead
    <3>1. Associate(p, bytes, ahead)
      BY <1>5, <2>7, Associates, Zenon
    <3> QED
      BY <1>6, <2>6, <3>1, Zenon DEF Associate
  <2>9. Taken(line, all, left, rest)
    <3>1. /\ k = Len(all) \div RecordSize /\ left = SubSeq(all, k * RecordSize + 1, Len(all))
          /\ rest = left \o ahead
      BY <2>6
    <3> QED
      BY <2>7, <2>8, <3>1, WholeTaken, Zenon
  <2>10. ASSUME NEW a \in Nat, NEW b \in Nat, Holds(t, a), Carry(Whole(all), a, b)
         PROVE  /\ Holds(u, b) /\ Replied(u) /\ Goes(t, u) /\ u.partial = left
                /\ u.hitEof => t.hitEof \/ ~Harmless(Whole(all))
    <3>1. all = t.partial \o bytes /\ Replied(t)
      BY <1>1, <1>4, <2>6
    <3>2. Brought(t, all, u, b)
      BY <1>5, <2>2, <2>10, <3>1, DataFills, Zenon
    <3>3. left = SubSeq(all, (Len(all) \div RecordSize) * RecordSize + 1, Len(all))
      BY <2>6
    <3> QED
      BY <3>2, <3>3, Zenon DEF Brought
  <2>11. Carried(t, line, pendingWrites, deferred, n, fin)
    BY <1>1, <1>4
  <2>12. Carried(u, rest, pendingWrites, deferred, n, fin)
    <3>1. \A a, b \in Nat : Holds(t, a) /\ Carry(Whole(all), a, b) => Holds(u, b)
      BY <2>10, Zenon
    <3> QED
      BY <1>5, <2>9, <2>11, <3>1, PartIsTaken, Zenon DEF Taken
  <2>13. /\ Replied(u) /\ Goes(t, u) /\ u.partial = left
         /\ u.hitEof => t.hitEof \/ ~Harmless(Whole(all))
    <3>1. PICK a \in 0 .. n, b \in 0 .. n : Holds(t, a) /\ Carry(Whole(line), a, b)
      BY <2>11, Zenon DEF Carried
    <3>2. PICK d \in Nat : Carry(Whole(all), a, d)
      BY <2>9, <3>1, CarryCut, Zenon DEF Taken
    <3>3. a \in Nat
      BY <1>5, <3>1
    <3> QED
      BY <2>10, <3>1, <3>2, <3>3, Zenon
  <2>14. Line' = rest
    <3>1. PICK h, j : h = Held(results', wireReads') /\ j = inbox'
      OBVIOUS
    <3>2. h \in Seq(WireBytes) /\ j \in Seq(WireBytes) /\ h \o j = i
      BY <1>4, <2>5, <3>1
    <3>3. Associate(h, j, w)
      BY <1>5, <3>2, Associates, Zenon
    <3>4. h \o (j \o w) = ahead
      BY <2>6, <3>2, <3>3, Zenon DEF Associate
    <3>5. Line' = u.partial \o (h \o (j \o w))
      BY <1>2, <1>4, <3>1 DEF Line
    <3> QED
      BY <2>6, <2>13, <3>4, <3>5, Zenon
  <2>15. Carried(tls', Line', pendingWrites', deferred', sent', fin')
    BY <1>2, <1>4, <2>12, <2>14
  <2>16. Harmless(Whole(line)) <=> Harmless(Whole(all)) /\ Harmless(Whole(rest))
    BY <2>9, HarmlessParts, Zenon DEF Taken
  <2>17. closing' \/ fin' \/ (Harmless(Whole(Line')) /\ Harmless(pendingWrites'))
    BY <1>1, <1>2, <1>4, <2>14, <2>16
  <2>18. tls'.hitEof => closing \/ fin
    <3>1. t.hitEof => closing \/ fin
      BY <1>1, <1>4 DEF AtEnd
    <3>2. ~Harmless(Whole(line)) => closing \/ fin
      BY <1>1, <1>4
    <3> QED
      BY <1>4, <2>13, <2>16, <3>1, <3>2
  <2>19. AtEnd'
    <3>1. eof => fin
      BY <1>1 DEF AtEnd
    <3> QED
      BY <1>2, <2>5, <2>18, <3>1 DEF AtEnd
  <2>20. Replied(tls') /\ Goes(tls, tls')
    BY <1>4, <2>13
  <2>21. PipeInv'
    BY <1>1, <1>7, <2>15, <2>17, <2>19, <2>20, PipeParts
  <2> QED
    BY <2>20, <2>21
<1> QED
  BY <1>8, <1>9

(* The user asks for bytes.                                                *)
LEMMA ReadKeepsPipe ==
    ASSUME PipeInv, NEW req \in Requests, Read(req)
    PROVE  PipeInv' /\ Goes(tls, tls')
<1>1. /\ StreamInv /\ StreamInv' /\ StreamTypeOK /\ AtEnd /\ Queue /\ Replied(tls)
      /\ Carried(tls, Line, pendingWrites, deferred, sent, fin)
      /\ closing \/ fin \/ (Harmless(Whole(Line)) /\ Harmless(pendingWrites))
  <2>1. StreamInv
    BY DEF PipeInv
  <2> QED
    BY <2>1, ReadStep DEF PipeInv, StreamInv, Quiet
<1>2. /\ wire' = wire /\ eof' = eof /\ inbox' = inbox /\ wireReads' = wireReads
      /\ results' = results
      /\ pendingWrites' = pendingWrites /\ deferred' = deferred /\ sent' = sent /\ fin' = fin
      /\ closing' = closing /\ shaken' = shaken /\ writing' = writing /\ reader' = reader
  BY DEF Read, writerVars
<1>3. PICK t, u, line, n, queue, later :
          t = tls /\ u = tls' /\ line = Line /\ n = sent /\ queue = pendingWrites /\ later = deferred
  OBVIOUS
<1>4. t \in Adaptors /\ ~t.stuck /\ n \in Nat /\ Replied(t)
  BY <1>1, <1>3 DEF StreamTypeOK
<1>5. u = Asked(t, req)
  BY <1>3 DEF Read, Asked
<1>6. \A b \in Nat : Holds(t, b) => Holds(u, b) /\ Replied(u) /\ Goes(t, u) /\ u.hitEof = t.hitEof
  BY <1>4, <1>5, ReadFills, Zenon
<1>7. u.partial = t.partial
  <2>1. CASE t.hitEof
    BY <1>4, <1>5, <2>1 DEF Adaptors, Asked
  <2>2. CASE ~t.hitEof
    <3>1. PICK requests, v : requests = Append(t.requests, req)
                             /\ v = [t EXCEPT !.requests = requests]
      OBVIOUS
    <3>2. requests \in Seq(Requests)
      BY <1>4, <3>1 DEF Adaptors
    <3>3. v \in Adaptors /\ ~v.stuck /\ v.partial = t.partial
      BY <1>4, <3>1, <3>2 DEF Adaptors
    <3>4. u = processReadRequests(v)
      BY <1>5, <2>2, <3>1 DEF Asked
    <3> QED
      BY <3>3, <3>4, RequestsKeep
  <2> QED
    BY <2>1, <2>2
<1>8. Line' = line
  BY <1>2, <1>3, <1>7 DEF Line
<1>9. Carried(t, line, queue, later, n, fin)
  BY <1>1, <1>3
<1>10. \A b \in 0 .. n : b \in Nat
  BY <1>4
<1>11. Replied(u) /\ Goes(t, u) /\ u.hitEof = t.hitEof
  BY <1>6, <1>9, <1>10, Zenon DEF Carried
<1>12. Carried(u, line, queue, later, n, fin)
  <2>1. \A b \in 0 .. n : Holds(t, b) => Holds(u, b)
    BY <1>6, <1>10, Zenon
  <2> QED
    BY <1>9, <2>1, Zenon DEF Carried
<1>13. Carried(tls', Line', pendingWrites', deferred', sent', fin') /\ Replied(tls') /\ Goes(tls, tls')
  BY <1>2, <1>3, <1>8, <1>11, <1>12
<1>14. closing' \/ fin' \/ (Harmless(Whole(Line')) /\ Harmless(pendingWrites'))
  BY <1>1, <1>2, <1>3, <1>8
<1>15. Queue' /\ AtEnd'
  <2>1. Queue'
    BY <1>1, <1>2 DEF Queue
  <2>2. tls'.hitEof = tls.hitEof
    BY <1>3, <1>11
  <2>3. AtEnd'
    BY <1>1, <1>2, <2>2 DEF AtEnd
  <2> QED
    BY <2>1, <2>3
<1>16. PipeInv'
  BY <1>1, <1>13, <1>14, <1>15, PipeParts
<1> QED
  BY <1>13, <1>16

-----------------------------------------------------------------------------
(* The invariant, and what it says of a pipe.                              *)

LEMMA PipeInitially == StreamInit => PipeInv
<1> SUFFICES ASSUME StreamInit PROVE PipeInv
  OBVIOUS
<1>1. StreamInv
  BY StreamInitially
<1>2. /\ sent = 0 /\ deferred = <<>> /\ shaken = FALSE /\ closing = FALSE
      /\ pendingWrites = <<>> /\ writing = FALSE
      /\ wire = <<>> /\ fin = FALSE /\ inbox = <<>> /\ wireReads = <<startReadLoop>>
      /\ eof = FALSE /\ results = <<>>
      /\ tls.partial = <<>> /\ tls.incoming = <<>> /\ tls.requests = <<>> /\ tls.answers = <<>>
      /\ tls.hitEof = FALSE
  BY DEF StreamInit
<1>3. <<>> \in Seq(WireBytes) /\ Len(<<>>) = 0 /\ <<>> \o <<>> = <<>>
  <2>1. <<>> \in Seq(WireBytes)
    OBVIOUS
  <2> QED
    BY <2>1, ConcatEmptySeq
<1>4. Head(wireReads).bytes = <<>>
  BY <1>2 DEF startReadLoop, Pending
<1>5. Line = <<>>
  <2>1. Held(results, wireReads) = <<>>
    BY <1>2, <1>4 DEF Held
  <2> QED
    BY <1>2, <1>3, <2>1 DEF Line
<1>6. Whole(<<>>) = <<>>
  <2>1. PICK size, n : size = RecordSize /\ n = 0 \div size
    OBVIOUS
  <2>2. size \in Nat /\ size > 0
    BY <2>1, StreamAssumption
  <2>3. n = 0
    BY <2>1, <2>2, QuotientIs
  <2>4. Whole(<<>>) \in Seq(RecordSet) /\ Len(Whole(<<>>)) = n
    <3>1. n = Len(<<>>) \div RecordSize
      BY <1>3, <2>1
    <3> QED
      BY <1>3, <3>1, WholeIs
  <2> QED
    BY <2>3, <2>4, EmptySeq
<1>7. Holds(tls, 0)
  <2>1. Numbered(0, 0) = <<>>
    <3>1. Numbered(0, 0) \in Seq(Nat) /\ Len(Numbered(0, 0)) = 0
      BY NumberedIs
    <3> QED
      BY <3>1, EmptySeq
  <2>2. Pipe!Bytes(<<>>) = <<>>
    <3>1. PICK none, s : none = <<>> /\ s = [i \in DOMAIN none |-> none[i].bytes]
      OBVIOUS
    <3>2. s = <<>> /\ Len(s) = 0
      BY <3>1
    <3>3. \A w : Pipe!Bytes(w) = FlattenSeq([i \in DOMAIN w |-> w[i].bytes])
      BY Zenon DEF Pipe!Bytes, Pipe!FlattenSeq, FlattenSeq
    <3>4. Pipe!Bytes(none) = FlattenSeq(s)
      BY <3>1, <3>3
    <3>5. FlattenSeq(s) = <<>>
      BY <3>2, Zenon DEF FlattenSeq
    <3> QED
      BY <3>1, <3>4, <3>5
  <2>3. 0 \in 0 .. 0
    OBVIOUS
  <2> QED
    BY <1>2, <2>1, <2>2, <2>3, Zenon DEF Holds
<1>8. Carried(tls, Line, pendingWrites, deferred, sent, fin)
  <2>1. PICK t, none : t = tls /\ none = <<>>
    OBVIOUS
  <2>2. Carry(none, 0, 0) /\ Len(none) = 0 * RecordSize /\ Len(none) \in Nat /\ 0 \in Nat
    <3>1. Carry(<<>>, 0, 0)
      BY CarryNone
    <3> QED
      BY <1>3, <2>1, <3>1, StreamAssumption
  <2>3. Holds(t, 0) /\ Whole(none) = none
    BY <1>6, <1>7, <2>1
  <2>4. Carried(t, none, none, none, 0, FALSE)
    BY <2>2, <2>3, IsCarried
  <2> QED
    BY <1>2, <1>5, <2>1, <2>4
<1>9. Quiet(Line, pendingWrites)
  <2>1. Harmless(<<>>)
    BY DEF Harmless
  <2> QED
    BY <1>2, <1>5, <1>6, <2>1 DEF Quiet
<1>10. Queue
  BY <1>2 DEF Queue
<1>11. AtEnd
  BY <1>2, <1>4 DEF AtEnd
<1>12. Replied(tls)
  BY <1>2 DEF Replied, AnswersFit
<1> QED
  BY <1>1, <1>8, <1>9, <1>10, <1>11, <1>12 DEF PipeInv

(* The user of the reading end is given answers by these two alone.        *)
LEMMA PipeStep ==
    ASSUME PipeInv, StreamNext
    PROVE  PipeInv' /\ (ProcessBytes \/ (\E req \in Requests : Read(req)) => Goes(tls, tls'))
<1>1. CASE \E n \in 1 .. MaxBytes : Write(n)
  <2>1. PipeInv' /\ tls' = tls
    BY <1>1, WriteKeepsPipe DEF Write
  <2> QED
    BY <2>1, BytesKeepPipe, ReadKeepsPipe
<1>2. CASE HandshakeFinishes \/ HandshakeFails \/ ShutdownWrite
  BY <1>2, ControlKeepsPipe, BytesKeepPipe, ReadKeepsPipe
<1>10. CASE FlushDeferred
  BY <1>10, FlushKeepsPipe, BytesKeepPipe, ReadKeepsPipe
<1>3. CASE ProcessWrites
  BY <1>3, FiberKeepsPipe, BytesKeepPipe, ReadKeepsPipe
<1>4. CASE Disconnect
  BY <1>4, DisconnectKeepsPipe, BytesKeepPipe, ReadKeepsPipe
<1>5. CASE Arrive
  BY <1>5, ArriveKeepsPipe, BytesKeepPipe, ReadKeepsPipe
<1>6. CASE Disconnected \/ ReadEof
  BY <1>6, EndKeepsPipe, BytesKeepPipe, ReadKeepsPipe
<1>7. CASE ReadSome
  BY <1>7, ReadSomeKeepsPipe, BytesKeepPipe, ReadKeepsPipe
<1>8. CASE ProcessBytes
  BY <1>8, BytesKeepPipe, ReadKeepsPipe
<1>9. CASE \E req \in Requests : Read(req)
  BY <1>9, BytesKeepPipe, ReadKeepsPipe
<1> QED
  BY <1>1, <1>2, <1>3, <1>4, <1>5, <1>6, <1>7, <1>8, <1>9, <1>10 DEF StreamNext

LEMMA PipeStutters ==
    ASSUME PipeInv, UNCHANGED streamVars
    PROVE  PipeInv'
<1>1. /\ reader' = reader /\ sent' = sent /\ deferred' = deferred /\ shaken' = shaken
      /\ closing' = closing /\ pendingWrites' = pendingWrites /\ writing' = writing
      /\ wire' = wire /\ fin' = fin /\ inbox' = inbox /\ wireReads' = wireReads /\ eof' = eof
      /\ results' = results /\ tls' = tls
  BY DEF streamVars, writerVars
<1>2. StreamInv'
  <2>1. StreamInv
    BY DEF PipeInv
  <2>2. StreamTypeOK'
    BY <1>1, <2>1 DEF StreamInv, StreamTypeOK
  <2>3. OneWireRead'
    BY <1>1, <2>1 DEF StreamInv, OneWireRead
  <2> QED
    BY <2>2, <2>3 DEF StreamInv
<1>3. Line' = Line
  BY <1>1 DEF Line
<1>4. AtEnd'
  BY <1>1 DEF PipeInv, AtEnd
<1> QED
  BY <1>1, <1>2, <1>3, <1>4, LineStays DEF writerVars

LEMMA PipeInvHolds == StreamSpec => []PipeInv
<1>1. PipeInv /\ [StreamNext]_streamVars => PipeInv'
  BY PipeStep, PipeStutters
<1> QED
  BY <1>1, PipeInitially, PTL DEF StreamSpec

(* Answers that go on from those there were are a pipe's.                  *)
LEMMA AnswersArePiped ==
    ASSUME PipeInv, PipeInv', Goes(tls, tls'), UNCHANGED <<sent, closing, fin>>
    PROVE  Pipe!Read
<1>1. PICK s, t, n, l, m, over : /\ s = tls.answers /\ t = tls'.answers /\ n = sent
                                 /\ l = Len(s) /\ m = Len(t) /\ over = (closing \/ fin)
  OBVIOUS
<1>2. tls \in Adaptors /\ tls' \in Adaptors /\ n \in Nat
  BY <1>1 DEF PipeInv, StreamInv, StreamTypeOK
<1>3. /\ s \in Seq(Answers) /\ l \in Nat /\ DOMAIN s = 1 .. l
      /\ \A i \in 1 .. l : s[i] \in Answers
  BY <1>1, <1>2, AnswersType
<1>4. /\ t \in Seq(Answers) /\ m \in Nat /\ DOMAIN t = 1 .. m
  BY <1>1, <1>2, AnswersType
<1>5. Extends(s, t) /\ l <= m /\ \A i \in 1 .. l : t[i] = s[i]
  BY <1>1 DEF Goes, Extends
<1>6. Pipe!IsPrefix(s, t)
  <2>1. SubSeq(t, 1, l) = s
    <3>1. \A i \in 1 .. l : t[i] \in Answers
      BY <1>3, <1>5
    <3>2. 1 \in Int /\ l \in Int
      BY <1>3
    <3>3. /\ SubSeq(t, 1, l) \in Seq(Answers)
          /\ Len(SubSeq(t, 1, l)) = (IF 1 <= l THEN l - 1 + 1 ELSE 0)
          /\ \A i \in 1 .. l - 1 + 1 : SubSeq(t, 1, l)[i] = t[1 + i - 1]
      BY <3>1, <3>2, SubSeqProperties
    <3>4. PICK v : v = SubSeq(t, 1, l)
      OBVIOUS
    <3>5. v \in Seq(Answers) /\ Len(v) = l /\ \A i \in 1 .. l : v[i] = t[i]
      BY <1>3, <3>3, <3>4
    <3>6. \A i \in 1 .. l : v[i] = s[i]
      BY <1>5, <3>5, Zenon
    <3> QED
      BY <1>1, <1>3, <3>4, <3>5, <3>6, SeqEqual, Zenon
  <2> QED
    BY <1>1, <1>5, <2>1 DEF Pipe!IsPrefix
<1>7. /\ tls'.hitEof => over /\ \A i \in 1 .. m :
             Pipe!Fits(t[i]) \/ \A j \in i .. m : Pipe!IsEnd(t[j])
      /\ ~tls'.hitEof => \A i \in 1 .. m : Pipe!Fits(t[i])
  <2>1. Replied(tls') /\ AtEnd'
    BY DEF PipeInv
  <2>2. tls'.hitEof => over
    BY <1>1, <2>1 DEF AtEnd
  <2> QED
    BY <1>1, <1>4, <2>1, <2>2, Zenon DEF Replied, AnswersEnd, AnswersFit
<1>8. PICK e \in 0 .. n : Pipe!Bytes(s) = Numbered(0, e)
  <2>1. Carried(tls, Line, pendingWrites, deferred, sent, fin)
    BY DEF PipeInv
  <2>2. PICK a \in 0 .. n : Holds(tls, a)
    BY <1>1, <2>1, Zenon DEF Carried
  <2>3. PICK e \in 0 .. a : Pipe!Bytes(s) = Numbered(0, e)
    BY <1>1, <2>2, Zenon DEF Holds
  <2>4. e \in 0 .. n
    BY <1>2, <2>2, <2>3
  <2> QED
    BY <2>3, <2>4
<1>9. PICK f \in 0 .. n : Pipe!Bytes(t) = Numbered(0, f)
  <2>1. Carried(tls', Line', pendingWrites', deferred', sent', fin')
    BY DEF PipeInv
  <2>2. sent' = n
    BY <1>1
  <2>3. PICK a \in 0 .. n : Holds(tls', a)
    BY <2>1, <2>2, Zenon DEF Carried
  <2>4. PICK f \in 0 .. a : Pipe!Bytes(t) = Numbered(0, f)
    BY <1>1, <2>3, Zenon DEF Holds
  <2>5. f \in 0 .. n
    BY <1>2, <2>3, <2>4
  <2> QED
    BY <2>4, <2>5
<1>10. ASSUME NEW i \in l + 1 .. m
       PROVE  Pipe!Fits(t[i]) \/ (over /\ \A j \in i .. m : Pipe!IsEnd(t[j]))
  <2>1. i \in 1 .. m
    BY <1>3
  <2> QED
    BY <1>7, <2>1, Zenon
<1>11. ASSUME NEW a \in Pipe!ToSet(s), Pipe!IsEnd(a) PROVE Pipe!Bytes(t) = Pipe!Bytes(s)
  <2>1. PICK i \in 1 .. l : s[i] = a
    BY <1>3 DEF Pipe!ToSet
  <2>2. i \in 1 .. m /\ t[i] = a
    BY <1>3, <1>4, <1>5, <2>1
  <2>3. ~ Pipe!Fits(a)
    <3>1. a \in Answers
      BY <1>3, <2>1
    <3>2. a.req \in Requests /\ a.bytes = <<>>
      BY <1>11, <3>1 DEF Answers, Pipe!IsEnd
    <3>3. a.req.min \in Nat \ {0}
      BY <3>2, StreamAssumption
    <3>4. Len(a.bytes) = 0
      BY <3>2
    <3> QED
      BY <3>3, <3>4 DEF Pipe!Fits
  <2>4. \A j \in i .. m : Pipe!IsEnd(t[j])
    BY <1>7, <2>2, <2>3, Zenon
  <2>5. NoMore(t, l + 1)
    <3>1. \A j \in l + 1 .. m : j \in i .. m
      BY <1>3, <2>1
    <3>2. \A j \in l + 1 .. m : t[j].bytes = <<>>
      BY <2>4, <3>1, Zenon DEF Pipe!IsEnd
    <3> QED
      BY <1>1, <3>2, Zenon DEF NoMore
  <2>6. Pipe!Bytes(s) \in Seq(Nat)
    <3>1. e \in Nat /\ 0 <= e /\ 0 \in Nat
      BY <1>2, <1>8
    <3>2. Numbered(0, e) \in Seq(Nat)
      BY <3>1, NumberedIs
    <3> QED
      BY <1>8, <3>2
  <2> QED
    BY <1>1, <1>3, <1>4, <1>5, <2>5, <2>6, BytesOfEnds
<1>12. Len(Pipe!Bytes(t)) <= n /\ Pipe!Bytes(t) = [i \in 1 .. Len(Pipe!Bytes(t)) |-> i]
  <2>1. f \in Nat /\ 0 <= f /\ f - 0 = f /\ 0 \in Nat /\ f <= n
    BY <1>2, <1>9
  <2>2. Len(Numbered(0, f)) = f
    BY <2>1, NumberedIs
  <2>3. Numbered(0, f) = [i \in 1 .. f |-> i]
    BY <2>1 DEF Numbered
  <2> QED
    BY <1>9, <2>1, <2>2, <2>3
<1>13. sent' = sent /\ (closing \/ fin)' = (closing \/ fin)
  OBVIOUS
<1> QED
  BY <1>1, <1>6, <1>10, <1>11, <1>12, <1>13 DEF Pipe!Read

(* The stream is a pipe: what one user reads is what the other wrote, in   *)
(* order and each byte once, and reads are answered as BytePipe says.      *)
THEOREM ImplementsPipeHolds == StreamSpec => ImplementsPipe
<1>1. StreamInit => Pipe!Init
  BY DEF StreamInit, Pipe!Init
<1>2. PipeInv /\ PipeInv' /\ [StreamNext]_streamVars => [Pipe!Next]_(Pipe!vars)
  <2> SUFFICES ASSUME PipeInv, PipeInv', [StreamNext]_streamVars
               PROVE  [Pipe!Next]_(Pipe!vars)
    OBVIOUS
  <2>1. CASE \E n \in 1 .. MaxBytes : Write(n)
    <3>1. PICK n \in 1 .. MaxBytes : Write(n)
      BY <2>1
    <3>2. ~closing /\ ~fin /\ sent' = sent + n /\ UNCHANGED <<closing, fin, tls>>
      BY <3>1 DEF Write
    <3>3. sent' > sent
      <4>1. sent \in Int /\ n \in Nat /\ n > 0
        BY StreamAssumption DEF PipeInv, StreamInv, StreamTypeOK
      <4> QED
        BY <3>2, <4>1
    <3>4. Pipe!Write
      BY <3>2, <3>3 DEF Pipe!Write
    <3> QED
      BY <3>4 DEF Pipe!Next
  <2>2. CASE HandshakeFails \/ ShutdownWrite \/ Disconnect
    <3>1. (closing \/ fin)' = TRUE /\ UNCHANGED <<sent, tls>>
      BY <2>2 DEF HandshakeFails, ShutdownWrite, Disconnect
    <3>2. Pipe!Close
      BY <3>1 DEF Pipe!Close
    <3> QED
      BY <3>2 DEF Pipe!Next
  <2>3. CASE ProcessBytes \/ \E req \in Requests : Read(req)
    <3>1. StreamNext
      BY <2>3 DEF StreamNext
    <3>2. Goes(tls, tls')
      BY <2>3, <3>1, PipeStep
    <3>3. UNCHANGED <<sent, closing, fin>>
      BY <2>3 DEF ProcessBytes, Read, writerVars
    <3>4. Pipe!Read
      BY <3>2, <3>3, AnswersArePiped
    <3> QED
      BY <3>4 DEF Pipe!Next
  <2>4. CASE HandshakeFinishes \/ FlushDeferred \/ ProcessWrites \/ Arrive \/ Disconnected
             \/ ReadSome \/ ReadEof \/ UNCHANGED streamVars
    <3>1. UNCHANGED <<sent, closing, fin, tls>>
      BY <2>4 DEF HandshakeFinishes, FlushDeferred, ProcessWrites, Arrive, Disconnected,
                  ReadSome, ReadEof, streamVars, writerVars
    <3> QED
      BY <3>1 DEF Pipe!vars
  <2> QED
    BY <2>1, <2>2, <2>3, <2>4 DEF StreamNext
<1>3. StreamSpec => []PipeInv
  BY PipeInvHolds
<1> QED
  BY <1>1, <1>2, <1>3, PTL DEF StreamSpec, ImplementsPipe, Pipe!Spec
==============================================================================
