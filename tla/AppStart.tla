------------------------------ MODULE AppStart ------------------------------
(***************************************************************************)
(* How the voting app starts: the first wallet that connects is asked for  *)
(* its coins and accounts (VotingSystem::syncWithBlockchain), an account   *)
(* becomes the current one, and only then the app connects to the backend  *)
(* (main.qml).  The wallet may be lost at any point of this, and may have  *)
(* no account, or refuse.                                                  *)
(*                                                                         *)
(* Connection begins where this ends: it takes for granted that an account *)
(* is set before the first attempt, and for "the wallet is there" that the *)
(* app is ready to use it.  Both are shown here.                           *)
(***************************************************************************)
EXTENDS Connection, FiniteSets

CONSTANTS
    Accounts,       \* accounts a wallet may have
    Listings,       \* lists of accounts that wallets answer with
    NoAccount,      \* no current account, nothing in the settings
    MaxStartLosses  \* bound: wallets lost before the first attempt

ASSUME StartAssumption ==
    /\ Listings \subseteq Seq(Accounts) /\ NoAccount \notin Accounts
    /\ \A l \in Listings : Cardinality(ToSet(l)) = Len(l)
    /\ MaxStartLosses \in Nat

VARIABLES
    calls,          \* what a sync under way is waiting for
    failed,         \* has one of its calls failed?
    names,          \* the account names whose balances it is fetching
    coins,          \* has m_coins been filled?
    myAccounts,     \* m_myAccounts
    currentAccount,
    settings,       \* QSettings "currentAccount"
    startLosses,    \* counter for the bound
    refused,        \* history: a sync has failed, or there was no account
    halfSynced      \* history: one has set the account and left no coins

startVars == <<calls, failed, names, coins, myAccounts, currentAccount, settings,
               startLosses, refused, halfSynced>>
allVars == <<vars, startVars>>

StartInit ==
    /\ Init
    /\ calls = {} /\ failed = FALSE /\ names = <<>>
    /\ coins = FALSE
    /\ myAccounts = <<>>
    /\ currentAccount = NoAccount
    /\ settings \in Accounts \union {NoAccount}
    /\ startLosses = 0
    /\ refused = FALSE /\ halfSynced = FALSE

-----------------------------------------------------------------------------
(* The wallet comes and goes                                               *)

(* onBlockchainWalletConnected: without an account, sync with the chain.   *)
FirstWalletArrives ==
    /\ ~wallet
    /\ currentAccount = NoAccount
    /\ wallet' = TRUE
    /\ calls' = {"coins", "names"}
    /\ failed' = FALSE
    /\ UNCHANGED <<appVars, serverVars, walletLosses, mishap, doubled, names, coins,
                   myAccounts, currentAccount, settings, startLosses, refused, halfSynced>>

LaterWalletArrives ==
    /\ currentAccount # NoAccount
    /\ WalletArrives
    /\ UNCHANGED startVars

(* The bridge rejects the calls of the sync: it is over, and not emitted.  *)
StartWalletLost ==
    /\ wallet /\ attempts = 0
    /\ startLosses < MaxStartLosses
    /\ wallet' = FALSE
    /\ startLosses' = startLosses + 1
    /\ calls' = {}
    /\ halfSynced' = (halfSynced \/ (currentAccount # NoAccount /\ ~coins))
    /\ UNCHANGED <<appVars, serverVars, walletLosses, mishap, doubled, failed, names,
                   coins, myAccounts, currentAccount, settings, refused>>

-----------------------------------------------------------------------------
(* The sync                                                                *)

(* populateCoinList clears the list and fills it again.                    *)
CoinsArrive ==
    /\ coins' = TRUE
    /\ UNCHANGED <<names, myAccounts, currentAccount, settings>>

(* listMyAccounts: the balances of all accounts are asked for at once.     *)
NamesArrive ==
    /\ names' \in Listings
    /\ UNCHANGED <<coins, myAccounts, currentAccount, settings>>

\* Mutant: only the account in the settings becomes the current one.
Chosen_persistedOnly(listed) ==
    IF settings \in ToSet(names) THEN settings ELSE currentAccount

(* The account of the settings, or else the first of the list if none is   *)
(* set yet.                                                                *)
Chosen(listed) ==
    IF settings \in ToSet(names) THEN settings
    ELSE IF currentAccount = NoAccount /\ listed # <<>> THEN Head(listed)
    ELSE currentAccount

(* populateMyAccounts adds to the list: it does not clear it.              *)
BalancesArrive ==
    /\ myAccounts' = myAccounts \o names
    /\ currentAccount' = Chosen(myAccounts')
    /\ settings' = IF currentAccount' = currentAccount THEN settings ELSE currentAccount'
    /\ UNCHANGED <<names, coins>>

\* Mutant: the lists do not wait for each other.
CallsAfter_either(call) == IF call = "names" THEN {"balances"} ELSE {}

(* What a sync waits for once a call is answered: both lists.              *)
CallsAfter(call) ==
    (calls \ {call}) \union (IF call = "names" THEN {"balances"} ELSE {})

\* Mutant: every sync connects, whatever the backend's state and account.
Synced_always == connectToBackend /\ UNCHANGED refused

(* blockchainSynced, and connectToBackendHelper: without an account the app*)
(* says that the wallet has none and stays there.                          *)
Synced ==
    IF currentAccount' # NoAccount /\ backend = 0
    THEN connectToBackend /\ UNCHANGED refused
    ELSE /\ refused' = TRUE
         /\ UNCHANGED <<attempts, handlers, socket, promise>>

(* A call is answered; the last one ends the sync.                         *)
SyncAnswered(call) ==
    /\ call \in calls
    /\ \/ call = "coins" /\ CoinsArrive
       \/ call = "names" /\ NamesArrive
       \/ call = "balances" /\ BalancesArrive
    /\ calls' = CallsAfter(call)
    /\ IF calls' = {} /\ ~failed
       THEN Synced
       ELSE UNCHANGED <<attempts, handlers, socket, promise, refused>>
    /\ halfSynced' = (halfSynced \/
           (calls' = {} /\ failed /\ currentAccount' # NoAccount /\ ~coins'))
    /\ UNCHANGED <<wallet, secrets, stream, hello, backend, serverVars, walletLosses,
                   mishap, doubled, failed, startLosses>>

(* One that is refused fails the sync when the others are answered; nothing*)
(* handles that (the promise is main.qml's, which does not keep it).       *)
SyncRefused(call) ==
    /\ call \in calls
    /\ calls' = calls \ {call}
    /\ failed' = TRUE
    /\ refused' = TRUE
    /\ halfSynced' = (halfSynced \/
           (calls' = {} /\ currentAccount # NoAccount /\ ~coins))
    /\ UNCHANGED <<vars, names, coins, myAccounts, currentAccount, settings, startLosses>>

(* The user picks an account of the list in the drawer.                    *)
setCurrentAccount(account) ==
    /\ account \in ToSet(myAccounts) \ {currentAccount}
    /\ currentAccount' = account
    /\ settings' = account
    /\ UNCHANGED <<vars, calls, failed, names, coins, myAccounts, startLosses,
                   refused, halfSynced>>

-----------------------------------------------------------------------------
(* What Connection does once there has been an attempt.                    *)
ConnectionStep ==
    /\ \/ attempts > 0 /\ WalletLost
       \/ Connected
       \/ Refused
       \/ SecretArrives
       \/ SecretFails
       \/ HandshakeCompletes
       \/ RemoteHostClosed
       \/ Accept
       \/ \E c \in clients : Close(c) \/ Erase(c)
    /\ UNCHANGED startVars

StartNext ==
    \/ FirstWalletArrives
    \/ LaterWalletArrives
    \/ StartWalletLost
    \/ \E call \in calls : SyncAnswered(call) \/ SyncRefused(call)
    \/ \E account \in Accounts : setCurrentAccount(account)
    \/ ConnectionStep

(* As in Connection; and the wallet answers or refuses what it is asked.   *)
StartFairness ==
    /\ WF_allVars(FirstWalletArrives \/ LaterWalletArrives)
    /\ WF_allVars(\E call \in calls : SyncAnswered(call) \/ SyncRefused(call))
    /\ WF_allVars((Connected \/ Refused) /\ UNCHANGED startVars)
    /\ WF_allVars((SecretArrives \/ SecretFails) /\ UNCHANGED startVars)
    /\ WF_allVars(HandshakeCompletes /\ UNCHANGED startVars)
    /\ WF_allVars(RemoteHostClosed /\ UNCHANGED startVars)
    /\ WF_allVars(Accept /\ UNCHANGED startVars)
    /\ WF_allVars((\E c \in clients : Erase(c)) /\ UNCHANGED startVars)

StartSpec == StartInit /\ [][StartNext]_allVars /\ StartFairness

-----------------------------------------------------------------------------
(* Properties                                                              *)

C == INSTANCE Connection WITH wallet <- wallet /\ attempts > 0

(* The start leads into Connection and into nothing else: the first attempt*)
(* is made when the sync is over or when a wallet comes back to an app that*)
(* has an account, every later one by the rules of Connection.             *)
ImplementsConnection == C!Init /\ [][C!Next]_(C!vars)

(* No account is listed twice, although populateMyAccounts never clears the*)
(* list and a sync that was cut off is begun again: a sync that has filled *)
(* the list has also set the account, so that there is no second one.      *)
AccountsOnce == Cardinality(ToSet(myAccounts)) = Len(myAccounts)

(* An app that shows the feed knows the coins it names the contests'       *)
(* weights by (ContestDelegate.qml:51 reads getCoin(contest.coin).name     *)
(* unchecked), unless a sync was cut off between the two lists.            *)
CoinsKnown == backend # 0 /\ ~halfSynced => coins

(* If the wallet has accounts and refuses nothing, and nothing fails but   *)
(* connections that work, the app gets to the backend and back to it, from *)
(* whatever point of the start the wallet is lost at.                      *)
Starts == <>(refused \/ mishap \/ doubled) \/ <>[](backend # 0)
=============================================================================
