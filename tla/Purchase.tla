------------------------------ MODULE Purchase ------------------------------
(***************************************************************************)
(* Buying a contest: the page that collects a request and the dialog that  *)
(* pays for it (CreateContestPage.qml), PurchaseApi between them and the   *)
(* backend, and ContestCreatorServer, which prices a request and makes a   *)
(* PurchaseServer that watches the blocks for a transfer with its memo and *)
(* then publishes the contest.                                             *)
(*                                                                         *)
(* Each press of Checkout makes a request, a purchase, an API and a dialog *)
(* of its own.  The connection delivers messages in order, both ways.  The *)
(* wallet and the chain are external: a transfer that was broadcast may or *)
(* may not be in a later block.  Processing a payment is a task of its own *)
(* that waits while the network thread takes the transaction that publishes*)
(* the contest; everything else may run in between.                        *)
(***************************************************************************)
EXTENDS Integers, Sequences, FiniteSets, FiniteSetsExt, SequencesExt

CONSTANTS
    MaxCheckouts,   \* bound: presses of Checkout
    Requests,       \* contest creation requests
    Limits,         \* Config.contestLimits, a function from name to limit
    Schedule,       \* Config.priceSchedule, a function from line item to price
    DataFee,        \* the chain's fee for the datagram, in VOTE
    KeyValid,       \* is Config.contestPublishingAccountWif a key?
    MaxCodes,       \* bound: promotion codes that are applied
    MaxPayments,    \* bound: transfers with a memo
    None

LimitNames == {"name", "description", "descriptionSoft", "contestants",
               "contestantName", "contestantDescription",
               "contestantDescriptionSoft"}

LineItems == {"contestTypeOneOfN", "pluralityTally", "contestant3",
              "contestant4", "contestant5", "contestant6", "contestant7Plus",
              "infiniteDurationContest"}

\* The sizes of the texts of a request, those of the contestants by their
\* maximum, and when the contest ends.
RequestType == [name : Nat, description : Nat, contestants : Nat,
                contestantName : Nat, contestantDescription : Nat,
                end : {"never", "soon", "later"}]

ASSUME PurchaseAssumption ==
    /\ Requests \subseteq RequestType
    /\ DOMAIN Limits \subseteq LimitNames
    /\ \A l \in DOMAIN Limits : Limits[l] \in Nat
    /\ DOMAIN Schedule \subseteq LineItems
    /\ \A i \in DOMAIN Schedule : Schedule[i] \in Nat
    /\ DataFee \in Nat \ {0}
    /\ KeyValid \in BOOLEAN
    /\ MaxCheckouts \in Nat /\ MaxCodes \in Nat /\ MaxPayments \in Nat
    /\ None \notin Nat /\ None \notin RequestType
    /\ None \notin [amount : Nat, answered : Nat]

VARIABLES
    request,    \* the request each checkout has submitted
    purchase,   \* the purchase at the server: "none", "selling", "refused"
    votePrice,  \* PurchaseServer::votePrice
    completed,  \* PurchaseServer::purchaseCompleted
    listening,  \* is the API among PurchaseServer::completedListeners?
    broadcasts, \* transactions broadcast that publish the contest
    transfers,  \* transfers with the memo of a purchase, and what became of each
    toServer,   \* the messages on their way to the server
    toApi,      \* the messages on their way to the API
    complete,   \* PurchaseApi::m_complete
    page,       \* is a CreateContestPage shown?
    dialog,     \* the checkout dialog: "none", "opening", "open", "closed", or
                \* "gone" with its page
    quote,      \* the amount it shows
    asked,      \* how often it has asked for prices
    waiting,    \* checkoutDialog.waiting
    paying      \* what the wallet is asked to transfer, or None

Checkouts == 1 .. MaxCheckouts

serverVars == <<request, purchase, votePrice, completed, listening, broadcasts>>
dialogVars == <<dialog, quote, asked, waiting>>
vars == <<serverVars, transfers, toServer, toApi, complete, page, dialogVars, paying>>

-----------------------------------------------------------------------------
(* Pricing                                                                 *)

\* A name that is not in the configuration reads as zero.
Limit(l) == IF l \in DOMAIN Limits THEN Limits[l] ELSE 0
Price(i) == IF i \in DOMAIN Schedule THEN Schedule[i] ELSE 0

WithinLimits(r) ==
    /\ r.name \in 1 .. Limit("name")
    /\ r.description <= Limit("description")
    /\ r.contestants \in 1 .. Limit("contestants")
    /\ r.contestantName \in 1 .. Limit("contestantName")
    /\ r.contestantDescription <= Limit("contestantDescription")
    /\ r.end # "soon"

oversized(r) ==
    \/ r.description > Limit("descriptionSoft")
    \/ r.contestantDescription > Limit("contestantDescriptionSoft")

\* Mutant: the cases of the switch do not fall through.
ContestantsPrice_break(n) ==
    CASE n > 6 -> (n - 6) * Price("contestant7Plus")
      [] n = 6 -> Price("contestant6")
      [] n = 5 -> Price("contestant5")
      [] n = 4 -> Price("contestant4")
      [] n = 3 -> Price("contestant3")
      [] OTHER -> 0

\* The switch over the number of contestants: a label is passed when the
\* number is the label's or a higher one's.
ContestantsPrice(n) ==
    (IF n > 6 THEN (n - 6) * Price("contestant7Plus") ELSE 0)
        + (IF n >= 6 THEN Price("contestant6") ELSE 0)
        + (IF n >= 5 THEN Price("contestant5") ELSE 0)
        + (IF n >= 4 THEN Price("contestant4") ELSE 0)
        + (IF n >= 3 THEN Price("contestant3") ELSE 0)

ContestPrice(r) ==
    Price("contestTypeOneOfN") + Price("pluralityTally")
        + ContestantsPrice(r.contestants)
        + (IF r.end = "never" THEN Price("infiniteDurationContest") ELSE 0)

-----------------------------------------------------------------------------
(* The server                                                              *)

Reply(c, message) == toApi' = [toApi EXCEPT ![c] = Append(@, message)]

Answer(type, value) == [type |-> type, value |-> value]

\* A refused request gives an API on which every call fails.
purchaseContest(c) ==
    /\ purchase' = [purchase EXCEPT ![c] =
                        IF WithinLimits(request[c]) THEN "selling" ELSE "refused"]
    /\ votePrice' = [votePrice EXCEPT ![c] = ContestPrice(request[c])]
    /\ UNCHANGED <<listening, toApi>>

subscribe(c) ==
    /\ UNCHANGED <<purchase, votePrice>>
    /\ IF completed[c]
       THEN Reply(c, Answer("notify", TRUE)) /\ UNCHANGED listening
       ELSE listening' = [listening EXCEPT ![c] = TRUE] /\ UNCHANGED toApi

answerComplete(c) ==
    /\ Reply(c, Answer("complete", completed[c]))
    /\ UNCHANGED <<purchase, votePrice, listening>>

\* Every call raises the price of an oversized contest by the fee.
prices(c) ==
    /\ votePrice' = [votePrice EXCEPT ![c] =
                        @ + IF oversized(request[c]) THEN DataFee ELSE 0]
    /\ Reply(c, Answer("prices", votePrice'[c]))
    /\ UNCHANGED <<purchase, listening>>

\* The server takes the next message of an API.
Serve(c) ==
    /\ toServer[c] # <<>>
    /\ toServer' = [toServer EXCEPT ![c] = Tail(@)]
    /\ LET call == Head(toServer[c])
       IN  IF purchase[c] = "refused"
           THEN Reply(c, Answer("failure", call)) /\ UNCHANGED <<purchase, votePrice, listening>>
           ELSE \/ call = "purchaseContest" /\ purchaseContest(c)
                \/ call = "subscribe" /\ subscribe(c)
                \/ call = "complete" /\ answerComplete(c)
                \/ call = "prices" /\ prices(c)
    /\ UNCHANGED <<request, completed, broadcasts, transfers, complete, page,
                   dialogVars, paying>>

-----------------------------------------------------------------------------
(* Payments                                                                *)

SetState(i, s) == transfers' = [transfers EXCEPT ![i].state = s]

NotifyAll(c, success) ==
    IF listening[c] THEN Reply(c, Answer("notify", success)) ELSE UNCHANGED toApi

\* Mutant: the exact price is not enough.
Sufficient_strict(i) == transfers[i].amount > votePrice[transfers[i].memo]

Sufficient(i) == transfers[i].amount >= votePrice[transfers[i].memo]

\* A block with the transfer is applied, PaymentTransferVisitor schedules the
\* task, and the task runs processPayment up to the broadcast.  Between the
\* block and the task nothing depends on the block.  The subscription to blocks
\* is never ended, as release() only gives the connection up.  The key is required with an exception
\* that the handler around the processing does not catch, so nobody is told.
StartPayment(i) ==
    /\ transfers[i].state = "sent"
    /\ \/ /\ ~ Sufficient(i) \/ ~ KeyValid
          /\ SetState(i, "ignored")
          /\ UNCHANGED <<broadcasts, toApi>>
       \/ /\ Sufficient(i) /\ KeyValid
          /\ SetState(i, "failed")      \* the chain refuses the transaction
          /\ NotifyAll(transfers[i].memo, FALSE)
          /\ UNCHANGED broadcasts
       \/ /\ Sufficient(i) /\ KeyValid
          /\ SetState(i, "broadcast")
          /\ broadcasts' = [broadcasts EXCEPT ![transfers[i].memo] = @ + 1]
          /\ UNCHANGED toApi
    /\ UNCHANGED <<request, purchase, votePrice, completed, listening, toServer,
                   complete, page, dialogVars, paying>>

\* The rest of it.
FinishPayment(i) ==
    /\ transfers[i].state = "broadcast"
    /\ SetState(i, "done")
    /\ completed' = [completed EXCEPT ![transfers[i].memo] = TRUE]
    /\ NotifyAll(transfers[i].memo, TRUE)
    /\ UNCHANGED <<request, purchase, votePrice, listening, broadcasts, toServer,
                   complete, page, dialogVars, paying>>

-----------------------------------------------------------------------------
(* The page and its dialogs                                                *)

Send(c, calls) == toServer' = [toServer EXCEPT ![c] = @ \o calls]

\* The popups are modal: with one of them open the user does nothing else.
Free == paying = None /\ \A c \in Checkouts : dialog[c] \notin {"opening", "open"}

\* The dialogs are children of the page and die with it.
LeavePage ==
    /\ page' = FALSE
    /\ dialog' = [c \in Checkouts |-> IF dialog[c] = "none" THEN "none" ELSE "gone"]

createContestOpened ==
    /\ ~ page /\ Free
    /\ dialog[MaxCheckouts] = "none"
    /\ page' = TRUE
    /\ UNCHANGED <<serverVars, transfers, toServer, toApi, complete, dialogVars, paying>>

createContestCanceled ==
    /\ page /\ Free
    /\ LeavePage
    /\ UNCHANGED <<serverVars, transfers, toServer, toApi, complete, quote, asked,
                   waiting, paying>>

\* The request is sent with what the page has collected, and the constructor of
\* PurchaseApi calls the purchase before it is there.
submit(c, r) ==
    /\ request' = [request EXCEPT ![c] = r]
    /\ Send(c, <<"purchaseContest", "subscribe", "complete">>)

beginCheckout(c, r) ==
    /\ page /\ Free
    /\ dialog[c] = "none" /\ \A d \in 1 .. c - 1 : dialog[d] # "none"
    /\ submit(c, r)
    /\ dialog' = [dialog EXCEPT ![c] = "opening"]
    /\ UNCHANGED <<purchase, votePrice, completed, listening, broadcasts, transfers,
                   toApi, complete, page, quote, asked, waiting, paying>>

AskPrices(c) ==
    /\ asked' = [asked EXCEPT ![c] = @ + 1]
    /\ Send(c, <<"prices">>)

\* onOpened: the handlers are connected and the prices are asked for.
Opened(c) ==
    /\ dialog[c] = "opening"
    /\ dialog' = [dialog EXCEPT ![c] = "open"]
    /\ AskPrices(c)
    /\ UNCHANGED <<serverVars, transfers, toApi, complete, page, quote, waiting, paying>>

\* A promotion code is applied.
ApplyCode(c) ==
    /\ dialog[c] = "open" /\ ~ waiting[c] /\ paying = None
    /\ MapThenSumSet(LAMBDA d : asked[d], {d \in Checkouts : asked[d] > 0})
          < Cardinality({d \in Checkouts : asked[d] > 0}) + MaxCodes
    /\ AskPrices(c)
    /\ UNCHANGED <<serverVars, transfers, toApi, complete, page, dialog, quote, waiting,
                   paying>>

cancelCheckout(c) ==
    /\ dialog[c] \in {"opening", "open"} /\ paying = None
    /\ dialog' = [dialog EXCEPT ![c] = IF @ = "open" THEN "closed" ELSE "gone"]
    /\ UNCHANGED <<serverVars, transfers, toServer, toApi, complete, page, quote, asked,
                   waiting, paying>>

\* Purchase is pressed: the wallet is asked to transfer what the dialog shows.
\* answered is how many of its questions for prices have been answered.
acceptButton(c) ==
    /\ dialog[c] = "open" /\ ~ waiting[c] /\ paying = None
    /\ quote[c] # None
    /\ paying' = [checkout |-> c, amount |-> quote[c].amount,
                  answered |-> quote[c].answered, sent |-> FALSE]
    /\ UNCHANGED <<serverVars, transfers, toServer, toApi, complete, page, dialogVars>>

\* The wallet broadcasts the transfer, and does so again when the confirmation
\* popup submits it again after a reconnection.
WalletTransfers ==
    /\ paying # None
    /\ Len(transfers) < MaxPayments
    /\ transfers' = Append(transfers, [memo |-> paying.checkout, amount |-> paying.amount,
                                       answered |-> paying.answered, state |-> "sent"])
    /\ paying' = [paying EXCEPT !.sent = TRUE]
    /\ UNCHANGED <<serverVars, toServer, toApi, complete, page, dialogVars>>

\* It reports the transaction, or a failure, which may be wrong.  The server
\* does nothing when it is told that the payment was sent.
WalletReports ==
    /\ paying # None
    /\ paying' = None
    /\ \/ /\ paying.sent /\ dialog[paying.checkout] = "open"
          /\ waiting' = [waiting EXCEPT ![paying.checkout] = TRUE]
       \/ UNCHANGED waiting
    /\ UNCHANGED <<serverVars, transfers, toServer, toApi, complete, page, dialog, quote,
                   asked>>

-----------------------------------------------------------------------------
(* The API                                                                 *)

\* Mutant: only a dialog that knows that it has paid waits for the purchase.
Told_ifWaiting(c) ==
    IF dialog[c] = "open" /\ waiting[c] THEN LeavePage ELSE UNCHANGED <<page, dialog>>

\* purchaseConfirmed and purchaseFailed: the page is left, with every dialog.
Told(c) ==
    IF dialog[c] \in {"open", "closed"} THEN LeavePage ELSE UNCHANGED <<page, dialog>>

setComplete(c, success) ==
    /\ complete' = [complete EXCEPT ![c] = success]
    /\ IF complete[c] = success THEN UNCHANGED <<page, dialog>> ELSE Told(c)

\* A notification of failure emits purchaseFailed, and then completes the
\* purchase as one of success does.
notify(c, success) ==
    IF success THEN setComplete(c, TRUE)
    ELSE complete' = [complete EXCEPT ![c] = TRUE] /\ Told(c)

setPrices(c, amount) ==
    quote' = [quote EXCEPT ![c] =
                 [amount |-> amount, answered |-> IF @ = None THEN 1 ELSE @.answered + 1]]

\* An API takes the next message.  When the first question for prices fails
\* the dialog is closed; other failures are logged.
Receive(c) ==
    /\ toApi[c] # <<>>
    /\ toApi' = [toApi EXCEPT ![c] = Tail(@)]
    /\ LET message == Head(toApi[c])
       IN  \/ /\ message.type = "notify"
              /\ notify(c, message.value)
              /\ UNCHANGED quote
           \/ /\ message.type = "complete"
              /\ setComplete(c, message.value)
              /\ UNCHANGED quote
           \/ /\ message.type = "prices"
              /\ setPrices(c, message.value)
              /\ UNCHANGED <<complete, page, dialog>>
           \/ /\ message.type = "failure"
              /\ dialog' = [dialog EXCEPT ![c] =
                               IF @ = "open" /\ message.value = "prices" THEN "closed" ELSE @]
              /\ UNCHANGED <<complete, page, quote>>
    /\ UNCHANGED <<serverVars, transfers, toServer, asked, waiting, paying>>

-----------------------------------------------------------------------------
Init ==
    /\ request = [c \in Checkouts |-> None]
    /\ purchase = [c \in Checkouts |-> "none"]
    /\ votePrice = [c \in Checkouts |-> 0]
    /\ completed = [c \in Checkouts |-> FALSE]
    /\ listening = [c \in Checkouts |-> FALSE]
    /\ broadcasts = [c \in Checkouts |-> 0]
    /\ transfers = <<>>
    /\ toServer = [c \in Checkouts |-> <<>>]
    /\ toApi = [c \in Checkouts |-> <<>>]
    /\ complete = [c \in Checkouts |-> FALSE]
    /\ page = FALSE
    /\ dialog = [c \in Checkouts |-> "none"]
    /\ quote = [c \in Checkouts |-> None]
    /\ asked = [c \in Checkouts |-> 0]
    /\ waiting = [c \in Checkouts |-> FALSE]
    /\ paying = None

Next ==
    \/ createContestOpened
    \/ createContestCanceled
    \/ \E c \in Checkouts, r \in Requests : beginCheckout(c, r)
    \/ \E c \in Checkouts : Opened(c) \/ Serve(c) \/ Receive(c)
    \/ \E c \in Checkouts : ApplyCode(c) \/ cancelCheckout(c) \/ acceptButton(c)
    \/ WalletTransfers
    \/ WalletReports
    \/ \E i \in DOMAIN transfers :
           StartPayment(i) \/ FinishPayment(i)

\* The connection delivers and the network takes the transaction; nobody has to
\* pay, and no block has to take a transfer.
Fairness ==
    /\ \A c \in Checkouts : WF_vars(Receive(c))
    /\ \A i \in 1 .. MaxPayments :
           WF_vars(i \in DOMAIN transfers /\ FinishPayment(i))

Spec == Init /\ [][Next]_vars /\ Fairness

-----------------------------------------------------------------------------
(* Properties                                                              *)

\* What the price schedule says a contest costs (contestcreator.capnp:37-54):
\* each contestant after the second has a price of its own.
ListPrice(r) ==
    LET ContestantPrice(k) == CASE k = 3 -> Price("contestant3")
                                [] k = 4 -> Price("contestant4")
                                [] k = 5 -> Price("contestant5")
                                [] k = 6 -> Price("contestant6")
                                [] OTHER -> Price("contestant7Plus")
    IN  Price("contestTypeOneOfN") + Price("pluralityTally")
            + (IF r.end = "never" THEN Price("infiniteDurationContest") ELSE 0)
            + MapThenSumSet(ContestantPrice, 3 .. r.contestants)

\* Every transaction that publishes the contest of a purchase is backed by a
\* transfer of its own that covers the schedule's price and, if texts are long,
\* the data fee, although the fee is only added when prices are asked for.
PublishedIsPaidFor ==
    \A c \in Checkouts :
        broadcasts[c] <= Cardinality(
            {i \in DOMAIN transfers :
                /\ transfers[i].memo = c
                /\ transfers[i].state \in {"broadcast", "done"}
                /\ transfers[i].amount >= ListPrice(request[c])
                       + IF oversized(request[c]) THEN DataFee ELSE 0})

\* The backend takes the money without a word (ContestCreatorServer.cpp:298)
\* only from a buyer who asked for prices again, which raises that of an
\* oversized contest, and paid what the dialog showed before the answer.
IgnoredOnlyIfRepriced ==
    \A i \in DOMAIN transfers :
        transfers[i].state = "ignored" =>
            /\ oversized(request[transfers[i].memo])
            /\ transfers[i].answered < asked[transfers[i].memo]

\* When the contest has been broadcast its buyer finds out: the purchase is
\* complete for good and the dialog does not wait any longer.
BuyerLearns ==
    \A c \in Checkouts :
        broadcasts[c] > 0 ~> [](complete[c] /\ dialog[c] # "open")
=============================================================================
