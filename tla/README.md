# Stake Weighted Voting: models, checks and proofs

This directory holds TLA+ models of the Follow My Vote Stake Weighted Voting
system (the repository above it), the TLC configurations that check them on
small instances, and theorems about them with proofs for TLAPS.  Paths below
are relative to `src/`; `Backend` abbreviates `GrapheneBackend`.

## The system

Votes are operations on a graphene blockchain.  A *backend* runs as a plugin of
a chain node, watches for operations that carry voting datagrams, keeps contests
and decisions in a *vote database*, and serves them to *voting apps* over
Cap'n Proto RPC (inside TLS).  The voting app shows feeds of contests and live
results, and publishes decisions and new contests through a *wallet*.

    wallet --decision--> chain --do_apply--> vote database
                                                 |  read by
      voting app <--- RPC --- API servers: feed, search, results,
                                           decisions, contest creation

### Components

| component | state it keeps | operations | what makes it correct |
|---|---|---|---|
| vote database (`Backend/GrapheneIntegration/CustomEvaluator.cpp`, `Backend/Objects`, `Backend/VoteDatabase.cpp`) | `Contest`, `Decision` and `CoinVolumeHistory` indexes | evaluate a decision or contest datagram; record volume; report it (`Backend/ApiServers/BackendServer.cpp`) | objects carry the ID of their own operation; a stored decision can be tallied without a check; an hour's volume is final and never more than the supply |
| live results (`Backend/ApiServers/LiveContestResultsServer.cpp`, `Backend/Objects/Decision.cpp`) | subscriptions | `results`, `subscribe`, `decisions`, notification per block | one vote per voter and contest, the last one, weighed by the balance it is held by now |
| results in the app (`VotingApp/Apis/ContestResultsApi.cpp`) | the results shown | `updateResults`, `notify` | once quiet, what is shown is the tally |
| decision list (`Backend/ApiServers/SnapshotDecisionGenerator.cpp`, `VotingApp/Apis/DecisionGeneratorApi.cpp`, `VotingApp/qml/ContestDetailPage.qml`) | an iterator over a snapshot; the page's pending and final records | `getDecision`, `getValues`, `refreshDecisions` | every decision of the snapshot once, grouped by voter |
| feeds and search (`Backend/ApiServers/FeedGenerator.hpp`, `BackendServer.cpp`, `VotingApp/Apis/ContestGeneratorApi.cpp`) | the last contest returned | `getContest`, `getValues`, `searchContests` | no contest twice, only matching ones, and none of them missed |
| contest creation (`Backend/ApiServers/ContestCreatorServer.cpp`, `VotingApp/Apis/PurchaseApi.cpp`, `PurchaseContestRequestApi.cpp`, `VotingApp/qml/CreateContestPage.qml`) | a purchase per checkout: price, surcharge, subscription, completion; the page, its dialog and what that is waiting for | checkout, promotion code, pay, cancel; `purchaseContest`, `prices`, `subscribe`, `paymentSent`, payments in blocks | what is published was paid for; no payment of the price shown is lost; the buyer hears of it |
| feed page (`VotingApp/qml/FeedPage.qml`) | the list, the generator, fetches under way, a busy flag | fetch, populate, refresh, scroll, change of the account | the list is what the backend's feed has, filled until the page is full |
| voting system (`VotingApp/VotingSystem.cpp`, `VotingApp/DataStructures`) | connections, coins, accounts, the current account, pending and official decisions | sync with the wallet, connect, cast, cancel, switch account | what becomes official is what was published; the app gets from its start to the backend |
| decision look-up (`VotingApp/Apis/BlockchainWalletApi.cpp`, `VotingSystem::castPendingDecision`, `BitsharesWalletBridge::getDecision...`) | rows of calls to the wallet under way, one per balance | find the official decision, cast on every balance, read a decision record | what is found is on record on the newest balance; the user is told when balances disagree |
| wallet bridge (`VotingApp/BitsharesWalletBridge.cpp`, `VotingApp/Apis/BlockchainWalletApi.cpp`, `VotingApp/qml/WalletConfirmationPopup.qml`) | JSON calls in flight, the socket | `beginCall`, `checkConnection`, `finishCall`, `nextWalletClient` | every call is answered once |
| stream wrappers (`Backend/compat/FcStreamWrapper.cpp`, `VotingApp/capnqt/QSocketWrapper.cpp`) | queues of reads and writes | `read`, `tryRead`, `write`, `shutdownWrite` | bytes in order, every request answered |
| TLS adaptor (`shared/BotanIntegration/TlsPskAdaptor.cpp`) | plaintext buffer, read requests, handshake | the same, above TLS | the same |
| event ports (`Backend/compat/FcEventPort.cpp`, `VotingApp/capnqt/QtEventPort.cpp`) | the loop's wait | `wait`, `poll`, `setRunnable` | no wake-up is lost |
| plugin (`Backend/GrapheneIntegration/BackendPlugin.cpp`) | the accept loop | initialise, start, accept, shut down | clients are served until shutdown |
| configuration (`Backend/BackendConfiguration.cpp`) | the configuration message and its file | open, load, save | what is loaded is what was saved |

Not modelled at all: the event ports and the configuration (see the end), vendored
code (`VotingApp/vendor`), layout-only QML, build files, the schema compiler's
output, PSK session management (`TlsPskAdaptorFactory.cpp`, callbacks around
Botan) and the graphene chain beyond what the backend reads from it.

### Which behaviours are hard

* Identifiers are computed while an operation is being applied.
* Volume is tallied lazily: balances are read when the *next* hour's first vote
  comes, after any number of transfers.
* The results client sends calls and receives notifications that overlap.
* Generators are paged: contests are published, end, and receive votes between
  two pages; the client is told to stop (`Break`) in the middle.
* The user, the wallet, the server and the chain act on a purchase in any order:
  a promotion code asks for the price again (and raises it) while the old one is
  being paid, the wallet may report failure for a transfer that was broadcast,
  and the payment may be found before the wallet has reported it.
* The feed page asks for contests while the list is refreshed, rebuilt for another
  account, or the backend is lost; answers of earlier generators still arrive.
* Finding the official decision takes a row of calls, with one promise per balance
  that is swapped as answers come, while the user and other devices cast.
* The decision page runs asynchronous refresh chains over shared JavaScript arrays.
* Streams answer queued reads from partial data, end of file and errors.
* The wallet comes and goes while operations wait for it; the confirmation popup
  then submits a transaction again.
* The backend connection uses one socket for every attempt, and what an attempt
  has started may complete after the next one has begun.  Before the first
  attempt the app fetches coins and accounts side by side from a wallet that may
  leave in between.
* The node restarts; graphene objects persist only their reflected members.

## Modules

| module | models | kind |
|---|---|---|
| `VoteDatabase` | evaluation of datagrams, the indexes, voting volume, restart | component |
| `CoinDetails` | what the backend reports of a coin (extends `VoteDatabase`) | component |
| `Poll` | what a database of decisions promises: a poll box per contest | abstract |
| `Tally` | the walk through the decision index (extends `VoteDatabase`, implements `Poll`) | component |
| `ContestResults` | results server, connection, app wrapper (extends `Tally`) | composition |
| `Backend_proofs` | proofs about `VoteDatabase`, `CoinDetails`, `Tally` and `ContestResults` | theorems |
| `DecisionList` | snapshot generator and the contest detail page | component |
| `ContestSearch` | search set-up, feed generator, the app's paging | component |
| `FeedPage` | the feed page over generators, timers and the connection | component |
| `Reading_proofs` | proofs about `FeedPage`, `ContestSearch` and `DecisionList` | theorems |
| `Purchase` | contest creator server, purchase wrappers, the page and its dialogs | composition |
| `Purchase_proofs` | proofs about it | theorems |
| `WalletBridge` | JSON calls, sockets and the queue of continuations | component |
| `Casting` | cast, revoke, cancel, popup, feed look-up (extends `WalletBridge`) | composition |
| `Casting_proofs` | proofs about both | theorems |
| `DecisionLookup` | decisions on all balances of a coin: found, cast, recorded | component |
| `DecisionLookup_proofs` | proofs about it | theorems |
| `Connection` | connecting to the backend, losing it, connecting again | component |
| `Connection_proofs` | proofs about it | theorems |
| `AppStart` | from the first wallet to the backend (extends and implements `Connection`) | composition |
| `BytePipe` | what one direction of a stream promises | abstract |
| `SecureStream` | TLS adaptors over the two socket wrappers (implements `BytePipe`) | composition |
| `Link_proofs` | proofs about `AppStart`, with the theorems about `Connection` carried over, and about `SecureStream` | theorems |
| `SumLemmas` | sums over finite sets and lists in order, for the proofs | lemmas |
| `MC*` | constants for TLC | instances |

A definition has the name of the function it models wherever that is possible;
`PROJECT.json` maps every definition to its lines.  Definitions named
`<definition>_<word>` are the mutants that show that each property can fail.

### `VoteDatabase`

One action per operation the chain evaluates: `ApplyDecision` and `ApplyContest`
are `CustomEvaluator::do_apply` with everything it calls, `ApplyTransfer`
stands for the operations that move stake, `FinishBlock` moves the block's
operations into the operation history and advances the head time, `Restart`
reloads the database from disk.  A datagram is a record of what the evaluator's
checks read; a refused datagram still enters the log.  The chain's part
(`headTime`, `history`, `applied`, `balances`) is external: it is modelled from
how the evaluator reads it.  `Restart` is an orderly shutdown followed by a
start: a crashed node replays the chain instead.  Pending transactions and
reorganisations are undone by the chain and do not appear.

Hours are written with the 3600 of the code, so that times in the instances lie
on both sides of an hour's end.

`CoinDetails` adds what `BackendServer::getCoinDetails` computes from the vote
database whenever it is asked: the numbers of contests and the hourly history,
with its end.  The backend keeps nothing of a call, but a client keeps what it was
told: `told` is one history that was answered at any time, and `HistoriesAgree`
compares it in every later state with what the backend would answer there, for
every length.  The restart between them sets the end of the histories to 0, and the
end is a 32-bit product that wraps (observation 27).  So two histories are compared as
a client has to, by the time of each sample counted back from the end it was told,
modulo 2^32.  The last sample of a history is left out: it is that of the hour in progress, or of
the hour before the restart, and may still change.  Lengths below 1 give no history,
and those above `MaxHistoryLength` make the call fail; an hour before 1970 wraps to a
time that is not a multiple of 3600, and is never in the histogram.

### `Poll`, `Tally`, `ContestResults`

`Poll` is a box per contest in which each voter has one slip, put in or replaced
by one step.  `Tally` models `LiveContestResultsServer::tallyResults` over the
ordered index: sort by contest, voter and ID, step from block to block, look at
the last decision of each.  `ImplementsPoll` says that the decision index with
that reading behaves as a poll; `TallyMatchesPoll` that the walk's result is the
poll's.

`ContestResults` adds `results` and `subscribe` on the server, the two FIFO
channels of the connection and `ContestResultsApi`.  A block is applied without
returning to the RPC loop, so requests are served between blocks, and the
notifications of a block leave together.  The app shows a contestant list and a
map of write-ins; `ContestantsCurrent` is about the list only (observation 5).

### `DecisionList`

A fetch is one chain of promises in the page: `decisions()`, then `getValues`
until a page is short.  The look-ups of records through the wallet are one step
with the answer to `getValues`, since a page goes on only when all are there.
The variables `pending`, `final` and `shown` belong to the page and are shared
by all chains.  Chains may overlap and fail; a history variable remembers that
they have, and `PageShowsSnapshot` is stated up to that point (observation 3).

### `ContestSearch`

The pointer of `FeedGenerator` into an index is the ID of a contest, because
contests are never removed.  Filters answer `Accept`, `Reject` or `Break`, and the
server's `getValues` is part of the app's `getContests`.  The history variables `owed`
and `votesThen` remember what was there when the search began, for
`EachContestOnce` (no contest twice, and none stepped over unless a filter broke)
and `BreakIsSafe` (nothing that matches is behind the contest a filter breaks
at).  The filter lists checked are some of those the app asks for and combinations of
them, all with the server choosing the intended first contest (`Intended`, which TLC
evaluates for them).  The app's filter by voter alone is not among them, nor are
searches for several terms: what they miss is described in observations 4, 8 and 9.

### `FeedPage`

The page on top of such a generator.  A contest is its position in the feed, and
the feed does not change, since `ContestSearch` is about what it contains.  A call of
`fetchMoreContests` is a record that lives from the question to the moment all
its contests have been looked up through the wallet and are added to the list; so
fetches of an earlier generator go on after the list was emptied.  `due` counts the
calls of `populateContests` that timers and finished promises still owe.  The list
remembers, of each contest of the current generator, the account it was looked up
for, and counts the contests that came from earlier ones (observation 26).
`broken` says that something failed for the list shown, as nothing tries again then.

### `Purchase`

The page, its checkout dialogs, the wallet, `PurchaseApi`, and the server.  Each
press of Checkout has a request, a purchase, an API and a dialog of its own; the
dialogs are modal and die with the page.  The user opens and leaves the page, checks
out, applies promotion codes (each asks for the prices again, and thereby raises
that of an oversized contest), pays what the dialog shows and cancels.  The wallet
may broadcast a transfer twice, or report failure for one it has broadcast.  The
messages between an API and its purchase travel in order.  A payment is processed
in two steps, `StartPayment` (the block and the task it schedules, up to the
broadcast) and `FinishPayment`: between them the network thread has the transaction
and everything else may run.  `PublishedIsPaidFor` compares with `ListPrice`,
written from the schema's price list and not from the switch in the server.  The
model keeps the server alive as long as a payment is under way.

### `WalletBridge`, `Casting`

`WalletBridge` has the sockets, the calls in flight and one FIFO of continuations
for the KJ event loop (`events`): answers, rejections and new connections are
queued when they happen and handled in that order.  `Casting` adds what the
continuations do.  A press of a button opens the popup and makes a *try*; each
time the wallet comes back the popup makes another (`WalletConfirmationPopup.qml:46`).
A try is a sequence of calls (balances, broadcast, record), and its owner goes on
when a call is answered.  The decision has opinions and perhaps write-ins;
serialising takes the write-ins away, as in the code.  `chain` is what the wallet
published, in order, with the try it came from.

In `Casting` one contest and one account are modelled, since changing the account makes new
contest objects, and one balance per coin, so a try publishes one datagram.
Reads in a row are one call.  The settings file appears only in that saving a
decision serialises it.  `disturbed` remembers that two operations on the same
contest overlapped or that the popup could not resubmit; the properties that
compare the pending, official and published decisions hold only without that
(observations 12 to 17).

### `DecisionLookup`

What `Casting` takes as one call per step is here a row of calls over all
balances of the voter in the contest's coin: `_getDecision` (publisher, contest,
balances in any order, a promise for the datagram of each, swapped as answers
come), `castPendingDecision` (a datagram on every balance) and the look-up of a
decision record (operation, payer and stake).  Balances are named by the order in which
they were created, so that the newest is the greatest.  Between any two calls
the user casts elsewhere and balances come and go.  `Moment` counts these changes:
two equal moments mean that nothing has happened in between, which is how the
properties say "in one state of the chain".

### `Connection`, `AppStart`

An attempt is a call of `connectToBackend`, and the socket connection it makes
has its number.  `handlers` are the slots still connected to `connected()`:
one is dropped only by firing.  `secrets` are the calls to the wallet under
way.  A stream is replaced when a secret arrives; destroying the old one closes
the socket under both (`QSocketWrapper.cpp:34-46`), and because KJ arms events
depth first, the rejection of the old handshake is handled within the same step
(`NewStream`).  The server's table of clients is `Accept`, `Close`, `Erase`.
`mishap` and `doubled` remember what the properties except: an attempt that
failed, and a connection that completed two attempts (observation 19).
Connecting again inside the socket's error signal is taken to work.

`AppStart` adds what precedes the first attempt: the sync of coins and of accounts
with their balances, the account that is set from the settings or the list,
an interruption at any call, refusals, and the user's choice of an account.
`Connection` begins with an app that has an account; `ImplementsConnection` shows that
the start leads there, with the wallet of `Connection` mapped to "a wallet is
connected and there has been an attempt".

### `BytePipe`, `SecureStream`

`BytePipe` is what an asynchronous stream promises: the bytes read are those
written, in order, and a read is answered with between the least and the most it
asked for, or with nothing at the end of a stream that was closed.

`SecureStream` is one direction of one connection; `reader` says which end reads.
The writer's adaptor keeps writes until the handshake is complete, makes records,
and hands them to the socket; the backend's `FcStreamWrapper` writes them from a
fiber.  When the handshake is complete (`HandshakeFinishes`) the writes that were kept
continue one after the other (`FlushDeferred`), with anything else in between.  Only a new
write is not: the RPC layer, which is outside the repository, writes a message when the
one before it is written, and the app makes its RPC client only after the handshake
(`VotingSystem.cpp:188`).  A user who did write then would overtake
(`TlsPskAdaptor.cpp:132`).  The network cuts the bytes anywhere.  The reader's wrapper answers the
adaptor's reads (`ReadSome`, `ReadEof` for the fiber, `Arrive` and `Disconnected`
for Qt's signals), the adaptor feeds the channel (`ProcessBytes`) and answers its
user.  A record is `RecordSize` wire bytes, and becomes readable with its last byte;
nothing is assumed of it and the size of the first read, 100 in the code, where
records have up to 16 KB.
A failed read is answered `<<>>`: the adaptor treats an exception and 0 bytes alike.
`ImplementsPipe` maps the bytes written, the answers given to users, and "closed by
the writer, or its socket lost" to `BytePipe`.

## Runs

| run | asks | bounds |
|---|---|---|
| `admission` | whatever datagrams are applied, IDs and stored decisions are right | 2 accounts, 2 coins, 8 kinds of decision, 3 contests, references to contests that exist, do not exist yet, and are no contests; 2 hours; 3 operations and a restart |
| `volume` | volume over hours, transfers and a restart, and the histories reported of it | 2 voters, 1 coin, 3 block times in three hours, 6 operations, 1 restart; histories of 2 and 3 hours, of none, and one that is too long |
| `results` | the index walk implements the poll, and the app's view follows the blocks | 1 contest, 2 voters, 3 block times, 4 operations |
| `decisions_page` | the page shows the snapshot | 3 voters, pages of 2 (100 in the code), 4 votes, 2 chains, 1 failure |
| `search_paging` | paged searches and the feed | 3 contests, 2 coins, 2 creators, requests for 1 and 2, 4 times |
| `feed` | the list of contests while everything under it changes | a feed of 3, fetches of 2 and 1, a page that 3 fill; 2 accounts, 2 connections, 2 acts of the user |
| `purchase` | publication against payment, repricing, what the buyer is told | 2 checkouts of 3 requests (oversized with many contestants, plain, refused), 1 promotion code, 2 transfers |
| `casting` | the official decision, the popup, resubmission | 2 wallet connections, 1 loss, 1 press, 1 cancel |
| `lookup` | what is found, cast and recorded over several balances | one look-up, cast and record, 2 of them together; up to 3 balances, one too large for an `int`; 1 change of the chain by others, 1 failed call; symmetric in the contests and the ballots |
| `connection` | the app's start, its connection and its recovery | wallets with 0, 1 and 2 accounts; 2 losses of the wallet during the start, 2 after it, 2 by the server (so up to 5 attempts) |
| `connection_promise` | **violated**: the promise of `connectToBackend` is settled | 1 and 1 |
| `stream` | bytes in order, reads answered, either direction | 3 bytes, 2 reads of three sizes, records of 3 wire bytes, first reads of at most 2, and then reads of exactly the 1 or 2 that are missing |

With two workers the runs take between 20 seconds (`connection`) and
two and a half minutes (`decisions_page`, `purchase`, `lookup`).

Why these are enough.  The IDs depend on the two lengths of the log only, and
three operations have every combination of an earlier block, an earlier operation
of the block and the operation itself.  A volume needs two hours and a vote in a
third to be tallied twice, with a transfer and a restart between them.  A block
of the index is a voter's decisions, so two voters, one of them with two or
three decisions, give every neighbourhood.  A page of two puts the counted
decision first, last and across a boundary.  A second payment, a second dialog
and a price that is raised while it is paid are what the purchase can go wrong with.
Three balances are the least for which a swap of promises leaves the rest out of
order.  A list of two fetches, emptied twice, has a generator of its own, one before and
one before that under way.  In the
connection two losses of each kind let an attempt be overtaken by the next but
one.  A first read of two bytes never completes a record of three, so each record takes at least
two reads, and a second one of two bytes has to wait for its least number when the
network cuts there.  A read that takes the end of a record with the start
of the next one is in the proofs.

Larger instances of `Casting` were run once and hold: 3 connections with 2
losses and 1 cancel (9.5 million states, without `PopupCloses`), the same without
cancels and with `PopupCloses` (1.05 million), and 2 presses by simulation.

The models stop at their bounds, so deadlock is not checked; that something goes
on happening is stated as liveness instead.

## Fairness

* `ContestResults`, `DecisionList`: the two ends
  handle the messages they have (weak fairness of receiving and serving).  Both
  run an event loop that takes events in order, and the connection is up.
  Nobody has to vote, and no block has to come.
* `Purchase`: the app handles the messages it gets, and the network takes a
  transaction it was given.  Nobody has to pay, and the server is not assumed fair:
  `BuyerLearns` is about contests that were broadcast.
* `FeedPage`: timers run out, and the calls of each generator are answered or
  fail.  The user does nothing, and the backend need not come back.
* `Casting`: queued continuations run; the wallet answers what it is asked, with
  success or failure, as long as its connection lives; and a wallet connects
  when the app is waiting for one.  Only `PopupCloses` needs the last one: without a
  wallet the popup waits, as the page intends.
* `Connection`: the wallet comes back, a socket that connects is told so or
  refused, the wallet answers or fails, a handshake on a live connection
  completes, and the server notices connections that are closed.  `AppStart`
  adds that a wallet answers or refuses the calls of a sync.
* `SecureStream`: fibers run, bytes arrive, the end of the stream is noticed.
* `VoteDatabase`, `ContestSearch`, `DecisionLookup`: none; they have no liveness property.

Weak fairness suffices everywhere: none of these steps is disabled again by
another part before it is taken, except by an event that makes it pointless (a
lost connection).

## What is proved

Every safety property of the passing runs is a theorem, for all values of the
constants.  A theorem
rests on the assumptions that the modules it extends state about their constants,
and on nothing else unless it says so: they are types, numbers greater than 0
where the code divides by them or loops over them, values such as `None` that are
no ordinary value, and finite sets of balances (`VoteDatabaseAssumption`).  Two theorems
have a hypothesis of their own: `EachContestOnceHolds` is about searches that are
`Intended`, and `IgnoredIfRepriced` about a backend with a key to publish with
(observation 10).

Where TLC can evaluate them, the inductive invariants (`...Inv`) were run on the instances before they were proved.
No module needs induction over data.  Where the code loops, the states of the loop
are taken as a function (`Runs` in `Reading_proofs` and `Link_proofs`, `Unfolds` in `SumLemmas`), and a
fact about all of them is proved by the least number, or a smallest set, for
which it fails.

### `Backend_proofs`: the vote database and what is read from it

* `TypeCorrect`: `Spec => []TypeOK`.  `TypeOK` is inductive.
* `StoredUnderOwnOperationCorrect`.  The argument is in `PushLog`: pushing an
  operation gives it the ID that `history` and `applied` predict, leaves every
  other ID alone, and `FinishLog`: the end of a block moves nothing.
* `DecisionsWellFoundedCorrect`: a stored decision was made for a contest that
  exists, with at most one opinion, for a contestant or write-in that exists, by the
  account that paid for it.  It rests on the theorem before and on
  `AdmittedWellFounded`, the evaluator's checks taken together.
* `PastHoursFrozenCorrect`: an entry of a coin's histogram never changes.  That
  alone is not inductive: a step may tally `hourOfLastUpdate` at any time.  The
  strengthening is `VolumeInv`: all hours in the histogram are before the
  present one, and before the tracked one while there are active voters.
* `HistoriesAgreeCorrect`: any two histories agree, however far apart they were
  asked for and whatever happens between them.  `DetailsInv` says that a history that was
  told *stands* (`Tells`): each of its hours but the last is over (`Over`: before the
  present hour, and before the tracked one while voters wait to be tallied) and has in
  the database the volume that was told, also if that is 0 because nothing was
  recorded.  What stands does so after every step (`StandsStep`), a restart
  among them.  Every answer stands when it is given, and so two of them agree on the
  hours they share.  That times of different hours are different modulo 2^32
  (`TimesApart`) is an assumption of the module about the width and the lengths
  (`CoinDetailsAssumption`): they are, up to 2^25 hours.
* `VolumeWithinSupplyCorrect`: an hour's volume is at most the supply of the coin.
  The volume is a sum over the balances of the active voters at the time of the
  tally, so `SupplyInv` adds that they are balances of that coin which exist.
  `SumLemmas` has what it needs of sums: they do not depend on the order in which a
  fold takes the members, and a part is at most the whole.
* `ImplementsPollCorrect`: `Spec => ImplementsPoll`.  A decision that is stored is
  put into its box (`BoxIs`); everything else is a stutter.  It needs `Unique`: the
  IDs are those of operations, so the newest decision is the greatest.
* `TallyMatchesPollCorrect`: the walk through the index gives the poll's tally.  That
  there is an index at all is a lemma (`IndexExists`: a smallest set that cannot
  be put in order would have a greatest member).  The positions the walk looks at are
  one for each voter (`WalkRepresents`), and two sums over them are one
  over the box.
* `ContestantsCurrentCorrect`: `Sent` says that while the app is up to date the
  last message under way, or what is shown if there is none, is the tally as it is.

### `Casting_proofs`: the wallet bridge and casting

* `TypeCorrect`, `OneLineHolds`, `CallsHaveALineHolds`: from `Base`, which adds to the
  types what the queue of continuations may hold (`Queue`), which sockets
  calls may be on (`Lines`), and that each call belongs to a try, cancel or look-up
  that is waiting for it (`FitCalls`, `FitPopup`).
* `ResubmissionsAgreeHolds`: the tries of one press publish the same opinions.
  `CastingInv` is `Base` with: a call is under way once (`Once`); what is on the chain
  was sent by its try and is what the try holds (`Sending`); a try that was followed
  by another is over, on a connection that is gone (`Successive`); and, until operations
  overlap, what the tries of a press have asked for is what is pending (`Calm`).
* `RevokeRestoresHolds`: a revocation that fails gives the pending decision back.
  `Restored` says the same of all tries of a press: each holds the backup of the first.
* `RecordShownHolds`: `RecordInv` follows an answer from the chain to the app (`Told`):
  the answer to a broadcast is that of the newest entry, the answer to a look-up was
  true when no try had been made, and so the official decision is the one on record
  when each entry has been resolved.

### `Purchase_proofs`

* `TypeCorrect`, `PaidBeforePublished`: what was published was paid for at the list
  price; `IgnoredIfRepriced`: money is kept silently only of a buyer who asked for the
  prices again.  `PurchaseInv` relates the two ends of a checkout: `Agreed` says that
  the calls under way are the end of the submission followed by questions for prices,
  and that the prices under way form a chain from the one shown to the one at the
  server, each higher than the last by the fee.  `Payments` says that whoever pays was shown
  that price, and `Published` counts broadcasts against payments.  `ListPrice` is a
  sum over line items, for which the purchase needs `SumLemmas`.

### `DecisionLookup_proofs`

* `RecordIsCompleteCorrect`: a record is answered with the stake of its balance.
* `FoundWasOnRecordCorrect`: what is found was on record, on the newest balance, at
  some time during the look-up.  `LookOK` says what each answer and each promise stands
  for, and `FoundInv` that each answer was on record at a moment since the start.  The
  order of the promises is a fold with a swap (`OrderLeads`: the newest
  comes first).
* `AlarmMeansDisagreementCorrect`, `CastIsFoundCorrect`: if nothing else happens the alarm
  means that balances disagree, and what was cast is found.  `Grown` says that the chain
  only grows, so equal moments mean that nothing has happened; `Standing` that a cast
  which was alone so far has put its ballot on the balances it is through with.

### `Reading_proofs`: feeds, searches and decisions

`FeedPage`, for every length of the feed and of the page and every number of acts:

* `TypeCorrect`, `BusyWhileFetchingCorrect`.  The strengthening `BusyInv` says which call is out:
  every fetch belongs to a generator that exists, and the calls of a busy generator
  that are out are exactly one (`AnswerEndsBusy` uses it: an answer is that of the
  only call, so the flag may be cleared).
* `CurrentContestsRightCorrect`.  What stands in the list is not enough, as it
  depends on what is still under way: `RightInv` says of the fetches of the current
  generator, too, that they are for the current account, have never been given to
  another generator, and bring contests before the generator's position that neither
  the list nor another of them has.

`ContestSearch`, for every list of drafts, searches and requests:

* `BreakIsSafeHolds`: when a filter breaks, nothing that matches is behind.  A search by
  coin or creator starts at the value asked for, and a break is beyond it (`Beyond`);
  what is published later with that value is inserted before the break.
* `EachContestOnceHolds`: `Walked` says that what was returned is in the order of the
  index and before the current contest, and `Complete` that what is wanted and was
  active all the time has been returned or is still to come.  For `Complete` to hold at
  the start the first contest has to be the right one, and a filter has to look for
  everything it is given; it does neither for a search by voter alone (observation 4)
  or for several terms (observation 8).  `Intended` leaves these out, and `MCContestSearch`
  assumes it of its searches, so that TLC evaluates it.

`DecisionList`, for every number of voters, votes, chains, and any page size:

* `SnapshotCountedOnceHolds`: `SnapshotInv` says of each chain that what it was given is
  the start of its snapshot, in the order of the index, and counted where a voter's
  block ends (`Ends`).
* `PageShowsSnapshotHolds`: `PageInv` follows the page through a page of decisions: the
  groups are those of the voters whose blocks have ended, and the pending ones are the
  beginning of the block at hand (`Grouped`).  At the end of the snapshot a block ends,
  so that nothing is left over.

### `Connection_proofs`, `Link_proofs`: the connection and its bytes

For every number of losses of either kind:

* `TypeCorrect`: `Spec => []TypeOK`.  That the app makes no more attempts than
  `MaxAttempts` needs a count: `AttemptsPaid` charges each attempt to an arrival of
  the wallet or to a loss by the server that the app has heard of.
* `BackendIsLiveCorrect` and `NewestCompletesCorrect`, both from `OneCompletion`:
  unless a connection completed two attempts, no secret is being fetched while the
  socket connects or once the stream has written to the open connection, so nothing
  can replace a stream that carries a backend.  It needs `AttemptsKnown` (the
  attempt under way is unknown to server and stream, and its slot is the last one
  waiting) and `CallsEnd` (the wallet's calls end with it).

For every set of accounts and every list of accounts a wallet may answer with:

* `ImplementsConnectionCorrect`: `StartSpec => ImplementsConnection`.  A step of
  the start is a stutter of `Connection`, except the one that makes an attempt,
  which is `WalletArrives` there (`Arrival`).  It needs `NothingBefore`: until the
  first attempt there is no backend and the socket is idle.
* `AccountsOnceCorrect`, `CoinsKnownCorrect`: the same invariant with `SyncFirst` (a
  sync precedes the first attempt, starts with an empty list of accounts and fills it
  once) and `CoinsOwed` (the coins are there, or still being fetched, or
  a sync was cut off).
* `StartedBackendIsLive`, `StartedNewestCompletes`: the theorems about `Connection`
  hold for the app from its start, by the refinement.  `Connection_proofs` is
  instantiated with the mapping, so that its inductive invariant need not be proved
  again.

`SecureStream`, for every record size, first read, number of bytes and sizes of reads:

* `StreamTypeCorrect`, `OneWireReadHolds`: one read of the wire is under way until the
  end is met.  They are one invariant, `StreamInv`: a read is started again for the
  first bytes of a record or for exactly those missing, and waits only as long as it has
  less than its least number.
* `ImplementsPipeHolds`: the stream is a pipe.  `PipeInv` puts all that is on the
  way into one line (`Line`): the partial record in the channel, what the read under way
  has, what the socket has, and the wire.  `Carried` says that the whole records of that
  line carry on where the adaptor is (`Holds`: the bytes answered and those that
  wait for a reader are 1 to some a), then the wrapper's queue, then the writes that
  waited for the handshake, up to `sent`; a lost connection cuts off a tail.
  `Quiet` says that nobody is told an end before there is one, `AtEnd` that
  the end was met only then, `Queue` that there is a fiber for what is queued, and `Replied` that
  answers fit what was asked for, but for those at the end.  The flattening of answers and the
  folds of the channel over records and requests are taken as functions, and what they do
  is shown by the least place at which it would fail.

### Only model-checked

* The liveness properties (`BlockReachesApp`, `FetchesEnd`, `FillsUp`, `BuyerLearns`,
  `PopupCloses`, `Starts`, `DataIsRead`, `EndIsReported`): the prover has no rule for
  fairness, which needs ENABLED.

No run checks the type invariants, since the `TypeCorrect` theorems hold for all
values of the constants.  `Link_proofs` takes about fifteen minutes to prove, the
others less.

## Observations

Disagreements between the code and its comments or schemas, and other things
seen while modelling.  The one with a run is listed as a finding in `PROJECT.json`
(`connection_promise`); the others are described here because the models reproduce
them and the properties have to leave them out.

1. The first voter of an hour is not counted: the vote that opens the hour takes
   the branch that resets the tracking without recording it
   (`CoinVolumeHistory.cpp:34` against `CoinVolumeHistory.hpp:45`).
2. The volume of the hour in progress is lost on a restart: only `coinId` and
   `volumeHistogram` are reflected (`CoinVolumeHistory.hpp:77` against `:46`).
3. Overlapping refreshes of the decision page mix records of two chains in a
   group (`ContestDetailPage.qml:204` against `:208`), and a chain that fails
   leaves its groups behind (`:199`).
4. `BackendServer.cpp:154`: a search by voter alone returns nothing
   (`backend.capnp:56` lists it as a filter).
5. Results of write-ins are never cleared in the app (`ContestResultsApi.cpp:42`).
6. A failed purchase emits `purchaseFailed` and then `purchaseConfirmed`, and is
   complete (`PurchaseApi.cpp:27` against `purchase.capnp:35-36`); the page stack is
   popped twice.  Any purchase that is confirmed late pops the page, with the dialog
   of another one on it.
7. A search by coin or creator loses the part it has collected when a filter
   breaks (`FeedGenerator.hpp:127-129` against `generator.capnp:24`).
8. A search for several terms looks for the first only (`BackendServer.cpp:168`
   against `:167`).
9. The app sends the voter filter without its argument.
10. A second sufficient payment publishes a second contest: `release()` does not
    end the subscription to blocks (`ContestCreatorServer.cpp:290`).
    `prices()` adds the data fee at each call (`:341`), so an older quote may be
    refused, silently.  A publishing key that is no key throws before anyone
    is notified (`:271`).
11. Limits that are not configured read as 0, which `contestcreator.capnp:31-32`
    calls unlimited, and the maximal end date is not checked.
12. A reconnection of the wallet while the backend is down makes
    `authorizeTransaction` return null; the popup stays open and modal
    (`WalletConfirmationPopup.qml:37`, `VotingSystem.cpp:352`).
13. The popup submits again after a reconnection, so a transaction, or the payment
    of `CreateContestPage.qml:171`, may be broadcast twice.
14. Refusing the revocation resolves the popup's promise
    (`ContestStatusRow.qml:70`); pressing Revoke without a backend empties the
    pending decision for good.
15. Cancelling with the wallet away, or a look-up that fails, empties the pending
    decision (`VotingSystem.cpp:478`).
16. A cancel answered between the copy of the pending decision (`:377`) and its
    serialisation (`:408`) makes the official decision differ from what was published.
17. Serialising takes the write-ins of a decision (`Decision.cpp:102`): a
    second try publishes without them.
18. `connectionLost` is handled before the rejections of the calls, so a queued
    wallet connection may begin a try before the last one has failed.
19. The app tries once to connect to the backend again; when that fails nothing
    tries further (`VotingSystem.cpp:206`).  The next attempt is always
    killed: the old slot on `connected()` fires too (`:295`), and destroying the
    older stream closes the socket.
20. The handshake promise is never broken (`TlsPskAdaptor.hpp:72`).
21. Decrypted bytes nobody had asked for are lost when the channel is closed
    (`TlsPskAdaptor.cpp:54`, `:79-90`).
22. The slot at `QSocketWrapper.cpp:31` outlives the wrapper it refers to.
23. A look-up of the official decision that began before a cast, and is answered
    after it, replaces the new official decision (`FeedPage.qml:171` against
    `Contest.hpp:44`).
24. A promotion code raises the price at the server as soon as the question is
    answered there; the old price, paid before the app has the new one, is kept
    without a word (`CreateContestPage.qml:242`, `ContestCreatorServer.cpp:298`).
25. `PurchaseContestRequestApi.cpp:63` initialises the reference `tasks` with itself.
26. A refresh during a fetch leaves contests of the old fetch in the new list
    (`FeedPage.qml:134`).  A generator made on a lost connection is used again after a
    reconnection and fails until a refresh; a chain of `populateContests` ends when it
    finds a fetch of the user under way; after a failed scroll fetch `watchYChanges`
    is not set again.
27. The end of a coin's history is a 32-bit product that wraps
    (`BackendServer.cpp:42`; `coindetails.capnp:34` has 64 bits for it), so that a client has to
    date the samples modulo 2^32, and a restart sets it to 0.  `3600*i` is an `int`
    (`:45`), which overflows in histories of more than 596523 hours.
28. `contestPublisherIdPromise` is asked for once per connection: when that call
    fails, every `getContestById` on it fails.
29. When the newest balance has no decision, the order of the promises left has been
    changed by the swaps (`BlockchainWalletApi.cpp:118`): an older decision than the
    next newest may be taken.  The alarm is raised then.  With the Bitshares bridge an
    account has one balance per coin, so the alarm cannot be raised.
30. `weight.toInt()` is 0 from 2^31 on (`BitsharesWalletBridge.cpp:373`).
31. A wallet lost between the answers to the two lists of the sync may leave
    the account set and the list of coins empty for good, which
    `ContestDelegate.qml:51` reads unchecked.  A call of the sync that is refused leaves the
    app at "Syncing".
32. A write that throws leaves its promise unanswered (`FcStreamWrapper.cpp:94`).
33. The earliest start time of a contest is the head time while the block is applied, that of
    the block before.

## Not modelled

* The event ports (`FcEventPort.cpp`, `QtEventPort.cpp`): the models take the
  loop as given.  Whether a wake-up can be lost depends on `kj::EventLoop::run`,
  `fc::async` and Qt's timers, none of which is in the repository.
* `BackendConfiguration.cpp`, `main.cpp`: read and write one file, parse options and
  register types; no order of events matters to them.
* The accept loop's exceptions, a write that throws in `FcStreamWrapper`, and what
  happens after a wrapper or purchase server with pending work is destroyed:
  outside the repository or not defined by it.  `FcStreamWrapper` also refuses writes
  once its reads have met the end, in the other direction than the one a behaviour
  of `SecureStream` has; what was still to be written is then lost as with a connection
  that is gone.
* What Qt buffers of writes to a socket that is still connecting: only an app whose
  connection completed two attempts can write then, which the properties of
  `Connection` leave out (`doubled`).
* A `getContests` that fails while its connection lives: `FeedGenerator::getValues`
  has no check that could fail.  `RemoteHostClosed` in `Connection` is the call of
  `main.qml:118` from within Qt's signal, taken to work.
* The price list and limits that `ContestCreatorApi` fetches for display,
  sponsorship (which the server ignores), engagement numbers, and several contests
  being cast at once.
* Cryptography, serialisation formats, layout, vendored code.

## Plan

Done: the modules above, and the theorems about every component and every safety
property of the passing runs.

Next: several contests being cast at once, and the event ports, if the versions of KJ
and fc they are built with become part of the repository.
