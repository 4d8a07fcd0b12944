--------------------------- MODULE ContestResults ---------------------------
(***************************************************************************)
(* Live results: the ContestResults capability of one contest on the       *)
(* backend (LiveContestResultsServer), the app's wrapper around it         *)
(* (ContestResultsApi), and the connection between them, on top of the     *)
(* vote database and its tally.                                            *)
(*                                                                         *)
(* The connection delivers in order in each direction; the reply to        *)
(* results and the notifications travel in the same direction.  A block is *)
(* applied without a return to the RPC loop, so requests are served        *)
(* between blocks.                                                         *)
(***************************************************************************)
EXTENDS Tally

CONSTANT Nothing    \* the app has no results API open

ASSUME ResultsAssumption == Nothing \notin ContestRefs

VARIABLES
    watching,   \* ID of the contest whose results the app shows, or Nothing
    calls,      \* calls on their way to the server
    notifiers,  \* server: number of notifiers, and of block subscriptions
    messages,   \* replies and notifications on their way to the app
    shown,      \* app: m_contestantResults and m_writeInResults
    notified    \* history variable: a block was applied since subscribe

appVars == <<watching, calls, notifiers, messages, shown, notified>>

allVars == <<vars, appVars>>

Watched == CHOOSE c \in contests : c.contestId = watching

Empty == [contestants |-> [i \in {} |-> 0], writeIns |-> [n \in {} |-> 0]]

-----------------------------------------------------------------------------
(* The app                                                                 *)

\* The second elements of the candidates of one kind.
Of(kind, results) == {x[2] : x \in {y \in DOMAIN results : y[1] = kind}}

\* m_contestantResults: as long as the largest index listed, 0 where nothing
\* is listed.
ContestantList(results) ==
    LET listed == Of("contestant", results)
    IN  [i \in {j \in 0 .. Max(listed \cup {0}) : listed # {}} |->
            IF i \in listed THEN results[<<"contestant", i>>] ELSE 0]

\* Mutant: the list is not cleared before the new results are filled in.
updateResults_noClear(old, results) ==
    [contestants |-> LET new == ContestantList(results)
                     IN  [i \in DOMAIN old.contestants \cup DOMAIN new |->
                             IF i \in DOMAIN new THEN new[i]
                             ELSE old.contestants[i]],
     writeIns |-> old.writeIns]

\* ContestResultsApi::updateResults: the contestants are listed anew, the
\* write-ins are inserted into the map there is.
updateResults(old, results) ==
    LET names == Of("writeIn", results)
    IN  [contestants |-> ContestantList(results),
         writeIns |-> [n \in DOMAIN old.writeIns \cup names |->
                          IF n \in names THEN results[<<"writeIn", n>>]
                          ELSE old.writeIns[n]]]

\* The constructor of ContestResultsApi sends both requests at once.
OpenResults(id) ==
    /\ watching = Nothing
    /\ \E c \in contests : c.contestId = id
    /\ watching' = id
    /\ calls' = <<"results", "subscribe">>
    /\ UNCHANGED <<vars, notifiers, messages, shown, notified>>

\* A reply or a notification arrives.
Receive ==
    /\ messages # <<>>
    /\ shown' = updateResults(shown, Head(messages))
    /\ messages' = Tail(messages)
    /\ UNCHANGED <<vars, watching, calls, notifiers, notified>>

-----------------------------------------------------------------------------
(* The server                                                              *)

results ==
    /\ calls # <<>> /\ Head(calls) = "results"
    /\ applied = <<>>
    /\ calls' = Tail(calls)
    /\ messages' = Append(messages, tallyResults(Watched))
    /\ UNCHANGED <<vars, watching, notifiers, shown, notified>>

subscribe ==
    /\ calls # <<>> /\ Head(calls) = "subscribe"
    /\ applied = <<>>
    /\ calls' = Tail(calls)
    /\ notifiers' = notifiers + 1
    /\ UNCHANGED <<vars, watching, messages, shown, notified>>

\* Mutant: no subscription ever fires.
Notifications_none == <<>>

\* Each subscription to applied_block calls every notifier there is by then.
Notifications == [i \in 1 .. notifiers * notifiers |-> tallyResults(Watched)]

\* A block is complete and applied_block fires.
BlockApplied(t) ==
    /\ FinishBlock(t)
    /\ messages' = messages \o Notifications
    /\ notified' = (notifiers > 0)
    /\ UNCHANGED <<watching, calls, notifiers, shown>>

-----------------------------------------------------------------------------
ResultsInit ==
    /\ Init
    /\ watching = Nothing
    /\ calls = <<>>
    /\ notifiers = 0
    /\ messages = <<>>
    /\ shown = Empty
    /\ notified = FALSE

ResultsNext ==
    \/ \E id \in ContestRefs : OpenResults(id)
    \/ Receive
    \/ results
    \/ subscribe
    \/ EvaluateOperation /\ UNCHANGED appVars
    \/ \E t \in BlockTimes : BlockApplied(t)

ResultsSpec == ResultsInit /\ [][ResultsNext]_allVars

\* The app's event loop delivers what has arrived.
FairResultsSpec == ResultsSpec /\ WF_allVars(Receive)

-----------------------------------------------------------------------------
(* Properties                                                              *)

\* The app has been told of the last block and no vote was applied since.
UpToDate == notified /\ applied = <<>>

Quiet == UpToDate /\ messages = <<>>

ContestantsShown ==
    /\ watching # Nothing
    /\ shown.contestants = ContestantList(tallyResults(Watched))

\* When nothing is on its way, the contestants' results in the app are the
\* tally, whichever blocks came between the call to results, the call to
\* subscribe and the answers (ContestResultsApi.cpp:52-61).
ContestantsCurrent == Quiet => ContestantsShown

\* However many votes are moved, every block's results reach the app's list
\* unless another block comes first.
BlockReachesApp ==
    \A t \in BlockTimes :
        (UpToDate /\ headTime = t)
            ~> (ContestantsShown \/ applied # <<>> \/ headTime # t)
=============================================================================
