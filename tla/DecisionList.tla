---------------------------- MODULE DecisionList ----------------------------
(***************************************************************************)
(* The list of decisions on a contest: the server's generator over a       *)
(* snapshot (SnapshotDecisionGenerator), the app's wrapper around it       *)
(* (DecisionGeneratorApi), and the page that fetches the decisions a page  *)
(* at a time and groups them by voter (ContestDetailPage.qml).             *)
(*                                                                         *)
(* A fetch is one chain of promises.  Every notification of new results    *)
(* starts one, whether or not the last one has ended, and all of them work *)
(* on the same two arrays of the page.                                     *)
(***************************************************************************)
EXTENDS Integers, Sequences, FiniteSets, SequencesExt

CONSTANTS
    Voters,         \* object IDs of the balances that may vote
    Me,             \* the balance of the app's current account
    PageSize,       \* decisions the page asks for at a time, 100 in the code
    MaxVotes,       \* bound: decisions on the contest
    MaxFetches,     \* bound: chains ever started
    MaxFailures     \* bound: chains that end in a rejected promise

ASSUME DecisionListAssumption ==
    /\ Voters \subseteq Nat /\ Me \in Voters
    /\ PageSize \in 1 .. 255
    /\ MaxVotes \in Nat /\ MaxFetches \in Nat /\ MaxFailures \in Nat

VARIABLES
    cast,       \* the voter of each decision on the contest; IDs are indices
    chains,     \* the chains, in the order they were started
    pending,    \* page: pendingDecisions
    final,      \* page: finalDecisionRecords
    shown,      \* page: the model of decisionRecordsRepeater
    leftOver,   \* page: pendingDecisions at the last "left over" report
    overlapped  \* history: has a chain started before another had ended?

listVars == <<cast, chains, pending, final, shown, leftOver, overlapped>>

-----------------------------------------------------------------------------
(* The server: SnapshotDecisionGenerator                                   *)

ByVoter(d, e) == cast[d] < cast[e] \/ (cast[d] = cast[e] /\ d < e)

\* The snapshot the constructor takes.
Snapshot ==
    CHOOSE s \in [DOMAIN cast -> DOMAIN cast] :
        \A i, j \in DOMAIN s : i < j => ByVoter(s[i], s[j])

\* Mutant: asked after the first decision was taken off the list.
firstDecisionWasCounted_popped(ids) ==
    IF Len(ids) < 3 THEN TRUE ELSE cast[ids[2]] # cast[ids[3]]

firstDecisionWasCounted(ids) ==
    IF Len(ids) < 2 THEN TRUE ELSE cast[ids[1]] # cast[ids[2]]

\* The values of getValues for the first n decisions of what is left.
Values(ids, n) ==
    [i \in 1 .. n |->
        [id |-> ids[i],
         counted |-> firstDecisionWasCounted(SubSeq(ids, i, Len(ids)))]]

NewChain == [state |-> "opening", snapshot |-> <<>>, ids |-> <<>>,
             batch |-> <<>>, returned |-> <<>>]

\* The server answers contestResults.decisions().
ServeDecisions(f) ==
    /\ chains[f].state = "opening"
    /\ chains' = [chains EXCEPT ![f].state = "asking",
                                ![f].snapshot = Snapshot,
                                ![f].ids = Snapshot]
    /\ UNCHANGED <<cast, pending, final, shown, leftOver, overlapped>>

\* The server answers getValues, and the app has looked up each decision's
\* record through the wallet.
getValues(f) ==
    LET ids == chains[f].ids
        n == Min({PageSize, Len(ids)})
        values == Values(ids, n)
    IN  /\ chains[f].state = "asking"
        /\ chains' = [chains EXCEPT ![f].state = "answered",
                                    ![f].ids = SubSeq(ids, n + 1, Len(ids)),
                                    ![f].batch = values,
                                    ![f].returned = @ \o values]
        /\ UNCHANGED <<cast, pending, final, shown, leftOver, overlapped>>

-----------------------------------------------------------------------------
(* The page                                                                *)

Group(records) == [voter |-> cast[Last(records)], records |-> records]

\* Mutant: every group goes to the end.
showDecisionGroup_append(page, group) ==
    LET groups == Append(page.final, group)
    IN  [page EXCEPT !.final = groups, !.shown = groups]

\* The own group comes first.
showDecisionGroup(page, group) ==
    LET groups == IF group.voter = Me THEN <<group>> \o page.final
                                      ELSE Append(page.final, group)
    IN  [page EXCEPT !.final = groups, !.shown = groups]

\* One turn of the loop over the new decisions.
AddRecord(page, value) ==
    LET records == Append(page.pending, value.id)
    IN  IF value.counted
        THEN [showDecisionGroup(page, Group(records)) EXCEPT !.pending = <<>>]
        ELSE [page EXCEPT !.pending = records]

\* Mutant: the property is never set.
isOutOfDecisions_never(batch) == FALSE

isOutOfDecisions(batch) == Len(batch) < PageSize

\* The continuation of a fetch: group the new records, then ask for more or
\* clean up.
ShowDecisions(f) ==
    LET page == FoldLeft(AddRecord,
                         [pending |-> pending, final |-> final, shown |-> shown],
                         chains[f].batch)
        out == isOutOfDecisions(chains[f].batch)
    IN  /\ chains[f].state = "answered"
        /\ chains' = [chains EXCEPT ![f].state = IF out THEN "done" ELSE "asking",
                                    ![f].batch = <<>>]
        /\ shown' = page.shown
        /\ \/ ~ out /\ pending' = page.pending /\ final' = page.final
                    /\ UNCHANGED leftOver
           \/ out /\ pending' = <<>> /\ final' = <<>>
                  /\ leftOver' = page.pending
        /\ UNCHANGED <<cast, overlapped>>

\* A call of the chain fails.  Nothing handles the rejection.
Fail(f) ==
    /\ chains[f].state \in {"opening", "asking", "answered"}
    /\ Cardinality({g \in DOMAIN chains : chains[g].state = "failed"}) < MaxFailures
    /\ chains' = [chains EXCEPT ![f].state = "failed", ![f].batch = <<>>]
    /\ UNCHANGED <<cast, pending, final, shown, leftOver, overlapped>>

Ended(f) == chains[f].state \in {"done", "failed"}

\* The page is complete, or new results have arrived.
refreshDecisions ==
    /\ Len(chains) < MaxFetches
    /\ chains' = Append(chains, NewChain)
    /\ overlapped' = (overlapped \/ \E f \in DOMAIN chains : ~ Ended(f))
    /\ UNCHANGED <<cast, pending, final, shown, leftOver>>

\* A decision on the contest enters the vote database.
Vote(v) ==
    /\ Len(cast) < MaxVotes
    /\ cast' = Append(cast, v)
    /\ UNCHANGED <<chains, pending, final, shown, leftOver, overlapped>>

-----------------------------------------------------------------------------
ListInit ==
    /\ cast = <<>>
    /\ chains = <<>>
    /\ pending = <<>>
    /\ final = <<>>
    /\ shown = <<>>
    /\ leftOver = <<>>
    /\ overlapped = FALSE

ListNext ==
    \/ \E v \in Voters : Vote(v)
    \/ refreshDecisions
    \/ \E f \in DOMAIN chains :
           ServeDecisions(f) \/ getValues(f) \/ ShowDecisions(f) \/ Fail(f)

ListSpec == ListInit /\ [][ListNext]_listVars

\* The server answers and the app's promises run, failures aside.
Progress == \E f \in DOMAIN chains :
                ServeDecisions(f) \/ getValues(f) \/ ShowDecisions(f)

ListFairSpec == ListSpec /\ WF_listVars(Progress)

-----------------------------------------------------------------------------
(* Properties                                                              *)

\* No chain has been rejected half way, as nothing cleans up after one that
\* was, and none has run beside another, as all of them use the same arrays.
Undisturbed ==
    /\ \A f \in DOMAIN chains : chains[f].state # "failed"
    /\ ~ overlapped

\* Are these all of the voter's decisions, in the order they were cast in?
AreDecisionsOf(records, ids, v) ==
    /\ ToSet(records) = {d \in ToSet(ids) : cast[d] = v}
    /\ \A i, j \in DOMAIN records : i < j => records[i] < records[j]

\* "For every {voter, contest} pair, there may be several decisions, but
\* exactly one should be counted" (decisiongenerator.capnp:29): whatever votes
\* arrive while a client pages through the snapshot, it is given the whole
\* snapshot, each decision once, and of every voter's decisions the last one
\* counts.
SnapshotCountedOnce ==
    \A f \in DOMAIN chains :
        LET r == chains[f].returned
            s == chains[f].snapshot
        IN  /\ [i \in DOMAIN r |-> r[i].id] \o chains[f].ids = s
            /\ \A i \in DOMAIN r :
                   r[i].counted <=> ~ \E d \in ToSet(s) :
                                          /\ cast[d] = cast[r[i].id]
                                          /\ d > r[i].id

LastChain == chains[Len(chains)]

\* A refresh that has run to its end leaves the page with one group for each
\* voter in the snapshot, holding all of that voter's decisions, the own group
\* first (ContestDetailPage.qml:183-189), and no refresh ever has the "pending
\* decisions left over" that the page reports as an error (:217).
PageShowsSnapshot ==
    Undisturbed =>
    /\ leftOver = <<>>
    /\ chains # <<>> /\ LastChain.state = "done" /\ LastChain.snapshot # <<>> =>
        LET s == LastChain.snapshot
        IN  /\ {shown[i].voter : i \in DOMAIN shown} = {cast[d] : d \in ToSet(s)}
            /\ \A i, j \in DOMAIN shown : shown[i].voter = shown[j].voter => i = j
            /\ \A i \in DOMAIN shown :
                   /\ AreDecisionsOf(shown[i].records, s, shown[i].voter)
                   /\ shown[i].voter = Me => i = 1

\* Every fetch ends, though the page asks again after each full page.
FetchesEnd == \A f \in 1 .. MaxFetches :
                  (f \in DOMAIN chains) ~> (f \in DOMAIN chains /\ Ended(f))
=============================================================================
