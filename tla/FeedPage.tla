------------------------------ MODULE FeedPage ------------------------------
(***************************************************************************)
(* The app's feed of contests (qml/FeedPage.qml, Apis/ContestGeneratorApi, *)
(* main.qml): a list that is filled by fetches, each of which asks a       *)
(* generator of the backend for contests and then the wallet for every one *)
(* of them, while the user scrolls, refreshes the list or changes the      *)
(* account, and the backend comes and goes.                                *)
(*                                                                         *)
(* Generators are numbered in the order they are made; 0 is no generator.  *)
(* A contest is its position in the backend's feed (see ContestSearch).    *)
(* The height of the list is the number of its contests.                   *)
(***************************************************************************)
EXTENDS Integers, Sequences, FiniteSets, FiniteSetsExt

CONSTANTS
    Accounts,           \* the user's accounts
    FirstAccount,       \* the one that is set when the backend is connected
    FeedLength,         \* contests in the backend's feed
    Batch,              \* contests populateContests asks for at a time
    More,               \* contests asked for when the user scrolls or clicks
    Full,               \* contests that fill twice the height of the page
    MaxActs,            \* bound: refreshes, changes of the account, clicks below
    MaxSessions         \* bound: connections to the backend

ASSUME FeedAssumption ==
    /\ FirstAccount \in Accounts
    /\ {FeedLength, Full, MaxActs, MaxSessions} \subseteq Nat
    /\ {Batch, More} \subseteq Nat \ {0}

VARIABLES
    account,        \* votingSystem.currentAccount
    session,        \* the connection votingSystem.backend is on, or 0
    sessions,       \* connections so far
    generators,     \* the ContestGeneratorApi objects
    generator,      \* the one the page uses, or 0
    contests,       \* contestListModel: what came from the page's generator, and
                    \* the number of contests that came from earlier ones
    fetches,        \* calls of fetchMoreContests that have not ended
    due,            \* calls of populateContests that timers and promises owe
    acts,           \* counter for the bound
    broken          \* history: something failed since the page was emptied

vars == <<account, session, sessions, generators, generator, contests, fetches,
          due, acts, broken>>

-----------------------------------------------------------------------------
(* Fetching                                                                *)

\* getFeedGenerator, on connection s
NewGenerator(s) == [session |-> s, next |-> 1, fetching |-> FALSE, out |-> FALSE]

Ready(g) == ~ g.fetching /\ ~ g.out

\* No contest is known before the backend has answered.
NewFetch(kind, count, g) ==
    [kind |-> kind, count |-> count, gen |-> g, answered |-> FALSE,
     account |-> FirstAccount, found |-> <<>>, loading |-> 0, astray |-> FALSE]

\* fetchMoreContests with the generators gs, of which the page uses g.  A call
\* that finds the generator busy is rejected; if that ends the last chain of
\* populateContests the page stays as it is.
FetchMoreContests(kind, count, gs, g) ==
    IF Ready(gs[g])
    THEN /\ generators' = [gs EXCEPT ![g].fetching = TRUE]
         /\ fetches' = fetches \cup {NewFetch(kind, count, g)}
         /\ UNCHANGED broken
    ELSE /\ generators' = gs
         /\ UNCHANGED fetches
         /\ broken' = (broken \/ (/\ gs[g].fetching
                                  /\ \A f \in fetches : f.kind # "populate" \/ f.gen # g))

Empty == [own |-> <<>>, foreign |-> 0]

Short == Len(contests.own) + contests.foreign < Full

\* populateContests with the backend on connection s
PopulateContests(s) ==
    LET new == generator = 0
        g == IF new THEN Len(generators) + 1 ELSE generator
        gs == IF new THEN Append(generators, NewGenerator(s)) ELSE generators
    IN  IF s = 0
        THEN UNCHANGED <<generator, generators, fetches, broken>>
        ELSE /\ generator' = g
             /\ IF Short THEN FetchMoreContests("populate", Batch, gs, g)
                ELSE generators' = gs /\ UNCHANGED <<fetches, broken>>

\* A timer of repopulateContests is up, or a fetch of populateContests is over.
CallPopulate ==
    /\ due > 0
    /\ due' = due - 1
    /\ PopulateContests(session)
    /\ UNCHANGED <<account, session, sessions, contests, acts>>

\* Mutant: a generator that has failed stays busy.
GetContestsFails_busy(f) ==
    /\ f \in fetches /\ ~ f.answered /\ generators[f.gen].session # session
    /\ fetches' = fetches \ {f}
    /\ UNCHANGED <<generators, account, session, sessions, generator, contests, due,
                   acts, broken>>

\* The connection of the generator is lost, and its answer with it.
GetContestsFails(f) ==
    /\ f \in fetches /\ ~ f.answered /\ generators[f.gen].session # session
    /\ fetches' = fetches \ {f}
    /\ generators' = [generators EXCEPT ![f.gen].fetching = FALSE]
    /\ UNCHANGED <<account, session, sessions, generator, contests, due,
                   acts, broken>>

\* getContests is answered, and every contest is looked up with the account
\* that is the current one by now.
GetContestsAnswered(f) ==
    LET g == generators[f.gen]
        n == Min({f.count, FeedLength - g.next + 1})
    IN  /\ f \in fetches /\ ~ f.answered /\ g.session = session
        /\ generators' = [generators EXCEPT ![f.gen].next = @ + n,
                                            ![f.gen].fetching = FALSE,
                                            ![f.gen].out = n < f.count]
        /\ fetches' = (fetches \ {f})
                         \cup {[f EXCEPT !.answered = TRUE, !.account = account,
                                         !.found = [i \in 1 .. n |-> g.next + i - 1],
                                         !.loading = n]}
        /\ UNCHANGED <<account, session, sessions, generator, contests, due,
                       acts, broken>>

\* The wallet answers a look-up: loadContestFromChain gives the contest to the
\* generator the page uses now, and fails when there is none.
ContestLoads(f) ==
    /\ f \in fetches /\ f.loading > 0
    /\ fetches' = (fetches \ {f})
                     \cup IF generator = 0 THEN {}
                          ELSE {[f EXCEPT !.loading = @ - 1,
                                          !.astray = @ \/ generator # f.gen]}
    /\ UNCHANGED <<account, session, sessions, generators, generator, contests, due,
                   acts, broken>>

\* The wallet is lost or does not find the contest: the fetch is rejected.
ContestFails(f) ==
    /\ f \in fetches /\ f.loading > 0
    /\ fetches' = fetches \ {f}
    /\ broken' = (broken \/ f.gen = generator)
    /\ UNCHANGED <<account, session, sessions, generators, generator, contests, due,
                   acts>>

\* Every contest of the fetch is there: they are added to the list, whichever
\* generator they came from.
Deliver(f) ==
    /\ f \in fetches /\ f.answered /\ f.loading = 0
    /\ fetches' = fetches \ {f}
    /\ contests' =
           IF f.gen = generator
           THEN [contests EXCEPT !.own = @ \o
                    [i \in DOMAIN f.found |-> [contest |-> f.found[i], astray |-> f.astray,
                                               account |-> f.account]]]
           ELSE [contests EXCEPT !.foreign = @ + Len(f.found)]
    /\ due' = IF f.kind = "populate" THEN due + 1 ELSE due
    /\ UNCHANGED <<account, session, sessions, generators, generator, acts, broken>>

-----------------------------------------------------------------------------
(* The user                                                                *)

\* Mutant: the generator is kept.
RepopulateContests_keep ==
    /\ acts < MaxActs
    /\ acts' = acts + 1
    /\ contests' = Empty
    /\ due' = due + 1
    /\ broken' = FALSE
    /\ UNCHANGED generator

\* repopulateContests; the timer it sets leaves the list view time to clear.
RepopulateContests ==
    /\ acts < MaxActs
    /\ acts' = acts + 1
    /\ generator' = 0
    /\ contests' = Empty
    /\ due' = due + 1
    /\ broken' = FALSE

Refresh ==
    /\ RepopulateContests
    /\ UNCHANGED <<account, session, sessions, generators, fetches>>

\* onCurrentAccountChanged is only connected while there is a generator.
ChangeAccount(a) ==
    /\ a # account
    /\ account' = a
    /\ IF generator # 0 THEN RepopulateContests
       ELSE /\ acts < MaxActs
            /\ acts' = acts + 1
            /\ UNCHANGED <<generator, contests, due, broken>>
    /\ UNCHANGED <<session, sessions, generators, fetches>>

\* The button in the list's footer.  Scrolling to the end of the list does the
\* same, as long as watchYChanges is set, which nothing else looks at.
LoadMore ==
    /\ acts < MaxActs
    /\ acts' = acts + 1
    /\ generator # 0 /\ Ready(generators[generator])
    /\ FetchMoreContests("more", More, generators, generator)
    /\ UNCHANGED <<account, session, sessions, generator, contests, due>>

-----------------------------------------------------------------------------
(* The connection to the backend (see Connection)                          *)

\* Mutant: the feed is not filled when the backend is connected.
BackendConnected_unheard ==
    /\ session = 0 /\ sessions < MaxSessions
    /\ sessions' = sessions + 1
    /\ session' = sessions + 1
    /\ UNCHANGED <<generator, generators, fetches, broken,
                   account, contests, due, acts>>

\* onBackendConnected in main.qml; a generator there is keeps being used.
BackendConnected ==
    /\ session = 0 /\ sessions < MaxSessions
    /\ sessions' = sessions + 1
    /\ session' = sessions + 1
    /\ PopulateContests(sessions + 1)
    /\ UNCHANGED <<account, contests, due, acts>>

\* VotingSystem::disconnected
BackendLost ==
    /\ session # 0
    /\ session' = 0
    /\ broken' = (broken \/ generator # 0)
    /\ UNCHANGED <<account, sessions, generators, generator, contests, fetches, due,
                   acts>>

-----------------------------------------------------------------------------
Init ==
    /\ account = FirstAccount
    /\ session = 0 /\ sessions = 0
    /\ generators = <<>> /\ generator = 0
    /\ contests = Empty
    /\ fetches = {}
    /\ due = 0
    /\ acts = 0
    /\ broken = FALSE

\* What the event loop, the backend and the wallet do in answer.
Answer(f) ==
    \/ GetContestsAnswered(f) \/ GetContestsFails(f)
    \/ ContestLoads(f) \/ ContestFails(f) \/ Deliver(f)

Next ==
    \/ CallPopulate
    \/ \E f \in fetches : Answer(f)
    \/ Refresh
    \/ \E a \in Accounts : ChangeAccount(a)
    \/ LoadMore
    \/ BackendConnected
    \/ BackendLost

\* Timers run out, and the calls made for each generator are answered or fail.
Fairness ==
    /\ WF_vars(CallPopulate)
    /\ \A g \in 1 .. MaxActs + 1 :
           /\ WF_vars(\E f \in fetches : f.gen = g /\ ~ f.answered /\ Answer(f))
           /\ WF_vars(\E f \in fetches : f.gen = g /\ f.answered /\ Answer(f))

Spec == Init /\ [][Next]_vars /\ Fairness

-----------------------------------------------------------------------------
(* Properties                                                              *)

Fetch == [kind : {"populate", "more"}, count : {Batch, More}, gen : Nat \ {0},
          answered : BOOLEAN, account : Accounts,
          found : Seq(1 .. FeedLength), loading : 0 .. FeedLength, astray : BOOLEAN]

TypeOK ==
    /\ account \in Accounts
    /\ sessions \in 0 .. MaxSessions /\ session \in {0, sessions}
    /\ generators \in Seq([session : 1 .. sessions, next : 1 .. FeedLength + 1,
                           fetching : BOOLEAN, out : BOOLEAN])
    /\ generator \in {0, Len(generators)}
    /\ contests \in [own : Seq([contest : 1 .. FeedLength, account : Accounts,
                                astray : BOOLEAN]),
                      foreign : Nat]
    /\ fetches \subseteq Fetch
    /\ due \in Nat
    /\ acts \in 0 .. MaxActs /\ broken \in BOOLEAN

\* However fetches of several generators overlap, what came from the generator
\* the page uses is right: no contest twice, each looked up for the account
\* that is the current one, whose pending decision it shows, and each kept
\* alive by that generator (FeedPage.qml:125-141).  Contests of a fetch that
\* was under way when the page was emptied may stand between them.
CurrentContestsRight ==
    LET own == contests.own
    IN  /\ \A i \in DOMAIN own : own[i].account = account /\ ~ own[i].astray
        /\ \A i, j \in DOMAIN own : own[i].contest = own[j].contest => i = j

\* A page that is emptied, by a refresh or a change of the account, at whatever
\* moment of the fetches and connections before, is full in the end or shows
\* the whole feed, unless something failed for it since or the backend is gone.
FillsUp ==
    <>[](\/ broken \/ session = 0
         \/ generator # 0 /\ (~ Short \/ generators[generator].out))

\* A generator says that it is fetching exactly as long as one call is out: the
\* busy indicator stops and the button below the list comes back, whether the
\* backend answers or is lost, and no two calls of a generator are under way,
\* though chains, clicks and reconnections all fetch (ContestGeneratorApi.cpp:40-63).
BusyWhileFetching ==
    \A g \in DOMAIN generators :
        Cardinality({f \in fetches : f.gen = g /\ ~ f.answered})
            = IF generators[g].fetching THEN 1 ELSE 0
=============================================================================
