--------------------------- MODULE ContestSearch ----------------------------
(***************************************************************************)
(* The contest feed and the contest searches: BackendServer chooses an     *)
(* index, a first contest and filters, FeedGenerator walks the index a few *)
(* contests at a time, and the app (ContestGeneratorApi) asks for more     *)
(* until it is told that there are no more.  Contests are published, start *)
(* and end, and receive votes between two requests.                        *)
(*                                                                         *)
(* One generator is followed; generators share nothing but the database.   *)
(* Contests are never removed, so the generator's pointer to the next      *)
(* contest is its ID.                                                      *)
(***************************************************************************)
EXTENDS Integers, Sequences, FiniteSets, SequencesExt

CONSTANTS
    Users,              \* instances of accounts: the voters
    Drafts,             \* contests that may be published
    Words,              \* what their names and descriptions are made of
    Searches,           \* filter lists a client may ask for
    FeedAllowed,        \* may the client ask for the feed?
    Counts,             \* numbers of contests a client asks for at a time
    MaxContests,        \* bound: contests published
    MaxTime,            \* bound: the last head time
    None                \* no contest, no generator

\* A generator: an index, filters, the contest it is at and, once a contest has
\* broken a filter, that contest.
Indexes == {"ByStartTime", "ByCoin", "ByCreator", "ById"}
Generators == [index : Indexes, filters : Searches \cup {<<>>},
               current : Nat \cup {None}, brokeAt : Nat \cup {None}]

ASSUME ContestSearchAssumption ==
    /\ Users \subseteq Nat
    /\ Drafts \subseteq [creator : Nat, coin : Nat, words : SUBSET Words, start : Nat, end : Nat]
    /\ \A filters \in Searches : filters \in Seq(ToSet(filters))
    /\ \A filters \in Searches : \A i \in DOMAIN filters :
          /\ filters[i].type \in {"terms", "coin", "creator", "voter"}
          /\ filters[i].type \in {"coin", "creator"} => filters[i].args[1] \in Nat
    /\ Counts \subseteq 1 .. 255
    /\ MaxContests \in Nat /\ MaxTime \in Nat
    /\ None \notin Nat /\ None \notin Generators

VARIABLES
    now,        \* head block time
    contestIndex,   \* the contest index; a contest's ID is its position
    votes,      \* <<account, contest ID>> for which there is a decision
    gen,        \* the generator: its index, filters and current contest
    returned,   \* app: the contests received so far
    out,        \* app: isOutOfContests
    owed,       \* history variable: contests active since the search began
    votesThen   \* history variable: the votes when the search began

searchVars == <<now, contestIndex, votes, gen, returned, out, owed, votesThen>>

-----------------------------------------------------------------------------
(* The contest index                                                       *)

Ids == DOMAIN contestIndex

isActive(id) ==
    /\ now >= contestIndex[id].start
    /\ contestIndex[id].end = 0 \/ now <= contestIndex[id].end

\* The field an index sorts by; contests with the same value are in the order
\* in which they were inserted.
Key(index, id) ==
    CASE index = "ByStartTime" -> contestIndex[id].start
      [] index = "ByCoin"      -> contestIndex[id].coin
      [] index = "ByCreator"   -> contestIndex[id].creator
      [] index = "ById"        -> id

Before(index, a, b) ==
    \/ Key(index, a) < Key(index, b)
    \/ Key(index, a) = Key(index, b) /\ a < b

\* The first contest of a part of an index, and all of them in order.
First(index, S) ==
    IF S = {} THEN None ELSE CHOOSE k \in S : \A j \in S : ~ Before(index, j, k)

InOrder(index, S) ==
    CHOOSE s \in [1 .. Cardinality(S) -> S] :
        \A i, j \in DOMAIN s : i < j => Before(index, s[i], s[j])

\* The first contest of an index whose field is at least x.
LowerBound(index, x) == First(index, {k \in Ids : Key(index, k) >= x})

-----------------------------------------------------------------------------
(* Filters                                                                 *)

\* The index that is sorted by a filter's field.
FilterIndex(f) == CASE f.type = "coin" -> "ByCoin"
                    [] f.type = "creator" -> "ByCreator"
                    [] OTHER -> "none"

\* Mutant: the creator filter may end any search.
Rejection_creator(index, f) ==
    IF f.type = "creator" \/ FilterIndex(f) = index THEN "Break" ELSE "Reject"

\* ResultSelector: what a filter that does not match says.
Rejection(index, f) == IF FilterIndex(f) = index THEN "Break" ELSE "Reject"

\* What the filter functions look for.  The loop over the terms of a search
\* returns in its first turn.
Accepts(f, id) ==
    CASE f.type = "terms"   -> f.args[1] \in contestIndex[id].words
      [] f.type = "creator" -> contestIndex[id].creator = f.args[1]
      [] f.type = "coin"    -> contestIndex[id].coin = f.args[1]
      [] f.type = "voter"   -> <<f.args[1], id>> \in votes

\* FeedGenerator::filter
filter(g, id) ==
    LET failed == {i \in DOMAIN g.filters : ~ Accepts(g.filters[i], id)}
    IN  IF failed = {} THEN "Accept"
        ELSE IF \E i \in failed : Rejection(g.index, g.filters[i]) = "Break"
             THEN "Break" ELSE "Reject"

\* searchContests: the first filter by coin or by creator decides.
SearchIndex(filters) ==
    LET sorted == {i \in DOMAIN filters : filters[i].type \in {"coin", "creator"}}
    IN  IF sorted = {} THEN "ById" ELSE FilterIndex(filters[Min(sorted)])

\* findFirstContest: what a filter knows of where a search begins.
FirstFor(index, f) ==
    CASE f.type = "terms" /\ index = "ById" -> LowerBound("ById", 0)
      [] FilterIndex(f) = index -> LowerBound(index, f.args[1])
      [] OTHER -> None

\* FilteredGenerator goes through the filters and keeps what the last one
\* that can tell says the first contest is.
FirstContest(index, filters) ==
    LET told == {i \in DOMAIN filters : FirstFor(index, filters[i]) # None}
    IN  IF told = {} THEN None ELSE FirstFor(index, filters[Max(told)])

-----------------------------------------------------------------------------
(* Operations                                                              *)

Generator(index, first, filters) ==
    [index |-> index, filters |-> filters, current |-> first, brokeAt |-> None]

Begin(g) ==
    /\ gen = None
    /\ gen' = g
    /\ owed' = {id \in Ids : isActive(id)}
    /\ votesThen' = votes
    /\ UNCHANGED <<now, contestIndex, votes, returned, out>>

getContestFeed ==
    /\ FeedAllowed
    /\ Begin(Generator("ByStartTime", LowerBound("ByStartTime", 0), <<>>))

searchContests(filters) ==
    LET index == SearchIndex(filters)
    IN  Begin(Generator(index, FirstContest(index, filters), filters))

\* The rest of the index, from the generator's contest on.
Rest == {k \in Ids : ~ Before(gen.index, k, gen.current)}

\* The active contests of the rest for which the filters say so.
Filtered(verdict) == {k \in Rest : isActive(k) /\ filter(gen, k) = verdict}

\* How far a request for count contests walks from the current one: the
\* contests it accepts and, if it met one, the contest that breaks a filter.
Walk(count) ==
    LET broken == First(gen.index, Filtered("Break"))
        good == InOrder(gen.index, {k \in Filtered("Accept") :
                                        broken # None => Before(gen.index, k, broken)})
        full == Len(good) >= count
    IN  [found |-> IF full THEN SubSeq(good, 1, count) ELSE good,
         broke |-> IF full THEN None ELSE broken,
         next |-> IF full THEN First(gen.index, {k \in Rest : Before(gen.index, good[count], k)})
                  ELSE None]

\* The answer reaches the app.
Return(ids, count) ==
    /\ returned' = returned \o ids
    /\ out' = (Len(ids) < count)

\* Mutant: the walk goes on one contest further than it should.
Advance_skip(w) ==
    gen' = [gen EXCEPT !.current =
                IF w.next = None THEN None
                ELSE First(gen.index, {k \in Ids : Before(gen.index, w.next, k)})]

Advance(w) == gen' = [gen EXCEPT !.current = w.next]

\* A contest that breaks a filter kills the generator, and the request
\* returns before any result is set.
getContests(count) ==
    /\ gen # None /\ ~ out
    /\ UNCHANGED <<now, contestIndex, votes, owed, votesThen>>
    /\ \/ /\ gen.current = None
          /\ Return(<<>>, count)
          /\ UNCHANGED gen
       \/ /\ gen.current # None
          /\ LET w == Walk(count)
             IN  IF w.broke # None
                 THEN /\ Return(<<>>, count)
                      /\ gen' = [gen EXCEPT !.current = None,
                                            !.brokeAt = w.broke]
                 ELSE /\ Return(w.found, count)
                      /\ Advance(w)

\* processContest, as far as the index is concerned.
Publish(draft) ==
    /\ Len(contestIndex) < MaxContests
    /\ contestIndex' = Append(contestIndex, [draft EXCEPT !.start = Max({@, now})])
    /\ UNCHANGED <<now, votes, gen, returned, out, owed, votesThen>>

processDecision(account, id) ==
    /\ votes' = votes \cup {<<account, id>>}
    /\ UNCHANGED <<now, contestIndex, gen, returned, out, owed, votesThen>>

AdvanceTime ==
    /\ now < MaxTime
    /\ now' = now + 1
    /\ owed' = {id \in owed : contestIndex[id].end = 0 \/ now' <= contestIndex[id].end}
    /\ UNCHANGED <<contestIndex, votes, gen, returned, out, votesThen>>

-----------------------------------------------------------------------------
SearchInit ==
    /\ now = 1
    /\ contestIndex = <<>>
    /\ votes = {}
    /\ gen = None
    /\ returned = <<>>
    /\ out = FALSE
    /\ owed = {}
    /\ votesThen = {}

SearchNext ==
    \/ \E draft \in Drafts : Publish(draft)
    \/ \E account \in Users, id \in Ids : processDecision(account, id)
    \/ AdvanceTime
    \/ getContestFeed
    \/ \E filters \in Searches : searchContests(filters)
    \/ \E count \in Counts : getContests(count)

SearchSpec == SearchInit /\ [][SearchNext]_searchVars

-----------------------------------------------------------------------------
(* Properties                                                              *)

\* What a client means by a list of filters (backend.capnp:48-56), given who
\* has voted on what.
Wanted(filters, id, voted) ==
    \A i \in DOMAIN filters :
        LET f == filters[i]
        IN  CASE f.type = "terms" -> ToSet(f.args) \cap contestIndex[id].words # {}
              [] f.type = "voter" -> <<f.args[1], id>> \in voted
              [] OTHER            -> Accepts(f, id)

\* The searches that the server's choice of an index and of a first contest is
\* made for: not by voter alone, and with one term at most, as the app's are.
Intended(filters) ==
    /\ \E i \in DOMAIN filters : filters[i].type # "voter"
    /\ \A i \in DOMAIN filters :
          filters[i].type = "terms" => ToSet(filters[i].args) = {filters[i].args[1]}

\* "It is guaranteed that no more contests can be matched" when a filter
\* breaks (FeedGenerator.hpp:53-56): every contest that matches, now or when
\* it is published later, is before the break in the index.
BreakIsSafe ==
    (IF gen = None THEN FALSE ELSE gen.brokeAt # None) =>
        \A id \in Ids : Wanted(gen.filters, id, votes)
                            => Before(gen.index, id, gen.brokeAt)

\* Contests that were there and active all the time, that the client wants and
\* that it has not been given.
Missed == {id \in owed : /\ Wanted(gen.filters, id, votesThen)
                         /\ id \notin ToSet(returned)}

\* "May return less than count values if no more values are available"
\* (generator.capnp:24): a short answer tells the app that there are no more
\* contests.  If it is short because the index ended, and not because a filter
\* broke, the app has then been given every contest it asked for, and in any
\* case none of them twice: no interleaving of requests, new contests, starts
\* and ends makes the walk step over one or stay (FeedGenerator.hpp:121-146).
EachContestOnce ==
    /\ IsInjective(returned)
    /\ (out /\ gen.brokeAt = None) => Missed = {}
=============================================================================
