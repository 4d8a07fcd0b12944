--------------------------- MODULE Reading_proofs ---------------------------
(* Proofs about what the app reads: the pages of a feed (FeedPage), the     *)
(* searches behind them (ContestSearch), and the list of decisions on a     *)
(* contest (DecisionList).                                                  *)
EXTENDS FeedPage, ContestSearch, DecisionList, SequenceTheorems, FiniteSetTheorems,
        SumLemmas, TLAPS

-----------------------------------------------------------------------------
(* The feed.                                                               *)

Gen(top) == [session : 1 .. top, next : 1 .. FeedLength + 1,
             fetching : BOOLEAN, out : BOOLEAN]

Shown == [contest : 1 .. FeedLength, account : Accounts, astray : BOOLEAN]

(* The calls of a generator that are out, among fs.                         *)
Out(fs, g) == {f \in fs : f.gen = g /\ ~ f.answered}

(* Every fetch belongs to a generator, which is busy as long as a call of   *)
(* it is out; gs are the generators and fs the fetches.                     *)
Busy(gs, fs) ==
    /\ \A f \in fs : f.gen \in 1 .. Len(gs) /\ (~ f.answered => f.loading = 0)
    /\ \A g \in 1 .. Len(gs) :
          IF gs[g].fetching THEN \E f : Out(fs, g) = {f} ELSE Out(fs, g) = {}

BusyInv == TypeOK /\ Busy(generators, fetches)

(* The list own of a page shows, for the account acc, some of the contests  *)
(* before the one its generator gives next, each once.                      *)
Shows(own, acc, next) ==
    \A i \in DOMAIN own :
        /\ own[i].account = acc /\ ~ own[i].astray /\ own[i].contest < next
        /\ \A j \in DOMAIN own : own[i].contest = own[j].contest => i = j

(* What the fetch f will add to that list.                                  *)
Brings(f, own, acc, next) ==
    /\ ~ f.astray /\ (f.answered => f.account = acc) /\ (~ f.answered => f.found = <<>>)
    /\ \A i \in DOMAIN f.found :
          /\ f.found[i] < next
          /\ \A j \in DOMAIN f.found : f.found[i] = f.found[j] => i = j
          /\ \A j \in DOMAIN own : own[j].contest # f.found[i]

(* No two fetches bring the same contest.                                   *)
Apart(fs) ==
    \A f, e \in fs : \A i \in DOMAIN f.found, j \in DOMAIN e.found :
        f.found[i] = e.found[j] => f = e

Right(own, fs, acc, next) ==
    /\ Shows(own, acc, next) /\ Apart(fs)
    /\ \A f \in fs : Brings(f, own, acc, next)

(* The fetches of the generator g, answered or not.                         *)
Of(fs, g) == {f \in fs : f.gen = g}

RightInv ==
    IF generator = 0 THEN contests.own = <<>>
    ELSE Right(contests.own, Of(fetches, generator), account, generators[generator].next)

-----------------------------------------------------------------------------
(* A call of a generator that is not busy makes it busy.                   *)
LEMMA FetchMore ==
    ASSUME NEW top \in Nat, NEW gs \in Seq(Gen(top)), NEW g \in 1 .. Len(gs),
           NEW kind \in {"populate", "more"}, NEW count \in {Batch, More},
           fetches \subseteq Fetch, Busy(gs, fetches), broken \in BOOLEAN,
           FetchMoreContests(kind, count, gs, g)
    PROVE  /\ generators' \in Seq(Gen(top)) /\ Len(generators') = Len(gs)
           /\ \A h \in 1 .. Len(gs) : generators'[h].next = gs[h].next
           /\ fetches' \subseteq Fetch
           /\ \A f \in fetches' : f \in fetches \/ (~ f.answered /\ ~ f.astray /\ f.found = <<>>)
           /\ Busy(generators', fetches')
           /\ broken' \in BOOLEAN
<1>1. CASE ~ Ready(gs[g])
  <2>1. generators' = gs /\ fetches' = fetches
    BY <1>1 DEF FetchMoreContests
  <2>2. broken' \in BOOLEAN
    BY <1>1, Zenon DEF FetchMoreContests
  <2>3. Busy(generators', fetches')
    BY <2>1
  <2>4. generators' \in Seq(Gen(top)) /\ Len(generators') = Len(gs)
        /\ \A h \in 1 .. Len(gs) : generators'[h].next = gs[h].next
    BY <2>1
  <2>5. fetches' \subseteq Fetch /\ \A f \in fetches' : f \in fetches
    BY <2>1
  <2> QED
    BY <2>2, <2>3, <2>4, <2>5, Zenon
<1>2. CASE Ready(gs[g])
  <2> DEFINE new == NewFetch(kind, count, g)
  <2>1. /\ generators' = [gs EXCEPT ![g].fetching = TRUE]
        /\ fetches' = fetches \cup {new}
        /\ broken' = broken
        /\ ~ gs[g].fetching
    BY <1>2 DEF FetchMoreContests, Ready
  <2>2. new \in Fetch /\ ~ new.answered /\ ~ new.astray /\ new.found = <<>> /\ new.gen = g
        /\ new.loading = 0
    <3>1. <<>> \in Seq(1 .. FeedLength) /\ 0 \in 0 .. FeedLength /\ g \in Nat \ {0}
          /\ FirstAccount \in Accounts
      BY FeedAssumption
    <3> QED
      BY <3>1 DEF NewFetch, Fetch
  <2> HIDE DEF new
  <2>3. /\ generators' \in Seq(Gen(top)) /\ Len(generators') = Len(gs)
        /\ \A h \in 1 .. Len(gs) : generators'[h].next = gs[h].next
        /\ \A h \in 1 .. Len(gs) : generators'[h].fetching = (IF h = g THEN TRUE ELSE gs[h].fetching)
    <3> DEFINE r == [gs[g] EXCEPT !.fetching = TRUE]
    <3>0. gs[g] \in Gen(top)
      BY ElementOfSeq
    <3>1. r \in Gen(top) /\ r.next = gs[g].next /\ r.fetching = TRUE
      BY <3>0 DEF Gen
    <3>2. generators' = [gs EXCEPT ![g] = r]
      BY <2>1
    <3> HIDE DEF r
    <3>3. generators' \in Seq(Gen(top)) /\ Len(generators') = Len(gs)
          /\ \A h \in 1 .. Len(gs) : generators'[h] = IF h = g THEN r ELSE gs[h]
      BY <3>1, <3>2
    <3> QED
      BY <3>1, <3>3
  <2>4. \A h \in 1 .. Len(gs) :
            Out(fetches', h) = Out(fetches, h) \cup (IF h = g THEN {new} ELSE {})
    BY <2>1, <2>2 DEF Out
  <2>5. Out(fetches, g) = {}
    BY <2>1 DEF Busy
  <2>6. Busy(generators', fetches')
    <3>1. \A f \in fetches' : f.gen \in 1 .. Len(generators') /\ (~ f.answered => f.loading = 0)
      BY <2>1, <2>2, <2>3 DEF Busy
    <3>2. ASSUME NEW h \in 1 .. Len(gs)
          PROVE  IF generators'[h].fetching THEN \E f : Out(fetches', h) = {f}
                 ELSE Out(fetches', h) = {}
      <4>1. CASE h = g
        BY <2>3, <2>4, <2>5, <4>1
      <4>2. CASE h # g
        BY <2>3, <2>4, <4>2 DEF Busy
      <4> QED
        BY <4>1, <4>2
    <3> QED
      BY <2>3, <3>1, <3>2 DEF Busy
  <2>7. fetches' \subseteq Fetch /\ broken' \in BOOLEAN
    BY <2>1, <2>2
  <2>8. \A f \in fetches' : f \in fetches \/ (~ f.answered /\ ~ f.astray /\ f.found = <<>>)
    <3> SUFFICES ASSUME NEW f \in fetches', f \notin fetches
                 PROVE  ~ f.answered /\ ~ f.astray /\ f.found = <<>>
      OBVIOUS
    <3>1. f = new
      BY <2>1
    <3> QED
      BY <2>2, <3>1, Zenon
  <2> QED
    BY <2>3, <2>6, <2>7, <2>8
<1> QED
  BY <1>1, <1>2

(* A generator is made if the page has none, and asked if the page is short.*)
LEMMA Populate ==
    ASSUME NEW top \in Nat, sessions <= top, NEW s \in 0 .. top,
           BusyInv, PopulateContests(s)
    PROVE  /\ generators' \in Seq(Gen(top)) /\ generator' \in {0, Len(generators')}
           /\ fetches' \subseteq Fetch /\ broken' \in BOOLEAN
           /\ \A f \in fetches' : f \in fetches \/ (~ f.answered /\ ~ f.astray /\ f.found = <<>>)
           /\ \/ /\ generator' = generator
                 /\ \A h \in 1 .. Len(generators) : generators'[h].next = generators[h].next
              \/ generator = 0 /\ generator' = Len(generators) + 1
           /\ Busy(generators', fetches')
<1>1. /\ sessions \in Nat /\ fetches \subseteq Fetch /\ broken \in BOOLEAN
      /\ generator \in {0, Len(generators)} /\ generators \in Seq(Gen(sessions))
      /\ Busy(generators, fetches)
  BY DEF BusyInv, TypeOK, Gen
<1>2. generators \in Seq(Gen(top)) /\ Len(generators) \in Nat
  <2>1. Gen(sessions) \subseteq Gen(top)
    BY <1>1 DEF Gen
  <2> QED
    BY <1>1, <2>1, SeqMonotonic
<1>3. CASE s = 0
  BY <1>1, <1>2, <1>3 DEF PopulateContests
<1>4. CASE s # 0 /\ generator # 0
  <2>1. generator' = generator /\ generator \in 1 .. Len(generators)
    BY <1>1, <1>2, <1>4 DEF PopulateContests
  <2>2. CASE ~ Short
    BY <1>1, <1>2, <1>4, <2>1, <2>2 DEF PopulateContests
  <2>3. CASE Short
    <3>1. FetchMoreContests("populate", Batch, generators, generator)
      BY <1>4, <2>3 DEF PopulateContests
    <3> QED
      BY <1>1, <1>2, <2>1, <3>1, FetchMore
  <2> QED
    BY <2>2, <2>3
<1>5. CASE s # 0 /\ generator = 0
  <2> DEFINE gs == Append(generators, NewGenerator(s))
  <2>1. NewGenerator(s) \in Gen(top) /\ ~ NewGenerator(s).fetching
    BY <1>5, FeedAssumption DEF NewGenerator, Gen
  <2>2. /\ gs \in Seq(Gen(top)) /\ Len(gs) = Len(generators) + 1
        /\ \A h \in 1 .. Len(generators) : gs[h] = generators[h]
        /\ gs[Len(generators) + 1] = NewGenerator(s)
    BY <1>2, <2>1
  <2>3. /\ generator' = Len(generators) + 1
        /\ IF Short THEN FetchMoreContests("populate", Batch, gs, Len(generators) + 1)
           ELSE generators' = gs /\ UNCHANGED <<fetches, broken>>
    BY <1>5 DEF PopulateContests
  <2> HIDE DEF gs
  <2>4. \A f \in fetches : f.gen \in 1 .. Len(generators)
    BY <1>1 DEF Busy
  <2>5. \A f \in fetches : f.gen # Len(generators) + 1
    BY <1>2, <2>4
  <2>6. Busy(gs, fetches)
    <3>1. Out(fetches, Len(generators) + 1) = {}
      BY <2>5 DEF Out
    <3>2. \A h \in 1 .. Len(gs) : h \in 1 .. Len(generators) \/ h = Len(generators) + 1
      BY <1>2, <2>2
    <3>3. ASSUME NEW g \in 1 .. Len(gs)
          PROVE  IF gs[g].fetching THEN \E f : Out(fetches, g) = {f} ELSE Out(fetches, g) = {}
      BY <1>1, <2>1, <2>2, <3>1, <3>2 DEF Busy
    <3>4. \A f \in fetches : f.gen \in 1 .. Len(gs) /\ (~ f.answered => f.loading = 0)
      BY <1>1, <1>2, <2>2, <2>4 DEF Busy
    <3> QED
      BY <3>3, <3>4 DEF Busy
  <2>7. CASE ~ Short
    BY <1>1, <1>5, <2>2, <2>3, <2>6, <2>7
  <2>8. CASE Short
    <3>1. FetchMoreContests("populate", Batch, gs, Len(generators) + 1)
      BY <2>3, <2>8
    <3>2. Len(generators) + 1 \in 1 .. Len(gs)
      BY <1>2, <2>2
    <3> QED
      BY <1>1, <1>5, <2>2, <2>3, <2>6, <3>1, <3>2, FetchMore
  <2> QED
    BY <2>7, <2>8
<1> QED
  BY <1>3, <1>4, <1>5

(* What follows an answer leaves the generators alone.                      *)
LEMMA AnsweredKeepsBusy ==
    ASSUME Busy(generators, fetches), NEW f \in fetches, f.answered,
           NEW add, \A x \in add : x.answered /\ x.gen = f.gen,
           fetches' = (fetches \ {f}) \cup add, generators' = generators
    PROVE  Busy(generators', fetches')
<1>1. \A g : Out(fetches', g) = Out(fetches, g)
  BY DEF Out
<1>2. \A x \in fetches' : x.gen \in 1 .. Len(generators) /\ (~ x.answered => x.loading = 0)
  BY DEF Busy
<1> QED
  BY <1>1, <1>2 DEF Busy

(* An answer, or a failure, is that of the only call that is out.           *)
LEMMA AnswerEndsBusy ==
    ASSUME Busy(generators, fetches), NEW f \in fetches, ~ f.answered,
           NEW add, \A x \in add : x.answered /\ x.gen = f.gen,
           fetches' = (fetches \ {f}) \cup add,
           Len(generators') = Len(generators),
           \A g \in 1 .. Len(generators) :
               generators'[g].fetching = IF g = f.gen THEN FALSE ELSE generators[g].fetching
    PROVE  Busy(generators', fetches')
<1>1. f \in Out(fetches, f.gen) /\ f.gen \in 1 .. Len(generators)
  BY DEF Out, Busy
<1>2. Out(fetches, f.gen) = {f}
  BY <1>1 DEF Busy
<1>3. Out(fetches', f.gen) = {}
  BY <1>2 DEF Out
<1>4. \A g : g # f.gen => Out(fetches', g) = Out(fetches, g)
  BY DEF Out
<1>5. \A x \in fetches' : x.gen \in 1 .. Len(generators) /\ (~ x.answered => x.loading = 0)
  BY DEF Busy
<1>6. ASSUME NEW g \in 1 .. Len(generators)
      PROVE  IF generators'[g].fetching THEN \E x : Out(fetches', g) = {x}
             ELSE Out(fetches', g) = {}
  <2>1. CASE g = f.gen
    BY <1>3, <2>1
  <2>2. CASE g # f.gen
    BY <1>4, <2>2 DEF Busy
  <2> QED
    BY <2>1, <2>2
<1> QED
  BY <1>5, <1>6 DEF Busy

(* How many contests a generator answers: what is asked for, or the rest.   *)
LEMMA Answerable ==
    ASSUME NEW count \in Nat, NEW next \in 1 .. FeedLength + 1
    PROVE  LET n == Min({count, FeedLength - next + 1})
           IN  n \in 0 .. FeedLength /\ next + n \in 1 .. FeedLength + 1
<1>1. FeedLength \in Nat
  BY FeedAssumption
<1>2. PICK least \in {count, FeedLength - next + 1} :
          \A x \in {count, FeedLength - next + 1} : least <= x
  BY <1>1
<1>3. Min({count, FeedLength - next + 1}) \in {count, FeedLength - next + 1}
      /\ \A x \in {count, FeedLength - next + 1} : Min({count, FeedLength - next + 1}) <= x
  BY <1>2 DEF Min
<1> QED
  BY <1>1, <1>3

-----------------------------------------------------------------------------
(* A generator is busy exactly as long as one call of it is out.            *)

(* Initially there is no generator.                                        *)
LEMMA BusyInit == Init => BusyInv
<1> SUFFICES ASSUME Init PROVE BusyInv
  OBVIOUS
<1>1. FirstAccount \in Accounts /\ 0 \in 0 .. MaxSessions /\ 0 \in 0 .. MaxActs
  BY FeedAssumption
<1>2. TypeOK
  <2>1. generators \in Seq(Gen(sessions)) /\ Len(generators) = 0
    BY DEF Init
  <2>2. contests \in [own : Seq(Shown), foreign : Nat]
    BY DEF Init, Empty
  <2> QED
    BY <1>1, <2>1, <2>2 DEF Init, TypeOK, Gen, Shown
<1>3. Busy(generators, fetches)
  BY DEF Init, Busy
<1> QED
  BY <1>2, <1>3 DEF BusyInv

(* The parts of BusyInv that an action can disturb.                         *)
LEMMA BusyParts ==
    ASSUME BusyInv
    PROVE  /\ account \in Accounts
           /\ sessions \in 0 .. MaxSessions /\ sessions \in Nat /\ session \in {0, sessions}
           /\ generators \in Seq(Gen(sessions)) /\ Len(generators) \in Nat
           /\ generator \in {0, Len(generators)}
           /\ contests \in [own : Seq(Shown), foreign : Nat]
           /\ fetches \subseteq Fetch /\ due \in Nat /\ acts \in 0 .. MaxActs
           /\ broken \in BOOLEAN /\ Busy(generators, fetches)
  BY FeedAssumption DEF BusyInv, TypeOK, Gen, Shown

(* A step that leaves the calls alone.                                      *)
LEMMA BusyQuiet ==
    ASSUME BusyInv, account' \in Accounts, session' \in {0, sessions},
           UNCHANGED <<sessions, generators, fetches>>,
           generator' \in {0, generator}, contests' \in {Empty, contests},
           due' \in Nat, acts' \in 0 .. MaxActs, broken' \in BOOLEAN
    PROVE  BusyInv'
<1>1. Empty \in [own : Seq(Shown), foreign : Nat]
  BY DEF Empty
<1>2. TypeOK'
  BY <1>1, BusyParts DEF TypeOK, Gen, Shown
<1>3. Busy(generators, fetches)'
  BY BusyParts DEF Busy, Out
<1> QED
  BY <1>2, <1>3 DEF BusyInv

(* populate makes a generator and calls it.                                *)
LEMMA BusyPopulates ==
    ASSUME BusyInv, NEW s \in 0 .. sessions', sessions' \in 0 .. MaxSessions,
           sessions <= sessions', session' \in {0, sessions'}, due' \in Nat,
           PopulateContests(s), UNCHANGED <<account, contests, acts>>
    PROVE  BusyInv'
<1>1. sessions' \in Nat
  BY FeedAssumption
<1>2. /\ generators' \in Seq(Gen(sessions')) /\ generator' \in {0, Len(generators')}
      /\ fetches' \subseteq Fetch /\ broken' \in BOOLEAN
      /\ Busy(generators', fetches')
  BY <1>1, Populate
<1>3. TypeOK'
  BY <1>2, BusyParts DEF TypeOK, Gen, Shown
<1> QED
  BY <1>2, <1>3 DEF BusyInv, Busy, Out

(* A call that fails leaves its generator free.                            *)
LEMMA BusyFails ==
    ASSUME BusyInv, NEW f \in fetches, GetContestsFails(f)
    PROVE  BusyInv'
<1> DEFINE r == [generators[f.gen] EXCEPT !.fetching = FALSE]
<1>1. f.gen \in 1 .. Len(generators) /\ ~ f.answered
  BY BusyParts DEF Busy, GetContestsFails
<1>2. generators' = [generators EXCEPT ![f.gen] = r]
  BY DEF GetContestsFails
<1>3. r \in Gen(sessions) /\ r.fetching = FALSE
  <2>1. generators[f.gen] \in Gen(sessions)
    BY <1>1, BusyParts, ElementOfSeq
  <2> QED
    BY <2>1 DEF Gen
<1> HIDE DEF r
<1>4. /\ generators' \in Seq(Gen(sessions)) /\ Len(generators') = Len(generators)
      /\ \A g \in 1 .. Len(generators) :
             generators'[g] = IF g = f.gen THEN r ELSE generators[g]
  BY <1>1, <1>2, <1>3, BusyParts
<1>5. TypeOK'
  BY <1>4, BusyParts DEF TypeOK, Gen, Shown, GetContestsFails
<1>6. Busy(generators', fetches')
  <2>1. fetches' = (fetches \ {f}) \cup {}
    BY DEF GetContestsFails
  <2>2. \A g \in 1 .. Len(generators) :
            generators'[g].fetching = IF g = f.gen THEN FALSE ELSE generators[g].fetching
    BY <1>3, <1>4
  <2>3. PICK add : add = {} /\ fetches' = (fetches \ {f}) \cup add
    BY <2>1
  <2>4. Busy(generators, fetches)
    BY BusyParts
  <2>5. \A x \in add : x.answered /\ x.gen = f.gen
    BY <2>3
  <2> QED
    BY <1>1, <1>4, <2>2, <2>3, <2>4, <2>5, AnswerEndsBusy
<1> QED
  BY <1>5, <1>6 DEF BusyInv, Busy, Out

(* The fetch that an answer leaves: the contests that follow those the      *)
(* generator has given so far, to be looked up for the current account.     *)
LEMMA Answered ==
    ASSUME BusyInv, NEW f \in fetches, GetContestsAnswered(f)
    PROVE  \E n \in 0 .. FeedLength, a \in fetches' :
              /\ f.gen \in 1 .. Len(generators) /\ ~ f.answered
              /\ generators[f.gen].next \in 1 .. FeedLength + 1
              /\ generators[f.gen].next + n \in 1 .. FeedLength + 1
              /\ a \in Fetch /\ a.answered /\ a.gen = f.gen /\ a.account = account
              /\ a.astray = f.astray
              /\ a.found = [i \in 1 .. n |-> generators[f.gen].next + i - 1]
              /\ fetches' = (fetches \ {f}) \cup {a}
              /\ generators' \in Seq(Gen(sessions)) /\ Len(generators') = Len(generators)
              /\ \A g \in 1 .. Len(generators) :
                     /\ generators'[g].fetching =
                            IF g = f.gen THEN FALSE ELSE generators[g].fetching
                     /\ generators'[g].next =
                            generators[g].next + IF g = f.gen THEN n ELSE 0
<1> DEFINE next == generators[f.gen].next
           n == Min({f.count, FeedLength - next + 1})
           found == [i \in 1 .. n |-> next + i - 1]
           a == [f EXCEPT !.answered = TRUE, !.account = account, !.found = found,
                          !.loading = n]
           r == [generators[f.gen] EXCEPT !.next = @ + n, !.fetching = FALSE,
                                          !.out = n < f.count]
<1>1. f.gen \in 1 .. Len(generators) /\ ~ f.answered
  BY BusyParts DEF Busy, GetContestsAnswered
<1>2. generators[f.gen] \in Gen(sessions) /\ next \in 1 .. FeedLength + 1
  <2>1. generators[f.gen] \in Gen(sessions)
    BY <1>1, BusyParts, ElementOfSeq
  <2> QED
    BY <2>1 DEF Gen
<1>3. f \in Fetch /\ f.count \in Nat
  BY BusyParts, FeedAssumption DEF Fetch
<1>4. n \in 0 .. FeedLength /\ next + n \in 1 .. FeedLength + 1
  BY <1>2, <1>3, Answerable
<1>5. fetches' = (fetches \ {f}) \cup {a} /\ generators' = [generators EXCEPT ![f.gen] = r]
  BY DEF GetContestsAnswered
<1> HIDE DEF n, next
<1>6. found \in Seq(1 .. FeedLength)
  <2>1. n \in Nat /\ \A i \in 1 .. n : next + i - 1 \in 1 .. FeedLength
    BY <1>2, <1>4, FeedAssumption
  <2> QED
    BY <2>1
<1> HIDE DEF found
<1>7. a \in Fetch /\ a.answered /\ a.gen = f.gen /\ a.account = account
      /\ a.astray = f.astray /\ a.found = found
  <2>1. account \in Accounts
    BY BusyParts
  <2> QED
    BY <1>3, <1>4, <1>6, <2>1 DEF Fetch
<1>8. r \in Gen(sessions) /\ r.fetching = FALSE /\ r.next = next + n
  <2>1. (n < f.count) \in BOOLEAN
    OBVIOUS
  <2> QED
    BY <1>2, <1>4, <2>1 DEF Gen, next
<1> HIDE DEF r, a
<1>9. /\ generators' \in Seq(Gen(sessions)) /\ Len(generators') = Len(generators)
      /\ \A g \in 1 .. Len(generators) :
             generators'[g] = IF g = f.gen THEN r ELSE generators[g]
  BY <1>1, <1>5, <1>8, BusyParts
<1>10. ASSUME NEW g \in 1 .. Len(generators)
       PROVE  /\ generators'[g].fetching = IF g = f.gen THEN FALSE ELSE generators[g].fetching
              /\ generators'[g].next = generators[g].next + IF g = f.gen THEN n ELSE 0
  <2>1. generators[g].next \in Int
    <3>1. generators[g] \in Gen(sessions)
      BY BusyParts, ElementOfSeq
    <3> QED
      BY <3>1, FeedAssumption DEF Gen
  <2>2. g # f.gen => generators'[g] = generators[g]
    BY <1>9
  <2>3. g = f.gen => generators'[g].fetching = FALSE /\ generators'[g].next = generators[g].next + n
    BY <1>8, <1>9 DEF next
  <2>4. g # f.gen => generators'[g].next = generators[g].next + 0
    BY <2>1, <2>2
  <2>5. g # f.gen => generators'[g].fetching = generators[g].fetching
    BY <2>2, Zenon
  <2> QED
    BY <2>3, <2>4, <2>5, Zenon
<1> QED
  BY <1>1, <1>2, <1>4, <1>5, <1>7, <1>9, <1>10 DEF found, next

(* So does one that is answered.                                           *)
LEMMA BusyAnswered ==
    ASSUME BusyInv, NEW f \in fetches, GetContestsAnswered(f)
    PROVE  BusyInv'
<1>1. PICK a \in fetches' :
              /\ f.gen \in 1 .. Len(generators) /\ ~ f.answered
              /\ a \in Fetch /\ a.answered /\ a.gen = f.gen
              /\ fetches' = (fetches \ {f}) \cup {a}
              /\ generators' \in Seq(Gen(sessions)) /\ Len(generators') = Len(generators)
              /\ \A g \in 1 .. Len(generators) :
                     generators'[g].fetching =
                            IF g = f.gen THEN FALSE ELSE generators[g].fetching
  BY Answered
<1>2. TypeOK'
  BY <1>1, BusyParts DEF TypeOK, Gen, Shown, GetContestsAnswered
<1>3. Busy(generators', fetches')
  BY <1>1, BusyParts, AnswerEndsBusy
<1> QED
  BY <1>2, <1>3 DEF BusyInv, Busy, Out

(* Loading the contests of an answer calls nothing.                        *)
LEMMA BusyLoads ==
    ASSUME BusyInv, NEW f \in fetches, ContestLoads(f)
    PROVE  BusyInv'
<1> DEFINE a == [f EXCEPT !.loading = @ - 1, !.astray = @ \/ generator # f.gen]
           add == IF generator = 0 THEN {} ELSE {a}
<1>1. f \in Fetch /\ f.loading > 0 /\ f.answered
  BY BusyParts DEF Busy, ContestLoads, Fetch
<1>2. a \in Fetch /\ a.answered /\ a.gen = f.gen
  <2>1. f.loading - 1 \in 0 .. FeedLength
    BY <1>1, FeedAssumption DEF Fetch
  <2>2. (f.astray \/ generator # f.gen) \in BOOLEAN
    OBVIOUS
  <2> QED
    BY <1>1, <2>1, <2>2 DEF Fetch
<1>3. fetches' = (fetches \ {f}) \cup add
  BY DEF ContestLoads
<1> HIDE DEF a
<1>4. TypeOK'
  BY <1>2, <1>3, BusyParts DEF TypeOK, Gen, Shown, ContestLoads
<1>5. Busy(generators', fetches')
  <2>1. \A x \in add : x.answered /\ x.gen = f.gen
    BY <1>2
  <2>2. generators' = generators
    BY DEF ContestLoads
  <2>3. Busy(generators, fetches)
    BY BusyParts
  <2> HIDE DEF add
  <2> QED
    BY <1>1, <1>3, <2>1, <2>2, <2>3, AnsweredKeepsBusy
<1> QED
  BY <1>4, <1>5 DEF BusyInv, Busy, Out

(* Nor does a contest that cannot be loaded.                               *)
LEMMA BusyContestFails ==
    ASSUME BusyInv, NEW f \in fetches, ContestFails(f)
    PROVE  BusyInv'
<1>1. f \in Fetch /\ f.answered
  BY BusyParts DEF Busy, ContestFails, Fetch
<1>2. TypeOK'
  BY BusyParts DEF TypeOK, Gen, Shown, ContestFails
<1>3. fetches' = (fetches \ {f}) \cup {} /\ generators' = generators
  BY DEF ContestFails
<1>4. Busy(generators', fetches')
  <2>1. PICK add : add = {} /\ fetches' = (fetches \ {f}) \cup add
    BY <1>3
  <2>2. Busy(generators, fetches) /\ \A x \in add : x.answered /\ x.gen = f.gen
    BY <2>1, BusyParts
  <2> QED
    BY <1>1, <1>3, <2>1, <2>2, AnsweredKeepsBusy
<1> QED
  BY <1>2, <1>4 DEF BusyInv, Busy, Out

(* What Deliver adds to the list of the generator the page uses.            *)
LEMMA Delivered ==
    ASSUME BusyInv, NEW f \in fetches, Deliver(f)
    PROVE  /\ f \in Fetch /\ f.answered /\ fetches' = (fetches \ {f}) \cup {}
           /\ contests' \in [own : Seq(Shown), foreign : Nat]
           /\ f.gen # generator => contests'.own = contests.own
           /\ f.gen = generator =>
                 /\ Len(contests'.own) = Len(contests.own) + Len(f.found)
                 /\ \A i \in 1 .. Len(contests.own) : contests'.own[i] = contests.own[i]
                 /\ \A i \in 1 .. Len(f.found) :
                       contests'.own[Len(contests.own) + i] =
                           [contest |-> f.found[i], astray |-> f.astray,
                            account |-> f.account]
<1>1. f \in Fetch /\ f.answered /\ fetches' = (fetches \ {f}) \cup {}
  BY BusyParts DEF Deliver
<1>2. f.found \in Seq(1 .. FeedLength) /\ f.astray \in BOOLEAN /\ f.account \in Accounts
  BY <1>1 DEF Fetch
<1>3. contests \in [own : Seq(Shown), foreign : Nat]
  BY BusyParts
<1>4. CASE f.gen # generator
  <2>1. contests' = [contests EXCEPT !.foreign = @ + Len(f.found)]
    BY <1>4 DEF Deliver
  <2>2. Len(f.found) \in Nat
    BY <1>2
  <2> QED
    BY <1>1, <1>3, <1>4, <2>1, <2>2
<1>5. CASE f.gen = generator
  <2> DEFINE more == [i \in DOMAIN f.found |->
                        [contest |-> f.found[i], astray |-> f.astray, account |-> f.account]]
  <2>1. contests' = [contests EXCEPT !.own = @ \o more]
    BY <1>5 DEF Deliver
  <2>2. more \in Seq(Shown) /\ Len(more) = Len(f.found)
    <3>1. Len(f.found) \in Nat /\ DOMAIN f.found = 1 .. Len(f.found)
      BY <1>2
    <3>2. \A i \in 1 .. Len(f.found) : f.found[i] \in 1 .. FeedLength
      BY <1>2, ElementOfSeq
    <3>3. \A i \in 1 .. Len(f.found) :
             [contest |-> f.found[i], astray |-> f.astray, account |-> f.account] \in Shown
      BY <1>2, <3>2 DEF Shown
    <3> QED
      BY <3>1, <3>3
  <2>3. \A i \in 1 .. Len(f.found) :
           more[i] = [contest |-> f.found[i], astray |-> f.astray, account |-> f.account]
    BY <1>2
  <2> HIDE DEF more
  <2>4. contests.own \in Seq(Shown)
    BY <1>3
  <2>5. contests'.own = contests.own \o more
        /\ contests' \in [own : Seq(Shown), foreign : Nat]
    <3>1. contests.own \o more \in Seq(Shown)
      BY <2>2, <2>4
    <3> QED
      BY <1>3, <2>1, <3>1
  <2>6. /\ Len(contests'.own) = Len(contests.own) + Len(f.found)
        /\ \A i \in 1 .. Len(contests.own) : contests'.own[i] = contests.own[i]
        /\ \A i \in 1 .. Len(f.found) : contests'.own[Len(contests.own) + i] = more[i]
    <3> DEFINE own == contests.own
               joined == own \o more
    <3> HIDE DEF own, joined
    <3>1. /\ Len(joined) = Len(own) + Len(more)
          /\ \A i \in 1 .. Len(own) : joined[i] = own[i]
          /\ \A i \in 1 .. Len(more) : joined[Len(own) + i] = more[i]
      <4>1. own \in Seq(Shown)
        BY <2>4 DEF own
      <4>2. more \in Seq(Shown)
        BY <2>2
      <4> QED
        BY <4>1, <4>2 DEF joined
    <3>2. contests'.own = joined /\ contests.own = own /\ Len(more) = Len(f.found)
      BY <2>2, <2>5 DEF joined, own
    <3> QED
      BY <3>1, <3>2
  <2> HIDE DEF Shown
  <2>7. \A i \in 1 .. Len(f.found) :
           contests'.own[Len(contests.own) + i] =
               [contest |-> f.found[i], astray |-> f.astray, account |-> f.account]
    BY <2>3, <2>6
  <2> QED
    BY <1>1, <1>5, <2>5, <2>6, <2>7, Zenon
<1> QED
  BY <1>4, <1>5

(* A delivery calls nothing either.                                        *)
LEMMA BusyDeliver ==
    ASSUME BusyInv, NEW f \in fetches, Deliver(f)
    PROVE  BusyInv'
<1>1. /\ f.answered /\ fetches' = (fetches \ {f}) \cup {} /\ generators' = generators
      /\ contests' \in [own : Seq(Shown), foreign : Nat]
  BY Delivered DEF Deliver
<1>2. due' \in Nat
  BY BusyParts DEF Deliver
<1>3. TypeOK'
  BY <1>1, <1>2, BusyParts DEF TypeOK, Gen, Shown, Deliver
<1>4. Busy(generators', fetches')
  <2>1. PICK add : add = {} /\ fetches' = (fetches \ {f}) \cup add
    BY <1>1
  <2>2. Busy(generators, fetches) /\ \A x \in add : x.answered /\ x.gen = f.gen
    BY <2>1, BusyParts
  <2> QED
    BY <1>1, <2>1, <2>2, AnsweredKeepsBusy
<1> QED
  BY <1>3, <1>4 DEF BusyInv, Busy, Out

(* loadMore calls a generator only when it is not busy.                    *)
LEMMA BusyLoadMore ==
    ASSUME BusyInv, LoadMore
    PROVE  BusyInv'
<1>1. generator \in 1 .. Len(generators)
  BY BusyParts DEF LoadMore
<1>2. /\ generators' \in Seq(Gen(sessions)) /\ Len(generators') = Len(generators)
      /\ fetches' \subseteq Fetch /\ Busy(generators', fetches') /\ broken' \in BOOLEAN
  BY <1>1, BusyParts, FetchMore DEF LoadMore
<1>3. acts' \in 0 .. MaxActs
  BY BusyParts, FeedAssumption DEF LoadMore
<1>4. TypeOK'
  BY <1>2, <1>3, BusyParts DEF TypeOK, Gen, Shown, LoadMore
<1> QED
  BY <1>2, <1>4 DEF BusyInv, Busy, Out

(* No step makes a generator busy twice.                                   *)
LEMMA BusyStep == BusyInv /\ [Next]_vars => BusyInv'
<1> SUFFICES ASSUME BusyInv, [Next]_vars PROVE BusyInv'
  OBVIOUS
<1>1. CASE CallPopulate
  BY <1>1, BusyParts, BusyPopulates DEF CallPopulate
<1>2. ASSUME NEW f \in fetches, Answer(f) PROVE BusyInv'
  BY <1>2, BusyAnswered, BusyFails, BusyLoads, BusyContestFails, BusyDeliver DEF Answer
<1>3. CASE Refresh
  <2>1. acts' \in 0 .. MaxActs /\ due' \in Nat
    <3>1. acts \in 0 .. MaxActs /\ due \in Nat /\ MaxActs \in Nat
      BY BusyParts, FeedAssumption
    <3> QED
      BY <1>3, <3>1 DEF Refresh, RepopulateContests
  <2>2. broken' = FALSE
    BY <1>3, Zenon DEF Refresh, RepopulateContests
  <2> QED
    BY <1>3, <2>1, <2>2, BusyParts, BusyQuiet DEF Refresh, RepopulateContests
<1>4. ASSUME NEW a \in Accounts, ChangeAccount(a) PROVE BusyInv'
  <2>1. acts' \in 0 .. MaxActs /\ due' \in Nat
    <3>1. acts \in 0 .. MaxActs /\ due \in Nat /\ MaxActs \in Nat
      BY BusyParts, FeedAssumption
    <3> QED
      BY <1>4, <3>1 DEF ChangeAccount, RepopulateContests
  <2>2. broken' = broken \/ broken' = FALSE
    BY <1>4, Zenon DEF ChangeAccount, RepopulateContests
  <2>3. generator' \in {0, generator} /\ contests' \in {Empty, contests}
    BY <1>4 DEF ChangeAccount, RepopulateContests
  <2>4. UNCHANGED <<session, sessions, generators, fetches>> /\ account' \in Accounts
    BY <1>4 DEF ChangeAccount
  <2> QED
    BY <2>1, <2>2, <2>3, <2>4, BusyParts, BusyQuiet
<1>5. CASE LoadMore
  BY <1>5, BusyLoadMore
<1>6. CASE BackendConnected
  BY <1>6, BusyParts, BusyPopulates, FeedAssumption DEF BackendConnected
<1>7. CASE BackendLost
  BY <1>7, BusyParts, BusyQuiet DEF BackendLost
<1>8. CASE UNCHANGED vars
  BY <1>8, BusyParts, BusyQuiet DEF vars
<1> QED
  BY <1>1, <1>2, <1>3, <1>4, <1>5, <1>6, <1>7, <1>8 DEF Next

(* The variables of the page keep their types.                              *)
THEOREM TypeCorrect == Spec => []TypeOK
<1>1. BusyInv => TypeOK
  BY DEF BusyInv
<1> QED
  BY <1>1, BusyInit, BusyStep, PTL DEF Spec

(* A generator says that it is fetching exactly as long as one call of it   *)
(* is out, however many chains, clicks, accounts and connections there are. *)
THEOREM BusyWhileFetchingCorrect == Spec => []BusyWhileFetching
<1>1. BusyInv => BusyWhileFetching
  <2> SUFFICES ASSUME BusyInv, NEW g \in DOMAIN generators
               PROVE  Cardinality(Out(fetches, g))
                          = IF generators[g].fetching THEN 1 ELSE 0
    BY DEF BusyWhileFetching, Out
  <2>1. g \in 1 .. Len(generators)
    BY BusyParts
  <2>2. IF generators[g].fetching THEN \E f : Out(fetches, g) = {f} ELSE Out(fetches, g) = {}
    BY <2>1, BusyParts DEF Busy
  <2> QED
    BY <2>2, FS_EmptySet, FS_Singleton
<1> QED
  BY <1>1, BusyInit, BusyStep, PTL DEF Spec

-----------------------------------------------------------------------------
(* What the page shows of its generator is right.                           *)

(* Fetches end, and calls that have brought nothing yet are made.           *)
LEMMA RightFewer ==
    ASSUME NEW own, NEW fs, NEW acc, NEW next, Right(own, fs, acc, next),
           NEW es, \A f \in es : f \in fs \/ (~ f.answered /\ ~ f.astray /\ f.found = <<>>)
    PROVE  Right(own, es, acc, next)
<1>1. \A f \in es : f \in fs \/ DOMAIN f.found = {}
  <2>1. DOMAIN <<>> = {}
    OBVIOUS
  <2> QED
    BY <2>1
<1>2. Apart(es)
  BY <1>1, Zenon DEF Right, Apart
<1>3. ASSUME NEW f \in es, f \notin fs
      PROVE  Brings(f, own, acc, next)
  BY <1>1, <1>3, Zenon DEF Brings
<1> QED
  BY <1>2, <1>3 DEF Right

(* A fetch becomes one that brings the same.                                *)
LEMMA RightSame ==
    ASSUME NEW own, NEW fs, NEW acc, NEW next, Right(own, fs, acc, next),
           NEW f \in fs, NEW a, ~ a.astray, f.answered, a.answered,
           a.account = f.account, a.found = f.found
    PROVE  Right(own, (fs \ {f}) \cup {a}, acc, next)
<1> DEFINE es == (fs \ {f}) \cup {a}
<1>1. \A x \in es : x = a \/ (x \in fs /\ x # f)
  OBVIOUS
<1>2. a \in es
  OBVIOUS
<1> HIDE DEF es
<1>3. Brings(a, own, acc, next)
  <2>1. Brings(f, own, acc, next)
    BY DEF Right
  <2> QED
    BY <2>1 DEF Brings
<1>4. Apart(es)
  <2> SUFFICES ASSUME NEW x \in es, NEW y \in es, NEW i \in DOMAIN x.found,
                      NEW j \in DOMAIN y.found, x.found[i] = y.found[j]
               PROVE  x = y
    BY Zenon DEF Apart
  <2>1. \A e \in fs : \A k \in DOMAIN e.found, m \in DOMAIN f.found :
            e.found[k] = f.found[m] => e = f
    BY Zenon DEF Right, Apart
  <2>2. CASE x = a /\ y = a
    BY <2>2
  <2>3. CASE x = a /\ y # a
    BY <1>1, <2>1, <2>3
  <2>4. CASE x # a /\ y = a
    BY <1>1, <2>1, <2>4
  <2>5. CASE x # a /\ y # a
    BY <1>1, <2>5, Zenon DEF Right, Apart
  <2> QED
    BY <2>2, <2>3, <2>4, <2>5
<1> QED
  BY <1>1, <1>3, <1>4, Zenon DEF Right, es

(* A call is answered with the n contests that come next.                   *)
LEMMA RightAnswered ==
    ASSUME NEW own \in Seq(Shown), NEW fs, fs \subseteq Fetch, NEW acc,
           NEW next \in 1 .. FeedLength + 1, Right(own, fs, acc, next),
           NEW f \in fs, NEW a, a.answered, ~ a.astray, a.account = acc,
           NEW n \in 0 .. FeedLength, a.found = [i \in 1 .. n |-> next + i - 1]
    PROVE  Right(own, (fs \ {f}) \cup {a}, acc, next + n)
<1> DEFINE es == (fs \ {f}) \cup {a}
<1>1. \A x \in es : x = a \/ x \in fs
  OBVIOUS
<1> HIDE DEF es
<1>2. FeedLength \in Nat /\ n \in Nat /\ next \in Nat /\ next + n \in Nat
  BY FeedAssumption
<1>3. DOMAIN a.found = 1 .. n /\ \A i \in 1 .. n : a.found[i] = next + i - 1
  OBVIOUS
<1>4. \A e \in fs : \A i \in DOMAIN e.found : e.found[i] \in 1 .. FeedLength /\ e.found[i] < next
  <2> SUFFICES ASSUME NEW e \in fs, NEW i \in DOMAIN e.found
               PROVE  e.found[i] \in 1 .. FeedLength /\ e.found[i] < next
    OBVIOUS
  <2>1. e.found \in Seq(1 .. FeedLength)
    <3>1. e \in Fetch
      OBVIOUS
    <3> QED
      BY <3>1 DEF Fetch
  <2>2. e.found[i] \in 1 .. FeedLength
    <3>1. i \in 1 .. Len(e.found)
      BY <2>1
    <3> QED
      BY <2>1, <3>1, ElementOfSeq
  <2> QED
    BY <2>2, Zenon DEF Right, Brings
<1>5. \A i \in DOMAIN own : own[i].contest \in 1 .. FeedLength /\ own[i].contest < next
  <2> SUFFICES ASSUME NEW i \in DOMAIN own
               PROVE  own[i].contest \in 1 .. FeedLength /\ own[i].contest < next
    OBVIOUS
  <2>1. own[i] \in Shown
    OBVIOUS
  <2>2. own[i].contest \in 1 .. FeedLength
    BY <2>1 DEF Shown
  <2> QED
    BY <2>2, Zenon DEF Right, Shows
<1>6. \A m \in 1 .. FeedLength : m < next => m < next + n /\ \A i \in 1 .. n : m # next + i - 1
  BY <1>2
<1>7. Shows(own, acc, next + n)
  BY <1>5, <1>6 DEF Right, Shows
<1>8. Brings(a, own, acc, next + n)
  <2>1. \A i \in DOMAIN a.found :
           /\ a.found[i] < next + n
           /\ \A j \in DOMAIN a.found : a.found[i] = a.found[j] => i = j
    BY <1>2, <1>3
  <2>2. \A i \in DOMAIN a.found : \A j \in DOMAIN own : own[j].contest # a.found[i]
    BY <1>3, <1>5, <1>6
  <2> QED
    BY <2>1, <2>2, Zenon DEF Brings
<1>9. ASSUME NEW e \in fs
      PROVE  Brings(e, own, acc, next + n)
  <2>1. \A i \in DOMAIN e.found : e.found[i] < next + n
    BY <1>4, <1>6
  <2> QED
    BY <2>1, Zenon DEF Right, Brings
<1>10. Apart(es)
  <2> SUFFICES ASSUME NEW x \in es, NEW y \in es, NEW i \in DOMAIN x.found,
                      NEW j \in DOMAIN y.found, x.found[i] = y.found[j]
               PROVE  x = y
    BY Zenon DEF Apart
  <2>1. \A e \in fs : \A k \in DOMAIN e.found, m \in DOMAIN a.found : e.found[k] # a.found[m]
    BY <1>3, <1>4, <1>6
  <2>2. CASE x \in fs /\ y \in fs
    BY <2>2, Zenon DEF Right, Apart
  <2>3. x = a /\ y \in fs => y.found[j] # a.found[i]
    BY <2>1, Zenon
  <2>4. y = a /\ x \in fs => x.found[i] # a.found[j]
    <3> SUFFICES ASSUME y = a, x \in fs PROVE x.found[i] # a.found[j]
      OBVIOUS
    <3>1. j \in DOMAIN a.found
      OBVIOUS
    <3> QED
      BY <2>1, <3>1, Zenon
  <2> QED
    BY <1>1, <2>2, <2>3, <2>4
<1> QED
  BY <1>1, <1>7, <1>8, <1>9, <1>10, Zenon DEF Right, es

(* The contests of a fetch are added to the list.                           *)
LEMMA RightDelivered ==
    ASSUME NEW own \in Seq(Shown), NEW fs, NEW acc, NEW next, Right(own, fs, acc, next),
           NEW f \in fs, f.answered, f.found \in Seq(1 .. FeedLength),
           NEW longer \in Seq(Shown), Len(longer) = Len(own) + Len(f.found),
           \A i \in 1 .. Len(own) : longer[i] = own[i],
           \A i \in 1 .. Len(f.found) :
               longer[Len(own) + i] = [contest |-> f.found[i], astray |-> f.astray,
                                    account |-> f.account]
    PROVE  Right(longer, fs \ {f}, acc, next)
<1>1. DOMAIN own = 1 .. Len(own) /\ DOMAIN f.found = 1 .. Len(f.found)
      /\ DOMAIN longer = 1 .. Len(longer) /\ Len(own) \in Nat /\ Len(f.found) \in Nat
  OBVIOUS
<1>2. ASSUME NEW k \in DOMAIN longer
      PROVE  \/ k \in DOMAIN own
             \/ \E i \in DOMAIN f.found : k = Len(own) + i
  <2>1. k \in Nat /\ 1 <= k /\ k <= Len(own) + Len(f.found)
    BY <1>1
  <2>2. CASE k <= Len(own)
    BY <1>1, <2>1, <2>2
  <2>3. CASE ~ k <= Len(own)
    <3>1. k - Len(own) \in 1 .. Len(f.found) /\ k = Len(own) + (k - Len(own))
      BY <1>1, <2>1, <2>3
    <3> QED
      BY <1>1, <3>1, Zenon
  <2> QED
    BY <2>2, <2>3
<1>3. \A i \in DOMAIN own : /\ longer[i] = own[i] /\ own[i].account = acc /\ ~ own[i].astray
                            /\ own[i].contest < next
  BY <1>1, Zenon DEF Right, Shows
<1>4. \A i \in DOMAIN f.found :
         LET k == Len(own) + i
         IN  /\ longer[k].contest = f.found[i] /\ longer[k].account = acc /\ ~ longer[k].astray
             /\ f.found[i] < next
             /\ \A j \in DOMAIN f.found : f.found[i] = f.found[j] => i = j
             /\ \A j \in DOMAIN own : own[j].contest # f.found[i]
  <2>1. \A i \in DOMAIN f.found :
            /\ longer[Len(own) + i].contest = f.found[i]
            /\ longer[Len(own) + i].account = f.account /\ longer[Len(own) + i].astray = f.astray
    <3> SUFFICES ASSUME NEW i \in 1 .. Len(f.found)
                 PROVE  /\ longer[Len(own) + i].contest = f.found[i]
                        /\ longer[Len(own) + i].account = f.account
                        /\ longer[Len(own) + i].astray = f.astray
      BY <1>1, Zenon
    <3>1. longer[Len(own) + i] = [contest |-> f.found[i], astray |-> f.astray,
                               account |-> f.account]
      BY Zenon
    <3> QED
      BY <3>1
  <2> QED
    BY <2>1, Zenon DEF Right, Brings
<1>5. \A i, j \in DOMAIN own : own[i].contest = own[j].contest => i = j
  BY Zenon DEF Right, Shows
<1>6. Shows(longer, acc, next)
  <2>1. ASSUME NEW k \in DOMAIN longer
        PROVE  longer[k].account = acc /\ ~ longer[k].astray /\ longer[k].contest < next
    BY <1>2, <1>3, <1>4
  <2>2. ASSUME NEW k \in DOMAIN longer, NEW m \in DOMAIN longer, longer[k].contest = longer[m].contest
        PROVE  k = m
    <3>1. CASE k \in DOMAIN own /\ m \in DOMAIN own
      BY <1>3, <1>5, <2>2, <3>1
    <3>2. CASE k \in DOMAIN own /\ m \notin DOMAIN own
      BY <1>2, <1>3, <1>4, <2>2, <3>2
    <3>3. CASE k \notin DOMAIN own /\ m \in DOMAIN own
      BY <1>2, <1>3, <1>4, <2>2, <3>3
    <3>4. CASE k \notin DOMAIN own /\ m \notin DOMAIN own
      BY <1>2, <1>4, <2>2, <3>4
    <3> QED
      BY <3>1, <3>2, <3>3, <3>4
  <2> QED
    BY <2>1, <2>2, Zenon DEF Shows
<1>7. Apart(fs \ {f})
  BY Zenon DEF Right, Apart
<1>8. ASSUME NEW e \in fs \ {f}
      PROVE  Brings(e, longer, acc, next)
  <2>1. Brings(e, own, acc, next)
    BY DEF Right
  <2>2. \A i \in DOMAIN e.found, j \in DOMAIN f.found : e.found[i] # f.found[j]
    BY Zenon DEF Right, Apart
  <2>3. \A i \in DOMAIN e.found, k \in DOMAIN longer : longer[k].contest # e.found[i]
    <3> SUFFICES ASSUME NEW i \in DOMAIN e.found, NEW k \in DOMAIN longer
                 PROVE  longer[k].contest # e.found[i]
      OBVIOUS
    <3>1. \A j \in DOMAIN own : own[j].contest # e.found[i]
      BY <2>1, Zenon DEF Brings
    <3> QED
      BY <1>2, <1>3, <1>4, <2>2, <3>1
  <2> QED
    BY <2>1, <2>3, Zenon DEF Brings
<1> QED
  BY <1>6, <1>7, <1>8, Zenon DEF Right

(* Initially every list is empty.                                          *)
LEMMA RightInit == Init => RightInv
  BY DEF Init, RightInv, Empty

(* A step that only empties the page, or that leaves it alone.              *)
LEMMA RightQuiet ==
    ASSUME RightInv, UNCHANGED <<generators, fetches>>,
           \/ generator' = 0 /\ contests' = Empty
           \/ UNCHANGED <<generator, contests>> /\ (generator = 0 \/ account' = account)
    PROVE  RightInv'
<1>1. CASE generator' = 0 /\ contests' = Empty
  BY <1>1 DEF RightInv, Empty
<1>2. CASE UNCHANGED <<generator, contests>> /\ generator = 0
  BY <1>2 DEF RightInv
<1>3. CASE UNCHANGED <<generator, contests, account>>
  BY <1>3 DEF RightInv
<1> QED
  BY <1>1, <1>2, <1>3

(* A list that is populated anew is empty, and so is what its generator    *)
(* has found.                                                              *)
LEMMA RightPopulates ==
    ASSUME BusyInv, RightInv, NEW s \in 0 .. sessions', sessions' \in Nat,
           sessions <= sessions', PopulateContests(s), UNCHANGED <<account, contests>>
    PROVE  RightInv'
<1>1. /\ \A f \in fetches' : f \in fetches \/ (~ f.answered /\ ~ f.astray /\ f.found = <<>>)
      /\ \/ /\ generator' = generator
            /\ \A h \in 1 .. Len(generators) : generators'[h].next = generators[h].next
         \/ generator = 0 /\ generator' = Len(generators) + 1
  BY Populate
<1>2. Len(generators) \in Nat /\ \A f \in fetches : f.gen \in 1 .. Len(generators)
  BY BusyParts DEF Busy
<1>3. CASE generator' = 0
  BY <1>1, <1>2, <1>3 DEF RightInv
<1>4. CASE generator' # 0 /\ generator' = generator
  <2>1. \A f \in Of(fetches', generator) :
            f \in Of(fetches, generator) \/ (~ f.answered /\ ~ f.astray /\ f.found = <<>>)
    BY <1>1, Zenon DEF Of
  <2>2. Right(contests.own, Of(fetches', generator), account, generators[generator].next)
    BY <1>4, <2>1, RightFewer DEF RightInv
  <2>3. generators'[generator].next = generators[generator].next
    BY <1>1, <1>2, <1>4, BusyParts
  <2> QED
    BY <1>4, <2>2, <2>3 DEF RightInv
<1>5. CASE generator' # 0 /\ generator' # generator
  <2>1. generator = 0 /\ generator' = Len(generators) + 1
    BY <1>1, <1>5
  <2>2. contests'.own = <<>>
    BY <2>1 DEF RightInv
  <2>3. \A f \in Of(fetches', generator') : ~ f.answered /\ ~ f.astray /\ f.found = <<>>
    BY <1>1, <1>2, <2>1 DEF Of
  <2>4. Right(<<>>, {}, account', generators'[generator'].next)
    BY DEF Right, Shows, Apart
  <2>5. Right(<<>>, Of(fetches', generator'), account', generators'[generator'].next)
    BY <2>3, <2>4, RightFewer
  <2> QED
    BY <1>5, <2>2, <2>5 DEF RightInv
<1> QED
  BY <1>3, <1>4, <1>5

(* A call that fails brings nothing.                                       *)
LEMMA RightFails ==
    ASSUME BusyInv, RightInv, NEW f \in fetches, GetContestsFails(f)
    PROVE  RightInv'
<1>1. UNCHANGED <<account, generator, contests>>
      /\ generators' = [generators EXCEPT ![f.gen].fetching = FALSE]
      /\ fetches' = fetches \ {f}
  BY DEF GetContestsFails
<1>2. CASE generator = 0
  BY <1>1, <1>2 DEF RightInv
<1>3. CASE generator # 0
  <2>1. generators'[generator].next = generators[generator].next
    <3>1. generator \in 1 .. Len(generators) /\ generators \in Seq(Gen(sessions))
      BY <1>3, BusyParts
    <3>2. generators[generator] \in Gen(sessions)
      BY <3>1, ElementOfSeq
    <3> QED
      BY <1>1, <3>1, <3>2 DEF Gen
  <2>2. Of(fetches', generator) \subseteq Of(fetches, generator)
    BY <1>1 DEF Of
  <2>3. Right(contests.own, Of(fetches', generator), account, generators[generator].next)
    BY <1>3, <2>2, RightFewer DEF RightInv
  <2> QED
    BY <1>1, <1>3, <2>1, <2>3 DEF RightInv
<1> QED
  BY <1>2, <1>3

(* The contests of an answer are those that follow what was given before.  *)
LEMMA RightGetsContests ==
    ASSUME BusyInv, RightInv, NEW f \in fetches, GetContestsAnswered(f)
    PROVE  RightInv'
<1>1. PICK n \in 0 .. FeedLength, a \in fetches' :
              /\ f.gen \in 1 .. Len(generators)
              /\ generators[f.gen].next \in 1 .. FeedLength + 1
              /\ a \in Fetch /\ a.answered /\ a.gen = f.gen /\ a.account = account
              /\ a.astray = f.astray
              /\ a.found = [i \in 1 .. n |-> generators[f.gen].next + i - 1]
              /\ fetches' = (fetches \ {f}) \cup {a}
              /\ \A g \in 1 .. Len(generators) :
                     generators'[g].next = generators[g].next + IF g = f.gen THEN n ELSE 0
  BY Answered
<1>2. UNCHANGED <<account, generator, contests>>
  BY DEF GetContestsAnswered
<1>3. CASE generator = 0
  BY <1>2, <1>3 DEF RightInv
<1>4. CASE generator # 0 /\ f.gen # generator
  <2>1. Of(fetches', generator) = Of(fetches, generator)
    BY <1>1, <1>4 DEF Of
  <2>2. generators'[generator].next = generators[generator].next
    <3>1. generator \in 1 .. Len(generators) /\ generators \in Seq(Gen(sessions))
      BY <1>4, BusyParts
    <3>2. generators[generator].next \in Int
      <4>1. generators[generator] \in Gen(sessions)
        BY <3>1, ElementOfSeq
      <4> QED
        BY <4>1, FeedAssumption DEF Gen
    <3> QED
      BY <1>1, <1>4, <3>1, <3>2
  <2> QED
    BY <1>2, <1>4, <2>1, <2>2 DEF RightInv
<1>5. CASE generator # 0 /\ f.gen = generator
  <2> DEFINE fs == Of(fetches, generator)
             next == generators[generator].next
  <2>1. f \in fs /\ fs \subseteq Fetch /\ contests.own \in Seq(Shown)
    BY <1>5, BusyParts DEF Of
  <2>2. Right(contests.own, fs, account, next)
    BY <1>5 DEF RightInv
  <2>3. ~ a.astray
    <3>1. ~ f.astray
      BY <2>1, <2>2, Zenon DEF Right, Brings
    <3> QED
      BY <1>1, <3>1
  <2>4. next \in 1 .. FeedLength + 1 /\ a.found = [i \in 1 .. n |-> next + i - 1]
    BY <1>1, <1>5
  <2>5. Of(fetches', generator) = (fs \ {f}) \cup {a}
    BY <1>1, <1>5 DEF Of
  <2>6. generators'[generator].next = next + n
    BY <1>1, <1>5
  <2> HIDE DEF fs, next
  <2>7. Right(contests.own, (fs \ {f}) \cup {a}, account, next + n)
    BY <1>1, <2>1, <2>2, <2>3, <2>4, RightAnswered
  <2> QED
    BY <1>2, <1>5, <2>5, <2>6, <2>7 DEF RightInv
<1> QED
  BY <1>3, <1>4, <1>5

(* A contest that is loaded for the generator of the page does not go      *)
(* astray.                                                                 *)
LEMMA RightLoads ==
    ASSUME BusyInv, RightInv, NEW f \in fetches, ContestLoads(f)
    PROVE  RightInv'
<1> DEFINE a == [f EXCEPT !.loading = @ - 1, !.astray = @ \/ generator # f.gen]
<1>1. UNCHANGED <<account, generator, contests, generators>>
  BY DEF ContestLoads
<1>2. CASE generator = 0
  BY <1>1, <1>2 DEF RightInv
<1>3. CASE generator # 0
  <2>1. fetches' = (fetches \ {f}) \cup {a}
    BY <1>3 DEF ContestLoads
  <2>2. f \in Fetch /\ f.answered
    BY BusyParts DEF Busy, ContestLoads, Fetch
  <2>3. a.answered /\ a.account = f.account /\ a.found = f.found /\ a.gen = f.gen
        /\ a.astray = (f.astray \/ generator # f.gen)
    BY <2>2 DEF Fetch
  <2> HIDE DEF a
  <2>4. CASE f.gen # generator
    <3>1. Of(fetches', generator) = Of(fetches, generator)
      BY <2>1, <2>3, <2>4 DEF Of
    <3> QED
      BY <1>1, <1>3, <3>1 DEF RightInv
  <2>5. CASE f.gen = generator
    <3>1. Of(fetches', generator) = (Of(fetches, generator) \ {f}) \cup {a}
          /\ f \in Of(fetches, generator)
      BY <2>1, <2>3, <2>5 DEF Of
    <3>2. Right(contests.own, Of(fetches, generator), account, generators[generator].next)
      BY <1>3 DEF RightInv
    <3>3. ~ a.astray
      <4>1. ~ f.astray
        BY <3>1, <3>2, Zenon DEF Right, Brings
      <4> QED
        BY <2>3, <2>5, <4>1
    <3>4. Right(contests.own, Of(fetches', generator), account, generators[generator].next)
      BY <2>2, <2>3, <3>1, <3>2, <3>3, RightSame
    <3> QED
      BY <1>1, <1>3, <3>4 DEF RightInv
  <2> QED
    BY <2>4, <2>5
<1> QED
  BY <1>2, <1>3

(* A fetch ends that adds nothing to the list of the page's generator.      *)
LEMMA RightEnds ==
    ASSUME RightInv, UNCHANGED <<account, generator, generators>>,
           contests'.own = contests.own, fetches' \subseteq fetches
    PROVE  RightInv'
<1>1. CASE generator = 0
  BY <1>1 DEF RightInv
<1>2. CASE generator # 0
  <2>1. Of(fetches', generator) \subseteq Of(fetches, generator)
    BY DEF Of
  <2>2. Right(contests.own, Of(fetches', generator), account, generators[generator].next)
    BY <1>2, <2>1, RightFewer DEF RightInv
  <2> QED
    BY <1>2, <2>2 DEF RightInv
<1> QED
  BY <1>1, <1>2

(* What is delivered was not in the list, and belongs to its account.      *)
LEMMA RightDelivers ==
    ASSUME BusyInv, RightInv, NEW f \in fetches, Deliver(f)
    PROVE  RightInv'
<1>1. UNCHANGED <<account, generator, generators>> /\ fetches' = fetches \ {f}
  BY DEF Deliver
<1>2. f.answered /\ f.gen \in 1 .. Len(generators)
  BY BusyParts DEF Busy, Deliver
<1>3. CASE f.gen # generator
  BY <1>1, <1>3, Delivered, RightEnds
<1>4. CASE f.gen = generator
  <2> DEFINE own == contests.own
             longer == contests'.own
  <2>1. f.found \in Seq(1 .. FeedLength) /\ own \in Seq(Shown) /\ longer \in Seq(Shown)
    <3>1. f \in Fetch /\ contests' \in [own : Seq(Shown), foreign : Nat]
      BY Delivered
    <3> QED
      BY <3>1, BusyParts DEF Fetch
  <2>2. generator # 0
    BY <1>2, <1>4, BusyParts
  <2>3. Right(own, Of(fetches, generator), account, generators[generator].next)
    BY <2>2 DEF RightInv
  <2>4. f \in Of(fetches, generator)
        /\ Of(fetches', generator) = Of(fetches, generator) \ {f}
    BY <1>1, <1>4 DEF Of
  <2>5. /\ Len(longer) = Len(own) + Len(f.found)
        /\ \A i \in 1 .. Len(own) : longer[i] = own[i]
        /\ \A i \in 1 .. Len(f.found) :
              longer[Len(own) + i] = [contest |-> f.found[i], astray |-> f.astray,
                                   account |-> f.account]
    BY <1>4, Delivered
  <2> HIDE DEF own, longer
  <2>6. Right(longer, Of(fetches, generator) \ {f}, account, generators[generator].next)
    BY <1>2, <2>1, <2>3, <2>4, <2>5, RightDelivered
  <2> QED
    BY <1>1, <2>2, <2>4, <2>6 DEF RightInv, longer
<1> QED
  BY <1>3, <1>4

(* Asking for more shows nothing new.                                      *)
LEMMA RightLoadMore ==
    ASSUME BusyInv, RightInv, LoadMore
    PROVE  RightInv'
<1>1. generator \in 1 .. Len(generators) /\ generator # 0
  BY BusyParts DEF LoadMore
<1>2. UNCHANGED <<account, generator, contests>>
  BY DEF LoadMore
<1>3. /\ generators'[generator].next = generators[generator].next
      /\ \A f \in fetches' : f \in fetches \/ (~ f.answered /\ ~ f.astray /\ f.found = <<>>)
  <2>1. FetchMoreContests("more", More, generators, generator)
    BY DEF LoadMore
  <2>2. sessions \in Nat /\ generators \in Seq(Gen(sessions)) /\ fetches \subseteq Fetch
        /\ Busy(generators, fetches) /\ broken \in BOOLEAN
    BY BusyParts
  <2> QED
    BY <1>1, <2>1, <2>2, FetchMore
<1>4. \A f \in Of(fetches', generator) :
          f \in Of(fetches, generator) \/ (~ f.answered /\ ~ f.astray /\ f.found = <<>>)
  BY <1>3, Zenon DEF Of
<1>5. Right(contests.own, Of(fetches', generator), account, generators[generator].next)
  BY <1>1, <1>4, RightFewer DEF RightInv
<1> QED
  BY <1>1, <1>2, <1>3, <1>5 DEF RightInv

(* No step shows a contest twice or to another account.                    *)
LEMMA RightStep == BusyInv /\ RightInv /\ [Next]_vars => RightInv'
<1> SUFFICES ASSUME BusyInv, RightInv, [Next]_vars PROVE RightInv'
  OBVIOUS
<1>1. CASE CallPopulate
  BY <1>1, BusyParts, RightPopulates DEF CallPopulate
<1>2. ASSUME NEW f \in fetches, Answer(f) PROVE RightInv'
  <2>1. CASE ContestFails(f)
    BY <2>1, RightEnds DEF ContestFails
  <2> QED
    BY <1>2, <2>1, RightGetsContests, RightFails, RightLoads, RightDelivers DEF Answer
<1>3. CASE Refresh
  BY <1>3, RightQuiet DEF Refresh, RepopulateContests
<1>4. ASSUME NEW a \in Accounts, ChangeAccount(a) PROVE RightInv'
  BY <1>4, RightQuiet DEF ChangeAccount, RepopulateContests
<1>5. CASE LoadMore
  BY <1>5, RightLoadMore
<1>6. CASE BackendConnected
  BY <1>6, BusyParts, RightPopulates DEF BackendConnected
<1>7. CASE BackendLost
  BY <1>7, RightQuiet DEF BackendLost
<1>8. CASE UNCHANGED vars
  BY <1>8, RightQuiet DEF vars
<1> QED
  BY <1>1, <1>2, <1>3, <1>4, <1>5, <1>6, <1>7, <1>8 DEF Next

(* However fetches of several generators overlap, what came from the        *)
(* generator the page uses is there once and for the current account.       *)
THEOREM CurrentContestsRightCorrect == Spec => []CurrentContestsRight
<1>1. RightInv => CurrentContestsRight
  <2>1. contests.own = <<>> => CurrentContestsRight
    BY DEF CurrentContestsRight
  <2>2. Shows(contests.own, account, generators[generator].next) => CurrentContestsRight
    BY Zenon DEF Shows, CurrentContestsRight
  <2> QED
    BY <2>1, <2>2 DEF RightInv, Right
<1>2. Init => BusyInv /\ RightInv
  BY BusyInit, RightInit
<1>3. BusyInv /\ RightInv /\ [Next]_vars => (BusyInv /\ RightInv)'
  BY BusyStep, RightStep
<1> QED
  BY <1>1, <1>2, <1>3, PTL DEF Spec

-----------------------------------------------------------------------------
(* The search.                                                             *)

(* What the index holds, and what a generator is.                          *)
Published == [creator : Nat, coin : Nat, words : SUBSET Words, start : Nat, end : Nat]

SearchType ==
    /\ now \in Nat /\ contestIndex \in Seq(Published) /\ out \in BOOLEAN
    /\ returned \in Seq(Nat) /\ ToSet(returned) \subseteq Ids
    /\ owed \subseteq {id \in Ids : isActive(id)} /\ votesThen \subseteq votes
    /\ IF gen = None THEN returned = <<>> /\ ~ out
       ELSE /\ gen \in Generators /\ {gen.current, gen.brokeAt} \subseteq Ids \cup {None}
            /\ IF gen.index = "ByStartTime" THEN gen.filters = <<>> ELSE gen.filters \in Searches

(* What was returned is in the order of the index, before what is to come. *)
InIndexOrder(s, index) ==
    \A i, j \in DOMAIN s : i < j => Before(index, s[i], s[j])

Walked ==
    gen # None =>
        /\ InIndexOrder(returned, gen.index)
        /\ gen.current # None => \A id \in ToSet(returned) : Before(gen.index, id, gen.current)
        /\ gen.brokeAt # None \/ out => gen.current = None

(* What is wanted and has not been returned is still to come.              *)
Complete ==
    /\ gen # None
    /\ gen.index = "ByStartTime" \/ Intended(gen.filters)
    /\ gen.brokeAt = None
    => \A id \in owed : Wanted(gen.filters, id, votesThen) =>
           \/ id \in ToSet(returned)
           \/ gen.current # None /\ ~ Before(gen.index, id, gen.current)

(* The filters that can break ask for the value a.                         *)
Named(filters, index, a) ==
    /\ \E i \in DOMAIN filters : FilterIndex(filters[i]) = index
    /\ \A i \in DOMAIN filters : FilterIndex(filters[i]) = index => filters[i].args[1] = a

(* The walk begins at that value, and a break is beyond it.                *)
Beyond ==
    gen # None => \A a \in Nat : Named(gen.filters, gen.index, a) =>
        /\ gen.current # None => a <= Key(gen.index, gen.current)
        /\ gen.brokeAt # None => a < Key(gen.index, gen.brokeAt)

(* Only a filter of the index's field breaks a search.                     *)
BreaksOwn ==
    gen # None /\ gen.brokeAt # None =>
        \E i \in DOMAIN gen.filters : FilterIndex(gen.filters[i]) = gen.index

SearchInv == SearchType /\ Walked /\ Complete /\ Beyond /\ BreaksOwn

-----------------------------------------------------------------------------
(* The index.                                                              *)

(* The key of an index is a number.                                        *)
LEMMA KeyType ==
    ASSUME contestIndex \in Seq(Published), NEW index \in Indexes, NEW id \in Ids
    PROVE  Key(index, id) \in Nat /\ id \in Nat
<1>1. contestIndex[id] \in Published /\ id \in Nat
  BY DEF Ids
<1> QED
  BY <1>1 DEF Key, Published, Indexes

KeyOf(index) == [id \in Ids |-> Key(index, id)]

(* The order of an index is an order by its keys.                          *)
LEMMA KeyOfType ==
    ASSUME contestIndex \in Seq(Published), NEW index \in Indexes
    PROVE  /\ KeyOf(index) \in [Ids -> Nat] /\ Ids \subseteq Nat /\ IsFiniteSet(Ids)
           /\ \A a, b \in Ids : Earlier(KeyOf(index), a, b) <=> Before(index, a, b)
<1>1. Ids \subseteq Nat /\ IsFiniteSet(Ids)
  <2>1. Ids = 1 .. Len(contestIndex) /\ Len(contestIndex) \in Nat
    BY DEF Ids
  <2> QED
    BY <2>1, FS_Interval
<1>2. KeyOf(index) \in [Ids -> Nat]
  BY KeyType DEF KeyOf
<1>3. \A a, b \in Ids : Earlier(KeyOf(index), a, b) <=> Before(index, a, b)
  BY DEF KeyOf, Earlier, Before
<1> QED
  BY <1>1, <1>2, <1>3

(* It is totally ordered.                                                  *)
LEMMA BeforeTotal ==
    ASSUME contestIndex \in Seq(Published), NEW index \in Indexes
    PROVE  /\ \A a, b \in Ids : a # b => Before(index, a, b) \/ Before(index, b, a)
           /\ \A a, b \in Ids : Before(index, a, b) => a # b /\ ~ Before(index, b, a)
           /\ \A a, b, c \in Ids : Before(index, a, b) /\ Before(index, b, c) => Before(index, a, c)
<1> DEFINE key == KeyOf(index)
<1>1. key \in [Ids -> Nat] /\ Ids \subseteq Nat
      /\ \A a, b \in Ids : Earlier(key, a, b) <=> Before(index, a, b)
  BY KeyOfType
<1> HIDE DEF key
<1>2. /\ \A x, y \in Ids : x # y => Earlier(key, x, y) \/ Earlier(key, y, x)
      /\ \A x, y \in Ids : Earlier(key, x, y) => x # y /\ ~ Earlier(key, y, x)
      /\ \A x, y, z \in Ids : Earlier(key, x, y) /\ Earlier(key, y, z) => Earlier(key, x, z)
  BY <1>1, EarlierTotal
<1> QED
  BY <1>1, <1>2

(* The first contest of a part of it is there, and none is before it.      *)
LEMMA FirstIs ==
    ASSUME contestIndex \in Seq(Published), NEW index \in Indexes, NEW S \in SUBSET Ids
    PROVE  /\ S = {} => First(index, S) = None
           /\ S # {} => /\ First(index, S) \in S /\ First(index, S) # None
                        /\ \A k \in S : ~ Before(index, k, First(index, S))
<1>1. Ids \subseteq Nat
  BY KeyOfType
<1>2. ASSUME S # {}
      PROVE  \E k \in S : \A j \in S : ~ Before(index, j, k)
  <2> DEFINE key == [k \in S |-> KeyOf(index)[k]]
  <2>1. key \in [S -> Nat] /\ S \subseteq Nat
        /\ \A a, b \in S : Earlier(key, a, b) <=> Before(index, a, b)
    BY KeyOfType DEF Earlier
  <2> HIDE DEF key
  <2>2. PICK k \in S : \A j \in S : k # j => Earlier(key, k, j)
    BY <1>2, <2>1, FirstExists
  <2>3. \A j \in S : k # j => Before(index, k, j)
    BY <2>1, <2>2
  <2> QED
    BY <2>3, BeforeTotal
<1>3. ASSUME S # {}
      PROVE  First(index, S) \in S /\ \A j \in S : ~ Before(index, j, First(index, S))
  <2>1. First(index, S) = CHOOSE k \in S : \A j \in S : ~ Before(index, j, k)
    BY <1>3 DEF First
  <2> QED
    BY <1>2, <1>3, <2>1
<1>4. S = {} => First(index, S) = None
  BY DEF First
<1> QED
  BY <1>1, <1>3, <1>4, ContestSearchAssumption

(* Numbers in the order of their keys are all of them.                     *)
LEMMA OrderedAll ==
    ASSUME NEW S, S \subseteq Nat, IsFiniteSet(S), NEW key \in [S -> Nat],
           NEW s, Ordered(s, key, S)
    PROVE  s \in Seq(S) /\ ToSet(s) = S
<1>1. s \in Seq(S)
  BY OrderedIs, Zenon
<1>2. Covers(s, S)
  BY OrderedIs, Zenon
<1>3. DOMAIN s = 1 .. Len(s) /\ \A i \in 1 .. Len(s) : s[i] \in S
  BY <1>1
<1>4. {s[i] : i \in DOMAIN s} = S
  BY <1>2, <1>3 DEF Covers
<1> QED
  BY <1>1, <1>4 DEF ToSet

(* A part of it in order.                                                  *)
LEMMA InOrderIs ==
    ASSUME contestIndex \in Seq(Published), NEW index \in Indexes, NEW S \in SUBSET Ids
    PROVE  /\ InOrder(index, S) \in Seq(S) /\ ToSet(InOrder(index, S)) = S
           /\ InIndexOrder(InOrder(index, S), index)
<1> DEFINE key == [k \in S |-> KeyOf(index)[k]]
<1>1. key \in [S -> Nat] /\ S \subseteq Nat /\ IsFiniteSet(S)
      /\ \A a, b \in S : Earlier(key, a, b) <=> Before(index, a, b)
  BY KeyOfType, FS_Subset DEF Earlier
<1> HIDE DEF key
<1>2. \A s \in [1 .. Cardinality(S) -> S] :
          Ordered(s, key, S) <=> \A i, j \in DOMAIN s : i < j => Before(index, s[i], s[j])
  BY <1>1 DEF Ordered
<1>3. \E s \in [1 .. Cardinality(S) -> S] : \A i, j \in DOMAIN s : i < j => Before(index, s[i], s[j])
  <2>1. PICK s : Ordered(s, key, S)
    BY <1>1, OrderExists
  <2> QED
    BY <1>2, <2>1 DEF Ordered
<1> DEFINE s == InOrder(index, S)
<1>4. s \in [1 .. Cardinality(S) -> S] /\ \A i, j \in DOMAIN s : i < j => Before(index, s[i], s[j])
  BY <1>3 DEF InOrder
<1>5. Ordered(s, key, S)
  BY <1>2, <1>4
<1> HIDE DEF s
<1>6. s \in Seq(S) /\ ToSet(s) = S
  BY <1>1, <1>5, OrderedAll, Zenon
<1> QED
  BY <1>4, <1>6 DEF s, InIndexOrder

-----------------------------------------------------------------------------
(* A walk.                                                                 *)

Walks(w, count) ==
    /\ w.found \in Seq(Rest) /\ InIndexOrder(w.found, gen.index)
    /\ w.next # None =>
          w.next \in Rest /\ \A k \in ToSet(w.found) : Before(gen.index, k, w.next)
    /\ Len(w.found) < count => w.next = None
    /\ w.broke = None =>
          \A k \in Filtered("Accept") :
              k \in ToSet(w.found) \/ (w.next # None /\ ~ Before(gen.index, k, w.next))
    /\ w.broke # None => w.broke \in Filtered("Break")

(* Walk's contests are the accepted ones up to the count, none of them     *)
(* beyond a break.                                                         *)
LEMMA WalkIs ==
    ASSUME contestIndex \in Seq(Published), gen.index \in Indexes, gen.current \in Ids,
           NEW count \in Nat \ {0}
    PROVE  Walks(Walk(count), count)
<1> DEFINE index == gen.index
           stop == First(index, Filtered("Break"))
           S == {k \in Filtered("Accept") : stop # None => Before(index, k, stop)}
           good == InOrder(index, S)
           full == Len(good) >= count
           T == {k \in Rest : Before(index, good[count], k)}
           w == Walk(count)
<1>0. index \in Indexes
  OBVIOUS
<1>1. Rest \subseteq Ids /\ Filtered("Break") \subseteq Rest /\ Filtered("Accept") \subseteq Rest
      /\ S \subseteq Filtered("Accept") /\ T \subseteq Rest
  BY DEF Rest, Filtered
<1>2. w = [found |-> IF full THEN SubSeq(good, 1, count) ELSE good,
           broke |-> IF full THEN None ELSE stop,
           next |-> IF full THEN First(index, T) ELSE None]
  BY Zenon DEF Walk
<1>3. \A a, b \in Ids : (a # b => Before(index, a, b) \/ Before(index, b, a))
                        /\ (Before(index, a, b) => a # b /\ ~ Before(index, b, a))
  BY <1>0, BeforeTotal
<1>4. \A a, b, c \in Ids : Before(index, a, b) /\ Before(index, b, c) => Before(index, a, c)
  BY <1>0, BeforeTotal
<1>5. stop # None => stop \in Filtered("Break")
  <2>1. Filtered("Break") \in SUBSET Ids
    BY <1>1
  <2> QED
    BY <1>0, <2>1, FirstIs
<1>6. good \in Seq(S) /\ ToSet(good) = S /\ InIndexOrder(good, index)
  <2>1. S \in SUBSET Ids
    BY <1>1
  <2> HIDE DEF S, index
  <2> QED
    BY <1>0, <2>1, InOrderIs
<1>7. (T = {} => First(index, T) = None)
      /\ (T # {} => First(index, T) \in T /\ First(index, T) # None
                    /\ \A k \in T : ~ Before(index, k, First(index, T)))
  <2>1. T \in SUBSET Ids
    BY <1>1
  <2> HIDE DEF T, index
  <2> QED
    BY <1>0, <2>1, FirstIs
<1>8. \A k \in S : k \in Filtered("Accept") /\ k \in Ids /\ k \in Rest
                   /\ (stop # None => Before(index, k, stop))
  BY <1>1
<1>9. \A k \in Filtered("Accept") : (stop # None => Before(index, k, stop)) => k \in S
  OBVIOUS
<1>10. \A k \in Rest : k \in T <=> Before(index, good[count], k)
  OBVIOUS
<1> HIDE DEF w, T, S, good, stop
<1>a. CASE full
  <2>1. w.found = SubSeq(good, 1, count) /\ w.broke = None /\ w.next = First(index, T)
    BY <1>2, <1>a
  <2>2. count \in Nat /\ 1 <= count /\ count <= Len(good) /\ Len(good) \in Nat /\ DOMAIN good = 1 .. Len(good)
    BY <1>6, <1>a
  <2>3. w.found \in Seq(S) /\ Len(w.found) = count /\ \A i \in 1 .. count : w.found[i] = good[i]
    BY <1>6, <2>1, <2>2
  <2>4. DOMAIN w.found = 1 .. count /\ \A i \in 1 .. count : i \in 1 .. Len(good)
    BY <2>2, <2>3
  <2>5. InIndexOrder(w.found, index)
    BY <1>6, <2>2, <2>3, <2>4 DEF InIndexOrder
  <2>6. good[count] \in S /\ good[count] \in Ids
    BY <1>6, <1>8, <2>2
  <2>7. \A k \in ToSet(w.found) : k = good[count] \/ Before(index, k, good[count])
    <3> TAKE k \in ToSet(w.found)
    <3>1. PICK i \in 1 .. count : k = good[i]
      BY <2>3, <2>4 DEF ToSet
    <3>2. i = count \/ i < count
      BY <2>2
    <3> QED
      BY <1>6, <2>2, <2>4, <3>1, <3>2 DEF InIndexOrder
  <2>8. w.next # None => w.next \in Rest /\ \A k \in ToSet(w.found) : Before(index, k, w.next)
    <3> SUFFICES ASSUME w.next # None
                 PROVE  w.next \in Rest /\ \A k \in ToSet(w.found) : Before(index, k, w.next)
      OBVIOUS
    <3>1. w.next \in T /\ w.next \in Rest /\ w.next \in Ids
      BY <1>1, <1>7, <2>1
    <3>2. Before(index, good[count], w.next)
      BY <1>10, <3>1
    <3>3. \A k \in ToSet(w.found) : k \in Ids
      BY <1>8, <2>3, <2>4 DEF ToSet
    <3> QED
      BY <1>4, <2>6, <2>7, <3>1, <3>2, <3>3
  <2>9. ASSUME NEW k \in Filtered("Accept")
        PROVE  k \in ToSet(w.found) \/ (w.next # None /\ ~ Before(index, k, w.next))
    <3>0. k \in Rest /\ k \in Ids
      BY <1>1
    <3>1. SUFFICES ASSUME k \notin ToSet(w.found) PROVE k \in T
      BY <1>7, <2>1
    <3>2. CASE k \in S
      <4>1. PICK i \in 1 .. Len(good) : k = good[i]
        BY <1>6, <2>2, <3>2 DEF ToSet
      <4>2. ~ (i \in 1 .. count)
        <5> SUFFICES ASSUME i \in 1 .. count PROVE FALSE
          OBVIOUS
        <5> QED
          BY <2>3, <2>4, <3>1, <4>1 DEF ToSet
      <4>3. count < i
        BY <2>2, <4>2
      <4> QED
        BY <1>6, <1>10, <2>2, <3>0, <4>1, <4>3 DEF InIndexOrder
    <3>3. CASE k \notin S
      <4>1. stop # None /\ ~ Before(index, k, stop)
        BY <1>9, <3>3
      <4>2. stop \in Ids /\ Before(index, good[count], stop)
        BY <1>1, <1>5, <1>8, <2>6, <4>1
      <4>3. k = stop \/ Before(index, stop, k)
        BY <1>3, <3>0, <4>1, <4>2
      <4> QED
        BY <1>4, <1>10, <2>6, <3>0, <4>2, <4>3
    <3> QED
      BY <3>2, <3>3
  <2>10. w.found \in Seq(Rest) /\ ~ (Len(w.found) < count)
    BY <1>8, <2>2, <2>3
  <2>11. Walks(w, count)
    BY <2>1, <2>5, <2>8, <2>9, <2>10, Zenon DEF Walks
  <2> QED
    BY <2>11 DEF w
<1>b. CASE ~ full
  <2>1. w.found = good /\ w.broke = stop /\ w.next = None
    BY <1>2, <1>b
  <2>2. good \in Seq(Rest)
    BY <1>6, <1>8
  <2>3. stop = None => \A k \in Filtered("Accept") : k \in ToSet(good)
    BY <1>6, <1>9
  <2>4. Walks(w, count)
    BY <1>5, <1>6, <2>1, <2>2, <2>3, Zenon DEF Walks
  <2> QED
    BY <2>4 DEF w
<1> QED
  BY <1>a, <1>b

-----------------------------------------------------------------------------
(* Where a search begins.                                                  *)

(* The filters of a search are of the four types.                          *)
LEMMA FilterTypes ==
    ASSUME NEW filters \in Searches
    PROVE  /\ \E n \in Nat : DOMAIN filters = 1 .. n
           /\ \A i \in DOMAIN filters :
                 /\ filters[i].type \in {"terms", "coin", "creator", "voter"}
                 /\ filters[i].type \in {"coin", "creator"} => filters[i].args[1] \in Nat
                 /\ FilterIndex(filters[i]) = "ByCoin" <=> filters[i].type = "coin"
                 /\ FilterIndex(filters[i]) = "ByCreator" <=> filters[i].type = "creator"
                 /\ FilterIndex(filters[i]) \in {"ByCoin", "ByCreator", "none"}
<1>1. filters \in Seq(ToSet(filters))
  BY ContestSearchAssumption
<1>2. \A i \in DOMAIN filters :
          /\ filters[i].type \in {"terms", "coin", "creator", "voter"}
          /\ filters[i].type \in {"coin", "creator"} => filters[i].args[1] \in Nat
  BY ContestSearchAssumption
<1>3. \E n \in Nat : DOMAIN filters = 1 .. n
  BY <1>1
<1> QED
  BY <1>2, <1>3 DEF FilterIndex

(* A search has the index of one of its filters, or the index by ID when   *)
(* none has an index of its own.                                           *)
LEMMA SearchIndexIs ==
    ASSUME NEW filters \in Searches
    PROVE  /\ SearchIndex(filters) \in {"ByCoin", "ByCreator", "ById"}
           /\ \/ SearchIndex(filters) = "ById"
                 /\ \A i \in DOMAIN filters : filters[i].type \in {"terms", "voter"}
              \/ \E i \in DOMAIN filters : FilterIndex(filters[i]) = SearchIndex(filters)
<1> DEFINE sorted == {i \in DOMAIN filters : filters[i].type \in {"coin", "creator"}}
<1>1. CASE sorted = {}
  <2>1. SearchIndex(filters) = "ById"
    BY <1>1 DEF SearchIndex
  <2> QED
    BY <1>1, <2>1, FilterTypes
<1>2. CASE sorted # {}
  <2>1. sorted \subseteq Nat
    BY FilterTypes
  <2>2. PICK m \in sorted : \A k \in sorted : ~ (k < m)
    <3> HIDE DEF sorted
    <3> QED
      BY <1>2, <2>1, SmallestNumber
  <2>3. \E x \in sorted : \A y \in sorted : x <= y
    <3>1. \A y \in sorted : y \in Nat
      BY <2>1
    <3>2. m \in sorted /\ \A y \in sorted : m <= y
      BY <2>2, <3>1
    <3> QED
      BY <3>2
  <2>4. Min(sorted) \in sorted
    BY <2>3 DEF Min
  <2>5. SearchIndex(filters) = FilterIndex(filters[Min(sorted)])
    BY <1>2 DEF SearchIndex
  <2> QED
    BY <2>4, <2>5, FilterTypes
<1> QED
  BY <1>1, <1>2

(* What a filter tells.                                                    *)
LEMMA FirstForIs ==
    ASSUME contestIndex \in Seq(Published), NEW index \in Indexes, NEW filters \in Searches,
           NEW i \in DOMAIN filters, FirstFor(index, filters[i]) # None
    PROVE  \E S \in SUBSET Ids :
              /\ S # {} /\ FirstFor(index, filters[i]) = First(index, S)
              /\ \/ index = "ById" /\ S = Ids
                 \/ /\ FilterIndex(filters[i]) = index
                    /\ S = {k \in Ids : Key(index, k) >= filters[i].args[1]}
<1> DEFINE f == filters[i]
           S == {k \in Ids : Key(index, k) >= f.args[1]}
<1>1. CASE f.type = "terms" /\ index = "ById"
  <2>1. FirstFor(index, f) = LowerBound("ById", 0)
    BY <1>1, FilterTypes DEF FirstFor
  <2>2. {k \in Ids : Key("ById", k) >= 0} = Ids
    BY KeyType DEF Indexes
  <2>3. FirstFor(index, f) = First(index, Ids)
    BY <1>1, <2>1, <2>2 DEF LowerBound
  <2>4. Ids # {}
    BY <2>3 DEF First
  <2> QED
    BY <1>1, <2>3, <2>4
<1>2. CASE ~ (f.type = "terms" /\ index = "ById") /\ FilterIndex(f) = index
  <2>1. FirstFor(index, f) = LowerBound(index, f.args[1])
    BY <1>2 DEF FirstFor
  <2>2. FirstFor(index, f) = First(index, S)
    BY <2>1 DEF LowerBound
  <2>3. S # {} /\ S \in SUBSET Ids
    BY <2>2 DEF First
  <2> QED
    BY <1>2, <2>2, <2>3
<1>3. CASE ~ (f.type = "terms" /\ index = "ById") /\ FilterIndex(f) # index
  <2>1. FirstFor(index, f) = None
    BY <1>3 DEF FirstFor
  <2> QED
    BY <2>1
<1> QED
  BY <1>1, <1>2, <1>3

(* A search starts at the first contest of one of its filters, or nowhere. *)
LEMMA FirstContestIs ==
    ASSUME NEW index \in Indexes, NEW filters \in Searches
    PROVE  \/ /\ FirstContest(index, filters) = None
              /\ \A i \in DOMAIN filters : FirstFor(index, filters[i]) = None
           \/ \E i \in DOMAIN filters : /\ FirstFor(index, filters[i]) # None
                                        /\ FirstContest(index, filters) = FirstFor(index, filters[i])
<1> DEFINE told == {i \in DOMAIN filters : FirstFor(index, filters[i]) # None}
<1>1. CASE told = {}
  BY <1>1 DEF FirstContest
<1>2. CASE told # {}
  <2>1. PICK n \in Nat : DOMAIN filters = 1 .. n
    BY FilterTypes
  <2>2. told \in SUBSET (1 .. n)
    BY <2>1
  <2>3. Max(told) \in told
    <3> HIDE DEF told
    <3> QED
      BY <1>2, <2>2, LastPlace
  <2>4. FirstContest(index, filters) = FirstFor(index, filters[Max(told)])
    BY <1>2 DEF FirstContest
  <2> QED
    BY <2>3, <2>4
<1> QED
  BY <1>1, <1>2

(* A search begins in the index, at what its filters ask for               *)
LEMMA StartBeyond ==
    ASSUME contestIndex \in Seq(Published), NEW index \in Indexes, NEW filters \in Searches,
           FirstContest(index, filters) # None
    PROVE  /\ FirstContest(index, filters) \in Ids
           /\ \A a \in Nat : Named(filters, index, a) => a <= Key(index, FirstContest(index, filters))
<1>1. PICK i \in DOMAIN filters : /\ FirstFor(index, filters[i]) # None
                                  /\ FirstContest(index, filters) = FirstFor(index, filters[i])
  BY FirstContestIs
<1>2. PICK S \in SUBSET Ids :
              /\ S # {} /\ FirstFor(index, filters[i]) = First(index, S)
              /\ \/ index = "ById" /\ S = Ids
                 \/ /\ FilterIndex(filters[i]) = index
                    /\ S = {k \in Ids : Key(index, k) >= filters[i].args[1]}
  BY <1>1, FirstForIs
<1>3. FirstContest(index, filters) \in S
  BY <1>1, <1>2, FirstIs
<1>4. ASSUME NEW a \in Nat, Named(filters, index, a)
      PROVE  a <= Key(index, FirstContest(index, filters))
  <2>1. index # "ById"
    BY <1>4, FilterTypes DEF Named
  <2>2. filters[i].args[1] = a /\ Key(index, FirstContest(index, filters)) >= a
    BY <1>2, <1>3, <1>4, <2>1 DEF Named
  <2>3. Key(index, FirstContest(index, filters)) \in Nat
    BY <1>2, <1>3, KeyType
  <2> QED
    BY <2>2, <2>3
<1> QED
  BY <1>2, <1>3, <1>4

(* and at the first contest that is wanted, or before.                     *)
LEMMA StartComplete ==
    ASSUME contestIndex \in Seq(Published), NEW filters \in Searches, Intended(filters),
           NEW voted, NEW id \in Ids, Wanted(filters, id, voted)
    PROVE  /\ FirstContest(SearchIndex(filters), filters) # None
           /\ ~ Before(SearchIndex(filters), id, FirstContest(SearchIndex(filters), filters))
<1> DEFINE index == SearchIndex(filters)
           first == FirstContest(index, filters)
<1>1. index \in Indexes
  BY SearchIndexIs DEF Indexes
<1>2. ASSUME NEW i \in DOMAIN filters, FilterIndex(filters[i]) = index
      PROVE  id \in {k \in Ids : Key(index, k) >= filters[i].args[1]}
  <2>1. Key(index, id) = filters[i].args[1]
    <3>1. CASE filters[i].type = "coin"
      BY <3>1, <1>2, FilterTypes DEF Wanted, Accepts, Key
    <3>2. CASE filters[i].type = "creator"
      BY <3>2, <1>2, FilterTypes DEF Wanted, Accepts, Key
    <3> QED
      BY <1>1, <1>2, <3>1, <3>2, FilterTypes DEF Indexes
  <2>2. Key(index, id) \in Nat
    BY <1>1, KeyType
  <2> QED
    BY <2>1, <2>2
<1>3. \E i \in DOMAIN filters : FirstFor(index, filters[i]) # None
  <2>1. CASE index = "ById" /\ \A i \in DOMAIN filters : filters[i].type \in {"terms", "voter"}
    <3>1. PICK i \in DOMAIN filters : filters[i].type = "terms"
      BY <2>1 DEF Intended
    <3>2. FirstFor(index, filters[i]) = LowerBound("ById", 0)
      BY <2>1, <3>1, FilterTypes DEF FirstFor
    <3>3. {k \in Ids : Key("ById", k) >= 0} = Ids
      BY KeyType DEF Indexes
    <3>4. FirstFor(index, filters[i]) = First(index, Ids)
      BY <2>1, <3>2, <3>3 DEF LowerBound
    <3>5. First(index, Ids) # None
      BY <1>1, FirstIs
    <3> QED
      BY <3>4, <3>5
  <2>2. ASSUME NEW i \in DOMAIN filters, FilterIndex(filters[i]) = index
        PROVE  FirstFor(index, filters[i]) # None
    <3> DEFINE S == {k \in Ids : Key(index, k) >= filters[i].args[1]}
    <3>1. index # "ById"
      BY <2>2, FilterTypes
    <3>2. FirstFor(index, filters[i]) = First(index, S)
      BY <2>2, <3>1 DEF FirstFor, LowerBound
    <3>3. S # {} /\ S \in SUBSET Ids
      BY <1>2, <2>2
    <3> HIDE DEF S
    <3> QED
      BY <1>1, <3>2, <3>3, FirstIs
  <2> QED
    BY <2>1, <2>2, SearchIndexIs
<1>4. PICK i \in DOMAIN filters : /\ FirstFor(index, filters[i]) # None
                                  /\ first = FirstFor(index, filters[i])
  BY <1>1, <1>3, FirstContestIs
<1>5. PICK S \in SUBSET Ids :
              /\ S # {} /\ FirstFor(index, filters[i]) = First(index, S)
              /\ \/ index = "ById" /\ S = Ids
                 \/ /\ FilterIndex(filters[i]) = index
                    /\ S = {k \in Ids : Key(index, k) >= filters[i].args[1]}
  BY <1>1, <1>4, FirstForIs
<1>6. id \in S
  BY <1>2, <1>5
<1> HIDE DEF index
<1>7. ~ Before(index, id, First(index, S))
  BY <1>1, <1>6, FirstIs
<1> QED
  BY <1>4, <1>5, <1>7 DEF index

(* What is wanted passes the filters.                                      *)
LEMMA Accepted ==
    ASSUME NEW id, gen.filters = <<>> \/ (gen.filters \in Searches /\ Intended(gen.filters)),
           votesThen \subseteq votes, Wanted(gen.filters, id, votesThen)
    PROVE  filter(gen, id) = "Accept"
<1>1. ASSUME NEW i \in DOMAIN gen.filters
      PROVE  Accepts(gen.filters[i], id)
  <2> DEFINE f == gen.filters[i]
  <2>1. gen.filters \in Searches /\ Intended(gen.filters)
    BY <1>1
  <2>2. f.type \in {"terms", "coin", "creator", "voter"}
    BY <2>1, FilterTypes
  <2>3. CASE f.type = "terms"
    <3>1. ToSet(f.args) \cap contestIndex[id].words # {}
      BY <2>3 DEF Wanted
    <3>2. ToSet(f.args) = {f.args[1]}
      BY <2>1, <2>3 DEF Intended
    <3>3. f.args[1] \in contestIndex[id].words
      BY <3>1, <3>2
    <3> QED
      BY <2>3, <3>3 DEF Accepts
  <2>4. CASE f.type = "voter"
    <3>1. <<f.args[1], id>> \in votesThen
      BY <2>4 DEF Wanted
    <3> QED
      BY <2>4, <3>1 DEF Accepts
  <2>5. CASE f.type \in {"coin", "creator"}
    BY <2>5 DEF Wanted
  <2> QED
    BY <2>2, <2>3, <2>4, <2>5
<1>2. {i \in DOMAIN gen.filters : ~ Accepts(gen.filters[i], id)} = {}
  BY <1>1
<1> QED
  BY <1>2 DEF filter

(* A contest that breaks a filter is not what that filter asks for.        *)
LEMMA Broken ==
    ASSUME contestIndex \in Seq(Published), gen.index \in Indexes,
           gen.filters \in Searches \cup {<<>>},
           NEW id \in Ids, filter(gen, id) = "Break",
           NEW a \in Nat, Named(gen.filters, gen.index, a)
    PROVE  Key(gen.index, id) # a
<1> DEFINE failed == {i \in DOMAIN gen.filters : ~ Accepts(gen.filters[i], id)}
<1>1. \E i \in failed : Rejection(gen.index, gen.filters[i]) = "Break"
  BY DEF filter
<1>2. PICK i \in DOMAIN gen.filters :
          ~ Accepts(gen.filters[i], id) /\ Rejection(gen.index, gen.filters[i]) = "Break"
  BY <1>1
<1>3. FilterIndex(gen.filters[i]) = gen.index /\ gen.filters[i].args[1] = a
  BY <1>2 DEF Rejection, Named
<1>4. gen.filters \in Searches
  BY <1>2
<1>5. CASE gen.filters[i].type = "coin"
  BY <1>2, <1>3, <1>4, <1>5, FilterTypes DEF Accepts, Key
<1>6. CASE gen.filters[i].type = "creator"
  BY <1>2, <1>3, <1>4, <1>6, FilterTypes DEF Accepts, Key
<1>7. gen.filters[i].type \in {"coin", "creator"}
  BY <1>3, <1>4, FilterTypes DEF Indexes
<1> QED
  BY <1>5, <1>6, <1>7

-----------------------------------------------------------------------------
(* The steps.                                                              *)

(* A contest that is in the index stays as it is.                          *)
Kept == /\ contestIndex' \in Seq(Published)
        /\ Ids \subseteq Ids' /\ \A id \in Ids : contestIndex'[id] = contestIndex[id]

(* Contests that are published leave the places of the others as they      *)
(* were.                                                                   *)
LEMMA KeyKept ==
    ASSUME Kept, NEW index \in Indexes
    PROVE  /\ \A id \in Ids : Key(index, id)' = Key(index, id)
           /\ \A a, b \in Ids : Before(index, a, b)' <=> Before(index, a, b)
<1>1. \A id \in Ids : Key(index, id)' = Key(index, id)
  BY DEF Key, Kept, Indexes
<1> QED
  BY <1>1 DEF Before

(* They leave alone what a search wants.                                   *)
LEMMA WantedKept ==
    ASSUME Kept, NEW filters \in Searches \cup {<<>>}, NEW id \in Ids, NEW voted
    PROVE  Wanted(filters, id, voted)' <=> Wanted(filters, id, voted)
<1>1. contestIndex'[id] = contestIndex[id]
  BY DEF Kept
<1>2. ASSUME NEW i \in DOMAIN filters
      PROVE  filters[i].type \in {"terms", "coin", "creator", "voter"}
  BY FilterTypes
<1> QED
  BY <1>1, <1>2 DEF Wanted, Accepts

(* The generator's part of the invariant, when the generator stays.        *)
LEMMA GeneratorStays ==
    ASSUME SearchInv, Kept, SearchType', UNCHANGED <<gen, returned, out, votesThen>>,
           owed' \subseteq owed
    PROVE  SearchInv'
<1> SUFFICES ASSUME gen # None PROVE (Walked /\ Complete /\ Beyond /\ BreaksOwn)'
  BY DEF SearchInv, Walked, Complete, Beyond, BreaksOwn
<1> DEFINE index == gen.index
<1>1. /\ gen \in Generators /\ index \in Indexes /\ gen.filters \in Searches \cup {<<>>}
      /\ gen.current # None => gen.current \in Ids
      /\ gen.brokeAt # None => gen.brokeAt \in Ids
      /\ ToSet(returned) \subseteq Ids /\ returned \in Seq(Nat)
  BY DEF SearchInv, SearchType, Generators
<1>2. \A i \in DOMAIN returned : returned[i] \in Ids
  BY <1>1 DEF ToSet
<1>3. /\ \A id \in Ids : Key(index, id)' = Key(index, id)
      /\ \A a, b \in Ids : Before(index, a, b)' <=> Before(index, a, b)
  BY <1>1, KeyKept
<1>4. \A id \in Ids : Wanted(gen.filters, id, votesThen)' <=> Wanted(gen.filters, id, votesThen)
  BY <1>1, WantedKept
<1>5. Walked'
  BY <1>1, <1>2, <1>3 DEF SearchInv, Walked, InIndexOrder, ToSet
<1>6. Complete'
  <2>1. owed \subseteq Ids
    BY DEF SearchInv, SearchType
  <2> QED
    BY <1>1, <1>3, <1>4, <2>1 DEF SearchInv, Complete
<1>7. Beyond'
  BY <1>1, <1>3 DEF SearchInv, Beyond
<1>8. BreaksOwn'
  BY DEF SearchInv, BreaksOwn
<1> QED
  BY <1>5, <1>6, <1>7, <1>8

(* A contest is published.                                                 *)
LEMMA PublishStep ==
    ASSUME SearchInv, NEW draft \in Drafts, Publish(draft)
    PROVE  SearchInv'
<1> DEFINE new == [draft EXCEPT !.start = Max({@, now})]
<1>1. draft \in Published /\ contestIndex \in Seq(Published) /\ now \in Nat
  BY ContestSearchAssumption DEF SearchInv, SearchType, Published
<1>2. Max({draft.start, now}) \in Nat
  <2>1. draft.start \in Nat
    BY <1>1 DEF Published
  <2>2. \E x \in {draft.start, now} : \A y \in {draft.start, now} : x >= y
    BY <1>1, <2>1
  <2>3. Max({draft.start, now}) \in {draft.start, now}
    BY <2>2 DEF Max
  <2> QED
    BY <1>1, <2>1, <2>3
<1>3. new \in Published
  BY <1>1, <1>2 DEF Published
<1>4. contestIndex' = Append(contestIndex, new)
  BY DEF Publish
<1> HIDE DEF new
<1>5. Kept
  <2>1. contestIndex' \in Seq(Published) /\ Len(contestIndex') = Len(contestIndex) + 1
        /\ \A id \in 1 .. Len(contestIndex) : contestIndex'[id] = contestIndex[id]
    BY <1>1, <1>3, <1>4
  <2> QED
    BY <1>1, <2>1 DEF Kept, Ids
<1>6. UNCHANGED <<now, votes, gen, returned, out, owed, votesThen>>
  BY DEF Publish
<1>7. SearchType'
  <2>1. \A id \in Ids : isActive(id)' <=> isActive(id)
    BY <1>5, <1>6 DEF isActive, Kept
  <2>2. owed' \subseteq {id \in Ids' : isActive(id)'}
    BY <1>5, <1>6, <2>1 DEF SearchInv, SearchType, Kept
  <2>3. ToSet(returned') \subseteq Ids'
    BY <1>5, <1>6 DEF SearchInv, SearchType, Kept, ToSet
  <2> QED
    BY <1>5, <1>6, <2>2, <2>3 DEF SearchInv, SearchType, Kept
<1> QED
  BY <1>5, <1>6, <1>7, GeneratorStays

(* Somebody votes.                                                         *)
LEMMA VoteStep ==
    ASSUME SearchInv, NEW user \in Users, NEW id \in Ids, processDecision(user, id)
    PROVE  SearchInv'
<1>1. /\ UNCHANGED <<now, contestIndex, gen, returned, out, owed, votesThen>>
      /\ votes \subseteq votes'
  BY DEF processDecision
<1>2. Kept
  BY <1>1 DEF Kept, SearchInv, SearchType, Ids
<1>3. SearchType'
  BY <1>1 DEF SearchInv, SearchType, Ids, isActive, ToSet
<1> QED
  BY <1>1, <1>2, <1>3, GeneratorStays

(* Time goes on.                                                           *)
LEMMA TimeStep ==
    ASSUME SearchInv, AdvanceTime
    PROVE  SearchInv'
<1>1. /\ UNCHANGED <<contestIndex, votes, gen, returned, out, votesThen>>
      /\ now' = now + 1
      /\ owed' = {id \in owed : contestIndex[id].end = 0 \/ now' <= contestIndex[id].end}
  BY DEF AdvanceTime
<1>2. Kept
  BY <1>1 DEF Kept, SearchInv, SearchType, Ids
<1>3. owed' \subseteq {id \in Ids' : isActive(id)'}
  <2> SUFFICES ASSUME NEW id \in owed, contestIndex[id].end = 0 \/ now' <= contestIndex[id].end
               PROVE  id \in Ids' /\ isActive(id)'
    BY <1>1
  <2>1. id \in Ids /\ now >= contestIndex[id].start /\ now \in Nat
    BY DEF SearchInv, SearchType, isActive
  <2>2. contestIndex[id].start \in Nat
    <3>1. contestIndex[id] \in Published
      BY <2>1 DEF SearchInv, SearchType, Ids
    <3> QED
      BY <3>1 DEF Published
  <2>3. now' >= contestIndex[id].start
    BY <1>1, <2>1, <2>2
  <2> QED
    BY <1>1, <2>1, <2>3 DEF isActive, Ids
<1>4. SearchType'
  BY <1>1, <1>3 DEF SearchInv, SearchType, Ids, ToSet
<1>5. owed' \subseteq owed
  BY <1>1
<1> QED
  BY <1>1, <1>2, <1>4, <1>5, GeneratorStays

(* A search begins, or the feed.                                           *)
LEMMA BeginStep ==
    ASSUME SearchInv, NEW index \in Indexes, NEW filters \in Searches \cup {<<>>},
           NEW first \in Ids \cup {None}, Begin(Generator(index, first, filters)),
           IF index = "ByStartTime" THEN filters = <<>> ELSE filters \in Searches,
           \A a \in Nat : Named(filters, index, a) /\ first # None => a <= Key(index, first),
           index = "ByStartTime" \/ Intended(filters) =>
               \A id \in Ids : Wanted(filters, id, votes) =>
                                   first # None /\ ~ Before(index, id, first)
    PROVE  SearchInv'
<1>1. /\ gen = None /\ owed' = {id \in Ids : isActive(id)} /\ votesThen' = votes
      /\ gen' = [index |-> index, filters |-> filters, current |-> first, brokeAt |-> None]
      /\ UNCHANGED <<now, contestIndex, votes, returned, out>>
  BY DEF Begin, Generator
<1>2. returned = <<>> /\ ~ out /\ returned' = <<>> /\ ~ out'
  BY <1>1 DEF SearchInv, SearchType
<1>3. gen' \in Generators
  <2>1. first \in Nat \cup {None}
    BY DEF Ids, SearchInv, SearchType
  <2>2. None \in Nat \cup {None}
    OBVIOUS
  <2> QED
    BY <1>1, <2>1, <2>2 DEF Generators
<1>4. ToSet(<<>>) = {} /\ DOMAIN <<>> = {}
  BY DEF ToSet
<1>5. gen'.index = index /\ gen'.filters = filters /\ gen'.current = first /\ gen'.brokeAt = None
  BY <1>1
<1>6. SearchType'
  BY <1>1, <1>2, <1>3, <1>4, <1>5 DEF SearchInv, SearchType, Ids, isActive
<1>7. /\ \A id \in Ids : Key(index, id)' = Key(index, id)
      /\ \A a, b \in Ids : Before(index, a, b)' <=> Before(index, a, b)
  <2>1. Kept
    BY <1>1 DEF Kept, SearchInv, SearchType, Ids
  <2> QED
    BY <2>1, KeyKept
<1>8. Walked'
  BY <1>2, <1>4, <1>5 DEF Walked, InIndexOrder
<1>9. Complete'
  <2> SUFFICES ASSUME index = "ByStartTime" \/ Intended(filters), NEW id \in owed',
                      Wanted(filters, id, votes)'
               PROVE  first # None /\ ~ Before(index, id, first)'
    BY <1>1, <1>5 DEF Complete
  <2>1. id \in Ids
    BY <1>1
  <2>2. Wanted(filters, id, votes)
    BY <1>1 DEF Wanted, Accepts
  <2> QED
    BY <1>7, <2>1, <2>2
<1>10. Beyond'
  <2> SUFFICES ASSUME NEW a \in Nat, Named(filters, index, a), first # None
               PROVE  a <= Key(index, first)'
    BY <1>5 DEF Beyond
  <2> QED
    BY <1>7
<1>11. BreaksOwn'
  BY <1>5 DEF BreaksOwn
<1> QED
  BY <1>6, <1>8, <1>9, <1>10, <1>11 DEF SearchInv

(* A new search has returned nothing, and everything it wants is still to  *)
(* come.                                                                   *)
LEMMA SearchStep ==
    ASSUME SearchInv, NEW filters \in Searches, searchContests(filters)
    PROVE  SearchInv'
<1> DEFINE index == SearchIndex(filters)
           first == FirstContest(index, filters)
<1>1. index \in Indexes /\ index # "ByStartTime" /\ contestIndex \in Seq(Published)
  BY SearchIndexIs DEF Indexes, SearchInv, SearchType
<1>2. Begin(Generator(index, first, filters))
  BY DEF searchContests
<1>3. first \in Ids \cup {None}
      /\ \A a \in Nat : Named(filters, index, a) /\ first # None => a <= Key(index, first)
  BY <1>1, StartBeyond
<1>4. Intended(filters) => \A id \in Ids : Wanted(filters, id, votes) =>
                                   first # None /\ ~ Before(index, id, first)
  BY <1>1, StartComplete
<1> HIDE DEF first, index
<1> QED
  BY <1>1, <1>2, <1>3, <1>4, BeginStep

(* So it is with a new feed.                                               *)
LEMMA FeedStep ==
    ASSUME SearchInv, getContestFeed
    PROVE  SearchInv'
<1> DEFINE index == "ByStartTime"
           first == LowerBound(index, 0)
<1>1. index \in Indexes /\ contestIndex \in Seq(Published)
  BY DEF Indexes, SearchInv, SearchType
<1>2. Begin(Generator(index, first, <<>>))
  BY DEF getContestFeed
<1>3. {k \in Ids : Key(index, k) >= 0} = Ids
  BY <1>1, KeyType
<1>4. first = First(index, Ids)
  BY <1>3 DEF LowerBound
<1>5. first \in Ids \cup {None}
      /\ \A id \in Ids : first # None /\ ~ Before(index, id, first)
  BY <1>1, <1>4, FirstIs
<1>6. \A a \in Nat : ~ Named(<<>>, index, a)
  BY DEF Named
<1> HIDE DEF first
<1> QED
  BY <1>1, <1>2, <1>5, <1>6, BeginStep

(* What a request finds is put behind what was returned.                   *)
LEMMA InOrderAfter ==
    ASSUME contestIndex \in Seq(Published), NEW index \in Indexes,
           NEW s \in Seq(Ids), NEW t \in Seq(Ids),
           InIndexOrder(s, index), InIndexOrder(t, index),
           \A a \in ToSet(s), b \in ToSet(t) : Before(index, a, b)
    PROVE  /\ s \o t \in Seq(Ids) /\ ToSet(s \o t) = ToSet(s) \cup ToSet(t)
           /\ InIndexOrder(s \o t, index)
<1> DEFINE m == Len(s)
           n == Len(t)
           u == s \o t
<1>1. /\ m \in Nat /\ n \in Nat /\ DOMAIN s = 1 .. m /\ DOMAIN t = 1 .. n
      /\ u \in Seq(Ids) /\ Len(u) = m + n /\ DOMAIN u = 1 .. m + n
      /\ \A i \in 1 .. m + n : u[i] = IF i <= m THEN s[i] ELSE t[i - m]
  OBVIOUS
<1>2. \A i \in 1 .. m : s[i] \in ToSet(s)
  BY <1>1 DEF ToSet
<1>3. \A i \in 1 .. n : t[i] \in ToSet(t)
  BY <1>1 DEF ToSet
<1> HIDE DEF m, n, u
<1>4. \A i \in 1 .. m : i \in 1 .. m + n /\ u[i] = s[i]
  BY <1>1
<1>5. \A i \in 1 .. n : i + m \in 1 .. m + n /\ u[i + m] = t[i]
  BY <1>1
<1>6. \A i \in 1 .. m + n : i \in 1 .. m \/ (i - m \in 1 .. n /\ u[i] = t[i - m])
  BY <1>1
<1>7. ToSet(u) = ToSet(s) \cup ToSet(t)
  <2>1. ASSUME NEW a \in ToSet(u) PROVE a \in ToSet(s) \cup ToSet(t)
    <3>1. PICK i \in 1 .. m + n : a = u[i]
      BY <1>1 DEF ToSet
    <3> QED
      BY <1>2, <1>3, <1>4, <1>6, <3>1
  <2>2. ASSUME NEW a \in ToSet(s) PROVE a \in ToSet(u)
    BY <1>1, <1>4 DEF ToSet
  <2>3. ASSUME NEW a \in ToSet(t) PROVE a \in ToSet(u)
    <3>1. PICK i \in 1 .. n : a = t[i]
      BY <1>1 DEF ToSet
    <3> QED
      BY <1>1, <1>5, <3>1 DEF ToSet
  <2> QED
    BY <2>1, <2>2, <2>3
<1>8. ASSUME NEW i \in 1 .. m + n, NEW j \in 1 .. m + n, i < j
      PROVE  Before(index, u[i], u[j])
  <2>1. CASE j \in 1 .. m
    <3>1. i \in 1 .. m
      BY <1>1, <1>8, <2>1
    <3> QED
      BY <1>1, <1>4, <1>8, <2>1, <3>1 DEF InIndexOrder
  <2>2. CASE i \in 1 .. m /\ j \notin 1 .. m
    BY <1>2, <1>3, <1>4, <1>6, <2>2
  <2>3. CASE i \notin 1 .. m /\ j \notin 1 .. m
    <3>1. i - m \in 1 .. n /\ j - m \in 1 .. n /\ u[i] = t[i - m] /\ u[j] = t[j - m]
      BY <1>6, <2>3
    <3>2. i - m < j - m
      BY <1>1, <1>8
    <3> QED
      BY <1>1, <3>1, <3>2 DEF InIndexOrder
  <2> QED
    BY <1>8, <1>1, <2>1, <2>2, <2>3
<1> QED
  BY <1>1, <1>7, <1>8 DEF u, InIndexOrder

(* What a request that walks finds; the rest of the index is after what    *)
(* was returned, and at the searched value or beyond.                      *)
LEMMA RestIs ==
    ASSUME SearchInv, gen # None, gen.current # None
    PROVE  /\ gen.brokeAt = None /\ gen.current \in Ids /\ Rest \subseteq Ids
           /\ \A a \in ToSet(returned), b \in Rest : Before(gen.index, a, b)
           /\ \A a \in Nat : Named(gen.filters, gen.index, a) =>
                  \A b \in Rest : a <= Key(gen.index, b)
<1> DEFINE index == gen.index
           current == gen.current
<1>1. /\ contestIndex \in Seq(Published) /\ index \in Indexes
      /\ current \in Ids /\ ToSet(returned) \subseteq Ids
  BY DEF SearchInv, SearchType, Generators
<1>2. gen.brokeAt = None /\ \A a \in ToSet(returned) : Before(index, a, current)
  BY DEF SearchInv, Walked
<1>3. \A a \in Nat : Named(gen.filters, index, a) => a <= Key(index, current)
  BY DEF SearchInv, Beyond
<1>4. Rest \subseteq Ids /\ \A b \in Rest : ~ Before(index, b, current)
  BY DEF Rest
<1> HIDE DEF index, current
<1>5. \A b \in Rest : b = current \/ Before(index, current, b)
  BY <1>1, <1>4, BeforeTotal
<1>6. ASSUME NEW a \in ToSet(returned), NEW b \in Rest PROVE Before(index, a, b)
  <2>1. a \in Ids /\ b \in Ids /\ Before(index, a, current)
    BY <1>1, <1>2, <1>4
  <2> QED
    BY <1>1, <1>5, <2>1, BeforeTotal
<1>7. ASSUME NEW a \in Nat, Named(gen.filters, index, a), NEW b \in Rest
      PROVE  a <= Key(index, b)
  <2>1. Key(index, b) \in Nat /\ Key(index, current) \in Nat /\ b \in Nat /\ current \in Nat
    BY <1>1, <1>4, KeyType
  <2>2. Key(index, current) <= Key(index, b)
    BY <1>5, <2>1 DEF Before
  <2> QED
    BY <1>3, <1>7, <2>1, <2>2
<1> QED
  BY <1>1, <1>2, <1>4, <1>6, <1>7 DEF index, current

(* What a request leaves alone.                                            *)
LEMMA GetKeeps ==
    ASSUME SearchInv, NEW count \in Counts, getContests(count),
           NEW index, index = gen.index, NEW filters, filters = gen.filters,
           NEW voted, voted = votesThen
    PROVE  /\ gen # None /\ ~ out /\ count \in Nat \ {0}
           /\ UNCHANGED <<now, contestIndex, votes, owed, votesThen>> /\ Kept
           /\ index \in Indexes /\ filters \in Searches \cup {<<>>}
           /\ \A id \in Ids : Key(index, id)' = Key(index, id)
           /\ \A a, b \in Ids : Before(index, a, b)' <=> Before(index, a, b)
           /\ \A id \in Ids : Wanted(filters, id, voted)' <=>
                              Wanted(filters, id, voted)
           /\ Ids' = Ids /\ \A id \in Ids : isActive(id)' <=> isActive(id)
<1>1. /\ gen # None /\ ~ out
      /\ UNCHANGED <<now, contestIndex, votes, owed, votesThen>>
  BY DEF getContests
<1>2. count \in Nat \ {0}
  <2>1. Counts \subseteq Nat \ {0}
    BY ContestSearchAssumption
  <2> QED
    BY <2>1
<1>3. contestIndex \in Seq(Published) /\ gen \in Generators
  BY <1>1 DEF SearchInv, SearchType
<1>4. index \in Indexes /\ filters \in Searches \cup {<<>>}
  BY <1>3 DEF Generators
<1>5. Ids' = Ids
  BY <1>1 DEF Ids
<1>6. Kept
  BY <1>1, <1>3, <1>5 DEF Kept
<1>7. /\ \A id \in Ids : Key(index, id)' = Key(index, id)
      /\ \A a, b \in Ids : Before(index, a, b)' <=> Before(index, a, b)
  BY <1>4, <1>6, KeyKept
<1>8. \A id \in Ids : Wanted(filters, id, voted)' <=> Wanted(filters, id, voted)
  BY <1>1, <1>4, <1>6, WantedKept
<1>9. \A id \in Ids : isActive(id)' <=> isActive(id)
  BY <1>1 DEF isActive
<1> QED
  BY <1>1, <1>2, <1>4, <1>5, <1>6, <1>7, <1>8, <1>9

(* At the end of the index, getContests gives nothing.                     *)
LEMMA GetNothing ==
    ASSUME SearchInv, NEW count \in Counts, getContests(count),
           NEW index, index = gen.index, NEW filters, filters = gen.filters,
           NEW voted, voted = votesThen, gen.current = None
    PROVE  SearchInv'
<1>1. /\ gen # None /\ ~ out /\ count \in Nat \ {0} /\ Kept /\ Ids' = Ids
      /\ UNCHANGED <<now, contestIndex, votes, owed, votesThen>>
      /\ index \in Indexes /\ filters \in Searches \cup {<<>>}
  BY GetKeeps
<1>2. returned \in Seq(Nat) /\ ToSet(returned) \subseteq Ids
  BY DEF SearchInv, SearchType
<1>3. returned' = returned \o <<>> /\ out' = (Len(<<>>) < count) /\ gen' = gen
  BY Zenon DEF getContests, Return
<1>4. returned' = returned /\ out'
  <2>1. returned \o <<>> = returned /\ Len(<<>>) < count
    BY <1>1, <1>2
  <2> QED
    BY <1>3, <2>1, Zenon
<1>5. /\ \A id \in Ids : Key(index, id)' = Key(index, id)
      /\ \A a, b \in Ids : Before(index, a, b)' <=> Before(index, a, b)
      /\ \A id \in Ids : Wanted(filters, id, voted)' <=> Wanted(filters, id, voted)
      /\ \A id \in Ids : isActive(id)' <=> isActive(id)
  BY GetKeeps
<1>6. owed \subseteq Ids /\ \A i \in DOMAIN returned : returned[i] \in Ids
  BY <1>2 DEF SearchInv, SearchType, ToSet
<1>7. SearchType'
  <2>1. owed' \subseteq {id \in Ids' : isActive(id)'}
    BY <1>1, <1>5 DEF SearchInv, SearchType
  <2>2. out' \in BOOLEAN
    BY <1>3
  <2>3. ToSet(returned') \subseteq Ids'
    BY <1>1, <1>2, <1>4
  <2> QED
    BY <1>1, <1>3, <1>4, <2>1, <2>2, <2>3 DEF SearchInv, SearchType
<1>8. Walked'
  <2>1. InIndexOrder(returned, index)'
    BY <1>1, <1>3, <1>4, <1>5, <1>6 DEF SearchInv, Walked, InIndexOrder
  <2> QED
    BY <1>3, <1>4, <2>1 DEF Walked
<1>9. Complete'
  <2> SUFFICES ASSUME index = "ByStartTime" \/ Intended(filters), gen.brokeAt = None,
                      NEW id \in owed, Wanted(filters, id, voted)'
               PROVE  id \in ToSet(returned)
    BY <1>1, <1>3, <1>4 DEF Complete
  <2>1. Wanted(filters, id, voted)
    BY <1>5, <1>6
  <2> QED
    BY <1>1, <2>1 DEF SearchInv, Complete
<1>10. Beyond'
  <2> PICK broke : broke = gen.brokeAt
    OBVIOUS
  <2> SUFFICES ASSUME broke # None, NEW a \in Nat, Named(filters, index, a)
               PROVE  a < Key(index, broke)'
    BY <1>3 DEF Beyond
  <2>1. broke \in Ids
    BY <1>1 DEF SearchInv, SearchType
  <2>2. a < Key(index, broke)
    BY <1>1 DEF SearchInv, Beyond
  <2> QED
    BY <1>5, <2>1, <2>2
<1>11. BreaksOwn'
  BY <1>3 DEF SearchInv, BreaksOwn
<1> QED
  BY <1>7, <1>8, <1>9, <1>10, <1>11 DEF SearchInv

(* At a break the generator ends, and nothing that is wanted is beyond it. *)
LEMMA GetBroken ==
    ASSUME SearchInv, NEW count \in Counts, getContests(count),
           NEW index, index = gen.index, NEW filters, filters = gen.filters,
           NEW voted, voted = votesThen, gen.current # None,
           NEW broke, broke = Walk(count).broke, broke # None
    PROVE  SearchInv'
<1>1. /\ gen # None /\ ~ out /\ count \in Nat \ {0} /\ Kept /\ Ids' = Ids
      /\ UNCHANGED <<now, contestIndex, votes, owed, votesThen>>
      /\ index \in Indexes /\ filters \in Searches \cup {<<>>}
  BY GetKeeps
<1>2. returned \in Seq(Nat) /\ ToSet(returned) \subseteq Ids /\ contestIndex \in Seq(Published)
  BY DEF SearchInv, SearchType
<1>3. /\ returned' = returned \o <<>> /\ out' = (Len(<<>>) < count)
      /\ gen' = [gen EXCEPT !.current = None, !.brokeAt = broke]
  BY Zenon DEF getContests, Return
<1>4. returned' = returned /\ out'
  <2>1. returned \o <<>> = returned /\ Len(<<>>) < count
    BY <1>1, <1>2
  <2> QED
    BY <1>3, <2>1, Zenon
<1>5. /\ \A id \in Ids : Key(index, id)' = Key(index, id)
      /\ \A a, b \in Ids : Before(index, a, b)' <=> Before(index, a, b)
      /\ \A id \in Ids : isActive(id)' <=> isActive(id)
  BY GetKeeps
<1>6. owed \subseteq Ids /\ \A i \in DOMAIN returned : returned[i] \in Ids
  BY <1>2 DEF SearchInv, SearchType, ToSet
<1>7. gen.current \in Ids /\ Rest \subseteq Ids
      /\ \A a \in Nat : Named(filters, index, a) => \A b \in Rest : a <= Key(index, b)
  BY <1>1, RestIs
<1>8. broke \in Filtered("Break") /\ broke # None
  BY <1>1, <1>2, <1>7, WalkIs DEF Walks
<1>9. broke \in Rest /\ broke \in Ids /\ filter(gen, broke) = "Break"
  BY <1>7, <1>8 DEF Filtered
<1>a. gen \in Generators
  BY <1>1 DEF SearchInv, SearchType
<1>b. gen' = [index |-> index, filters |-> filters, current |-> None, brokeAt |-> broke]
  BY <1>3, <1>a DEF Generators
<1>c. gen'.index = index /\ gen'.filters = gen.filters /\ gen'.current = None /\ gen'.brokeAt = broke
  BY <1>b
<1>d. gen' \in Generators /\ gen' # None
  <2>1. broke \in Nat
    BY <1>2, <1>9 DEF Ids
  <2>2. gen' \in Generators
    BY <1>1, <1>b, <2>1 DEF Generators
  <2> QED
    BY <2>2, ContestSearchAssumption
<1>10. SearchType'
  <2>1. owed' \subseteq {id \in Ids' : isActive(id)'}
    BY <1>1, <1>5 DEF SearchInv, SearchType
  <2>2. out' \in BOOLEAN
    BY <1>3
  <2>3. ToSet(returned') \subseteq Ids'
    BY <1>1, <1>2, <1>4
  <2>4. /\ {gen'.current, gen'.brokeAt} \subseteq Ids' \cup {None}
        /\ IF gen'.index = "ByStartTime" THEN gen'.filters = <<>> ELSE gen'.filters \in Searches
    BY <1>1, <1>9, <1>c DEF SearchInv, SearchType
  <2> QED
    BY <1>1, <1>4, <1>d, <2>1, <2>2, <2>3, <2>4 DEF SearchInv, SearchType
<1>11. Walked'
  <2>1. InIndexOrder(returned, index)'
    BY <1>1, <1>4, <1>5, <1>6, <1>c DEF SearchInv, Walked, InIndexOrder
  <2> QED
    BY <1>4, <1>c, <2>1 DEF Walked
<1>12. Complete'
  BY <1>8, <1>c DEF Complete
<1>13. BreaksOwn'
  <2>1. PICK i \in DOMAIN filters : Rejection(index, filters[i]) = "Break"
    <3> DEFINE failed == {i \in DOMAIN filters : ~ Accepts(filters[i], broke)}
    <3>1. \E i \in failed : Rejection(index, filters[i]) = "Break"
      BY <1>9 DEF filter
    <3> QED
      BY <3>1
  <2> QED
    BY <1>c, <2>1 DEF BreaksOwn, Rejection
<1>14. Beyond'
  <2> SUFFICES ASSUME NEW a \in Nat, Named(filters, index, a)
               PROVE  a < Key(index, broke)'
    BY <1>c DEF Beyond
  <2>1. a <= Key(index, broke) /\ Key(index, broke) \in Nat
    BY <1>1, <1>2, <1>7, <1>9, KeyType
  <2>2. Key(index, broke) # a
    BY <1>1, <1>2, <1>9, Broken
  <2> QED
    BY <1>5, <1>9, <2>1, <2>2
<1> QED
  BY <1>10, <1>11, <1>12, <1>13, <1>14 DEF SearchInv

(* Otherwise it gives the accepted contests and goes on after them.        *)
LEMMA GetFound ==
    ASSUME SearchInv, NEW count \in Counts, getContests(count),
           NEW index, index = gen.index, NEW filters, filters = gen.filters,
           NEW voted, voted = votesThen, gen.current # None,
           Walk(count).broke = None, NEW found, found = Walk(count).found,
           NEW next, next = Walk(count).next
    PROVE  SearchInv'
<1>1. /\ gen # None /\ ~ out /\ count \in Nat \ {0} /\ Kept /\ Ids' = Ids
      /\ UNCHANGED <<now, contestIndex, votes, owed, votesThen>>
      /\ index \in Indexes /\ filters \in Searches \cup {<<>>}
  BY GetKeeps
<1>2. /\ returned \in Seq(Nat) /\ ToSet(returned) \subseteq Ids
      /\ contestIndex \in Seq(Published) /\ Ids \subseteq Nat
  BY DEF SearchInv, SearchType, Ids
<1>3. /\ returned' = returned \o found /\ out' = (Len(found) < count)
      /\ gen' = [gen EXCEPT !.current = next]
  BY DEF getContests, Return, Advance
<1>5. /\ \A id \in Ids : Key(index, id)' = Key(index, id)
      /\ \A a, b \in Ids : Before(index, a, b)' <=> Before(index, a, b)
      /\ \A id \in Ids : Wanted(filters, id, voted)' <=> Wanted(filters, id, voted)
      /\ \A id \in Ids : isActive(id)' <=> isActive(id)
  BY GetKeeps
<1>6. owed \subseteq Ids /\ votesThen \subseteq votes /\ \A id \in owed : isActive(id)
  BY DEF SearchInv, SearchType
<1>7. /\ gen.brokeAt = None /\ gen.current \in Ids /\ Rest \subseteq Ids
      /\ \A a \in ToSet(returned), b \in Rest : Before(index, a, b)
      /\ \A a \in Nat : Named(filters, index, a) => \A b \in Rest : a <= Key(index, b)
  BY <1>1, RestIs
<1>8. /\ found \in Seq(Rest) /\ InIndexOrder(found, index)
      /\ next # None => next \in Rest /\ \A k \in ToSet(found) : Before(index, k, next)
      /\ Len(found) < count => next = None
      /\ \A k \in Filtered("Accept") :
            k \in ToSet(found) \/ (next # None /\ ~ Before(index, k, next))
  BY <1>1, <1>2, <1>7, WalkIs DEF Walks
<1>a. gen \in Generators
  BY <1>1 DEF SearchInv, SearchType
<1>b. gen' = [index |-> index, filters |-> filters, current |-> next, brokeAt |-> None]
  BY <1>3, <1>7, <1>a DEF Generators
<1>c. gen'.index = index /\ gen'.filters = gen.filters /\ gen'.current = next /\ gen'.brokeAt = None
  BY <1>b
<1>d. gen' \in Generators /\ gen' # None
  <2>1. next \in Nat \cup {None}
    BY <1>2, <1>7, <1>8 
  <2>2. gen' \in Generators
    BY <1>1, <1>b, <2>1 DEF Generators
  <2> QED
    BY <2>2, ContestSearchAssumption
<1>9. /\ returned' \in Seq(Ids) /\ ToSet(returned') = ToSet(returned) \cup ToSet(found)
      /\ InIndexOrder(returned', index)
  <2>1. returned \in Seq(Ids)
    BY <1>2 DEF ToSet
  <2>2. found \in Seq(Ids) /\ ToSet(found) \subseteq Rest
    BY <1>7, <1>8 DEF ToSet
  <2>3. InIndexOrder(returned, index)
    BY <1>1 DEF SearchInv, Walked
  <2> QED
    BY <1>1, <1>2, <1>3, <1>7, <1>8, <2>1, <2>2, <2>3, InOrderAfter
<1>e. ToSet(found) \subseteq Rest
  BY <1>8 DEF ToSet
<1>10. SearchType'
  <2>1. owed' \subseteq {id \in Ids' : isActive(id)'}
    BY <1>1, <1>5, <1>6
  <2>2. out' \in BOOLEAN
    BY <1>3
  <2>3. returned' \in Seq(Nat) /\ ToSet(returned') \subseteq Ids'
    <3>1. returned' \in Seq(Nat)
      <4>1. found \in Seq(Nat)
        <5>1. Rest \subseteq Nat /\ found \in Seq(Rest)
          BY <1>2, <1>7, <1>8
        <5> QED
          BY <5>1, SeqMonotonic
      <4> QED
        BY <1>2, <1>3, <4>1
    <3> QED
      BY <1>1, <1>2, <1>7, <1>9, <1>e, <3>1
  <2>4. /\ {gen'.current, gen'.brokeAt} \subseteq Ids' \cup {None}
        /\ IF gen'.index = "ByStartTime" THEN gen'.filters = <<>> ELSE gen'.filters \in Searches
    BY <1>1, <1>7, <1>8, <1>c DEF SearchInv, SearchType
  <2> QED
    BY <1>1, <1>d, <2>1, <2>2, <2>3, <2>4 DEF SearchInv, SearchType
<1>11. Walked'
  <2>1. InIndexOrder(returned, index)'
    <3>1. \A i \in DOMAIN returned' : returned'[i] \in Ids
      BY <1>9
    <3> QED
      BY <1>5, <1>9, <1>c, <3>1 DEF InIndexOrder
  <2>2. ASSUME next # None, NEW id \in ToSet(returned')
        PROVE  Before(index, id, next)'
    <3>1. Before(index, id, next) /\ id \in Ids /\ next \in Ids
      BY <1>2, <1>7, <1>8, <1>9, <1>e, <2>2
    <3> QED
      BY <1>5, <3>1
  <2>3. out' => next = None
    BY <1>3, <1>8
  <2> QED
    BY <1>c, <2>1, <2>2, <2>3 DEF Walked
<1>12. Complete'
  <2> SUFFICES ASSUME index = "ByStartTime" \/ Intended(filters),
                      NEW id \in owed, Wanted(filters, id, voted)'
               PROVE  \/ id \in ToSet(returned')
                      \/ next # None /\ ~ Before(index, id, next)'
    BY <1>1, <1>c DEF Complete
  <2>1. id \in Ids /\ isActive(id) /\ Wanted(filters, id, voted)
    BY <1>5, <1>6
  <2>2. id \in ToSet(returned) \/ id \in Rest
    BY <1>1, <1>7, <2>1 DEF SearchInv, Complete, Rest
  <2>3. CASE id \in Rest
    <3>1. filters = <<>> \/ (filters \in Searches /\ Intended(filters))
      <4>1. CASE index = "ByStartTime"
        BY <1>1, <4>1 DEF SearchInv, SearchType
      <4>2. CASE Intended(filters)
        BY <1>1, <4>2
      <4> QED
        BY <4>1, <4>2
    <3>2. filter(gen, id) = "Accept"
      BY <1>6, <2>1, <3>1, Accepted
    <3>3. id \in Filtered("Accept")
      BY <2>1, <2>3, <3>2 DEF Filtered
    <3>4. id \in ToSet(found) \/ (next # None /\ next \in Ids /\ ~ Before(index, id, next))
      BY <1>7, <1>8, <3>3
    <3> QED
      BY <1>5, <1>9, <2>1, <3>4
  <2> QED
    BY <1>9, <2>2, <2>3
<1>13. BreaksOwn'
  BY <1>c DEF BreaksOwn
<1>14. Beyond'
  <2> SUFFICES ASSUME next # None, NEW a \in Nat, Named(filters, index, a)
               PROVE  a <= Key(index, next)'
    BY <1>c DEF Beyond
  <2>1. next \in Rest /\ next \in Ids
    BY <1>7, <1>8
  <2> QED
    BY <1>5, <1>7, <2>1
<1> QED
  BY <1>10, <1>11, <1>12, <1>13, <1>14 DEF SearchInv

-----------------------------------------------------------------------------
(* The invariant.                                                          *)
LEMMA SearchInvHolds == SearchSpec => []SearchInv
<1>1. SearchInit => SearchInv
  <2> SUFFICES ASSUME SearchInit PROVE SearchInv
    OBVIOUS
  <2>1. contestIndex = <<>> /\ returned = <<>> /\ gen = None /\ owed = {} /\ now = 1 /\ ~ out
        /\ votes = {} /\ votesThen = {} /\ out \in BOOLEAN
    BY DEF SearchInit
  <2>2. ToSet(<<>>) = {}
    BY DEF ToSet
  <2>3. SearchType
    BY <2>1, <2>2 DEF SearchType
  <2> QED
    BY <2>1, <2>3 DEF SearchInv, Walked, Complete, Beyond, BreaksOwn
<1>2. SearchInv /\ [SearchNext]_searchVars => SearchInv'
  <2> SUFFICES ASSUME SearchInv, [SearchNext]_searchVars PROVE SearchInv'
    OBVIOUS
  <2>1. ASSUME NEW draft \in Drafts, Publish(draft) PROVE SearchInv'
    BY <2>1, PublishStep
  <2>2. ASSUME NEW user \in Users, NEW id \in Ids, processDecision(user, id) PROVE SearchInv'
    BY <2>2, VoteStep
  <2>3. CASE AdvanceTime
    BY <2>3, TimeStep
  <2>4. CASE getContestFeed
    BY <2>4, FeedStep
  <2>5. ASSUME NEW filters \in Searches, searchContests(filters) PROVE SearchInv'
    BY <2>5, SearchStep
  <2>6. ASSUME NEW count \in Counts, getContests(count) PROVE SearchInv'
    <3>1. PICK index, filters, voted :
              index = gen.index /\ filters = gen.filters /\ voted = votesThen
      OBVIOUS
    <3>2. PICK w : w = Walk(count)
      OBVIOUS
    <3>3. PICK broke, found, next : broke = w.broke /\ found = w.found /\ next = w.next
      OBVIOUS
    <3>4. CASE gen.current = None
      BY <2>6, <3>1, <3>4, GetNothing
    <3>5. CASE gen.current # None /\ broke # None
      BY <2>6, <3>1, <3>2, <3>3, <3>5, GetBroken
    <3>6. CASE gen.current # None /\ broke = None
      BY <2>6, <3>1, <3>2, <3>3, <3>6, GetFound
    <3> QED
      BY <3>4, <3>5, <3>6
  <2>7. CASE UNCHANGED searchVars
    <3>1. Kept /\ SearchType'
      BY <2>7 DEF searchVars, Kept, SearchInv, SearchType, Ids, isActive, ToSet
    <3> QED
      BY <2>7, <3>1, GeneratorStays DEF searchVars
  <2> QED
    BY <2>1, <2>2, <2>3, <2>4, <2>5, <2>6, <2>7 DEF SearchNext
<1> QED
  BY <1>1, <1>2, PTL DEF SearchSpec

(* When a filter breaks, no contest behind the break matches               *)
(* (FeedGenerator.hpp:53-56), whatever the filters are.                    *)
THEOREM BreakIsSafeHolds == SearchSpec => []BreakIsSafe
<1>1. SearchInv => BreakIsSafe
  <2> SUFFICES ASSUME SearchInv, gen # None, gen.brokeAt # None,
                      NEW id \in Ids, Wanted(gen.filters, id, votes)
               PROVE  Before(gen.index, id, gen.brokeAt)
    BY DEF BreakIsSafe
  <2>1. /\ gen.index \in Indexes /\ gen.filters \in Searches \cup {<<>>}
        /\ gen.brokeAt \in Ids /\ contestIndex \in Seq(Published)
    BY DEF SearchInv, SearchType, Generators
  <2> DEFINE a == Key(gen.index, id)
  <2>2. a \in Nat
    BY <2>1, KeyType
  <2>3. ASSUME NEW i \in DOMAIN gen.filters, FilterIndex(gen.filters[i]) = gen.index
        PROVE  gen.filters[i].args[1] = a
    <3>1. gen.filters \in Searches
      BY <2>1, <2>3
    <3>2. CASE gen.filters[i].type = "coin"
      BY <2>3, <3>1, <3>2, FilterTypes DEF Wanted, Accepts, Key
    <3>3. CASE gen.filters[i].type = "creator"
      BY <2>3, <3>1, <3>3, FilterTypes DEF Wanted, Accepts, Key
    <3>4. gen.filters[i].type \in {"coin", "creator"}
      BY <2>1, <2>3, <3>1, FilterTypes DEF Indexes
    <3> QED
      BY <3>2, <3>3, <3>4
  <2>4. Named(gen.filters, gen.index, a)
    BY <2>3 DEF SearchInv, BreaksOwn, Named
  <2>5. a < Key(gen.index, gen.brokeAt)
    BY <2>2, <2>4 DEF SearchInv, Beyond
  <2> QED
    BY <2>5 DEF Before
<1> QED
  BY <1>1, SearchInvHolds, PTL

(* The app is given every contest it asked for that was there and active   *)
(* all the time, and none twice, when the server finds where each search   *)
(* begins.                                                                 *)
THEOREM EachContestOnceHolds ==
    (\A filters \in Searches : Intended(filters)) => (SearchSpec => []EachContestOnce)
<1> SUFFICES ASSUME \A filters \in Searches : Intended(filters)
             PROVE  SearchSpec => []EachContestOnce
  OBVIOUS
<1>1. SearchInv => EachContestOnce
  <2> SUFFICES ASSUME SearchInv PROVE EachContestOnce
    OBVIOUS
  <2>1. returned \in Seq(Nat) /\ ToSet(returned) \subseteq Ids /\ contestIndex \in Seq(Published)
        /\ (gen = None => returned = <<>> /\ ~ out)
    BY DEF SearchInv, SearchType
  <2>2. IsInjective(returned)
    <3>1. CASE gen = None
      BY <2>1, <3>1 DEF IsInjective
    <3>2. CASE gen # None
      <4>1. gen.index \in Indexes /\ InIndexOrder(returned, gen.index)
        BY <3>2 DEF SearchInv, SearchType, Generators, Walked
      <4>2. \A i \in DOMAIN returned : returned[i] \in Ids /\ i \in Nat
        BY <2>1 DEF ToSet
      <4>3. ASSUME NEW i \in DOMAIN returned, NEW j \in DOMAIN returned, i # j
            PROVE  returned[i] # returned[j]
        <5>1. i < j \/ j < i
          BY <4>2, <4>3
        <5>2. Before(gen.index, returned[i], returned[j]) \/ Before(gen.index, returned[j], returned[i])
          BY <4>1, <5>1 DEF InIndexOrder
        <5> QED
          BY <2>1, <4>1, <4>2, <5>2, BeforeTotal
      <4> QED
        BY <4>3 DEF IsInjective
    <3> QED
      BY <3>1, <3>2
  <2>3. ASSUME out, gen.brokeAt = None, NEW id \in owed, Wanted(gen.filters, id, votesThen)
        PROVE  id \in ToSet(returned)
    <3>1. gen # None /\ gen.current = None
      BY <2>1, <2>3 DEF SearchInv, Walked
    <3>2. gen.index = "ByStartTime" \/ Intended(gen.filters)
      <4>1. gen.index = "ByStartTime" \/ gen.filters \in Searches
        BY <3>1 DEF SearchInv, SearchType, Generators
      <4> QED
        BY <4>1
    <3> QED
      BY <2>3, <3>1, <3>2 DEF SearchInv, Complete
  <2> QED
    BY <2>2, <2>3 DEF EachContestOnce, Missed
<1> QED
  BY <1>1, SearchInvHolds, PTL

-----------------------------------------------------------------------------
(* The page's loop over new decisions is a fold: it runs from its first    *)
(* state to its last.                                                      *)

(* What the loop has come to, by the set of turns.                         *)
Turned(it, base, seq, S) ==
    it = [T \in SUBSET S |-> IF T = {} THEN base
                             ELSE AddRecord(it[T \ {Max(T)}], seq[Max(T)])]

(* There is such a function, for one turn more than it is known for.       *)
LEMMA TurnedExtends ==
    ASSUME NEW base, NEW seq, NEW n \in Nat, NEW h, Turned(h, base, seq, 1 .. n)
    PROVE  \E it : Turned(it, base, seq, 1 .. n + 1)
<1> DEFINE S == 1 .. n
           R == 1 .. n + 1
           it == [T \in SUBSET R |-> IF n + 1 \in T
                                     THEN AddRecord(h[T \ {n + 1}], seq[n + 1])
                                     ELSE h[T]]
<1>1. ASSUME NEW T \in SUBSET R
      PROVE  it[T] = IF T = {} THEN base ELSE AddRecord(it[T \ {Max(T)}], seq[Max(T)])
  <2>1. CASE n + 1 \in T
    <3> DEFINE top == Max(T)
    <3>0. n + 1 \in Nat
      OBVIOUS
    <3>1. top \in T /\ n + 1 <= top
      BY <2>1, <3>0, LastPlace
    <3> HIDE DEF top
    <3>a. top = n + 1
      <4>1. top \in 1 .. n + 1
        BY <3>1
      <4> QED
        BY <3>1, <4>1
    <3>2. Max(T) = n + 1
      BY <3>a DEF top
    <3>3. T \ {n + 1} \in SUBSET R /\ n + 1 \notin T \ {n + 1}
      OBVIOUS
    <3>4. it[T \ {n + 1}] = h[T \ {n + 1}]
      BY <3>3
    <3> QED
      BY <2>1, <3>2, <3>4
  <2>2. CASE n + 1 \notin T
    <3>1. T \in SUBSET S
      BY <2>2
    <3>2. h[T] = IF T = {} THEN base ELSE AddRecord(h[T \ {Max(T)}], seq[Max(T)])
      BY <3>1 DEF Turned
    <3>3. T \ {Max(T)} \in SUBSET R /\ n + 1 \notin T \ {Max(T)}
      BY <2>2
    <3>4. it[T \ {Max(T)}] = h[T \ {Max(T)}]
      BY <3>3
    <3> QED
      BY <2>2, <3>2, <3>4
  <2> QED
    BY <2>1, <2>2
<1>2. it = [T \in SUBSET R |-> it[T]]
  OBVIOUS
<1> HIDE DEF it, R
<1>3. it = [T \in SUBSET R |-> IF T = {} THEN base
                               ELSE AddRecord(it[T \ {Max(T)}], seq[Max(T)])]
  BY <1>1, <1>2
<1>4. Turned(it, base, seq, R)
  BY <1>3, Zenon DEF Turned
<1> QED
  BY <1>4 DEF R

(* So there is one for any number of turns.                                *)
LEMMA TurnedExists ==
    ASSUME NEW base, NEW seq, NEW n \in Nat
    PROVE  \E it : Turned(it, base, seq, 1 .. n)
<1> DEFINE C == {k \in Nat : ~ \E it : Turned(it, base, seq, 1 .. k)}
<1> SUFFICES ASSUME C # {} PROVE FALSE
  OBVIOUS
<1>1. PICK k \in C : \A j \in C : ~ (j < k)
  <2>1. C \subseteq Nat
    OBVIOUS
  <2> HIDE DEF C
  <2> QED
    BY <2>1, SmallestNumber
<1>2. k # 0
  <2> SUFFICES ASSUME k = 0 PROVE FALSE
    OBVIOUS
  <2> DEFINE z == [T \in SUBSET {} |-> base]
  <2>1. 1 .. k = {}
    OBVIOUS
  <2>2. z = [T \in SUBSET {} |-> IF T = {} THEN base
                                 ELSE AddRecord(z[T \ {Max(T)}], seq[Max(T)])]
    OBVIOUS
  <2> HIDE DEF z
  <2>3. Turned(z, base, seq, {})
    BY <2>2, Zenon DEF Turned
  <2> QED
    BY <2>1, <2>3
<1>3. k - 1 \in Nat /\ k - 1 \notin C /\ k = (k - 1) + 1
  BY <1>1, <1>2
<1>4. PICK h : Turned(h, base, seq, 1 .. k - 1)
  BY <1>3
<1>5. \E it : Turned(it, base, seq, 1 .. k)
  BY <1>3, <1>4, TurnedExtends
<1> QED
  BY <1>5

(* The loop's states, from the first to the last.                          *)
Runs(run, base, seq, n) ==
    /\ run[0] = base
    /\ \A k \in 1 .. n : run[k] = AddRecord(run[k - 1], seq[k])

(* The states the loop is in after each turn.                              *)
LEMMA TurnedRuns ==
    ASSUME NEW base, NEW seq, NEW n \in Nat, NEW it,
           Turned(it, base, seq, 1 .. n)
    PROVE  Runs([k \in 0 .. n |-> it[1 .. k]], base, seq, n)
<1> DEFINE run == [k \in 0 .. n |-> it[1 .. k]]
<1>1. run[0] = base
  <2>1. 0 \in 0 .. n /\ 1 .. 0 = {} /\ {} \in SUBSET (1 .. n)
    OBVIOUS
  <2> QED
    BY <2>1 DEF Turned
<1>2. ASSUME NEW k \in 1 .. n PROVE run[k] = AddRecord(run[k - 1], seq[k])
  <2>1. 1 .. k \in SUBSET (1 .. n) /\ k \in 1 .. k /\ (1 .. k) \ {k} = 1 .. k - 1
        /\ k \in 0 .. n /\ k - 1 \in 0 .. n /\ k \in Nat
    OBVIOUS
  <2>2. Max(1 .. k) \in 1 .. k /\ k <= Max(1 .. k)
    BY <2>1, LastPlace
  <2>3. Max(1 .. k) = k
    BY <2>1, <2>2
  <2>4. it[1 .. k] = AddRecord(it[(1 .. k) \ {Max(1 .. k)}], seq[Max(1 .. k)])
    BY <2>1 DEF Turned
  <2> QED
    BY <2>1, <2>3, <2>4
<1> QED
  BY <1>1, <1>2 DEF Runs

(* The page's loop runs.                                                   *)
LEMMA AddRecordRuns ==
    ASSUME NEW base, NEW seq, NEW n \in Nat, DOMAIN seq = 1 .. n
    PROVE  \E run : /\ Runs(run, base, seq, n)
                    /\ FoldLeft(AddRecord, base, seq) = run[n]
<1> DEFINE U(it) == it = [T \in SUBSET (1 .. n) |-> IF T = {} THEN base
                             ELSE AddRecord(it[T \ {Max(T)}], seq[Max(T)])]
           it == CHOOSE it : U(it)
<1>1. ASSUME NEW h PROVE U(h) <=> Turned(h, base, seq, 1 .. n)
  BY DEF Turned
<1>2. U(it)
  <2>1. \E h : U(h)
    BY <1>1, TurnedExists
  <2> HIDE DEF U
  <2> QED
    BY <2>1, Zenon
<1>3. FoldLeft(AddRecord, base, seq) = it[1 .. n]
  BY Zenon DEF FoldLeft, MapThenFoldSet
<1> HIDE DEF it, U
<1>4. Runs([k \in 0 .. n |-> it[1 .. k]], base, seq, n)
  BY <1>1, <1>2, TurnedRuns
<1> QED
  BY <1>3, <1>4

-----------------------------------------------------------------------------
(* The decision list.                                                      *)

Value == [id : Nat, counted : BOOLEAN]

Chain == [state : {"opening", "asking", "answered", "done", "failed"},
          snapshot : Seq(Nat), ids : Seq(Nat), batch : Seq(Value), returned : Seq(Value)]

InListOrder(s) == \A i, j \in DOMAIN s : i < j => ByVoter(s[i], s[j])

(* The p-th decision of a list is the last one of its voter.               *)
Ends(s, p) == p = Len(s) \/ cast[s[p]] # cast[s[p + 1]]

(* What a chain was given is the start of its snapshot.                    *)
Given(c) ==
    LET s == c.snapshot
        r == c.returned
    IN  /\ c \in Chain
        /\ s \in Seq(DOMAIN cast) /\ InListOrder(s)
        /\ Len(r) <= Len(s) /\ c.ids = SubSeq(s, Len(r) + 1, Len(s))
        /\ \A i \in 1 .. Len(r) : r[i].id = s[i] /\ (r[i].counted <=> Ends(s, i))
        /\ c.state = "opening" => s = <<>>

SnapshotInv == cast \in Seq(Voters) /\ chains \in Seq(Chain)
               /\ \A f \in DOMAIN chains : Given(chains[f])

(* The snapshot lists the decisions by voter.                              *)
LEMMA SnapshotIs ==
    ASSUME cast \in Seq(Voters)
    PROVE  Snapshot \in Seq(DOMAIN cast) /\ InListOrder(Snapshot)
<1> DEFINE n == Len(cast)
           D == DOMAIN cast
<1>1. n \in Nat /\ D = 1 .. n /\ cast \in [D -> Nat] /\ D \subseteq Nat
  BY DecisionListAssumption
<1>2. IsFiniteSet(D) /\ Cardinality(D) = n
  <2>1. IsFiniteSet(1 .. n) /\ Cardinality(1 .. n) = n
    <3>1. n \in Nat
      BY <1>1
    <3> HIDE DEF n
    <3> QED
      BY <3>1, FS_Interval
  <2> QED
    BY <1>1, <2>1
<1> HIDE DEF D
<1>3. PICK s : Ordered(s, cast, D)
  BY <1>1, <1>2, OrderExists
<1>4. s \in [D -> D] /\ \A i, j \in DOMAIN s : i < j => ByVoter(s[i], s[j])
  BY <1>1, <1>2, <1>3 DEF Ordered, Earlier, ByVoter
<1>5. Snapshot \in [D -> D] /\ \A i, j \in DOMAIN Snapshot : i < j => ByVoter(Snapshot[i], Snapshot[j])
  BY <1>4 DEF Snapshot, D
<1>6. Snapshot \in Seq(D)
  BY <1>1, <1>5
<1> QED
  BY <1>5, <1>6 DEF InListOrder, D

(* A voter's last decision of a list in order is the newest.               *)
LEMMA LastCounts ==
    ASSUME cast \in Seq(Voters), NEW s \in Seq(DOMAIN cast), InListOrder(s),
           NEW p \in 1 .. Len(s)
    PROVE  /\ Ends(s, p) <=> ~ \E d \in ToSet(s) : cast[d] = cast[s[p]] /\ d > s[p]
           /\ Ends(s, p) => \A q \in p + 1 .. Len(s) : cast[s[p]] < cast[s[q]]
<1> DEFINE n == Len(s)
<1>1. /\ n \in Nat /\ DOMAIN s = 1 .. n /\ \A i \in 1 .. n : s[i] \in DOMAIN cast /\ s[i] \in Nat
      /\ \A d \in DOMAIN cast : cast[d] \in Nat
  <2>1. \A d \in DOMAIN cast : cast[d] \in Nat /\ d \in Nat
    <3>1. DOMAIN cast = 1 .. Len(cast) /\ \A d \in DOMAIN cast : cast[d] \in Voters
      OBVIOUS
    <3>2. Voters \subseteq Nat
      BY DecisionListAssumption
    <3>3. \A d \in 1 .. Len(cast) : d \in Nat
      OBVIOUS
    <3> QED
      BY <3>1, <3>2, <3>3
  <2>2. \A i \in 1 .. n : s[i] \in DOMAIN cast
    OBVIOUS
  <2> QED
    BY <2>1, <2>2
<1>a. n \in Nat /\ p \in 1 .. n
  OBVIOUS
<1>2. \A i, j \in 1 .. n : i < j => ByVoter(s[i], s[j])
  BY <1>1 DEF InListOrder
<1>3. ASSUME Ends(s, p), NEW q \in p + 1 .. n PROVE cast[s[p]] < cast[s[q]]
  <2>1. p + 1 \in 1 .. n /\ p < p + 1 /\ q \in 1 .. n /\ (q = p + 1 \/ p + 1 < q)
    BY <1>1
  <2>2. cast[s[p]] # cast[s[p + 1]]
    <3>1. p # n
      BY <1>a, <2>1, p < p + 1
    <3> QED
      BY <1>3, <3>1 DEF Ends
  <2>3. ByVoter(s[p], s[p + 1]) /\ (q = p + 1 \/ ByVoter(s[p + 1], s[q]))
    BY <1>2, <2>1
  <2>4. cast[s[p]] \in Nat /\ cast[s[p + 1]] \in Nat /\ cast[s[q]] \in Nat
    BY <1>1, <2>1
  <2>5. cast[s[p]] < cast[s[p + 1]]
    BY <2>2, <2>3, <2>4 DEF ByVoter
  <2>6. cast[s[p + 1]] <= cast[s[q]]
    <3>1. CASE q = p + 1
      BY <2>4, <3>1
    <3>2. CASE ByVoter(s[p + 1], s[q])
      <4>1. PICK u, v : u = cast[s[p + 1]] /\ v = cast[s[q]]
        OBVIOUS
      <4>2. u \in Nat /\ v \in Nat
        BY <2>4, <4>1
      <4>3. u < v \/ u = v
        BY <3>2, <4>1, Zenon DEF ByVoter
      <4>4. u <= v
        BY <4>2, <4>3
      <4> QED
        BY <4>1, <4>4
    <3> QED
      BY <2>3, <3>1, <3>2
  <2>7. \A x, y, z \in Nat : x < y /\ y <= z => x < z
    OBVIOUS
  <2> QED
    BY <2>4, <2>5, <2>6, <2>7
<1>4. ASSUME Ends(s, p), NEW d \in ToSet(s), cast[d] = cast[s[p]] PROVE ~ (d > s[p])
  <2>1. PICK q \in 1 .. n : d = s[q]
    BY <1>1 DEF ToSet
  <2>2. CASE q = p
    BY <1>1, <2>1, <2>2
  <2>3. CASE q < p
    <3>1. ByVoter(s[q], s[p]) /\ s[q] \in Nat /\ s[p] \in Nat /\ cast[s[p]] \in Nat
      BY <1>1, <1>2, <2>3
    <3> QED
      BY <1>4, <2>1, <3>1 DEF ByVoter
  <2>4. CASE p < q
    <3>1. q \in p + 1 .. n
      BY <1>1, <2>4
    <3>2. cast[s[p]] < cast[s[q]] /\ cast[s[p]] \in Nat
      BY <1>1, <1>3, <1>4, <3>1
    <3> QED
      BY <1>4, <2>1, <3>2
  <2> QED
    BY <1>1, <2>2, <2>3, <2>4
<1>5. ASSUME ~ Ends(s, p) PROVE \E d \in ToSet(s) : cast[d] = cast[s[p]] /\ d > s[p]
  <2>1. p + 1 \in 1 .. n /\ cast[s[p]] = cast[s[p + 1]] /\ p < p + 1
    <3>1. p # n /\ cast[s[p]] = cast[s[p + 1]]
      BY <1>5 DEF Ends
    <3> HIDE DEF n
    <3> QED
      BY <1>a, <3>1
  <2>2. ByVoter(s[p], s[p + 1]) /\ s[p] \in Nat /\ s[p + 1] \in Nat /\ cast[s[p]] \in Nat
    BY <1>1, <1>2, <2>1
  <2>3. s[p + 1] > s[p]
    BY <2>1, <2>2 DEF ByVoter
  <2>4. s[p + 1] \in ToSet(s)
    BY <1>1, <2>1 DEF ToSet
  <2> QED
    BY <2>1, <2>3, <2>4
<1> QED
  BY <1>3, <1>4, <1>5

(* What is left of a list.                                                 *)
LEMMA RestOf ==
    ASSUME NEW S, NEW s \in Seq(S), NEW k \in 0 .. Len(s)
    PROVE  /\ SubSeq(s, k + 1, Len(s)) \in Seq(S)
           /\ Len(SubSeq(s, k + 1, Len(s))) = Len(s) - k
           /\ \A i \in 1 .. Len(s) - k : SubSeq(s, k + 1, Len(s))[i] = s[k + i]
<1> DEFINE L == Len(s)
           m == k + 1
           ids == SubSeq(s, m, L)
<1>1. L \in Nat /\ m \in Int /\ k \in Nat /\ k <= L /\ \A i \in m .. L : s[i] \in S
  OBVIOUS
<1> HIDE DEF L, m
<1>2. /\ ids \in Seq(S)
      /\ Len(ids) = IF m <= L THEN L - m + 1 ELSE 0
      /\ \A i \in 1 .. L - m + 1 : ids[i] = s[m + i - 1]
  BY <1>1, SubSeqProperties
<1>3. Len(ids) = L - k
  BY <1>1, <1>2 DEF m
<1>4. L - m + 1 = L - k /\ \A i \in Int : m + i - 1 = k + i
  BY <1>1 DEF m
<1> HIDE DEF ids
<1>5. \A i \in 1 .. L - k : ids[i] = s[k + i]
  BY <1>2, <1>4
<1> QED
  BY <1>2, <1>3, <1>5 DEF ids, m, L

(* What is left of what is left.                                           *)
LEMMA RestOfRest ==
    ASSUME NEW S, NEW s \in Seq(S), NEW k \in 0 .. Len(s), NEW n \in 0 .. Len(s) - k,
           NEW ids, ids = SubSeq(s, k + 1, Len(s))
    PROVE  SubSeq(ids, n + 1, Len(ids)) = SubSeq(s, k + n + 1, Len(s))
<1> DEFINE t == SubSeq(ids, n + 1, Len(ids))
           u == SubSeq(s, k + n + 1, Len(s))
<1>1. /\ ids \in Seq(S) /\ Len(ids) = Len(s) - k
      /\ \A i \in 1 .. Len(s) - k : ids[i] = s[k + i]
  BY RestOf
<1>2. n \in 0 .. Len(ids) /\ k + n \in 0 .. Len(s) /\ Len(s) \in Nat /\ k \in Nat /\ n \in Nat
  BY <1>1
<1>3. /\ t \in Seq(S) /\ Len(t) = Len(ids) - n
      /\ \A i \in 1 .. Len(ids) - n : t[i] = ids[n + i]
  BY <1>1, <1>2, RestOf
<1>4. /\ u \in Seq(S) /\ Len(u) = Len(s) - (k + n)
      /\ \A i \in 1 .. Len(s) - (k + n) : u[i] = s[k + n + i]
  BY <1>2, RestOf
<1> HIDE DEF t, u
<1>5. Len(t) = Len(u) /\ Len(t) = Len(s) - k - n
  BY <1>1, <1>2, <1>3, <1>4
<1>6. ASSUME NEW i \in 1 .. Len(t) PROVE t[i] = u[i]
  <2>1. n + i \in 1 .. Len(s) - k /\ i \in 1 .. Len(ids) - n /\ i \in 1 .. Len(s) - (k + n)
        /\ k + (n + i) = k + n + i
    BY <1>1, <1>2, <1>5
  <2> QED
    BY <1>1, <1>3, <1>4, <2>1
<1>7. t = u
  BY <1>3, <1>4, <1>5, <1>6, SeqEqual
<1> QED
  BY <1>7 DEF t, u

(* Are these the values of the n decisions of a list after the k-th?      *)
ValuesOf(values, s, k, n) ==
    /\ values \in Seq(Value) /\ Len(values) = n
    /\ \A i \in 1 .. n : /\ values[i].id = s[k + i]
                         /\ values[i].counted <=> Ends(s, k + i)

(* The values of what is left of a list.                                   *)
LEMMA ValuesAre ==
    ASSUME cast \in Seq(Voters), NEW s \in Seq(DOMAIN cast), NEW k \in 0 .. Len(s),
           NEW ids, ids = SubSeq(s, k + 1, Len(s)), NEW n \in 0 .. Len(s) - k,
           NEW values, values = Values(ids, n)
    PROVE  ValuesOf(values, s, k, n)
<1> DEFINE L == Len(s)
           l == L - k
<1>1. L \in Nat /\ k \in Nat /\ n \in Nat /\ n <= l /\ k <= L
  OBVIOUS
<1>2. \A i \in 1 .. L : s[i] \in Nat
  OBVIOUS
<1>3. ids \in Seq(DOMAIN cast) /\ Len(ids) = l /\ \A i \in 1 .. l : ids[i] = s[k + i]
  BY RestOf
<1> HIDE DEF L
<1>4. ASSUME NEW i \in 1 .. n, NEW t, t = SubSeq(ids, i, l)
      PROVE  /\ firstDecisionWasCounted(t) <=> Ends(s, k + i)
             /\ firstDecisionWasCounted(t) \in BOOLEAN
  <2> DEFINE m == i - 1
  <2>1. m \in 0 .. l /\ i = m + 1 /\ l = Len(ids)
    <3>1. i \in Nat /\ 1 <= i /\ i <= n
      BY <1>1
    <3>2. l \in Nat /\ n <= l /\ l = Len(ids)
      <4>1. l \in Nat /\ n <= l
        BY <1>1
      <4>2. Len(ids) = l
        BY <1>3
      <4> QED
        BY <4>1, <4>2
    <3>3. \A x, y, z \in Nat : 1 <= x /\ x <= y /\ y <= z => x - 1 \in 0 .. z /\ x = x - 1 + 1
      OBVIOUS
    <3> QED
      BY <1>1, <3>1, <3>2, <3>3
  <2>2. /\ Len(t) = l - m /\ \A j \in 1 .. l - m : t[j] = ids[m + j]
    <3>1. t = SubSeq(ids, m + 1, Len(ids))
      BY <1>4, <2>1
    <3>2. m \in 0 .. Len(ids)
      BY <2>1
    <3> HIDE DEF m
    <3> QED
      BY <1>3, <2>1, <3>1, <3>2, RestOf
  <2>3. CASE i = l
    <3>1. Len(t) = 1 /\ k + i = L
      BY <1>1, <2>1, <2>2, <2>3
    <3> QED
      BY <3>1 DEF firstDecisionWasCounted, Ends, L
  <2>4. CASE i < l
    <3>1. Len(t) >= 2 /\ 1 \in 1 .. l - m /\ 2 \in 1 .. l - m
          /\ m + 1 = i /\ m + 2 = i + 1 /\ i \in 1 .. l /\ i + 1 \in 1 .. l
          /\ k + (i + 1) = k + i + 1 /\ k + i # L
      BY <1>1, <2>1, <2>2, <2>4
    <3>2. t[1] = s[k + i] /\ t[2] = s[k + i + 1]
      <4>1. t[1] = ids[i] /\ t[2] = ids[i + 1]
        BY <2>2, <3>1
      <4>2. ids[i] = s[k + i] /\ ids[i + 1] = s[k + i + 1]
        BY <1>3, <3>1
      <4> QED
        BY <4>1, <4>2
    <3>3. ~ (Len(t) < 2)
      BY <1>1, <2>2, <3>1
    <3> QED
      BY <3>1, <3>2, <3>3 DEF firstDecisionWasCounted, Ends, L
  <2> QED
    BY <1>1, <2>3, <2>4
<1>5. Values(ids, n) = [i \in 1 .. n |-> [id |-> ids[i],
                            counted |-> firstDecisionWasCounted(SubSeq(ids, i, l))]]
  BY <1>3 DEF Values
<1> DEFINE v == Values(ids, n)
<1>6. ASSUME NEW i \in 1 .. n
      PROVE v[i].id = s[k + i] /\ (v[i].counted <=> Ends(s, k + i)) /\ v[i] \in Value
  <2>1. ids[i] = s[k + i] /\ ids[i] \in Nat
    <3>1. i \in 1 .. l /\ k + i \in 1 .. L
      BY <1>1
    <3> QED
      BY <1>2, <1>3, <3>1
  <2>2. PICK c : c = firstDecisionWasCounted(SubSeq(ids, i, l))
    OBVIOUS
  <2>3. v[i] = [id |-> ids[i], counted |-> c]
    BY <1>5, <2>2
  <2>4. (c <=> Ends(s, k + i)) /\ c \in BOOLEAN
    BY <1>4, <2>2
  <2> HIDE DEF v
  <2>5. v[i] \in Value
    BY <2>1, <2>3, <2>4 DEF Value
  <2> QED
    BY <2>1, <2>3, <2>4, <2>5
<1>7. v \in Seq(Value) /\ Len(v) = n
  <2>1. v \in [1 .. n -> Value] /\ n \in Nat
    BY <1>1, <1>5, <1>6
  <2> HIDE DEF v
  <2> QED
    BY <2>1
<1> QED
  BY <1>6, <1>7 DEF ValuesOf

(* The same, with nothing said of where the list comes from.               *)
LEMMA ValuesAfter ==
    ASSUME NEW s, NEW k, NEW n, NEW ids, NEW values,
           cast \in Seq(Voters), s \in Seq(DOMAIN cast), k \in 0 .. Len(s),
           n \in 0 .. Len(s) - k, ids = SubSeq(s, k + 1, Len(s)), values = Values(ids, n)
    PROVE  ValuesOf(values, s, k, n)
BY ValuesAre, Zenon

(* The page's groups of the first e decisions of a list, and of the first k *)
(* of them, the last of which may still be pending.                        *)
OneGroupEach(groups, s, e) ==
    /\ {groups[i].voter : i \in DOMAIN groups} = {cast[s[q]] : q \in 1 .. e}
    /\ \A i, j \in DOMAIN groups : groups[i].voter = groups[j].voter => i = j
    /\ \A i \in DOMAIN groups : /\ AreDecisionsOf(groups[i].records, s, groups[i].voter)
                                /\ groups[i].voter = Me => i = 1

GroupSet == [voter : Nat, records : Seq(Nat)]

Pages == [pending : Seq(Nat), final : Seq(GroupSet), shown : Seq(GroupSet)]

Grouped(page, s, k, e) ==
    /\ page \in Pages /\ e \in 0 .. k
    /\ e = 0 \/ Ends(s, e)
    /\ k > e => ~ Ends(s, k)
    /\ \A q \in e + 1 .. k : cast[s[q]] = cast[s[e + 1]]
    /\ Len(page.pending) = k - e /\ \A j \in 1 .. k - e : page.pending[j] = s[e + j]
    /\ OneGroupEach(page.final, s, e)
    /\ e > 0 => page.shown = page.final

(* A group goes to its place among others.                                 *)
LEMMA GroupPlaced ==
    ASSUME NEW groups \in Seq(GroupSet), NEW group \in GroupSet, NEW s, NEW e \in Nat, NEW k \in Nat,
           e <= k, OneGroupEach(groups, s, e),
           group.voter \notin {cast[s[q]] : q \in 1 .. e},
           {cast[s[q]] : q \in 1 .. k} = {cast[s[q]] : q \in 1 .. e} \cup {group.voter},
           AreDecisionsOf(group.records, s, group.voter),
           NEW more, more = IF group.voter = Me THEN <<group>> \o groups ELSE Append(groups, group)
    PROVE  more \in Seq(GroupSet) /\ OneGroupEach(more, s, k)
<1> DEFINE n == Len(groups)
<1>1. n \in Nat /\ DOMAIN groups = 1 .. n /\ \A i \in 1 .. n : groups[i] \in GroupSet
  OBVIOUS
<1> HIDE DEF n
<1>2. ASSUME NEW i \in 1 .. n PROVE groups[i].voter # group.voter
  <2>1. groups[i].voter \in {groups[j].voter : j \in DOMAIN groups}
    BY <1>1
  <2> QED
    BY <2>1 DEF OneGroupEach
<1>3. CASE group.voter = Me
  <2>1. more = <<group>> \o groups
    BY <1>3
  <2>2. /\ more \in Seq(GroupSet) /\ Len(more) = n + 1 /\ more[1] = group
        /\ \A i \in 2 .. n + 1 : more[i] = groups[i - 1]
    BY <1>1, <2>1 DEF n
  <2> HIDE <2>1
  <2>3. DOMAIN more = 1 .. n + 1 /\ \A i \in 1 .. n + 1 : i = 1 \/ (i - 1 \in 1 .. n /\ more[i] = groups[i - 1])
    BY <1>1, <2>2
  <2>4. \A i \in 1 .. n : i + 1 \in 1 .. n + 1 /\ more[i + 1] = groups[i]
    BY <1>1, <2>2
  <2>5. {more[i].voter : i \in DOMAIN more} = {groups[i].voter : i \in DOMAIN groups} \cup {group.voter}
    <3>1. ASSUME NEW i \in 1 .. n + 1
          PROVE  more[i].voter \in {groups[j].voter : j \in 1 .. n} \cup {group.voter}
      BY <2>2, <2>3
    <3>2. ASSUME NEW i \in 1 .. n PROVE groups[i].voter \in {more[j].voter : j \in 1 .. n + 1}
      BY <2>4
    <3>3. group.voter \in {more[j].voter : j \in 1 .. n + 1}
      <4>1. 1 \in 1 .. n + 1
        BY <1>1
      <4> QED
        BY <2>2, <4>1
    <3> DEFINE new == {more[i].voter : i \in 1 .. n + 1}
               old == {groups[i].voter : i \in 1 .. n}
    <3>4. new \subseteq old \cup {group.voter}
      BY <3>1
    <3>5. old \subseteq new
      BY <3>2
    <3> HIDE DEF new, old
    <3>6. new = old \cup {group.voter}
      BY <3>3, <3>4, <3>5 DEF new
    <3> QED
      BY <1>1, <2>3, <3>6 DEF new, old
  <2>6. ASSUME NEW i \in 1 .. n + 1, NEW j \in 1 .. n + 1, more[i].voter = more[j].voter
        PROVE  i = j
    <3>1. CASE i = 1 \/ j = 1
      BY <1>2, <2>2, <2>3, <2>6, <3>1
    <3>2. CASE i # 1 /\ j # 1
      <4>1. i - 1 \in 1 .. n /\ j - 1 \in 1 .. n /\ groups[i - 1].voter = groups[j - 1].voter
        BY <2>3, <2>6, <3>2
      <4>2. i - 1 = j - 1
        BY <1>1, <4>1 DEF OneGroupEach
      <4> QED
        BY <4>2
    <3> QED
      BY <3>1, <3>2
  <2>7. ASSUME NEW i \in 1 .. n + 1
        PROVE  AreDecisionsOf(more[i].records, s, more[i].voter) /\ (more[i].voter = Me => i = 1)
    BY <1>1, <1>2, <1>3, <2>2, <2>3 DEF OneGroupEach
  <2> QED
    BY <2>2, <2>3, <2>5, <2>6, <2>7 DEF OneGroupEach
<1>4. CASE group.voter # Me
  <2>1. more = Append(groups, group)
    BY <1>4
  <2>2. /\ more \in Seq(GroupSet) /\ Len(more) = n + 1 /\ more[n + 1] = group
        /\ \A i \in 1 .. n : more[i] = groups[i]
    <3>1. more \in Seq(GroupSet) /\ Len(more) = Len(groups) + 1 /\ more[Len(groups) + 1] = group
      BY <2>1
    <3>2. \A i \in 1 .. Len(groups) : more[i] = groups[i]
      BY <2>1
    <3> QED
      BY <3>1, <3>2 DEF n
  <2> HIDE <2>1
  <2>3. DOMAIN more = 1 .. n + 1 /\ \A i \in 1 .. n + 1 : i = n + 1 \/ i \in 1 .. n
    BY <1>1, <2>2
  <2>4. \A i \in 1 .. n : i \in 1 .. n + 1
    BY <1>1
  <2>5. {more[i].voter : i \in DOMAIN more} = {groups[i].voter : i \in DOMAIN groups} \cup {group.voter}
    <3>1. ASSUME NEW i \in 1 .. n + 1
          PROVE  more[i].voter \in {groups[j].voter : j \in 1 .. n} \cup {group.voter}
      BY <2>2, <2>3
    <3>2. ASSUME NEW i \in 1 .. n PROVE groups[i].voter \in {more[j].voter : j \in 1 .. n + 1}
      BY <2>2, <2>4
    <3>3. group.voter \in {more[j].voter : j \in 1 .. n + 1}
      <4>1. n + 1 \in 1 .. n + 1
        BY <1>1
      <4> QED
        BY <2>2, <4>1
    <3> DEFINE new == {more[i].voter : i \in 1 .. n + 1}
               old == {groups[i].voter : i \in 1 .. n}
    <3>4. new \subseteq old \cup {group.voter}
      BY <3>1
    <3>5. old \subseteq new
      BY <3>2
    <3> HIDE DEF new, old
    <3>6. new = old \cup {group.voter}
      BY <3>3, <3>4, <3>5 DEF new
    <3> QED
      BY <1>1, <2>3, <3>6 DEF new, old
  <2>6. ASSUME NEW i \in 1 .. n + 1, NEW j \in 1 .. n + 1, more[i].voter = more[j].voter
        PROVE  i = j
    <3>1. CASE i \in 1 .. n /\ j \in 1 .. n
      BY <1>1, <2>2, <2>6, <3>1 DEF OneGroupEach
    <3>2. CASE i = n + 1 \/ j = n + 1
      BY <1>2, <2>2, <2>3, <2>6, <3>2
    <3> QED
      BY <2>3, <3>1, <3>2
  <2>7. ASSUME NEW i \in 1 .. n + 1
        PROVE  AreDecisionsOf(more[i].records, s, more[i].voter) /\ (more[i].voter = Me => i = 1)
    BY <1>1, <1>4, <2>2, <2>3 DEF OneGroupEach
  <2> QED
    BY <2>2, <2>3, <2>5, <2>6, <2>7 DEF OneGroupEach
<1> QED
  BY <1>3, <1>4

(* The i-th decision after the e-th one.                                   *)
LEMMA Places ==
    ASSUME NEW e \in Nat, NEW k \in Nat, NEW L \in Nat, k <= L
    PROVE  /\ \A i \in 1 .. k - e : e + i \in e + 1 .. k /\ e + i \in 1 .. L
           /\ \A i, j \in 1 .. k - e : i < j => e + i < e + j
  OBVIOUS

(* The decisions of a list that the page takes to be one voter's are all   *)
(* of that voter's.                                                        *)
LEMMA GroupIsWhole ==
    ASSUME cast \in Seq(Voters), NEW s \in Seq(DOMAIN cast), InListOrder(s),
           NEW k \in 1 .. Len(s), NEW e \in Nat, e < k, e = 0 \/ Ends(s, e), Ends(s, k),
           \A q \in e + 1 .. k : cast[s[q]] = cast[s[k]],
           NEW records, records \in Seq(Nat), Len(records) = k - e,
           \A j \in 1 .. k - e : records[j] = s[e + j]
    PROVE  /\ AreDecisionsOf(records, s, cast[s[k]])
           /\ \A q \in 1 .. e : cast[s[q]] # cast[s[k]]
<1> DEFINE L == Len(s)
<1>1. L \in Nat /\ DOMAIN s = 1 .. L /\ k \in Nat /\ k <= L /\ k \in 1 .. L
      /\ DOMAIN records = 1 .. k - e
  OBVIOUS
<1>2. \A q \in 1 .. L : s[q] \in DOMAIN cast /\ s[q] \in Nat
  OBVIOUS
<1>3. \A q \in 1 .. L : cast[s[q]] \in Nat
  <2>1. \A d \in DOMAIN cast : cast[d] \in Voters
    OBVIOUS
  <2>2. Voters \subseteq Nat
    BY DecisionListAssumption
  <2> QED
    BY <1>2, <2>1, <2>2
<1>4. \A i, j \in 1 .. L : i < j => ByVoter(s[i], s[j])
  BY <1>1 DEF InListOrder
<1>a. PICK v : v = cast[s[k]]
  OBVIOUS
<1>b. v \in Nat /\ \A q \in e + 1 .. k : cast[s[q]] = v
  BY <1>1, <1>3, <1>a
<1>5. \A q \in k + 1 .. L : v < cast[s[q]]
  BY <1>a, LastCounts
<1> HIDE DEF L
<1>6. ASSUME NEW q \in 1 .. e PROVE cast[s[q]] < v
  <2>1. e \in 1 .. L /\ e + 1 \in e + 1 .. k /\ e # 0 /\ e + 1 \in 1 .. L /\ q \in 1 .. L
    BY <1>1
  <2>2. Ends(s, e)
    BY <2>1
  <2>3. cast[s[e]] < cast[s[e + 1]]
    <3>1. \A i \in e + 1 .. L : cast[s[e]] < cast[s[i]]
      BY <2>1, <2>2, LastCounts DEF L
    <3>2. e + 1 \in e + 1 .. L
      BY <1>1
    <3> QED
      BY <3>1, <3>2
  <2>4. cast[s[e + 1]] = v
    BY <1>b, <2>1
  <2>5. q = e \/ ByVoter(s[q], s[e])
    BY <1>4, <2>1
  <2>6. cast[s[q]] <= cast[s[e]]
    <3>1. cast[s[q]] \in Nat /\ cast[s[e]] \in Nat
      BY <1>3, <2>1
    <3>2. q = e \/ cast[s[q]] < cast[s[e]] \/ cast[s[q]] = cast[s[e]]
      BY <2>5 DEF ByVoter
    <3>3. \A x, y \in Nat : x < y \/ x = y => x <= y
      OBVIOUS
    <3>4. cast[s[q]] < cast[s[e]] \/ cast[s[q]] = cast[s[e]]
      BY <3>2
    <3> QED
      BY <3>1, <3>3, <3>4
  <2>7. cast[s[q]] \in Nat /\ cast[s[e]] \in Nat
    BY <1>3, <2>1
  <2>8. cast[s[e]] < v
    BY <2>3, <2>4
  <2>9. \A x, y, z \in Nat : x <= y /\ y < z => x < z
    OBVIOUS
  <2> QED
    BY <1>b, <2>6, <2>7, <2>8, <2>9
<1>7. ASSUME NEW d \in ToSet(records) PROVE d \in ToSet(s) /\ cast[d] = v
  <2>1. PICK j \in 1 .. k - e : d = records[j]
    BY <1>1 DEF ToSet
  <2>2. e + j \in e + 1 .. k /\ e + j \in 1 .. L
    BY <1>1
  <2>3. d = s[e + j]
    BY <2>1
  <2> QED
    BY <1>1, <1>b, <2>2, <2>3 DEF ToSet
<1>8. ASSUME NEW d \in ToSet(s), cast[d] = v PROVE d \in ToSet(records)
  <2>1. PICK q \in 1 .. L : d = s[q]
    BY <1>1 DEF ToSet
  <2>2. cast[s[q]] = v /\ ~ (v < v)
    BY <1>b, <1>8, <2>1
  <2>3. ~ (q \in 1 .. e)
    BY <1>6, <2>2
  <2>4. ~ (q \in k + 1 .. L)
    BY <1>5, <2>2
  <2>5. q - e \in 1 .. k - e /\ e + (q - e) = q
    BY <1>1, <2>3, <2>4
  <2>6. records[q - e] = d
    BY <2>1, <2>5
  <2> QED
    BY <1>1, <2>5, <2>6 DEF ToSet
<1>9. ASSUME NEW i \in DOMAIN records, NEW j \in DOMAIN records, i < j
      PROVE  records[i] < records[j]
  <2>0. i \in 1 .. k - e /\ j \in 1 .. k - e
    BY <1>1, <1>9
  <2>1. i \in 1 .. k - e /\ j \in 1 .. k - e /\ e + i \in e + 1 .. k /\ e + j \in e + 1 .. k
        /\ e + i < e + j /\ e + i \in 1 .. L /\ e + j \in 1 .. L
    <3>1. k \in Nat /\ k <= L /\ L \in Nat
      BY <1>1
    <3> QED
      BY <1>9, <2>0, <3>1, Places
  <2>2. ByVoter(s[e + i], s[e + j]) /\ cast[s[e + i]] = v /\ cast[s[e + j]] = v /\ v \in Nat
    <3>1. ByVoter(s[e + i], s[e + j])
      BY <1>4, <2>1
    <3>2. cast[s[e + i]] = v /\ cast[s[e + j]] = v
      BY <1>b, <2>1
    <3> QED
      BY <1>b, <3>1, <3>2
  <2>3. s[e + i] < s[e + j]
    BY <2>2 DEF ByVoter
  <2> QED
    BY <2>1, <2>3
<1>10. \A q \in 1 .. e : cast[s[q]] # v
  <2>1. ~ (v < v)
    BY <1>b
  <2> QED
    BY <1>6, <2>1
<1>11. ToSet(records) = {d \in ToSet(s) : cast[d] = v}
  BY <1>7, <1>8
<1> QED
  BY <1>a, <1>9, <1>10, <1>11 DEF AreDecisionsOf

(* A turn of the page's loop.                                              *)
LEMMA AddRecordGroups ==
    ASSUME cast \in Seq(Voters), NEW s \in Seq(DOMAIN cast), InListOrder(s),
           NEW k \in Nat, k + 1 <= Len(s), NEW e, NEW page, Grouped(page, s, k, e),
           NEW value \in Value, value.id = s[k + 1], value.counted <=> Ends(s, k + 1)
    PROVE  \E f : Grouped(AddRecord(page, value), s, k + 1, f)
<1> DEFINE n == k + 1
           records == Append(page.pending, value.id)
           group == [voter |-> cast[Last(records)], records |-> records]
           more == IF group.voter = Me THEN <<group>> \o page.final ELSE Append(page.final, group)
           next == AddRecord(page, value)
<1>1. /\ page \in Pages /\ e \in 0 .. k /\ e \in Nat /\ (e = 0 \/ Ends(s, e)) /\ (k > e => ~ Ends(s, k))
      /\ \A q \in e + 1 .. k : cast[s[q]] = cast[s[e + 1]]
      /\ Len(page.pending) = k - e /\ \A j \in 1 .. k - e : page.pending[j] = s[e + j]
      /\ OneGroupEach(page.final, s, e)
      /\ e > 0 => page.shown = page.final
  BY DEF Grouped
<1>2. page.pending \in Seq(Nat) /\ page.final \in Seq(GroupSet) /\ page.shown \in Seq(GroupSet)
  BY <1>1 DEF Pages
<1>3. value.id \in Nat /\ value.counted \in BOOLEAN
  BY DEF Value
<1>4. n \in 1 .. Len(s) /\ n \in Nat /\ k < n /\ e < n /\ e \in 0 .. n /\ n > e
  BY <1>1
<1>5. /\ records \in Seq(Nat) /\ Len(records) = n - e /\ Last(records) = s[n]
      /\ \A j \in 1 .. n - e : records[j] = s[e + j]
  <2> DEFINE l == k - e
  <2>1. l \in Nat /\ Len(page.pending) = l /\ n - e = l + 1 /\ e + (l + 1) = n
    BY <1>1
  <2>2. records \in Seq(Nat) /\ Len(records) = l + 1 /\ records[l + 1] = s[n]
    BY <1>2, <1>3, <2>1
  <2>3. \A j \in 1 .. l : records[j] = page.pending[j]
    BY <1>2, <1>3, <2>1
  <2>4. \A j \in 1 .. l + 1 : j \in 1 .. l \/ j = l + 1
    BY <2>1
  <2> HIDE DEF records
  <2>5. Last(records) = s[n]
    BY <2>2 DEF Last
  <2>6. \A j \in 1 .. l + 1 : records[j] = s[e + j]
    BY <1>1, <2>1, <2>2, <2>3, <2>4
  <2> QED
    BY <2>1, <2>2, <2>5, <2>6
<1>6. \A q \in e + 1 .. n : cast[s[q]] = cast[s[e + 1]]
  <2>1. \A q \in e + 1 .. n : q \in e + 1 .. k \/ q = n
    BY <1>1, <1>4
  <2>2. cast[s[n]] = cast[s[e + 1]]
    <3>1. CASE k = e
      BY <3>1
    <3>2. CASE k # e
      <4>1. k > e /\ k \in e + 1 .. k
        BY <1>1, <3>2
      <4>2. cast[s[k]] = cast[s[k + 1]]
        BY <1>1, <4>1 DEF Ends
      <4> QED
        BY <1>1, <4>1, <4>2
    <3> QED
      BY <3>1, <3>2
  <2> QED
    BY <1>1, <2>1, <2>2
<1>7. \A q \in e + 1 .. n : cast[s[q]] = cast[s[n]]
  <2>1. n \in e + 1 .. n
    BY <1>1, <1>4
  <2> QED
    BY <1>6, <2>1
<1>8. CASE value.counted
  <2>1. Ends(s, n)
    BY <1>8
  <2>2. AreDecisionsOf(records, s, cast[s[n]]) /\ \A q \in 1 .. e : cast[s[q]] # cast[s[n]]
    <3> HIDE DEF records, n
    <3> QED
      BY <1>1, <1>4, <1>5, <1>7, <2>1, GroupIsWhole
  <2>3. group.voter = cast[s[n]] /\ group.records = records /\ group \in GroupSet
    <3>1. s[n] \in DOMAIN cast
      BY <1>4
    <3>2. cast[s[n]] \in Nat
      <4>1. cast[s[n]] \in Voters
        BY <3>1
      <4>2. Voters \subseteq Nat
        BY DecisionListAssumption
      <4> QED
        BY <4>1, <4>2
    <3> HIDE DEF records
    <3> QED
      BY <1>5, <3>2 DEF GroupSet
  <2>4. {cast[s[q]] : q \in 1 .. n} = {cast[s[q]] : q \in 1 .. e} \cup {group.voter}
    <3>1. \A q \in 1 .. n : q \in 1 .. e \/ q \in e + 1 .. n
      BY <1>1, <1>4
    <3>2. \A q \in 1 .. e : q \in 1 .. n
      BY <1>1, <1>4
    <3> DEFINE A == {cast[s[q]] : q \in 1 .. n}
               B == {cast[s[q]] : q \in 1 .. e}
    <3>3. A \subseteq B \cup {cast[s[n]]}
      BY <1>7, <3>1
    <3>4. B \subseteq A
      BY <3>2
    <3>5. cast[s[n]] \in A
      BY <1>4
    <3> HIDE DEF A, B, group, n
    <3> QED
      BY <2>3, <3>3, <3>4, <3>5 DEF A, B
  <2>5. next = [page EXCEPT !.pending = <<>>, !.final = more, !.shown = more]
    <3>1. next = [showDecisionGroup(page, group) EXCEPT !.pending = <<>>]
      BY <1>8 DEF AddRecord, Group
    <3>2. showDecisionGroup(page, group) = [page EXCEPT !.final = more, !.shown = more]
      BY DEF showDecisionGroup
    <3> HIDE DEF more, next
    <3> QED
      BY <1>1, <3>1, <3>2 DEF Pages
  <2>6. more \in Seq(GroupSet) /\ OneGroupEach(more, s, n)
    <3>1. group.voter \notin {cast[s[q]] : q \in 1 .. e}
      BY <2>2, <2>3
    <3>2. AreDecisionsOf(group.records, s, group.voter)
      BY <2>2, <2>3
    <3>3. e <= n
      BY <1>1, <1>4
    <3>4. PICK one : one = group
      OBVIOUS
    <3>5. more = IF one.voter = Me THEN <<one>> \o page.final ELSE Append(page.final, one)
      BY <3>4
    <3>6. /\ one.voter \notin {cast[s[q]] : q \in 1 .. e} /\ one \in GroupSet
          /\ AreDecisionsOf(one.records, s, one.voter)
          /\ {cast[s[q]] : q \in 1 .. n} = {cast[s[q]] : q \in 1 .. e} \cup {one.voter}
      BY <2>3, <2>4, <3>1, <3>2, <3>4
    <3> HIDE DEF group, n, more
    <3>7. e \in Nat /\ n \in Nat /\ page.final \in Seq(GroupSet) /\ OneGroupEach(page.final, s, e)
      BY <1>1, <1>2, <1>4
    <3>8. PICK new, l : new = more /\ l = n
      OBVIOUS
    <3>9. new \in Seq(GroupSet) /\ OneGroupEach(new, s, l)
      BY <3>3, <3>5, <3>6, <3>7, <3>8, GroupPlaced
    <3> QED
      BY <3>8, <3>9
  <2>7. Grouped(next, s, n, n)
    <3> HIDE DEF more, next, group, records, n
    <3>a. page = [pending |-> page.pending, final |-> page.final, shown |-> page.shown]
      BY <1>1 DEF Pages
    <3>b. next = [pending |-> <<>>, final |-> more, shown |-> more]
      BY <2>5, <3>a
    <3>1. next.pending = <<>> /\ next.final = more /\ next.shown = more /\ next \in Pages
      BY <2>6, <3>b DEF Pages
    <3>2. n \in 0 .. n /\ ~ (n > n) /\ n - n = 0 /\ n + 1 .. n = {} /\ 1 .. n - n = {}
      BY <1>4
    <3> QED
      BY <2>1, <2>6, <3>1, <3>2 DEF Grouped
  <2> QED
    BY <2>7
<1>9. CASE ~ value.counted
  <2>1. ~ Ends(s, n)
    BY <1>9
  <2>2. next = [page EXCEPT !.pending = records]
    BY <1>9 DEF AddRecord
  <2> HIDE DEF next, records
  <2>3. next.pending = records /\ next.final = page.final /\ next.shown = page.shown /\ next \in Pages
    BY <1>1, <1>2, <1>5, <2>2 DEF Pages
  <2>4. Grouped(next, s, n, e)
    BY <1>1, <1>4, <1>5, <1>6, <2>1, <2>3 DEF Grouped
  <2> QED
    BY <2>4 DEF next
<1> QED
  BY <1>3, <1>8, <1>9

(* The whole loop.                                                         *)
LEMMA LoopGroups ==
    ASSUME cast \in Seq(Voters), NEW s \in Seq(DOMAIN cast), InListOrder(s),
           NEW k \in Nat, NEW e, NEW page, Grouped(page, s, k, e),
           NEW batch \in Seq(Value), k + Len(batch) <= Len(s),
           \A i \in 1 .. Len(batch) : /\ batch[i].id = s[k + i]
                                      /\ batch[i].counted <=> Ends(s, k + i)
    PROVE  \E f : Grouped(FoldLeft(AddRecord, page, batch), s, k + Len(batch), f)
<1> DEFINE n == Len(batch)
<1>1. n \in Nat /\ DOMAIN batch = 1 .. n /\ \A i \in 1 .. n : batch[i] \in Value
  OBVIOUS
<1> HIDE DEF n
<1>2. PICK run : Runs(run, page, batch, n) /\ FoldLeft(AddRecord, page, batch) = run[n]
  BY <1>1, AddRecordRuns
<1> DEFINE C == {i \in 0 .. n : ~ \E f : Grouped(run[i], s, k + i, f)}
<1> SUFFICES ASSUME C # {} PROVE FALSE
  <2>1. n \in 0 .. n
    BY <1>1
  <2> QED
    BY <1>2, <2>1 DEF n
<1>3. PICK i \in C : \A j \in C : ~ (j < i)
  <2>1. C \subseteq Nat
    OBVIOUS
  <2> HIDE DEF C
  <2> QED
    BY <2>1, SmallestNumber
<1>4. i # 0
  <2> SUFFICES ASSUME i = 0 PROVE FALSE
    OBVIOUS
  <2>1. run[0] = page /\ k + 0 = k
    BY <1>2 DEF Runs
  <2> QED
    BY <1>3, <2>1
<1> DEFINE j == i - 1
<1>14. i \in 0 .. n
  BY <1>3
<1>15. n \in Nat
  BY <1>1
<1>5. j \in 0 .. n /\ j < i /\ i \in 1 .. n /\ j \in Nat /\ i = j + 1
  BY <1>4, <1>14, <1>15
<1>6. j \notin C
  BY <1>3, <1>5
<1>7. PICK f : Grouped(run[j], s, k + j, f)
  BY <1>5, <1>6
<1>8. run[i] = AddRecord(run[j], batch[i])
  BY <1>2, <1>5 DEF Runs
<1> HIDE DEF j
<1>9. (k + j) + 1 = k + i /\ k + i <= Len(s) /\ k + j \in Nat
  <2>1. PICK l : l = Len(s)
    OBVIOUS
  <2>2. k + n <= l /\ l \in Nat
    BY <2>1 DEF n
  <2>3. k + i <= l
    BY <1>5, <1>15, <2>2
  <2> QED
    BY <1>5, <2>1, <2>3
<1>10. batch[i].id = s[k + i] /\ (batch[i].counted <=> Ends(s, k + i)) /\ batch[i] \in Value
  BY <1>1, <1>5 DEF n
<1>11. PICK m : m = k + j
  OBVIOUS
<1>12. \E g : Grouped(AddRecord(run[j], batch[i]), s, m + 1, g)
  BY <1>7, <1>9, <1>10, <1>11, AddRecordGroups
<1>13. \E g : Grouped(run[i], s, k + i, g)
  BY <1>8, <1>9, <1>11, <1>12
<1> QED
  BY <1>3, <1>13

-----------------------------------------------------------------------------
(* The invariant: what a chain has brought to the page.                    *)

Page == [pending |-> pending, final |-> final, shown |-> shown]

OnPage(c, page) ==
    LET s == c.snapshot
        k == Len(c.returned)
        b == Len(c.returned) - Len(c.batch)
    IN  /\ page \in Pages
        /\ c.state \in {"opening", "done"} => page.pending = <<>> /\ page.final = <<>>
        /\ c.state = "asking" => \E e \in Nat : Grouped(page, s, k, e)
        /\ c.state = "answered" =>
              /\ b \in Nat /\ \A i \in 1 .. Len(c.batch) : c.batch[i] = c.returned[b + i]
              /\ \E e \in Nat : Grouped(page, s, b, e)
              /\ Len(c.batch) < PageSize => k = Len(s)
        /\ c.state = "done" => (s # <<>> => OneGroupEach(page.shown, s, Len(s)))

PageInv ==
    Undisturbed =>
    /\ leftOver = <<>> /\ Page \in Pages
    /\ chains = <<>> => pending = <<>> /\ final = <<>>
    /\ \A f \in DOMAIN chains : f # Len(chains) => chains[f].state = "done"
    /\ chains # <<>> => OnPage(LastChain, Page)

ListInv == SnapshotInv /\ PageInv

(* Votes that arrive change nothing for the decisions that were there.     *)
Grows == /\ cast' \in Seq(Voters) /\ DOMAIN cast \subseteq DOMAIN cast'
         /\ \A d \in DOMAIN cast : cast'[d] = cast[d]

(* The last decision of a voter in a snapshot stays so.                    *)
LEMMA EndsKept ==
    ASSUME Grows, NEW s \in Seq(DOMAIN cast), NEW p \in 1 .. Len(s)
    PROVE  Ends(s, p)' <=> Ends(s, p)
<1>1. CASE p = Len(s)
  BY <1>1 DEF Ends
<1>2. CASE p # Len(s)
  <2>1. s[p] \in DOMAIN cast /\ s[p + 1] \in DOMAIN cast
    BY <1>2
  <2> QED
    BY <2>1 DEF Ends, Grows
<1> QED
  BY <1>1, <1>2

(* What a chain was given stays the start of its snapshot.                 *)
LEMMA GivenGrows ==
    ASSUME Grows, NEW c, Given(c)
    PROVE  Given(c)'
<1> DEFINE s == c.snapshot
           r == c.returned
<1>1. s \in Seq(DOMAIN cast) /\ Len(r) <= Len(s) /\ Len(r) \in Nat /\ Len(s) \in Nat
  BY DEF Given, Chain
<1>2. \A i \in DOMAIN s : s[i] \in DOMAIN cast
  BY <1>1
<1>3. s \in Seq(DOMAIN cast')
  <2>1. DOMAIN cast \subseteq DOMAIN cast'
    BY DEF Grows
  <2> QED
    BY <1>1, <2>1, SeqMonotonic
<1>4. InListOrder(s)'
  <2>1. InListOrder(s)
    BY DEF Given
  <2> QED
    BY <1>2, <2>1 DEF InListOrder, ByVoter, Grows
<1>5. \A i \in 1 .. Len(r) : Ends(s, i)' <=> Ends(s, i)
  <2>1. \A i \in 1 .. Len(r) : i \in 1 .. Len(s)
    BY <1>1
  <2> HIDE DEF s, r
  <2> QED
    BY <1>1, <2>1, EndsKept
<1> QED
  BY <1>3, <1>4, <1>5 DEF Given

(* The groups of a snapshot stay as they are.                              *)
LEMMA OneGroupEachGrows ==
    ASSUME Grows, NEW s \in Seq(DOMAIN cast), NEW e \in Nat, e <= Len(s),
           NEW groups, OneGroupEach(groups, s, e)
    PROVE  OneGroupEach(groups, s, e)'
<1>1. \A q \in 1 .. e : cast'[s[q]] = cast[s[q]]
  BY DEF Grows
<1>2. {cast[s[q]] : q \in 1 .. e}' = {cast[s[q]] : q \in 1 .. e}
  BY <1>1
<1>3. \A d \in ToSet(s) : cast'[d] = cast[d]
  BY DEF Grows, ToSet
<1>4. \A v : {d \in ToSet(s) : cast'[d] = v} = {d \in ToSet(s) : cast[d] = v}
  BY <1>3
<1>5. \A records, v : AreDecisionsOf(records, s, v)' <=> AreDecisionsOf(records, s, v)
  BY <1>4 DEF AreDecisionsOf
<1> QED
  BY <1>2, <1>5 DEF OneGroupEach

(* So does the page, groups and pending decisions.                         *)
LEMMA GroupedGrows ==
    ASSUME Grows, NEW s \in Seq(DOMAIN cast), NEW k \in Nat, k <= Len(s), NEW e \in Nat,
           NEW page, Grouped(page, s, k, e)
    PROVE  Grouped(page, s, k, e)'
<1>1. e \in 0 .. k
  BY DEF Grouped
<1>2. OneGroupEach(page.final, s, e)'
  <2>1. OneGroupEach(page.final, s, e) /\ e <= Len(s)
    BY <1>1 DEF Grouped
  <2> QED
    BY <2>1, OneGroupEachGrows
<1>3. \A p \in 1 .. Len(s) : Ends(s, p)' <=> Ends(s, p)
  BY EndsKept
<1>4. e # 0 => e \in 1 .. Len(s)
  BY <1>1
<1>5. k > e => k \in 1 .. Len(s)
  BY <1>1
<1>6. \A q \in e + 1 .. k : cast'[s[q]] = cast[s[q]] /\ cast'[s[e + 1]] = cast[s[e + 1]]
  <2>1. \A q \in e + 1 .. k : q \in 1 .. Len(s) /\ e + 1 \in 1 .. Len(s)
    BY <1>1
  <2>2. \A q \in 1 .. Len(s) : s[q] \in DOMAIN cast
    OBVIOUS
  <2> QED
    BY <2>1, <2>2 DEF Grows
<1> QED
  BY <1>2, <1>3, <1>4, <1>5, <1>6 DEF Grouped

(* And so does what the page has of a chain.                               *)
LEMMA OnPageGrows ==
    ASSUME Grows, NEW c, Given(c), NEW page, OnPage(c, page)
    PROVE  OnPage(c, page)'
<1> DEFINE s == c.snapshot
           k == Len(c.returned)
           b == Len(c.returned) - Len(c.batch)
<1>1. s \in Seq(DOMAIN cast) /\ k <= Len(s) /\ k \in Nat /\ Len(s) \in Nat /\ Len(c.batch) \in Nat
  BY DEF Given, Chain
<1>2. c.state = "asking" => \E e \in Nat : Grouped(page, s, k, e)'
  <2> SUFFICES ASSUME c.state = "asking" PROVE \E e \in Nat : Grouped(page, s, k, e)'
    OBVIOUS
  <2>1. PICK e \in Nat : Grouped(page, s, k, e)
    BY DEF OnPage
  <2> HIDE DEF s, k
  <2> QED
    BY <1>1, <2>1, GroupedGrows
<1>3. c.state = "answered" => \E e \in Nat : Grouped(page, s, b, e)'
  <2> SUFFICES ASSUME c.state = "answered" PROVE \E e \in Nat : Grouped(page, s, b, e)'
    OBVIOUS
  <2>1. PICK e \in Nat : Grouped(page, s, b, e)
    BY DEF OnPage
  <2>2. b \in Nat /\ b <= Len(s)
    <3>1. b \in Nat
      BY DEF OnPage
    <3>2. \A x, y, z \in Nat : x <= z => x - y <= z
      OBVIOUS
    <3> QED
      BY <1>1, <3>1, <3>2
  <2> HIDE DEF s, b
  <2> QED
    BY <1>1, <2>1, <2>2, GroupedGrows
<1>4. c.state = "done" => (s # <<>> => OneGroupEach(page.shown, s, Len(s))')
  <2> SUFFICES ASSUME c.state = "done", s # <<>> PROVE OneGroupEach(page.shown, s, Len(s))'
    OBVIOUS
  <2>1. OneGroupEach(page.shown, s, Len(s))
    BY DEF OnPage
  <2> HIDE DEF s
  <2> QED
    BY <1>1, <2>1, OneGroupEachGrows
<1> QED
  BY <1>2, <1>3, <1>4 DEF OnPage

(* One chain goes on.                                                      *)
LEMMA ActiveIsLast ==
    ASSUME ListInv, Undisturbed, NEW f \in DOMAIN chains, chains[f].state # "done"
    PROVE  /\ f = Len(chains) /\ OnPage(chains[f], Page)
           /\ leftOver = <<>> /\ Page \in Pages /\ Given(chains[f])
<1>1. f = Len(chains) /\ leftOver = <<>> /\ Page \in Pages
  BY DEF ListInv, PageInv
<1>2. chains # <<>> /\ LastChain = chains[f]
  BY <1>1 DEF LastChain
<1>3. OnPage(chains[f], Page)
  BY <1>2 DEF ListInv, PageInv
<1> QED
  BY <1>1, <1>3 DEF ListInv, SnapshotInv

(* A step of one chain keeps the invariant if it does so for the chain and *)
(* the page.                                                               *)
LEMMA ChainGoesOn ==
    ASSUME ListInv, NEW f \in DOMAIN chains,
           chains[f].state \in {"opening", "asking", "answered"},
           NEW c, Given(c), chains' = [chains EXCEPT ![f] = c],
           UNCHANGED <<cast, overlapped>>, NEW page, page = Page',
           Undisturbed /\ c.state # "failed" => leftOver' = <<>> /\ OnPage(c, page)
    PROVE  ListInv'
<1>1. chains \in Seq(Chain) /\ cast \in Seq(Voters) /\ \A g \in DOMAIN chains : Given(chains[g])
  BY DEF ListInv, SnapshotInv
<1>2. Grows
  BY <1>1 DEF Grows
<1>3. c \in Chain
  BY DEF Given
<1>4. /\ chains' \in Seq(Chain) /\ DOMAIN chains' = DOMAIN chains /\ Len(chains') = Len(chains)
      /\ chains'[f] = c /\ \A g \in DOMAIN chains : g # f => chains'[g] = chains[g]
  BY <1>1, <1>3
<1>5. ASSUME NEW g \in DOMAIN chains' PROVE Given(chains[g])'
  <2>1. PICK d : d = chains'[g]
    OBVIOUS
  <2>2. Given(d)
    BY <1>1, <1>4, <2>1
  <2>3. Given(d)'
    BY <1>2, <2>2, GivenGrows
  <2> QED
    BY <2>1, <2>3
<1>6. SnapshotInv'
  BY <1>1, <1>4, <1>5 DEF SnapshotInv
<1>7. PageInv'
  <2> SUFFICES ASSUME Undisturbed'
               PROVE  /\ leftOver' = <<>> /\ Page' \in Pages
                      /\ chains' = <<>> => pending' = <<>> /\ final' = <<>>
                      /\ \A g \in DOMAIN chains' : g # Len(chains') => chains'[g].state = "done"
                      /\ chains' # <<>> => OnPage(LastChain, Page)'
    BY DEF PageInv
  <2>1. Undisturbed /\ c.state # "failed"
    <3>1. \A g \in DOMAIN chains : chains'[g].state # "failed"
      BY <1>4 DEF Undisturbed
    <3>2. c.state # "failed"
      BY <1>4, <3>1
    <3>3. \A g \in DOMAIN chains : chains[g].state # "failed"
      BY <1>4, <3>1
    <3>4. ~ overlapped
      BY DEF Undisturbed
    <3> QED
      BY <3>2, <3>3, <3>4 DEF Undisturbed
  <2>2. leftOver' = <<>> /\ OnPage(c, page) /\ page \in Pages
    BY <2>1 DEF OnPage
  <2>3. f = Len(chains)
    BY <2>1, ActiveIsLast
  <2>4. chains # <<>> /\ chains' # <<>> /\ LastChain' = c
    BY <1>1, <1>4, <2>3 DEF LastChain
  <2>5. \A g \in DOMAIN chains' : g # Len(chains') => chains'[g].state = "done"
    BY <1>4, <2>1, <2>3 DEF ListInv, PageInv
  <2>6. OnPage(c, page)'
    BY <1>2, <2>2, OnPageGrows
  <2>7. OnPage(LastChain, Page)'
    BY <2>4, <2>6
  <2> QED
    BY <2>2, <2>4, <2>5, <2>7
<1> QED
  BY <1>6, <1>7 DEF ListInv

(* The server answers decisions().                                         *)
LEMMA ServeStep ==
    ASSUME ListInv, NEW f \in DOMAIN chains, ServeDecisions(f)
    PROVE  ListInv'
<1>1. chains \in Seq(Chain) /\ cast \in Seq(Voters) /\ Given(chains[f]) /\ chains[f] \in Chain
  BY DEF ListInv, SnapshotInv
<1>2. chains[f].state = "opening" /\ UNCHANGED <<cast, pending, final, shown, leftOver, overlapped>>
  BY DEF ServeDecisions
<1>3. PICK s : s = Snapshot
  OBVIOUS
<1>4. PICK c : c = [chains[f] EXCEPT !.state = "asking", !.snapshot = s, !.ids = s]
  OBVIOUS
<1>5. chains' = [chains EXCEPT ![f] = c]
  BY <1>3, <1>4 DEF ServeDecisions
<1>6. s \in Seq(DOMAIN cast) /\ InListOrder(s) /\ s \in Seq(Nat)
  <2>1. s \in Seq(DOMAIN cast) /\ InListOrder(s)
    BY <1>1, <1>3, SnapshotIs
  <2>2. DOMAIN cast \subseteq Nat
    <3>1. DOMAIN cast = 1 .. Len(cast)
      BY <1>1
    <3> QED
      BY <3>1
  <2> QED
    BY <2>1, <2>2, SeqMonotonic
<1>7. chains[f].returned = <<>> /\ chains[f].snapshot = <<>>
  BY <1>1, <1>2 DEF Given, Chain
<1>8. /\ c \in Chain /\ c.state = "asking" /\ c.snapshot = s /\ c.ids = s
      /\ c.returned = <<>> /\ c.batch = chains[f].batch
  BY <1>1, <1>4, <1>6, <1>7 DEF Chain
<1>9. Given(c)
  <2>1. Len(<<>>) = 0 /\ SubSeq(s, 0 + 1, Len(s)) = s /\ 1 .. 0 = {} /\ 0 <= Len(s)
    BY <1>6, SubSeqFull
  <2> QED
    BY <1>6, <1>8, <2>1 DEF Given
<1>10. PICK page : page = Page
  OBVIOUS
<1>11. page = Page'
  BY <1>2, <1>10 DEF Page
<1>12. Undisturbed => leftOver' = <<>> /\ OnPage(c, page)
  <2> SUFFICES ASSUME Undisturbed PROVE leftOver' = <<>> /\ OnPage(c, page)
    OBVIOUS
  <2>1. leftOver = <<>> /\ OnPage(chains[f], page)
    BY <1>2, <1>10, ActiveIsLast
  <2>2. page \in Pages /\ page.pending = <<>> /\ page.final = <<>>
    BY <1>2, <2>1 DEF OnPage
  <2>3. Grouped(page, s, 0, 0)
    <3>1. OneGroupEach(<<>>, s, 0)
      BY DEF OneGroupEach
    <3> QED
      BY <2>2, <3>1 DEF Grouped
  <2>4. OnPage(c, page)
    <3>1. Len(c.returned) = 0 /\ 0 \in Nat
      BY <1>8
    <3> QED
      BY <1>8, <2>2, <2>3, <3>1 DEF OnPage
  <2> QED
    BY <1>2, <2>1, <2>4
<1> QED
  BY <1>2, <1>5, <1>9, <1>11, <1>12, ChainGoesOn

(* The server answers getValues.                                           *)
LEMMA ValuesStep ==
    ASSUME ListInv, NEW f \in DOMAIN chains, getValues(f)
    PROVE  ListInv'
<1>1. chains \in Seq(Chain) /\ cast \in Seq(Voters) /\ Given(chains[f]) /\ chains[f] \in Chain
  BY DEF ListInv, SnapshotInv
<1>2. chains[f].state = "asking" /\ UNCHANGED <<cast, pending, final, shown, leftOver, overlapped>>
  BY DEF getValues
<1>3. PICK s, r, ids : s = chains[f].snapshot /\ r = chains[f].returned /\ ids = chains[f].ids
  OBVIOUS
<1>4. PICK n : n = Min({PageSize, Len(ids)})
  OBVIOUS
<1>5. PICK values, rest : values = Values(ids, n) /\ rest = SubSeq(ids, n + 1, Len(ids))
  OBVIOUS
<1>6. PICK c : c = [chains[f] EXCEPT !.state = "answered", !.ids = rest, !.batch = values,
                                     !.returned = r \o values]
  OBVIOUS
<1>7. chains' = [chains EXCEPT ![f] = c]
  BY <1>3, <1>4, <1>5, <1>6 DEF getValues
<1>8. /\ s \in Seq(DOMAIN cast) /\ InListOrder(s) /\ s \in Seq(Nat) /\ r \in Seq(Value)
      /\ Len(s) \in Nat /\ Len(r) \in Nat /\ Len(r) <= Len(s)
      /\ ids = SubSeq(s, Len(r) + 1, Len(s))
      /\ \A i \in 1 .. Len(r) : r[i].id = s[i] /\ (r[i].counted <=> Ends(s, i))
  BY <1>1, <1>3 DEF Given, Chain
<1>9. ids \in Seq(Nat) /\ Len(ids) = Len(s) - Len(r) /\ Len(r) \in 0 .. Len(s)
  BY <1>8, RestOf
<1>10. n \in Nat /\ n <= Len(ids) /\ (n < PageSize => n = Len(ids)) /\ n \in 0 .. Len(s) - Len(r)
  <2>1. PageSize \in Nat /\ Len(ids) \in Nat
    BY <1>9, DecisionListAssumption
  <2>2. \E x \in {PageSize, Len(ids)} : \A y \in {PageSize, Len(ids)} : x <= y
    BY <2>1
  <2>3. n \in {PageSize, Len(ids)} /\ \A y \in {PageSize, Len(ids)} : n <= y
    BY <1>4, <2>2 DEF Min
  <2> QED
    BY <1>9, <2>1, <2>3
<1>11. /\ values \in Seq(Value) /\ Len(values) = n
       /\ \A i \in 1 .. n : /\ values[i].id = s[Len(r) + i]
                            /\ values[i].counted <=> Ends(s, Len(r) + i)
  <2>1. PICK k : k = Len(r)
    OBVIOUS
  <2>2. /\ k \in 0 .. Len(s) /\ ids = SubSeq(s, k + 1, Len(s)) /\ n \in 0 .. Len(s) - k
        /\ s \in Seq(DOMAIN cast)
    BY <1>8, <1>9, <1>10, <2>1
  <2>3. /\ values \in Seq(Value) /\ Len(values) = n
        /\ \A i \in 1 .. n : /\ values[i].id = s[k + i]
                             /\ values[i].counted <=> Ends(s, k + i)
    <3>1. cast \in Seq(Voters) /\ values = Values(ids, n)
      BY <1>1, <1>5
    <3>2. ValuesOf(values, s, k, n)
      BY <2>2, <3>1, ValuesAfter, Zenon
    <3> QED
      BY <3>2 DEF ValuesOf
  <2> QED
    BY <2>1, <2>3
<1>12. rest = SubSeq(s, Len(r) + n + 1, Len(s)) /\ rest \in Seq(Nat)
  <2>1. rest = SubSeq(s, Len(r) + n + 1, Len(s))
    BY <1>5, <1>8, <1>9, <1>10, RestOfRest
  <2>2. rest \in Seq(Nat)
    BY <1>5, <1>9, <1>10, RestOf
  <2> QED
    BY <2>1, <2>2
<1>13. /\ r \o values \in Seq(Value) /\ Len(r \o values) = Len(r) + n
       /\ \A i \in 1 .. Len(r) : (r \o values)[i] = r[i]
       /\ \A i \in 1 .. n : (r \o values)[Len(r) + i] = values[i]
  <2>1. PICK k : k = Len(r)
    OBVIOUS
  <2>2. /\ r \o values \in Seq(Value) /\ Len(r \o values) = k + n
        /\ \A i \in 1 .. k + n : (r \o values)[i] = IF i <= k THEN r[i] ELSE values[i - k]
    <3>1. r \in Seq(Value) /\ values \in Seq(Value) /\ Len(values) = n
      BY <1>8, <1>11
    <3>2. /\ r \o values \in Seq(Value) /\ Len(r \o values) = Len(r) + Len(values)
          /\ \A i \in 1 .. Len(r) + Len(values) :
                (r \o values)[i] = IF i <= Len(r) THEN r[i] ELSE values[i - Len(r)]
      BY <3>1, ConcatProperties
    <3> QED
      BY <2>1, <3>1, <3>2
  <2>3. k \in Nat /\ n \in Nat
    BY <1>8, <1>10, <2>1
  <2>4. \A i \in 1 .. k : i \in 1 .. k + n /\ i <= k
    BY <2>3
  <2>5. \A i \in 1 .. n : k + i \in 1 .. k + n /\ ~ (k + i <= k) /\ k + i - k = i
    BY <2>3
  <2> QED
    BY <2>1, <2>2, <2>4, <2>5
<1>14. PICK all : all = r \o values
  OBVIOUS
<1>15. /\ c \in Chain /\ c.state = "answered" /\ c.snapshot = s /\ c.ids = rest
       /\ c.returned = all /\ c.batch = values
  BY <1>1, <1>3, <1>6, <1>11, <1>12, <1>13, <1>14 DEF Chain
<1>16. Given(c)
  <2>1. Len(all) <= Len(s) /\ rest = SubSeq(s, Len(all) + 1, Len(s))
    <3>1. Len(all) = Len(r) + n
      BY <1>13, <1>14
    <3>2. \A x, y, z \in Nat : z \in 0 .. x - y => y + z <= x
      OBVIOUS
    <3>3. Len(r) + n <= Len(s)
      BY <1>8, <1>10, <3>2
    <3> QED
      BY <1>12, <3>1, <3>3
  <2>2. ASSUME NEW i \in 1 .. Len(all)
        PROVE  all[i].id = s[i] /\ (all[i].counted <=> Ends(s, i))
    <3>1. CASE i \in 1 .. Len(r)
      BY <1>8, <1>13, <1>14, <3>1
    <3>2. CASE i \notin 1 .. Len(r)
      <4> DEFINE j == i - Len(r)
      <4>1. j \in 1 .. n /\ Len(r) + j = i
        BY <1>8, <1>10, <1>13, <1>14, <3>2
      <4> HIDE DEF j
      <4>2. all[i] = values[j]
        BY <1>13, <1>14, <4>1
      <4> QED
        BY <1>11, <4>1, <4>2
    <3> QED
      BY <3>1, <3>2
  <2> QED
    BY <1>8, <1>15, <2>1, <2>2 DEF Given
<1>17. PICK page : page = Page
  OBVIOUS
<1>18. page = Page'
  BY <1>2, <1>17 DEF Page
<1>19. Undisturbed => leftOver' = <<>> /\ OnPage(c, page)
  <2> SUFFICES ASSUME Undisturbed PROVE leftOver' = <<>> /\ OnPage(c, page)
    OBVIOUS
  <2>1. leftOver = <<>> /\ OnPage(chains[f], page)
    BY <1>2, <1>17, ActiveIsLast
  <2>2. page \in Pages /\ \E e \in Nat : Grouped(page, s, Len(r), e)
    BY <1>2, <1>3, <2>1 DEF OnPage
  <2>3. Len(c.returned) - Len(c.batch) = Len(r) /\ Len(c.batch) = n /\ Len(c.returned) = Len(r) + n
    BY <1>8, <1>10, <1>11, <1>13, <1>14, <1>15
  <2>4. \A i \in 1 .. n : c.batch[i] = c.returned[Len(r) + i]
    BY <1>13, <1>14, <1>15
  <2>5. n < PageSize => Len(c.returned) = Len(s)
    BY <1>8, <1>9, <1>10, <2>3
  <2>6. OnPage(c, page)
    BY <1>8, <1>15, <2>2, <2>3, <2>4, <2>5 DEF OnPage
  <2> QED
    BY <1>2, <2>1, <2>6
<1> QED
  BY <1>2, <1>7, <1>16, <1>18, <1>19, ChainGoesOn

(* The page groups what it was given, and asks for more or cleans up.      *)
LEMMA ShowStep ==
    ASSUME ListInv, NEW f \in DOMAIN chains, ShowDecisions(f)
    PROVE  ListInv'
<1>1. chains \in Seq(Chain) /\ cast \in Seq(Voters) /\ Given(chains[f]) /\ chains[f] \in Chain
  BY DEF ListInv, SnapshotInv
<1>2. PICK s, r, batch : s = chains[f].snapshot /\ r = chains[f].returned /\ batch = chains[f].batch
  OBVIOUS
<1>3. PICK before, after : before = Page /\ after = FoldLeft(AddRecord, before, batch)
  OBVIOUS
<1>4. PICK over \in BOOLEAN : over <=> (Len(batch) < PageSize)
  <2>1. (Len(batch) < PageSize) \in BOOLEAN
    OBVIOUS
  <2>2. \A b \in BOOLEAN : \E over \in BOOLEAN : over <=> b
    OBVIOUS
  <2> QED
    BY <2>1, <2>2, Zenon
<1>5. PICK c : c = [chains[f] EXCEPT !.state = IF over THEN "done" ELSE "asking", !.batch = <<>>]
  OBVIOUS
<1>6. /\ chains[f].state = "answered" /\ UNCHANGED <<cast, overlapped>>
      /\ chains' = [chains EXCEPT ![f] = c]
      /\ shown' = after.shown
      /\ \/ ~ over /\ pending' = after.pending /\ final' = after.final /\ leftOver' = leftOver
         \/ over /\ pending' = <<>> /\ final' = <<>> /\ leftOver' = after.pending
  BY <1>2, <1>3, <1>4, <1>5 DEF ShowDecisions, isOutOfDecisions, Page
<1>7. /\ s \in Seq(DOMAIN cast) /\ InListOrder(s) /\ r \in Seq(Value) /\ batch \in Seq(Value)
      /\ Len(s) \in Nat /\ Len(r) \in Nat /\ Len(r) <= Len(s) /\ Len(batch) \in Nat
      /\ \A i \in 1 .. Len(r) : r[i].id = s[i] /\ (r[i].counted <=> Ends(s, i))
  BY <1>1, <1>2 DEF Given, Chain
<1>8. /\ c \in Chain /\ c.state = (IF over THEN "done" ELSE "asking") /\ c.snapshot = s
      /\ c.ids = chains[f].ids /\ c.returned = r /\ c.batch = <<>>
  <2>1. <<>> \in Seq(Value)
    OBVIOUS
  <2> QED
    BY <1>1, <1>2, <1>5, <2>1 DEF Chain
<1>9. Given(c)
  BY <1>1, <1>2, <1>6, <1>8 DEF Given
<1>10. PICK page : page = Page'
  OBVIOUS
<1>11. ASSUME Undisturbed PROVE leftOver' = <<>> /\ OnPage(c, page)
  <2>1. leftOver = <<>> /\ OnPage(chains[f], before) /\ before \in Pages
    BY <1>3, <1>6, <1>11, ActiveIsLast
  <2>2. PICK b \in Nat : b = Len(r) - Len(batch)
    BY <1>2, <1>6, <2>1 DEF OnPage
  <2>3. /\ \A i \in 1 .. Len(batch) : batch[i] = r[b + i]
        /\ \E e \in Nat : Grouped(before, s, b, e)
        /\ over => Len(r) = Len(s)
    BY <1>2, <1>4, <1>6, <2>1, <2>2 DEF OnPage
  <2>4. b + Len(batch) = Len(r) /\ \A i \in 1 .. Len(batch) : b + i \in 1 .. Len(r)
    BY <1>7, <2>2
  <2>5. PICK e : Grouped(after, s, Len(r), e)
    <3>1. PICK d : Grouped(before, s, b, d)
      BY <2>3
    <3>2. \A i \in 1 .. Len(batch) : /\ batch[i].id = s[b + i]
                                     /\ batch[i].counted <=> Ends(s, b + i)
      BY <1>7, <2>3, <2>4
    <3>3. \E e : Grouped(FoldLeft(AddRecord, before, batch), s, b + Len(batch), e)
      BY <1>1, <1>7, <2>4, <3>1, <3>2, LoopGroups
    <3> QED
      BY <1>3, <2>4, <3>3
  <2>6. /\ after \in Pages /\ e \in 0 .. Len(r) /\ (Len(r) > e => ~ Ends(s, Len(r)))
        /\ Len(after.pending) = Len(r) - e /\ OneGroupEach(after.final, s, e)
        /\ e > 0 => after.shown = after.final
    BY <2>5 DEF Grouped
  <2>7. /\ after.pending \in Seq(Nat) /\ after.final \in Seq(GroupSet)
        /\ after.shown \in Seq(GroupSet)
        /\ after = [pending |-> after.pending, final |-> after.final, shown |-> after.shown]
    BY <2>6 DEF Pages
  <2>8. CASE ~ over
    <3>1. page = after /\ leftOver' = <<>>
      BY <1>6, <1>10, <2>1, <2>7, <2>8 DEF Page
    <3>2. e \in Nat
      BY <1>7, <2>6
    <3>3. OnPage(c, page)
      BY <1>8, <2>5, <2>6, <2>8, <3>1, <3>2 DEF OnPage
    <3> QED
      BY <3>1, <3>3
  <2>9. CASE over
    <3>1. Len(r) = Len(s)
      BY <2>3, <2>9
    <3>2. e = Len(s)
      <4>1. Ends(s, Len(s))
        BY DEF Ends
      <4> QED
        BY <1>7, <2>6, <3>1, <4>1
    <3>3. after.pending = <<>>
      BY <1>7, <2>6, <2>7, <3>1, <3>2
    <3>4. page = [pending |-> <<>>, final |-> <<>>, shown |-> after.shown] /\ leftOver' = <<>>
      BY <1>6, <1>10, <2>9, <3>3 DEF Page
    <3>5. page \in Pages /\ page.pending = <<>> /\ page.final = <<>> /\ page.shown = after.shown
      <4>1. <<>> \in Seq(Nat) /\ <<>> \in Seq(GroupSet)
        OBVIOUS
      <4> QED
        BY <2>7, <3>4, <4>1 DEF Pages
    <3>6. s # <<>> => OneGroupEach(page.shown, s, Len(s))
      <4>1. s # <<>> => Len(s) > 0
        BY <1>7
      <4> QED
        BY <2>6, <3>2, <3>5, <4>1
    <3>7. OnPage(c, page)
      BY <1>8, <2>9, <3>5, <3>6 DEF OnPage
    <3> QED
      BY <3>4, <3>7
  <2> QED
    BY <2>8, <2>9
<1> QED
  BY <1>6, <1>9, <1>10, <1>11, ChainGoesOn

(* A chain that fails is not undisturbed any more.                         *)
LEMMA FailStep ==
    ASSUME ListInv, NEW f \in DOMAIN chains, Fail(f)
    PROVE  ListInv'
<1>1. chains \in Seq(Chain) /\ Given(chains[f]) /\ chains[f] \in Chain
  BY DEF ListInv, SnapshotInv
<1>2. /\ chains[f].state \in {"opening", "asking", "answered"}
      /\ UNCHANGED <<cast, pending, final, shown, leftOver, overlapped>>
  BY DEF Fail
<1>3. PICK c : c = [chains[f] EXCEPT !.state = "failed", !.batch = <<>>]
  OBVIOUS
<1>4. chains' = [chains EXCEPT ![f] = c]
  BY <1>3 DEF Fail
<1>5. /\ c \in Chain /\ c.state = "failed" /\ c.snapshot = chains[f].snapshot
      /\ c.ids = chains[f].ids /\ c.returned = chains[f].returned
  <2>1. <<>> \in Seq(Value)
    OBVIOUS
  <2> QED
    BY <1>1, <1>3, <2>1 DEF Chain
<1>6. Given(c)
  BY <1>1, <1>5 DEF Given
<1>7. PICK page : page = Page'
  OBVIOUS
<1> QED
  BY <1>2, <1>4, <1>5, <1>6, <1>7, ChainGoesOn

(* A chain that starts while others run is not undisturbed either; after   *)
(* them it finds the page clean.                                           *)
LEMMA RefreshStep ==
    ASSUME ListInv, refreshDecisions
    PROVE  ListInv'
<1>1. chains \in Seq(Chain) /\ cast \in Seq(Voters) /\ \A g \in DOMAIN chains : Given(chains[g])
  BY DEF ListInv, SnapshotInv
<1>2. /\ chains' = Append(chains, NewChain)
      /\ overlapped' = (overlapped \/ \E f \in DOMAIN chains : ~ Ended(f))
      /\ UNCHANGED <<cast, pending, final, shown, leftOver>>
  BY DEF refreshDecisions
<1>3. NewChain \in Chain /\ Given(NewChain)
  <2>1. <<>> \in Seq(Nat) /\ <<>> \in Seq(Value) /\ <<>> \in Seq(DOMAIN cast)
        /\ DOMAIN <<>> = {} /\ Len(<<>>) = 0
    OBVIOUS
  <2>2. NewChain \in Chain
    BY <2>1 DEF NewChain, Chain
  <2>3. SubSeq(<<>>, 0 + 1, 0) = <<>>
    OBVIOUS
  <2>4. NewChain.snapshot = <<>> /\ NewChain.returned = <<>> /\ NewChain.ids = <<>>
    BY DEF NewChain
  <2>5. InListOrder(<<>>)
    BY <2>1 DEF InListOrder
  <2> QED
    BY <2>1, <2>2, <2>3, <2>4, <2>5 DEF Given
<1>4. Grows
  BY <1>1, <1>2 DEF Grows
<1> DEFINE n == Len(chains)
<1>5. /\ n \in Nat /\ DOMAIN chains = 1 .. n /\ DOMAIN chains' = 1 .. n + 1 /\ Len(chains') = n + 1
      /\ chains' \in Seq(Chain) /\ chains'[n + 1] = NewChain
      /\ \A g \in 1 .. n : chains'[g] = chains[g]
  BY <1>1, <1>2, <1>3
<1> HIDE DEF n
<1>6. ASSUME NEW g \in DOMAIN chains' PROVE Given(chains[g])'
  <2>1. PICK d : d = chains'[g]
    OBVIOUS
  <2>2. Given(d)
    BY <1>1, <1>3, <1>5, <2>1
  <2>3. Given(d)'
    BY <1>4, <2>2, GivenGrows
  <2> QED
    BY <2>1, <2>3
<1>7. SnapshotInv'
  BY <1>1, <1>2, <1>5, <1>6 DEF SnapshotInv
<1>8. PageInv'
  <2> SUFFICES ASSUME Undisturbed'
               PROVE  /\ leftOver' = <<>> /\ Page' \in Pages
                      /\ chains' = <<>> => pending' = <<>> /\ final' = <<>>
                      /\ \A g \in DOMAIN chains' : g # Len(chains') => chains'[g].state = "done"
                      /\ chains' # <<>> => OnPage(LastChain, Page)'
    BY DEF PageInv
  <2>1. Undisturbed
    <3>1. \A g \in DOMAIN chains : chains[g].state # "failed"
      <4>1. \A g \in DOMAIN chains' : chains'[g].state # "failed"
        BY DEF Undisturbed
      <4>2. \A g \in 1 .. n : g \in 1 .. n + 1
        BY <1>5
      <4> QED
        BY <1>5, <4>1, <4>2
    <3>2. ~ overlapped
      BY <1>2 DEF Undisturbed
    <3> QED
      BY <3>1, <3>2 DEF Undisturbed
  <2>2. \A g \in DOMAIN chains : chains[g].state = "done"
    <3>1. \A g \in DOMAIN chains : Ended(g)
      BY <1>2 DEF Undisturbed
    <3> QED
      BY <2>1, <3>1 DEF Ended, Undisturbed
  <2>3. leftOver' = <<>> /\ Page = Page' /\ Page \in Pages
    BY <1>2, <2>1 DEF ListInv, PageInv, Page
  <2>4. pending = <<>> /\ final = <<>>
    <3>1. CASE chains = <<>>
      BY <2>1, <3>1 DEF ListInv, PageInv
    <3>2. CASE chains # <<>>
      <4>1. n \in DOMAIN chains
        BY <1>1, <1>5, <3>2 DEF n
      <4>2. LastChain.state = "done"
        BY <2>2, <4>1 DEF LastChain, n
      <4>3. OnPage(LastChain, Page)
        BY <2>1, <3>2 DEF ListInv, PageInv
      <4>4. Page.pending = <<>> /\ Page.final = <<>>
        BY <4>2, <4>3 DEF OnPage
      <4> QED
        BY <4>4 DEF Page
    <3> QED
      BY <3>1, <3>2
  <2>5. \A g \in DOMAIN chains' : g # Len(chains') => chains'[g].state = "done"
    BY <1>5, <2>2
  <2>6. LastChain' = NewChain /\ chains' # <<>>
    BY <1>5 DEF LastChain
  <2>7. OnPage(NewChain, Page')
    <3>1. NewChain.state = "opening"
      BY DEF NewChain
    <3>2. Page.pending = <<>> /\ Page.final = <<>>
      BY <2>4 DEF Page
    <3> QED
      BY <2>3, <3>1, <3>2 DEF OnPage
  <2>8. OnPage(LastChain, Page)'
    <3>1. PICK page : page = Page'
      OBVIOUS
    <3>2. PICK c : c = NewChain
      OBVIOUS
    <3>3. OnPage(c, page)'
      BY <1>3, <1>4, <2>7, <3>1, <3>2, OnPageGrows
    <3> QED
      BY <2>6, <3>1, <3>2, <3>3
  <2> QED
    BY <1>2, <2>3, <2>5, <2>6, <2>8
<1> QED
  BY <1>7, <1>8 DEF ListInv

(* A step that no chain takes part in keeps the invariant.                 *)
LEMMA QuietStep ==
    ASSUME ListInv, Grows, UNCHANGED <<chains, pending, final, shown, leftOver, overlapped>>
    PROVE  ListInv'
<1>1. chains \in Seq(Chain) /\ cast \in Seq(Voters) /\ \A g \in DOMAIN chains : Given(chains[g])
  BY DEF ListInv, SnapshotInv
<1>2. UNCHANGED <<chains, pending, final, shown, leftOver, overlapped>>
  OBVIOUS
<1>3. Grows
  OBVIOUS
<1>4. ASSUME NEW g \in DOMAIN chains PROVE Given(chains[g])'
  <2>1. PICK d : d = chains[g]
    OBVIOUS
  <2>2. Given(d)'
    BY <1>1, <1>3, <2>1, GivenGrows
  <2>3. d = chains'[g]
    BY <1>2, <2>1
  <2> QED
    BY <2>2, <2>3
<1>5. SnapshotInv'
  BY <1>1, <1>2, <1>3, <1>4 DEF SnapshotInv, Grows
<1>6. PageInv'
  <2>1. Undisturbed' <=> Undisturbed
    BY <1>2 DEF Undisturbed
  <2>2. Page' = Page /\ LastChain' = LastChain
    BY <1>2 DEF Page, LastChain
  <2>3. ASSUME Undisturbed, chains # <<>> PROVE OnPage(LastChain, Page)'
    <3>1. PICK c, page : c = LastChain /\ page = Page
      OBVIOUS
    <3>2. Given(c) /\ OnPage(c, page)
      <4>1. Len(chains) \in DOMAIN chains
        BY <1>1, <2>3
      <4> QED
        BY <1>1, <2>3, <3>1, <4>1 DEF ListInv, PageInv, LastChain
    <3>3. OnPage(c, page)'
      BY <1>3, <3>2, OnPageGrows
    <3> QED
      BY <2>2, <3>1, <3>3
  <2> QED
    BY <1>2, <2>1, <2>2, <2>3 DEF ListInv, PageInv
<1> QED
  BY <1>5, <1>6 DEF ListInv

(* A vote is such a step.                                                  *)
LEMMA CastStep ==
    ASSUME ListInv, NEW v \in Voters, Vote(v)
    PROVE  ListInv'
<1>1. cast \in Seq(Voters)
  BY DEF ListInv, SnapshotInv
<1>2. cast' = Append(cast, v) /\ UNCHANGED <<chains, pending, final, shown, leftOver, overlapped>>
  BY DEF Vote
<1>3. Grows
  BY <1>1, <1>2 DEF Grows
<1> QED
  BY <1>2, <1>3, QuietStep

(* The invariant.                                                          *)
LEMMA ListInvHolds == ListSpec => []ListInv
<1>1. ListInit => ListInv
  <2> SUFFICES ASSUME ListInit PROVE ListInv
    OBVIOUS
  <2>1. cast = <<>> /\ chains = <<>> /\ pending = <<>> /\ final = <<>> /\ shown = <<>> /\ leftOver = <<>>
    BY DEF ListInit
  <2>2. SnapshotInv
    BY <2>1 DEF SnapshotInv
  <2>3. Page \in Pages
    BY <2>1 DEF Page, Pages
  <2> QED
    BY <2>1, <2>2, <2>3 DEF ListInv, PageInv
<1>2. ListInv /\ [ListNext]_listVars => ListInv'
  <2> SUFFICES ASSUME ListInv, [ListNext]_listVars PROVE ListInv'
    OBVIOUS
  <2>1. CASE \E v \in Voters : Vote(v)
    BY <2>1, CastStep
  <2>2. CASE refreshDecisions
    BY <2>2, RefreshStep
  <2>3. ASSUME NEW f \in DOMAIN chains, ServeDecisions(f) PROVE ListInv'
    BY <2>3, ServeStep
  <2>4. ASSUME NEW f \in DOMAIN chains, getValues(f) PROVE ListInv'
    BY <2>4, ValuesStep
  <2>5. ASSUME NEW f \in DOMAIN chains, ShowDecisions(f) PROVE ListInv'
    BY <2>5, ShowStep
  <2>6. ASSUME NEW f \in DOMAIN chains, Fail(f) PROVE ListInv'
    BY <2>6, FailStep
  <2>7. CASE UNCHANGED listVars
    <3>1. UNCHANGED <<cast, chains, pending, final, shown, leftOver, overlapped>>
      BY <2>7 DEF listVars
    <3>2. Grows
      BY <3>1 DEF ListInv, SnapshotInv, Grows
    <3> QED
      BY <3>1, <3>2, QuietStep
  <2> QED
    BY <2>1, <2>2, <2>3, <2>4, <2>5, <2>6, <2>7 DEF ListNext
<1> QED
  BY <1>1, <1>2, PTL DEF ListSpec

(* "For every {voter, contest} pair, there may be several decisions, but   *)
(* exactly one should be counted" (decisiongenerator.capnp:29).            *)
THEOREM SnapshotCountedOnceHolds == ListSpec => []SnapshotCountedOnce
<1>1. ListInv => SnapshotCountedOnce
  <2> SUFFICES ASSUME ListInv, NEW f \in DOMAIN chains, NEW r, NEW s, NEW ids,
                      r = chains[f].returned, s = chains[f].snapshot, ids = chains[f].ids
               PROVE  /\ [i \in DOMAIN r |-> r[i].id] \o ids = s
                      /\ \A i \in DOMAIN r :
                             r[i].counted <=> ~ \E d \in ToSet(s) :
                                                    cast[d] = cast[r[i].id] /\ d > r[i].id
    BY DEF SnapshotCountedOnce
  <2>1. /\ cast \in Seq(Voters) /\ s \in Seq(DOMAIN cast) /\ InListOrder(s) /\ r \in Seq(Value)
        /\ Len(s) \in Nat /\ Len(r) \in Nat /\ Len(r) <= Len(s)
        /\ ids = SubSeq(s, Len(r) + 1, Len(s))
        /\ \A i \in 1 .. Len(r) : r[i].id = s[i] /\ (r[i].counted <=> Ends(s, i))
    <3>1. cast \in Seq(Voters) /\ Given(chains[f])
      BY DEF ListInv, SnapshotInv
    <3> QED
      BY <3>1 DEF Given, Chain
  <2> DEFINE given == [i \in DOMAIN r |-> r[i].id]
  <2>2. given \o ids = s
    <3> DEFINE k == Len(r)
               L == Len(s)
    <3>1. /\ ids \in Seq(DOMAIN cast) /\ Len(ids) = L - k
          /\ \A i \in 1 .. L - k : ids[i] = s[k + i]
      <4>1. s \in Seq(DOMAIN cast) /\ k \in 0 .. Len(s) /\ ids = SubSeq(s, k + 1, Len(s))
        BY <2>1
      <4> HIDE DEF k
      <4> QED
        BY <4>1, RestOf
    <3>2. given \in Seq(DOMAIN cast) /\ Len(given) = k /\ \A i \in 1 .. k : given[i] = s[i]
      <4>1. DOMAIN r = 1 .. k /\ k \in Nat
        BY <2>1
      <4>2. \A i \in 1 .. k : r[i].id = s[i] /\ s[i] \in DOMAIN cast
        BY <2>1
      <4>3. given \in [1 .. k -> DOMAIN cast]
        BY <4>1, <4>2
      <4> HIDE DEF k
      <4>4. given \in Seq(DOMAIN cast) /\ Len(given) = k
        BY <4>1, <4>3
      <4> QED
        BY <4>1, <4>2, <4>4
    <3> HIDE DEF given
    <3>3. /\ given \o ids \in Seq(DOMAIN cast) /\ Len(given \o ids) = Len(given) + Len(ids)
          /\ \A i \in 1 .. Len(given) + Len(ids) :
                (given \o ids)[i] = IF i <= Len(given) THEN given[i] ELSE ids[i - Len(given)]
      <4>1. given \in Seq(DOMAIN cast) /\ ids \in Seq(DOMAIN cast)
        BY <3>1, <3>2
      <4> QED
        BY <4>1, ConcatProperties
    <3>4. k \in Nat /\ L \in Nat /\ k <= L
      BY <2>1
    <3> HIDE DEF k, L
    <3>5. Len(given \o ids) = L /\ Len(given) + Len(ids) = L
      BY <3>1, <3>2, <3>3, <3>4
    <3>6. ASSUME NEW i \in 1 .. L PROVE (given \o ids)[i] = s[i]
      <4>1. (given \o ids)[i] = IF i <= k THEN given[i] ELSE ids[i - k]
        BY <3>2, <3>3, <3>5
      <4>2. CASE i <= k
        BY <3>2, <3>4, <4>1, <4>2
      <4>3. CASE ~ (i <= k)
        <5>1. i - k \in 1 .. L - k /\ k + (i - k) = i
          BY <3>4, <4>3
        <5> QED
          BY <3>1, <4>1, <4>3, <5>1
      <4> QED
        BY <4>2, <4>3
    <3>7. s \in Seq(DOMAIN cast) /\ Len(s) = L
      BY <2>1 DEF L
    <3> QED
      BY <3>3, <3>5, <3>6, <3>7, SeqEqual
  <2>3. ASSUME NEW i \in DOMAIN r
        PROVE  r[i].counted <=> ~ \E d \in ToSet(s) : cast[d] = cast[r[i].id] /\ d > r[i].id
    <3>1. i \in 1 .. Len(r) /\ i \in 1 .. Len(s) /\ r[i].id = s[i]
      <4>1. i \in 1 .. Len(r)
        BY <2>1
      <4> QED
        BY <2>1, <4>1
    <3>2. Ends(s, i) <=> ~ \E d \in ToSet(s) : cast[d] = cast[s[i]] /\ d > s[i]
      BY <2>1, <3>1, LastCounts
    <3> QED
      BY <2>1, <3>1, <3>2
  <2> QED
    BY <2>2, <2>3
<1> QED
  BY <1>1, ListInvHolds, PTL

(* A refresh that has run to its end leaves one group for each voter, and  *)
(* nothing is left over (ContestDetailPage.qml:183-217).                   *)
THEOREM PageShowsSnapshotHolds == ListSpec => []PageShowsSnapshot
<1>1. ListInv => PageShowsSnapshot
  <2> SUFFICES ASSUME ListInv, Undisturbed
               PROVE  /\ leftOver = <<>>
                      /\ chains # <<>> /\ LastChain.state = "done" /\ LastChain.snapshot # <<>> =>
                         /\ {shown[i].voter : i \in DOMAIN shown}
                                = {cast[d] : d \in ToSet(LastChain.snapshot)}
                         /\ \A i, j \in DOMAIN shown : shown[i].voter = shown[j].voter => i = j
                         /\ \A i \in DOMAIN shown :
                                /\ AreDecisionsOf(shown[i].records, LastChain.snapshot, shown[i].voter)
                                /\ shown[i].voter = Me => i = 1
    BY Zenon DEF PageShowsSnapshot
  <2>1. leftOver = <<>>
    BY DEF ListInv, PageInv
  <2>2. ASSUME chains # <<>>, LastChain.state = "done", NEW s, s = LastChain.snapshot, s # <<>>
        PROVE  /\ {shown[i].voter : i \in DOMAIN shown} = {cast[d] : d \in ToSet(s)}
               /\ \A i, j \in DOMAIN shown : shown[i].voter = shown[j].voter => i = j
               /\ \A i \in DOMAIN shown : /\ AreDecisionsOf(shown[i].records, s, shown[i].voter)
                                          /\ shown[i].voter = Me => i = 1
    <3>1. OnPage(LastChain, Page)
      BY <2>2 DEF ListInv, PageInv
    <3>2. OneGroupEach(shown, s, Len(s))
      BY <2>2, <3>1 DEF OnPage, Page
    <3>3. s \in Seq(DOMAIN cast)
      <4>1. Len(chains) \in DOMAIN chains
        BY <2>2 DEF ListInv, SnapshotInv
      <4> QED
        BY <2>2, <4>1 DEF ListInv, SnapshotInv, Given, LastChain
    <3>4. {cast[s[q]] : q \in 1 .. Len(s)} = {cast[d] : d \in ToSet(s)}
      BY <3>3 DEF ToSet
    <3> QED
      BY <3>2, <3>4 DEF OneGroupEach
  <2> QED
    BY <2>1, <2>2
<1> QED
  BY <1>1, ListInvHolds, PTL
==============================================================================
