--------------------------- MODULE Casting_proofs ---------------------------
(* Proofs about Casting and the WalletBridge in it: the app has one line to *)
(* the wallet and no call without one; the transactions of one press agree; *)
(* a revocation that fails gives the opinions back; and the official        *)
(* decision is the newest on the chain.  The inductive invariant is         *)
(* CastingInv, in parts: Base, what is so however operations overlap; Once, *)
(* nobody waits for two calls; Sending, a try broadcasts once; Successive,  *)
(* the order of the tries; and Calm, what holds while operations on the     *)
(* contest have not overlapped.  RestoreInv and RecordInv extend it.        *)
EXTENDS Casting, SequenceTheorems, FiniteSetTheorems, TLAPS

-----------------------------------------------------------------------------
(* Minimal numbers, enumerations of finite sets, sequences.                 *)

Before == {p \in Nat \X Nat : p[1] < p[2]}

(* Naturals do not descend for ever.                                        *)
LEMMA BeforeWellFounded == IsWellFoundedOn(Before, Nat)
BY NatLessThanWellFounded, Zenon DEF OpToRel, Before

(* A set of naturals that is not empty has a least element, and Min is it.  *)
LEMMA NatMin ==
    ASSUME NEW S, S \subseteq Nat, S # {}
    PROVE  Min(S) \in S /\ \A y \in S : Min(S) <= y
<1>1. PICK x \in S : \A y \in S : ~ (<<y, x>> \in Before)
  BY BeforeWellFounded, WFMin
<1>2. ASSUME NEW y \in S PROVE x <= y
  <2>1. x \in Nat /\ y \in Nat /\ ~ (<<y, x>> \in Before)
    BY <1>1
  <2> QED
    BY <2>1 DEF Before
<1> QED
  BY <1>2 DEF Min

(* A set is enumerated by the IDs of its members.                           *)
Sorted(s) == \A i, j \in DOMAIN s : i < j => s[i] # s[j] /\ s[i].id <= s[j].id

Sizes(S) == {n \in Nat : \E T \in SUBSET S :
                 /\ IsFiniteSet(T) /\ Cardinality(T) = n
                 /\ ~ \E s \in [1 .. n -> T] : Sorted(s)}

(* A finite set of calls can be listed in the order of their IDs: the least *)
(* set that cannot has one whose first call can be taken off.               *)
LEMMA Enumerated ==
    ASSUME NEW S, IsFiniteSet(S), \A q \in S : q.id \in Nat
    PROVE  \E s \in [1 .. Cardinality(S) -> S] : Sorted(s)
<1> SUFFICES ASSUME Sizes(S) # {} PROVE FALSE
  <2>1. Cardinality(S) \in Nat
    BY FS_CardinalityType
  <2> QED
    BY <2>1 DEF Sizes
<1> DEFINE n == Min(Sizes(S))
<1>1. n \in Sizes(S) /\ \A m \in Sizes(S) : n <= m
  BY NatMin DEF Sizes
<1> HIDE DEF n
<1>2. n \in Nat
  BY <1>1 DEF Sizes
<1>3. PICK T \in SUBSET S : /\ IsFiniteSet(T) /\ Cardinality(T) = n
                            /\ ~ \E s \in [1 .. n -> T] : Sorted(s)
  BY <1>1 DEF Sizes
<1>4. n # 0
  <2> SUFFICES ASSUME n = 0 PROVE FALSE
    OBVIOUS
  <2>1. [i \in 1 .. n |-> i] \in [1 .. n -> T] /\ 1 .. n = {}
    OBVIOUS
  <2>2. Sorted([i \in 1 .. n |-> i])
    BY <2>1 DEF Sorted
  <2> QED
    BY <1>3, <2>1, <2>2
<1>5. T # {}
  BY <1>3, <1>4, FS_EmptySet
<1> DEFINE ids == {q.id : q \in T}
<1>6. PICK first \in T : \A q \in T : first.id <= q.id
  <2>1. ids \subseteq Nat /\ ids # {}
    BY <1>5
  <2>2. Min(ids) \in ids /\ \A i \in ids : Min(ids) <= i
    BY <2>1, NatMin
  <2> QED
    BY <2>2
<1> DEFINE rest == T \ {first}
<1>7. IsFiniteSet(rest) /\ Cardinality(rest) = n - 1
  BY <1>2, <1>3, FS_RemoveElement
<1>8. n - 1 \in Nat /\ n - 1 < n
  BY <1>2, <1>4
<1>9. n - 1 \notin Sizes(S)
  BY <1>1, <1>2
<1>10. PICK t \in [1 .. n - 1 -> rest] : Sorted(t)
  BY <1>7, <1>8, <1>9 DEF Sizes
<1> DEFINE s == [i \in 1 .. n |-> IF i = 1 THEN first ELSE t[i - 1]]
<1>11. s \in [1 .. n -> T]
  <2>1. \A i \in 1 .. n : i # 1 => i - 1 \in 1 .. n - 1
    BY <1>2
  <2> QED
    BY <1>10, <2>1
<1>12. Sorted(s)
  <2> SUFFICES ASSUME NEW i \in 1 .. n, NEW j \in 1 .. n, i < j
               PROVE  s[i] # s[j] /\ s[i].id <= s[j].id
    BY DEF Sorted
  <2>1. j # 1 /\ j - 1 \in 1 .. n - 1 /\ s[j] = t[j - 1]
    BY <1>2
  <2>2. s[j] \in rest
    BY <1>10, <2>1
  <2>3. CASE i = 1
    BY <1>6, <2>2, <2>3
  <2>4. CASE i # 1
    <3>1. i - 1 \in 1 .. n - 1 /\ i - 1 < j - 1 /\ s[i] = t[i - 1]
      BY <1>2, <2>4
    <3> QED
      BY <1>10, <2>1, <3>1 DEF Sorted
  <2> QED
    BY <2>3, <2>4
<1> QED
  BY <1>3, <1>11, <1>12

(* ById lists every call once.                                              *)
LEMMA ByIdEnumerates ==
    ASSUME NEW S, IsFiniteSet(S), \A q \in S : q.id \in Nat
    PROVE  /\ Cardinality(S) \in Nat
           /\ ById(S) \in [1 .. Cardinality(S) -> S]
           /\ \A i, j \in 1 .. Cardinality(S) : ById(S)[i] = ById(S)[j] => i = j
<1>1. Cardinality(S) \in Nat
  BY FS_CardinalityType
<1>2. ById(S) \in [1 .. Cardinality(S) -> S] /\ Sorted(ById(S))
  BY Enumerated DEF ById, Sorted
<1> HIDE DEF ById
<1> QED
  BY <1>1, <1>2 DEF Sorted

(* The elements of a sequence over S are in S.                              *)
LEMMA Members ==
    ASSUME NEW S, NEW s \in Seq(S)
    PROVE  DOMAIN s = 1 .. Len(s) /\ \A k \in DOMAIN s : k \in Nat \ {0} /\ s[k] \in S
OBVIOUS

(* The tail of a sequence, place by place.                                  *)
LEMMA TailFacts ==
    ASSUME NEW S, NEW s \in Seq(S), s # <<>>
    PROVE  /\ Head(s) = s[1] /\ Head(s) \in S /\ 1 \in DOMAIN s
           /\ Tail(s) \in Seq(S)
           /\ \A i \in DOMAIN Tail(s) : i \in Nat /\ i + 1 \in DOMAIN s /\ Tail(s)[i] = s[i + 1]
OBVIOUS

(* A sequence with one more element, place by place.                        *)
LEMMA AppendFacts ==
    ASSUME NEW S, NEW s \in Seq(S), NEW e \in S
    PROVE  /\ Append(s, e) \in Seq(S)
           /\ Len(s) \in Nat /\ DOMAIN s = 1 .. Len(s)
           /\ DOMAIN Append(s, e) = 1 .. Len(s) + 1
           /\ \A i \in 1 .. Len(s) : Append(s, e)[i] = s[i]
           /\ Append(s, e)[Len(s) + 1] = e
OBVIOUS

-----------------------------------------------------------------------------
(* The base: types, the line to the wallet, the calls outstanding on it, the*)
(* queue of continuations and what the app can have asked for.              *)

Value == Decisions \union {<<>>}

Owners == [part : {"try", "cancel", "feed"}, n : Nat]

Answer == [call : Calls, ok : BOOLEAN, value : Value]

Reply == [kind : {"reply"}, call : Calls, ok : BOOLEAN, value : Value]

Event == Reply \union [kind : {"client"}, conn : Conns]

TryRecord == [press : Nat, kind : {"cast", "revoke"}, snapshot : Decisions,
              backup : Decisions, cast : Decisions \union {NoDecision}, conn : Nat,
              ignored : BOOLEAN, outcome : {"running", "resolved", "rejected"}]

Entry == [try : Nat, decision : Decisions]

Replies(ev) == {i \in DOMAIN ev : ev[i].kind = "reply"}
Answers(ev) == {i \in DOMAIN ev : ev[i].kind = "reply" /\ ev[i].ok}
Arrivals(ev) == {i \in DOMAIN ev : ev[i].kind = "client"}

BridgeTypes ==
    /\ opened \in 0 .. MaxConn /\ open \subseteq 1 .. opened /\ served \subseteq 1 .. opened
    /\ pendingConnections \in Seq(1 .. opened)
    /\ contexts \in Nat /\ client \in {0} \union served
    /\ nextQueryId \in [Conns -> Nat]
    /\ pendingRequests \subseteq Calls /\ inbox \subseteq Calls
    /\ replies \subseteq Answer /\ events \in Seq(Event)

AppTypes ==
    /\ backend \in {"up", "connecting", "down"}
    /\ pending \in Decisions
    /\ official \in Decisions \union {NoDecision}
    /\ popup \in [open : BOOLEAN, kind : {"cast", "revoke"}, current : Nat]
    /\ loaded \in BOOLEAN /\ cancels \in 0 .. MaxCancels /\ disturbed \in BOOLEAN
    /\ tries \in Seq(TryRecord) /\ chain \in Seq(Entry)

(* The connection that is served and connected, or the context that waits.  *)
Lines ==
    /\ \/ contexts = 1 /\ open \intersect served = {} /\ pendingConnections = <<>>
       \/ contexts = 0 /\ \E c \in 1 .. opened : open \intersect served = {c}
    /\ \A i \in DOMAIN pendingConnections : pendingConnections[i] \notin served
    /\ \A i, j \in DOMAIN pendingConnections :
          pendingConnections[i] = pendingConnections[j] => i = j
    /\ \A n \in DOMAIN tries : tries[n].conn \in {0} \union served

Requests ==
    /\ IsFiniteSet(pendingRequests)
    /\ \A q \in pendingRequests :
          q.conn = client /\ client \in open /\ q.id \in Nat /\ q.id < nextQueryId[client]
    /\ \A p, q \in pendingRequests : p.id = q.id => p = q
    /\ \A q \in inbox : q.conn \in served /\ (q.conn \in open => q \in pendingRequests)
    /\ \A r \in replies : r.call \in pendingRequests /\ r.call \notin inbox
    /\ \A r, s \in replies : r.call = s.call => r = s

QueueOf(ev, cl, ts, op, sv) ==
    /\ \A i \in Arrivals(ev) :
          /\ ev[i].conn \in sv \ {cl}
          /\ cl \notin op
          /\ \A n \in DOMAIN ts : ts[n].conn # ev[i].conn
          /\ \A j \in Arrivals(ev) : i < j => ev[i].conn # ev[j].conn /\ ev[i].conn \notin op
    /\ \A j \in Answers(ev) : ev[j].call.conn = cl /\ \A i \in Arrivals(ev) : j < i

Queue == QueueOf(events, client, tries, open, served)

(* What the app with the tries ts can have asked for.                       *)
FitsIn(q, ts, sv, ld, ca) ==
    /\ q.conn \in sv
    /\ IF q.owner.part = "try" THEN q.owner.n \in DOMAIN ts /\ q.method # "decision"
       ELSE q.method = "decision" /\ ld
    /\ q.owner.part = "cancel" => q.owner.n <= ca
    /\ q.owner.part = "feed" => q.owner.n = 0
    /\ q.method \in {"fees", "broadcast"} =>
          ts[q.owner.n].cast \in Decisions /\ ts[q.owner.n].conn # 0

(* An answer carries a decision if it was asked for one.                    *)
Carries(e) == e.ok /\ e.call.method = "decision" => e.value \in Decisions

FitCalls ==
    /\ \A q \in pendingRequests : FitsIn(q, tries, served, loaded, cancels)
    /\ \A q \in inbox : FitsIn(q, tries, served, loaded, cancels)
    /\ \A i \in Replies(events) : FitsIn(events[i].call, tries, served, loaded, cancels) /\ Carries(events[i])
    /\ \A r \in replies : Carries(r)

FitPopup ==
    /\ loaded => client # 0
    /\ popup.open => loaded
    /\ popup.current = Len(tries)
    /\ tries # <<>> => popup.kind = tries[Len(tries)].kind /\ loaded

Base == BridgeTypes /\ AppTypes /\ Lines /\ Requests /\ Queue /\ FitCalls /\ FitPopup

(* An event is a reply or an arrival.                                       *)
LEMMA EventKinds ==
    ASSUME NEW e \in Event
    PROVE  /\ e.kind \in {"reply", "client"}
           /\ e.kind = "reply" => e \in Reply
           /\ e.kind = "client" => e.conn \in Conns
BY DEF Event, Reply

(* What the queue of events holds after its head has been taken.            *)
LEMMA QueueTail ==
    ASSUME NEW ev \in Seq(Event), ev # <<>>, NEW cl, NEW ts, NEW op, NEW sv, QueueOf(ev, cl, ts, op, sv)
    PROVE  /\ QueueOf(Tail(ev), cl, ts, op, sv)
           /\ Head(ev).kind = "client" =>
                 /\ QueueOf(Tail(ev), Head(ev).conn, ts, op, sv)
                 /\ Answers(Tail(ev)) = {}
<1>1. /\ \A i \in DOMAIN Tail(ev) : i \in Nat /\ i + 1 \in DOMAIN ev /\ Tail(ev)[i] = ev[i + 1]
      /\ 1 \in DOMAIN ev /\ Head(ev) = ev[1] /\ DOMAIN ev \subseteq Nat \ {0}
  BY TailFacts
<1> DEFINE t == Tail(ev)
<1> HIDE DEF t
<1>2. /\ \A i \in Arrivals(t) : i \in Nat /\ i > 0 /\ i + 1 \in Arrivals(ev) /\ t[i] = ev[i + 1]
      /\ \A i \in Answers(t) : i \in Nat /\ i > 0 /\ i + 1 \in Answers(ev) /\ t[i] = ev[i + 1]
  <2>1. DOMAIN t \subseteq Nat \ {0}
    BY TailFacts DEF t
  <2> QED
    BY <1>1, <2>1 DEF Arrivals, Answers, t
<1>3. QueueOf(t, cl, ts, op, sv)
  BY <1>2 DEF QueueOf
<1>4. ASSUME Head(ev).kind = "client"
      PROVE  QueueOf(t, Head(ev).conn, ts, op, sv) /\ Answers(t) = {}
  <2>1. 1 \in Arrivals(ev) /\ ev[1] = Head(ev)
    BY <1>1, <1>4 DEF Arrivals
  <2>2. Answers(t) = {}
    <3> SUFFICES ASSUME NEW j \in Answers(t) PROVE FALSE
      OBVIOUS
    <3>1. j + 1 \in Answers(ev) /\ j \in Nat
      BY <1>2
    <3>2. j + 1 < 1
      BY <2>1, <3>1 DEF QueueOf
    <3> QED
      BY <3>1, <3>2
  <2>3. \A i \in Arrivals(t) : t[i].conn # Head(ev).conn /\ Head(ev).conn \notin op
    BY <1>2, <2>1 DEF QueueOf
  <2> QED
    BY <1>3, <2>2, <2>3 DEF QueueOf
<1> QED
  BY <1>3, <1>4 DEF t

(* A reply joins the queue: a failure at any time, an answer when no arrival*)
(* is queued.                                                               *)
LEMMA QueueAppend ==
    ASSUME NEW ev \in Seq(Event), NEW e \in Reply, NEW cl, NEW ts, NEW op, NEW sv, QueueOf(ev, cl, ts, op, sv),
           ~ e.ok \/ (e.call.conn = cl /\ Arrivals(ev) = {})
    PROVE  /\ QueueOf(Append(ev, e), cl, ts, op, sv) /\ Append(ev, e) \in Seq(Event)
           /\ \A i \in DOMAIN Append(ev, e) :
                 (i \in DOMAIN ev /\ Append(ev, e)[i] = ev[i]) \/ Append(ev, e)[i] = e
<1> DEFINE t == Append(ev, e)
<1>1. e \in Event /\ e.kind = "reply"
  BY DEF Event, Reply
<1>2. /\ t \in Seq(Event)
      /\ Len(ev) \in Nat /\ DOMAIN ev = 1 .. Len(ev)
      /\ DOMAIN t = 1 .. Len(ev) + 1
      /\ \A i \in 1 .. Len(ev) : t[i] = ev[i]
      /\ t[Len(ev) + 1] = e
  BY <1>1, AppendFacts
<1> HIDE DEF t
<1>3. Arrivals(t) = Arrivals(ev) /\ \A i \in Arrivals(ev) : t[i] = ev[i] /\ i < Len(ev) + 1
  BY <1>1, <1>2 DEF Arrivals
<1>4. \A i \in Answers(t) : (i \in Answers(ev) /\ t[i] = ev[i]) \/ (i = Len(ev) + 1 /\ e.ok)
  BY <1>2 DEF Answers
<1>5. QueueOf(t, cl, ts, op, sv)
  <2>1. \A i \in Arrivals(t) :
          /\ t[i].conn \in sv \ {cl}
          /\ cl \notin op
          /\ \A n \in DOMAIN ts : ts[n].conn # t[i].conn
          /\ \A j \in Arrivals(t) : i < j => t[i].conn # t[j].conn /\ t[i].conn \notin op
    BY <1>3 DEF QueueOf
  <2>2. \A j \in Answers(t) : t[j].call.conn = cl /\ \A i \in Arrivals(t) : j < i
    BY <1>2, <1>3, <1>4 DEF QueueOf
  <2> QED
    BY <2>1, <2>2 DEF QueueOf
<1>6. \A i \in DOMAIN t : (i \in DOMAIN ev /\ t[i] = ev[i]) \/ t[i] = e
  BY <1>2
<1> QED
  BY <1>2, <1>5, <1>6 DEF t

-----------------------------------------------------------------------------
(* What a continuation does to the bridge.                                  *)

NewCall(c, id, owner, method) == [conn |-> c, id |-> id, owner |-> owner, method |-> method]

Bridge == BridgeTypes /\ Lines /\ Requests /\ Queue /\ FitCalls

(* What a step of the app may do to the state that the calls depend on.     *)
Grows ==
    /\ served \subseteq served' /\ (loaded => loaded')
    /\ cancels \in Nat /\ cancels' \in Nat /\ cancels <= cancels'
    /\ DOMAIN tries \subseteq DOMAIN tries'
    /\ \A n \in DOMAIN tries :
          /\ tries[n].cast \in Decisions => tries'[n].cast \in Decisions
          /\ tries[n].conn # 0 => tries'[n].conn # 0
    /\ \A n \in DOMAIN tries' : tries'[n].conn \in {0} \union served'

Still == UNCHANGED <<pendingRequests, nextQueryId, inbox>>

Part(rest, ev) == \A j \in DOMAIN rest : \E i \in DOMAIN ev : rest[j] = ev[i]

(* A call that fits the app fits it when it has grown.                      *)
LEMMA FitsLater ==
    ASSUME Grows, NEW q \in Calls, FitsIn(q, tries, served, loaded, cancels)
    PROVE  FitsIn(q, tries', served', loaded', cancels')
<1>1. q.owner.n \in Nat
  BY DEF Calls
<1> QED
  BY <1>1 DEF Grows, FitsIn

(* So do the calls of the queue.                                            *)
LEMMA RestFits ==
    ASSUME BridgeTypes, FitCalls, Grows, NEW rest \in Seq(Event), Part(rest, events)
    PROVE  \A i \in Replies(rest) : /\ FitsIn(rest[i].call, tries', served', loaded', cancels')
                                    /\ Carries(rest[i])
<1> SUFFICES ASSUME NEW i \in Replies(rest)
             PROVE  /\ FitsIn(rest[i].call, tries', served', loaded', cancels')
                    /\ Carries(rest[i])
  OBVIOUS
<1>1. PICK j \in DOMAIN events : rest[i] = events[j]
  BY DEF Part, Replies
<1>2. j \in Replies(events) /\ events[j] \in Reply
  <2>1. events[j] \in Event /\ events[j].kind = "reply"
    BY <1>1, ElementOfSeq DEF BridgeTypes, Replies
  <2> QED
    BY <2>1, EventKinds DEF Replies
<1>3. events[j].call \in Calls
  BY <1>2 DEF Reply
<1> QED
  BY <1>1, <1>2, <1>3, FitsLater DEF FitCalls

(* A step of the app that goes on without a call.                           *)
LEMMA QuietStep ==
    ASSUME Bridge, Grows,
           NEW rest \in Seq(Event), Part(rest, events),
           QueueOf(rest, client', tries', open, served),
           client' \in {0} \union served, client' = client \/ pendingRequests = {},
           events' = rest, Still,
           UNCHANGED <<opened, open, pendingConnections, contexts, served, replies>>
    PROVE  Bridge'
<1>1. BridgeTypes'
  BY DEF Bridge, BridgeTypes, Still
<1>2. Lines'
  BY DEF Bridge, Lines, Grows
<1>3. Requests'
  <2>1. /\ pendingRequests' = pendingRequests /\ inbox' = inbox /\ replies' = replies
        /\ nextQueryId' = nextQueryId /\ open' = open /\ served' = served
    BY DEF Still
  <2>2. \A q \in pendingRequests' : q.conn = client' /\ client' \in open'
                                    /\ q.id \in Nat /\ q.id < nextQueryId'[client']
    BY <2>1 DEF Bridge, Requests
  <2> QED
    BY <2>1, <2>2 DEF Bridge, Requests
<1>4. Queue'
  BY DEF Queue
<1>5. FitCalls'
  <2>1. \A q \in pendingRequests' : FitsIn(q, tries', served', loaded', cancels')
    BY FitsLater DEF Bridge, FitCalls, Still, BridgeTypes
  <2>2. \A q \in inbox' : FitsIn(q, tries', served', loaded', cancels')
    BY FitsLater DEF Bridge, FitCalls, Still, BridgeTypes
  <2>3. \A i \in Replies(events') : /\ FitsIn(events'[i].call, tries', served', loaded', cancels')
                                    /\ Carries(events'[i])
    BY RestFits DEF Bridge
  <2>4. \A r \in replies' : Carries(r)
    BY DEF Bridge, FitCalls
  <2> QED
    BY <2>1, <2>2, <2>3, <2>4 DEF FitCalls
<1> QED
  BY <1>1, <1>2, <1>3, <1>4, <1>5 DEF Bridge

(* A step of the app that ends in a call over the chain client it then has. *)
LEMMA CallStep ==
    ASSUME Bridge, Grows,
           NEW rest \in Seq(Event), Part(rest, events),
           QueueOf(rest, client', tries', open, served),
           client' \in served, client' = client \/ pendingRequests = {},
           NEW owner \in Owners, NEW method \in {"decision", "balances", "fees", "broadcast"},
           FitsIn(NewCall(client', -1, owner, method), tries', served', loaded', cancels'),
           BeginCall(client', owner, method, rest),
           UNCHANGED <<opened, open, pendingConnections, contexts, served, replies>>
    PROVE  Bridge'
<1>0. client' \in Conns /\ client' \in Nat
  BY BridgeAssumption DEF Bridge, BridgeTypes, Conns
<1>1. CASE client' \notin open
  <2> DEFINE q == NewCall(client', -1, owner, method)
             e == Settled(q, FALSE, <<>>)
  <2>1. events' = Append(rest, e) /\ Still
    BY <1>1 DEF BeginCall, NewCall, Still
  <2>2. q \in Calls
    BY <1>0 DEF NewCall, Calls, Owners
  <2>3. e \in Reply /\ e.call = q /\ e.ok = FALSE
    BY <2>2 DEF Settled, Reply, Value
  <2>4. FitsIn(q, tries', served', loaded', cancels')
    OBVIOUS
  <2> HIDE DEF e, q
  <2>5. /\ QueueOf(Append(rest, e), client', tries', open, served)
        /\ Append(rest, e) \in Seq(Event)
        /\ \A i \in DOMAIN Append(rest, e) :
                 (i \in DOMAIN rest /\ Append(rest, e)[i] = rest[i]) \/ Append(rest, e)[i] = e
    BY <2>3, QueueAppend
  <2>6. BridgeTypes' /\ Lines' /\ Queue'
    BY <2>1, <2>5 DEF Bridge, BridgeTypes, Lines, Queue, Still, Grows
  <2>7. Requests'
    <3>1. /\ pendingRequests' = pendingRequests /\ inbox' = inbox /\ replies' = replies
          /\ nextQueryId' = nextQueryId /\ open' = open /\ served' = served
      BY <2>1 DEF Still
    <3>2. pendingRequests = {}
      BY <1>1 DEF Bridge, Requests
    <3> QED
      BY <3>1, <3>2 DEF Bridge, Requests
  <2>8. FitCalls'
    <3>1. \A p \in pendingRequests' : FitsIn(p, tries', served', loaded', cancels')
      BY <2>1, FitsLater DEF Bridge, FitCalls, Still, BridgeTypes
    <3>2. \A p \in inbox' : FitsIn(p, tries', served', loaded', cancels')
      BY <2>1, FitsLater DEF Bridge, FitCalls, Still, BridgeTypes
    <3>3. \A i \in Replies(events') : /\ FitsIn(events'[i].call, tries', served', loaded', cancels')
                                      /\ Carries(events'[i])
      <4>1. \A i \in Replies(rest) : /\ FitsIn(rest[i].call, tries', served', loaded', cancels')
                                     /\ Carries(rest[i])
        BY RestFits DEF Bridge
      <4>2. \A i \in Replies(events') : (i \in Replies(rest) /\ events'[i] = rest[i]) \/ events'[i] = e
        BY <2>1, <2>5 DEF Replies
      <4>3. FitsIn(e.call, tries', served', loaded', cancels') /\ Carries(e)
        BY <2>3, <2>4 DEF Carries
      <4> QED
        BY <4>1, <4>2, <4>3
    <3>4. \A r \in replies' : Carries(r)
      BY DEF Bridge, FitCalls
    <3> QED
      BY <3>1, <3>2, <3>3, <3>4 DEF FitCalls
  <2> QED
    BY <2>6, <2>7, <2>8 DEF Bridge
<1>2. CASE client' \in open
  <2> DEFINE id == nextQueryId[client']
             q == NewCall(client', id, owner, method)
  <2>1. /\ pendingRequests' = pendingRequests \union {q}
        /\ inbox' = inbox \union {q}
        /\ nextQueryId' = [nextQueryId EXCEPT ![client'] = @ + 1]
        /\ events' = rest
    BY <1>2 DEF BeginCall, NewCall
  <2>2. id \in Nat /\ nextQueryId' \in [Conns -> Nat] /\ nextQueryId'[client'] = id + 1
    BY <1>0, <2>1 DEF Bridge, BridgeTypes
  <2>3. q \in Calls /\ q.conn = client' /\ q.id = id
    BY <1>0, <2>2 DEF NewCall, Calls, Owners
  <2>4. FitsIn(q, tries', served', loaded', cancels')
    BY DEF NewCall, FitsIn
  <2> HIDE DEF q
  <2>5. BridgeTypes' /\ Lines' /\ Queue'
    BY <2>1, <2>2, <2>3 DEF Bridge, BridgeTypes, Lines, Queue, Grows
  <2>6. \A p \in pendingRequests : p.conn = client' /\ p.id \in Nat /\ p.id < id
    BY DEF Bridge, Requests
  <2>7. Requests'
    <3>1. IsFiniteSet(pendingRequests')
      BY <2>1, FS_AddElement DEF Bridge, Requests
    <3>2. \A p \in pendingRequests' : p.conn = client' /\ client' \in open'
                                      /\ p.id \in Nat /\ p.id < nextQueryId'[client']
      BY <1>2, <2>1, <2>2, <2>3, <2>6
    <3>3. \A p, r \in pendingRequests' : p.id = r.id => p = r
      BY <2>1, <2>3, <2>6 DEF Bridge, Requests
    <3>4. \A p \in inbox' : p.conn \in served' /\ (p.conn \in open' => p \in pendingRequests')
      BY <2>1, <2>3 DEF Bridge, Requests
    <3>5. \A r \in replies' : r.call \in pendingRequests' /\ r.call \notin inbox'
      BY <2>1, <2>2, <2>3, <2>6 DEF Bridge, Requests
    <3>6. \A r, s \in replies' : r.call = s.call => r = s
      BY DEF Bridge, Requests
    <3> QED
      BY <3>1, <3>2, <3>3, <3>4, <3>5, <3>6 DEF Requests
  <2>8. FitCalls'
    <3>1. \A p \in pendingRequests' : FitsIn(p, tries', served', loaded', cancels')
      BY <2>1, <2>4, FitsLater DEF Bridge, FitCalls, BridgeTypes
    <3>2. \A p \in inbox' : FitsIn(p, tries', served', loaded', cancels')
      BY <2>1, <2>4, FitsLater DEF Bridge, FitCalls, BridgeTypes
    <3>3. \A i \in Replies(events') : /\ FitsIn(events'[i].call, tries', served', loaded', cancels')
                                      /\ Carries(events'[i])
      BY <2>1, RestFits DEF Bridge
    <3>4. \A r \in replies' : Carries(r)
      BY DEF Bridge, FitCalls
    <3> QED
      BY <3>1, <3>2, <3>3, <3>4 DEF FitCalls
  <2> QED
    BY <2>5, <2>7, <2>8 DEF Bridge
<1> QED
  BY <1>1, <1>2

-----------------------------------------------------------------------------
(* Answers are delivered, and the wallet deals with calls.                  *)

(* An answer that is delivered ends the call it belongs to.                 *)
LEMMA Delivered ==
    ASSUME Bridge, NEW r \in replies, FinishCall(r)
    PROVE  /\ r \in Answer /\ r.call \in pendingRequests
           /\ replies' = replies \ {r}
           /\ pendingRequests' = pendingRequests \ {r.call}
           /\ events' = Append(events, Settled(r.call, r.ok, r.value))
           /\ UNCHANGED <<opened, open, pendingConnections, contexts, served, client,
                          nextQueryId, inbox>>
<1> DEFINE found == {q \in pendingRequests : q.conn = r.call.conn /\ q.id = r.call.id}
<1>1. r \in Answer /\ r.call \in pendingRequests
  BY DEF Bridge, BridgeTypes, Requests
<1>2. found = {r.call}
  BY <1>1 DEF Bridge, Requests
<1> HIDE DEF found
<1>3. IsFiniteSet(found) /\ Cardinality(found) = 1 /\ \A q \in found : q.id \in Nat
  BY <1>1, <1>2, FS_Singleton DEF Bridge, Requests
<1>4. ById(found)[1] = r.call
  <2>1. ById(found) \in [1 .. 1 -> found]
    BY <1>3, ByIdEnumerates
  <2> HIDE DEF ById
  <2>2. ById(found)[1] \in found
    BY <2>1
  <2> QED
    BY <1>2, <2>2
<1>5. /\ replies' = replies \ {r}
      /\ pendingRequests' = pendingRequests \ found
      /\ events' = events \o
             [i \in 1 .. Cardinality(found) |-> Settled(ById(found)[i], r.ok, r.value)]
      /\ UNCHANGED <<opened, open, pendingConnections, contexts, served, client,
                     nextQueryId, inbox>>
  BY DEF FinishCall, found
<1>6. events \o [i \in 1 .. Cardinality(found) |-> Settled(ById(found)[i], r.ok, r.value)]
      = Append(events, Settled(r.call, r.ok, r.value))
  <2> DEFINE t == [i \in 1 .. Cardinality(found) |-> Settled(ById(found)[i], r.ok, r.value)]
             e == Settled(r.call, r.ok, r.value)
  <2> HIDE DEF ById
  <2>1. t = [i \in 1 .. 1 |-> e]
    BY <1>3, <1>4
  <2>2. [i \in 1 .. 1 |-> e] = <<e>>
    OBVIOUS
  <2> HIDE DEF e, t
  <2>3. events \in Seq(Event) /\ events \o <<e>> = Append(events, e)
    BY AppendIsConcat DEF Bridge, BridgeTypes
  <2> QED
    BY <2>1, <2>2, <2>3 DEF t, e
<1> QED
  BY <1>1, <1>2, <1>5, <1>6

(* An answer that is delivered leaves the bridge in order.                  *)
LEMMA ReceiveBridge ==
    ASSUME Bridge, Receive
    PROVE  Bridge'
<1>1. PICK r \in replies : FinishCall(r)
  BY DEF Receive
<1> DEFINE q == r.call
           e == Settled(r.call, r.ok, r.value)
<1>2. /\ r \in Answer /\ q \in pendingRequests
      /\ replies' = replies \ {r}
      /\ pendingRequests' = pendingRequests \ {q}
      /\ events' = Append(events, e)
      /\ UNCHANGED <<opened, open, pendingConnections, contexts, served, client,
                     nextQueryId, inbox>>
      /\ UNCHANGED <<tries, loaded, cancels>>
  BY <1>1, Delivered DEF Receive, appVars
<1>3. e \in Reply /\ e.call = q /\ e.ok = r.ok /\ e.value = r.value
  BY <1>2 DEF Answer, Reply, Settled
<1>4. q.conn = client /\ client \in open
  BY <1>2 DEF Bridge, Requests
<1> HIDE DEF e
<1>5. Arrivals(events) = {}
  BY <1>4 DEF Bridge, Queue, QueueOf
<1>6. /\ QueueOf(Append(events, e), client, tries, open, served)
      /\ Append(events, e) \in Seq(Event)
      /\ \A i \in DOMAIN Append(events, e) :
             (i \in DOMAIN events /\ Append(events, e)[i] = events[i]) \/ Append(events, e)[i] = e
  BY <1>3, <1>4, <1>5, QueueAppend DEF Bridge, BridgeTypes, Queue
<1>7. BridgeTypes' /\ Lines' /\ Queue'
  BY <1>2, <1>6 DEF Bridge, BridgeTypes, Lines, Queue
<1>8. Requests'
  <2>1. IsFiniteSet(pendingRequests')
    BY <1>2, FS_RemoveElement DEF Bridge, Requests
  <2>2. \A p \in inbox' : p.conn \in served' /\ (p.conn \in open' => p \in pendingRequests')
    BY <1>2 DEF Bridge, Requests
  <2>3. \A s \in replies' : s.call \in pendingRequests' /\ s.call \notin inbox'
    BY <1>2 DEF Bridge, Requests
  <2> QED
    BY <1>2, <2>1, <2>2, <2>3 DEF Bridge, Requests
<1>9. FitCalls'
  <2>1. \A i \in Replies(events') : (i \in Replies(events) /\ events'[i] = events[i]) \/ events'[i] = e
    BY <1>2, <1>6 DEF Replies
  <2>2. FitsIn(e.call, tries', served', loaded', cancels') /\ Carries(e)
    <3>1. FitsIn(q, tries, served, loaded, cancels)
      BY <1>2 DEF Bridge, FitCalls
    <3>2. Carries(r)
      BY <1>2 DEF Bridge, FitCalls
    <3> QED
      BY <1>2, <1>3, <3>1, <3>2 DEF Carries
  <2>3. \A i \in Replies(events') : FitsIn(events'[i].call, tries', served', loaded', cancels') /\ Carries(events'[i])
    BY <1>2, <2>1, <2>2 DEF Bridge, FitCalls
  <2> QED
    BY <1>2, <2>3 DEF Bridge, FitCalls
<1> QED
  BY <1>7, <1>8, <1>9 DEF Bridge

(* A call the wallet deals with leaves the bridge in order.                 *)
LEMMA AnswersBridge ==
    ASSUME Bridge, AppTypes, NEW q \in inbox, NEW ok \in BOOLEAN, WalletAnswers(q, ok)
    PROVE  Bridge' /\ AppTypes'
<1> DEFINE r == [call |-> q, ok |-> ok,
                 value |-> IF q.method = "decision" /\ ok THEN OnRecord ELSE <<>>]
<1>1. /\ inbox' = inbox \ {q}
      /\ replies' = IF q.conn \in open THEN replies \union {r} ELSE replies
      /\ UNCHANGED <<opened, open, pendingConnections, contexts, served, client,
                     pendingRequests, nextQueryId, events,
                     backend, pending, official, popup, tries, loaded, cancels, disturbed>>
      /\ q.method = "decision" /\ ok => chain # <<>>
      /\ chain' = IF q.method = "broadcast" /\ ok
                THEN Append(chain, [try |-> q.owner.n, decision |-> tries[q.owner.n].cast])
                ELSE chain
  BY DEF WalletAnswers
<1>2. q \in Calls /\ FitsIn(q, tries, served, loaded, cancels)
  BY DEF Bridge, BridgeTypes, FitCalls
<1>3. q.method = "decision" /\ ok => OnRecord \in Decisions
  <2> SUFFICES ASSUME chain # <<>> PROVE Last(chain).decision \in Decisions
    BY <1>1 DEF OnRecord
  <2>1. Len(chain) \in 1 .. Len(chain)
    BY DEF AppTypes
  <2>2. Last(chain) \in Entry
    BY <2>1, ElementOfSeq DEF AppTypes, Last
  <2> QED
    BY <2>2 DEF Entry
<1>4. r \in Answer /\ Carries(r) /\ r.call = q
  BY <1>2, <1>3 DEF Answer, Value, Carries
<1> HIDE DEF r
<1>5. BridgeTypes' /\ Lines' /\ Queue'
  BY <1>1, <1>4 DEF Bridge, BridgeTypes, Lines, Queue
<1>6. Requests'
  BY <1>1, <1>4 DEF Bridge, Requests
<1>7. FitCalls'
  BY <1>1, <1>4 DEF Bridge, FitCalls
<1>8. AppTypes'
  <2>1. chain' \in Seq(Entry)
    <3>1. CASE q.method = "broadcast" /\ ok
      <4>1. [try |-> q.owner.n, decision |-> tries[q.owner.n].cast] \in Entry
        BY <1>2, <3>1 DEF FitsIn, Entry, Calls
      <4> QED
        BY <1>1, <3>1, <4>1, AppendProperties DEF AppTypes
    <3>2. CASE ~ (q.method = "broadcast" /\ ok)
      BY <1>1, <3>2 DEF AppTypes
    <3> QED
      BY <3>1, <3>2
  <2> QED
    BY <1>1, <2>1 DEF AppTypes
<1> QED
  BY <1>5, <1>6, <1>7, <1>8 DEF Bridge


-----------------------------------------------------------------------------
(* The queue of events when connections are announced and calls fail.       *)

(* The replies in t are those of ev, at the same places.                    *)
SameReplies(t, ev) == \A i \in Replies(t) : i \in Replies(ev) /\ t[i] = ev[i]

(* A connection that was not served before is announced.                    *)
LEMMA QueueArrives ==
    ASSUME NEW ev \in Seq(Event), NEW p \in Conns, NEW cl, NEW ts, NEW op, NEW sv,
           QueueOf(ev, cl, ts, op, sv),
           NEW now, \A d \in sv : d \notin now, p \notin sv, p # cl, cl \notin now,
           \A n \in DOMAIN ts : ts[n].conn # p
    PROVE  /\ QueueOf(Append(ev, Arrived(p)), cl, ts, now, sv \union {p})
           /\ Append(ev, Arrived(p)) \in Seq(Event)
           /\ SameReplies(Append(ev, Arrived(p)), ev)
<1> DEFINE e == Arrived(p)
           t == Append(ev, e)
<1>1. e \in Event /\ e.kind = "client" /\ e.conn = p
  BY DEF Event, Arrived
<1> HIDE DEF e
<1>2. /\ t \in Seq(Event)
      /\ Len(ev) \in Nat /\ DOMAIN ev = 1 .. Len(ev)
      /\ DOMAIN t = 1 .. Len(ev) + 1
      /\ \A i \in 1 .. Len(ev) : t[i] = ev[i]
      /\ t[Len(ev) + 1] = e
  BY <1>1, AppendFacts
<1> HIDE DEF t
<1>3. /\ \A i \in Arrivals(t) : (i \in Arrivals(ev) /\ t[i] = ev[i] /\ i < Len(ev) + 1) \/ (i = Len(ev) + 1 /\ t[i].conn = p)
      /\ \A i \in Answers(t) : i \in Answers(ev) /\ t[i] = ev[i] /\ i < Len(ev) + 1
      /\ \A i \in Replies(t) : i \in Replies(ev) /\ t[i] = ev[i]
  BY <1>1, <1>2 DEF Arrivals, Answers, Replies
<1>4. \A i \in Arrivals(ev) : ev[i].conn \in sv
  BY DEF QueueOf
<1>5. ASSUME NEW i \in Arrivals(t)
      PROVE  /\ t[i].conn \in (sv \union {p}) \ {cl}
             /\ cl \notin now
             /\ \A n \in DOMAIN ts : ts[n].conn # t[i].conn
  BY <1>3 DEF QueueOf
<1>6. ASSUME NEW i \in Arrivals(t), NEW j \in Arrivals(t), i < j
      PROVE  t[i].conn # t[j].conn /\ t[i].conn \notin now
  <2>1. i \in Nat /\ j \in Nat /\ j <= Len(ev) + 1
    BY <1>2 DEF Arrivals
  <2>2. i \in Arrivals(ev) /\ t[i] = ev[i] /\ ev[i].conn \in sv
    BY <1>2, <1>3, <1>4, <1>6, <2>1
  <2>3. CASE j \in Arrivals(ev) /\ t[j] = ev[j]
    BY <1>6, <2>2, <2>3 DEF QueueOf
  <2>4. CASE t[j].conn = p
    BY <2>2, <2>4
  <2> QED
    BY <1>3, <2>3, <2>4
<1>7. ASSUME NEW j \in Answers(t)
      PROVE  t[j].call.conn = cl /\ \A i \in Arrivals(t) : j < i
  BY <1>2, <1>3 DEF QueueOf
<1>8. QueueOf(t, cl, ts, now, sv \union {p})
  BY <1>5, <1>6, <1>7 DEF QueueOf
<1> QED
  BY <1>2, <1>3, <1>8 DEF t, e, SameReplies

(* Calls that have failed are announced.                                    *)
LEMMA QueueFails ==
    ASSUME NEW ev \in Seq(Event), NEW fs \in Seq(Reply), \A i \in DOMAIN fs : ~ fs[i].ok,
           NEW cl, NEW ts, NEW op, NEW sv,
           QueueOf(ev, cl, ts, op, sv)
    PROVE  /\ QueueOf(ev \o fs, cl, ts, op, sv)
           /\ ev \o fs \in Seq(Event)
           /\ DOMAIN ev = 1 .. Len(ev) /\ DOMAIN fs = 1 .. Len(fs) /\ Len(ev) \in Nat /\ Len(fs) \in Nat
           /\ \A i \in DOMAIN (ev \o fs) :
                 \/ i \in DOMAIN ev /\ (ev \o fs)[i] = ev[i]
                 \/ i - Len(ev) \in DOMAIN fs /\ (ev \o fs)[i] = fs[i - Len(ev)]
<1> DEFINE t == ev \o fs
<1>1. /\ Len(ev) \in Nat /\ DOMAIN ev = 1 .. Len(ev) /\ Len(fs) \in Nat /\ DOMAIN fs = 1 .. Len(fs)
      /\ DOMAIN t = 1 .. Len(ev) + Len(fs)
      /\ \A i \in 1 .. Len(ev) : t[i] = ev[i]
      /\ \A i \in 1 .. Len(ev) + Len(fs) : i > Len(ev) => t[i] = fs[i - Len(ev)]
  OBVIOUS
<1>2. fs \in Seq(Event)
  BY SeqMonotonic DEF Event
<1>3. t \in Seq(Event)
  BY <1>2
<1> HIDE DEF t
<1>4. \A i \in DOMAIN t : \/ i \in DOMAIN ev /\ t[i] = ev[i]
                          \/ i - Len(ev) \in DOMAIN fs /\ t[i] = fs[i - Len(ev)]
  BY <1>1
<1>5. \A i \in DOMAIN fs : fs[i].kind = "reply" /\ ~ fs[i].ok
  <2>1. \A i \in DOMAIN fs : fs[i] \in Reply
    BY ElementOfSeq
  <2> QED
    BY <2>1 DEF Reply
<1>6. Arrivals(t) = Arrivals(ev) /\ \A i \in Arrivals(ev) : t[i] = ev[i]
  BY <1>1, <1>4, <1>5 DEF Arrivals
<1>7. \A i \in Answers(t) : i \in Answers(ev) /\ t[i] = ev[i]
  BY <1>4, <1>5 DEF Answers
<1>8. QueueOf(t, cl, ts, op, sv)
  <2>1. \A i \in Arrivals(t) :
          /\ t[i].conn \in sv \ {cl}
          /\ cl \notin op
          /\ \A n \in DOMAIN ts : ts[n].conn # t[i].conn
          /\ \A j \in Arrivals(t) : i < j => t[i].conn # t[j].conn /\ t[i].conn \notin op
    BY <1>6 DEF QueueOf
  <2>2. \A j \in Answers(t) : t[j].call.conn = cl /\ \A i \in Arrivals(t) : j < i
    BY <1>6, <1>7 DEF QueueOf
  <2> QED
    BY <2>1, <2>2 DEF QueueOf
<1> QED
  BY <1>1, <1>3, <1>4, <1>8 DEF t

(* A connection that closes leaves the queue in order.                      *)
LEMMA QueueShut ==
    ASSUME NEW ev, NEW cl, NEW ts, NEW op, NEW sv, QueueOf(ev, cl, ts, op, sv),
           NEW now, now \subseteq op
    PROVE  QueueOf(ev, cl, ts, now, sv)
BY DEF QueueOf

(* The connection that nextWalletClient finds in the queue.                 *)
LEMMA Selected ==
    ASSUME NEW s \in Seq(Nat), NEW up,
           NEW live, live = SelectInSeq(s, LAMBDA c : c \in up)
    PROVE  \/ live = 0 /\ \A i \in DOMAIN s : s[i] \notin up
           \/ live \in DOMAIN s /\ s[live] \in up
<1> DEFINE found == {i \in 1 .. Len(s) : s[i] \in up}
<1>1. live = IF found # {} THEN Min(found) ELSE 0
  BY DEF SelectInSeq
<1>2. found # {} => Min(found) \in found
  <2>1. found \subseteq Nat
    OBVIOUS
  <2> HIDE DEF found
  <2> QED
    BY <2>1, NatMin
<1> QED
  BY <1>1, <1>2

(* t is what comes after place k in s.                                      *)
After(t, s, k) ==
    \A i \in DOMAIN t : i \in Nat \ {0} /\ k + i \in DOMAIN s /\ t[i] = s[k + i]

(* What SubSeq leaves of a sequence behind place k.                         *)
LEMMA Rest ==
    ASSUME NEW S, NEW s \in Seq(S), NEW k \in DOMAIN s
    PROVE  /\ SubSeq(s, k + 1, Len(s)) \in Seq(S)
           /\ After(SubSeq(s, k + 1, Len(s)), s, k)
<1>1. k \in Nat /\ k + 1 \in Nat /\ Len(s) \in Nat /\ k <= Len(s)
  OBVIOUS
<1> DEFINE t == SubSeq(s, k + 1, Len(s))
<1>2. t = [i \in 1 .. Len(s) - k |-> s[k + i]]
  BY <1>1
<1>3. \A i \in 1 .. Len(s) - k : k + i \in DOMAIN s /\ s[k + i] \in S
  BY <1>1
<1> HIDE DEF t
<1>4. t \in Seq(S)
  <2>1. Len(s) - k \in Nat /\ t \in [1 .. Len(s) - k -> S]
    BY <1>1, <1>2, <1>3
  <2> QED
    BY <2>1, SeqDef
<1> QED
  BY <1>2, <1>3, <1>4 DEF t, After

-----------------------------------------------------------------------------
(* A connection is opened.                                                  *)

(* The calls that are outstanding on a lost connection, as they fail.       *)
Failures(dead) == [i \in 1 .. Cardinality(dead) |-> Settled(ById(dead)[i], FALSE, <<>>)]

(* Every outstanding call fails once.                                       *)
LEMMA FailuresOfCalls ==
    ASSUME NEW dead \in SUBSET Calls, IsFiniteSet(dead), \A q \in dead : q.id \in Nat
    PROVE  /\ Failures(dead) \in Seq(Reply)
           /\ \A i \in DOMAIN Failures(dead) :
                 /\ Failures(dead)[i].call \in dead
                 /\ Failures(dead)[i].ok = FALSE
           /\ \A i, j \in DOMAIN Failures(dead) :
                 Failures(dead)[i].call = Failures(dead)[j].call => i = j
<1> DEFINE n == Cardinality(dead)
           b == ById(dead)
           t == Failures(dead)
<1>1. n \in Nat /\ b \in [1 .. n -> dead] /\ \A i, j \in 1 .. n : b[i] = b[j] => i = j
  BY ByIdEnumerates
<1>2. t = [i \in 1 .. n |-> Settled(b[i], FALSE, <<>>)]
  BY DEF Failures
<1> HIDE DEF n, b, t
<1>3. \A q \in dead : Settled(q, FALSE, <<>>) \in Reply /\ Settled(q, FALSE, <<>>).call = q
                      /\ Settled(q, FALSE, <<>>).ok = FALSE
  BY DEF Settled, Reply, Value
<1>4. DOMAIN t = 1 .. n /\ \A i \in 1 .. n : b[i] \in dead /\ t[i] = Settled(b[i], FALSE, <<>>)
  BY <1>1, <1>2
<1>5. t \in [1 .. n -> Reply]
  BY <1>2, <1>3, <1>4
<1>6. t \in Seq(Reply)
  BY <1>1, <1>5, SeqDef
<1>7. \A i \in 1 .. n : t[i].call = b[i] /\ t[i].ok = FALSE
  BY <1>3, <1>4
<1> QED
  BY <1>1, <1>4, <1>6, <1>7 DEF t

(* A connection that opens leaves the bridge in order.                      *)
LEMMA OpensBridge ==
    ASSUME Bridge, WalletConnects
    PROVE  Bridge'
<1> DEFINE c == opened + 1
           queue == Append(pendingConnections, c)
<1>1. /\ opened < MaxConn
      /\ opened' = c
      /\ open' = open \union {c}
      /\ IF contexts > 0
         THEN /\ contexts' = contexts - 1
              /\ served' = served \union {Head(queue)}
              /\ pendingConnections' = Tail(queue)
              /\ events' = Append(events, Arrived(Head(queue)))
         ELSE /\ pendingConnections' = queue
              /\ UNCHANGED <<contexts, served, events>>
      /\ UNCHANGED <<client, pendingRequests, nextQueryId, inbox, replies>>
      /\ UNCHANGED <<tries, loaded, cancels>>
  BY DEF WalletConnects, WalletOpens, appVars
<1>2. /\ opened \in Nat /\ c \in Nat /\ c \in Conns /\ c \in 1 .. c /\ 1 .. opened \subseteq 1 .. c
      /\ c \notin 1 .. opened /\ open \subseteq 1 .. opened /\ served \subseteq 1 .. opened
      /\ c # 0 /\ c \in 0 .. MaxConn
  BY <1>1, BridgeAssumption DEF Bridge, BridgeTypes, Conns
<1> HIDE DEF c
<1>3. pendingConnections \in Seq(1 .. opened) /\ pendingConnections \in Seq(1 .. c)
  BY <1>2, SeqMonotonic DEF Bridge, BridgeTypes
<1>4. /\ client \in {0} \union served /\ contexts \in Nat
      /\ \A n \in DOMAIN tries : tries[n].conn \in {0} \union served
  BY DEF Bridge, BridgeTypes, Lines
<1>5. /\ served \subseteq served'
      /\ pendingConnections' \in Seq(1 .. c) /\ served' \subseteq 1 .. c /\ contexts' \in Nat
      /\ events' \in Seq(Event)
      /\ Lines'
      /\ Queue'
      /\ \A i \in Replies(events') : i \in Replies(events) /\ events'[i] = events[i]
      /\ \A q \in inbox : q.conn # c
  <2>0. \A q \in inbox : q.conn # c
    BY <1>2 DEF Bridge, Requests
  <2>1. CASE contexts > 0
    <3>1. contexts = 1 /\ open \intersect served = {} /\ pendingConnections = <<>>
      BY <2>1 DEF Bridge, Lines
    <3>2. queue = <<c>> /\ Head(queue) = c /\ Tail(queue) = <<>>
      BY <3>1
    <3> HIDE DEF queue
    <3>3. /\ contexts' = 0 /\ served' = served \union {c} /\ pendingConnections' = <<>>
          /\ events' = Append(events, Arrived(c))
      BY <1>1, <2>1, <3>1, <3>2
    <3>4. open' \intersect served = {} /\ client \notin open'
      BY <1>1, <1>2, <1>4, <3>1
    <3>5. /\ QueueOf(Append(events, Arrived(c)), client, tries, open', served \union {c})
          /\ Append(events, Arrived(c)) \in Seq(Event)
          /\ SameReplies(Append(events, Arrived(c)), events)
      <4>1. /\ events \in Seq(Event)
            /\ QueueOf(events, client, tries, open, served)
            /\ c \notin served /\ c # client
            /\ \A n \in DOMAIN tries : tries[n].conn # c
        BY <1>2, <1>4 DEF Bridge, BridgeTypes, Queue
      <4>2. c \in Conns /\ open' \intersect served = {} /\ client \notin open'
        BY <1>2, <3>4
      <4>3. \A d \in served : d \notin open'
        BY <4>2
      <4> QED
        BY <4>1, <4>2, <4>3, QueueArrives
    <3>6. open' \intersect served' = {c}
      BY <1>1, <1>2, <3>1, <3>3
    <3>7. Lines'
      BY <1>1, <1>2, <1>4, <3>3, <3>6 DEF Lines
    <3>8. Queue'
      BY <1>1, <3>3, <3>5 DEF Queue
    <3>9. pendingConnections' \in Seq(1 .. c) /\ served' \subseteq 1 .. c
      BY <1>2, <3>3
    <3> QED
      BY <2>0, <3>3, <3>5, <3>7, <3>8, <3>9 DEF SameReplies
  <2>2. CASE ~ (contexts > 0)
    <3>1. /\ pendingConnections' = queue
          /\ contexts' = contexts /\ served' = served /\ events' = events
      BY <1>1, <2>2
    <3>2. /\ queue \in Seq(1 .. c)
          /\ Len(pendingConnections) \in Nat
          /\ DOMAIN pendingConnections = 1 .. Len(pendingConnections)
          /\ DOMAIN queue = 1 .. Len(pendingConnections) + 1
          /\ \A i \in 1 .. Len(pendingConnections) : queue[i] = pendingConnections[i]
          /\ queue[Len(pendingConnections) + 1] = c
      BY <1>2, <1>3, AppendFacts
    <3> HIDE DEF queue
    <3>3. \A i \in 1 .. Len(pendingConnections) : pendingConnections[i] # c
      BY <1>2, <1>3
    <3>4. contexts = 0 /\ \E d \in 1 .. opened : open \intersect served = {d}
      BY <2>2 DEF Bridge, Lines
    <3>5. open' \intersect served' = open \intersect served
      BY <1>1, <1>2, <3>1
    <3>6. Lines'
      <4>1. contexts' = 0 /\ \E d \in 1 .. opened' : open' \intersect served' = {d}
        BY <1>1, <1>2, <3>1, <3>4, <3>5
      <4>2. \A i \in DOMAIN queue : queue[i] \notin served'
        BY <1>2, <3>1, <3>2 DEF Bridge, Lines
      <4>3. \A i, j \in DOMAIN queue : queue[i] = queue[j] => i = j
        BY <3>2, <3>3 DEF Bridge, Lines
      <4> QED
        BY <1>1, <1>4, <3>1, <4>1, <4>2, <4>3 DEF Lines
    <3>7. Queue'
      <4>1. \A i \in Arrivals(events) : events[i].conn # c
        BY <1>2 DEF Bridge, Queue, QueueOf
      <4>2. client # c
        BY <1>2, <1>4
      <4>3. QueueOf(events, client, tries, open \union {c}, served)
        BY <4>1, <4>2 DEF Bridge, Queue, QueueOf
      <4> QED
        BY <1>1, <3>1, <4>3 DEF Queue
    <3> QED
      BY <1>2, <1>4, <2>0, <3>1, <3>2, <3>6, <3>7 DEF Bridge, BridgeTypes
  <2> QED
    BY <2>1, <2>2
<1>6. BridgeTypes'
  BY <1>1, <1>2, <1>4, <1>5 DEF Bridge, BridgeTypes
<1>7. Requests'
  <2>1. \A q \in inbox : q.conn \in served' /\ (q.conn \in open' => q \in pendingRequests)
    BY <1>1, <1>5 DEF Bridge, Requests
  <2>2. \A q \in pendingRequests : client \in open'
    BY <1>1 DEF Bridge, Requests
  <2> QED
    BY <1>1, <2>1, <2>2 DEF Bridge, Requests
<1>8. FitCalls'
  BY <1>1, <1>5 DEF Bridge, FitCalls, FitsIn
<1> QED
  BY <1>5, <1>6, <1>7, <1>8 DEF Bridge

-----------------------------------------------------------------------------
(* A connection is lost.                                                    *)

(* What is left of the bridge when the connection c, which is served, goes. *)
LEMMA LostLine ==
    ASSUME Bridge, NEW c, ServedConnectionLost(c)
    PROVE  /\ c \in open \intersect served /\ open' = open \ {c}
           /\ open' \intersect served = {} /\ client \notin open'
           /\ contexts = 0
           /\ pendingRequests' = {} /\ replies' = {}
           /\ inbox' \subseteq inbox /\ Broadcasts(inbox) \subseteq inbox'
           /\ NextWalletClient(open', Failures(pendingRequests))
           /\ UNCHANGED <<opened, client, nextQueryId>>
<1> DEFINE dead == {q \in pendingRequests : q.conn = c}
<1>1. /\ c \in open \intersect served
      /\ open' = open \ {c}
      /\ NextWalletClient(open \ {c},
             [i \in 1 .. Cardinality(dead) |-> Settled(ById(dead)[i], FALSE, <<>>)])
      /\ pendingRequests' = pendingRequests \ dead
      /\ inbox' = {q \in inbox : q.conn # c} \union Broadcasts(inbox)
      /\ replies' = {r \in replies : r.call.conn # c}
      /\ UNCHANGED <<opened, client, nextQueryId>>
  BY DEF ServedConnectionLost
<1>2. open \intersect served = {c} /\ contexts = 0
  BY <1>1 DEF Bridge, Lines
<1>3. \A q \in pendingRequests : q.conn = c
  <2>1. \A q \in pendingRequests : q.conn = client /\ client \in open
    BY DEF Bridge, Requests
  <2>2. 0 \notin open /\ client \in {0} \union served
    BY DEF Bridge, BridgeTypes
  <2> QED
    BY <1>2, <2>1, <2>2
<1>4. dead = pendingRequests
  BY <1>3
<1> HIDE DEF dead
<1>5. pendingRequests' = {} /\ replies' = {}
  BY <1>1, <1>3, <1>4 DEF Bridge, Requests
<1>6. NextWalletClient(open', Failures(pendingRequests))
  BY <1>1, <1>4 DEF Failures
<1>7. inbox' \subseteq inbox /\ Broadcasts(inbox) \subseteq inbox'
  BY <1>1 DEF Broadcasts
<1>8. open' \intersect served = {}
  BY <1>1, <1>2
<1>9. client \notin open'
  <2>1. 0 \notin open /\ client \in {0} \union served
    BY DEF Bridge, BridgeTypes
  <2> QED
    BY <1>1, <1>8, <2>1
<1> QED
  BY <1>1, <1>2, <1>5, <1>6, <1>7, <1>8, <1>9

(* The next connection is found, or a context waits for it.                 *)
LEMMA NextLine ==
    ASSUME Bridge, NEW up \in SUBSET open, up \intersect served = {}, contexts = 0, client \notin up,
           NEW after, NextWalletClient(up, after)
    PROVE  \/ /\ contexts' = 1 /\ pendingConnections' = <<>> /\ served' = served
              /\ events' = events \o after
           \/ \E p \in up :
                /\ p \in 1 .. opened /\ p \notin served
                /\ contexts' = 0 /\ served' = served \union {p}
                /\ pendingConnections' \in Seq(1 .. opened)
                /\ \A i \in DOMAIN pendingConnections' : pendingConnections'[i] \notin served'
                /\ \A i, j \in DOMAIN pendingConnections' :
                      pendingConnections'[i] = pendingConnections'[j] => i = j
                /\ events' = Append(events, Arrived(p)) \o after
<1> DEFINE live == SelectInSeq(pendingConnections, LAMBDA d : d \in up)
<1>1. IF live = 0
      THEN /\ contexts' = contexts + 1
           /\ pendingConnections' = <<>>
           /\ events' = events \o after
           /\ UNCHANGED served
      ELSE /\ served' = served \union {pendingConnections[live]}
           /\ pendingConnections' =
                  SubSeq(pendingConnections, live + 1, Len(pendingConnections))
           /\ events' = Append(events, Arrived(pendingConnections[live])) \o after
           /\ UNCHANGED contexts
  BY DEF NextWalletClient
<1>2. pendingConnections \in Seq(Nat) /\ pendingConnections \in Seq(1 .. opened)
  BY SeqMonotonic DEF Bridge, BridgeTypes
<1>3. \/ live = 0
      \/ live \in DOMAIN pendingConnections /\ pendingConnections[live] \in up
  BY <1>2, Selected
<1> HIDE DEF live
<1>4. CASE live = 0
  BY <1>1, <1>4
<1>5. CASE live # 0
  <2> DEFINE p == pendingConnections[live]
             t == SubSeq(pendingConnections, live + 1, Len(pendingConnections))
  <2>1. live \in DOMAIN pendingConnections /\ p \in up /\ p \in 1 .. opened /\ live \in Nat
    <3>1. live \in DOMAIN pendingConnections /\ p \in up
      BY <1>3, <1>5
    <3>2. \A k \in DOMAIN pendingConnections : k \in Nat /\ pendingConnections[k] \in 1 .. opened
      BY <1>2, Members
    <3> QED
      BY <3>1, <3>2
  <2>2. p \notin served
    BY <2>1
  <2>3. /\ t \in Seq(1 .. opened)
        /\ After(t, pendingConnections, live)
    BY <1>2, <2>1, Rest
  <2>4. /\ served' = served \union {p} /\ pendingConnections' = t /\ contexts' = 0
        /\ events' = Append(events, Arrived(p)) \o after
    BY <1>1, <1>5
  <2> HIDE DEF t
  <2>5. ASSUME NEW i \in DOMAIN t PROVE t[i] \notin served'
    <3>1. live + i \in DOMAIN pendingConnections /\ t[i] = pendingConnections[live + i] /\ live + i # live
      BY <2>1, <2>3 DEF After
    <3>2. t[i] \notin served /\ t[i] # p
      BY <2>1, <3>1 DEF Bridge, Lines
    <3> QED
      BY <2>4, <3>2
  <2>6. ASSUME NEW i \in DOMAIN t, NEW j \in DOMAIN t, t[i] = t[j] PROVE i = j
    <3>1. /\ live + i \in DOMAIN pendingConnections /\ live + j \in DOMAIN pendingConnections
          /\ pendingConnections[live + i] = pendingConnections[live + j]
          /\ i \in Nat /\ j \in Nat
      BY <2>3, <2>6 DEF After
    <3>2. live + i = live + j
      BY <3>1 DEF Bridge, Lines
    <3> QED
      BY <2>1, <3>1, <3>2
  <2> HIDE DEF p
  <2>7. /\ \A i \in DOMAIN pendingConnections' : pendingConnections'[i] \notin served'
        /\ \A i, j \in DOMAIN pendingConnections' :
                      pendingConnections'[i] = pendingConnections'[j] => i = j
    BY <2>4, <2>5, <2>6
  <2>8. p \in up /\ p \in 1 .. opened
    BY <2>1 DEF p
  <2> QED
    BY <2>2, <2>3, <2>4, <2>7, <2>8
<1> QED
  BY <1>4, <1>5

(* The replies in t are those of ev and, behind them, the failures of the   *)
(* calls dead, each of them once.                                           *)
FailedReplies(t, ev, dead) ==
    /\ \A i \in Replies(t) :
          \/ i \in Replies(ev) /\ t[i] = ev[i]
          \/ i \notin DOMAIN ev /\ ~ t[i].ok /\ t[i].call \in dead
    /\ \A i, j \in Replies(t) :
          i \notin DOMAIN ev /\ j \notin DOMAIN ev /\ t[i].call = t[j].call => i = j

(* The failures join the queue.                                             *)
LEMMA FailedAfter ==
    ASSUME NEW ev \in Seq(Event), NEW mid \in Seq(Event), SameReplies(mid, ev),
           DOMAIN ev \subseteq DOMAIN mid,
           NEW dead \in SUBSET Calls, IsFiniteSet(dead), \A q \in dead : q.id \in Nat,
           NEW cl, NEW ts, NEW op, NEW sv, QueueOf(mid, cl, ts, op, sv)
    PROVE  /\ mid \o Failures(dead) \in Seq(Event)
           /\ QueueOf(mid \o Failures(dead), cl, ts, op, sv)
           /\ FailedReplies(mid \o Failures(dead), ev, dead)
<1> DEFINE fs == Failures(dead)
           t == mid \o fs
<1>1. /\ fs \in Seq(Reply)
      /\ \A i \in DOMAIN fs : fs[i].call \in dead /\ fs[i].ok = FALSE
      /\ \A i, j \in DOMAIN fs : fs[i].call = fs[j].call => i = j
  BY FailuresOfCalls
<1> HIDE DEF fs
<1>2. \A i \in DOMAIN fs : ~ fs[i].ok
  BY <1>1
<1>3. /\ QueueOf(t, cl, ts, op, sv)
      /\ t \in Seq(Event)
      /\ DOMAIN mid = 1 .. Len(mid) /\ DOMAIN fs = 1 .. Len(fs) /\ Len(mid) \in Nat /\ Len(fs) \in Nat
      /\ \A i \in DOMAIN t :
            \/ i \in DOMAIN mid /\ t[i] = mid[i]
            \/ i - Len(mid) \in DOMAIN fs /\ t[i] = fs[i - Len(mid)]
  BY <1>1, <1>2, QueueFails
<1> HIDE DEF t
<1>4. DOMAIN t \subseteq Nat
  BY <1>3, Members
<1>5. ASSUME NEW i \in Replies(t)
      PROVE  \/ i \in Replies(ev) /\ t[i] = ev[i]
             \/ /\ i \notin DOMAIN ev /\ ~ t[i].ok /\ t[i].call \in dead
                /\ i - Len(mid) \in DOMAIN fs /\ t[i] = fs[i - Len(mid)]
  <2>1. CASE i \in DOMAIN mid /\ t[i] = mid[i]
    BY <2>1 DEF Replies, SameReplies
  <2>2. CASE i - Len(mid) \in DOMAIN fs /\ t[i] = fs[i - Len(mid)]
    <3>1. i \notin DOMAIN mid
      BY <1>3, <1>4, <2>2 DEF Replies
    <3>2. t[i].ok = FALSE /\ t[i].call \in dead
      BY <1>1, <2>2
    <3> QED
      BY <2>2, <3>1, <3>2
  <2> QED
    BY <1>3, <2>1, <2>2 DEF Replies
<1>6. ASSUME NEW i \in Replies(t), NEW j \in Replies(t),
             i \notin DOMAIN ev, j \notin DOMAIN ev, t[i].call = t[j].call
      PROVE  i = j
  <2>1. /\ i - Len(mid) \in DOMAIN fs /\ t[i] = fs[i - Len(mid)]
        /\ j - Len(mid) \in DOMAIN fs /\ t[j] = fs[j - Len(mid)]
    BY <1>5, <1>6 DEF Replies
  <2>2. i - Len(mid) = j - Len(mid)
    BY <1>1, <1>6, <2>1
  <2>3. i \in Nat /\ j \in Nat
    BY <1>4 DEF Replies
  <2> QED
    BY <1>3, <2>2, <2>3
<1>7. FailedReplies(t, ev, dead)
  BY <1>5, <1>6 DEF FailedReplies
<1> QED
  BY <1>3, <1>7 DEF t, fs

(* A connection that is lost leaves the bridge in order, and no call.       *)
LEMMA LostBridge ==
    ASSUME Bridge, NEW c, ServedConnectionLost(c),
           DOMAIN tries' = DOMAIN tries, UNCHANGED <<loaded, cancels>>,
           \A n \in DOMAIN tries : tries'[n].conn = tries[n].conn /\ tries'[n].cast = tries[n].cast
    PROVE  /\ Bridge' /\ FailedReplies(events', events, pendingRequests)
           /\ pendingRequests' = {} /\ replies' = {}
           /\ inbox' \subseteq inbox /\ Broadcasts(inbox) \subseteq inbox'
           /\ served \subseteq served' /\ client' = client
<1> DEFINE dead == pendingRequests
           fs == Failures(dead)
<1>1. /\ c \in open \intersect served /\ open' = open \ {c}
      /\ open' \intersect served = {} /\ client \notin open'
      /\ contexts = 0
      /\ pendingRequests' = {} /\ replies' = {}
      /\ inbox' \subseteq inbox /\ Broadcasts(inbox) \subseteq inbox'
      /\ NextWalletClient(open', fs)
      /\ UNCHANGED <<opened, client, nextQueryId>>
  BY LostLine
<1>2. /\ dead \in SUBSET Calls /\ IsFiniteSet(dead) /\ \A q \in dead : q.id \in Nat
      /\ events \in Seq(Event) /\ client \in {0} \union served
      /\ \A n \in DOMAIN tries' : tries'[n].conn \in {0} \union served
      /\ opened \in Nat /\ 1 .. opened \subseteq Conns /\ open \subseteq 1 .. opened
      /\ served \subseteq 1 .. opened
  <2>1. dead \in SUBSET Calls /\ IsFiniteSet(dead) /\ \A q \in dead : q.id \in Nat
    BY DEF Bridge, BridgeTypes, Requests
  <2>2. \A n \in DOMAIN tries' : tries'[n].conn \in {0} \union served
    BY DEF Bridge, Lines
  <2>3. /\ events \in Seq(Event) /\ client \in {0} \union served
        /\ opened \in 0 .. MaxConn /\ open \subseteq 1 .. opened /\ served \subseteq 1 .. opened
    BY DEF Bridge, BridgeTypes
  <2>4. opened \in Nat /\ 1 .. opened \subseteq Conns
    BY <2>3, BridgeAssumption DEF Conns
  <2> QED
    BY <2>1, <2>2, <2>3, <2>4
<1>3. QueueOf(events, client, tries', open', served)
  <2>1. QueueOf(events, client, tries, open, served)
    BY DEF Bridge, Queue
  <2>2. open' \subseteq open
    BY <1>1
  <2> QED
    BY <2>1, <2>2 DEF QueueOf
<1>4. \/ /\ contexts' = 1 /\ pendingConnections' = <<>> /\ served' = served
         /\ events' = events \o fs
      \/ \E p \in open' :
           /\ p \in 1 .. opened /\ p \notin served
           /\ contexts' = 0 /\ served' = served \union {p}
           /\ pendingConnections' \in Seq(1 .. opened)
           /\ \A i \in DOMAIN pendingConnections' : pendingConnections'[i] \notin served'
           /\ \A i, j \in DOMAIN pendingConnections' :
                 pendingConnections'[i] = pendingConnections'[j] => i = j
           /\ events' = Append(events, Arrived(p)) \o fs
  <2>1. open' \in SUBSET open
    BY <1>1
  <2> HIDE DEF fs
  <2> QED
    BY <1>1, <2>1, NextLine
<1>5. /\ Lines' /\ Queue' /\ events' \in Seq(Event) /\ served \subseteq served'
      /\ FailedReplies(events', events, dead)
      /\ pendingConnections' \in Seq(1 .. opened) /\ served' \subseteq 1 .. opened /\ contexts' \in Nat
  <2>1. CASE /\ contexts' = 1 /\ pendingConnections' = <<>> /\ served' = served
             /\ events' = events \o fs
    <3>1. /\ events \o fs \in Seq(Event)
          /\ QueueOf(events \o fs, client, tries', open', served)
          /\ FailedReplies(events \o fs, events, dead)
      <4>1. SameReplies(events, events) /\ DOMAIN events \subseteq DOMAIN events
        BY DEF SameReplies
      <4> QED
        BY <1>2, <1>3, <4>1, FailedAfter
    <3> HIDE DEF fs
    <3>2. Queue'
      BY <1>1, <2>1, <3>1 DEF Queue
    <3>3. Lines'
      BY <1>1, <1>2, <2>1 DEF Lines
    <3>4. pendingConnections' \in Seq(1 .. opened)
      BY <2>1
    <3> QED
      BY <1>2, <2>1, <3>1, <3>2, <3>3, <3>4
  <2>2. ASSUME NEW p \in open',
               /\ p \in 1 .. opened /\ p \notin served
               /\ contexts' = 0 /\ served' = served \union {p}
               /\ pendingConnections' \in Seq(1 .. opened)
               /\ \A i \in DOMAIN pendingConnections' : pendingConnections'[i] \notin served'
               /\ \A i, j \in DOMAIN pendingConnections' :
                     pendingConnections'[i] = pendingConnections'[j] => i = j
               /\ events' = Append(events, Arrived(p)) \o fs
        PROVE  /\ Lines' /\ Queue' /\ events' \in Seq(Event) /\ served \subseteq served'
               /\ FailedReplies(events', events, dead)
               /\ pendingConnections' \in Seq(1 .. opened) /\ served' \subseteq 1 .. opened /\ contexts' \in Nat
    <3> DEFINE mid == Append(events, Arrived(p))
    <3>1. /\ QueueOf(mid, client, tries', open', served \union {p})
          /\ mid \in Seq(Event)
          /\ SameReplies(mid, events)
      <4>1. /\ p \in Conns /\ \A d \in served : d \notin open'
            /\ p # client /\ client \notin open'
            /\ \A n \in DOMAIN tries' : tries'[n].conn # p
        BY <1>1, <1>2, <2>2
      <4>2. events \in Seq(Event) /\ p \notin served
        BY <1>2, <2>2
      <4> HIDE DEF fs
      <4> QED
        BY <1>3, <4>1, <4>2, QueueArrives
    <3>2. DOMAIN events \subseteq DOMAIN mid
      <4>1. Arrived(p) \in Event
        BY <1>2, <2>2 DEF Arrived, Event
      <4>2. DOMAIN mid = 1 .. Len(events) + 1 /\ DOMAIN events = 1 .. Len(events) /\ Len(events) \in Nat
        BY <1>2, <4>1, AppendFacts
      <4> HIDE DEF mid
      <4> QED
        BY <4>2
    <3> HIDE DEF mid
    <3>3. /\ mid \o fs \in Seq(Event)
          /\ QueueOf(mid \o fs, client, tries', open', served \union {p})
          /\ FailedReplies(mid \o fs, events, dead)
      BY <1>2, <3>1, <3>2, FailedAfter
    <3> HIDE DEF fs
    <3>4. events' = mid \o fs
      BY <2>2 DEF mid
    <3>5. Queue'
      BY <1>1, <2>2, <3>3, <3>4 DEF Queue
    <3>6. open' \intersect served' = {p}
      BY <1>1, <2>2
    <3>7. Lines'
      BY <1>1, <1>2, <2>2, <3>6 DEF Lines
    <3> QED
      BY <1>2, <2>2, <3>3, <3>4, <3>5, <3>7
  <2> HIDE DEF fs
  <2> QED
    BY <1>4, <2>1, <2>2
<1>6. BridgeTypes'
  BY <1>1, <1>2, <1>5 DEF Bridge, BridgeTypes
<1>7. Requests'
  <2>1. IsFiniteSet({})
    BY FS_EmptySet
  <2>2. \A q \in inbox' : q.conn \in served /\ q.conn \in served' /\ q.conn \notin open'
    BY <1>1, <1>5 DEF Bridge, Requests
  <2> QED
    BY <1>1, <2>1, <2>2 DEF Requests
<1>8. FitCalls'
  <2>1. \A q \in Calls : FitsIn(q, tries, served, loaded, cancels) =>
                         FitsIn(q, tries', served', loaded', cancels')
    BY <1>5 DEF FitsIn
  <2>2. \A q \in inbox' : FitsIn(q, tries', served', loaded', cancels')
    BY <1>1, <2>1 DEF Bridge, FitCalls, BridgeTypes
  <2>3. \A q \in pendingRequests : FitsIn(q, tries', served', loaded', cancels')
    BY <1>2, <2>1 DEF Bridge, FitCalls
  <2>4. ASSUME NEW i \in Replies(events')
        PROVE  FitsIn(events'[i].call, tries', served', loaded', cancels') /\ Carries(events'[i])
    <3>1. CASE i \in Replies(events) /\ events'[i] = events[i]
      <4>1. events[i] \in Event /\ events[i].kind = "reply"
        BY <1>2, <3>1, Members DEF Replies
      <4>2. events[i].call \in Calls
        BY <4>1, EventKinds DEF Reply
      <4> QED
        BY <2>1, <3>1, <4>2 DEF Bridge, FitCalls
    <3>2. CASE i \notin DOMAIN events /\ ~ events'[i].ok /\ events'[i].call \in dead
      BY <2>3, <3>2 DEF Carries
    <3> QED
      BY <1>5, <3>1, <3>2 DEF FailedReplies
  <2> QED
    BY <1>1, <2>2, <2>4 DEF FitCalls
<1> QED
  BY <1>1, <1>5, <1>6, <1>7, <1>8 DEF Bridge

-----------------------------------------------------------------------------
(* Decisions and tries.                                                     *)

(* What the operations on a decision leave of it.                           *)
LEMMA DecisionFacts ==
    ASSUME NEW d \in Decisions
    PROVE  /\ Canonical(d) \in Decisions /\ Canonical(d).writeIns = d.writeIns
           /\ Canonical(d).opinions = IF d.opinions = Zero THEN NoOpinion ELSE d.opinions
           /\ Serialized(d) \in Decisions /\ Serialized(d).opinions = d.opinions
           /\ \A o \in Opinions : SetOpinions(d, o) \in Decisions /\ SetOpinions(d, o).opinions = o
           /\ \A w \in BOOLEAN : SetWriteIns(d, w) \in Decisions /\ SetWriteIns(d, w).opinions = d.opinions
           /\ Emptied(d) \in Decisions /\ Emptied(d).opinions = NoOpinion
<1>1. NoOpinion \in Opinions
  BY CastingAssumption
<1>2. /\ Canonical(d) \in Decisions /\ Canonical(d).writeIns = d.writeIns
      /\ Canonical(d).opinions = IF d.opinions = Zero THEN NoOpinion ELSE d.opinions
  BY <1>1 DEF Decisions, Canonical
<1>3. \A e \in Decisions : Serialized(e) \in Decisions /\ Serialized(e).opinions = e.opinions
  BY DEF Decisions, Serialized
<1>4. \A e \in Decisions, o \in Opinions : SetOpinions(e, o) \in Decisions /\ SetOpinions(e, o).opinions = o
  <2> SUFFICES ASSUME NEW e \in Decisions, NEW o \in Opinions
               PROVE  SetOpinions(e, o) \in Decisions /\ SetOpinions(e, o).opinions = o
    OBVIOUS
  <2> DEFINE f == [e EXCEPT !.opinions = o]
  <2>1. f \in Decisions /\ f.opinions = o
    BY DEF Decisions
  <2> HIDE DEF f
  <2>2. SetOpinions(e, o) = IF o = e.opinions THEN e ELSE Serialized(f)
    BY DEF SetOpinions, f
  <2> QED
    BY <1>3, <2>1, <2>2
<1>5. \A e \in Decisions, w \in BOOLEAN : SetWriteIns(e, w) \in Decisions /\ SetWriteIns(e, w).opinions = e.opinions
  <2> SUFFICES ASSUME NEW e \in Decisions, NEW w \in BOOLEAN
               PROVE  SetWriteIns(e, w) \in Decisions /\ SetWriteIns(e, w).opinions = e.opinions
    OBVIOUS
  <2> DEFINE f == [e EXCEPT !.writeIns = w]
  <2>1. f \in Decisions /\ f.opinions = e.opinions
    BY DEF Decisions
  <2> HIDE DEF f
  <2>2. SetWriteIns(e, w) = IF w = e.writeIns THEN e ELSE Serialized(f)
    BY DEF SetWriteIns, f
  <2> QED
    BY <1>3, <2>1, <2>2
<1>6. Emptied(d) \in Decisions /\ Emptied(d).opinions = NoOpinion
  BY <1>1, <1>4, <1>5 DEF Emptied
<1> QED
  BY <1>2, <1>3, <1>4, <1>5, <1>6

(* The tries us are ts with other outcomes and another say.                 *)
Alike(ts, us) ==
    /\ us \in Seq(TryRecord) /\ Len(us) = Len(ts) /\ DOMAIN us = DOMAIN ts
    /\ \A m \in DOMAIN ts :
          /\ us[m].press = ts[m].press /\ us[m].kind = ts[m].kind
          /\ us[m].snapshot = ts[m].snapshot /\ us[m].backup = ts[m].backup
          /\ us[m].cast = ts[m].cast /\ us[m].conn = ts[m].conn

(* The tries us are ts but for the one at n, which is r.                    *)
Changed(us, ts, n, r) ==
    /\ us \in Seq(TryRecord) /\ Len(us) = Len(ts) /\ DOMAIN us = DOMAIN ts
    /\ us[n] = r /\ \A m \in DOMAIN ts : m # n => us[m] = ts[m]

(* One try is changed.                                                      *)
LEMMA OneChanged ==
    ASSUME NEW ts \in Seq(TryRecord), NEW n \in DOMAIN ts, NEW r \in TryRecord,
           NEW us, us = [ts EXCEPT ![n] = r]
    PROVE  Changed(us, ts, n, r)
BY DEF Changed

(* Of the outcomes the one at n is now o.                                   *)
Outcome(ts, us, n, o) ==
    us[n].outcome = o /\ \A m \in DOMAIN ts : m # n => us[m].outcome = ts[m].outcome

(* An outcome is set.                                                       *)
LEMMA OutcomeSet ==
    ASSUME NEW ts \in Seq(TryRecord), NEW n \in DOMAIN ts, NEW o \in {"resolved", "rejected"},
           NEW us, us = [ts EXCEPT ![n].outcome = o]
    PROVE  Alike(ts, us) /\ Outcome(ts, us, n, o)
<1> DEFINE r == [ts[n] EXCEPT !.outcome = o]
<1>1. ts[n] \in TryRecord
  BY Members
<1>2. /\ r \in TryRecord /\ r.press = ts[n].press /\ r.kind = ts[n].kind
      /\ r.snapshot = ts[n].snapshot /\ r.backup = ts[n].backup
      /\ r.cast = ts[n].cast /\ r.conn = ts[n].conn /\ r.outcome = o
  BY <1>1 DEF TryRecord
<1>3. us = [ts EXCEPT ![n] = r]
  OBVIOUS
<1> HIDE DEF r
<1>4. Changed(us, ts, n, r)
  <2>1. r \in TryRecord
    BY <1>2
  <2> QED
    BY <2>1, <1>3, OneChanged
<1> QED
  BY <1>2, <1>4 DEF Alike, Changed, Outcome

SameOutcomes(ts, us) == \A m \in DOMAIN ts : us[m].outcome = ts[m].outcome

(* A promise is ignored.                                                    *)
LEMMA IgnoredSet ==
    ASSUME NEW ts \in Seq(TryRecord), NEW n \in Nat,
           NEW us, us = [ts EXCEPT ![n].ignored = TRUE]
    PROVE  Alike(ts, us) /\ SameOutcomes(ts, us)
<1>1. CASE n \in DOMAIN ts
  <2> DEFINE r == [ts[n] EXCEPT !.ignored = TRUE]
  <2>1. ts[n] \in TryRecord
    BY <1>1, Members
  <2>2. /\ r \in TryRecord /\ r.press = ts[n].press /\ r.kind = ts[n].kind
        /\ r.snapshot = ts[n].snapshot /\ r.backup = ts[n].backup
        /\ r.cast = ts[n].cast /\ r.conn = ts[n].conn /\ r.outcome = ts[n].outcome
    BY <2>1 DEF TryRecord
  <2>3. us = [ts EXCEPT ![n] = r]
    OBVIOUS
  <2> HIDE DEF r
  <2>4. Changed(us, ts, n, r)
    <3>1. r \in TryRecord
      BY <2>2
    <3> QED
      BY <1>1, <2>3, <3>1, OneChanged
  <2> QED
    BY <2>2, <2>4 DEF SameOutcomes, Alike, Changed
<1>2. CASE n \notin DOMAIN ts
  <2>1. us = ts
    BY <1>2
  <2> QED
    BY <2>1 DEF SameOutcomes, Alike
<1> QED
  BY <1>1, <1>2

(* The try n has noted the decision d, to be asked for over connection c.   *)
CastIn(ts, us, n, d, c) ==
    /\ us \in Seq(TryRecord) /\ Len(us) = Len(ts) /\ DOMAIN us = DOMAIN ts
    /\ us[n].cast = d /\ us[n].conn = c
    /\ \A m \in DOMAIN ts :
          /\ us[m].press = ts[m].press /\ us[m].kind = ts[m].kind
          /\ us[m].snapshot = ts[m].snapshot /\ us[m].backup = ts[m].backup
          /\ us[m].outcome = ts[m].outcome
          /\ m # n => us[m].cast = ts[m].cast /\ us[m].conn = ts[m].conn

(* A try notes what it casts.                                               *)
LEMMA CastSet ==
    ASSUME NEW ts \in Seq(TryRecord), NEW n \in DOMAIN ts, NEW d \in Decisions, NEW c \in Nat,
           NEW us, us = [ts EXCEPT ![n].cast = d, ![n].conn = c]
    PROVE  CastIn(ts, us, n, d, c)
<1> DEFINE r == [ts[n] EXCEPT !.cast = d, !.conn = c]
<1>1. ts[n] \in TryRecord
  BY Members
<1>2. /\ r \in TryRecord /\ r.press = ts[n].press /\ r.kind = ts[n].kind
      /\ r.snapshot = ts[n].snapshot /\ r.backup = ts[n].backup
      /\ r.cast = d /\ r.conn = c /\ r.outcome = ts[n].outcome
  BY <1>1 DEF TryRecord
<1>3. us = [ts EXCEPT ![n] = r]
  <2> DEFINE u == [ts EXCEPT ![n] = [ts[n] EXCEPT !.cast = d]]
  <2>1. us = [u EXCEPT ![n] = [u[n] EXCEPT !.conn = c]]
    OBVIOUS
  <2>2. u[n] = [ts[n] EXCEPT !.cast = d]
    OBVIOUS
  <2>3. [u[n] EXCEPT !.conn = c] = r
    BY <1>1, <2>2 DEF TryRecord
  <2>4. [u EXCEPT ![n] = r] = [ts EXCEPT ![n] = r]
    OBVIOUS
  <2> QED
    BY <2>1, <2>3, <2>4
<1> HIDE DEF r
<1>4. Changed(us, ts, n, r)
  <2>1. r \in TryRecord
    BY <1>2
  <2> QED
    BY <2>1, <1>3, OneChanged
<1> QED
  BY <1>2, <1>4 DEF Changed, CastIn

(* A try is started.                                                        *)
LEMMA NewTryFacts ==
    ASSUME NEW ts \in Seq(TryRecord), NEW kind \in {"cast", "revoke"}, NEW press \in Nat,
           NEW p \in Decisions, NEW backup \in Decisions,
           NEW us, us = Append(ts, NewTry(kind, press, p, backup))
    PROVE  /\ us \in Seq(TryRecord) /\ Len(ts) \in Nat /\ Len(us) = Len(ts) + 1
           /\ DOMAIN ts = 1 .. Len(ts) /\ DOMAIN us = 1 .. Len(ts) + 1
           /\ \A m \in DOMAIN ts : us[m] = ts[m]
           /\ us[Len(ts) + 1].press = press /\ us[Len(ts) + 1].kind = kind
           /\ us[Len(ts) + 1].conn = 0 /\ us[Len(ts) + 1].outcome = "running"
           /\ us[Len(ts) + 1].snapshot = Canonical(p) /\ us[Len(ts) + 1].backup = backup
<1> DEFINE r == NewTry(kind, press, p, backup)
<1>1. Canonical(p) \in Decisions
  BY DecisionFacts
<1>2. /\ r \in TryRecord /\ r.press = press /\ r.kind = kind
      /\ r.conn = 0 /\ r.outcome = "running" /\ r.snapshot = Canonical(p) /\ r.backup = backup
  BY <1>1 DEF NewTry, TryRecord
<1> HIDE DEF r
<1>3. us = Append(ts, r)
  BY DEF r
<1> QED
  BY <1>2, <1>3, AppendFacts, AppendProperties

-----------------------------------------------------------------------------
(* The base is preserved by the steps that start no try.                    *)

(* Tries that know no connection but the chain client's and those of ts.    *)
LEMMA QueueTries ==
    ASSUME NEW ev, NEW cl, NEW ts, NEW op, NEW sv, QueueOf(ev, cl, ts, op, sv), 0 \notin sv,
           NEW us,
           \A n \in DOMAIN us : us[n].conn \in {0, cl} \/ \E m \in DOMAIN ts : us[n].conn = ts[m].conn
    PROVE  QueueOf(ev, cl, us, op, sv)
<1>1. \A i \in Arrivals(ev) : \A n \in DOMAIN us : us[n].conn # ev[i].conn
  BY DEF QueueOf
<1> QED
  BY <1>1 DEF QueueOf

(* The rest of the queue is part of it.                                     *)
LEMMA TailPart ==
    ASSUME NEW ev \in Seq(Event), ev # <<>>
    PROVE  /\ Tail(ev) \in Seq(Event) /\ Part(Tail(ev), ev)
           /\ Head(ev) \in Event /\ Head(ev) = ev[1] /\ 1 \in DOMAIN ev
<1>1. /\ Tail(ev) \in Seq(Event) /\ Head(ev) = ev[1] /\ Head(ev) \in Event /\ 1 \in DOMAIN ev
      /\ \A i \in DOMAIN Tail(ev) : i \in Nat /\ i + 1 \in DOMAIN ev /\ Tail(ev)[i] = ev[i + 1]
  BY TailFacts
<1> QED
  BY <1>1 DEF Part

(* The queue is part of itself.                                             *)
LEMMA WholePart ==
    ASSUME NEW ev
    PROVE  Part(ev, ev)
BY DEF Part

(* Connections are numbered from one.                                       *)
LEMMA ServedNotZero ==
    ASSUME BridgeTypes
    PROVE  0 \notin served /\ served \subseteq Nat \ {0}
BY BridgeAssumption DEF BridgeTypes

(* The tries stay as they are.                                              *)
LEMMA GrowsSame ==
    ASSUME Bridge, AppTypes, tries' = tries, served' = served, loaded => loaded',
           cancels' = cancels \/ cancels' = cancels + 1
    PROVE  Grows
<1>1. cancels \in Nat
  BY CastingAssumption DEF AppTypes
<1> QED
  BY <1>1 DEF Grows, Bridge, Lines

(* The contest is shown.                                                    *)
LEMMA ShowBase ==
    ASSUME Base, ShowContest
    PROVE  Base'
<1>0. /\ ~loaded /\ client # 0 /\ loaded' = TRUE
      /\ BeginCall(client, Feed, "decision", events)
      /\ UNCHANGED <<opened, open, pendingConnections, contexts, served, client, replies>>
      /\ UNCHANGED <<backend, pending, official, popup, tries, cancels, chain>>
      /\ disturbed' \in BOOLEAN
  BY DEF ShowContest
<1>1. Bridge /\ AppTypes
  BY DEF Base, Bridge
<1>2. Grows
  BY <1>0, <1>1, GrowsSame
<1>3. client' \in served /\ client' = client
  BY <1>0 DEF Base, BridgeTypes
<1>4. Feed \in Owners
  BY DEF Feed, Owners
<1>5. FitsIn(NewCall(client', -1, Feed, "decision"), tries', served', loaded', cancels')
  BY <1>0, <1>3 DEF FitsIn, NewCall, Feed
<1>6. /\ events \in Seq(Event) /\ Part(events, events)
      /\ QueueOf(events, client', tries', open, served)
  BY <1>0, WholePart DEF Base, BridgeTypes, Queue
<1>7. BeginCall(client', Feed, "decision", events)
  BY <1>0, <1>3
<1>8. Bridge'
  <2> HIDE DEF Feed
  <2> QED
    BY <1>0, <1>1, <1>2, <1>3, <1>4, <1>5, <1>6, <1>7, CallStep
<1>9. AppTypes' /\ FitPopup'
  BY <1>0 DEF Base, AppTypes, FitPopup
<1> QED
  BY <1>8, <1>9 DEF Base, Bridge

(* Cancel is pressed.                                                       *)
LEMMA PressCancelBase ==
    ASSUME Base, PressCancel
    PROVE  Base'
<1>0. /\ loaded /\ cancels < MaxCancels /\ cancels' = cancels + 1
      /\ BeginCall(client, Cancel(cancels + 1), "decision", events)
      /\ UNCHANGED <<opened, open, pendingConnections, contexts, served, client, replies>>
      /\ UNCHANGED <<backend, pending, official, popup, tries, loaded, chain>>
      /\ disturbed' \in BOOLEAN
  BY DEF PressCancel
<1>1. Bridge /\ AppTypes
  BY DEF Base, Bridge
<1>2. Grows
  BY <1>0, <1>1, GrowsSame
<1>3. client' \in served /\ client' = client
  BY <1>0 DEF Base, BridgeTypes, FitPopup
<1> DEFINE o == Cancel(cancels + 1)
<1>4. o \in Owners /\ o.part = "cancel" /\ o.n = cancels + 1 /\ cancels + 1 \in 0 .. MaxCancels
  BY <1>0, <1>1, CastingAssumption DEF Cancel, Owners, AppTypes
<1> HIDE DEF o
<1>5. FitsIn(NewCall(client', -1, o, "decision"), tries', served', loaded', cancels')
  BY <1>0, <1>3, <1>4 DEF FitsIn, NewCall
<1>6. /\ events \in Seq(Event) /\ Part(events, events)
      /\ QueueOf(events, client', tries', open, served)
  BY <1>0, WholePart DEF Base, BridgeTypes, Queue
<1>7. BeginCall(client', o, "decision", events)
  BY <1>0, <1>3 DEF o
<1>8. Bridge'
  BY <1>0, <1>1, <1>2, <1>3, <1>4, <1>5, <1>6, <1>7, CallStep
<1>9. AppTypes' /\ FitPopup'
  BY <1>0, <1>4 DEF Base, AppTypes, FitPopup
<1> QED
  BY <1>8, <1>9 DEF Base, Bridge

(* A step that leaves the bridge alone.                                     *)
LEMMA AloneBase ==
    ASSUME Base, UNCHANGED bridgeVars, UNCHANGED <<tries, loaded, cancels>>, AppTypes', FitPopup'
    PROVE  Base'
<1>1. /\ UNCHANGED <<opened, open, pendingConnections, contexts, served, client>>
      /\ UNCHANGED <<pendingRequests, nextQueryId, inbox, replies, events>>
  BY DEF bridgeVars
<1>2. Bridge
  BY DEF Base, Bridge
<1>3. BridgeTypes' /\ Lines' /\ Requests'
  BY <1>1 DEF Base, BridgeTypes, Lines, Requests
<1>4. Queue' /\ FitCalls'
  BY <1>1 DEF Base, Queue, FitCalls
<1> QED
  BY <1>3, <1>4 DEF Base

(* The user chooses.                                                        *)
LEMMA ChooseBase ==
    ASSUME Base, NEW o \in Opinions, Choose(o)
    PROVE  Base'
<1>1. SetOpinions(pending, o) \in Decisions
  BY DecisionFacts DEF Base, AppTypes
<1>2. AppTypes' /\ FitPopup'
  BY <1>1 DEF Choose, Base, AppTypes, FitPopup, bridgeVars
<1> QED
  BY <1>2, AloneBase DEF Choose

(* The backend goes, or settles.                                            *)
LEMMA BackendBase ==
    ASSUME Base, BackendLost \/ \E up \in BOOLEAN : BackendSettles(up)
    PROVE  Base'
<1>1. /\ backend' \in {"up", "connecting", "down"}
      /\ UNCHANGED bridgeVars
      /\ UNCHANGED <<pending, official, popup, tries, loaded, cancels, chain, disturbed>>
  BY DEF BackendLost, BackendSettles
<1>2. AppTypes' /\ FitPopup'
  BY <1>1 DEF Base, AppTypes, FitPopup, bridgeVars
<1> QED
  BY <1>1, <1>2, AloneBase

(* Nothing happens.                                                         *)
LEMMA StutterBase ==
    ASSUME Base, UNCHANGED vars
    PROVE  Base'
<1>1. UNCHANGED bridgeVars /\ UNCHANGED <<backend, pending, official, popup, tries, loaded, cancels, chain, disturbed>>
  BY DEF vars, appVars
<1>2. AppTypes' /\ FitPopup'
  BY <1>1 DEF Base, AppTypes, FitPopup, bridgeVars
<1> QED
  BY <1>1, <1>2, AloneBase

-----------------------------------------------------------------------------
(* The base is preserved by the steps that start a try.                     *)

(* The decision a button prepares is a decision, empty for a revocation.    *)
LEMMA PreparedFacts ==
    ASSUME AppTypes, NEW kind
    PROVE  /\ Prepared(kind) \in Decisions
           /\ Prepared(kind).opinions = IF kind = "revoke" THEN NoOpinion ELSE pending.opinions
<1> DEFINE e == Emptied(pending)
<1>1. e \in Decisions /\ e.opinions = NoOpinion
  BY DecisionFacts DEF AppTypes
<1> HIDE DEF e
<1> QED
  BY <1>1 DEF Prepared, AppTypes, e

(* A new try appends itself to the tries and asks for balances.             *)
LEMMA SubmitBase ==
    ASSUME Base, loaded, NEW kind \in {"cast", "revoke"}, NEW press \in Nat, NEW p \in Decisions,
           client' \in served, client' = client \/ pendingRequests = {},
           NEW rest \in Seq(Event), Part(rest, events),
           QueueOf(rest, client', tries, open, served),
           Submit(kind, press, p, pending, client', rest),
           backend' \in {"up", "connecting", "down"},
           UNCHANGED <<opened, open, pendingConnections, contexts, served, replies>>,
           UNCHANGED <<official, loaded, cancels, chain>>
    PROVE  Base'
<1> DEFINE n == Len(tries) + 1
           o == Try(n)
<1>1. /\ pending' = p
      /\ tries' = Append(tries, NewTry(kind, press, p, pending))
      /\ popup' = [open |-> TRUE, kind |-> kind, current |-> n]
      /\ BeginCall(client', o, "balances", rest)
      /\ disturbed' \in BOOLEAN
  BY DEF Submit
<1>2. Bridge /\ AppTypes /\ tries \in Seq(TryRecord) /\ pending \in Decisions
  BY DEF Base, Bridge, AppTypes
<1> DEFINE us == Append(tries, NewTry(kind, press, p, pending))
<1>a. us = Append(tries, NewTry(kind, press, p, pending))
  OBVIOUS
<1> HIDE DEF us
<1>3. /\ us \in Seq(TryRecord) /\ Len(tries) \in Nat /\ Len(us) = Len(tries) + 1
      /\ DOMAIN tries = 1 .. Len(tries) /\ DOMAIN us = 1 .. Len(tries) + 1
      /\ \A m \in DOMAIN tries : us[m] = tries[m]
      /\ us[Len(tries) + 1].kind = kind /\ us[Len(tries) + 1].conn = 0
  BY <1>2, <1>a, NewTryFacts
<1>4. tries' = us
  BY <1>1 DEF us
<1>5. \A m \in DOMAIN us : us[m].conn = 0 \/ (m \in DOMAIN tries /\ us[m] = tries[m])
  BY <1>3
<1>6. Grows
  <2>1. cancels \in Nat
    BY <1>2, CastingAssumption DEF AppTypes
  <2>2. \A m \in DOMAIN us : us[m].conn \in {0} \union served
    BY <1>2, <1>5 DEF Bridge, Lines
  <2>3. \A m \in DOMAIN tries : us[m] = tries[m] /\ m \in DOMAIN us
    BY <1>3
  <2> QED
    BY <1>4, <2>1, <2>2, <2>3 DEF Grows
<1>7. QueueOf(rest, client', us, open, served)
  BY <1>2, <1>5, QueueTries, ServedNotZero DEF Bridge
<1>8. o \in Owners /\ o.part = "try" /\ o.n = n /\ n \in DOMAIN us
  BY <1>3 DEF Try, Owners
<1> HIDE DEF o
<1>9. FitsIn(NewCall(client', -1, o, "balances"), tries', served', loaded', cancels')
  BY <1>4, <1>8 DEF FitsIn, NewCall
<1>10. Bridge'
  BY <1>1, <1>2, <1>4, <1>6, <1>7, <1>8, <1>9, CallStep
<1>11. AppTypes'
  BY <1>1, <1>2, <1>3, <1>4 DEF AppTypes
<1>12. FitPopup'
  <2>1. client' # 0
    BY <1>2, ServedNotZero DEF Bridge
  <2>2. popup' = [open |-> TRUE, kind |-> kind, current |-> n] /\ us[Len(us)].kind = kind /\ Len(us) = n
    BY <1>1, <1>3
  <2> QED
    BY <1>4, <2>1, <2>2 DEF FitPopup
<1> QED
  BY <1>10, <1>11, <1>12 DEF Base, Bridge

(* Presses are counted.                                                     *)
LEMMA PressesAreNat ==
    ASSUME AppTypes
    PROVE  Presses \in Nat
<1>1. CASE tries = <<>>
  BY <1>1 DEF Presses
<1>2. CASE tries # <<>>
  <2>1. Len(tries) \in DOMAIN tries /\ Last(tries) = tries[Len(tries)]
    BY <1>2 DEF AppTypes, Last
  <2>2. tries[Len(tries)] \in TryRecord
    BY <2>1, Members DEF AppTypes
  <2> QED
    BY <1>2, <2>1, <2>2 DEF Presses, TryRecord
<1> QED
  BY <1>1, <1>2

(* Cast Vote or Revoke Vote is pressed.                                     *)
LEMMA PressBase ==
    ASSUME Base, NEW kind \in {"cast", "revoke"}, Press(kind)
    PROVE  Base'
<1>0. /\ loaded /\ ~popup.open
      /\ UNCHANGED <<opened, open, pendingConnections, contexts, served, client, replies>>
      /\ UNCHANGED <<backend, official, loaded, cancels, chain>>
  BY DEF Press
<1>1. Prepared(kind) \in Decisions /\ Presses + 1 \in Nat
  BY PreparedFacts, PressesAreNat DEF Base
<1>2. CASE backend = "up"
  <2>1. Submit(kind, Presses + 1, Prepared(kind), pending, client', events)
    BY <1>2, <1>0 DEF Press
  <2>2. client' \in served /\ client' = client /\ backend' \in {"up", "connecting", "down"}
    BY <1>0 DEF Base, BridgeTypes, FitPopup, AppTypes
  <2>3. events \in Seq(Event) /\ Part(events, events) /\ QueueOf(events, client', tries, open, served)
    BY <1>0, WholePart DEF Base, BridgeTypes, Queue
  <2> QED
    BY <1>0, <1>1, <2>1, <2>2, <2>3, SubmitBase
<1>3. CASE backend # "up"
  <2>1. /\ pending' = Prepared(kind) /\ UNCHANGED <<tries, popup>>
        /\ UNCHANGED <<pendingRequests, nextQueryId, inbox, events, disturbed>>
    BY <1>3 DEF Press, SubmitNothing
  <2>2. AppTypes' /\ FitPopup'
    BY <1>0, <1>1, <2>1 DEF Base, AppTypes, FitPopup
  <2>3. UNCHANGED bridgeVars
    BY <1>0, <2>1 DEF bridgeVars
  <2> QED
    BY <1>0, <2>1, <2>2, <2>3, AloneBase
<1> QED
  BY <1>2, <1>3

(* A connection reaches the app.                                            *)
LEMMA ClientArrivesBase ==
    ASSUME Base, ClientArrives
    PROVE  Base'
<1> DEFINE rest == Tail(events)
           c == Head(events).conn
<1>0. /\ events # <<>> /\ Head(events).kind = "client" /\ client' = c
      /\ backend' \in {"up", "connecting", "down"}
      /\ IF popup.open /\ backend = "up"
         THEN Submit(popup.kind, Presses, Prepared(popup.kind), pending, c, rest)
         ELSE /\ events' = rest
              /\ UNCHANGED <<pendingRequests, nextQueryId, inbox>>
              /\ IF popup.open THEN SubmitNothing(popup.kind) /\ disturbed' = TRUE
                 ELSE UNCHANGED <<pending, tries, popup, disturbed>>
      /\ UNCHANGED <<opened, open, pendingConnections, contexts, served, replies>>
      /\ UNCHANGED <<official, loaded, cancels, chain>>
  BY DEF ClientArrives
<1>1. Bridge /\ AppTypes /\ events \in Seq(Event)
  BY DEF Base, Bridge, BridgeTypes
<1>2. /\ rest \in Seq(Event) /\ Part(rest, events)
      /\ Head(events) = events[1] /\ 1 \in Arrivals(events)
  BY <1>0, <1>1, TailPart DEF Arrivals
<1>3. QueueOf(rest, c, tries, open, served)
  BY <1>0, <1>1, QueueTail DEF Bridge, Queue
<1>4. c \in served /\ client \notin open
  BY <1>2, <1>1 DEF Bridge, Queue, QueueOf
<1>5. pendingRequests = {}
  BY <1>4, <1>1 DEF Bridge, Requests
<1> HIDE DEF rest, c
<1>6. popup.open \in BOOLEAN /\ popup.kind \in {"cast", "revoke"}
  BY <1>1 DEF AppTypes
<1>7. CASE popup.open /\ backend = "up"
  <2>1. loaded
    BY <1>7 DEF Base, FitPopup
  <2>2. Submit(popup.kind, Presses, Prepared(popup.kind), pending, client', rest)
    BY <1>0, <1>7
  <2>3. Prepared(popup.kind) \in Decisions /\ Presses \in Nat
    BY <1>1, PreparedFacts, PressesAreNat
  <2>4. client' \in served /\ QueueOf(rest, client', tries, open, served)
    BY <1>0, <1>3, <1>4
  <2> QED
    BY <1>0, <1>2, <1>5, <1>6, <2>1, <2>2, <2>3, <2>4, SubmitBase
<1>8. CASE ~ (popup.open /\ backend = "up")
  <2>1. /\ events' = rest /\ UNCHANGED <<pendingRequests, nextQueryId, inbox>>
        /\ UNCHANGED <<tries, popup>>
        /\ pending' = pending \/ pending' = Prepared(popup.kind)
        /\ disturbed' \in BOOLEAN
    BY <1>0, <1>1, <1>8 DEF SubmitNothing, AppTypes
  <2>2. pending' \in Decisions
    BY <2>1, <1>1, PreparedFacts DEF AppTypes
  <2>3. Grows
    BY <1>0, <1>1, <2>1, GrowsSame
  <2>4. QueueOf(rest, client', tries', open, served) /\ client' \in {0} \union served
    BY <1>0, <1>3, <1>4, <2>1
  <2>5. Still
    BY <2>1 DEF Still
  <2>6. Bridge'
    BY <1>0, <1>1, <1>2, <1>5, <2>1, <2>3, <2>4, <2>5, QuietStep
  <2>7. AppTypes'
    BY <1>0, <1>1, <2>1, <2>2 DEF AppTypes
  <2>8. FitPopup'
    <3>1. client' # 0
      BY <1>0, <1>1, <1>4, ServedNotZero DEF Bridge
    <3> QED
      BY <1>0, <2>1, <3>1 DEF Base, FitPopup
  <2> QED
    BY <2>6, <2>7, <2>8 DEF Base, Bridge
<1> QED
  BY <1>7, <1>8

-----------------------------------------------------------------------------
(* The base is preserved by the continuations.                              *)

(* Tries with other outcomes.                                               *)
LEMMA GrowsAlike ==
    ASSUME Bridge, AppTypes, Alike(tries, tries'), served' = served, loaded' = loaded, cancels' = cancels,
           NEW ev, QueueOf(ev, client, tries, open, served)
    PROVE  Grows /\ QueueOf(ev, client, tries', open, served)
<1>1. cancels \in Nat
  BY CastingAssumption DEF AppTypes
<1>2. Grows
  BY <1>1 DEF Grows, Bridge, Lines, Alike
<1>3. 0 \notin served
  BY ServedNotZero DEF Bridge
<1> DEFINE us == tries'
<1>4. \A n \in DOMAIN us : \E m \in DOMAIN tries : us[n].conn = tries[m].conn
  BY DEF Alike
<1> HIDE DEF us
<1>5. QueueOf(ev, client, us, open, served)
  BY <1>3, <1>4, QueueTries
<1> QED
  BY <1>2, <1>5 DEF us

(* What the app knows when it goes on with the answer at the head.          *)
LEMMA HeadReply ==
    ASSUME Base, events # <<>>, Head(events).kind = "reply"
    PROVE  /\ 1 \in Replies(events) /\ Head(events) = events[1] /\ Head(events) \in Reply
           /\ Head(events).call \in Calls
           /\ FitsIn(Head(events).call, tries, served, loaded, cancels) /\ Carries(Head(events))
           /\ Tail(events) \in Seq(Event) /\ Part(Tail(events), events)
           /\ QueueOf(Tail(events), client, tries, open, served)
           /\ Head(events).ok => Head(events).call.conn = client /\ client \in served
<1>1. events \in Seq(Event) /\ QueueOf(events, client, tries, open, served)
  BY DEF Base, BridgeTypes, Queue
<1>2. /\ Tail(events) \in Seq(Event) /\ Part(Tail(events), events)
      /\ Head(events) \in Event /\ Head(events) = events[1] /\ 1 \in DOMAIN events
  BY <1>1, TailPart
<1>3. 1 \in Replies(events) /\ Head(events) \in Reply
  BY <1>2, EventKinds DEF Replies
<1>4. Head(events).call \in Calls
  BY <1>3 DEF Reply
<1>5. FitsIn(Head(events).call, tries, served, loaded, cancels) /\ Carries(Head(events))
  BY <1>2, <1>3 DEF Base, FitCalls
<1>6. QueueOf(Tail(events), client, tries, open, served)
  BY <1>1, QueueTail
<1>7. ASSUME Head(events).ok PROVE Head(events).call.conn = client /\ client \in served
  <2>1. 1 \in Answers(events)
    BY <1>2, <1>3, <1>7 DEF Answers, Replies
  <2>2. Head(events).call.conn = client
    BY <2>1, <1>1, <1>2 DEF QueueOf
  <2>3. client \in Conns
    BY <2>2, <1>4 DEF Calls
  <2> QED
    BY <2>2, <2>3, BridgeAssumption DEF Conns, Base, BridgeTypes
<1> QED
  BY <1>2, <1>3, <1>4, <1>5, <1>6, <1>7

(* A try reports to the popup.                                              *)
LEMMA ReportFacts ==
    ASSUME AppTypes, NEW n \in DOMAIN tries, NEW o \in {"resolved", "rejected"}, Report(n, o)
    PROVE  /\ Alike(tries, tries') /\ Outcome(tries, tries', n, o)
           /\ popup' = popup \/ popup' = [popup EXCEPT !.open = FALSE]
           /\ popup'.open => popup.open
           /\ popup'.kind = popup.kind /\ popup'.current = popup.current
           /\ popup' \in [open : BOOLEAN, kind : {"cast", "revoke"}, current : Nat]
           /\ ~ tries[n].ignored => ~ popup'.open
<1>1. tries' = [tries EXCEPT ![n].outcome = o]
  BY DEF Report
<1>2. tries \in Seq(TryRecord)
  BY DEF AppTypes
<1> DEFINE us == tries'
<1>3. us = [tries EXCEPT ![n].outcome = o]
  BY <1>1
<1> HIDE DEF us
<1>4. Alike(tries, us) /\ Outcome(tries, us, n, o)
  BY <1>2, <1>3, OutcomeSet
<1>5. /\ popup' = popup \/ popup' = [popup EXCEPT !.open = FALSE]
      /\ ~ tries[n].ignored => popup' = [popup EXCEPT !.open = FALSE]
  BY DEF Report
<1>6. popup \in [open : BOOLEAN, kind : {"cast", "revoke"}, current : Nat]
  BY DEF AppTypes
<1> QED
  BY <1>4, <1>5, <1>6 DEF us

(* A step that goes on with an answer and makes no call.                    *)
LEMMA AnswerQuietBase ==
    ASSUME Base, events # <<>>, Head(events).kind = "reply",
           events' = Tail(events), Still, Alike(tries, tries'),
           popup' \in [open : BOOLEAN, kind : {"cast", "revoke"}, current : Nat],
           popup'.open => popup.open, popup'.kind = popup.kind, popup'.current = popup.current,
           pending' \in Decisions, official' \in Decisions \union {NoDecision},
           UNCHANGED <<opened, open, pendingConnections, contexts, served, client, replies>>,
           UNCHANGED <<backend, loaded, cancels, chain, disturbed>>
    PROVE  Base'
<1>1. Bridge /\ AppTypes
  BY DEF Base, Bridge
<1> DEFINE rest == Tail(events)
<1>2. rest \in Seq(Event) /\ Part(rest, events) /\ QueueOf(rest, client, tries, open, served)
  BY HeadReply
<1>3. events' = rest
  OBVIOUS
<1> HIDE DEF rest
<1>4. Grows /\ QueueOf(rest, client', tries', open, served)
  BY <1>1, <1>2, GrowsAlike
<1>5. client' \in {0} \union served
  BY <1>1 DEF Bridge, BridgeTypes
<1>6. Bridge'
  BY <1>1, <1>2, <1>3, <1>4, <1>5, QuietStep
<1>7. AppTypes'
  BY <1>1 DEF AppTypes, Alike
<1>8. FitPopup'
  <2>1. Len(tries') = Len(tries) /\ (tries' # <<>> => tries # <<>>)
        /\ (tries # <<>> => tries'[Len(tries)].kind = tries[Len(tries)].kind)
    <3>1. tries \in Seq(TryRecord) /\ tries' \in Seq(TryRecord) /\ Len(tries') = Len(tries)
      BY <1>1 DEF AppTypes, Alike
    <3>2. tries # <<>> => Len(tries) \in DOMAIN tries
      BY <3>1
    <3> QED
      BY <3>1, <3>2 DEF Alike
  <2> QED
    BY <2>1 DEF Base, FitPopup
<1> QED
  BY <1>6, <1>7, <1>8 DEF Base, Bridge

(* A try that goes on with another call.                                    *)
LEMMA AnswerCallBase ==
    ASSUME Base, events # <<>>, Head(events).kind = "reply",
           NEW n \in DOMAIN tries, NEW method \in {"fees", "broadcast"},
           client \in served, tries' \in Seq(TryRecord), Len(tries') = Len(tries),
           DOMAIN tries' = DOMAIN tries,
           tries'[n].cast \in Decisions, tries'[n].conn # 0,
           \A m \in DOMAIN tries : /\ tries'[m].kind = tries[m].kind
                                   /\ \/ m = n /\ tries'[m].conn = client
                                      \/ tries'[m].conn = tries[m].conn /\ tries'[m].cast = tries[m].cast,
           BeginCall(client, Try(n), method, Tail(events)),
           pending' \in Decisions,
           UNCHANGED <<popup, official>>,
           UNCHANGED <<opened, open, pendingConnections, contexts, served, client, replies>>,
           UNCHANGED <<backend, loaded, cancels, chain, disturbed>>
    PROVE  Base'
<1>1. Bridge /\ AppTypes
  BY DEF Base, Bridge
<1> DEFINE rest == Tail(events)
           o == Try(n)
           us == tries'
<1>2. rest \in Seq(Event) /\ Part(rest, events) /\ QueueOf(rest, client, tries, open, served)
  BY HeadReply
<1>3. BeginCall(client', o, method, rest)
  OBVIOUS
<1>4. o \in Owners /\ o.part = "try" /\ o.n = n
  <2>1. n \in Nat
    BY <1>1 DEF AppTypes
  <2> QED
    BY <2>1 DEF Try, Owners
<1> HIDE DEF rest, o
<1>5. Grows
  <2>1. cancels \in Nat
    BY <1>1, CastingAssumption DEF AppTypes
  <2>2. \A m \in DOMAIN tries : tries'[m].conn \in {0} \union served
    BY <1>1 DEF Bridge, Lines
  <2>3. \A m \in DOMAIN tries : /\ tries[m].cast \in Decisions => tries'[m].cast \in Decisions
                                /\ tries[m].conn # 0 => tries'[m].conn # 0
    OBVIOUS
  <2> QED
    BY <2>1, <2>2, <2>3 DEF Grows
<1>6. QueueOf(rest, client', us, open, served)
  <2>1. 0 \notin served
    BY <1>1, ServedNotZero DEF Bridge
  <2>2. \A m \in DOMAIN us : us[m].conn \in {0, client} \/ \E k \in DOMAIN tries : us[m].conn = tries[k].conn
    OBVIOUS
  <2> HIDE DEF us
  <2>3. QueueOf(rest, client, us, open, served)
    BY <1>2, <2>1, <2>2, QueueTries
  <2> QED
    BY <2>3
<1>7. FitsIn(NewCall(client', -1, o, method), tries', served', loaded', cancels')
  BY <1>4 DEF FitsIn, NewCall
<1>8. Bridge'
  BY <1>1, <1>2, <1>3, <1>4, <1>5, <1>6, <1>7, CallStep DEF us
<1>9. AppTypes'
  BY <1>1 DEF AppTypes
<1>10. FitPopup'
  <2>1. (tries' # <<>> => tries # <<>>)
        /\ (tries # <<>> => tries'[Len(tries)].kind = tries[Len(tries)].kind)
    <3>1. tries \in Seq(TryRecord)
      BY <1>1 DEF AppTypes
    <3>2. tries # <<>> => Len(tries) \in DOMAIN tries
      BY <3>1
    <3> QED
      BY <3>1, <3>2
  <2> QED
    BY <2>1 DEF Base, FitPopup
<1> QED
  BY <1>8, <1>9, <1>10 DEF Base, Bridge

(* The continuations one by one, for the answer e at the head and its try n.*)
TryFails(n, e) ==
    /\ e.call.owner.part = "try" /\ ~ e.ok /\ n = e.call.owner.n
    /\ Report(n, "rejected") /\ Still /\ events' = Tail(events)
    /\ pending' = IF tries[n].kind = "revoke"
                  THEN SetWriteIns(SetOpinions(pending, tries[n].backup.opinions),
                                   tries[n].backup.writeIns)
                  ELSE pending
    /\ official' = official

TryHasBalances(n, e) ==
    /\ e.call.owner.part = "try" /\ e.ok /\ n = e.call.owner.n /\ e.call.method = "balances"
    /\ tries' = [tries EXCEPT ![n].cast = Canonical(pending), ![n].conn = client]
    /\ pending' = Serialized(pending)
    /\ BeginCall(client, Try(n), "fees", Tail(events))
    /\ UNCHANGED <<popup, official>>

TryHasFees(n, e) ==
    /\ e.call.owner.part = "try" /\ e.ok /\ n = e.call.owner.n /\ e.call.method = "fees"
    /\ BeginCall(client, Try(n), "broadcast", Tail(events))
    /\ UNCHANGED <<pending, tries, popup, official>>

TrySucceeds(n, e) ==
    /\ e.call.owner.part = "try" /\ e.ok /\ n = e.call.owner.n /\ e.call.method = "broadcast"
    /\ official' = tries[n].snapshot
    /\ Report(n, "resolved") /\ Still /\ events' = Tail(events)
    /\ pending' = pending

CancelAnswered(e) ==
    /\ e.call.owner.part = "cancel" /\ e.call.method = "decision"
    /\ events' = Tail(events) /\ Still
    /\ pending' = IF e.ok
                  THEN SetOpinions(SetWriteIns(pending, e.value.writeIns), e.value.opinions)
                  ELSE Emptied(pending)
    /\ UNCHANGED <<tries, popup, official>>

FeedAnswered(e) ==
    /\ e.call.owner = Feed /\ e.call.method = "decision"
    /\ events' = Tail(events) /\ Still
    /\ official' = IF e.ok THEN e.value ELSE official
    /\ UNCHANGED <<pending, tries, popup>>

(* A continuation is one of the six.                                        *)
LEMMA ContinueCases ==
    ASSUME Base, Continue, NEW e, e = Head(events)
    PROVE  /\ events # <<>> /\ e.kind = "reply"
           /\ UNCHANGED <<opened, open, pendingConnections, contexts, served, client, replies>>
           /\ UNCHANGED <<backend, loaded, cancels, chain, disturbed>>
           /\ \/ \E n \in DOMAIN tries : \/ TryFails(n, e) \/ TryHasBalances(n, e)
                                         \/ TryHasFees(n, e) \/ TrySucceeds(n, e)
              \/ CancelAnswered(e) \/ FeedAnswered(e)
<1>1. /\ events # <<>> /\ e.kind = "reply"
      /\ IF e.call.owner.part = "try" THEN ContinueTry(e.call.owner.n, e) ELSE ContinueLookup(e)
      /\ UNCHANGED <<opened, open, pendingConnections, contexts, served, client, replies>>
      /\ UNCHANGED <<backend, loaded, cancels, chain, disturbed>>
  BY DEF Continue
<1>2. /\ e \in Reply /\ e.call \in Calls
      /\ FitsIn(e.call, tries, served, loaded, cancels)
      /\ e.ok => e.call.conn = client
  BY <1>1, HeadReply
<1>3. e.ok \in BOOLEAN /\ e.call.owner.part \in {"try", "cancel", "feed"}
      /\ e.call.method \in {"decision", "balances", "fees", "broadcast"}
      /\ e.call.owner \in [part : {"try", "cancel", "feed"}, n : Nat]
  BY <1>2 DEF Reply, Calls
<1> DEFINE n == e.call.owner.n
<1>4. CASE e.call.owner.part = "try"
  <2>1. n \in DOMAIN tries /\ e.call.method \in {"balances", "fees", "broadcast"}
    BY <1>2, <1>3, <1>4 DEF FitsIn
  <2>2. ContinueTry(n, e)
    BY <1>1, <1>4
  <2>3. CASE ~ e.ok
    <3>1. Rejected(n) /\ UNCHANGED <<pendingRequests, nextQueryId, inbox>> /\ events' = Tail(events) /\ UNCHANGED official
      BY <2>2, <2>3 DEF ContinueTry
    <3>2. TryFails(n, e)
      BY <1>4, <2>3, <3>1 DEF TryFails, Rejected, Still
    <3> QED
      BY <1>1, <2>1, <3>2
  <2>4. CASE e.ok /\ e.call.method = "balances"
    <3>1. TryHasBalances(n, e)
      BY <1>4, <2>2, <2>4 DEF ContinueTry, TryHasBalances
    <3> QED
      BY <1>1, <2>1, <3>1
  <2>5. CASE e.ok /\ e.call.method = "fees"
    <3>1. BeginCall(e.call.conn, Try(n), "broadcast", Tail(events)) /\ UNCHANGED <<pending, tries, popup, official>>
      BY <2>2, <2>5 DEF ContinueTry
    <3>2. e.call.conn = client
      BY <1>2, <2>5
    <3>3. TryHasFees(n, e)
      BY <1>4, <2>5, <3>1, <3>2 DEF TryHasFees
    <3> QED
      BY <1>1, <2>1, <3>3
  <2>6. CASE e.ok /\ e.call.method = "broadcast"
    <3>1. TrySucceeds(n, e)
      BY <1>4, <2>2, <2>6 DEF ContinueTry, TrySucceeds, Still
    <3> QED
      BY <1>1, <2>1, <3>1
  <2> QED
    BY <1>3, <2>1, <2>3, <2>4, <2>5, <2>6
<1>5. CASE e.call.owner.part # "try"
  <2>1. ContinueLookup(e) /\ e.call.method = "decision"
    BY <1>1, <1>2, <1>5 DEF FitsIn
  <2>2. CASE e.call.owner.part = "cancel"
    <3>1. CancelAnswered(e)
      BY <2>1, <2>2 DEF ContinueLookup, CancelAnswered, Still
    <3> QED
      BY <1>1, <3>1
  <2>3. CASE e.call.owner.part = "feed"
    <3>1. e.call.owner = Feed
      BY <1>2, <1>3, <2>3 DEF FitsIn, Feed
    <3>2. FeedAnswered(e)
      BY <2>1, <2>3, <3>1 DEF ContinueLookup, FeedAnswered, Still
    <3> QED
      BY <1>1, <3>2
  <2> QED
    BY <1>3, <1>5, <2>2, <2>3
<1> QED
  BY <1>4, <1>5

(* A continuation preserves the base.                                       *)
LEMMA ContinueBase ==
    ASSUME Base, Continue
    PROVE  Base'
<1> DEFINE e == Head(events)
<1>1. /\ events # <<>> /\ e.kind = "reply"
      /\ UNCHANGED <<opened, open, pendingConnections, contexts, served, client, replies>>
      /\ UNCHANGED <<backend, loaded, cancels, chain, disturbed>>
      /\ \/ \E n \in DOMAIN tries : \/ TryFails(n, e) \/ TryHasBalances(n, e)
                                    \/ TryHasFees(n, e) \/ TrySucceeds(n, e)
         \/ CancelAnswered(e) \/ FeedAnswered(e)
  BY ContinueCases
<1>2. /\ e \in Reply /\ e.call \in Calls /\ Carries(e)
      /\ FitsIn(e.call, tries, served, loaded, cancels)
      /\ e.ok => e.call.conn = client /\ client \in served
  BY <1>1, HeadReply
<1>3. AppTypes /\ tries \in Seq(TryRecord) /\ pending \in Decisions
      /\ popup \in [open : BOOLEAN, kind : {"cast", "revoke"}, current : Nat]
      /\ official \in Decisions \union {NoDecision}
  BY DEF Base, AppTypes
<1>4. \A n \in DOMAIN tries : tries[n] \in TryRecord
  BY <1>3, Members
<1>5. ASSUME NEW n \in DOMAIN tries, TryFails(n, e) PROVE Base'
  <2>1. /\ Alike(tries, tries')
        /\ popup'.open => popup.open
        /\ popup'.kind = popup.kind /\ popup'.current = popup.current
        /\ popup' \in [open : BOOLEAN, kind : {"cast", "revoke"}, current : Nat]
    BY <1>3, <1>5, ReportFacts DEF TryFails
  <2>2. pending' \in Decisions
    <3>1. tries[n].backup \in Decisions
      BY <1>4 DEF TryRecord
    <3>2. tries[n].backup.opinions \in Opinions /\ tries[n].backup.writeIns \in BOOLEAN
      BY <3>1 DEF Decisions
    <3>3. SetOpinions(pending, tries[n].backup.opinions) \in Decisions
      BY <1>3, <3>2, DecisionFacts
    <3>4. SetWriteIns(SetOpinions(pending, tries[n].backup.opinions), tries[n].backup.writeIns) \in Decisions
      BY <3>2, <3>3, DecisionFacts
    <3> QED
      BY <1>3, <1>5, <3>4 DEF TryFails
  <2>3. events' = Tail(events) /\ Still /\ official' \in Decisions \union {NoDecision}
    BY <1>3, <1>5 DEF TryFails
  <2> QED
    BY <1>1, <2>1, <2>2, <2>3, AnswerQuietBase
<1>6. ASSUME NEW n \in DOMAIN tries, TrySucceeds(n, e) PROVE Base'
  <2>1. /\ Alike(tries, tries')
        /\ popup'.open => popup.open
        /\ popup'.kind = popup.kind /\ popup'.current = popup.current
        /\ popup' \in [open : BOOLEAN, kind : {"cast", "revoke"}, current : Nat]
    BY <1>3, <1>6, ReportFacts DEF TrySucceeds
  <2>2. official' \in Decisions \union {NoDecision}
    BY <1>4, <1>6 DEF TrySucceeds, TryRecord
  <2>3. events' = Tail(events) /\ Still /\ pending' \in Decisions
    BY <1>3, <1>6 DEF TrySucceeds
  <2> QED
    BY <1>1, <2>1, <2>2, <2>3, AnswerQuietBase
<1>7. Alike(tries, tries)
  BY <1>3 DEF Alike
<1>8. ASSUME CancelAnswered(e) PROVE Base'
  <2>1. pending' \in Decisions
    <3>1. CASE e.ok
      <4>1. e.value \in Decisions
        BY <1>2, <1>8, <3>1 DEF Carries, CancelAnswered
      <4>2. e.value.opinions \in Opinions /\ e.value.writeIns \in BOOLEAN
        BY <4>1 DEF Decisions
      <4>3. SetWriteIns(pending, e.value.writeIns) \in Decisions
        BY <1>3, <4>2, DecisionFacts
      <4>4. SetOpinions(SetWriteIns(pending, e.value.writeIns), e.value.opinions) \in Decisions
        BY <4>2, <4>3, DecisionFacts
      <4> QED
        BY <1>8, <3>1, <4>4 DEF CancelAnswered
    <3>2. CASE ~ e.ok
      <4>1. Emptied(pending) \in Decisions
        BY <1>3, DecisionFacts
      <4> QED
        BY <1>8, <3>2, <4>1 DEF CancelAnswered
    <3> QED
      BY <3>1, <3>2
  <2>2. /\ events' = Tail(events) /\ Still /\ tries' = tries /\ popup' = popup
        /\ official' \in Decisions \union {NoDecision}
    BY <1>3, <1>8 DEF CancelAnswered
  <2> QED
    BY <1>1, <1>3, <1>7, <2>1, <2>2, AnswerQuietBase
<1>9. ASSUME FeedAnswered(e) PROVE Base'
  <2>1. official' \in Decisions \union {NoDecision}
    BY <1>2, <1>3, <1>9 DEF Carries, FeedAnswered
  <2>2. /\ events' = Tail(events) /\ Still /\ tries' = tries /\ popup' = popup
        /\ pending' \in Decisions
    BY <1>3, <1>9 DEF FeedAnswered
  <2> QED
    BY <1>1, <1>3, <1>7, <2>1, <2>2, AnswerQuietBase
<1>10. ASSUME NEW n \in DOMAIN tries, TryHasBalances(n, e) PROVE Base'
  <2>1. tries' = [tries EXCEPT ![n].cast = Canonical(pending), ![n].conn = client]
        /\ e.ok /\ UNCHANGED <<popup, official>> /\ pending' = Serialized(pending)
        /\ BeginCall(client, Try(n), "fees", Tail(events))
    BY <1>10 DEF TryHasBalances
  <2>2. client \in served /\ client \in Nat /\ client # 0
    BY <1>2, <2>1, ServedNotZero DEF Base
  <2> DEFINE d == Canonical(pending)
             us == tries'
  <2>3. d \in Decisions /\ Serialized(pending) \in Decisions
    BY <1>3, DecisionFacts
  <2>4. us = [tries EXCEPT ![n].cast = d, ![n].conn = client]
    BY <2>1
  <2> HIDE DEF d, us
  <2>5. CastIn(tries, us, n, d, client)
    BY <1>3, <2>2, <2>3, <2>4, CastSet
  <2>6. /\ us \in Seq(TryRecord) /\ Len(us) = Len(tries) /\ DOMAIN us = DOMAIN tries
        /\ us[n].cast \in Decisions /\ us[n].conn # 0
        /\ \A m \in DOMAIN tries : /\ us[m].kind = tries[m].kind
                                   /\ \/ m = n /\ us[m].conn = client
                                      \/ us[m].conn = tries[m].conn /\ us[m].cast = tries[m].cast
    BY <2>2, <2>3, <2>5 DEF CastIn
  <2> QED
    BY <1>1, <1>3, <2>1, <2>2, <2>3, <2>6, AnswerCallBase DEF us
<1>11. ASSUME NEW n \in DOMAIN tries, TryHasFees(n, e) PROVE Base'
  <2>1. /\ BeginCall(client, Try(n), "broadcast", Tail(events))
        /\ UNCHANGED <<pending, tries, popup, official>> /\ e.ok
        /\ n = e.call.owner.n /\ e.call.method = "fees"
    BY <1>11 DEF TryHasFees
  <2>2. tries[n].cast \in Decisions /\ tries[n].conn # 0 /\ client \in served
    BY <1>2, <2>1 DEF FitsIn
  <2> QED
    BY <1>1, <1>3, <2>1, <2>2, AnswerCallBase
<1> QED
  BY <1>1, <1>5, <1>6, <1>8, <1>9, <1>10, <1>11

-----------------------------------------------------------------------------
(* The base is an invariant, and what follows from it.                      *)

(* The connection that is lost takes the calls with it.                     *)
LEMMA LostFacts ==
    ASSUME Base, WalletLost
    PROVE  /\ Base' /\ FailedReplies(events', events, pendingRequests)
           /\ pendingRequests' = {} /\ replies' = {}
           /\ inbox' \subseteq inbox /\ Broadcasts(inbox) \subseteq inbox'
           /\ client' = client
           /\ Alike(tries, tries') /\ SameOutcomes(tries, tries')
           /\ UNCHANGED <<backend, pending, official, popup, loaded, cancels, chain, disturbed>>
<1>1. PICK c \in open : ServedConnectionLost(c)
  BY DEF WalletLost
<1>2. /\ tries' = IF popup.open THEN [tries EXCEPT ![popup.current].ignored = TRUE] ELSE tries
      /\ UNCHANGED <<backend, pending, official, popup, loaded, cancels, chain, disturbed>>
  BY DEF WalletLost
<1>3. Bridge /\ AppTypes /\ tries \in Seq(TryRecord)
  BY DEF Base, Bridge, AppTypes
<1> DEFINE us == tries'
           k == popup.current
<1>4. Alike(tries, us) /\ SameOutcomes(tries, us)
  <2>1. CASE popup.open
    <3>1. us = [tries EXCEPT ![k].ignored = TRUE] /\ k \in Nat
      BY <1>2, <1>3, <2>1 DEF AppTypes
    <3> HIDE DEF us, k
    <3> QED
      BY <1>3, <3>1, IgnoredSet
  <2>2. CASE ~ popup.open
    BY <1>2, <1>3, <2>2 DEF Alike, SameOutcomes
  <2> QED
    BY <2>1, <2>2
<1>5. /\ DOMAIN tries' = DOMAIN tries
      /\ \A n \in DOMAIN tries : tries'[n].conn = tries[n].conn /\ tries'[n].cast = tries[n].cast
  BY <1>4 DEF Alike
<1>6. /\ Bridge' /\ FailedReplies(events', events, pendingRequests)
      /\ pendingRequests' = {} /\ replies' = {}
      /\ inbox' \subseteq inbox /\ Broadcasts(inbox) \subseteq inbox'
      /\ client' = client
  BY <1>1, <1>2, <1>3, <1>5, LostBridge
<1>7. AppTypes'
  BY <1>2, <1>3, <1>4 DEF AppTypes, Alike
<1>8. FitPopup'
  <2>1. Len(us) = Len(tries) /\ (us # <<>> => tries # <<>>)
        /\ (tries # <<>> => us[Len(tries)].kind = tries[Len(tries)].kind)
    <3>1. us \in Seq(TryRecord) /\ Len(us) = Len(tries)
      BY <1>4 DEF Alike
    <3>2. tries # <<>> => Len(tries) \in DOMAIN tries
      BY <1>3
    <3> HIDE DEF us
    <3> QED
      BY <1>3, <1>4, <3>1, <3>2 DEF Alike
  <2> QED
    BY <1>2, <1>6, <2>1 DEF Base, FitPopup
<1> QED
  BY <1>2, <1>4, <1>6, <1>7, <1>8 DEF Base, Bridge

(* A connection nobody serves is lost.                                      *)
LEMMA QueuedLostBase ==
    ASSUME Base, QueuedLost
    PROVE  Base'
<1>1. PICK c \in open : QueuedConnectionLost(c)
  BY DEF QueuedLost
<1>2. /\ c \in open \ served /\ open' = open \ {c}
      /\ UNCHANGED <<opened, pendingConnections, contexts, served, client,
                     pendingRequests, nextQueryId, inbox, replies, events>>
      /\ UNCHANGED <<backend, pending, official, popup, tries, loaded, cancels, chain, disturbed>>
  BY <1>1 DEF QueuedConnectionLost, QueuedLost, appVars
<1>3. open' \intersect served = open \intersect served /\ open' \subseteq open
  BY <1>2
<1>4. BridgeTypes' /\ AppTypes' /\ FitPopup'
  BY <1>2 DEF Base, BridgeTypes, AppTypes, FitPopup
<1>5. Lines'
  BY <1>2, <1>3 DEF Base, Lines
<1>6. Requests'
  <2>1. client \in open /\ client \in {0} \union served => client \in open'
    BY <1>2, BridgeAssumption DEF Base, BridgeTypes
  <2>2. \A q \in pendingRequests : q.conn = client /\ client \in open' /\ q.id \in Nat /\ q.id < nextQueryId[client]
    BY <2>1 DEF Base, Requests, BridgeTypes
  <2> QED
    BY <1>2, <1>3, <2>2 DEF Base, Requests
<1>7. Queue'
  <2>1. QueueOf(events, client, tries, open', served)
    BY <1>3, QueueShut DEF Base, Queue
  <2> QED
    BY <1>2, <2>1 DEF Queue
<1>8. FitCalls'
  BY <1>2 DEF Base, FitCalls
<1> QED
  BY <1>4, <1>5, <1>6, <1>7, <1>8 DEF Base

(* A connection opens.                                                      *)
LEMMA OpensBase ==
    ASSUME Base, WalletConnects
    PROVE  Base'
<1>1. UNCHANGED <<backend, pending, official, popup, tries, loaded, cancels, chain, disturbed>>
      /\ client' = client
  BY DEF WalletConnects, WalletOpens, appVars
<1>2. Bridge'
  BY OpensBridge DEF Base, Bridge
<1>3. AppTypes' /\ FitPopup'
  BY <1>1 DEF Base, AppTypes, FitPopup
<1> QED
  BY <1>2, <1>3 DEF Base, Bridge

(* An answer is delivered.                                                  *)
LEMMA ReceiveBase ==
    ASSUME Base, Receive
    PROVE  Base'
<1>1. UNCHANGED <<backend, pending, official, popup, tries, loaded, cancels, chain, disturbed>>
      /\ client' = client
  BY DEF Receive, FinishCall, appVars
<1>2. Bridge'
  BY ReceiveBridge DEF Base, Bridge
<1>3. AppTypes' /\ FitPopup'
  BY <1>1 DEF Base, AppTypes, FitPopup
<1> QED
  BY <1>2, <1>3 DEF Base, Bridge

(* The wallet deals with a call.                                            *)
LEMMA AnswersBase ==
    ASSUME Base, NEW q \in inbox, NEW ok \in BOOLEAN, WalletAnswers(q, ok)
    PROVE  Base'
<1>1. UNCHANGED <<client, backend, pending, official, popup, tries, loaded, cancels, disturbed>>
  BY DEF WalletAnswers
<1>2. Bridge' /\ AppTypes'
  BY AnswersBridge DEF Base, Bridge
<1>3. FitPopup'
  BY <1>1 DEF Base, FitPopup
<1> QED
  BY <1>2, <1>3 DEF Base, Bridge

(* The base holds at the start,                                             *)
LEMMA InitBase ==
    ASSUME Init
    PROVE  Base
<1>1. BridgeTypes
  <2>1. Conns \subseteq Nat /\ MaxConn \in Nat
    BY BridgeAssumption DEF Conns
  <2> QED
    BY <2>1 DEF Init, BridgeInit, BridgeTypes
<1>2. AppTypes
  <2>1. chain \in Seq(Entry)
    <3>1. CASE chain = <<>>
      BY <3>1
    <3>2. ASSUME NEW d \in Decisions, chain = <<[try |-> 0, decision |-> d]>> PROVE chain \in Seq(Entry)
      <4>1. [try |-> 0, decision |-> d] \in Entry
        BY DEF Entry
      <4> QED
        BY <3>2, <4>1
    <3> QED
      BY <3>1, <3>2 DEF Init
  <2>2. popup \in [open : BOOLEAN, kind : {"cast", "revoke"}, current : Nat]
    BY DEF Init
  <2>3. cancels \in 0 .. MaxCancels
    BY CastingAssumption DEF Init
  <2>4. pending \in Decisions /\ official = NoDecision /\ backend = "up" /\ loaded = FALSE /\ disturbed = FALSE
    BY DEF Init
  <2>5. tries \in Seq(TryRecord)
    BY DEF Init
  <2> QED
    BY <2>1, <2>2, <2>3, <2>4, <2>5 DEF AppTypes
<1>3. Lines
  BY DEF Init, BridgeInit, Lines
<1>4. Requests
  BY FS_EmptySet DEF Init, BridgeInit, Requests
<1>5. Queue
  BY DEF Init, BridgeInit, Queue, QueueOf, Arrivals, Answers
<1>6. FitCalls /\ FitPopup
  BY DEF Init, BridgeInit, FitCalls, FitPopup, Replies
<1> QED
  BY <1>1, <1>2, <1>3, <1>4, <1>5, <1>6 DEF Base

(* every step preserves it,                                                 *)
LEMMA StepBase ==
    ASSUME Base, [Next]_vars
    PROVE  Base'
<1>1. CASE Next
  BY <1>1, ShowBase, PressCancelBase, ChooseBase, PressBase, ClientArrivesBase, ContinueBase,
     ReceiveBase, AnswersBase, OpensBase, LostFacts, QueuedLostBase, BackendBase DEF Next
<1>2. CASE UNCHANGED vars
  BY <1>2, StutterBase
<1> QED
  BY <1>1, <1>2

(* and so it always holds.                                                  *)
LEMMA BaseHolds == Spec => []Base
<1>1. Init => Base
  BY InitBase
<1>2. Base /\ [Next]_vars => Base'
  BY StepBase
<1> QED
  BY <1>1, <1>2, PTL DEF Spec

(* The state of the bridge and of the app is of its type.                   *)
THEOREM TypeCorrect == Spec => []TypeOK
<1>1. Base => TypeOK
  <2> SUFFICES ASSUME Base PROVE TypeOK
    OBVIOUS
  <2>1. ToSet(pendingConnections) \subseteq 1 .. opened
    BY Members DEF Base, BridgeTypes, ToSet
  <2>2. popup \in [open : BOOLEAN, kind : {"cast", "revoke"}, current : 0 .. Len(tries)]
    <3>1. Len(tries) \in Nat /\ popup.current = Len(tries)
          /\ popup \in [open : BOOLEAN, kind : {"cast", "revoke"}, current : Nat]
      BY DEF Base, AppTypes, FitPopup
    <3> QED
      BY <3>1
  <2> QED
    BY <2>1, <2>2 DEF Base, BridgeTypes, AppTypes, TypeOK
<1> QED
  BY <1>1, BaseHolds, PTL

(* However the wallet comes and goes, the app waits for one connection or   *)
(* is served by one.                                                        *)
THEOREM OneLineHolds == Spec => []OneLine
<1>1. Base => OneLine
  <2> SUFFICES ASSUME Base PROVE OneLine
    OBVIOUS
  <2>1. CASE contexts = 1 /\ open \intersect served = {}
    BY <2>1, FS_EmptySet DEF OneLine
  <2>2. ASSUME contexts = 0, NEW c, open \intersect served = {c} PROVE OneLine
    BY <2>2, FS_Singleton DEF OneLine
  <2> QED
    BY <2>1, <2>2 DEF Base, Lines
<1> QED
  BY <1>1, BaseHolds, PTL

(* No call waits on a connection that is lost, and no two share an ID.      *)
THEOREM CallsHaveALineHolds == Spec => []CallsHaveALine
<1>1. Base => CallsHaveALine
  BY DEF Base, Requests, CallsHaveALine
<1> QED
  BY <1>1, BaseHolds, PTL

-----------------------------------------------------------------------------
(* Nobody waits for two calls.                                              *)

(* The calls that have not been continued, and those that can still be      *)
(* continued with an answer, when pr wait and ev is queued.                 *)
AskedOf(pr, ev) == pr \union {ev[i].call : i \in Replies(ev)}
HopedOf(pr, ev) == pr \union {ev[i].call : i \in Answers(ev)}

Asked == AskedOf(pendingRequests, events)
Hoped == HopedOf(pendingRequests, events)

(* Nobody waits for two calls.                                              *)
OnceOf(pr, ev) ==
    /\ \A p, q \in pr : p.owner = q.owner => p = q
    /\ \A i, j \in Replies(ev) : ev[i].call.owner = ev[j].call.owner => i = j
    /\ \A q \in pr, i \in Replies(ev) : q.owner # ev[i].call.owner

Once == OnceOf(pendingRequests, events)

Fewer(pr, ev, pr2, ev2) ==
    AskedOf(pr2, ev2) \subseteq AskedOf(pr, ev) /\ HopedOf(pr2, ev2) \subseteq HopedOf(pr, ev)

(* With the continuation at the head of the queue its call is done.         *)
Done(pr, ev, call) ==
    /\ call \in AskedOf(pr, ev)
    /\ \A q \in AskedOf(pr, Tail(ev)) : q.owner # call.owner

(* The head of the queue leaves it: its call is done.                       *)
LEMMA TailAsked ==
    ASSUME NEW pr, NEW ev \in Seq(Event), ev # <<>>, OnceOf(pr, ev)
    PROVE  /\ OnceOf(pr, Tail(ev)) /\ Fewer(pr, ev, pr, Tail(ev))
           /\ Head(ev).kind = "reply" => Done(pr, ev, Head(ev).call)
           /\ Head(ev).kind = "reply" /\ Head(ev).ok => Head(ev).call \in HopedOf(pr, ev)
<1> DEFINE t == Tail(ev)
<1>1. /\ \A i \in DOMAIN t : i \in Nat /\ i + 1 \in DOMAIN ev /\ t[i] = ev[i + 1]
      /\ 1 \in DOMAIN ev /\ Head(ev) = ev[1]
      /\ t \in Seq(Event)
  BY TailFacts
<1>2. DOMAIN t \subseteq Nat \ {0}
  BY <1>1, Members
<1> HIDE DEF t
<1>3. /\ \A i \in Replies(t) : i \in Nat /\ i > 0 /\ i + 1 \in Replies(ev) /\ t[i] = ev[i + 1]
      /\ \A i \in Answers(t) : i \in Nat /\ i > 0 /\ i + 1 \in Answers(ev) /\ t[i] = ev[i + 1]
  BY <1>1, <1>2 DEF Replies, Answers
<1>4. OnceOf(pr, t)
  <2>1. \A i, j \in Replies(t) : t[i].call.owner = t[j].call.owner => i = j
    <3> SUFFICES ASSUME NEW i \in Replies(t), NEW j \in Replies(t), t[i].call.owner = t[j].call.owner
                 PROVE  i = j
      OBVIOUS
    <3>1. i + 1 = j + 1
      BY <1>3 DEF OnceOf
    <3> QED
      BY <1>3, <3>1
  <2>2. \A q \in pr, i \in Replies(t) : q.owner # t[i].call.owner
    BY <1>3 DEF OnceOf
  <2> QED
    BY <2>1, <2>2 DEF OnceOf
<1>5. Fewer(pr, ev, pr, t)
  BY <1>3 DEF Fewer, AskedOf, HopedOf
<1>6. ASSUME Head(ev).kind = "reply" PROVE Done(pr, ev, Head(ev).call)
  <2>1. 1 \in Replies(ev)
    BY <1>1, <1>6 DEF Replies
  <2>2. \A q \in AskedOf(pr, t) : q.owner # Head(ev).call.owner
    <3> SUFFICES ASSUME NEW q \in AskedOf(pr, t), q.owner = Head(ev).call.owner PROVE FALSE
      OBVIOUS
    <3>1. q \notin pr
      BY <1>1, <2>1 DEF OnceOf
    <3>2. PICK i \in Replies(t) : q = t[i].call
      BY <3>1 DEF AskedOf
    <3>3. i + 1 = 1
      BY <1>1, <1>3, <2>1, <3>2 DEF OnceOf
    <3> QED
      BY <1>3, <3>2, <3>3
  <2>3. Head(ev).call \in AskedOf(pr, ev)
    BY <1>1, <2>1 DEF AskedOf
  <2> QED
    BY <2>2, <2>3 DEF Done, t
<1>7. ASSUME Head(ev).kind = "reply", Head(ev).ok PROVE Head(ev).call \in HopedOf(pr, ev)
  BY <1>1, <1>7 DEF HopedOf, Answers
<1> QED
  BY <1>4, <1>5, <1>6, <1>7 DEF t

(* A call is asked for when ev is queued.                                   *)
NowAsked(pr, ev, q, pr2, ev2) ==
    /\ AskedOf(pr2, ev2) = AskedOf(pr, ev) \union {q}
    /\ HopedOf(pr2, ev2) \subseteq HopedOf(pr, ev) \union {q}

(* The queue t is ev and the reply e after it.                              *)
OneMore(t, ev, e) ==
    /\ Len(ev) + 1 \in Replies(t) /\ t[Len(ev) + 1] = e
    /\ Len(ev) + 1 \notin DOMAIN ev
    /\ \A i \in Replies(ev) : i \in Replies(t) /\ t[i] = ev[i]
    /\ \A i \in Replies(t) : i = Len(ev) + 1 \/ (i \in Replies(ev) /\ t[i] = ev[i])
    /\ \A i \in Answers(t) : (i = Len(ev) + 1 /\ e.ok) \/ (i \in Answers(ev) /\ t[i] = ev[i])

(* A reply is the last of the queue it joins.                               *)
LEMMA ReplyAdded ==
    ASSUME NEW ev \in Seq(Event), NEW e \in Reply
    PROVE  OneMore(Append(ev, e), ev, e)
<1> DEFINE t == Append(ev, e)
<1>1. e \in Event /\ e.kind = "reply"
  BY DEF Event, Reply
<1>2. /\ Len(ev) \in Nat /\ DOMAIN ev = 1 .. Len(ev)
      /\ DOMAIN t = 1 .. Len(ev) + 1
      /\ \A i \in 1 .. Len(ev) : t[i] = ev[i]
      /\ t[Len(ev) + 1] = e
  BY <1>1, AppendFacts
<1> HIDE DEF t
<1>3. /\ Len(ev) + 1 \in Replies(t) /\ t[Len(ev) + 1] = e
      /\ Len(ev) + 1 \notin DOMAIN ev
      /\ \A i \in Replies(ev) : i \in Replies(t) /\ t[i] = ev[i]
      /\ \A i \in Replies(t) : i = Len(ev) + 1 \/ (i \in Replies(ev) /\ t[i] = ev[i])
  BY <1>1, <1>2 DEF Replies
<1>4. \A i \in Answers(t) : (i = Len(ev) + 1 /\ e.ok) \/ (i \in Answers(ev) /\ t[i] = ev[i])
  BY <1>1, <1>2 DEF Answers
<1> QED
  BY <1>3, <1>4 DEF t, OneMore

(* A call by an owner that waits for none.                                  *)
LEMMA CallAsked ==
    ASSUME BridgeTypes, NEW rest \in Seq(Event), OnceOf(pendingRequests, rest),
           NEW c \in Conns, NEW owner \in Owners, NEW method \in {"decision", "balances", "fees", "broadcast"},
           \A q \in AskedOf(pendingRequests, rest) : q.owner # owner,
           BeginCall(c, owner, method, rest)
    PROVE  /\ Once'
           /\ \E q \in Calls : /\ q.owner = owner /\ q.method = method
                               /\ NowAsked(pendingRequests, rest, q, pendingRequests', events')
                               /\ inbox' = inbox \/ inbox' = inbox \union {q}
<1>1. CASE c \in open
  <2> DEFINE id == nextQueryId[c]
             q == NewCall(c, id, owner, method)
  <2>1. /\ pendingRequests' = pendingRequests \union {q}
        /\ inbox' = inbox \union {q} /\ events' = rest
    BY <1>1 DEF BeginCall, NewCall
  <2>2. id \in Nat
    BY DEF BridgeTypes
  <2>3. q \in Calls /\ q.owner = owner /\ q.method = method
    BY <2>2 DEF NewCall, Calls, Owners
  <2> HIDE DEF q
  <2>4. NowAsked(pendingRequests, rest, q, pendingRequests', events')
    BY <2>1 DEF NowAsked, AskedOf, HopedOf
  <2>5. Once'
    <3>1. (\A p \in pendingRequests : p.owner # owner) /\ (\A i \in Replies(rest) : rest[i].call.owner # owner)
      BY DEF AskedOf
    <3> QED
      BY <2>1, <2>3, <3>1 DEF Once, OnceOf
  <2> QED
    BY <2>1, <2>3, <2>4, <2>5
<1>2. CASE c \notin open
  <2> DEFINE q == NewCall(c, -1, owner, method)
             e == Settled(q, FALSE, <<>>)
             t == Append(rest, e)
  <2>1. /\ pendingRequests' = pendingRequests
        /\ inbox' = inbox /\ events' = t
    BY <1>2 DEF BeginCall, NewCall
  <2>2. q \in Calls /\ q.owner = owner /\ q.method = method
    BY DEF NewCall, Calls, Owners
  <2>3. e \in Reply /\ e.call = q /\ e.ok = FALSE
    BY <2>2 DEF Settled, Reply, Value
  <2> HIDE DEF e, q
  <2>4. OneMore(t, rest, e)
    BY <2>3, ReplyAdded
  <2> HIDE DEF t
  <2>5. NowAsked(pendingRequests, rest, q, pendingRequests, t)
    <3>1. AskedOf(pendingRequests, t) = AskedOf(pendingRequests, rest) \union {q}
      BY <2>3, <2>4 DEF OneMore, AskedOf
    <3>2. HopedOf(pendingRequests, t) \subseteq HopedOf(pendingRequests, rest)
      BY <2>3, <2>4 DEF OneMore, HopedOf
    <3> QED
      BY <3>1, <3>2 DEF NowAsked
  <2>6. OnceOf(pendingRequests, t)
    <3>1. (\A p \in pendingRequests : p.owner # owner) /\ (\A i \in Replies(rest) : rest[i].call.owner # owner)
      BY DEF AskedOf
    <3>2. \A i, j \in Replies(t) : t[i].call.owner = t[j].call.owner => i = j
      BY <2>2, <2>3, <2>4, <3>1 DEF OneMore, OnceOf
    <3>3. \A p \in pendingRequests, i \in Replies(t) : p.owner # t[i].call.owner
      BY <2>2, <2>3, <2>4, <3>1 DEF OneMore, OnceOf
    <3> QED
      BY <3>2, <3>3 DEF OnceOf
  <2> QED
    BY <2>1, <2>2, <2>5, <2>6 DEF Once
<1> QED
  BY <1>1, <1>2

StillFewer == Fewer(pendingRequests, events, pendingRequests', events')

(* Busy are the owners of the calls asked for.                              *)
LEMMA OwnersBusy == Busy = {q.owner : q \in Asked}
<1>1. \A i \in Replies(events) : events[i] \in ToSet(events) /\ events[i].kind = "reply"
  BY DEF Replies, ToSet
<1>2. \A e \in ToSet(events) : e.kind = "reply" => \E i \in Replies(events) : e = events[i]
  BY DEF Replies, ToSet
<1> QED
  BY <1>1, <1>2 DEF Busy, Asked, AskedOf

(* A delivery asks for nothing,                                             *)
LEMMA ReceiveAsked ==
    ASSUME Base, Once, Receive
    PROVE  Once' /\ StillFewer /\ UNCHANGED inbox
<1>0. Bridge /\ events \in Seq(Event)
  BY DEF Base, Bridge, BridgeTypes
<1>1. PICK r \in replies : FinishCall(r)
  BY DEF Receive
<1> DEFINE q == r.call
           e == Settled(r.call, r.ok, r.value)
           t == Append(events, e)
<1>2. /\ r \in Answer /\ q \in pendingRequests
      /\ pendingRequests' = pendingRequests \ {q}
      /\ events' = t /\ inbox' = inbox
  BY <1>0, <1>1, Delivered
<1>3. e \in Reply /\ e.call = q
  BY <1>2 DEF Answer, Settled, Reply
<1> HIDE DEF e, q
<1>4. OneMore(t, events, e)
  BY <1>0, <1>3, ReplyAdded
<1> HIDE DEF t
<1> DEFINE pr == pendingRequests \ {q}
<1>5. OnceOf(pr, t)
  <2>1. (\A p \in pr : p.owner # q.owner) /\ (\A i \in Replies(events) : events[i].call.owner # q.owner)
    BY <1>2 DEF Once, OnceOf
  <2>2. \A i, j \in Replies(t) : t[i].call.owner = t[j].call.owner => i = j
    BY <1>3, <1>4, <2>1 DEF OneMore, Once, OnceOf
  <2>3. \A p \in pr, i \in Replies(t) : p.owner # t[i].call.owner
    BY <1>3, <1>4, <2>1 DEF OneMore, Once, OnceOf
  <2> QED
    BY <2>2, <2>3 DEF Once, OnceOf
<1>6. Fewer(pendingRequests, events, pr, t)
  BY <1>2, <1>3, <1>4 DEF OneMore, Fewer, AskedOf, HopedOf
<1> QED
  BY <1>2, <1>5, <1>6 DEF Once, StillFewer

(* nor does a loss,                                                         *)
LEMMA LostAsked ==
    ASSUME Base, Once, WalletLost
    PROVE  Once' /\ StillFewer
<1> DEFINE t == events'
<1>1. FailedReplies(t, events, pendingRequests) /\ pendingRequests' = {}
  BY LostFacts
<1> HIDE DEF t
<1>2. \A i \in Replies(t) : i \notin DOMAIN events => i \notin Replies(events)
  BY DEF Replies
<1>3. /\ \A i \in Replies(t) :
            \/ i \in Replies(events) /\ i \in DOMAIN events /\ t[i] = events[i]
            \/ i \notin DOMAIN events /\ ~ t[i].ok /\ t[i].call \in pendingRequests
      /\ \A i, j \in Replies(t) :
            i \notin DOMAIN events /\ j \notin DOMAIN events /\ t[i].call = t[j].call => i = j
  BY <1>1 DEF FailedReplies, Replies
<1>4. OnceOf({}, t)
  <2>1. \A i, j \in Replies(t) : t[i].call.owner = t[j].call.owner => i = j
    <3> SUFFICES ASSUME NEW i \in Replies(t), NEW j \in Replies(t), t[i].call.owner = t[j].call.owner
                 PROVE  i = j
      OBVIOUS
    <3>1. CASE i \in DOMAIN events /\ j \in DOMAIN events
      BY <1>3, <3>1 DEF Once, OnceOf
    <3>2. CASE i \notin DOMAIN events /\ j \notin DOMAIN events
      BY <1>3, <3>2 DEF Once, OnceOf
    <3>3. CASE i \in DOMAIN events /\ j \notin DOMAIN events
      BY <1>3, <3>3 DEF Once, OnceOf
    <3>4. CASE i \notin DOMAIN events /\ j \in DOMAIN events
      BY <1>3, <3>4 DEF Once, OnceOf
    <3> QED
      BY <3>1, <3>2, <3>3, <3>4
  <2> QED
    BY <2>1 DEF OnceOf
<1>5. Fewer(pendingRequests, events, {}, t)
  <2>1. AskedOf({}, t) \subseteq AskedOf(pendingRequests, events)
    BY <1>3 DEF AskedOf
  <2>2. \A i \in Answers(t) : i \in Answers(events) /\ t[i] = events[i]
    BY <1>3 DEF Replies, Answers
  <2>3. HopedOf({}, t) \subseteq HopedOf(pendingRequests, events)
    BY <2>2 DEF HopedOf
  <2> QED
    BY <2>1, <2>3 DEF Fewer
<1> QED
  BY <1>1, <1>4, <1>5 DEF Once, StillFewer, t

(* nor a connection that opens,                                             *)
LEMMA OpensAsked ==
    ASSUME Base, Once, WalletConnects
    PROVE  Once' /\ StillFewer /\ UNCHANGED inbox
<1> DEFINE e == Arrived(Head(Append(pendingConnections, opened + 1)))
           t == Append(events, e)
<1>1. /\ events' = events \/ events' = t
      /\ pendingRequests' = pendingRequests /\ inbox' = inbox
  BY DEF WalletConnects, WalletOpens
<1>2. e.kind = "client"
  BY DEF Arrived
<1> HIDE DEF e
<1>3. /\ Len(events) \in Nat /\ DOMAIN events = 1 .. Len(events)
      /\ DOMAIN t = 1 .. Len(events) + 1
      /\ \A i \in 1 .. Len(events) : t[i] = events[i]
      /\ t[Len(events) + 1] = e
  <2> DEFINE S == Event \union {e}
  <2>1. events \in Seq(S) /\ e \in S
    BY DEF Base, BridgeTypes
  <2> HIDE DEF S
  <2> QED
    BY <2>1, AppendFacts
<1> HIDE DEF t
<1>4. /\ Replies(t) = Replies(events) /\ Answers(t) = Answers(events)
      /\ \A i \in Replies(t) : t[i] = events[i]
  BY <1>2, <1>3 DEF Replies, Answers
<1>5. \A i \in Answers(t) : t[i] = events[i]
  BY <1>4 DEF Replies, Answers
<1>6. OnceOf(pendingRequests, t) /\ Fewer(pendingRequests, events, pendingRequests, t)
  BY <1>4, <1>5 DEF Once, OnceOf, Fewer, AskedOf, HopedOf
<1>7. Fewer(pendingRequests, events, pendingRequests, events)
  BY DEF Fewer
<1> QED
  BY <1>1, <1>6, <1>7 DEF Once, StillFewer

(* The calls asked for are the app's own.                                   *)
LEMMA AskedFit ==
    ASSUME Base
    PROVE  /\ \A q \in Asked : q \in Calls /\ FitsIn(q, tries, served, loaded, cancels)
           /\ Hoped \subseteq Asked
<1>1. \A i \in Replies(events) : events[i].call \in Calls
  <2> SUFFICES ASSUME NEW i \in Replies(events) PROVE events[i].call \in Calls
    OBVIOUS
  <2>1. events[i] \in Event /\ events[i].kind = "reply"
    BY Members DEF Base, BridgeTypes, Replies
  <2>2. events[i] \in Reply
    BY <2>1, EventKinds
  <2> QED
    BY <2>2 DEF Reply
<1>2. \A q \in Asked : q \in Calls /\ FitsIn(q, tries, served, loaded, cancels)
  BY <1>1 DEF Asked, AskedOf, Base, BridgeTypes, FitCalls
<1>3. Hoped \subseteq Asked
  BY DEF Asked, AskedOf, Hoped, HopedOf, Answers, Replies
<1> QED
  BY <1>2, <1>3

(* A call is asked for with rest left in the queue.                         *)
AskedNow(owner, method, rest) ==
    \E q \in Calls : /\ q.owner = owner /\ q.method = method
                     /\ NowAsked(pendingRequests, rest, q, pendingRequests', events')
                     /\ inbox' = inbox \/ inbox' = inbox \union {q}

(* nor a continuation that makes no call,                                   *)
LEMMA QuietAsked ==
    ASSUME Base, Once, events # <<>>, events' = Tail(events), Still
    PROVE  Once' /\ StillFewer /\ UNCHANGED inbox
<1>1. pendingRequests' = pendingRequests /\ inbox' = inbox
  BY DEF Still
<1>2. OnceOf(pendingRequests, Tail(events)) /\ Fewer(pendingRequests, events, pendingRequests, Tail(events))
  BY TailAsked DEF Once, Base, BridgeTypes
<1> QED
  BY <1>1, <1>2 DEF Once, StillFewer

(* nor a step that leaves the calls alone.                                  *)
LEMMA SameAsked ==
    ASSUME Once, UNCHANGED <<pendingRequests, events, inbox>>
    PROVE  Once' /\ StillFewer
BY DEF Once, StillFewer, Fewer

(* The feed asks for the official decision.                                 *)
LEMMA ShowAsked ==
    ASSUME Base, Once, ShowContest
    PROVE  Once' /\ AskedNow(Feed, "decision", events)
<1>1. BeginCall(client, Feed, "decision", events) /\ client \in Conns /\ ~ loaded
  BY BridgeAssumption DEF ShowContest, Base, BridgeTypes, Conns
<1>2. Feed \in Owners /\ Feed.part = "feed"
  BY DEF Feed, Owners
<1>3. \A q \in AskedOf(pendingRequests, events) : q.owner # Feed
  BY <1>1, <1>2, AskedFit DEF Asked, FitsIn
<1> HIDE DEF Feed
<1>4. BridgeTypes /\ events \in Seq(Event) /\ OnceOf(pendingRequests, events)
  BY DEF Base, BridgeTypes, Once
<1> QED
  BY <1>1, <1>2, <1>3, <1>4, CallAsked DEF AskedNow

(* Cancel asks for the decision on the chain.                               *)
LEMMA PressCancelAsked ==
    ASSUME Base, Once, PressCancel
    PROVE  Once' /\ AskedNow(Cancel(cancels + 1), "decision", events)
<1> DEFINE o == Cancel(cancels + 1)
<1>1. BeginCall(client, o, "decision", events) /\ client \in Conns
  BY BridgeAssumption DEF PressCancel, Base, BridgeTypes, FitPopup, Conns
<1>2. o \in Owners /\ o.part = "cancel" /\ o.n = cancels + 1 /\ cancels \in Nat
  BY CastingAssumption DEF Cancel, Owners, Base, AppTypes
<1> HIDE DEF o
<1>3. \A q \in AskedOf(pendingRequests, events) : q.owner # o
  <2> SUFFICES ASSUME NEW q \in Asked, q.owner = o PROVE FALSE
    BY DEF Asked
  <2>1. q.owner.n <= cancels
    BY <1>2, AskedFit DEF FitsIn
  <2> QED
    BY <1>2, <2>1
<1>4. BridgeTypes /\ events \in Seq(Event) /\ OnceOf(pendingRequests, events)
  BY DEF Base, BridgeTypes, Once
<1> QED
  BY <1>1, <1>2, <1>3, <1>4, CallAsked DEF AskedNow, o

(* A new try asks for the balances.                                         *)
LEMMA SubmitAsked ==
    ASSUME Base, Once, NEW kind, NEW press, NEW p, NEW to \in Conns,
           NEW rest \in Seq(Event), OnceOf(pendingRequests, rest),
           Fewer(pendingRequests, events, pendingRequests, rest),
           Submit(kind, press, p, pending, to, rest)
    PROVE  Once' /\ AskedNow(Try(Len(tries) + 1), "balances", rest)
<1> DEFINE o == Try(Len(tries) + 1)
<1>1. BeginCall(to, o, "balances", rest)
  BY DEF Submit
<1>2. o \in Owners /\ o.part = "try" /\ o.n \notin DOMAIN tries
  <2>1. Len(tries) \in Nat /\ DOMAIN tries = 1 .. Len(tries)
    BY DEF Base, AppTypes
  <2> QED
    BY <2>1 DEF Try, Owners
<1> HIDE DEF o
<1>3. \A q \in AskedOf(pendingRequests, rest) : q.owner # o
  <2>1. AskedOf(pendingRequests, rest) \subseteq Asked
    BY DEF Fewer, Asked
  <2> QED
    BY <1>2, <2>1, AskedFit DEF FitsIn
<1>4. BridgeTypes
  BY DEF Base
<1> QED
  BY <1>1, <1>2, <1>3, <1>4, CallAsked DEF AskedNow, o

(* A try that goes on with a call.                                          *)
LEMMA GoesOnAsked ==
    ASSUME Base, Once, events # <<>>, Head(events).kind = "reply", Head(events).ok,
           NEW n \in DOMAIN tries, Head(events).call.owner = Try(n),
           NEW method \in {"fees", "broadcast"},
           BeginCall(client, Try(n), method, Tail(events))
    PROVE  Once' /\ AskedNow(Try(n), method, Tail(events))
<1> DEFINE o == Try(n)
           rest == Tail(events)
<1>1. /\ rest \in Seq(Event) /\ client \in Conns
      /\ OnceOf(pendingRequests, rest) /\ Done(pendingRequests, events, Head(events).call)
  <2>1. events \in Seq(Event)
    BY DEF Base, BridgeTypes
  <2>2. client \in Conns
    BY HeadReply DEF Calls
  <2> QED
    BY <2>1, <2>2, HeadReply, TailAsked DEF Once
<1>2. o \in Owners
  <2>1. n \in Nat
    BY DEF Base, AppTypes
  <2> QED
    BY <2>1 DEF Try, Owners
<1>3. \A q \in AskedOf(pendingRequests, rest) : q.owner # o
  BY <1>1 DEF Done
<1>4. BeginCall(client, o, method, rest)
  OBVIOUS
<1> HIDE DEF o, rest
<1>5. BridgeTypes
  BY DEF Base
<1>6. Once' /\ AskedNow(o, method, rest)
  BY <1>1, <1>2, <1>3, <1>4, <1>5, CallAsked DEF AskedNow
<1> QED
  BY <1>6 DEF o, rest

(* The try that goes on is the owner of the call at the head.               *)
LEMMA OwnerOfTry ==
    ASSUME Base, Continue, NEW n \in DOMAIN tries,
           NEW e, e = Head(events),
           TryFails(n, e) \/ TryHasBalances(n, e) \/ TryHasFees(n, e) \/ TrySucceeds(n, e)
    PROVE  e.call.owner = Try(n)
<1>1. events # <<>> /\ e.kind = "reply"
  BY ContinueCases
<1>2. e.call \in Calls
  BY <1>1, HeadReply
<1>3. e.call.owner \in [part : {"try", "cancel", "feed"}, n : Nat]
  BY <1>2 DEF Calls
<1>4. e.call.owner.part = "try" /\ e.call.owner.n = n
  BY DEF TryFails, TryHasBalances, TryHasFees, TrySucceeds
<1> QED
  BY <1>3, <1>4 DEF Try

(* A continuation leaves nobody waiting twice.                              *)
LEMMA ContinueOnce ==
    ASSUME Base, Once, Continue
    PROVE  Once'
<1> DEFINE e == Head(events)
<1>1. /\ events # <<>> /\ e.kind = "reply"
      /\ \/ \E n \in DOMAIN tries : \/ TryFails(n, e) \/ TryHasBalances(n, e)
                                    \/ TryHasFees(n, e) \/ TrySucceeds(n, e)
         \/ CancelAnswered(e) \/ FeedAnswered(e)
  BY ContinueCases
<1>2. ASSUME NEW n \in DOMAIN tries, TryHasBalances(n, e) \/ TryHasFees(n, e) PROVE Once'
  <2>1. e.call.owner = Try(n)
    BY <1>2, OwnerOfTry
  <2>2. /\ e.ok
        /\ BeginCall(client, Try(n), "fees", Tail(events)) \/ BeginCall(client, Try(n), "broadcast", Tail(events))
    BY <1>2 DEF TryHasBalances, TryHasFees
  <2> QED
    BY <1>1, <2>1, <2>2, GoesOnAsked
<1>3. ASSUME events' = Tail(events), Still PROVE Once'
  BY <1>1, <1>3, QuietAsked
<1> QED
  BY <1>1, <1>2, <1>3 DEF TryFails, TrySucceeds, CancelAnswered, FeedAnswered

(* When a connection reaches the app, no call is outstanding and no answer  *)
(* queued.                                                                  *)
LEMMA ArrivalFacts ==
    ASSUME Base, events # <<>>, Head(events).kind = "client"
    PROVE  /\ Tail(events) \in Seq(Event) /\ Head(events).conn \in Conns
           /\ Head(events).conn \in served
           /\ pendingRequests = {} /\ HopedOf(pendingRequests, Tail(events)) = {}
           /\ \A n \in DOMAIN tries : tries[n].conn # Head(events).conn
<1>1. events \in Seq(Event) /\ QueueOf(events, client, tries, open, served)
  BY DEF Base, BridgeTypes, Queue
<1>2. Tail(events) \in Seq(Event) /\ Head(events) = events[1] /\ 1 \in Arrivals(events)
  BY <1>1, TailPart DEF Arrivals
<1>3. Answers(Tail(events)) = {}
  BY <1>1, QueueTail
<1>4. /\ Head(events).conn \in served /\ client \notin open
      /\ \A n \in DOMAIN tries : tries[n].conn # Head(events).conn
  BY <1>1, <1>2 DEF QueueOf
<1>5. pendingRequests = {}
  BY <1>4 DEF Base, Requests
<1>6. HopedOf(pendingRequests, Tail(events)) = {}
  BY <1>3, <1>5 DEF HopedOf
<1>7. Head(events).conn \in Conns
  <2> DEFINE c == Head(events).conn
  <2>1. c \in served
    BY <1>4
  <2> HIDE DEF c
  <2>2. c \in Conns
    BY <2>1, BridgeAssumption DEF Base, BridgeTypes, Conns
  <2> QED
    BY <2>2 DEF c
<1> QED
  BY <1>2, <1>4, <1>5, <1>6, <1>7

(* An arrival leaves nobody waiting twice.                                  *)
LEMMA ClientArrivesOnce ==
    ASSUME Base, Once, ClientArrives
    PROVE  Once'
<1> DEFINE rest == Tail(events)
           c == Head(events).conn
<1>1. /\ events # <<>> /\ Head(events).kind = "client"
      /\ \/ \E kind, press, p : Submit(kind, press, p, pending, c, rest)
         \/ events' = rest /\ Still
  BY DEF ClientArrives, Still
<1>2. rest \in Seq(Event) /\ c \in Conns
  BY <1>1, ArrivalFacts
<1>3. OnceOf(pendingRequests, rest) /\ Fewer(pendingRequests, events, pendingRequests, rest)
  BY <1>1, TailAsked DEF Once, Base, BridgeTypes
<1> HIDE DEF c
<1>4. ASSUME NEW kind, NEW press, NEW p, Submit(kind, press, p, pending, c, rest) PROVE Once'
  <2> HIDE DEF rest
  <2> QED
    BY <1>2, <1>3, <1>4, SubmitAsked
<1>5. ASSUME events' = rest, Still PROVE Once'
  BY <1>1, <1>5, QuietAsked
<1> QED
  BY <1>1, <1>4, <1>5

(* A press leaves nobody waiting twice.                                     *)
LEMMA PressOnce ==
    ASSUME Base, Once, NEW kind \in {"cast", "revoke"}, Press(kind)
    PROVE  /\ Once'
           /\ backend = "up" => AskedNow(Try(Len(tries) + 1), "balances", events)
           /\ backend # "up" => StillFewer /\ UNCHANGED inbox
<1>1. /\ backend = "up" => Submit(kind, Presses + 1, Prepared(kind), pending, client, events)
      /\ backend # "up" => UNCHANGED <<pendingRequests, events, inbox>>
      /\ client \in Conns
  BY BridgeAssumption DEF Press, Base, FitPopup, BridgeTypes, Conns
<1>2. events \in Seq(Event) /\ OnceOf(pendingRequests, events) /\ Fewer(pendingRequests, events, pendingRequests, events)
  BY DEF Base, BridgeTypes, Once, Fewer
<1>3. CASE backend = "up"
  BY <1>1, <1>2, <1>3, SubmitAsked
<1>4. CASE backend # "up"
  BY <1>1, <1>4, SameAsked
<1> QED
  BY <1>3, <1>4

(* No step leaves anybody waiting twice.                                    *)
LEMMA StepOnce ==
    ASSUME Base, Once, [Next]_vars
    PROVE  Once'
<1>1. CASE ShowContest \/ PressCancel
  BY <1>1, ShowAsked, PressCancelAsked
<1>2. ASSUME NEW kind \in {"cast", "revoke"}, Press(kind) PROVE Once'
  BY <1>2, PressOnce
<1>3. CASE ClientArrives \/ Continue
  BY <1>3, ClientArrivesOnce, ContinueOnce
<1>4. CASE Receive \/ WalletLost \/ WalletConnects
  BY <1>4, ReceiveAsked, LostAsked, OpensAsked
<1>5. CASE \/ \E o \in Opinions : Choose(o)
           \/ \E q \in inbox, ok \in BOOLEAN : WalletAnswers(q, ok)
           \/ QueuedLost \/ BackendLost \/ \E up \in BOOLEAN : BackendSettles(up)
           \/ UNCHANGED vars
  <2>1. UNCHANGED <<pendingRequests, events>>
    BY <1>5 DEF Choose, WalletAnswers, QueuedLost, QueuedConnectionLost, BackendLost, BackendSettles,
                vars, bridgeVars
  <2> QED
    BY <2>1 DEF Once
<1> QED
  BY <1>1, <1>2, <1>3, <1>4, <1>5 DEF Next

-----------------------------------------------------------------------------
(* A try asks for one broadcast at most.                                    *)

OnChain(ch, n) == \E i \in DOMAIN ch : ch[i].try = n
Sent(ch, ib, n) == OnChain(ch, n) \/ \E q \in Broadcasts(ib) : q.owner.n = n

(* The chain ch holds what the tries ts had noted, from each try once.      *)
ChainOf(ch, ts) ==
    /\ \A i, j \in DOMAIN ch : ch[i].try = ch[j].try /\ ch[i].try # 0 => i = j
    /\ \A i \in DOMAIN ch : ch[i].try # 0 =>
          /\ ch[i].try \in DOMAIN ts /\ ts[ch[i].try].conn # 0
          /\ ch[i].decision = ts[ch[i].try].cast

(* A try that can still ask for a broadcast has not asked for one.          *)
SendingOf(ch, ib, hp) ==
    /\ \A p, q \in Broadcasts(ib) : p.owner = q.owner => p = q
    /\ \A q \in Broadcasts(ib) : ~ OnChain(ch, q.owner.n)
    /\ \A q \in hp : q.method \in {"balances", "fees"} => ~ Sent(ch, ib, q.owner.n)

Sending == ChainOf(chain, tries) /\ SendingOf(chain, inbox, Hoped)

Keeps(ch, ts, us) ==
    \A i \in DOMAIN ch : ch[i].try # 0 =>
        /\ ch[i].try \in DOMAIN us
        /\ us[ch[i].try].conn = ts[ch[i].try].conn /\ us[ch[i].try].cast = ts[ch[i].try].cast

(* The chain does not mind tries that keep what they cast.                  *)
LEMMA ChainKept ==
    ASSUME NEW ch, NEW ts, NEW us, ChainOf(ch, ts), Keeps(ch, ts, us)
    PROVE  ChainOf(ch, us)
BY DEF ChainOf, Keeps

(* Fewer calls do no harm.                                                  *)
LEMMA SendingLess ==
    ASSUME NEW ch, NEW ib, NEW hp, SendingOf(ch, ib, hp), NEW ib2 \in SUBSET ib, NEW hp2 \in SUBSET hp
    PROVE  SendingOf(ch, ib2, hp2)
<1>1. Broadcasts(ib2) \subseteq Broadcasts(ib)
  BY DEF Broadcasts
<1> QED
  BY <1>1 DEF SendingOf, Sent

(* A call is asked for that is no broadcast.                                *)
LEMMA SendingCall ==
    ASSUME NEW ch, NEW ib, NEW hp, SendingOf(ch, ib, hp), NEW q, q.method # "broadcast",
           q.method \in {"balances", "fees"} => ~ Sent(ch, ib, q.owner.n),
           NEW ib2 \in SUBSET (ib \union {q}), NEW hp2 \in SUBSET (hp \union {q})
    PROVE  SendingOf(ch, ib2, hp2)
<1>1. Broadcasts(ib2) \subseteq Broadcasts(ib)
  BY DEF Broadcasts
<1> QED
  BY <1>1 DEF SendingOf, Sent

(* A try asks for its broadcast.                                            *)
LEMMA SendingBroadcast ==
    ASSUME NEW ch, NEW ib, NEW hp, SendingOf(ch, ib, hp), NEW q, q.method = "broadcast",
           ~ Sent(ch, ib, q.owner.n),
           \A p \in hp : p.method \in {"balances", "fees"} => p.owner.n # q.owner.n,
           NEW ib2 \in SUBSET (ib \union {q}), NEW hp2 \in SUBSET (hp \union {q})
    PROVE  SendingOf(ch, ib2, hp2)
<1>1. Broadcasts(ib2) \subseteq Broadcasts(ib) \union {q}
  BY DEF Broadcasts
<1>2. \A p \in Broadcasts(ib) : p.owner.n # q.owner.n
  BY DEF Sent
<1>3. /\ \A p, r \in Broadcasts(ib2) : p.owner = r.owner => p = r
      /\ \A p \in Broadcasts(ib2) : ~ OnChain(ch, p.owner.n)
  BY <1>1, <1>2 DEF SendingOf, Sent
<1>4. \A p \in hp2 : p.method \in {"balances", "fees"} => ~ Sent(ch, ib2, p.owner.n)
  <2> SUFFICES ASSUME NEW p \in hp2, p.method \in {"balances", "fees"} PROVE ~ Sent(ch, ib2, p.owner.n)
    OBVIOUS
  <2>1. p \in hp /\ ~ Sent(ch, ib, p.owner.n) /\ p.owner.n # q.owner.n
    BY DEF SendingOf
  <2> QED
    BY <1>1, <2>1 DEF Sent
<1> QED
  BY <1>3, <1>4 DEF SendingOf

(* Only a try the app knows has sent anything.                              *)
LEMMA SentTries ==
    ASSUME Base, Sending, NEW n \in Nat, n # 0, Sent(chain, inbox, n)
    PROVE  n \in DOMAIN tries
<1>1. CASE OnChain(chain, n)
  BY <1>1 DEF Sending, ChainOf, OnChain
<1>2. ASSUME NEW q \in Broadcasts(inbox), q.owner.n = n PROVE n \in DOMAIN tries
  BY <1>2 DEF Broadcasts, Base, FitCalls, FitsIn
<1> QED
  BY <1>1, <1>2 DEF Sent

(* The wallet does what it was asked.                                       *)
LEMMA SendingAnswered ==
    ASSUME Base, Sending, NEW q \in inbox, NEW ok \in BOOLEAN, WalletAnswers(q, ok)
    PROVE  Sending'
<1>1. /\ inbox' = inbox \ {q}
      /\ chain' = IF q.method = "broadcast" /\ ok
                  THEN Append(chain, [try |-> q.owner.n, decision |-> tries[q.owner.n].cast])
                  ELSE chain
      /\ tries' = tries /\ Hoped' = Hoped
  BY DEF WalletAnswers, Hoped
<1>2. SendingOf(chain, inbox', Hoped)
  BY <1>1, SendingLess DEF Sending
<1>3. CASE ~ (q.method = "broadcast" /\ ok)
  BY <1>1, <1>2, <1>3 DEF Sending
<1>4. CASE q.method = "broadcast" /\ ok
  <2> DEFINE k == q.owner.n
             entry == [try |-> k, decision |-> tries[k].cast]
             ch == Append(chain, entry)
  <2>1. q \in Broadcasts(inbox) /\ q.owner \in [part : {"try", "cancel", "feed"}, n : Nat]
    BY <1>4 DEF Broadcasts, Base, BridgeTypes, Calls
  <2>2. k \in DOMAIN tries /\ tries[k].conn # 0 /\ tries[k].cast \in Decisions /\ k \in Nat /\ k # 0
    <3>1. FitsIn(q, tries, served, loaded, cancels)
      BY DEF Base, FitCalls
    <3>2. k \in DOMAIN tries /\ tries[k].conn # 0 /\ tries[k].cast \in Decisions
      BY <1>4, <3>1 DEF FitsIn
    <3> QED
      BY <3>2, Members DEF Base, AppTypes
  <2>3. ~ OnChain(chain, k)
    BY <2>1 DEF Sending, SendingOf
  <2>4. \A p \in Broadcasts(inbox') : p.owner.n # k /\ p \in Broadcasts(inbox)
    <3>1. \A p \in Broadcasts(inbox) : p.owner.part = "try" /\ p.owner \in [part : {"try", "cancel", "feed"}, n : Nat]
      BY DEF Base, FitCalls, FitsIn, Broadcasts, BridgeTypes, Calls
    <3>2. \A p \in Broadcasts(inbox) : p.owner.n = k => p.owner = q.owner
      BY <2>1, <3>1
    <3> QED
      BY <1>1, <2>1, <3>2 DEF Sending, SendingOf, Broadcasts
  <2>5. entry \in Entry /\ entry.try = k /\ entry.decision = tries[k].cast
    BY <2>2 DEF Entry
  <2> HIDE DEF entry
  <2>6. /\ Len(chain) \in Nat /\ DOMAIN chain = 1 .. Len(chain)
        /\ DOMAIN ch = 1 .. Len(chain) + 1
        /\ \A i \in 1 .. Len(chain) : ch[i] = chain[i]
        /\ ch[Len(chain) + 1] = entry
    BY <2>5, AppendFacts DEF Base, AppTypes
  <2>7. chain' = ch
    BY <1>1, <1>4 DEF entry
  <2> HIDE DEF ch, k
  <2>8. ChainOf(ch, tries)
    <3>1. \A i \in DOMAIN ch : (i \in DOMAIN chain /\ ch[i] = chain[i] /\ ch[i].try # k) \/ (i = Len(chain) + 1 /\ ch[i] = entry)
      BY <2>3, <2>6 DEF OnChain
    <3>2. \A i \in DOMAIN ch : ch[i].try # 0 =>
              /\ ch[i].try \in DOMAIN tries /\ tries[ch[i].try].conn # 0
              /\ ch[i].decision = tries[ch[i].try].cast
      BY <2>2, <2>5, <3>1 DEF Sending, ChainOf
    <3>3. \A i, j \in DOMAIN ch : ch[i].try = ch[j].try /\ ch[i].try # 0 => i = j
      BY <2>5, <3>1 DEF Sending, ChainOf
    <3> QED
      BY <3>2, <3>3 DEF ChainOf
  <2>9. \A n : OnChain(ch, n) => OnChain(chain, n) \/ n = k
    BY <2>5, <2>6 DEF OnChain
  <2>10. SendingOf(ch, inbox', Hoped)
    <3>1. \A n : Sent(ch, inbox', n) => Sent(chain, inbox, n)
      BY <2>1, <2>4, <2>9 DEF Sent, k
    <3>2. \A p \in Broadcasts(inbox') : ~ OnChain(ch, p.owner.n)
      BY <2>4, <2>9 DEF Sending, SendingOf
    <3> QED
      BY <3>1, <3>2, <2>4 DEF Sending, SendingOf
  <2> QED
    BY <1>1, <2>7, <2>8, <2>10 DEF Sending
<1> QED
  BY <1>3, <1>4

(* A step that asks for nothing,                                            *)
LEMMA SendingFewer ==
    ASSUME Sending, StillFewer, inbox' \subseteq inbox, chain' = chain, Keeps(chain, tries, tries')
    PROVE  Sending'
<1>1. Hoped' \subseteq Hoped
  BY DEF StillFewer, Fewer, Hoped
<1>2. SendingOf(chain, inbox', Hoped')
  BY <1>1, SendingLess DEF Sending
<1>3. ChainOf(chain, tries')
  BY ChainKept DEF Sending
<1> QED
  BY <1>2, <1>3 DEF Sending

(* and one that asks for something other than a broadcast.                  *)
LEMMA SendingAsks ==
    ASSUME Sending, chain' = chain, Keeps(chain, tries, tries'),
           NEW owner, NEW method, NEW rest, AskedNow(owner, method, rest),
           HopedOf(pendingRequests, rest) \subseteq Hoped, method # "broadcast",
           method \in {"balances", "fees"} => ~ Sent(chain, inbox, owner.n)
    PROVE  Sending'
<1>1. PICK q \in Calls : /\ q.owner = owner /\ q.method = method
                         /\ NowAsked(pendingRequests, rest, q, pendingRequests', events')
                         /\ inbox' = inbox \/ inbox' = inbox \union {q}
  BY DEF AskedNow
<1>2. Hoped' \subseteq Hoped \union {q} /\ inbox' \subseteq inbox \union {q}
  BY <1>1 DEF NowAsked, Hoped
<1>3. SendingOf(chain, inbox, Hoped)
  BY DEF Sending
<1>4. SendingOf(chain, inbox', Hoped')
  BY <1>1, <1>2, <1>3, SendingCall
<1>5. ChainOf(chain, tries')
  BY ChainKept DEF Sending
<1> QED
  BY <1>4, <1>5 DEF Sending

(* Tries with other outcomes keep what they cast.                           *)
LEMMA KeepsSame ==
    ASSUME Sending, Alike(tries, tries') \/ tries' = tries
    PROVE  Keeps(chain, tries, tries')
BY DEF Keeps, Alike, Sending, ChainOf

(* A new try has sent nothing.                                              *)
LEMMA SendingSubmit ==
    ASSUME Base, Once, Sending, chain' = chain,
           NEW kind \in {"cast", "revoke"}, NEW press \in Nat, NEW p \in Decisions, NEW to \in Conns,
           NEW rest \in Seq(Event), OnceOf(pendingRequests, rest),
           Fewer(pendingRequests, events, pendingRequests, rest),
           Submit(kind, press, p, pending, to, rest)
    PROVE  Sending'
<1> DEFINE k == Len(tries) + 1
           us == tries'
<1>1. AskedNow(Try(k), "balances", rest)
  BY SubmitAsked
<1>2. us = Append(tries, NewTry(kind, press, p, pending)) /\ tries \in Seq(TryRecord) /\ pending \in Decisions
  BY DEF Submit, Base, AppTypes
<1> HIDE DEF us
<1>3. /\ k \in Nat /\ k # 0 /\ k \notin DOMAIN tries /\ DOMAIN tries \subseteq DOMAIN us
      /\ \A m \in DOMAIN tries : us[m] = tries[m]
  <2>1. /\ Len(tries) \in Nat /\ DOMAIN tries = 1 .. Len(tries) /\ DOMAIN us = 1 .. Len(tries) + 1
        /\ \A m \in DOMAIN tries : us[m] = tries[m]
    BY <1>2, NewTryFacts
  <2> QED
    BY <2>1
<1>4. ~ Sent(chain, inbox, k)
  BY <1>3, SentTries
<1>5. Try(k).n = k
  BY DEF Try
<1>6. Keeps(chain, tries, tries')
  BY <1>3 DEF Keeps, Sending, ChainOf, us
<1>7. HopedOf(pendingRequests, rest) \subseteq Hoped
  BY DEF Fewer, Hoped
<1> HIDE DEF k
<1> QED
  BY <1>1, <1>4, <1>5, <1>6, <1>7, SendingAsks

(* A continuation sends at most once.                                       *)
LEMMA SendingContinue ==
    ASSUME Base, Once, Sending, Continue
    PROVE  Sending'
<1> DEFINE e == Head(events)
           rest == Tail(events)
<1>1. /\ events # <<>> /\ e.kind = "reply" /\ chain' = chain
      /\ \/ \E n \in DOMAIN tries : \/ TryFails(n, e) \/ TryHasBalances(n, e)
                                    \/ TryHasFees(n, e) \/ TrySucceeds(n, e)
         \/ CancelAnswered(e) \/ FeedAnswered(e)
  BY ContinueCases
<1>2. /\ Fewer(pendingRequests, events, pendingRequests, rest)
      /\ Done(pendingRequests, events, e.call)
      /\ e.ok => e.call \in Hoped
  BY <1>1, TailAsked DEF Once, Base, BridgeTypes, Hoped
<1>3. ASSUME Still, events' = rest, tries' = tries \/ Alike(tries, tries') PROVE Sending'
  <2>1. StillFewer /\ inbox' = inbox
    BY <1>1, <1>3, QuietAsked
  <2> QED
    BY <1>1, <1>3, <2>1, KeepsSame, SendingFewer
<1>4. ASSUME NEW n \in DOMAIN tries, TryFails(n, e) \/ TrySucceeds(n, e) PROVE Sending'
  <2>1. Still /\ events' = rest /\ (Report(n, "rejected") \/ Report(n, "resolved"))
    BY <1>4 DEF TryFails, TrySucceeds
  <2>2. Alike(tries, tries')
    BY <2>1, ReportFacts DEF Base
  <2> QED
    BY <1>3, <2>1, <2>2
<1>5. ASSUME NEW n \in DOMAIN tries, TryHasBalances(n, e) PROVE Sending'
  <2>1. e.call.owner = Try(n) /\ Try(n).n = n /\ Try(n).part = "try"
    BY <1>5, OwnerOfTry DEF Try
  <2>2. /\ tries' = [tries EXCEPT ![n].cast = Canonical(pending), ![n].conn = client]
        /\ e.ok /\ e.call.method = "balances"
        /\ BeginCall(client, Try(n), "fees", rest)
    BY <1>5 DEF TryHasBalances
  <2>3. AskedNow(Try(n), "fees", rest)
    BY <1>1, <2>1, <2>2, GoesOnAsked
  <2>4. ~ Sent(chain, inbox, n)
    BY <1>2, <2>1, <2>2 DEF Sending, SendingOf
  <2>5. Keeps(chain, tries, tries')
    <3> DEFINE us == tries'
               d == Canonical(pending)
    <3>1. d \in Decisions /\ tries \in Seq(TryRecord) /\ client \in Nat
      BY DecisionFacts, BridgeAssumption DEF Base, AppTypes, BridgeTypes
    <3>2. us = [tries EXCEPT ![n].cast = d, ![n].conn = client]
      BY <2>2
    <3> HIDE DEF us, d
    <3>3. CastIn(tries, us, n, d, client)
      BY <3>1, <3>2, CastSet
    <3> QED
      BY <2>4, <3>3 DEF CastIn, Keeps, Sending, ChainOf, Sent, OnChain, us
  <2>6. HopedOf(pendingRequests, rest) \subseteq Hoped
    BY <1>2 DEF Fewer, Hoped
  <2> HIDE DEF rest
  <2> QED
    BY <1>1, <2>1, <2>3, <2>4, <2>5, <2>6, SendingAsks
<1>6. ASSUME NEW n \in DOMAIN tries, TryHasFees(n, e) PROVE Sending'
  <2>1. e.call.owner = Try(n) /\ Try(n).n = n /\ Try(n).part = "try"
    BY <1>6, OwnerOfTry DEF Try
  <2>2. /\ tries' = tries /\ e.ok /\ e.call.method = "fees"
        /\ BeginCall(client, Try(n), "broadcast", rest)
    BY <1>6 DEF TryHasFees
  <2>3. AskedNow(Try(n), "broadcast", rest)
    BY <1>1, <2>1, <2>2, GoesOnAsked
  <2>4. ~ Sent(chain, inbox, n)
    BY <1>2, <2>1, <2>2 DEF Sending, SendingOf
  <2> DEFINE hp == HopedOf(pendingRequests, rest)
  <2>5. hp \subseteq Hoped /\ AskedOf(pendingRequests, rest) \subseteq Asked /\ hp \subseteq AskedOf(pendingRequests, rest)
    <3>1. hp \subseteq AskedOf(pendingRequests, rest)
      BY DEF HopedOf, AskedOf, Answers, Replies
    <3> QED
      BY <1>2, <3>1 DEF Fewer, Hoped, Asked
  <2>6. \A p \in hp : p.method \in {"balances", "fees"} => p.owner.n # n
    <3> SUFFICES ASSUME NEW p \in hp, p.method \in {"balances", "fees"}, p.owner.n = n PROVE FALSE
      OBVIOUS
    <3>1. p \in Calls /\ FitsIn(p, tries, served, loaded, cancels) /\ p.owner # e.call.owner
      BY <1>2, <2>5, AskedFit DEF Done
    <3>2. p.owner.part = "try" /\ p.owner \in [part : {"try", "cancel", "feed"}, n : Nat]
      BY <3>1 DEF FitsIn, Calls
    <3> QED
      BY <2>1, <3>1, <3>2 DEF Try
  <2> HIDE DEF hp, rest
  <2>7. PICK q \in Calls : /\ q.owner = Try(n) /\ q.method = "broadcast"
                           /\ NowAsked(pendingRequests, rest, q, pendingRequests', events')
                           /\ inbox' = inbox \/ inbox' = inbox \union {q}
    BY <2>3 DEF AskedNow
  <2>8. Hoped' \subseteq hp \union {q} /\ inbox' \subseteq inbox \union {q}
    BY <2>7 DEF NowAsked, Hoped, hp
  <2>9. SendingOf(chain, inbox, hp)
    BY <2>5, SendingLess DEF Sending
  <2>10. q.owner.n = n
    BY <2>1, <2>7
  <2>11. SendingOf(chain, inbox', Hoped')
    BY <2>4, <2>6, <2>7, <2>8, <2>9, <2>10, SendingBroadcast
  <2> QED
    BY <1>1, <2>2, <2>11 DEF Sending
<1> QED
  BY <1>1, <1>3, <1>4, <1>5, <1>6 DEF CancelAnswered, FeedAnswered

(* An arrival sends nothing.                                                *)
LEMMA SendingArrives ==
    ASSUME Base, Once, Sending, ClientArrives
    PROVE  Sending'
<1> DEFINE rest == Tail(events)
           c == Head(events).conn
<1>1. /\ events # <<>> /\ Head(events).kind = "client" /\ chain' = chain
      /\ \/ Submit(popup.kind, Presses, Prepared(popup.kind), pending, c, rest)
         \/ events' = rest /\ Still /\ tries' = tries
  BY DEF ClientArrives, Still, SubmitNothing
<1>2. rest \in Seq(Event) /\ c \in Conns
  BY <1>1, ArrivalFacts
<1>3. OnceOf(pendingRequests, rest) /\ Fewer(pendingRequests, events, pendingRequests, rest)
  BY <1>1, TailAsked DEF Once, Base, BridgeTypes
<1>4. popup.kind \in {"cast", "revoke"} /\ Presses \in Nat /\ Prepared(popup.kind) \in Decisions
  BY PressesAreNat, PreparedFacts DEF Base, AppTypes
<1> HIDE DEF c
<1>5. ASSUME Submit(popup.kind, Presses, Prepared(popup.kind), pending, c, rest) PROVE Sending'
  <2> HIDE DEF rest
  <2> QED
    BY <1>1, <1>2, <1>3, <1>4, <1>5, SendingSubmit
<1>6. ASSUME events' = rest, Still, tries' = tries PROVE Sending'
  BY <1>1, <1>6, QuietAsked, KeepsSame, SendingFewer
<1> QED
  BY <1>1, <1>5, <1>6

(* A press sends nothing.                                                   *)
LEMMA SendingPress ==
    ASSUME Base, Once, Sending, NEW kind \in {"cast", "revoke"}, Press(kind)
    PROVE  Sending'
<1>1. /\ backend = "up" => Submit(kind, Presses + 1, Prepared(kind), pending, client, events)
      /\ backend # "up" => UNCHANGED <<pendingRequests, events, inbox, tries>>
      /\ client \in Conns /\ chain' = chain
  BY BridgeAssumption DEF Press, SubmitNothing, Base, FitPopup, BridgeTypes, Conns
<1>2. events \in Seq(Event) /\ OnceOf(pendingRequests, events) /\ Fewer(pendingRequests, events, pendingRequests, events)
  BY DEF Base, BridgeTypes, Once, Fewer
<1>3. Presses + 1 \in Nat /\ Prepared(kind) \in Decisions
  BY PressesAreNat, PreparedFacts DEF Base
<1>4. CASE backend = "up"
  BY <1>1, <1>2, <1>3, <1>4, SendingSubmit
<1>5. CASE backend # "up"
  BY <1>1, <1>5, SameAsked, KeepsSame, SendingFewer
<1> QED
  BY <1>4, <1>5

(* No step lets a try send twice.                                           *)
LEMMA StepSending ==
    ASSUME Base, Once, Sending, [Next]_vars
    PROVE  Sending'
<1>1. CASE ShowContest \/ PressCancel
  <2>1. AskedNow(Feed, "decision", events) \/ AskedNow(Cancel(cancels + 1), "decision", events)
    BY <1>1, ShowAsked, PressCancelAsked
  <2>2. tries' = tries /\ chain' = chain
    BY <1>1 DEF ShowContest, PressCancel
  <2>3. HopedOf(pendingRequests, events) \subseteq Hoped
    BY DEF Hoped
  <2> QED
    BY <2>1, <2>2, <2>3, KeepsSame, SendingAsks
<1>2. CASE Receive \/ WalletConnects
  <2>1. StillFewer /\ inbox' = inbox
    BY <1>2, ReceiveAsked, OpensAsked
  <2>2. tries' = tries /\ chain' = chain
    BY <1>2 DEF Receive, WalletConnects, appVars
  <2> QED
    BY <2>1, <2>2, KeepsSame, SendingFewer
<1>3. CASE WalletLost
  <2>1. StillFewer
    BY <1>3, LostAsked
  <2>2. inbox' \subseteq inbox /\ chain' = chain /\ Alike(tries, tries')
    BY <1>3, LostFacts
  <2> QED
    BY <2>1, <2>2, KeepsSame, SendingFewer
<1>4. ASSUME NEW q \in inbox, NEW ok \in BOOLEAN, WalletAnswers(q, ok) PROVE Sending'
  BY <1>4, SendingAnswered
<1>5. CASE \/ \E o \in Opinions : Choose(o)
           \/ QueuedLost \/ BackendLost \/ \E up \in BOOLEAN : BackendSettles(up)
           \/ UNCHANGED vars
  <2>1. UNCHANGED <<pendingRequests, events, inbox, tries, chain>>
    BY <1>5 DEF Choose, QueuedLost, QueuedConnectionLost, BackendLost, BackendSettles,
                vars, bridgeVars, appVars
  <2> QED
    BY <2>1, SameAsked, KeepsSame, SendingFewer
<1> QED
  BY <1>1, <1>2, <1>3, <1>4, <1>5, SendingContinue, SendingArrives, SendingPress DEF Next

-----------------------------------------------------------------------------
(* Tries follow each other press by press, on new connections.              *)

(* The tries come press by press.                                           *)
Ordered(ts) ==
    /\ \A s, t \in DOMAIN ts : s <= t => ts[s].press <= ts[t].press
    /\ \A s, t \in DOMAIN ts : ts[s].press = ts[t].press => ts[s].kind = ts[t].kind
    /\ \A s \in DOMAIN ts : ts[s].press > 0

(* A try that was followed by another one of its press is over: its         *)
(* connection is not the chain client any more, nor that of a later one.    *)
Renewed(ts, cl, hp) ==
    \A s, t \in DOMAIN ts : s < t /\ ts[s].press = ts[t].press =>
        /\ ts[s].conn # cl
        /\ ts[s].conn = 0 \/ ts[s].conn # ts[t].conn
        /\ \A q \in hp : q.owner # Try(s)

Successive ==
    /\ Ordered(tries) /\ Renewed(tries, client, Hoped)
    /\ popup.open => tries # <<>>

(* Outcomes do not change the order of the tries,                           *)
LEMMA OrderedAlike ==
    ASSUME NEW ts, NEW us, Ordered(ts), DOMAIN us = DOMAIN ts,
           \A m \in DOMAIN ts : us[m].press = ts[m].press /\ us[m].kind = ts[m].kind
    PROVE  Ordered(us)
BY DEF Ordered

(* nor their connections.                                                   *)
LEMMA RenewedAlike ==
    ASSUME NEW ts, NEW us, NEW cl, NEW hp, Renewed(ts, cl, hp), Alike(ts, us), NEW hp2 \in SUBSET hp
    PROVE  Renewed(us, cl, hp2)
BY DEF Renewed, Alike

(* Every try has a press.                                                   *)
LEMMA PressesOfTries ==
    ASSUME NEW ts \in Seq(TryRecord)
    PROVE  \A m \in DOMAIN ts : ts[m].press \in Nat
<1>1. \A m \in DOMAIN ts : ts[m] \in TryRecord
  BY Members
<1> QED
  BY <1>1 DEF TryRecord

(* The popup shows the last try.                                            *)
LEMMA LastTry ==
    ASSUME Base, tries # <<>>
    PROVE  /\ Len(tries) \in DOMAIN tries /\ Presses = tries[Len(tries)].press
           /\ popup.kind = tries[Len(tries)].kind /\ popup.current = Len(tries)
           /\ Len(tries) \in Nat /\ DOMAIN tries = 1 .. Len(tries)
           /\ Last(tries) = tries[Len(tries)]
<1>1. tries \in Seq(TryRecord)
  BY DEF Base, AppTypes
<1>2. /\ Len(tries) \in DOMAIN tries /\ Len(tries) \in Nat /\ DOMAIN tries = 1 .. Len(tries)
      /\ Last(tries) = tries[Len(tries)]
  BY <1>1 DEF Last
<1> QED
  BY <1>2 DEF Presses, Base, FitPopup

(* A step that starts no try and asks for nothing.                          *)
LEMMA SuccessiveFewer ==
    ASSUME Successive, Hoped' \subseteq Hoped, client' = client,
           tries' = tries \/ Alike(tries, tries'), popup'.open => popup.open, Base, Base'
    PROVE  Successive'
<1>1. Alike(tries, tries')
  BY DEF Base, AppTypes, Alike
<1>2. Ordered(tries') /\ Renewed(tries', client, Hoped')
  BY <1>1, OrderedAlike, RenewedAlike DEF Successive, Alike
<1>3. tries # <<>> => tries' # <<>>
  <2>1. tries \in Seq(TryRecord) /\ tries' \in Seq(TryRecord) /\ Len(tries') = Len(tries)
    BY <1>1 DEF Base, AppTypes, Alike
  <2> QED
    BY <2>1
<1> QED
  BY <1>2, <1>3 DEF Successive

(* The new try of a press.                                                  *)
LEMMA SuccessiveSubmit ==
    ASSUME Base, Successive, NEW kind \in {"cast", "revoke"}, NEW press \in Nat, NEW p \in Decisions,
           NEW to, NEW rest, Submit(kind, press, p, pending, to, rest), client' = to,
           press > 0, \A m \in DOMAIN tries : tries[m].press <= press,
           \A m \in DOMAIN tries : tries[m].press = press => tries[m].kind = kind,
           NEW hp, NEW call, call.owner = Try(Len(tries) + 1), Hoped' \subseteq hp \union {call},
           Renewed(tries, to, hp),
           \A m \in DOMAIN tries : tries[m].press = press =>
               tries[m].conn # to /\ \A q \in hp : q.owner # Try(m)
    PROVE  Successive'
<1> DEFINE k == Len(tries) + 1
           us == tries'
<1>1. us = Append(tries, NewTry(kind, press, p, pending)) /\ tries \in Seq(TryRecord) /\ pending \in Decisions
  BY DEF Submit, Base, AppTypes
<1> HIDE DEF us
<1>2. /\ us \in Seq(TryRecord) /\ Len(tries) \in Nat /\ Len(us) = k
      /\ DOMAIN tries = 1 .. Len(tries) /\ DOMAIN us = 1 .. k
      /\ \A m \in DOMAIN tries : us[m] = tries[m]
      /\ us[k].press = press /\ us[k].kind = kind /\ us[k].conn = 0
  BY <1>1, NewTryFacts
<1>3. \A m \in DOMAIN us : (m \in DOMAIN tries /\ us[m] = tries[m] /\ m < k) \/ m = k
  BY <1>2
<1>4. \A m \in DOMAIN tries : tries[m].press \in Nat
  BY <1>1, PressesOfTries
<1>5. Ordered(us)
  <2>1. \A s, t \in DOMAIN us : s <= t => us[s].press <= us[t].press
    BY <1>2, <1>3, <1>4 DEF Successive, Ordered
  <2>2. \A s, t \in DOMAIN us : us[s].press = us[t].press => us[s].kind = us[t].kind
    BY <1>2, <1>3, <1>4 DEF Successive, Ordered
  <2>3. \A s \in DOMAIN us : us[s].press > 0
    BY <1>2, <1>3 DEF Successive, Ordered
  <2> QED
    BY <2>1, <2>2, <2>3 DEF Ordered
<1>6. Renewed(us, to, Hoped')
  <2> SUFFICES ASSUME NEW s \in DOMAIN us, NEW t \in DOMAIN us, s < t, us[s].press = us[t].press
               PROVE  /\ us[s].conn # to
                      /\ us[s].conn = 0 \/ us[s].conn # us[t].conn
                      /\ \A q \in Hoped' : q.owner # Try(s)
    BY DEF Renewed
  <2>1. s \in DOMAIN tries /\ us[s] = tries[s] /\ s # k /\ (t = k \/ (t \in DOMAIN tries /\ us[t] = tries[t]))
    BY <1>2, <1>3
  <2>2. /\ us[s].conn # to
        /\ us[s].conn = 0 \/ us[s].conn # us[t].conn
        /\ \A q \in hp : q.owner # Try(s)
    <3>1. CASE t = k
      BY <1>2, <2>1, <3>1
    <3>2. CASE t # k
      BY <2>1, <3>2 DEF Renewed
    <3> QED
      BY <3>1, <3>2
  <2>3. call.owner # Try(s)
    BY <2>1 DEF Try
  <2> QED
    BY <2>2, <2>3
<1>7. us # <<>>
  BY <1>2
<1> HIDE DEF k
<1> QED
  BY <1>5, <1>6, <1>7 DEF Successive, us

(* A press starts a try of its own.                                         *)
LEMMA SuccessivePress ==
    ASSUME Base, Once, Successive, NEW kind \in {"cast", "revoke"}, Press(kind)
    PROVE  Successive'
<1>1. /\ backend = "up" => Submit(kind, Presses + 1, Prepared(kind), pending, client, events)
      /\ backend # "up" => UNCHANGED <<pendingRequests, events, tries, popup>>
      /\ client' = client
  BY DEF Press, SubmitNothing
<1>2. Presses \in Nat /\ Prepared(kind) \in Decisions
  BY PressesAreNat, PreparedFacts DEF Base
<1>3. CASE backend = "up"
  <2>1. AskedNow(Try(Len(tries) + 1), "balances", events)
    BY <1>3, PressOnce
  <2>2. PICK q : q.owner = Try(Len(tries) + 1) /\ NowAsked(pendingRequests, events, q, pendingRequests', events')
    BY <2>1 DEF AskedNow
  <2>3. Hoped' \subseteq Hoped \union {q}
    BY <2>2 DEF NowAsked, Hoped
  <2>4. \A m \in DOMAIN tries : tries[m].press \in Nat /\ tries[m].press < Presses + 1
    <3> SUFFICES ASSUME NEW m \in DOMAIN tries PROVE tries[m].press \in Nat /\ tries[m].press < Presses + 1
      OBVIOUS
    <3>1. tries # <<>> /\ tries[m].press \in Nat
      BY PressesOfTries DEF Base, AppTypes
    <3>2. Len(tries) \in DOMAIN tries /\ m <= Len(tries) /\ Presses = tries[Len(tries)].press
      BY <3>1, LastTry
    <3> QED
      BY <1>2, <3>1, <3>2 DEF Successive, Ordered
  <2>5. Renewed(tries, client, Hoped)
    BY DEF Successive
  <2> DEFINE press == Presses + 1
  <2>6. /\ press \in Nat /\ press > 0
        /\ \A m \in DOMAIN tries : tries[m].press <= press /\ tries[m].press # press
    BY <1>2, <2>4
  <2>7. Submit(kind, press, Prepared(kind), pending, client, events)
    BY <1>1, <1>3
  <2> HIDE DEF press
  <2> QED
    BY <1>1, <1>2, <2>2, <2>3, <2>5, <2>6, <2>7, SuccessiveSubmit
<1>4. CASE backend # "up"
  <2>1. Hoped' = Hoped /\ tries' = tries /\ popup' = popup
    BY <1>1, <1>4 DEF Hoped
  <2> QED
    BY <1>1, <2>1 DEF Successive
<1> QED
  BY <1>3, <1>4

(* An arrival starts the next try of the press, on a connection no try has  *)
(* used.                                                                    *)
LEMMA SuccessiveArrives ==
    ASSUME Base, Once, Successive, ClientArrives
    PROVE  Successive'
<1> DEFINE rest == Tail(events)
           c == Head(events).conn
<1>1. /\ events # <<>> /\ Head(events).kind = "client" /\ client' = c
      /\ \/ popup.open /\ Submit(popup.kind, Presses, Prepared(popup.kind), pending, c, rest)
         \/ events' = rest /\ Still /\ tries' = tries /\ popup' = popup
  BY DEF ClientArrives, Still, SubmitNothing
<1>2. /\ rest \in Seq(Event) /\ c \in Conns
      /\ pendingRequests = {} /\ HopedOf(pendingRequests, rest) = {}
      /\ \A n \in DOMAIN tries : tries[n].conn # c
  BY <1>1, ArrivalFacts
<1>3. OnceOf(pendingRequests, rest) /\ Fewer(pendingRequests, events, pendingRequests, rest)
  BY <1>1, TailAsked DEF Once, Base, BridgeTypes
<1>4. popup.kind \in {"cast", "revoke"} /\ Presses \in Nat /\ Prepared(popup.kind) \in Decisions
  BY PressesAreNat, PreparedFacts DEF Base, AppTypes
<1> HIDE DEF c, rest
<1>5. Renewed(tries, c, {})
  BY <1>2 DEF Successive, Renewed
<1>6. ASSUME popup.open, Submit(popup.kind, Presses, Prepared(popup.kind), pending, c, rest) PROVE Successive'
  <2>1. AskedNow(Try(Len(tries) + 1), "balances", rest)
    BY <1>2, <1>3, <1>6, SubmitAsked
  <2>2. PICK q : q.owner = Try(Len(tries) + 1) /\ NowAsked(pendingRequests, rest, q, pendingRequests', events')
    BY <2>1 DEF AskedNow
  <2>3. Hoped' \subseteq {} \union {q}
    BY <1>2, <2>2 DEF NowAsked, Hoped
  <2>4. tries # <<>>
    BY <1>6 DEF Successive
  <2>5. /\ Len(tries) \in DOMAIN tries /\ Presses = tries[Len(tries)].press
        /\ popup.kind = tries[Len(tries)].kind
        /\ \A m \in DOMAIN tries : m <= Len(tries)
    BY <2>4, LastTry
  <2>6. /\ Presses > 0 /\ \A m \in DOMAIN tries : tries[m].press <= Presses
        /\ \A m \in DOMAIN tries : tries[m].press = Presses => tries[m].kind = popup.kind
    BY <2>5 DEF Successive, Ordered
  <2> DEFINE press == Presses
             kind == popup.kind
             p == Prepared(popup.kind)
  <2>7. /\ press \in Nat /\ kind \in {"cast", "revoke"} /\ p \in Decisions
        /\ press > 0 /\ \A m \in DOMAIN tries : tries[m].press <= press
        /\ \A m \in DOMAIN tries : tries[m].press = press => tries[m].kind = kind
        /\ Submit(kind, press, p, pending, c, rest)
    BY <1>4, <1>6, <2>6
  <2> HIDE DEF press, kind, p
  <2> QED
    BY <1>1, <1>2, <1>5, <2>2, <2>3, <2>7, SuccessiveSubmit
<1>7. ASSUME events' = rest, Still, tries' = tries, popup' = popup PROVE Successive'
  <2>1. Hoped' = {}
    BY <1>2, <1>7 DEF Hoped, Still
  <2> QED
    BY <1>1, <1>5, <1>7, <2>1 DEF Successive
<1> QED
  BY <1>1, <1>6, <1>7

(* A continuation asks over the line of now, which the earlier tries have   *)
(* lost.                                                                    *)
LEMMA SuccessiveContinue ==
    ASSUME Base, Once, Successive, Continue
    PROVE  Successive'
<1> DEFINE e == Head(events)
           rest == Tail(events)
<1>0. Base'
  BY ContinueBase
<1>1. /\ events # <<>> /\ e.kind = "reply" /\ client' = client
      /\ \/ \E n \in DOMAIN tries : \/ TryFails(n, e) \/ TryHasBalances(n, e)
                                    \/ TryHasFees(n, e) \/ TrySucceeds(n, e)
         \/ CancelAnswered(e) \/ FeedAnswered(e)
  BY ContinueCases
<1>2. /\ Fewer(pendingRequests, events, pendingRequests, rest)
      /\ e.ok => e.call \in Hoped
  BY <1>1, TailAsked DEF Once, Base, BridgeTypes, Hoped
<1>3. ASSUME Still, events' = rest, tries' = tries \/ Alike(tries, tries'), popup'.open => popup.open
      PROVE  Successive'
  <2>1. Hoped' \subseteq Hoped
    BY <1>2, <1>3 DEF Fewer, Hoped, Still
  <2> QED
    BY <1>0, <1>1, <1>3, <2>1, SuccessiveFewer
<1>4. ASSUME NEW n \in DOMAIN tries, TryFails(n, e) \/ TrySucceeds(n, e) PROVE Successive'
  <2>1. Still /\ events' = rest /\ (Report(n, "rejected") \/ Report(n, "resolved"))
    BY <1>4 DEF TryFails, TrySucceeds
  <2>2. Alike(tries, tries') /\ (popup'.open => popup.open)
    BY <2>1, ReportFacts DEF Base
  <2> QED
    BY <1>3, <2>1, <2>2
<1>5. ASSUME NEW n \in DOMAIN tries, e.ok, e.call.owner = Try(n), NEW method \in {"fees", "broadcast"},
             BeginCall(client, Try(n), method, rest)
      PROVE  /\ \A s, t \in DOMAIN tries : s < t /\ tries[s].press = tries[t].press => s # n
             /\ \A q \in Hoped' : q \in Hoped \/ q.owner = Try(n)
  <2>1. \A s, t \in DOMAIN tries : s < t /\ tries[s].press = tries[t].press => s # n
    BY <1>2, <1>5 DEF Successive, Renewed
  <2>2. AskedNow(Try(n), method, rest)
    BY <1>1, <1>5, GoesOnAsked
  <2>3. PICK q : q.owner = Try(n) /\ NowAsked(pendingRequests, rest, q, pendingRequests', events')
    BY <2>2 DEF AskedNow
  <2>4. Hoped' \subseteq Hoped \union {q}
    BY <1>2, <2>3 DEF NowAsked, Hoped, Fewer
  <2> QED
    BY <2>1, <2>3, <2>4
<1>6. ASSUME NEW n \in DOMAIN tries, TryHasBalances(n, e) PROVE Successive'
  <2>1. e.call.owner = Try(n)
    BY <1>6, OwnerOfTry
  <2>2. /\ tries' = [tries EXCEPT ![n].cast = Canonical(pending), ![n].conn = client]
        /\ e.ok /\ BeginCall(client, Try(n), "fees", rest) /\ popup' = popup
    BY <1>6 DEF TryHasBalances
  <2>3. /\ \A s, t \in DOMAIN tries : s < t /\ tries[s].press = tries[t].press => s # n
        /\ \A q \in Hoped' : q \in Hoped \/ q.owner = Try(n)
    BY <1>5, <2>1, <2>2
  <2> DEFINE us == tries'
             d == Canonical(pending)
  <2>4. CastIn(tries, us, n, d, client)
    <3>1. d \in Decisions /\ tries \in Seq(TryRecord) /\ client \in Nat
      BY DecisionFacts, BridgeAssumption DEF Base, AppTypes, BridgeTypes
    <3>2. us = [tries EXCEPT ![n].cast = d, ![n].conn = client]
      BY <2>2
    <3> HIDE DEF us, d
    <3> QED
      BY <3>1, <3>2, CastSet
  <2> HIDE DEF us, d
  <2>5. Ordered(us)
    BY <2>4, OrderedAlike DEF CastIn, Successive
  <2>6. Renewed(us, client, Hoped')
    <3> SUFFICES ASSUME NEW s \in DOMAIN us, NEW t \in DOMAIN us, s < t, us[s].press = us[t].press
                 PROVE  /\ us[s].conn # client
                        /\ us[s].conn = 0 \/ us[s].conn # us[t].conn
                        /\ \A q \in Hoped' : q.owner # Try(s)
      BY DEF Renewed
    <3>1. s \in DOMAIN tries /\ t \in DOMAIN tries /\ tries[s].press = tries[t].press
      BY <2>4 DEF CastIn
    <3>2. s # n
      BY <2>3, <3>1
    <3>3. us[s].conn = tries[s].conn /\ (us[t].conn = tries[t].conn \/ us[t].conn = client)
      BY <2>4, <3>1, <3>2 DEF CastIn
    <3>4. Try(s) # Try(n)
      BY <3>2 DEF Try
    <3>5. /\ tries[s].conn # client
          /\ tries[s].conn = 0 \/ tries[s].conn # tries[t].conn
          /\ \A q \in Hoped : q.owner # Try(s)
      BY <3>1 DEF Successive, Renewed
    <3> QED
      BY <2>3, <3>3, <3>4, <3>5
  <2>7. popup'.open => us # <<>>
    <3>1. Len(us) = Len(tries) /\ us \in Seq(TryRecord) /\ tries \in Seq(TryRecord)
      BY <2>4 DEF CastIn, Base, AppTypes
    <3>2. tries # <<>> => us # <<>>
      BY <3>1
    <3> QED
      BY <2>2, <3>2 DEF Successive
  <2> QED
    BY <1>1, <2>5, <2>6, <2>7 DEF Successive, us
<1>7. ASSUME NEW n \in DOMAIN tries, TryHasFees(n, e) PROVE Successive'
  <2>1. e.call.owner = Try(n)
    BY <1>7, OwnerOfTry
  <2>2. tries' = tries /\ e.ok /\ BeginCall(client, Try(n), "broadcast", rest) /\ popup' = popup
    BY <1>7 DEF TryHasFees
  <2>3. /\ \A s, t \in DOMAIN tries : s < t /\ tries[s].press = tries[t].press => s # n
        /\ \A q \in Hoped' : q \in Hoped \/ q.owner = Try(n)
    BY <1>5, <2>1, <2>2
  <2>4. Renewed(tries, client, Hoped')
    <3>1. \A s \in DOMAIN tries : Try(s) = Try(n) => s = n
      BY DEF Try
    <3> QED
      BY <2>3, <3>1 DEF Successive, Renewed
  <2> QED
    BY <1>1, <2>2, <2>4 DEF Successive
<1> QED
  BY <1>1, <1>3, <1>4, <1>6, <1>7 DEF CancelAnswered, FeedAnswered

(* Every step keeps the tries in order.                                     *)
LEMMA StepSuccessive ==
    ASSUME Base, Base', Once, Successive, [Next]_vars
    PROVE  Successive'
<1>1. CASE ShowContest \/ PressCancel
  <2>1. AskedNow(Feed, "decision", events) \/ AskedNow(Cancel(cancels + 1), "decision", events)
    BY <1>1, ShowAsked, PressCancelAsked
  <2>2. tries' = tries /\ client' = client /\ popup' = popup
    BY <1>1 DEF ShowContest, PressCancel
  <2>3. PICK q : q.owner \in {Feed, Cancel(cancels + 1)} /\ NowAsked(pendingRequests, events, q, pendingRequests', events')
    BY <2>1 DEF AskedNow
  <2>4. q.owner.part # "try"
    BY <2>3 DEF Feed, Cancel
  <2>5. Hoped' \subseteq Hoped \union {q}
    BY <2>3 DEF NowAsked, Hoped
  <2>6. Renewed(tries, client, Hoped')
    <3>1. \A s : Try(s).part = "try"
      BY DEF Try
    <3> HIDE DEF Try
    <3> QED
      BY <2>4, <2>5, <3>1 DEF Successive, Renewed
  <2> QED
    BY <2>2, <2>6 DEF Successive
<1>2. CASE Receive \/ WalletConnects
  <2>1. StillFewer
    BY <1>2, ReceiveAsked, OpensAsked
  <2>2. tries' = tries /\ popup' = popup /\ client' = client
    BY <1>2 DEF Receive, FinishCall, WalletConnects, WalletOpens, appVars
  <2> QED
    BY <2>1, <2>2, SuccessiveFewer DEF StillFewer, Fewer, Hoped
<1>3. CASE WalletLost
  BY <1>3, LostAsked, LostFacts, SuccessiveFewer DEF StillFewer, Fewer, Hoped
<1>4. CASE \/ \E o \in Opinions : Choose(o)
           \/ \E q \in inbox, ok \in BOOLEAN : WalletAnswers(q, ok)
           \/ QueuedLost \/ BackendLost \/ \E up \in BOOLEAN : BackendSettles(up)
           \/ UNCHANGED vars
  <2>1. UNCHANGED <<pendingRequests, events, tries, popup, client>>
    BY <1>4 DEF Choose, WalletAnswers, QueuedLost, QueuedConnectionLost, BackendLost, BackendSettles,
                vars, bridgeVars, appVars
  <2> QED
    BY <2>1 DEF Successive, Hoped
<1> QED
  BY <1>1, <1>2, <1>3, <1>4, SuccessiveContinue, SuccessiveArrives, SuccessivePress DEF Next

-----------------------------------------------------------------------------
(* Operations that do not overlap leave the popup's decision alone.         *)

(* While operations do not overlap: one call at most is under way, that of  *)
(* the popup's try if the popup is open and of no try if it is closed.      *)
Alone ==
    /\ popup.open => \A q \in Asked : q.owner = Try(popup.current)
    /\ ~ popup.open => \A q \in Asked : q.owner.part # "try"
    /\ \A p, q \in Asked : p.owner = q.owner

(* What the tries have asked to broadcast is what they noted to be official,*)
(* and for one press it is the same.                                        *)
Noted(ts) ==
    /\ \A n \in DOMAIN ts : ts[n].conn # 0 =>
          /\ ts[n].cast = ts[n].snapshot
          /\ ts[n].kind = "revoke" => ts[n].cast.opinions = NoOpinion
    /\ \A s, t \in DOMAIN ts : ts[s].press = ts[t].press /\ ts[s].conn # 0 /\ ts[t].conn # 0 =>
          ts[s].cast.opinions = ts[t].cast.opinions

(* The tries of the newest press have asked for the opinions of p.          *)
Stated(ts, p) ==
    \A n \in DOMAIN ts : ts[n].press = ts[Len(ts)].press /\ ts[n].conn # 0 =>
        ts[n].cast.opinions = Canonical(p).opinions

Unchanging ==
    /\ popup.open /\ popup.kind = "cast" => Stated(tries, pending)
    /\ popup.open /\ popup.kind = "revoke" /\ Asked # {} => pending.opinions = NoOpinion
    /\ \A q \in Hoped : q.method = "balances" => Canonical(pending) = tries[q.owner.n].snapshot

Calm == disturbed \/ (Alone /\ Noted(tries) /\ Unchanging)

(* Outcomes do not change what the tries noted,                             *)
LEMMA NotedAlike ==
    ASSUME NEW ts, NEW us, Alike(ts, us), Noted(ts)
    PROVE  Noted(us)
BY DEF Noted, Alike

(* nor what they asked for.                                                 *)
LEMMA StatedAlike ==
    ASSUME NEW ts, NEW us, Alike(ts, us), NEW p, Stated(ts, p), NEW p2, Canonical(p2).opinions = Canonical(p).opinions,
           Len(ts) \in DOMAIN ts \/ DOMAIN ts = {}
    PROVE  Stated(us, p2)
BY DEF Stated, Alike

(* The last try, if there is one.                                           *)
LEMMA LastInDomain ==
    ASSUME NEW S, NEW ts \in Seq(S)
    PROVE  Len(ts) \in DOMAIN ts \/ DOMAIN ts = {}
OBVIOUS

(* No operation of the user's, and none goes on.                            *)
LEMMA CalmFewer ==
    ASSUME Base, Calm, StillFewer, UNCHANGED <<popup, pending, disturbed>>,
           tries' = tries \/ Alike(tries, tries')
    PROVE  Calm'
<1>1. Alike(tries, tries') /\ (Len(tries) \in DOMAIN tries \/ DOMAIN tries = {})
  BY LastInDomain DEF Base, AppTypes, Alike
<1>2. Asked' \subseteq Asked /\ Hoped' \subseteq Hoped
  BY DEF StillFewer, Fewer, Asked, Hoped
<1> SUFFICES ASSUME ~ disturbed PROVE Alone' /\ Noted(tries') /\ Unchanging'
  BY DEF Calm
<1>3. Alone /\ Noted(tries) /\ Unchanging
  BY DEF Calm
<1>4. Alone'
  BY <1>2, <1>3 DEF Alone
<1>5. Noted(tries')
  BY <1>1, <1>3, NotedAlike
<1>6. Stated(tries, pending) => Stated(tries', pending)
  BY <1>1, StatedAlike
<1>7. \A q \in Hoped' : q.method = "balances" => Canonical(pending) = tries'[q.owner.n].snapshot
  <2> SUFFICES ASSUME NEW q \in Hoped', q.method = "balances"
               PROVE  Canonical(pending) = tries'[q.owner.n].snapshot
    OBVIOUS
  <2>1. q \in Hoped /\ q \in Asked
    BY <1>2, AskedFit
  <2>2. q.owner.n \in DOMAIN tries
    BY <2>1, AskedFit DEF FitsIn
  <2> QED
    BY <1>1, <1>3, <2>1, <2>2 DEF Alike, Unchanging
<1>8. Unchanging'
  BY <1>2, <1>3, <1>6, <1>7 DEF Unchanging
<1> QED
  BY <1>4, <1>5, <1>8

(* A call that is the only one.                                             *)
LEMMA FreshCall ==
    ASSUME NEW owner, NEW method, NEW rest, AskedNow(owner, method, rest),
           AskedOf(pendingRequests, rest) = {}
    PROVE  \E q \in Calls : /\ q.owner = owner /\ q.method = method
                            /\ Asked' = {q} /\ Hoped' \subseteq {q}
<1>1. HopedOf(pendingRequests, rest) \subseteq AskedOf(pendingRequests, rest)
  BY DEF HopedOf, AskedOf, Answers, Replies
<1> QED
  BY <1>1 DEF AskedNow, NowAsked, Asked, Hoped

(* Nobody busy, nothing asked for.                                          *)
LEMMA NobodyBusy ==
    ASSUME Busy = {}
    PROVE  Asked = {} /\ AskedOf(pendingRequests, events) = {}
BY OwnersBusy DEF Asked

(* The feed's or the Cancel button's call.                                  *)
LEMMA CalmLook ==
    ASSUME Base, Once, Calm, ShowContest \/ PressCancel
    PROVE  Calm'
<1> SUFFICES ASSUME ~ disturbed' PROVE Alone' /\ Noted(tries') /\ Unchanging'
  BY DEF Calm
<1>1. /\ Busy = {} /\ ~ disturbed /\ ~ popup.open
      /\ popup' = popup /\ tries' = tries
  BY DEF ShowContest, PressCancel, Base, FitPopup
<1>2. AskedNow(Feed, "decision", events) \/ AskedNow(Cancel(cancels + 1), "decision", events)
  BY ShowAsked, PressCancelAsked
<1>3. Feed.part # "try" /\ Cancel(cancels + 1).part # "try"
  BY DEF Feed, Cancel
<1>4. AskedOf(pendingRequests, events) = {}
  BY <1>1, NobodyBusy
<1>5. PICK q \in Calls : /\ q.owner.part # "try" /\ q.method = "decision"
                         /\ Asked' = {q} /\ Hoped' \subseteq {q}
  BY <1>2, <1>3, <1>4, FreshCall
<1> QED
  BY <1>1, <1>5 DEF Calm, Alone, Unchanging

(* A new try.                                                               *)
LEMMA CalmSubmit ==
    ASSUME Base, Calm, ~ disturbed, NEW kind \in {"cast", "revoke"}, NEW press \in Nat, NEW p \in Decisions, NEW to,
           NEW rest, Submit(kind, press, p, pending, to, rest),
           AskedNow(Try(Len(tries) + 1), "balances", rest), AskedOf(pendingRequests, rest) = {},
           kind = "revoke" => p.opinions = NoOpinion,
           kind = "cast" => \A n \in DOMAIN tries : tries[n].press = press /\ tries[n].conn # 0 =>
                                tries[n].cast.opinions = Canonical(p).opinions
    PROVE  Calm'
<1> DEFINE k == Len(tries) + 1
           us == tries'
<1>1. /\ us = Append(tries, NewTry(kind, press, p, pending)) /\ tries \in Seq(TryRecord) /\ pending \in Decisions
      /\ popup' = [open |-> TRUE, kind |-> kind, current |-> k] /\ pending' = p
  BY DEF Submit, Base, AppTypes
<1>2. PICK q \in Calls : /\ q.owner = Try(k) /\ q.method = "balances"
                         /\ Asked' = {q} /\ Hoped' \subseteq {q}
  BY FreshCall
<1> HIDE DEF us
<1>3. /\ Len(tries) \in Nat /\ Len(us) = k
      /\ DOMAIN tries = 1 .. Len(tries) /\ DOMAIN us = 1 .. k
      /\ \A m \in DOMAIN tries : us[m] = tries[m]
      /\ us[k].press = press /\ us[k].kind = kind /\ us[k].conn = 0 /\ us[k].snapshot = Canonical(p)
  BY <1>1, NewTryFacts
<1>4. \A m \in DOMAIN us : (m \in DOMAIN tries /\ us[m] = tries[m]) \/ (m = k /\ us[m].conn = 0)
  BY <1>3
<1>5. q.owner.n = k
  BY <1>2 DEF Try
<1> HIDE DEF k
<1>6. popup'.open /\ popup'.kind = kind /\ popup'.current = k
  BY <1>1
<1>7. Alone'
  BY <1>2, <1>6 DEF Alone
<1>8. Noted(us)
  BY <1>4 DEF Calm, Noted
<1>9. kind = "cast" => Stated(us, p)
  BY <1>3, <1>4 DEF Stated
<1>10. Unchanging'
  BY <1>1, <1>2, <1>3, <1>5, <1>6, <1>9 DEF Unchanging, us
<1> QED
  BY <1>7, <1>8, <1>10 DEF Calm, us

(* A press, when nothing else is under way.                                 *)
LEMMA CalmPress ==
    ASSUME Base, Once, Successive, Calm, NEW kind \in {"cast", "revoke"}, Press(kind)
    PROVE  Calm'
<1>1. /\ backend = "up" => /\ Submit(kind, Presses + 1, Prepared(kind), pending, client, events)
                           /\ disturbed' = (disturbed \/ Busy # {})
      /\ backend # "up" => UNCHANGED <<pendingRequests, events, tries, popup, disturbed>>
      /\ ~ popup.open
  BY DEF Press, SubmitNothing, Submit
<1>2. Presses \in Nat /\ Prepared(kind) \in Decisions /\ (kind = "revoke" => Prepared(kind).opinions = NoOpinion)
  BY PressesAreNat, PreparedFacts DEF Base
<1>3. ASSUME backend = "up", ~ disturbed' PROVE Calm'
  <2>1. AskedNow(Try(Len(tries) + 1), "balances", events)
    BY <1>3, PressOnce
  <2>2. ~ disturbed /\ AskedOf(pendingRequests, events) = {}
    BY <1>1, <1>3, NobodyBusy
  <2>3. \A n \in DOMAIN tries : tries[n].press # Presses + 1
    <3> SUFFICES ASSUME NEW n \in DOMAIN tries PROVE tries[n].press # Presses + 1
      OBVIOUS
    <3>1. tries # <<>> /\ tries[n].press \in Nat
      BY PressesOfTries DEF Base, AppTypes
    <3>2. Len(tries) \in DOMAIN tries /\ n <= Len(tries) /\ Presses = tries[Len(tries)].press
      BY <3>1, LastTry
    <3> QED
      BY <1>2, <3>1, <3>2 DEF Successive, Ordered
  <2> DEFINE press == Presses + 1
             p == Prepared(kind)
  <2>4. /\ press \in Nat /\ p \in Decisions /\ (kind = "revoke" => p.opinions = NoOpinion)
        /\ \A n \in DOMAIN tries : tries[n].press # press
        /\ Submit(kind, press, p, pending, client, events)
    BY <1>1, <1>2, <1>3, <2>3
  <2> HIDE DEF press, p
  <2> QED
    BY <2>1, <2>2, <2>4, CalmSubmit
<1>4. ASSUME backend # "up", ~ disturbed' PROVE Calm'
  <2>1. Asked' = Asked /\ Hoped' = Hoped
    BY <1>1, <1>4 DEF Asked, Hoped
  <2>2. \A q \in Hoped : q.method # "balances"
    <3> SUFFICES ASSUME NEW q \in Hoped, q.method = "balances" PROVE FALSE
      OBVIOUS
    <3>1. q \in Asked /\ q.owner.part = "try"
      BY AskedFit DEF FitsIn
    <3> QED
      BY <1>1, <1>4, <3>1 DEF Calm, Alone
  <2> QED
    BY <1>1, <1>4, <2>1, <2>2 DEF Calm, Alone, Unchanging
<1> QED
  BY <1>3, <1>4 DEF Calm

(* An arrival, when the last try is over.                                   *)
LEMMA CalmArrives ==
    ASSUME Base, Once, Successive, Calm, ClientArrives
    PROVE  Calm'
<1> DEFINE rest == Tail(events)
           c == Head(events).conn
<1> SUFFICES ASSUME ~ disturbed' PROVE Calm'
  BY DEF Calm
<1>1. /\ events # <<>> /\ Head(events).kind = "client"
      /\ \/ /\ popup.open /\ Busy = {}
            /\ Submit(popup.kind, Presses, Prepared(popup.kind), pending, c, rest)
         \/ events' = rest /\ Still /\ UNCHANGED <<tries, popup, pending, disturbed>>
  BY DEF ClientArrives, Still, SubmitNothing, Submit
<1>2. rest \in Seq(Event) /\ c \in Conns
  BY <1>1, ArrivalFacts
<1>3. OnceOf(pendingRequests, rest) /\ Fewer(pendingRequests, events, pendingRequests, rest)
  BY <1>1, TailAsked DEF Once, Base, BridgeTypes
<1>4. popup.kind \in {"cast", "revoke"} /\ Presses \in Nat /\ Prepared(popup.kind) \in Decisions
      /\ Prepared(popup.kind).opinions = IF popup.kind = "revoke" THEN NoOpinion ELSE pending.opinions
  BY PressesAreNat, PreparedFacts DEF Base, AppTypes
<1> HIDE DEF c, rest
<1>5. ASSUME popup.open, Busy = {}, Submit(popup.kind, Presses, Prepared(popup.kind), pending, c, rest) PROVE Calm'
  <2>1. AskedNow(Try(Len(tries) + 1), "balances", rest)
    BY <1>2, <1>3, <1>5, SubmitAsked
  <2>2. AskedOf(pendingRequests, rest) = {}
    BY <1>3, <1>5, NobodyBusy DEF Fewer
  <2>3. ~ disturbed
    BY <1>5 DEF Submit
  <2>4. tries # <<>>
    BY <1>5 DEF Successive
  <2>5. Presses = tries[Len(tries)].press
    BY <2>4, LastTry
  <2> DEFINE press == Presses
             kind == popup.kind
             p == Prepared(popup.kind)
  <2>6. kind = "cast" => p = pending
    BY DEF Prepared
  <2>7. /\ press \in Nat /\ kind \in {"cast", "revoke"} /\ p \in Decisions
        /\ kind = "revoke" => p.opinions = NoOpinion
        /\ press = tries[Len(tries)].press
        /\ Submit(kind, press, p, pending, c, rest)
        /\ kind = "cast" => Stated(tries, pending)
    BY <1>4, <1>5, <2>3, <2>5 DEF Calm, Unchanging
  <2> HIDE DEF press, kind, p
  <2>8. kind = "cast" => \A n \in DOMAIN tries : tries[n].press = press /\ tries[n].conn # 0 =>
                              tries[n].cast.opinions = Canonical(p).opinions
    BY <2>6, <2>7 DEF Stated
  <2> QED
    BY <2>1, <2>2, <2>3, <2>7, <2>8, CalmSubmit
<1>6. ASSUME events' = rest, Still, UNCHANGED <<tries, popup, pending, disturbed>> PROVE Calm'
  <2>1. StillFewer
    BY <1>1, <1>6, QuietAsked DEF rest
  <2> QED
    BY <1>6, <2>1, CalmFewer
<1> QED
  BY <1>1, <1>5, <1>6

(* The only call under way is the one that goes on.                         *)
LEMMA OnlyOne ==
    ASSUME Base, Once, Alone, events # <<>>, Head(events).kind = "reply"
    PROVE  AskedOf(pendingRequests, Tail(events)) = {} /\ Head(events).call \in Asked
<1>1. Done(pendingRequests, events, Head(events).call)
      /\ AskedOf(pendingRequests, Tail(events)) \subseteq Asked
  BY TailAsked DEF Once, Base, BridgeTypes, Fewer, Asked
<1> QED
  BY <1>1 DEF Done, Alone, Asked

(* A continuation that makes no call leaves no call under way.              *)
LEMMA CalmEnds ==
    ASSUME Base, Once, Alone, Noted(tries), events # <<>>, Head(events).kind = "reply",
           Still, events' = Tail(events), Alike(tries, tries'),
           popup'.open => popup.open, popup'.kind = popup.kind,
           popup'.open /\ popup.kind = "cast" => Stated(tries', pending')
    PROVE  Calm' /\ Asked' = {}
<1>1. Asked' = {}
  BY OnlyOne DEF Asked, Still
<1>2. Hoped' = {}
  BY <1>1 DEF Asked, Hoped, AskedOf, HopedOf, Answers, Replies
<1>3. Noted(tries')
  BY NotedAlike
<1> QED
  BY <1>1, <1>2, <1>3 DEF Calm, Alone, Unchanging

(* The try that goes on is the popup's.                                     *)
LEMMA PopupsTry ==
    ASSUME Base, Alone, NEW n \in DOMAIN tries, NEW call \in Asked, call.owner = Try(n)
    PROVE  popup.open /\ n = popup.current /\ n = Len(tries) /\ popup.kind = tries[n].kind
<1>1. call.owner.part = "try"
  BY DEF Try
<1>2. popup.open /\ Try(n) = Try(popup.current)
  BY <1>1 DEF Alone
<1>3. n = popup.current
  BY <1>2 DEF Try
<1>4. tries # <<>>
  <2>1. tries \in Seq(TryRecord)
    BY DEF Base, AppTypes
  <2> QED
    BY <2>1
<1> QED
  BY <1>2, <1>3, <1>4, LastTry

(* A try ends: it is the popup's, the last one, and leaves no call under    *)
(* way.                                                                     *)
LEMMA CalmTryEnds ==
    ASSUME Base, Once, Calm, ~ disturbed, Continue, NEW n \in DOMAIN tries, NEW e, e = Head(events),
           TryFails(n, e) \/ TrySucceeds(n, e)
    PROVE  Calm' /\ Asked' = {} /\ popup.open /\ n = Len(tries) /\ popup.kind = tries[n].kind
<1>1. events # <<>> /\ e.kind = "reply"
  BY ContinueCases
<1>2. Alone /\ Noted(tries) /\ Unchanging
  BY DEF Calm
<1>3. e.call.owner = Try(n) /\ e.call \in Asked
  BY <1>1, <1>2, OwnerOfTry, OnlyOne
<1>4. popup.open /\ n = Len(tries) /\ popup.kind = tries[n].kind
  BY <1>2, <1>3, PopupsTry
<1>5. Still /\ events' = Tail(events) /\ (Report(n, "rejected") \/ Report(n, "resolved"))
      /\ (tries[n].kind = "cast" => pending' = pending)
  BY DEF TryFails, TrySucceeds
<1>6. Alike(tries, tries') /\ (popup'.open => popup.open) /\ popup'.kind = popup.kind
  BY <1>5, ReportFacts DEF Base
<1>7. popup'.open /\ popup.kind = "cast" => Stated(tries', pending')
  <2>1. Len(tries) \in DOMAIN tries
    BY <1>4
  <2>2. popup.kind = "cast" => pending' = pending /\ Stated(tries, pending)
    BY <1>2, <1>4, <1>5 DEF Unchanging
  <2> QED
    BY <1>6, <2>1, <2>2, StatedAlike
<1> QED
  BY <1>1, <1>2, <1>4, <1>5, <1>6, <1>7, CalmEnds

(* A try notes what it casts: the pending decision has not changed since the*)
(* press.                                                                   *)
LEMMA CalmBalances ==
    ASSUME Base, Once, Successive, Calm, ~ disturbed, Continue, NEW n \in DOMAIN tries, NEW e, e = Head(events),
           TryHasBalances(n, e)
    PROVE  Calm'
<1>1. events # <<>> /\ e.kind = "reply"
  BY ContinueCases
<1>2. Alone /\ Noted(tries) /\ Unchanging
  BY DEF Calm
<1>3. e.call.owner = Try(n) /\ e.call \in Asked /\ AskedOf(pendingRequests, Tail(events)) = {}
  BY <1>1, <1>2, OwnerOfTry, OnlyOne
<1>4. popup.open /\ n = popup.current /\ n = Len(tries) /\ popup.kind = tries[n].kind
  BY <1>2, <1>3, PopupsTry
<1>5. /\ tries' = [tries EXCEPT ![n].cast = Canonical(pending), ![n].conn = client]
      /\ pending' = Serialized(pending) /\ popup' = popup
      /\ e.ok /\ e.call.method = "balances" /\ BeginCall(client, Try(n), "fees", Tail(events))
  BY DEF TryHasBalances
<1>6. AskedNow(Try(n), "fees", Tail(events))
  BY <1>1, <1>3, <1>5, GoesOnAsked
<1>7. PICK q \in Calls : /\ q.owner = Try(n) /\ q.method = "fees"
                         /\ Asked' = {q} /\ Hoped' \subseteq {q}
  BY <1>3, <1>6, FreshCall
<1>8. e.call \in Hoped
  BY <1>1, <1>5, TailAsked DEF Once, Base, BridgeTypes, Hoped
<1>9. Canonical(pending) = tries[n].snapshot
  <2>1. e.call.owner.n = n
    BY <1>3 DEF Try
  <2> QED
    BY <1>2, <1>5, <1>8, <2>1 DEF Unchanging
<1> DEFINE us == tries'
           d == Canonical(pending)
<1>10. /\ d \in Decisions /\ d.opinions = IF pending.opinions = Zero THEN NoOpinion ELSE pending.opinions
       /\ pending'.opinions = pending.opinions /\ pending' \in Decisions
  BY <1>5, DecisionFacts DEF Base, AppTypes
<1>11. Canonical(pending').opinions = d.opinions
  BY <1>10, DecisionFacts
<1>12. CastIn(tries, us, n, d, client)
  <2>1. tries \in Seq(TryRecord) /\ client \in Nat /\ us = [tries EXCEPT ![n].cast = d, ![n].conn = client]
    BY <1>5, BridgeAssumption DEF Base, AppTypes, BridgeTypes
  <2> HIDE DEF us, d
  <2> QED
    BY <1>10, <2>1, CastSet
<1>13. d = tries[n].snapshot
  BY <1>9
<1> HIDE DEF us, d
<1>14. \A m \in DOMAIN tries : m # n => us[m].cast = tries[m].cast /\ us[m].conn = tries[m].conn
  BY <1>12 DEF CastIn
<1>15. popup.kind = "cast" => \A m \in DOMAIN us : us[m].press = us[n].press /\ us[m].conn # 0 => us[m].cast.opinions = d.opinions
  <2> SUFFICES ASSUME popup.kind = "cast", NEW m \in DOMAIN us, us[m].press = us[n].press, us[m].conn # 0
               PROVE  us[m].cast.opinions = d.opinions
    OBVIOUS
  <2>1. m \in DOMAIN tries /\ tries[m].press = tries[n].press
    BY <1>12 DEF CastIn
  <2>2. Stated(tries, pending)
    BY <1>2, <1>4 DEF Unchanging
  <2>3. m # n => tries[m].cast.opinions = d.opinions
    BY <1>4, <1>14, <2>1, <2>2 DEF Stated, d
  <2> QED
    BY <1>12, <1>14, <2>1, <2>3 DEF CastIn
<1>16. popup.kind = "revoke" => d.opinions = NoOpinion
  BY <1>2, <1>3, <1>4, <1>10 DEF Unchanging
<1>17. Noted(us)
  <2>1. \A m \in DOMAIN us : us[m].conn # 0 =>
          /\ us[m].cast = us[m].snapshot
          /\ us[m].kind = "revoke" => us[m].cast.opinions = NoOpinion
    <3> SUFFICES ASSUME NEW m \in DOMAIN us, us[m].conn # 0
                 PROVE  us[m].cast = us[m].snapshot /\ (us[m].kind = "revoke" => us[m].cast.opinions = NoOpinion)
      OBVIOUS
    <3>1. CASE m = n
      BY <1>4, <1>12, <1>13, <1>16, <3>1 DEF CastIn
    <3>2. CASE m # n
      BY <1>2, <1>12, <3>2 DEF CastIn, Noted
    <3> QED
      BY <3>1, <3>2
  <2>2. \A t \in DOMAIN us : us[t].press = us[n].press /\ us[t].conn # 0 => us[t].cast.opinions = d.opinions
    <3> SUFFICES ASSUME NEW t \in DOMAIN us, us[t].press = us[n].press, us[t].conn # 0
                 PROVE  us[t].cast.opinions = d.opinions
      OBVIOUS
    <3>1. tries[n].kind = "cast" \/ tries[n].kind = "revoke"
      <4>1. tries[n] \in TryRecord
        BY Members DEF Base, AppTypes
      <4> QED
        BY <4>1 DEF TryRecord
    <3>2. us[t].kind = tries[n].kind
      BY <1>12 DEF CastIn, Successive, Ordered
    <3> QED
      BY <1>4, <1>15, <1>16, <2>1, <3>1, <3>2
  <2>3. \A s, t \in DOMAIN us : us[s].press = us[t].press /\ us[s].conn # 0 /\ us[t].conn # 0 =>
          us[s].cast.opinions = us[t].cast.opinions
    <3> SUFFICES ASSUME NEW s \in DOMAIN us, NEW t \in DOMAIN us, us[s].press = us[t].press,
                        us[s].conn # 0, us[t].conn # 0
                 PROVE  us[s].cast.opinions = us[t].cast.opinions
      OBVIOUS
    <3>1. CASE us[s].press = us[n].press
      BY <2>2, <3>1
    <3>2. CASE us[s].press # us[n].press
      <4>1. s # n /\ t # n
        BY <3>2
      <4> QED
        BY <1>2, <1>12, <4>1 DEF CastIn, Noted
    <3> QED
      BY <3>1, <3>2
  <2> QED
    BY <2>1, <2>3 DEF Noted
<1>18. popup.kind = "cast" => Stated(us, pending')
  <2>1. Len(us) = n
    BY <1>4, <1>12 DEF CastIn
  <2> QED
    BY <1>11, <1>15, <2>1 DEF Stated
<1>19. Unchanging'
  <2>1. popup.kind = "revoke" => pending'.opinions = NoOpinion
    BY <1>2, <1>3, <1>4, <1>10 DEF Unchanging
  <2> QED
    BY <1>5, <1>7, <1>18, <2>1 DEF Unchanging, us
<1>20. Alone'
  BY <1>4, <1>5, <1>7 DEF Alone
<1> QED
  BY <1>17, <1>19, <1>20 DEF Calm, us

(* A continuation of the only operation.                                    *)
LEMMA CalmContinue ==
    ASSUME Base, Once, Successive, Calm, Continue
    PROVE  Calm'
<1> DEFINE e == Head(events)
<1>1. /\ events # <<>> /\ e.kind = "reply" /\ disturbed' = disturbed
      /\ \/ \E n \in DOMAIN tries : \/ TryFails(n, e) \/ TryHasBalances(n, e)
                                    \/ TryHasFees(n, e) \/ TrySucceeds(n, e)
         \/ CancelAnswered(e) \/ FeedAnswered(e)
  BY ContinueCases
<1> SUFFICES ASSUME ~ disturbed PROVE Calm'
  BY <1>1 DEF Calm
<1>2. Alone /\ Noted(tries) /\ Unchanging
  BY DEF Calm
<1>3. AskedOf(pendingRequests, Tail(events)) = {} /\ e.call \in Asked
  BY <1>1, <1>2, OnlyOne
<1>4. ASSUME NEW n \in DOMAIN tries, TryHasFees(n, e) PROVE Calm'
  <2>1. e.call.owner = Try(n)
    BY <1>4, OwnerOfTry
  <2>2. popup.open /\ n = popup.current
    BY <1>2, <1>3, <2>1, PopupsTry
  <2>3. /\ UNCHANGED <<pending, tries, popup>> /\ e.ok
        /\ BeginCall(client, Try(n), "broadcast", Tail(events))
    BY <1>4 DEF TryHasFees
  <2>4. AskedNow(Try(n), "broadcast", Tail(events))
    BY <1>1, <2>1, <2>3, GoesOnAsked
  <2>5. PICK q \in Calls : /\ q.owner = Try(n) /\ q.method = "broadcast"
                           /\ Asked' = {q} /\ Hoped' \subseteq {q}
    BY <1>3, <2>4, FreshCall
  <2>6. Asked # {}
    BY <1>3
  <2> QED
    BY <1>2, <2>2, <2>3, <2>5, <2>6 DEF Calm, Alone, Unchanging
<1>5. Alike(tries, tries)
  BY DEF Alike, Base, AppTypes
<1>6. ASSUME CancelAnswered(e) PROVE Calm'
  <2>1. Still /\ events' = Tail(events) /\ UNCHANGED <<tries, popup>> /\ e.call.owner.part = "cancel"
    BY <1>6 DEF CancelAnswered
  <2>2. ~ popup.open
    <3>1. \A n : Try(n).part = "try"
      BY DEF Try
    <3> QED
      BY <1>2, <1>3, <2>1, <3>1 DEF Alone
  <2> QED
    BY <1>1, <1>2, <1>5, <2>1, <2>2, CalmEnds
<1>7. ASSUME FeedAnswered(e) PROVE Calm'
  <2>1. Still /\ events' = Tail(events) /\ UNCHANGED <<tries, popup, pending>>
    BY <1>7 DEF FeedAnswered
  <2>2. popup.open /\ popup.kind = "cast" => Stated(tries, pending)
    BY <1>2 DEF Unchanging
  <2> QED
    BY <1>1, <1>2, <1>5, <2>1, <2>2, CalmEnds
<1> QED
  BY <1>1, <1>4, <1>6, <1>7, CalmTryEnds, CalmBalances

(* A choice, which the open popup does not let the user make.               *)
LEMMA CalmChoose ==
    ASSUME Base, Calm, NEW o \in Opinions, Choose(o)
    PROVE  Calm'
<1>1. /\ ~ popup.open /\ UNCHANGED <<popup, tries, disturbed>>
      /\ Asked' = Asked /\ Hoped' = Hoped
  BY DEF Choose, bridgeVars, Asked, Hoped
<1> SUFFICES ASSUME ~ disturbed PROVE Alone' /\ Noted(tries') /\ Unchanging'
  BY <1>1 DEF Calm
<1>2. \A q \in Hoped : q.method # "balances"
  <2> SUFFICES ASSUME NEW q \in Hoped, q.method = "balances" PROVE FALSE
    OBVIOUS
  <2>1. q \in Asked /\ q.owner.part = "try"
    BY AskedFit DEF FitsIn
  <2> QED
    BY <1>1, <2>1 DEF Calm, Alone
<1> QED
  BY <1>1, <1>2 DEF Calm, Alone, Unchanging

(* Every step keeps the calm or disturbs it.                                *)
LEMMA StepCalm ==
    ASSUME Base, Once, Successive, Calm, [Next]_vars
    PROVE  Calm'
<1>1. CASE Receive \/ WalletConnects \/ WalletLost
  <2>1. StillFewer
    BY <1>1, ReceiveAsked, LostAsked, OpensAsked
  <2>2. UNCHANGED <<popup, pending, disturbed>> /\ (tries' = tries \/ Alike(tries, tries'))
    BY <1>1, LostFacts DEF Receive, WalletConnects, appVars
  <2> QED
    BY <2>1, <2>2, CalmFewer
<1>2. CASE \/ \E q \in inbox, ok \in BOOLEAN : WalletAnswers(q, ok)
           \/ QueuedLost \/ BackendLost \/ \E up \in BOOLEAN : BackendSettles(up)
           \/ UNCHANGED vars
  <2>1. UNCHANGED <<pendingRequests, events, tries, popup, pending, disturbed>>
    BY <1>2 DEF WalletAnswers, QueuedLost, QueuedConnectionLost, BackendLost, BackendSettles,
                vars, bridgeVars, appVars
  <2>2. StillFewer
    BY <2>1 DEF StillFewer, Fewer
  <2> QED
    BY <2>1, <2>2, CalmFewer
<1> QED
  BY <1>1, <1>2, CalmLook, CalmChoose, CalmPress, CalmArrives, CalmContinue DEF Next

-----------------------------------------------------------------------------
(* What the tries of one press put on the chain; revocations that fail.     *)

(* The invariant that the casting properties rest on.                       *)
CastingInv == Base /\ Once /\ Sending /\ Successive /\ Calm

(* The invariant always holds.                                              *)
LEMMA CastingInvHolds == Spec => []CastingInv
<1>1. Init => CastingInv
  <2> SUFFICES ASSUME Init PROVE CastingInv
    OBVIOUS
  <2>1. Base
    BY InitBase
  <2>2. Asked = {} /\ Hoped = {} /\ tries = <<>> /\ inbox = {} /\ popup.open = FALSE
    BY DEF Init, BridgeInit, Asked, AskedOf, Hoped, HopedOf, Replies, Answers
  <2>3. Once
    BY DEF Init, BridgeInit, Once, OnceOf, Replies
  <2>4. Successive
    BY <2>2 DEF Successive, Ordered, Renewed
  <2>5. Calm
    BY <2>2 DEF Calm, Alone, Noted, Unchanging
  <2>6. ChainOf(chain, tries)
    <3>1. CASE chain = <<>>
      BY <3>1 DEF ChainOf
    <3>2. ASSUME NEW d \in Decisions, chain = <<[try |-> 0, decision |-> d]>> PROVE ChainOf(chain, tries)
      BY <3>2 DEF ChainOf
    <3> QED
      BY <3>1, <3>2 DEF Init
  <2>7. SendingOf(chain, inbox, Hoped)
    BY <2>2 DEF SendingOf, Broadcasts
  <2> QED
    BY <2>1, <2>3, <2>4, <2>5, <2>6, <2>7 DEF CastingInv, Sending
<1>2. CastingInv /\ [Next]_vars => CastingInv'
  BY StepBase, StepOnce, StepSending, StepSuccessive, StepCalm DEF CastingInv
<1> QED
  BY <1>1, <1>2, PTL DEF Spec

(* What one press of a button puts on the chain, over however many          *)
(* connections, expresses the same opinions.                                *)
THEOREM ResubmissionsAgreeHolds == Spec => []ResubmissionsAgree
<1>1. CastingInv => ResubmissionsAgree
  <2> SUFFICES ASSUME CastingInv, NEW i \in DOMAIN chain, NEW j \in DOMAIN chain,
                      i # j, chain[i].try # 0, chain[j].try # 0,
                      tries[chain[i].try].press = tries[chain[j].try].press
               PROVE  /\ tries[chain[i].try].conn # tries[chain[j].try].conn
                      /\ disturbed \/ chain[i].decision.opinions = chain[j].decision.opinions
    BY DEF ResubmissionsAgree
  <2> DEFINE s == chain[i].try
             t == chain[j].try
  <2>1. /\ s \in DOMAIN tries /\ t \in DOMAIN tries /\ s # t
        /\ tries[s].conn # 0 /\ tries[t].conn # 0
        /\ chain[i].decision = tries[s].cast /\ chain[j].decision = tries[t].cast
        /\ tries[s].press = tries[t].press
    BY DEF CastingInv, Sending, ChainOf
  <2> HIDE DEF s, t
  <2>2. s \in Nat /\ t \in Nat
    BY <2>1 DEF CastingInv, Base, AppTypes
  <2>3. tries[s].conn # tries[t].conn
    <3>1. CASE s < t
      BY <2>1, <3>1 DEF CastingInv, Successive, Renewed
    <3>2. CASE t < s
      BY <2>1, <3>2 DEF CastingInv, Successive, Renewed
    <3> QED
      BY <2>1, <2>2, <3>1, <3>2
  <2>4. disturbed \/ tries[s].cast.opinions = tries[t].cast.opinions
    BY <2>1 DEF CastingInv, Calm, Noted
  <2> QED
    BY <2>1, <2>3, <2>4 DEF s, t
<1> QED
  BY <1>1, CastingInvHolds, PTL

(* The backups of a revocation's tries are the opinions at the press, as    *)
(* long as the tries before have failed and given them back.                *)
BackedUp(ts) ==
    \A n \in DOMAIN ts :
        /\ ts[n].press = ts[Len(ts)].press /\ ts[n].kind = "revoke"
        /\ \A s \in DOMAIN ts : ts[s].press = ts[n].press /\ s < n => ts[s].outcome = "rejected"
        => \A s \in DOMAIN ts : ts[s].press = ts[n].press /\ s <= n =>
               ts[s].backup.opinions = ts[n].backup.opinions

GivenBack(ts, p) ==
    ts # <<>> /\ ts[Len(ts)].kind = "revoke" /\ ts[Len(ts)].outcome = "rejected" =>
        p.opinions = ts[Len(ts)].backup.opinions

Restored == disturbed \/ (BackedUp(tries) /\ (popup.open => GivenBack(tries, pending)))

RestoreInv == CastingInv /\ Restored

(* The outcome of the last try does not matter to the backups.              *)
LEMMA BackedUpLast ==
    ASSUME NEW ts \in Seq(TryRecord), NEW us, BackedUp(ts),
           Len(us) = Len(ts), DOMAIN us = DOMAIN ts,
           \A m \in DOMAIN ts : /\ us[m].press = ts[m].press /\ us[m].kind = ts[m].kind
                                /\ us[m].backup = ts[m].backup,
           \A m \in DOMAIN ts : m # Len(ts) => us[m].outcome = ts[m].outcome
    PROVE  BackedUp(us)
<1>1. DOMAIN ts = 1 .. Len(ts) /\ Len(ts) \in Nat
  OBVIOUS
<1> SUFFICES ASSUME NEW n \in DOMAIN us,
                    us[n].press = us[Len(us)].press, us[n].kind = "revoke",
                    \A s \in DOMAIN us : us[s].press = us[n].press /\ s < n => us[s].outcome = "rejected",
                    NEW s \in DOMAIN us, us[s].press = us[n].press, s <= n
             PROVE  us[s].backup.opinions = us[n].backup.opinions
  BY DEF BackedUp
<1>2. n \in DOMAIN ts /\ s \in DOMAIN ts /\ Len(ts) \in DOMAIN ts
  BY <1>1
<1>3. ts[n].press = ts[Len(ts)].press /\ ts[n].kind = "revoke" /\ ts[s].press = ts[n].press
  BY <1>1, <1>2
<1>4. \A k \in DOMAIN ts : ts[k].press = ts[n].press /\ k < n => ts[k].outcome = "rejected"
  <2> SUFFICES ASSUME NEW k \in DOMAIN ts, ts[k].press = ts[n].press, k < n PROVE ts[k].outcome = "rejected"
    OBVIOUS
  <2>1. us[k].press = us[n].press /\ k # Len(ts) /\ k \in DOMAIN us
    BY <1>1, <1>2
  <2> QED
    BY <2>1
<1>5. ts[s].backup.opinions = ts[n].backup.opinions
  BY <1>2, <1>3, <1>4 DEF BackedUp
<1> QED
  BY <1>2, <1>5

(* Nor do other changes to the last try.                                    *)
LEMMA LastOutcome ==
    ASSUME NEW ts \in Seq(TryRecord), NEW us, Alike(ts, us), SameOutcomes(ts, us), NEW p, GivenBack(ts, p)
    PROVE  GivenBack(us, p)
<1>1. us \in Seq(TryRecord) /\ Len(us) = Len(ts)
  BY DEF Alike
<1>2. us # <<>> => ts # <<>> /\ Len(ts) \in DOMAIN ts
  BY <1>1
<1> QED
  BY <1>1, <1>2 DEF GivenBack, Alike, SameOutcomes

(* A step that leaves popup and decision alone.                             *)
LEMMA RestoredSame ==
    ASSUME Base, Restored, Alike(tries, tries'), SameOutcomes(tries, tries'),
           popup' = popup, popup.open => pending' = pending, disturbed => disturbed'
    PROVE  Restored'
<1> SUFFICES ASSUME ~ disturbed PROVE BackedUp(tries') /\ (popup.open => GivenBack(tries', pending'))
  BY DEF Restored
<1>1. tries \in Seq(TryRecord)
  BY DEF Base, AppTypes
<1> DEFINE us == tries'
<1>2. Alike(tries, us) /\ SameOutcomes(tries, us)
  OBVIOUS
<1> HIDE DEF us
<1>3. BackedUp(us)
  BY <1>1, <1>2, BackedUpLast DEF Restored, Alike, SameOutcomes
<1>4. popup.open => GivenBack(us, pending')
  BY <1>1, <1>2, LastOutcome DEF Restored
<1> QED
  BY <1>3, <1>4 DEF us

(* A new try backs up what the tries before it, which have failed, gave     *)
(* back.                                                                    *)
LEMMA RestoredSubmit ==
    ASSUME Base, Restored, ~ disturbed, NEW kind \in {"cast", "revoke"}, NEW press \in Nat, NEW p \in Decisions,
           NEW to, NEW rest, Submit(kind, press, p, pending, to, rest),
           \/ \A m \in DOMAIN tries : tries[m].press # press
           \/ popup.open /\ tries # <<>> /\ press = tries[Len(tries)].press /\ kind = tries[Len(tries)].kind
    PROVE  Restored'
<1> DEFINE k == Len(tries) + 1
           us == tries'
<1>1. /\ us = Append(tries, NewTry(kind, press, p, pending)) /\ tries \in Seq(TryRecord) /\ pending \in Decisions
  BY DEF Submit, Base, AppTypes
<1> HIDE DEF us
<1>3. /\ Len(tries) \in Nat /\ Len(us) = k
      /\ DOMAIN tries = 1 .. Len(tries) /\ DOMAIN us = 1 .. k
      /\ \A m \in DOMAIN tries : us[m] = tries[m]
      /\ us[k].press = press /\ us[k].kind = kind /\ us[k].backup = pending /\ us[k].outcome = "running"
  BY <1>1, NewTryFacts
<1>4. BackedUp(us)
  <2> SUFFICES ASSUME NEW n \in DOMAIN us,
                      us[n].press = us[Len(us)].press, us[n].kind = "revoke",
                      \A s \in DOMAIN us : us[s].press = us[n].press /\ s < n => us[s].outcome = "rejected",
                      NEW s \in DOMAIN us, us[s].press = us[n].press, s <= n
               PROVE  us[s].backup.opinions = us[n].backup.opinions
    BY DEF BackedUp
  <2>1. us[n].press = press
    BY <1>3
  <2>2. CASE s = k
    BY <1>3, <2>2
  <2>3. CASE s # k
    <3> DEFINE L == Len(tries)
    <3>1. s \in DOMAIN tries /\ tries[s].press = press /\ us[s] = tries[s] /\ s <= L
      BY <1>3, <2>1, <2>3
    <3>2. popup.open /\ tries # <<>> /\ press = tries[L].press /\ kind = tries[L].kind /\ L \in DOMAIN tries
      BY <1>3, <3>1
    <3>3. BackedUp(tries) /\ GivenBack(tries, pending)
      BY <3>2 DEF Restored
    <3>4. CASE n = k
      <4>1. \A r \in DOMAIN tries : tries[r].press = press => tries[r].outcome = "rejected"
        BY <1>3, <2>1, <3>4
      <4>2. pending.opinions = tries[L].backup.opinions
        BY <1>3, <3>2, <3>3, <3>4, <4>1 DEF GivenBack
      <4>3. tries[s].backup.opinions = tries[L].backup.opinions
        BY <1>3, <3>1, <3>2, <3>3, <3>4, <4>1 DEF BackedUp
      <4> QED
        BY <1>3, <3>1, <3>4, <4>2, <4>3
    <3>5. CASE n # k
      <4>1. n \in DOMAIN tries /\ us[n] = tries[n]
        BY <1>3, <3>5
      <4>2. \A r \in DOMAIN tries : tries[r].press = tries[n].press /\ r < n => tries[r].outcome = "rejected"
        BY <1>3, <4>1
      <4>3. tries[s].backup.opinions = tries[n].backup.opinions
        BY <2>1, <3>1, <3>2, <3>3, <4>1, <4>2 DEF BackedUp
      <4> QED
        BY <3>1, <4>1, <4>3
    <3> QED
      BY <3>4, <3>5
  <2> QED
    BY <2>2, <2>3
<1>5. GivenBack(us, pending')
  BY <1>3 DEF GivenBack
<1> QED
  BY <1>4, <1>5 DEF Restored, us

(* A press starts with a backup of its own.                                 *)
LEMMA RestoredPress ==
    ASSUME CastingInv, Restored, NEW kind \in {"cast", "revoke"}, Press(kind)
    PROVE  Restored'
<1>1. /\ backend = "up" => /\ Submit(kind, Presses + 1, Prepared(kind), pending, client, events)
                           /\ disturbed' = (disturbed \/ Busy # {})
      /\ backend # "up" => UNCHANGED <<tries, popup, disturbed>>
      /\ ~ popup.open
  BY DEF Press, SubmitNothing, Submit
<1>2. Presses \in Nat /\ Prepared(kind) \in Decisions /\ Base
  BY PressesAreNat, PreparedFacts DEF CastingInv, Base
<1>3. ASSUME backend = "up", ~ disturbed' PROVE Restored'
  <2>2. ~ disturbed
    BY <1>1, <1>3
  <2>3. \A n \in DOMAIN tries : tries[n].press # Presses + 1
    <3> SUFFICES ASSUME NEW n \in DOMAIN tries PROVE tries[n].press # Presses + 1
      OBVIOUS
    <3>1. tries # <<>> /\ tries[n].press \in Nat
      BY <1>2, PressesOfTries DEF Base, AppTypes
    <3>2. Len(tries) \in DOMAIN tries /\ n <= Len(tries) /\ Presses = tries[Len(tries)].press
      BY <1>2, <3>1, LastTry
    <3> QED
      BY <1>2, <3>1, <3>2 DEF CastingInv, Successive, Ordered
  <2> DEFINE press == Presses + 1
             p == Prepared(kind)
  <2>4. /\ press \in Nat /\ p \in Decisions
        /\ \A n \in DOMAIN tries : tries[n].press # press
        /\ Submit(kind, press, p, pending, client, events)
    BY <1>1, <1>2, <1>3, <2>3
  <2> HIDE DEF press, p
  <2> QED
    BY <1>2, <2>2, <2>4, RestoredSubmit
<1>4. ASSUME backend # "up", ~ disturbed' PROVE Restored'
  BY <1>1, <1>4 DEF Restored
<1> QED
  BY <1>3, <1>4 DEF Restored

(* An arrival starts a try of the same press.                               *)
LEMMA RestoredArrives ==
    ASSUME CastingInv, Restored, ClientArrives
    PROVE  Restored'
<1> DEFINE rest == Tail(events)
           c == Head(events).conn
<1> SUFFICES ASSUME ~ disturbed' PROVE Restored'
  BY DEF Restored
<1>0. Base
  BY DEF CastingInv
<1>1. \/ /\ popup.open /\ ~ disturbed
         /\ Submit(popup.kind, Presses, Prepared(popup.kind), pending, c, rest)
      \/ UNCHANGED <<tries, popup, pending, disturbed>>
  BY DEF ClientArrives, SubmitNothing, Submit
<1> HIDE DEF c, rest
<1>2. popup.kind \in {"cast", "revoke"} /\ Presses \in Nat /\ Prepared(popup.kind) \in Decisions
  BY <1>0, PressesAreNat, PreparedFacts DEF Base, AppTypes
<1>3. ASSUME popup.open, ~ disturbed, Submit(popup.kind, Presses, Prepared(popup.kind), pending, c, rest)
      PROVE  Restored'
  <2>1. tries # <<>>
    BY <1>3 DEF CastingInv, Successive
  <2>2. Presses = tries[Len(tries)].press /\ popup.kind = tries[Len(tries)].kind
    BY <1>0, <2>1, LastTry
  <2> DEFINE press == Presses
             kind == popup.kind
             p == Prepared(popup.kind)
  <2>3. /\ press \in Nat /\ kind \in {"cast", "revoke"} /\ p \in Decisions
        /\ press = tries[Len(tries)].press /\ kind = tries[Len(tries)].kind
        /\ Submit(kind, press, p, pending, c, rest)
    BY <1>2, <1>3, <2>2
  <2> HIDE DEF press, kind, p
  <2> QED
    BY <1>0, <1>3, <2>1, <2>3, RestoredSubmit
<1>4. ASSUME UNCHANGED <<tries, popup, pending, disturbed>> PROVE Restored'
  BY <1>4 DEF Restored
<1> QED
  BY <1>1, <1>3, <1>4

(* A revocation that fails gives the opinions back.                         *)
LEMMA FailsRestores ==
    ASSUME Base, NEW n \in DOMAIN tries, NEW e, TryFails(n, e), tries[n].kind = "revoke"
    PROVE  pending'.opinions = tries[n].backup.opinions
<1> DEFINE o == tries[n].backup.opinions
           w == tries[n].backup.writeIns
<1>1. o \in Opinions /\ w \in BOOLEAN /\ pending \in Decisions
  <2>1. tries[n] \in TryRecord
    BY Members DEF Base, AppTypes
  <2>2. tries[n].backup \in Decisions
    BY <2>1 DEF TryRecord
  <2> QED
    BY <2>2 DEF Decisions, Base, AppTypes
<1>2. pending' = SetWriteIns(SetOpinions(pending, o), w)
  BY DEF TryFails
<1> HIDE DEF o, w
<1>3. SetOpinions(pending, o) \in Decisions /\ SetOpinions(pending, o).opinions = o
  BY <1>1, DecisionFacts
<1>4. SetWriteIns(SetOpinions(pending, o), w).opinions = o
  BY <1>1, <1>3, DecisionFacts
<1> QED
  BY <1>2, <1>4 DEF o

(* A continuation of the popup's try.                                       *)
LEMMA RestoredContinue ==
    ASSUME CastingInv, Restored, Continue
    PROVE  Restored'
<1> DEFINE e == Head(events)
<1>0. Base /\ Once /\ Calm /\ Successive
  BY DEF CastingInv
<1>1. /\ events # <<>> /\ e.kind = "reply" /\ disturbed' = disturbed
      /\ \/ \E n \in DOMAIN tries : \/ TryFails(n, e) \/ TryHasBalances(n, e)
                                    \/ TryHasFees(n, e) \/ TrySucceeds(n, e)
         \/ CancelAnswered(e) \/ FeedAnswered(e)
  BY <1>0, ContinueCases
<1> SUFFICES ASSUME ~ disturbed PROVE Restored'
  BY <1>1 DEF Restored
<1>2. tries \in Seq(TryRecord) /\ BackedUp(tries) /\ (popup.open => GivenBack(tries, pending)) /\ Alone
  BY <1>0 DEF Base, AppTypes, Restored, Calm
<1> DEFINE us == tries'
<1>3. ASSUME NEW n \in DOMAIN tries, TryFails(n, e) \/ TrySucceeds(n, e) PROVE Restored'
  <2>1. n = Len(tries) /\ popup.kind = tries[n].kind
    BY <1>0, <1>3, CalmTryEnds
  <2>2. PICK o \in {"resolved", "rejected"} : /\ Report(n, o)
                                              /\ o = "rejected" => TryFails(n, e)
    BY <1>3 DEF TryFails, TrySucceeds
  <2>3. Alike(tries, us) /\ Outcome(tries, us, n, o)
    BY <1>0, <2>2, ReportFacts DEF Base
  <2> HIDE DEF us
  <2>4. BackedUp(us)
    BY <1>2, <2>1, <2>3, BackedUpLast DEF Alike, Outcome
  <2>5. GivenBack(us, pending')
    BY <1>0, <2>1, <2>2, <2>3, FailsRestores DEF Alike, Outcome, GivenBack
  <2> QED
    BY <2>4, <2>5 DEF Restored, us
<1>4. ASSUME NEW n \in DOMAIN tries, TryHasBalances(n, e) PROVE Restored'
  <2> DEFINE d == Canonical(pending)
  <2>1. /\ us = [tries EXCEPT ![n].cast = d, ![n].conn = client]
        /\ pending' = Serialized(pending) /\ popup' = popup
    BY <1>4 DEF TryHasBalances
  <2>2. d \in Decisions /\ client \in Nat /\ pending'.opinions = pending.opinions
    BY <1>0, <2>1, DecisionFacts, BridgeAssumption DEF Base, AppTypes, BridgeTypes
  <2> HIDE DEF us, d
  <2>3. CastIn(tries, us, n, d, client)
    BY <1>2, <2>1, <2>2, CastSet
  <2>4. BackedUp(us)
    BY <1>2, <2>3, BackedUpLast DEF CastIn
  <2>5. popup.open => GivenBack(us, pending')
    <3>1. us \in Seq(TryRecord) /\ Len(us) = Len(tries)
      BY <2>3 DEF CastIn
    <3>2. us # <<>> => tries # <<>> /\ Len(tries) \in DOMAIN tries
      BY <1>2, <3>1
    <3> QED
      BY <1>2, <2>2, <2>3, <3>1, <3>2 DEF CastIn, GivenBack
  <2> QED
    BY <2>1, <2>4, <2>5 DEF Restored, us
<1>5. ASSUME UNCHANGED <<tries, popup>>, popup.open => pending' = pending PROVE Restored'
  BY <1>2, <1>5 DEF Restored
<1>6. ASSUME CancelAnswered(e) PROVE ~ popup.open
  <2>1. e.call.owner.part = "cancel" /\ e.call \in Asked
    BY <1>0, <1>1, <1>2, <1>6, OnlyOne DEF CancelAnswered
  <2>2. \A n : Try(n).part = "try"
    BY DEF Try
  <2> QED
    BY <1>2, <2>1, <2>2 DEF Alone
<1> QED
  BY <1>1, <1>3, <1>4, <1>5, <1>6 DEF TryHasFees, CancelAnswered, FeedAnswered

(* Every step keeps the backups.                                            *)
LEMMA StepRestored ==
    ASSUME CastingInv, Restored, [Next]_vars
    PROVE  Restored'
<1>0. Base /\ Alike(tries, tries) /\ SameOutcomes(tries, tries)
  BY DEF CastingInv, Base, AppTypes, Alike, SameOutcomes
<1>1. CASE ShowContest \/ PressCancel
  <2>1. UNCHANGED <<tries, popup, pending>> /\ disturbed' = (disturbed \/ Busy # {})
    BY <1>1 DEF ShowContest, PressCancel
  <2>2. disturbed => disturbed'
    BY <2>1
  <2> QED
    BY <1>0, <2>1, <2>2, RestoredSame
<1>2. CASE \E o \in Opinions : Choose(o)
  BY <1>0, <1>2, RestoredSame DEF Choose
<1>3. CASE WalletLost
  BY <1>0, <1>3, LostFacts, RestoredSame
<1>4. CASE \/ Receive \/ WalletConnects
           \/ \E q \in inbox, ok \in BOOLEAN : WalletAnswers(q, ok)
           \/ QueuedLost \/ BackendLost \/ \E up \in BOOLEAN : BackendSettles(up)
           \/ UNCHANGED vars
  <2>1. UNCHANGED <<tries, popup, pending, disturbed>>
    BY <1>4 DEF Receive, WalletConnects, WalletAnswers, QueuedLost, BackendLost, BackendSettles,
                vars, appVars
  <2> QED
    BY <1>0, <2>1, RestoredSame
<1> QED
  BY <1>1, <1>2, <1>3, <1>4, RestoredPress, RestoredArrives, RestoredContinue DEF Next

(* The backups are always right.                                            *)
LEMMA RestoreInvHolds == Spec => []RestoreInv
<1>1. Init => Restored
  BY DEF Init, Restored, BackedUp, GivenBack
<1>2. RestoreInv /\ CastingInv' /\ [Next]_vars => RestoreInv'
  BY StepRestored DEF RestoreInv
<1>4. Spec => Restored
  BY <1>1 DEF Spec
<1>5. CastingInv /\ Restored <=> RestoreInv
  BY DEF RestoreInv
<1> QED
  BY <1>2, <1>4, <1>5, CastingInvHolds, PTL DEF Spec

(* The popup closes when its try is settled.                                *)
LEMMA PopupClosed ==
    ASSUME CastingInv, [Next]_vars, popup.open, ~ popup'.open
    PROVE  Continue /\ \E n \in DOMAIN tries : TryFails(n, Head(events)) \/ TrySucceeds(n, Head(events))
<1>0. Base
  BY DEF CastingInv
<1>1. ASSUME NEW kind, NEW press, NEW p, NEW backup, NEW to, NEW rest, Submit(kind, press, p, backup, to, rest)
      PROVE  popup'.open
  BY <1>1 DEF Submit
<1>2. ASSUME UNCHANGED popup PROVE FALSE
  BY <1>2
<1>3. ~ (ShowContest \/ PressCancel \/ (\E o \in Opinions : Choose(o)) \/ Receive \/ WalletConnects
         \/ (\E q \in inbox, ok \in BOOLEAN : WalletAnswers(q, ok)) \/ WalletLost
         \/ QueuedLost \/ BackendLost \/ (\E up \in BOOLEAN : BackendSettles(up)) \/ UNCHANGED vars)
  BY <1>2 DEF ShowContest, PressCancel, Choose, Receive, WalletConnects, WalletAnswers, WalletLost,
              QueuedLost, BackendLost, BackendSettles, vars, appVars
<1>4. ~ \E kind \in {"cast", "revoke"} : Press(kind)
  BY DEF Press
<1>5. ~ ClientArrives
  BY <1>1, <1>2 DEF ClientArrives, SubmitNothing
<1>6. Continue
  BY <1>3, <1>4, <1>5 DEF Next
<1> QED
  BY <1>0, <1>2, <1>6, ContinueCases DEF TryHasBalances, TryHasFees, CancelAnswered, FeedAnswered

(* When every try of a revocation has failed, the user's opinions are what  *)
(* they were when the button was pressed.                                   *)
THEOREM RevokeRestoresHolds == Spec => RevokeRestores
<1> DEFINE A == /\ popup.open /\ ~popup'.open /\ ~disturbed /\ popup.kind = "revoke"
                /\ \A n \in PressTries(tries') : tries'[n].outcome = "rejected"
           B == pending'.opinions = tries[Min(PressTries(tries))].backup.opinions
<1>1. ASSUME RestoreInv, [Next]_vars PROVE A => B
  <2> SUFFICES ASSUME A PROVE B
    OBVIOUS
  <2>1. CastingInv /\ Base /\ Once /\ Calm /\ Restored /\ tries \in Seq(TryRecord)
    BY <1>1 DEF RestoreInv, CastingInv, Base, AppTypes
  <2> DEFINE e == Head(events)
  <2>2. PICK n \in DOMAIN tries : TryFails(n, e) \/ TrySucceeds(n, e)
    BY <1>1, <2>1, PopupClosed
  <2>3. Continue
    BY <1>1, <2>1, PopupClosed
  <2>4. n = Len(tries) /\ popup.kind = tries[n].kind
    BY <2>1, <2>2, <2>3, CalmTryEnds
  <2>5. PICK o \in {"resolved", "rejected"} : /\ Report(n, o)
                                              /\ o = "rejected" => TryFails(n, e)
    BY <2>2 DEF TryFails, TrySucceeds
  <2> DEFINE us == tries'
  <2>6. Alike(tries, us) /\ Outcome(tries, us, n, o)
    BY <2>1, <2>5, ReportFacts DEF Base
  <2>7. \A m \in PressTries(us) : us[m].outcome = "rejected"
    OBVIOUS
  <2> HIDE DEF us
  <2>8. Last(us) = us[n] /\ Last(tries) = tries[n] /\ n \in DOMAIN us
    BY <2>4, <2>6 DEF Last, Alike
  <2>9. \A m \in DOMAIN tries : tries[m].press = tries[n].press => us[m].outcome = "rejected"
    BY <2>6, <2>7, <2>8 DEF PressTries, Alike
  <2>10. TryFails(n, e)
    BY <2>5, <2>6, <2>9 DEF Outcome
  <2>11. pending'.opinions = tries[n].backup.opinions
    BY <2>1, <2>4, <2>10, FailsRestores
  <2> DEFINE m == Min(PressTries(tries))
  <2>12. m \in DOMAIN tries /\ tries[m].press = tries[n].press /\ m <= n
    <3>1. PressTries(tries) \subseteq Nat /\ n \in PressTries(tries)
      BY <2>1, <2>8 DEF PressTries
    <3>2. m \in PressTries(tries) /\ m <= n
      BY <3>1, NatMin
    <3> QED
      BY <2>8, <3>2 DEF PressTries
  <2> HIDE DEF m
  <2>13. \A s \in DOMAIN tries : tries[s].press = tries[n].press /\ s < n => tries[s].outcome = "rejected"
    BY <2>1, <2>6, <2>9 DEF Outcome
  <2>14. tries[m].backup.opinions = tries[n].backup.opinions
    BY <2>1, <2>4, <2>12, <2>13 DEF Restored, BackedUp
  <2> QED
    BY <2>11, <2>14 DEF m
<1>2. RestoreInv /\ [Next]_vars => (A => B)
  BY <1>1
<1> HIDE DEF A, B
<1>3. RestoreInv /\ [Next]_vars => [A => B]_vars
  BY <1>2
<1>4. Spec => [][A => B]_vars
  BY <1>3, RestoreInvHolds, PTL DEF Spec
<1> QED
  BY <1>4 DEF RevokeRestores, A, B

-----------------------------------------------------------------------------
(* The official decision is the newest one on the chain.                    *)

(* The answers that have come back and have not been continued, when rs are *)
(* on their way and ev is queued.                                           *)
ToldOf(rs, ev) ==
    {[call |-> r.call, value |-> r.value] : r \in {s \in rs : s.ok}}
        \union {[call |-> ev[i].call, value |-> ev[i].value] : i \in Answers(ev)}

Told == ToldOf(replies, events)

(* Of what the chain holds only tries that are not resolved came after try n.*)
Newest(ch, ts, n) ==
    \E i \in DOMAIN ch :
        /\ ch[i].try = n
        /\ \A j \in DOMAIN ch : i < j => ch[j].try # 0 /\ ts[ch[j].try].outcome # "resolved"

AllResolved(ch, ts) == \A i \in DOMAIN ch : ch[i].try # 0 => ts[ch[i].try].outcome = "resolved"

(* The feed is answered before the first try, with what is on the record;   *)
(* a try whose broadcast is answered is the newest the app will hear of.    *)
Recorded ==
    /\ \A q \in Asked : q.owner = Feed => tries = <<>>
    /\ \A t \in Told : t.call.owner = Feed => t.value = OnRecord
    /\ \A t \in Told : t.call.method = "broadcast" => Newest(chain, tries, t.call.owner.n)
    /\ \A n \in DOMAIN tries : tries[n].outcome = "resolved" => OnChain(chain, n)
    /\ AllResolved(chain, tries) => official \in {NoDecision, OnRecord}

RecordInv == disturbed \/ Recorded

(* An answer that has come back is to a call that was asked for.            *)
LEMMA ToldAsked ==
    ASSUME Base, NEW ev, NEW t \in ToldOf(replies, ev)
    PROVE  t.call \in AskedOf(pendingRequests, ev)
BY DEF ToldOf, AskedOf, Base, Requests, Answers, Replies

(* The head of the queue leaves it.                                         *)
LEMMA ToldTail ==
    ASSUME NEW ev \in Seq(Event), ev # <<>>
    PROVE  \A rs : ToldOf(rs, Tail(ev)) \subseteq ToldOf(rs, ev)
<1> DEFINE t == Tail(ev)
<1>1. \A i \in DOMAIN t : i \in Nat /\ i + 1 \in DOMAIN ev /\ t[i] = ev[i + 1]
  BY TailFacts
<1> HIDE DEF t
<1>2. \A i \in Answers(t) : i + 1 \in Answers(ev) /\ t[i] = ev[i + 1]
  BY <1>1 DEF Answers
<1> QED
  BY <1>2 DEF ToldOf, t

(* A new call is not answered yet.                                          *)
LEMMA CallTold ==
    ASSUME Base, NEW rest \in Seq(Event), AskedOf(pendingRequests, rest) = {},
           NEW c \in Conns, NEW owner \in Owners, NEW method \in {"decision", "balances", "fees", "broadcast"},
           BeginCall(c, owner, method, rest), replies' = replies
    PROVE  Told' = {}
<1>1. ToldOf(replies, rest) = {}
  BY ToldAsked
<1>2. CASE events' = rest
  BY <1>1, <1>2 DEF Told
<1>3. CASE events' # rest
  <2> DEFINE q == NewCall(c, -1, owner, method)
             e == Settled(q, FALSE, <<>>)
             t == Append(rest, e)
  <2>1. events' = t
    BY <1>3 DEF BeginCall, NewCall
  <2>2. q \in Calls
    BY DEF NewCall, Calls, Owners
  <2>3. e \in Reply /\ e.ok = FALSE
    BY <2>2 DEF Settled, Reply, Value
  <2> HIDE DEF e, q
  <2>4. OneMore(t, rest, e)
    BY <2>3, ReplyAdded
  <2> HIDE DEF t
  <2>5. ToldOf(replies, t) \subseteq ToldOf(replies, rest)
    BY <2>3, <2>4 DEF OneMore, ToldOf
  <2> QED
    BY <1>1, <2>1, <2>5 DEF Told
<1> QED
  BY <1>2, <1>3

(* A delivery tells the app nothing new,                                    *)
LEMMA ReceiveTold ==
    ASSUME Base, Receive
    PROVE  Told' \subseteq Told
<1>0. Bridge /\ events \in Seq(Event)
  BY DEF Base, Bridge, BridgeTypes
<1>1. PICK r \in replies : FinishCall(r)
  BY DEF Receive
<1> DEFINE e == Settled(r.call, r.ok, r.value)
           t == Append(events, e)
<1>2. r \in Answer /\ events' = t /\ replies' = replies \ {r} /\ r.call \in pendingRequests
  BY <1>0, <1>1, Delivered
<1>3. e \in Reply /\ e.call = r.call /\ e.ok = r.ok /\ e.value = r.value
  BY <1>2 DEF Answer, Settled, Reply
<1> HIDE DEF e
<1>4. OneMore(t, events, e)
  BY <1>0, <1>3, ReplyAdded
<1> HIDE DEF t
<1>5. ToldOf(replies \ {r}, t) \subseteq ToldOf(replies, events)
  <2> SUFFICES ASSUME NEW x \in ToldOf(replies \ {r}, t) PROVE x \in ToldOf(replies, events)
    OBVIOUS
  <2>1. CASE x \in {[call |-> s.call, value |-> s.value] : s \in {s \in replies \ {r} : s.ok}}
    BY <2>1 DEF ToldOf
  <2>2. CASE \E i \in Answers(t) : x = [call |-> t[i].call, value |-> t[i].value]
    <3>1. PICK i \in Answers(t) : x = [call |-> t[i].call, value |-> t[i].value]
      BY <2>2
    <3>2. CASE i = Len(events) + 1 /\ e.ok
      <4>1. t[i] = e
        BY <3>2, <1>4 DEF OneMore
      <4>2. x = [call |-> r.call, value |-> r.value] /\ r.ok
        BY <1>3, <3>1, <3>2, <4>1
      <4> QED
        BY <4>2 DEF ToldOf
    <3>3. CASE i \in Answers(events) /\ t[i] = events[i]
      BY <3>1, <3>3 DEF ToldOf
    <3> QED
      BY <1>4, <3>2, <3>3 DEF OneMore
  <2> QED
    BY <2>1, <2>2 DEF ToldOf
<1> QED
  BY <1>2, <1>5 DEF Told

(* nor does a loss,                                                         *)
LEMMA LostTold ==
    ASSUME Base, WalletLost
    PROVE  Told' \subseteq Told
<1> DEFINE t == events'
<1>1. FailedReplies(t, events, pendingRequests) /\ replies' = {}
  BY LostFacts
<1> HIDE DEF t
<1>2. \A i \in Answers(t) : i \in Answers(events) /\ t[i] = events[i]
  BY <1>1 DEF FailedReplies, Replies, Answers
<1> QED
  BY <1>1, <1>2 DEF Told, ToldOf, t

(* nor a connection that opens.                                             *)
LEMMA OpensTold ==
    ASSUME Base, WalletConnects
    PROVE  Told' = Told
<1> DEFINE e == Arrived(Head(Append(pendingConnections, opened + 1)))
           t == Append(events, e)
<1>1. (events' = events \/ events' = t) /\ replies' = replies
  BY DEF WalletConnects, WalletOpens
<1>2. e.kind = "client"
  BY DEF Arrived
<1> HIDE DEF e
<1>3. /\ Len(events) \in Nat /\ DOMAIN events = 1 .. Len(events)
      /\ DOMAIN t = 1 .. Len(events) + 1
      /\ \A i \in 1 .. Len(events) : t[i] = events[i]
      /\ t[Len(events) + 1] = e
  <2> DEFINE S == Event \union {e}
  <2>1. events \in Seq(S) /\ e \in S
    BY DEF Base, BridgeTypes
  <2> HIDE DEF S
  <2> QED
    BY <2>1, AppendFacts
<1> HIDE DEF t
<1>4. Answers(t) = Answers(events) /\ \A i \in Answers(t) : t[i] = events[i]
  BY <1>2, <1>3 DEF Answers
<1>5. ToldOf(replies, t) = ToldOf(replies, events)
  BY <1>4 DEF ToldOf
<1> QED
  BY <1>1, <1>5 DEF Told

(* The tries us are those of ts with their outcomes, and perhaps others     *)
(* that are not resolved.                                                   *)
SameEnds(ts, us) ==
    /\ \A n \in DOMAIN ts : n \in DOMAIN us /\ us[n].outcome = ts[n].outcome
    /\ \A n \in DOMAIN us : us[n].outcome = "resolved" => n \in DOMAIN ts

(* A step that changes neither chain nor official decision nor an outcome.  *)
LEMMA RecordedKept ==
    ASSUME Sending, Recorded, Told' \subseteq Told,
           \A q \in Asked' : q.owner = Feed => tries' = <<>>,
           UNCHANGED <<chain, official>>, SameEnds(tries, tries')
    PROVE  Recorded'
<1> DEFINE us == tries'
<1>1. SameEnds(tries, us)
  OBVIOUS
<1> HIDE DEF us
<1>2. \A i \in DOMAIN chain : chain[i].try # 0 => chain[i].try \in DOMAIN tries
  BY DEF Sending, ChainOf
<1>3. \A n : Newest(chain, tries, n) => Newest(chain, us, n)
  BY <1>1, <1>2 DEF Newest, SameEnds
<1>4. AllResolved(chain, us) => AllResolved(chain, tries)
  BY <1>1, <1>2 DEF AllResolved, SameEnds
<1>5. \A n \in DOMAIN us : us[n].outcome = "resolved" => OnChain(chain, n)
  BY <1>1 DEF SameEnds, Recorded
<1>6. \A t \in Told' : t.call.owner = Feed => t.value = OnRecord
  BY DEF Recorded
<1>7. \A t \in Told' : t.call.method = "broadcast" => Newest(chain, us, t.call.owner.n)
  BY <1>3 DEF Recorded
<1>8. OnRecord' = OnRecord
  BY DEF OnRecord
<1> QED
  BY <1>4, <1>5, <1>6, <1>7, <1>8 DEF Recorded, us

(* Tries with the same outcomes.                                            *)
LEMMA AlikeEnds ==
    ASSUME NEW ts, NEW us, Alike(ts, us), SameOutcomes(ts, us)
    PROVE  SameEnds(ts, us)
BY DEF Alike, SameOutcomes, SameEnds

(* Nobody goes on.                                                          *)
LEMMA RecordedFewer ==
    ASSUME Base, Sending, Recorded, StillFewer, Told' \subseteq Told, UNCHANGED <<chain, official>>,
           tries' = tries \/ (Alike(tries, tries') /\ SameOutcomes(tries, tries'))
    PROVE  Recorded'
<1>1. Asked' \subseteq Asked
  BY DEF StillFewer, Fewer, Asked
<1>2. SameEnds(tries, tries')
  BY AlikeEnds DEF SameEnds
<1>3. tries = <<>> => tries' = <<>>
  <2>1. tries' \in Seq(TryRecord) /\ Len(tries') = Len(tries) /\ tries \in Seq(TryRecord)
    BY DEF Base, AppTypes, Alike
  <2> QED
    BY <2>1
<1> QED
  BY <1>1, <1>2, <1>3, RecordedKept DEF Recorded

(* A call is asked for when no other is under way.                          *)
LEMMA RecordedAsks ==
    ASSUME Base, Sending, Recorded, NEW owner \in Owners,
           NEW method \in {"decision", "balances", "fees", "broadcast"},
           NEW rest \in Seq(Event), AskedOf(pendingRequests, rest) = {},
           NEW c \in Conns, BeginCall(c, owner, method, rest), replies' = replies,
           AskedNow(owner, method, rest), owner = Feed => tries' = <<>>,
           UNCHANGED <<chain, official>>, SameEnds(tries, tries')
    PROVE  Recorded'
<1>1. Told' = {}
  BY CallTold
<1>2. \A q \in Asked' : q.owner = owner
  BY FreshCall
<1> QED
  BY <1>1, <1>2, RecordedKept

(* A new try has not been answered.                                         *)
LEMMA RecordedSubmit ==
    ASSUME Base, Sending, Recorded, NEW kind \in {"cast", "revoke"}, NEW press \in Nat, NEW p \in Decisions,
           NEW rest \in Seq(Event), AskedOf(pendingRequests, rest) = {},
           NEW to \in Conns, Submit(kind, press, p, pending, to, rest), replies' = replies,
           AskedNow(Try(Len(tries) + 1), "balances", rest), UNCHANGED <<chain, official>>
    PROVE  Recorded'
<1> DEFINE us == tries'
           o == Try(Len(tries) + 1)
<1>1. us = Append(tries, NewTry(kind, press, p, pending)) /\ tries \in Seq(TryRecord) /\ pending \in Decisions
  BY DEF Submit, Base, AppTypes
<1>2. BeginCall(to, o, "balances", rest)
  BY DEF Submit
<1> HIDE DEF us
<1>3. /\ Len(tries) \in Nat
      /\ DOMAIN tries = 1 .. Len(tries) /\ DOMAIN us = 1 .. Len(tries) + 1
      /\ \A m \in DOMAIN tries : us[m] = tries[m]
      /\ us[Len(tries) + 1].outcome = "running"
  BY <1>1, NewTryFacts
<1>4. SameEnds(tries, us)
  BY <1>3 DEF SameEnds
<1>5. o \in Owners /\ o # Feed
  BY <1>3 DEF Try, Feed, Owners
<1> HIDE DEF o
<1>6. AskedNow(o, "balances", rest)
  BY DEF o
<1> QED
  BY <1>2, <1>4, <1>5, <1>6, RecordedAsks DEF us

(* A press starts a try when nothing else is under way.                     *)
LEMMA RecordedPress ==
    ASSUME CastingInv, Recorded, NEW kind \in {"cast", "revoke"}, Press(kind), ~ disturbed'
    PROVE  Recorded'
<1>0. Base /\ Once /\ Sending
  BY DEF CastingInv
<1>1. /\ backend = "up" => /\ Submit(kind, Presses + 1, Prepared(kind), pending, client, events)
                           /\ disturbed' = (disturbed \/ Busy # {})
      /\ backend # "up" => UNCHANGED <<pendingRequests, events, tries>>
      /\ UNCHANGED <<chain, official, replies>>
      /\ client \in Conns
  <2>1. client \in Conns
    BY <1>0, BridgeAssumption DEF Press, Base, FitPopup, BridgeTypes, Conns
  <2> QED
    BY <2>1 DEF Press, SubmitNothing, Submit
<1>2. Presses + 1 \in Nat /\ Prepared(kind) \in Decisions /\ events \in Seq(Event)
  BY <1>0, PressesAreNat, PreparedFacts DEF Base, BridgeTypes
<1>3. CASE backend = "up"
  <2>1. AskedNow(Try(Len(tries) + 1), "balances", events)
    BY <1>0, <1>3, PressOnce
  <2>2. AskedOf(pendingRequests, events) = {}
    BY <1>1, <1>3, NobodyBusy
  <2> DEFINE press == Presses + 1
             p == Prepared(kind)
  <2>3. press \in Nat /\ p \in Decisions /\ Submit(kind, press, p, pending, client, events)
    BY <1>1, <1>2, <1>3
  <2> HIDE DEF press, p
  <2> QED
    BY <1>0, <1>1, <1>2, <2>1, <2>2, <2>3, RecordedSubmit
<1>4. CASE backend # "up"
  <2>1. StillFewer /\ Told' \subseteq Told
    BY <1>0, <1>1, <1>4, PressOnce DEF Told
  <2> QED
    BY <1>0, <1>1, <1>4, <2>1, RecordedFewer
<1> QED
  BY <1>3, <1>4

(* An arrival starts the next try.                                          *)
LEMMA RecordedArrives ==
    ASSUME CastingInv, Recorded, ClientArrives, ~ disturbed'
    PROVE  Recorded'
<1>0. Base /\ Once /\ Sending
  BY DEF CastingInv
<1> DEFINE rest == Tail(events)
           c == Head(events).conn
<1>1. /\ events # <<>> /\ Head(events).kind = "client" /\ UNCHANGED <<chain, official, replies>>
      /\ \/ /\ popup.open /\ Busy = {}
            /\ Submit(popup.kind, Presses, Prepared(popup.kind), pending, c, rest)
         \/ events' = rest /\ Still /\ tries' = tries
  BY DEF ClientArrives, Still, SubmitNothing, Submit
<1>2. rest \in Seq(Event) /\ c \in Conns /\ events \in Seq(Event)
  BY <1>0, <1>1, ArrivalFacts DEF Base, BridgeTypes
<1>3. OnceOf(pendingRequests, rest) /\ Fewer(pendingRequests, events, pendingRequests, rest)
  BY <1>0, <1>1, <1>2, TailAsked DEF Once
<1>4. popup.kind \in {"cast", "revoke"} /\ Presses \in Nat /\ Prepared(popup.kind) \in Decisions
  BY <1>0, PressesAreNat, PreparedFacts DEF Base, AppTypes
<1> HIDE DEF c
<1>5. ASSUME Busy = {}, Submit(popup.kind, Presses, Prepared(popup.kind), pending, c, rest) PROVE Recorded'
  <2> HIDE DEF rest
  <2>1. AskedNow(Try(Len(tries) + 1), "balances", rest)
    BY <1>0, <1>2, <1>3, <1>5, SubmitAsked
  <2>2. AskedOf(pendingRequests, rest) = {}
    BY <1>3, <1>5, NobodyBusy DEF Fewer
  <2> DEFINE press == Presses
             kind == popup.kind
             p == Prepared(popup.kind)
  <2>3. press \in Nat /\ kind \in {"cast", "revoke"} /\ p \in Decisions /\ Submit(kind, press, p, pending, c, rest)
    BY <1>4, <1>5
  <2> HIDE DEF press, kind, p
  <2> QED
    BY <1>0, <1>1, <1>2, <2>1, <2>2, <2>3, RecordedSubmit
<1>6. ASSUME events' = rest, Still, tries' = tries PROVE Recorded'
  <2>1. StillFewer
    BY <1>0, <1>1, <1>6, QuietAsked
  <2>2. Told' \subseteq Told
    BY <1>1, <1>2, <1>6, ToldTail DEF Told
  <2> QED
    BY <1>0, <1>1, <1>6, <2>1, <2>2, RecordedFewer
<1> QED
  BY <1>1, <1>5, <1>6

(* A try fails.                                                             *)
LEMMA RecordedFails ==
    ASSUME Recorded, ChainOf(chain, tries), Told' = {}, Asked' = {}, UNCHANGED <<chain, official>>,
           NEW n \in DOMAIN tries, Alike(tries, tries'), Outcome(tries, tries', n, "rejected")
    PROVE  Recorded'
<1> DEFINE us == tries'
<1>1. DOMAIN us = DOMAIN tries /\ us[n].outcome = "rejected" /\ \A m \in DOMAIN tries : m # n => us[m].outcome = tries[m].outcome
  BY DEF Alike, Outcome
<1> HIDE DEF us
<1>2. \A m \in DOMAIN us : us[m].outcome = "resolved" => OnChain(chain, m)
  BY <1>1 DEF Recorded
<1>3. AllResolved(chain, us) => AllResolved(chain, tries)
  <2>1. \A m \in DOMAIN tries : us[m].outcome = "resolved" => tries[m].outcome = "resolved"
    BY <1>1
  <2> QED
    BY <2>1 DEF AllResolved, ChainOf
<1>4. OnRecord' = OnRecord
  BY DEF OnRecord
<1> QED
  BY <1>2, <1>3, <1>4 DEF Recorded, us

(* A try succeeds: what it noted is the newest on the chain, unless the     *)
(* chain holds something the app has not heard of.                          *)
LEMMA RecordedSucceeds ==
    ASSUME Recorded, ChainOf(chain, tries), Noted(tries), chain \in Seq(Entry), Told' = {}, Asked' = {}, chain' = chain,
           NEW n \in DOMAIN tries, Alike(tries, tries'), Outcome(tries, tries', n, "resolved"),
           official' = tries[n].snapshot, Newest(chain, tries, n)
    PROVE  Recorded'
<1> DEFINE us == tries'
<1>1. DOMAIN us = DOMAIN tries /\ us[n].outcome = "resolved" /\ \A m \in DOMAIN tries : m # n => us[m].outcome = tries[m].outcome
  BY DEF Alike, Outcome
<1> HIDE DEF us
<1>2. PICK i \in DOMAIN chain :
         /\ chain[i].try = n
         /\ \A j \in DOMAIN chain : i < j => chain[j].try # 0 /\ tries[chain[j].try].outcome # "resolved"
  BY DEF Newest
<1>3. \A m \in DOMAIN us : us[m].outcome = "resolved" => OnChain(chain, m)
  BY <1>1, <1>2 DEF Recorded, OnChain
<1>4. ASSUME AllResolved(chain, us) PROVE official' \in {NoDecision, OnRecord}
  <2>1. DOMAIN chain = 1 .. Len(chain) /\ Len(chain) \in Nat
    OBVIOUS
  <2>2. ASSUME NEW j \in DOMAIN chain, i < j PROVE FALSE
    <3>1. chain[j].try # 0 /\ chain[j].try \in DOMAIN tries /\ tries[chain[j].try].outcome # "resolved"
      BY <1>2, <2>2 DEF ChainOf
    <3>2. chain[j].try # n
      BY <1>2, <2>1, <2>2, <3>1 DEF ChainOf
    <3>3. us[chain[j].try].outcome = "resolved"
      BY <1>4, <3>1 DEF AllResolved
    <3> QED
      BY <1>1, <3>1, <3>2, <3>3
  <2>3. i = Len(chain) /\ chain # <<>>
    <3>1. ~ (i < Len(chain))
      BY <2>1, <2>2
    <3> QED
      BY <2>1, <3>1
  <2>4. n # 0
    <3>1. n \in DOMAIN us /\ us \in Seq(TryRecord)
      BY <1>1 DEF Alike, us
    <3> QED
      BY <3>1
  <2>5. chain[i].decision = tries[n].cast /\ tries[n].conn # 0
    BY <1>2, <2>4 DEF ChainOf
  <2>6. OnRecord = tries[n].snapshot
    BY <2>3, <2>5 DEF OnRecord, Last, Noted
  <2> QED
    BY <2>6
<1>5. OnRecord' = OnRecord
  BY DEF OnRecord
<1> QED
  BY <1>3, <1>4, <1>5 DEF Recorded, us

(* The wallet answers; if it was asked to broadcast, the chain grows.       *)
LEMMA ChainGrows ==
    ASSUME Base, Sending, NEW q \in inbox, q.method = "broadcast",
           NEW ch, ch = Append(chain, [try |-> q.owner.n, decision |-> tries[q.owner.n].cast])
    PROVE  /\ q.owner.part = "try" /\ q.owner.n \in DOMAIN tries /\ q.owner.n # 0
           /\ ~ OnChain(chain, q.owner.n)
           /\ Len(chain) \in Nat /\ DOMAIN chain = 1 .. Len(chain) /\ DOMAIN ch = 1 .. Len(chain) + 1
           /\ \A i \in DOMAIN chain : ch[i] = chain[i]
           /\ ch[Len(chain) + 1].try = q.owner.n
<1> DEFINE k == q.owner.n
           entry == [try |-> k, decision |-> tries[k].cast]
<1>1. q \in Broadcasts(inbox) /\ q.owner \in [part : {"try", "cancel", "feed"}, n : Nat]
  BY DEF Broadcasts, Base, BridgeTypes, Calls
<1>2. q.owner.part = "try" /\ k \in DOMAIN tries /\ tries[k].cast \in Decisions /\ k \in Nat
  BY <1>1 DEF Base, FitCalls, FitsIn
<1>3. k # 0
  BY <1>2, Members DEF Base, AppTypes
<1>4. ~ OnChain(chain, k)
  BY <1>1 DEF Sending, SendingOf
<1>5. entry \in Entry /\ entry.try = k
  BY <1>2 DEF Entry
<1> HIDE DEF entry
<1>6. ch = Append(chain, entry)
  BY DEF entry
<1>7. /\ Len(chain) \in Nat /\ DOMAIN chain = 1 .. Len(chain) /\ DOMAIN ch = 1 .. Len(chain) + 1
      /\ \A i \in 1 .. Len(chain) : ch[i] = chain[i]
      /\ ch[Len(chain) + 1] = entry
  BY <1>5, <1>6, AppendFacts DEF Base, AppTypes
<1> QED
  BY <1>2, <1>3, <1>4, <1>5, <1>7

(* The wallet deals with a call: what the feed is told is on the record, and*)
(* what a try broadcasts becomes the newest.                                *)
LEMMA RecordedAnswered ==
    ASSUME CastingInv, Recorded, NEW q \in inbox, NEW ok \in BOOLEAN, WalletAnswers(q, ok)
    PROVE  Recorded'
<1>0. Base /\ Sending /\ (\A t \in Told : t.call \in Asked)
  BY ToldAsked DEF CastingInv, Told, Asked
<1> DEFINE v == IF q.method = "decision" /\ ok THEN OnRecord ELSE <<>>
           new == [call |-> q, value |-> v]
           ch == chain'
<1>1. /\ UNCHANGED <<tries, official, pendingRequests, events>> /\ Asked' = Asked
      /\ ch = IF q.method = "broadcast" /\ ok
              THEN Append(chain, [try |-> q.owner.n, decision |-> tries[q.owner.n].cast])
              ELSE chain
      /\ replies' = replies \/ replies' = replies \union {[call |-> q, ok |-> ok, value |-> v]}
  BY DEF WalletAnswers, Asked
<1>2. \A t \in Told' : t \in Told \/ (t = new /\ ok)
  <2> DEFINE r == [call |-> q, ok |-> ok, value |-> v]
  <2>1. r.call = q /\ r.ok = ok /\ r.value = v
    OBVIOUS
  <2> HIDE DEF r, v
  <2>2. ToldOf(replies', events) \subseteq ToldOf(replies, events) \union {[call |-> r.call, value |-> r.value] : x \in {y \in {r} : y.ok}}
    BY <1>1 DEF ToldOf, r
  <2> QED
    BY <1>1, <2>1, <2>2 DEF Told
<1>3. new.call = q /\ new.value = v
  OBVIOUS
<1>4. q.owner = Feed => q.method = "decision"
  BY <1>0 DEF Base, FitCalls, FitsIn, Feed
<1>5. q.method = "decision" /\ ok => v = OnRecord
  OBVIOUS
<1> HIDE DEF new, v, ch
<1>6. CASE ~ (q.method = "broadcast" /\ ok)
  <2>1. ch = chain
    BY <1>1, <1>6
  <2>2. \A t \in Told' : t.call.owner = Feed => t.value = OnRecord
    BY <1>2, <1>3, <1>4, <1>5 DEF Recorded
  <2>3. \A t \in Told' : t.call.method = "broadcast" => Newest(chain, tries, t.call.owner.n)
    BY <1>2, <1>3, <1>6 DEF Recorded
  <2>4. OnRecord' = OnRecord
    BY <2>1 DEF OnRecord, ch
  <2> QED
    BY <1>1, <2>1, <2>2, <2>3, <2>4 DEF Recorded, ch
<1>7. CASE q.method = "broadcast" /\ ok
  <2> DEFINE k == q.owner.n
  <2>1. /\ q.owner.part = "try" /\ k \in DOMAIN tries /\ k # 0 /\ ~ OnChain(chain, k)
        /\ Len(chain) \in Nat /\ DOMAIN chain = 1 .. Len(chain) /\ DOMAIN ch = 1 .. Len(chain) + 1
        /\ \A i \in DOMAIN chain : ch[i] = chain[i]
        /\ ch[Len(chain) + 1].try = k
    <3>1. ch = Append(chain, [try |-> q.owner.n, decision |-> tries[q.owner.n].cast])
      BY <1>1, <1>7
    <3> QED
      BY <1>0, <1>7, <3>1, ChainGrows
  <2> HIDE DEF k
  <2>2. tries # <<>> /\ tries[k].outcome # "resolved"
    <3>1. tries \in Seq(TryRecord)
      BY <1>0 DEF Base, AppTypes
    <3> QED
      BY <2>1, <3>1 DEF Recorded
  <2>3. \A x \in Asked : x.owner # Feed
    BY <2>2 DEF Recorded
  <2>4. \A t \in Told' : t.call.owner # Feed
    <3>1. q.owner # Feed
      BY <2>1 DEF Feed
    <3> QED
      BY <1>0, <1>2, <1>3, <2>3, <3>1
  <2>5. \A n : Newest(chain, tries, n) => Newest(ch, tries, n)
    <3> SUFFICES ASSUME NEW n, Newest(chain, tries, n) PROVE Newest(ch, tries, n)
      OBVIOUS
    <3>1. PICK i \in DOMAIN chain :
             /\ chain[i].try = n
             /\ \A j \in DOMAIN chain : i < j => chain[j].try # 0 /\ tries[chain[j].try].outcome # "resolved"
      BY DEF Newest
    <3>2. ASSUME NEW j \in DOMAIN ch, i < j PROVE ch[j].try # 0 /\ tries[ch[j].try].outcome # "resolved"
      <4>1. CASE j \in DOMAIN chain
        BY <2>1, <3>1, <3>2, <4>1
      <4>2. CASE j = Len(chain) + 1
        BY <2>1, <2>2, <4>2
      <4> QED
        BY <2>1, <4>1, <4>2
    <3>3. i \in DOMAIN ch /\ ch[i].try = n
      BY <2>1, <3>1
    <3> QED
      BY <3>2, <3>3 DEF Newest
  <2>6. Newest(ch, tries, k)
    <3>1. Len(chain) + 1 \in DOMAIN ch /\ \A j \in DOMAIN ch : ~ (Len(chain) + 1 < j)
      BY <2>1
    <3> QED
      BY <2>1, <3>1 DEF Newest
  <2>7. \A t \in Told' : t.call.method = "broadcast" => Newest(ch, tries, t.call.owner.n)
    BY <1>2, <1>3, <2>5, <2>6 DEF Recorded, k
  <2>8. \A n \in DOMAIN tries : tries[n].outcome = "resolved" => OnChain(ch, n)
    <3>1. \A n : OnChain(chain, n) => OnChain(ch, n)
      BY <2>1 DEF OnChain
    <3> QED
      BY <3>1 DEF Recorded
  <2>9. ~ AllResolved(ch, tries)
    <3>1. Len(chain) + 1 \in DOMAIN ch
      BY <2>1
    <3> QED
      BY <2>1, <2>2, <3>1 DEF AllResolved
  <2> QED
    BY <1>1, <2>3, <2>4, <2>7, <2>8, <2>9 DEF Recorded, ch
<1> QED
  BY <1>6, <1>7

(* A continuation of the only operation.                                    *)
LEMMA RecordedContinue ==
    ASSUME CastingInv, Recorded, Continue, ~ disturbed
    PROVE  Recorded'
<1> DEFINE e == Head(events)
           rest == Tail(events)
<1>0. Base /\ Once /\ Sending /\ Calm /\ Alone /\ Noted(tries) /\ tries \in Seq(TryRecord) /\ chain \in Seq(Entry)
  BY DEF CastingInv, Calm, Base, AppTypes
<1>1. /\ events # <<>> /\ e.kind = "reply" /\ chain' = chain /\ replies' = replies
      /\ \/ \E n \in DOMAIN tries : \/ TryFails(n, e) \/ TryHasBalances(n, e)
                                    \/ TryHasFees(n, e) \/ TrySucceeds(n, e)
         \/ CancelAnswered(e) \/ FeedAnswered(e)
  BY <1>0, ContinueCases
<1>2. /\ rest \in Seq(Event) /\ AskedOf(pendingRequests, rest) = {}
      /\ e.ok => [call |-> e.call, value |-> e.value] \in Told
  <2>1. e.ok => 1 \in Answers(events) /\ e = events[1]
    BY <1>0, <1>1, HeadReply DEF Answers, Replies
  <2> QED
    BY <1>0, <1>1, <2>1, HeadReply, OnlyOne DEF Told, ToldOf
<1>3. ASSUME Still, events' = rest PROVE Asked' = {} /\ Told' = {}
  <2>1. Asked' = {} /\ Told' = ToldOf(replies, rest)
    BY <1>1, <1>2, <1>3 DEF Asked, Told, Still
  <2>2. ToldOf(replies, rest) = {}
    BY <1>0, <1>2, ToldAsked
  <2> QED
    BY <2>1, <2>2
<1>4. ASSUME NEW n \in DOMAIN tries, TryFails(n, e) PROVE Recorded'
  <2>1. Still /\ events' = rest /\ Report(n, "rejected") /\ official' = official
    BY <1>4 DEF TryFails
  <2>2. Alike(tries, tries') /\ Outcome(tries, tries', n, "rejected")
    BY <1>0, <2>1, ReportFacts DEF Base
  <2> QED
    BY <1>0, <1>1, <1>3, <2>1, <2>2, RecordedFails DEF Sending
<1>5. ASSUME NEW n \in DOMAIN tries, TrySucceeds(n, e) PROVE Recorded'
  <2>1. /\ Still /\ events' = rest /\ Report(n, "resolved") /\ official' = tries[n].snapshot
        /\ e.ok /\ e.call.method = "broadcast" /\ n = e.call.owner.n
    BY <1>5 DEF TrySucceeds
  <2>2. Alike(tries, tries') /\ Outcome(tries, tries', n, "resolved")
    BY <1>0, <2>1, ReportFacts DEF Base
  <2>3. Newest(chain, tries, n)
    BY <1>2, <2>1 DEF Recorded
  <2> QED
    BY <1>0, <1>1, <1>3, <2>1, <2>2, <2>3, RecordedSucceeds DEF Sending
<1>6. ASSUME NEW n \in DOMAIN tries, TryHasBalances(n, e) \/ TryHasFees(n, e) PROVE Recorded'
  <2>1. e.call.owner = Try(n) /\ e.ok /\ official' = official
    BY <1>0, <1>6, OwnerOfTry DEF TryHasBalances, TryHasFees
  <2>2. PICK method \in {"fees", "broadcast"} : BeginCall(client, Try(n), method, rest)
    BY <1>6 DEF TryHasBalances, TryHasFees
  <2>3. AskedNow(Try(n), method, rest)
    BY <1>0, <1>1, <2>1, <2>2, GoesOnAsked
  <2>4. client \in Conns
    <3>1. client = e.call.conn /\ e.call \in Calls
      BY <1>0, <1>1, <2>1, HeadReply
    <3> QED
      BY <3>1 DEF Calls
  <2> DEFINE us == tries'
             o == Try(n)
             d == Canonical(pending)
  <2>5. SameEnds(tries, us)
    <3>1. CASE us = tries
      BY <3>1 DEF SameEnds
    <3>2. CASE us = [tries EXCEPT ![n].cast = d, ![n].conn = client]
      <4>1. d \in Decisions /\ client \in Nat
        BY <1>0, DecisionFacts, BridgeAssumption DEF Base, AppTypes, BridgeTypes
      <4> HIDE DEF us, d
      <4>2. CastIn(tries, us, n, d, client)
        BY <1>0, <3>2, <4>1, CastSet
      <4> QED
        BY <4>2 DEF CastIn, SameEnds
    <3> QED
      BY <1>6, <3>1, <3>2 DEF TryHasBalances, TryHasFees
  <2>6. o \in Owners /\ o # Feed
    <3>1. n \in Nat
      BY <1>0
    <3> QED
      BY <3>1 DEF Try, Feed, Owners
  <2>7. BeginCall(client, o, method, rest) /\ AskedNow(o, method, rest)
    BY <2>2, <2>3
  <2> HIDE DEF o, us, rest
  <2> QED
    BY <1>0, <1>1, <1>2, <2>1, <2>4, <2>5, <2>6, <2>7, RecordedAsks DEF us
<1>7. SameEnds(tries, tries)
  BY DEF SameEnds
<1>8. ASSUME CancelAnswered(e) PROVE Recorded'
  <2>1. Still /\ events' = rest /\ UNCHANGED <<tries, official>>
    BY <1>8 DEF CancelAnswered
  <2> QED
    BY <1>0, <1>1, <1>3, <1>7, <2>1, RecordedKept
<1>9. ASSUME FeedAnswered(e) PROVE Recorded'
  <2>1. Still /\ events' = rest /\ tries' = tries /\ e.call.owner = Feed
        /\ official' = IF e.ok THEN e.value ELSE official
    BY <1>9 DEF FeedAnswered
  <2>2. e.ok => e.value = OnRecord
    BY <1>2, <2>1 DEF Recorded
  <2>3. AllResolved(chain, tries) => official' \in {NoDecision, OnRecord}
    BY <2>1, <2>2 DEF Recorded
  <2>4. OnRecord' = OnRecord /\ Asked' = {} /\ Told' = {}
    BY <1>1, <1>3, <2>1 DEF OnRecord
  <2> QED
    BY <1>1, <2>1, <2>3, <2>4 DEF Recorded
<1> QED
  BY <1>1, <1>4, <1>5, <1>6, <1>8, <1>9

(* Every step keeps the record.                                             *)
LEMMA StepRecorded ==
    ASSUME CastingInv, RecordInv, [Next]_vars
    PROVE  RecordInv'
<1>0. Base /\ Once /\ Sending
  BY DEF CastingInv
<1> SUFFICES ASSUME ~ disturbed' PROVE Recorded'
  BY DEF RecordInv
<1>1. ~ disturbed
  <2>1. ASSUME UNCHANGED disturbed PROVE ~ disturbed
    BY <2>1
  <2>2. ASSUME disturbed' = (disturbed \/ Busy # {}) PROVE ~ disturbed
    BY <2>2
  <2>3. ASSUME NEW kind \in {"cast", "revoke"}, Press(kind) PROVE ~ disturbed
    BY <2>1, <2>2, <2>3 DEF Press, Submit
  <2>4. ASSUME ClientArrives PROVE ~ disturbed
    BY <2>1, <2>2, <2>4 DEF ClientArrives, Submit
  <2>5. ASSUME Continue \/ WalletLost PROVE ~ disturbed
    BY <2>1, <2>5 DEF Continue, WalletLost
  <2>6. ASSUME ShowContest \/ PressCancel PROVE ~ disturbed
    BY <2>2, <2>6 DEF ShowContest, PressCancel
  <2>7. CASE \/ \E o \in Opinions : Choose(o)
             \/ Receive \/ WalletConnects
             \/ \E q \in inbox, ok \in BOOLEAN : WalletAnswers(q, ok)
             \/ QueuedLost \/ BackendLost \/ \E up \in BOOLEAN : BackendSettles(up)
             \/ UNCHANGED vars
    BY <2>1, <2>7 DEF Choose, Receive, WalletConnects, WalletAnswers, QueuedLost, BackendLost,
                      BackendSettles, vars, appVars
  <2> QED
    BY <2>3, <2>4, <2>5, <2>6, <2>7 DEF Next
<1>2. Recorded
  BY <1>1 DEF RecordInv
<1>3. CASE ShowContest \/ PressCancel
  <2>1. /\ UNCHANGED <<chain, official, replies, tries>> /\ Busy = {}
        /\ ShowContest => tries = <<>>
    <3>1. UNCHANGED <<chain, official, replies, tries>> /\ disturbed' = (disturbed \/ Busy # {})
      BY <1>3 DEF ShowContest, PressCancel
    <3>2. ShowContest => tries = <<>>
      BY <1>0 DEF ShowContest, Base, FitPopup
    <3> QED
      BY <3>1, <3>2
  <2>2. AskedOf(pendingRequests, events) = {} /\ events \in Seq(Event) /\ SameEnds(tries, tries')
    BY <1>0, <2>1, NobodyBusy DEF Base, BridgeTypes, SameEnds
  <2>3. ASSUME ShowContest PROVE Recorded'
    <3>1. /\ Feed \in Owners /\ client \in Conns /\ BeginCall(client, Feed, "decision", events)
          /\ AskedNow(Feed, "decision", events)
      BY <1>0, <2>3, ShowAsked, BridgeAssumption DEF ShowContest, Feed, Owners, Base, BridgeTypes, Conns
    <3> QED
      BY <1>0, <1>2, <2>1, <2>2, <2>3, <3>1, RecordedAsks
  <2>4. ASSUME PressCancel PROVE Recorded'
    <3> DEFINE o == Cancel(cancels + 1)
    <3>1. BeginCall(client, o, "decision", events) /\ AskedNow(o, "decision", events)
      BY <1>0, <2>4, PressCancelAsked DEF PressCancel
    <3>2. client \in Conns
      BY <1>0, <2>4, BridgeAssumption DEF PressCancel, Base, BridgeTypes, FitPopup, Conns
    <3>3. o \in Owners /\ o # Feed
      BY <1>0, CastingAssumption DEF Base, AppTypes, Cancel, Feed, Owners
    <3> HIDE DEF o
    <3> QED
      BY <1>0, <1>2, <2>1, <2>2, <3>1, <3>2, <3>3, RecordedAsks
  <2> QED
    BY <1>3, <2>3, <2>4
<1>4. CASE Receive \/ WalletConnects
  <2>1. StillFewer /\ Told' \subseteq Told /\ UNCHANGED <<chain, official, tries>>
    BY <1>0, <1>4, ReceiveAsked, OpensAsked, ReceiveTold, OpensTold DEF Receive, WalletConnects, appVars
  <2> QED
    BY <1>0, <1>2, <2>1, RecordedFewer
<1>5. CASE WalletLost
  <2>1. StillFewer /\ Told' \subseteq Told
    BY <1>0, <1>5, LostAsked, LostTold
  <2>2. /\ UNCHANGED <<chain, official>>
        /\ Alike(tries, tries') /\ SameOutcomes(tries, tries')
    BY <1>0, <1>5, LostFacts
  <2> QED
    BY <1>0, <1>2, <2>1, <2>2, RecordedFewer
<1>6. CASE \/ \E o \in Opinions : Choose(o)
           \/ QueuedLost \/ BackendLost \/ \E up \in BOOLEAN : BackendSettles(up)
           \/ UNCHANGED vars
  <2>1. UNCHANGED <<pendingRequests, events, inbox, replies, tries, chain, official>>
    BY <1>6 DEF Choose, QueuedLost, QueuedConnectionLost, BackendLost, BackendSettles,
                vars, bridgeVars, appVars
  <2>2. StillFewer /\ Told' \subseteq Told
    BY <1>0, <2>1, SameAsked DEF Told
  <2> QED
    BY <1>0, <1>2, <2>1, <2>2, RecordedFewer
<1> QED
  BY <1>1, <1>2, <1>3, <1>4, <1>5, <1>6, RecordedPress, RecordedArrives, RecordedContinue, RecordedAnswered DEF Next

(* When all is quiet the official decision is the newest one on the chain,  *)
(* unless operations overlapped or a transaction of the app's own went on   *)
(* the chain without the app's hearing of it.                               *)
THEOREM RecordShownHolds == Spec => []RecordShown
<1>1. Init => RecordInv
  <2> SUFFICES ASSUME Init PROVE Recorded
    BY DEF RecordInv
  <2>1. Asked = {} /\ Told = {} /\ tries = <<>> /\ official = NoDecision
    BY DEF Init, BridgeInit, Asked, AskedOf, Told, ToldOf, Replies, Answers
  <2> QED
    BY <2>1 DEF Recorded
<1>2. RecordInv /\ CastingInv /\ [Next]_vars => RecordInv'
  BY StepRecorded
<1>3. Spec => []RecordInv
  BY <1>1, <1>2, CastingInvHolds, PTL DEF Spec
<1>4. RecordInv => RecordShown
  BY DEF RecordInv, Recorded, AllResolved, RecordShown
<1> QED
  BY <1>3, <1>4, PTL
=============================================================================
