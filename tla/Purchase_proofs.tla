-------------------------- MODULE Purchase_proofs --------------------------
(***************************************************************************)
(* Theorems about Purchase, for every choice of its constants: its types,  *)
(* that no contest is published that was not paid for, and that money is   *)
(* only kept without a word of a buyer whose price was raised meanwhile.   *)
(*                                                                         *)
(* The invariant follows the price of a checkout from the server to the    *)
(* dialog: the prices on their way form a chain, each one fee above the    *)
(* one before, from the price that is shown to the one that is due, so     *)
(* that a payment tells how many questions for prices were answered when   *)
(* it was made.                                                            *)
(***************************************************************************)
EXTENDS Purchase, SumLemmas

-----------------------------------------------------------------------------
(* Prices                                                                  *)

PriceOf(k) == CASE k = 3 -> Price("contestant3")
                [] k = 4 -> Price("contestant4")
                [] k = 5 -> Price("contestant5")
                [] k = 6 -> Price("contestant6")
                [] OTHER -> Price("contestant7Plus")

PriceTable == [k \in Nat |-> PriceOf(k)]

ListUnfolds(it, S) ==
    it = [T \in SUBSET S |-> IF T = {} THEN 0 ELSE PriceOf(Picked(T)) + it[T \ {Picked(T)}]]

ListFold(S) == CHOOSE it : ListUnfolds(it, S)

\* Every price is a number.
LEMMA PricesAreNumbers ==
    /\ \A i : Price(i) \in Nat
    /\ \A k : PriceOf(k) \in Nat
<1>1. ASSUME NEW i PROVE Price(i) \in Nat
  BY PurchaseAssumption DEF Price
<1>2. ASSUME NEW k PROVE PriceOf(k) \in Nat
  <2>1. /\ Price("contestant3") \in Nat /\ Price("contestant4") \in Nat
        /\ Price("contestant5") \in Nat /\ Price("contestant6") \in Nat
        /\ Price("contestant7Plus") \in Nat
    BY <1>1
  <2> QED
    BY <2>1, Zenon DEF PriceOf
<1> QED
  BY <1>1, <1>2

\* The price list, with the sum as the fold that it is.
LEMMA ListPriceFolds ==
    ASSUME NEW r
    PROVE  ListPrice(r) =
               Price("contestTypeOneOfN") + Price("pluralityTally")
                   + (IF r.end = "never" THEN Price("infiniteDurationContest") ELSE 0)
                   + ListFold(3 .. r.contestants)[3 .. r.contestants]
BY Zenon DEF ListPrice, MapThenSumSet, MapThenFoldSet, ListFold, ListUnfolds, Picked, PriceOf

\* That fold adds up the prices of the contestants, in any order.
LEMMA ListFoldIsSum ==
    ASSUME NEW n \in Nat
    PROVE  ListFold(3 .. n)[3 .. n] = SumOver(PriceTable, 3 .. n)
<1> DEFINE S == 3 .. n
<1>1. IsFiniteSet(S) /\ S \subseteq Nat
  BY FS_Interval
<1>2. Numeric(PriceTable, S)
  BY PricesAreNumbers, <1>1 DEF Numeric, PriceTable
<1>3. PICK g : Additive(g, PriceTable, S)
  BY <1>1, <1>2, AdditiveExists
<1>4. Unfolds(g, PriceTable, S)
  BY <1>3, AdditiveUnfolds
<1> HIDE DEF S
<1>5. ASSUME NEW it
      PROVE  /\ ListUnfolds(it, S) => Unfolds(it, PriceTable, S)
             /\ Unfolds(it, PriceTable, S) => ListUnfolds(it, S)
  <2>1. ASSUME NEW T \in SUBSET S, T # {} PROVE PriceTable[Picked(T)] = PriceOf(Picked(T))
    <3>1. Picked(T) \in T
      BY <2>1 DEF Picked
    <3> QED
      BY <1>1, <3>1 DEF PriceTable
  <2> QED
    BY <2>1 DEF ListUnfolds, Unfolds
<1>6. ListUnfolds(ListFold(S), S)
  BY <1>4, <1>5, Zenon DEF ListFold
<1>7. ListFold(S)[S] = g[S]
  BY <1>1, <1>3, <1>5, <1>6, UnfoldsAdditive
<1>8. SumOver(PriceTable, S) = g[S]
  BY <1>1, <1>3, SumIsAdditive
<1> QED
  BY <1>7, <1>8 DEF S

\* The multiples of a number.
LEMMA Multiples ==
    ASSUME NEW p \in Nat, NEW k \in Nat, NEW l \in Nat
    PROVE  /\ p * k \in Nat
           /\ p * (k + 1) = p * k + p
           /\ k <= l => p * k <= p * l
<1>1. p * k \in Nat /\ p * (k + 1) = p * k + p
  OBVIOUS
<1>2. ASSUME k <= l PROVE p * k <= p * l
  <2> DEFINE d == l - k
  <2>1. d \in Nat /\ l = k + d
    BY <1>2
  <2> HIDE DEF d
  <2>2. p * l = p * k + p * d /\ p * d \in Nat
    BY <2>1
  <2> QED
    BY <1>1, <2>2
<1> QED
  BY <1>1, <1>2

\* The switch adds what the price list says of each contestant.
LEMMA ContestantsPriceIsSum ==
    ASSUME NEW n \in Nat
    PROVE  SumOver(PriceTable, 3 .. n) = ContestantsPrice(n)
<1> DEFINE C == {m \in Nat : SumOver(PriceTable, 3 .. m) # ContestantsPrice(m)}
<1> SUFFICES ASSUME C # {} PROVE FALSE
  OBVIOUS
<1>1. PICK m \in C : \A k \in C : ~ (k < m)
  <2>1. C \subseteq Nat
    OBVIOUS
  <2> HIDE DEF C
  <2> QED
    BY <2>1, SmallestNumber
<1>2. m \in Nat
  OBVIOUS
<1>3. CASE m < 3
  <2>1. 3 .. m = {}
    BY <1>2, <1>3
  <2>2. ContestantsPrice(m) = 0
    BY <1>2, <1>3 DEF ContestantsPrice
  <2> QED
    BY <2>1, <2>2, SumOfNothing
<1>4. CASE m >= 3
  <2>1. m - 1 \in Nat /\ m - 1 \notin C
    BY <1>1, <1>2, <1>4
  <2>2. SumOver(PriceTable, 3 .. m - 1) = ContestantsPrice(m - 1)
    BY <2>1
  <2>3. IsFiniteSet(3 .. m) /\ m \in 3 .. m /\ (3 .. m) \ {m} = 3 .. m - 1
    <3>1. IsFiniteSet(3 .. m) /\ m \in 3 .. m
      BY <1>2, <1>4, FS_Interval
    <3>2. (3 .. m) \ {m} = 3 .. m - 1
      BY <1>2, <1>4
    <3> QED
      BY <3>1, <3>2
  <2>4. Numeric(PriceTable, 3 .. m) /\ PriceTable[m] = PriceOf(m)
    BY PricesAreNumbers, <1>2 DEF Numeric, PriceTable
  <2>5. SumOver(PriceTable, 3 .. m) = PriceOf(m) + ContestantsPrice(m - 1)
    BY <2>2, <2>3, <2>4, SumTakesOut
  <2> DEFINE p3 == Price("contestant3")  p4 == Price("contestant4")
             p5 == Price("contestant5")  p6 == Price("contestant6")
             p7 == Price("contestant7Plus")
  <2>6. p3 \in Nat /\ p4 \in Nat /\ p5 \in Nat /\ p6 \in Nat /\ p7 \in Nat
    BY PricesAreNumbers
  <2>7. /\ m = 3 => PriceOf(m) = p3
        /\ m = 4 => PriceOf(m) = p4
        /\ m = 5 => PriceOf(m) = p5
        /\ m = 6 => PriceOf(m) = p6
        /\ m > 6 => PriceOf(m) = p7
    BY <1>2 DEF PriceOf
  <2>8. \A k \in Nat : ContestantsPrice(k) =
            (IF k > 6 THEN (k - 6) * p7 ELSE 0) + (IF k >= 6 THEN p6 ELSE 0)
                + (IF k >= 5 THEN p5 ELSE 0) + (IF k >= 4 THEN p4 ELSE 0)
                + (IF k >= 3 THEN p3 ELSE 0)
    BY DEF ContestantsPrice
  <2> HIDE DEF p3, p4, p5, p6, p7
  <2>9. CASE m <= 6
    <3>1. m = 3 \/ m = 4 \/ m = 5 \/ m = 6
      BY <1>2, <1>4, <2>9
    <3>2. /\ ContestantsPrice(2) = 0
          /\ ContestantsPrice(3) = p3
          /\ ContestantsPrice(4) = p4 + p3
          /\ ContestantsPrice(5) = p5 + p4 + p3
          /\ ContestantsPrice(6) = p6 + p5 + p4 + p3
      BY <2>6, <2>8
    <3> QED
      BY <2>5, <2>6, <2>7, <3>1, <3>2
  <2>10. CASE m = 7
    BY <1>2, <2>1, <2>5, <2>6, <2>7, <2>8, <2>10
  <2>11. CASE m > 7
    <3>1. (m - 6) * p7 = (m - 7) * p7 + p7
      BY <1>2, <2>6
    <3>2. (m - 7) * p7 \in Nat /\ (m - 1) - 6 = m - 7
      BY <1>2, <2>6, <2>11
    <3>3. ContestantsPrice(m - 1) = (m - 7) * p7 + p6 + p5 + p4 + p3
      BY <1>2, <2>1, <2>8, <2>11, <3>2
    <3>4. ContestantsPrice(m) = (m - 6) * p7 + p6 + p5 + p4 + p3
      BY <1>2, <2>8, <2>11
    <3> QED
      BY <1>2, <2>5, <2>6, <2>7, <2>11, <3>1, <3>2, <3>3, <3>4
  <2> QED
    BY <1>2, <1>4, <2>9, <2>10, <2>11
<1> QED
  BY <1>2, <1>3, <1>4

\* What the server asks for a contest is what the price list says.
LEMMA ListPriceIsContestPrice ==
    ASSUME NEW r \in RequestType
    PROVE  /\ ListPrice(r) = ContestPrice(r)
           /\ ContestPrice(r) \in Nat
<1>1. r.contestants \in Nat
  BY DEF RequestType
<1> DEFINE n == r.contestants
           a == Price("contestTypeOneOfN") + Price("pluralityTally")
           e == IF r.end = "never" THEN Price("infiniteDurationContest") ELSE 0
           s == ContestantsPrice(n)
<1>2. ListPrice(r) = a + e + s
  BY <1>1, ListPriceFolds, ListFoldIsSum, ContestantsPriceIsSum
<1>3. ContestPrice(r) = a + s + e
  BY DEF ContestPrice
<1>4. a \in Nat /\ e \in Nat
  BY PricesAreNumbers
<1>5. s \in Nat
  <2>0. IsFiniteSet(3 .. n) /\ 3 .. n \subseteq Nat
    BY <1>1, FS_Interval
  <2>1. \A k \in 3 .. n : PriceTable[k] \in Nat
    BY <2>0, PricesAreNumbers DEF PriceTable
  <2>2. SumOver(PriceTable, 3 .. n) \in Nat
    BY <2>0, <2>1, SumOfNats
  <2> QED
    BY <1>1, <2>2, ContestantsPriceIsSum
<1> HIDE DEF n, a, e, s
<1> QED
  BY <1>2, <1>3, <1>4, <1>5
-----------------------------------------------------------------------------
(* The inductive invariant                                                 *)

CallType == {"purchaseContest", "subscribe", "complete", "prices"}

AnswerType == [type : {"notify", "complete"}, value : BOOLEAN]
                  \cup [type : {"prices"}, value : Nat]
                  \cup [type : {"failure"}, value : CallType]

QuoteType == [amount : Nat, answered : Nat \ {0}]

TransferType == [memo : Checkouts, amount : Nat, answered : Nat \ {0},
                 state : {"sent", "ignored", "failed", "broadcast", "done"}]

PayingType == [checkout : Checkouts, amount : Nat, answered : Nat \ {0}, sent : BOOLEAN]

\* The state of the dialogs, the server and the messages keeps its shape.
TypeOK ==
    /\ request \in [Checkouts -> Requests \cup {None}]
    /\ purchase \in [Checkouts -> {"none", "selling", "refused"}]
    /\ votePrice \in [Checkouts -> Nat]
    /\ completed \in [Checkouts -> BOOLEAN]
    /\ listening \in [Checkouts -> BOOLEAN]
    /\ broadcasts \in [Checkouts -> Nat]
    /\ transfers \in Seq(TransferType)
    /\ toServer \in [Checkouts -> Seq(CallType)]
    /\ toApi \in [Checkouts -> Seq(AnswerType)]
    /\ complete \in [Checkouts -> BOOLEAN]
    /\ page \in BOOLEAN
    /\ dialog \in [Checkouts -> {"none", "opening", "open", "closed", "gone"}]
    /\ quote \in [Checkouts -> QuoteType \cup {None}]
    /\ asked \in [Checkouts -> Nat]
    /\ waiting \in [Checkouts -> BOOLEAN]
    /\ paying \in PayingType \cup {None}

\* The fee that each question for prices adds, and what they come to.
Fee(r) == IF oversized(r) THEN DataFee ELSE 0
Total(r, k) == ContestPrice(r) + Fee(r) * k

Submission == <<"purchaseContest", "subscribe", "complete">>

\* The calls of a checkout that the server has not taken: the last few of the
\* submission, and then questions for prices.
Calls(ts, left) ==
    /\ left <= Len(ts)
    /\ \A i \in 1 .. Len(ts) :
           ts[i] = IF i <= left THEN Submission[3 - left + i] ELSE "prices"

Quotes(ta) == {i \in DOMAIN ta : ta[i].type = "prices"}

\* The prices on their way lead from the one that is shown, q, in steps of the
\* fee f to the one at the server, v.
Chain(ta, q, f, v) ==
    /\ \A i \in Quotes(ta) : ta[i].value \in Nat /\ ta[i].value <= v
    /\ \A i, j \in Quotes(ta) : i < j => ta[i].value + f <= ta[j].value
    /\ \A j \in Quotes(ta) :
           \/ ta[j].value = q + f
           \/ \E i \in Quotes(ta) : i < j /\ ta[j].value = ta[i].value + f
    /\ v = q \/ \E i \in Quotes(ta) : v = ta[i].value

Shown(r, q) == IF q = None THEN ContestPrice(r) ELSE q.amount

\* A checkout: its request r, the purchase p at the server and its price v, the
\* calls ts and the answers ta on their way, the quote q that the dialog shows
\* and the number n of its questions for prices.
Selling(r, p, v, ts, ta, q, n) ==
    \E left \in 0 .. 3 :
        /\ Calls(ts, left)
        /\ p = "none" <=> left = 3
        /\ Len(ts) - left <= n
        /\ p = "none" => n = Len(ts) - left
        /\ p = "selling" => /\ v = Total(r, n - (Len(ts) - left))
                            /\ Chain(ta, Shown(r, q), Fee(r), v)

Coherent(r, p, v, ts, ta, q, n) ==
    /\ r = None => p = "none" /\ ts = <<>> /\ ta = <<>> /\ n = 0
    /\ r # None => Selling(r, p, v, ts, ta, q, n)
    /\ p # "selling" => q = None /\ Quotes(ta) = {}
    /\ q # None => q.amount = Total(r, q.answered)

Agreed == \A c \in Checkouts :
    Coherent(request[c], purchase[c], votePrice[c], toServer[c], toApi[c], quote[c], asked[c])

Submitted == \A c \in Checkouts : dialog[c] = "none" <=> request[c] = None

\* Whoever pays was shown a price, and pays it.
Backed(c, amount, answered) ==
    /\ purchase[c] = "selling" /\ request[c] # None
    /\ amount = Total(request[c], answered)

Paid(c) == {i \in DOMAIN transfers : /\ transfers[i].memo = c
                                     /\ transfers[i].state \in {"broadcast", "done"}}

Payments ==
    /\ \A i \in DOMAIN transfers :
           Backed(transfers[i].memo, transfers[i].amount, transfers[i].answered)
    /\ paying # None => Backed(paying.checkout, paying.amount, paying.answered)

Published == \A c \in Checkouts : broadcasts[c] <= Cardinality(Paid(c))

PurchaseInv ==
    /\ TypeOK
    /\ Submitted
    /\ Agreed
    /\ Payments
    /\ Published
    /\ KeyValid => IgnoredOnlyIfRepriced
-----------------------------------------------------------------------------
(* Sequences of calls and answers                                          *)

\* A sequence without its first member.
LEMMA TailFacts ==
    ASSUME NEW S, NEW s \in Seq(S), s # <<>>
    PROVE  /\ Len(s) \in Nat /\ Len(s) >= 1 /\ Head(s) = s[1] /\ Head(s) \in S
           /\ Tail(s) \in Seq(S) /\ Len(Tail(s)) = Len(s) - 1
           /\ \A i \in 1 .. Len(s) - 1 : Tail(s)[i] = s[i + 1]
OBVIOUS

\* A sequence with one more member.
LEMMA AppendFacts ==
    ASSUME NEW S, NEW s \in Seq(S), NEW e \in S
    PROVE  /\ Len(s) \in Nat /\ Append(s, e) \in Seq(S) /\ Len(Append(s, e)) = Len(s) + 1
           /\ \A i \in 1 .. Len(s) : Append(s, e)[i] = s[i]
           /\ Append(s, e)[Len(s) + 1] = e
OBVIOUS

\* The server takes the next call.
LEMMA CallsTail ==
    ASSUME NEW ts \in Seq(CallType), ts # <<>>, NEW left \in 0 .. 3, Calls(ts, left)
    PROVE  /\ Head(ts) = IF left = 0 THEN "prices" ELSE Submission[4 - left]
           /\ Calls(Tail(ts), IF left = 0 THEN 0 ELSE left - 1)
<1>1. /\ Len(ts) \in Nat /\ Len(ts) >= 1 /\ Head(ts) = ts[1]
      /\ Len(Tail(ts)) = Len(ts) - 1
      /\ \A i \in 1 .. Len(ts) - 1 : Tail(ts)[i] = ts[i + 1]
  BY TailFacts
<1>2. left <= Len(ts) /\ \A i \in 1 .. Len(ts) :
          ts[i] = IF i <= left THEN Submission[3 - left + i] ELSE "prices"
  BY DEF Calls
<1>3. Head(ts) = IF left = 0 THEN "prices" ELSE Submission[4 - left]
  <2>1. 1 \in 1 .. Len(ts) /\ (1 <= left <=> left # 0) /\ 3 - left + 1 = 4 - left
    BY <1>1
  <2> QED
    BY <1>1, <1>2, <2>1
<1> DEFINE less == IF left = 0 THEN 0 ELSE left - 1
<1>4. less \in 0 .. 3 /\ less <= Len(ts) - 1
  BY <1>1, <1>2
<1>5. ASSUME NEW i \in 1 .. Len(ts) - 1
      PROVE  Tail(ts)[i] = IF i <= less THEN Submission[3 - less + i] ELSE "prices"
  <2>1. i + 1 \in 1 .. Len(ts) /\ Tail(ts)[i] = ts[i + 1]
    BY <1>1
  <2>2. (i + 1 <= left) <=> (i <= less)
    BY <1>1
  <2>3. left # 0 => 3 - left + (i + 1) = 3 - less + i
    BY <1>1
  <2>4. i <= less => left # 0
    BY <1>1
  <2> QED
    BY <1>2, <2>1, <2>2, <2>3, <2>4
<1> HIDE DEF less
<1>6. Calls(Tail(ts), less)
  BY <1>1, <1>4, <1>5 DEF Calls
<1> QED
  BY <1>3, <1>6 DEF less

\* A question for prices is sent.
LEMMA CallsSend ==
    ASSUME NEW ts \in Seq(CallType), NEW left \in 0 .. 3, Calls(ts, left)
    PROVE  /\ ts \o <<"prices">> \in Seq(CallType)
           /\ Len(ts \o <<"prices">>) = Len(ts) + 1
           /\ Calls(ts \o <<"prices">>, left)
<1> DEFINE t == Append(ts, "prices")
<1>1. "prices" \in CallType
  BY DEF CallType
<1>2. ts \o <<"prices">> = t
  BY <1>1
<1>3. /\ Len(ts) \in Nat /\ t \in Seq(CallType) /\ Len(t) = Len(ts) + 1
      /\ \A i \in 1 .. Len(ts) : t[i] = ts[i]
      /\ t[Len(ts) + 1] = "prices"
  BY <1>1, AppendFacts
<1> HIDE DEF t
<1>4. left <= Len(ts) /\ \A i \in 1 .. Len(ts) :
          ts[i] = IF i <= left THEN Submission[3 - left + i] ELSE "prices"
  BY DEF Calls
<1>5. ASSUME NEW i \in 1 .. Len(t)
      PROVE  t[i] = IF i <= left THEN Submission[3 - left + i] ELSE "prices"
  <2>1. CASE i <= Len(ts)
    <3>1. i \in 1 .. Len(ts)
      BY <1>3, <2>1
    <3> QED
      BY <1>3, <1>4, <3>1
  <2>2. CASE ~ (i <= Len(ts))
    <3>1. i = Len(ts) + 1 /\ ~ (i <= left)
      BY <1>3, <1>4, <2>2
    <3> QED
      BY <1>3, <3>1
  <2> QED
    BY <2>1, <2>2
<1>6. Calls(t, left)
  BY <1>3, <1>4, <1>5 DEF Calls
<1> QED
  BY <1>2, <1>3, <1>6

\* A request is submitted.
LEMMA CallsSubmit ==
    /\ <<>> \o Submission \in Seq(CallType)
    /\ Len(<<>> \o Submission) = 3
    /\ Calls(<<>> \o Submission, 3)
<1>1. Submission \in Seq(CallType)
  BY DEF Submission, CallType
<1>2. <<>> \o Submission = Submission /\ Len(Submission) = 3
  BY <1>1 DEF Submission
<1>3. Calls(Submission, 3)
  BY <1>2 DEF Calls
<1> QED
  BY <1>1, <1>2, <1>3

-----------------------------------------------------------------------------
(* The prices on their way                                                 *)

\* The API takes an answer: the prices move up by one.
LEMMA QuotesTail ==
    ASSUME NEW ta \in Seq(AnswerType), ta # <<>>
    PROVE  /\ \A i \in Quotes(Tail(ta)) :
                  i \in Nat /\ i + 1 \in Quotes(ta) /\ Tail(ta)[i] = ta[i + 1]
           /\ \A i \in Quotes(ta) :
                  /\ i \in Nat
                  /\ i = 1 \/ (i - 1 \in Quotes(Tail(ta)) /\ Tail(ta)[i - 1] = ta[i])
           /\ 1 \in Quotes(ta) <=> Head(ta).type = "prices"
<1>1. /\ Len(ta) \in Nat /\ Len(ta) >= 1 /\ Head(ta) = ta[1]
      /\ Tail(ta) \in Seq(AnswerType) /\ Len(Tail(ta)) = Len(ta) - 1
      /\ \A i \in 1 .. Len(ta) - 1 : Tail(ta)[i] = ta[i + 1]
  BY TailFacts
<1>2. DOMAIN ta = 1 .. Len(ta) /\ DOMAIN Tail(ta) = 1 .. Len(ta) - 1
  BY <1>1
<1>3. ASSUME NEW i \in Quotes(Tail(ta))
      PROVE  i \in Nat /\ i + 1 \in Quotes(ta) /\ Tail(ta)[i] = ta[i + 1]
  <2>1. i \in 1 .. Len(ta) - 1 /\ Tail(ta)[i].type = "prices"
    BY <1>2 DEF Quotes
  <2>2. i + 1 \in 1 .. Len(ta) /\ Tail(ta)[i] = ta[i + 1]
    BY <1>1, <2>1
  <2> QED
    BY <1>2, <2>1, <2>2 DEF Quotes
<1>4. ASSUME NEW i \in Quotes(ta), i # 1
      PROVE  i - 1 \in Quotes(Tail(ta)) /\ Tail(ta)[i - 1] = ta[i]
  <2>1. i \in 1 .. Len(ta) /\ ta[i].type = "prices"
    BY <1>2 DEF Quotes
  <2>2. i - 1 \in 1 .. Len(ta) - 1 /\ Tail(ta)[i - 1] = ta[i]
    BY <1>1, <1>4, <2>1
  <2> QED
    BY <1>2, <2>1, <2>2 DEF Quotes
<1>5. \A i \in Quotes(ta) : i \in Nat
  BY <1>1, <1>2 DEF Quotes
<1>6. 1 \in Quotes(ta) <=> Head(ta).type = "prices"
  BY <1>1, <1>2 DEF Quotes
<1> QED
  BY <1>3, <1>4, <1>5, <1>6

\* The server answers: the prices stay where they are.
LEMMA QuotesAppend ==
    ASSUME NEW ta \in Seq(AnswerType), NEW e \in AnswerType
    PROVE  /\ Append(ta, e) \in Seq(AnswerType)
           /\ \A i \in Quotes(ta) :
                  /\ i \in Nat /\ i \in Quotes(Append(ta, e)) /\ i < Len(ta) + 1
                  /\ Append(ta, e)[i] = ta[i]
           /\ \A i \in Quotes(Append(ta, e)) :
                  /\ i \in Nat
                  /\ i = Len(ta) + 1 \/ i \in Quotes(ta)
           /\ Append(ta, e)[Len(ta) + 1] = e
           /\ Len(ta) \in Nat
           /\ Len(ta) + 1 \in Quotes(Append(ta, e)) <=> e.type = "prices"
<1> DEFINE t == Append(ta, e)
<1>1. /\ Len(ta) \in Nat /\ t \in Seq(AnswerType) /\ Len(t) = Len(ta) + 1
      /\ \A i \in 1 .. Len(ta) : t[i] = ta[i]
      /\ t[Len(ta) + 1] = e
  BY AppendFacts
<1> HIDE DEF t
<1>2. DOMAIN ta = 1 .. Len(ta) /\ DOMAIN t = 1 .. Len(ta) + 1
  BY <1>1
<1>3. ASSUME NEW i \in Quotes(ta)
      PROVE  i \in Nat /\ i \in Quotes(t) /\ i < Len(ta) + 1 /\ t[i] = ta[i]
  <2>1. i \in 1 .. Len(ta) /\ ta[i].type = "prices"
    BY <1>2 DEF Quotes
  <2> QED
    BY <1>1, <1>2, <2>1 DEF Quotes
<1>4. ASSUME NEW i \in Quotes(t)
      PROVE  i \in Nat /\ (i = Len(ta) + 1 \/ i \in Quotes(ta))
  <2>1. i \in 1 .. Len(ta) + 1 /\ t[i].type = "prices"
    BY <1>2 DEF Quotes
  <2>2. CASE i = Len(ta) + 1
    BY <1>1, <2>2
  <2>3. CASE i # Len(ta) + 1
    <3>1. i \in 1 .. Len(ta) /\ t[i] = ta[i]
      BY <1>1, <2>1, <2>3
    <3> QED
      BY <1>2, <2>1, <3>1 DEF Quotes
  <2> QED
    BY <2>2, <2>3
<1>5. Len(ta) + 1 \in Quotes(t) <=> e.type = "prices"
  BY <1>1, <1>2 DEF Quotes
<1>6. /\ t \in Seq(AnswerType) /\ Len(ta) \in Nat /\ t[Len(ta) + 1] = e
      /\ \A i \in Quotes(ta) : i \in Nat /\ i \in Quotes(t) /\ i < Len(ta) + 1 /\ t[i] = ta[i]
      /\ \A i \in Quotes(t) : i \in Nat /\ (i = Len(ta) + 1 \/ i \in Quotes(ta))
  BY <1>1, <1>3, <1>4
<1> QED
  BY <1>5, <1>6 DEF t

\* An answer without a price is taken.
LEMMA ChainTailOther ==
    ASSUME NEW ta \in Seq(AnswerType), ta # <<>>, Head(ta).type # "prices",
           NEW q, NEW f, NEW v, Chain(ta, q, f, v)
    PROVE  Chain(Tail(ta), q, f, v)
<1> DEFINE tt == Tail(ta)
<1>1. /\ \A i \in Quotes(tt) : i \in Nat /\ i + 1 \in Quotes(ta) /\ tt[i] = ta[i + 1]
      /\ \A i \in Quotes(ta) : i \in Nat /\ i - 1 \in Quotes(tt) /\ tt[i - 1] = ta[i]
  BY QuotesTail
<1> HIDE DEF tt
<1>2. \A i \in Quotes(tt) : tt[i].value \in Nat /\ tt[i].value <= v
  BY <1>1 DEF Chain
<1>3. ASSUME NEW i \in Quotes(tt), NEW j \in Quotes(tt), i < j
      PROVE  tt[i].value + f <= tt[j].value
  <2>1. i + 1 < j + 1 /\ i + 1 \in Quotes(ta) /\ j + 1 \in Quotes(ta)
    BY <1>1, <1>3
  <2> QED
    BY <1>1, <2>1 DEF Chain
<1>4. ASSUME NEW j \in Quotes(tt), tt[j].value # q + f
      PROVE  \E i \in Quotes(tt) : i < j /\ tt[j].value = tt[i].value + f
  <2>1. j \in Nat /\ j + 1 \in Quotes(ta) /\ ta[j + 1].value # q + f
    BY <1>1, <1>4
  <2>2. PICK i \in Quotes(ta) : i < j + 1 /\ ta[j + 1].value = ta[i].value + f
    BY <2>1 DEF Chain
  <2>3. i - 1 \in Quotes(tt) /\ i - 1 < j /\ tt[i - 1] = ta[i]
    BY <1>1, <2>1, <2>2
  <2> QED
    BY <1>1, <2>2, <2>3
<1>5. v = q \/ \E i \in Quotes(tt) : v = tt[i].value
  BY <1>1 DEF Chain
<1>6. Chain(tt, q, f, v)
  BY <1>2, <1>3, <1>4, <1>5 DEF Chain
<1> QED
  BY <1>6 DEF tt

\* The next price that arrives is one fee more than the one that is shown.
LEMMA ChainTailQuote ==
    ASSUME NEW ta \in Seq(AnswerType), ta # <<>>, Head(ta).type = "prices",
           NEW q \in Nat, NEW f \in Nat, NEW v \in Nat, Chain(ta, q, f, v)
    PROVE  Head(ta).value = q + f /\ Chain(Tail(ta), Head(ta).value, f, v)
<1> DEFINE tt == Tail(ta)  h == Head(ta).value
<1>1. /\ \A i \in Quotes(tt) : i \in Nat /\ i + 1 \in Quotes(ta) /\ tt[i] = ta[i + 1]
      /\ \A i \in Quotes(ta) :
             i \in Nat /\ (i = 1 \/ (i - 1 \in Quotes(tt) /\ tt[i - 1] = ta[i]))
      /\ 1 \in Quotes(ta)
  BY QuotesTail
<1>2. Head(ta) = ta[1]
  BY TailFacts
<1>3. h = q + f
  <2>1. ~ \E i \in Quotes(ta) : i < 1
    <3> SUFFICES ASSUME NEW i \in Quotes(ta), i < 1 PROVE FALSE
      OBVIOUS
    <3>1. i = 0
      BY <1>1
    <3> QED
      BY <3>1 DEF Quotes
  <2> QED
    BY <1>1, <1>2, <2>1 DEF Chain
<1>4. ta[1].value = h /\ h \in Nat
  BY <1>2, <1>3
<1> HIDE DEF tt, h
<1>5. \A i \in Quotes(tt) : tt[i].value \in Nat /\ tt[i].value <= v
  BY <1>1 DEF Chain
<1>6. ASSUME NEW i \in Quotes(tt), NEW j \in Quotes(tt), i < j
      PROVE  tt[i].value + f <= tt[j].value
  <2>1. i + 1 < j + 1 /\ i + 1 \in Quotes(ta) /\ j + 1 \in Quotes(ta)
    BY <1>1, <1>6
  <2> QED
    BY <1>1, <2>1 DEF Chain
<1>7. ASSUME NEW j \in Quotes(tt)
      PROVE  \/ tt[j].value = h + f
             \/ \E i \in Quotes(tt) : i < j /\ tt[j].value = tt[i].value + f
  <2>1. /\ j \in Nat /\ j + 1 \in Quotes(ta) /\ tt[j] = ta[j + 1] /\ 1 < j + 1
        /\ tt[j].value \in Nat
    <3>1. j \in Nat /\ j + 1 \in Quotes(ta) /\ tt[j] = ta[j + 1]
      BY <1>1
    <3>2. j # 0
      BY DEF Quotes, tt
    <3> QED
      BY <1>5, <3>1, <3>2
  <2>2. h + f <= tt[j].value
    BY <1>1, <1>4, <2>1 DEF Chain
  <2>3. CASE tt[j].value = q + f
    BY <1>3, <1>4, <2>2, <2>3
  <2>4. CASE tt[j].value # q + f
    <3>1. PICK i \in Quotes(ta) : i < j + 1 /\ ta[j + 1].value = ta[i].value + f
      BY <2>1, <2>4 DEF Chain
    <3>2. CASE i = 1
      BY <1>4, <2>1, <3>1, <3>2
    <3>3. CASE i # 1
      <4>1. i - 1 \in Quotes(tt) /\ i - 1 < j /\ tt[i - 1] = ta[i]
        BY <1>1, <2>1, <3>1, <3>3
      <4> QED
        BY <2>1, <3>1, <4>1
    <3> QED
      BY <3>2, <3>3
  <2> QED
    BY <2>3, <2>4
<1>8. v = h \/ \E i \in Quotes(tt) : v = tt[i].value
  <2>1. h <= v
    BY <1>1, <1>4 DEF Chain
  <2>2. CASE v = q
    BY <1>3, <1>4, <2>1, <2>2
  <2>3. CASE v # q
    <3>1. PICK i \in Quotes(ta) : v = ta[i].value
      BY <2>3 DEF Chain
    <3> QED
      BY <1>1, <1>4, <3>1
  <2> QED
    BY <2>2, <2>3
<1>9. Chain(tt, h, f, v)
  BY <1>5, <1>6, <1>7, <1>8 DEF Chain
<1> QED
  BY <1>3, <1>9 DEF tt, h

\* An answer without a price is sent.
LEMMA ChainAppendOther ==
    ASSUME NEW ta \in Seq(AnswerType), NEW e \in AnswerType, e.type # "prices",
           NEW q, NEW f, NEW v, Chain(ta, q, f, v)
    PROVE  Chain(Append(ta, e), q, f, v)
<1> DEFINE t == Append(ta, e)
<1>0. /\ \A i \in Quotes(ta) : i \in Quotes(t) /\ t[i] = ta[i]
      /\ \A i \in Quotes(t) : i = Len(ta) + 1 \/ i \in Quotes(ta)
      /\ ~ (Len(ta) + 1 \in Quotes(t))
  <2>1. Len(ta) + 1 \in Quotes(t) <=> e.type = "prices"
    BY QuotesAppend
  <2>2. \A i \in Quotes(ta) : /\ i \in Nat /\ i \in Quotes(t) /\ i < Len(ta) + 1
                              /\ t[i] = ta[i]
    BY QuotesAppend
  <2>3. \A i \in Quotes(t) : i \in Nat /\ (i = Len(ta) + 1 \/ i \in Quotes(ta))
    BY QuotesAppend
  <2> QED
    BY <2>1, <2>2, <2>3
<1> HIDE DEF t
<1>1. Quotes(t) = Quotes(ta) /\ \A i \in Quotes(ta) : t[i] = ta[i]
  BY <1>0
<1>2. Chain(t, q, f, v)
  BY <1>1 DEF Chain
<1> QED
  BY <1>2 DEF t

\* The price at the server is raised by the fee and sent.
LEMMA ChainAppendQuote ==
    ASSUME NEW ta \in Seq(AnswerType), NEW q \in Nat, NEW f \in Nat, NEW v \in Nat,
           NEW e \in AnswerType, e.type = "prices", e.value = v + f,
           Chain(ta, q, f, v)
    PROVE  Chain(Append(ta, e), q, f, v + f)
<1> DEFINE t == Append(ta, e)  n == Len(ta) + 1
<1>1. /\ \A i \in Quotes(ta) : i \in Nat /\ i \in Quotes(t) /\ i < n /\ t[i] = ta[i]
      /\ \A i \in Quotes(t) : i \in Nat /\ (i = n \/ i \in Quotes(ta))
      /\ t[n] = e
      /\ n \in Nat /\ n \in Quotes(t)
  BY QuotesAppend
<1> HIDE DEF t, n
<1>2. \A i \in Quotes(ta) : ta[i].value \in Nat /\ ta[i].value <= v
  BY DEF Chain
<1>3. ASSUME NEW i \in Quotes(t) PROVE t[i].value \in Nat /\ t[i].value <= v + f
  <2>1. CASE i = n
    BY <1>1, <2>1
  <2>2. CASE i \in Quotes(ta)
    <3>1. t[i].value \in Nat /\ t[i].value <= v
      BY <1>1, <1>2, <2>2
    <3> QED
      BY <3>1
  <2> QED
    BY <1>1, <2>1, <2>2
<1>4. ASSUME NEW i \in Quotes(t), NEW j \in Quotes(t), i < j
      PROVE  t[i].value + f <= t[j].value
  <2>1. i \in Quotes(ta)
    <3>1. i \in Nat /\ j \in Nat /\ (j = n \/ j < n)
      BY <1>1
    <3>2. i # n
      BY <1>1, <1>4, <3>1
    <3> QED
      BY <1>1, <3>2
  <2>2. CASE j = n
    <3>1. t[i].value \in Nat /\ t[i].value <= v
      BY <1>1, <1>2, <2>1
    <3>2. t[j].value = v + f
      BY <1>1, <2>2
    <3> QED
      BY <3>1, <3>2
  <2>3. CASE j \in Quotes(ta)
    BY <1>1, <1>4, <2>1, <2>3 DEF Chain
  <2> QED
    BY <1>1, <2>2, <2>3
<1>5. ASSUME NEW j \in Quotes(t)
      PROVE  \/ t[j].value = q + f
             \/ \E i \in Quotes(t) : i < j /\ t[j].value = t[i].value + f
  <2>1. CASE j = n
    <3>1. CASE v = q
      BY <1>1, <2>1, <3>1
    <3>2. CASE v # q
      <4>1. PICK i \in Quotes(ta) : v = ta[i].value
        BY <3>2 DEF Chain
      <4> QED
        BY <1>1, <2>1, <4>1
    <3> QED
      BY <3>1, <3>2
  <2>2. CASE j \in Quotes(ta) /\ ta[j].value = q + f
    BY <1>1, <2>2
  <2>3. CASE j \in Quotes(ta) /\ ta[j].value # q + f
    <3>1. PICK i \in Quotes(ta) : i < j /\ ta[j].value = ta[i].value + f
      BY <2>3 DEF Chain
    <3> QED
      BY <1>1, <2>3, <3>1
  <2> QED
    BY <1>1, <2>1, <2>2, <2>3
<1>6. \E i \in Quotes(t) : v + f = t[i].value
  BY <1>1
<1>7. Chain(t, q, f, v + f)
  BY <1>3, <1>4, <1>5, <1>6 DEF Chain
<1> QED
  BY <1>7 DEF t

-----------------------------------------------------------------------------
(* The steps of one checkout                                               *)

\* What a request costs is a number, and each question adds the fee.
LEMMA FeeAndPrice ==
    ASSUME NEW r \in Requests
    PROVE  /\ r # None /\ r \in RequestType
           /\ ContestPrice(r) \in Nat /\ Fee(r) \in Nat
           /\ \A k \in Nat : /\ Total(r, k) \in Nat
                             /\ Total(r, k + 1) = Total(r, k) + Fee(r)
           /\ Total(r, 0) = ContestPrice(r)
<1>1. r # None /\ r \in RequestType
  BY PurchaseAssumption
<1>2. ContestPrice(r) \in Nat
  BY <1>1, ListPriceIsContestPrice
<1>3. Fee(r) \in Nat
  BY PurchaseAssumption DEF Fee
<1>4. ASSUME NEW k \in Nat
      PROVE  Total(r, k) \in Nat /\ Total(r, k + 1) = Total(r, k) + Fee(r)
  <2>1. Fee(r) * k \in Nat /\ Fee(r) * (k + 1) = Fee(r) * k + Fee(r)
    BY <1>3, Multiples
  <2> QED
    BY <1>2, <1>3, <2>1 DEF Total
<1>5. Total(r, 0) = ContestPrice(r)
  BY <1>2, <1>3 DEF Total
<1> QED
  BY <1>1, <1>2, <1>3, <1>4, <1>5

PurchaseStates == {"none", "selling", "refused"}

Typed(r, p, v, ts, ta, q, n) ==
    /\ r \in Requests \cup {None} /\ p \in PurchaseStates /\ v \in Nat
    /\ ts \in Seq(CallType) /\ ta \in Seq(AnswerType)
    /\ q \in QuoteType \cup {None} /\ n \in Nat

\* A request is submitted.
LEMMA CoherentSubmit ==
    ASSUME NEW v, NEW q, NEW r \in Requests, NEW p, NEW ts, NEW ta, NEW n,
           Coherent(None, p, v, ts, ta, q, n)
    PROVE  Coherent(r, p, v, ts \o Submission, ta, q, n)
<1>1. p = "none" /\ ts = <<>> /\ ta = <<>> /\ n = 0
  BY DEF Coherent
<1>2. q = None /\ Quotes(ta) = {}
  BY <1>1 DEF Coherent
<1> DEFINE sub == <<>> \o Submission
<1>3. Calls(sub, 3) /\ Len(sub) = 3 /\ ts \o Submission = sub
  BY <1>1, CallsSubmit
<1> HIDE DEF sub
<1>4. 3 \in 0 .. 3 /\ Len(sub) - 3 = 0
  BY <1>3
<1>5. Selling(r, p, v, sub, ta, q, n)
  BY <1>1, <1>3, <1>4 DEF Selling
<1>6. r # None
  BY FeeAndPrice
<1> QED
  BY <1>1, <1>2, <1>3, <1>5, <1>6 DEF Coherent

\* Prices are asked for.
LEMMA CoherentAsk ==
    ASSUME NEW r, NEW p, NEW v, NEW ts, NEW ta, NEW q, NEW n, Typed(r, p, v, ts, ta, q, n),
           r # None, Coherent(r, p, v, ts, ta, q, n)
    PROVE  Coherent(r, p, v, ts \o <<"prices">>, ta, q, n + 1)
<1>1. PICK left \in 0 .. 3 :
          /\ Calls(ts, left)
          /\ p = "none" <=> left = 3
          /\ Len(ts) - left <= n
          /\ p = "none" => n = Len(ts) - left
          /\ p = "selling" => /\ v = Total(r, n - (Len(ts) - left))
                              /\ Chain(ta, Shown(r, q), Fee(r), v)
  BY DEF Coherent, Selling
<1> DEFINE t == ts \o <<"prices">>
<1>2. t \in Seq(CallType) /\ Len(t) = Len(ts) + 1 /\ Calls(t, left)
  BY <1>1, CallsSend DEF Typed
<1>3. Len(ts) \in Nat /\ n \in Nat
  BY DEF Typed
<1> HIDE DEF t
<1>4. Len(t) - left = (Len(ts) - left) + 1 /\ Len(t) - left <= n + 1
      /\ (n + 1) - (Len(t) - left) = n - (Len(ts) - left)
      /\ (n = Len(ts) - left => n + 1 = Len(t) - left)
  BY <1>1, <1>2, <1>3
<1>5. Selling(r, p, v, t, ta, q, n + 1)
  BY <1>1, <1>2, <1>4 DEF Selling
<1> QED
  BY <1>5 DEF Coherent, t

\* One call less on its way: left and less are what the submission still has.
OneLess(r, p, v, ts, ta, q, n, left, less) ==
    /\ Calls(Tail(ts), less)
    /\ Len(Tail(ts)) - less = IF left = 0 THEN (Len(ts) - left) - 1 ELSE Len(ts) - left
    /\ Len(Tail(ts)) - less \in Nat
    /\ left = 0 <=> Head(ts) = "prices"
    /\ left = 3 <=> Head(ts) = "purchaseContest"
    /\ p = "none" <=> left = 3
    /\ Len(ts) - left <= n
    /\ p = "none" => n = Len(ts) - left
    /\ p = "selling" => /\ v = Total(r, n - (Len(ts) - left))
                        /\ Chain(ta, Shown(r, q), Fee(r), v)

\* Which call is next tells how far the submission has come.
LEMMA NextCall ==
    ASSUME NEW r, NEW p, NEW v, NEW ts, NEW ta, NEW q, NEW n, Typed(r, p, v, ts, ta, q, n),
           ts # <<>>, Coherent(r, p, v, ts, ta, q, n)
    PROVE  /\ r \in Requests
           /\ Head(ts) \in CallType /\ Tail(ts) \in Seq(CallType)
           /\ \E left \in 0 .. 3, less \in 0 .. 2 :
                 OneLess(r, p, v, ts, ta, q, n, left, less)
<1>1. r # None /\ r \in Requests
  BY DEF Coherent, Typed
<1>2. PICK left \in 0 .. 3 :
          /\ Calls(ts, left)
          /\ p = "none" <=> left = 3
          /\ Len(ts) - left <= n
          /\ p = "none" => n = Len(ts) - left
          /\ p = "selling" => /\ v = Total(r, n - (Len(ts) - left))
                              /\ Chain(ta, Shown(r, q), Fee(r), v)
  BY <1>1 DEF Coherent, Selling
<1> DEFINE less == IF left = 0 THEN 0 ELSE left - 1
<1>3. /\ ts \in Seq(CallType) /\ Len(ts) \in Nat /\ Len(ts) >= 1
      /\ Tail(ts) \in Seq(CallType) /\ Len(Tail(ts)) = Len(ts) - 1
      /\ Head(ts) \in CallType
  BY TailFacts DEF Typed
<1>4. /\ Head(ts) = IF left = 0 THEN "prices" ELSE Submission[4 - left]
      /\ Calls(Tail(ts), less)
  BY <1>2, <1>3, CallsTail
<1>5. /\ Submission[1] = "purchaseContest" /\ Submission[2] = "subscribe"
      /\ Submission[3] = "complete"
  BY DEF Submission
<1>6. (left = 0 <=> Head(ts) = "prices") /\ (left = 3 <=> Head(ts) = "purchaseContest")
  <2>1. left = 0 \/ left = 1 \/ left = 2 \/ left = 3
    OBVIOUS
  <2> QED
    BY <1>4, <1>5, <2>1
<1>7. less \in 0 .. 2
  OBVIOUS
<1>8. Len(Tail(ts)) - less = IF left = 0 THEN (Len(ts) - left) - 1 ELSE Len(ts) - left
  <2>1. CASE left = 0
    BY <1>3, <2>1
  <2>2. CASE left # 0
    BY <1>3, <2>2
  <2> QED
    BY <2>1, <2>2
<1>9. left <= Len(ts)
  BY <1>2 DEF Calls
<1>10. Len(Tail(ts)) - less \in Nat
  BY <1>3, <1>9
<1> HIDE DEF less
<1>11. OneLess(r, p, v, ts, ta, q, n, left, less)
  BY <1>2, <1>4, <1>6, <1>8, <1>10 DEF OneLess
<1> QED
  BY <1>1, <1>3, <1>7, <1>11

\* A purchase that was refused answers every call with a failure.
LEMMA CoherentRefuse ==
    ASSUME NEW r, NEW p, NEW v, NEW ts, NEW ta, NEW q, NEW n, Typed(r, p, v, ts, ta, q, n),
           ts # <<>>, Coherent(r, p, v, ts, ta, q, n), p = "refused",
           NEW e \in AnswerType, e.type # "prices"
    PROVE  Coherent(r, p, v, Tail(ts), Append(ta, e), q, n)
<1>0. PICK left \in 0 .. 3, less \in 0 .. 2 : OneLess(r, p, v, ts, ta, q, n, left, less)
  BY NextCall
<1>1. /\ Calls(Tail(ts), less)
      /\ Len(Tail(ts)) - less = IF left = 0 THEN (Len(ts) - left) - 1 ELSE Len(ts) - left
      /\ Len(Tail(ts)) - less \in Nat
      /\ left = 0 <=> Head(ts) = "prices"
      /\ left = 3 <=> Head(ts) = "purchaseContest"
      /\ p = "none" <=> left = 3
      /\ Len(ts) - left <= n
      /\ p = "none" => n = Len(ts) - left
      /\ p = "selling" => /\ v = Total(r, n - (Len(ts) - left))
                          /\ Chain(ta, Shown(r, q), Fee(r), v)
  BY <1>0 DEF OneLess
<1>2. n \in Nat /\ Len(ts) \in Nat /\ ta \in Seq(AnswerType)
  BY DEF Typed
<1>3. Len(Tail(ts)) - less <= n
  BY <1>1, <1>2
<1>4. less # 3 /\ less \in 0 .. 3
  OBVIOUS
<1>5. Selling(r, p, v, Tail(ts), Append(ta, e), q, n)
  BY <1>1, <1>3, <1>4 DEF Selling
<1>6. Quotes(Append(ta, e)) = {} /\ q = None
  <2>1. Quotes(ta) = {} /\ q = None
    BY DEF Coherent
  <2>2. Len(ta) + 1 \in Quotes(Append(ta, e)) <=> e.type = "prices"
    BY <1>2, QuotesAppend
  <2>3. \A i \in Quotes(Append(ta, e)) : i = Len(ta) + 1 \/ i \in Quotes(ta)
    BY <1>2, QuotesAppend
  <2> QED
    BY <2>1, <2>2, <2>3
<1>7. r # None
  BY NextCall, FeeAndPrice
<1> QED
  BY <1>5, <1>6, <1>7 DEF Coherent

\* The request is taken, and the purchase is sold or refused.
LEMMA CoherentPurchase ==
    ASSUME NEW r, NEW p, NEW v, NEW ts, NEW ta, NEW q, NEW n, Typed(r, p, v, ts, ta, q, n),
           ts # <<>>, Coherent(r, p, v, ts, ta, q, n), Head(ts) = "purchaseContest",
           NEW pp \in {"selling", "refused"}
    PROVE  /\ p = "none"
           /\ Coherent(r, pp, ContestPrice(r), Tail(ts), ta, q, n)
<1>0. PICK left \in 0 .. 3, less \in 0 .. 2 : OneLess(r, p, v, ts, ta, q, n, left, less)
  BY NextCall
<1>1. /\ Calls(Tail(ts), less)
      /\ Len(Tail(ts)) - less = IF left = 0 THEN (Len(ts) - left) - 1 ELSE Len(ts) - left
      /\ Len(Tail(ts)) - less \in Nat
      /\ left = 0 <=> Head(ts) = "prices"
      /\ left = 3 <=> Head(ts) = "purchaseContest"
      /\ p = "none" <=> left = 3
      /\ Len(ts) - left <= n
      /\ p = "none" => n = Len(ts) - left
      /\ p = "selling" => /\ v = Total(r, n - (Len(ts) - left))
                          /\ Chain(ta, Shown(r, q), Fee(r), v)
  BY <1>0 DEF OneLess
<1>2. n \in Nat /\ Len(ts) \in Nat /\ r \in Requests
  BY NextCall DEF Typed
<1>3. left = 3 /\ p = "none" /\ n = Len(Tail(ts)) - less
  BY <1>1
<1>4. less # 3 /\ less \in 0 .. 3 /\ n <= n /\ n - n = 0
  BY <1>2
<1>5. q = None /\ Quotes(ta) = {}
  BY <1>3 DEF Coherent
<1>6. /\ ContestPrice(r) = Total(r, 0)
      /\ Chain(ta, Shown(r, q), Fee(r), ContestPrice(r))
  <2>1. Shown(r, q) = ContestPrice(r)
    BY <1>5 DEF Shown
  <2> QED
    BY <1>2, <1>5, <2>1, FeeAndPrice DEF Chain
<1>7. Selling(r, pp, ContestPrice(r), Tail(ts), ta, q, n)
  BY <1>1, <1>3, <1>4, <1>6 DEF Selling
<1>8. r # None
  BY <1>2, FeeAndPrice
<1> QED
  BY <1>3, <1>5, <1>7, <1>8 DEF Coherent

\* The other calls of the submission, which may be answered.
LEMMA CoherentTaken ==
    ASSUME NEW r, NEW p, NEW v, NEW ts, NEW ta, NEW q, NEW n, Typed(r, p, v, ts, ta, q, n),
           ts # <<>>, Coherent(r, p, v, ts, ta, q, n), p # "refused",
           Head(ts) \in {"subscribe", "complete"}
    PROVE  /\ p = "selling"
           /\ Coherent(r, p, v, Tail(ts), ta, q, n)
<1>0. PICK left \in 0 .. 3, less \in 0 .. 2 : OneLess(r, p, v, ts, ta, q, n, left, less)
  BY NextCall
<1>1. /\ Calls(Tail(ts), less)
      /\ Len(Tail(ts)) - less = IF left = 0 THEN (Len(ts) - left) - 1 ELSE Len(ts) - left
      /\ Len(Tail(ts)) - less \in Nat
      /\ left = 0 <=> Head(ts) = "prices"
      /\ left = 3 <=> Head(ts) = "purchaseContest"
      /\ p = "none" <=> left = 3
      /\ Len(ts) - left <= n
      /\ p = "none" => n = Len(ts) - left
      /\ p = "selling" => /\ v = Total(r, n - (Len(ts) - left))
                          /\ Chain(ta, Shown(r, q), Fee(r), v)
  BY <1>0 DEF OneLess
<1>2. p = "selling" /\ Len(Tail(ts)) - less = Len(ts) - left
  BY <1>1 DEF Typed, PurchaseStates
<1>3. less # 3 /\ less \in 0 .. 3
  OBVIOUS
<1>4. Selling(r, p, v, Tail(ts), ta, q, n)
  BY <1>1, <1>2, <1>3 DEF Selling
<1> QED
  BY <1>2, <1>4 DEF Coherent

\* The server raises the price and answers with it.
LEMMA CoherentPrices ==
    ASSUME NEW r, NEW p, NEW v, NEW ts, NEW ta, NEW q, NEW n, Typed(r, p, v, ts, ta, q, n),
           ts # <<>>, Coherent(r, p, v, ts, ta, q, n), p # "refused",
           Head(ts) = "prices"
    PROVE  /\ p = "selling"
           /\ Coherent(r, p, v + Fee(r), Tail(ts),
                       Append(ta, Answer("prices", v + Fee(r))), q, n)
<1>0. PICK left \in 0 .. 3, less \in 0 .. 2 : OneLess(r, p, v, ts, ta, q, n, left, less)
  BY NextCall
<1>1. /\ Calls(Tail(ts), less)
      /\ Len(Tail(ts)) - less = IF left = 0 THEN (Len(ts) - left) - 1 ELSE Len(ts) - left
      /\ Len(Tail(ts)) - less \in Nat
      /\ left = 0 <=> Head(ts) = "prices"
      /\ left = 3 <=> Head(ts) = "purchaseContest"
      /\ p = "none" <=> left = 3
      /\ Len(ts) - left <= n
      /\ p = "none" => n = Len(ts) - left
      /\ p = "selling" => /\ v = Total(r, n - (Len(ts) - left))
                          /\ Chain(ta, Shown(r, q), Fee(r), v)
  BY <1>0 DEF OneLess
<1>2. p = "selling" /\ left = 0
  BY <1>1 DEF Typed, PurchaseStates
<1>3. less # 3 /\ less \in 0 .. 3
  OBVIOUS
<1> DEFINE m == Len(Tail(ts)) - less  e == Answer("prices", v + Fee(r))  w == v + Fee(r)
           k == n - (Len(ts) - left)
<1>4. n \in Nat /\ Len(ts) \in Nat /\ r \in Requests /\ ta \in Seq(AnswerType) /\ v \in Nat
      /\ q \in QuoteType \cup {None}
  BY NextCall DEF Typed
<1>5. m <= n /\ n - m = k + 1 /\ k \in Nat
  BY <1>1, <1>2, <1>4
<1>6. Fee(r) \in Nat /\ w \in Nat /\ ContestPrice(r) \in Nat
  <2>1. Fee(r) \in Nat /\ ContestPrice(r) \in Nat
    BY <1>4, FeeAndPrice
  <2> QED
    BY <1>4, <2>1
<1>7. w = Total(r, k + 1)
  BY <1>1, <1>2, <1>4, <1>5, FeeAndPrice
<1>8. e \in AnswerType /\ e.type = "prices" /\ e.value = w
  BY <1>6 DEF AnswerType, Answer
<1>9. Shown(r, q) \in Nat
  BY <1>4, <1>6 DEF Shown, QuoteType
<1> HIDE DEF e
<1>10. Chain(Append(ta, e), Shown(r, q), Fee(r), w)
  BY <1>1, <1>2, <1>4, <1>6, <1>8, <1>9, ChainAppendQuote
<1> HIDE DEF m, w, k
<1>11. Selling(r, p, w, Tail(ts), Append(ta, e), q, n)
  BY <1>1, <1>2, <1>3, <1>5, <1>7, <1>10 DEF Selling, m
<1> QED
  BY <1>2, <1>11 DEF Coherent, e, w

\* The server sends something that is not a price.
LEMMA CoherentTold ==
    ASSUME NEW r, NEW p, NEW v, NEW ts, NEW ta, NEW q, NEW n, Typed(r, p, v, ts, ta, q, n),
           Coherent(r, p, v, ts, ta, q, n), p = "selling",
           NEW e \in AnswerType, e.type # "prices"
    PROVE  Coherent(r, p, v, ts, Append(ta, e), q, n)
<1>1. r # None /\ Selling(r, p, v, ts, ta, q, n)
  BY DEF Coherent
<1>2. ta \in Seq(AnswerType)
  BY DEF Typed
<1>3. Chain(ta, Shown(r, q), Fee(r), v) => Chain(Append(ta, e), Shown(r, q), Fee(r), v)
  BY <1>2, ChainAppendOther
<1>4. Selling(r, p, v, ts, Append(ta, e), q, n)
  BY <1>1, <1>3 DEF Selling
<1> QED
  BY <1>1, <1>4 DEF Coherent

\* The API takes something that is not a price.
LEMMA CoherentHeard ==
    ASSUME NEW r, NEW p, NEW v, NEW ts, NEW ta, NEW q, NEW n, Typed(r, p, v, ts, ta, q, n),
           Coherent(r, p, v, ts, ta, q, n), ta # <<>>, Head(ta).type # "prices"
    PROVE  Coherent(r, p, v, ts, Tail(ta), q, n)
<1>1. r # None /\ Selling(r, p, v, ts, ta, q, n) /\ ta \in Seq(AnswerType)
  BY DEF Coherent, Typed
<1>2. Chain(ta, Shown(r, q), Fee(r), v) => Chain(Tail(ta), Shown(r, q), Fee(r), v)
  BY <1>1, ChainTailOther
<1>3. Selling(r, p, v, ts, Tail(ta), q, n)
  BY <1>1, <1>2 DEF Selling
<1>4. Quotes(ta) = {} => Quotes(Tail(ta)) = {}
  BY <1>1, QuotesTail
<1> QED
  BY <1>1, <1>3, <1>4 DEF Coherent

\* The API takes a price, and the dialog shows it.
LEMMA CoherentQuote ==
    ASSUME NEW r, NEW p, NEW v, NEW ts, NEW ta, NEW q, NEW n, Typed(r, p, v, ts, ta, q, n),
           Coherent(r, p, v, ts, ta, q, n), ta # <<>>, Head(ta).type = "prices",
           NEW qq, qq = [amount |-> Head(ta).value,
                         answered |-> IF q = None THEN 1 ELSE q.answered + 1]
    PROVE  qq \in QuoteType /\ Coherent(r, p, v, ts, Tail(ta), qq, n)
<1>1. r \in Requests /\ ta \in Seq(AnswerType) /\ v \in Nat /\ q \in QuoteType \cup {None}
      /\ r # None
  BY DEF Coherent, Typed
<1>2. p = "selling"
  <2>1. 1 \in Quotes(ta) <=> Head(ta).type = "prices"
    BY <1>1, QuotesTail
  <2> QED
    BY <2>1 DEF Coherent
<1>3. PICK left \in 0 .. 3 :
          /\ Calls(ts, left)
          /\ p = "none" <=> left = 3
          /\ Len(ts) - left <= n
          /\ p = "none" => n = Len(ts) - left
          /\ p = "selling" => /\ v = Total(r, n - (Len(ts) - left))
                              /\ Chain(ta, Shown(r, q), Fee(r), v)
  BY <1>1 DEF Coherent, Selling
<1>4. /\ ContestPrice(r) \in Nat /\ Fee(r) \in Nat
      /\ \A k \in Nat : Total(r, k) \in Nat /\ Total(r, k + 1) = Total(r, k) + Fee(r)
      /\ Total(r, 0) = ContestPrice(r)
  BY <1>1, FeeAndPrice
<1> DEFINE k == IF q = None THEN 0 ELSE q.answered  s == Shown(r, q)  h == Head(ta).value
<1>5. k \in Nat /\ s \in Nat /\ s = Total(r, k)
  <2>1. CASE q = None
    BY <1>4, <2>1 DEF Shown
  <2>2. CASE q # None
    <3>1. q \in QuoteType /\ q.amount = Total(r, q.answered)
      BY <1>1, <2>2 DEF Coherent
    <3> QED
      BY <2>2, <3>1 DEF Shown, QuoteType
  <2> QED
    BY <2>1, <2>2
<1> HIDE DEF s
<1>6. Chain(ta, s, Fee(r), v)
  BY <1>2, <1>3 DEF s
<1>7. h = s + Fee(r) /\ Chain(Tail(ta), h, Fee(r), v)
  <2>1. s \in Nat /\ Fee(r) \in Nat /\ v \in Nat
    BY <1>1, <1>4, <1>5
  <2> QED
    BY <1>1, <1>6, <2>1, ChainTailQuote
<1>8. h = Total(r, k + 1) /\ h \in Nat
  <2>1. s \in Nat /\ Fee(r) \in Nat /\ k \in Nat /\ Total(r, k + 1) = Total(r, k) + Fee(r)
    BY <1>4, <1>5
  <2> HIDE DEF h, k
  <2> QED
    BY <1>5, <1>7, <2>1
<1>9. qq.amount = h /\ qq.answered = k + 1 /\ qq \in QuoteType
  BY <1>1, <1>5, <1>8 DEF QuoteType
<1>10. qq # None
  BY <1>9, PurchaseAssumption DEF QuoteType
<1> HIDE DEF h, k
<1>11. Shown(r, qq) = h
  BY <1>9, <1>10 DEF Shown
<1>12. Selling(r, p, v, ts, Tail(ta), qq, n)
  BY <1>2, <1>3, <1>7, <1>11 DEF Selling
<1> QED
  BY <1>1, <1>2, <1>8, <1>9, <1>12 DEF Coherent

-----------------------------------------------------------------------------
(* What an action leaves alone stays as it is.                             *)

\* Each part of the invariant holds on while its variables do not change.
LEMMA Remains ==
    /\ Agreed /\ UNCHANGED <<request, purchase, votePrice, toServer, toApi, quote, asked>>
           => Agreed'
    /\ Submitted /\ UNCHANGED <<request, dialog>> => Submitted'
    /\ Payments /\ UNCHANGED <<request, purchase, transfers, paying>> => Payments'
    /\ Published /\ UNCHANGED <<broadcasts, transfers>> => Published'
    /\ IgnoredOnlyIfRepriced /\ UNCHANGED <<request, transfers, asked>>
           => IgnoredOnlyIfRepriced'
<1>1. Agreed /\ UNCHANGED <<request, purchase, votePrice, toServer, toApi, quote, asked>>
          => Agreed'
  BY DEF Agreed
<1>2. Submitted /\ UNCHANGED <<request, dialog>> => Submitted'
  BY DEF Submitted
<1>3. Payments /\ UNCHANGED <<request, purchase, transfers, paying>> => Payments'
  BY DEF Payments, Backed
<1>4. Published /\ UNCHANGED <<broadcasts, transfers>> => Published'
  BY DEF Published, Paid
<1>5. IgnoredOnlyIfRepriced /\ UNCHANGED <<request, transfers, asked>>
          => IgnoredOnlyIfRepriced'
  BY DEF IgnoredOnlyIfRepriced
<1> QED
  BY <1>1, <1>2, <1>3, <1>4, <1>5

\* The arguments of Coherent have their types.
LEMMA CheckoutTyped ==
    ASSUME TypeOK, NEW c \in Checkouts
    PROVE  Typed(request[c], purchase[c], votePrice[c], toServer[c], toApi[c], quote[c],
                 asked[c])
BY DEF TypeOK, Typed, PurchaseStates

\* What is coherent for one checkout and not touched for the others agrees.
LEMMA OneCheckout ==
    ASSUME Agreed, NEW c \in Checkouts,
           Coherent(request'[c], purchase'[c], votePrice'[c], toServer'[c], toApi'[c],
                    quote'[c], asked'[c]),
           \A d \in Checkouts : d # c =>
               /\ request'[d] = request[d] /\ purchase'[d] = purchase[d]
               /\ votePrice'[d] = votePrice[d] /\ toServer'[d] = toServer[d]
               /\ toApi'[d] = toApi[d] /\ quote'[d] = quote[d] /\ asked'[d] = asked[d]
    PROVE  Agreed'
<1>1. ASSUME NEW d \in Checkouts, d # c
      PROVE  Coherent(request'[d], purchase'[d], votePrice'[d], toServer'[d], toApi'[d],
                      quote'[d], asked'[d])
  BY <1>1 DEF Agreed
<1> QED
  BY <1>1 DEF Agreed

\* The number of questions for prices only grows.
LEMMA AskingMore ==
    ASSUME IgnoredOnlyIfRepriced, UNCHANGED <<request, transfers>>, TypeOK,
           NEW c \in Checkouts, asked' = [asked EXCEPT ![c] = @ + 1]
    PROVE  IgnoredOnlyIfRepriced'
<1> SUFFICES ASSUME NEW i \in DOMAIN transfers, transfers[i].state = "ignored"
             PROVE  /\ oversized(request[transfers[i].memo])
                    /\ transfers[i].answered < asked'[transfers[i].memo]
  BY DEF IgnoredOnlyIfRepriced
<1>1. /\ transfers[i].memo \in Checkouts /\ transfers[i].answered \in Nat
      /\ asked \in [Checkouts -> Nat]
  <2>1. transfers[i] \in TransferType
    BY DEF TypeOK
  <2> QED
    BY <2>1 DEF TransferType, TypeOK
<1>2. /\ oversized(request[transfers[i].memo])
      /\ transfers[i].answered < asked[transfers[i].memo]
  BY DEF IgnoredOnlyIfRepriced
<1>3. asked'[transfers[i].memo] \in Nat /\ asked'[transfers[i].memo] >= asked[transfers[i].memo]
  BY <1>1
<1> QED
  BY <1>1, <1>2, <1>3

-----------------------------------------------------------------------------
(* The page and its dialogs                                                *)

\* Leaving the page takes the dialogs with it.
LEMMA LeavingTyped ==
    ASSUME TypeOK, LeavePage
    PROVE  /\ page' \in BOOLEAN
           /\ dialog' \in [Checkouts -> {"none", "opening", "open", "closed", "gone"}]
           /\ \A c \in Checkouts : dialog'[c] = "none" <=> dialog[c] = "none"
BY DEF TypeOK, LeavePage

\* The page is opened or left, or a dialog is closed.
LEMMA StepPage ==
    ASSUME PurchaseInv, createContestOpened \/ createContestCanceled
                            \/ \E c \in Checkouts : cancelCheckout(c)
    PROVE  PurchaseInv'
<1>1. /\ UNCHANGED <<serverVars, transfers, toServer, toApi, complete, quote, asked,
                     waiting, paying>>
      /\ page' \in BOOLEAN
      /\ dialog' \in [Checkouts -> {"none", "opening", "open", "closed", "gone"}]
      /\ \A c \in Checkouts : dialog'[c] = "none" <=> dialog[c] = "none"
  <2>1. TypeOK
    BY DEF PurchaseInv
  <2>2. CASE createContestOpened
    BY <2>1, <2>2 DEF createContestOpened, dialogVars, TypeOK
  <2>3. CASE createContestCanceled
    BY <2>1, <2>3, LeavingTyped DEF createContestCanceled
  <2>4. CASE \E c \in Checkouts : cancelCheckout(c)
    BY <2>1, <2>4 DEF cancelCheckout, TypeOK
  <2> QED
    BY <2>2, <2>3, <2>4
<1>2. UNCHANGED <<request, purchase, votePrice, completed, listening, broadcasts, transfers,
                  toServer, toApi, complete, quote, asked, waiting, paying>>
  BY <1>1 DEF serverVars
<1>3. TypeOK'
  <2>1. TypeOK
    BY DEF PurchaseInv
  <2> QED
    BY <1>1, <1>2, <2>1 DEF TypeOK
<1>4. Submitted'
  BY <1>1, <1>2 DEF PurchaseInv, Submitted
<1> QED
  BY <1>2, <1>3, <1>4, Remains DEF PurchaseInv

\* Checkout is pressed.
LEMMA StepBegin ==
    ASSUME PurchaseInv, NEW c \in Checkouts, NEW r \in Requests, beginCheckout(c, r)
    PROVE  PurchaseInv'
<1>1. /\ request' = [request EXCEPT ![c] = r]
      /\ toServer' = [toServer EXCEPT ![c] = @ \o Submission]
      /\ dialog[c] = "none" /\ dialog' = [dialog EXCEPT ![c] = "opening"]
      /\ UNCHANGED <<purchase, votePrice, completed, listening, broadcasts, transfers,
                     toApi, complete, page, quote, asked, waiting, paying>>
  BY DEF beginCheckout, submit, Send, Submission
<1>2. TypeOK /\ Submitted /\ Agreed /\ Payments /\ Published
      /\ (KeyValid => IgnoredOnlyIfRepriced)
  BY DEF PurchaseInv
<1>3. request[c] = None /\ toServer[c] = <<>> /\ purchase[c] = "none"
  BY <1>1, <1>2 DEF Submitted, Agreed, Coherent
<1>4. TypeOK'
  <2>1. toServer[c] \o Submission \in Seq(CallType)
    BY <1>3, CallsSubmit
  <2> HIDE DEF CallType
  <2> QED
    BY <1>1, <1>2, <2>1 DEF TypeOK
<1>5. r # None
  BY FeeAndPrice
<1>6. Submitted'
  BY <1>1, <1>2, <1>5 DEF Submitted, TypeOK
<1>7. Agreed'
  <2>1. Coherent(None, purchase[c], votePrice[c], toServer[c], toApi[c], quote[c], asked[c])
    BY <1>2, <1>3 DEF Agreed
  <2>2. Coherent(r, purchase[c], votePrice[c], toServer[c] \o Submission, toApi[c], quote[c],
                 asked[c])
    BY <2>1, CoherentSubmit
  <2>3. request'[c] = r /\ toServer'[c] = toServer[c] \o Submission
    BY <1>1, <1>2 DEF TypeOK
  <2>4. \A d \in Checkouts : d # c => request'[d] = request[d] /\ toServer'[d] = toServer[d]
    BY <1>1, <1>2 DEF TypeOK
  <2> QED
    BY <1>1, <1>2, <2>2, <2>3, <2>4, OneCheckout
<1>8. \A d \in Checkouts : purchase[d] = "selling" => request'[d] = request[d]
  BY <1>1, <1>2, <1>3 DEF TypeOK
<1>9. /\ \A i \in DOMAIN transfers :
             /\ transfers[i].memo \in Checkouts /\ purchase[transfers[i].memo] = "selling"
             /\ Backed(transfers[i].memo, transfers[i].amount, transfers[i].answered)
      /\ paying # None =>
             /\ paying.checkout \in Checkouts /\ purchase[paying.checkout] = "selling"
             /\ Backed(paying.checkout, paying.amount, paying.answered)
  <2>1. ASSUME NEW i \in DOMAIN transfers PROVE transfers[i].memo \in Checkouts
    <3>1. transfers[i] \in TransferType
      BY <1>2 DEF TypeOK
    <3> QED
      BY <3>1 DEF TransferType
  <2>2. paying # None => paying.checkout \in Checkouts
    BY <1>2 DEF TypeOK, PayingType
  <2> QED
    BY <1>2, <2>1, <2>2 DEF Payments, Backed
<1>10. Payments'
  BY <1>1, <1>8, <1>9 DEF Payments, Backed
<1>11. KeyValid => IgnoredOnlyIfRepriced'
  BY <1>1, <1>2, <1>8, <1>9 DEF IgnoredOnlyIfRepriced
<1>12. Published'
  BY <1>1, <1>2, Remains
<1> QED
  BY <1>4, <1>6, <1>7, <1>10, <1>11, <1>12 DEF PurchaseInv

\* Asking for prices.
LEMMA StepAsk ==
    ASSUME PurchaseInv, NEW c \in Checkouts, Opened(c) \/ ApplyCode(c)
    PROVE  PurchaseInv'
<1>1. /\ asked' = [asked EXCEPT ![c] = @ + 1]
      /\ toServer' = [toServer EXCEPT ![c] = @ \o <<"prices">>]
      /\ dialog[c] # "none"
      /\ UNCHANGED <<request, purchase, votePrice, completed, listening, broadcasts, transfers,
                     toApi, complete, page, quote, waiting, paying>>
  BY DEF Opened, ApplyCode, AskPrices, Send, serverVars
<1>2. dialog' = [dialog EXCEPT ![c] = "open"] \/ dialog' = dialog
  BY DEF Opened, ApplyCode
<1>3. TypeOK /\ Submitted /\ Agreed /\ Payments /\ Published
      /\ (KeyValid => IgnoredOnlyIfRepriced)
  BY DEF PurchaseInv
<1>4. TypeOK'
  <2>1. "prices" \in CallType /\ toServer[c] \in Seq(CallType)
    BY <1>3 DEF TypeOK, CallType
  <2>2. toServer[c] \o <<"prices">> \in Seq(CallType)
    BY <2>1
  <2>3. asked[c] + 1 \in Nat
    BY <1>3 DEF TypeOK
  <2> QED
    BY <1>1, <1>2, <1>3, <2>2, <2>3 DEF TypeOK
<1>5. Submitted'
  BY <1>1, <1>2, <1>3 DEF Submitted, TypeOK
<1>6. Agreed'
  <2>1. request[c] # None
    BY <1>1, <1>3 DEF Submitted
  <2>2. Coherent(request[c], purchase[c], votePrice[c], toServer[c], toApi[c], quote[c],
                 asked[c])
    BY <1>3 DEF Agreed
  <2>3. Coherent(request[c], purchase[c], votePrice[c], toServer[c] \o <<"prices">>, toApi[c],
                 quote[c], asked[c] + 1)
    BY <1>3, <2>1, <2>2, CheckoutTyped, CoherentAsk
  <2>4. asked'[c] = asked[c] + 1 /\ toServer'[c] = toServer[c] \o <<"prices">>
    BY <1>1, <1>3 DEF TypeOK
  <2>5. \A d \in Checkouts : d # c => asked'[d] = asked[d] /\ toServer'[d] = toServer[d]
    BY <1>1, <1>3 DEF TypeOK
  <2> QED
    BY <1>1, <1>3, <2>3, <2>4, <2>5, OneCheckout
<1>7. KeyValid => IgnoredOnlyIfRepriced'
  BY <1>1, <1>3, AskingMore
<1> QED
  BY <1>1, <1>3, <1>4, <1>5, <1>6, <1>7, Remains DEF PurchaseInv

-----------------------------------------------------------------------------
(* The wallet                                                              *)

\* Purchase is pressed.
LEMMA StepAccept ==
    ASSUME PurchaseInv, NEW c \in Checkouts, acceptButton(c)
    PROVE  PurchaseInv'
<1>1. /\ quote[c] # None
      /\ paying' = [checkout |-> c, amount |-> quote[c].amount,
                    answered |-> quote[c].answered, sent |-> FALSE]
      /\ UNCHANGED <<request, purchase, votePrice, completed, listening, broadcasts, transfers,
                     toServer, toApi, complete, page, dialog, quote, asked, waiting>>
  BY DEF acceptButton, serverVars, dialogVars
<1>2. TypeOK /\ Submitted /\ Agreed /\ Payments /\ Published
      /\ (KeyValid => IgnoredOnlyIfRepriced)
  BY DEF PurchaseInv
<1>3. quote[c] \in QuoteType
  BY <1>1, <1>2 DEF TypeOK
<1>4. paying' \in PayingType
  BY <1>1, <1>3 DEF PayingType, QuoteType
<1>5. TypeOK'
  BY <1>1, <1>2, <1>4 DEF TypeOK
<1>6. Coherent(request[c], purchase[c], votePrice[c], toServer[c], toApi[c], quote[c],
               asked[c])
  BY <1>2 DEF Agreed
<1>7. Backed(c, quote[c].amount, quote[c].answered)
  BY <1>1, <1>6 DEF Coherent, Backed
<1>8. Payments'
  <2>1. /\ paying'.checkout = c /\ paying'.amount = quote[c].amount
        /\ paying'.answered = quote[c].answered
    BY <1>1
  <2> QED
    BY <1>1, <1>2, <1>7, <2>1 DEF Payments, Backed
<1> QED
  BY <1>1, <1>2, <1>5, <1>8, Remains DEF PurchaseInv

\* The wallet transfers.
LEMMA StepTransfer ==
    ASSUME PurchaseInv, WalletTransfers
    PROVE  PurchaseInv'
<1> DEFINE t == [memo |-> paying.checkout, amount |-> paying.amount,
                 answered |-> paying.answered, state |-> "sent"]
           n == Len(transfers) + 1
<1>1. /\ paying # None
      /\ transfers' = Append(transfers, t)
      /\ paying' = [paying EXCEPT !.sent = TRUE]
      /\ UNCHANGED <<request, purchase, votePrice, completed, listening, broadcasts,
                     toServer, toApi, complete, page, dialog, quote, asked, waiting>>
  BY DEF WalletTransfers, serverVars, dialogVars
<1>2. TypeOK /\ Submitted /\ Agreed /\ Payments /\ Published
      /\ (KeyValid => IgnoredOnlyIfRepriced)
  BY DEF PurchaseInv
<1>3. paying \in PayingType
  BY <1>1, <1>2 DEF TypeOK
<1>4. t \in TransferType /\ t.memo = paying.checkout /\ t.amount = paying.amount
      /\ t.answered = paying.answered /\ t.state = "sent"
  BY <1>3 DEF TransferType, PayingType
<1>5. /\ paying' \in PayingType /\ paying'.checkout = paying.checkout
      /\ paying'.amount = paying.amount /\ paying'.answered = paying.answered
  BY <1>1, <1>3 DEF PayingType
<1> HIDE DEF t
<1>6. /\ transfers \in Seq(TransferType) /\ Len(transfers) \in Nat
      /\ transfers' \in Seq(TransferType) /\ Len(transfers') = n
      /\ \A i \in 1 .. Len(transfers) : transfers'[i] = transfers[i]
      /\ transfers'[n] = t
  <2>1. transfers \in Seq(TransferType)
    BY <1>2 DEF TypeOK
  <2> QED
    BY <1>1, <1>4, <2>1, AppendFacts
<1>7. /\ n \in DOMAIN transfers' /\ n \notin DOMAIN transfers
      /\ \A i \in DOMAIN transfers : i \in DOMAIN transfers' /\ transfers'[i] = transfers[i]
      /\ \A i \in DOMAIN transfers' : i = n \/ i \in DOMAIN transfers
  BY <1>6
<1> HIDE DEF n
<1>8. TypeOK'
  BY <1>1, <1>2, <1>5, <1>6 DEF TypeOK
<1>9. Payments'
  <2>1. Backed(paying.checkout, paying.amount, paying.answered)
    BY <1>1, <1>2 DEF Payments
  <2>2. ASSUME NEW i \in DOMAIN transfers'
        PROVE  Backed(transfers'[i].memo, transfers'[i].amount, transfers'[i].answered)
    <3>1. CASE i = n
      BY <1>4, <1>6, <2>1, <3>1
    <3>2. CASE i \in DOMAIN transfers
      BY <1>2, <1>7, <3>2 DEF Payments
    <3> QED
      BY <1>7, <3>1, <3>2
  <2> QED
    BY <1>1, <1>5, <2>1, <2>2 DEF Payments, Backed
<1>10. Published'
  <2>1. ASSUME NEW c \in Checkouts PROVE Paid(c)' = Paid(c)
    BY <1>4, <1>6, <1>7 DEF Paid
  <2> QED
    BY <1>1, <1>2, <2>1 DEF Published
<1>11. KeyValid => IgnoredOnlyIfRepriced'
  BY <1>1, <1>2, <1>4, <1>6, <1>7 DEF IgnoredOnlyIfRepriced
<1> QED
  BY <1>1, <1>2, <1>8, <1>9, <1>10, <1>11, Remains DEF PurchaseInv

\* The wallet reports.
LEMMA StepReport ==
    ASSUME PurchaseInv, WalletReports
    PROVE  PurchaseInv'
<1>1. /\ paying' = None
      /\ UNCHANGED <<request, purchase, votePrice, completed, listening, broadcasts,
                     transfers, toServer, toApi, complete, page, dialog, quote, asked>>
  BY DEF WalletReports, serverVars
<1>2. TypeOK /\ Submitted /\ Agreed /\ Payments /\ Published
      /\ (KeyValid => IgnoredOnlyIfRepriced)
  BY DEF PurchaseInv
<1>3. waiting' \in [Checkouts -> BOOLEAN]
  BY <1>2 DEF WalletReports, TypeOK
<1>4. TypeOK'
  BY <1>1, <1>2, <1>3 DEF TypeOK
<1>5. Payments'
  BY <1>1, <1>2 DEF Payments, Backed
<1> QED
  BY <1>1, <1>2, <1>4, <1>5, Remains DEF PurchaseInv

-----------------------------------------------------------------------------
(* The server and the API                                                  *)

\* What a payment rests on does not change while requests stay as they are and
\* no purchase that is being sold is given up.
LEMMA PaymentsKept ==
    ASSUME Payments, UNCHANGED <<request, transfers, paying>>, TypeOK,
           \A c \in Checkouts : purchase[c] = "selling" => purchase'[c] = "selling"
    PROVE  Payments'
<1>1. ASSUME NEW i \in DOMAIN transfers PROVE transfers[i].memo \in Checkouts
  <2>1. transfers[i] \in TransferType
    BY DEF TypeOK
  <2> QED
    BY <2>1 DEF TransferType
<1>2. paying # None => paying.checkout \in Checkouts
  BY DEF TypeOK, PayingType
<1> QED
  BY <1>1, <1>2 DEF Payments, Backed

\* What the server sends are answers.
LEMMA AnswersTyped ==
    /\ \A call \in CallType : /\ Answer("failure", call) \in AnswerType
                              /\ Answer("failure", call).type # "prices"
    /\ \A b \in BOOLEAN : /\ Answer("notify", b) \in AnswerType
                          /\ Answer("notify", b).type # "prices"
                          /\ Answer("complete", b) \in AnswerType
                          /\ Answer("complete", b).type # "prices"
    /\ \A n \in Nat : Answer("prices", n) \in AnswerType
BY DEF Answer, AnswerType

\* What the server does with a call: the purchase and its price, and whether it
\* answers, with e.
Served(c, p, v, answers, e) ==
    /\ purchase' = [purchase EXCEPT ![c] = p]
    /\ votePrice' = [votePrice EXCEPT ![c] = v]
    /\ toApi' = [toApi EXCEPT ![c] = IF answers THEN Append(@, e) ELSE @]

\* Whatever call the server takes, the checkout stays coherent.
LEMMA ServeCases ==
    ASSUME PurchaseInv, NEW c \in Checkouts, Serve(c)
    PROVE  \E p \in PurchaseStates, v \in Nat, answers \in BOOLEAN, e \in AnswerType :
              /\ Served(c, p, v, answers, e)
              /\ purchase[c] = "selling" => p = "selling"
              /\ Coherent(request[c], p, v, Tail(toServer[c]),
                          IF answers THEN Append(toApi[c], e) ELSE toApi[c],
                          quote[c], asked[c])
              /\ listening' \in [Checkouts -> BOOLEAN]
<1> DEFINE r == request[c]  p == purchase[c]  v == votePrice[c]  ts == toServer[c]
           ta == toApi[c]  q == quote[c]  n == asked[c]  call == Head(ts)
           quiet == Answer("notify", TRUE)
<1>1. TypeOK /\ Coherent(r, p, v, ts, ta, q, n) /\ Typed(r, p, v, ts, ta, q, n)
  BY CheckoutTyped DEF PurchaseInv, Agreed
<1>2. ts # <<>> /\ r \in Requests /\ call \in CallType
  <2>1. ts # <<>>
    BY DEF Serve
  <2> QED
    BY <1>1, <2>1, NextCall
<1>3. /\ purchase = [purchase EXCEPT ![c] = p]
      /\ votePrice = [votePrice EXCEPT ![c] = v]
      /\ toApi = [toApi EXCEPT ![c] = ta]
      /\ \A e : [toApi EXCEPT ![c] = IF TRUE THEN Append(@, e) ELSE @]
                    = [toApi EXCEPT ![c] = Append(@, e)]
      /\ \A e : [toApi EXCEPT ![c] = IF FALSE THEN Append(@, e) ELSE @] = toApi
      /\ p \in PurchaseStates /\ v \in Nat
      /\ listening \in [Checkouts -> BOOLEAN] /\ completed[c] \in BOOLEAN
  BY <1>1 DEF TypeOK, PurchaseStates
<1>4. quiet \in AnswerType
  BY AnswersTyped
<1>5. CASE p = "refused"
  <2> DEFINE e == Answer("failure", call)
  <2>1. Reply(c, e) /\ UNCHANGED <<purchase, votePrice, listening>>
    BY <1>5 DEF Serve
  <2>2. e \in AnswerType /\ e.type # "prices"
    BY <1>2, AnswersTyped
  <2> HIDE DEF e
  <2>3. Coherent(r, p, v, Tail(ts), Append(ta, e), q, n)
    BY <1>1, <1>2, <1>5, <2>2, CoherentRefuse
  <2>4. Served(c, p, v, TRUE, e)
    BY <1>3, <2>1 DEF Served, Reply
  <2> QED
    BY <1>3, <1>5, <2>1, <2>2, <2>3, <2>4
<1>6. CASE p # "refused" /\ call = "purchaseContest" /\ purchaseContest(c)
  <2> DEFINE pp == IF WithinLimits(r) THEN "selling" ELSE "refused"
  <2>1. /\ purchase' = [purchase EXCEPT ![c] = pp]
        /\ votePrice' = [votePrice EXCEPT ![c] = ContestPrice(r)]
        /\ UNCHANGED <<listening, toApi>>
    BY <1>6 DEF purchaseContest
  <2>2. pp \in {"selling", "refused"} /\ pp \in PurchaseStates
    BY DEF PurchaseStates
  <2> HIDE DEF pp
  <2>3. p = "none" /\ Coherent(r, pp, ContestPrice(r), Tail(ts), ta, q, n)
    BY <1>1, <1>2, <1>6, <2>2, CoherentPurchase
  <2>4. Served(c, pp, ContestPrice(r), FALSE, quiet)
    BY <1>3, <2>1 DEF Served
  <2>5. ContestPrice(r) \in Nat
    BY <1>2, FeeAndPrice
  <2> QED
    BY <1>3, <1>4, <2>1, <2>2, <2>3, <2>4, <2>5
<1>7. CASE p # "refused" /\ call = "subscribe" /\ subscribe(c)
  <2>1. p = "selling" /\ Coherent(r, p, v, Tail(ts), ta, q, n)
    BY <1>1, <1>2, <1>7, CoherentTaken
  <2>2. CASE completed[c]
    <3>1. Reply(c, quiet) /\ UNCHANGED <<purchase, votePrice, listening>>
      BY <1>7, <2>2 DEF subscribe
    <3>2. Served(c, p, v, TRUE, quiet)
      BY <1>3, <3>1 DEF Served, Reply
    <3>3. Typed(r, p, v, Tail(ts), ta, q, n)
      BY <1>1, <1>2, TailFacts DEF Typed
    <3>4. Coherent(r, p, v, Tail(ts), Append(ta, quiet), q, n)
      BY <2>1, <3>3, <1>4, AnswersTyped, CoherentTold
    <3> QED
      BY <1>3, <1>4, <2>1, <3>1, <3>2, <3>4
  <2>3. CASE ~ completed[c]
    <3>1. UNCHANGED <<purchase, votePrice, toApi>> /\ listening' = [listening EXCEPT ![c] = TRUE]
      BY <1>7, <2>3 DEF subscribe
    <3>2. Served(c, p, v, FALSE, quiet)
      BY <1>3, <3>1 DEF Served
    <3>3. listening' \in [Checkouts -> BOOLEAN]
      BY <1>3, <3>1
    <3> QED
      BY <1>3, <1>4, <2>1, <3>2, <3>3
  <2> QED
    BY <2>2, <2>3
<1>8. CASE p # "refused" /\ call = "complete" /\ answerComplete(c)
  <2> DEFINE e == Answer("complete", completed[c])
  <2>1. p = "selling" /\ Coherent(r, p, v, Tail(ts), ta, q, n)
    BY <1>1, <1>2, <1>8, CoherentTaken
  <2>2. Reply(c, e) /\ UNCHANGED <<purchase, votePrice, listening>>
    BY <1>8 DEF answerComplete
  <2>3. e \in AnswerType /\ e.type # "prices"
    BY <1>3, AnswersTyped
  <2> HIDE DEF e
  <2>4. Served(c, p, v, TRUE, e)
    BY <1>3, <2>2 DEF Served, Reply
  <2>5. Typed(r, p, v, Tail(ts), ta, q, n)
    BY <1>1, <1>2, TailFacts DEF Typed
  <2>6. Coherent(r, p, v, Tail(ts), Append(ta, e), q, n)
    BY <2>1, <2>3, <2>5, CoherentTold
  <2> QED
    BY <1>3, <2>1, <2>2, <2>3, <2>4, <2>6
<1>9. CASE p # "refused" /\ call = "prices" /\ prices(c)
  <2> DEFINE w == v + Fee(r)  e == Answer("prices", w)
  <2>1. Fee(r) \in Nat /\ w \in Nat
    <3>1. Fee(r) \in Nat
      BY <1>2, FeeAndPrice
    <3> QED
      BY <1>3, <3>1
  <2>2. p = "selling" /\ Coherent(r, p, w, Tail(ts), Append(ta, e), q, n)
    BY <1>1, <1>2, <1>9, CoherentPrices
  <2>3. /\ votePrice' = [votePrice EXCEPT ![c] = w]
        /\ Reply(c, Answer("prices", votePrice'[c]))
        /\ UNCHANGED <<purchase, listening>>
    BY <1>9 DEF prices, Fee
  <2>4. e \in AnswerType
    BY <2>1, AnswersTyped
  <2> HIDE DEF w
  <2>5. votePrice'[c] = w
    BY <1>1, <2>3 DEF TypeOK
  <2>6. Served(c, p, w, TRUE, e)
    BY <1>3, <2>3, <2>5 DEF Served, Reply
  <2> HIDE DEF e
  <2> QED
    BY <1>3, <2>1, <2>2, <2>3, <2>4, <2>6
<1>10. \/ p = "refused"
       \/ p # "refused" /\ call = "purchaseContest" /\ purchaseContest(c)
       \/ p # "refused" /\ call = "subscribe" /\ subscribe(c)
       \/ p # "refused" /\ call = "complete" /\ answerComplete(c)
       \/ p # "refused" /\ call = "prices" /\ prices(c)
  BY DEF Serve
<1> QED
  BY <1>5, <1>6, <1>7, <1>8, <1>9, <1>10

\* The server takes a call.
LEMMA StepServe ==
    ASSUME PurchaseInv, NEW c \in Checkouts, Serve(c)
    PROVE  PurchaseInv'
<1>1. /\ toServer[c] # <<>> /\ toServer' = [toServer EXCEPT ![c] = Tail(@)]
      /\ UNCHANGED <<request, completed, broadcasts, transfers, complete, page,
                     dialog, quote, asked, waiting, paying>>
  BY DEF Serve, dialogVars
<1>2. TypeOK /\ Submitted /\ Agreed /\ Payments /\ Published
      /\ (KeyValid => IgnoredOnlyIfRepriced)
  BY DEF PurchaseInv
<1>3. PICK p \in PurchaseStates, v \in Nat, answers \in BOOLEAN, e \in AnswerType :
          /\ Served(c, p, v, answers, e)
          /\ purchase[c] = "selling" => p = "selling"
          /\ Coherent(request[c], p, v, Tail(toServer[c]),
                      IF answers THEN Append(toApi[c], e) ELSE toApi[c], quote[c], asked[c])
          /\ listening' \in [Checkouts -> BOOLEAN]
  BY ServeCases
<1> DEFINE ta == IF answers THEN Append(toApi[c], e) ELSE toApi[c]
<1>4. Tail(toServer[c]) \in Seq(CallType) /\ ta \in Seq(AnswerType)
  <2>1. toServer[c] \in Seq(CallType) /\ toApi[c] \in Seq(AnswerType)
    BY <1>2 DEF TypeOK
  <2> QED
    BY <1>1, <2>1, TailFacts, AppendFacts
<1>5. /\ purchase' = [purchase EXCEPT ![c] = p]
      /\ votePrice' = [votePrice EXCEPT ![c] = v]
      /\ toApi' = [toApi EXCEPT ![c] = ta]
  BY <1>3 DEF Served
<1> HIDE DEF ta
<1>6. TypeOK'
  BY <1>1, <1>2, <1>3, <1>4, <1>5 DEF TypeOK, PurchaseStates
<1>7. Agreed'
  <2>1. Coherent(request[c], p, v, Tail(toServer[c]), ta, quote[c], asked[c])
    BY <1>3 DEF ta
  <2>2. /\ purchase'[c] = p /\ votePrice'[c] = v /\ toApi'[c] = ta
        /\ toServer'[c] = Tail(toServer[c])
    BY <1>1, <1>2, <1>5 DEF TypeOK
  <2>3. \A d \in Checkouts : d # c =>
            /\ purchase'[d] = purchase[d] /\ votePrice'[d] = votePrice[d]
            /\ toApi'[d] = toApi[d] /\ toServer'[d] = toServer[d]
    BY <1>1, <1>2, <1>5 DEF TypeOK
  <2> QED
    BY <1>1, <1>2, <2>1, <2>2, <2>3, OneCheckout
<1>8. \A d \in Checkouts : purchase[d] = "selling" => purchase'[d] = "selling"
  BY <1>2, <1>3, <1>5 DEF TypeOK
<1>9. Payments'
  BY <1>1, <1>2, <1>8, PaymentsKept
<1> QED
  BY <1>1, <1>2, <1>6, <1>7, <1>9, Remains DEF PurchaseInv

\* The API takes an answer.
LEMMA StepReceive ==
    ASSUME PurchaseInv, NEW c \in Checkouts, Receive(c)
    PROVE  PurchaseInv'
<1> DEFINE message == Head(toApi[c])
           qq == [amount |-> message.value,
                  answered |-> IF quote[c] = None THEN 1 ELSE quote[c].answered + 1]
<1>1. /\ toApi[c] # <<>> /\ toApi' = [toApi EXCEPT ![c] = Tail(@)]
      /\ UNCHANGED <<request, purchase, votePrice, completed, listening, broadcasts,
                     transfers, toServer, asked, waiting, paying>>
  BY DEF Receive, serverVars
<1>2. TypeOK /\ Submitted /\ Agreed /\ Payments /\ Published
      /\ (KeyValid => IgnoredOnlyIfRepriced)
  BY DEF PurchaseInv
<1>3. toApi[c] \in Seq(AnswerType) /\ Tail(toApi[c]) \in Seq(AnswerType)
      /\ message \in AnswerType
  <2>1. toApi[c] \in Seq(AnswerType)
    BY <1>2 DEF TypeOK
  <2> QED
    BY <1>1, <2>1, TailFacts
<1>4. Coherent(request[c], purchase[c], votePrice[c], toServer[c], toApi[c], quote[c],
               asked[c])
  BY <1>2 DEF Agreed
<1>5. \/ message.type # "prices" /\ quote' = quote
      \/ message.type = "prices" /\ quote' = [quote EXCEPT ![c] = qq]
  BY DEF Receive, setPrices
<1>6. \/ message.type = "notify" /\ notify(c, message.value)
      \/ message.type = "complete" /\ setComplete(c, message.value)
      \/ message.type = "prices" /\ UNCHANGED <<complete, page, dialog>>
      \/ /\ message.type = "failure"
         /\ dialog' = [dialog EXCEPT ![c] =
                          IF @ = "open" /\ message.value = "prices" THEN "closed" ELSE @]
         /\ UNCHANGED <<complete, page>>
  BY DEF Receive
<1> HIDE DEF qq
<1>7. /\ page' \in BOOLEAN
      /\ dialog' \in [Checkouts -> {"none", "opening", "open", "closed", "gone"}]
      /\ \A d \in Checkouts : dialog'[d] = "none" <=> dialog[d] = "none"
  <2>1. /\ page \in BOOLEAN
        /\ dialog \in [Checkouts -> {"none", "opening", "open", "closed", "gone"}]
    BY <1>2 DEF TypeOK
  <2>2. CASE LeavePage
    BY <1>2, <2>2, LeavingTyped
  <2>3. CASE UNCHANGED <<page, dialog>>
    BY <2>1, <2>3
  <2>4. CASE /\ dialog' = [dialog EXCEPT ![c] =
                              IF @ = "open" /\ message.value = "prices" THEN "closed" ELSE @]
             /\ UNCHANGED page
    BY <2>1, <2>4
  <2> QED
    BY <1>6, <2>2, <2>3, <2>4 DEF notify, setComplete, Told
<1>8. Submitted'
  BY <1>1, <1>2, <1>7 DEF Submitted
<1>9. \E q \in QuoteType \cup {None} :
          /\ quote' = [quote EXCEPT ![c] = q]
          /\ Coherent(request[c], purchase[c], votePrice[c], toServer[c], Tail(toApi[c]), q,
                      asked[c])
  <2>1. Typed(request[c], purchase[c], votePrice[c], toServer[c], toApi[c], quote[c],
              asked[c])
    BY <1>2, CheckoutTyped
  <2>2. CASE message.type # "prices" /\ quote' = quote
    <3>1. quote[c] \in QuoteType \cup {None} /\ quote = [quote EXCEPT ![c] = quote[c]]
      BY <1>2 DEF TypeOK
    <3>2. Coherent(request[c], purchase[c], votePrice[c], toServer[c], Tail(toApi[c]),
                   quote[c], asked[c])
      BY <1>1, <1>4, <2>1, <2>2, CoherentHeard
    <3> QED
      BY <2>2, <3>1, <3>2
  <2>3. CASE message.type = "prices" /\ quote' = [quote EXCEPT ![c] = qq]
    <3>1. /\ qq \in QuoteType
          /\ Coherent(request[c], purchase[c], votePrice[c], toServer[c], Tail(toApi[c]), qq,
                      asked[c])
      BY <1>1, <1>4, <2>1, <2>3, CoherentQuote DEF qq
    <3> QED
      BY <2>3, <3>1
  <2> QED
    BY <1>5, <2>2, <2>3
<1>10. Agreed' /\ quote' \in [Checkouts -> QuoteType \cup {None}]
  <2>1. PICK q \in QuoteType \cup {None} :
            /\ quote' = [quote EXCEPT ![c] = q]
            /\ Coherent(request[c], purchase[c], votePrice[c], toServer[c], Tail(toApi[c]), q,
                        asked[c])
    BY <1>9
  <2>2. quote'[c] = q /\ toApi'[c] = Tail(toApi[c])
        /\ quote' \in [Checkouts -> QuoteType \cup {None}]
    BY <1>1, <1>2, <2>1 DEF TypeOK
  <2>3. \A d \in Checkouts : d # c => toApi'[d] = toApi[d] /\ quote'[d] = quote[d]
    BY <1>1, <1>2, <2>1 DEF TypeOK
  <2> QED
    BY <1>1, <1>2, <2>1, <2>2, <2>3, OneCheckout
<1>11. complete' \in [Checkouts -> BOOLEAN]
  <2>1. complete \in [Checkouts -> BOOLEAN]
    BY <1>2 DEF TypeOK
  <2>2. CASE message.type = "notify" /\ notify(c, message.value)
    BY <2>1, <2>2 DEF notify, setComplete
  <2>3. CASE message.type = "complete" /\ setComplete(c, message.value)
    <3>1. message.value \in BOOLEAN
      BY <1>3, <2>3 DEF AnswerType
    <3> HIDE DEF message
    <3> QED
      BY <2>1, <2>3, <3>1 DEF setComplete
  <2> QED
    BY <1>6, <2>1, <2>2, <2>3
<1>12. TypeOK'
  BY <1>1, <1>2, <1>3, <1>7, <1>10, <1>11 DEF TypeOK
<1> QED
  BY <1>1, <1>2, <1>8, <1>10, <1>12, Remains DEF PurchaseInv

-----------------------------------------------------------------------------
(* Payments                                                                *)

\* A transfer changes its state, and nothing else.
LEMMA Marked ==
    ASSUME TypeOK, NEW i \in DOMAIN transfers,
           NEW s \in {"sent", "ignored", "failed", "broadcast", "done"}, SetState(i, s)
    PROVE  /\ transfers' \in Seq(TransferType) /\ DOMAIN transfers' = DOMAIN transfers
           /\ \A j \in DOMAIN transfers :
                 /\ transfers[j] \in TransferType
                 /\ transfers'[j].memo = transfers[j].memo
                 /\ transfers'[j].amount = transfers[j].amount
                 /\ transfers'[j].answered = transfers[j].answered
                 /\ transfers'[j].state = IF j = i THEN s ELSE transfers[j].state
<1> DEFINE t == [transfers[i] EXCEPT !.state = s]
<1>1. transfers \in Seq(TransferType) /\ \A j \in DOMAIN transfers : transfers[j] \in TransferType
  BY DEF TypeOK
<1>2. /\ t \in TransferType /\ t.memo = transfers[i].memo /\ t.amount = transfers[i].amount
      /\ t.answered = transfers[i].answered /\ t.state = s
  BY <1>1 DEF TransferType
<1>3. transfers' = [transfers EXCEPT ![i] = t]
  BY DEF SetState
<1> HIDE DEF t
<1>4. transfers' \in Seq(TransferType) /\ DOMAIN transfers' = DOMAIN transfers
  BY <1>1, <1>2, <1>3
<1>5. ASSUME NEW j \in DOMAIN transfers
      PROVE  /\ transfers'[j].memo = transfers[j].memo
             /\ transfers'[j].amount = transfers[j].amount
             /\ transfers'[j].answered = transfers[j].answered
             /\ transfers'[j].state = IF j = i THEN s ELSE transfers[j].state
  <2>1. CASE j = i
    BY <1>1, <1>2, <1>3, <2>1
  <2>2. CASE j # i
    <3>1. transfers'[j] = transfers[j]
      BY <1>1, <1>3, <2>2
    <3> QED
      BY <2>2, <3>1
  <2> QED
    BY <2>1, <2>2
<1> QED
  BY <1>1, <1>4, <1>5

\* Transfers that have not paid for a contest do not count ...
LEMMA PaidKept ==
    ASSUME TypeOK, NEW i \in DOMAIN transfers,
           NEW s \in {"sent", "ignored", "failed", "broadcast", "done"}, SetState(i, s),
           transfers[i].state \in {"broadcast", "done"} <=> s \in {"broadcast", "done"}
    PROVE  \A c \in Checkouts : Paid(c)' = Paid(c)
BY Marked DEF Paid

\* ... and one that has is one more.
LEMMA PaidGrows ==
    ASSUME TypeOK, NEW i \in DOMAIN transfers, SetState(i, "broadcast"),
           transfers[i].state = "sent"
    PROVE  \A c \in Checkouts :
               Cardinality(Paid(c)') =
                   IF c = transfers[i].memo THEN Cardinality(Paid(c)) + 1
                                            ELSE Cardinality(Paid(c))
<1> TAKE c \in Checkouts
<1>1. IsFiniteSet(Paid(c)) /\ i \notin Paid(c)
  <2>1. DOMAIN transfers = 1 .. Len(transfers) /\ Len(transfers) \in Nat
    BY DEF TypeOK
  <2>2. IsFiniteSet(DOMAIN transfers)
    BY <2>1, FS_Interval
  <2> QED
    BY <2>2, FS_Subset DEF Paid
<1>2. CASE c = transfers[i].memo
  <2>1. Paid(c)' = Paid(c) \cup {i}
    BY <1>2, Marked DEF Paid
  <2> QED
    BY <1>1, <1>2, <2>1, FS_AddElement
<1>3. CASE c # transfers[i].memo
  <2>1. Paid(c)' = Paid(c)
    BY <1>3, Marked DEF Paid
  <2> QED
    BY <1>3, <2>1
<1> QED
  BY <1>2, <1>3

\* A transfer that falls short paid a price that was raised meanwhile.
LEMMA ShortIsRepriced ==
    ASSUME PurchaseInv, NEW i \in DOMAIN transfers, ~ Sufficient(i)
    PROVE  /\ oversized(request[transfers[i].memo])
           /\ transfers[i].answered < asked[transfers[i].memo]
<1> DEFINE c == transfers[i].memo  r == request[c]  v == votePrice[c]  n == asked[c]
           ts == toServer[c]  ta == toApi[c]  q == quote[c]  a == transfers[i].answered
<1>1. TypeOK /\ Backed(c, transfers[i].amount, a)
  BY DEF PurchaseInv, Payments
<1>2. transfers[i] \in TransferType
  BY <1>1 DEF TypeOK
<1>3. c \in Checkouts /\ a \in Nat /\ transfers[i].amount \in Nat
  BY <1>2 DEF TransferType
<1>4. Typed(r, purchase[c], v, ts, ta, q, n)
      /\ Coherent(r, purchase[c], v, ts, ta, q, n)
  BY <1>1, <1>3, CheckoutTyped DEF PurchaseInv, Agreed
<1>5. purchase[c] = "selling" /\ r # None /\ transfers[i].amount = Total(r, a)
  BY <1>1 DEF Backed
<1>6. r \in Requests /\ n \in Nat /\ Len(ts) \in Nat /\ v \in Nat
  BY <1>4, <1>5 DEF Typed
<1>7. PICK left \in 0 .. 3 :
          Calls(ts, left) /\ Len(ts) - left <= n /\ v = Total(r, n - (Len(ts) - left))
  BY <1>4, <1>5 DEF Coherent, Selling
<1> DEFINE k == n - (Len(ts) - left)
<1>8. k \in Nat /\ k <= n
  BY <1>6, <1>7 DEF Calls
<1>9. Total(r, a) < Total(r, k)
  <2>1. ~ (transfers[i].amount >= v)
    BY DEF Sufficient
  <2> QED
    BY <1>3, <1>5, <1>6, <1>7, <2>1
<1> HIDE DEF k, c, r, n, a
<1>10. Fee(r) \in Nat /\ ContestPrice(r) \in Nat
  BY <1>6, FeeAndPrice
<1>11. Total(r, a) = ContestPrice(r) + Fee(r) * a /\ Total(r, k) = ContestPrice(r) + Fee(r) * k
  BY DEF Total
<1>12. Fee(r) * a \in Nat /\ Fee(r) * k \in Nat
  BY <1>3, <1>8, <1>10
<1>13. Fee(r) * a < Fee(r) * k
  BY <1>9, <1>10, <1>11, <1>12
<1>14. a < k
  <2>1. k <= a => Fee(r) * k <= Fee(r) * a
    BY <1>3, <1>8, <1>10, Multiples
  <2> QED
    BY <1>3, <1>8, <1>12, <1>13, <2>1
<1>15. oversized(r)
  <2> SUFFICES ASSUME Fee(r) = 0 PROVE FALSE
    BY DEF Fee
  <2> QED
    BY <1>3, <1>8, <1>13
<1>16. a < n
  BY <1>3, <1>6, <1>8, <1>14
<1> QED
  BY <1>15, <1>16 DEF c, r, n, a

\* The buyer is notified, or nobody is.
LEMMA Notified ==
    ASSUME TypeOK, Agreed, Payments, NEW i \in DOMAIN transfers, NEW success \in BOOLEAN,
           NotifyAll(transfers[i].memo, success) \/ UNCHANGED toApi,
           UNCHANGED <<request, purchase, votePrice, toServer, quote, asked>>
    PROVE  Agreed' /\ toApi' \in [Checkouts -> Seq(AnswerType)]
<1> DEFINE c == transfers[i].memo  e == Answer("notify", success)
<1>1. e \in AnswerType /\ e.type # "prices"
  BY AnswersTyped
<1>2. c \in Checkouts /\ purchase[c] = "selling"
  <2>1. transfers[i] \in TransferType
    BY DEF TypeOK
  <2> QED
    BY <2>1 DEF TransferType, Payments, Backed
<1>3. CASE UNCHANGED toApi
  BY <1>3, Remains DEF TypeOK
<1>4. CASE toApi' = [toApi EXCEPT ![c] = Append(@, e)]
  <2> HIDE DEF e, c
  <2>1. toApi[c] \in Seq(AnswerType) /\ toApi \in [Checkouts -> Seq(AnswerType)]
    BY <1>2 DEF TypeOK
  <2>2. Append(toApi[c], e) \in Seq(AnswerType)
    BY <1>1, <2>1, AppendFacts
  <2>3. toApi' \in [Checkouts -> Seq(AnswerType)] /\ toApi'[c] = Append(toApi[c], e)
        /\ \A d \in Checkouts : d # c => toApi'[d] = toApi[d]
    BY <1>2, <1>4, <2>1, <2>2
  <2>4. Coherent(request[c], purchase[c], votePrice[c], toServer[c], toApi[c], quote[c],
                 asked[c])
    BY <1>2 DEF Agreed
  <2>5. Coherent(request[c], purchase[c], votePrice[c], toServer[c], Append(toApi[c], e),
                 quote[c], asked[c])
    BY <1>1, <1>2, <2>4, CheckoutTyped, CoherentTold
  <2> QED
    BY <1>2, <2>3, <2>5, OneCheckout
<1> QED
  BY <1>3, <1>4 DEF NotifyAll, Reply

\* Payments stay backed when one of them is processed.
LEMMA MarkedPayments ==
    ASSUME TypeOK, Payments, NEW i \in DOMAIN transfers,
           NEW s \in {"sent", "ignored", "failed", "broadcast", "done"}, SetState(i, s),
           UNCHANGED <<request, purchase, paying>>
    PROVE  Payments'
<1>1. ASSUME NEW j \in DOMAIN transfers'
      PROVE  Backed(transfers'[j].memo, transfers'[j].amount, transfers'[j].answered)
  <2>1. j \in DOMAIN transfers /\ transfers'[j].memo = transfers[j].memo
        /\ transfers'[j].amount = transfers[j].amount
        /\ transfers'[j].answered = transfers[j].answered
    BY Marked
  <2> QED
    BY <2>1 DEF Payments
<1>2. paying # None => Backed(paying.checkout, paying.amount, paying.answered)
  BY DEF Payments
<1> QED
  BY <1>1, <1>2 DEF Payments, Backed

\* A payment is processed up to the broadcast.
LEMMA StepStart ==
    ASSUME PurchaseInv, NEW i \in DOMAIN transfers, StartPayment(i)
    PROVE  PurchaseInv'
<1> DEFINE c == transfers[i].memo
<1>1. /\ transfers[i].state = "sent"
      /\ UNCHANGED <<request, purchase, votePrice, completed, listening, toServer,
                     complete, page, dialog, quote, asked, waiting, paying>>
  BY DEF StartPayment, dialogVars
<1>2. TypeOK /\ Submitted /\ Agreed /\ Payments /\ Published
      /\ (KeyValid => IgnoredOnlyIfRepriced)
  BY DEF PurchaseInv
<1>3. c \in Checkouts
  <2>1. transfers[i] \in TransferType
    BY <1>2 DEF TypeOK
  <2> QED
    BY <2>1 DEF TransferType
<1>4. CASE /\ ~ Sufficient(i) \/ ~ KeyValid
           /\ SetState(i, "ignored")
           /\ UNCHANGED <<broadcasts, toApi>>
  <2>1. TypeOK'
    BY <1>1, <1>2, <1>4, Marked DEF TypeOK
  <2>2. Published'
    BY <1>1, <1>2, <1>4, PaidKept DEF Published
  <2>3. Payments'
    BY <1>1, <1>2, <1>4, MarkedPayments
  <2>4. KeyValid => IgnoredOnlyIfRepriced'
    <3> SUFFICES ASSUME KeyValid, NEW j \in DOMAIN transfers',
                        transfers'[j].state = "ignored"
                 PROVE  /\ oversized(request'[transfers'[j].memo])
                        /\ transfers'[j].answered < asked'[transfers'[j].memo]
      BY DEF IgnoredOnlyIfRepriced
    <3>1. /\ j \in DOMAIN transfers
          /\ transfers'[j].memo = transfers[j].memo
          /\ transfers'[j].answered = transfers[j].answered
          /\ j # i => transfers'[j].state = transfers[j].state
      BY <1>2, <1>4, Marked
    <3>2. CASE j = i
      BY <1>1, <1>4, <3>1, <3>2, ShortIsRepriced
    <3>3. CASE j # i
      BY <1>1, <1>2, <3>1, <3>3 DEF IgnoredOnlyIfRepriced
    <3> QED
      BY <3>2, <3>3
  <2> QED
    BY <1>1, <1>2, <1>4, <2>1, <2>2, <2>3, <2>4, Remains DEF PurchaseInv
<1>5. ASSUME NEW s \in {"failed", "broadcast"}, SetState(i, s)
      PROVE  KeyValid => IgnoredOnlyIfRepriced'
  <2> SUFFICES ASSUME KeyValid, NEW j \in DOMAIN transfers',
                      transfers'[j].state = "ignored"
               PROVE  /\ oversized(request'[transfers'[j].memo])
                      /\ transfers'[j].answered < asked'[transfers'[j].memo]
    BY DEF IgnoredOnlyIfRepriced
  <2>1. /\ j \in DOMAIN transfers
        /\ transfers'[j].memo = transfers[j].memo
        /\ transfers'[j].answered = transfers[j].answered
        /\ transfers'[j].state = IF j = i THEN s ELSE transfers[j].state
    BY <1>2, <1>5, Marked
  <2>2. j # i /\ transfers[j].state = "ignored"
    BY <1>5, <2>1
  <2> QED
    BY <1>1, <1>2, <2>1, <2>2 DEF IgnoredOnlyIfRepriced
<1>6. CASE /\ SetState(i, "failed")
           /\ NotifyAll(c, FALSE)
           /\ UNCHANGED broadcasts
  <2>1. Agreed' /\ toApi' \in [Checkouts -> Seq(AnswerType)]
    BY <1>1, <1>2, <1>6, Notified
  <2>2. TypeOK'
    BY <1>1, <1>2, <1>6, <2>1, Marked DEF TypeOK
  <2>3. Published'
    BY <1>1, <1>2, <1>6, PaidKept DEF Published
  <2>4. Payments'
    BY <1>1, <1>2, <1>6, MarkedPayments
  <2> QED
    BY <1>1, <1>2, <1>5, <1>6, <2>1, <2>2, <2>3, <2>4, Remains DEF PurchaseInv
<1>7. CASE /\ SetState(i, "broadcast")
           /\ broadcasts' = [broadcasts EXCEPT ![c] = @ + 1]
           /\ UNCHANGED toApi
  <2>1. broadcasts \in [Checkouts -> Nat] /\ broadcasts' \in [Checkouts -> Nat]
    BY <1>2, <1>3, <1>7 DEF TypeOK
  <2>2. TypeOK'
    BY <1>1, <1>2, <1>7, <2>1, Marked DEF TypeOK
  <2>3. Published'
    <3> SUFFICES ASSUME NEW d \in Checkouts PROVE broadcasts'[d] <= Cardinality(Paid(d)')
      BY DEF Published
    <3>1. broadcasts[d] <= Cardinality(Paid(d)) /\ broadcasts[d] \in Nat
      BY <1>2, <2>1 DEF Published
    <3>2. Cardinality(Paid(d)) \in Nat
      <4>1. DOMAIN transfers = 1 .. Len(transfers) /\ Len(transfers) \in Nat
        BY <1>2 DEF TypeOK
      <4>2. IsFiniteSet(DOMAIN transfers)
        BY <4>1, FS_Interval
      <4> QED
        BY <4>2, FS_Subset, FS_CardinalityType DEF Paid
    <3>3. Cardinality(Paid(d)') = IF d = c THEN Cardinality(Paid(d)) + 1
                                           ELSE Cardinality(Paid(d))
      BY <1>1, <1>2, <1>7, PaidGrows
    <3>4. broadcasts'[d] = IF d = c THEN broadcasts[d] + 1 ELSE broadcasts[d]
      BY <1>3, <1>7, <2>1
    <3> QED
      BY <3>1, <3>2, <3>3, <3>4
  <2>4. Payments'
    BY <1>1, <1>2, <1>7, MarkedPayments
  <2> QED
    BY <1>1, <1>2, <1>5, <1>7, <2>2, <2>3, <2>4, Remains DEF PurchaseInv
<1> QED
  BY <1>4, <1>6, <1>7 DEF StartPayment

\* The rest of the processing.
LEMMA StepFinish ==
    ASSUME PurchaseInv, NEW i \in DOMAIN transfers, FinishPayment(i)
    PROVE  PurchaseInv'
<1>1. /\ transfers[i].state = "broadcast" /\ SetState(i, "done")
      /\ completed' = [completed EXCEPT ![transfers[i].memo] = TRUE]
      /\ NotifyAll(transfers[i].memo, TRUE)
      /\ UNCHANGED <<request, purchase, votePrice, listening, broadcasts, toServer,
                     complete, page, dialog, quote, asked, waiting, paying>>
  BY DEF FinishPayment, dialogVars
<1>2. TypeOK /\ Submitted /\ Agreed /\ Payments /\ Published
      /\ (KeyValid => IgnoredOnlyIfRepriced)
  BY DEF PurchaseInv
<1>3. Agreed' /\ toApi' \in [Checkouts -> Seq(AnswerType)]
  BY <1>1, <1>2, Notified
<1>4. completed' \in [Checkouts -> BOOLEAN]
  BY <1>1, <1>2 DEF TypeOK
<1>5. TypeOK'
  BY <1>1, <1>2, <1>3, <1>4, Marked DEF TypeOK
<1>6. Published'
  BY <1>1, <1>2, PaidKept DEF Published
<1>7. Payments'
  BY <1>1, <1>2, MarkedPayments
<1>8. KeyValid => IgnoredOnlyIfRepriced'
  <2> SUFFICES ASSUME KeyValid, NEW j \in DOMAIN transfers',
                      transfers'[j].state = "ignored"
               PROVE  /\ oversized(request'[transfers'[j].memo])
                      /\ transfers'[j].answered < asked'[transfers'[j].memo]
    BY DEF IgnoredOnlyIfRepriced
  <2>1. /\ j \in DOMAIN transfers
        /\ transfers'[j].memo = transfers[j].memo
        /\ transfers'[j].answered = transfers[j].answered
        /\ transfers'[j].state = IF j = i THEN "done" ELSE transfers[j].state
    BY <1>1, <1>2, Marked
  <2>2. j # i /\ transfers[j].state = "ignored"
    BY <2>1
  <2> QED
    BY <1>1, <1>2, <2>1, <2>2 DEF IgnoredOnlyIfRepriced
<1> QED
  BY <1>1, <1>2, <1>3, <1>5, <1>6, <1>7, <1>8, Remains DEF PurchaseInv

-----------------------------------------------------------------------------
(* Theorems                                                                *)

\* The invariant holds at first.
LEMMA InitPurchase ==
    ASSUME Init
    PROVE  PurchaseInv
<1>1. <<>> \in Seq(TransferType) /\ <<>> \in Seq(CallType) /\ <<>> \in Seq(AnswerType)
      /\ DOMAIN <<>> = {}
  OBVIOUS
<1>2. TypeOK
  BY <1>1 DEF Init, TypeOK
<1>3. Submitted
  BY DEF Init, Submitted
<1>4. Agreed
  <2> SUFFICES ASSUME NEW c \in Checkouts
               PROVE  Coherent(None, "none", 0, <<>>, <<>>, None, 0)
    BY DEF Init, Agreed
  <2> QED
    BY <1>1 DEF Coherent, Quotes
<1>5. Payments
  BY <1>1 DEF Init, Payments
<1>6. Published
  <2> SUFFICES ASSUME NEW c \in Checkouts PROVE broadcasts[c] <= Cardinality(Paid(c))
    BY DEF Published
  <2>1. Paid(c) = {} /\ broadcasts[c] = 0
    BY <1>1 DEF Init, Paid
  <2> QED
    BY <2>1, FS_EmptySet
<1>7. IgnoredOnlyIfRepriced
  BY <1>1 DEF Init, IgnoredOnlyIfRepriced
<1> QED
  BY <1>2, <1>3, <1>4, <1>5, <1>6, <1>7 DEF PurchaseInv

\* Every step preserves the invariant.
LEMMA StepPurchase ==
    ASSUME PurchaseInv, [Next]_vars
    PROVE  PurchaseInv'
<1>1. CASE UNCHANGED vars
  <2>1. UNCHANGED <<request, purchase, votePrice, completed, listening, broadcasts, transfers,
                    toServer, toApi, complete, page, dialog, quote, asked, waiting, paying>>
    BY <1>1 DEF vars, serverVars, dialogVars
  <2>2. TypeOK'
    BY <2>1 DEF PurchaseInv, TypeOK
  <2> QED
    BY <2>1, <2>2, Remains DEF PurchaseInv
<1>2. CASE Next
  BY <1>2, StepPage, StepBegin, StepAsk, StepServe, StepReceive, StepAccept, StepTransfer,
     StepReport, StepStart, StepFinish DEF Next
<1> QED
  BY <1>1, <1>2

\* The invariant holds in every behaviour.
LEMMA PurchaseInvariant == Spec => []PurchaseInv
<1>1. Init => PurchaseInv
  BY InitPurchase
<1>2. PurchaseInv /\ [Next]_vars => PurchaseInv'
  BY StepPurchase
<1> QED
  BY <1>1, <1>2, PTL DEF Spec

\* The state of the checkouts, of the server and of the messages between them
\* keeps its shape.
THEOREM TypeCorrect == Spec => []TypeOK
<1>1. PurchaseInv => TypeOK
  BY DEF PurchaseInv
<1> QED
  BY <1>1, PurchaseInvariant, PTL

\* No contest is published (ContestCreatorServer.cpp:267-283) without a transfer
\* of its own that covers what the price list says and the fee for its data.
THEOREM PaidBeforePublished == Spec => []PublishedIsPaidFor
<1>1. ASSUME PurchaseInv PROVE PublishedIsPaidFor
  <2> SUFFICES ASSUME NEW c \in Checkouts
               PROVE  broadcasts[c] <= Cardinality(
                          {i \in DOMAIN transfers :
                              /\ transfers[i].memo = c
                              /\ transfers[i].state \in {"broadcast", "done"}
                              /\ transfers[i].amount >= ListPrice(request[c])
                                     + IF oversized(request[c]) THEN DataFee ELSE 0})
    BY DEF PublishedIsPaidFor
  <2>1. ASSUME NEW i \in DOMAIN transfers, transfers[i].memo = c
        PROVE  transfers[i].amount >= ListPrice(request[c])
                   + IF oversized(request[c]) THEN DataFee ELSE 0
    <3> DEFINE r == request[c]  a == transfers[i].answered
    <3>1. transfers[i] \in TransferType /\ r \in Requests \cup {None}
      BY <1>1 DEF PurchaseInv, TypeOK
    <3>2. r # None /\ transfers[i].amount = Total(r, a)
      BY <1>1, <2>1 DEF PurchaseInv, Payments, Backed
    <3>3. a \in Nat /\ a >= 1
      BY <3>1 DEF TransferType
    <3>4. r \in RequestType /\ Fee(r) \in Nat /\ ContestPrice(r) \in Nat
      BY <3>1, <3>2, FeeAndPrice
    <3>5. ListPrice(r) = ContestPrice(r)
      BY <3>4, ListPriceIsContestPrice
    <3> HIDE DEF r, a
    <3>6. Fee(r) * 1 <= Fee(r) * a /\ Fee(r) * a \in Nat
      BY <3>3, <3>4, Multiples
    <3>7. transfers[i].amount >= ListPrice(r) + Fee(r)
      BY <3>2, <3>4, <3>5, <3>6 DEF Total
    <3> QED
      BY <3>7 DEF Fee, r
  <2>2. {i \in DOMAIN transfers :
            /\ transfers[i].memo = c
            /\ transfers[i].state \in {"broadcast", "done"}
            /\ transfers[i].amount >= ListPrice(request[c])
                   + IF oversized(request[c]) THEN DataFee ELSE 0} = Paid(c)
    BY <2>1 DEF Paid
  <2> QED
    BY <1>1, <2>2 DEF PurchaseInv, Published
<1> QED
  BY <1>1, PurchaseInvariant, PTL

\* With a key to publish with, the backend keeps money without a word
\* (ContestCreatorServer.cpp:298) only of a buyer with long texts who asked for
\* prices again before paying.
THEOREM IgnoredIfRepriced ==
    ASSUME KeyValid
    PROVE  Spec => []IgnoredOnlyIfRepriced
<1>1. PurchaseInv => IgnoredOnlyIfRepriced
  BY DEF PurchaseInv
<1> QED
  BY <1>1, PurchaseInvariant, PTL
=============================================================================
