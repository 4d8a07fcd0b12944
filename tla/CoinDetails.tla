---------------------------- MODULE CoinDetails ----------------------------
(***************************************************************************)
(* What the backend tells a client about a coin: BackendServer's answer to *)
(* getCoinDetails, computed from the vote database when it is asked.  The  *)
(* backend keeps nothing of a call; the client keeps one answer it got, at *)
(* any time, which later answers are compared with.                        *)
(***************************************************************************)
EXTENDS VoteDatabase

CONSTANTS
    HistoryLengths,     \* hours a client may ask for; the app asks for 24 * 7
    MaxHistoryLength,   \* 1000000 in the code
    TimeWidth           \* 2^32: seconds are multiplied by 1000 as unsigned ints

(* The end of a history wraps.  Times are 32-bit numbers of seconds, and    *)
(* hours in milliseconds are different modulo 2^32 unless they are 2^25     *)
(* hours apart, more than there are in 32 bits and a history together.      *)
ASSUME CoinDetailsAssumption ==
    /\ HistoryLengths \subseteq Int
    /\ MaxHistoryLength \in Nat /\ TimeWidth \in Nat \ {0}
    /\ \A t \in BlockTimes : \A k \in 1 .. (t \div 3600) + MaxHistoryLength :
           (1000 * 3600 * k) % TimeWidth # 0

VARIABLE told   \* the history a client was told, and its coin; {} before that

detailsVars == <<vars, told>>

isActive(c) == headTime >= c.startTime /\ (c.endTime = 0 \/ headTime <= c.endTime)

NoHistory == [end |-> 0, histogram |-> <<>>]

\* Mutant: the history is said to end now, not with its last sample.
populateCoinVolumeHistory_endsNow(vol, length) ==
    IF length <= 0 THEN NoHistory
    ELSE [end |-> (Hour(headTime) * 1000) % TimeWidth,
          histogram |-> [i \in 1 .. length |->
              LET h == vol.hourOfLastUpdate - 3600 * (length - i)
              IN  IF h \in DOMAIN vol.histogram THEN vol.histogram[h] ELSE 0]]

\* Hours go back from the last update; one that was not recorded is 0, and so
\* is one before 1970, which wraps to a time that is no hour.
populateCoinVolumeHistory(vol, length) ==
    IF length <= 0 THEN NoHistory
    ELSE [end |-> (vol.hourOfLastUpdate * 1000) % TimeWidth,
          histogram |-> [i \in 1 .. length |->
              LET h == vol.hourOfLastUpdate - 3600 * (length - i)
              IN  IF h \in DOMAIN vol.histogram THEN vol.histogram[h] ELSE 0]]

getCoinDetails(coin, length) ==
    LET ofCoin == {c \in contests : c.coin = coin}
    IN  [total |-> Cardinality(ofCoin),
         active |-> Cardinality({c \in ofCoin : isActive(c)}),
         history |-> IF coin \in DOMAIN volume
                     THEN populateCoinVolumeHistory(volume[coin], length)
                     ELSE NoHistory]

\* A call that asks for too much of a history fails.
Answered(coin, length) == coin \in DOMAIN volume => length <= MaxHistoryLength

\* A client is answered, and remembers.
Ask(coin, length) ==
    /\ told = {} /\ Answered(coin, length)
    /\ told' = {[coin |-> coin, history |-> getCoinDetails(coin, length).history]}
    /\ UNCHANGED vars

DetailsInit == Init /\ told = {}

DetailsNext ==
    \/ Next /\ UNCHANGED told
    \/ \E coin \in Coins, length \in HistoryLengths : Ask(coin, length)

DetailsSpec == DetailsInit /\ [][DetailsNext]_detailsVars

-----------------------------------------------------------------------------
\* The time of a sample of an answer, to a client, as wide as the end it is
\* counted from.
SampleTime(answer, i) ==
    (answer.end - 1000 * 3600 * (Len(answer.histogram) - i)) % TimeWidth

\* The samples two histories have for the same time agree.
Agree(old, new) ==
    \A i \in 1 .. Len(old.histogram) - 1, j \in 1 .. Len(new.histogram) - 1 :
        SampleTime(old, i) = SampleTime(new, j) => old.histogram[i] = new.histogram[j]

\* "Timestamp of the last sample in the histogram.  Each sample histogram_n is
\* timestamped exactly one hour prior to sample histogram_n+1"
\* (coindetails.capnp:35): of any two answers, of any lengths, whatever was
\* voted, moved and restarted between the calls, those samples that by their
\* timestamps are of the same hour are the same volume, but for the last of
\* each, whose hour is still being recorded.
HistoriesAgree ==
    \A t \in told : \A length \in HistoryLengths :
        Answered(t.coin, length) => Agree(t.history, getCoinDetails(t.coin, length).history)
=============================================================================
