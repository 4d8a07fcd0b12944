---------------------------- MODULE SecureStream ----------------------------
(***************************************************************************)
(* One direction of the connection between the app and the backend: a user *)
(* writes to a TlsPskAdaptor, which writes records to the wrapper of its   *)
(* socket; the other end's wrapper reads them, and its TlsPskAdaptor       *)
(* answers the reads of its user.  The ends differ: the backend's wrapper  *)
(* is an FcStreamWrapper, whose reads and writes are done by fibers, the   *)
(* app's a QSocketWrapper, which is called by Qt.  The two directions      *)
(* share nothing but the handshake, so a behaviour has one, either.        *)
(*                                                                         *)
(* Bytes a user writes are numbered.  A TLS record is [kind, bytes] and    *)
(* takes RecordSize bytes on the wire, each of them <<record, position>>.  *)
(***************************************************************************)
EXTENDS Integers, Sequences, FiniteSets, SequencesExt

CONSTANTS
    INITIAL_READ_SIZE,  \* wire bytes the adaptor reads at most, 100 in the code
    RecordSize,         \* wire bytes of a record
    Requests,           \* what users ask for: [min, max]
    MaxBytes,           \* bound: bytes written
    MaxReads            \* bound: reads asked for

ASSUME StreamAssumption ==
    /\ INITIAL_READ_SIZE \in Nat \ {0} /\ RecordSize \in Nat \ {0}
    /\ MaxBytes \in Nat /\ MaxReads \in Nat
    /\ \A r \in Requests : r.min \in Nat \ {0} /\ r.max \in Nat /\ r.min <= r.max

VARIABLES
    reader,         \* the end that reads: "app" or "backend"
    sent,           \* bytes the writing user has written
    deferred,       \* writer's adaptor: writes that wait for the handshake
    shaken,         \* writer's adaptor: is the handshake complete?
    closing,        \* writer's adaptor: is the channel closed?
    pendingWrites,  \* FcStreamWrapper: records to write
    writing,        \* FcStreamWrapper: is the writer fiber there?
    wire,           \* external: wire bytes on the way
    fin,            \* external: has the writer's socket been closed?
    inbox,          \* external: bytes the reader's socket has
    wireReads,      \* reader's wrapper: pendingReads, with the bytes so far
    eof,            \* reader's wrapper: eof
    results,        \* answers to the adaptor's reads it has to continue with
    tls             \* reader's adaptor

writerVars == <<sent, deferred, shaken, closing, pendingWrites, writing>>
streamVars == <<reader, writerVars, wire, fin, inbox, wireReads, eof, results, tls>>

Record(kind, bytes) == [kind |-> kind, bytes |-> bytes]
OnWire(records) ==
    [k \in 1 .. Len(records) * RecordSize |->
        <<records[((k - 1) \div RecordSize) + 1], ((k - 1) % RecordSize) + 1>>]
Smaller(m, n) == IF m < n THEN m ELSE n

\* What the user of the reading end has been given.
received == FlattenSeq([i \in DOMAIN tls.answers |-> tls.answers[i].bytes])

-----------------------------------------------------------------------------
(* The writing end                                                         *)

\* Mutant: a fiber is started only for the first write.
Output_once(records) ==
    IF reader = "app"
    THEN /\ pendingWrites' = pendingWrites \o records
         /\ writing' = (writing \/ sent = 0)
         /\ UNCHANGED wire
    ELSE /\ wire' = wire \o OnWire(records)
         /\ UNCHANGED <<pendingWrites, writing>>

\* The adaptor's outputFunction, for each record.  QSocketWrapper writes to
\* the socket; FcStreamWrapper queues, and starts a fiber if none is there.
Output(records) ==
    IF reader = "app"
    THEN /\ pendingWrites' = pendingWrites \o records
         /\ writing' = TRUE
         /\ UNCHANGED wire
    ELSE /\ wire' = wire \o OnWire(records)
         /\ UNCHANGED <<pendingWrites, writing>>

\* TlsPskAdaptor::write.  External: the RPC layer writes a message when the one
\* before it is written, and the pieces of one at once, so that it writes none
\* while writes that waited for the handshake are being made.
Write(n) ==
    /\ ~closing /\ ~fin /\ sent + n <= MaxBytes
    /\ shaken => deferred = <<>>
    /\ sent' = sent + n
    /\ LET bytes == [i \in 1 .. n |-> sent + i]
       IN  IF shaken
           THEN Output(<<Record("data", bytes)>>) /\ UNCHANGED deferred
           ELSE /\ deferred' = Append(deferred, Record("data", bytes))
                /\ UNCHANGED <<pendingWrites, writing, wire>>
    /\ UNCHANGED <<reader, shaken, closing, fin, inbox, wireReads, eof, results, tls>>

\* The handshake completes, after this end's last message of it.  Nothing that
\* waits for it has happened yet.
HandshakeFinishes ==
    /\ ~shaken /\ ~closing /\ ~fin
    /\ shaken' = TRUE
    /\ Output(<<Record("finished", <<>>)>>)
    /\ UNCHANGED <<reader, sent, deferred, closing, fin, inbox, wireReads, eof,
                   results, tls>>

\* Mutant: the write that waited for the handshake last is made first.
FlushDeferred_last ==
    /\ shaken /\ deferred # <<>> /\ ~fin
    /\ Output(<<Last(deferred)>>)
    /\ deferred' = Front(deferred)
    /\ UNCHANGED <<reader, sent, shaken, closing, fin, inbox, wireReads, eof,
                   results, tls>>

\* What a write that waited for the handshake continues with: writeImpl.
FlushDeferred ==
    /\ shaken /\ deferred # <<>> /\ ~fin
    /\ Output(<<Head(deferred)>>)
    /\ deferred' = Tail(deferred)
    /\ UNCHANGED <<reader, sent, shaken, closing, fin, inbox, wireReads, eof,
                   results, tls>>

\* The channel refuses what it got, and tells the other end.
HandshakeFails ==
    /\ ~shaken /\ ~closing /\ ~fin
    /\ closing' = TRUE
    /\ Output(<<Record("fatal", <<>>)>>)
    /\ UNCHANGED <<reader, sent, deferred, shaken, fin, inbox, wireReads, eof,
                   results, tls>>

\* TlsPskAdaptor::shutdownWrite; the wrappers flush and no more.  It is called
\* when the writes before it are done.
ShutdownWrite ==
    /\ shaken /\ ~closing /\ ~fin /\ deferred = <<>>
    /\ closing' = TRUE
    /\ Output(<<Record("close", <<>>)>>)
    /\ UNCHANGED <<reader, sent, deferred, shaken, fin, inbox, wireReads, eof,
                   results, tls>>

\* FcStreamWrapper::processWrites, a turn of its loop.
ProcessWrites ==
    /\ writing
    /\ IF pendingWrites = <<>>
       THEN writing' = FALSE /\ UNCHANGED <<pendingWrites, wire>>
       ELSE /\ wire' = wire \o OnWire(<<Head(pendingWrites)>>)
            /\ pendingWrites' = Tail(pendingWrites)
            /\ UNCHANGED writing
    /\ UNCHANGED <<reader, sent, deferred, shaken, closing, fin, inbox, wireReads,
                   eof, results, tls>>

\* The writer's end goes away: what its wrapper has queued is cancelled and
\* any tail of what is on the way may be lost.
Disconnect ==
    /\ ~fin
    /\ fin' = TRUE
    /\ pendingWrites' = <<>> /\ writing' = FALSE
    /\ \E k \in 0 .. Len(wire) : wire' = SubSeq(wire, 1, k)
    /\ UNCHANGED <<reader, sent, deferred, shaken, closing, inbox, wireReads, eof,
                   results, tls>>

-----------------------------------------------------------------------------
(* The reading end's wrapper                                               *)

Pending(min, max) == [min |-> min, max |-> max, bytes |-> <<>>]

\* No bytes: the end of the stream, or an exception.  The adaptor does the
\* same with both, and asks for one byte where it could get fewer.
Failed == <<>>

\* QSocketWrapper::readImpl and FcStreamWrapper::read and tryRead, called by
\* the adaptor with the wrapper's pending reads left and the results rest.
ReadWire(req, left, rest) ==
    CASE reader = "app" /\ Len(inbox) >= req.min ->
            LET n == Smaller(req.max, Len(inbox))
            IN  /\ results' = Append(rest, SubSeq(inbox, 1, n))
                /\ inbox' = SubSeq(inbox, n + 1, Len(inbox))
                /\ wireReads' = left
      [] eof /\ (reader = "app" => Len(inbox) < req.min) ->
            results' = Append(rest, Failed) /\ wireReads' = left /\ UNCHANGED inbox
      [] OTHER ->
            results' = rest /\ wireReads' = Append(left, req) /\ UNCHANGED inbox

\* Bytes arrive.  Qt emits readyRead, and the slot answers the first read if
\* there are enough of them; a second is never there, as OneWireRead says.
Arrive ==
    /\ \E n \in 1 .. Len(wire) :
        LET here == inbox \o SubSeq(wire, 1, n)
            req == Head(wireReads)
            take == Smaller(req.max, Len(here))
        IN  /\ wire' = SubSeq(wire, n + 1, Len(wire))
            /\ IF reader = "app" /\ wireReads # <<>> /\ Len(here) >= req.min
               THEN /\ results' = Append(results, SubSeq(here, 1, take))
                    /\ inbox' = SubSeq(here, take + 1, Len(here))
                    /\ wireReads' = Tail(wireReads)
               ELSE inbox' = here /\ UNCHANGED <<results, wireReads>>
    /\ UNCHANGED <<reader, writerVars, fin, eof, tls>>

\* The app's socket is disconnected.  A read that is waiting stays so until
\* the wrapper is destroyed.
Disconnected ==
    /\ reader = "app" /\ fin /\ wire = <<>> /\ ~eof
    /\ eof' = TRUE
    /\ UNCHANGED <<reader, writerVars, wire, fin, inbox, wireReads, results, tls>>

\* FcStreamWrapper::processReads: readsome returns some bytes.
ReadSome ==
    /\ reader = "backend" /\ wireReads # <<>> /\ inbox # <<>>
    /\ LET req == Head(wireReads)
           n == Smaller(req.max - Len(req.bytes), Len(inbox))
           bytes == req.bytes \o SubSeq(inbox, 1, n)
       IN  /\ inbox' = SubSeq(inbox, n + 1, Len(inbox))
           /\ IF Len(bytes) >= req.min
              THEN results' = Append(results, bytes) /\ wireReads' = Tail(wireReads)
              ELSE /\ wireReads' = [wireReads EXCEPT ![1].bytes = bytes]
                   /\ UNCHANGED results
    /\ UNCHANGED <<reader, writerVars, wire, fin, eof, tls>>

\* FcStreamWrapper::processReads: readsome throws at the end of the stream.
ReadEof ==
    /\ reader = "backend" /\ wireReads # <<>> /\ inbox = <<>> /\ wire = <<>> /\ fin
    /\ eof' = TRUE
    /\ results' = Append(results, Failed)
    /\ wireReads' = Tail(wireReads)
    /\ UNCHANGED <<reader, writerVars, wire, fin, inbox, tls>>

-----------------------------------------------------------------------------
(* The reading end's adaptor                                               *)

\* One request, unless one before it is waiting.
Serve(t, req) ==
    IF t.stuck \/ Len(t.incoming) < req.min
    THEN [t EXCEPT !.stuck = TRUE]
    ELSE LET n == Smaller(req.max, Len(t.incoming))
         IN  [t EXCEPT !.answers = Append(@, [req |-> req, bytes |-> SubSeq(t.incoming, 1, n)]),
                       !.incoming = SubSeq(@, n + 1, Len(@)),
                       !.requests = Tail(@)]

processReadRequests(t) ==
    IF t.channel = "active"
    THEN [FoldLeft(Serve, t, t.requests) EXCEPT !.stuck = FALSE]
    ELSE t

\* Mutant: the requests that wait are forgotten about.
handleEof_silent(t) == [processReadRequests(t) EXCEPT !.hitEof = TRUE]

\* Those left over are rejected (read) or told 0 bytes (tryRead).
handleEof(t) ==
    LET s == processReadRequests(t)
    IN  [s EXCEPT !.hitEof = TRUE,
                  !.answers = @ \o [i \in DOMAIN s.requests |->
                                       [req |-> s.requests[i], bytes |-> <<>>]],
                  !.requests = <<>>]

\* External: the channel and its callbacks, for one record.
Received(t, record) ==
    CASE record.kind = "finished" -> [t EXCEPT !.channel = "active"]
      [] record.kind = "data" ->
            processReadRequests([t EXCEPT !.incoming = @ \o record.bytes])
      [] record.kind = "close" -> [t EXCEPT !.channel = "closed"]
      [] record.kind = "fatal" -> [handleEof(t) EXCEPT !.channel = "closed"]

\* External: received_data keeps the start of a record that is not complete.
ReceivedData(t, bytes) ==
    LET all == t.partial \o bytes
        n == Len(all) \div RecordSize
    IN  [FoldLeft(Received, t, [i \in 1 .. n |-> all[i * RecordSize][1]])
            EXCEPT !.partial = SubSeq(all, n * RecordSize + 1, Len(all))]

startReadLoop == Pending(1, INITIAL_READ_SIZE)

\* Mutant: another read is started while the rest of a record is awaited.
ProcessBytes_loops ==
    /\ results # <<>>
    /\ LET bytes == Head(results)
       IN  IF bytes = Failed
           THEN /\ tls' = handleEof(tls)
                /\ results' = Tail(results)
                /\ UNCHANGED <<inbox, wireReads>>
           ELSE /\ tls' = ReceivedData(tls, bytes)
                /\ LET short == Len(tls'.partial)
                       need == RecordSize - short
                   IN  ReadWire(startReadLoop,
                                IF short = 0 THEN wireReads
                                ELSE Append(wireReads, Pending(need, need)),
                                Tail(results))
    /\ UNCHANGED <<reader, writerVars, wire, fin, eof>>

\* The continuation of the adaptor's read: processBytes, or taskFailed.
ProcessBytes ==
    /\ results # <<>>
    /\ LET bytes == Head(results)
       IN  IF bytes = Failed
           THEN /\ tls' = handleEof(tls)
                /\ results' = Tail(results)
                /\ UNCHANGED <<inbox, wireReads>>
           ELSE /\ tls' = ReceivedData(tls, bytes)
                /\ LET short == Len(tls'.partial)
                       need == RecordSize - short
                   IN  ReadWire(IF short = 0 THEN startReadLoop
                                ELSE Pending(need, need),
                                wireReads, Tail(results))
    /\ UNCHANGED <<reader, writerVars, wire, fin, eof>>

\* TlsPskAdaptor::read and tryRead
Read(req) ==
    /\ Len(tls.answers) + Len(tls.requests) < MaxReads
    /\ tls' = IF tls.hitEof
              THEN [tls EXCEPT !.answers = Append(@, [req |-> req, bytes |-> <<>>])]
              ELSE processReadRequests([tls EXCEPT !.requests = Append(@, req)])
    /\ UNCHANGED <<reader, writerVars, wire, fin, inbox, wireReads, eof, results>>

-----------------------------------------------------------------------------
StreamInit ==
    /\ reader \in {"app", "backend"}
    /\ sent = 0
    /\ deferred = <<>>
    /\ shaken = FALSE /\ closing = FALSE
    /\ pendingWrites = <<>> /\ writing = FALSE
    /\ wire = <<>> /\ fin = FALSE /\ inbox = <<>>
    /\ wireReads = <<startReadLoop>>    \* setChannel
    /\ eof = FALSE
    /\ results = <<>>
    /\ tls = [channel |-> "handshake", partial |-> <<>>, incoming |-> <<>>,
              requests |-> <<>>, answers |-> <<>>, hitEof |-> FALSE, stuck |-> FALSE]

StreamNext ==
    \/ \E n \in 1 .. MaxBytes : Write(n)
    \/ HandshakeFinishes
    \/ FlushDeferred
    \/ HandshakeFails
    \/ ShutdownWrite
    \/ ProcessWrites
    \/ Disconnect
    \/ Arrive
    \/ Disconnected
    \/ ReadSome
    \/ ReadEof
    \/ ProcessBytes
    \/ \E req \in Requests : Read(req)

\* The fibers and the event loops run and the network delivers.  Users and
\* handshakes may stop at any point, and nobody has to disconnect.
StreamFairness ==
    /\ WF_streamVars(FlushDeferred)
    /\ WF_streamVars(ProcessWrites)
    /\ WF_streamVars(Arrive)
    /\ WF_streamVars(Disconnected)
    /\ WF_streamVars(ReadSome)
    /\ WF_streamVars(ReadEof)
    /\ WF_streamVars(ProcessBytes)

StreamSpec == StreamInit /\ [][StreamNext]_streamVars /\ StreamFairness

-----------------------------------------------------------------------------
RecordSet == [kind : {"data", "finished", "fatal", "close"}, bytes : Seq(1 .. MaxBytes)]

WireBytes == RecordSet \X (1 .. RecordSize)

\* A read asks for the first bytes of a record, or for exactly those missing.
PendingReads ==
    {r \in [min : Nat \ {0}, max : Nat \ {0}, bytes : Seq(WireBytes)] :
        /\ \/ r.min = 1 /\ r.max = INITIAL_READ_SIZE
           \/ r.min = r.max /\ r.max < RecordSize
        /\ Len(r.bytes) < r.min}

Answers == [req : Requests, bytes : Seq(1 .. MaxBytes)]

Adaptors == [channel : {"handshake", "active", "closed"}, partial : Seq(WireBytes),
             incoming : Seq(1 .. MaxBytes), requests : Seq(Requests),
             answers : Seq(Answers), hitEof : BOOLEAN, stuck : BOOLEAN]

StreamTypeOK ==
    /\ reader \in {"app", "backend"}
    /\ sent \in 0 .. MaxBytes
    /\ {shaken, closing, writing, fin, eof} \subseteq BOOLEAN
    /\ deferred \in Seq(RecordSet) /\ pendingWrites \in Seq(RecordSet)
    /\ wire \in Seq(WireBytes) /\ inbox \in Seq(WireBytes)
    /\ wireReads \in Seq(PendingReads)
    /\ results \in Seq(Seq(WireBytes))
    /\ tls \in Adaptors /\ Len(tls.partial) < RecordSize /\ ~tls.stuck

(* The stream is a pipe: what one user reads is what the other wrote, in   *)
(* order and each byte once, through deferred writes, fibers, partial      *)
(* records and broken connections; every read is answered with as many     *)
(* bytes as it asks for, or with none at the end of a stream that was      *)
(* closed, and nothing is read after the end.                              *)
Pipe == INSTANCE BytePipe WITH closed <- closing \/ fin, answers <- tls.answers
ImplementsPipe == Pipe!Spec

(* The adaptor has one read under way until it meets the end, and never    *)
(* two: a second would overtake the first in QSocketWrapper::readImpl,     *)
(* which tries to answer a read before it looks for pending ones.          *)
OneWireRead ==
    /\ Len(wireReads) + Len(results) <= 1
    /\ ~tls.hitEof => Len(wireReads) + Len(results) = 1

(* A read for which enough was written does not wait for ever, unless the  *)
(* writer has closed the channel or its socket.                            *)
DataIsRead ==
    []<>(\/ tls.requests = <<>> \/ ~shaken \/ closing \/ fin
         \/ sent - Len(received) < Head(tls.requests).min)

(* On the backend no read waits for ever once the connection is gone; on   *)
(* the app it does until the wrapper is destroyed.                         *)
EndIsReported == (reader = "backend" /\ fin) ~> (tls.hitEof /\ tls.requests = <<>>)
=============================================================================
