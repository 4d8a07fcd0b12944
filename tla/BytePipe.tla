------------------------------ MODULE BytePipe ------------------------------
(***************************************************************************)
(* What a stream promises to its two users (kj::AsyncIoStream, one         *)
(* direction): the bytes that are read are those that were written, in     *)
(* order, each of them once; a read is answered with as many bytes as it   *)
(* asks for, or with none at the end of a stream that was closed, after    *)
(* which no other reads anything.  Bytes are numbered as they are written. *)
(***************************************************************************)
EXTENDS Integers, Sequences, SequencesExt

VARIABLES
    sent,       \* bytes written
    closed,     \* has the writing end been closed or lost?
    answers     \* of the reads, in order: what was asked for and the bytes

vars == <<sent, closed, answers>>

Bytes(as) == FlattenSeq([i \in DOMAIN as |-> as[i].bytes])
IsEnd(a) == a.bytes = <<>>
Fits(a) == Len(a.bytes) \in a.req.min .. a.req.max

Init == sent = 0 /\ closed = FALSE /\ answers = <<>>

Write ==
    /\ ~closed
    /\ sent' > sent
    /\ UNCHANGED <<closed, answers>>

Close == closed' = TRUE /\ UNCHANGED <<sent, answers>>

\* Reads may be answered several at a time, the last of them with the end.
Read ==
    /\ IsPrefix(answers, answers')
    /\ \A i \in Len(answers) + 1 .. Len(answers') :
          \/ Fits(answers'[i])
          \/ closed /\ \A j \in i .. Len(answers') : IsEnd(answers'[j])
    /\ \A a \in ToSet(answers) : IsEnd(a) => Bytes(answers') = Bytes(answers)
    /\ Len(Bytes(answers')) <= sent
    /\ Bytes(answers') = [i \in 1 .. Len(Bytes(answers')) |-> i]
    /\ UNCHANGED <<sent, closed>>

Next == Write \/ Close \/ Read

Spec == Init /\ [][Next]_vars
=============================================================================
