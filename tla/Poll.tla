-------------------------------- MODULE Poll --------------------------------
(***************************************************************************)
(* What the vote database promises: a poll per contest, in which every     *)
(* voter has at most one choice, the one he cast last, and nobody else     *)
(* changes it.  The poll of a contest never closes: the evaluator does not *)
(* look at a contest's end time when it stores a decision.                 *)
(***************************************************************************)
CONSTANTS
    ContestIds,     \* identifiers a contest may get
    Voters,         \* who may vote: balances, not accounts
    Votes           \* what a vote may say, a null vote included

VARIABLE
    box     \* for each open contest, the choice of each voter who has voted

Init == box = [c \in {} |-> {}]

\* A contest is published.
Open(c) ==
    /\ c \notin DOMAIN box
    /\ box' = [k \in DOMAIN box \cup {c} |->
                  IF k = c THEN [v \in {} |-> {}] ELSE box[k]]

\* A voter votes, for the first time or again.
Cast(v, c, choice) ==
    /\ c \in DOMAIN box
    /\ box' = [box EXCEPT ![c] = [w \in DOMAIN box[c] \cup {v} |->
                                     IF w = v THEN choice ELSE box[c][w]]]

Next == \E c \in ContestIds :
           \/ Open(c)
           \/ \E v \in Voters, choice \in Votes : Cast(v, c, choice)

Spec == Init /\ [][Next]_box
=============================================================================
