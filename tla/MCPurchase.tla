----------------------------- MODULE MCPurchase -----------------------------
(* An instance of Purchase for TLC: two checkouts of requests at and over the *)
(* limits, with every price of the schedule different from every sum of       *)
(* others.                                                                    *)
EXTENDS Purchase, TLC

Request(description, n, end) ==
    [name |-> 1, description |-> description, contestants |-> n,
     contestantName |-> 1, contestantDescription |-> 1, end |-> end]

MCRequests == { Request(2, 8, "never"), Request(1, 2, "later"),
                Request(1, 9, "later") }

MCLimits == ("name" :> 1) @@ ("description" :> 2) @@ ("descriptionSoft" :> 1)
                @@ ("contestants" :> 8) @@ ("contestantName" :> 1)
                @@ ("contestantDescription" :> 1)
                @@ ("contestantDescriptionSoft" :> 1)

\* No price for contestant5: what is left out costs nothing.
MCSchedule == ("contestTypeOneOfN" :> 1) @@ ("pluralityTally" :> 2)
                  @@ ("contestant3" :> 4) @@ ("contestant4" :> 8)
                  @@ ("contestant6" :> 32) @@ ("contestant7Plus" :> 64)
                  @@ ("infiniteDurationContest" :> 256)

=============================================================================
