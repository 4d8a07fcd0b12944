--------------------------- MODULE MCSecureStream ---------------------------
(* An instance of SecureStream for TLC.                                      *)
EXTENDS SecureStream

Request(min, max) == [min |-> min, max |-> max]

MCRequests == {Request(1, 1), Request(2, 2), Request(1, 3)}
=============================================================================
