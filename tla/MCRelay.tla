------------------------------ MODULE MCRelay ------------------------------
(* Small instances of Relay for TLC.                                       *)
EXTENDS Relay, TLC

CONSTANTS c1, c2, h1, h2, s1, s2, i1, i2

Tok(s, r, i) == [session |-> s, role |-> r, ids |-> i]

\* One session whose client connects twice, and the host of another.
RetryToken ==
    (c1 :> Tok(s1, "Client", i1)) @@ (c2 :> Tok(s1, "Client", i1))
        @@ (h1 :> Tok(s1, "Host", i1)) @@ (h2 :> Tok(s2, "Host", i2))
=============================================================================
