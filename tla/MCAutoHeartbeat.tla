-------------------------- MODULE MCAutoHeartbeat --------------------------
EXTENDS AutoHeartbeat

CONSTANTS c1, c2, c3

\* Two contexts with the same keys, and one with others
MCKeysOf == (c1 :> "k1") @@ (c2 :> "k2") @@ (c3 :> "k1")
=============================================================================
