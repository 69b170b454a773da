------------------------- MODULE MCSubscribeEngine -------------------------
EXTENDS SubscribeEngine, TLC

CONSTANTS s1, s2, a, b

\* Two subscriptions that share a channel
MCChannelsOf == (s1 :> {a}) @@ (s2 :> {a, b})
=============================================================================
