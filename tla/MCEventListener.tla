-------------------------- MODULE MCEventListener --------------------------
(* Two subscribed channels: one alone, and a set that grows and shrinks *)
EXTENDS EventListener

CONSTANTS a, b, c, single, set, message, signal

MCNames == {a, b, c}
MCNamesOf == (single :> {{a}}) @@ (set :> {{}, {a, b}, {a, b, c}})
TypesAlike == Permutations({message, signal})
=============================================================================
