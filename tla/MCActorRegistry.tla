-------------------------- MODULE MCActorRegistry ---------------------------
(* TLC instances of ActorRegistry.                                         *)
EXTENDS ActorRegistry, TLC
CONSTANTS a1, a2, a3

\* Two watchers of one target.
MCPairs == {<<a1, a3>>, <<a2, a3>>}

Sym == Permutations({a1, a2}) \cup Permutations(Threads) \cup Permutations(Names)
=============================================================================
