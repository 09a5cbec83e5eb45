-------------------------- MODULE MCActorScheduler --------------------------
(* TLC instances of ActorScheduler.                                        *)
EXTENDS ActorScheduler, TLC

Sym == Permutations(Workers)
=============================================================================
