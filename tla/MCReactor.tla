----------------------------- MODULE MCReactor ------------------------------
(* TLC instances of Reactor.                                               *)
EXTENDS Reactor
=============================================================================
