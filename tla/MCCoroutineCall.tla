-------------------------- MODULE MCCoroutineCall ---------------------------
(* TLC instances of CoroutineCall.                                         *)
EXTENDS CoroutineCall
=============================================================================
