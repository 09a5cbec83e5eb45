----------------------------- MODULE MCLuaActor -----------------------------
(* TLC instances of LuaActor.                                              *)
EXTENDS LuaActor
=============================================================================
