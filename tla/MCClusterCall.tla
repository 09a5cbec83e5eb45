---------------------------- MODULE MCClusterCall -----------------------------
(* TLC instances of ClusterCall: two actors of one node that may have one name, one     *)
(* after the other, and a service of another node.                                      *)
EXTENDS ClusterCall, TLC

CONSTANTS n1, n2, a1, a2, b1, client, service

MCHome == a1 :> n1 @@ a2 :> n1 @@ b1 :> n2
MCAtStart == a1 :> client @@ a2 :> None @@ b1 :> service
MCCallable == {<<n2, service>>}
=============================================================================
