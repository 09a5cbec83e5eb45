------------------------ MODULE MCClusterTransport -------------------------
(* TLC instances of ClusterTransport.                                       *)
EXTENDS ClusterTransport

OneFd == {3}
TwoFds == {3, 4}
ThreeFds == {3, 4, 5}
TwoConns == {1, 2}
ThreeConns == {1, 2, 3}
=============================================================================
