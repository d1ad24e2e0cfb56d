------------------------ MODULE MCPeerMessageSender ------------------------
(* Instances of PeerMessageSender for TLC. *)
EXTENDS PeerMessageSender

CONSTANTS m1, m2, m3, ccf1, ccf2

OneOrTwoCcfs == {<<ccf1>>, <<ccf1, ccf2>>}
TwoCcfs      == {<<ccf1, ccf2>>}
=============================================================================
