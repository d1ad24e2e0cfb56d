-------------------------- MODULE MCSessionManager --------------------------
(* Instances of SessionManager for TLC. *)
EXTENDS RepositoryClaims, RecordNumbers, SiteCopies, TLC

CONSTANTS m1, m2, m3, m4, siteA, siteB, ccf1, t1, t2

OneSite    == [s \in Sites |-> <<s>>]
OtherSites == (siteA :> <<siteA, siteB>>) @@ (siteB :> <<siteB, siteA>>)
OneCcf     == {<<ccf1>>}

MsgSymmetry == Permutations(Msgs)
=============================================================================
