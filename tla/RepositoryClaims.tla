-------------------------- MODULE RepositoryClaims --------------------------
(***************************************************************************)
(* What a test of the repository says of the session manager, stated over  *)
(* SessionManager.  TLC finds it violated.                                 *)
(***************************************************************************)
EXTENDS SessionManager

\* src/ut/test_session_manager.cpp: "STOP should remove the session from all
\* the stores."  When every request is dealt with, no store has a session that
\* a STOP was sent for.
StopRemovesFromAllStores ==
  Quiet => \A m \in Msgs, s \in Sites :
    /\ msg[m].record_type = "STOP"
    /\ Numbered(m)
    /\ store[s].cas # 0
    => store[s].sess.session_id # SessionId(m)
=============================================================================
