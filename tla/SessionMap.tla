----------------------------- MODULE SessionMap -----------------------------
(***************************************************************************)
(* What SessionStore (include/session_store.h) promises its callers: one   *)
(* session per (call_id, role, function), which only a caller that has     *)
(* seen the current session can replace or delete safely.  Keys,           *)
(* documents and CAS values do not appear.                                 *)
(***************************************************************************)
CONSTANTS
  Callers, Ids, Sessions, NoSession, Unreadable,
  Shares(_, _)  \* whether two calls have one session; every call does with itself

VARIABLES
  sessions,  \* sessions[i]: the session of i, NoSession, or data that is none
  view,      \* view[c]: the session c got last, with its id, or NoSession
  current,   \* callers whose session has not been touched since they got it
  status     \* what the last update was told

vars == <<sessions, view, current, status>>

Statuses == {"OK", "DATA_CONTENTION", "ERROR"}

Init ==
  /\ sessions = [i \in Ids |-> NoSession]
  /\ view = [c \in Callers |-> NoSession]
  /\ current = {}
  /\ status = "OK"

\* The session of i, and of the calls it is shared with, becomes one of values, and
\* what callers hold of it is out of date.
Becomes(i, values) ==
  /\ sessions' \in [Ids -> Sessions \cup {NoSession, Unreadable}]
  /\ sessions'[i] \in values
  /\ \A j \in Ids :
       sessions'[j] = IF Shares(i, j) THEN sessions'[i] ELSE sessions[j]
  /\ current' = {c \in current : ~Shares(i, view[c].id)}

\* A caller gets a readable session, or nothing.
Get(c, i) ==
  /\ \/ /\ sessions[i] \in Sessions
        /\ view' = [view EXCEPT ![c] = [id |-> i, sess |-> sessions[i]]]
        /\ current' = current \cup {c}
     \/ /\ view' = [view EXCEPT ![c] = NoSession]
        /\ current' = current \ {c}
  /\ UNCHANGED <<sessions, status>>

\* An update is done, and was allowed; or refused, which is told; or its fate is
\* unknown, which is told too.
Try(i, allowed, values) ==
  /\ \/ /\ allowed
        /\ Becomes(i, values)
        /\ status' \in {"OK", "ERROR"}
     \/ /\ UNCHANGED <<sessions, current>>
        /\ status' \in Statuses \ {"OK"}
  /\ UNCHANGED view

\* Adding a session needs that there is none.
Add(i) ==
  Try(i, sessions[i] = NoSession, Sessions \cup {NoSession})

\* Replacing or deleting the session needs that the caller's is current.
Replace(c) ==
  /\ view[c] # NoSession
  /\ Try(view[c].id, c \in current, Sessions \cup {NoSession})

\* Deleting without a session needs nothing.
Delete(i) == Try(i, TRUE, {NoSession})

\* A session may be lost or become unreadable at any moment.
Fade(i) ==
  /\ Becomes(i, {NoSession, Unreadable})
  /\ UNCHANGED <<view, status>>

Next ==
  \/ \E c \in Callers : Replace(c) \/ \E i \in Ids : Get(c, i)
  \/ \E i \in Ids : Add(i) \/ Delete(i) \/ Fade(i)

Spec == Init /\ [][Next]_vars
=============================================================================
