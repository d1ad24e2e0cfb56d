------------------------------ MODULE RfSession ------------------------------
(***************************************************************************)
(* The data Ralf keeps about one billed call and the arithmetic on it:     *)
(* SessionStore::Session (include/session_store.h), the record types of    *)
(* include/rf.h and the decisions of src/session_manager.cpp that are      *)
(* functions of their arguments.                                           *)
(***************************************************************************)
EXTENDS Naturals, Sequences

\* Accounting-Record-Type: Rf::AccountingRecordType.
RecordTypes == {"EVENT", "START", "INTERIM", "STOP"}

\* Types that relate to an existing session: record_type.isInterim() || isStop().
OngoingTypes == {"INTERIM", "STOP"}

\* The timer_id of a session that Chronos holds no timer for.
NO_TIMER == "NO_TIMER"

\* SessionStore::Session.  ecf is never read or written to the store and _cas
\* is kept by the store record the session came from.
SessionOf(ids, ccfs, timers) ==
  [ session_id           : ids,
    ccf                  : ccfs,
    acct_record_number   : Nat,
    timer_id             : timers \cup {NO_TIMER},
    session_refresh_time : Nat,
    interim_interval     : Nat ]

\* Mutant: the number is incremented twice.
NextRecordTwice(s) == [s EXCEPT !.acct_record_number = @ + 2]

\* Mutant: the number is not incremented.
NextRecordSame(s) == s

\* "Increment the accounting record number before building new ACR."
NextRecord(s) == [s EXCEPT !.acct_record_number = @ + 1]

\* The interval on_ccf_response works with: the answer's, else the stored one,
\* else the session refresh time.
EffectiveInterval(answered, stored, refresh) ==
  IF answered # 0 THEN answered
  ELSE IF stored # 0 THEN stored
  ELSE refresh

\* A timer generates INTERIMs only if it would pop before the next refresh.
NeedsTimer(refresh, interval) == refresh > interval

\* The lifetime of a stored session; 0 makes the record expire as it is written,
\* which is how delete_session_data removes one.
Expiry(s) == 2 * s.session_refresh_time
=============================================================================
