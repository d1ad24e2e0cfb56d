--------------------------- MODULE MCSessionStore ---------------------------
(* Instances of SessionStore for TLC. *)
EXTENDS SessionStore, TLC

CONSTANTS c1, c2, s1, t1

\* Numbers below 100.
DigitsOf(n) == IF n < 10 THEN <<n>> ELSE <<n \div 10, n % 10>>

\* Character 10 is a letter: the two sides of a call at an ATCF, and a call whose
\* id, like that of the terminating side, is followed by the digits 1, 1, 5.
NearIds == {<<<<10>>, 0, 15>>, <<<<10>>, 1, 15>>, <<<<10, 1>>, 1, 5>>}

TwoCcfs == {<<"ccf1", "ccf2">>}

Wellformed == Serialize([ session_id |-> s1, ccf |-> <<"ccf1">>, acct_record_number |-> 1,
                           timer_id |-> t1, session_refresh_time |-> 1,
                           interim_interval |-> 1 ])

\* Not JSON; without interim_interval; a list of CCFs that are numbers; a number
\* that is not an int.
ForeignDocs ==
  { Garbage,
    [name \in DOMAIN Wellformed \ {"interim_interval"} |-> Wellformed[name]],
    [Wellformed EXCEPT !.ccfs = JsonArray(<<JsonInt(1)>>)],
    [Wellformed EXCEPT !.refresh_time = JsonInt(Half)] }

CallerSymmetry == Permutations(Callers)
=============================================================================
