---------------------------- MODULE MCBillingTask ----------------------------
(* An instance of BillingTask for TLC: bodies with everything a test of      *)
(* parse_body can find missing, and events with members that no AVP can be  *)
(* made of.                                                                  *)
EXTENDS BillingTask

CONSTANTS ccf1, m1

Lists == {<<>>, <<ccf1>>, <<NotString>>, <<ccf1, ccf1>>, <<ccf1, NotString>>, Missing}

Plain == [ event : BOOLEAN, ims : BOOLEAN, role : BOOLEAN, function : BOOLEAN,
           type : 0..5 \cup {Missing}, interval : {Missing, 300, -1},
           peers : BOOLEAN, ccf : Lists, others : {<<>>} ]

\* A member of each kind, alone and before another one, which may have the same name.
Others ==
  LET kinds == { Literal("User-Name"), Member("User-Name", <<Value, Value>>),
                 Member("User-Name", <<Value, Unfit, Value>>), Member("Unknown", <<Value>>),
                 Member("Event-Timestamp", <<Value, Value>>), Member("Session-Id", <<Value>>) }
  IN {<<kind>> : kind \in kinds} \cup {<<kind, Member("Event-Timestamp", <<Value>>)>> : kind \in kinds}

WithOthers == [ event : {TRUE}, ims : {TRUE}, role : {TRUE}, function : {TRUE},
                type : 1..4, interval : {300}, peers : {TRUE}, ccf : {<<ccf1>>}, others : Others ]

SomeBodies == Plain \cup WithOthers

SomeNames == { "Accounting-Record-Type", "Acct-Interim-Interval", "Service-Information",
               "User-Name", "Event-Timestamp", "Session-Id" }
=============================================================================
