------------------------- MODULE AccountingRequest -------------------------
(***************************************************************************)
(* Rf::AccountingRequest (src/rf.cpp): the ACR made of the "event" object  *)
(* of a request.  A member has the values of a JSON array, or one value;   *)
(* true, false and null give no AVP, as an empty array does.               *)
(*                                                                         *)
(* External: the Diameter dictionary, and Diameter::AVP::val_json, which   *)
(* throws an exception for a value that does not fit its AVP.              *)
(***************************************************************************)
EXTENDS Naturals, Sequences

CONSTANTS
  Known,  \* the names of AVPs in the dictionary
  Unfit   \* a value that does not fit its AVP

\* The record type has an AVP.
ASSUME DictionaryAssumption == "Accounting-Record-Type" \in Known

Member(name, values) == [name |-> name, values |-> values]
Literal(name)        == Member(name, <<>>)

Avps(name, values) == [i \in DOMAIN values |-> [name |-> name, value |-> values[i]]]

\* The AVPs every ACR has; their values are Ralf's, whatever the event is.
Fixed ==
  LET names == << "Session-Id", "Origin-Host", "Origin-Realm", "Acct-Application-Id",
                  "Destination-Host", "Destination-Realm", "Accounting-Record-Number",
                  "Service-Context-Id" >>
  IN [i \in DOMAIN names |-> [name |-> names[i], value |-> "Ralf"]]

\* A member of an unknown name gives no AVP; the values of an array give one each,
\* up to the first that does not fit.
AvpsOf(member) ==
  IF member.name \notin Known THEN <<>>
  ELSE LET values == member.values
           fit    == {n \in 0..Len(values) : \A i \in 1..n : values[i] # Unfit}
       IN Avps(member.name, SubSeq(values, 1, CHOOSE n \in fit : n + 1 \notin fit))

\* Mutant: the try block is around the loop, so that nothing follows an exception.
RequestStopping(members) ==
  LET throws == {i \in DOMAIN members : \/ members[i].name \notin Known
                                        \/ \E j \in DOMAIN members[i].values : members[i].values[j] = Unfit}
      acr[n \in 0..Len(members)] ==
        IF n = 0 THEN Fixed
        ELSE acr[n - 1] \o (IF \E i \in throws : i < n THEN <<>> ELSE AvpsOf(members[n]))
  IN acr[Len(members)]

\* The members are taken one after the other, whether an earlier one threw or not.
Request(members) ==
  LET acr[n \in 0..Len(members)] ==
        IF n = 0 THEN Fixed ELSE acr[n - 1] \o AvpsOf(members[n])
  IN acr[Len(members)]

\* s has exactly one AVP for each of the values under the name, in a row.
Mirrors(s, name, values) ==
  \E k \in 0..Len(s) :
    /\ {i \in DOMAIN s : s[i].name = name} = (k + 1)..(k + Len(values))
    /\ \A j \in 1..Len(values) : s[k + j].value = values[j]

\* No other member has the name of member i, and Ralf gives no AVP of it itself.
IsOnly(members, i) ==
  /\ \A j \in DOMAIN members : members[j].name = members[i].name => j = i
  /\ \A j \in DOMAIN Fixed : Fixed[j].name # members[i].name
=============================================================================
