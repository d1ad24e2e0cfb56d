---------------------------- MODULE RalfOptions ----------------------------
(***************************************************************************)
(* The command line of Ralf (src/main.cpp): the long_opt table, getopt_long *)
(* as far as main.cpp relies on it, and the two passes over argv.  An       *)
(* argument is "--name=text", "--name" or a plain word; short options are  *)
(* written as the long ones.                                               *)
(***************************************************************************)
EXTENDS Integers, Sequences, FiniteSetsExt

CONSTANTS
  NoText,   \* no text
  Numbers   \* what atoi makes of texts, 0 of those not in the domain

\* long_opt: what follows each option.
no_argument == {"help", "daemon", "sas-use-signaling-interface", "ram-record-everything"}

required_argument ==
  { "localhost", "local-site-name", "diameter-conf", "dns-servers", "session-stores", "http",
    "http-threads", "billing-realm", "billing-peer", "max-peers", "access-log", "log-file",
    "log-level", "sas", "target-latency-us", "diameter-timeout-ms", "max-tokens",
    "init-token-rate", "min-token-rate", "max-token-rate", "exception-max-ttl",
    "http-blacklist-duration", "diameter-blacklist-duration", "astaire-blacklist-duration",
    "dns-timeout", "pidfile", "chronos-hostname", "ralf-chronos-callback-uri",
    "ralf-hostname", "http-acr-logging" }

OptionNames == no_argument \cup required_argument

\* No option is written as nothing, and atoi returns an integer.
ASSUME OptionAssumption ==
  NoText \notin OptionNames /\ \A text \in DOMAIN Numbers : Numbers[text] \in Int

Names == OptionNames \cup {NoText}

\* Elements of argv, and values of optarg.
Word(text) == [name |-> NoText, text |-> text]

Atoi(value) ==
  IF value.name = NoText /\ value.text \in DOMAIN Numbers THEN Numbers[value.text] ELSE 0

\* An option that requires an argument and has no "=" takes the next element of
\* argv, whatever it is.
TakesNext(argv, i) ==
  argv[i].name \in required_argument /\ argv[i].text = NoText /\ i < Len(argv)

\* What getopt_long makes of element i, nothing of a plain word; "?" is an error.
ResultOf(argv, i) ==
  LET arg == argv[i]
      Result(opt, optarg) == <<[opt |-> opt, optarg |-> optarg]>>
  IN CASE arg.name = NoText -> <<>>
       [] arg.name \in no_argument /\ arg.text = NoText -> Result(arg.name, Word(NoText))
       [] arg.name \in required_argument /\ arg.text # NoText -> Result(arg.name, Word(arg.text))
       [] TakesNext(argv, i) -> Result(arg.name, argv[i + 1])
       [] OTHER -> Result("?", arg)

\* The results of getopt_long over argv.
getopt_long(argv) ==
  LET from[i \in 1..(Len(argv) + 1)] ==
        IF i > Len(argv) THEN <<>>
        ELSE ResultOf(argv, i) \o from[IF TakesNext(argv, i) THEN i + 2 ELSE i + 1]
  IN from[1]

\* Options that are flags; their value is TRUE or FALSE, whatever optarg is.
Flags == (no_argument \ {"help"}) \cup {"http-acr-logging"}

Set   == Word("TRUE")
Unset == Word("FALSE")

\* What main() sets before it looks at argv: nothing for http_acr_logging, which
\* has the value that happens to be there.
Default(http_acr_logging) ==
  [ name \in OptionNames \ {"help"} |->
      IF name = "http-acr-logging" THEN http_acr_logging
      ELSE IF name \in Flags THEN Unset
      ELSE IF name \in {"ralf-hostname", "pidfile"} THEN Word(NoText)
      ELSE Word("default") ]

\* Mutant: the first of an option counts.
TakenFirst(options, results, names) ==
  [ name \in DOMAIN options |->
      LET given == {i \in 1..Len(results) : results[i].opt = name}
      IN IF name \notin names \/ given = {} THEN options[name]
         ELSE IF name \in Flags THEN Set
         ELSE results[Min(given)].optarg ]

\* Taking the results one after the other: the last of an option counts.
Taken(options, results, names) ==
  [ name \in DOMAIN options |->
      LET given == {i \in 1..Len(results) : results[i].opt = name}
      IN IF name \notin names \/ given = {} THEN options[name]
         ELSE IF name \in Flags THEN Set
         ELSE results[Max(given)].optarg ]

LoggingOptions == {"log-file", "log-level", "daemon", "ram-record-everything"}

init_logging_options(options, argv) == Taken(options, getopt_long(argv), LoggingOptions)

\* Mutant: zero is let through.
InvalidNegative(name, value) ==
  /\ name \in {"target-latency-us", "max-tokens", "init-token-rate", "min-token-rate", "max-token-rate"}
  /\ Atoi(value) < 0

\* Values init_options refuses.
Invalid(name, value) ==
  \/ /\ name \in {"target-latency-us", "max-tokens", "init-token-rate", "min-token-rate"}
     /\ Atoi(value) <= 0
  \/ name = "max-token-rate" /\ Atoi(value) < 0

\* init_options returns -1.
OptionsRefused(argv) ==
  LET results == getopt_long(argv)
  IN \E i \in 1..Len(results) :
       results[i].opt \in {"?", "help"} \/ Invalid(results[i].opt, results[i].optarg)

\* init_options; without --diameter-timeout-ms the timeout comes from the latency.
init_options(options, argv) ==
  LET results == getopt_long(argv)
      taken   == Taken(options, results, OptionNames \ LoggingOptions)
  IN IF \E i \in 1..Len(results) : results[i].opt = "diameter-timeout-ms" THEN taken
     ELSE [taken EXCEPT !["diameter-timeout-ms"] = Word("calculated")]

\* Every option has an "=" and a text exactly if it is declared with an argument.
AsDeclared(argv) ==
  \A i \in 1..Len(argv) :
    argv[i].name \in OptionNames /\ (argv[i].text = NoText <=> argv[i].name \in no_argument)

\* Element i is the last to give its option.
IsLast(argv, i) == \A j \in (i + 1)..Len(argv) : argv[j].name # argv[i].name
=============================================================================
