----------------------------- MODULE MCRalfMain -----------------------------
(* An instance of RalfMain for TLC, and what usage() says of the options.    *)
EXTENDS RalfMain

SomeNumbers ==
  [text \in {"-1", "0", "7"} |-> CASE text = "-1" -> -1 [] text = "0" -> 0 [] text = "7" -> 7]

Option(name, text) == [name |-> name, text |-> text]

Hostname == Option("ralf-hostname", "ralf")
Realm    == Option("billing-realm", "realm")

\* A command line that works, one for each way to be refused, and one with an
\* option in the place of an argument.
SomeCommandLines ==
  { << Hostname, Option("pidfile", "old"), Option("daemon", NoText), Option("log-level", "7"),
       Option("pidfile", "pid"), Realm, Option("max-tokens", "7") >>,
    <<Hostname, Option("daemon", "-1")>>,
    <<Hostname, Option("max-tokens", "0")>>,
    <<Hostname, Option("max-token-rate", "-1")>>,
    <<Option("billing-realm", NoText), Hostname>> }

\* What debian/ralf.init.d passes if ACR logging is configured.
AcrLogging == { <<Hostname, Option("http-acr-logging", NoText), Realm>> }

\* usage(): options with and without a value are as it lists them, so that each
\* option of the command line has its effect once the HTTP stack is started.
UsageIsKept ==
  "http" \in running => \A i \in 1..Len(argv) :
    options[argv[i].name] = IF argv[i].text = NoText THEN Set ELSE Word(argv[i].text)
=============================================================================
