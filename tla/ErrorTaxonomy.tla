---------------------------- MODULE ErrorTaxonomy ----------------------------
(***************************************************************************)
(* The error type an agent is told: the text of a failure is searched for  *)
(* patterns, group by group, and the first group found decides.  A text    *)
(* is given by the groups it has a pattern of, wherever in it they are.    *)
(***************************************************************************)
EXTENDS Integers

\* Mutant: networks are looked for first.
CliCodeNetworkFirst(text) ==
  IF "network" \in text THEN "NETWORK_TIMEOUT"
  ELSE IF "auth" \in text THEN "AUTH_FAILURE"
  ELSE IF "authz" \in text THEN "AUTHORIZATION"
  ELSE "EXECUTION_FAILURE"

\* _classify_cli_failure: a command's stderr.
CliCode(text) ==
  IF "auth" \in text THEN "AUTH_FAILURE"
  ELSE IF "authz" \in text THEN "AUTHORIZATION"
  ELSE IF "network" \in text THEN "NETWORK_TIMEOUT"
  ELSE "EXECUTION_FAILURE"

ErrorTypes == {"AUTH_FAILURE", "NETWORK_TIMEOUT", "AUTHORIZATION", "INVALID_PARAMS",
               "EXECUTION_FAILURE", "TIMEOUT"}
=============================================================================
