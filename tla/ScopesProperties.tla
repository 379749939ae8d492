-------------------------- MODULE ScopesProperties --------------------------
(***************************************************************************)
(* What the analyses promise and the machine has to provide.               *)
(***************************************************************************)
EXTENDS Scopes

\* The environment of the place that was admitted.
Admitted == validateNode(Chain, reading)

\* The three analyses, written apart for the source, for the materialized source and
\* for the program, have the same idea of what can be named everywhere.
AnalysesAgree ==
  /\ sourceEnvironment(Chain, reading) = Admitted
  /\ compilerEnvironment(Chain, reading) = Admitted

\* Whatever the nesting, nothing is provided that was not admitted, and what is
\* provided comes from the region the analyses took it from: the innermost loop or
\* map, the module the node is in.  The previous output of a first body is none.
\* And what was admitted of the region a selector stands in, or of the body or item
\* its own node runs, is there.
ProvidedAsAdmitted ==
  /\ \A s \in DOMAIN Environment :
       /\ s \in DOMAIN Admitted
       /\ Environment[s].of = Admitted[s]
          \/ (s = "previousOutput" /\ Environment[s].value = "null")
  /\ \A s \in DOMAIN Admitted :
       Admitted[s] >= Top \/ s = "moduleInput" => s \in DOMAIN Environment

\* Everything that was admitted is there: "the compiler MUST validate lexical scope".
AdmittedIsProvided == DOMAIN Admitted \subseteq DOMAIN Environment

\* Everything that was admitted has the schema it was admitted with.
ProvidedConforms ==
  \A s \in DOMAIN Admitted \cap DOMAIN Environment : Environment[s].of = Admitted[s]
=============================================================================
