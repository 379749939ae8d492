---------------------------- MODULE PipelineRun -----------------------------
(***************************************************************************)
(* What a host is promised about one pipeline run, whatever the program:   *)
(* operations are opened at most once, each is answered at most once, none *)
(* is opened once the run is being cancelled, and the run concludes only   *)
(* when nothing it opened is still unanswered.                             *)
(***************************************************************************)
EXTENDS FiniteSets

VARIABLES
  run,     \* "running", "cancelling" or how the run concluded
  open,    \* operations opened and not answered
  closed   \* operations answered

vars == <<run, open, closed>>

Init == run = "running" /\ open = {} /\ closed = {}

\* Operations never opened before (compare `next`, their new total, with the old).
Open(next) ==
  /\ run = "running"
  /\ open \subseteq next
  /\ next \cap closed = {}
  /\ open' = next
  /\ UNCHANGED <<run, closed>>

Answer(op) ==
  /\ run \in {"running", "cancelling"}
  /\ open' = open \ {op}
  /\ closed' = closed \cup {op}
  /\ UNCHANGED run

Cancel ==
  /\ run = "running"
  /\ run' = "cancelling"
  /\ UNCHANGED <<open, closed>>

Conclude ==
  /\ open = {}
  /\ \/ run = "running" /\ run' \in {"succeeded", "failed"}
     \/ run = "cancelling" /\ run' = "cancelled"
  /\ UNCHANGED <<open, closed>>

Next == Open(open') \/ (\E op \in open : Answer(op)) \/ Cancel \/ Conclude

Spec == Init /\ [][Next]_vars
=============================================================================
