------------------------------- MODULE MCIntake -------------------------------
(***************************************************************************)
(* Inputs of up to four lines of every kind under each mode, with limits   *)
(* of one or two continuations and of a few bytes, and up to three workers.*)
(***************************************************************************)
EXTENDS Intake

MCLineLen == [head |-> 2, indented |-> 2, body |-> 1, blank |-> 0]

Config(mode, given, maxLines, maxBytes) ==
  [mode |-> mode, given |-> given, maxLines |-> maxLines, maxBytes |-> maxBytes, joiner |-> 0]

MCConfigs ==
  {Config(m, TRUE, l, b) : m \in {"header", "indent", "custom"}, l \in {0, 1}, b \in {0, 5}}
    \cup {Config("header", FALSE, 1, 0), Config("custom", FALSE, 1, 0), Config("other", TRUE, 1, 0)}

MCWorkerRequests == {0, 3, 9}

=============================================================================
