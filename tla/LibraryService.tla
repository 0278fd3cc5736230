--------------------------- MODULE LibraryService ---------------------------
(***************************************************************************)
(* What the compiled-library cache promises its callers, with no cache in  *)
(* it: sources are committed one after the other, and a call returns the   *)
(* compiled form of one source that was current at some moment between     *)
(* the call's begin and its return.                                        *)
(***************************************************************************)
EXTENDS Naturals, Sequences

CONSTANTS
  Sources,     \* the states that may be committed
  Compile(_),  \* what a source compiles to
  Readers

VARIABLES
  log,         \* the sources committed so far, the last one current
  open,        \* per reader: the version current when its call began, 0 if none
  result       \* per reader: what its last call returned

vars == <<log, open, result>>

Init ==
  /\ \E src \in Sources : log = <<src>>
  /\ open = [r \in Readers |-> 0]
  /\ result = [r \in Readers |-> {}]

Commit ==
  /\ \E src \in Sources : log' = Append(log, src)
  /\ UNCHANGED <<open, result>>

Begin(r) ==
  /\ open[r] = 0
  /\ open' = [open EXCEPT ![r] = Len(log)]
  /\ result' = [result EXCEPT ![r] = {}]
  /\ UNCHANGED log

Return(r) ==
  /\ open[r] # 0
  /\ \E v \in open[r] .. Len(log) :
       result' = [result EXCEPT ![r] = Compile(log[v])]
  /\ open' = [open EXCEPT ![r] = 0]
  /\ UNCHANGED log

Next == Commit \/ \E r \in Readers : Begin(r) \/ Return(r)

Spec == Init /\ [][Next]_vars

=============================================================================
