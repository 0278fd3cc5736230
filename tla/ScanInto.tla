------------------------------ MODULE ScanInto ------------------------------
(***************************************************************************)
(* scanMatchesInto (internal/pattern/scan.go 59-145), the scan under every *)
(* count of matching lines, with its optional bitmap.  Workers claim       *)
(* chunks by raising the start offset, keep a local count, set bits of     *)
(* their own chunk and add the count once, on the way out.  Below the      *)
(* parallel threshold, or with one processor, the lines are scanned in     *)
(* order by the caller.                                                    *)
(***************************************************************************)
EXTENDS ScanLines

CONSTANT MinLinesChoices  \* the values parallelScanMinLines may have

ASSUME MinLinesAssumption == MinLinesChoices \subseteq Nat

VARIABLES
  match,     \* input: the lines the regexp matches
  parallelScanMinLines, \* input: a variable of the package
  aborted,   \* ctl.aborted
  next,      \* atomic: the first line not claimed yet
  total,     \* atomic: the counts added by workers that left
  bitmap,    \* the lines whose bit is set
  hitCtlFlag,\* atomic: a worker, or the sequential scan, saw the abort
  pc,        \* where each worker is
  start,     \* the first line of the chunk each worker claimed last
  local,     \* each worker's count
  parent,    \* where the caller is
  line,      \* the sequential scan's loop variable
  result

workerVars == <<next, total, hitCtlFlag, pc, start, local>>
inputs == <<match, parallelScanMinLines>>
vars == <<inputs, aborted, workerVars, bitmap, parent, line, result>>

Init ==
  /\ match \in SUBSET Lines
  /\ parallelScanMinLines \in MinLinesChoices
  /\ aborted = FALSE
  /\ next = 0
  /\ total = 0
  /\ bitmap = {}
  /\ hitCtlFlag = FALSE
  /\ pc = [w \in Workers |-> "idle"]
  /\ start = [w \in Workers |-> 0]
  /\ local = [w \in Workers |-> 0]
  /\ parent = "start"
  /\ line = 0
  /\ result = 0

Abort ==
  /\ ~ aborted
  /\ aborted' = TRUE
  /\ UNCHANGED <<inputs, workerVars, bitmap, parent, line, result>>

Begin ==
  /\ parent = "start"
  /\ IF Procs < 2 \/ N < parallelScanMinLines
     THEN /\ parent' = "seq"
          /\ UNCHANGED pc
     ELSE /\ parent' = "wait"
          /\ pc' = [w \in Workers |-> "claim"]
  /\ UNCHANGED <<inputs, aborted, next, total, hitCtlFlag, start, local, bitmap, line, result>>

(***************************************************************************)
(* scanMatchesSeq: the abort flag is read before each line.                *)
(***************************************************************************)
SeqLine ==
  /\ parent = "seq"
  /\ line < N
  /\ IF aborted
     THEN /\ hitCtlFlag' = TRUE
          /\ parent' = "done"
          /\ UNCHANGED <<bitmap, line, result>>
     ELSE /\ result' = IF line \in match THEN result + 1 ELSE result
          /\ bitmap' = bitmap \cup (match \cap {line})
          /\ line' = line + 1
          /\ UNCHANGED <<hitCtlFlag, parent>>
  /\ UNCHANGED <<inputs, aborted, next, total, pc, start, local>>

SeqEnd ==
  /\ parent = "seq"
  /\ line = N
  /\ parent' = "done"
  /\ UNCHANGED <<inputs, aborted, workerVars, bitmap, line, result>>

(***************************************************************************)
(* A worker                                                                *)
(***************************************************************************)

Claim(w) ==
  /\ pc[w] = "claim"
  /\ next' = next + Chunk
  /\ start' = [start EXCEPT ![w] = next]
  /\ pc' = [pc EXCEPT ![w] = IF next >= N THEN "leave" ELSE "check"]
  /\ UNCHANGED <<inputs, aborted, total, hitCtlFlag, local, bitmap, parent, line, result>>

\* Mutant: an aborted worker leaves without wg.Done.
AbortWithoutDone(w) ==
  /\ pc[w] = "check"
  /\ hitCtlFlag' = (hitCtlFlag \/ aborted)
  /\ pc' = [pc EXCEPT ![w] = IF aborted THEN "gone" ELSE "scan"]
  /\ UNCHANGED <<inputs, aborted, next, total, start, local, bitmap, parent, line, result>>

CheckAbort(w) ==
  /\ pc[w] = "check"
  /\ hitCtlFlag' = (hitCtlFlag \/ aborted)
  /\ pc' = [pc EXCEPT ![w] = IF aborted THEN "leave" ELSE "scan"]
  /\ UNCHANGED <<inputs, aborted, next, total, start, local, bitmap, parent, line, result>>

\* Mutant: the last chunk is not cut at the end of the lines.
ClaimedLinesUncut(w) == start[w] .. start[w] + Chunk - 1

ClaimedLines(w) == start[w] .. Least(start[w] + Chunk, N) - 1

ScanChunk(w) ==
  /\ pc[w] = "scan"
  /\ local' = [local EXCEPT ![w] = @ + Cardinality(ClaimedLines(w) \cap match)]
  /\ bitmap' = bitmap \cup (ClaimedLines(w) \cap match)
  /\ pc' = [pc EXCEPT ![w] = "claim"]
  /\ UNCHANGED <<inputs, aborted, next, total, hitCtlFlag, start, parent, line, result>>

\* The count is added only when it is positive, which changes nothing.
Leave(w) ==
  /\ pc[w] = "leave"
  /\ total' = total + local[w]
  /\ pc' = [pc EXCEPT ![w] = "exit"]
  /\ UNCHANGED <<inputs, aborted, next, hitCtlFlag, start, local, bitmap, parent, line, result>>

\* Mutant: the caller does not wait for the last worker.
WaitForOne ==
  /\ parent = "wait"
  /\ \E w \in Workers : pc[w] = "exit"
  /\ parent' = "done"
  /\ result' = total
  /\ UNCHANGED <<inputs, aborted, workerVars, bitmap, line>>

Wait ==
  /\ parent = "wait"
  /\ \A w \in Workers : pc[w] = "exit"
  /\ parent' = "done"
  /\ result' = total
  /\ UNCHANGED <<inputs, aborted, workerVars, bitmap, line>>

-----------------------------------------------------------------------------
WorkerStep(w) == Claim(w) \/ CheckAbort(w) \/ ScanChunk(w) \/ Leave(w)

ParentStep == Begin \/ SeqLine \/ SeqEnd \/ Wait

Next == Abort \/ ParentStep \/ \E w \in Workers : WorkerStep(w)

Fairness == WF_vars(ParentStep) /\ \A w \in Workers : WF_vars(WorkerStep(w))

Spec == Init /\ [][Next]_vars /\ Fairness

-----------------------------------------------------------------------------
(***************************************************************************)
(* Properties                                                              *)
(***************************************************************************)

TypeOK ==
  /\ parallelScanMinLines \in MinLinesChoices
  /\ match \subseteq Lines /\ bitmap \subseteq Lines
  /\ aborted \in BOOLEAN /\ hitCtlFlag \in BOOLEAN
  /\ next \in {k * Chunk : k \in 0 .. Chunks + Cardinality(Workers)}
  /\ total \in 0 .. N /\ result \in 0 .. N
  /\ pc \in [Workers -> {"idle", "claim", "check", "scan", "leave", "exit"}]
  /\ start \in [Workers -> Nat]
  /\ local \in [Workers -> 0 .. N]
  /\ parent \in {"start", "seq", "wait", "done"}
  /\ line \in 0 .. N

\* The parallel and the sequential path give the same count and the same bitmap:
\* all matching lines, unless the scan saw an abort (scan.go 59-126).
ResultIsSequential ==
  parent = "done" /\ ~ hitCtlFlag =>
    /\ result = SeqCount(match)
    /\ bitmap = match

\* "Workers write disjoint index ranges, so the shared bitmap needs no locking"
\* (scan.go 69-70), and every chunk a worker scans lies inside the lines.
DisjointRanges ==
  \A v, w \in Workers :
    pc[w] = "scan" =>
      /\ ClaimedLines(w) # {} /\ ClaimedLines(w) \subseteq Lines
      /\ v # w /\ pc[v] = "scan" => ClaimedLines(v) \cap ClaimedLines(w) = {}

\* "A cancelled scan returns a PARTIAL count" (scan.go 41): the count of some of
\* the matching lines, and the bitmap marks exactly the lines counted.
PartialIsPartial ==
  parent = "done" => bitmap \subseteq match /\ result = Cardinality(bitmap)

\* Aborted or not, the scan returns.
Terminates == <>(parent = "done")

\* Workers that scan disjoint lines, and a count that is the bitmap's also after
\* an abort (scan.go 41, 69-70, 95-127).
ChunksSound == TypeOK /\ DisjointRanges /\ PartialIsPartial

=============================================================================
