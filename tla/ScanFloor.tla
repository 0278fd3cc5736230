------------------------------ MODULE ScanFloor ------------------------------
(***************************************************************************)
(* scanMatchesFloor (internal/pattern/scan.go 147-230): workers claim      *)
(* chunks off an atomic counter and stop claiming once the misses they     *)
(* have counted together reach the budget; the parent then finds the line  *)
(* where the sequential scan would have stopped, walking the chunks in     *)
(* order.  The promise is the sequential scan's exact result, for any      *)
(* number of workers and any interleaving, unless the caller aborted.      *)
(*                                                                         *)
(* One action is one atomic operation of a worker (stop.Load with next.Add *)
(* are two), or one chunk scanned: the lines do not change and chunkMiss   *)
(* is written by the chunk's owner alone and read after wg.Wait.           *)
(***************************************************************************)
EXTENDS ScanLines

VARIABLES
  match,     \* input: the lines the regexp matches
  floor,     \* input: the count the candidate has to exceed
  aborted,   \* ctl.aborted
  next,      \* atomic: the next chunk to claim
  misses,    \* atomic: misses in the chunks finished so far
  stop,      \* atomic
  hitCtlFlag,\* atomic: a worker saw the abort
  chunkMiss, \* per chunk: its misses, once scanned
  pc,        \* where each worker is
  claim,     \* the chunk each worker claimed last
  parent,    \* where the parent is
  walk,      \* the parent's loop variable c
  seen,      \* the misses the parent has walked over
  result

inputs == <<match, floor>>
workerVars == <<next, misses, stop, hitCtlFlag, chunkMiss, pc, claim>>
vars == <<inputs, aborted, workerVars, parent, walk, seen, result>>

Budget == N - floor

Misses(c) == Cardinality(ChunkLines(c) \ match)

\* Any regexp and any floor up to one above what all lines matching gives; the
\* caller sends a negative floor elsewhere.
Init ==
  /\ match \in SUBSET Lines
  /\ floor \in 0 .. N + 1
  /\ aborted = FALSE
  /\ next = 0
  /\ misses = 0
  /\ stop = FALSE
  /\ hitCtlFlag = FALSE
  /\ chunkMiss = [c \in 0 .. Chunks - 1 |-> 0]
  /\ pc = [w \in Workers |-> "idle"]
  /\ claim = [w \in Workers |-> 0]
  /\ parent = "start"
  /\ walk = 0
  /\ seen = 0
  /\ result = 0

\* The coordinator aborts the stage this scan belongs to, at any moment.
Abort ==
  /\ ~ aborted
  /\ aborted' = TRUE
  /\ UNCHANGED <<inputs, workerVars, parent, walk, seen, result>>

(***************************************************************************)
(* The parent before it starts the workers                                 *)
(***************************************************************************)
\* With no miss to spare the sequential scan is called: it looks at the abort
\* flag, and otherwise prunes on line 0.
SeqPrune ==
  /\ parent = "start"
  /\ Budget <= 0
  /\ result' = IF ~ aborted /\ 0 \in match THEN 1 ELSE 0
  /\ hitCtlFlag' = aborted
  /\ parent' = "done"
  /\ UNCHANGED <<inputs, aborted, next, misses, stop, chunkMiss, pc, claim, walk, seen>>

StartWorkers ==
  /\ parent = "start"
  /\ Budget > 0
  /\ parent' = "wait"
  /\ pc' = [w \in Workers |-> "loop"]
  /\ UNCHANGED <<inputs, aborted, next, misses, stop, hitCtlFlag, chunkMiss, claim, walk, seen, result>>

(***************************************************************************)
(* A worker                                                                *)
(***************************************************************************)
LoadStop(w) ==
  /\ pc[w] = "loop"
  /\ pc' = [pc EXCEPT ![w] = IF stop THEN "exit" ELSE "claim"]
  /\ UNCHANGED <<inputs, aborted, next, misses, stop, hitCtlFlag, chunkMiss, claim, parent, walk, seen, result>>

Claim(w) ==
  /\ pc[w] = "claim"
  /\ next' = next + 1
  /\ claim' = [claim EXCEPT ![w] = next]
  /\ pc' = [pc EXCEPT ![w] = IF next >= Chunks THEN "exit" ELSE "check"]
  /\ UNCHANGED <<inputs, aborted, misses, stop, hitCtlFlag, chunkMiss, parent, walk, seen, result>>

\* Mutant: an aborted worker leaves without raising hitCtlFlag.
AbortUnreported(w) ==
  /\ pc[w] = "check"
  /\ stop' = (stop \/ aborted)
  /\ pc' = [pc EXCEPT ![w] = IF aborted THEN "exit" ELSE "scan"]
  /\ UNCHANGED <<inputs, aborted, next, misses, hitCtlFlag, chunkMiss, claim, parent, walk, seen, result>>

\* Mutant: an aborted worker leaves without wg.Done.
AbortWithoutDone(w) ==
  /\ pc[w] = "check"
  /\ hitCtlFlag' = (hitCtlFlag \/ aborted)
  /\ stop' = (stop \/ aborted)
  /\ pc' = [pc EXCEPT ![w] = IF aborted THEN "gone" ELSE "scan"]
  /\ UNCHANGED <<inputs, aborted, next, misses, chunkMiss, claim, parent, walk, seen, result>>

CheckAbort(w) ==
  /\ pc[w] = "check"
  /\ hitCtlFlag' = (hitCtlFlag \/ aborted)
  /\ stop' = (stop \/ aborted)
  /\ pc' = [pc EXCEPT ![w] = IF aborted THEN "exit" ELSE "scan"]
  /\ UNCHANGED <<inputs, aborted, next, misses, chunkMiss, claim, parent, walk, seen, result>>

ScanChunk(w) ==
  LET c == claim[w] IN
  /\ pc[w] = "scan"
  /\ chunkMiss' = [chunkMiss EXCEPT ![c] = Misses(c)]
  /\ misses' = misses + Misses(c)
  /\ pc' = [pc EXCEPT ![w] = IF misses' >= Budget THEN "raise" ELSE "loop"]
  /\ UNCHANGED <<inputs, aborted, next, stop, hitCtlFlag, claim, parent, walk, seen, result>>

RaiseStop(w) ==
  /\ pc[w] = "raise"
  /\ stop' = TRUE
  /\ pc' = [pc EXCEPT ![w] = "loop"]
  /\ UNCHANGED <<inputs, aborted, next, misses, hitCtlFlag, chunkMiss, claim, parent, walk, seen, result>>

(***************************************************************************)
(* The parent after wg.Wait                                                *)
(***************************************************************************)
Claimed == Least(next, Chunks)

Wait ==
  /\ parent = "wait"
  /\ \A w \in Workers : pc[w] = "exit"
  /\ parent' = IF hitCtlFlag THEN "done" ELSE "walk"
  /\ UNCHANGED <<inputs, aborted, workerVars, walk, seen, result>>

WalkPast ==
  /\ parent = "walk"
  /\ walk < Claimed
  /\ seen + chunkMiss[walk] < Budget
  /\ seen' = seen + chunkMiss[walk]
  /\ walk' = walk + 1
  /\ UNCHANGED <<inputs, aborted, workerVars, parent, result>>

\* Line i is the one where the rescan counts the budget-th miss.
IsLastMiss(i) ==
  /\ i \in ChunkLines(walk) \ match
  /\ seen + Cardinality((walk * Chunk .. i) \ match) = Budget

\* Mutant: the line of the miss itself is counted as a match.
OffByOneInChunk ==
  /\ parent = "walk"
  /\ walk < Claimed
  /\ seen + chunkMiss[walk] >= Budget
  /\ \E i \in ChunkLines(walk) : IsLastMiss(i) /\ result' = i + 2 - Budget
  /\ parent' = "done"
  /\ UNCHANGED <<inputs, aborted, workerVars, walk, seen>>

PruneInChunk ==
  /\ parent = "walk"
  /\ walk < Claimed
  /\ seen + chunkMiss[walk] >= Budget
  /\ \E i \in ChunkLines(walk) : IsLastMiss(i) /\ result' = i + 1 - Budget
  /\ parent' = "done"
  /\ UNCHANGED <<inputs, aborted, workerVars, walk, seen>>

WalkEnd ==
  /\ parent = "walk"
  /\ walk >= Claimed
  /\ result' = N - seen
  /\ parent' = "done"
  /\ UNCHANGED <<inputs, aborted, workerVars, walk, seen>>

-----------------------------------------------------------------------------
WorkerStep(w) ==
  LoadStop(w) \/ Claim(w) \/ CheckAbort(w) \/ ScanChunk(w) \/ RaiseStop(w)

ParentStep ==
  SeqPrune \/ StartWorkers \/ Wait \/ WalkPast \/ PruneInChunk \/ WalkEnd

Next == Abort \/ ParentStep \/ \E w \in Workers : WorkerStep(w)

Fairness == WF_vars(ParentStep) /\ \A w \in Workers : WF_vars(WorkerStep(w))

Spec == Init /\ [][Next]_vars /\ Fairness

-----------------------------------------------------------------------------
(***************************************************************************)
(* Properties                                                              *)
(***************************************************************************)
TypeOK ==
  /\ match \subseteq Lines
  /\ floor \in 0 .. N + 1
  /\ aborted \in BOOLEAN /\ stop \in BOOLEAN /\ hitCtlFlag \in BOOLEAN
  /\ next \in Nat
  /\ misses \in 0 .. N
  /\ chunkMiss \in [0 .. Chunks - 1 -> 0 .. Chunk]
  /\ pc \in [Workers -> {"idle", "loop", "claim", "check", "scan", "raise", "exit"}]
  /\ claim \in [Workers -> Nat]
  /\ parent \in {"start", "wait", "walk", "done"}
  /\ walk \in 0 .. Chunks
  /\ seen \in 0 .. N
  /\ result \in 0 .. N

\* "returns exactly what it would": unless a worker saw the abort, the parallel
\* scan returns the sequential scan's result, the exact count when the candidate
\* beats the floor and the same early partial count when it does not, whichever
\* chunks the workers happened to claim (scan.go 147-155).
ResultIsSequential ==
  parent = "done" /\ ~ hitCtlFlag => IsSeqFloor(match, floor, result)

\* "claimed chunks always run to completion, so the finished chunks form a
\* prefix": when the parent starts to walk, the walk stays inside chunks that
\* were scanned, and they hold the budget-th miss unless they are all the chunks
\* (scan.go 151-153, 208-210).
ClaimedArePrefix ==
  parent = "walk" =>
    /\ \A c \in 0 .. Claimed - 1 : chunkMiss[c] = Misses(c)
    /\ Claimed < Chunks => misses >= Budget

\* The scan returns, aborted or not: no worker and no walk waits for ever.
Terminates == <>(parent = "done")

\* However the workers claim and stop, the chunks and counters they leave are
\* what the parent's walk takes them for (scan.go 166-226).
ClaimsSound == TypeOK /\ ClaimedArePrefix

=============================================================================
