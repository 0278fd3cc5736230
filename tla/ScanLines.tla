------------------------------ MODULE ScanLines ------------------------------
(***************************************************************************)
(* How the parallel scans of internal/pattern/scan.go cut the lines into   *)
(* chunks for their workers.                                               *)
(***************************************************************************)
EXTENDS SeqScan

CONSTANTS
  Procs,              \* GOMAXPROCS
  ScanMinChunkLines,
  ScanChunkLines

ASSUME ScanAssumption ==
  /\ Procs \in Nat \ {0}
  /\ ScanMinChunkLines \in Nat \ {0}
  /\ ScanChunkLines \in Nat \ {0}

Least(a, b) == IF a <= b THEN a ELSE b
Greatest(a, b) == IF a >= b THEN a ELSE b

ScanChunkSize(n, procs) ==
  Least(Greatest((n + 4 * procs - 1) \div (4 * procs), ScanMinChunkLines),
        ScanChunkLines)

Chunk == ScanChunkSize(N, Procs)

\* The number of chunks, and the workers started for them.
Chunks == (N + Chunk - 1) \div Chunk
Workers == 1 .. Least(Procs, Chunks)

ChunkLines(c) == c * Chunk .. Least(c * Chunk + Chunk, N) - 1

=============================================================================
