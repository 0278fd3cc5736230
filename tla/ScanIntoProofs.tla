--------------------------- MODULE ScanIntoProofs ---------------------------
(***************************************************************************)
(* For any number of lines, processors and chunk sizes and any threshold,  *)
(* scanMatchesInto counts and marks the matching lines, all of them unless *)
(* it saw the abort, and no two of its workers ever share a line.          *)
(***************************************************************************)
EXTENDS ScanInto, FiniteSetTheorems, TLAPS

-----------------------------------------------------------------------------
(***************************************************************************)
(* Chunks, workers and lines; the lemmas are those of ScanFloorProofs      *)
(***************************************************************************)
LEMMA ChunkPositive == Chunk \in Nat \ {0}
<1>. DEFINE even == (N + 4 * Procs - 1) \div (4 * Procs)
<1>1. even \in Int
  <2>1. N + 4 * Procs - 1 \in Int /\ 4 * Procs \in Nat /\ 4 * Procs > 0
    BY LinesAssumption, ScanAssumption
  <2>. QED
    BY <2>1
<1>. HIDE DEF even
<1>2. Greatest(even, ScanMinChunkLines) \in Nat \ {0}
  BY <1>1, ScanAssumption DEF Greatest
<1>. QED
  BY <1>2, ScanAssumption DEF Chunk, ScanChunkSize, Least, even

\* Chunks is the least number of chunks that hold all lines.
LEMMA ChunksCover ==
  /\ Chunks \in Nat \ {0}
  /\ N <= Chunks * Chunk
  /\ (Chunks - 1) * Chunk < N
<1>1. Chunk \in Nat \ {0} /\ N \in Nat \ {0}
  BY ChunkPositive, LinesAssumption
<1>. DEFINE n == N + Chunk - 1
<1>2. n \in Nat
  BY <1>1
<1>3. /\ n \div Chunk \in Int
      /\ (n \div Chunk) * Chunk <= n
      /\ n < (n \div Chunk) * Chunk + Chunk
  BY <1>1, <1>2
<1>. DEFINE q == n \div Chunk
<1>4. q \in Int /\ q * Chunk <= n /\ n < q * Chunk + Chunk
  BY <1>3
<1>5. Chunks = q
  BY DEF Chunks
<1>. HIDE DEF q
<1>6. N <= q * Chunk
  BY <1>1, <1>4
<1>7. q >= 1
  <2>1. CASE q <= 0
    <3>. DEFINE k == 0 - q
    <3>1. k \in Nat /\ q = 0 - k
      BY <1>4, <2>1
    <3>. HIDE DEF k
    <3>2. k * Chunk \in Nat /\ q * Chunk = 0 - k * Chunk
      BY <1>1, <3>1
    <3>. QED
      BY <1>1, <1>6, <3>2
  <2>. QED
    BY <1>4, <2>1
<1>8. (q - 1) * Chunk = q * Chunk - Chunk
  BY <1>1, <1>4
<1>9. (q - 1) * Chunk < N
  BY <1>1, <1>4, <1>8
<1>. QED
  BY <1>4, <1>5, <1>6, <1>7, <1>9

\* A later chunk begins where an earlier one has ended.
LEMMA ChunksInOrder ==
  ASSUME NEW c \in Nat, NEW d \in Nat, c < d
  PROVE  c * Chunk \in Nat /\ d * Chunk \in Nat /\ c * Chunk + Chunk <= d * Chunk
<1>1. Chunk \in Nat
  BY ChunkPositive
<1>2. PICK k \in Nat : d = c + 1 + k
  <2>1. d - c - 1 \in Nat /\ d = c + 1 + (d - c - 1)
    OBVIOUS
  <2>. QED
    BY <2>1
<1>3. d * Chunk = c * Chunk + Chunk + k * Chunk
  BY <1>1, <1>2
<1>4. k * Chunk \in Nat /\ c * Chunk \in Nat
  BY <1>1, <1>2
<1>. QED
  BY <1>1, <1>3, <1>4

LEMMA WorkersFinite ==
  IsFiniteSet(Workers) /\ Cardinality(Workers) \in Nat \ {0}
<1>1. Least(Procs, Chunks) \in Nat \ {0}
  BY ScanAssumption, ChunksCover DEF Least
<1>. QED
  <2>. DEFINE k == Least(Procs, Chunks)
  <2>1. k \in Nat \ {0} /\ Workers = 1 .. k
    BY <1>1 DEF Workers
  <2>. HIDE DEF k
  <2>2. IsFiniteSet(1 .. k) /\ Cardinality(1 .. k) = k
    BY <2>1, FS_Interval
  <2>. QED
    BY <2>1, <2>2

LEMMA LinesFinite ==
  /\ IsFiniteSet(Lines) /\ Cardinality(Lines) = N
  /\ \A S \in SUBSET Lines : /\ IsFiniteSet(S) /\ Cardinality(S) \in 0 .. N
                             /\ Cardinality(S) = N => S = Lines
<1>1. IsFiniteSet(Lines) /\ Cardinality(Lines) = N
  BY FS_Interval, LinesAssumption DEF Lines
<1>2. ASSUME NEW S \in SUBSET Lines
      PROVE  /\ IsFiniteSet(S) /\ Cardinality(S) \in 0 .. N
             /\ Cardinality(S) = N => S = Lines
  BY <1>1, FS_Subset, FS_CardinalityType, LinesAssumption
<1>. QED
  BY <1>1, <1>2

\* The cardinality of two disjoint finite sets, and of two disjoint sets of lines.
LEMMA FiniteDisjointSum ==
  ASSUME NEW S, IsFiniteSet(S), NEW T, IsFiniteSet(T), S \cap T = {}
  PROVE  /\ IsFiniteSet(S \cup T)
         /\ Cardinality(S) \in Nat /\ Cardinality(T) \in Nat
         /\ Cardinality(S \cup T) = Cardinality(S) + Cardinality(T)
<1>1. Cardinality(S) \in Nat /\ Cardinality(T) \in Nat
  BY FS_CardinalityType
<1>2. /\ IsFiniteSet(S \cup T)
      /\ Cardinality(S \cup T) = Cardinality(S) + Cardinality(T) - Cardinality(S \cap T)
  BY FS_Union
<1>3. Cardinality(S \cap T) = 0
  BY FS_EmptySet
<1>. QED
  BY <1>1, <1>2, <1>3

LEMMA DisjointSum ==
  ASSUME NEW S \in SUBSET Lines, NEW T \in SUBSET Lines, S \cap T = {}
  PROVE  Cardinality(S \cup T) = Cardinality(S) + Cardinality(T)
BY LinesFinite, FiniteDisjointSum

-----------------------------------------------------------------------------
(***************************************************************************)
(* The inductive invariant                                                 *)
(***************************************************************************)
\* The workers were started.
Parallel == \A w \in Workers : pc[w] # "idle"

\* A worker holds a chunk it has not finished.
InFlight(w) == pc[w] \in {"check", "scan"}

\* The workers that claimed a chunk past the last line: each does so once.
Past == {w \in Workers : pc[w] \in {"leave", "exit"} /\ start[w] >= N}

\* The offset moves in whole chunks, at most one per worker past the lines.
OffsetBounded == \E k \in 0 .. Chunks + Cardinality(Past) : next = k * Chunk

\* Chunks in flight were claimed, begin inside the lines and do not overlap.
ClaimsApart ==
  /\ \A w \in Workers : InFlight(w) => start[w] + Chunk <= next /\ start[w] < N
  /\ \A v, w \in Workers :
       v # w /\ InFlight(v) /\ InFlight(w) =>
         start[v] + Chunk <= start[w] \/ start[w] + Chunk <= start[v]

\* The claimed lines that no worker still holds.
Finished ==
  {i \in 0 .. Least(next, N) - 1 :
     \A w \in Workers : InFlight(w) => i \notin ClaimedLines(w)}

\* The workers mark finished lines that match: all of them before an abort.
BitmapFits ==
  Parallel => /\ bitmap \subseteq match \cap Finished
              /\ ~ hitCtlFlag => bitmap = match \cap Finished

\* One pair for each line a worker has counted and not added to the total yet.
Uncounted ==
  {p \in Workers \X (Nat \ {0}) : pc[p[1]] # "exit" /\ p[2] <= local[p[1]]}

\* Every marked line is counted once, in the total or by one worker.
CountsKept ==
  /\ IsFiniteSet(Uncounted)
  /\ Parallel => total + Cardinality(Uncounted) = Cardinality(bitmap)

\* Workers leave for one of two reasons: an abort, or no line left.
LeavesForReason ==
  \A w \in Workers : pc[w] \in {"leave", "exit"} /\ ~ hitCtlFlag => next >= N

\* What holds in each phase of the caller.
Phases ==
  /\ parent = "start" =>
       /\ \A w \in Workers : pc[w] = "idle" /\ local[w] = 0
       /\ next = 0 /\ total = 0 /\ bitmap = {}
       /\ line = 0 /\ result = 0 /\ ~ hitCtlFlag
  /\ parent = "seq" =>
       /\ \A w \in Workers : pc[w] = "idle"
       /\ bitmap = match \cap 0 .. line - 1
       /\ result = Cardinality(bitmap)
       /\ ~ hitCtlFlag
  /\ parent = "wait" => Parallel
  /\ parent = "done" =>
       /\ \A w \in Workers : pc[w] \in {"idle", "exit"}
       /\ bitmap \subseteq match
       /\ result = Cardinality(bitmap)
       /\ ~ hitCtlFlag => bitmap = match

IInv ==
  /\ TypeOK
  /\ OffsetBounded
  /\ ClaimsApart
  /\ BitmapFits
  /\ CountsKept
  /\ LeavesForReason
  /\ Phases

-----------------------------------------------------------------------------
LEMMA Basics ==
  /\ N \in Nat \ {0} /\ Chunk \in Nat \ {0} /\ Chunks \in Nat \ {0}
  /\ Workers # {} /\ IsFiniteSet(Workers) /\ Cardinality(Workers) \in Nat
<1>1. Workers # {}
  BY WorkersFinite, FS_EmptySet
<1>. QED
  BY <1>1, WorkersFinite, LinesAssumption, ChunkPositive, ChunksCover

\* The pairs of one worker for k lines after the first l.
Row(w, l, k) == {w} \X (l + 1 .. l + k)

LEMMA RowSize ==
  ASSUME NEW w \in Workers, NEW l \in Nat, NEW k \in Nat
  PROVE  IsFiniteSet(Row(w, l, k)) /\ Cardinality(Row(w, l, k)) = k
<1>1. IsFiniteSet({w}) /\ Cardinality({w}) = 1
  BY FS_Singleton
<1>2. IsFiniteSet(l + 1 .. l + k) /\ Cardinality(l + 1 .. l + k) = k
  <2>. DEFINE low == l + 1
              high == l + k
  <2>1. low \in Int /\ high \in Int /\ high - low + 1 = k /\ (low > high <=> k = 0)
    OBVIOUS
  <2>. HIDE DEF low, high
  <2>2. IsFiniteSet(low .. high)
    BY <2>1, FS_Interval
  <2>3. Cardinality(low .. high) = IF low > high THEN 0 ELSE high - low + 1
    BY <2>1, FS_Interval
  <2>4. IsFiniteSet(low .. high) /\ Cardinality(low .. high) = k
    BY <2>1, <2>2, <2>3
  <2>. QED
    BY <2>4 DEF low, high
<1>3. IsFiniteSet(Row(w, l, k)) /\ Cardinality(Row(w, l, k)) = 1 * k
  BY <1>1, <1>2, FS_Product DEF Row
<1>. QED
  BY <1>3

\* An offset inside the lines is that of a chunk.
LEMMA OffsetInside ==
  ASSUME NEW k \in Nat, k * Chunk < N
  PROVE  k < Chunks
<1>. USE Basics
<1>1. CASE k = Chunks
  BY <1>1, ChunksCover
<1>2. CASE k > Chunks
  <2>1. Chunks * Chunk + Chunk <= k * Chunk /\ Chunks * Chunk \in Nat /\ k * Chunk \in Nat
    BY <1>2, ChunksInOrder
  <2>. QED
    BY <2>1, ChunksCover
<1>. QED
  BY <1>1, <1>2

LEMMA WorkersSubset ==
  ASSUME NEW S \in SUBSET Workers
  PROVE  IsFiniteSet(S) /\ Cardinality(S) \in Nat /\ Cardinality(S) <= Cardinality(Workers)
BY Basics, FS_Subset, FS_CardinalityType

LEMMA InitIInv == Init => IInv
<1>. SUFFICES ASSUME Init PROVE IInv
  OBVIOUS
<1>. USE Basics
<1>1. \A w \in Workers : pc[w] = "idle" /\ ~ InFlight(w) /\ local[w] = 0
  BY DEF Init, InFlight
<1>2. 0 \in 0 .. Chunks + Cardinality(Past) /\ 0 \in 0 .. Chunks + Cardinality(Workers) /\ 0 = 0 * Chunk
  <2>1. Past \in SUBSET Workers
    BY DEF Past
  <2>. QED
    BY <2>1, WorkersSubset
<1>3. TypeOK
  <2>1. next \in {k * Chunk : k \in 0 .. Chunks + Cardinality(Workers)}
    BY <1>2 DEF Init
  <2>2. 0 \in Nat /\ 0 \in 0 .. N /\ {} \subseteq Lines
    OBVIOUS
  <2>. QED
    BY <2>1, <2>2 DEF Init, TypeOK
<1>4. OffsetBounded
  BY <1>2 DEF OffsetBounded, Init
<1>5. ClaimsApart /\ BitmapFits /\ LeavesForReason
  BY <1>1 DEF ClaimsApart, BitmapFits, LeavesForReason, Parallel
<1>6. CountsKept
  <2>1. Uncounted = {}
    BY <1>1 DEF Uncounted
  <2>. QED
    BY <1>1, <2>1, FS_EmptySet DEF CountsKept, Parallel
<1>7. Phases
  BY <1>1 DEF Phases, Init
<1>. QED
  BY <1>3, <1>4, <1>5, <1>6, <1>7 DEF IInv

-----------------------------------------------------------------------------
(***************************************************************************)
(* The workers                                                             *)
(***************************************************************************)
LEMMA WorkersWhileWaiting ==
  ASSUME IInv, NEW w \in Workers, pc[w] \notin {"idle", "exit"}
  PROVE  parent = "wait" /\ Parallel
<1>1. parent = "wait"
  BY DEF IInv, TypeOK, Phases
<1>. QED
  BY <1>1 DEF IInv, Phases

\* A worker's step leaves the caller waiting.
LEMMA WaitingStays ==
  ASSUME IInv, NEW w \in Workers, pc[w] \notin {"idle", "exit"},
         \A v \in Workers : v # w => pc'[v] = pc[v],
         pc'[w] # "idle", parent' = parent
  PROVE  Phases' /\ Parallel'
<1>1. parent = "wait" /\ Parallel
  BY WorkersWhileWaiting
<1>2. Parallel'
  BY <1>1 DEF Parallel
<1>. QED
  BY <1>1, <1>2 DEF Phases

\* A claim moves the offset and puts the lines it passes in flight, so the
\* finished lines stay the same.
LEMMA ClaimIInv ==
  ASSUME IInv, NEW w \in Workers, Claim(w)
  PROVE  IInv'
<1>. USE Basics DEF IInv
<1>0. /\ next' = next + Chunk /\ start' = [start EXCEPT ![w] = next]
      /\ pc' = [pc EXCEPT ![w] = IF next >= N THEN "leave" ELSE "check"]
      /\ pc[w] = "claim"
      /\ pc \in [Workers -> {"idle", "claim", "check", "scan", "leave", "exit"}]
      /\ start \in [Workers -> Nat]
      /\ local' = local /\ match' = match /\ bitmap' = bitmap /\ total' = total
      /\ hitCtlFlag' = hitCtlFlag
  BY DEF Claim, TypeOK, inputs
<1>0a. Past \in SUBSET Workers /\ Past' \in SUBSET Workers
  BY DEF Past
<1>1. PICK k \in 0 .. Chunks + Cardinality(Past) : next = k * Chunk
  BY DEF OffsetBounded
<1>2. k \in Nat /\ next \in Nat /\ next' = (k + 1) * Chunk /\ next' \in Nat
  BY <1>0, <1>1, <1>0a, WorkersSubset
<1>3. ~ InFlight(w) /\ (InFlight(w)' <=> next < N) /\ start'[w] = next
  BY <1>0, <1>2 DEF InFlight
<1>4. \A v \in Workers : v # w => (InFlight(v)' <=> InFlight(v)) /\ start'[v] = start[v]
  BY <1>0 DEF InFlight
<1>5. OffsetBounded'
  <2>1. CASE next < N
    <3>1. k < Chunks
      BY <1>1, <1>2, <2>1, OffsetInside
    <3>2. Cardinality(Past') \in Nat
      BY <1>0a, WorkersSubset
    <3>. QED
      BY <1>2, <3>1, <3>2 DEF OffsetBounded
  <2>2. CASE next >= N
    <3>1. Past' = Past \cup {w} /\ w \notin Past
      BY <1>0, <2>2 DEF Past
    <3>2. Cardinality(Past') = Cardinality(Past) + 1
      BY <3>1, <1>0a, WorkersSubset, FS_AddElement
    <3>. QED
      BY <1>1, <1>2, <3>2, <1>0a, WorkersSubset DEF OffsetBounded
  <2>. QED
    BY <1>2, <2>1, <2>2
<1>6. TypeOK'
  <2>1. Cardinality(Past') \in Nat /\ Cardinality(Past') <= Cardinality(Workers)
    BY <1>0a, WorkersSubset
  <2>2. next' \in {m * Chunk : m \in 0 .. Chunks + Cardinality(Workers)}
    BY <1>5, <2>1 DEF OffsetBounded
  <2>3. start' \in [Workers -> Nat]
    BY <1>0, <1>2
  <2>4. pc' \in [Workers -> {"idle", "claim", "check", "scan", "leave", "exit"}]
    BY <1>0
  <2>. QED
    BY <2>2, <2>3, <2>4 DEF Claim, TypeOK, inputs
<1>7. ClaimsApart'
  <2>1. \A v \in Workers : InFlight(v)' => start'[v] \in Nat /\ start'[v] + Chunk <= next' /\ start'[v] < N
    BY <1>0, <1>2, <1>3, <1>4 DEF ClaimsApart
  <2>2. ASSUME NEW u \in Workers, NEW v \in Workers, u # v, InFlight(u)', InFlight(v)'
        PROVE  start'[u] + Chunk <= start'[v] \/ start'[v] + Chunk <= start'[u]
    <3>1. CASE u = w
      BY <1>3, <1>4, <2>2, <3>1 DEF ClaimsApart
    <3>2. CASE v = w
      BY <1>3, <1>4, <2>2, <3>2 DEF ClaimsApart
    <3>3. CASE u # w /\ v # w
      BY <1>4, <2>2, <3>3 DEF ClaimsApart
    <3>. QED
      BY <3>1, <3>2, <3>3
  <2>. QED
    BY <2>1, <2>2 DEF ClaimsApart
<1>8. Finished' = Finished
  <2>1. \A v \in Workers : v # w => ClaimedLines(v)' = ClaimedLines(v)
    BY <1>4 DEF ClaimedLines
  <2>2. Finished' = {i \in 0 .. Least(next', N) - 1 :
                      \A v \in Workers : InFlight(v)' => i \notin ClaimedLines(v)'}
    BY DEF Finished
  <2>3. CASE next < N
    <3>1. ClaimedLines(w)' = next .. Least(next', N) - 1
      BY <1>0, <1>3 DEF ClaimedLines
    <3>2. /\ 0 .. Least(next', N) - 1 = 0 .. next - 1 \cup ClaimedLines(w)'
          /\ 0 .. next - 1 \cap ClaimedLines(w)' = {}
          /\ 0 .. Least(next, N) - 1 = 0 .. next - 1
      BY <1>0, <1>2, <2>3, <3>1 DEF Least
    <3>3. ASSUME NEW i
          PROVE  i \in Finished' <=> i \in Finished
      <4>1. i \in Finished' <=>
              /\ i \in 0 .. next - 1 \cup ClaimedLines(w)'
              /\ i \notin ClaimedLines(w)'
              /\ \A v \in Workers \ {w} : InFlight(v) => i \notin ClaimedLines(v)
        BY <1>3, <1>4, <2>1, <2>2, <2>3, <3>2
      <4>2. i \in Finished <=>
              /\ i \in 0 .. next - 1
              /\ \A v \in Workers \ {w} : InFlight(v) => i \notin ClaimedLines(v)
        BY <1>3, <3>2 DEF Finished
      <4>. QED
        BY <3>2, <4>1, <4>2
    <3>. QED
      BY <3>3
  <2>4. CASE next >= N
    <3>1. Least(next', N) = N /\ Least(next, N) = N
      BY <1>0, <1>2, <2>4 DEF Least
    <3>2. ~ InFlight(w)'
      BY <1>2, <1>3, <2>4
    <3>. QED
      BY <1>3, <1>4, <2>1, <2>2, <3>1, <3>2 DEF Finished
  <2>. QED
    BY <1>2, <2>3, <2>4
<1>9. BitmapFits'
  BY <1>0, <1>8, WorkersWhileWaiting DEF BitmapFits
<1>10. CountsKept'
  <2>1. \A v \in Workers : pc'[v] # "exit" <=> pc[v] # "exit"
    BY <1>0
  <2>2. Uncounted' = Uncounted
    BY <1>0, <2>1 DEF Uncounted
  <2>. QED
    BY <1>0, <2>2, WorkersWhileWaiting DEF CountsKept
<1>11. LeavesForReason'
  BY <1>0, <1>2 DEF LeavesForReason
<1>12. Phases'
  BY <1>0, WaitingStays DEF Claim
<1>. QED
  BY <1>5, <1>6, <1>7, <1>9, <1>10, <1>11, <1>12

\* A worker that sees the abort gives its chunk up, and says so.
LEMMA CheckAbortIInv ==
  ASSUME IInv, NEW w \in Workers, CheckAbort(w)
  PROVE  IInv'
<1>. USE Basics DEF IInv
<1>0. /\ pc' = [pc EXCEPT ![w] = IF aborted THEN "leave" ELSE "scan"]
      /\ pc[w] = "check" /\ next' = next /\ start' = start /\ local' = local
      /\ match' = match /\ bitmap' = bitmap /\ total' = total
      /\ pc \in [Workers -> {"idle", "claim", "check", "scan", "leave", "exit"}]
      /\ start \in [Workers -> Nat]
  BY DEF CheckAbort, TypeOK, inputs
<1>1. \A v \in Workers : (InFlight(v)' => InFlight(v)) /\ ClaimedLines(v)' = ClaimedLines(v)
  BY <1>0 DEF InFlight, ClaimedLines
<1>2. ~ hitCtlFlag' => /\ ~ aborted /\ ~ hitCtlFlag
                       /\ \A v \in Workers : InFlight(v)' <=> InFlight(v)
  BY <1>0 DEF InFlight, CheckAbort
<1>3. TypeOK'
  BY <1>0 DEF CheckAbort, TypeOK, inputs
<1>4. OffsetBounded'
  <2>1. Past' = Past
    <3>1. start[w] < N
      BY <1>0 DEF ClaimsApart, InFlight
    <3>. QED
      BY <1>0, <3>1 DEF Past
  <2>. QED
    BY <1>0, <2>1 DEF OffsetBounded
<1>5. ClaimsApart'
  BY <1>0, <1>1 DEF ClaimsApart
<1>6. BitmapFits'
  <2>1. Finished \subseteq Finished' /\ (~ hitCtlFlag' => Finished' = Finished)
    BY <1>0, <1>1, <1>2 DEF Finished
  <2>. QED
    BY <1>0, <1>2, <2>1, WorkersWhileWaiting DEF BitmapFits
<1>7. CountsKept'
  <2>1. \A v \in Workers : pc'[v] # "exit" <=> pc[v] # "exit"
    BY <1>0
  <2>2. Uncounted' = Uncounted
    BY <1>0, <2>1 DEF Uncounted
  <2>. QED
    BY <1>0, <2>2, WorkersWhileWaiting DEF CountsKept
<1>8. LeavesForReason'
  BY <1>0, <1>2 DEF LeavesForReason
<1>9. Phases'
  BY <1>0, WaitingStays DEF CheckAbort
<1>. QED
  BY <1>3, <1>4, <1>5, <1>6, <1>7, <1>8, <1>9

\* A scanned chunk joins the finished lines; its matches are marked, and counted
\* by the worker, for the first time.
LEMMA ScanChunkIInv ==
  ASSUME IInv, NEW w \in Workers, ScanChunk(w)
  PROVE  IInv'
<1>. USE Basics DEF IInv
<1>. DEFINE own == ClaimedLines(w)
            hits == own \cap match
            k == Cardinality(hits)
<1>0. /\ local' = [local EXCEPT ![w] = local[w] + k]
      /\ bitmap' = bitmap \cup hits
      /\ pc' = [pc EXCEPT ![w] = "claim"] /\ pc[w] = "scan"
      /\ next' = next /\ start' = start /\ match' = match /\ total' = total
      /\ hitCtlFlag' = hitCtlFlag
      /\ pc \in [Workers -> {"idle", "claim", "check", "scan", "leave", "exit"}]
      /\ start \in [Workers -> Nat] /\ local \in [Workers -> 0 .. N]
      /\ bitmap \subseteq Lines /\ total \in 0 .. N
  BY DEF ScanChunk, TypeOK, inputs
<1>1. InFlight(w) /\ ~ InFlight(w)' /\ Parallel /\ Parallel'
  BY <1>0, WorkersWhileWaiting, WaitingStays DEF InFlight, ScanChunk
<1>2. \A v \in Workers : /\ v # w => (InFlight(v)' <=> InFlight(v))
                        /\ ClaimedLines(v)' = ClaimedLines(v)
  BY <1>0 DEF InFlight, ClaimedLines
<1>3. /\ start[w] \in Nat /\ start[w] + Chunk <= next /\ start[w] < N /\ next \in Nat
      /\ own = start[w] .. Least(start[w] + Chunk, N) - 1
  BY <1>0, <1>1 DEF ClaimsApart, ClaimedLines, TypeOK
<1>4. own \subseteq 0 .. Least(next, N) - 1 /\ own \subseteq Lines
  BY <1>3 DEF Least, Lines
<1>. HIDE DEF own
<1>5. \A v \in Workers : v # w /\ InFlight(v) => own \cap ClaimedLines(v) = {}
  <2>. TAKE v \in Workers
  <2>1. ASSUME v # w, InFlight(v) PROVE own \cap ClaimedLines(v) = {}
    <3>1. /\ start[v] \in Nat
          /\ start[v] + Chunk <= start[w] \/ start[w] + Chunk <= start[v]
      BY <1>0, <1>1, <2>1 DEF ClaimsApart
    <3>. QED
      BY <1>3, <3>1 DEF ClaimedLines, Least
  <2>. QED
    BY <2>1
<1>6. Finished' = Finished \cup own /\ Finished \cap own = {}
  <2>1. Finished \cap own = {}
    BY <1>1 DEF Finished, own
  <2>2. Finished' = {i \in 0 .. Least(next, N) - 1 :
                      \A v \in Workers : v # w /\ InFlight(v) => i \notin ClaimedLines(v)}
    BY <1>0, <1>1, <1>2 DEF Finished
  <2>3. Finished \cup own \subseteq Finished'
    BY <1>4, <1>5, <2>2 DEF Finished
  <2>4. Finished' \subseteq Finished \cup own
    BY <2>2 DEF Finished, own
  <2>. QED
    BY <2>1, <2>3, <2>4
<1>7. BitmapFits'
  BY <1>0, <1>1, <1>6 DEF BitmapFits
<1>8. k \in Nat /\ hits \in SUBSET Lines /\ bitmap' \subseteq Lines
      /\ Cardinality(bitmap') = Cardinality(bitmap) + k
      /\ Cardinality(bitmap') \in 0 .. N /\ Cardinality(bitmap) \in Nat
  <2>1. bitmap \cap hits = {}
    BY <1>1, <1>6 DEF BitmapFits
  <2>2. hits \in SUBSET Lines /\ bitmap \in SUBSET Lines /\ bitmap' \in SUBSET Lines
    BY <1>0, <1>4
  <2>. QED
    BY <1>0, <2>1, <2>2, DisjointSum, LinesFinite
<1>. HIDE DEF k, hits
<1>. DEFINE l == local[w]
            added == Row(w, l, k)
<1>9. l \in Nat /\ IsFiniteSet(added) /\ Cardinality(added) = k
  <2>1. l \in Nat
    BY <1>0
  <2>. QED
    BY <1>8, <2>1, RowSize
<1>10. Uncounted' = Uncounted \cup added /\ Uncounted \cap added = {}
  <2>1. Uncounted' = {p \in Workers \X (Nat \ {0}) : pc'[p[1]] # "exit" /\ p[2] <= local'[p[1]]}
    BY DEF Uncounted
  <2>2. ASSUME NEW v \in Workers, NEW n \in Nat \ {0}
        PROVE  /\ <<v, n>> \in Uncounted' <=> <<v, n>> \in Uncounted \cup added
               /\ ~ (<<v, n>> \in Uncounted /\ <<v, n>> \in added)
    <3>1. <<v, n>> \in Uncounted <=> pc[v] # "exit" /\ n <= local[v]
      BY DEF Uncounted
    <3>2. <<v, n>> \in Uncounted' <=> pc'[v] # "exit" /\ n <= local'[v]
      BY <2>1
    <3>3. <<v, n>> \in added <=> v = w /\ n \in l + 1 .. l + k
      BY DEF Row
    <3>4. CASE v = w
      <4>1. pc[v] # "exit" /\ pc'[v] # "exit" /\ local[v] = l /\ local'[v] = l + k
        BY <1>0, <3>4
      <4>. QED
        BY <1>8, <1>9, <3>1, <3>2, <3>3, <3>4, <4>1
    <3>5. CASE v # w
      <4>1. pc'[v] = pc[v] /\ local'[v] = local[v]
        BY <1>0, <3>5
      <4>. QED
        BY <3>1, <3>2, <3>3, <3>5, <4>1
    <3>. QED
      BY <3>4, <3>5
  <2>3. /\ Uncounted \subseteq Workers \X (Nat \ {0})
        /\ Uncounted' \subseteq Workers \X (Nat \ {0})
    BY <2>1 DEF Uncounted
  <2>4. added \subseteq Workers \X (Nat \ {0})
    BY <1>8, <1>9 DEF Row
  <2>. HIDE DEF added
  <2>. QED
    BY <2>2, <2>3, <2>4
<1>11. CountsKept'
  <2>1. IsFiniteSet(Uncounted) /\ total + Cardinality(Uncounted) = Cardinality(bitmap)
    BY <1>1 DEF CountsKept
  <2>2. /\ IsFiniteSet(Uncounted \cup added) /\ Cardinality(Uncounted) \in Nat
        /\ Cardinality(Uncounted \cup added) = Cardinality(Uncounted) + k
    BY <1>9, <1>10, <2>1, FiniteDisjointSum
  <2>. QED
    BY <1>0, <1>8, <1>10, <2>1, <2>2 DEF CountsKept
<1>12. local' \in [Workers -> 0 .. N]
  <2>. DEFINE row == Row(w, 0, l + k)
  <2>1. IsFiniteSet(row) /\ Cardinality(row) = l + k
    <3>1. 0 \in Nat /\ l + k \in Nat
      BY <1>8, <1>9
    <3>. QED
      BY <3>1, RowSize
  <2>2. row \in SUBSET Uncounted'
    <3>1. pc'[w] # "exit" /\ local'[w] = l + k
      BY <1>0
    <3>2. ASSUME NEW n \in 1 .. l + k
          PROVE  <<w, n>> \in Uncounted'
      BY <1>8, <1>9, <3>1, <3>2 DEF Uncounted
    <3>3. row = {w} \X (1 .. l + k)
      BY <1>8, <1>9 DEF Row
    <3>. QED
      BY <3>2, <3>3
  <2>. HIDE DEF row
  <2>3. IsFiniteSet(Uncounted') /\ total + Cardinality(Uncounted') = Cardinality(bitmap')
    BY <1>0, <1>1, <1>11 DEF CountsKept
  <2>4. Cardinality(row) <= Cardinality(Uncounted') /\ Cardinality(Uncounted') \in Nat
    BY <2>2, <2>3, FS_Subset, FS_CardinalityType
  <2>5. l + k \in 0 .. N
    BY <1>0, <1>8, <1>9, <2>1, <2>3, <2>4
  <2>. QED
    BY <1>0, <2>5
<1>13. TypeOK'
  BY <1>0, <1>8, <1>12 DEF TypeOK, ScanChunk, inputs
<1>14. OffsetBounded'
  <2>1. Past' = Past
    BY <1>0 DEF Past
  <2>. QED
    BY <1>0, <2>1 DEF OffsetBounded
<1>15. ClaimsApart' /\ LeavesForReason'
  BY <1>0, <1>1, <1>2 DEF ClaimsApart, LeavesForReason
<1>16. Phases'
  BY <1>0, WaitingStays DEF ScanChunk
<1>. QED
  BY <1>7, <1>11, <1>13, <1>14, <1>15, <1>16

\* The lines a leaving worker has counted move to the total.
LEMMA LeaveIInv ==
  ASSUME IInv, NEW w \in Workers, Leave(w)
  PROVE  IInv'
<1>. USE Basics DEF IInv
<1>. DEFINE l == local[w]
            row == Row(w, 0, l)
<1>0. /\ total' = total + l
      /\ pc' = [pc EXCEPT ![w] = "exit"] /\ pc[w] = "leave"
      /\ next' = next /\ start' = start /\ match' = match /\ local' = local
      /\ hitCtlFlag' = hitCtlFlag /\ bitmap' = bitmap
      /\ pc \in [Workers -> {"idle", "claim", "check", "scan", "leave", "exit"}]
      /\ local \in [Workers -> 0 .. N] /\ bitmap \in SUBSET Lines /\ total \in 0 .. N
      /\ l \in Nat
  BY DEF Leave, TypeOK, inputs
<1>1. \A v \in Workers : (InFlight(v)' <=> InFlight(v)) /\ ClaimedLines(v)' = ClaimedLines(v)
  BY <1>0 DEF InFlight, ClaimedLines
<1>2. Parallel /\ Parallel'
  BY <1>0, WorkersWhileWaiting, WaitingStays DEF Leave
<1>3. Finished' = Finished
  BY <1>0, <1>1 DEF Finished
<1>4. IsFiniteSet(row) /\ Cardinality(row) = l
  <2>1. 0 \in Nat
    OBVIOUS
  <2>. QED
    BY <1>0, <2>1, RowSize
<1>5. Uncounted = Uncounted' \cup row /\ Uncounted' \cap row = {}
  <2>1. Uncounted' = {p \in Workers \X (Nat \ {0}) : pc'[p[1]] # "exit" /\ p[2] <= local'[p[1]]}
    BY DEF Uncounted
  <2>2. ASSUME NEW v \in Workers, NEW n \in Nat \ {0}
        PROVE  /\ <<v, n>> \in Uncounted <=> <<v, n>> \in Uncounted' \cup row
               /\ ~ (<<v, n>> \in Uncounted' /\ <<v, n>> \in row)
    <3>1. <<v, n>> \in Uncounted <=> pc[v] # "exit" /\ n <= local[v]
      BY DEF Uncounted
    <3>2. <<v, n>> \in Uncounted' <=> pc'[v] # "exit" /\ n <= local'[v]
      BY <2>1
    <3>3. <<v, n>> \in row <=> v = w /\ n \in 0 + 1 .. 0 + l
      BY DEF Row
    <3>4. CASE v = w
      <4>1. pc[v] # "exit" /\ pc'[v] = "exit" /\ local[v] = l
        BY <1>0, <3>4
      <4>. QED
        BY <1>0, <3>1, <3>2, <3>3, <3>4, <4>1
    <3>5. CASE v # w
      <4>1. pc'[v] = pc[v] /\ local'[v] = local[v]
        BY <1>0, <3>5
      <4>. QED
        BY <3>1, <3>2, <3>3, <3>5, <4>1
    <3>. QED
      BY <3>4, <3>5
  <2>3. /\ Uncounted \subseteq Workers \X (Nat \ {0})
        /\ Uncounted' \subseteq Workers \X (Nat \ {0})
    BY <2>1 DEF Uncounted
  <2>4. row \subseteq Workers \X (Nat \ {0})
    BY <1>0 DEF Row
  <2>. HIDE DEF row
  <2>. QED
    BY <2>2, <2>3, <2>4
<1>6. IsFiniteSet(Uncounted') /\ total' + Cardinality(Uncounted') = Cardinality(bitmap')
      /\ Cardinality(Uncounted') \in Nat
  <2>1. IsFiniteSet(Uncounted) /\ total + Cardinality(Uncounted) = Cardinality(bitmap)
    BY <1>2 DEF CountsKept
  <2>2. Uncounted' \in SUBSET Uncounted
    BY <1>5
  <2>3. IsFiniteSet(Uncounted')
    BY <2>1, <2>2, FS_Subset
  <2>4. /\ Cardinality(Uncounted) = Cardinality(Uncounted') + l
        /\ Cardinality(Uncounted') \in Nat
    BY <1>4, <1>5, <2>3, FiniteDisjointSum
  <2>. QED
    BY <1>0, <2>1, <2>3, <2>4
<1>7. CountsKept'
  BY <1>6 DEF CountsKept
<1>8. TypeOK'
  <2>1. Cardinality(bitmap') \in 0 .. N
    BY <1>0, LinesFinite
  <2>2. total' \in 0 .. N
    BY <1>0, <1>6, <2>1
  <2>. QED
    BY <1>0, <2>2 DEF Leave, TypeOK, inputs
<1>9. OffsetBounded'
  <2>1. Past' = Past
    BY <1>0 DEF Past
  <2>. QED
    BY <1>0, <2>1 DEF OffsetBounded
<1>10. ClaimsApart' /\ LeavesForReason'
  BY <1>0, <1>1 DEF ClaimsApart, LeavesForReason
<1>11. BitmapFits'
  BY <1>0, <1>2, <1>3 DEF BitmapFits
<1>12. Phases'
  BY <1>0, WaitingStays DEF Leave
<1>. QED
  BY <1>7, <1>8, <1>9, <1>10, <1>11, <1>12

-----------------------------------------------------------------------------
(***************************************************************************)
(* The caller                                                              *)
(***************************************************************************)
\* Steps that leave what the workers share alone.
LEMMA WorkersLeftAlone ==
  ASSUME IInv, UNCHANGED <<inputs, workerVars, bitmap>>
  PROVE  OffsetBounded' /\ ClaimsApart' /\ BitmapFits' /\ CountsKept' /\ LeavesForReason'
<1>. USE DEF IInv, inputs, workerVars
<1>1. Past' = Past /\ Uncounted' = Uncounted
  BY DEF Past, Uncounted
<1>2. \A w \in Workers : (InFlight(w)' <=> InFlight(w)) /\ ClaimedLines(w)' = ClaimedLines(w)
  BY DEF InFlight, ClaimedLines
<1>3. Finished' = Finished
  BY <1>2 DEF Finished
<1>4. OffsetBounded' /\ CountsKept' /\ LeavesForReason'
  BY <1>1 DEF OffsetBounded, CountsKept, LeavesForReason, Parallel
<1>5. ClaimsApart' /\ BitmapFits'
  BY <1>2, <1>3 DEF ClaimsApart, BitmapFits, Parallel
<1>. QED
  BY <1>4, <1>5

LEMMA AbortIInv == IInv /\ Abort => IInv'
<1>. SUFFICES ASSUME IInv, Abort PROVE IInv'
  OBVIOUS
<1>1. OffsetBounded' /\ ClaimsApart' /\ BitmapFits' /\ CountsKept' /\ LeavesForReason'
  BY WorkersLeftAlone DEF Abort
<1>2. TypeOK' /\ Phases'
  BY DEF Abort, IInv, TypeOK, Phases, Parallel, inputs, workerVars
<1>. QED
  BY <1>1, <1>2 DEF IInv

LEMMA BeginIInv == IInv /\ Begin => IInv'
<1>. SUFFICES ASSUME IInv, Begin PROVE IInv'
  OBVIOUS
<1>. USE Basics DEF IInv
<1>0. /\ \A w \in Workers : pc[w] = "idle" /\ local[w] = 0
      /\ next = 0 /\ total = 0 /\ bitmap = {} /\ line = 0 /\ result = 0 /\ ~ hitCtlFlag
      /\ next' = next /\ total' = total /\ bitmap' = bitmap /\ line' = line
      /\ result' = result /\ hitCtlFlag' = hitCtlFlag /\ local' = local
  BY DEF Begin, Phases
<1>1. /\ \A w \in Workers : pc'[w] \in {"idle", "claim"} /\ ~ InFlight(w)'
      /\ parent' = "seq" => \A w \in Workers : pc'[w] = "idle"
      /\ parent' = "wait" => \A w \in Workers : pc'[w] = "claim"
      /\ parent' \in {"seq", "wait"}
  BY <1>0 DEF Begin, InFlight
<1>2. TypeOK'
  BY DEF Begin, TypeOK, inputs
<1>3. OffsetBounded'
  <2>1. Past' \in SUBSET Workers
    BY DEF Past
  <2>2. 0 \in 0 .. Chunks + Cardinality(Past') /\ 0 = 0 * Chunk
    BY <2>1, WorkersSubset
  <2>. QED
    BY <1>0, <2>2 DEF OffsetBounded
<1>4. ClaimsApart' /\ LeavesForReason'
  BY <1>1 DEF ClaimsApart, LeavesForReason
<1>5. BitmapFits'
  <2>1. Finished' = {}
    BY <1>0 DEF Finished, Least
  <2>. QED
    BY <1>0, <2>1 DEF BitmapFits
<1>6. CountsKept'
  <2>1. Uncounted' = {}
    BY <1>0 DEF Uncounted
  <2>. QED
    BY <1>0, <2>1, FS_EmptySet DEF CountsKept
<1>7. Phases'
  <2>1. match' \cap 0 .. 0 - 1 = {}
    OBVIOUS
  <2>. QED
    BY <1>0, <1>1, <2>1, FS_EmptySet DEF Phases, Parallel
<1>. QED
  BY <1>2, <1>3, <1>4, <1>5, <1>6, <1>7

\* The sequential scan runs while no worker does.
LEMMA SequentialAlone ==
  ASSUME IInv, parent = "seq", UNCHANGED <<inputs, next, total, pc, start, local>>
  PROVE  /\ \A w \in Workers : pc[w] = "idle"
         /\ OffsetBounded' /\ ClaimsApart' /\ BitmapFits' /\ CountsKept' /\ LeavesForReason'
<1>. USE Basics DEF IInv, inputs
<1>1. \A w \in Workers : pc[w] = "idle" /\ pc'[w] = "idle"
  BY DEF Phases
<1>2. Past' = Past /\ Uncounted' = Uncounted
  BY DEF Past, Uncounted
<1>3. OffsetBounded' /\ CountsKept'
  BY <1>1, <1>2 DEF OffsetBounded, CountsKept, Parallel
<1>4. ClaimsApart' /\ LeavesForReason' /\ BitmapFits'
  BY <1>1 DEF ClaimsApart, LeavesForReason, BitmapFits, InFlight, Parallel
<1>. QED
  BY <1>1, <1>3, <1>4

LEMMA SeqLineIInv == IInv /\ SeqLine => IInv'
<1>. SUFFICES ASSUME IInv, SeqLine PROVE IInv'
  OBVIOUS
<1>. USE Basics DEF IInv
<1>0. /\ \A w \in Workers : pc[w] = "idle"
      /\ OffsetBounded' /\ ClaimsApart' /\ BitmapFits' /\ CountsKept' /\ LeavesForReason'
  BY SequentialAlone DEF SeqLine
<1>1. /\ line \in Nat /\ line < N /\ match \in SUBSET Lines /\ bitmap = match \cap 0 .. line - 1
      /\ result = Cardinality(bitmap) /\ ~ hitCtlFlag /\ result \in Nat
      /\ match' = match /\ pc' = pc /\ parent = "seq"
  BY DEF SeqLine, Phases, TypeOK, inputs
<1>2. CASE aborted
  <2>1. TypeOK'
    BY <1>2 DEF SeqLine, TypeOK, inputs
  <2>2. Phases'
    BY <1>0, <1>1, <1>2 DEF SeqLine, Phases
  <2>. QED
    BY <1>0, <2>1, <2>2
<1>3. CASE ~ aborted
  <2>1. /\ result' = IF line \in match THEN result + 1 ELSE result
        /\ bitmap' = bitmap \cup (match \cap {line}) /\ line' = line + 1
        /\ hitCtlFlag' = hitCtlFlag /\ parent' = parent
    BY <1>3 DEF SeqLine
  <2>2. bitmap' = match \cap 0 .. line' - 1
    <3>1. 0 .. line' - 1 = (0 .. line - 1) \cup {line}
      BY <1>1, <2>1
    <3>. QED
      BY <1>1, <2>1, <3>1
  <2>3. result' = Cardinality(bitmap')
    <3>1. IsFiniteSet(bitmap) /\ line \notin bitmap
      BY <1>1, LinesFinite
    <3>2. CASE line \in match
      <4>1. bitmap' = bitmap \cup {line}
        BY <2>1, <3>2
      <4>. QED
        BY <1>1, <2>1, <3>1, <3>2, <4>1, FS_AddElement
    <3>3. CASE line \notin match
      <4>1. bitmap' = bitmap
        BY <2>1, <3>3
      <4>. QED
        BY <1>1, <2>1, <3>3, <4>1
    <3>. QED
      BY <3>2, <3>3
  <2>4. TypeOK'
    <3>1. bitmap' \in SUBSET Lines
      BY <1>1, <2>2
    <3>2. result' \in 0 .. N
      BY <2>3, <3>1, LinesFinite
    <3>3. line' \in 0 .. N
      BY <1>1, <2>1
    <3>. QED
      BY <2>1, <3>1, <3>2, <3>3 DEF SeqLine, TypeOK, inputs
  <2>5. Phases'
    BY <1>0, <1>1, <2>1, <2>2, <2>3 DEF Phases
  <2>. QED
    BY <1>0, <2>4, <2>5
<1>. QED
  BY <1>2, <1>3

LEMMA SeqEndIInv == IInv /\ SeqEnd => IInv'
<1>. SUFFICES ASSUME IInv, SeqEnd PROVE IInv'
  OBVIOUS
<1>. USE Basics DEF IInv
<1>1. OffsetBounded' /\ ClaimsApart' /\ BitmapFits' /\ CountsKept' /\ LeavesForReason'
  BY WorkersLeftAlone DEF SeqEnd
<1>2. TypeOK'
  BY DEF SeqEnd, TypeOK, inputs, workerVars
<1>3. bitmap = match
  <2>1. match \cap 0 .. N - 1 = match
    BY DEF TypeOK, Lines
  <2>. QED
    BY <2>1 DEF SeqEnd, Phases
<1>4. Phases'
  BY <1>3 DEF SeqEnd, Phases, inputs, workerVars
<1>. QED
  BY <1>1, <1>2, <1>4

\* When every worker has left, every counted line is in the total, and without an
\* abort every line is finished.
LEMMA WaitIInv == IInv /\ Wait => IInv'
<1>. SUFFICES ASSUME IInv, Wait PROVE IInv'
  OBVIOUS
<1>. USE Basics DEF IInv
<1>1. OffsetBounded' /\ ClaimsApart' /\ BitmapFits' /\ CountsKept' /\ LeavesForReason'
  BY WorkersLeftAlone DEF Wait
<1>2. TypeOK'
  BY DEF Wait, TypeOK, inputs, workerVars
<1>3. (\A w \in Workers : pc[w] = "exit") /\ Parallel
  BY DEF Wait, Phases
<1>4. total = Cardinality(bitmap)
  <2>1. Uncounted = {}
    BY <1>3 DEF Uncounted
  <2>2. Cardinality(Uncounted) = 0 /\ total \in Nat
    BY <2>1, FS_EmptySet DEF TypeOK
  <2>. QED
    BY <1>3, <2>2 DEF CountsKept
<1>5. bitmap \subseteq match /\ (~ hitCtlFlag => bitmap = match)
  <2>1. ASSUME ~ hitCtlFlag PROVE match \cap Finished = match
    <3>1. next >= N
      BY <1>3, <2>1 DEF LeavesForReason
    <3>2. next \in Nat
      BY DEF TypeOK
    <3>3. Least(next, N) = N
      BY <3>1, <3>2 DEF Least
    <3>4. Finished = Lines
      BY <1>3, <3>3 DEF Finished, InFlight, Lines
    <3>. QED
      BY <3>4 DEF TypeOK
  <2>. QED
    BY <1>3, <2>1 DEF BitmapFits
<1>6. Phases'
  BY <1>3, <1>4, <1>5 DEF Wait, Phases, inputs, workerVars
<1>. QED
  BY <1>1, <1>2, <1>6

-----------------------------------------------------------------------------
(***************************************************************************)
(* The theorems                                                            *)
(***************************************************************************)
LEMMA StutterIInv == IInv /\ UNCHANGED vars => IInv'
<1>. SUFFICES ASSUME IInv, UNCHANGED vars PROVE IInv'
  OBVIOUS
<1>1. OffsetBounded' /\ ClaimsApart' /\ BitmapFits' /\ CountsKept' /\ LeavesForReason'
  BY WorkersLeftAlone DEF vars
<1>2. TypeOK' /\ Phases'
  BY DEF vars, IInv, TypeOK, Phases, Parallel, inputs, workerVars
<1>. QED
  BY <1>1, <1>2 DEF IInv

\* What the workers have claimed, marked and counted fits together in every
\* reachable state (scan.go 59-145).
THEOREM IntoInvariant == Spec => []IInv
<1>1. Init => IInv
  BY InitIInv
<1>2. IInv /\ [Next]_vars => IInv'
  <2>. SUFFICES ASSUME IInv, [Next]_vars PROVE IInv'
    OBVIOUS
  <2>1. CASE Abort
    BY <2>1, AbortIInv
  <2>2. CASE ParentStep
    BY <2>2, BeginIInv, SeqLineIInv, SeqEndIInv, WaitIInv DEF ParentStep
  <2>3. ASSUME NEW w \in Workers, WorkerStep(w) PROVE IInv'
    BY <2>3, ClaimIInv, CheckAbortIInv, ScanChunkIInv, LeaveIInv DEF WorkerStep
  <2>4. CASE UNCHANGED vars
    BY <2>4, StutterIInv
  <2>. QED
    BY <2>1, <2>2, <2>3, <2>4 DEF Next
<1>. QED
  BY <1>1, <1>2, PTL DEF Spec

\* The parallel and the sequential path give all matching lines and their count,
\* for any number of lines and workers, unless the scan saw an abort
\* (scan.go 59-126).
THEOREM IntoIsSequential == Spec => []ResultIsSequential
<1>1. IInv => ResultIsSequential
  BY DEF IInv, Phases, ResultIsSequential, SeqCount
<1>. QED
  BY <1>1, IntoInvariant, PTL

\* "Workers write disjoint index ranges", and also a partial count is the number
\* of lines the bitmap marks (scan.go 41, 69-70).
THEOREM IntoChunksSound == Spec => []ChunksSound
<1>1. IInv => ChunksSound
  <2>. SUFFICES ASSUME IInv PROVE ChunksSound
    OBVIOUS
  <2>. USE Basics DEF IInv
  <2>1. ASSUME NEW v \in Workers, NEW w \in Workers, pc[w] = "scan"
        PROVE  /\ ClaimedLines(w) # {} /\ ClaimedLines(w) \subseteq Lines
               /\ v # w /\ pc[v] = "scan" => ClaimedLines(v) \cap ClaimedLines(w) = {}
    <3>1. start[w] \in Nat /\ start[v] \in Nat /\ start[w] < N
      BY <2>1 DEF TypeOK, ClaimsApart, InFlight
    <3>2. ClaimedLines(w) # {} /\ ClaimedLines(w) \subseteq Lines
      <4>1. start[w] \in ClaimedLines(w)
        BY <3>1 DEF ClaimedLines, Least
      <4>. QED
        BY <3>1, <4>1 DEF ClaimedLines, Least, Lines
    <3>3. ASSUME v # w, pc[v] = "scan" PROVE ClaimedLines(v) \cap ClaimedLines(w) = {}
      <4>1. start[v] + Chunk <= start[w] \/ start[w] + Chunk <= start[v]
        BY <2>1, <3>3 DEF ClaimsApart, InFlight
      <4>. QED
        BY <3>1, <4>1 DEF ClaimedLines, Least
    <3>. QED
      BY <3>2, <3>3
  <2>2. PartialIsPartial
    BY DEF Phases, PartialIsPartial
  <2>. QED
    BY <2>1, <2>2 DEF ChunksSound, DisjointRanges
<1>. QED
  BY <1>1, IntoInvariant, PTL

=============================================================================
