--------------------------- MODULE ScanFloorProofs ---------------------------
(***************************************************************************)
(* For any number of lines, processors and chunk sizes, scanMatchesFloor   *)
(* returns the sequential scan's result unless a worker saw the abort, and *)
(* the chunks its workers leave behind are what the parent takes them for. *)
(***************************************************************************)
EXTENDS ScanFloor, FiniteSetTheorems, TLAPS

-----------------------------------------------------------------------------
(***************************************************************************)
(* Chunks partition the lines in order, and misses fill the budget         *)
(***************************************************************************)
\* The lines of the chunks before chunk c.
Before(c) == 0 .. Least(c * Chunk, N) - 1

\* The lines that do not match, up to line i.
MissesUpTo(found, i) == Cardinality((0 .. i) \ found)

LEMMA ChunkPositive == Chunk \in Nat \ {0}
<1>. DEFINE even == (N + 4 * Procs - 1) \div (4 * Procs)
<1>1. even \in Int
  <2>1. N + 4 * Procs - 1 \in Int /\ 4 * Procs \in Nat /\ 4 * Procs > 0
    BY LinesAssumption, ScanAssumption
  <2>. QED
    BY <2>1
<1>. HIDE DEF even
<1>2. Greatest(even, ScanMinChunkLines) \in Nat \ {0}
  BY <1>1, ScanAssumption DEF Greatest
<1>. QED
  BY <1>2, ScanAssumption DEF Chunk, ScanChunkSize, Least, even

\* Chunks is the least number of chunks that hold all lines.
LEMMA ChunksCover ==
  /\ Chunks \in Nat \ {0}
  /\ N <= Chunks * Chunk
  /\ (Chunks - 1) * Chunk < N
<1>1. Chunk \in Nat \ {0} /\ N \in Nat \ {0}
  BY ChunkPositive, LinesAssumption
<1>. DEFINE n == N + Chunk - 1
<1>2. n \in Nat
  BY <1>1
<1>3. /\ n \div Chunk \in Int
      /\ (n \div Chunk) * Chunk <= n
      /\ n < (n \div Chunk) * Chunk + Chunk
  BY <1>1, <1>2
<1>. DEFINE q == n \div Chunk
<1>4. q \in Int /\ q * Chunk <= n /\ n < q * Chunk + Chunk
  BY <1>3
<1>5. Chunks = q
  BY DEF Chunks
<1>. HIDE DEF q
<1>6. N <= q * Chunk
  BY <1>1, <1>4
<1>7. q >= 1
  <2>1. CASE q <= 0
    <3>. DEFINE k == 0 - q
    <3>1. k \in Nat /\ q = 0 - k
      BY <1>4, <2>1
    <3>. HIDE DEF k
    <3>2. k * Chunk \in Nat /\ q * Chunk = 0 - k * Chunk
      BY <1>1, <3>1
    <3>. QED
      BY <1>1, <1>6, <3>2
  <2>. QED
    BY <1>4, <2>1
<1>8. (q - 1) * Chunk = q * Chunk - Chunk
  BY <1>1, <1>4
<1>9. (q - 1) * Chunk < N
  BY <1>1, <1>4, <1>8
<1>. QED
  BY <1>4, <1>5, <1>6, <1>7, <1>9

\* A later chunk begins where an earlier one has ended.
LEMMA ChunksInOrder ==
  ASSUME NEW c \in Nat, NEW d \in Nat, c < d
  PROVE  c * Chunk \in Nat /\ d * Chunk \in Nat /\ c * Chunk + Chunk <= d * Chunk
<1>1. Chunk \in Nat
  BY ChunkPositive
<1>2. PICK k \in Nat : d = c + 1 + k
  <2>1. d - c - 1 \in Nat /\ d = c + 1 + (d - c - 1)
    OBVIOUS
  <2>. QED
    BY <2>1
<1>3. d * Chunk = c * Chunk + Chunk + k * Chunk
  BY <1>1, <1>2
<1>4. k * Chunk \in Nat /\ c * Chunk \in Nat
  BY <1>1, <1>2
<1>. QED
  BY <1>1, <1>3, <1>4

\* The chunks are intervals of the lines, not empty, and follow one another.
LEMMA ChunkExtends ==
  ASSUME NEW c \in 0 .. Chunks - 1
  PROVE  /\ c * Chunk \in Lines
         /\ Before(c) = 0 .. c * Chunk - 1
         /\ ChunkLines(c) = c * Chunk .. Least(c * Chunk + Chunk, N) - 1
         /\ Before(c + 1) = 0 .. Least(c * Chunk + Chunk, N) - 1
         /\ Before(c + 1) = Before(c) \cup ChunkLines(c)
         /\ Before(c) \cap ChunkLines(c) = {}
         /\ ChunkLines(c) \subseteq Lines
<1>1. /\ Chunk \in Nat \ {0} /\ N \in Nat \ {0} /\ c \in Nat
      /\ c * Chunk \in Nat /\ (c + 1) * Chunk = c * Chunk + Chunk
  BY ChunkPositive, LinesAssumption, ChunksCover
<1>2. c * Chunk < N
  <2>1. CASE c = Chunks - 1
    BY <2>1, ChunksCover
  <2>2. CASE c < Chunks - 1
    BY <2>2, <1>1, ChunksCover, ChunksInOrder
  <2>. QED
    BY <2>1, <2>2, ChunksCover
<1>. QED
  BY <1>1, <1>2 DEF Before, ChunkLines, Least, Lines

LEMMA BeforeEnds ==
  /\ Before(0) = {}
  /\ \A c \in Nat : c >= Chunks => Before(c) = Lines
<1>1. Chunk \in Nat \ {0} /\ N \in Nat \ {0} /\ 0 * Chunk = 0
  BY ChunkPositive, LinesAssumption
<1>2. ASSUME NEW c \in Nat, c >= Chunks PROVE N <= c * Chunk /\ c * Chunk \in Nat
  <2>1. CASE c = Chunks
    BY <2>1, <1>1, ChunksCover
  <2>2. CASE c > Chunks
    BY <2>2, <1>1, ChunksCover, ChunksInOrder
  <2>. QED
    BY <2>1, <2>2, <1>2, ChunksCover
<1>3. Before(0) = {}
  BY <1>1 DEF Before, Least
<1>. QED
  BY <1>1, <1>2, <1>3 DEF Before, Least, Lines

\* Two chunks share no line.
LEMMA ChunksDisjoint ==
  ASSUME NEW c \in 0 .. Chunks - 1, NEW d \in 0 .. Chunks - 1, c # d
  PROVE  ChunkLines(c) \cap ChunkLines(d) = {}
<1>1. c \in Nat /\ d \in Nat /\ Chunk \in Nat /\ N \in Nat
  BY ChunksCover, ChunkPositive, LinesAssumption
<1>2. CASE c < d
  BY <1>1, <1>2, ChunksInOrder DEF ChunkLines, Least
<1>3. CASE d < c
  BY <1>1, <1>3, ChunksInOrder DEF ChunkLines, Least
<1>. QED
  BY <1>1, <1>2, <1>3

LEMMA WorkersFinite ==
  IsFiniteSet(Workers) /\ Cardinality(Workers) \in Nat \ {0}
<1>1. Least(Procs, Chunks) \in Nat \ {0}
  BY ScanAssumption, ChunksCover DEF Least
<1>. QED
  <2>. DEFINE k == Least(Procs, Chunks)
  <2>1. k \in Nat \ {0} /\ Workers = 1 .. k
    BY <1>1 DEF Workers
  <2>. HIDE DEF k
  <2>2. IsFiniteSet(1 .. k) /\ Cardinality(1 .. k) = k
    BY <2>1, FS_Interval
  <2>. QED
    BY <2>1, <2>2

LEMMA LinesFinite ==
  /\ IsFiniteSet(Lines) /\ Cardinality(Lines) = N
  /\ \A S \in SUBSET Lines : /\ IsFiniteSet(S) /\ Cardinality(S) \in 0 .. N
                             /\ Cardinality(S) = N => S = Lines
<1>1. IsFiniteSet(Lines) /\ Cardinality(Lines) = N
  BY FS_Interval, LinesAssumption DEF Lines
<1>2. ASSUME NEW S \in SUBSET Lines
      PROVE  /\ IsFiniteSet(S) /\ Cardinality(S) \in 0 .. N
             /\ Cardinality(S) = N => S = Lines
  BY <1>1, FS_Subset, FS_CardinalityType, LinesAssumption
<1>. QED
  BY <1>1, <1>2

\* The lines before a chunk are lines, and hold every earlier chunk.
LEMMA BeforeHolds ==
  ASSUME NEW d \in Nat
  PROVE  /\ Before(d) \in SUBSET Lines
         /\ \A c \in 0 .. Chunks - 1 : c < d => ChunkLines(c) \subseteq Before(d)
<1>1. Chunk \in Nat /\ N \in Nat /\ Chunks \in Nat
  BY ChunkPositive, LinesAssumption, ChunksCover
<1>2. d * Chunk \in Nat
  BY <1>1
<1>3. ASSUME NEW c \in 0 .. Chunks - 1, c < d
      PROVE  ChunkLines(c) \subseteq Before(d)
  <2>1. c * Chunk \in Nat /\ c * Chunk + Chunk <= d * Chunk
    BY <1>1, <1>3, ChunksInOrder
  <2>. QED
    BY <1>1, <1>2, <2>1 DEF ChunkLines, Before, Least
<1>. QED
  BY <1>1, <1>2, <1>3 DEF Before, Least, Lines

\* A chunk has at most Chunk lines to miss.
LEMMA ChunkMisses ==
  ASSUME NEW c \in 0 .. Chunks - 1, NEW S \in SUBSET ChunkLines(c)
  PROVE  S \in SUBSET Lines /\ Cardinality(S) \in 0 .. Chunk
<1>1. Chunk \in Nat \ {0} /\ N \in Nat \ {0} /\ c * Chunk \in Nat
  BY ChunkPositive, LinesAssumption, ChunksCover
<1>. DEFINE low == c * Chunk
            high == Least(c * Chunk + Chunk, N) - 1
<1>2. low \in Nat /\ high \in Int /\ high - low + 1 <= Chunk
  BY <1>1 DEF Least
<1>3. ChunkLines(c) = low .. high
  BY DEF ChunkLines
<1>. HIDE DEF low, high
<1>4. IsFiniteSet(ChunkLines(c)) /\ Cardinality(ChunkLines(c)) <= Chunk
  <2>1. IsFiniteSet(low .. high)
    BY <1>2, FS_Interval
  <2>2. Cardinality(low .. high) = IF low > high THEN 0 ELSE high - low + 1
    BY <1>2, FS_Interval
  <2>. QED
    BY <1>1, <1>2, <1>3, <2>1, <2>2
<1>5. Cardinality(ChunkLines(c)) \in Nat
  BY <1>4, FS_CardinalityType
<1>6. S \in SUBSET Lines
  BY ChunkExtends
<1>7. Cardinality(S) \in Nat
  BY <1>6, LinesFinite
<1>8. Cardinality(S) <= Cardinality(ChunkLines(c))
  BY <1>4, FS_Subset
<1>. QED
  BY <1>1, <1>4, <1>5, <1>6, <1>7, <1>8

\* The cardinality of two disjoint finite sets, and of two disjoint sets of lines.
LEMMA FiniteDisjointSum ==
  ASSUME NEW S, IsFiniteSet(S), NEW T, IsFiniteSet(T), S \cap T = {}
  PROVE  /\ IsFiniteSet(S \cup T)
         /\ Cardinality(S) \in Nat /\ Cardinality(T) \in Nat
         /\ Cardinality(S \cup T) = Cardinality(S) + Cardinality(T)
<1>1. Cardinality(S) \in Nat /\ Cardinality(T) \in Nat
  BY FS_CardinalityType
<1>2. /\ IsFiniteSet(S \cup T)
      /\ Cardinality(S \cup T) = Cardinality(S) + Cardinality(T) - Cardinality(S \cap T)
  BY FS_Union
<1>3. Cardinality(S \cap T) = 0
  BY FS_EmptySet
<1>. QED
  BY <1>1, <1>2, <1>3

LEMMA DisjointSum ==
  ASSUME NEW S \in SUBSET Lines, NEW T \in SUBSET Lines, S \cap T = {}
  PROVE  Cardinality(S \cup T) = Cardinality(S) + Cardinality(T)
BY LinesFinite, FiniteDisjointSum

\* Hits and misses up to a line are all the lines up to it, so the scan prunes
\* where the misses fill the budget N - least.
LEMMA PrunesAtBudget ==
  ASSUME NEW found \in SUBSET Lines, NEW least \in Int, NEW i \in Lines
  PROVE  /\ MissesUpTo(found, i) \in 0 .. i + 1
         /\ HitsUpTo(found, i) = i + 1 - MissesUpTo(found, i)
         /\ Prunes(found, least, i) <=> MissesUpTo(found, i) >= N - least
<1>1. i \in Nat /\ N \in Nat /\ 0 .. i \in SUBSET Lines
  BY LinesAssumption DEF Lines
<1>2. IsFiniteSet(0 .. i) /\ Cardinality(0 .. i) = i + 1
  BY <1>1, FS_Interval
<1>. DEFINE hits == found \cap 0 .. i
            missed == (0 .. i) \ found
<1>3. hits \in SUBSET Lines /\ missed \in SUBSET Lines /\ hits \cap missed = {}
      /\ hits \cup missed = 0 .. i
  BY <1>1
<1>4. Cardinality(hits) \in Nat /\ Cardinality(missed) \in Nat
  BY <1>3, LinesFinite
<1>5. Cardinality(hits) + Cardinality(missed) = i + 1
  BY <1>2, <1>3, DisjointSum
<1>. QED
  BY <1>1, <1>4, <1>5 DEF HitsUpTo, MissesUpTo, Prunes

\* The misses grow line by line; a line that misses adds to them.
LEMMA MissesGrow ==
  ASSUME NEW found \in SUBSET Lines, NEW i \in Lines, NEW j \in Lines, j < i
  PROVE  /\ MissesUpTo(found, j) <= MissesUpTo(found, i)
         /\ i \notin found => MissesUpTo(found, j) < MissesUpTo(found, i)
<1>1. i \in Nat /\ j \in Nat /\ 0 .. i \in SUBSET Lines
  BY LinesAssumption DEF Lines
<1>. DEFINE small == (0 .. j) \ found
            large == (0 .. i) \ found
<1>2. small \in SUBSET large /\ large \in SUBSET Lines
  BY <1>1
<1>3. /\ IsFiniteSet(large) /\ Cardinality(large) \in Nat /\ Cardinality(small) \in Nat
  BY <1>2, LinesFinite
<1>4. /\ Cardinality(small) <= Cardinality(large)
      /\ Cardinality(large) = Cardinality(small) => large = small
  BY <1>2, <1>3, FS_Subset
<1>5. i \notin found => i \in large /\ i \notin small
  BY <1>1
<1>. QED
  BY <1>3, <1>4, <1>5 DEF MissesUpTo

-----------------------------------------------------------------------------
(***************************************************************************)
(* The inductive invariant                                                 *)
(***************************************************************************)
\* A worker holds a chunk it has not finished.
InFlight(w) == pc[w] \in {"check", "scan"}

\* The lines of the claimed chunks that no worker still holds.
Finished ==
  {i \in Before(next) :
     \A w \in Workers : InFlight(w) => i \notin ChunkLines(claim[w])}

\* A chunk in flight was claimed, exists, and has one owner.
OneOwner ==
  /\ \A w \in Workers : InFlight(w) => claim[w] < next /\ claim[w] < Chunks
  /\ \A v, w \in Workers : v # w /\ InFlight(v) /\ InFlight(w) => claim[v] # claim[w]

\* The shared counter holds the misses of the finished lines; after an abort it
\* lacks those of the chunks given up.
MissesCounted ==
  /\ misses <= Cardinality(Finished \ match)
  /\ ~ hitCtlFlag => misses = Cardinality(Finished \ match)

\* Every finished chunk has its own count on record.
ChunksRecorded ==
  ~ hitCtlFlag =>
    \A c \in 0 .. Chunks - 1 :
      c < next /\ (\A w \in Workers : InFlight(w) => claim[w] # c)
        => chunkMiss[c] = Misses(c)

\* Workers stop for one of three reasons: an abort, a full budget, no chunk left.
StopsForReason ==
  /\ stop /\ ~ hitCtlFlag => misses >= Budget
  /\ \A w \in Workers : pc[w] = "raise" => misses >= Budget
  /\ \A w \in Workers :
       pc[w] = "exit" /\ ~ hitCtlFlag => next >= Chunks \/ misses >= Budget

\* What holds in each phase of the parent.
Phases ==
  /\ parent = "start" =>
       /\ \A w \in Workers : pc[w] = "idle"
       /\ walk = 0 /\ seen = 0 /\ ~ hitCtlFlag
  /\ parent = "wait" =>
       /\ \A w \in Workers : pc[w] # "idle"
       /\ walk = 0 /\ seen = 0 /\ Budget > 0
  /\ parent = "walk" =>
       /\ \A w \in Workers : pc[w] = "exit"
       /\ ~ hitCtlFlag
       /\ walk <= Claimed
       /\ seen = Cardinality(Before(walk) \ match)
       /\ seen < Budget
  /\ parent = "done" =>
       \A w \in Workers : pc[w] \in {"idle", "exit"}

IInv ==
  /\ TypeOK
  /\ OneOwner
  /\ MissesCounted
  /\ ChunksRecorded
  /\ StopsForReason
  /\ Phases
  /\ ResultIsSequential

-----------------------------------------------------------------------------
LEMMA Basics ==
  /\ N \in Nat \ {0} /\ Chunk \in Nat \ {0} /\ Chunks \in Nat \ {0}
  /\ Workers # {}
<1>1. Workers # {}
  BY WorkersFinite, FS_EmptySet
<1>. QED
  BY <1>1, LinesAssumption, ChunkPositive, ChunksCover

LEMMA FinishedLines ==
  ASSUME TypeOK
  PROVE  /\ Finished \in SUBSET Lines /\ Finished \subseteq Before(next)
         /\ Cardinality(Finished \ match) \in 0 .. N
<1>1. Before(next) \in SUBSET Lines
  BY BeforeHolds DEF TypeOK
<1>2. Finished \in SUBSET Lines /\ Finished \subseteq Before(next)
  BY <1>1 DEF Finished
<1>3. Finished \ match \in SUBSET Lines
  BY <1>2
<1>. QED
  BY <1>2, <1>3, LinesFinite

LEMMA InitIInv == Init => IInv
<1>. SUFFICES ASSUME Init PROVE IInv
  OBVIOUS
<1>. USE Basics
<1>1. \A w \in Workers : ~ InFlight(w)
  BY DEF Init, InFlight
<1>2. TypeOK
  <2>1. 0 \in 0 .. N /\ 0 \in 0 .. Chunk /\ 0 \in 0 .. Chunks /\ 0 \in Nat
    OBVIOUS
  <2>2. chunkMiss \in [0 .. Chunks - 1 -> 0 .. Chunk]
    BY <2>1 DEF Init
  <2>3. /\ pc \in [Workers -> {"idle", "loop", "claim", "check", "scan", "raise", "exit"}]
        /\ claim \in [Workers -> Nat]
    BY <2>1 DEF Init
  <2>. QED
    BY <2>1, <2>2, <2>3 DEF Init, TypeOK
<1>3. OneOwner
  BY <1>1 DEF OneOwner
<1>4. MissesCounted
  <2>1. Finished = {}
    BY BeforeEnds DEF Finished, Init
  <2>2. Cardinality(Finished \ match) = 0
    BY <2>1, FS_EmptySet
  <2>. QED
    BY <2>2 DEF MissesCounted, Init
<1>5. ChunksRecorded /\ StopsForReason
  BY DEF ChunksRecorded, StopsForReason, Init
<1>6. Phases /\ ResultIsSequential
  BY DEF Phases, ResultIsSequential, Init
<1>. QED
  BY <1>2, <1>3, <1>4, <1>5, <1>6 DEF IInv

\* Only a waiting parent has workers between idle and exit.
LEMMA WorkersWhileWaiting ==
  ASSUME IInv, NEW w \in Workers, pc[w] \notin {"idle", "exit"}
  PROVE  parent = "wait"
BY DEF IInv, TypeOK, Phases

\* The parts of the invariant that a worker's step leaves alone.
LEMMA ParentLeftAlone ==
  ASSUME IInv, NEW w \in Workers, pc[w] \notin {"idle", "exit"},
         pc' \in [Workers -> {"idle", "loop", "claim", "check", "scan", "raise", "exit"}],
         \A v \in Workers : v # w => pc'[v] = pc[v],
         pc'[w] # "idle",
         UNCHANGED <<match, floor, parent, walk, seen>>
  PROVE  Phases' /\ ResultIsSequential'
<1>1. parent = "wait"
  BY WorkersWhileWaiting
<1>2. \A v \in Workers : pc'[v] # "idle"
  BY <1>1 DEF IInv, Phases
<1>. QED
  BY <1>1, <1>2 DEF IInv, Phases, ResultIsSequential, Budget

LEMMA LoadStopIInv ==
  ASSUME IInv, NEW w \in Workers, LoadStop(w)
  PROVE  IInv'
<1>. USE Basics DEF IInv
<1>1. \A v \in Workers : InFlight(v)' <=> InFlight(v)
  BY DEF LoadStop, InFlight, TypeOK
<1>2. TypeOK'
  BY DEF LoadStop, TypeOK, inputs
<1>3. OneOwner'
  BY <1>1 DEF OneOwner, LoadStop
<1>4. MissesCounted'
  <2>1. Finished' = Finished
    BY <1>1 DEF Finished, LoadStop
  <2>. QED
    BY <2>1 DEF MissesCounted, LoadStop, inputs
<1>5. ChunksRecorded'
  BY <1>1 DEF ChunksRecorded, LoadStop, Misses, inputs
<1>6. StopsForReason'
  BY DEF StopsForReason, LoadStop, TypeOK, Budget, inputs
<1>7. Phases' /\ ResultIsSequential'
  BY ParentLeftAlone DEF LoadStop, TypeOK, inputs
<1>. QED
  BY <1>2, <1>3, <1>4, <1>5, <1>6, <1>7

\* A claim moves the edge of the claimed lines and puts the new ones in flight,
\* so the finished lines stay the same.
LEMMA ClaimIInv ==
  ASSUME IInv, NEW w \in Workers, Claim(w)
  PROVE  IInv'
<1>. USE Basics DEF IInv
<1>0. /\ next \in Nat /\ next' = next + 1 /\ claim' = [claim EXCEPT ![w] = next]
      /\ pc' = [pc EXCEPT ![w] = IF next >= Chunks THEN "exit" ELSE "check"]
      /\ pc[w] = "claim"
      /\ claim \in [Workers -> Nat]
      /\ pc \in [Workers -> {"idle", "loop", "claim", "check", "scan", "raise", "exit"}]
  BY DEF Claim, TypeOK
<1>1. ~ InFlight(w) /\ (InFlight(w)' <=> next < Chunks) /\ claim'[w] = next
  BY <1>0 DEF InFlight
<1>2. \A v \in Workers : v # w => (InFlight(v)' <=> InFlight(v)) /\ claim'[v] = claim[v]
  BY <1>0 DEF InFlight
<1>3. TypeOK'
  BY <1>0 DEF Claim, TypeOK, inputs
<1>4. OneOwner'
  BY <1>0, <1>1, <1>2 DEF OneOwner
<1>5. Finished' = Finished
  <2>1. CASE next < Chunks
    <3>1. next \in 0 .. Chunks - 1
      BY <1>0, <2>1
    <3>2. /\ Before(next + 1) = Before(next) \cup ChunkLines(next)
          /\ Before(next) \cap ChunkLines(next) = {}
      BY <3>1, ChunkExtends
    <3>3. Finished' = {i \in Before(next + 1) :
                        \A v \in Workers : InFlight(v)' => i \notin ChunkLines(claim'[v])}
      BY <1>0 DEF Finished
    <3>4. ASSUME NEW i
          PROVE  i \in Finished' <=> i \in Finished
      <4>1. i \in Finished' <=>
              /\ i \in Before(next) \cup ChunkLines(next)
              /\ i \notin ChunkLines(next)
              /\ \A v \in Workers \ {w} : InFlight(v) => i \notin ChunkLines(claim[v])
        BY <3>2, <3>3, <1>1, <1>2, <2>1
      <4>2. i \in Finished <=>
              /\ i \in Before(next)
              /\ \A v \in Workers \ {w} : InFlight(v) => i \notin ChunkLines(claim[v])
        BY <1>1 DEF Finished
      <4>. QED
        BY <3>2, <4>1, <4>2
    <3>. QED
      BY <3>4
  <2>2. CASE next >= Chunks
    <3>1. Before(next + 1) = Before(next)
      BY <1>0, <2>2, BeforeEnds
    <3>2. ~ InFlight(w)'
      BY <1>0, <1>1, <2>2
    <3>. QED
      BY <1>0, <1>1, <1>2, <3>1, <3>2 DEF Finished
  <2>. QED
    BY <1>0, <2>1, <2>2
<1>6. MissesCounted'
  BY <1>5 DEF MissesCounted, Claim, inputs
<1>7. ChunksRecorded'
  BY <1>0, <1>1, <1>2 DEF ChunksRecorded, Claim, Misses, inputs
<1>8. StopsForReason'
  BY <1>0 DEF StopsForReason, Claim, Budget, inputs
<1>9. Phases' /\ ResultIsSequential'
  BY <1>0, ParentLeftAlone DEF Claim, inputs
<1>. QED
  BY <1>3, <1>4, <1>6, <1>7, <1>8, <1>9

\* A worker that sees the abort gives its chunk up, and says so.
LEMMA CheckAbortIInv ==
  ASSUME IInv, NEW w \in Workers, CheckAbort(w)
  PROVE  IInv'
<1>. USE Basics DEF IInv
<1>0. /\ pc' = [pc EXCEPT ![w] = IF aborted THEN "exit" ELSE "scan"]
      /\ pc[w] = "check" /\ claim' = claim /\ next' = next /\ match' = match
      /\ pc \in [Workers -> {"idle", "loop", "claim", "check", "scan", "raise", "exit"}]
  BY DEF CheckAbort, TypeOK, inputs
<1>1. \A v \in Workers : InFlight(v)' => InFlight(v)
  BY <1>0 DEF InFlight
<1>2. ~ hitCtlFlag' => /\ ~ aborted /\ ~ hitCtlFlag /\ (stop' => stop)
                       /\ \A v \in Workers : InFlight(v)' <=> InFlight(v)
  BY <1>0 DEF InFlight, CheckAbort
<1>3. TypeOK'
  BY <1>0 DEF CheckAbort, TypeOK, inputs
<1>4. OneOwner'
  BY <1>0, <1>1 DEF OneOwner
<1>5. MissesCounted'
  <2>1. Finished \subseteq Finished'
    BY <1>0, <1>1 DEF Finished
  <2>2. ~ hitCtlFlag' => Finished' = Finished
    BY <1>0, <1>2 DEF Finished
  <2>3. Finished' \ match' \in SUBSET Lines /\ Finished \ match \in SUBSET (Finished' \ match')
    BY <1>0, <1>3, <2>1, BeforeHolds DEF Finished, TypeOK
  <2>4. /\ Cardinality(Finished' \ match') \in Nat /\ Cardinality(Finished \ match) \in Nat
        /\ Cardinality(Finished \ match) <= Cardinality(Finished' \ match')
    BY <2>3, LinesFinite, FS_Subset
  <2>5. misses' = misses /\ misses \in Int
    BY DEF CheckAbort, TypeOK
  <2>. QED
    BY <1>0, <1>2, <2>2, <2>4, <2>5 DEF MissesCounted
<1>6. ChunksRecorded'
  BY <1>0, <1>2 DEF ChunksRecorded, CheckAbort, Misses
<1>7. StopsForReason'
  BY <1>0, <1>2 DEF StopsForReason, CheckAbort, Budget, inputs
<1>8. Phases' /\ ResultIsSequential'
  BY <1>0, ParentLeftAlone DEF CheckAbort, inputs
<1>. QED
  BY <1>3, <1>4, <1>5, <1>6, <1>7, <1>8

\* A scanned chunk joins the finished lines, and its misses the counter.
LEMMA ScanChunkIInv ==
  ASSUME IInv, NEW w \in Workers, ScanChunk(w)
  PROVE  IInv'
<1>. USE Basics DEF IInv
<1>. DEFINE c == claim[w]
<1>0. /\ pc' = [pc EXCEPT ![w] = IF misses' >= Budget THEN "raise" ELSE "loop"]
      /\ pc[w] = "scan" /\ claim' = claim /\ next' = next /\ match' = match
      /\ next \in Nat /\ misses \in Nat
      /\ misses' = misses + Misses(c)
      /\ chunkMiss' = [chunkMiss EXCEPT ![c] = Misses(c)]
      /\ chunkMiss \in [0 .. Chunks - 1 -> 0 .. Chunk]
      /\ pc \in [Workers -> {"idle", "loop", "claim", "check", "scan", "raise", "exit"}]
  BY DEF ScanChunk, TypeOK, inputs
<1>1. InFlight(w) /\ ~ InFlight(w)'
  BY <1>0 DEF InFlight
<1>2. \A v \in Workers : v # w => (InFlight(v)' <=> InFlight(v))
  BY <1>0 DEF InFlight
<1>3. c \in 0 .. Chunks - 1 /\ c < next
  BY <1>1 DEF OneOwner, TypeOK
<1>4. Misses(c) \in 0 .. Chunk /\ ChunkLines(c) \ match \in SUBSET Lines
  BY <1>3, ChunkMisses DEF Misses
<1>5. \A v \in Workers : v # w /\ InFlight(v) => claim[v] \in 0 .. Chunks - 1 /\ claim[v] # c
  BY <1>1 DEF OneOwner, TypeOK
<1>6. OneOwner'
  BY <1>0, <1>1, <1>2 DEF OneOwner
<1>7. Finished' = Finished \cup ChunkLines(c) /\ Finished \cap ChunkLines(c) = {}
  <2>1. Finished \cap ChunkLines(c) = {}
    BY <1>1 DEF Finished
  <2>2. ChunkLines(c) \subseteq Before(next)
    BY <1>0, <1>3, BeforeHolds
  <2>3. \A v \in Workers : v # w /\ InFlight(v) => ChunkLines(c) \cap ChunkLines(claim[v]) = {}
    BY <1>3, <1>5, ChunksDisjoint
  <2>4. Finished' = {i \in Before(next) :
                      \A v \in Workers : v # w /\ InFlight(v) => i \notin ChunkLines(claim[v])}
    BY <1>0, <1>1, <1>2 DEF Finished
  <2>5. Finished \cup ChunkLines(c) \subseteq Finished'
    BY <2>2, <2>3, <2>4 DEF Finished
  <2>6. Finished' \subseteq Finished \cup ChunkLines(c)
    BY <2>4 DEF Finished
  <2>. QED
    BY <2>1, <2>5, <2>6
<1>8. Cardinality(Finished' \ match') = Cardinality(Finished \ match) + Misses(c)
  <2>. DEFINE old == Finished \ match
              added == ChunkLines(c) \ match
  <2>1. Finished' \ match' = old \cup added /\ old \cap added = {}
    BY <1>0, <1>7
  <2>2. old \in SUBSET Lines /\ added \in SUBSET Lines
    BY <1>4, FinishedLines
  <2>. QED
    BY <2>1, <2>2, DisjointSum DEF Misses
<1>9. MissesCounted'
  BY <1>0, <1>4, <1>8, FinishedLines DEF MissesCounted, ScanChunk
<1>10. TypeOK'
  <2>1. Before(next) \in SUBSET Lines
    BY <1>0, BeforeHolds
  <2>2. Finished' \ match' \in SUBSET Lines
    BY <1>0, <2>1 DEF Finished
  <2>3. misses' \in 0 .. N
    BY <1>0, <1>4, <1>9, <2>2, LinesFinite DEF MissesCounted
  <2>. QED
    BY <1>0, <1>4, <2>3 DEF ScanChunk, TypeOK, inputs
<1>11. ChunksRecorded'
  <2>1. ASSUME ~ hitCtlFlag', NEW d \in 0 .. Chunks - 1, d < next,
               \A v \in Workers : InFlight(v)' => claim'[v] # d
        PROVE  chunkMiss'[d] = Misses(d)
    <3>1. CASE d = c
      BY <1>0, <1>3, <3>1
    <3>2. CASE d # c
      <4>1. \A v \in Workers : InFlight(v) => claim[v] # d
        BY <1>0, <1>2, <2>1, <3>2
      <4>2. ~ hitCtlFlag
        BY <2>1 DEF ScanChunk
      <4>3. chunkMiss[d] = Misses(d)
        BY <2>1, <4>1, <4>2 DEF ChunksRecorded
      <4>. QED
        BY <1>0, <3>2, <4>3
    <3>. QED
      BY <3>1, <3>2
  <2>. QED
    BY <1>0, <2>1 DEF ChunksRecorded, Misses
<1>12. StopsForReason'
  <2>1. misses' >= misses /\ Budget' = Budget /\ Budget \in Int /\ misses' \in Int
    BY <1>0, <1>4 DEF ScanChunk, Budget, TypeOK, inputs
  <2>2. pc'[w] = "raise" => misses' >= Budget
    BY <1>0
  <2>. QED
    BY <1>0, <2>1, <2>2 DEF StopsForReason, ScanChunk
<1>13. Phases' /\ ResultIsSequential'
  BY <1>0, ParentLeftAlone DEF ScanChunk, inputs
<1>. QED
  BY <1>6, <1>9, <1>10, <1>11, <1>12, <1>13

LEMMA RaiseStopIInv ==
  ASSUME IInv, NEW w \in Workers, RaiseStop(w)
  PROVE  IInv'
<1>. USE Basics DEF IInv
<1>1. \A v \in Workers : InFlight(v)' <=> InFlight(v)
  BY DEF RaiseStop, InFlight, TypeOK
<1>2. TypeOK'
  BY DEF RaiseStop, TypeOK, inputs
<1>3. OneOwner'
  BY <1>1 DEF OneOwner, RaiseStop
<1>4. MissesCounted'
  <2>1. Finished' = Finished
    BY <1>1 DEF Finished, RaiseStop
  <2>. QED
    BY <2>1 DEF MissesCounted, RaiseStop, inputs
<1>5. ChunksRecorded'
  BY <1>1 DEF ChunksRecorded, RaiseStop, Misses, inputs
<1>6. StopsForReason'
  BY DEF StopsForReason, RaiseStop, TypeOK, Budget, inputs
<1>7. Phases' /\ ResultIsSequential'
  BY ParentLeftAlone DEF RaiseStop, TypeOK, inputs
<1>. QED
  BY <1>2, <1>3, <1>4, <1>5, <1>6, <1>7

-----------------------------------------------------------------------------
(***************************************************************************)
(* The parent                                                              *)
(***************************************************************************)
LEMMA AbortIInv == IInv /\ Abort => IInv'
<1>. SUFFICES ASSUME IInv, Abort PROVE IInv'
  OBVIOUS
<1>. USE DEF IInv, Abort, inputs, workerVars
<1>1. TypeOK'
  BY DEF TypeOK
<1>2. \A w \in Workers : InFlight(w)' <=> InFlight(w)
  BY DEF InFlight
<1>3. Finished' = Finished
  BY <1>2 DEF Finished
<1>4. OneOwner' /\ MissesCounted' /\ ChunksRecorded'
  BY <1>2, <1>3 DEF OneOwner, MissesCounted, ChunksRecorded, Misses
<1>5. StopsForReason' /\ Phases' /\ ResultIsSequential'
  BY DEF StopsForReason, Phases, ResultIsSequential, Budget, Claimed
<1>. QED
  BY <1>1, <1>4, <1>5

\* Steps of the parent leave what the workers share alone, once they have run.
LEMMA WorkersLeftAlone ==
  ASSUME IInv, UNCHANGED <<inputs, workerVars>>
  PROVE  OneOwner' /\ MissesCounted' /\ ChunksRecorded' /\ StopsForReason'
<1>. USE DEF IInv, inputs, workerVars
<1>1. \A w \in Workers : InFlight(w)' <=> InFlight(w)
  BY DEF InFlight
<1>2. Finished' = Finished
  BY <1>1 DEF Finished
<1>3. OneOwner' /\ MissesCounted' /\ ChunksRecorded'
  BY <1>1, <1>2 DEF OneOwner, MissesCounted, ChunksRecorded, Misses
<1>. QED
  BY <1>3 DEF StopsForReason, Budget

\* With nothing to spare the sequential scan ends on line 0.
LEMMA SeqPruneIInv == IInv /\ SeqPrune => IInv'
<1>. SUFFICES ASSUME IInv, SeqPrune PROVE IInv'
  OBVIOUS
<1>. USE Basics DEF IInv
<1>0. \A w \in Workers : pc[w] = "idle" /\ pc'[w] = "idle" /\ ~ InFlight(w) /\ ~ InFlight(w)'
  BY DEF SeqPrune, Phases, InFlight
<1>1. TypeOK'
  BY DEF SeqPrune, TypeOK, inputs
<1>2. Finished' = Finished
  BY <1>0 DEF Finished, SeqPrune
<1>3. ~ hitCtlFlag
  BY DEF SeqPrune, Phases
<1>4. OneOwner' /\ MissesCounted'
  BY <1>0, <1>2, <1>3 DEF OneOwner, MissesCounted, SeqPrune, inputs
<1>5. ChunksRecorded'
  BY <1>0, <1>3 DEF ChunksRecorded, SeqPrune, Misses, inputs
<1>6. StopsForReason'
  BY <1>0, <1>3 DEF StopsForReason, SeqPrune, Budget, inputs
<1>7. Phases'
  BY <1>0 DEF Phases, SeqPrune
<1>8. ResultIsSequential'
  <2>. SUFFICES ASSUME ~ hitCtlFlag' PROVE IsSeqFloor(match, floor, result')
    BY DEF ResultIsSequential, SeqPrune, inputs
  <2>1. 0 \in Lines /\ match \in SUBSET Lines /\ floor \in Int /\ Budget <= 0
    BY DEF Lines, TypeOK, SeqPrune
  <2>2. Prunes(match, floor, 0)
    BY <2>1, PrunesAtBudget DEF Budget
  <2>3. 0 .. 0 = {0} /\ 0 .. 0 - 1 = {}
    OBVIOUS
  <2>4. HitsUpTo(match, 0) = IF 0 \in match THEN 1 ELSE 0
    <3>1. CASE 0 \in match
      <4>1. match \cap 0 .. 0 = {0}
        BY <2>3, <3>1
      <4>. QED
        BY <3>1, <4>1, FS_Singleton DEF HitsUpTo
    <3>2. CASE 0 \notin match
      <4>1. match \cap 0 .. 0 = {}
        BY <2>3, <3>2
      <4>. QED
        BY <3>2, <4>1, FS_EmptySet DEF HitsUpTo
    <3>. QED
      BY <3>1, <3>2
  <2>5. result' = HitsUpTo(match, 0)
    BY <2>4 DEF SeqPrune
  <2>. QED
    BY <2>1, <2>2, <2>3, <2>5 DEF IsSeqFloor
<1>. QED
  BY <1>1, <1>4, <1>5, <1>6, <1>7, <1>8

LEMMA StartWorkersIInv == IInv /\ StartWorkers => IInv'
<1>. SUFFICES ASSUME IInv, StartWorkers PROVE IInv'
  OBVIOUS
<1>. USE Basics DEF IInv
<1>0. \A w \in Workers : pc[w] = "idle" /\ pc'[w] = "loop" /\ ~ InFlight(w) /\ ~ InFlight(w)'
  BY DEF StartWorkers, Phases, InFlight
<1>1. TypeOK'
  BY DEF StartWorkers, TypeOK, inputs
<1>2. Finished' = Finished
  BY <1>0 DEF Finished, StartWorkers
<1>3. OneOwner' /\ MissesCounted'
  BY <1>0, <1>2 DEF OneOwner, MissesCounted, StartWorkers, inputs
<1>4. ChunksRecorded'
  BY <1>0 DEF ChunksRecorded, StartWorkers, Misses, inputs
<1>5. StopsForReason'
  BY <1>0 DEF StopsForReason, StartWorkers, Budget, inputs
<1>6. Phases' /\ ResultIsSequential'
  BY <1>0 DEF Phases, StartWorkers, ResultIsSequential, Budget, inputs
<1>. QED
  BY <1>1, <1>3, <1>4, <1>5, <1>6

\* When no worker is left, the finished lines are those of the chunks claimed,
\* and unless an abort was seen their misses are counted chunk by chunk.
LEMMA AllFinished ==
  ASSUME IInv, \A w \in Workers : pc[w] = "exit", ~ hitCtlFlag
  PROVE  /\ misses = Cardinality(Before(next) \ match)
         /\ \A c \in 0 .. Chunks - 1 : c < next => chunkMiss[c] = Misses(c)
         /\ next >= Chunks \/ misses >= Budget
<1>. USE Basics DEF IInv
<1>1. \A w \in Workers : ~ InFlight(w)
  BY DEF InFlight
<1>2. Finished = Before(next)
  BY <1>1 DEF Finished
<1>3. next >= Chunks \/ misses >= Budget
  BY DEF StopsForReason
<1>. QED
  BY <1>1, <1>2, <1>3 DEF MissesCounted, ChunksRecorded

LEMMA WaitIInv == IInv /\ Wait => IInv'
<1>. SUFFICES ASSUME IInv, Wait PROVE IInv'
  OBVIOUS
<1>. USE Basics DEF IInv
<1>1. TypeOK'
  BY DEF Wait, TypeOK, inputs, workerVars
<1>2. OneOwner' /\ MissesCounted' /\ ChunksRecorded' /\ StopsForReason'
  BY WorkersLeftAlone DEF Wait
<1>3. Cardinality(Before(0) \ match) = 0
  <2>1. Before(0) \ match = {}
    BY BeforeEnds
  <2>. QED
    BY <2>1, FS_EmptySet
<1>4. walk = 0 /\ seen = 0 /\ Budget > 0 /\ 0 <= Claimed
  BY DEF Wait, Phases, Claimed, Least, TypeOK
<1>5. Phases'
  BY <1>3, <1>4 DEF Phases, Wait, inputs, workerVars, Budget, Claimed
<1>6. ResultIsSequential'
  BY DEF ResultIsSequential, Wait, inputs, workerVars
<1>. QED
  BY <1>1, <1>2, <1>5, <1>6

\* What the parent's walk may rely on at a chunk it has not walked past.
LEMMA WalkStep ==
  ASSUME IInv, parent = "walk", walk < Claimed
  PROVE  /\ walk \in 0 .. Chunks - 1
         /\ chunkMiss[walk] = Misses(walk)
         /\ seen = Cardinality(Before(walk) \ match)
         /\ seen + Misses(walk) = Cardinality(Before(walk + 1) \ match)
<1>. USE Basics DEF IInv
<1>1. walk \in 0 .. Chunks - 1 /\ walk < next
  BY DEF Claimed, Least, TypeOK
<1>2. seen = Cardinality(Before(walk) \ match) /\ chunkMiss[walk] = Misses(walk)
  BY <1>1, AllFinished DEF Phases
<1>. DEFINE old == Before(walk) \ match
            added == ChunkLines(walk) \ match
<1>3. old \cap added = {} /\ Before(walk + 1) \ match = old \cup added
  BY <1>1, ChunkExtends
<1>4. old \in SUBSET Lines /\ added \in SUBSET Lines
  BY <1>1, ChunkExtends, BeforeHolds
<1>. QED
  BY <1>1, <1>2, <1>3, <1>4, DisjointSum DEF Misses

LEMMA WalkPastIInv == IInv /\ WalkPast => IInv'
<1>. SUFFICES ASSUME IInv, WalkPast PROVE IInv'
  OBVIOUS
<1>. USE Basics DEF IInv
<1>1. /\ walk \in 0 .. Chunks - 1 /\ walk' = walk + 1 /\ walk < Claimed
      /\ seen' = Cardinality(Before(walk + 1) \ match) /\ seen' < Budget
  BY WalkStep DEF WalkPast
<1>2. seen' \in 0 .. N
  <2>1. Before(walk + 1) \ match \in SUBSET Lines
    BY <1>1, BeforeHolds
  <2>. QED
    BY <1>1, <2>1, LinesFinite
<1>3. TypeOK'
  BY <1>1, <1>2 DEF WalkPast, TypeOK, inputs, workerVars
<1>4. OneOwner' /\ MissesCounted' /\ ChunksRecorded' /\ StopsForReason'
  BY WorkersLeftAlone DEF WalkPast
<1>5. walk' <= Claimed
  BY <1>1 DEF Claimed, Least, TypeOK
<1>6. Phases'
  BY <1>1, <1>5 DEF Phases, WalkPast, inputs, workerVars, Budget, Claimed
<1>7. ResultIsSequential'
  BY DEF ResultIsSequential, WalkPast, inputs, workerVars
<1>. QED
  BY <1>3, <1>4, <1>6, <1>7

\* The line with the budget-th miss is where the sequential scan prunes.
LEMMA PruneInChunkIInv == IInv /\ PruneInChunk => IInv'
<1>. SUFFICES ASSUME IInv, PruneInChunk PROVE IInv'
  OBVIOUS
<1>. USE Basics DEF IInv
<1>1. PICK i \in ChunkLines(walk) : IsLastMiss(i) /\ result' = i + 1 - Budget
  BY DEF PruneInChunk
<1>2. /\ walk \in 0 .. Chunks - 1 /\ seen = Cardinality(Before(walk) \ match)
      /\ match \in SUBSET Lines /\ floor \in Int /\ Budget \in Int /\ N - floor = Budget
  BY WalkStep DEF PruneInChunk, TypeOK, Budget
<1>3. i \in Lines /\ i \notin match
  BY <1>1, <1>2, ChunkExtends DEF IsLastMiss
<1>4. MissesUpTo(match, i) = Budget
  <2>. DEFINE old == Before(walk) \ match
              added == (walk * Chunk .. i) \ match
  <2>1. /\ walk * Chunk \in Lines /\ Before(walk) = 0 .. walk * Chunk - 1
        /\ i \in walk * Chunk .. Least(walk * Chunk + Chunk, N) - 1
    BY <1>1, <1>2, ChunkExtends
  <2>2. walk * Chunk \in Nat /\ i \in Nat /\ walk * Chunk <= i /\ i < N
    BY <1>3, <2>1 DEF Lines
  <2>3. (0 .. i) \ match = old \cup added /\ old \cap added = {}
    BY <2>1, <2>2
  <2>4. old \in SUBSET Lines /\ added \in SUBSET Lines
    BY <2>1, <2>2 DEF Lines
  <2>5. seen + Cardinality(added) = Budget
    BY <1>1 DEF IsLastMiss
  <2>. QED
    BY <1>2, <2>3, <2>4, <2>5, DisjointSum DEF MissesUpTo
<1>5. Prunes(match, floor, i) /\ result' = HitsUpTo(match, i)
  BY <1>1, <1>2, <1>3, <1>4, PrunesAtBudget
<1>6. ASSUME NEW j \in 0 .. i - 1
      PROVE  ~ Prunes(match, floor, j)
  <2>1. j \in Lines /\ j < i
    BY <1>3 DEF Lines
  <2>2. MissesUpTo(match, j) < Budget
    BY <1>2, <1>3, <1>4, <2>1, MissesGrow
  <2>3. MissesUpTo(match, j) \in Int
    BY <1>2, <2>1, PrunesAtBudget
  <2>. QED
    BY <1>2, <2>1, <2>2, <2>3, PrunesAtBudget
<1>7. TypeOK'
  <2>1. HitsUpTo(match, i) \in 0 .. N
    <3>1. match \cap 0 .. i \in SUBSET Lines
      BY <1>2
    <3>. QED
      BY <3>1, LinesFinite DEF HitsUpTo
  <2>. QED
    BY <1>5, <2>1 DEF PruneInChunk, TypeOK, inputs, workerVars
<1>8. OneOwner' /\ MissesCounted' /\ ChunksRecorded' /\ StopsForReason'
  BY WorkersLeftAlone DEF PruneInChunk
<1>9. Phases'
  BY DEF Phases, PruneInChunk, workerVars
<1>10. ResultIsSequential'
  BY <1>3, <1>5, <1>6 DEF ResultIsSequential, IsSeqFloor, PruneInChunk, inputs
<1>. QED
  BY <1>7, <1>8, <1>9, <1>10

\* A walk that ends before the budget is full has seen every line.
LEMMA WalkEndIInv == IInv /\ WalkEnd => IInv'
<1>. SUFFICES ASSUME IInv, WalkEnd PROVE IInv'
  OBVIOUS
<1>. USE Basics DEF IInv
<1>1. /\ walk = Claimed /\ seen = Cardinality(Before(walk) \ match) /\ seen < Budget
      /\ match \in SUBSET Lines /\ floor \in Int /\ Budget = N - floor /\ seen \in Nat
      /\ next \in Nat
  BY DEF WalkEnd, Phases, TypeOK, Claimed, Least, Budget
<1>2. next >= Chunks
  <2>1. SUFFICES ASSUME next < Chunks PROVE FALSE
    BY <1>1
  <2>2. walk = next
    BY <1>1, <2>1 DEF Claimed, Least
  <2>3. misses = seen /\ misses >= Budget
    BY <1>1, <2>1, <2>2, AllFinished DEF WalkEnd, Phases
  <2>. QED
    BY <1>1, <2>3
<1>3. seen = Cardinality(Lines \ match)
  <2>1. walk = Chunks
    BY <1>1, <1>2 DEF Claimed, Least
  <2>2. Before(walk) = Lines
    BY <2>1, BeforeEnds
  <2>. QED
    BY <1>1, <2>2
<1>4. result' = SeqCount(match)
  <2>1. /\ match \cup (Lines \ match) = Lines /\ match \cap (Lines \ match) = {}
        /\ Lines \ match \in SUBSET Lines
    BY <1>1
  <2>2. N = Cardinality(match) + Cardinality(Lines \ match)
    BY <1>1, <2>1, DisjointSum, LinesFinite
  <2>3. Cardinality(match) \in Nat
    BY <1>1, LinesFinite
  <2>. QED
    BY <1>1, <1>3, <2>2, <2>3 DEF WalkEnd, SeqCount
<1>5. ASSUME NEW i \in Lines
      PROVE  ~ Prunes(match, floor, i)
  <2>1. i \in Nat /\ i < N
    BY DEF Lines
  <2>2. (0 .. i) \ match \in SUBSET (Lines \ match) /\ Lines \ match \in SUBSET Lines
    BY <2>1 DEF Lines
  <2>3. MissesUpTo(match, i) <= seen
    BY <1>3, <2>2, LinesFinite, FS_Subset DEF MissesUpTo
  <2>4. MissesUpTo(match, i) \in Int
    BY <1>1, PrunesAtBudget
  <2>. QED
    BY <1>1, <2>3, <2>4, PrunesAtBudget
<1>6. TypeOK'
  <2>1. result' \in 0 .. N
    BY <1>1, <1>4, LinesFinite DEF SeqCount
  <2>. QED
    BY <2>1 DEF WalkEnd, TypeOK, inputs, workerVars
<1>7. OneOwner' /\ MissesCounted' /\ ChunksRecorded' /\ StopsForReason'
  BY WorkersLeftAlone DEF WalkEnd
<1>8. Phases'
  BY DEF Phases, WalkEnd, workerVars
<1>9. ResultIsSequential'
  BY <1>4, <1>5 DEF ResultIsSequential, IsSeqFloor, WalkEnd, inputs
<1>. QED
  BY <1>6, <1>7, <1>8, <1>9

-----------------------------------------------------------------------------
(***************************************************************************)
(* The theorems                                                            *)
(***************************************************************************)
LEMMA StutterIInv == IInv /\ UNCHANGED vars => IInv'
<1>. SUFFICES ASSUME IInv, UNCHANGED vars PROVE IInv'
  OBVIOUS
<1>. USE DEF vars, inputs, workerVars
<1>1. OneOwner' /\ MissesCounted' /\ ChunksRecorded' /\ StopsForReason'
  BY WorkersLeftAlone
<1>2. TypeOK' /\ Phases' /\ ResultIsSequential'
  BY DEF IInv, TypeOK, Phases, ResultIsSequential, Budget, Claimed
<1>. QED
  BY <1>1, <1>2 DEF IInv

\* What the workers have claimed, finished and counted fits together in every
\* reachable state (scan.go 166-226).
THEOREM FloorInvariant == Spec => []IInv
<1>1. Init => IInv
  BY InitIInv
<1>2. IInv /\ [Next]_vars => IInv'
  <2>. SUFFICES ASSUME IInv, [Next]_vars PROVE IInv'
    OBVIOUS
  <2>1. CASE Abort
    BY <2>1, AbortIInv
  <2>2. CASE ParentStep
    BY <2>2, SeqPruneIInv, StartWorkersIInv, WaitIInv, WalkPastIInv, PruneInChunkIInv,
       WalkEndIInv DEF ParentStep
  <2>3. ASSUME NEW w \in Workers, WorkerStep(w) PROVE IInv'
    BY <2>3, LoadStopIInv, ClaimIInv, CheckAbortIInv, ScanChunkIInv, RaiseStopIInv
       DEF WorkerStep
  <2>4. CASE UNCHANGED vars
    BY <2>4, StutterIInv
  <2>. QED
    BY <2>1, <2>2, <2>3, <2>4 DEF Next
<1>. QED
  BY <1>1, <1>2, PTL DEF Spec

\* The parallel scan returns what the sequential scan returns, for any number of
\* lines and workers, unless a worker saw the abort (scan.go 147-155).
THEOREM FloorIsSequential == Spec => []ResultIsSequential
<1>1. IInv => ResultIsSequential
  BY DEF IInv
<1>. QED
  BY <1>1, FloorInvariant, PTL

\* The parent walks only over chunks that were scanned, and they hold the miss it
\* looks for unless they are all the chunks (scan.go 151-153, 208-210).
THEOREM FloorClaimsSound == Spec => []ClaimsSound
<1>1. IInv => ClaimsSound
  <2>. SUFFICES ASSUME IInv PROVE ClaimsSound
    OBVIOUS
  <2>. USE Basics DEF IInv
  <2>1. ASSUME parent = "walk"
        PROVE  /\ \A c \in 0 .. Claimed - 1 : chunkMiss[c] = Misses(c)
               /\ Claimed < Chunks => misses >= Budget
    <3>1. /\ \A c \in 0 .. Chunks - 1 : c < next => chunkMiss[c] = Misses(c)
          /\ next >= Chunks \/ misses >= Budget
      BY <2>1, AllFinished DEF Phases
    <3>. QED
      BY <3>1 DEF Claimed, Least, TypeOK
  <2>. QED
    BY <2>1 DEF ClaimsSound, ClaimedArePrefix
<1>. QED
  BY <1>1, FloorInvariant, PTL

=============================================================================
