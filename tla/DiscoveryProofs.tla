---------------------------- MODULE DiscoveryProofs ----------------------------
(***************************************************************************)
(* For any number of lines, any candidates in the stages and every         *)
(* schedule: Discover returns and writes what the stages would one after   *)
(* another, the count it reports is a true one, and it has settled for     *)
(* nothing less than what a stage has seen.                                *)
(*                                                                         *)
(* For any input, any caps and any candidates: what the other entry points *)
(* make of it (Suggest) is sampled, tiled and listed as they promise.      *)
(***************************************************************************)
EXTENDS Discovery, Suggest, FiniteSetTheorems, SequenceTheorems, WellFoundedInduction, TLAPS

-----------------------------------------------------------------------------
(***************************************************************************)
(* Numbers, sets of lines, and the pruning scan                            *)
(***************************************************************************)
LEMMA LeastOf ==
  ASSUME NEW S \in SUBSET Nat, S # {}
  PROVE  \E m \in S : \A k \in S : m <= k
<1>. DEFINE R == {ss \in Nat \X Nat : ss[1] < ss[2]}
<1>1. IsWellFoundedOn(R, Nat)
  BY NatLessThanWellFounded DEF OpToRel
<1>. HIDE DEF R
<1>2. PICK m \in S : \A k \in S : ~ (<<k, m>> \in R)
  BY <1>1, WFMin
<1>3. \A k \in S : m <= k
  <2>. TAKE k \in S
  <2>1. k \in Nat /\ m \in Nat /\ <<k, m>> \notin R
    BY <1>2
  <2>2. <<k, m>> \in R <=> k < m
    BY <2>1 DEF R
  <2>. QED
    BY <2>1, <2>2
<1>. QED
  BY <1>3

\* Induction, for a set of numbers.
LEMMA UpFromZero ==
  ASSUME NEW S, 0 \in S, \A n \in Nat : n \in S => n + 1 \in S
  PROVE  Nat \subseteq S
<1>1. SUFFICES ASSUME Nat \ S # {} PROVE FALSE
  OBVIOUS
<1>2. PICK m \in Nat \ S : \A k \in Nat \ S : m <= k
  BY <1>1, LeastOf
<1>3. m # 0 /\ m - 1 \in Nat /\ m - 1 \notin Nat \ S
  BY <1>2
<1>. QED
  BY <1>2, <1>3

LEMMA LinesCounted ==
  ASSUME NEW S \in SUBSET Lines
  PROVE  IsFiniteSet(S) /\ Cardinality(S) \in 0 .. N
<1>1. IsFiniteSet(Lines) /\ Cardinality(Lines) = N
  BY FS_Interval, LinesAssumption DEF Lines
<1>. QED
  BY <1>1, FS_Subset, FS_CardinalityType, LinesAssumption

\* What the lines up to i and those after it say of the count.
LEMMA CountUpTo ==
  ASSUME NEW match \in SUBSET Lines, NEW i \in Lines
  PROVE  /\ SeqCount(match) \in 0 .. N /\ HitsUpTo(match, i) \in 0 .. N
         /\ HitsUpTo(match, i) <= SeqCount(match)
         /\ SeqCount(match) <= HitsUpTo(match, i) + (N - i - 1)
<1>1. i \in Nat /\ i + 1 <= N /\ N \in Nat
  BY LinesAssumption DEF Lines
<1>. DEFINE low == match \cap 0 .. i
            high == match \cap (i + 1) .. (N - 1)
            rest == (i + 1) .. (N - 1)
<1>2. low \in SUBSET Lines /\ high \in SUBSET Lines /\ rest \in SUBSET Lines
      /\ low \cap high = {} /\ low \cup high = match /\ high \subseteq rest
  <2>1. match \subseteq 0 .. N - 1
    BY DEF Lines
  <2>2. low \subseteq match /\ high \subseteq match /\ high \subseteq rest
    OBVIOUS
  <2>3. rest \subseteq 0 .. N - 1
    BY <1>1
  <2>4. low \cap high = {}
    BY <1>1
  <2>5. match \subseteq low \cup high
    BY <1>1, <2>1
  <2>. QED
    BY <2>1, <2>2, <2>3, <2>4, <2>5 DEF Lines
<1>9. HitsUpTo(match, i) = Cardinality(low)
  BY DEF HitsUpTo
<1>3. /\ Cardinality(match) \in 0 .. N /\ Cardinality(low) \in 0 .. N
      /\ Cardinality(high) \in 0 .. N
      /\ IsFiniteSet(low) /\ IsFiniteSet(high) /\ IsFiniteSet(rest)
  BY <1>2, LinesCounted
<1>4. Cardinality(rest) = N - i - 1
  BY <1>1, FS_Interval
<1>. HIDE DEF low, high, rest
<1>5. Cardinality(high) <= N - i - 1
  BY <1>2, <1>3, <1>4, FS_Subset
<1>6. Cardinality(low \cup high) =
        Cardinality(low) + Cardinality(high) - Cardinality(low \cap high)
  BY <1>3, FS_Union
<1>7. Cardinality(low \cap high) = 0
  BY <1>2, FS_EmptySet
<1>8. Cardinality(match) = Cardinality(low) + Cardinality(high)
  <2>1. Cardinality(low \cup high) = Cardinality(match)
    <3>1. low \cup high = match
      BY <1>2
    <3>. QED
      BY ONLY <3>1
  <2>2. Cardinality(low) \in Int /\ Cardinality(high) \in Int
    BY <1>3
  <2>. QED
    BY ONLY <1>6, <1>7, <2>1, <2>2
<1>. QED
  BY <1>1, <1>3, <1>5, <1>8, <1>9 DEF SeqCount

LEMMA SeqFloorDefined ==
  ASSUME NEW match \in SUBSET Lines, NEW floor \in Int
  PROVE  SeqFloor(match, floor) \in 0 .. N /\ IsSeqFloor(match, floor, SeqFloor(match, floor))
<1>1. \E n \in 0 .. N : IsSeqFloor(match, floor, n)
  <2>. DEFINE T == {i \in Lines : Prunes(match, floor, i)}
  <2>1. CASE T = {}
    <3>1. SeqCount(match) \in 0 .. N
      BY LinesCounted DEF SeqCount
    <3>. QED
      BY <2>1, <3>1 DEF IsSeqFloor
  <2>2. CASE T # {}
    <3>1. T \in SUBSET Nat
      BY LinesAssumption DEF Lines
    <3>2. PICK i \in T : \A j \in T : i <= j
      BY <2>2, <3>1, LeastOf
    <3>3. \A j \in 0 .. i - 1 : ~ Prunes(match, floor, j)
      BY <3>1, <3>2, LinesAssumption DEF Lines
    <3>4. i \in Lines /\ Prunes(match, floor, i) /\ HitsUpTo(match, i) \in 0 .. N
      BY <3>2, CountUpTo
    <3>. QED
      BY <3>3, <3>4 DEF IsSeqFloor
  <2>. QED
    BY <2>1, <2>2
<1>. QED
  BY <1>1 DEF SeqFloor

\* A scan that does not fall below its floor has counted every match; one that
\* does shows that there are no more than the floor.
LEMMA FloorTells ==
  ASSUME NEW match \in SUBSET Lines, NEW floor \in Int
  PROVE  /\ SeqFloor(match, floor) \in 0 .. N
         /\ SeqFloor(match, floor) >= floor => SeqFloor(match, floor) = SeqCount(match)
         /\ SeqFloor(match, floor) < floor => SeqCount(match) <= floor
<1>. DEFINE n == SeqFloor(match, floor)
<1>1. n \in 0 .. N /\ IsSeqFloor(match, floor, n)
  BY SeqFloorDefined
<1>2. N \in Nat /\ SeqCount(match) \in 0 .. N
  BY LinesAssumption, LinesCounted DEF SeqCount
<1>3. CASE n = SeqCount(match)
  BY <1>1, <1>2, <1>3
<1>4. ASSUME NEW i \in Lines, Prunes(match, floor, i), n = HitsUpTo(match, i)
      PROVE  /\ n >= floor => n = SeqCount(match)
             /\ n < floor => SeqCount(match) <= floor
  <2>1. i \in Nat /\ i + 1 <= N
    BY <1>2 DEF Lines
  <2>2. /\ n + (N - i - 1) <= floor /\ n <= SeqCount(match)
        /\ SeqCount(match) <= n + (N - i - 1)
    BY <1>4, CountUpTo DEF Prunes
  <2>. HIDE DEF n
  <2>. QED
    BY <1>1, <1>2, <2>1, <2>2
<1>. QED
  BY <1>1, <1>3, <1>4 DEF IsSeqFloor

-----------------------------------------------------------------------------
(***************************************************************************)
(* Candidates and the scan of one of them                                  *)
(***************************************************************************)
\* A count that is the number of lines the candidate matches.
Exact(found) == found # Nil => found.matched = SeqCount(found.candidate.match)

\* A candidate that could become its stage's best.
Counts(s, c) == s = "inferred" => SeqCount(c.match) >= InferredMin

\* found is at least as good as n matches.
Reaches(found, n) == found # Nil /\ found.matched >= n

LEMMA NilIsNotFound == Nil \notin FoundSet
BY DiscoveryAssumption

LEMMA FoundTyped ==
  ASSUME NEW s \in Stages \cup {"fallback"}, NEW c \in CandidateSet, NEW n \in 0 .. N
  PROVE  /\ Found(s, c, n) \in FoundSet /\ Found(s, c, n) # Nil
         /\ Found(s, c, n).family = s /\ Found(s, c, n).candidate = c
         /\ Found(s, c, n).matched = n
<1>1. Found(s, c, n) \in FoundSet
  BY DEF Found, FoundSet
<1>2. Found(s, c, n) # Nil
  BY <1>1, NilIsNotFound
<1>. QED
  BY <1>1, <1>2 DEF Found

LEMMA Matches ==
  ASSUME NEW found \in FoundSet
  PROVE  /\ found.matched \in 0 .. N /\ found.candidate \in CandidateSet /\ found # Nil
         /\ found.candidate.match \in SUBSET Lines
         /\ SeqCount(found.candidate.match) \in 0 .. N
<1>1. found.candidate \in CandidateSet /\ found.matched \in 0 .. N
  BY DEF FoundSet
<1>2. found.candidate.match \in SUBSET Lines
  BY <1>1 DEF CandidateSet
<1>. QED
  BY <1>1, <1>2, NilIsNotFound, LinesCounted DEF SeqCount

\* pickBetter gives one of the two, with the larger count.
LEMMA PickedBetter ==
  ASSUME NEW a \in FoundSet \cup {Nil}, NEW b \in FoundSet \cup {Nil}
  PROVE  /\ PickBetter(a, b) \in {a, b}
         /\ PickBetter(a, b) = Nil => a = Nil /\ b = Nil
         /\ \A n \in Int : Reaches(a, n) \/ Reaches(b, n) => Reaches(PickBetter(a, b), n)
<1>1. CASE a = Nil
  BY <1>1 DEF PickBetter, Reaches
<1>2. CASE a # Nil /\ b = Nil
  BY <1>2 DEF PickBetter, Reaches
<1>3. CASE a # Nil /\ b # Nil
  <2>1. a \in FoundSet /\ b \in FoundSet
    BY <1>3
  <2>2. a.matched \in Int /\ b.matched \in Int
    BY <2>1, Matches, LinesAssumption
  <2>3. /\ Beats(b, a) => b.matched >= a.matched
        /\ ~ Beats(b, a) => b.matched <= a.matched
    BY <2>2 DEF Beats
  <2>4. PickBetter(a, b) = IF Beats(b, a) THEN b ELSE a
    BY <1>3 DEF PickBetter
  <2>. QED
    BY <1>3, <2>2, <2>3, <2>4 DEF Reaches
<1>. QED
  BY <1>1, <1>2, <1>3

\* After c was counted the best is what it was or c itself.
LEMMA BestIsOne ==
  ASSUME NEW s \in Stages, NEW c \in CandidateSet, NEW cur \in FoundSet \cup {Nil},
         NEW n \in 0 .. N
  PROVE  /\ BestAfter(s, cur, c, n) \in {cur, Found(s, c, n)}
         /\ BestAfter(s, cur, c, n) \in FoundSet \cup {Nil}
<1>1. Found(s, c, n) \in FoundSet
  BY FoundTyped
<1>2. PickBetter(cur, Found(s, c, n)) \in {cur, Found(s, c, n)}
  BY <1>1, PickedBetter
<1>. QED
  BY <1>1, <1>2 DEF BestAfter

FullBest(s, c, cur) == BestAfter(s, cur, c, FullCount(s, c, cur))

\* A scan that runs to its end leaves a true count, whatever it pruned, and a
\* best that is no worse than before and no worse than the candidate.
LEMMA FullScan ==
  ASSUME NEW s \in Stages, NEW c \in CandidateSet, NEW cur \in FoundSet \cup {Nil}, Exact(cur)
  PROVE  /\ FullCount(s, c, cur) \in 0 .. N
         /\ FullBest(s, c, cur) \in FoundSet \cup {Nil}
         /\ Exact(FullBest(s, c, cur))
         /\ \A n \in Int : Reaches(cur, n) => Reaches(FullBest(s, c, cur), n)
         /\ Counts(s, c) => Reaches(FullBest(s, c, cur), SeqCount(c.match))
<1>. DEFINE floor == Floor(s, cur)
            full == FullCount(s, c, cur)
            new == Found(s, c, full)
            after == BestAfter(s, cur, c, full)
<1>0. N \in Nat /\ c.match \in SUBSET Lines /\ SeqCount(c.match) \in 0 .. N
  BY LinesAssumption, LinesCounted DEF CandidateSet, SeqCount
<1>1. cur # Nil => cur.matched \in 0 .. N /\ cur \in FoundSet
  BY Matches
<1>2. floor \in Int
  BY <1>0, <1>1 DEF Floor
<1>3. /\ full \in 0 .. N
      /\ full >= floor => full = SeqCount(c.match)
      /\ full < floor => SeqCount(c.match) <= floor
  BY <1>0, <1>2, FloorTells DEF FullCount
<1>4. /\ new \in FoundSet /\ new # Nil /\ new.matched = full /\ new.candidate = c
  BY <1>3, FoundTyped
<1>5. after \in {cur, new} /\ after \in FoundSet \cup {Nil}
  BY <1>3, BestIsOne
<1>6. /\ Exact(after)
      /\ \A n \in Int : Reaches(cur, n) => Reaches(after, n)
      /\ Counts(s, c) => Reaches(after, SeqCount(c.match))
  <2>1. CASE s = "library" /\ cur # Nil
    <3>1. floor = cur.matched
      BY <2>1 DEF Floor
    <3>2. after = IF BetterCandidate(new, cur) THEN new ELSE cur
      BY <2>1 DEF BestAfter
    <3>3. /\ BetterCandidate(new, cur) => full >= cur.matched
          /\ ~ BetterCandidate(new, cur) => full <= cur.matched
      BY <1>0, <1>1, <1>3, <1>4, <2>1 DEF BetterCandidate
    <3>. HIDE DEF floor, full, new, after
    <3>4. CASE BetterCandidate(new, cur)
      <4>1. after = new /\ full = SeqCount(c.match) /\ full >= cur.matched
        BY <1>3, <3>1, <3>2, <3>3, <3>4
      <4>. QED
        BY <1>0, <1>1, <1>3, <1>4, <4>1 DEF Exact, Reaches
    <3>5. CASE ~ BetterCandidate(new, cur)
      <4>1. after = cur /\ SeqCount(c.match) <= cur.matched
        BY <1>0, <1>1, <1>3, <2>1, <3>1, <3>2, <3>3, <3>5
      <4>. QED
        BY <1>0, <1>1, <2>1, <4>1 DEF Exact, Reaches
    <3>. QED
      BY <3>4, <3>5
  <2>2. CASE ~ (s = "library" /\ cur # Nil)
    <3>1. floor = -1
      BY <2>2 DEF Floor
    <3>2. full = SeqCount(c.match) /\ Exact(new)
      BY <1>0, <1>3, <1>4, <3>1 DEF Exact
    <3>3. CASE after = new /\ (cur = Nil \/ s = "library")
      <4>1. cur = Nil
        BY <2>2, <3>3
      <4>. HIDE DEF floor, full, new, after
      <4>. QED
        BY <1>0, <1>4, <3>2, <3>3, <4>1 DEF Exact, Reaches
    <3>4. CASE s = "inferred" /\ full < InferredMin /\ after = cur
      <4>1. ~ Counts(s, c)
        BY <1>0, <3>2, <3>4, DiscoveryAssumption DEF Counts
      <4>. QED
        BY <3>4, <4>1
    <3>5. CASE after = PickBetter(cur, new)
      <4>. HIDE DEF floor, full, new, after
      <4>1. after \in {cur, new} /\ \A n \in Int : Reaches(cur, n) \/ Reaches(new, n) => Reaches(after, n)
        BY <1>4, <3>5, PickedBetter
      <4>2. Reaches(new, SeqCount(c.match)) /\ SeqCount(c.match) \in Int
        BY <1>0, <1>4, <3>2 DEF Reaches
      <4>. QED
        BY <3>2, <4>1, <4>2
    <3>. QED
      BY <2>2, <3>3, <3>4, <3>5 DEF BestAfter, BetterCandidate
  <2>. QED
    BY <2>1, <2>2
<1>7. after = FullBest(s, c, cur)
  BY DEF FullBest
<1>. HIDE DEF after
<1>. QED
  BY <1>3, <1>5, <1>6, <1>7

-----------------------------------------------------------------------------
(***************************************************************************)
(* A stage on its own                                                      *)
(***************************************************************************)
LEMMA RunStepIs ==
  ASSUME NEW s, NEW c, NEW prev
  PROVE  RunStep(s, c, prev) = [best |-> FullBest(s, c, prev.best),
                                buf |-> Append(prev.buf, <<s, FullCount(s, c, prev.best)>>)]
BY DEF RunStep, FullBest

\* A run's first k steps.
IsRun(s, p, k, run) ==
  run = [i \in 0 .. k |-> IF i = 0 THEN [best |-> Nil, buf |-> <<>>]
                          ELSE RunStep(s, p[i], run[i - 1])]

LEMMA RunsExist ==
  ASSUME NEW s, NEW p
  PROVE  \A k \in Nat : \E run : IsRun(s, p, k, run)
<1>. DEFINE S == {k \in Nat : \E run : IsRun(s, p, k, run)}
<1>1. 0 \in S
  <2>. DEFINE run == [i \in 0 .. 0 |-> [best |-> Nil, buf |-> <<>>]]
  <2>1. IsRun(s, p, 0, run)
    BY DEF IsRun
  <2>. QED
    BY <2>1
<1>2. ASSUME NEW k \in Nat, k \in S PROVE k + 1 \in S
  <2>1. PICK run : IsRun(s, p, k, run)
    BY <1>2
  <2>. DEFINE new == RunStep(s, p[k + 1], run[k])
              longer == [i \in 0 .. k + 1 |-> IF i = k + 1 THEN new ELSE run[i]]
  <2>2. \A i \in 0 .. k + 1 :
          longer[i] = IF i = 0 THEN [best |-> Nil, buf |-> <<>>]
                      ELSE RunStep(s, p[i], longer[i - 1])
    <3>. TAKE i \in 0 .. k + 1
    <3>. HIDE DEF new
    <3>1. CASE i = 0
      BY <2>1, <3>1 DEF IsRun
    <3>2. CASE i \in 1 .. k
      <4>1. longer[i] = run[i] /\ longer[i - 1] = run[i - 1]
        BY <3>2
      <4>2. run[i] = RunStep(s, p[i], run[i - 1])
        BY <2>1, <3>2 DEF IsRun
      <4>. QED
        BY <3>2, <4>1, <4>2
    <3>3. CASE i = k + 1
      <4>1. longer[i] = new /\ longer[i - 1] = run[k] /\ i # 0
        BY <3>3
      <4>. QED
        BY <3>3, <4>1 DEF new
    <3>. QED
      BY <3>1, <3>2, <3>3
  <2>3. IsRun(s, p, k + 1, longer)
    <3>1. longer = [i \in 0 .. k + 1 |-> longer[i]]
      OBVIOUS
    <3>. HIDE DEF longer
    <3>. QED
      BY <2>2, <3>1 DEF IsRun
  <2>. QED
    BY <2>3
<1>. HIDE DEF S
<1>3. Nat \subseteq S
  BY <1>1, <1>2, UpFromZero
<1>. QED
  BY <1>3 DEF S

LEMMA RunUnfolds ==
  ASSUME NEW s, NEW p, Len(p) \in Nat
  PROVE  /\ SeqRun(s, p)[0] = [best |-> Nil, buf |-> <<>>]
         /\ \A k \in 1 .. Len(p) : SeqRun(s, p)[k] = RunStep(s, p[k], SeqRun(s, p)[k - 1])
<1>1. SeqRun(s, p) = CHOOSE run : IsRun(s, p, Len(p), run)
  BY DEF SeqRun, IsRun
<1>2. IsRun(s, p, Len(p), SeqRun(s, p))
  BY <1>1, RunsExist
<1>. QED
  BY <1>2 DEF IsRun

-----------------------------------------------------------------------------
(***************************************************************************)
(* The inductive invariant                                                 *)
(***************************************************************************)
Logs == Seq(Stages \X (0 .. N))
Messages == [found : FoundSet \cup {Nil}, accept : BOOLEAN, diag : Logs]

Shapes ==
  /\ probes \in [Stages -> Seq(CandidateSet)]
  /\ at \in [Stages -> Nat] /\ best \in [Stages -> FoundSet \cup {Nil}]
  /\ buf \in [Stages -> Logs]
  /\ chan \in [Stages -> Messages \cup {Nil}] /\ got \in [Stages -> Messages \cup {Nil}]
  /\ answer \in FoundSet \cup {Nil}

\* What a stage has to say when it was not cut short.
Message(s) ==
  [found |-> SeqBest(s, probes[s]), accept |-> Accepts(s, SeqBest(s, probes[s])),
   diag |-> SeqBuf(s, probes[s])]

\* found is a true count and no candidate of s that it could have been has more.
Whole(s, found) ==
  /\ Exact(found)
  /\ \A i \in 1 .. Len(probes[s]) :
       Counts(s, probes[s][i]) => Reaches(found, SeqCount(probes[s][i].match))

Sent(s, m) == m # Nil => m = Message(s) /\ Whole(s, m.found)

\* A stage that nobody aborted is where the sequential run was.
OnTrack(s) ==
  /\ best[s] = SeqRun(s, probes[s])[at[s] - 1].best
  /\ buf[s] = SeqRun(s, probes[s])[at[s] - 1].buf
  /\ Exact(best[s])
  /\ \A i \in 1 .. at[s] - 1 :
       Counts(s, probes[s][i]) => Reaches(best[s], SeqCount(probes[s][i].match))

\* Stages are aborted only when the answer is settled: what the coordinator
\* reads comes from scans that ran to their end.
Going ==
  coordinator # "done" =>
    \A s \in Stages : ~ aborted[s] /\ OnTrack(s) /\ Sent(s, chan[s]) /\ Sent(s, got[s])

\* What the coordinator knows of the stages it is past.
Phases ==
  /\ coordinator = "library" =>
       got["structured"] # Nil /\ ~ Accepts("structured", got["structured"].found)
  /\ coordinator = "inferred" =>
       /\ got["structured"] # Nil /\ ~ Accepts("structured", got["structured"].found)
       /\ ~ Covers(got["structured"].found)
       /\ got["library"] # Nil /\ ~ Accepts("library", got["library"].found)
       /\ ~ Covers(got["library"].found)

\* No candidate that a stage considered would have been better than found.
NoneMissed(found) ==
  \A s \in Stages : \A c \in Considered(s) :
    \/ found.matched >= Threshold
    \/ SeqCount(c.match) < Threshold /\ SeqCount(c.match) <= found.matched

Settled ==
  coordinator = "done" =>
    <<answer, diag>> = Sequential /\ Exact(answer) /\ NoneMissed(answer)

IInv ==
  /\ Shapes
  /\ TypeOK
  /\ Going
  /\ Phases
  /\ Settled

\* The part of TypeOK that is about one stage.
StageOK(s) ==
  /\ at[s] \in 1 .. Len(probes[s]) + 1
  /\ FoundBy(s, best[s])
  /\ Len(buf[s]) = at[s] - 1
  /\ chan[s] # Nil => s \in exited /\ got[s] = Nil /\ FoundBy(s, chan[s].found)
  /\ got[s] # Nil => s \in exited /\ FoundBy(s, got[s].found)

LEMMA TypesByStage ==
  TypeOK <=> /\ \A s \in Stages : StageOK(s)
             /\ aborted \in [Stages -> BOOLEAN]
             /\ exited \subseteq Stages
             /\ coordinator \in Stages \cup {"done"}
             /\ (coordinator = "done") = (answer # Nil)
BY DEF TypeOK, StageOK

LEMMA TypesByStageNext ==
  ASSUME \A s \in Stages : StageOK(s)',
         aborted' \in [Stages -> BOOLEAN], exited' \subseteq Stages,
         coordinator' \in Stages \cup {"done"},
         (coordinator' = "done") = (answer' # Nil)
  PROVE  TypeOK'
BY DEF TypeOK, StageOK

-----------------------------------------------------------------------------
(***************************************************************************)
(* The beginning                                                           *)
(***************************************************************************)
LEMMA LibraryProbesTyped ==
  ASSUME NEW entries \in LibraryInputs, NEW ranked \in Ranked(entries)
  PROVE  LibraryProbes(ranked) \in Seq(CandidateSet)
<1>. DEFINE n == Cardinality(entries)
            kept == {i \in DOMAIN ranked : i <= Top /\ SampleCount(ranked[i]) >= SampleFloor}
            k == Cardinality(kept)
<1>1. n \in Nat /\ entries \subseteq CandidateSet
  BY DiscoveryAssumption, FS_CardinalityType
<1>2. ranked \in [1 .. n -> entries]
  BY DEF Ranked
<1>. HIDE DEF n
<1>3. k \in Nat /\ k <= n
  <2>1. IsFiniteSet(1 .. n) /\ Cardinality(1 .. n) = n
    <3>1. n \in Int /\ 1 \in Int /\ (IF 1 > n THEN 0 ELSE n - 1 + 1) = n
      BY ONLY <1>1
    <3>. QED
      BY ONLY <3>1, FS_Interval
  <2>2. kept \subseteq 1 .. n
    BY <1>2
  <2>3. IsFiniteSet(kept) /\ k <= n
    <3>1. \A T \in SUBSET (1 .. n) : IsFiniteSet(T) /\ Cardinality(T) <= Cardinality(1 .. n)
      BY ONLY <2>1, FS_Subset
    <3>2. kept \in SUBSET (1 .. n)
      BY ONLY <2>2
    <3>. HIDE DEF kept
    <3>. QED
      BY ONLY <2>1, <3>1, <3>2
  <2>. QED
    BY <2>3, FS_CardinalityType
<1>4. LibraryProbes(ranked) = [i \in 1 .. k |-> ranked[i]]
  BY DEF LibraryProbes
<1>. HIDE DEF k
<1>5. \A i \in 1 .. k : ranked[i] \in CandidateSet
  BY <1>1, <1>2, <1>3
<1>. QED
  BY <1>3, <1>4, <1>5

LEMMA InitInv == Init => IInv
<1>. SUFFICES ASSUME Init PROVE IInv
  OBVIOUS
<1>1. probes \in [Stages -> Seq(CandidateSet)]
  <2>1. PICK s \in StructuredInputs, l \in LibraryInputs, i \in InferredInputs :
          \E ranked \in Ranked(l) :
            probes = [structured |-> s, library |-> LibraryProbes(ranked), inferred |-> i]
    BY DEF Init
  <2>2. PICK ranked \in Ranked(l) :
          probes = [structured |-> s, library |-> LibraryProbes(ranked), inferred |-> i]
    BY <2>1
  <2>3. /\ s \in Seq(CandidateSet) /\ i \in Seq(CandidateSet)
        /\ LibraryProbes(ranked) \in Seq(CandidateSet)
    BY LibraryProbesTyped, DiscoveryAssumption
  <2>. QED
    BY <2>2, <2>3 DEF Stages
<1>2. \A s \in Stages : probes[s] \in Seq(CandidateSet) /\ Len(probes[s]) \in Nat
  BY <1>1
<1>3. Shapes
  BY <1>1 DEF Init, Shapes, Logs
<1>4. TypeOK
  <2>1. \A s \in Stages : StageOK(s)
    BY <1>2 DEF Init, StageOK, FoundBy
  <2>2. aborted \in [Stages -> BOOLEAN] /\ exited \subseteq Stages
        /\ coordinator \in Stages /\ coordinator # "done" /\ answer = Nil
    BY DEF Init, Stages
  <2>. QED
    BY <2>1, <2>2, TypesByStage
<1>5. Going
  <2>. SUFFICES ASSUME NEW s \in Stages
                PROVE  ~ aborted[s] /\ OnTrack(s) /\ Sent(s, chan[s]) /\ Sent(s, got[s])
    BY DEF Going
  <2>1. SeqRun(s, probes[s])[0] = [best |-> Nil, buf |-> <<>>]
    BY <1>2, RunUnfolds
  <2>2. OnTrack(s)
    BY <2>1 DEF Init, OnTrack, Exact
  <2>. QED
    BY <2>2 DEF Init, Sent
<1>6. Phases /\ Settled
  BY DEF Init, Phases, Settled
<1>. QED
  BY <1>3, <1>4, <1>5, <1>6 DEF IInv

-----------------------------------------------------------------------------
(***************************************************************************)
(* What a step leaves alone                                                *)
(***************************************************************************)
LEMMA SequentialKept ==
  ASSUME probes' = probes
  PROVE  /\ Sequential' = Sequential
         /\ \A s \in Stages : Message(s)' = Message(s)
         /\ \A found : NoneMissed(found) => NoneMissed(found)'
<1>1. Sequential' = Sequential
  BY DEF Sequential
<1>2. \A s \in Stages : Message(s)' = Message(s)
  BY DEF Message
<1>3. \A found : NoneMissed(found) => NoneMissed(found)'
  BY DEF NoneMissed, Considered
<1>. QED
  BY <1>1, <1>2, <1>3

\* What a stage has of its own.
Same(s) ==
  /\ at'[s] = at[s] /\ best'[s] = best[s] /\ buf'[s] = buf[s]
  /\ chan'[s] = chan[s] /\ got'[s] = got[s] /\ aborted'[s] = aborted[s]

LEMMA Untouched ==
  ASSUME NEW s \in Stages, probes' = probes, Same(s), exited \subseteq exited'
  PROVE  /\ StageOK(s) => StageOK(s)'
         /\ OnTrack(s) => OnTrack(s)'
         /\ \A m : Sent(s, m) => Sent(s, m)'
         /\ Sent(s, chan[s]) => Sent(s, chan[s])'
         /\ Sent(s, got[s]) => Sent(s, got[s])'
<1>1. StageOK(s) => StageOK(s)'
  BY DEF StageOK, FoundBy, Same
<1>2. OnTrack(s) => OnTrack(s)'
  BY DEF OnTrack, Same
<1>3. \A m : Sent(s, m) => Sent(s, m)'
  BY DEF Sent, Message, Whole
<1>4. Sent(s, chan[s]) => Sent(s, chan[s])'
  BY DEF Sent, Message, Whole, Same
<1>5. Sent(s, got[s]) => Sent(s, got[s])'
  BY DEF Sent, Message, Whole, Same
<1>. QED
  BY <1>1, <1>2, <1>3, <1>4, <1>5

LEMMA StutterInv == IInv /\ UNCHANGED vars => IInv'
<1>. SUFFICES ASSUME IInv, UNCHANGED vars PROVE IInv'
  OBVIOUS
<1>. USE DEF vars, stageVars
<1>1. Shapes'
  BY DEF IInv, Shapes
<1>2. \A s \in Stages : Same(s)
  BY DEF Same
<1>3. TypeOK'
  BY <1>2, TypesByStage, TypesByStageNext, Untouched DEF IInv
<1>4. Going'
  BY <1>2, Untouched DEF IInv, Going
<1>5. Phases'
  BY DEF IInv, Phases
<1>6. Settled'
  BY SequentialKept DEF IInv, Settled
<1>. QED
  BY <1>1, <1>3, <1>4, <1>5, <1>6 DEF IInv

-----------------------------------------------------------------------------
(***************************************************************************)
(* A stage's steps                                                         *)
(***************************************************************************)
LEMMA ScanKeeps ==
  ASSUME IInv, NEW s \in Stages, Scan(s)
  PROVE  IInv'
<1>. DEFINE c == probes[s][at[s]]
            k == at[s]
            full == FullCount(s, c, best[s])
<1>1. PICK n \in (IF aborted[s] THEN 0 .. full ELSE {full}) :
        /\ best' = [best EXCEPT ![s] = BestAfter(s, @, c, n)]
        /\ buf' = [buf EXCEPT ![s] = Append(@, <<s, n>>)]
  BY DEF Scan
<1>2. /\ at[s] <= Len(probes[s]) /\ at' = [at EXCEPT ![s] = @ + 1]
      /\ probes' = probes /\ aborted' = aborted /\ chan' = chan /\ exited' = exited
      /\ coordinator' = coordinator /\ got' = got /\ answer' = answer /\ diag' = diag
  BY DEF Scan
<1>3. Shapes /\ TypeOK /\ Going /\ Phases /\ Settled
  BY DEF IInv
<1>4. /\ \A x \in Stages : StageOK(x)
      /\ aborted \in [Stages -> BOOLEAN] /\ exited \subseteq Stages
      /\ coordinator \in Stages \cup {"done"} /\ (coordinator = "done") = (answer # Nil)
  BY <1>3, TypesByStage
<1>5. /\ probes \in [Stages -> Seq(CandidateSet)] /\ probes[s] \in Seq(CandidateSet)
      /\ at[s] \in 1 .. Len(probes[s]) /\ Len(probes[s]) \in Nat /\ c \in CandidateSet
      /\ best[s] \in FoundSet \cup {Nil} /\ buf[s] \in Logs
      /\ at \in [Stages -> Nat] /\ best \in [Stages -> FoundSet \cup {Nil}]
      /\ buf \in [Stages -> Logs]
  BY SMTT(60), <1>2, <1>3, <1>4 DEF Shapes, StageOK
<1>6. full \in 0 .. N
  <2>1. best[s] # Nil => best[s].matched \in 0 .. N
    BY <1>5, Matches
  <2>2. Floor(s, best[s]) \in Int
    BY <2>1, LinesAssumption DEF Floor
  <2>3. c.match \in SUBSET Lines
    BY <1>5 DEF CandidateSet
  <2>. QED
    BY <2>2, <2>3, FloorTells DEF FullCount
<1>7. n \in 0 .. N
  BY <1>1, <1>6, LinesAssumption
<1>. HIDE DEF full
<1>8. /\ at'[s] = k + 1 /\ best'[s] = BestAfter(s, best[s], c, n)
      /\ buf'[s] = Append(buf[s], <<s, n>>)
      /\ \A x \in Stages \ {s} : Same(x)
  BY <1>1, <1>2, <1>5 DEF Same
<1>. HIDE DEF c, k
<1>9. /\ best'[s] \in {best[s], Found(s, c, n)} /\ best'[s] \in FoundSet \cup {Nil}
      /\ Found(s, c, n).family = s /\ Found(s, c, n).matched = n
      /\ Found(s, c, n).candidate = c
  <2>1. /\ Found(s, c, n).family = s /\ Found(s, c, n).matched = n
        /\ Found(s, c, n).candidate = c
    BY <1>5, <1>7, FoundTyped
  <2>2. c \in CandidateSet /\ best[s] \in FoundSet \cup {Nil}
    BY <1>5
  <2>3. /\ BestAfter(s, best[s], c, n) \in {best[s], Found(s, c, n)}
        /\ BestAfter(s, best[s], c, n) \in FoundSet \cup {Nil}
    BY <1>7, <2>2, BestIsOne
  <2>. QED
    BY ONLY <1>8, <2>1, <2>3
<1>10. <<s, n>> \in Stages \X (0 .. N)
  BY <1>7
<1>11. buf'[s] \in Logs /\ Len(buf'[s]) = Len(buf[s]) + 1
  BY <1>5, <1>8, <1>10 DEF Logs
<1>12. Shapes'
  <2>1. at' \in [Stages -> Nat]
    BY <1>2, <1>5
  <2>2. best' \in [Stages -> FoundSet \cup {Nil}]
    BY <1>1, <1>5, <1>8, <1>9
  <2>3. buf' \in [Stages -> Logs]
    BY <1>1, <1>5, <1>8, <1>11
  <2>. QED
    BY <1>2, <1>3, <2>1, <2>2, <2>3 DEF Shapes
<1>13. \A x \in Stages : StageOK(x)'
  <2>. TAKE x \in Stages
  <2>1. CASE x # s
    BY <1>2, <1>4, <1>8, <2>1, Untouched
  <2>2. CASE x = s
    <3>1. FoundBy(s, best[s]) /\ Len(buf[s]) = k - 1
      BY <1>4 DEF StageOK, k
    <3>2. FoundBy(s, best[s])'
      BY <1>2, <1>5, <1>7, <1>9, <3>1 DEF FoundBy, c
    <3>3. Len(buf'[s]) = at'[s] - 1 /\ at'[s] \in 1 .. Len(probes[s]) + 1
      BY <1>5, <1>8, <1>11, <3>1 DEF k
    <3>4. /\ chan[s] # Nil => s \in exited /\ got[s] = Nil /\ FoundBy(s, chan[s].found)
          /\ got[s] # Nil => s \in exited /\ FoundBy(s, got[s].found)
      BY <1>4 DEF StageOK
    <3>5. (chan[s] # Nil => s \in exited /\ got[s] = Nil /\ FoundBy(s, chan[s].found))'
      BY <1>2, <3>4 DEF FoundBy
    <3>6. (got[s] # Nil => s \in exited /\ FoundBy(s, got[s].found))'
      BY <1>2, <3>4 DEF FoundBy
    <3>. QED
      BY <1>2, <2>2, <3>2, <3>3, <3>5, <3>6 DEF StageOK
  <2>. QED
    BY <2>1, <2>2
<1>14. TypeOK'
  BY <1>2, <1>4, <1>13, TypesByStageNext
<1>15. Going'
  <2>. SUFFICES ASSUME coordinator # "done", NEW x \in Stages
                PROVE  ~ aborted[x] /\ OnTrack(x)' /\ Sent(x, chan[x])' /\ Sent(x, got[x])'
    BY <1>2 DEF Going
  <2>1. /\ ~ aborted[x] /\ ~ aborted[s] /\ OnTrack(x) /\ OnTrack(s)
        /\ Sent(x, chan[x]) /\ Sent(x, got[x])
    BY <1>3 DEF Going
  <2>2. CASE x # s
    BY <1>2, <1>8, <2>1, <2>2, Untouched
  <2>3. CASE x = s
    <3>. DEFINE run == SeqRun(s, probes[s])
    <3>1. n = full
      BY <1>1, <2>1
    <3>2. Exact(best[s]) /\ best[s] = run[k - 1].best /\ buf[s] = run[k - 1].buf
      BY <2>1 DEF OnTrack, k
    <3>3. run[k] = RunStep(s, c, run[k - 1])
      BY <1>5, RunUnfolds DEF k, c
    <3>. HIDE DEF run
    <3>4. run[k] = [best |-> FullBest(s, c, best[s]), buf |-> Append(buf[s], <<s, full>>)]
      BY <3>2, <3>3, RunStepIs DEF full
    <3>5. best'[s] = FullBest(s, c, best[s])
      BY <1>8, <3>1 DEF FullBest, full
    <3>6. /\ Exact(best'[s]) /\ \A m \in Int : Reaches(best[s], m) => Reaches(best'[s], m)
          /\ Counts(s, c) => Reaches(best'[s], SeqCount(c.match))
      BY <1>5, <3>2, <3>5, FullScan
    <3>7. best'[s] = run[k].best /\ buf'[s] = run[k].buf
      BY <1>8, <3>1, <3>4, <3>5
    <3>8. \A i \in 1 .. k :
            Counts(s, probes[s][i]) => Reaches(best'[s], SeqCount(probes[s][i].match))
      <4>. TAKE i \in 1 .. k
      <4>1. CASE i = k
        BY <3>6, <4>1 DEF c, k
      <4>2. CASE i # k
        <5>1. i \in 1 .. at[s] - 1 /\ i \in 1 .. Len(probes[s])
          BY <1>5, <4>2 DEF k
        <5>2. Counts(s, probes[s][i]) => Reaches(best[s], SeqCount(probes[s][i].match))
          BY <2>1, <5>1 DEF OnTrack
        <5>3. probes[s][i] \in CandidateSet
          BY <1>5, <5>1
        <5>4. SeqCount(probes[s][i].match) \in Int
          <6>1. probes[s][i].match \in SUBSET Lines
            BY <5>3 DEF CandidateSet
          <6>. QED
            BY <6>1, LinesCounted DEF SeqCount
        <5>. QED
          BY <3>6, <5>2, <5>4
      <4>. QED
        BY <4>1, <4>2
    <3>9. at'[s] - 1 = k /\ probes'[s] = probes[s]
      BY <1>2, <1>5, <1>8 DEF k
    <3>10. OnTrack(s)'
      BY <3>6, <3>7, <3>8, <3>9 DEF OnTrack, run
    <3>11. Sent(s, chan[s])' /\ Sent(s, got[s])'
      BY <1>2, <2>1, <2>3 DEF Sent, Message, Whole
    <3>. QED
      BY <2>1, <2>3, <3>10, <3>11
  <2>. QED
    BY <2>2, <2>3
<1>16. Phases'
  BY <1>2, <1>3 DEF Phases
<1>17. Settled'
  BY <1>2, <1>3, SequentialKept DEF Settled
<1>. QED
  BY <1>12, <1>14, <1>15, <1>16, <1>17 DEF IInv

LEMMA FinishKeeps ==
  ASSUME IInv, NEW s \in Stages, Finish(s)
  PROVE  IInv'
<1>. DEFINE m == [found |-> best[s], accept |-> Accepts(s, best[s]), diag |-> buf[s]]
<1>1. /\ s \notin exited /\ at[s] > Len(probes[s])
      /\ chan' = [chan EXCEPT ![s] = m] /\ exited' = exited \cup {s}
      /\ probes' = probes /\ at' = at /\ best' = best /\ buf' = buf /\ aborted' = aborted
      /\ coordinator' = coordinator /\ got' = got /\ answer' = answer /\ diag' = diag
  BY DEF Finish
<1>2. Shapes /\ TypeOK /\ Going /\ Phases /\ Settled
  BY DEF IInv
<1>3. /\ \A x \in Stages : StageOK(x)
      /\ aborted \in [Stages -> BOOLEAN] /\ exited \subseteq Stages
      /\ coordinator \in Stages \cup {"done"} /\ (coordinator = "done") = (answer # Nil)
  BY <1>2, TypesByStage
<1>4. /\ probes[s] \in Seq(CandidateSet) /\ Len(probes[s]) \in Nat
      /\ best[s] \in FoundSet \cup {Nil} /\ buf[s] \in Logs
      /\ chan \in [Stages -> Messages \cup {Nil}] /\ at[s] = Len(probes[s]) + 1
  BY <1>1, <1>2, <1>3 DEF Shapes, StageOK
<1>5. m \in Messages /\ m.found = best[s]
  <2>1. Accepts(s, best[s]) \in BOOLEAN
    BY DEF Accepts, Covers
  <2>. HIDE DEF Accepts
  <2>. QED
    BY <1>4, <2>1 DEF Messages
<1>. HIDE DEF m
<1>6. /\ chan'[s] = m /\ \A x \in Stages \ {s} : Same(x)
      /\ chan' \in [Stages -> Messages \cup {Nil}]
  BY <1>1, <1>4, <1>5 DEF Same
<1>7. Shapes'
  BY <1>1, <1>2, <1>6 DEF Shapes
<1>8. \A x \in Stages : StageOK(x)'
  <2>. TAKE x \in Stages
  <2>1. CASE x # s
    BY <1>1, <1>3, <1>6, <2>1, Untouched
  <2>2. CASE x = s
    <3>1. /\ FoundBy(s, best[s]) /\ Len(buf[s]) = at[s] - 1 /\ at[s] \in 1 .. Len(probes[s]) + 1
          /\ got[s] = Nil
      BY <1>1, <1>3 DEF StageOK
    <3>2. FoundBy(s, best[s])' /\ FoundBy(s, chan[s].found)'
      BY <1>1, <1>5, <1>6, <3>1 DEF FoundBy
    <3>. QED
      BY <1>1, <2>2, <3>1, <3>2 DEF StageOK
  <2>. QED
    BY <2>1, <2>2
<1>9. TypeOK'
  BY <1>1, <1>3, <1>8, TypesByStageNext
<1>10. Going'
  <2>. SUFFICES ASSUME coordinator # "done", NEW x \in Stages
                PROVE  ~ aborted[x] /\ OnTrack(x)' /\ Sent(x, chan[x])' /\ Sent(x, got[x])'
    BY <1>1 DEF Going
  <2>1. ~ aborted[x] /\ OnTrack(x) /\ Sent(x, chan[x]) /\ Sent(x, got[x])
    BY <1>2 DEF Going
  <2>2. CASE x # s
    BY <1>1, <1>6, <2>1, <2>2, Untouched
  <2>3. CASE x = s
    <3>1. at[s] - 1 = Len(probes[s])
      BY <1>4
    <3>2. best[s] = SeqBest(s, probes[s]) /\ buf[s] = SeqBuf(s, probes[s])
      BY <2>1, <2>3, <3>1 DEF OnTrack, SeqBest, SeqBuf
    <3>3. m = Message(s)
      BY <3>2 DEF m, Message
    <3>4. Whole(s, m.found)
      BY <1>5, <2>1, <2>3, <3>1 DEF OnTrack, Whole
    <3>5. Message(s)' = Message(s) /\ (Whole(s, m.found) => (Whole(s, chan[s].found))')
      BY <1>1, <1>6, SequentialKept DEF Whole
    <3>6. Sent(s, chan[s])'
      BY <1>6, <3>3, <3>4, <3>5 DEF Sent
    <3>7. Sent(s, got[s])'
      BY <1>1, <2>1, <2>3 DEF Sent, Message, Whole
    <3>8. OnTrack(s)'
      BY <1>1, <2>1, <2>3 DEF OnTrack
    <3>. QED
      BY <2>1, <2>3, <3>6, <3>7, <3>8
  <2>. QED
    BY <2>2, <2>3
<1>11. Phases'
  BY <1>1, <1>2 DEF Phases
<1>12. Settled'
  BY <1>1, <1>2, SequentialKept DEF Settled
<1>. QED
  BY <1>7, <1>9, <1>10, <1>11, <1>12 DEF IInv

-----------------------------------------------------------------------------
(***************************************************************************)
(* What the coordinator receives, and what it makes of it                  *)
(***************************************************************************)
LEMMA AcceptedCovers ==
  /\ \A s, found : Accepts(s, found) => Covers(found)
  /\ \A found : Covers(found) => Accepts("inferred", found)
BY DEF Accepts

\* As long as the coordinator runs, a message is what its stage would say in a
\* sequential run.
LEMMA MessageRead ==
  ASSUME IInv, coordinator # "done", NEW s \in Stages, NEW m \in {chan[s], got[s]}, m # Nil
  PROVE  /\ m \in Messages /\ m.found \in FoundSet \cup {Nil}
         /\ m.found = SeqBest(s, probes[s]) /\ m.diag = SeqBuf(s, probes[s])
         /\ m.accept = Accepts(s, m.found) /\ Whole(s, m.found) /\ FoundBy(s, m.found)
<1>1. Shapes /\ TypeOK /\ Going
  BY DEF IInv
<1>2. m \in Messages
  BY <1>1 DEF Shapes
<1>3. m = Message(s) /\ Whole(s, m.found)
  BY <1>1 DEF Going, Sent
<1>4. FoundBy(s, m.found)
  BY <1>1 DEF TypeOK
<1>. QED
  BY <1>2, <1>3, <1>4 DEF Messages, Message

LEMMA SequentialIs ==
  ASSUME NEW S, NEW L, NEW I, NEW s, NEW l, NEW i,
         S = SeqBest("structured", probes["structured"]),
         s = SeqBuf("structured", probes["structured"]),
         L = SeqBest("library", probes["library"]), l = SeqBuf("library", probes["library"]),
         I = SeqBest("inferred", probes["inferred"]), i = SeqBuf("inferred", probes["inferred"])
  PROVE  /\ Accepts("structured", S) => Sequential = <<S, s>>
         /\ ~ Accepts("structured", S) /\ Accepts("library", L) => Sequential = <<L, s \o l>>
         /\ ~ Accepts("structured", S) /\ ~ Accepts("library", L) /\ Covers(S)
              => Sequential = <<S, s \o l>>
         /\ ~ Accepts("structured", S) /\ ~ Accepts("library", L) /\ ~ Covers(S) /\ Covers(L)
              => Sequential = <<L, s \o l>>
         /\ ~ Accepts("structured", S) /\ ~ Accepts("library", L) /\ ~ Covers(S) /\ ~ Covers(L)
              => Sequential = <<IF Accepts("inferred", I) THEN I ELSE BestOfAll(S, L, I),
                                s \o l \o i>>
BY AcceptedCovers DEF Sequential

LEMMA ConsideredReached ==
  ASSUME NEW s \in Stages, NEW found, Whole(s, found), NEW c \in Considered(s),
         probes[s] \in Seq(CandidateSet)
  PROVE  Reaches(found, SeqCount(c.match)) /\ SeqCount(c.match) \in 0 .. N
<1>1. PICK i \in 1 .. Len(probes[s]) : c = probes[s][i]
  BY DEF Considered, Range
<1>2. Counts(s, c)
  BY DEF Considered, Counts
<1>3. c.match \in SUBSET Lines
  <2>1. c \in CandidateSet
    BY <1>1
  <2>. QED
    BY <2>1 DEF CandidateSet
<1>4. SeqCount(c.match) \in 0 .. N
  BY <1>3, LinesCounted DEF SeqCount
<1>. QED
  BY <1>1, <1>2, <1>4 DEF Whole

LEMMA CoveringMissesNothing ==
  ASSUME NEW found, Covers(found)
  PROVE  found # Nil /\ NoneMissed(found)
BY DEF Covers, NoneMissed

\* The best of all stages, or the fallback, when no stage's best covers.
LEMMA BestMissesNothing ==
  ASSUME Shapes, NEW S \in FoundSet \cup {Nil}, NEW L \in FoundSet \cup {Nil},
         NEW I \in FoundSet \cup {Nil},
         Whole("structured", S), Whole("library", L), Whole("inferred", I),
         ~ Covers(S), ~ Covers(L), ~ Covers(I)
  PROVE  /\ BestOfAll(S, L, I) \in FoundSet
         /\ Exact(BestOfAll(S, L, I)) /\ NoneMissed(BestOfAll(S, L, I))
<1>. DEFINE two == PickBetter(S, L)
            pick == PickBetter(two, I)
            last == Found("fallback", Fallback, SeqCount(Fallback.match))
            all == BestOfAll(S, L, I)
<1>1. N \in Nat /\ Threshold \in 1 .. N + 1 /\ Fallback \in CandidateSet
  BY LinesAssumption, DiscoveryAssumption
<1>2. SeqCount(Fallback.match) \in 0 .. N
  <2>1. Fallback.match \in SUBSET Lines
    BY <1>1 DEF CandidateSet
  <2>. QED
    BY <2>1, LinesCounted DEF SeqCount
<1>3. /\ last \in FoundSet /\ last.matched = SeqCount(Fallback.match)
      /\ last.candidate = Fallback
  <2>1. PICK n \in 0 .. N : n = SeqCount(Fallback.match)
    BY <1>2
  <2>2. PICK family \in Stages \cup {"fallback"} : family = "fallback"
    OBVIOUS
  <2>3. PICK c \in CandidateSet : c = Fallback
    BY <1>1
  <2>4. last = Found(family, c, n)
    BY <2>1, <2>2, <2>3
  <2>. HIDE DEF last
  <2>. QED
    BY <2>1, <2>3, <2>4, FoundTyped
<1>4. /\ two \in {S, L}
      /\ \A n \in Int : Reaches(S, n) \/ Reaches(L, n) => Reaches(two, n)
  BY PickedBetter
<1>. HIDE DEF two
<1>5. two \in FoundSet \cup {Nil}
  BY <1>4
<1>6. /\ pick \in {two, I}
      /\ \A n \in Int : Reaches(two, n) \/ Reaches(I, n) => Reaches(pick, n)
  BY <1>5, PickedBetter
<1>7. all = IF pick # Nil /\ pick.matched > 0 THEN pick ELSE last
  BY DEF BestOfAll, two
<1>. HIDE DEF pick, last, all
<1>8. pick \in {S, L, I} /\ Exact(pick) /\ ~ Covers(pick)
  BY <1>4, <1>6 DEF Whole
<1>9. pick # Nil => pick \in FoundSet /\ pick.matched \in 0 .. N /\ pick.matched < Threshold
  BY <1>1, <1>8, Matches DEF Covers
<1>10. all \in FoundSet /\ Exact(all)
  BY <1>3, <1>7, <1>8, <1>9 DEF Exact
<1>11. NoneMissed(all)
  <2>. SUFFICES ASSUME NEW s \in Stages, NEW c \in Considered(s)
                PROVE  SeqCount(c.match) < Threshold /\ SeqCount(c.match) <= all.matched
    BY DEF NoneMissed
  <2>. DEFINE n == SeqCount(c.match)
  <2>1. probes[s] \in Seq(CandidateSet)
    BY DEF Shapes
  <2>2. n \in 0 .. N /\ (Reaches(S, n) \/ Reaches(L, n) \/ Reaches(I, n))
    BY <2>1, ConsideredReached DEF Stages
  <2>. HIDE DEF n
  <2>3. Reaches(pick, n)
    BY <1>1, <1>4, <1>6, <2>2
  <2>4. pick # Nil /\ pick.matched >= n /\ pick.matched \in 0 .. N /\ pick.matched < Threshold
    BY <1>9, <2>3 DEF Reaches
  <2>5. n <= all.matched
    <3>1. CASE pick.matched > 0
      BY <1>7, <2>4, <3>1
    <3>2. CASE ~ (pick.matched > 0)
      BY <1>1, <1>2, <1>3, <1>7, <2>2, <2>4, <3>2
    <3>. QED
      BY <3>1, <3>2
  <2>6. n < Threshold
    BY <1>1, <2>2, <2>4
  <2>. QED
    BY <2>5, <2>6 DEF n
<1>. QED
  BY <1>10, <1>11 DEF all

-----------------------------------------------------------------------------
(***************************************************************************)
(* The coordinator's steps                                                 *)
(***************************************************************************)
LEMMA ReceiveKeeps ==
  ASSUME IInv, NEW s \in Stages, Receive(s), UNCHANGED <<probes, stageVars>>
  PROVE  /\ coordinator # "done" /\ chan[s] # Nil
         /\ got'[s] = chan[s] /\ \A x \in Stages \ {s} : got'[x] = got[x]
         /\ answer' \in FoundSet \cup {Nil} => Shapes'
         /\ \A x \in Stages : StageOK(x)'
         /\ \A x \in Stages : OnTrack(x)' /\ Sent(x, chan[x])' /\ Sent(x, got[x])'
<1>1. /\ coordinator = s /\ coordinator # "done" /\ chan[s] # Nil
      /\ chan' = [chan EXCEPT ![s] = Nil] /\ got' = [got EXCEPT ![s] = chan[s]]
      /\ probes' = probes /\ at' = at /\ best' = best /\ buf' = buf /\ exited' = exited
  BY DEF Receive, stageVars, Stages
<1>2. /\ Shapes /\ TypeOK /\ Going
      /\ \A x \in Stages : StageOK(x)
      /\ \A x \in Stages : OnTrack(x) /\ Sent(x, chan[x]) /\ Sent(x, got[x])
  BY <1>1, TypesByStage DEF IInv, Going
<1>3. chan \in [Stages -> Messages \cup {Nil}] /\ got \in [Stages -> Messages \cup {Nil}]
  BY <1>2 DEF Shapes
<1>4. /\ chan'[s] = Nil /\ got'[s] = chan[s]
      /\ \A x \in Stages \ {s} : chan'[x] = chan[x] /\ got'[x] = got[x]
      /\ chan' \in [Stages -> Messages \cup {Nil}] /\ got' \in [Stages -> Messages \cup {Nil}]
  BY <1>1, <1>3
<1>5. answer' \in FoundSet \cup {Nil} => Shapes'
  BY <1>1, <1>2, <1>4 DEF Shapes
<1>6. \A x \in Stages : StageOK(x)'
  <2>. TAKE x \in Stages
  <2>1. StageOK(x)
    BY <1>2
  <2>2. /\ at[x] \in 1 .. Len(probes[x]) + 1 /\ FoundBy(x, best[x])
        /\ Len(buf[x]) = at[x] - 1
    BY <2>1 DEF StageOK
  <2>3. (/\ at[x] \in 1 .. Len(probes[x]) + 1 /\ FoundBy(x, best[x])
         /\ Len(buf[x]) = at[x] - 1)'
    BY <1>1, <2>2 DEF FoundBy
  <2>4. /\ (chan[x] # Nil => x \in exited /\ got[x] = Nil /\ FoundBy(x, chan[x].found))'
        /\ (got[x] # Nil => x \in exited /\ FoundBy(x, got[x].found))'
    <3>1. CASE x = s
      BY <1>1, <1>4, <2>1, <3>1 DEF StageOK, FoundBy
    <3>2. CASE x # s
      BY <1>1, <1>4, <2>1, <3>2 DEF StageOK, FoundBy
    <3>. QED
      BY <3>1, <3>2
  <2>. QED
    BY <2>3, <2>4 DEF StageOK
<1>7. \A x \in Stages : OnTrack(x)' /\ Sent(x, chan[x])' /\ Sent(x, got[x])'
  <2>. TAKE x \in Stages
  <2>1. OnTrack(x)'
    BY <1>1, <1>2 DEF OnTrack
  <2>2. CASE x = s
    BY <1>1, <1>2, <1>4, <2>1, <2>2 DEF Sent, Message, Whole
  <2>3. CASE x # s
    BY <1>1, <1>2, <1>4, <2>1, <2>3 DEF Sent, Message, Whole
  <2>. QED
    BY <2>2, <2>3
<1>. QED
  BY <1>1, <1>4, <1>5, <1>6, <1>7

LEMMA ContinueKeeps ==
  ASSUME IInv, NEW s \in Stages, Receive(s), UNCHANGED <<probes, stageVars>>,
         NEW next \in Stages, Continue(next), Phases'
  PROVE  IInv'
<1>1. /\ coordinator' = next /\ next # "done" /\ aborted' = aborted /\ answer' = answer
      /\ exited' = exited
  BY DEF Continue, stageVars, Stages
<1>2. /\ Shapes /\ Going /\ coordinator # "done"
      /\ answer \in FoundSet \cup {Nil}
      /\ aborted \in [Stages -> BOOLEAN] /\ exited \subseteq Stages
      /\ (coordinator = "done") = (answer # Nil)
  BY ReceiveKeeps, TypesByStage DEF IInv, Shapes
<1>3. Shapes'
  BY <1>1, <1>2, ReceiveKeeps
<1>4. TypeOK'
  BY <1>1, <1>2, ReceiveKeeps, TypesByStageNext
<1>5. Going'
  BY <1>1, <1>2, ReceiveKeeps DEF Going
<1>6. Settled'
  BY <1>1 DEF Settled
<1>. QED
  BY <1>3, <1>4, <1>5, <1>6 DEF IInv

LEMMA ReturnKeeps ==
  ASSUME IInv, NEW s \in Stages, Receive(s), UNCHANGED <<probes, stageVars>>,
         NEW found \in FoundSet, NEW flushed, NEW losers, Return(found, flushed, losers),
         <<found, flushed>> = Sequential, Exact(found), NoneMissed(found)
  PROVE  IInv'
<1>1. /\ coordinator' = "done" /\ answer' = found /\ diag' = flushed /\ found # Nil
      /\ aborted' = [x \in Stages |-> aborted[x] \/ x \in losers]
      /\ probes' = probes /\ exited' = exited /\ exited \subseteq Stages
  BY NilIsNotFound, TypesByStage DEF Return, AbortStages, stageVars, IInv
<1>2. aborted' \in [Stages -> BOOLEAN]
  BY <1>1
<1>3. Shapes'
  BY <1>1, ReceiveKeeps
<1>4. TypeOK'
  BY <1>1, <1>2, ReceiveKeeps, TypesByStageNext
<1>5. Going' /\ Phases'
  BY <1>1 DEF Going, Phases, Stages
<1>6. Settled'
  <2>1. Sequential' = Sequential /\ NoneMissed(found)'
    BY <1>1, SequentialKept
  <2>. QED
    BY <1>1, <2>1 DEF Settled, Exact, NoneMissed
<1>. QED
  BY <1>3, <1>4, <1>5, <1>6 DEF IInv

LEMMA ReadStructuredKeeps == IInv /\ ReadStructured => IInv'
<1>. SUFFICES ASSUME IInv, ReadStructured PROVE IInv'
  OBVIOUS
<1>1. PICK s \in Stages : s = "structured"
  BY DEF Stages
<1>2. PICK r : r = chan[s]
  OBVIOUS
<1>3. /\ Receive(s) /\ UNCHANGED <<probes, stageVars>> /\ coordinator = s
      /\ IF r.accept THEN Return(r.found, r.diag, {"library", "inferred"})
         ELSE Continue("library")
  BY <1>1, <1>2 DEF ReadStructured, Receive
<1>4. /\ coordinator # "done" /\ r # Nil /\ got'[s] = r
      /\ r.found \in FoundSet \cup {Nil} /\ Whole(s, r.found)
      /\ r.accept = Accepts(s, r.found)
      /\ r.found = SeqBest(s, probes[s]) /\ r.diag = SeqBuf(s, probes[s])
  BY <1>2, <1>3, ReceiveKeeps, MessageRead
<1>5. CASE Accepts(s, r.found)
  <2>1. Return(r.found, r.diag, {"library", "inferred"})
    BY <1>3, <1>4, <1>5
  <2>2. r.found # Nil /\ NoneMissed(r.found)
    BY <1>5, AcceptedCovers, CoveringMissesNothing
  <2>3. Sequential = <<r.found, r.diag>>
    BY <1>1, <1>4, <1>5, SequentialIs
  <2>4. PICK found \in FoundSet : found = r.found
    BY <1>4, <2>2
  <2>5. Exact(found)
    BY <1>4, <2>4 DEF Whole
  <2>. QED
    BY <1>3, <2>1, <2>2, <2>3, <2>4, <2>5, ReturnKeeps
<1>6. CASE ~ Accepts(s, r.found)
  <2>1. Continue("library") /\ coordinator' = "library"
    BY <1>3, <1>4, <1>6 DEF Continue
  <2>2. Phases'
    BY <1>1, <1>4, <1>6, <2>1 DEF Phases
  <2>. QED
    BY <1>3, <2>1, <2>2, ContinueKeeps DEF Stages
<1>. QED
  BY <1>5, <1>6

LEMMA ReadLibraryKeeps == IInv /\ ReadLibrary => IInv'
<1>. SUFFICES ASSUME IInv, ReadLibrary PROVE IInv'
  OBVIOUS
<1>1. PICK x \in Stages, s \in Stages : x = "structured" /\ s = "library"
  BY DEF Stages
<1>2. PICK q, r, two : q = got[x] /\ r = chan[s] /\ two = q.diag \o r.diag
  OBVIOUS
<1>3. /\ Receive(s) /\ UNCHANGED <<probes, stageVars>> /\ coordinator = "library"
      /\ IF r.accept THEN Return(r.found, two, {"inferred"})
         ELSE IF Covers(q.found) THEN Return(q.found, two, {"inferred"})
         ELSE IF Covers(r.found) THEN Return(r.found, two, {"inferred"})
         ELSE Continue("inferred")
  BY <1>1, <1>2 DEF ReadLibrary, Receive
<1>4. q # Nil /\ ~ Accepts(x, q.found) /\ got'[x] = q
  BY <1>1, <1>2, <1>3, ReceiveKeeps DEF IInv, Phases
<1>5. /\ coordinator # "done" /\ r # Nil /\ got'[s] = r
      /\ r.found \in FoundSet \cup {Nil} /\ Whole(s, r.found)
      /\ r.accept = Accepts(s, r.found)
      /\ r.found = SeqBest(s, probes[s]) /\ r.diag = SeqBuf(s, probes[s])
  BY <1>2, <1>3, ReceiveKeeps, MessageRead
<1>6. /\ q.found \in FoundSet \cup {Nil} /\ Whole(x, q.found)
      /\ q.found = SeqBest(x, probes[x]) /\ q.diag = SeqBuf(x, probes[x])
  BY <1>2, <1>4, <1>5, MessageRead
<1>7. /\ Accepts(s, r.found) => Sequential = <<r.found, two>>
      /\ ~ Accepts(s, r.found) /\ Covers(q.found) => Sequential = <<q.found, two>>
      /\ ~ Accepts(s, r.found) /\ ~ Covers(q.found) /\ Covers(r.found)
           => Sequential = <<r.found, two>>
  BY <1>1, <1>2, <1>4, <1>5, <1>6, SequentialIs
<1>8. ASSUME NEW found \in {q.found, r.found}, Covers(found),
             Return(found, two, {"inferred"}), Sequential = <<found, two>>
      PROVE  IInv'
  <2>1. found \in FoundSet /\ NoneMissed(found) /\ Exact(found)
    BY <1>5, <1>6, <1>8, CoveringMissesNothing DEF Whole
  <2>. QED
    BY <1>3, <1>8, <2>1, ReturnKeeps
<1>9. CASE Accepts(s, r.found)
  BY <1>3, <1>5, <1>7, <1>8, <1>9, AcceptedCovers
<1>10. CASE ~ Accepts(s, r.found) /\ Covers(q.found)
  BY <1>3, <1>5, <1>7, <1>8, <1>10
<1>11. CASE ~ Accepts(s, r.found) /\ ~ Covers(q.found) /\ Covers(r.found)
  BY <1>3, <1>5, <1>7, <1>8, <1>11
<1>12. CASE ~ Accepts(s, r.found) /\ ~ Covers(q.found) /\ ~ Covers(r.found)
  <2>1. Continue("inferred") /\ coordinator' = "inferred"
    BY <1>3, <1>5, <1>12 DEF Continue
  <2>2. Phases'
    BY <1>1, <1>4, <1>5, <1>12, <2>1 DEF Phases
  <2>. QED
    BY <1>3, <2>1, <2>2, ContinueKeeps DEF Stages
<1>. QED
  BY <1>9, <1>10, <1>11, <1>12

LEMMA ReadInferredKeeps == IInv /\ ReadInferred => IInv'
<1>. SUFFICES ASSUME IInv, ReadInferred PROVE IInv'
  OBVIOUS
<1>1. PICK x \in Stages, y \in Stages, s \in Stages :
        x = "structured" /\ y = "library" /\ s = "inferred"
  BY DEF Stages
<1>2. PICK p, q, r, all, best3 :
        /\ p = got[x] /\ q = got[y] /\ r = chan[s] /\ all = p.diag \o q.diag \o r.diag
        /\ best3 = IF r.accept THEN r.found ELSE BestOfAll(p.found, q.found, r.found)
  OBVIOUS
<1>3. /\ Receive(s) /\ UNCHANGED <<probes, stageVars>> /\ coordinator = "inferred"
      /\ Return(best3, all, {})
  BY <1>1, <1>2 DEF ReadInferred, Receive
<1>4. /\ p # Nil /\ ~ Accepts(x, p.found) /\ ~ Covers(p.found)
      /\ q # Nil /\ ~ Accepts(y, q.found) /\ ~ Covers(q.found)
  BY <1>1, <1>2, <1>3 DEF IInv, Phases
<1>5. /\ coordinator # "done" /\ r # Nil
      /\ r.found \in FoundSet \cup {Nil} /\ Whole(s, r.found)
      /\ r.accept = Accepts(s, r.found)
      /\ r.found = SeqBest(s, probes[s]) /\ r.diag = SeqBuf(s, probes[s])
  BY <1>2, <1>3, ReceiveKeeps, MessageRead
<1>6. /\ p.found \in FoundSet \cup {Nil} /\ Whole(x, p.found)
      /\ p.found = SeqBest(x, probes[x]) /\ p.diag = SeqBuf(x, probes[x])
  BY <1>2, <1>4, <1>5, MessageRead
<1>7. /\ q.found \in FoundSet \cup {Nil} /\ Whole(y, q.found)
      /\ q.found = SeqBest(y, probes[y]) /\ q.diag = SeqBuf(y, probes[y])
  BY <1>2, <1>4, <1>5, MessageRead
<1>8. best3 = IF Accepts(s, r.found) THEN r.found ELSE BestOfAll(p.found, q.found, r.found)
  BY <1>2, <1>5
<1>9. Sequential = <<best3, all>>
  BY <1>1, <1>2, <1>4, <1>5, <1>6, <1>7, <1>8, SequentialIs
<1>10. best3 \in FoundSet /\ Exact(best3) /\ NoneMissed(best3)
  <2>1. CASE Accepts(s, r.found)
    BY <1>5, <1>8, <2>1, AcceptedCovers, CoveringMissesNothing DEF Whole
  <2>2. CASE ~ Accepts(s, r.found)
    <3>1. ~ Covers(r.found)
      BY <1>1, <2>2, AcceptedCovers
    <3>. QED
      BY <1>1, <1>4, <1>5, <1>6, <1>7, <1>8, <2>2, <3>1, BestMissesNothing DEF IInv
  <2>. QED
    BY <2>1, <2>2
<1>. QED
  BY <1>3, <1>9, <1>10, ReturnKeeps

-----------------------------------------------------------------------------
(***************************************************************************)
(* The theorems                                                            *)
(***************************************************************************)
\* In every state of every schedule: until the coordinator has returned no stage
\* is aborted, each is where it would be on its own, and each message says what a
\* scan to the end says; what is returned then does not depend on the rest
\* (Discover and the stage goroutines, discovery.go 79-226).
THEOREM DiscoverInvariant == Spec => []IInv
<1>1. IInv /\ [Next]_vars => IInv'
  <2>. SUFFICES ASSUME IInv, [Next]_vars PROVE IInv'
    OBVIOUS
  <2>1. CASE ReadStructured
    BY <2>1, ReadStructuredKeeps
  <2>2. CASE ReadLibrary
    BY <2>2, ReadLibraryKeeps
  <2>3. CASE ReadInferred
    BY <2>3, ReadInferredKeeps
  <2>4. ASSUME NEW s \in Stages, Scan(s) PROVE IInv'
    BY <2>4, ScanKeeps
  <2>5. ASSUME NEW s \in Stages, Finish(s) PROVE IInv'
    BY <2>5, FinishKeeps
  <2>6. CASE UNCHANGED vars
    BY <2>6, StutterInv
  <2>. QED
    BY <2>1, <2>2, <2>3, <2>4, <2>5, <2>6 DEF Next, Coordinate, StageStep
<1>. QED
  BY <1>1, InitInv, PTL DEF Spec

\* Whatever the schedule, Discover returns and writes what the stages would one
\* after another: stage priority and not finish order decides, and nothing of a
\* scan that was cut short leaks (discovery.go 124-226).
THEOREM DiscoverDeterministic == Spec => []Deterministic
<1>1. IInv => Deterministic
  BY DEF IInv, Settled, Deterministic
<1>. QED
  BY <1>1, DiscoverInvariant, PTL

\* No order of events, pruning floor or abort makes Discover settle for less than
\* it has seen: either the answer covers the threshold or no candidate that a
\* stage considered does, and none matches more lines (discovery.go 172-226).
THEOREM DiscoverMissesNothing == Spec => []NothingBetterMissed
<1>1. IInv => NothingBetterMissed
  BY DEF IInv, Settled, NoneMissed, NothingBetterMissed
<1>. QED
  BY <1>1, DiscoverInvariant, PTL

\* The count Discover reports is the number of lines its pattern matches, never
\* the partial count of a pruned or a cancelled scan, and every stage works on its
\* own candidates only (discovery.go 79-226).
THEOREM DiscoverCountsSound == Spec => []CountsSound
<1>1. IInv => CountsSound
  <2>. SUFFICES ASSUME IInv PROVE TypeOK /\ ReportedCountExact
    BY DEF CountsSound
  <2>1. TypeOK /\ Settled
    BY DEF IInv
  <2>2. coordinator = "done" => answer # Nil
    BY <2>1, TypesByStage
  <2>3. ReportedCountExact
    BY <2>1, <2>2 DEF Settled, Exact, ReportedCountExact
  <2>. QED
    BY <2>1, <2>3
<1>. QED
  BY <1>1, DiscoverInvariant, PTL

-----------------------------------------------------------------------------
(***************************************************************************)
(* Sampling                                                                *)
(***************************************************************************)
LEMMA Smaller ==
  ASSUME NEW a \in Int, NEW b \in Int
  PROVE  Min({a, b}) = IF a <= b THEN a ELSE b
<1>. DEFINE m == IF a <= b THEN a ELSE b
<1>1. m \in {a, b} /\ \A y \in {a, b} : m <= y
  OBVIOUS
<1>2. \A x \in {a, b} : (\A y \in {a, b} : x <= y) => x = m
  OBVIOUS
<1>. HIDE DEF m
<1>3. Min({a, b}) = m
  BY <1>1, <1>2 DEF Min
<1>. QED
  BY <1>3 DEF m

LEMMA Divided ==
  ASSUME NEW a \in Nat, NEW b \in Nat \ {0}
  PROVE  /\ a \div b \in Nat /\ a % b \in Nat /\ a % b < b
         /\ a = b * (a \div b) + (a % b)
OBVIOUS

LEMMA TimesMonotone ==
  ASSUME NEW a \in Int, NEW b \in Int, NEW m \in Nat, a <= b
  PROVE  m * a <= m * b
OBVIOUS

\* A quotient lies where its multiples say.
LEMMA QuotientAtLeast ==
  ASSUME NEW a \in Nat, NEW b \in Nat \ {0}, NEW q \in Int, b * q <= a
  PROVE  q <= a \div b
<1>1. a \div b \in Nat /\ a < b * (a \div b) + b
  BY Divided
<1>2. SUFFICES ASSUME a \div b + 1 <= q PROVE FALSE
  BY <1>1
<1>3. b * (a \div b + 1) <= b * q
  BY <1>1, <1>2, TimesMonotone
<1>4. b * (a \div b + 1) = b * (a \div b) + b
  BY <1>1
<1>. QED
  BY <1>1, <1>3, <1>4

LEMMA QuotientBelow ==
  ASSUME NEW a \in Nat, NEW b \in Nat \ {0}, NEW q \in Int, a < b * q
  PROVE  a \div b < q
<1>1. a \div b \in Nat /\ b * (a \div b) <= a
  BY Divided
<1>2. SUFFICES ASSUME q <= a \div b PROVE FALSE
  BY <1>1
<1>3. b * q <= b * (a \div b)
  BY <1>1, <1>2, TimesMonotone
<1>. QED
  BY <1>1, <1>3

LEMMA NoRest ==
  ASSUME NEW a \in Nat, NEW b \in Nat \ {0}, NEW q \in Int, a = b * q
  PROVE  a % b = 0
<1>1. a \div b \in Nat /\ a % b \in Nat /\ a = b * (a \div b) + (a % b)
  BY Divided
<1>2. q <= a \div b
  BY QuotientAtLeast
<1>3. b * q <= b * (a \div b)
  BY <1>1, <1>2, TimesMonotone
<1>. QED
  BY <1>1, <1>3

\* A step of the sample: it starts at 0, advances, by no more than the stride,
\* and the last of them leaves less than a stride.
LEMMA StrideSteps ==
  ASSUME NEW rest \in Nat, NEW remaining \in Nat \ {0}, remaining < rest,
         NEW c \in Nat, rest <= remaining * c, c <= rest,
         NEW k \in 0 .. remaining - 1, NEW o \in Stride(rest, remaining, k)
  PROVE  /\ o \in 0 .. rest - 1
         /\ k = 0 => o = 0
         /\ k = remaining - 1 => o >= rest - c
         /\ \A p \in Stride(rest, remaining, k + 1) : o < p /\ p <= o + c
<1>. DEFINE a == k * rest  b == (k + 1) * rest
            e == a \div remaining  f == b \div remaining
            OnStep(x) == x % remaining = 0 /\ rest % remaining # 0
<1>1. k \in Nat /\ a \in Nat /\ b \in Nat /\ b = a + rest
  OBVIOUS
<1>2. /\ e \in Nat /\ f \in Nat
      /\ remaining * e <= a /\ a < remaining * e + remaining
      /\ remaining * f <= b /\ b < remaining * f + remaining
      /\ OnStep(a) => a = remaining * e
      /\ OnStep(b) => b = remaining * f
  BY <1>1, Divided
<1>3. o = e \/ (o = e - 1 /\ OnStep(a) /\ k > 0)
  BY <1>1 DEF Stride
<1>4. \A p \in Stride(rest, remaining, k + 1) : p = f \/ (p = f - 1 /\ OnStep(b))
  BY <1>1 DEF Stride
<1>5. k = 0 => e = 0
  <2>1. SUFFICES ASSUME k = 0 PROVE e < 1
    BY <1>2
  <2>2. a < remaining * 1
    BY <2>1
  <2>. QED
    BY <1>1, <2>2, QuotientBelow
<1>6. k > 0 => e >= 1
  <2>1. SUFFICES ASSUME k > 0 PROVE 1 <= e
    BY <1>2
  <2>2. 1 * rest <= a
    BY <2>1
  <2>3. remaining * 1 <= a
    BY <2>2
  <2>. QED
    BY <1>1, <2>3, QuotientAtLeast
<1>7. e < f
  <2>1. SUFFICES ASSUME f <= e PROVE FALSE
    BY <1>2
  <2>2. remaining * f <= remaining * e
    BY <1>2, <2>1, TimesMonotone
  <2>. HIDE DEF a, b, e, f
  <2>. QED
    BY <1>1, <1>2, <2>2
<1>8. f <= e + c
  <2>1. remaining * (e + c + 1) = remaining * e + remaining * c + remaining
    BY <1>2
  <2>2. b < remaining * (e + c + 1)
    <3>. HIDE DEF a, b, e, f
    <3>. QED
      BY <1>1, <1>2, <2>1
  <2>3. e + c + 1 \in Int
    BY <1>2
  <2>4. b \div remaining < e + c + 1
    BY ONLY <1>1, <2>2, <2>3, QuotientBelow, remaining \in Nat \ {0}
  <2>. QED
    BY <1>2, <2>4
<1>9. OnStep(b) => e < f - 1
  <2>1. SUFFICES ASSUME OnStep(b) PROVE e < f - 1
    OBVIOUS
  <2>2. remaining * (f - 1) = remaining * f - remaining
    BY <1>2
  <2>3. a < remaining * (f - 1)
    <3>. HIDE DEF a, b, e, f, OnStep
    <3>. QED
      BY <1>1, <1>2, <2>1, <2>2
  <2>4. f - 1 \in Int
    BY <1>2
  <2>. QED
    BY ONLY <1>1, <2>3, <2>4, QuotientBelow, remaining \in Nat \ {0}
<1>10. OnStep(a) => f < e + c
  <2>1. SUFFICES ASSUME OnStep(a) PROVE f < e + c
    OBVIOUS
  <2>2. rest # remaining * c
    <3>1. rest = remaining * c => rest % remaining = 0
      BY ONLY NoRest, rest \in Nat, remaining \in Nat \ {0}, c \in Nat
    <3>. QED
      BY <2>1, <3>1
  <2>3. remaining * (e + c) = remaining * e + remaining * c
    BY <1>2
  <2>4. b < remaining * (e + c)
    <3>. HIDE DEF a, b, e, f, OnStep
    <3>. QED
      BY <1>1, <1>2, <2>1, <2>2, <2>3
  <2>5. e + c \in Int
    BY <1>2
  <2>. QED
    BY ONLY <1>1, <2>4, <2>5, QuotientBelow, remaining \in Nat \ {0}
<1>11. e < rest
  <2>1. rest * k <= rest * (remaining - 1)
    <3>1. k \in Int /\ remaining - 1 \in Int /\ k <= remaining - 1
      OBVIOUS
    <3>. QED
      BY ONLY <3>1, TimesMonotone, rest \in Nat
  <2>2. rest * (remaining - 1) = remaining * rest - rest /\ a = rest * k
    OBVIOUS
  <2>3. a < remaining * rest
    <3>. HIDE DEF a, b, e, f, OnStep
    <3>. QED
      BY <1>1, <2>1, <2>2
  <2>. QED
    BY ONLY <1>1, <2>3, QuotientBelow, remaining \in Nat \ {0}, rest \in Nat
<1>12. k = remaining - 1 => e >= rest - c /\ ~ OnStep(a)
  <2>1. SUFFICES ASSUME k = remaining - 1 PROVE e >= rest - c /\ ~ OnStep(a)
    OBVIOUS
  <2>2. a = remaining * rest - rest
    BY <2>1
  <2>3. remaining * (rest - c) = remaining * rest - remaining * c
    OBVIOUS
  <2>4. remaining * (rest - c) <= a
    <3>. HIDE DEF a, b, e, f, OnStep
    <3>. QED
      BY <1>1, <2>2, <2>3
  <2>5. rest - c \in Int
    OBVIOUS
  <2>6. rest - c <= a \div remaining
    BY ONLY <1>1, <2>4, <2>5, QuotientAtLeast, remaining \in Nat \ {0}
  <2>7. ASSUME OnStep(a) PROVE FALSE
    <3>1. remaining * (rest - e) = remaining * rest - remaining * e
      BY <1>2
    <3>2. a = remaining * e
      BY <1>2, <2>7
    <3>3. rest = remaining * (rest - e)
      <4>. HIDE DEF a, b, e, f, OnStep
      <4>. QED
        BY <1>1, <1>2, <2>2, <3>1, <3>2
    <3>4. rest - e \in Int
      BY <1>2
    <3>5. rest % remaining = 0
      BY ONLY <3>3, <3>4, NoRest, remaining \in Nat \ {0}, rest \in Nat
    <3>. QED
      BY <2>7, <3>5
  <2>. QED
    BY <1>2, <2>6, <2>7
<1>. HIDE DEF a, b, e, f, OnStep
<1>13. o \in 0 .. rest - 1
  BY <1>2, <1>3, <1>6, <1>11
<1>14. k = 0 => o = 0
  BY <1>1, <1>3, <1>5
<1>15. k = remaining - 1 => o >= rest - c
  BY <1>2, <1>3, <1>12
<1>16. \A p \in Stride(rest, remaining, k + 1) : o < p /\ p <= o + c
  BY <1>2, <1>3, <1>4, <1>7, <1>8, <1>9, <1>10
<1>. QED
  BY <1>13, <1>14, <1>15, <1>16

-----------------------------------------------------------------------------
(***************************************************************************)
(* SampleSound                                                             *)
(***************************************************************************)
\* What is asked of a sample of max lines out of n.
Spread(s, n, max) ==
  LET rest == n - FirstLines
      remaining == max - FirstLines
      stride == (rest + remaining - 1) \div remaining
  IN  /\ Len(s) = Min({n, max}) /\ DOMAIN s = 1 .. Len(s)
      /\ \A k \in 1 .. Len(s) : s[k] \in 1 .. n
      /\ \A k \in 2 .. Len(s) : s[k - 1] < s[k]
      /\ n > max => \A i \in 1 .. n - stride + 1 :
                      \E k \in 1 .. Len(s) : s[k] \in i .. i + stride - 1

\* A sample whose steps are short leaves no window without a line.
LEMMA WindowHit ==
  ASSUME NEW m \in Nat \ {0}, NEW s \in [1 .. m -> Nat], NEW n \in Nat, NEW c \in Nat \ {0},
         s[1] = 1, s[m] >= n - c + 1,
         \A k \in 2 .. m : s[k] <= s[k - 1] + c,
         NEW i \in 1 .. n - c + 1
  PROVE  \E k \in 1 .. m : s[k] \in i .. i + c - 1
<1>. DEFINE T == {k \in 1 .. m : s[k] >= i}
<1>1. T \in SUBSET Nat /\ m \in T
  OBVIOUS
<1>2. PICK k \in T : \A j \in T : k <= j
  BY <1>1, LeastOf
<1>3. CASE k = 1
  BY <1>2, <1>3
<1>4. CASE k # 1
  <2>1. k \in 2 .. m /\ k - 1 \in 1 .. m /\ k - 1 \notin T
    BY <1>2, <1>4
  <2>2. s[k - 1] < i /\ s[k] >= i /\ s[k] <= s[k - 1] + c /\ s[k] \in Nat /\ s[k - 1] \in Nat
    BY <1>2, <2>1
  <2>. QED
    BY <2>1, <2>2
<1>. QED
  BY <1>3, <1>4

LEMMA SampleSpread ==
  ASSUME NEW n \in Nat, NEW max \in Nat \ {0}, FirstLines < max, NEW s \in ChooseSample(n, max)
  PROVE  Spread(s, n, max)
<1>0. FirstLines \in Nat \ {0}
  BY SamplingAssumption
<1>. DEFINE rest == n - FirstLines
            remaining == max - FirstLines
            stride == (rest + remaining - 1) \div remaining
<1>1. CASE n = 0
  <2>1. s = <<>> /\ Len(s) = 0 /\ Min({n, max}) = 0
    BY <1>1, Smaller DEF ChooseSample
  <2>. QED
    BY <1>1, <2>1 DEF Spread
<1>2. CASE n # 0 /\ n <= max
  <2>1. s = [i \in 1 .. n |-> i]
    BY <1>2 DEF ChooseSample
  <2>2. Len(s) = n /\ Min({n, max}) = n
    BY <1>2, <2>1, Smaller
  <2>. QED
    BY <1>2, <2>1, <2>2 DEF Spread
<1>3. CASE n > max
  <2>1. Min({FirstLines, max, n}) = FirstLines
    <3>1. \A x \in {FirstLines, max, n} :
            (\A y \in {FirstLines, max, n} : x <= y) <=> x = FirstLines
      BY <1>0, <1>3
    <3>. QED
      BY <3>1 DEF Min
  <2>2. /\ rest \in Nat /\ remaining \in Nat \ {0} /\ remaining < rest
        /\ rest + remaining - 1 \in Nat
    BY <1>0, <1>3
  <2>3. PICK o \in [0 .. remaining - 1 -> 0 .. n] :
          /\ \A k \in DOMAIN o : o[k] \in Stride(rest, remaining, k)
          /\ s = [i \in 1 .. max |-> IF i <= FirstLines THEN i
                                     ELSE LineAt(FirstLines, o[i - FirstLines - 1], n)]
    <3>. DEFINE m == Min({FirstLines, max, n})
                Places == [0 .. max - m - 1 -> 0 .. n]
                Steps == {f \in Places : \A k \in DOMAIN f : f[k] \in Stride(n - m, max - m, k)}
                Sample1(f) == [i \in 1 .. max |-> IF i <= m THEN i ELSE LineAt(m, f[i - m - 1], n)]
    <3>1. ~ (max <= 0 \/ n = 0) /\ ~ (n <= max)
      BY <1>3
    <3>2. ChooseSample(n, max) = {Sample1(f) : f \in Steps}
      BY ONLY <3>1, Zenon DEF ChooseSample
    <3>. HIDE DEF Sample1, m
    <3>3. PICK o \in Steps : s = Sample1(o)
      BY ONLY <3>2, s \in ChooseSample(n, max)
    <3>4. m = FirstLines
      BY <2>1 DEF m
    <3>5. o \in [0 .. remaining - 1 -> 0 .. n]
      BY <3>3, <3>4
    <3>6. \A k \in DOMAIN o : o[k] \in Stride(rest, remaining, k)
      BY <3>3, <3>4
    <3>7. s = [i \in 1 .. max |-> IF i <= FirstLines THEN i
                                  ELSE LineAt(FirstLines, o[i - FirstLines - 1], n)]
      BY <3>3, <3>4 DEF Sample1
    <3>. QED
      BY <3>5, <3>6, <3>7
  <2>. DEFINE c == stride
  <2>4. c \in Nat \ {0} /\ c <= rest /\ rest <= remaining * c
    <3>. DEFINE a == rest + remaining - 1
    <3>1. a \in Nat /\ c = a \div remaining
      BY <2>2
    <3>. HIDE DEF rest, remaining, c
    <3>2. c \in Nat /\ a < remaining * c + remaining
      BY ONLY <2>2, <3>1, Divided
    <3>3. remaining * 1 <= a /\ 1 \in Int
      BY ONLY <2>2
    <3>4. 1 <= c
      BY ONLY <2>2, <3>1, <3>3, QuotientAtLeast
    <3>5. rest * 1 <= rest * remaining
      BY ONLY <2>2, TimesMonotone
    <3>6. a < remaining * (rest + 1) /\ rest + 1 \in Int
      BY ONLY <2>2, <3>5
    <3>7. c < rest + 1
      BY ONLY <2>2, <3>1, <3>6, QuotientBelow
    <3>. QED
      BY ONLY <2>2, <3>2, <3>4, <3>7
  <2>. HIDE DEF rest, remaining, stride, c
  <2>5. \A k \in 0 .. remaining - 1 :
          /\ o[k] \in 0 .. rest - 1
          /\ k = 0 => o[k] = 0
          /\ k = remaining - 1 => o[k] >= rest - c
          /\ k + 1 <= remaining - 1 => o[k] < o[k + 1] /\ o[k + 1] <= o[k] + c
    <3>. TAKE k \in 0 .. remaining - 1
    <3>1. DOMAIN o = 0 .. remaining - 1 /\ o[k] \in Stride(rest, remaining, k)
      BY <2>3
    <3>2. k + 1 <= remaining - 1 => o[k + 1] \in Stride(rest, remaining, k + 1)
      BY <2>2, <2>3, <3>1
    <3>3. c \in Nat
      BY ONLY <2>4
    <3>4. /\ o[k] \in 0 .. rest - 1
          /\ k = 0 => o[k] = 0
          /\ k = remaining - 1 => o[k] >= rest - c
          /\ \A p \in Stride(rest, remaining, k + 1) : o[k] < p /\ p <= o[k] + c
      BY ONLY <2>2, <2>4, <3>1, <3>3, StrideSteps, k \in 0 .. remaining - 1
    <3>. QED
      BY ONLY <3>2, <3>4
  <2>6. \A k \in 1 .. max :
          /\ k <= FirstLines => s[k] = k
          /\ k > FirstLines => s[k] = FirstLines + o[k - FirstLines - 1] + 1
          /\ s[k] \in 1 .. n
    <3>. TAKE k \in 1 .. max
    <3>0. FirstLines + rest = n /\ FirstLines + remaining = max
      BY <1>0, <1>3 DEF rest, remaining
    <3>1. CASE k <= FirstLines
      BY <1>0, <1>3, <2>3, <3>1
    <3>2. CASE k > FirstLines
      <4>. DEFINE j == k - FirstLines - 1
      <4>1. j \in 0 .. remaining - 1
        BY ONLY <1>0, <3>0, <3>2, k \in 1 .. max, <2>2, max \in Nat
      <4>2. o[j] \in 0 .. rest - 1
        BY <2>5, <4>1
      <4>3. s[k] = LineAt(FirstLines, o[j], n)
        BY <1>0, <2>3, <3>2
      <4>4. FirstLines + o[j] + 1 \in 1 .. n
        BY ONLY SMTT(60), <1>0, <2>2, <3>0, <4>2, n \in Nat
      <4>5. LineAt(FirstLines, o[j], n) = FirstLines + o[j] + 1
        BY ONLY <4>4, Smaller, n \in Nat DEF LineAt
      <4>6. s[k] = FirstLines + o[j] + 1 /\ s[k] \in 1 .. n
        BY ONLY <4>3, <4>4, <4>5
      <4>7. ~ (k <= FirstLines)
        BY ONLY <1>0, <3>2, k \in 1 .. max
      <4>. QED
        BY ONLY <4>6, <4>7
    <3>. QED
      BY <1>0, <3>1, <3>2
  <2>7. s \in [1 .. max -> Nat] /\ Len(s) = max /\ DOMAIN s = 1 .. Len(s) /\ Min({n, max}) = max
    BY <1>3, <2>3, <2>6, Smaller
  <2>8. \A k \in 2 .. max : s[k - 1] < s[k] /\ s[k] <= s[k - 1] + c
    <3>. TAKE k \in 2 .. max
    <3>1. k \in Nat /\ k - 1 \in 1 .. max /\ k \in 1 .. max /\ k >= 2
      OBVIOUS
    <3>2. CASE k <= FirstLines
      BY <1>0, <2>4, <2>6, <3>1, <3>2
    <3>3. CASE k = FirstLines + 1
      <4>1. k - FirstLines - 1 = 0 /\ 0 \in 0 .. remaining - 1
        BY <1>0, <2>2, <3>3
      <4>2. o[0] = 0
        BY <2>5, <4>1
      <4>3. s[k] = FirstLines + 1 /\ s[k - 1] = FirstLines
        BY <1>0, <2>6, <3>1, <3>3, <4>1, <4>2
      <4>. QED
        BY <1>0, <2>4, <4>3
    <3>4. CASE k > FirstLines + 1
      <4>. DEFINE j == k - FirstLines - 2
      <4>0. FirstLines + remaining = max
        BY <1>0 DEF remaining
      <4>1. j \in 0 .. remaining - 1 /\ j + 1 <= remaining - 1
        BY ONLY <1>0, <2>2, <3>4, <4>0, k \in 2 .. max, max \in Nat
      <4>2. o[j] < o[j + 1] /\ o[j + 1] <= o[j] + c /\ o[j] \in Nat /\ o[j + 1] \in Nat
        <5>1. j + 1 \in 0 .. remaining - 1
          BY ONLY <2>2, <4>1
        <5>. QED
          BY ONLY <2>5, <4>1, <5>1
      <4>3. s[k] = FirstLines + o[j + 1] + 1 /\ s[k - 1] = FirstLines + o[j] + 1
        <5>1. k - FirstLines - 1 = j + 1 /\ (k - 1) - FirstLines - 1 = j
          BY <1>0, <3>1
        <5>2. k > FirstLines /\ k - 1 > FirstLines
          BY <1>0, <3>1, <3>4
        <5>. HIDE DEF j
        <5>3. s[k] = FirstLines + o[k - FirstLines - 1] + 1
          BY ONLY <2>6, <3>1, <5>2
        <5>4. s[k - 1] = FirstLines + o[(k - 1) - FirstLines - 1] + 1
          <6>. DEFINE h == k - 1
          <6>1. h \in 1 .. max /\ h > FirstLines
            BY ONLY <3>1, <5>2
          <6>. HIDE DEF h
          <6>2. s[h] = FirstLines + o[h - FirstLines - 1] + 1
            BY ONLY <2>6, <6>1
          <6>. QED
            BY <6>2 DEF h
        <5>5. s[k] = FirstLines + o[j + 1] + 1
          BY <5>1, <5>3, Zenon
        <5>6. s[k - 1] = FirstLines + o[j] + 1
          BY <5>1, <5>4, Zenon
        <5>. QED
          BY <5>5, <5>6
      <4>. DEFINE x == o[j]  y == o[j + 1]
      <4>4. x < y /\ y <= x + c /\ x \in Nat /\ y \in Nat
        BY ONLY <4>2
      <4>5. s[k] = FirstLines + y + 1 /\ s[k - 1] = FirstLines + x + 1
        BY ONLY <4>3
      <4>. HIDE DEF j, x, y
      <4>. QED
        BY ONLY <1>0, <2>4, <4>4, <4>5
    <3>. QED
      BY <1>0, <3>1, <3>2, <3>3, <3>4
  <2>9. s[1] = 1 /\ s[max] >= n - c + 1
    <3>1. s[1] = 1
      BY <1>0, <2>6
    <3>2. FirstLines + rest = n /\ FirstLines + remaining = max
      BY <1>0, <1>3 DEF rest, remaining
    <3>3. remaining - 1 \in 0 .. remaining - 1 /\ max - FirstLines - 1 = remaining - 1
      BY ONLY <2>2, <3>2, <1>0
    <3>4. o[remaining - 1] >= rest - c /\ o[remaining - 1] \in Nat
      BY <2>5, <3>3
    <3>5. s[max] = FirstLines + o[remaining - 1] + 1
      BY ONLY <1>0, <2>6, <3>3, FirstLines < max, max \in Nat \ {0}
    <3>. QED
      BY ONLY <1>0, <2>2, <2>4, <3>1, <3>2, <3>4, <3>5
  <2>10. \A i \in 1 .. n - c + 1 : \E k \in 1 .. max : s[k] \in i .. i + c - 1
    BY ONLY <2>4, <2>7, <2>8, <2>9, WindowHit, max \in Nat \ {0}, n \in Nat
  <2>11. c = ((n - FirstLines) + (max - FirstLines) - 1) \div (max - FirstLines)
    BY DEF c, stride, rest, remaining
  <2>12. \A k \in 1 .. Len(s) : s[k] \in 1 .. n
    BY <2>6, <2>7
  <2>13. \A k \in 2 .. Len(s) : s[k - 1] < s[k]
    BY <2>7, <2>8
  <2>. QED
    BY ONLY <2>7, <2>10, <2>11, <2>12, <2>13 DEF Spread
<1>. QED
  BY <1>1, <1>2, <1>3

LEMMA PickedIs ==
  ASSUME NEW s, NEW K, IsFiniteSet(K)
  PROVE  /\ Cardinality(K) \in Nat
         /\ DOMAIN Picked(s, K) = 1 .. Cardinality(K)
         /\ Len(Picked(s, K)) = Cardinality(K)
<1>1. Cardinality(K) \in Nat
  BY FS_CardinalityType
<1>2. DOMAIN Picked(s, K) = 1 .. Cardinality(K)
  BY DEF Picked, InOrder
<1>3. \E f : Picked(s, K) = [k \in 1 .. Cardinality(K) |-> f[k]]
  <2>. DEFINE order == InOrder(K, {p \in K \X K : p[1] < p[2]})
              f == [k \in 1 .. Cardinality(K) |-> s[order[k]]]
  <2>1. DOMAIN order = 1 .. Cardinality(K)
    BY DEF InOrder
  <2>. HIDE DEF order
  <2>2. Picked(s, K) = f
    BY <2>1 DEF Picked, order
  <2>3. f = [k \in 1 .. Cardinality(K) |-> f[k]]
    OBVIOUS
  <2>. QED
    BY <2>2, <2>3
<1>4. PICK f : Picked(s, K) = [k \in 1 .. Cardinality(K) |-> f[k]]
  BY <1>3
<1>. QED
  BY <1>1, <1>2, <1>4

LEMMA PlacesFinite ==
  ASSUME NEW n \in Nat, NEW K \in SUBSET (1 .. n)
  PROVE  IsFiniteSet(K) /\ Cardinality(K) \in 0 .. n
<1>1. IsFiniteSet(1 .. n) /\ Cardinality(1 .. n) = n
  <2>1. n \in Int /\ 1 \in Int /\ (IF 1 > n THEN 0 ELSE n - 1 + 1) = n
    OBVIOUS
  <2>. QED
    BY ONLY <2>1, FS_Interval
<1>2. \A T \in SUBSET (1 .. n) : IsFiniteSet(T) /\ Cardinality(T) <= Cardinality(1 .. n)
  BY ONLY <1>1, FS_Subset
<1>3. IsFiniteSet(K) /\ Cardinality(K) <= n
  BY ONLY <1>1, <1>2, K \in SUBSET (1 .. n)
<1>. QED
  BY <1>3, FS_CardinalityType

RawLines == Seq({"line", "empty", "bom"})

LEMMA LinesKept ==
  ASSUME NEW lines \in RawLines, NEW max \in Int
  PROVE  Len(NormalizeLines(LimitLines(lines, max).lines)) \in Nat
<1>. DEFINE limited == LimitLines(lines, max).lines
<1>1. limited \in RawLines
  <2>1. CASE max > 0 /\ Len(lines) > max
    <3>1. limited = SubSeq(lines, 1, max)
      BY <2>1 DEF LimitLines
    <3>2. \A i \in 1 .. max : lines[i] \in {"line", "empty", "bom"}
      BY <2>1, ElementOfSeq, LenProperties DEF RawLines
    <3>. QED
      BY <3>1, <3>2, SubSeqProperties DEF RawLines
  <2>2. CASE ~ (max > 0 /\ Len(lines) > max)
    BY <2>2 DEF LimitLines
  <2>. QED
    BY <2>1, <2>2
<1>. HIDE DEF limited
<1>2. Len(limited) \in Nat /\ DOMAIN limited = 1 .. Len(limited)
  BY <1>1, LenProperties DEF RawLines
<1>. DEFINE unmarked == [i \in DOMAIN limited |->
              IF i = 1 /\ limited[i] = "bom" THEN "empty" ELSE limited[i]]
            K == {i \in DOMAIN limited : unmarked[i] # "empty"}
<1>3. NormalizeLines(limited) = Picked(unmarked, K)
  BY DEF NormalizeLines
<1>4. K \in SUBSET (1 .. Len(limited))
  BY <1>2
<1>. HIDE DEF K, unmarked
<1>. QED
  BY <1>2, <1>3, <1>4, PlacesFinite, PickedIs DEF limited

\* What Prepare leaves.
SampleInv ==
  /\ raw \in RawLines
  /\ mpc = "raw" => total = 0 /\ evalSet = <<>>
  /\ mpc # "raw" => total \in Nat /\ Spread(evalSet, total, N)

\* Only Prepare leaves "raw" and touches the sample.
LEMMA AfterRaw ==
  ASSUME [SuggestNext]_suggestVars, ~ Prepare
  PROVE  /\ total' = total /\ evalSet' = evalSet /\ raw' = raw
         /\ mpc' = "raw" <=> mpc = "raw"
<1>1. CASE UNCHANGED suggestVars
  BY <1>1 DEF suggestVars, coverVars
<1>2. CASE Tile
  BY <1>2 DEF Tile, coverVars
<1>3. CASE SuggestSet
  BY <1>3 DEF SuggestSet, CoverNext, BuildPool, CoverRound, Stopped, FinishMulti
<1>4. CASE SuggestTopK
  BY <1>4 DEF SuggestTopK
<1>5. CASE FallBack
  BY <1>5 DEF FallBack
<1>. QED
  BY <1>1, <1>2, <1>3, <1>4, <1>5 DEF SuggestNext

LEMMA SampleInvariant == SuggestSpec => []SampleInv
<1>1. SuggestInit => SampleInv
  BY SuggestAssumption DEF SuggestInit, CoverInit, SampleInv, RawLines
<1>2. ASSUME SampleInv, [SuggestNext]_suggestVars
      PROVE  SampleInv'
  <2>1. CASE Prepare
    <3>1. PICK max \in LimitRequests :
            LET kept == NormalizeLines(LimitLines(raw, max).lines) IN
            /\ total' = Len(kept) /\ evalSet' \in ChooseSample(Len(kept), N)
            /\ mpc' = IF kept = <<>> THEN "done" ELSE "build"
      BY <2>1 DEF Prepare
    <3>2. max \in Int
      BY SuggestAssumption
    <3>3. total' \in Nat /\ evalSet' \in ChooseSample(total', N) /\ mpc' # "raw"
      BY <1>2, <3>1, <3>2, LinesKept DEF SampleInv
    <3>4. Spread(evalSet', total', N)
      BY <3>3, SampleSpread, LinesAssumption, SuggestAssumption
    <3>5. raw' \in RawLines
      BY <2>1, EmptySeq DEF Prepare, RawLines
    <3>. QED
      BY <3>3, <3>4, <3>5 DEF SampleInv
  <2>2. CASE ~ Prepare
    BY <1>2, <2>2, AfterRaw DEF SampleInv
  <2>. QED
    BY <2>1, <2>2
<1>. QED
  BY <1>1, <1>2, PTL DEF SuggestSpec

\* The sample stands for the input, however many lines there are and whatever
\* the cap (chooseSample, score.go 201-236).
THEOREM SampleIsSound == SuggestSpec => []SampleSound
<1>1. ASSUME SampleInv PROVE SampleSound
  <2>1. SUFFICES ASSUME mpc = "build" PROVE SampleSound
    BY DEF SampleSound, SampleDistinct, SampleSpreads
  <2>2. total \in Nat /\ Spread(evalSet, total, N)
    BY <1>1, <2>1 DEF SampleInv
  <2>. DEFINE rest == total - FirstLines
              remaining == N - FirstLines
              stride == (rest + remaining - 1) \div remaining
  <2>3. /\ Len(evalSet) = Min({total, N}) /\ DOMAIN evalSet = 1 .. Len(evalSet)
        /\ \A k \in 1 .. Len(evalSet) : evalSet[k] \in 1 .. total
        /\ \A k \in 2 .. Len(evalSet) : evalSet[k - 1] < evalSet[k]
        /\ total > N => \A i \in 1 .. total - stride + 1 :
                          \E k \in 1 .. Len(evalSet) : evalSet[k] \in i .. i + stride - 1
    BY ONLY <2>2 DEF Spread
  <2>4. SampleDistinct
    BY ONLY <2>3 DEF SampleDistinct
  <2>5. SampleSpreads
    <3>. HIDE DEF stride
    <3>1. total > N => \A i \in 1 .. total - stride + 1 :
                        \E k \in DOMAIN evalSet : evalSet[k] \in i .. i + stride - 1
      BY ONLY <2>3
    <3>. QED
      BY ONLY <3>1 DEF SampleSpreads, stride
  <2>. QED
    BY ONLY <2>4, <2>5 DEF SampleSound
<1>. QED
  BY <1>1, SampleInvariant, PTL

\* A loop over 1 .. n has a value after each of its steps.
HasLoop(A, base, n, step) ==
  \E f \in [0 .. n -> A] : f[0] = base /\ \A k \in 1 .. n : f[k] = step[<<f[k - 1], k>>]

LEMMA LoopExists ==
  ASSUME NEW A, NEW base \in A, NEW n \in Nat, NEW step \in [A \X (1 .. n) -> A]
  PROVE  HasLoop(A, base, n, step)
<1>. DEFINE Runs(m) == \E f \in [0 .. m -> A] :
                         f[0] = base /\ \A k \in 1 .. m : f[k] = step[<<f[k - 1], k>>]
            S == {m \in Nat : m <= n => Runs(m)}
<1>1. 0 \in S
  <2>. DEFINE f == [k \in 0 .. 0 |-> base]
  <2>1. f \in [0 .. 0 -> A] /\ f[0] = base /\ \A k \in 1 .. 0 : f[k] = step[<<f[k - 1], k>>]
    OBVIOUS
  <2>2. Runs(0)
    BY <2>1
  <2>. QED
    BY <2>2
<1>2. ASSUME NEW m \in Nat, m \in S PROVE m + 1 \in S
  <2>1. SUFFICES ASSUME m + 1 <= n PROVE Runs(m + 1)
    BY <1>2
  <2>2. PICK f \in [0 .. m -> A] :
          f[0] = base /\ \A k \in 1 .. m : f[k] = step[<<f[k - 1], k>>]
    BY <1>2, <2>1
  <2>. DEFINE g == [k \in 0 .. m + 1 |-> IF k = m + 1 THEN step[<<f[m], m + 1>>] ELSE f[k]]
  <2>3. f[m] \in A /\ m + 1 \in 1 .. n
    BY <2>1, <2>2
  <2>4. step[<<f[m], m + 1>>] \in A
    BY <2>3
  <2>5. g \in [0 .. m + 1 -> A]
    BY <2>2, <2>4
  <2>6. g[0] = base
    BY <2>2
  <2>7. \A k \in 1 .. m + 1 : g[k] = step[<<g[k - 1], k>>]
    <3>. TAKE k \in 1 .. m + 1
    <3>1. CASE k = m + 1
      <4>1. g[k] = step[<<f[m], m + 1>>] /\ g[k - 1] = f[m]
        BY <3>1
      <4>. HIDE DEF g
      <4>. QED
        BY <3>1, <4>1
    <3>2. CASE k # m + 1
      <4>1. k \in 1 .. m /\ g[k] = f[k] /\ g[k - 1] = f[k - 1]
        BY <3>2
      <4>. HIDE DEF g
      <4>. QED
        BY <2>2, <4>1
    <3>. QED
      BY <3>1, <3>2
  <2>. HIDE DEF g
  <2>. QED
    BY <2>5, <2>6, <2>7
<1>. HIDE DEF S
<1>3. n \in S
  BY <1>1, <1>2, UpFromZero
<1>4. n <= n
  OBVIOUS
<1>5. Runs(n)
  BY <1>3, <1>4 DEF S
<1>. QED
  BY <1>5 DEF HasLoop

\* What holds before the loop and after each step holds after all of them.
LEMMA AlongLoop ==
  ASSUME NEW n \in Nat, NEW P, P \subseteq 0 .. n, 0 \in P,
         \A k \in 1 .. n : k - 1 \in P => k \in P
  PROVE  n \in P
<1>. DEFINE S == {m \in Nat : m <= n => m \in P}
<1>1. 0 \in S
  OBVIOUS
<1>2. \A m \in Nat : m \in S => m + 1 \in S
  <2>1. SUFFICES ASSUME NEW m \in Nat, m \in S, m + 1 <= n PROVE m + 1 \in P
    OBVIOUS
  <2>2. m + 1 \in 1 .. n /\ (m + 1) - 1 = m /\ m \in P
    BY <2>1
  <2>. QED
    BY <2>2
<1>. HIDE DEF S
<1>3. n \in S
  BY <1>1, <1>2, UpFromZero
<1>. QED
  BY <1>3 DEF S

-----------------------------------------------------------------------------
(***************************************************************************)
(* The list of suggestions                                                 *)
(***************************************************************************)
Room(s, wanted, c) == IF Len(s) < wanted /\ c # Nil THEN Append(s, c) ELSE s
First(h, k, n) == [i \in 1 .. Min({k, n}) |-> h[i]]

Continues(s, t) == Len(s) <= Len(t) /\ \A i \in 1 .. Len(s) : s[i] = t[i]

LEMMA ContinuesPrefix ==
  ASSUME NEW S, NEW s \in Seq(S), NEW t \in Seq(S), Continues(s, t)
  PROVE  IsPrefix(s, t)
<1>1. Len(s) \in Nat /\ Len(t) \in Nat /\ Len(s) <= Len(t)
      /\ \A i \in 1 .. Len(s) : s[i] = t[i]
  BY LenProperties DEF Continues
<1>2. /\ \A i \in 1 .. Len(s) : s[i] \in S
      /\ \A i \in 1 .. Len(s) : t[i] \in S
  BY <1>1, ElementOfSeq
<1>. DEFINE a == SubSeq(s, 1, Len(s))  b == SubSeq(t, 1, Len(s))
<1>3. /\ a \in Seq(S) /\ b \in Seq(S)
      /\ Len(a) = Len(s) /\ Len(b) = Len(s)
      /\ \A i \in 1 .. Len(s) : a[i] = s[i] /\ b[i] = t[i]
  <2>1. 1 \in Int /\ Len(s) \in Int
    BY <1>1
  <2>2. /\ a \in Seq(S) /\ Len(a) = (IF 1 <= Len(s) THEN Len(s) - 1 + 1 ELSE 0)
        /\ \A i \in 1 .. Len(s) - 1 + 1 : a[i] = s[1 + i - 1]
    BY ONLY <1>2, <2>1, SubSeqProperties
  <2>3. /\ b \in Seq(S) /\ Len(b) = (IF 1 <= Len(s) THEN Len(s) - 1 + 1 ELSE 0)
        /\ \A i \in 1 .. Len(s) - 1 + 1 : b[i] = t[1 + i - 1]
    BY ONLY <1>2, <2>1, SubSeqProperties
  <2>. HIDE DEF a, b
  <2>4. \A i \in 1 .. Len(s) : i \in 1 .. Len(s) - 1 + 1 /\ 1 + i - 1 = i
    BY <1>1
  <2>. QED
    BY ONLY <1>1, <2>2, <2>3, <2>4
<1>. HIDE DEF a, b
<1>4. a = b
  BY ONLY <1>1, <1>3, SeqEqual
<1>. QED
  BY <1>1, <1>4 DEF IsPrefix, a, b

LEMMA RoomContinues ==
  ASSUME NEW S, NEW s \in Seq(S), NEW wanted \in Int, NEW c, c = Nil \/ c \in S
  PROVE  /\ Room(s, wanted, c) \in Seq(S) /\ Continues(s, Room(s, wanted, c))
         /\ Len(s) <= wanted => Len(Room(s, wanted, c)) <= wanted
         /\ Len(Room(s, wanted, c)) \in Nat
<1>1. Len(s) \in Nat
  BY LenProperties
<1>2. CASE Room(s, wanted, c) = s
  BY <1>1, <1>2 DEF Continues
<1>3. CASE Room(s, wanted, c) = Append(s, c) /\ c \in S /\ Len(s) < wanted
  BY <1>1, <1>3, AppendProperties DEF Continues
<1>. QED
  BY <1>2, <1>3 DEF Room

LEMMA ContinuesOn ==
  ASSUME NEW S, NEW r \in Seq(S), NEW s \in Seq(S), NEW t \in Seq(S),
         Continues(r, s), Continues(s, t)
  PROVE  Continues(r, t)
<1>1. Len(r) \in Nat /\ Len(s) \in Nat /\ Len(t) \in Nat
  BY LenProperties
<1>. QED
  BY <1>1 DEF Continues

\* The list for one more suggestion continues the list.
LEMMA ListGrows ==
  ASSUME NEW S, NEW n \in Nat, NEW h, \A i \in 1 .. n : h[i] \in S,
         NEW c, c = Nil \/ c \in S, NEW d, d = Nil \/ d \in S, NEW k \in Nat \ {0}
  PROVE  IsPrefix(Room(Room(First(h, k, n), k, c), k, d),
                  Room(Room(First(h, k + 1, n), k + 1, c), k + 1, d))
<1>. DEFINE a == First(h, k, n)      b == First(h, k + 1, n)
            ac == Room(a, k, c)      bc == Room(b, k + 1, c)
            ad == Room(ac, k, d)     bd == Room(bc, k + 1, d)
<1>1. /\ Min({k, n}) = IF k <= n THEN k ELSE n
      /\ Min({k + 1, n}) = IF k + 1 <= n THEN k + 1 ELSE n
  BY Smaller
<1>2. /\ a \in Seq(S) /\ Len(a) = (IF k <= n THEN k ELSE n)
      /\ b \in Seq(S) /\ Len(b) = (IF k + 1 <= n THEN k + 1 ELSE n)
      /\ Continues(a, b)
  <2>. DEFINE m == IF k <= n THEN k ELSE n
              l == IF k + 1 <= n THEN k + 1 ELSE n
  <2>1. m \in Nat /\ l \in Nat /\ m <= l /\ l <= n
    OBVIOUS
  <2>. HIDE DEF m, l
  <2>2. a = [i \in 1 .. m |-> h[i]] /\ b = [i \in 1 .. l |-> h[i]]
    BY <1>1 DEF First, m, l
  <2>3. a \in Seq(S) /\ Len(a) = m /\ b \in Seq(S) /\ Len(b) = l
    BY <2>1, <2>2
  <2>. HIDE DEF a, b
  <2>4. Continues(a, b)
    BY ONLY <2>1, <2>2, <2>3 DEF Continues
  <2>. QED
    BY <2>3, <2>4 DEF m, l
<1>. HIDE DEF a, b
<1>3. /\ ac \in Seq(S) /\ bc \in Seq(S) /\ Continues(a, ac) /\ Continues(b, bc)
      /\ Len(ac) \in Nat /\ Len(ac) <= k
  BY <1>2, RoomContinues
<1>7. n < k => a = b /\ ac = bc
  <2>1. SUFFICES ASSUME n < k PROVE a = b /\ ac = bc
    OBVIOUS
  <2>2. Len(a) = n /\ Len(b) = n
    BY <1>2, <2>1
  <2>3. \A i \in 1 .. n : a[i] = b[i]
    BY <1>2, <2>2 DEF Continues
  <2>4. a = b
    BY ONLY <1>2, <2>2, <2>3, SeqEqual
  <2>. QED
    BY <2>1, <2>2, <2>4 DEF Room
<1>4. Continues(ac, bc)
  <2>1. CASE k <= n
    <3>1. ac = a
      BY <1>2, <2>1 DEF Room
    <3>. HIDE DEF ac, bc
    <3>. QED
      BY ONLY <1>2, <1>3, <3>1, ContinuesOn
  <2>2. CASE ~ (k <= n)
    <3>4. ac = bc
      BY <1>7, <2>2
    <3>. HIDE DEF ac, bc
    <3>. QED
      BY <1>3, <3>4 DEF Continues
  <2>. QED
    BY <2>1, <2>2
<1>. HIDE DEF ac, bc
<1>5. /\ ad \in Seq(S) /\ bd \in Seq(S) /\ Continues(ac, ad) /\ Continues(bc, bd)
  BY <1>2, <1>3, RoomContinues
<1>6. Continues(ad, bd)
  <2>1. CASE ad = ac
    <3>. HIDE DEF ad, bd
    <3>. QED
      BY ONLY <1>3, <1>4, <1>5, <2>1, ContinuesOn
  <2>2. CASE ad = Append(ac, d) /\ Len(ac) < k /\ d # Nil
    <3>1. Len(a) <= Len(ac)
      BY <1>3 DEF Continues
    <3>2. n < k
      BY <1>2, <1>3, <2>2, <3>1
    <3>3. ac = bc
      BY <1>7, <3>2
    <3>4. ad = bd
      BY <1>3, <2>2, <3>3 DEF Room
    <3>5. Len(ad) \in Nat
      BY <1>5, LenProperties
    <3>. HIDE DEF ad, bd
    <3>. QED
      BY <3>4, <3>5 DEF Continues
  <2>. QED
    BY <2>1, <2>2 DEF Room
<1>. HIDE DEF ad, bd
<1>. QED
  BY ONLY <1>5, <1>6, ContinuesPrefix DEF ad, bd, ac, bc, a, b

LEMMA PickedSeq ==
  ASSUME NEW s, NEW K, IsFiniteSet(K)
  PROVE  Picked(s, K) \in Seq(ToSet(Picked(s, K)))
<1>. DEFINE p == Picked(s, K)  n == Cardinality(K)
<1>1. n \in Nat /\ DOMAIN p = 1 .. n
  BY PickedIs
<1>2. p = [i \in 1 .. n |-> p[i]]
  <2>. DEFINE order == InOrder(K, {q \in K \X K : q[1] < q[2]})
  <2>1. p = [i \in DOMAIN order |-> s[order[i]]]
    BY DEF Picked
  <2>. HIDE DEF order
  <2>2. DOMAIN p = DOMAIN order
    BY <2>1
  <2>. QED
    BY <1>1, <2>1, <2>2
<1>3. \A i \in 1 .. n : p[i] \in ToSet(p)
  BY <1>1 DEF ToSet
<1>. HIDE DEF p, n
<1>. QED
  BY <1>1, <1>2, <1>3 DEF p

LEMMA KeptDomain ==
  ASSUME NEW library, library \in Seq(ToSet(library))
  PROVE  \E m \in Nat : DOMAIN KeptLibrary(library, KeptEntries) = 1 .. m
<1>1. DOMAIN library = 1 .. Len(library) /\ Len(library) \in Nat
  BY LenProperties
<1>2. IsFiniteSet(DOMAIN library) /\ Cardinality(DOMAIN library) \in Nat
  BY <1>1, PlacesFinite
<1>3. \E R : KeptLibrary(library, KeptEntries) =
               [k \in 1 .. Min({KeptEntries, Len(InOrder(DOMAIN library, R))}) |->
                  library[InOrder(DOMAIN library, R)[k]]]
  BY Zenon DEF KeptLibrary
<1>4. PICK R : KeptLibrary(library, KeptEntries) =
                 [k \in 1 .. Min({KeptEntries, Len(InOrder(DOMAIN library, R))}) |->
                    library[InOrder(DOMAIN library, R)[k]]]
  BY <1>3
<1>5. Len(InOrder(DOMAIN library, R)) \in Nat
  BY <1>2 DEF InOrder
<1>6. Min({KeptEntries, Len(InOrder(DOMAIN library, R))}) \in Nat
  BY <1>5, Smaller, MultiCoverAssumption
<1>. QED
  BY <1>4, <1>6

HasRooms(library, c, d) ==
  \E n \in Nat : \E h : \A k \in Nat \ {0} :
    DiscoverTopK(k, library, c, d) = Room(Room(First(h, k, n), k, c), k, d)

LEMMA ListIs ==
  ASSUME NEW library, NEW m \in Nat, DOMAIN library = 1 .. m, NEW c, NEW d
  PROVE  HasRooms(library, c, d)
<1>. DEFINE K == {i \in DOMAIN library : library[i].match # {}}
            hits == Picked(library, K)
            n == Len(hits)
            h == [i \in 1 .. n |-> Counted("library", hits[i])]
<1>1. IsFiniteSet(K)
  BY PlacesFinite
<1>. HIDE DEF K
<1>2. n \in Nat /\ hits \in Seq(ToSet(hits))
  BY <1>1, PickedIs, PickedSeq
<1>3. ASSUME NEW k \in Nat \ {0}
      PROVE  DiscoverTopK(k, library, c, d) = Room(Room(First(h, k, n), k, c), k, d)
  <2>. DEFINE up == Upto(hits, k)
              named == [i \in DOMAIN up |-> Counted("library", hits[i])]
  <2>1. Min({k, n}) \in Nat /\ Min({k, n}) <= n
    BY <1>2, Smaller
  <2>2. DOMAIN up = 1 .. Min({k, n})
    <3>. DEFINE l == Min({k, n})
    <3>1. l \in Int /\ 1 \in Int /\ \A i \in 1 .. l : hits[i] \in ToSet(hits)
      <4>1. l \in Nat /\ l <= n /\ n = Len(hits)
        BY <2>1
      <4>. HIDE DEF l, n
      <4>2. \A i \in 1 .. l : i \in 1 .. Len(hits)
        BY <1>2, <4>1
      <4>. QED
        BY <1>2, <4>1, <4>2, ElementOfSeq
    <3>. HIDE DEF l
    <3>2. /\ SubSeq(hits, 1, l) \in Seq(ToSet(hits))
          /\ Len(SubSeq(hits, 1, l)) = IF 1 <= l THEN l - 1 + 1 ELSE 0
      BY ONLY <3>1, SubSeqProperties
    <3>3. l \in Nat /\ up = SubSeq(hits, 1, l)
      BY <2>1 DEF l, Upto
    <3>4. DOMAIN up = 1 .. Len(up) /\ Len(up) = l
      BY ONLY <3>2, <3>3, LenProperties
    <3>. QED
      BY <3>4 DEF l
  <2>3. named = First(h, k, n)
    <3>. DEFINE l == Min({k, n})
    <3>1. named = [i \in 1 .. l |-> Counted("library", hits[i])]
      BY <2>2
    <3>2. First(h, k, n) = [i \in 1 .. l |-> h[i]]
      BY DEF First
    <3>3. \A i \in 1 .. l : h[i] = Counted("library", hits[i])
      BY <1>2, <2>1
    <3>. HIDE DEF l, h
    <3>. QED
      BY ONLY <3>1, <3>2, <3>3
  <2>4. DiscoverTopK(k, library, c, d) = Room(Room(named, k, c), k, d)
    <3>1. (IF k <= 0 THEN DefaultK ELSE k) = k
      OBVIOUS
    <3>. QED
      BY ONLY <3>1, Zenon DEF DiscoverTopK, Room, K, hits, named, up
  <2>. QED
    BY <2>3, <2>4
<1>. HIDE DEF n, h
<1>. QED
  BY <1>2, <1>3 DEF HasRooms

LEMMA ListContinues ==
  ASSUME NEW o \in PoolInputs, NEW k \in Nat \ {0}
  PROVE  IsPrefix(Listed(k, o), Listed(k + 1, o))
<1>. DEFINE library == KeptLibrary(o.library, KeptEntries)
            c == Counted("structured", FirstOf(o.structured))
            d == Inferred(o)
<1>1. o.library \in Seq(ToSet(o.library))
  BY MultiCoverAssumption
<1>2. PICK m \in Nat : DOMAIN library = 1 .. m
  BY <1>1, KeptDomain
<1>3. /\ Listed(k, o) = DiscoverTopK(k, library, c, d)
      /\ Listed(k + 1, o) = DiscoverTopK(k + 1, library, c, d)
  BY DEF Listed
<1>. HIDE DEF library, c, d
<1>4. PICK n \in Nat : \E h : \A j \in Nat \ {0} :
        DiscoverTopK(j, library, c, d) = Room(Room(First(h, j, n), j, c), j, d)
  <2>1. HasRooms(library, c, d)
    BY <1>2, ListIs
  <2>. QED
    BY <2>1 DEF HasRooms
<1>9. PICK h : \A j \in Nat \ {0} :
        DiscoverTopK(j, library, c, d) = Room(Room(First(h, j, n), j, c), j, d)
  BY <1>4
<1>. DEFINE S == {h[i] : i \in 1 .. n} \cup {c, d}
<1>5. (\A i \in 1 .. n : h[i] \in S) /\ c \in S /\ d \in S
  OBVIOUS
<1>. HIDE DEF S
<1>6. IsPrefix(Room(Room(First(h, k, n), k, c), k, d),
               Room(Room(First(h, k + 1, n), k + 1, c), k + 1, d))
  BY ONLY <1>5, ListGrows, n \in Nat, k \in Nat \ {0}
<1>7. k + 1 \in Nat \ {0}
  OBVIOUS
<1>8. /\ Listed(k, o) = Room(Room(First(h, k, n), k, c), k, d)
      /\ Listed(k + 1, o) = Room(Room(First(h, k + 1, n), k + 1, c), k + 1, d)
  BY ONLY <1>3, <1>9, <1>7, k \in Nat \ {0}
<1>. QED
  BY ONLY <1>6, <1>8

\* The loop of deriveSafeFallback.
Tries(s, n, f) ==
  /\ f[0] = [best |-> Nil, settled |-> FALSE]
  /\ \A k \in 1 .. n : f[k] = IF f[k - 1].settled \/ ~s[k].compiles THEN f[k - 1]
                              ELSE Consider(f[k - 1], s[k])

Answers(s) == {Nil} \cup {Counted("fallback", s[i]) : i \in 1 .. Len(s)}

LEMMA ConsiderTyped ==
  ASSUME NEW A, NEW cur \in [best : A, settled : BOOLEAN], NEW c, Counted("fallback", c) \in A
  PROVE  Consider(cur, c) \in [best : A, settled : BOOLEAN]
<1>1. PickBetter(cur.best, Counted("fallback", c)) \in A
  BY DEF PickBetter
<1>. QED
  BY <1>1 DEF Consider

LEMMA FallbackUnfold ==
  ASSUME NEW s, s \in Seq(ToSet(s))
  PROVE  \E f : Tries(s, Len(s), f) /\ DeriveSafeFallback(s) = f[Len(s)].best
<1>. DEFINE n == Len(s)
            A == [best : Answers(s), settled : BOOLEAN]
            base == [best |-> Nil, settled |-> FALSE]
            step == [p \in A \X (1 .. n) |->
                       IF p[1].settled \/ ~s[p[2]].compiles THEN p[1] ELSE Consider(p[1], s[p[2]])]
            IsLoop(f) == f = [k \in 0 .. n |->
                       IF k = 0 THEN base
                       ELSE IF f[k - 1].settled \/ ~s[k].compiles THEN f[k - 1]
                       ELSE Consider(f[k - 1], s[k])]
            cur == CHOOSE f : IsLoop(f)
<1>1. n \in Nat
  BY LenProperties
<1>2. base \in A
  BY DEF Answers
<1>3. step \in [A \X (1 .. n) -> A]
  <2>1. \A a \in A, i \in 1 .. n :
          (IF a.settled \/ ~s[i].compiles THEN a ELSE Consider(a, s[i])) \in A
    <3>. TAKE a \in A, i \in 1 .. n
    <3>1. Counted("fallback", s[i]) \in Answers(s)
      BY DEF Answers
    <3>2. Consider(a, s[i]) \in A
      BY <3>1, ConsiderTyped
    <3>. QED
      BY <3>2
  <2>. HIDE DEF A, n
  <2>2. \A p \in A \X (1 .. n) :
          (IF p[1].settled \/ ~s[p[2]].compiles THEN p[1] ELSE Consider(p[1], s[p[2]])) \in A
    BY <2>1
  <2>. QED
    BY <2>2
<1>. HIDE DEF A, n, base
<1>4. PICK f \in [0 .. n -> A] :
        f[0] = base /\ \A k \in 1 .. n : f[k] = step[<<f[k - 1], k>>]
  <2>. HIDE DEF step
  <2>1. HasLoop(A, base, n, step)
    BY <1>1, <1>2, <1>3, LoopExists
  <2>. QED
    BY <2>1 DEF HasLoop
<1>5. \A k \in 1 .. n : f[k] = IF f[k - 1].settled \/ ~s[k].compiles THEN f[k - 1]
                               ELSE Consider(f[k - 1], s[k])
  <2>. TAKE k \in 1 .. n
  <2>1. f[k] = step[<<f[k - 1], k>>]
    BY <1>4
  <2>2. k - 1 \in 0 .. n
    BY <1>1
  <2>3. <<f[k - 1], k>> \in A \X (1 .. n)
    BY <1>4, <2>2
  <2>. QED
    BY <2>1, <2>3
<1>6. IsLoop(f)
  <2>1. f = [k \in 0 .. n |-> f[k]]
    BY <1>4
  <2>2. \A k \in 0 .. n : f[k] = IF k = 0 THEN base
                                 ELSE IF f[k - 1].settled \/ ~s[k].compiles THEN f[k - 1]
                                 ELSE Consider(f[k - 1], s[k])
    <3>. TAKE k \in 0 .. n
    <3>1. k = 0 \/ (k # 0 /\ k \in 1 .. n)
      BY <1>1
    <3>. QED
      BY <1>4, <1>5, <3>1
  <2>. DEFINE g == [k \in 0 .. n |-> IF k = 0 THEN base
                                    ELSE IF f[k - 1].settled \/ ~s[k].compiles THEN f[k - 1]
                                    ELSE Consider(f[k - 1], s[k])]
  <2>3. g = [k \in 0 .. n |-> g[k]] /\ \A k \in 0 .. n : g[k] = f[k]
    BY <2>2
  <2>4. IsLoop(f) <=> f = g
    OBVIOUS
  <2>. HIDE DEF g, IsLoop
  <2>. QED
    BY ONLY <2>1, <2>3, <2>4
<1>7. IsLoop(cur)
  BY <1>6
<1>8. DeriveSafeFallback(s) = cur[n].best
  BY DEF DeriveSafeFallback, n, base
<1>. HIDE DEF cur
<1>9. Tries(s, n, cur)
  <2>1. \A k \in 0 .. n : cur[k] = IF k = 0 THEN base
                                   ELSE IF cur[k - 1].settled \/ ~s[k].compiles THEN cur[k - 1]
                                   ELSE Consider(cur[k - 1], s[k])
    BY <1>7
  <2>2. 0 \in 0 .. n /\ \A k \in 1 .. n : k \in 0 .. n /\ k # 0
    BY <1>1
  <2>3. cur[0] = base
    BY <2>1, <2>2
  <2>4. \A k \in 1 .. n : cur[k] = IF cur[k - 1].settled \/ ~s[k].compiles THEN cur[k - 1]
                                   ELSE Consider(cur[k - 1], s[k])
    BY <2>1, <2>2
  <2>. QED
    BY <2>3, <2>4 DEF Tries, base
<1>. QED
  BY <1>8, <1>9 DEF n

\* What the answer so far, after k candidates, says of them.
HitsOf(s, i) == Cardinality(s[i].match)

TriedSoFar(s, r, k) ==
  /\ r = [best |-> r.best, settled |-> r.settled] /\ r.settled \in BOOLEAN
  /\ r.settled => r.best # Nil
  /\ r.best = Nil <=> \A i \in 1 .. k : ~s[i].compiles
  /\ r.best # Nil => \E i \in 1 .. k : s[i].compiles /\ r.best = Counted("fallback", s[i])
  /\ ~r.settled => \A i \in 1 .. k : s[i].compiles => ~s[i].last /\ HitsOf(s, i) <= r.best.matched
  /\ r.settled /\ ~Enough(r.best) =>
       \A i \in 1 .. Len(s) : s[i].compiles =>
         /\ HitsOf(s, i) <= r.best.matched
         /\ r.best.candidate.last /\ ~s[i].last => HitsOf(s, i) < r.best.matched

LEMMA TriedIs ==
  ASSUME NEW s \in FallbackInputs
  PROVE  /\ s \in Seq(ToSet(s)) /\ Len(s) \in Nat /\ DOMAIN s = 1 .. Len(s)
         /\ \A i \in 1 .. Len(s) :
              /\ Counted("fallback", s[i]) # Nil
              /\ Counted("fallback", s[i]).matched = HitsOf(s, i)
              /\ Counted("fallback", s[i]).candidate = s[i]
              /\ HitsOf(s, i) \in Nat
              /\ s[i].compiles \in BOOLEAN /\ s[i].last \in BOOLEAN
              /\ s[i].last => i = Len(s)
<1>1. s \in Seq(ToSet(s)) /\ Len(s) \in Nat /\ DOMAIN s = 1 .. Len(s)
  BY SuggestAssumption, LenProperties
<1>2. ASSUME NEW i \in 1 .. Len(s)
      PROVE  /\ Counted("fallback", s[i]) # Nil
             /\ s[i].match \subseteq Lines
             /\ s[i].compiles \in BOOLEAN /\ s[i].last \in BOOLEAN
             /\ s[i].last => i = Len(s)
  <2>1. i \in DOMAIN s
    BY <1>1
  <2>. QED
    BY <2>1, SuggestAssumption
<1>3. ASSUME NEW i \in 1 .. Len(s)
      PROVE  /\ Counted("fallback", s[i]).matched = HitsOf(s, i)
             /\ Counted("fallback", s[i]).candidate = s[i]
             /\ HitsOf(s, i) \in Nat
  <2>1. Counted("fallback", s[i]) = Found("fallback", s[i], SeqCount(s[i].match))
    BY <1>2 DEF Counted
  <2>2. Cardinality(s[i].match) \in Nat
    BY <1>2, LinesCounted, LinesAssumption
  <2>. QED
    BY <2>1, <2>2 DEF Found, SeqCount, HitsOf
<1>. QED
  BY <1>1, <1>2, <1>3

LEMMA TriedStep ==
  ASSUME NEW s \in FallbackInputs, NEW k \in 1 .. Len(s), NEW r, NEW q,
         TriedSoFar(s, r, k - 1),
         q = IF r.settled \/ ~s[k].compiles THEN r ELSE Consider(r, s[k])
  PROVE  TriedSoFar(s, q, k)
<1>. DEFINE c == s[k]  found == Counted("fallback", s[k])
<1>1. /\ Len(s) \in Nat /\ k \in Nat /\ k - 1 \in Nat
      /\ \A i \in 1 .. k : i \in 1 .. k - 1 \/ i = k
      /\ \A i \in 1 .. k - 1 : i \in 1 .. k /\ i \in 1 .. Len(s) /\ i # Len(s)
      /\ k \in 1 .. k
  BY TriedIs
<1>2. /\ found # Nil /\ found.matched = HitsOf(s, k) /\ found.candidate = c
      /\ HitsOf(s, k) \in Nat /\ c.compiles \in BOOLEAN /\ c.last \in BOOLEAN
      /\ c.last => k = Len(s)
  BY TriedIs
<1>3. \A i \in 1 .. k - 1 :
        /\ Counted("fallback", s[i]) # Nil /\ Counted("fallback", s[i]).matched = HitsOf(s, i)
        /\ Counted("fallback", s[i]).candidate = s[i] /\ HitsOf(s, i) \in Nat
        /\ s[i].compiles \in BOOLEAN /\ s[i].last \in BOOLEAN /\ ~s[i].last
  BY <1>1, TriedIs
<1>. HIDE DEF found, c

<1>4. /\ r = [best |-> r.best, settled |-> r.settled] /\ r.settled \in BOOLEAN
      /\ r.settled => r.best # Nil
      /\ r.best = Nil <=> \A i \in 1 .. k - 1 : ~s[i].compiles
      /\ r.best # Nil => \E i \in 1 .. k - 1 : s[i].compiles /\ r.best = Counted("fallback", s[i])
      /\ ~r.settled => \A i \in 1 .. k - 1 :
                         s[i].compiles => ~s[i].last /\ HitsOf(s, i) <= r.best.matched
      /\ r.settled /\ ~Enough(r.best) =>
           \A i \in 1 .. Len(s) : s[i].compiles =>
             /\ HitsOf(s, i) <= r.best.matched
             /\ r.best.candidate.last /\ ~s[i].last => HitsOf(s, i) < r.best.matched
  BY DEF TriedSoFar
<1>5. CASE r.settled
  <2>1. q = r /\ r.best # Nil
    BY <1>4, <1>5
  <2>. QED
    BY <1>1, <1>4, <1>5, <2>1 DEF TriedSoFar
<1>6. CASE ~r.settled /\ ~c.compiles
  <2>1. q = r
    BY <1>6 DEF c
  <2>2. /\ \A i \in 1 .. k : s[i].compiles => i \in 1 .. k - 1
        /\ \A i \in 1 .. k - 1 : i \in 1 .. k
    BY <1>1, <1>6 DEF c
  <2>. QED
    BY <1>4, <1>6, <2>1, <2>2 DEF TriedSoFar
<1>7. CASE ~r.settled /\ c.compiles
  <2>1. q = Consider(r, c)
    BY <1>7 DEF c
  <2>2. /\ r.best # Nil => r.best.matched \in Nat /\ ~r.best.candidate.last
        /\ r.best = Nil => \A i \in 1 .. k : s[i].compiles => i = k
    BY <1>1, <1>3, <1>4
  <2>3. \E i \in 1 .. k : s[i].compiles
    BY <1>1, <1>7 DEF c
  <2>4. /\ r.best # Nil => \E i \in 1 .. k : s[i].compiles /\ r.best = Counted("fallback", s[i])
        /\ \E i \in 1 .. k : s[i].compiles /\ found = Counted("fallback", s[i])
    BY <1>1, <1>4, <1>7 DEF c, found
  <2>5. \A i \in 1 .. k - 1 : s[i].compiles =>
          r.best # Nil /\ ~s[i].last /\ HitsOf(s, i) <= r.best.matched
    BY <1>4, <1>7
  <2>6. CASE c.last /\ (r.best = Nil \/ r.best.matched < found.matched)
    <3>1. q = [best |-> found, settled |-> TRUE]
      BY <2>1, <2>6 DEF Consider, found, c
    <3>2. \A i \in 1 .. Len(s) : s[i].compiles =>
            /\ HitsOf(s, i) <= found.matched
            /\ found.candidate.last /\ ~s[i].last => HitsOf(s, i) < found.matched
      <4>. TAKE i \in 1 .. Len(s)
      <4>1. CASE i = k
        BY <1>2, <2>6, <4>1 DEF c
      <4>2. CASE i # k
        <5>1. i \in 1 .. k - 1
          BY <1>1, <1>2, <2>6, <4>2
        <5>. QED
          BY <1>2, <1>3, <2>2, <2>5, <2>6, <5>1
      <4>. QED
        BY <4>1, <4>2
    <3>3. q.best = found /\ q.settled = TRUE
      BY <3>1
    <3>. QED
      BY <1>2, <2>3, <2>4, <3>1, <3>2, <3>3 DEF TriedSoFar
  <2>7. CASE c.last /\ ~(r.best = Nil \/ r.best.matched < found.matched)
    <3>1. q = [r EXCEPT !.settled = TRUE]
      BY <2>1, <2>7 DEF Consider, found, c
    <3>2. q = [best |-> r.best, settled |-> TRUE]
      BY <1>4, <3>1
    <3>3. q.best = r.best /\ q.settled = TRUE
      BY <3>2
    <3>4. \A i \in 1 .. Len(s) : s[i].compiles =>
            /\ HitsOf(s, i) <= r.best.matched
            /\ r.best.candidate.last /\ ~s[i].last => HitsOf(s, i) < r.best.matched
      <4>. TAKE i \in 1 .. Len(s)
      <4>1. CASE i = k
        BY <1>2, <2>2, <2>7, <4>1
      <4>2. CASE i # k
        <5>1. i \in 1 .. k - 1
          BY <1>1, <1>2, <2>7, <4>2
        <5>. QED
          BY <2>2, <2>5, <2>7, <5>1
      <4>. QED
        BY <4>1, <4>2
    <3>. QED
      BY <2>3, <2>4, <2>7, <3>2, <3>3, <3>4 DEF TriedSoFar
  <2>8. CASE ~c.last /\ Enough(found)
    <3>1. q = [best |-> found, settled |-> TRUE]
      BY <2>1, <2>8 DEF Consider, found, c
    <3>2. q.best = found /\ q.settled = TRUE
      BY <3>1
    <3>. QED
      BY <1>2, <2>3, <2>4, <2>8, <3>1, <3>2 DEF TriedSoFar
  <2>9. CASE ~c.last /\ ~Enough(found)
    <3>. DEFINE b == PickBetter(r.best, found)
    <3>1. q = [r EXCEPT !.best = PickBetter(@, found)]
      BY <2>1, <2>9 DEF Consider, found, c
    <3>2. q = [best |-> b, settled |-> FALSE]
      BY <1>4, <1>7, <3>1
    <3>3. b = found \/ (b = r.best /\ r.best # Nil)
      BY DEF PickBetter
    <3>4. found.matched <= b.matched /\ (r.best # Nil => r.best.matched <= b.matched)
      <4>1. CASE r.best = Nil
        <5>1. b = found
          BY <4>1 DEF PickBetter
        <5>. QED
          BY <1>2, <4>1, <5>1
      <4>2. CASE r.best # Nil
        BY <1>2, <2>2, <4>2 DEF PickBetter, Beats
      <4>. QED
        BY <4>1, <4>2
    <3>5. b # Nil /\ b.matched \in Nat
      BY <1>2, <2>2, <3>3
    <3>. HIDE DEF b
    <3>6. q.best = b /\ q.settled = FALSE
      BY <3>2
    <3>7. \A i \in 1 .. k : s[i].compiles => ~s[i].last /\ HitsOf(s, i) <= b.matched
      <4>. TAKE i \in 1 .. k
      <4>1. CASE i = k
        BY <1>2, <2>9, <3>4, <4>1 DEF c
      <4>2. CASE i \in 1 .. k - 1
        BY <1>3, <2>2, <2>5, <3>4, <3>5, <4>2
      <4>. QED
        BY <1>1, <4>1, <4>2
    <3>8. \E i \in 1 .. k : s[i].compiles /\ b = Counted("fallback", s[i])
      BY <2>4, <3>3
    <3>. QED
      BY <2>3, <3>2, <3>5, <3>6, <3>7, <3>8 DEF TriedSoFar
  <2>. QED
    BY <1>2, <2>6, <2>7, <2>8, <2>9
<1>. QED
  BY <1>2, <1>4, <1>5, <1>6, <1>7

\* The answer of last resort is what FallbackHonest says of it.
LEMMA FallbackIsHonest ==
  ASSUME NEW s \in FallbackInputs
  PROVE  LET usable == {c \in ToSet(s) : c.compiles}
             found == DeriveSafeFallback(s)
         IN  /\ found = Nil <=> usable = {}
             /\ found # Nil /\ ~Enough(found) =>
                  \A c \in usable : /\ Cardinality(c.match) <= found.matched
                                    /\ found.candidate.last /\ ~c.last =>
                                         Cardinality(c.match) < found.matched
<1>. DEFINE usable == {c \in ToSet(s) : c.compiles}
            found == DeriveSafeFallback(s)
            n == Len(s)
<1>1. /\ n \in Nat /\ DOMAIN s = 1 .. n
      /\ \A i \in 1 .. n : Counted("fallback", s[i]).candidate = s[i]
  BY TriedIs
<1>2. PICK f : Tries(s, n, f) /\ found = f[n].best
  BY TriedIs, FallbackUnfold
<1>. DEFINE P == {k \in 0 .. n : TriedSoFar(s, f[k], k)}
<1>3. 0 \in P
  <2>1. f[0] = [best |-> Nil, settled |-> FALSE]
    BY <1>2 DEF Tries
  <2>2. TriedSoFar(s, f[0], 0)
    BY <2>1 DEF TriedSoFar
  <2>. QED
    BY <1>1, <2>2
<1>4. ASSUME NEW k \in 1 .. n, k - 1 \in P PROVE k \in P
  <2>1. f[k] = IF f[k - 1].settled \/ ~s[k].compiles THEN f[k - 1] ELSE Consider(f[k - 1], s[k])
    BY <1>2 DEF Tries
  <2>2. TriedSoFar(s, f[k - 1], k - 1)
    BY <1>4
  <2>3. TriedSoFar(s, f[k], k)
    BY <2>1, <2>2, TriedStep
  <2>. QED
    BY <1>1, <2>3
<1>5. P \subseteq 0 .. n
  OBVIOUS
<1>. HIDE DEF P
<1>6. n \in P
  BY <1>1, <1>3, <1>4, <1>5, AlongLoop
<1>7. TriedSoFar(s, f[n], n)
  BY <1>6 DEF P
<1>. DEFINE r == f[n]
<1>. HIDE DEF r
<1>8. TriedSoFar(s, r, n) /\ found = r.best
  BY <1>2, <1>7 DEF r
<1>9. /\ \A c \in usable : \E i \in 1 .. n : c = s[i] /\ s[i].compiles
      /\ \A i \in 1 .. n : s[i].compiles => s[i] \in usable
  BY <1>1 DEF ToSet
<1>. HIDE DEF usable, found, n
<1>10. found = Nil <=> usable = {}
  BY <1>8, <1>9 DEF TriedSoFar
<1>11. ASSUME found # Nil, ~Enough(found), NEW c \in usable
       PROVE  /\ Cardinality(c.match) <= found.matched
              /\ found.candidate.last /\ ~c.last => Cardinality(c.match) < found.matched
  <2>1. PICK i \in 1 .. n : c = s[i] /\ s[i].compiles
    BY <1>9
  <2>2. Cardinality(c.match) = HitsOf(s, i)
    BY <2>1 DEF HitsOf
  <2>3. CASE r.settled
    BY <1>8, <1>11, <2>1, <2>2, <2>3 DEF TriedSoFar, n
  <2>4. CASE ~r.settled
    <3>1. PICK j \in 1 .. n : s[j].compiles /\ r.best = Counted("fallback", s[j])
      BY <1>8, <1>11 DEF TriedSoFar
    <3>2. ~s[j].last
      BY <1>8, <2>4, <3>1 DEF TriedSoFar
    <3>3. ~found.candidate.last
      BY <1>1, <1>8, <3>1, <3>2
    <3>4. HitsOf(s, i) <= found.matched
      BY <1>8, <2>1, <2>4 DEF TriedSoFar
    <3>. QED
      BY <2>2, <3>3, <3>4
  <2>5. r.settled \in BOOLEAN
    BY <1>8 DEF TriedSoFar
  <2>. QED
    BY <2>3, <2>4, <2>5
<1>. QED
  BY <1>10, <1>11 DEF usable, found

\* What a call that is over leaves.
ListInv ==
  /\ mpc = "listed" => /\ offer \in PoolInputs /\ list.wanted \in Int
                       /\ list.found = Listed(list.wanted, offer)
  /\ mpc = "fallback" => /\ list.tried \in FallbackInputs
                         /\ list.found = DeriveSafeFallback(list.tried)
LEMMA ListInvariant == SuggestSpec => []ListInv
<1>1. SuggestInit => ListInv
  BY DEF SuggestInit, CoverInit, ListInv
<1>2. ASSUME ListInv, [SuggestNext]_suggestVars
      PROVE  ListInv'
  <2>1. CASE Prepare
    BY <2>1 DEF Prepare, ListInv
  <2>2. CASE Tile
    BY <1>2, <2>2 DEF Tile, ListInv, coverVars
  <2>3. CASE SuggestSet
    <3>1. mpc' \in {mpc, "cover", "finish", "done"} /\ mpc \in {"build", "cover", "finish"}
      BY <2>3 DEF SuggestSet, CoverNext, BuildPool, CoverRound, Stopped, FinishMulti
    <3>. QED
      BY <3>1 DEF ListInv
  <2>4. CASE SuggestTopK
    <3>1. PICK k \in TopKRequests : list' = [wanted |-> k, found |-> Listed(k, offer')]
      BY <2>4 DEF SuggestTopK
    <3>2. k \in Int
      BY SuggestAssumption
    <3>3. /\ mpc' = "listed" /\ offer' \in PoolInputs /\ tiled' = tiled
      BY <2>4 DEF SuggestTopK, tileVars
    <3>4. Listed(k, offer') = Listed(k, offer)'
      BY <3>3 DEF Listed, Inferred
    <3>. QED
      BY <3>1, <3>2, <3>3, <3>4 DEF ListInv
  <2>5. CASE FallBack
    BY <2>5 DEF FallBack, ListInv
  <2>6. CASE UNCHANGED suggestVars
    BY <1>2, <2>6 DEF suggestVars, coverVars, tileVars, ListInv, Listed, Inferred
  <2>. QED
    BY <1>2, <2>1, <2>2, <2>3, <2>4, <2>5, <2>6 DEF SuggestNext
<1>. QED
  BY <1>1, <1>2, PTL DEF SuggestSpec

\* However many suggestions are asked for, the list is ranked the same; and the
\* answer of last resort is the best that compiles, whatever the candidates
\* (DiscoverTopK, deriveSafeFallback: discovery.go 499-609).
THEOREM ListIsHonest == SuggestSpec => []ListHonest
<1>1. ASSUME ListInv PROVE ListHonest
  <2>1. TopKPrefix
    <3>1. SUFFICES ASSUME mpc = "listed", list.wanted > 0
                   PROVE  IsPrefix(list.found, Listed(list.wanted + 1, offer))
      BY DEF TopKPrefix
    <3>2. /\ offer \in PoolInputs /\ list.wanted \in Nat \ {0}
          /\ list.found = Listed(list.wanted, offer)
      BY <1>1, <3>1 DEF ListInv
    <3>. QED
      BY <3>2, ListContinues
  <2>2. FallbackHonest
    BY <1>1, FallbackIsHonest DEF ListInv, FallbackHonest
  <2>. QED
    BY <2>1, <2>2 DEF ListHonest
<1>. QED
  BY <1>1, ListInvariant, PTL

-----------------------------------------------------------------------------
(***************************************************************************)
(* A total order ranks a finite set                                        *)
(***************************************************************************)
IsOrder(S, R) ==
  /\ \A x \in S : <<x, x>> \notin R
  /\ \A x, y \in S : x # y => <<x, y>> \in R \/ <<y, x>> \in R
  /\ \A x, y, z \in S : <<x, y>> \in R /\ <<y, z>> \in R => <<x, z>> \in R

Rank(S, R, x) == Cardinality({y \in S : <<y, x>> \in R})

LEMMA RankBelow ==
  ASSUME NEW S, IsFiniteSet(S), NEW R, IsOrder(S, R), NEW x \in S
  PROVE  /\ Rank(S, R, x) \in 0 .. Cardinality(S) - 1
         /\ \A y \in S : <<y, x>> \in R => Rank(S, R, y) < Rank(S, R, x)
<1>. DEFINE Below(y) == {z \in S : <<z, y>> \in R}
<1>1. \A T \in SUBSET S : /\ IsFiniteSet(T) /\ Cardinality(T) \in Nat
                          /\ Cardinality(T) <= Cardinality(S)
                          /\ Cardinality(S) = Cardinality(T) => S = T
  BY FS_Subset, FS_CardinalityType
<1>2. Cardinality(S) \in Nat
  BY FS_CardinalityType
<1>3. Below(x) # S /\ Below(x) \in SUBSET S
  BY DEF IsOrder
<1>4. Rank(S, R, x) = Cardinality(Below(x))
  BY DEF Rank
<1>5. Rank(S, R, x) \in 0 .. Cardinality(S) - 1
  <2>. HIDE DEF Below
  <2>. QED
    BY <1>1, <1>2, <1>3, <1>4
<1>6. ASSUME NEW y \in S, <<y, x>> \in R
      PROVE  Rank(S, R, y) < Rank(S, R, x)
  <2>1. Below(y) \in SUBSET Below(x) /\ y \in Below(x) /\ y \notin Below(y)
    BY <1>6 DEF IsOrder
  <2>2. Rank(S, R, y) = Cardinality(Below(y))
    BY DEF Rank
  <2>3. Below(y) \in SUBSET S
    OBVIOUS
  <2>. HIDE DEF Below
  <2>4. IsFiniteSet(Below(x))
    BY <1>1, <1>3
  <2>5. Cardinality(Below(y)) <= Cardinality(Below(x)) /\ Cardinality(Below(x)) # Cardinality(Below(y))
    BY <2>1, <2>4, FS_Subset
  <2>6. Cardinality(Below(x)) \in Nat /\ Cardinality(Below(y)) \in Nat
    BY <1>1, <1>3, <2>3
  <2>. QED
    BY <1>4, <2>2, <2>5, <2>6
<1>. QED
  BY <1>5, <1>6

\* Every place of the order is taken by one member, and every member has one.
LEMMA InOrderRanks ==
  ASSUME NEW S, IsFiniteSet(S), NEW R, IsOrder(S, R)
  PROVE  /\ Cardinality(S) \in Nat
         /\ InOrder(S, R) \in [1 .. Cardinality(S) -> S]
         /\ \A k \in 1 .. Cardinality(S) : Rank(S, R, InOrder(S, R)[k]) = k - 1
         /\ \A x \in S : \E k \in 1 .. Cardinality(S) : InOrder(S, R)[k] = x
<1>. DEFINE n == Cardinality(S)
            rank == [x \in S |-> Rank(S, R, x)]
            o == InOrder(S, R)
<1>1. n \in Nat
  BY FS_CardinalityType
<1>2. \A x \in S : Rank(S, R, x) \in 0 .. n - 1
  BY RankBelow
<1>3. \A x, y \in S : <<y, x>> \in R => Rank(S, R, y) < Rank(S, R, x)
  BY RankBelow
<1>4. \A x, y \in S : Rank(S, R, x) = Rank(S, R, y) => x = y
  <2>. SUFFICES ASSUME NEW x \in S, NEW y \in S, Rank(S, R, x) = Rank(S, R, y), x # y
                PROVE  FALSE
    OBVIOUS
  <2>1. <<x, y>> \in R \/ <<y, x>> \in R
    BY DEF IsOrder
  <2>2. Rank(S, R, x) \in Int /\ Rank(S, R, y) \in Int
    BY <1>1, <1>2
  <2>. QED
    BY <1>3, <2>1, <2>2
<1>5. IsFiniteSet(0 .. n - 1) /\ Cardinality(0 .. n - 1) = n
  <2>1. 0 \in Int /\ n - 1 \in Int /\ (IF 0 > n - 1 THEN 0 ELSE (n - 1) - 0 + 1) = n
    BY <1>1
  <2>. QED
    BY ONLY <2>1, FS_Interval
<1>6. rank \in Injection(S, 0 .. n - 1)
  BY <1>2, <1>4 DEF Injection, IsInjective
<1>. HIDE DEF rank
<1>7. rank \in Surjection(S, 0 .. n - 1)
  BY ONLY <1>5, <1>6, FS_Injection, n = Cardinality(S)
<1>8. \A k \in 1 .. n : \E x \in S : Rank(S, R, x) = k - 1
  <2>. TAKE k \in 1 .. n
  <2>1. k - 1 \in 0 .. n - 1
    BY <1>1
  <2>2. \A t \in 0 .. n - 1 : \E x \in S : rank[x] = t
    BY <1>7 DEF Surjection
  <2>3. PICK x \in S : rank[x] = k - 1
    BY <2>1, <2>2
  <2>4. rank[x] = Rank(S, R, x)
    BY DEF rank
  <2>. QED
    BY <2>3, <2>4
<1>9. o = [k \in 1 .. n |-> CHOOSE x \in S : Rank(S, R, x) = k - 1]
  BY DEF InOrder, Rank
<1>. HIDE DEF o
<1>10. \A k \in 1 .. n : o[k] \in S /\ Rank(S, R, o[k]) = k - 1
  BY <1>8, <1>9
<1>11. o \in [1 .. n -> S]
  BY <1>9, <1>10
<1>12. ASSUME NEW x \in S PROVE \E k \in 1 .. n : o[k] = x
  <2>. DEFINE k == Rank(S, R, x) + 1
  <2>1. k \in 1 .. n /\ k - 1 = Rank(S, R, x)
    BY <1>1, <1>2
  <2>. HIDE DEF k
  <2>2. o[k] = x
    BY <1>4, <1>10, <2>1
  <2>. QED
    BY <2>1, <2>2
<1>. QED
  BY <1>1, <1>10, <1>11, <1>12 DEF o

\* The elements at these places, each of them and no other.
LEMMA PickedAll ==
  ASSUME NEW s, NEW n \in Nat, NEW K \in SUBSET (1 .. n)
  PROVE  /\ Cardinality(K) \in Nat /\ DOMAIN Picked(s, K) = 1 .. Cardinality(K)
         /\ Len(Picked(s, K)) = Cardinality(K)
         /\ \A j \in 1 .. Cardinality(K) : \E k \in K : Picked(s, K)[j] = s[k]
         /\ \A k \in K : \E j \in 1 .. Cardinality(K) : Picked(s, K)[j] = s[k]
<1>. DEFINE R == {p \in K \X K : p[1] < p[2]}
            o == InOrder(K, R)
<1>1. IsFiniteSet(K)
  BY PlacesFinite
<1>2. /\ Cardinality(K) \in Nat /\ DOMAIN Picked(s, K) = 1 .. Cardinality(K)
      /\ Len(Picked(s, K)) = Cardinality(K)
  BY <1>1, PickedIs
<1>3. \A x, y \in K : <<x, y>> \in R <=> x < y
  OBVIOUS
<1>. HIDE DEF R
<1>4. IsOrder(K, R)
  BY <1>3 DEF IsOrder
<1>5. /\ o \in [1 .. Cardinality(K) -> K]
      /\ \A x \in K : \E k \in 1 .. Cardinality(K) : o[k] = x
  BY <1>1, <1>4, InOrderRanks
<1>6. Picked(s, K) = [j \in DOMAIN o |-> s[o[j]]]
  BY DEF Picked, R
<1>. HIDE DEF o
<1>7. \A j \in 1 .. Cardinality(K) : o[j] \in K /\ Picked(s, K)[j] = s[o[j]]
  BY <1>5, <1>6
<1>. QED
  BY ONLY <1>2, <1>5, <1>7

-----------------------------------------------------------------------------
(***************************************************************************)
(* A token slot is typed so that every value seen in it is matched         *)
(***************************************************************************)
LEMMA SmallestIs ==
  ASSUME NEW S \in SUBSET Nat, S # {}
  PROVE  Min(S) \in S /\ \A y \in S : Min(S) <= y
<1>1. \E m \in S : \A k \in S : m <= k
  BY LeastOf
<1>. QED
  BY <1>1 DEF Min

LEMMA PrimsIs ==
  /\ DOMAIN Prims = 1 .. Len(Prims) /\ Len(Prims) \in Nat \ {0}
  /\ Len(Prims) \in DOMAIN Prims
<1>1. DOMAIN Prims = 1 .. Len(Prims) /\ Len(Prims) \in Nat
  BY TypingAssumption, LenProperties
<1>2. Len(Prims) > 0
  BY Zenon, TypingAssumption
<1>. QED
  BY ONLY <1>1, <1>2

LEMMA LeavesAre ==
  /\ \A k \in DOMAIN Prims : Field(k) \in LeafSet /\ Field(k) # Nil
  /\ \A v \in Tokens : Lit(v) \in LeafSet
  /\ Lit(Dash) \in LeafSet /\ Lit(" ") \in LeafSet
  /\ \A v \in Tokens : \A i \in DOMAIN SplitSub[v].parts :
       Lit(SplitSub[v].parts[i]) \in LeafSet /\ Lit(SplitSub[v].parts[i]) # Nil
<1>1. Nil \notin LeafSet
  BY Zenon, TypingAssumption
<1>2. \A text \in Texts : Lit(text) \in LeafSet
  BY DEF Lit, LeafSet
<1>3. \A k \in DOMAIN Prims : Field(k) \in LeafSet
  BY DEF Field, LeafSet
<1>4. \A v \in Tokens : \A i \in DOMAIN SplitSub[v].parts : SplitSub[v].parts[i] \in Texts
  <2>. TAKE v \in Tokens
  <2>. TAKE i \in DOMAIN SplitSub[v].parts
  <2>1. SplitSub[v].parts[i] \in ToSet(SplitSub[v].parts)
    BY DEF ToSet
  <2>. QED
    BY <2>1, Zenon DEF Texts
<1>5. Dash \in Texts /\ " " \in Texts /\ \A v \in Tokens : v \in Texts
  BY DEF Texts
<1>. QED
  BY <1>1, <1>2, <1>3, <1>4, <1>5

\* A vote on values that NOTSPACE matches is for a primitive that matches them.
LEMMA VoteFits ==
  ASSUME NEW values \in SUBSET NotSpace.accepts
  PROVE  VoteSingle(values) \in DOMAIN Prims /\ values \subseteq Prims[VoteSingle(values)].accepts
<1>. DEFINE fits == {k \in DOMAIN Prims : values \subseteq Prims[k].accepts}
<1>1. Len(Prims) \in fits
  <2>1. values \subseteq Prims[Len(Prims)].accepts
    BY DEF NotSpace
  <2>2. Len(Prims) \in DOMAIN Prims
    BY PrimsIs
  <2>. QED
    BY ONLY <2>1, <2>2
<1>2. fits \in SUBSET Nat /\ fits # {}
  BY <1>1, PrimsIs
<1>3. VoteSingle(values) = Min(fits)
  BY <1>2 DEF VoteSingle
<1>4. Min(fits) \in fits
  <2>. HIDE DEF fits
  <2>. QED
    BY <1>2, SmallestIs
<1>. QED
  BY <1>3, <1>4

LEMMA TokenFits ==
  ASSUME NEW v \in Tokens
  PROVE  v \in NotSpace.accepts /\ MatchesPiece(Field(VoteSingle({v})), v)
<1>1. v \in NotSpace.accepts
  BY TypingAssumption
<1>2. {v} \in SUBSET NotSpace.accepts
  BY <1>1
<1>3. v \in Prims[VoteSingle({v})].accepts
  BY <1>2, VoteFits
<1>. QED
  BY <1>1, <1>3 DEF MatchesPiece, Field, AcceptsOne

\* A field that matches all values but the placeholder, wrapped where it must.
LEMMA WrapFits ==
  ASSUME NEW k, NEW v, NEW dash \in BOOLEAN, v # Dash => v \in Prims[k].accepts,
         v = Dash => dash \/ Dash \in Prims[k].accepts
  PROVE  MatchesPiece(WrapDash(Field(k), dash), v)
<1>1. CASE dash
  <2>1. WrapDash(Field(k), dash) = Group(<<Field(k)>>, <<>>, TRUE)
    BY <1>1 DEF WrapDash
  <2>. QED
    BY <2>1 DEF Group, Field, MatchesPiece, AcceptsOne
<1>2. CASE ~dash
  <2>1. WrapDash(Field(k), dash) = Field(k)
    BY <1>2 DEF WrapDash
  <2>. QED
    BY <1>2, <2>1 DEF Field, MatchesPiece, AcceptsOne
<1>. QED
  BY <1>1, <1>2

\* The values of a slot, the placeholder apart.
LEMMA CoreIs ==
  ASSUME NEW st, NEW n \in Nat, st.distinct \in [1 .. n -> Tokens]
  PROVE  /\ Len(CoreValues(st)) \in Nat /\ DOMAIN CoreValues(st) = 1 .. Len(CoreValues(st))
         /\ \A j \in 1 .. Len(CoreValues(st)) :
              CoreValues(st)[j] \in Tokens /\ CoreValues(st)[j] # Dash
         /\ \A k \in 1 .. n : st.distinct[k] # Dash =>
              \E j \in 1 .. Len(CoreValues(st)) : CoreValues(st)[j] = st.distinct[k]
<1>. DEFINE K == {k \in DOMAIN st.distinct : st.distinct[k] # Dash}
<1>1. K \in SUBSET (1 .. n)
  OBVIOUS
<1>2. CoreValues(st) = Picked(st.distinct, K)
  BY DEF CoreValues
<1>3. \A k \in K : st.distinct[k] \in Tokens /\ st.distinct[k] # Dash
  OBVIOUS
<1>4. \A k \in 1 .. n : st.distinct[k] # Dash => k \in K
  OBVIOUS
<1>. HIDE DEF K
<1>. DEFINE d == st.distinct  core == Picked(d, K)  m == Cardinality(K)
<1>5. /\ m \in Nat /\ DOMAIN core = 1 .. m /\ Len(core) = m
      /\ \A j \in 1 .. m : \E k \in K : core[j] = d[k]
      /\ \A k \in K : \E j \in 1 .. m : core[j] = d[k]
  BY <1>1, PickedAll
<1>. HIDE DEF d, core, m
<1>6. CoreValues(st) = core /\ st.distinct = d
  BY <1>2 DEF core, d
<1>. QED
  BY ONLY <1>3, <1>4, <1>5, <1>6

\* The column of a part that is not empty matches it.
LEMMA ColumnFits ==
  ASSUME NEW core, NEW n \in Nat \ {0}, core \in [1 .. n -> Tokens],
         SubSplitPieces(core) # Nil, NEW v \in ToSet(core)
  PROVE  LET sub == SubSplitPieces(core)  sig == SplitSub[core[1]].sig IN
         /\ sig # <<>> /\ SplitSub[v].sig = sig
         /\ DOMAIN sub = DOMAIN SplitSub[core[1]].parts
         /\ \A i \in DOMAIN sub : AcceptsColumn(sub[i], SplitSub[v].parts[i])
<1>. DEFINE sub == SubSplitPieces(core)
            sig == SplitSub[core[1]].sig
            columns == DOMAIN SplitSub[core[1]].parts
            Column(i) == {SplitSub[w].parts[i] : w \in ToSet(core)} \ {""}
            Piece(i) == IF Column(i) = {} THEN Nil
                        ELSE IF \/ Prims[VoteSingle(Column(i))].promote
                                \/ Cardinality(Column(i)) > 1
                             THEN Field(VoteSingle(Column(i)))
                             ELSE Lit(CHOOSE w \in Column(i) : TRUE)
<1>1. /\ sig # <<>> /\ \A w \in ToSet(core) : SplitSub[w].sig = sig
      /\ sub = [i \in columns |-> Piece(i)]
  <2>. DEFINE none == \/ sig = <<>> \/ \E w \in ToSet(core) : SplitSub[w].sig # sig
                      \/ {i \in columns : Column(i) # {}
                            /\ Prims[VoteSingle(Column(i))].promote} = {}
  <2>1. sub = IF none THEN Nil ELSE [i \in columns |-> Piece(i)]
    BY Zenon DEF SubSplitPieces, WrapDash
  <2>2. none => sub = Nil
    <3>. HIDE DEF none, sub, Piece
    <3>. QED
      BY <2>1
  <2>3. ~none
    BY <2>2
  <2>4. sub = [i \in columns |-> Piece(i)]
    <3>. HIDE DEF none, sub, Piece
    <3>. QED
      BY <2>1, <2>3
  <2>. QED
    BY <2>3, <2>4
<1>2. /\ core[1] \in Tokens /\ ToSet(core) \subseteq Tokens
      /\ ToSet(core) = {core[i] : i \in 1 .. n}
  BY DEF ToSet
<1>3. \A w \in ToSet(core) :
        /\ DOMAIN SplitSub[w].parts = columns
        /\ \A i \in columns : SplitSub[w].parts[i] = "" <=> SplitSub[core[1]].parts[i] = ""
  <2>. TAKE w \in ToSet(core)
  <2>1. w \in Tokens /\ SplitSub[w].sig = SplitSub[core[1]].sig
    BY <1>1, <1>2
  <2>. QED
    BY <1>2, <2>1, TypingAssumption
<1>4. \A w \in ToSet(core), i \in columns :
        SplitSub[w].parts[i] # "" =>
          /\ SplitSub[w].parts[i] \in NotSpace.accepts
          /\ Lit(SplitSub[w].parts[i]) # Nil
  <2>. TAKE w \in ToSet(core), i \in columns
  <2>1. w \in Tokens /\ i \in DOMAIN SplitSub[w].parts
    BY <1>2, <1>3
  <2>2. SplitSub[w].parts[i] # "" => SplitSub[w].parts[i] \in NotSpace.accepts
    BY <2>1, TypingAssumption
  <2>3. Lit(SplitSub[w].parts[i]) # Nil
    BY <2>1, LeavesAre
  <2>. QED
    BY <2>2, <2>3
<1>5. ASSUME NEW i \in columns PROVE AcceptsColumn(Piece(i), SplitSub[v].parts[i])
  <2>. DEFINE col == Column(i)  part == SplitSub[v].parts[i]  k == VoteSingle(col)
  <2>1. \A x \in col : \E w \in ToSet(core) : x = SplitSub[w].parts[i] /\ x # ""
    OBVIOUS
  <2>2. \A x \in col : x \in NotSpace.accepts /\ Lit(x) # Nil
    <3>. HIDE DEF col, columns
    <3>. TAKE x \in col
    <3>1. PICK w \in ToSet(core) : x = SplitSub[w].parts[i] /\ x # ""
      BY <2>1
    <3>. QED
      BY <1>4, <3>1
  <2>3. part \in col \/ part = ""
    OBVIOUS
  <2>4. col # {} => part # ""
    BY <1>3, <2>1
  <2>. HIDE DEF col
  <2>5. CASE col = {}
    <3>1. part = "" /\ Piece(i) = Nil
      BY <2>3, <2>5 DEF col
    <3>. QED
      BY <3>1 DEF AcceptsColumn
  <2>6. CASE col # {} /\ (Prims[k].promote \/ Cardinality(col) > 1)
    <3>1. Piece(i) = Field(k)
      BY <2>6 DEF col
    <3>2. k \in DOMAIN Prims /\ part \in Prims[k].accepts
      <4>1. col \in SUBSET NotSpace.accepts
        BY <2>2
      <4>. QED
        BY <2>3, <2>4, <2>6, <4>1, VoteFits
    <3>3. Field(k) # Nil
      BY <3>2, LeavesAre
    <3>4. AcceptsOne(Field(k), part)
      BY <3>2 DEF AcceptsOne, Field
    <3>. QED
      BY <3>1, <3>3, <3>4 DEF AcceptsColumn
  <2>7. CASE col # {} /\ ~ (Prims[k].promote \/ Cardinality(col) > 1)
    <3>1. Piece(i) = Lit(CHOOSE w \in col : TRUE)
      BY <2>7 DEF col
    <3>2. part \in col
      BY <2>3, <2>4, <2>7
    <3>3. IsFiniteSet(col)
      <4>. DEFINE f == [j \in 1 .. n |-> SplitSub[core[j]].parts[i]]
                  T == {f[j] : j \in 1 .. n}
      <4>1. f \in Surjection(1 .. n, T)
        BY DEF Surjection
      <4>2. IsFiniteSet(1 .. n)
        BY PlacesFinite
      <4>. HIDE DEF f
      <4>3. IsFiniteSet(T)
        BY <4>1, <4>2, FS_Surjection
      <4>4. col \in SUBSET T
        BY <1>2 DEF col, f
      <4>. QED
        BY ONLY <4>3, <4>4, FS_Subset
    <3>4. Cardinality(col) = 1
      <4>1. Cardinality(col) \in Nat /\ Cardinality(col) # 0
        BY <2>7, <3>3, FS_CardinalityType, FS_EmptySet
      <4>2. ~ (Cardinality(col) > 1)
        BY <2>7
      <4>. QED
        BY <4>1, <4>2
    <3>5. PICK x : col = {x}
      BY <3>3, <3>4, FS_Singleton
    <3>6. Piece(i) = Lit(part) /\ Lit(part) # Nil
      BY <2>2, <3>1, <3>2, <3>5
    <3>7. AcceptsOne(Lit(part), part)
      BY DEF AcceptsOne, Lit
    <3>. QED
      BY <3>6, <3>7 DEF AcceptsColumn
  <2>. QED
    BY <2>5, <2>6, <2>7
<1>6. DOMAIN sub = columns /\ \A i \in columns : sub[i] = Piece(i)
  BY <1>1
<1>. HIDE DEF sub, Piece, columns
<1>. QED
  BY <1>1, <1>5, <1>6 DEF sub, columns

\* typeToken: a value that was kept is matched.
LEMMA TypedFits ==
  ASSUME NEW tmpl \in Tokens, NEW st, NEW n \in Nat, st.distinct \in [1 .. n -> Tokens],
         NEW v \in Tokens, st.matched < 2 => v = tmpl,
         \E k \in 1 .. n : st.distinct[k] = v
  PROVE  MatchesPiece(TypeToken(tmpl, st), v)
<1>. DEFINE core == CoreValues(st)
            dashes == Contains(st.distinct, Dash)
            k == VoteSingle(ToSet(core))
            needDash == dashes /\ Dash \notin Prims[k].accepts
            sub == SubSplitPieces(core)
            m == Len(core)
<1>1. /\ m \in Nat /\ DOMAIN core = 1 .. m
      /\ \A j \in 1 .. m : core[j] \in Tokens /\ core[j] # Dash
      /\ \A i \in 1 .. n : st.distinct[i] # Dash => \E j \in 1 .. m : core[j] = st.distinct[i]
  BY CoreIs
<1>2. ToSet(core) = {core[j] : j \in 1 .. m}
  BY <1>1 DEF ToSet
<1>3. ToSet(core) \in SUBSET NotSpace.accepts
  BY <1>1, <1>2, TokenFits
<1>4. v # Dash => v \in ToSet(core)
  BY <1>1, <1>2
<1>5. k \in DOMAIN Prims /\ (v # Dash => v \in Prims[k].accepts)
  BY <1>3, <1>4, VoteFits
<1>6. v = Dash => dashes
  <2>1. Len(st.distinct) = n
    BY LenProperties
  <2>. QED
    BY <2>1 DEF Contains
<1>7. core = <<>> <=> m = 0
  BY <1>1
<1>8. TypeToken(tmpl, st) =
        IF st.matched < 2 THEN Field(VoteSingle({tmpl}))
        ELSE IF core = <<>> THEN Lit(Dash)
        ELSE IF Prims[k].promote THEN WrapDash(Field(k), needDash)
        ELSE IF sub # Nil THEN Group(sub, SplitSub[core[1]].sig, dashes)
        ELSE IF Len(core) = 1 /\ ~st.overflow /\ ~dashes THEN Lit(core[1])
        ELSE WrapDash(Field(k), needDash)
  BY DEF TypeToken
<1>9. MatchesPiece(WrapDash(Field(k), needDash), v)
  <2>1. needDash \in BOOLEAN /\ (v = Dash => needDash \/ Dash \in Prims[k].accepts)
    BY <1>6
  <2>. HIDE DEF needDash, k
  <2>. QED
    BY <1>5, <2>1, WrapFits
<1>10. CASE st.matched < 2
  BY <1>8, <1>10, TokenFits
<1>11. CASE ~ (st.matched < 2) /\ core = <<>>
  <2>1. v = Dash
    BY <1>1, <1>2, <1>4, <1>7, <1>11
  <2>. QED
    BY <1>8, <1>11, <2>1 DEF MatchesPiece, Lit, AcceptsOne
<1>12. CASE ~ (st.matched < 2) /\ core # <<>> /\ ~Prims[k].promote /\ sub # Nil
  <2>1. TypeToken(tmpl, st) = Group(sub, SplitSub[core[1]].sig, dashes)
    BY <1>8, <1>12
  <2>2. CASE v = Dash
    BY <1>6, <2>1, <2>2 DEF MatchesPiece, Group
  <2>3. CASE v # Dash
    <3>1. m \in Nat \ {0} /\ v \in ToSet(core)
      BY <1>1, <1>4, <1>7, <1>12, <2>3
    <3>2. core \in [1 .. m -> Tokens]
      <4>1. \E f : core = [j \in DOMAIN core |-> f[j]]
        <5>. DEFINE K == {i \in DOMAIN st.distinct : st.distinct[i] # Dash}
                    o == InOrder(K, {p \in K \X K : p[1] < p[2]})
                    f == [j \in DOMAIN o |-> st.distinct[o[j]]]
        <5>1. core = f
          BY DEF CoreValues, Picked
        <5>2. f = [j \in DOMAIN f |-> f[j]]
          OBVIOUS
        <5>. HIDE DEF f, core
        <5>. QED
          BY <5>1, <5>2
      <4>. HIDE DEF core
      <4>. QED
        BY <1>1, <4>1
    <3>. HIDE DEF core, m
    <3>3. /\ SplitSub[core[1]].sig # <<>> /\ SplitSub[v].sig = SplitSub[core[1]].sig
          /\ \A i \in DOMAIN sub : AcceptsColumn(sub[i], SplitSub[v].parts[i])
      BY <1>12, <3>1, <3>2, ColumnFits
    <3>. HIDE DEF sub, dashes
    <3>. QED
      BY <2>1, <3>3 DEF MatchesPiece, Group
  <2>. QED
    BY <2>2, <2>3
<1>13. CASE ~ (st.matched < 2) /\ core # <<>> /\ ~Prims[k].promote /\ sub = Nil
            /\ Len(core) = 1 /\ ~st.overflow /\ ~dashes
  <2>1. TypeToken(tmpl, st) = Lit(core[1])
    BY <1>8, <1>13
  <2>2. v = core[1]
    BY <1>2, <1>4, <1>6, <1>13
  <2>. QED
    BY <2>1, <2>2 DEF MatchesPiece, Lit, AcceptsOne
<1>. HIDE DEF core, dashes, k, needDash, sub, m
<1>. QED
  BY <1>8, <1>9, <1>10, <1>11, <1>12, <1>13

-----------------------------------------------------------------------------
(***************************************************************************)
(* What the lines aligned with a template show at a token                  *)
(***************************************************************************)
StatsSet == [matched : Nat, distinct : Seq(Tokens), overflow : BOOLEAN]

LEMMA AddTyped ==
  ASSUME NEW st \in StatsSet, NEW v \in Tokens
  PROVE  LET new == AddValue(st, v) IN
         /\ new \in StatsSet /\ new.matched = st.matched + 1
         /\ st.overflow => new.overflow
         /\ ~new.overflow => Contains(new.distinct, v)
         /\ \A w : Contains(st.distinct, w) => Contains(new.distinct, w)
<1>. DEFINE d == st.distinct
            fresh == ~Contains(d, v)
            room == Len(d) < DistinctCap
            e == IF fresh /\ room THEN Append(d, v) ELSE d
<1>1. AddValue(st, v) = [matched |-> st.matched + 1, distinct |-> e,
                         overflow |-> st.overflow \/ (fresh /\ ~room)]
  BY DEF AddValue
<1>2. d \in Seq(Tokens) /\ st.matched \in Nat /\ st.overflow \in BOOLEAN
  BY DEF StatsSet
<1>3. fresh \in BOOLEAN /\ room \in BOOLEAN
  BY DEF Contains
<1>. HIDE DEF d
<1>4. /\ e \in Seq(Tokens)
      /\ \A w : Contains(d, w) => Contains(e, w)
      /\ fresh /\ room => Contains(e, v)
  <2>1. CASE fresh /\ room
    <3>1. /\ e = Append(d, v) /\ Len(d) \in Nat /\ e \in Seq(Tokens) /\ Len(e) = Len(d) + 1
          /\ e[Len(d) + 1] = v /\ \A k \in 1 .. Len(d) : e[k] = d[k]
      BY <1>2, <2>1
    <3>. HIDE DEF e, fresh, room
    <3>2. Len(d) + 1 \in 1 .. Len(e) /\ \A k \in 1 .. Len(d) : k \in 1 .. Len(e)
      BY <3>1
    <3>. QED
      BY <3>1, <3>2 DEF Contains
  <2>2. CASE ~ (fresh /\ room)
    BY <1>2, <2>2
  <2>. QED
    BY <2>1, <2>2
<1>5. ~fresh => Contains(e, v)
  BY <1>4
<1>. HIDE DEF e, fresh, room
<1>. QED
  BY <1>1, <1>2, <1>3, <1>4, <1>5 DEF StatsSet, d

LEMMA TokenAt ==
  ASSUME NEW lines \in [Lines -> Seq(Tokens)], NEW template \in Seq(Tokens),
         NEW u \in DOMAIN template, NEW i \in Aligned(lines, template)
  PROVE  i \in Lines /\ lines[i][u] \in Tokens
<1>1. i \in Lines /\ Len(lines[i]) = Len(template) /\ lines[i] \in Seq(Tokens)
  BY DEF Aligned
<1>2. u \in 1 .. Len(lines[i])
  BY <1>1, LenProperties
<1>. QED
  BY <1>1, <1>2, ElementOfSeq

\* The pass over the lines.
Shows(lines, template, u, f) ==
  /\ f[0] = NoStats
  /\ \A i \in 1 .. N : f[i] = IF i - 1 \in Aligned(lines, template)
                              THEN AddValue(f[i - 1], lines[i - 1][u]) ELSE f[i - 1]

LEMMA StatsUnfold ==
  ASSUME NEW lines \in [Lines -> Seq(Tokens)], NEW template \in Seq(Tokens),
         NEW u \in DOMAIN template
  PROVE  \E f : Shows(lines, template, u, f) /\ Stats(lines, template, u) = f[N]
<1>. DEFINE A == StatsSet
            body(a, i) == IF i - 1 \in Aligned(lines, template)
                          THEN AddValue(a, lines[i - 1][u]) ELSE a
            step == [p \in A \X (1 .. N) |-> body(p[1], p[2])]
            IsLoop(f) == f = [i \in 0 .. N |-> IF i = 0 THEN NoStats ELSE body(f[i - 1], i)]
            cur == CHOOSE f : IsLoop(f)
<1>1. N \in Nat
  BY LinesAssumption
<1>2. NoStats \in A
  BY EmptySeq DEF NoStats, StatsSet
<1>3. \A a \in A, i \in 1 .. N : body(a, i) \in A
  <2>. TAKE a \in A, i \in 1 .. N
  <2>1. CASE i - 1 \in Aligned(lines, template)
    BY <2>1, TokenAt, AddTyped
  <2>2. CASE i - 1 \notin Aligned(lines, template)
    BY <2>2
  <2>. QED
    BY <2>1, <2>2
<1>4. step \in [A \X (1 .. N) -> A]
  <2>. HIDE DEF A, body
  <2>. QED
    BY <1>3
<1>. HIDE DEF A, body
<1>5. PICK f \in [0 .. N -> A] :
        f[0] = NoStats /\ \A i \in 1 .. N : f[i] = step[<<f[i - 1], i>>]
  <2>. HIDE DEF step
  <2>1. HasLoop(A, NoStats, N, step)
    BY <1>1, <1>2, <1>4, LoopExists
  <2>. QED
    BY <2>1 DEF HasLoop
<1>6. \A i \in 1 .. N : f[i] = body(f[i - 1], i)
  <2>. TAKE i \in 1 .. N
  <2>1. i - 1 \in 0 .. N
    BY <1>1
  <2>2. <<f[i - 1], i>> \in A \X (1 .. N)
    BY <1>5, <2>1
  <2>. QED
    BY <1>5, <2>2
<1>7. IsLoop(f)
  <2>1. f = [i \in 0 .. N |-> f[i]]
    BY <1>5
  <2>2. \A i \in 0 .. N : f[i] = IF i = 0 THEN NoStats ELSE body(f[i - 1], i)
    <3>. TAKE i \in 0 .. N
    <3>1. i = 0 \/ (i # 0 /\ i \in 1 .. N)
      BY <1>1
    <3>. QED
      BY <1>5, <1>6, <3>1
  <2>. DEFINE g == [i \in 0 .. N |-> IF i = 0 THEN NoStats ELSE body(f[i - 1], i)]
  <2>3. g = [i \in 0 .. N |-> g[i]] /\ \A i \in 0 .. N : g[i] = f[i]
    BY <2>2
  <2>4. IsLoop(f) <=> f = g
    OBVIOUS
  <2>. HIDE DEF g, IsLoop
  <2>. QED
    BY ONLY <2>1, <2>3, <2>4
<1>8. IsLoop(cur)
  BY <1>7
<1>9. Stats(lines, template, u) = cur[N]
  BY DEF Stats, body
<1>. HIDE DEF cur
<1>10. Shows(lines, template, u, cur)
  <2>1. \A i \in 0 .. N : cur[i] = IF i = 0 THEN NoStats ELSE body(cur[i - 1], i)
    BY <1>8
  <2>2. 0 \in 0 .. N /\ \A i \in 1 .. N : i \in 0 .. N /\ i # 0
    BY <1>1
  <2>3. cur[0] = NoStats /\ \A i \in 1 .. N : cur[i] = body(cur[i - 1], i)
    BY <2>1, <2>2
  <2>. QED
    BY <2>3 DEF Shows, body
<1>. QED
  BY <1>9, <1>10

\* What was shown by the lines before k.
Seen(lines, template, u, st, k) ==
  LET before == {i \in Aligned(lines, template) : i < k} IN
  /\ st \in StatsSet
  /\ ~st.overflow => \A i \in before : Contains(st.distinct, lines[i][u])
  /\ st.matched = 0 => before = {}
  /\ st.matched < 2 => \A i, j \in before : i = j

LEMMA StatsSeen ==
  ASSUME NEW lines \in [Lines -> Seq(Tokens)], NEW template \in Seq(Tokens),
         NEW u \in DOMAIN template
  PROVE  Seen(lines, template, u, Stats(lines, template, u), N)
<1>1. PICK f : Shows(lines, template, u, f) /\ Stats(lines, template, u) = f[N]
  BY StatsUnfold
<1>2. N \in Nat
  BY LinesAssumption
<1>. DEFINE P == {k \in 0 .. N : Seen(lines, template, u, f[k], k)}
            B(k) == {i \in Aligned(lines, template) : i < k}
<1>3. \A i \in Aligned(lines, template) : i \in 0 .. N - 1
  BY DEF Aligned, Lines
<1>4. 0 \in P
  <2>1. f[0] = NoStats /\ NoStats \in StatsSet
    BY <1>1, EmptySeq DEF Shows, NoStats, StatsSet
  <2>2. B(0) = {}
    BY <1>2, <1>3
  <2>3. Seen(lines, template, u, f[0], 0)
    BY <2>1, <2>2 DEF Seen
  <2>. QED
    BY <1>2, <2>3
<1>5. ASSUME NEW k \in 1 .. N, k - 1 \in P PROVE k \in P
  <2>. DEFINE a == f[k - 1]  b == f[k]
  <2>1. Seen(lines, template, u, a, k - 1)
    BY <1>5
  <2>2. b = IF k - 1 \in Aligned(lines, template) THEN AddValue(a, lines[k - 1][u]) ELSE a
    BY <1>1 DEF Shows
  <2>. HIDE DEF a, b
  <2>3. /\ a \in StatsSet /\ a.matched \in Nat /\ a.overflow \in BOOLEAN
        /\ ~a.overflow => \A i \in B(k - 1) : Contains(a.distinct, lines[i][u])
        /\ a.matched = 0 => B(k - 1) = {}
        /\ a.matched < 2 => \A i, j \in B(k - 1) : i = j
    BY <2>1 DEF Seen, StatsSet
  <2>4. CASE k - 1 \in Aligned(lines, template)
    <3>. DEFINE v == lines[k - 1][u]
    <3>1. B(k) = B(k - 1) \cup {k - 1}
      BY <1>2, <1>3, <2>4
    <3>2. v \in Tokens
      BY <2>4, TokenAt
    <3>3. b = AddValue(a, v)
      BY <2>2, <2>4
    <3>. HIDE DEF v, B
    <3>4. /\ b \in StatsSet /\ b.matched = a.matched + 1
          /\ a.overflow => b.overflow
          /\ ~b.overflow => Contains(b.distinct, v)
          /\ \A w : Contains(a.distinct, w) => Contains(b.distinct, w)
      BY <2>3, <3>2, <3>3, AddTyped
    <3>5. ~b.overflow => \A i \in B(k) : Contains(b.distinct, lines[i][u])
      <4>. SUFFICES ASSUME ~b.overflow, NEW i \in B(k) PROVE Contains(b.distinct, lines[i][u])
        OBVIOUS
      <4>1. CASE i = k - 1
        BY <3>4, <4>1 DEF v
      <4>2. CASE i \in B(k - 1)
        <5>1. Contains(a.distinct, lines[i][u])
          BY <2>3, <3>4, <4>2
        <5>. QED
          BY <3>4, <5>1
      <4>. QED
        BY <3>1, <4>1, <4>2
    <3>6. b.matched # 0 /\ (b.matched < 2 => a.matched = 0)
      BY <2>3, <3>4
    <3>7. b.matched < 2 => \A i, j \in B(k) : i = j
      BY <2>3, <3>1, <3>6
    <3>8. Seen(lines, template, u, b, k)
      BY <3>4, <3>5, <3>6, <3>7 DEF Seen, B
    <3>. QED
      BY <3>8 DEF b
  <2>5. CASE k - 1 \notin Aligned(lines, template)
    <3>1. B(k) = B(k - 1)
      <4>1. \A i \in Aligned(lines, template) : i \in Int /\ i # k - 1
        BY <2>5 DEF Aligned, Lines
      <4>. QED
        BY <4>1
    <3>2. a = b
      BY <1>2, <1>3, <2>2, <2>5
    <3>. HIDE DEF B
    <3>3. Seen(lines, template, u, b, k)
      BY <2>3, <3>1, <3>2 DEF Seen, B
    <3>. QED
      BY <3>3 DEF b
  <2>. QED
    BY <2>4, <2>5
<1>6. P \subseteq 0 .. N
  OBVIOUS
<1>. HIDE DEF P
<1>7. N \in P
  BY <1>2, <1>4, <1>5, <1>6, AlongLoop
<1>. QED
  BY <1>1, <1>7 DEF P

\* A template's pieces: one for each token, spaces between.
LEMMA PieceAt ==
  ASSUME NEW lines, NEW S, NEW template \in Seq(S), NEW u \in DOMAIN template
  PROVE  /\ DOMAIN InferPieces(lines, template) = 1 .. 2 * Len(template) - 1
         /\ 2 * u - 1 \in 1 .. 2 * Len(template) - 1
         /\ InferPieces(lines, template)[2 * u - 1] =
              TypeToken(template[u], Stats(lines, template, u))
<1>1. u \in 1 .. Len(template) /\ Len(template) \in Nat
  BY LenProperties
<1>. DEFINE k == 2 * u - 1
<1>2. k \in 1 .. 2 * Len(template) - 1 /\ ~ (k % 2 = 0) /\ (k + 1) \div 2 = u
  BY <1>1
<1>3. DOMAIN InferPieces(lines, template) = 1 .. 2 * Len(template) - 1
  BY DEF InferPieces
<1>. HIDE DEF k
<1>4. InferPieces(lines, template)[k] =
        IF k % 2 = 0 THEN Lit(" ")
        ELSE TypeToken(template[(k + 1) \div 2], Stats(lines, template, (k + 1) \div 2))
  BY <1>2 DEF InferPieces
<1>5. InferPieces(lines, template)[k] = TypeToken(template[u], Stats(lines, template, u))
  BY ONLY <1>2, <1>4, Zenon
<1>. QED
  BY <1>2, <1>3, <1>5 DEF k

\* The pattern of a template line matches the lines whose values it was learned from.
LEMMA LearnedFrom ==
  ASSUME NEW lines \in [Lines -> Seq(Tokens)], NEW t \in Lines,
         lines[t] # <<>>,
         NEW i \in Aligned(lines, lines[t]), KeptValues(lines, lines[t], i)
  PROVE  MatchesLine(InferPieces(lines, lines[t]), lines[i])
<1>. DEFINE template == lines[t]
            line == lines[i]
            pieces == InferPieces(lines, template)
            n == Len(template)
<1>1. /\ template \in Seq(Tokens) /\ n \in Nat \ {0} /\ DOMAIN template = 1 .. n
      /\ i \in Lines /\ line \in Seq(Tokens) /\ Len(line) = n /\ DOMAIN line = 1 .. n
      /\ t \in Aligned(lines, template)
  BY LenProperties DEF Aligned
<1>. HIDE DEF pieces, template, line, n
<1>2. Len(pieces) = 2 * n - 1
  <2>1. 1 \in DOMAIN template
    BY <1>1
  <2>2. DOMAIN pieces = 1 .. 2 * n - 1
    BY <1>1, <2>1, PieceAt DEF pieces, n
  <2>3. 2 * n - 1 \in Nat
    BY <1>1
  <2>4. pieces = [k \in 1 .. 2 * n - 1 |-> pieces[k]]
    BY DEF pieces, InferPieces, n, template
  <2>. QED
    BY <2>3, <2>4, LenProperties
<1>3. ASSUME NEW u \in 1 .. n PROVE MatchesPiece(pieces[2 * u - 1], line[u])
  <2>. DEFINE st == Stats(lines, template, u)
              B == {j \in Aligned(lines, template) : j < N}
  <2>1. u \in DOMAIN template /\ template[u] \in Tokens /\ line[u] \in Tokens
    BY <1>1, ElementOfSeq
  <2>2. pieces[2 * u - 1] = TypeToken(template[u], st)
    BY <1>1, <2>1, PieceAt DEF pieces
  <2>3. Seen(lines, template, u, st, N)
    BY <1>1, <2>1, StatsSeen
  <2>4. st.overflow => Contains(st.distinct, line[u])
    BY <2>1 DEF KeptValues, template, line
  <2>5. i \in B /\ t \in B
    BY <1>1, LinesAssumption DEF Aligned, Lines, template
  <2>. HIDE DEF st, B
  <2>6. /\ st \in StatsSet /\ Contains(st.distinct, line[u])
        /\ st.matched < 2 => i = t
    BY <2>3, <2>4, <2>5 DEF Seen, B, line
  <2>7. /\ Len(st.distinct) \in Nat
        /\ st.distinct \in [1 .. Len(st.distinct) -> Tokens]
        /\ \E k \in 1 .. Len(st.distinct) : st.distinct[k] = line[u]
    <3>1. st.distinct \in Seq(Tokens)
      BY <2>6 DEF StatsSet
    <3>. QED
      BY <2>6, <3>1, LenProperties DEF Contains
  <2>8. st.matched < 2 => line[u] = template[u]
    BY <2>6 DEF line, template
  <2>9. MatchesPiece(TypeToken(template[u], st), line[u])
    BY <2>1, <2>7, <2>8, TypedFits
  <2>. QED
    BY <2>2, <2>9
<1>. QED
  BY <1>1, <1>2, <1>3 DEF MatchesLine, pieces, template, line

-----------------------------------------------------------------------------
(***************************************************************************)
(* The templates are lines of the input, and so are those of the shapes    *)
(***************************************************************************)
LEMMA LineLenTyped ==
  ASSUME NEW line \in Seq(Tokens)
  PROVE  LineLen(line) \in Nat
<1>. DEFINE n == Len(line)
            body(a, k) == a + TokenLen[line[k]] + 1
            step == [p \in Nat \X (1 .. n) |-> body(p[1], p[2])]
            IsLoop(f) == f = [k \in 0 .. n |-> IF k = 0 THEN 0 ELSE body(f[k - 1], k)]
            cur == CHOOSE f : IsLoop(f)
<1>1. n \in Nat
  BY LenProperties
<1>2. \A a \in Nat, k \in 1 .. n : body(a, k) \in Nat
  <2>. TAKE a \in Nat, k \in 1 .. n
  <2>1. line[k] \in Tokens
    BY ElementOfSeq
  <2>2. TokenLen[line[k]] \in Nat
    BY <2>1, TilerAssumption
  <2>. QED
    BY <2>2
<1>. HIDE DEF body, n
<1>3. step \in [Nat \X (1 .. n) -> Nat]
  BY <1>2
<1>4. PICK f \in [0 .. n -> Nat] :
        f[0] = 0 /\ \A k \in 1 .. n : f[k] = step[<<f[k - 1], k>>]
  <2>. HIDE DEF step
  <2>1. HasLoop(Nat, 0, n, step)
    BY <1>1, <1>3, LoopExists
  <2>. QED
    BY <2>1 DEF HasLoop
<1>5. \A k \in 1 .. n : f[k] = body(f[k - 1], k)
  <2>. TAKE k \in 1 .. n
  <2>1. k - 1 \in 0 .. n
    BY <1>1
  <2>2. <<f[k - 1], k>> \in Nat \X (1 .. n)
    BY <1>4, <2>1
  <2>. QED
    BY <1>4, <2>2
<1>6. IsLoop(f)
  <2>1. f = [k \in 0 .. n |-> f[k]]
    BY <1>4
  <2>2. \A k \in 0 .. n : f[k] = IF k = 0 THEN 0 ELSE body(f[k - 1], k)
    <3>. TAKE k \in 0 .. n
    <3>1. k = 0 \/ (k # 0 /\ k \in 1 .. n)
      BY <1>1
    <3>. QED
      BY <1>4, <1>5, <3>1
  <2>. DEFINE g == [k \in 0 .. n |-> IF k = 0 THEN 0 ELSE body(f[k - 1], k)]
  <2>3. g = [k \in 0 .. n |-> g[k]] /\ \A k \in 0 .. n : g[k] = f[k]
    BY <2>2
  <2>4. IsLoop(f) <=> f = g
    OBVIOUS
  <2>. HIDE DEF g, IsLoop
  <2>. QED
    BY ONLY <2>1, <2>3, <2>4
<1>7. IsLoop(cur)
  BY <1>6
<1>8. LineLen(line) = cur[n]
  BY DEF LineLen, body, n
<1>. HIDE DEF cur
<1>9. \A k \in 0 .. n : cur[k] = IF k = 0 THEN 0 ELSE body(cur[k - 1], k)
  BY <1>7
<1>. DEFINE P == {k \in 0 .. n : cur[k] \in Nat}
<1>10. 0 \in P
  BY <1>1, <1>9
<1>11. \A k \in 1 .. n : k - 1 \in P => k \in P
  <2>. SUFFICES ASSUME NEW k \in 1 .. n, k - 1 \in P PROVE k \in P
    OBVIOUS
  <2>1. k \in 0 .. n /\ k # 0 /\ cur[k - 1] \in Nat
    BY <1>1
  <2>2. cur[k] = body(cur[k - 1], k)
    BY <1>9, <2>1
  <2>3. cur[k] \in Nat
    BY <1>2, <2>1, <2>2
  <2>. QED
    BY <2>1, <2>3
<1>12. P \subseteq 0 .. n
  OBVIOUS
<1>. HIDE DEF P
<1>13. n \in P
  BY <1>1, <1>10, <1>11, <1>12, AlongLoop
<1>. QED
  BY <1>8, <1>13 DEF P

LEMMA PickedTemplates ==
  ASSUME NEW lines \in [Lines -> Seq(Tokens)]
  PROVE  PickTemplateLines(lines) \in Seq({lines[i] : i \in Lines})
<1>. DEFINE Before(i, j) == \/ LineLen(lines[i]) > LineLen(lines[j])
                            \/ LineLen(lines[i]) = LineLen(lines[j]) /\ i < j
            first == {i \in Lines : \A j \in Lines :
                        SkeletonOf(lines[j]) = SkeletonOf(lines[i]) => ~Before(j, i)}
            R == {p \in first \X first : Before(p[1], p[2])}
            order == InOrder(first, R)
            n == Min({MaxTemplates, Len(order)})
<1>1. PickTemplateLines(lines) = [k \in 1 .. n |-> lines[order[k]]]
  BY Zenon DEF PickTemplateLines
<1>2. first \subseteq Lines
  OBVIOUS
<1>3. \A i \in Lines : LineLen(lines[i]) \in Nat /\ i \in Int
  BY LineLenTyped DEF Lines
<1>4. \A i, j \in first : <<i, j>> \in R <=> Before(i, j)
  BY Zenon
<1>5. IsOrder(first, R)
  <2>1. \A i, j \in first : /\ ~Before(i, i)
                            /\ i # j => Before(i, j) \/ Before(j, i)
    <3>. HIDE DEF first
    <3>. QED
      BY <1>2, <1>3
  <2>2. \A i, j, k \in first : Before(i, j) /\ Before(j, k) => Before(i, k)
    <3>. HIDE DEF first
    <3>. QED
      BY <1>2, <1>3
  <2>. HIDE DEF first, R, Before
  <2>. QED
    BY <1>4, <2>1, <2>2 DEF IsOrder
<1>. HIDE DEF first, R
<1>6. IsFiniteSet(first)
  BY <1>2, LinesCounted
<1>7. order \in [1 .. Cardinality(first) -> first] /\ Cardinality(first) \in Nat
  BY <1>5, <1>6, InOrderRanks
<1>. HIDE DEF order
<1>8. Len(order) = Cardinality(first)
  BY <1>7, LenProperties
<1>9. n \in Nat /\ n <= Len(order)
  <2>1. MaxTemplates \in Int /\ MaxTemplates >= 0 /\ Len(order) \in Int /\ Len(order) >= 0
    BY <1>7, <1>8, TilerAssumption
  <2>2. n = IF MaxTemplates <= Len(order) THEN MaxTemplates ELSE Len(order)
    BY <2>1, Smaller
  <2>. QED
    BY ONLY <2>1, <2>2
<1>. HIDE DEF n
<1>10. \A k \in 1 .. n : lines[order[k]] \in {lines[i] : i \in Lines}
  <2>. TAKE k \in 1 .. n
  <2>1. order[k] \in first
    BY <1>7, <1>8, <1>9
  <2>. QED
    BY <1>2, <2>1
<1>. QED
  BY <1>1, <1>9, <1>10

\* The shape of a template line, as BuildTiling makes it.
ShapeOf(lines, template) ==
  LET pieces == InferPieces(lines, template) IN
  [template |-> template, pieces |-> pieces,
   match |-> {i \in Lines : MatchesLine(pieces, lines[i])}]

ShapesOf(lines) ==
  {ShapeOf(lines, lines[t]) : t \in {i \in Lines : MatchesLine(InferPieces(lines, lines[i]), lines[i])}}

TilerInv ==
  /\ tpc \in {"pick", "build", "tiled"}
  /\ tpc = "pick" => shapes = <<>>
  /\ tpc # "pick" => /\ input \in [Lines -> Seq(Tokens)]
                     /\ templates \in Seq({input[i] : i \in Lines})
                     /\ shapes \in Seq(ShapesOf(input))
  /\ tpc # "tiled" => tiled = Nil

LEMMA TilerStep ==
  ASSUME TilerInv, TileNext
  PROVE  TilerInv'
<1>1. CASE PickTemplates
  <2>1. /\ tpc' = "build" /\ input' \in [Lines -> Seq(Tokens)]
        /\ templates' = PickTemplateLines(input') /\ shapes' = <<>> /\ tiled' = Nil
    BY <1>1, TilerAssumption DEF PickTemplates, TilerInv
  <2>2. templates' \in Seq({input'[i] : i \in Lines})
    BY <2>1, PickedTemplates
  <2>3. shapes' \in Seq(ShapesOf(input'))
    BY <2>1, EmptySeq
  <2>. QED
    BY <2>1, <2>2, <2>3 DEF TilerInv
<1>2. CASE BuildTiling
  <2>. DEFINE template == Head(templates)
              S == {input[i] : i \in Lines}
  <2>1. /\ tpc = "build" /\ tpc' = "build" /\ input' = input /\ tiled' = Nil
        /\ templates # <<>> /\ templates' = Tail(templates)
        /\ templates \in Seq(S) /\ shapes \in Seq(ShapesOf(input))
        /\ input \in [Lines -> Seq(Tokens)]
    BY <1>2 DEF BuildTiling, TilerInv
  <2>2. template \in S /\ templates' \in Seq(S)
    <3>. HIDE DEF S
    <3>. QED
      BY <2>1, HeadTailProperties
  <2>3. shapes' = IF MatchesLine(InferPieces(input, template), template)
                  THEN Append(shapes, ShapeOf(input, template)) ELSE shapes
    BY <1>2 DEF BuildTiling, ShapeOf, Match
  <2>4. MatchesLine(InferPieces(input, template), template) =>
          ShapeOf(input, template) \in ShapesOf(input)
    BY <2>2 DEF ShapesOf
  <2>5. shapes' \in Seq(ShapesOf(input))
    <3>. HIDE DEF template
    <3>. QED
      BY <2>1, <2>3, <2>4, AppendProperties
  <2>. HIDE DEF S
  <2>6. {input'[i] : i \in Lines} = S
    BY <2>1 DEF S
  <2>. QED
    BY <2>1, <2>2, <2>5, <2>6 DEF TilerInv
<1>3. CASE Choose
  BY <1>3 DEF Choose, TilerInv
<1>. QED
  BY <1>1, <1>2, <1>3 DEF TileNext

LEMMA TilerInvariant == SuggestSpec => []TilerInv
<1>1. SuggestInit => TilerInv
  BY DEF SuggestInit, TileInit, TilerInv
<1>2. ASSUME TilerInv, [SuggestNext]_suggestVars
      PROVE  TilerInv'
  <2>1. CASE Tile
    BY <1>2, <2>1, TilerStep DEF Tile
  <2>2. CASE ~Tile
    <3>1. UNCHANGED tileVars
      BY <1>2, <2>2 DEF SuggestNext, suggestVars, Prepare, SuggestSet, SuggestTopK, FallBack
    <3>. QED
      BY <1>2, <3>1 DEF tileVars, TilerInv
  <2>. QED
    BY <2>1, <2>2
<1>. QED
  BY <1>1, <1>2, PTL DEF SuggestSpec

LEMMA ShapeIs ==
  ASSUME TilerInv, tpc # "pick", NEW k \in DOMAIN shapes
  PROVE  /\ k \in 1 .. Len(shapes)
         /\ \E t \in Lines : /\ shapes[k] = ShapeOf(input, input[t])
                             /\ MatchesLine(InferPieces(input, input[t]), input[t])
<1>1. shapes \in Seq(ShapesOf(input))
  BY DEF TilerInv
<1>2. k \in 1 .. Len(shapes)
  BY <1>1, LenProperties
<1>3. shapes[k] \in ShapesOf(input)
  BY <1>1, <1>2, ElementOfSeq
<1>. QED
  BY <1>2, <1>3 DEF ShapesOf

\* Population typing keeps its promise for any lines, tokens and primitives
\* (probeUnits, voteSingle, typeToken, subSplitPieces: tiler.go 455-830).
THEOREM PopulationIsMatched == SuggestSpec => []PopulationMatched
<1>1. ASSUME TilerInv PROVE PopulationMatched
  <2>. SUFFICES ASSUME tpc = "build", NEW k \in DOMAIN shapes,
                       NEW i \in Aligned(input, shapes[k].template),
                       KeptValues(input, shapes[k].template, i)
                PROVE  i \in shapes[k].match
    BY DEF PopulationMatched
  <2>1. PICK t \in Lines : /\ shapes[k] = ShapeOf(input, input[t])
                           /\ MatchesLine(InferPieces(input, input[t]), input[t])
    BY <1>1, ShapeIs
  <2>. DEFINE template == input[t]  pieces == InferPieces(input, template)
  <2>2. /\ shapes[k].template = template
        /\ shapes[k].match = {j \in Lines : MatchesLine(pieces, input[j])}
    BY <2>1 DEF ShapeOf
  <2>3. input \in [Lines -> Seq(Tokens)]
    BY <1>1 DEF TilerInv
  <2>4. template # <<>>
    <3>. SUFFICES ASSUME template = <<>> PROVE FALSE
      OBVIOUS
    <3>1. Len(template) = 0
      OBVIOUS
    <3>2. Len(pieces) = 2 * Len(template) - 1
      BY <2>1 DEF MatchesLine
    <3>3. DOMAIN pieces = 1 .. 2 * Len(template) - 1
      BY DEF InferPieces
    <3>. HIDE DEF pieces
    <3>4. DOMAIN pieces = {} /\ Len(pieces) = -1
      BY <3>1, <3>2, <3>3
    <3>5. pieces = <<>>
      <4>1. pieces = [j \in 1 .. 2 * Len(template) - 1 |-> pieces[j]]
        BY DEF pieces, InferPieces
      <4>. HIDE DEF pieces
      <4>. QED
        BY <3>1, <4>1
    <3>. QED
      BY <3>4, <3>5
  <2>5. i \in Lines /\ i \in Aligned(input, template)
    BY <2>2 DEF Aligned
  <2>6. MatchesLine(pieces, input[i])
    <3>1. KeptValues(input, template, i)
      BY <2>2
    <3>. HIDE DEF pieces
    <3>. QED
      BY <2>3, <2>4, <2>5, <3>1, LearnedFrom DEF pieces
  <2>. QED
    BY <2>2, <2>5, <2>6
<1>. QED
  BY <1>1, TilerInvariant, PTL

-----------------------------------------------------------------------------
(***************************************************************************)
(* Tiling makes pieces, and a tree of pieces has finitely many leaves      *)
(***************************************************************************)
LEMMA VoteIs ==
  ASSUME NEW values
  PROVE  VoteSingle(values) \in DOMAIN Prims
<1>. DEFINE fits == {k \in DOMAIN Prims : values \subseteq Prims[k].accepts}
<1>1. VoteSingle(values) = IF fits = {} THEN Len(Prims) ELSE Min(fits)
  BY Zenon DEF VoteSingle
<1>2. fits \in SUBSET DOMAIN Prims
  OBVIOUS
<1>. HIDE DEF fits
<1>3. fits \in SUBSET Nat
  BY <1>2, PrimsIs
<1>. QED
  BY <1>1, <1>2, <1>3, PrimsIs, SmallestIs

LEMMA SubTyped ==
  ASSUME NEW core, NEW n \in Nat \ {0}, core \in [1 .. n -> Tokens],
         SubSplitPieces(core) # Nil
  PROVE  SubSplitPieces(core) \in Seq(LeafSet \cup {Nil})
<1>. DEFINE sub == SubSplitPieces(core)
            sig == SplitSub[core[1]].sig
            columns == DOMAIN SplitSub[core[1]].parts
            Column(i) == {SplitSub[w].parts[i] : w \in ToSet(core)} \ {""}
            Piece(i) == IF Column(i) = {} THEN Nil
                        ELSE IF \/ Prims[VoteSingle(Column(i))].promote
                                \/ Cardinality(Column(i)) > 1
                             THEN Field(VoteSingle(Column(i)))
                             ELSE Lit(CHOOSE w \in Column(i) : TRUE)
<1>1. /\ \A w \in ToSet(core) : SplitSub[w].sig = sig
      /\ sub = [i \in columns |-> Piece(i)]
  <2>. DEFINE none == \/ sig = <<>> \/ \E w \in ToSet(core) : SplitSub[w].sig # sig
                      \/ {i \in columns : Column(i) # {}
                            /\ Prims[VoteSingle(Column(i))].promote} = {}
  <2>1. sub = IF none THEN Nil ELSE [i \in columns |-> Piece(i)]
    BY Zenon DEF SubSplitPieces, WrapDash
  <2>2. none => sub = Nil
    <3>. HIDE DEF none, sub, Piece
    <3>. QED
      BY <2>1
  <2>3. ~none
    BY <2>2
  <2>4. sub = [i \in columns |-> Piece(i)]
    <3>. HIDE DEF none, sub, Piece
    <3>. QED
      BY <2>1, <2>3
  <2>. QED
    BY <2>3, <2>4
<1>2. core[1] \in Tokens /\ ToSet(core) \subseteq Tokens
  BY DEF ToSet
<1>3. \A w \in ToSet(core) : DOMAIN SplitSub[w].parts = columns
  <2>. TAKE w \in ToSet(core)
  <2>1. w \in Tokens /\ SplitSub[w].sig = SplitSub[core[1]].sig
    BY <1>1, <1>2
  <2>. QED
    BY <1>2, <2>1, TypingAssumption
<1>4. ASSUME NEW i \in columns PROVE Piece(i) \in LeafSet \cup {Nil}
  <2>. DEFINE col == Column(i)  k == VoteSingle(col)
  <2>1. \A x \in col : \E w \in ToSet(core) : x = SplitSub[w].parts[i]
    OBVIOUS
  <2>2. \A x \in col : Lit(x) \in LeafSet
    <3>. HIDE DEF col, columns
    <3>1. \A w \in ToSet(core) : w \in Tokens /\ i \in DOMAIN SplitSub[w].parts
      BY <1>2, <1>3
    <3>. QED
      BY <2>1, <3>1, LeavesAre
  <2>3. Field(k) \in LeafSet
    BY VoteIs, LeavesAre
  <2>4. Piece(i) = Nil \/ Piece(i) = Field(k)
        \/ (col # {} /\ Piece(i) = Lit(CHOOSE w \in col : TRUE))
    OBVIOUS
  <2>. HIDE DEF col, k, Piece
  <2>. QED
    BY <2>2, <2>3, <2>4
<1>5. columns = 1 .. Len(SplitSub[core[1]].parts) /\ Len(SplitSub[core[1]].parts) \in Nat
  <2>1. SplitSub[core[1]].parts \in Seq(ToSet(SplitSub[core[1]].parts))
    BY <1>2, TypingAssumption
  <2>. QED
    BY <2>1, LenProperties
<1>. HIDE DEF sub, Piece, columns
<1>. QED
  BY <1>1, <1>4, <1>5 DEF sub

LEMMA TokenTyped ==
  ASSUME NEW tmpl \in Tokens, NEW st \in StatsSet
  PROVE  TypeToken(tmpl, st) \in PieceSet
<1>. DEFINE n == Len(st.distinct)
            core == CoreValues(st)
            dashes == Contains(st.distinct, Dash)
            k == VoteSingle(ToSet(core))
            needDash == dashes /\ Dash \notin Prims[k].accepts
            sub == SubSplitPieces(core)
            m == Len(core)
<1>1. n \in Nat /\ st.distinct \in [1 .. n -> Tokens]
  <2>1. st.distinct \in Seq(Tokens)
    BY DEF StatsSet
  <2>. QED
    BY <2>1, LenProperties
<1>2. m \in Nat /\ DOMAIN core = 1 .. m /\ \A j \in 1 .. m : core[j] \in Tokens
  BY <1>1, CoreIs
<1>3. core = <<>> <=> m = 0
  BY <1>2
<1>4. TypeToken(tmpl, st) =
        IF st.matched < 2 THEN Field(VoteSingle({tmpl}))
        ELSE IF core = <<>> THEN Lit(Dash)
        ELSE IF Prims[k].promote THEN WrapDash(Field(k), needDash)
        ELSE IF sub # Nil THEN Group(sub, SplitSub[core[1]].sig, dashes)
        ELSE IF Len(core) = 1 /\ ~st.overflow /\ ~dashes THEN Lit(core[1])
        ELSE WrapDash(Field(k), needDash)
  BY DEF TypeToken
<1>5. dashes \in BOOLEAN /\ needDash \in BOOLEAN
  BY DEF Contains
<1>6. Field(k) \in LeafSet /\ Field(VoteSingle({tmpl})) \in LeafSet /\ Lit(Dash) \in LeafSet
  BY VoteIs, LeavesAre
<1>7. LeafSet \subseteq PieceSet
  BY DEF PieceSet
<1>8. WrapDash(Field(k), needDash) \in PieceSet
  <2>1. <<Field(k)>> \in Seq(LeafSet \cup {Nil})
    <3>. HIDE DEF k
    <3>. QED
      BY <1>6
  <2>2. Group(<<Field(k)>>, <<>>, TRUE) \in PieceSet
    BY <2>1 DEF Group, PieceSet, Signatures
  <2>. QED
    BY <1>6, <1>7, <2>2 DEF WrapDash
<1>9. m # 0 /\ sub # Nil => Group(sub, SplitSub[core[1]].sig, dashes) \in PieceSet
  <2>. SUFFICES ASSUME m # 0, sub # Nil PROVE Group(sub, SplitSub[core[1]].sig, dashes) \in PieceSet
    OBVIOUS
  <2>1. core \in [1 .. m -> Tokens]
    <3>1. \E f : core = [j \in DOMAIN core |-> f[j]]
      <4>. DEFINE K == {i \in DOMAIN st.distinct : st.distinct[i] # Dash}
                  o == InOrder(K, {p \in K \X K : p[1] < p[2]})
                  f == [j \in DOMAIN o |-> st.distinct[o[j]]]
      <4>1. core = f
        BY DEF CoreValues, Picked
      <4>2. f = [j \in DOMAIN f |-> f[j]]
        OBVIOUS
      <4>. HIDE DEF f, core
      <4>. QED
        BY <4>1, <4>2
    <3>. HIDE DEF core
    <3>. QED
      BY <1>2, <3>1
  <2>. HIDE DEF core, m
  <2>2. sub \in Seq(LeafSet \cup {Nil})
    <3>1. m \in Nat \ {0}
      BY <1>2
    <3>. QED
      BY <2>1, <3>1, SubTyped
  <2>3. SplitSub[core[1]].sig \in Signatures
    <3>1. core[1] \in Tokens
      BY <1>2
    <3>. QED
      BY <3>1 DEF Signatures
  <2>. HIDE DEF sub, dashes
  <2>. QED
    BY <1>5, <2>2, <2>3 DEF Group, PieceSet
<1>10. m # 0 => Lit(core[1]) \in PieceSet
  <2>. SUFFICES ASSUME m # 0 PROVE Lit(core[1]) \in PieceSet
    OBVIOUS
  <2>1. core[1] \in Tokens
    BY <1>2
  <2>2. Lit(core[1]) \in LeafSet
    BY <2>1, LeavesAre
  <2>. QED
    BY <1>7, <2>2
<1>. HIDE DEF core, dashes, k, needDash, sub, m
<1>. QED
  BY <1>3, <1>4, <1>6, <1>7, <1>8, <1>9, <1>10

LEMMA InferTyped ==
  ASSUME NEW lines \in [Lines -> Seq(Tokens)], NEW template \in Seq(Tokens), template # <<>>
  PROVE  /\ InferPieces(lines, template) \in Seq(PieceSet)
         /\ Len(InferPieces(lines, template)) \in Nat \ {0}
<1>. DEFINE m == 2 * Len(template) - 1
            Piece(k) == IF k % 2 = 0 THEN Lit(" ")
                        ELSE TypeToken(template[(k + 1) \div 2],
                                       Stats(lines, template, (k + 1) \div 2))
<1>1. Len(template) \in Nat \ {0} /\ DOMAIN template = 1 .. Len(template)
  BY LenProperties
<1>2. m \in Nat \ {0}
  BY <1>1
<1>3. InferPieces(lines, template) = [k \in 1 .. m |-> Piece(k)]
  BY Zenon DEF InferPieces
<1>4. ASSUME NEW k \in 1 .. m PROVE Piece(k) \in PieceSet
  <2>1. CASE k % 2 = 0
    <3>1. Lit(" ") \in PieceSet
      BY LeavesAre DEF PieceSet
    <3>. QED
      BY <2>1, <3>1
  <2>2. CASE k % 2 # 0
    <3>. DEFINE u == (k + 1) \div 2
    <3>1. u \in DOMAIN template
      BY <1>1
    <3>. HIDE DEF u
    <3>2. template[u] \in Tokens
      BY <1>1, <3>1, ElementOfSeq
    <3>3. Stats(lines, template, u) \in StatsSet
      BY <3>1, StatsSeen DEF Seen
    <3>4. Piece(k) = TypeToken(template[u], Stats(lines, template, u))
      BY <2>2 DEF u
    <3>. QED
      BY <3>2, <3>3, <3>4, TokenTyped
  <2>. QED
    BY <2>1, <2>2
<1>. HIDE DEF m, Piece
<1>. QED
  BY <1>2, <1>3, <1>4

\* A shape has a token: the pieces of no token do not match an empty line.
LEMMA TemplateHasToken ==
  ASSUME NEW lines, NEW template, MatchesLine(InferPieces(lines, template), template)
  PROVE  template # <<>>
<1>. SUFFICES ASSUME template = <<>> PROVE FALSE
  OBVIOUS
<1>. DEFINE pieces == InferPieces(lines, template)
<1>1. Len(template) = 0
  OBVIOUS
<1>2. Len(pieces) = 2 * Len(template) - 1
  BY DEF MatchesLine
<1>3. DOMAIN pieces = 1 .. 2 * Len(template) - 1
  BY DEF InferPieces
<1>4. pieces = [j \in 1 .. 2 * Len(template) - 1 |-> pieces[j]]
  BY DEF InferPieces
<1>. HIDE DEF pieces
<1>5. DOMAIN pieces = {} /\ Len(pieces) = -1
  BY <1>1, <1>2, <1>3
<1>6. pieces = <<>>
  BY <1>1, <1>4
<1>. QED
  BY <1>5, <1>6

LEMMA ShapeTyped ==
  ASSUME TilerInv, tpc # "pick", NEW k \in DOMAIN shapes
  PROVE  shapes[k] \in ShapeSet /\ Len(shapes[k].pieces) \in Nat \ {0}
<1>1. PICK t \in Lines : /\ shapes[k] = ShapeOf(input, input[t])
                         /\ MatchesLine(InferPieces(input, input[t]), input[t])
  BY ShapeIs
<1>2. input \in [Lines -> Seq(Tokens)]
  BY DEF TilerInv
<1>3. input[t] \in Seq(Tokens) /\ input[t] # <<>>
  BY <1>1, <1>2, TemplateHasToken
<1>4. /\ InferPieces(input, input[t]) \in Seq(PieceSet)
      /\ Len(InferPieces(input, input[t])) \in Nat \ {0}
  BY <1>2, <1>3, InferTyped
<1>. QED
  BY <1>1, <1>3, <1>4 DEF ShapeOf, ShapeSet

LEMMA ShapesTyped ==
  ASSUME TilerInv, tpc # "pick"
  PROVE  shapes \in Seq(ShapeSet)
<1>1. shapes \in Seq(ShapesOf(input))
  BY DEF TilerInv
<1>2. DOMAIN shapes = 1 .. Len(shapes) /\ Len(shapes) \in Nat
      /\ shapes = [k \in 1 .. Len(shapes) |-> shapes[k]]
  BY <1>1, LenProperties
<1>3. \A k \in 1 .. Len(shapes) : shapes[k] \in ShapeSet
  BY <1>2, ShapeTyped
<1>. QED
  BY <1>2, <1>3

LEMMA PieceCounts ==
  ASSUME NEW pieces \in Seq(PieceSet)
  PROVE  /\ Promoted(pieces) \in Nat /\ LitFields(pieces) \in Nat
         /\ Typed(pieces) \in Nat /\ LiteralKeywords(pieces) \in Nat
         /\ IsFiniteSet(Leaves(pieces))
<1>. DEFINE n == Len(pieces)
            At(i) == {i} \X DOMAIN Parts(pieces[i])
            f == [i \in 1 .. n |-> At(i)]
            T == {At(i) : i \in DOMAIN pieces}
<1>1. n \in Nat /\ DOMAIN pieces = 1 .. n /\ \A i \in 1 .. n : pieces[i] \in PieceSet
  BY LenProperties, ElementOfSeq
<1>2. \A i \in 1 .. n : IsFiniteSet(At(i))
  <2>. TAKE i \in 1 .. n
  <2>1. \E m \in Nat : DOMAIN Parts(pieces[i]) = 1 .. m
    <3>1. CASE pieces[i].kind = "group"
      <4>1. pieces[i].sub \in Seq(LeafSet \cup {Nil})
        BY <1>1, <3>1 DEF PieceSet, LeafSet
      <4>2. DOMAIN pieces[i].sub = 1 .. Len(pieces[i].sub) /\ Len(pieces[i].sub) \in Nat
        BY <4>1, LenProperties
      <4>. QED
        BY <3>1, <4>2 DEF Parts
    <3>2. CASE pieces[i].kind # "group"
      <4>1. DOMAIN <<pieces[i]>> = 1 .. 1
        OBVIOUS
      <4>. QED
        BY <3>2, <4>1 DEF Parts
    <3>. QED
      BY <3>1, <3>2
  <2>2. IsFiniteSet({i}) /\ IsFiniteSet(DOMAIN Parts(pieces[i]))
    BY <2>1, FS_Singleton, PlacesFinite
  <2>. QED
    BY <2>2, FS_Product
<1>3. IsFiniteSet(UNION T)
  <2>1. f \in Surjection(1 .. n, T)
    <3>1. T = {At(i) : i \in 1 .. n}
      BY <1>1
    <3>. HIDE DEF At
    <3>. QED
      BY <3>1 DEF Surjection
  <2>2. IsFiniteSet(1 .. n)
    BY <1>1, PlacesFinite
  <2>3. IsFiniteSet(T)
    <3>. HIDE DEF f, T
    <3>. QED
      BY <2>1, <2>2, FS_Surjection
  <2>4. \A x \in T : IsFiniteSet(x)
    BY <1>1, <1>2
  <2>. HIDE DEF T
  <2>. QED
    BY <2>3, <2>4, FS_UNION
<1>4. Leaves(pieces) \subseteq UNION T
  <2>1. Leaves(pieces) = {p \in UNION T : Leaf(pieces, p) # Nil}
    BY Zenon DEF Leaves
  <2>. QED
    BY <2>1
<1>. HIDE DEF T
<1>5. \A S \in SUBSET Leaves(pieces) : Cardinality(S) \in Nat
  BY <1>3, <1>4, FS_Subset, FS_CardinalityType
<1>6. Fields(pieces) \subseteq Leaves(pieces)
  BY DEF Fields
<1>7. Promoted(pieces) \in Nat
  <2>1. {p \in Fields(pieces) : Prims[Leaf(pieces, p).prim].promote} \in SUBSET Leaves(pieces)
    BY <1>6
  <2>. QED
    BY <1>5, <2>1 DEF Promoted
<1>8. LitFields(pieces) \in Nat
  <2>1. {p \in Fields(pieces) : ~Prims[Leaf(pieces, p).prim].promote} \in SUBSET Leaves(pieces)
    BY <1>6
  <2>. QED
    BY <1>5, <2>1 DEF LitFields
<1>9. LiteralKeywords(pieces) \in Nat
  <2>1. {p \in Leaves(pieces) \ Fields(pieces) : Leaf(pieces, p).text \notin {Dash, " "}}
          \in SUBSET Leaves(pieces)
    OBVIOUS
  <2>. QED
    BY <1>5, <2>1 DEF LiteralKeywords
<1>10. IsFiniteSet(Leaves(pieces))
  BY <1>3, <1>4, FS_Subset
<1>. QED
  BY <1>7, <1>8, <1>9, <1>10 DEF Typed

-----------------------------------------------------------------------------
(***************************************************************************)
(* How tilings are compared                                                *)
(***************************************************************************)
\* A tiling as a comparison takes it.
IsTiling(c) == c # Nil /\ c.match \in SUBSET Lines /\ c.pieces \in Seq(PieceSet)

LEMMA TilingsAre ==
  /\ \A c \in ShapeSet \cup CutSet : IsTiling(c)
  /\ \A c : IsTiling(c) =>
       /\ Count(c.match) \in 0 .. N /\ Promoted(c.pieces) \in Nat
       /\ LitFields(c.pieces) \in Nat /\ Typed(c.pieces) \in Nat
<1>1. Nil \notin ShapeSet \cup CutSet
  BY Zenon, TilerAssumption
<1>2. \A c \in ShapeSet \cup CutSet : c.match \in SUBSET Lines /\ c.pieces \in Seq(PieceSet)
  BY DEF ShapeSet, CutSet
<1>. QED
  BY <1>1, <1>2, LinesCounted, PieceCounts DEF IsTiling, Count

LEMMA BetterIsOrder ==
  ASSUME NEW a, IsTiling(a), NEW b, IsTiling(b), NEW c, IsTiling(c)
  PROVE  /\ ~BetterTiling(a, a)
         /\ BetterTiling(a, b) => ~BetterTiling(b, a)
         /\ ~BetterTiling(a, b) /\ ~BetterTiling(b, c) => ~BetterTiling(a, c)
         /\ ~BetterTiling(a, b) => Count(a.match) <= Count(b.match)
<1>. DEFINE More(x, y) == \/ x[1] > y[1]
                          \/ x[1] = y[1] /\ x[2] > y[2]
                          \/ x[1] = y[1] /\ x[2] = y[2] /\ x[3] < y[3]
                          \/ x[1] = y[1] /\ x[2] = y[2] /\ x[3] = y[3] /\ x[4] > y[4]
            W(x) == <<Count(x.match), Promoted(x.pieces), LitFields(x.pieces), Typed(x.pieces)>>
            I == Int \X Int \X Int \X Int
<1>1. W(a) \in I /\ W(b) \in I /\ W(c) \in I
  BY TilingsAre
<1>2. \A x, y : y # Nil => (BetterTiling(x, y) <=> More(W(x), W(y)))
  BY DEF BetterTiling
<1>3. a # Nil /\ b # Nil /\ c # Nil
  BY DEF IsTiling
<1>4. \A x, y, z \in I : /\ ~More(x, x) /\ (More(x, y) => ~More(y, x))
                         /\ ~More(x, y) /\ ~More(y, z) => ~More(x, z)
                         /\ ~More(x, y) => x[1] <= y[1]
  OBVIOUS
<1>5. W(a)[1] = Count(a.match) /\ W(b)[1] = Count(b.match)
  OBVIOUS
<1>. HIDE DEF More, W, I
<1>. QED
  BY <1>1, <1>2, <1>3, <1>4, <1>5

-----------------------------------------------------------------------------
(***************************************************************************)
(* bestTiling: the strongest shape                                         *)
(***************************************************************************)
\* The strongest of the candidates before k + 1.
BestSoFar(candidates, b, k) ==
  /\ b = Nil <=> k = 0
  /\ k > 0 => \E j \in 1 .. k : b = candidates[j]
  /\ \A j \in 1 .. k : ~BetterTiling(candidates[j], b)

Holds(candidates, n, f) ==
  /\ f[0] = Nil
  /\ \A k \in 1 .. n :
       f[k] = IF BetterTiling(candidates[k], f[k - 1]) THEN candidates[k] ELSE f[k - 1]

LEMMA StrongestUnfold ==
  ASSUME NEW s \in Seq(ShapeSet)
  PROVE  \E f : Holds(s, Len(s), f) /\ Strongest(s) = f[Len(s)]
<1>. DEFINE n == Len(s)
            A == ShapeSet \cup {Nil}
            body(a, k) == IF BetterTiling(s[k], a) THEN s[k] ELSE a
            step == [p \in A \X (1 .. n) |-> body(p[1], p[2])]
            IsLoop(f) == f = [k \in 0 .. n |-> IF k = 0 THEN Nil ELSE body(f[k - 1], k)]
            cur == CHOOSE f : IsLoop(f)
<1>1. n \in Nat /\ \A k \in 1 .. n : s[k] \in ShapeSet
  BY LenProperties, ElementOfSeq
<1>2. Nil \in A
  OBVIOUS
<1>3. \A a \in A, k \in 1 .. n : body(a, k) \in A
  BY <1>1
<1>4. step \in [A \X (1 .. n) -> A]
  <2>. HIDE DEF A, body
  <2>. QED
    BY <1>3
<1>. HIDE DEF A, body
<1>5. PICK f \in [0 .. n -> A] :
        f[0] = Nil /\ \A k \in 1 .. n : f[k] = step[<<f[k - 1], k>>]
  <2>. HIDE DEF step, n
  <2>1. HasLoop(A, Nil, n, step)
    BY <1>1, <1>2, <1>4, LoopExists
  <2>. QED
    BY <2>1 DEF HasLoop
<1>. HIDE DEF n
<1>6. \A k \in 1 .. n : f[k] = body(f[k - 1], k)
  <2>. TAKE k \in 1 .. n
  <2>1. k - 1 \in 0 .. n
    BY <1>1
  <2>2. <<f[k - 1], k>> \in A \X (1 .. n)
    BY <1>5, <2>1
  <2>. QED
    BY <1>5, <2>2
<1>7. IsLoop(f)
  <2>1. f = [k \in 0 .. n |-> f[k]]
    BY <1>5
  <2>2. \A k \in 0 .. n : f[k] = IF k = 0 THEN Nil ELSE body(f[k - 1], k)
    <3>. TAKE k \in 0 .. n
    <3>1. k = 0 \/ (k # 0 /\ k \in 1 .. n)
      BY <1>1
    <3>. QED
      BY <1>5, <1>6, <3>1
  <2>. DEFINE g == [k \in 0 .. n |-> IF k = 0 THEN Nil ELSE body(f[k - 1], k)]
  <2>3. g = [k \in 0 .. n |-> g[k]] /\ \A k \in 0 .. n : g[k] = f[k]
    BY <2>2
  <2>4. IsLoop(f) <=> f = g
    OBVIOUS
  <2>. HIDE DEF g, IsLoop
  <2>. QED
    BY ONLY <2>1, <2>3, <2>4
<1>8. IsLoop(cur)
  BY <1>7
<1>9. Strongest(s) = cur[n]
  BY DEF Strongest, body, n
<1>. HIDE DEF cur
<1>10. Holds(s, n, cur)
  <2>1. \A k \in 0 .. n : cur[k] = IF k = 0 THEN Nil ELSE body(cur[k - 1], k)
    BY <1>8
  <2>2. 0 \in 0 .. n /\ \A k \in 1 .. n : k \in 0 .. n /\ k # 0
    BY <1>1
  <2>3. cur[0] = Nil /\ \A k \in 1 .. n : cur[k] = body(cur[k - 1], k)
    BY <2>1, <2>2
  <2>. QED
    BY <2>3 DEF Holds, body
<1>. QED
  BY <1>9, <1>10 DEF n

LEMMA StrongestIs ==
  ASSUME NEW s \in Seq(ShapeSet)
  PROVE  BestSoFar(s, Strongest(s), Len(s))
<1>1. PICK f : Holds(s, Len(s), f) /\ Strongest(s) = f[Len(s)]
  BY StrongestUnfold
<1>. DEFINE n == Len(s)
            P == {k \in 0 .. n : BestSoFar(s, f[k], k)}
<1>2. n \in Nat /\ \A k \in 1 .. n : s[k] \in ShapeSet /\ IsTiling(s[k])
  BY LenProperties, ElementOfSeq, TilingsAre
<1>3. 0 \in P
  BY <1>1, <1>2 DEF BestSoFar, Holds
<1>4. ASSUME NEW k \in 1 .. n, k - 1 \in P PROVE k \in P
  <2>. DEFINE a == f[k - 1]  b == f[k]
  <2>1. /\ k \in Nat /\ k # 0 /\ k - 1 \in Nat /\ k \in 0 .. n
        /\ \A j \in 1 .. k : j \in 1 .. n /\ (j \in 1 .. k - 1 \/ j = k)
        /\ \A j \in 1 .. k - 1 : j \in 1 .. k
    BY <1>2
  <2>2. b = IF BetterTiling(s[k], a) THEN s[k] ELSE a
    BY <1>1 DEF Holds
  <2>3. BestSoFar(s, a, k - 1)
    BY <1>4
  <2>. SUFFICES BestSoFar(s, b, k)
    BY <2>1
  <2>. HIDE DEF a, b, P
  <2>4. IsTiling(s[k])
    BY <1>2
  <2>5. CASE a = Nil
    <3>1. k - 1 = 0
      BY <2>3, <2>5 DEF BestSoFar
    <3>2. b = s[k]
      BY <2>2, <2>5 DEF BetterTiling
    <3>3. ~BetterTiling(s[k], s[k]) /\ s[k] # Nil
      BY <2>4, BetterIsOrder DEF IsTiling
    <3>. QED
      BY <2>1, <3>1, <3>2, <3>3 DEF BestSoFar
  <2>6. CASE a # Nil
    <3>1. \E j \in 1 .. k - 1 : a = s[j]
      BY <2>1, <2>3, <2>6 DEF BestSoFar
    <3>2. IsTiling(a) /\ \A j \in 1 .. k - 1 : ~BetterTiling(s[j], a)
      BY <1>2, <2>1, <2>3, <3>1 DEF BestSoFar
    <3>3. CASE BetterTiling(s[k], a)
      <4>1. b = s[k]
        BY <2>2, <3>3
      <4>2. ~BetterTiling(a, s[k]) /\ ~BetterTiling(s[k], s[k])
        BY <2>4, <3>2, <3>3, BetterIsOrder
      <4>3. \A j \in 1 .. k - 1 : ~BetterTiling(s[j], s[k])
        <5>. TAKE j \in 1 .. k - 1
        <5>1. IsTiling(s[j])
          BY <1>2, <2>1
        <5>. QED
          BY <2>4, <3>2, <4>2, <5>1, BetterIsOrder
      <4>4. s[k] # Nil
        BY <2>4 DEF IsTiling
      <4>. QED
        BY <2>1, <4>1, <4>2, <4>3, <4>4 DEF BestSoFar
    <3>4. CASE ~BetterTiling(s[k], a)
      <4>1. b = a
        BY <2>2, <3>4
      <4>. QED
        BY <2>1, <2>6, <3>1, <3>2, <3>4, <4>1 DEF BestSoFar
    <3>. QED
      BY <3>3, <3>4
  <2>. QED
    BY <2>5, <2>6
<1>5. P \subseteq 0 .. n
  OBVIOUS
<1>. HIDE DEF P, n
<1>6. n \in P
  BY <1>2, <1>3, <1>4, <1>5, AlongLoop
<1>. QED
  BY <1>1, <1>6 DEF P, n

-----------------------------------------------------------------------------
(***************************************************************************)
(* relaxTail: the best of the cuts that buy the margin                     *)
(***************************************************************************)
LEMMA Larger ==
  ASSUME NEW a \in Int, NEW b \in Int
  PROVE  Max({a, b}) = IF a >= b THEN a ELSE b
<1>. DEFINE m == IF a >= b THEN a ELSE b
<1>1. m \in {a, b} /\ \A y \in {a, b} : m >= y
  OBVIOUS
<1>2. \A x \in {a, b} : (\A y \in {a, b} : x >= y) => x = m
  OBVIOUS
<1>3. Max({a, b}) = CHOOSE x \in {a, b} : \A y \in {a, b} : x >= y
  BY DEF Max
<1>. HIDE DEF m
<1>. QED
  BY <1>1, <1>2, <1>3

\* A gain reaches the margin when the cut covers that much more.
LEMMA GainIs ==
  ASSUME NEW shape, NEW cut, shape.match \in SUBSET Lines, cut.match \in SUBSET Lines
  PROVE  /\ Margin \in Nat \ {0}
         /\ TailGain(shape, cut) >= Margin <=> Count(cut.match) >= Count(shape.match) + Margin
<1>1. Margin \in Nat \ {0}
  <2>1. N \div 50 \in Nat
    BY LinesAssumption
  <2>2. Margin = IF N \div 50 >= 1 THEN N \div 50 ELSE 1
    BY <2>1, Larger DEF Margin
  <2>. HIDE DEF Margin
  <2>. QED
    BY <2>1, <2>2
<1>. DEFINE floor == Count(shape.match) + Margin - 1
            seen == SeqFloor(cut.match, floor)
<1>2. Count(shape.match) \in 0 .. N /\ Count(cut.match) \in 0 .. N /\ N \in Nat
  BY LinesCounted, LinesAssumption DEF Count
<1>3. floor \in Int
  BY <1>1, <1>2
<1>. HIDE DEF floor
<1>4. /\ seen \in 0 .. N
      /\ seen >= floor => seen = Count(cut.match)
      /\ seen < floor => Count(cut.match) <= floor
  BY <1>3, FloorTells DEF SeqCount, Count
<1>5. TailGain(shape, cut) = seen - Count(shape.match)
  BY DEF TailGain, floor
<1>6. floor = Count(shape.match) + Margin - 1
  BY DEF floor
<1>. DEFINE s == Count(shape.match)  c == Count(cut.match)  g == Margin
<1>7. /\ seen \in Int /\ s \in Int /\ c \in Int /\ g \in Int /\ floor = s + g - 1
      /\ seen >= floor => seen = c
      /\ seen < floor => c <= floor
  BY <1>1, <1>2, <1>4, <1>6
<1>. HIDE DEF s, c, g, seen
<1>8. seen - s >= g <=> c >= s + g
  BY <1>7
<1>. QED
  BY <1>1, <1>5, <1>8 DEF s, c, g

LEMMA RelaxedIs ==
  ASSUME NEW pieces \in Seq(PieceSet), NEW i \in 1 .. Len(pieces)
  PROVE  /\ Relaxed(pieces, i) \in CutSet /\ IsTiling(Relaxed(pieces, i))
         /\ Relaxed(pieces, i).pieces = SubSeq(pieces, 1, i)
         /\ Relaxed(pieces, i).match \in SUBSET Lines
         /\ Len(Relaxed(pieces, i).pieces) = i
<1>1. Len(pieces) \in Nat /\ i \in Nat /\ i >= 1
  BY LenProperties
<1>2. \A j \in 1 .. i : pieces[j] \in PieceSet
  <2>. TAKE j \in 1 .. i
  <2>1. j \in 1 .. Len(pieces)
    BY <1>1
  <2>. QED
    BY <2>1, ElementOfSeq
<1>3. SubSeq(pieces, 1, i) \in Seq(PieceSet) /\ Len(SubSeq(pieces, 1, i)) = i
  <2>1. i \in Int /\ 1 \in Int
    BY <1>1
  <2>2. /\ SubSeq(pieces, 1, i) \in Seq(PieceSet)
        /\ Len(SubSeq(pieces, 1, i)) = IF 1 <= i THEN i - 1 + 1 ELSE 0
    BY ONLY <1>2, <2>1, SubSeqProperties
  <2>. QED
    BY ONLY <1>1, <2>2
<1>4. MatchGreedy(SubSeq(pieces, 1, i)) \in SUBSET Lines
  BY DEF MatchGreedy
<1>5. Relaxed(pieces, i) \in CutSet
  BY <1>3, <1>4 DEF Relaxed, CutSet
<1>. QED
  BY <1>3, <1>4, <1>5, TilingsAre DEF Relaxed

\* A longer prefix has no fewer promoted fields.
LEMMA PrefixPromoted ==
  ASSUME NEW pieces \in Seq(PieceSet), NEW i \in 1 .. Len(pieces), NEW j \in 1 .. i
  PROVE  Promoted(SubSeq(pieces, 1, j)) <= Promoted(SubSeq(pieces, 1, i))
<1>. DEFINE a == SubSeq(pieces, 1, j)
            b == SubSeq(pieces, 1, i)
            Of(s) == {p \in Fields(s) : Prims[Leaf(s, p).prim].promote}
<1>1. i \in Nat /\ j \in Nat /\ j \in 1 .. Len(pieces) /\ Len(pieces) \in Nat
  BY LenProperties
<1>2. /\ a \in Seq(PieceSet) /\ Len(a) = j /\ b \in Seq(PieceSet) /\ Len(b) = i
  BY <1>1, RelaxedIs DEF IsTiling
<1>3. /\ DOMAIN a = 1 .. j /\ DOMAIN b = 1 .. i
      /\ \A k \in 1 .. j : a[k] = pieces[k] /\ b[k] = pieces[k]
  <2>1. DOMAIN a = 1 .. j /\ DOMAIN b = 1 .. i
    BY <1>2, LenProperties
  <2>2. \A k \in 1 .. j : k \in 1 .. i /\ 1 + k - 1 = k
    BY <1>1
  <2>3. \A k \in 1 .. j : a[k] = pieces[k] /\ b[k] = pieces[k]
    BY <1>1, <2>2
  <2>. QED
    BY <2>1, <2>3
<1>. HIDE DEF a, b
<1>4. \A k \in DOMAIN a : k \in DOMAIN b /\ a[k] = b[k]
  BY <1>1, <1>3
<1>5. \A p \in Leaves(a) : p \in Leaves(b) /\ Leaf(a, p) = Leaf(b, p)
  <2>. TAKE p \in Leaves(a)
  <2>1. PICK k \in DOMAIN a : p \in {k} \X DOMAIN Parts(a[k])
    BY DEF Leaves
  <2>2. k \in DOMAIN b /\ p[1] = k /\ a[k] = b[k]
    BY <1>4, <2>1
  <2>3. Leaf(a, p) = Leaf(b, p)
    BY <2>2 DEF Leaf
  <2>4. Leaf(b, p) # Nil
    BY <2>3 DEF Leaves
  <2>. QED
    BY <2>1, <2>2, <2>3, <2>4 DEF Leaves
<1>6. Of(a) \subseteq Of(b)
  BY <1>5 DEF Fields
<1>7. IsFiniteSet(Of(b))
  <2>1. IsFiniteSet(Leaves(b)) /\ Of(b) \subseteq Leaves(b)
    BY <1>2, PieceCounts DEF Fields
  <2>. HIDE DEF Of
  <2>. QED
    BY <2>1, FS_Subset
<1>8. Cardinality(Of(a)) <= Cardinality(Of(b))
  <2>. HIDE DEF Of
  <2>. QED
    BY <1>6, <1>7, FS_Subset
<1>. QED
  BY <1>8 DEF Promoted, a, b

\* A cut that buys the margin.
Worthy(shape, j) ==
  j \in Cuts(shape.pieces) /\ TailGain(shape, Relaxed(shape.pieces, j)) >= Margin

\* The best of the worthy cuts before k + 1.
RelaxedSoFar(shape, b, k) ==
  /\ b = Nil <=> \A j \in 1 .. k : ~Worthy(shape, j)
  /\ b # Nil => \E j \in 1 .. k : Worthy(shape, j) /\ b = Relaxed(shape.pieces, j)
  /\ b # Nil => \A j \in 1 .. k : Worthy(shape, j) =>
       /\ ~BetterTiling(Relaxed(shape.pieces, j), b)
       /\ j > Len(b.pieces) => BetterTiling(b, Relaxed(shape.pieces, j))

CutsTried(shape, n, f) ==
  /\ f[0] = Nil
  /\ \A k \in 1 .. n :
       f[k] = IF k \in Cuts(shape.pieces) THEN TryCut(shape, f[k - 1], k) ELSE f[k - 1]

LEMMA CutsAre ==
  ASSUME NEW pieces \in Seq(PieceSet), NEW i \in Cuts(pieces)
  PROVE  i \in 1 .. Len(pieces) - 1 /\ i \in 1 .. Len(pieces) /\ IsCut(pieces, i)
<1>1. Len(pieces) \in Nat
  BY LenProperties
<1>. QED
  BY <1>1 DEF Cuts

LEMMA RelaxUnfold ==
  ASSUME NEW shape, shape.pieces \in Seq(PieceSet), Len(shape.pieces) # 0
  PROVE  /\ Len(shape.pieces) - 1 \in Nat
         /\ \E f : CutsTried(shape, Len(shape.pieces) - 1, f)
                     /\ RelaxTail(shape) = f[Len(shape.pieces) - 1]
<1>. DEFINE n == Len(shape.pieces) - 1
            A == CutSet \cup {Nil}
            body(a, k) == IF k \in Cuts(shape.pieces) THEN TryCut(shape, a, k) ELSE a
            step == [p \in A \X (1 .. n) |-> body(p[1], p[2])]
            IsLoop(f) == f = [k \in 0 .. n |-> IF k = 0 THEN Nil ELSE body(f[k - 1], k)]
            cur == CHOOSE f : IsLoop(f)
<1>1. n \in Nat
  BY LenProperties
<1>2. Nil \in A
  OBVIOUS
<1>3. \A a \in A, k \in 1 .. n : body(a, k) \in A
  <2>. TAKE a \in A, k \in 1 .. n
  <2>1. k \in Cuts(shape.pieces) => Relaxed(shape.pieces, k) \in CutSet
    BY CutsAre, RelaxedIs
  <2>2. TryCut(shape, a, k) \in {Relaxed(shape.pieces, k), a}
    BY DEF TryCut
  <2>. QED
    BY <2>1, <2>2
<1>4. step \in [A \X (1 .. n) -> A]
  <2>. HIDE DEF A, body
  <2>. QED
    BY <1>3
<1>. HIDE DEF A, body
<1>5. PICK f \in [0 .. n -> A] :
        f[0] = Nil /\ \A k \in 1 .. n : f[k] = step[<<f[k - 1], k>>]
  <2>. HIDE DEF step, n
  <2>1. HasLoop(A, Nil, n, step)
    BY <1>1, <1>2, <1>4, LoopExists
  <2>. QED
    BY <2>1 DEF HasLoop
<1>. HIDE DEF n
<1>6. \A k \in 1 .. n : f[k] = body(f[k - 1], k)
  <2>. TAKE k \in 1 .. n
  <2>1. k - 1 \in 0 .. n
    BY <1>1
  <2>2. <<f[k - 1], k>> \in A \X (1 .. n)
    BY <1>5, <2>1
  <2>. QED
    BY <1>5, <2>2
<1>7. IsLoop(f)
  <2>1. f = [k \in 0 .. n |-> f[k]]
    BY <1>5
  <2>2. \A k \in 0 .. n : f[k] = IF k = 0 THEN Nil ELSE body(f[k - 1], k)
    <3>. TAKE k \in 0 .. n
    <3>1. k = 0 \/ (k # 0 /\ k \in 1 .. n)
      BY <1>1
    <3>. QED
      BY <1>5, <1>6, <3>1
  <2>. DEFINE g == [k \in 0 .. n |-> IF k = 0 THEN Nil ELSE body(f[k - 1], k)]
  <2>3. g = [k \in 0 .. n |-> g[k]] /\ \A k \in 0 .. n : g[k] = f[k]
    BY <2>2
  <2>4. IsLoop(f) <=> f = g
    OBVIOUS
  <2>. HIDE DEF g, IsLoop
  <2>. QED
    BY ONLY <2>1, <2>3, <2>4
<1>8. IsLoop(cur)
  BY <1>7
<1>9. RelaxTail(shape) = cur[n]
  BY DEF RelaxTail, body, n
<1>. HIDE DEF cur
<1>10. CutsTried(shape, n, cur)
  <2>1. \A k \in 0 .. n : cur[k] = IF k = 0 THEN Nil ELSE body(cur[k - 1], k)
    BY <1>8
  <2>2. 0 \in 0 .. n /\ \A k \in 1 .. n : k \in 0 .. n /\ k # 0
    BY <1>1
  <2>3. cur[0] = Nil /\ \A k \in 1 .. n : cur[k] = body(cur[k - 1], k)
    BY <2>1, <2>2
  <2>. QED
    BY <2>3 DEF CutsTried, body
<1>. QED
  BY <1>1, <1>9, <1>10 DEF n

LEMMA RelaxIs ==
  ASSUME NEW shape, shape.pieces \in Seq(PieceSet), Len(shape.pieces) # 0
  PROVE  RelaxedSoFar(shape, RelaxTail(shape), Len(shape.pieces) - 1)
<1>. DEFINE n == Len(shape.pieces) - 1
            R(j) == Relaxed(shape.pieces, j)
<1>1. n \in Nat
  BY RelaxUnfold
<1>2. PICK f : CutsTried(shape, n, f) /\ RelaxTail(shape) = f[n]
  BY RelaxUnfold
<1>. DEFINE P == {k \in 0 .. n : RelaxedSoFar(shape, f[k], k)}
<1>3. \A j : Worthy(shape, j) => IsTiling(R(j)) /\ Len(R(j).pieces) = j
  BY CutsAre, RelaxedIs DEF Worthy
<1>. HIDE DEF n
<1>4. 0 \in P
  BY <1>1, <1>2 DEF RelaxedSoFar, CutsTried
<1>5. ASSUME NEW k \in 1 .. n, k - 1 \in P PROVE k \in P
  <2>. DEFINE a == f[k - 1]  b == f[k]  cut == R(k)
  <2>1. /\ k \in Nat /\ k - 1 \in Nat /\ k \in 0 .. n
        /\ \A j \in 1 .. k : j \in 1 .. k - 1 \/ j = k
        /\ \A j \in 1 .. k - 1 : j \in 1 .. k /\ ~ (j > k)
        /\ k \in 1 .. k /\ ~ (k > k)
    BY <1>1
  <2>2. b = IF k \in Cuts(shape.pieces) THEN TryCut(shape, a, k) ELSE a
    BY <1>2 DEF CutsTried
  <2>3. RelaxedSoFar(shape, a, k - 1)
    BY <1>5
  <2>4. b = IF Worthy(shape, k) /\ (a = Nil \/ ~BetterTiling(a, cut)) THEN cut ELSE a
    BY <2>2 DEF TryCut, Worthy
  <2>. SUFFICES RelaxedSoFar(shape, b, k)
    BY <2>1
  <2>. HIDE DEF a, b, P, R, cut
  <2>5. CASE ~Worthy(shape, k)
    <3>1. b = a
      BY <2>4, <2>5
    <3>. QED
      BY <2>1, <2>3, <2>5, <3>1 DEF RelaxedSoFar
  <2>6. CASE Worthy(shape, k)
    <3>1. cut = R(k) /\ IsTiling(cut) /\ Len(cut.pieces) = k /\ cut # Nil
      BY <1>3, <2>6 DEF cut, IsTiling
    <3>2. ~BetterTiling(cut, cut)
      BY <3>1, BetterIsOrder
    <3>3. CASE a = Nil
      <4>1. b = cut /\ \A j \in 1 .. k - 1 : ~Worthy(shape, j)
        BY <2>3, <2>4, <2>6, <3>3 DEF RelaxedSoFar
      <4>. QED
        BY <2>1, <2>6, <3>1, <3>2, <4>1 DEF RelaxedSoFar, R
    <3>4. CASE a # Nil
      <4>1. /\ IsTiling(a)
            /\ \E j \in 1 .. k - 1 : Worthy(shape, j) /\ a = R(j)
            /\ \A j \in 1 .. k - 1 : Worthy(shape, j) =>
                 /\ ~BetterTiling(R(j), a)
                 /\ j > Len(a.pieces) => BetterTiling(a, R(j))
        BY <1>3, <2>3, <3>4 DEF RelaxedSoFar, R
      <4>2. CASE BetterTiling(a, cut)
        <5>1. b = a /\ ~BetterTiling(cut, a)
          BY <2>4, <3>1, <3>4, <4>1, <4>2, BetterIsOrder
        <5>2. \A j \in 1 .. k : Worthy(shape, j) =>
                 /\ ~BetterTiling(R(j), a)
                 /\ j > Len(a.pieces) => BetterTiling(a, R(j))
          BY <2>1, <3>1, <4>1, <4>2, <5>1
        <5>3. \E j \in 1 .. k : Worthy(shape, j) /\ a = R(j)
          BY <2>1, <4>1
        <5>. QED
          BY <3>4, <5>1, <5>2, <5>3 DEF RelaxedSoFar, R
      <4>3. CASE ~BetterTiling(a, cut)
        <5>1. b = cut
          BY <2>4, <2>6, <4>3
        <5>2. \A j \in 1 .. k : Worthy(shape, j) =>
                 /\ ~BetterTiling(R(j), cut) /\ ~ (j > Len(cut.pieces))
          <6>. TAKE j \in 1 .. k
          <6>. SUFFICES ASSUME Worthy(shape, j)
                        PROVE  ~BetterTiling(R(j), cut) /\ ~ (j > Len(cut.pieces))
            OBVIOUS
          <6>1. CASE j = k
            BY <2>1, <3>1, <3>2, <6>1
          <6>2. CASE j # k
            <7>1. j \in 1 .. k - 1 /\ ~ (j > k)
              BY <2>1, <6>2
            <7>2. IsTiling(R(j)) /\ ~BetterTiling(R(j), a)
              BY <1>3, <4>1, <7>1
            <7>. QED
              BY <3>1, <4>1, <4>3, <7>1, <7>2, BetterIsOrder
          <6>. QED
            BY <6>1, <6>2
        <5>. QED
          BY <2>1, <2>6, <3>1, <5>1, <5>2 DEF RelaxedSoFar, R
      <4>. QED
        BY <4>2, <4>3
    <3>. QED
      BY <3>3, <3>4
  <2>. QED
    BY <2>5, <2>6
<1>6. P \subseteq 0 .. n
  OBVIOUS
<1>. HIDE DEF P
<1>7. n \in P
  BY <1>1, <1>4, <1>5, <1>6, AlongLoop
<1>. QED
  BY <1>2, <1>7 DEF P, n

-----------------------------------------------------------------------------
(***************************************************************************)
(* tiledUnion: what its branches explain                                   *)
(***************************************************************************)
\* What the branches before the k-th match.
MatchedBy(branches, K) == UNION {branches[j].match : j \in K}
MatchedBefore(branches, k) == MatchedBy(branches, 1 .. k - 1)

LEMMA MatchedUpTo ==
  ASSUME NEW branches, NEW n \in Nat
  PROVE  MatchedBefore(branches, n + 1) = MatchedBy(branches, 1 .. n)
<1>. DEFINE k == n + 1
<1>1. k - 1 = n
  OBVIOUS
<1>2. MatchedBefore(branches, k) = MatchedBy(branches, 1 .. k - 1)
  BY DEF MatchedBefore
<1>. HIDE DEF k
<1>3. MatchedBefore(branches, k) = MatchedBy(branches, 1 .. n)
  BY <1>1, <1>2
<1>. QED
  BY <1>3 DEF k

UnionSet == [branches : Seq(ShapeSet), remaining : SUBSET Lines]

\* A union under way: what is left, and that each branch has paid.
Paid(u) ==
  /\ u \in UnionSet
  /\ u.remaining = Lines \ MatchedBefore(u.branches, Len(u.branches) + 1)
  /\ \A k \in 1 .. Len(u.branches) :
       Count(u.branches[k].match \ MatchedBefore(u.branches, k)) >= MinBranchLines

LEMMA AddPaid ==
  ASSUME NEW u, Paid(u), NEW c \in ShapeSet
  PROVE  Paid(AddBranch(u, c))
<1>. DEFINE b == u.branches  n == Len(b)
            gained == c.match \cap u.remaining
            d == Append(b, c)
            v == [branches |-> d, remaining |-> u.remaining \ gained]
<1>1. /\ b \in Seq(ShapeSet) /\ n \in Nat /\ u.remaining \in SUBSET Lines
      /\ c.match \in SUBSET Lines
  BY LenProperties DEF Paid, UnionSet, ShapeSet
<1>2. CASE AddBranch(u, c) = u
  BY <1>2
<1>3. CASE AddBranch(u, c) = v /\ ~ (Count(gained) < MinBranchLines)
  <2>1. /\ d \in Seq(ShapeSet) /\ Len(d) = n + 1 /\ d[n + 1] = c
        /\ \A k \in 1 .. n : d[k] = b[k]
    <3>. HIDE DEF b
    <3>. QED
      BY <1>1, AppendProperties
  <2>. HIDE DEF d, n
  <2>2. \A k \in 1 .. n + 1 : MatchedBefore(d, k) = MatchedBefore(b, k)
    <3>. TAKE k \in 1 .. n + 1
    <3>1. \A j \in 1 .. k - 1 : j \in 1 .. n
      BY <1>1
    <3>2. \A j \in 1 .. k - 1 : d[j] = b[j]
      BY <2>1, <3>1
    <3>3. {d[j].match : j \in 1 .. k - 1} = {b[j].match : j \in 1 .. k - 1}
      BY <3>2
    <3>. QED
      BY <3>3, Zenon DEF MatchedBefore, MatchedBy
  <2>3. MatchedBefore(d, n + 2) = MatchedBefore(b, n + 1) \cup c.match
    <3>1. 1 .. n + 1 = (1 .. n) \cup {n + 1}
      BY <1>1
    <3>2. n + 1 \in Nat /\ n + 1 + 1 = n + 2
      BY <1>1
    <3>3. MatchedBefore(d, n + 2) = MatchedBy(d, 1 .. n + 1)
      BY <3>2, MatchedUpTo
    <3>4. MatchedBefore(b, n + 1) = MatchedBy(b, 1 .. n)
      BY <1>1, MatchedUpTo
    <3>5. {d[j].match : j \in 1 .. n + 1} = {b[j].match : j \in 1 .. n} \cup {c.match}
      BY <1>1, <2>1, <3>1
    <3>. QED
      BY <3>3, <3>4, <3>5 DEF MatchedBy
  <2>4. u.remaining = Lines \ MatchedBefore(b, n + 1)
    BY DEF Paid, n
  <2>5. gained = c.match \ MatchedBefore(d, n + 1)
    <3>1. n + 1 \in 1 .. n + 1
      BY <1>1
    <3>. QED
      BY <1>1, <2>2, <2>4, <3>1
  <2>6. v.remaining = Lines \ MatchedBefore(d, n + 2)
    BY <2>3, <2>4
  <2>7. ~ (Count(gained) < MinBranchLines) => Count(gained) >= MinBranchLines
    <3>1. Count(gained) \in 0 .. N /\ MinBranchLines \in Nat
      BY <1>1, LinesCounted, TilerAssumption DEF Count
    <3>. HIDE DEF gained
    <3>. QED
      BY <3>1, LinesAssumption
  <2>8. \A k \in 1 .. n + 1 :
          Count(d[k].match \ MatchedBefore(d, k)) >= MinBranchLines
    <3>. TAKE k \in 1 .. n + 1
    <3>1. CASE k = n + 1
      <4>1. d[k].match \ MatchedBefore(d, k) = gained
        BY <2>1, <2>5, <3>1
      <4>. QED
        BY <1>3, <2>7, <4>1
    <3>2. CASE k # n + 1
      <4>1. k \in 1 .. n
        BY <1>1, <3>2
      <4>2. Count(b[k].match \ MatchedBefore(b, k)) >= MinBranchLines
        BY <4>1 DEF Paid, n
      <4>. QED
        BY <2>1, <2>2, <4>1, <4>2
    <3>. QED
      BY <3>1, <3>2
  <2>9. v \in UnionSet
    BY <1>1, <2>1 DEF UnionSet
  <2>10. v.branches = d /\ Len(v.branches) = n + 1 /\ n + 1 + 1 = n + 2
    BY <1>1, <2>1
  <2>. HIDE DEF v, gained, b
  <2>. QED
    BY <1>3, <2>6, <2>8, <2>9, <2>10 DEF Paid
<1>. QED
  BY <1>2, <1>3 DEF AddBranch

\* Shapes by descending match count.
LEMMA ByMatchedIs ==
  ASSUME shapes \in Seq(ShapeSet)
  PROVE  DOMAIN ByMatched = 1 .. Len(shapes) /\ \A k \in 1 .. Len(shapes) : ByMatched[k] \in ShapeSet
<1>. DEFINE Before(i, j) == \/ Count(shapes[i].match) > Count(shapes[j].match)
                            \/ Count(shapes[i].match) = Count(shapes[j].match) /\ i < j
            indices == DOMAIN shapes
            R == {p \in indices \X indices : Before(p[1], p[2])}
            order == InOrder(indices, R)
<1>1. ByMatched = [k \in DOMAIN order |-> shapes[order[k]]]
  BY Zenon DEF ByMatched
<1>2. indices = 1 .. Len(shapes) /\ Len(shapes) \in Nat
      /\ \A k \in 1 .. Len(shapes) : shapes[k] \in ShapeSet
  BY LenProperties, ElementOfSeq
<1>3. \A i \in indices : Count(shapes[i].match) \in Int /\ i \in Int
  <2>. TAKE i \in indices
  <2>1. shapes[i].match \in SUBSET Lines
    BY <1>2 DEF ShapeSet
  <2>. QED
    BY <1>2, <2>1, LinesCounted DEF Count
<1>4. IsOrder(indices, R)
  <2>1. \A i, j \in indices : <<i, j>> \in R <=> Before(i, j)
    BY Zenon
  <2>2. \A i, j \in indices : /\ ~Before(i, i)
                              /\ i # j => Before(i, j) \/ Before(j, i)
    <3>. HIDE DEF indices
    <3>. QED
      BY <1>3
  <2>3. \A i, j, k \in indices : Before(i, j) /\ Before(j, k) => Before(i, k)
    <3>. HIDE DEF indices
    <3>. QED
      BY <1>3
  <2>. HIDE DEF indices, R, Before
  <2>. QED
    BY <2>1, <2>2, <2>3 DEF IsOrder
<1>5. IsFiniteSet(indices) /\ Cardinality(indices) = Len(shapes)
  <2>1. Len(shapes) \in Int /\ 1 \in Int
        /\ (IF 1 > Len(shapes) THEN 0 ELSE Len(shapes) - 1 + 1) = Len(shapes)
    BY <1>2
  <2>2. IsFiniteSet(1 .. Len(shapes)) /\ Cardinality(1 .. Len(shapes)) = Len(shapes)
    BY ONLY <2>1, FS_Interval
  <2>. QED
    BY <1>2, <2>2
<1>. HIDE DEF R, indices
<1>6. order \in [1 .. Len(shapes) -> indices]
  BY <1>4, <1>5, InOrderRanks
<1>. HIDE DEF order
<1>. QED
  BY <1>1, <1>2, <1>6

NoBranch == [branches |-> <<>>, remaining |-> Lines]

\* The union after each of the shapes, by matched.
Takes(n, f) == f[0] = NoBranch /\ \A k \in 1 .. n : f[k] = AddBranch(f[k - 1], ByMatched[k])

UnionOf(u) ==
  [match |-> UNION {c.match : c \in ToSet(u.branches)}, branches |-> u.branches]

LEMMA UnionUnfold ==
  ASSUME shapes \in Seq(ShapeSet), NEW m, TiledUnion(m) # Nil
  PROVE  /\ AtLeast(Count(TiledUnion(m).match) - m, 15)
         /\ \E f : Takes(Len(shapes), f) /\ TiledUnion(m) = UnionOf(f[Len(shapes)])
<1>. DEFINE n == Len(shapes)
            A == UnionSet
            body(a, k) == AddBranch(a, ByMatched[k])
            step == [p \in A \X (1 .. n) |-> body(p[1], p[2])]
            IsLoop(f) == f = [k \in 0 .. n |-> IF k = 0 THEN NoBranch ELSE body(f[k - 1], k)]
            cur == CHOOSE f : IsLoop(f)
<1>1. n \in Nat
  BY LenProperties
<1>2. NoBranch \in A
  BY EmptySeq DEF NoBranch, UnionSet
<1>3. \A a \in A, k \in 1 .. n : body(a, k) \in A
  <2>. TAKE a \in A, k \in 1 .. n
  <2>1. ByMatched[k] \in ShapeSet
    BY ByMatchedIs
  <2>2. Append(a.branches, ByMatched[k]) \in Seq(ShapeSet)
    BY <2>1, AppendProperties DEF UnionSet
  <2>. QED
    BY <2>2 DEF AddBranch, UnionSet
<1>4. step \in [A \X (1 .. n) -> A]
  <2>. HIDE DEF A, body
  <2>. QED
    BY <1>3
<1>. HIDE DEF A, body
<1>5. PICK f \in [0 .. n -> A] :
        f[0] = NoBranch /\ \A k \in 1 .. n : f[k] = step[<<f[k - 1], k>>]
  <2>. HIDE DEF step, n
  <2>1. HasLoop(A, NoBranch, n, step)
    BY <1>1, <1>2, <1>4, LoopExists
  <2>. QED
    BY <2>1 DEF HasLoop
<1>. HIDE DEF n
<1>6. \A k \in 1 .. n : f[k] = body(f[k - 1], k)
  <2>. TAKE k \in 1 .. n
  <2>1. k - 1 \in 0 .. n
    BY <1>1
  <2>2. <<f[k - 1], k>> \in A \X (1 .. n)
    BY <1>5, <2>1
  <2>. QED
    BY <1>5, <2>2
<1>7. IsLoop(f)
  <2>1. f = [k \in 0 .. n |-> f[k]]
    BY <1>5
  <2>2. \A k \in 0 .. n : f[k] = IF k = 0 THEN NoBranch ELSE body(f[k - 1], k)
    <3>. TAKE k \in 0 .. n
    <3>1. k = 0 \/ (k # 0 /\ k \in 1 .. n)
      BY <1>1
    <3>. QED
      BY <1>5, <1>6, <3>1
  <2>. DEFINE g == [k \in 0 .. n |-> IF k = 0 THEN NoBranch ELSE body(f[k - 1], k)]
  <2>3. g = [k \in 0 .. n |-> g[k]] /\ \A k \in 0 .. n : g[k] = f[k]
    BY <2>2
  <2>4. IsLoop(f) <=> f = g
    OBVIOUS
  <2>. HIDE DEF g, IsLoop
  <2>. QED
    BY ONLY <2>1, <2>3, <2>4
<1>8. IsLoop(cur)
  BY <1>7
<1>9. /\ TiledUnion(m) = UnionOf(cur[n])
      /\ AtLeast(Count(TiledUnion(m).match) - m, 15)
  <2>. DEFINE branches == cur[n].branches
              match == UNION {c.match : c \in ToSet(branches)}
              none == \/ Len(shapes) < 2 \/ Len(branches) < 2
                      \/ ~AtLeast(Count(match), 90) \/ ~AtLeast(Count(match) - m, 15)
  <2>1. TiledUnion(m) = IF none THEN Nil ELSE [match |-> match, branches |-> branches]
    BY Zenon DEF TiledUnion, body, n, NoBranch
  <2>2. TiledUnion(m) = [match |-> match, branches |-> branches] /\ ~none
    <3>. HIDE DEF none, match, branches
    <3>. QED
      BY <2>1
  <2>3. TiledUnion(m).match = match
    <3>. HIDE DEF match, branches
    <3>. QED
      BY <2>2
  <2>. HIDE DEF cur
  <2>. QED
    BY <2>2, <2>3 DEF UnionOf
<1>. HIDE DEF cur
<1>10. Takes(n, cur)
  <2>1. \A k \in 0 .. n : cur[k] = IF k = 0 THEN NoBranch ELSE body(cur[k - 1], k)
    BY <1>8
  <2>2. 0 \in 0 .. n /\ \A k \in 1 .. n : k \in 0 .. n /\ k # 0
    BY <1>1
  <2>3. cur[0] = NoBranch /\ \A k \in 1 .. n : cur[k] = body(cur[k - 1], k)
    BY <2>1, <2>2
  <2>. QED
    BY <2>3 DEF Takes, body
<1>. QED
  BY <1>9, <1>10 DEF n

LEMMA UnionPays ==
  ASSUME shapes \in Seq(ShapeSet), NEW m, TiledUnion(m) # Nil
  PROVE  \E u : Paid(u) /\ TiledUnion(m) = UnionOf(u)
<1>1. PICK f : Takes(Len(shapes), f) /\ TiledUnion(m) = UnionOf(f[Len(shapes)])
  BY UnionUnfold
<1>. DEFINE n == Len(shapes)
            P == {k \in 0 .. n : Paid(f[k])}
<1>2. n \in Nat
  BY LenProperties
<1>3. 0 \in P
  <2>1. f[0] = NoBranch
    BY <1>1 DEF Takes
  <2>2. MatchedBefore(<<>>, 1) = {}
    BY DEF MatchedBefore, MatchedBy
  <2>3. NoBranch \in UnionSet /\ NoBranch.branches = <<>> /\ NoBranch.remaining = Lines
    BY EmptySeq DEF NoBranch, UnionSet
  <2>4. Len(<<>>) = 0
    OBVIOUS
  <2>5. Paid(NoBranch)
    BY <2>2, <2>3, <2>4 DEF Paid
  <2>. QED
    BY <1>2, <2>1, <2>5
<1>4. ASSUME NEW k \in 1 .. n, k - 1 \in P PROVE k \in P
  <2>1. f[k] = AddBranch(f[k - 1], ByMatched[k]) /\ ByMatched[k] \in ShapeSet
    BY <1>1, ByMatchedIs DEF Takes
  <2>2. Paid(f[k])
    BY <1>4, <2>1, AddPaid
  <2>. QED
    BY <1>2, <2>2
<1>5. P \subseteq 0 .. n
  OBVIOUS
<1>. HIDE DEF P, n
<1>6. n \in P
  BY <1>2, <1>3, <1>4, <1>5, AlongLoop
<1>. QED
  BY <1>1, <1>6 DEF P, n

-----------------------------------------------------------------------------
(***************************************************************************)
(* tryTiling: the answer                                                   *)
(***************************************************************************)
\* What the best tiling gives: at least the coverage of the strongest shape, and a
\* promoted field if that has one.
LEMMA BestIs ==
  ASSUME TilerInv, tpc # "pick"
  PROVE  /\ BestTiling = Nil <=> shapes = <<>>
         /\ BestTiling # Nil =>
              /\ IsTiling(BestTiling) /\ "branches" \notin DOMAIN BestTiling
              /\ \A k \in DOMAIN shapes :
                   /\ Count(shapes[k].match) <= Count(BestTiling.match)
                   /\ Promoted(shapes[k].pieces) > 0
                        /\ (\A j \in DOMAIN shapes : Count(shapes[j].match) <= Count(shapes[k].match))
                      => Promoted(BestTiling.pieces) >= 1
<1>. DEFINE strongest == Strongest(shapes)
            relaxed == RelaxTail(strongest)
            n == Len(shapes)
<1>1. /\ shapes \in Seq(ShapeSet) /\ n \in Nat /\ DOMAIN shapes = 1 .. n
      /\ \A k \in 1 .. n : shapes[k] \in ShapeSet /\ Len(shapes[k].pieces) \in Nat \ {0}
  BY ShapesTyped, ShapeTyped, LenProperties
<1>2. BestSoFar(shapes, strongest, n)
  BY <1>1, StrongestIs
<1>3. BestTiling = IF strongest = Nil \/ Count(strongest.match) = N \/ relaxed = Nil THEN strongest ELSE relaxed
  BY DEF BestTiling
<1>4. shapes = <<>> <=> n = 0
  BY <1>1
<1>5. strongest = Nil <=> shapes = <<>>
  BY <1>2, <1>4 DEF BestSoFar
<1>. HIDE DEF strongest, relaxed, n
<1>6. CASE strongest = Nil
  BY <1>3, <1>5, <1>6
<1>7. CASE strongest # Nil
  <2>1. /\ \E k \in 1 .. n : strongest = shapes[k]
        /\ \A k \in 1 .. n : ~BetterTiling(shapes[k], strongest)
    BY <1>1, <1>2, <1>7 DEF BestSoFar
  <2>2. strongest \in ShapeSet /\ Len(strongest.pieces) \in Nat \ {0}
    BY <1>1, <2>1
  <2>3. IsTiling(strongest) /\ "branches" \notin DOMAIN strongest /\ strongest.pieces \in Seq(PieceSet)
        /\ strongest.match \in SUBSET Lines
    BY <2>2, TilingsAre DEF ShapeSet
  <2>4. ASSUME NEW k \in 1 .. n
        PROVE  /\ Count(shapes[k].match) <= Count(strongest.match)
               /\ Promoted(shapes[k].pieces) > 0
                    /\ (\A j \in DOMAIN shapes : Count(shapes[j].match) <= Count(shapes[k].match))
                  => Promoted(strongest.pieces) >= 1
    <3>. DEFINE c == shapes[k]
    <3>1. IsTiling(c) /\ ~BetterTiling(c, strongest) /\ strongest # Nil
      BY <1>1, <1>7, <2>1, TilingsAre
    <3>2. Count(c.match) <= Count(strongest.match)
      BY <2>3, <3>1, BetterIsOrder
    <3>3. /\ Count(c.match) \in Int /\ Count(strongest.match) \in Int
          /\ Promoted(c.pieces) \in Int /\ Promoted(strongest.pieces) \in Int
      BY <2>3, <3>1, TilingsAre
    <3>4. Count(c.match) = Count(strongest.match) => ~ (Promoted(c.pieces) > Promoted(strongest.pieces))
      BY <3>1 DEF BetterTiling
    <3>5. (\A j \in DOMAIN shapes : Count(shapes[j].match) <= Count(c.match))
            => Count(strongest.match) <= Count(c.match)
      BY <1>1, <2>1
    <3>. HIDE DEF c
    <3>6. /\ Count(c.match) <= Count(strongest.match)
          /\ Promoted(c.pieces) > 0
               /\ (\A j \in DOMAIN shapes : Count(shapes[j].match) <= Count(c.match))
             => Promoted(strongest.pieces) >= 1
      BY <3>2, <3>3, <3>4, <3>5
    <3>. QED
      BY <3>6 DEF c
  <2>5. CASE BestTiling = strongest
    BY <1>1, <1>5, <1>7, <2>3, <2>4, <2>5
  <2>6. CASE BestTiling = relaxed /\ relaxed # Nil
    <3>1. RelaxedSoFar(strongest, relaxed, Len(strongest.pieces) - 1)
      BY <2>2, <2>3, RelaxIs DEF relaxed
    <3>2. PICK i : Worthy(strongest, i) /\ relaxed = Relaxed(strongest.pieces, i)
      BY <2>6, <3>1 DEF RelaxedSoFar
    <3>3. i \in 1 .. Len(strongest.pieces) /\ IsCut(strongest.pieces, i)
      BY <2>3, <3>2, CutsAre DEF Worthy
    <3>4. /\ relaxed \in CutSet /\ IsTiling(relaxed)
          /\ relaxed.pieces = SubSeq(strongest.pieces, 1, i) /\ relaxed.match \in SUBSET Lines
      BY <2>3, <3>2, <3>3, RelaxedIs
    <3>5. "branches" \notin DOMAIN relaxed
      BY <3>4 DEF CutSet
    <3>6. Promoted(relaxed.pieces) >= 1
      <4>1. Promoted(relaxed.pieces) \in Nat /\ Promoted(relaxed.pieces) > 0
        BY <3>3, <3>4, TilingsAre DEF IsCut
      <4>. QED
        BY <4>1
    <3>7. Count(relaxed.match) >= Count(strongest.match)
      <4>1. /\ Margin \in Nat
            /\ Count(relaxed.match) >= Count(strongest.match) + Margin
        BY <2>3, <3>2, <3>4, GainIs DEF Worthy
      <4>2. Count(relaxed.match) \in Int /\ Count(strongest.match) \in Int
        BY <2>3, <3>4, TilingsAre
      <4>. QED
        BY <4>1, <4>2
    <3>8. \A k \in 1 .. n : Count(shapes[k].match) <= Count(relaxed.match)
      <4>. TAKE k \in 1 .. n
      <4>1. /\ Count(relaxed.match) \in Int /\ Count(strongest.match) \in Int
            /\ Count(shapes[k].match) \in Int
        BY <1>1, <2>3, <3>4, TilingsAre
      <4>. QED
        BY <2>4, <3>7, <4>1
    <3>. QED
      BY <1>1, <1>5, <1>7, <2>6, <3>4, <3>5, <3>6, <3>8
  <2>. QED
    BY <1>3, <1>7, <2>5, <2>6
<1>. QED
  BY <1>6, <1>7

LEMMA AtLeastMonotone ==
  ASSUME NEW m \in Int, NEW n \in Int, m <= n, NEW p \in Int, AtLeast(m, p)
  PROVE  AtLeast(n, p)
BY LinesAssumption DEF AtLeast

\* The answer when there is one: the best tiling, or a union whose branches pay.
LEMMA TryIs ==
  ASSUME TilerInv, tpc # "pick"
  PROVE  TryTiling # Nil =>
           /\ BestTiling # Nil
           /\ \/ TryTiling = BestTiling
              \/ /\ \E u : Paid(u) /\ TryTiling = UnionOf(u)
                 /\ AtLeast(Count(TryTiling.match) - Count(BestTiling.match), 15)
<1>. DEFINE strongest == BestTiling
            matched == Count(strongest.match)
            union == TiledUnion(matched)
            weakShort == N < ShortLines /\ (~AtLeast(matched, 85) \/ LiteralKeywords(strongest.pieces) = 0)
<1>1. TryTiling = IF N < MinLines \/ strongest = Nil THEN Nil
                  ELSE IF ~AtLeast(matched, 85) /\ union # Nil THEN union
                  ELSE IF weakShort \/ ~AtLeast(matched, 50) \/ ~Informative(strongest) THEN Nil
                  ELSE strongest
  BY Zenon DEF TryTiling
<1>2. union # Nil => /\ \E u : Paid(u) /\ union = UnionOf(u)
                     /\ AtLeast(Count(union.match) - matched, 15)
  BY ShapesTyped, UnionPays, UnionUnfold
<1>. HIDE DEF strongest, matched, union, weakShort
<1>3. TryTiling # Nil => strongest # Nil /\ (TryTiling = strongest \/ (TryTiling = union /\ union # Nil))
  BY <1>1
<1>4. TryTiling # Nil => strongest # Nil /\ (TryTiling = strongest \/
        (/\ \E u : Paid(u) /\ TryTiling = UnionOf(u)
         /\ AtLeast(Count(TryTiling.match) - matched, 15)))
  BY <1>2, <1>3
<1>. QED
  BY <1>4 DEF strongest, matched

LEMMA AnswerCovers ==
  ASSUME TilerInv, tpc # "pick", NEW k \in DOMAIN shapes
  PROVE  /\ TryTiling # Nil => Count(TryTiling.match) >= Count(shapes[k].match)
         /\ /\ N >= ShortLines /\ AtLeast(Count(shapes[k].match), 50)
            /\ Promoted(shapes[k].pieces) > 0
            /\ \A j \in DOMAIN shapes : Count(shapes[j].match) <= Count(shapes[k].match)
            => TryTiling # Nil
<1>. DEFINE strongest == BestTiling
            matched == Count(strongest.match)
            m == Count(shapes[k].match)
            union == TiledUnion(matched)
            weakShort == N < ShortLines /\ (~AtLeast(matched, 85) \/ LiteralKeywords(strongest.pieces) = 0)
<1>1. shapes # <<>>
  OBVIOUS
<1>2. strongest # Nil /\ IsTiling(strongest) /\ m <= matched
  BY <1>1, BestIs
<1>3. matched \in Int /\ m \in Int
  BY <1>2, ShapeTyped, TilingsAre
<1>4. ASSUME TryTiling # Nil PROVE Count(TryTiling.match) >= m
  <2>1. CASE TryTiling = strongest
    BY <1>2, <1>3, <2>1
  <2>2. CASE \E u : Paid(u) /\ TryTiling = UnionOf(u) /\ AtLeast(Count(TryTiling.match) - matched, 15)
    <3>1. PICK u : Paid(u) /\ TryTiling = UnionOf(u)
      BY <2>2
    <3>2. TryTiling.match \in SUBSET Lines
      <4>1. u.branches \in Seq(ShapeSet)
        BY <3>1 DEF Paid, UnionSet
      <4>2. \A c \in ToSet(u.branches) : c.match \in SUBSET Lines
        <5>1. \A j \in DOMAIN u.branches : u.branches[j] \in ShapeSet
          BY <4>1, LenProperties, ElementOfSeq
        <5>. QED
          BY <5>1 DEF ToSet, ShapeSet
      <4>. QED
        BY <3>1, <4>2 DEF UnionOf
    <3>3. Count(TryTiling.match) \in Int
      BY <3>2, LinesCounted DEF Count
    <3>4. 100 * (Count(TryTiling.match) - matched) >= 15 * N /\ N \in Nat
      BY <2>2, LinesAssumption DEF AtLeast
    <3>. HIDE DEF matched, m
    <3>5. Count(TryTiling.match) >= matched
      BY <1>3, <3>3, <3>4
    <3>. QED
      BY <1>2, <1>3, <3>3, <3>5
  <2>. QED
    BY <1>4, <2>1, <2>2, TryIs
<1>5. ASSUME N >= ShortLines, AtLeast(m, 50), Promoted(shapes[k].pieces) > 0,
             \A j \in DOMAIN shapes : Count(shapes[j].match) <= m
      PROVE  TryTiling # Nil
  <2>1. TryTiling = IF N < MinLines \/ strongest = Nil THEN Nil
                    ELSE IF ~AtLeast(matched, 85) /\ union # Nil THEN union
                    ELSE IF weakShort \/ ~AtLeast(matched, 50) \/ ~Informative(strongest) THEN Nil
                    ELSE strongest
    BY Zenon DEF TryTiling
  <2>2. Informative(strongest)
    <3>1. Promoted(strongest.pieces) >= 1
      BY <1>2, <1>5, BestIs
    <3>. QED
      BY <3>1 DEF Informative
  <2>3. AtLeast(matched, 50)
    <3>. HIDE DEF matched, m
    <3>. QED
      BY <1>2, <1>3, <1>5, AtLeastMonotone
  <2>4. ~ (N < MinLines) /\ ~weakShort
    <3>1. /\ MinLines \in Nat /\ ShortLines \in Nat /\ MinLines <= ShortLines /\ N \in Nat
          /\ N >= ShortLines
      BY <1>5, TilerAssumption, LinesAssumption
    <3>. QED
      BY <3>1
  <2>. HIDE DEF strongest, matched, union, weakShort
  <2>. QED
    BY <1>2, <2>1, <2>2, <2>3, <2>4
<1>. QED
  BY <1>4, <1>5

-----------------------------------------------------------------------------
(***************************************************************************)
(* The invariant of the answer                                             *)
(***************************************************************************)
AnswerInv ==
  /\ TilerInv /\ AnswerCoversBest /\ BranchesPay
  /\ tiled # Nil => tiled.match \subseteq Lines

LEMMA Chosen ==
  ASSUME AnswerInv, Choose
  PROVE  AnswerInv'
<1>1. /\ tpc = "build" /\ tpc' = "tiled" /\ tiled' = TryTiling
      /\ input' = input /\ templates' = templates /\ shapes' = shapes
  BY DEF Choose
<1>2. TilerInv /\ tpc # "pick"
  BY <1>1 DEF AnswerInv
<1>3. TilerInv'
  BY <1>2, TilerStep DEF TileNext
<1>4. \A c \in ToSet(shapes) :
        /\ TryTiling # Nil => Count(TryTiling.match) >= Count(c.match)
        /\ /\ N >= ShortLines /\ AtLeast(Count(c.match), 50) /\ Promoted(c.pieces) > 0
           /\ \A d \in ToSet(shapes) : Count(d.match) <= Count(c.match)
           => TryTiling # Nil
  <2>. TAKE c \in ToSet(shapes)
  <2>1. PICK k \in DOMAIN shapes : c = shapes[k]
    BY DEF ToSet
  <2>2. (\A d \in ToSet(shapes) : Count(d.match) <= Count(c.match)) =>
          \A j \in DOMAIN shapes : Count(shapes[j].match) <= Count(shapes[k].match)
    BY <2>1 DEF ToSet
  <2>. QED
    BY <1>2, <2>1, <2>2, AnswerCovers
<1>5. AnswerCoversBest'
  BY <1>1, <1>4 DEF AnswerCoversBest
<1>6. BranchesPay' /\ (TryTiling # Nil => TryTiling.match \subseteq Lines)
  <2>1. CASE TryTiling = Nil
    BY <1>1, <2>1 DEF BranchesPay
  <2>2. CASE TryTiling # Nil /\ TryTiling = BestTiling
    <3>1. "branches" \notin DOMAIN TryTiling /\ IsTiling(TryTiling)
      BY <1>2, <2>2, BestIs
    <3>. QED
      BY <1>1, <3>1 DEF BranchesPay, IsTiling
  <2>3. CASE TryTiling # Nil /\ \E u : Paid(u) /\ TryTiling = UnionOf(u)
    <3>1. PICK u : Paid(u) /\ TryTiling = UnionOf(u)
      BY <2>3
    <3>2. u.branches \in Seq(ShapeSet) /\ DOMAIN u.branches = 1 .. Len(u.branches)
          /\ \A j \in DOMAIN u.branches : u.branches[j] \in ShapeSet
      <4>1. u.branches \in Seq(ShapeSet)
        BY <3>1 DEF Paid, UnionSet
      <4>. QED
        BY <4>1, LenProperties, ElementOfSeq
    <3>3. TryTiling.match \subseteq Lines
      <4>1. \A c \in ToSet(u.branches) : c.match \in SUBSET Lines
        BY <3>2 DEF ToSet, ShapeSet
      <4>. QED
        BY <3>1, <4>1 DEF UnionOf
    <3>4. tiled'.branches = u.branches
      BY <1>1, <3>1 DEF UnionOf
    <3>5. \A k \in DOMAIN u.branches :
            Count(u.branches[k].match \ MatchedBefore(u.branches, k)) >= MinBranchLines
      BY <3>1, <3>2 DEF Paid
    <3>6. \A k \in DOMAIN u.branches :
            Count(u.branches[k].match \ UNION {u.branches[j].match : j \in 1 .. k - 1}) >= MinBranchLines
      BY <3>5 DEF MatchedBefore, MatchedBy
    <3>. QED
      BY <3>3, <3>4, <3>6 DEF BranchesPay
  <2>. QED
    BY <1>2, <2>1, <2>2, <2>3, TryIs
<1>. QED
  BY <1>1, <1>3, <1>5, <1>6 DEF AnswerInv

LEMMA AnswerInvariant == SuggestSpec => []AnswerInv
<1>1. SuggestInit => AnswerInv
  <2>1. SuggestInit => TilerInv
    BY DEF SuggestInit, TileInit, TilerInv
  <2>2. SuggestInit => tpc = "pick" /\ tiled = Nil
    BY DEF SuggestInit, TileInit
  <2>3. tpc = "pick" /\ tiled = Nil => AnswerCoversBest /\ BranchesPay
    BY DEF AnswerCoversBest, BranchesPay
  <2>. QED
    BY <2>1, <2>2, <2>3 DEF AnswerInv
<1>2. ASSUME AnswerInv, [SuggestNext]_suggestVars
      PROVE  AnswerInv'
  <2>1. CASE UNCHANGED tileVars
    <3>1. /\ input' = input /\ tpc' = tpc /\ templates' = templates
          /\ shapes' = shapes /\ tiled' = tiled
      BY <2>1 DEF tileVars
    <3>2. TilerInv /\ AnswerCoversBest /\ BranchesPay /\ (tiled # Nil => tiled.match \subseteq Lines)
      BY <1>2 DEF AnswerInv
    <3>3. TilerInv'
      BY <3>1, <3>2 DEF TilerInv
    <3>4. AnswerCoversBest'
      BY ONLY <3>1, <3>2 DEF AnswerCoversBest
    <3>5. BranchesPay'
      BY ONLY <3>1, <3>2 DEF BranchesPay
    <3>. QED
      BY <3>1, <3>2, <3>3, <3>4, <3>5 DEF AnswerInv
  <2>2. CASE Tile /\ Choose
    BY <1>2, <2>2, Chosen
  <2>3. CASE Tile /\ ~Choose
    <3>1. TilerInv' /\ tiled' = tiled /\ tpc # "tiled" /\ tpc' # "tiled"
      BY <1>2, <2>3, TilerStep DEF Tile, TileNext, AnswerInv, PickTemplates, BuildTiling
    <3>2. tiled' = Nil
      BY <1>2, <3>1 DEF AnswerInv, TilerInv
    <3>. QED
      BY <3>1, <3>2 DEF AnswerInv, AnswerCoversBest, BranchesPay
  <2>4. CASE ~Tile
    <3>1. UNCHANGED tileVars
      BY <1>2, <2>4 DEF SuggestNext, suggestVars, Prepare, SuggestSet, SuggestTopK, FallBack
    <3>. QED
      BY <2>1, <3>1
  <2>. QED
    BY <2>2, <2>3, <2>4
<1>. QED
  BY <1>1, <1>2, PTL DEF SuggestSpec

\* The tiling that is returned explains as much as the best one tried, its tail
\* was relaxed at the best place, and each branch of a union earns its place,
\* for any lines, tokens, primitives and limits (tiler.go 1030-1362).
THEOREM AnswerIsWorthwhile == SuggestSpec => []AnswerWorthwhile
<1>1. ASSUME AnswerInv PROVE AnswerWorthwhile
  <2>1. RelaxedIsBest
    <3>. DEFINE strongest == Strongest(shapes)
                relaxed == RelaxTail(strongest)
                Worth(i) == Count(Relaxed(strongest.pieces, i).match) >= Count(strongest.match) + Margin
                NotBeyond(other, r, i) ==
                  /\ Count(other.match) <= Count(r.match)
                  /\ Count(other.match) = Count(r.match) =>
                       /\ Promoted(other.pieces) <= Promoted(r.pieces)
                       /\ Promoted(other.pieces) = Promoted(r.pieces) =>
                            LitFields(other.pieces) >= LitFields(r.pieces)
                       /\ i > Len(r.pieces) => LitFields(other.pieces) > LitFields(r.pieces)
    <3>. SUFFICES ASSUME tpc = "build", strongest # Nil
                  PROVE  IF \E i \in Cuts(strongest.pieces) : Worth(i)
                         THEN /\ relaxed # Nil
                              /\ \A i \in Cuts(strongest.pieces) :
                                   NotBeyond(Relaxed(strongest.pieces, i), relaxed, i)
                         ELSE relaxed = Nil
      BY Zenon DEF RelaxedIsBest
    <3>1. TilerInv /\ tpc # "pick"
      BY <1>1 DEF AnswerInv
    <3>2. /\ shapes \in Seq(ShapeSet) /\ Len(shapes) \in Nat /\ DOMAIN shapes = 1 .. Len(shapes)
          /\ \A k \in DOMAIN shapes : shapes[k] \in ShapeSet /\ Len(shapes[k].pieces) \in Nat \ {0}
      BY <3>1, ShapesTyped, ShapeTyped, LenProperties
    <3>3. BestSoFar(shapes, strongest, Len(shapes))
      BY <3>2, StrongestIs
    <3>. HIDE DEF strongest, relaxed
    <3>4. strongest \in ShapeSet /\ Len(strongest.pieces) \in Nat \ {0}
      BY <3>2, <3>3 DEF BestSoFar
    <3>5. strongest.pieces \in Seq(PieceSet) /\ strongest.match \in SUBSET Lines /\ IsTiling(strongest)
      BY <3>4, TilingsAre DEF ShapeSet
    <3>6. RelaxedSoFar(strongest, relaxed, Len(strongest.pieces) - 1)
      BY <3>4, <3>5, RelaxIs DEF relaxed
    <3>7. \A i \in Cuts(strongest.pieces) :
            /\ i \in 1 .. Len(strongest.pieces) - 1
            /\ IsTiling(Relaxed(strongest.pieces, i)) /\ Relaxed(strongest.pieces, i).match \in SUBSET Lines
            /\ Worthy(strongest, i) <=> Worth(i)
      BY <3>5, CutsAre, RelaxedIs, GainIs DEF Worthy
    <3>. HIDE DEF Worth
    <3>8. CASE \E i \in Cuts(strongest.pieces) : Worth(i)
      <4>1. relaxed # Nil
        BY <3>6, <3>7, <3>8 DEF RelaxedSoFar
      <4>2. PICK l : Worthy(strongest, l) /\ relaxed = Relaxed(strongest.pieces, l)
        BY <3>6, <4>1 DEF RelaxedSoFar
      <4>3. l \in Cuts(strongest.pieces) /\ Worth(l) /\ IsTiling(relaxed)
        BY <3>7, <4>2 DEF Worthy
      <4>4. ASSUME NEW i \in Cuts(strongest.pieces)
            PROVE  NotBeyond(Relaxed(strongest.pieces, i), relaxed, i)
        <5>. DEFINE other == Relaxed(strongest.pieces, i)
        <5>1. CASE Worth(i)
          <6>1. /\ ~BetterTiling(other, relaxed)
                /\ i > Len(relaxed.pieces) => BetterTiling(relaxed, other)
            BY <3>6, <3>7, <4>1, <5>1 DEF RelaxedSoFar
          <6>2. other # Nil /\ relaxed # Nil
            BY <3>7, <4>3 DEF IsTiling
          <6>3. /\ Count(other.match) \in Int /\ Count(relaxed.match) \in Int
                /\ Promoted(other.pieces) \in Int /\ Promoted(relaxed.pieces) \in Int
                /\ LitFields(other.pieces) \in Int /\ LitFields(relaxed.pieces) \in Int
            BY <3>7, <4>3, TilingsAre
          <6>4. i > Len(relaxed.pieces) => Promoted(relaxed.pieces) <= Promoted(other.pieces)
            <7>1. /\ l \in 1 .. Len(strongest.pieces) /\ i \in 1 .. Len(strongest.pieces)
                  /\ Len(strongest.pieces) \in Nat
              BY <3>4, <3>7, <4>3
            <7>2. /\ relaxed.pieces = SubSeq(strongest.pieces, 1, l) /\ Len(relaxed.pieces) = l
                  /\ other.pieces = SubSeq(strongest.pieces, 1, i)
              BY <3>5, <4>2, <7>1, RelaxedIs
            <7>3. i > l => l \in 1 .. i
              BY <7>1
            <7>. HIDE DEF other
            <7>. QED
              BY <3>5, <7>1, <7>2, <7>3, PrefixPromoted
          <6>. HIDE DEF other
          <6>5. NotBeyond(other, relaxed, i)
            BY <6>1, <6>2, <6>3, <6>4 DEF BetterTiling, Typed
          <6>. QED
            BY <6>5 DEF other
        <5>2. CASE ~Worth(i)
          <6>1. /\ Count(other.match) \in Int /\ Count(relaxed.match) \in Int
                /\ Count(strongest.match) \in Int /\ Margin \in Int
                /\ ~ (Count(other.match) >= Count(strongest.match) + Margin)
                /\ Count(relaxed.match) >= Count(strongest.match) + Margin
            <7>1. IsTiling(other) /\ IsTiling(relaxed) /\ IsTiling(strongest)
              BY <3>5, <3>7, <4>3
            <7>2. /\ Count(other.match) \in Int /\ Count(relaxed.match) \in Int
                  /\ Count(strongest.match) \in Int
              BY <7>1, TilingsAre
            <7>3. Margin \in Int
              BY <3>5, GainIs
            <7>4. ~ (Count(other.match) >= Count(strongest.match) + Margin)
              BY <5>2 DEF Worth
            <7>5. Count(relaxed.match) >= Count(strongest.match) + Margin
              BY <4>2, <4>3 DEF Worth
            <7>. QED
              BY <7>2, <7>3, <7>4, <7>5
          <6>2. Count(relaxed.match) > Count(other.match)
            BY <6>1
          <6>. QED
            BY <6>1, <6>2
        <5>. QED
          BY <5>1, <5>2
      <4>. QED
        BY <3>8, <4>1, <4>4
    <3>9. CASE ~ \E i \in Cuts(strongest.pieces) : Worth(i)
      <4>1. relaxed = Nil
        BY <3>6, <3>7, <3>9 DEF RelaxedSoFar, Worthy
      <4>. QED
        BY <3>9, <4>1
    <3>. QED
      BY <3>8, <3>9
  <2>. QED
    BY <1>1, <2>1 DEF AnswerWorthwhile, AnswerInv
<1>. QED
  BY <1>1, AnswerInvariant, PTL

-----------------------------------------------------------------------------
(***************************************************************************)
(* The pool: what is offered has figures that can be compared              *)
(***************************************************************************)
HasFigures(c) == c.match \in SUBSET Lines /\ c.typed \in Int /\ c.specificity \in Int

IsPooled(c) == HasFigures(c) /\ c.rank \in Int

LEMMA KeptIs ==
  ASSUME NEW o \in PoolInputs
  PROVE  LET kept == KeptLibrary(o.library, KeptEntries) IN
         /\ Len(kept) \in Nat /\ DOMAIN kept = 1 .. Len(kept)
         /\ \A k \in 1 .. Len(kept) : \E i \in DOMAIN o.library : kept[k] = o.library[i]
<1>. DEFINE library == o.library
            indices == DOMAIN library
            Before(i, j) == \/ LibraryOrder(library[i], library[j])
                            \/ ~LibraryOrder(library[j], library[i]) /\ i < j
            R == {p \in indices \X indices : Before(p[1], p[2])}
            order == InOrder(indices, R)
            m == Min({KeptEntries, Len(order)})
            kept == KeptLibrary(library, KeptEntries)
<1>1. kept = [k \in 1 .. m |-> library[order[k]]]
  BY Zenon DEF KeptLibrary
<1>2. /\ indices = 1 .. Len(library) /\ Len(library) \in Nat
      /\ \A i \in indices : /\ library[i].match \subseteq Lines
                            /\ library[i].specificity \in Int /\ library[i].priority \in Int
  <2>1. library \in Seq(ToSet(library))
    BY MultiCoverAssumption
  <2>2. indices = 1 .. Len(library) /\ Len(library) \in Nat
    BY <2>1, LenProperties
  <2>3. \A i \in indices : /\ library[i].match \subseteq Lines
                           /\ {library[i].specificity, library[i].priority} \subseteq Int
    BY MultiCoverAssumption
  <2>. HIDE DEF library, indices
  <2>. QED
    BY <2>2, <2>3
<1>3. \A i \in indices : SampleCount(library[i]) \in Int /\ i \in Int
  <2>. TAKE i \in indices
  <2>1. library[i].match \cap Sample \in SUBSET Lines
    BY <1>2
  <2>2. Cardinality(library[i].match \cap Sample) \in 0 .. N
    BY <2>1, LinesCounted
  <2>. QED
    BY <1>2, <2>2 DEF SampleCount
<1>. DEFINE W(i) == <<SampleCount(library[i]), library[i].specificity, library[i].priority, i>>
            Less(x, y) == \/ x[1] > y[1]
                          \/ x[1] = y[1] /\ x[2] > y[2]
                          \/ x[1] = y[1] /\ x[2] = y[2] /\ x[3] < y[3]
                          \/ x[1] = y[1] /\ x[2] = y[2] /\ x[3] = y[3] /\ x[4] < y[4]
            I == Int \X Int \X Int \X Int
<1>4. \A i \in indices : W(i) \in I /\ W(i)[4] = i
  <2>. HIDE DEF library, indices
  <2>. QED
    BY <1>2, <1>3
<1>5. \A i, j \in indices : Before(i, j) <=> Less(W(i), W(j))
  <2>. HIDE DEF library, indices
  <2>. QED
    BY <1>2, <1>3 DEF LibraryOrder
<1>6. \A x, y, z \in I : /\ ~Less(x, x)
                         /\ x[4] # y[4] => Less(x, y) \/ Less(y, x)
                         /\ Less(x, y) /\ Less(y, z) => Less(x, z)
  OBVIOUS
<1>7. \A i, j \in indices : <<i, j>> \in R <=> Before(i, j)
  BY Zenon
<1>. HIDE DEF library, indices, R, Before, W, Less, I, kept
<1>8. IsOrder(indices, R)
  BY <1>4, <1>5, <1>6, <1>7 DEF IsOrder
<1>9. IsFiniteSet(indices)
  BY <1>2, PlacesFinite
<1>10. order \in [1 .. Cardinality(indices) -> indices] /\ Cardinality(indices) \in Nat
  BY <1>8, <1>9, InOrderRanks
<1>. HIDE DEF order
<1>11. Len(order) = Cardinality(indices)
  BY <1>10, LenProperties
<1>12. m \in Nat /\ m <= Len(order)
  <2>1. KeptEntries \in Int /\ KeptEntries >= 0 /\ Len(order) \in Int /\ Len(order) >= 0
    <3>1. KeptEntries \in Nat
      BY Zenon, MultiCoverAssumption
    <3>. QED
      BY <1>10, <1>11, <3>1
  <2>2. m = IF KeptEntries <= Len(order) THEN KeptEntries ELSE Len(order)
    BY <2>1, Smaller
  <2>. QED
    BY ONLY <2>1, <2>2
<1>. HIDE DEF m
<1>13. \A k \in 1 .. m : order[k] \in indices
  BY <1>10, <1>11, <1>12
<1>14. /\ Len(kept) \in Nat /\ DOMAIN kept = 1 .. Len(kept)
       /\ \A k \in 1 .. Len(kept) : \E i \in indices : kept[k] = library[i]
  BY <1>1, <1>12, <1>13
<1>. QED
  BY <1>14 DEF kept, library, indices

\* The candidates of one source.
LEMMA SourceIs ==
  ASSUME NEW s, NEW n \in Nat, DOMAIN s = 1 .. n, \A i \in 1 .. n : HasFigures(s[i]),
         NEW r \in Int, NEW a, a = [i \in DOMAIN s |-> Pooled(s[i], r)]
  PROVE  a \in Seq(ToSet(a)) /\ \A c \in ToSet(a) : IsPooled(c)
<1>1. \A i \in 1 .. n : IsPooled(a[i])
  BY DEF Pooled, IsPooled, HasFigures
<1>2. DOMAIN a = 1 .. n /\ ToSet(a) = {a[i] : i \in 1 .. n} /\ a = [i \in 1 .. n |-> a[i]]
  BY DEF ToSet
<1>. QED
  BY <1>1, <1>2

LEMMA OfferedIs ==
  ASSUME NEW o \in PoolInputs, TilerInv, tpc # "pick"
  PROVE  \E S : Offered(o) \in Seq(S) /\ \A c \in S : IsPooled(c)
<1>. DEFINE kept == KeptLibrary(o.library, KeptEntries)
            specific == {i \in DOMAIN kept : kept[i].specificity > CatchallMax}
            typed == {i \in DOMAIN o.structured : o.structured[i].typed > 0}
            reusable == {i \in DOMAIN shapes : /\ Cardinality(shapes[i].match) >= MinBranchLines
                                              /\ Promoted(shapes[i].pieces) >= 1}
            tilings == Picked(shapes, reusable)
            s1 == Picked(kept, specific)
            s2 == Picked(o.structured, typed)
            s3 == o.envelope
            s4 == [i \in DOMAIN tilings |-> ShapeCandidate(tilings[i])]
            a1 == [i \in DOMAIN s1 |-> Pooled(s1[i], FamilyRank("library"))]
            a2 == [i \in DOMAIN s2 |-> Pooled(s2[i], FamilyRank("structured"))]
            a3 == [i \in DOMAIN s3 |-> Pooled(s3[i], FamilyRank("inferred"))]
            a4 == [i \in DOMAIN s4 |-> Pooled(s4[i], FamilyRank("inferred"))]
<1>1. Offered(o) = a1 \o a2 \o a3 \o a4
  BY Zenon DEF Offered
<1>2. /\ FamilyRank("library") \in Int /\ FamilyRank("structured") \in Int
      /\ FamilyRank("inferred") \in Int
  BY DEF FamilyRank
<1>3. \A s \in {o.library, o.structured, o.envelope} :
        /\ Len(s) \in Nat /\ DOMAIN s = 1 .. Len(s) /\ \A i \in 1 .. Len(s) : HasFigures(s[i])
  <2>. TAKE s \in {o.library, o.structured, o.envelope}
  <2>1. s \in Seq(ToSet(s))
    BY MultiCoverAssumption
  <2>2. Len(s) \in Nat /\ DOMAIN s = 1 .. Len(s)
    BY <2>1, LenProperties
  <2>3. \A i \in DOMAIN s : /\ s[i].match \subseteq Lines /\ s[i].typed \in Nat
                            /\ {s[i].specificity, s[i].priority} \subseteq Int
    BY Zenon, MultiCoverAssumption
  <2>4. \A i \in 1 .. Len(s) : HasFigures(s[i])
    BY <2>2, <2>3 DEF HasFigures
  <2>. QED
    BY <2>2, <2>4
<1>4. \E n \in Nat : DOMAIN s1 = 1 .. n /\ \A i \in 1 .. n : HasFigures(s1[i])
  <2>1. /\ Len(kept) \in Nat /\ DOMAIN kept = 1 .. Len(kept)
        /\ \A k \in 1 .. Len(kept) : \E i \in DOMAIN o.library : kept[k] = o.library[i]
    BY KeptIs
  <2>2. \A k \in 1 .. Len(kept) : HasFigures(kept[k])
    BY <1>3, <2>1
  <2>3. specific \in SUBSET (1 .. Len(kept))
    BY <2>1
  <2>. HIDE DEF specific, kept
  <2>4. /\ Cardinality(specific) \in Nat /\ DOMAIN s1 = 1 .. Cardinality(specific)
        /\ \A j \in 1 .. Cardinality(specific) : \E k \in specific : s1[j] = kept[k]
    BY <2>1, <2>3, PickedAll
  <2>. HIDE DEF s1
  <2>. QED
    BY <2>2, <2>3, <2>4
<1>5. \E n \in Nat : DOMAIN s2 = 1 .. n /\ \A i \in 1 .. n : HasFigures(s2[i])
  <2>. DEFINE s == o.structured
  <2>1. Len(s) \in Nat /\ DOMAIN s = 1 .. Len(s) /\ \A i \in 1 .. Len(s) : HasFigures(s[i])
    BY <1>3
  <2>2. typed \in SUBSET (1 .. Len(s))
    BY <2>1
  <2>. HIDE DEF typed, s
  <2>3. /\ Cardinality(typed) \in Nat /\ DOMAIN Picked(s, typed) = 1 .. Cardinality(typed)
        /\ \A j \in 1 .. Cardinality(typed) : \E k \in typed : Picked(s, typed)[j] = s[k]
    BY <2>1, <2>2, PickedAll
  <2>4. s2 = Picked(s, typed)
    BY DEF s
  <2>. HIDE DEF s2
  <2>. QED
    BY <2>1, <2>2, <2>3, <2>4
<1>6. \E n \in Nat : DOMAIN s3 = 1 .. n /\ \A i \in 1 .. n : HasFigures(s3[i])
  BY <1>3
<1>7. \E n \in Nat : DOMAIN s4 = 1 .. n /\ \A i \in 1 .. n : HasFigures(s4[i])
  <2>1. /\ Len(shapes) \in Nat /\ DOMAIN shapes = 1 .. Len(shapes)
        /\ \A k \in 1 .. Len(shapes) : shapes[k] \in ShapeSet
    BY ShapesTyped, LenProperties, ElementOfSeq
  <2>2. reusable \in SUBSET (1 .. Len(shapes))
    BY <2>1
  <2>. HIDE DEF reusable
  <2>3. /\ Cardinality(reusable) \in Nat /\ DOMAIN tilings = 1 .. Cardinality(reusable)
        /\ \A j \in 1 .. Cardinality(reusable) : \E k \in reusable : tilings[j] = shapes[k]
    BY <2>1, <2>2, PickedAll
  <2>. HIDE DEF tilings
  <2>4. \A j \in 1 .. Cardinality(reusable) : tilings[j] \in ShapeSet
    BY <2>1, <2>2, <2>3
  <2>5. \A c \in ShapeSet : HasFigures(ShapeCandidate(c))
    <3>. TAKE c \in ShapeSet
    <3>1. c.pieces \in Seq(PieceSet) /\ c.match \in SUBSET Lines
      BY DEF ShapeSet
    <3>2. Typed(c.pieces) \in Int
      BY <3>1, PieceCounts
    <3>. QED
      BY <3>1, <3>2 DEF ShapeCandidate, HasFigures
  <2>. QED
    BY <2>3, <2>4, <2>5
<1>. HIDE DEF s1, s2, s3, s4
<1>8. a1 \in Seq(ToSet(a1)) /\ \A c \in ToSet(a1) : IsPooled(c)
  BY <1>2, <1>4, SourceIs
<1>9. a2 \in Seq(ToSet(a2)) /\ \A c \in ToSet(a2) : IsPooled(c)
  BY <1>2, <1>5, SourceIs
<1>10. a3 \in Seq(ToSet(a3)) /\ \A c \in ToSet(a3) : IsPooled(c)
  BY <1>2, <1>6, SourceIs
<1>11. a4 \in Seq(ToSet(a4)) /\ \A c \in ToSet(a4) : IsPooled(c)
  BY <1>2, <1>7, SourceIs
<1>. DEFINE S == ToSet(a1) \cup ToSet(a2) \cup ToSet(a3) \cup ToSet(a4)
<1>. HIDE DEF a1, a2, a3, a4
<1>12. a1 \in Seq(S) /\ a2 \in Seq(S) /\ a3 \in Seq(S) /\ a4 \in Seq(S)
  BY <1>8, <1>9, <1>10, <1>11, SeqMonotonic
<1>13. \A c \in S : IsPooled(c)
  BY <1>8, <1>9, <1>10, <1>11
<1>. HIDE DEF S
<1>14. a1 \o a2 \in Seq(S)
  BY <1>12, ConcatProperties
<1>15. a1 \o a2 \o a3 \in Seq(S)
  BY <1>12, <1>14, ConcatProperties
<1>16. a1 \o a2 \o a3 \o a4 \in Seq(S)
  BY <1>12, <1>15, ConcatProperties
<1>. QED
  BY <1>1, <1>13, <1>16

\* A candidate in the pool matches a line.
PoolOK(p) ==
  /\ Len(p) \in Nat /\ DOMAIN p = 1 .. Len(p)
  /\ \A i \in 1 .. Len(p) : IsPooled(p[i]) /\ p[i].match # {}

LEMMA PoolIs ==
  ASSUME NEW o \in PoolInputs, TilerInv, tpc # "pick"
  PROVE  PoolOK(BuildMultiCandidates(o))
<1>. DEFINE offered == Offered(o)
            n == Len(offered)
            body(a, k) == Add(a, offered[k])
            IsLoop(f) == f = [k \in 0 .. n |-> IF k = 0 THEN <<>> ELSE body(f[k - 1], k)]
            cur == CHOOSE f : IsLoop(f)
<1>1. PICK S : offered \in Seq(S) /\ \A c \in S : IsPooled(c)
  BY OfferedIs
<1>. DEFINE T == {c \in S : c.match # {}}
            A == Seq(T)
            step == [p \in A \X (1 .. n) |-> body(p[1], p[2])]
<1>2. n \in Nat /\ \A k \in 1 .. n : offered[k] \in S
  BY <1>1, LenProperties, ElementOfSeq
<1>3. <<>> \in A
  BY EmptySeq
<1>. HIDE DEF offered
<1>4. \A a \in A, k \in 1 .. n : body(a, k) \in A
  <2>. TAKE a \in A, k \in 1 .. n
  <2>1. CASE offered[k].match = {} \/ \E i \in DOMAIN a : a[i].grok = offered[k].grok
    BY <2>1 DEF Add
  <2>2. CASE ~ (offered[k].match = {} \/ \E i \in DOMAIN a : a[i].grok = offered[k].grok)
    <3>1. body(a, k) = Append(a, offered[k]) /\ offered[k] \in T
      BY <1>2, <2>2 DEF Add
    <3>. HIDE DEF T
    <3>. QED
      BY <3>1, AppendProperties
  <2>. QED
    BY <2>1, <2>2
<1>5. step \in [A \X (1 .. n) -> A]
  <2>. HIDE DEF A, body
  <2>. QED
    BY <1>4
<1>. HIDE DEF A, body
<1>6. PICK f \in [0 .. n -> A] :
        f[0] = <<>> /\ \A k \in 1 .. n : f[k] = step[<<f[k - 1], k>>]
  <2>. HIDE DEF step, n
  <2>1. HasLoop(A, <<>>, n, step)
    BY <1>2, <1>3, <1>5, LoopExists
  <2>. QED
    BY <2>1 DEF HasLoop
<1>. HIDE DEF n
<1>7. \A k \in 1 .. n : f[k] = body(f[k - 1], k)
  <2>. TAKE k \in 1 .. n
  <2>1. k - 1 \in 0 .. n
    BY <1>2
  <2>2. <<f[k - 1], k>> \in A \X (1 .. n)
    BY <1>6, <2>1
  <2>. QED
    BY <1>6, <2>2
<1>8. IsLoop(f)
  <2>1. f = [k \in 0 .. n |-> f[k]]
    BY <1>6
  <2>2. \A k \in 0 .. n : f[k] = IF k = 0 THEN <<>> ELSE body(f[k - 1], k)
    <3>. TAKE k \in 0 .. n
    <3>1. k = 0 \/ (k # 0 /\ k \in 1 .. n)
      BY <1>2
    <3>. QED
      BY <1>6, <1>7, <3>1
  <2>. DEFINE g == [k \in 0 .. n |-> IF k = 0 THEN <<>> ELSE body(f[k - 1], k)]
  <2>3. g = [k \in 0 .. n |-> g[k]] /\ \A k \in 0 .. n : g[k] = f[k]
    BY <2>2
  <2>4. IsLoop(f) <=> f = g
    OBVIOUS
  <2>. HIDE DEF g, IsLoop
  <2>. QED
    BY ONLY <2>1, <2>3, <2>4
<1>9. IsLoop(cur)
  BY <1>8
<1>10. BuildMultiCandidates(o) = cur[n]
  BY DEF BuildMultiCandidates, body, n, offered
<1>. HIDE DEF cur
<1>11. cur[0] = <<>> /\ \A k \in 1 .. n : cur[k] = body(cur[k - 1], k)
  <2>1. \A k \in 0 .. n : cur[k] = IF k = 0 THEN <<>> ELSE body(cur[k - 1], k)
    BY <1>9
  <2>2. 0 \in 0 .. n /\ \A k \in 1 .. n : k \in 0 .. n /\ k # 0
    BY <1>2
  <2>. QED
    BY <2>1, <2>2
<1>. DEFINE P == {k \in 0 .. n : cur[k] \in A}
<1>12. 0 \in P
  BY <1>2, <1>3, <1>11
<1>13. ASSUME NEW k \in 1 .. n, k - 1 \in P PROVE k \in P
  <2>1. cur[k] \in A
    BY <1>4, <1>11, <1>13
  <2>. QED
    BY <1>2, <2>1
<1>14. P \subseteq 0 .. n
  OBVIOUS
<1>. HIDE DEF P
<1>15. n \in P
  BY <1>2, <1>12, <1>13, <1>14, AlongLoop
<1>16. cur[n] \in Seq(T)
  BY <1>15 DEF P, A
<1>. DEFINE p == cur[n]
<1>17. /\ Len(p) \in Nat /\ DOMAIN p = 1 .. Len(p) /\ \A i \in 1 .. Len(p) : p[i] \in T
  <2>. HIDE DEF T, p
  <2>. QED
    BY <1>16, LenProperties, ElementOfSeq DEF p
<1>18. \A c \in T : IsPooled(c) /\ c.match # {}
  BY <1>1
<1>. HIDE DEF T, p
<1>19. PoolOK(p)
  BY <1>17, <1>18 DEF PoolOK
<1>. QED
  BY <1>10, <1>19 DEF p

-----------------------------------------------------------------------------
(***************************************************************************)
(* The figures of a set of patterns                                        *)
(***************************************************************************)
Summed(t, m) == 2 * t * m + N

\* The rounded quotient when nothing is odd about the sum.
LEMMA RescaledUnfold ==
  ASSUME NEW t \in Nat, NEW m \in 0 .. N, NEW below \in BOOLEAN
  PROVE  /\ Summed(t, m) \in Nat /\ Summed(t, m) \div (2 * N) \in Nat
         /\ Rescaled(t, m, N, below) \in {Summed(t, m) \div (2 * N), Summed(t, m) \div (2 * N) - 1}
         /\ Rescaled(t, m, N, below) = Summed(t, m) \div (2 * N) - 1 =>
              Summed(t, m) = 2 * N * (Summed(t, m) \div (2 * N)) /\ m % N # 0
<1>. DEFINE s == Summed(t, m)
            q == s \div (2 * N)
            tie == s % (2 * N) = 0 /\ m % N # 0
<1>1. N \in Nat \ {0} /\ 2 * N \in Nat \ {0} /\ m \in Nat
  BY LinesAssumption
<1>2. s \in Nat
  <2>1. t * m \in Nat
    BY <1>1
  <2>2. 2 * t * m = 2 * (t * m)
    BY <1>1
  <2>. QED
    BY <1>1, <2>1, <2>2 DEF Summed
<1>3. q \in Nat /\ s % (2 * N) \in Nat /\ s = 2 * N * q + (s % (2 * N))
  <2>. HIDE DEF s
  <2>. QED
    BY <1>1, <1>2, Divided
<1>4. Rescaled(t, m, N, below) = q - (IF tie /\ below THEN 1 ELSE 0)
  BY Zenon DEF Rescaled, Summed
<1>. HIDE DEF q, s
<1>5. tie => s = 2 * N * q
  BY <1>1, <1>3
<1>6. (IF tie /\ below THEN 1 ELSE 0) \in {0, 1} /\ ((IF tie /\ below THEN 1 ELSE 0) = 1 => tie)
  BY ONLY TRUE
<1>. DEFINE e == IF tie /\ below THEN 1 ELSE 0
<1>7. e \in {0, 1} /\ (e = 1 => tie)
  BY <1>6
<1>. HIDE DEF e
<1>8. q - e \in {q, q - 1} /\ (q - e = q - 1 => e = 1)
  BY <1>3, <1>7
<1>. HIDE DEF tie
<1>9. Rescaled(t, m, N, below) = q - e
  BY <1>4 DEF e, tie
<1>10. tie => m % N # 0
  BY DEF tie
<1>. QED
  BY <1>2, <1>3, <1>5, <1>7, <1>8, <1>9, <1>10 DEF q, s

\* More lines than are scored: no line stands for none, none and all stay none
\* and all, and more matches are never fewer lines.
LEMMA RescaledIs ==
  ASSUME NEW t \in Nat, N < t, NEW m \in 0 .. N, NEW l \in 0 .. N, m <= l, NEW below \in BOOLEAN
  PROVE  /\ Rescaled(t, m, N, below) \in 0 .. t
         /\ Rescaled(t, m, N, below) <= Rescaled(t, l, N, below)
         /\ m = N => Rescaled(t, m, N, below) = t
         /\ Rescaled(t, m, N, below) = 0 => m = 0
<1>. DEFINE Q(i) == Summed(t, i) \div (2 * N)
            R(i) == Rescaled(t, i, N, below)
<1>1. N \in Nat \ {0} /\ 2 * N \in Nat \ {0} /\ m \in Nat /\ l \in Nat
  BY LinesAssumption
<1>2. \A i \in 0 .. N : /\ Summed(t, i) \in Nat /\ Q(i) \in Nat
                        /\ R(i) \in {Q(i), Q(i) - 1}
                        /\ R(i) = Q(i) - 1 => Summed(t, i) = 2 * N * Q(i) /\ i % N # 0
  BY RescaledUnfold
<1>3. \A i \in 0 .. N : Summed(t, i) = 2 * (t * i) + N /\ t * i \in Nat
  BY <1>1 DEF Summed
<1>. HIDE DEF R
<1>4. \A i \in 0 .. N : \A q \in Int : /\ 2 * N * q <= Summed(t, i) => q <= Q(i)
                                       /\ Summed(t, i) < 2 * N * q => Q(i) < q
  BY <1>1, <1>2, QuotientAtLeast, QuotientBelow
<1>5. \A i \in 0 .. N : Summed(t, i) = 2 * N * Q(i) + (Summed(t, i) % (2 * N))
                        /\ Summed(t, i) % (2 * N) \in Nat /\ Summed(t, i) % (2 * N) < 2 * N
  BY <1>1, <1>2, Divided
<1>. HIDE DEF Q
<1>6. R(0) = 0
  <2>1. 0 \in 0 .. N /\ Summed(t, 0) = N
    BY <1>1, <1>3
  <2>2. Q(0) < 1
    BY <1>1, <1>4, <2>1
  <2>3. 0 % N = 0
    BY <1>1, NoRest
  <2>. QED
    BY <1>2, <2>1, <2>2, <2>3
<1>7. R(N) = t
  <2>1. N \in 0 .. N /\ Summed(t, N) = 2 * (t * N) + N
    BY <1>1, <1>3
  <2>2. 2 * N * t = 2 * (t * N) /\ 2 * N * (t + 1) = 2 * (t * N) + 2 * N
    BY <1>1
  <2>3. t <= Q(N)
    BY <1>1, <1>4, <2>1, <2>2
  <2>4. Q(N) < t + 1
    BY <1>1, <1>4, <2>1, <2>2
  <2>5. N % N = 0
    <3>1. N = N * 1
      BY <1>1
    <3>. QED
      BY <1>1, <3>1, NoRest
  <2>6. Q(N) = t
    BY <1>2, <2>1, <2>3, <2>4
  <2>. QED
    BY <1>2, <2>1, <2>5, <2>6
<1>8. ASSUME NEW i \in 0 .. N, i # 0 PROVE R(i) >= 1
  <2>1. t * i >= t
    <3>1. t * 1 <= t * i
      BY <1>1, <1>8, TimesMonotone
    <3>. QED
      BY <3>1
  <2>2. Summed(t, i) > 2 * N * 1
    BY <1>1, <1>3, <2>1
  <2>3. Q(i) >= 1
    BY <1>1, <1>2, <1>4, <2>2
  <2>4. Q(i) = 1 => Summed(t, i) # 2 * N * Q(i)
    BY <1>1, <1>2, <2>2
  <2>. QED
    BY <1>2, <2>3, <2>4
<1>9. ASSUME NEW i \in 0 .. N, NEW j \in 0 .. N, i < j PROVE R(i) <= R(j)
  <2>1. t * (i + 1) <= t * j /\ t * (i + 1) = t * i + t
    BY <1>1, <1>9, TimesMonotone
  <2>2. Summed(t, i) + 2 * N <= Summed(t, j)
    BY <1>1, <1>3, <2>1
  <2>3. 2 * N * (Q(i) + 1) = 2 * N * Q(i) + 2 * N
    BY <1>1, <1>2
  <2>4. 2 * N * (Q(i) + 1) <= Summed(t, j)
    <3>. DEFINE p == 2 * N * Q(i)  r == Summed(t, i) % (2 * N)
                p2 == 2 * N * (Q(i) + 1)
    <3>1. p \in Int /\ p2 = p + 2 * N /\ Summed(t, i) = p + r /\ r \in Nat
      BY <1>1, <1>2, <1>5, <2>3
    <3>2. Summed(t, i) \in Nat /\ Summed(t, j) \in Nat
      BY <1>2
    <3>. HIDE DEF p, r, p2
    <3>3. p2 <= Summed(t, j)
      BY <1>1, <2>2, <3>1, <3>2
    <3>. QED
      BY <3>3 DEF p2
  <2>5. Q(i) + 1 <= Q(j)
    BY <1>2, <1>4, <2>4
  <2>. QED
    BY <1>2, <2>5
<1>10. R(m) \in Int /\ R(l) \in Int
  BY <1>2
<1>11. R(m) <= t
  <2>1. CASE m = N
    BY <1>7, <2>1
  <2>2. CASE m # N
    BY <1>1, <1>7, <1>9, <2>2
  <2>. QED
    BY <2>1, <2>2
<1>12. R(m) >= 0 /\ (R(m) = 0 => m = 0)
  <2>1. CASE m = 0
    BY <1>6, <2>1
  <2>2. CASE m # 0
    BY <1>8, <1>10, <2>2
  <2>. QED
    BY <2>1, <2>2
<1>13. R(m) <= R(l)
  <2>1. CASE m = l
    BY <1>10, <2>1
  <2>2. CASE m # l
    BY <1>1, <1>9, <2>2
  <2>. QED
    BY <2>1, <2>2
<1>14. R(m) \in 0 .. t /\ (m = N => R(m) = t)
  BY <1>7, <1>10, <1>11, <1>12
<1>. QED
  BY <1>12, <1>13, <1>14 DEF R

\* The same of the figures, estimated or not.
LEMMA FiguresAre ==
  ASSUME total \in Nat, total >= N, NEW m \in 0 .. N, NEW l \in 0 .. N, m <= l, NEW below \in BOOLEAN
  PROVE  LET Figure(i) == Finalize(total, i, N, Estimated, below).matched IN
         /\ Figure(m) \in 0 .. total
         /\ Figure(m) <= Figure(l)
         /\ m = N => Figure(m) = total
         /\ Figure(m) = 0 => m = 0
<1>1. N \in Nat
  BY LinesAssumption
<1>2. CASE Estimated
  <2>1. \A i \in 0 .. N : Finalize(total, i, N, Estimated, below).matched = Rescaled(total, i, N, below)
    BY <1>2 DEF Finalize
  <2>2. N < total
    BY <1>1, <1>2 DEF Estimated
  <2>3. /\ Rescaled(total, m, N, below) \in 0 .. total
        /\ Rescaled(total, m, N, below) <= Rescaled(total, l, N, below)
        /\ m = N => Rescaled(total, m, N, below) = total
        /\ Rescaled(total, m, N, below) = 0 => m = 0
    BY <2>2, RescaledIs
  <2>. QED
    BY <2>1, <2>3
<1>3. CASE ~ Estimated
  <2>1. \A i \in 0 .. N : Finalize(total, i, N, Estimated, below).matched = i
    BY <1>3 DEF Finalize
  <2>2. total = N
    BY <1>1, <1>3 DEF Estimated
  <2>. QED
    BY <2>1, <2>2
<1>. QED
  BY <1>2, <1>3

-----------------------------------------------------------------------------
(***************************************************************************)
(* greedyCover: when it stops, what a round takes, what the first two give *)
(***************************************************************************)
LEMMA TargetIs ==
  ASSUME request \in Int, NEW c \in Nat
  PROVE  /\ TargetPercent \in 1 .. 100
         /\ c >= TargetCount <=> 100 * c >= TargetPercent * N
<1>1. TargetPercent \in 1 .. 100
  <2>1. Min({request, 100}) = IF request <= 100 THEN request ELSE 100
    BY Smaller
  <2>. QED
    BY <2>1 DEF TargetPercent
<1>. DEFINE x == TargetPercent * N
            q == TargetCount
<1>2. x \in Nat /\ N * TargetPercent * 10 + 999 = 10 * x + 999
  BY <1>1, LinesAssumption
<1>3. q = (10 * x + 999) \div 1000
  BY <1>2 DEF TargetCount
<1>. HIDE DEF x, q
<1>4. q \in Nat /\ 1000 * q <= 10 * x + 999 /\ 10 * x + 999 < 1000 * q + 1000
  BY <1>2, <1>3, Divided
<1>5. c >= q <=> 100 * c >= x
  BY <1>2, <1>4
<1>. QED
  BY <1>1, <1>5 DEF x, q

LEMMA MinGainIs == MinGain \in Nat \ {0}
<1>. DEFINE a == N * MinGainPercent * 10 + 999
<1>1. a \in Nat
  <2>1. N \in Nat /\ MinGainPercent \in Nat
    BY LinesAssumption, MultiCoverAssumption
  <2>2. N * MinGainPercent \in Nat
    BY <2>1
  <2>. QED
    BY <2>2
<1>2. MinGain = Max({1, a \div 1000})
  BY DEF MinGain
<1>. HIDE DEF a
<1>3. a \div 1000 \in Nat
  BY <1>1, Divided
<1>4. MinGain = IF 1 >= a \div 1000 THEN 1 ELSE a \div 1000
  BY <1>2, <1>3, Larger
<1>. QED
  BY <1>3, <1>4

GainOf(p, i, cov) == Cardinality(p[i].match \ cov)

LEMMA GainTyped ==
  ASSUME NEW p, PoolOK(p), NEW i \in DOMAIN p, NEW cov
  PROVE  /\ p[i].match \in SUBSET Lines /\ p[i].match # {}
         /\ IsFiniteSet(p[i].match \ cov)
         /\ GainOf(p, i, cov) \in 0 .. N
         /\ GainOf(p, i, cov) = 0 <=> p[i].match \subseteq cov
<1>1. p[i].match \in SUBSET Lines /\ p[i].match # {}
  BY DEF PoolOK, IsPooled, HasFigures
<1>2. p[i].match \ cov \in SUBSET Lines
  BY <1>1
<1>3. IsFiniteSet(p[i].match \ cov) /\ Cardinality(p[i].match \ cov) \in 0 .. N
  BY <1>2, LinesCounted
<1>4. Cardinality(p[i].match \ cov) = 0 <=> p[i].match \ cov = {}
  BY <1>3, FS_EmptySet
<1>. QED
  BY <1>1, <1>3, <1>4 DEF GainOf

\* A round finds the candidate it takes, if any explains a line more.
LEMMA BestIsThere ==
  ASSUME PoolOK(pool), selected \in Seq(DOMAIN pool),
         NEW w \in DOMAIN pool \ Used, Gain(w) > 0
  PROVE  \E i \in DOMAIN pool \ Used : IsBest(i)
<1>. DEFINE D == DOMAIN pool \ Used
            Before(i, j) == \/ Gain(i) > Gain(j)
                            \/ /\ Gain(i) = Gain(j)
                               /\ Prefer(pool[i], pool[j]) \/ (~Prefer(pool[j], pool[i]) /\ i < j)
            W(i) == <<Gain(i), pool[i].rank, pool[i].typed, pool[i].specificity, i>>
            Less(x, y) == \/ x[1] > y[1]
                          \/ x[1] = y[1] /\ x[2] < y[2]
                          \/ x[1] = y[1] /\ x[2] = y[2] /\ x[3] > y[3]
                          \/ x[1] = y[1] /\ x[2] = y[2] /\ x[3] = y[3] /\ x[4] > y[4]
                          \/ x[1] = y[1] /\ x[2] = y[2] /\ x[3] = y[3] /\ x[4] = y[4] /\ x[5] < y[5]
            I == Int \X Int \X Int \X Int \X Int
            R == {p \in D \X D : Before(p[1], p[2])}
<1>1. DOMAIN pool = 1 .. Len(pool) /\ Len(pool) \in Nat /\ D \in SUBSET (1 .. Len(pool))
  BY DEF PoolOK
<1>2. \A i \in D : /\ Gain(i) \in Int /\ i \in Int
                   /\ pool[i].rank \in Int /\ pool[i].typed \in Int /\ pool[i].specificity \in Int
  <2>. TAKE i \in D
  <2>1. Gain(i) \in Int
    <3>1. GainOf(pool, i, covered) \in 0 .. N
      BY GainTyped
    <3>. QED
      BY <3>1 DEF Gain, GainOf
  <2>. QED
    BY <1>1, <2>1 DEF PoolOK, IsPooled, HasFigures
<1>3. \A i \in D : W(i) \in I /\ W(i)[5] = i
  <2>. HIDE DEF D
  <2>. QED
    BY <1>2
<1>4. \A i, j \in D : Before(i, j) <=> Less(W(i), W(j))
  <2>. HIDE DEF D
  <2>. QED
    BY <1>2 DEF Prefer
<1>5. \A x, y, z \in I : /\ ~Less(x, x)
                         /\ x[5] # y[5] => Less(x, y) \/ Less(y, x)
                         /\ Less(x, y) /\ Less(y, z) => Less(x, z)
  <2>. TAKE x, y, z \in I
  <2>1. /\ x[1] \in Int /\ x[2] \in Int /\ x[3] \in Int /\ x[4] \in Int /\ x[5] \in Int
        /\ y[1] \in Int /\ y[2] \in Int /\ y[3] \in Int /\ y[4] \in Int /\ y[5] \in Int
        /\ z[1] \in Int /\ z[2] \in Int /\ z[3] \in Int /\ z[4] \in Int /\ z[5] \in Int
    OBVIOUS
  <2>. HIDE DEF I
  <2>2. ~Less(x, x)
    BY ONLY <2>1
  <2>3. x[5] # y[5] => Less(x, y) \/ Less(y, x)
    BY ONLY <2>1
  <2>4. Less(x, y) /\ Less(y, z) => Less(x, z)
    BY ONLY <2>1
  <2>. QED
    BY ONLY <2>2, <2>3, <2>4
<1>6. \A i, j \in D : <<i, j>> \in R <=> Before(i, j)
  BY Zenon
<1>. HIDE DEF D, R, Before, W, Less, I
<1>7. IsOrder(D, R)
  BY <1>3, <1>4, <1>5, <1>6 DEF IsOrder
<1>8. IsFiniteSet(D)
  BY <1>1, PlacesFinite
<1>9. w \in D
  BY DEF D
<1>10. \E x \in D : Rank(D, R, x) = 0
  <2>1. /\ Cardinality(D) \in Nat /\ InOrder(D, R) \in [1 .. Cardinality(D) -> D]
        /\ \A k \in 1 .. Cardinality(D) : Rank(D, R, InOrder(D, R)[k]) = k - 1
    BY <1>7, <1>8, InOrderRanks
  <2>2. Cardinality(D) # 0
    BY <1>8, <1>9, FS_EmptySet
  <2>3. 1 \in 1 .. Cardinality(D)
    BY <2>1, <2>2
  <2>4. Rank(D, R, InOrder(D, R)[1]) = 0 /\ InOrder(D, R)[1] \in D
    BY <2>1, <2>3
  <2>. QED
    BY <2>4
<1>11. PICK x \in D : Rank(D, R, x) = 0
  BY <1>10
<1>12. \A y \in D : <<y, x>> \notin R
  <2>. DEFINE B == {y \in D : <<y, x>> \in R}
  <2>1. B \in SUBSET D
    OBVIOUS
  <2>2. Cardinality(B) = 0
    BY <1>11 DEF Rank
  <2>3. B = {} <=> \A y \in D : <<y, x>> \notin R
    OBVIOUS
  <2>. HIDE DEF B
  <2>4. IsFiniteSet(B)
    BY <1>8, <2>1, FS_Subset
  <2>. QED
    BY <2>2, <2>3, <2>4, FS_EmptySet
<1>13. \A y \in D : x # y => Before(x, y)
  BY <1>6, <1>7, <1>12 DEF IsOrder
<1>14. Gain(x) > 0
  <2>1. CASE x = w
    BY <2>1
  <2>2. CASE x # w
    <3>1. Gain(x) > Gain(w) \/ Gain(x) = Gain(w)
      BY <1>9, <1>13, <2>2 DEF Before
    <3>. QED
      BY <1>2, <1>9, <3>1
  <2>. QED
    BY <2>1, <2>2
<1>15. \A y \in DOMAIN pool \ (Used \cup {x}) : Before(x, y)
  BY <1>13 DEF D
<1>16. IsBest(x)
  BY <1>14, <1>15 DEF IsBest, Before
<1>. QED
  BY <1>16 DEF D

\* What k patterns explain at least, if each explained most of what was left.
LEMMA FirstTwo ==
  ASSUME NEW M \in SUBSET Lines, NEW G \in SUBSET Lines,
         NEW A \in SUBSET Lines, NEW B \in SUBSET Lines,
         Cardinality(A) <= Cardinality(M), Cardinality(B) <= Cardinality(M),
         Cardinality(A \ M) <= Cardinality(G \ M), Cardinality(B \ M) <= Cardinality(G \ M)
  PROVE  4 * Cardinality(M \cup G) >= 3 * Cardinality(A \cup B)
<1>. DEFINE AM == A \ M  BM == B \ M  GM == G \ M
<1>1. \A S \in {M, A, B, AM, BM, GM, A \cup B, AM \cup BM, M \cup G, A \cap B, AM \cap BM,
                M \cap GM, M \cup (AM \cup BM), M \cap (AM \cup BM)} :
        IsFiniteSet(S) /\ Cardinality(S) \in Nat
  <2>1. \A S \in SUBSET Lines : IsFiniteSet(S) /\ Cardinality(S) \in Nat
    BY LinesCounted, LinesAssumption
  <2>. QED
    BY <2>1
<1>2. Cardinality(A \cup B) <= Cardinality(A) + Cardinality(B)
  <2>1. Cardinality(A \cup B) = Cardinality(A) + Cardinality(B) - Cardinality(A \cap B)
    BY <1>1, FS_Union
  <2>. QED
    BY <1>1, <2>1
<1>3. Cardinality(M \cup G) = Cardinality(M) + Cardinality(GM)
  <2>1. M \cup G = M \cup GM /\ M \cap GM = {}
    OBVIOUS
  <2>2. Cardinality(M \cup GM) = Cardinality(M) + Cardinality(GM) - Cardinality(M \cap GM)
    BY <1>1, FS_Union
  <2>. QED
    BY <1>1, <2>1, <2>2, FS_EmptySet
<1>4. Cardinality(A \cup B) <= Cardinality(M) + Cardinality(AM) + Cardinality(BM)
  <2>1. A \cup B \in SUBSET (M \cup (AM \cup BM))
    OBVIOUS
  <2>2. Cardinality(A \cup B) <= Cardinality(M \cup (AM \cup BM))
    BY <1>1, <2>1, FS_Subset
  <2>3. Cardinality(M \cup (AM \cup BM)) =
          Cardinality(M) + Cardinality(AM \cup BM) - Cardinality(M \cap (AM \cup BM))
    BY <1>1, FS_Union
  <2>4. Cardinality(AM \cup BM) = Cardinality(AM) + Cardinality(BM) - Cardinality(AM \cap BM)
    BY <1>1, FS_Union
  <2>. QED
    BY <1>1, <2>2, <2>3, <2>4
<1>. DEFINE m == Cardinality(M)  g == Cardinality(GM)  a == Cardinality(A)  b == Cardinality(B)
            c == Cardinality(A \cup B)  am == Cardinality(AM)  bm == Cardinality(BM)
            u == Cardinality(M \cup G)
<1>5. /\ m \in Nat /\ g \in Nat /\ a \in Nat /\ b \in Nat /\ c \in Nat /\ am \in Nat /\ bm \in Nat
      /\ a <= m /\ b <= m /\ am <= g /\ bm <= g
  BY <1>1
<1>6. c <= a + b /\ u = m + g /\ c <= m + am + bm
  BY <1>2, <1>3, <1>4
<1>. HIDE DEF m, g, a, b, c, am, bm, u
<1>7. 4 * u >= 3 * c
  BY ONLY <1>5, <1>6
<1>. QED
  BY <1>7 DEF c, u

-----------------------------------------------------------------------------
(***************************************************************************)
(* greedyCover: what every pattern of the selection was when it was taken  *)
(***************************************************************************)
\* The lines explained by the selected patterns at the places in K.
Explained(p, s, K) == UNION {p[s[j]].match : j \in K}

\* The k-th was needed, explained enough, and no other explained more.
TakenWell(p, s, k, goal) ==
  LET before == Explained(p, s, 1 .. k - 1) IN
  /\ 100 * Cardinality(before) < goal
  /\ GainOf(p, s[k], before) >= IF k = 1 THEN 1 ELSE MinGain
  /\ \A j \in DOMAIN p : GainOf(p, j, before) <= GainOf(p, s[k], before)

Selection(p, s, goal) ==
  /\ s \in Seq(DOMAIN p) /\ Len(s) <= MaxPatterns
  /\ \A i, j \in DOMAIN s : i # j => s[i] # s[j]
  /\ \A k \in 1 .. Len(s) : TakenWell(p, s, k, goal)

LEMMA SelectionTyped ==
  ASSUME NEW p, PoolOK(p), NEW s \in Seq(DOMAIN p)
  PROVE  /\ Len(s) \in Nat /\ DOMAIN s = 1 .. Len(s)
         /\ \A k \in DOMAIN s : s[k] \in DOMAIN p
         /\ \A K \in SUBSET DOMAIN s : Explained(p, s, K) \in SUBSET Lines
<1>1. /\ Len(s) \in Nat /\ DOMAIN s = 1 .. Len(s)
      /\ \A k \in DOMAIN s : s[k] \in DOMAIN p
  BY LenProperties, ElementOfSeq
<1>2. \A k \in DOMAIN s : p[s[k]].match \in SUBSET Lines
  BY <1>1, GainTyped
<1>3. \A K \in SUBSET DOMAIN s : Explained(p, s, K) \in SUBSET Lines
  BY <1>2 DEF Explained
<1>. QED
  BY <1>1, <1>3

\* A further pattern leaves what the earlier ones explain.
LEMMA ExplainedOn ==
  ASSUME NEW p, PoolOK(p), NEW s \in Seq(DOMAIN p), NEW i \in DOMAIN p
  PROVE  /\ Append(s, i) \in Seq(DOMAIN p) /\ Len(Append(s, i)) = Len(s) + 1
         /\ Append(s, i)[Len(s) + 1] = i
         /\ \A k \in 1 .. Len(s) : Append(s, i)[k] = s[k]
         /\ \A K \in SUBSET (1 .. Len(s)) : Explained(p, Append(s, i), K) = Explained(p, s, K)
         /\ Explained(p, Append(s, i), DOMAIN Append(s, i)) = Explained(p, s, DOMAIN s) \cup p[i].match
<1>. DEFINE t == Append(s, i)
<1>1. Len(s) \in Nat /\ DOMAIN s = 1 .. Len(s)
  BY LenProperties
<1>2. /\ t \in Seq(DOMAIN p) /\ Len(t) = Len(s) + 1 /\ t[Len(s) + 1] = i
      /\ \A k \in 1 .. Len(s) : t[k] = s[k]
  BY <1>1, AppendProperties
<1>. HIDE DEF t
<1>3. DOMAIN t = 1 .. Len(s) + 1
  BY <1>2, LenProperties
<1>4. \A K \in SUBSET (1 .. Len(s)) : Explained(p, t, K) = Explained(p, s, K)
  <2>. TAKE K \in SUBSET (1 .. Len(s))
  <2>1. \A j \in K : p[t[j]].match = p[s[j]].match
    BY <1>2
  <2>2. {p[t[j]].match : j \in K} = {p[s[j]].match : j \in K}
    BY <2>1
  <2>. QED
    BY <2>2 DEF Explained
<1>5. Explained(p, t, DOMAIN t) = Explained(p, s, DOMAIN s) \cup p[i].match
  <2>1. DOMAIN t = (1 .. Len(s)) \cup {Len(s) + 1}
    BY <1>1, <1>3
  <2>2. Explained(p, t, (1 .. Len(s)) \cup {Len(s) + 1}) =
          Explained(p, t, 1 .. Len(s)) \cup p[t[Len(s) + 1]].match
    <3>. DEFINE K == 1 .. Len(s)  l == Len(s) + 1
    <3>. HIDE DEF K, l
    <3>1. {p[t[j]].match : j \in K \cup {l}} = {p[t[j]].match : j \in K} \cup {p[t[l]].match}
      OBVIOUS
    <3>2. Explained(p, t, K \cup {l}) = Explained(p, t, K) \cup p[t[l]].match
      BY <3>1 DEF Explained
    <3>. QED
      BY <3>2 DEF K, l
  <2>3. Explained(p, t, 1 .. Len(s)) = Explained(p, s, 1 .. Len(s))
    BY <1>4
  <2>. QED
    BY <1>1, <1>2, <2>1, <2>2, <2>3
<1>. QED
  BY <1>2, <1>4, <1>5 DEF t

\* The candidate of a round gains at least what any other would.
LEMMA BestGains ==
  ASSUME PoolOK(pool), selected \in Seq(DOMAIN pool),
         covered = Explained(pool, selected, DOMAIN selected),
         NEW i \in DOMAIN pool \ Used, IsBest(i)
  PROVE  /\ GainOf(pool, i, covered) >= 1
         /\ \A j \in DOMAIN pool : GainOf(pool, j, covered) <= GainOf(pool, i, covered)
<1>1. \A j \in DOMAIN pool : GainOf(pool, j, covered) \in 0 .. N /\ Gain(j) = GainOf(pool, j, covered)
  BY GainTyped DEF Gain, GainOf
<1>2. N \in Nat
  BY LinesAssumption
<1>3. GainOf(pool, i, covered) >= 1
  BY <1>1, <1>2 DEF IsBest
<1>4. ASSUME NEW j \in DOMAIN pool
      PROVE  GainOf(pool, j, covered) <= GainOf(pool, i, covered)
  <2>1. CASE j = i
    BY <1>1, <1>2, <2>1
  <2>2. CASE j # i /\ j \notin Used
    <3>1. Gain(i) > Gain(j) \/ Gain(i) = Gain(j)
      BY <2>2 DEF IsBest
    <3>. QED
      BY <1>1, <1>2, <3>1
  <2>3. CASE j \in Used
    <3>1. \E k \in DOMAIN selected : selected[k] = j
      BY <2>3 DEF Used, ToSet
    <3>2. pool[j].match \subseteq covered
      BY <3>1 DEF Explained
    <3>3. GainOf(pool, j, covered) = 0
      BY <3>2, GainTyped
    <3>. QED
      BY <1>1, <1>2, <1>3, <3>3
  <2>. QED
    BY <2>1, <2>2, <2>3
<1>. QED
  BY <1>3, <1>4

LEMMA RoundTakesWell ==
  ASSUME PoolOK(pool), request \in Int, NEW goal, goal = TargetPercent * N,
         Selection(pool, selected, goal),
         covered = Explained(pool, selected, DOMAIN selected),
         NEW i \in DOMAIN pool \ Used, IsBest(i),
         ~ (Cardinality(covered) >= TargetCount), Len(selected) < MaxPatterns,
         selected = <<>> \/ Gain(i) >= MinGain
  PROVE  Selection(pool, Append(selected, i), goal)
<1>. DEFINE s == selected  t == Append(selected, i)  n == Len(selected)
<1>1. s \in Seq(DOMAIN pool) /\ n \in Nat /\ DOMAIN s = 1 .. n /\ n < MaxPatterns
  BY LenProperties DEF Selection
<1>2. /\ t \in Seq(DOMAIN pool) /\ Len(t) = n + 1 /\ t[n + 1] = i
      /\ \A k \in 1 .. n : t[k] = s[k]
      /\ \A K \in SUBSET (1 .. n) : Explained(pool, t, K) = Explained(pool, s, K)
  BY <1>1, ExplainedOn
<1>3. DOMAIN t = 1 .. n + 1
  BY <1>2, LenProperties
<1>4. \A k \in 1 .. n : s[k] # i
  BY <1>1 DEF Used, ToSet
<1>. HIDE DEF t
<1>5. \A a, b \in DOMAIN t : a # b => t[a] # t[b]
  <2>1. \A a, b \in 1 .. n : a # b => s[a] # s[b]
    BY <1>1 DEF Selection
  <2>2. \A a \in DOMAIN t : a \in 1 .. n \/ a = n + 1
    BY <1>1, <1>3
  <2>. HIDE DEF s, n
  <2>. QED
    BY <1>2, <1>4, <2>1, <2>2
<1>6. ASSUME NEW k \in 1 .. n PROVE TakenWell(pool, t, k, goal)
  <2>1. TakenWell(pool, s, k, goal)
    BY DEF Selection
  <2>2. 1 .. k - 1 \in SUBSET (1 .. n)
    BY <1>1
  <2>3. Explained(pool, t, 1 .. k - 1) = Explained(pool, s, 1 .. k - 1) /\ t[k] = s[k]
    BY <1>2, <2>2
  <2>. HIDE DEF s, n
  <2>. QED
    BY ONLY <2>1, <2>3 DEF TakenWell
<1>7. TakenWell(pool, t, n + 1, goal)
  <2>1. Explained(pool, t, 1 .. (n + 1) - 1) = covered
    <3>1. 1 .. (n + 1) - 1 = 1 .. n /\ 1 .. n \in SUBSET (1 .. n)
      BY <1>1
    <3>. QED
      BY <1>1, <1>2, <3>1
  <2>2. 100 * Cardinality(covered) < goal
    <3>1. covered \in SUBSET Lines
      BY <1>1, SelectionTyped
    <3>2. Cardinality(covered) \in Nat
      BY <3>1, LinesCounted, LinesAssumption
    <3>3. ~ (100 * Cardinality(covered) >= TargetPercent * N) /\ TargetPercent * N \in Int
      <4>1. /\ TargetPercent \in 1 .. 100
            /\ Cardinality(covered) >= TargetCount <=> 100 * Cardinality(covered) >= TargetPercent * N
        BY <3>2, TargetIs
      <4>2. \A x \in 1 .. 100, y \in Nat : x * y \in Int
        OBVIOUS
      <4>3. TargetPercent * N \in Int
        BY <4>1, <4>2, LinesAssumption
      <4>. QED
        BY <4>1, <4>3
    <3>4. goal = TargetPercent * N
      OBVIOUS
    <3>. DEFINE c == Cardinality(covered)  x == TargetPercent * N
    <3>5. c \in Nat /\ x \in Int /\ ~ (100 * c >= x) /\ goal = x
      BY <3>2, <3>3, <3>4
    <3>. HIDE DEF c, x
    <3>6. 100 * c < goal
      BY ONLY <3>5
    <3>. QED
      BY <3>6 DEF c
  <2>3. /\ GainOf(pool, i, covered) >= 1
        /\ \A j \in DOMAIN pool : GainOf(pool, j, covered) <= GainOf(pool, i, covered)
    BY <1>1, BestGains
  <2>4. GainOf(pool, i, covered) >= IF n + 1 = 1 THEN 1 ELSE MinGain
    <3>1. n + 1 # 1 => selected # <<>>
      BY <1>1
    <3>. QED
      BY <2>3, <3>1 DEF Gain, GainOf
  <2>. QED
    BY <1>2, <2>1, <2>2, <2>3, <2>4 DEF TakenWell
<1>8. \A k \in 1 .. n + 1 : k \in 1 .. n \/ k = n + 1
  BY <1>1
<1>9. Len(t) <= MaxPatterns
  BY <1>1, <1>2, MultiCoverAssumption
<1>10. \A k \in 1 .. Len(t) : TakenWell(pool, t, k, goal)
  <2>. HIDE DEF s, n
  <2>. QED
    BY <1>2, <1>6, <1>7, <1>8
<1>11. Selection(pool, t, goal)
  BY <1>2, <1>5, <1>9, <1>10 DEF Selection
<1>. QED
  BY <1>11 DEF t

-----------------------------------------------------------------------------
(***************************************************************************)
(* What such a selection is worth                                          *)
(***************************************************************************)
LEMMA NearBest ==
  ASSUME NEW p, PoolOK(p), NEW s, NEW goal, Selection(p, s, goal),
         NEW k \in 1 .. Min({2, Len(s)}), NEW S \in kSubset(k, DOMAIN p)
  PROVE  LET given == Cardinality(Explained(p, s, 1 .. k))
             could == Cardinality(UNION {p[i].match : i \in S})
         IN  IF k = 1 THEN given >= could ELSE 4 * given >= 3 * could
<1>. DEFINE given == Explained(p, s, 1 .. k)
            could == UNION {p[i].match : i \in S}
<1>1. s \in Seq(DOMAIN p) /\ \A j \in 1 .. Len(s) : TakenWell(p, s, j, goal)
  BY DEF Selection
<1>2. /\ Len(s) \in Nat /\ DOMAIN s = 1 .. Len(s)
      /\ \A j \in DOMAIN s : s[j] \in DOMAIN p
  BY <1>1, SelectionTyped
<1>3. k \in 1 .. 2 /\ k <= Len(s)
  <2>1. Min({2, Len(s)}) = IF 2 <= Len(s) THEN 2 ELSE Len(s)
    BY <1>2, Smaller
  <2>. QED
    BY <1>2, <2>1
<1>4. S \in SUBSET DOMAIN p /\ Cardinality(S) = k
  BY DEF kSubset
<1>5. \A i \in DOMAIN p : p[i].match \in SUBSET Lines
  BY GainTyped
<1>. DEFINE M == p[s[1]].match
<1>6. 1 \in 1 .. Len(s) /\ M \in SUBSET Lines /\ Explained(p, s, 1 .. 1 - 1) = {}
  <2>1. 1 .. 1 - 1 = {} /\ 1 \in 1 .. Len(s)
    BY <1>2, <1>3
  <2>2. Explained(p, s, {}) = {}
    BY DEF Explained
  <2>. QED
    BY <1>2, <1>5, <2>1, <2>2
<1>7. \A j \in DOMAIN p : Cardinality(p[j].match) <= Cardinality(M)
  <2>1. \A j \in DOMAIN p : GainOf(p, j, {}) <= GainOf(p, s[1], {})
    BY <1>1, <1>6 DEF TakenWell
  <2>2. \A j \in DOMAIN p : GainOf(p, j, {}) = Cardinality(p[j].match)
    <3>1. \A m : m \ {} = m
      OBVIOUS
    <3>. QED
      BY <3>1 DEF GainOf
  <2>. QED
    BY <1>2, <1>6, <2>1, <2>2
<1>8. Explained(p, s, 1 .. 1) = M
  <2>1. 1 .. 1 = {1}
    OBVIOUS
  <2>2. Explained(p, s, {1}) = M
    BY DEF Explained
  <2>. QED
    BY <2>1, <2>2
<1>9. IsFiniteSet(S)
  <2>1. DOMAIN p = 1 .. Len(p) /\ Len(p) \in Nat
    BY DEF PoolOK
  <2>. QED
    BY <1>4, <2>1, PlacesFinite
<1>10. CASE k = 1
  <2>1. PICK a : S = {a}
    BY <1>4, <1>9, <1>10, FS_Singleton
  <2>2. could = p[a].match /\ a \in DOMAIN p
    BY <1>4, <2>1
  <2>3. Cardinality(could) \in Nat /\ Cardinality(M) \in Nat
    BY <1>5, <1>6, <2>2, LinesCounted, LinesAssumption
  <2>4. given = M
    BY <1>8, <1>10
  <2>. HIDE DEF given, could, M
  <2>5. Cardinality(given) >= Cardinality(could)
    BY <1>7, <2>2, <2>3, <2>4
  <2>. QED
    BY <1>10, <2>5 DEF given, could
<1>11. CASE k = 2
  <2>1. PICK a \in S : TRUE
    BY <1>4, <1>9, <1>11, FS_EmptySet
  <2>2. IsFiniteSet(S \ {a}) /\ Cardinality(S \ {a}) = 1
    BY <1>4, <1>9, <1>11, <2>1, FS_RemoveElement
  <2>3. PICK b : S \ {a} = {b}
    BY <2>2, FS_Singleton
  <2>4. S = {a, b}
    BY <2>1, <2>3
  <2>. DEFINE A == p[a].match  B == p[b].match  G == p[s[2]].match
  <2>5. could = A \cup B /\ a \in DOMAIN p /\ b \in DOMAIN p
    BY <1>4, <2>4
  <2>6. 2 \in 1 .. Len(s) /\ s[2] \in DOMAIN p
    BY <1>2, <1>3, <1>11
  <2>7. given = M \cup G
    <3>1. 1 .. 2 = {1, 2}
      OBVIOUS
    <3>2. Explained(p, s, {1, 2}) = M \cup G
      BY DEF Explained
    <3>. QED
      BY <1>11, <3>1, <3>2
  <2>8. \A j \in DOMAIN p : Cardinality(p[j].match \ M) <= Cardinality(G \ M)
    <3>1. 1 .. 2 - 1 = 1 .. 1
      OBVIOUS
    <3>2. \A j \in DOMAIN p : GainOf(p, j, M) <= GainOf(p, s[2], M)
      BY <1>1, <1>8, <2>6, <3>1 DEF TakenWell
    <3>. QED
      BY <3>2 DEF GainOf
  <2>9. /\ A \in SUBSET Lines /\ B \in SUBSET Lines /\ G \in SUBSET Lines
        /\ Cardinality(A) <= Cardinality(M) /\ Cardinality(B) <= Cardinality(M)
        /\ Cardinality(A \ M) <= Cardinality(G \ M) /\ Cardinality(B \ M) <= Cardinality(G \ M)
    BY <1>5, <1>7, <2>5, <2>6, <2>8
  <2>. HIDE DEF A, B, G, M
  <2>10. 4 * Cardinality(M \cup G) >= 3 * Cardinality(A \cup B)
    BY <1>6, <2>9, FirstTwo
  <2>. HIDE DEF given, could
  <2>11. 4 * Cardinality(given) >= 3 * Cardinality(could)
    BY <2>5, <2>7, <2>10
  <2>. QED
    BY <1>11, <2>11 DEF given, could
<1>. QED
  BY <1>3, <1>10, <1>11

-----------------------------------------------------------------------------
(***************************************************************************)
(* The invariant of the set of patterns                                    *)
(***************************************************************************)
CoverInv ==
  /\ mpc \in {"raw", "build", "cover", "finish", "done", "listed", "fallback"}
  /\ mpc \in {"raw", "build"} => /\ pool = <<>> /\ selected = <<>> /\ covered = {}
                                 /\ multi = Nil /\ list = Nil
  /\ list # Nil => mpc \in {"listed", "fallback"}
  /\ tpc # "pick" => mpc # "raw" /\ Len(evalSet) = N
  /\ mpc \in {"cover", "finish"} => tpc = "tiled"
  /\ PoolOK(pool) /\ request \in Int
  /\ Selection(pool, selected, TargetPercent * N)
  /\ covered = Explained(pool, selected, DOMAIN selected)
  /\ StopsForReason /\ FiguresAgree

\* What the calls that leave the set alone keep of it.
LEMMA CoverKept ==
  ASSUME CoverInv,
         request' = request, pool' = pool, selected' = selected, covered' = covered,
         mpc' # "finish", mpc' = "done" => multi' = Nil
  PROVE  /\ PoolOK(pool)' /\ (request \in Int)'
         /\ Selection(pool, selected, TargetPercent * N)'
         /\ (covered = Explained(pool, selected, DOMAIN selected))'
         /\ StopsForReason' /\ FiguresAgree'
<1>1. TargetPercent' = TargetPercent
  BY DEF TargetPercent
<1>2. PoolOK(pool)' /\ (request \in Int)'
  BY DEF CoverInv
<1>3. Selection(pool, selected, TargetPercent * N)'
  BY <1>1 DEF CoverInv
<1>4. (covered = Explained(pool, selected, DOMAIN selected))'
  BY DEF CoverInv
<1>5. StopsForReason' /\ FiguresAgree'
  BY DEF StopsForReason, FiguresAgree
<1>. QED
  BY <1>2, <1>3, <1>4, <1>5

LEMMA PrepareKeeps ==
  ASSUME CoverInv, Prepare
  PROVE  CoverInv'
<1>1. /\ mpc = "raw" /\ request' = request /\ pool' = pool /\ selected' = selected
      /\ covered' = covered /\ multi' = multi /\ list' = list /\ tpc' = tpc
  BY DEF Prepare, tileVars
<1>2. mpc' \in {"done", "build"}
  BY DEF Prepare
<1>3. /\ pool = <<>> /\ selected = <<>> /\ covered = {} /\ multi = Nil /\ list = Nil
      /\ tpc = "pick"
  BY <1>1 DEF CoverInv
<1>4. /\ PoolOK(pool)' /\ (request \in Int)'
      /\ Selection(pool, selected, TargetPercent * N)'
      /\ (covered = Explained(pool, selected, DOMAIN selected))'
      /\ StopsForReason' /\ FiguresAgree'
  BY <1>1, <1>2, <1>3, CoverKept
<1>. QED
  BY <1>1, <1>2, <1>3, <1>4 DEF CoverInv

LEMMA TileKeeps ==
  ASSUME CoverInv, Tile
  PROVE  CoverInv'
<1>1. /\ mpc = "build" /\ Len(evalSet) = N
      /\ mpc' = mpc /\ request' = request /\ pool' = pool /\ selected' = selected
      /\ covered' = covered /\ multi' = multi /\ list' = list /\ evalSet' = evalSet
  BY DEF Tile, coverVars
<1>2. /\ PoolOK(pool)' /\ (request \in Int)'
      /\ Selection(pool, selected, TargetPercent * N)'
      /\ (covered = Explained(pool, selected, DOMAIN selected))'
      /\ StopsForReason' /\ FiguresAgree'
  BY <1>1, CoverKept
<1>. QED
  BY <1>1, <1>2 DEF CoverInv

LEMMA ListKeeps ==
  ASSUME CoverInv, SuggestTopK \/ FallBack
  PROVE  CoverInv'
<1>1. /\ mpc = "build" /\ tpc = "tiled" /\ mpc' \in {"listed", "fallback"}
      /\ request' = request /\ pool' = pool /\ selected' = selected
      /\ covered' = covered /\ multi' = multi /\ evalSet' = evalSet /\ tpc' = tpc
  BY DEF SuggestTopK, FallBack, tileVars
<1>2. /\ PoolOK(pool)' /\ (request \in Int)'
      /\ Selection(pool, selected, TargetPercent * N)'
      /\ (covered = Explained(pool, selected, DOMAIN selected))'
      /\ StopsForReason' /\ FiguresAgree'
  BY <1>1, CoverKept
<1>. QED
  BY <1>1, <1>2 DEF CoverInv

\* Nothing is selected from a pool just built.
LEMMA NothingSelected ==
  ASSUME NEW p, NEW goal
  PROVE  Selection(p, <<>>, goal) /\ Explained(p, <<>>, DOMAIN <<>>) = {}
<1>1. Len(<<>>) = 0 /\ <<>> \in Seq(DOMAIN p) /\ DOMAIN <<>> = {} /\ 1 .. 0 = {}
  BY EmptySeq
<1>2. Selection(p, <<>>, goal)
  BY <1>1, MultiCoverAssumption DEF Selection
<1>3. Explained(p, <<>>, {}) = {}
  BY DEF Explained
<1>. QED
  BY <1>1, <1>2, <1>3

LEMMA PoolKeeps ==
  ASSUME CoverInv, SampleInv, TilerInv, SuggestSet, BuildPool
  PROVE  CoverInv'
<1>1. /\ mpc = "build" /\ tpc = "tiled" /\ tpc' = tpc /\ list' = list /\ evalSet' = evalSet
      /\ total' = total /\ selected' = selected /\ covered' = covered
      /\ mpc' \in {"cover", "done"}
  BY DEF SuggestSet, BuildPool, tileVars
<1>2. /\ selected = <<>> /\ covered = {} /\ list = Nil /\ multi = Nil /\ Len(evalSet) = N
  BY <1>1 DEF CoverInv
<1>3. request' \in Int
  BY MultiCoverAssumption DEF BuildPool
<1>4. PoolOK(pool')
  <2>1. PICK o \in PoolInputs : pool' = BuildMultiCandidates(o)
    BY DEF BuildPool
  <2>. QED
    BY <1>1, <2>1, PoolIs
<1>5. /\ Selection(pool, selected, TargetPercent * N)'
      /\ (covered = Explained(pool, selected, DOMAIN selected))'
  <2>. DEFINE goal == TargetPercent' * N
  <2>1. Selection(pool', <<>>, goal) /\ Explained(pool', <<>>, DOMAIN <<>>) = {}
    BY NothingSelected
  <2>2. selected' = <<>> /\ covered' = {}
    BY <1>1, <1>2
  <2>. QED
    BY <2>1, <2>2
<1>6. FiguresAgree'
  <2>1. mpc' = "cover" \/ \E single \in 0 .. total :
          multi' = [patterns |-> <<[matched |-> single, total |-> total]>>, combined |-> single]
    BY DEF BuildPool
  <2>2. CASE mpc' = "cover"
    BY <2>2 DEF FiguresAgree
  <2>3. CASE \E single \in 0 .. total :
          multi' = [patterns |-> <<[matched |-> single, total |-> total]>>, combined |-> single]
    <3>1. PICK single \in 0 .. total :
            multi' = [patterns |-> <<[matched |-> single, total |-> total]>>, combined |-> single]
      BY <2>3
    <3>2. total \in Nat
      BY <1>1 DEF SampleInv
    <3>3. multi'.combined = single /\ single \in 0 .. total' /\ single <= single
      BY <1>1, <3>1, <3>2
    <3>4. DOMAIN multi'.patterns = {1} /\ multi'.patterns[1].matched = single
      BY <3>1
    <3>5. selected' = <<>>
      BY <1>1, <1>2
    <3>. QED
      BY <3>3, <3>4, <3>5 DEF FiguresAgree
  <2>. QED
    BY <2>1, <2>2, <2>3
<1>7. StopsForReason'
  BY <1>1 DEF StopsForReason
<1>. QED
  BY <1>1, <1>2, <1>3, <1>4, <1>5, <1>6, <1>7 DEF CoverInv

-----------------------------------------------------------------------------
\* Why a round stops.
LEMMA StoppedForReason ==
  ASSUME CoverInv,
         \/ Cardinality(covered) >= TargetCount
         \/ Len(selected) >= MaxPatterns
         \/ {i \in DOMAIN pool \ Used : IsBest(i)} = {}
         \/ \A i \in {i \in DOMAIN pool \ Used : IsBest(i)} : selected # <<>> /\ Gain(i) < MinGain
  PROVE  \/ 100 * Cardinality(covered) >= TargetPercent * N
         \/ Len(selected) = MaxPatterns
         \/ \A i \in DOMAIN pool \ Used :
              /\ Cardinality(pool[i].match \ covered) < MinGain
              /\ selected = <<>> => Cardinality(pool[i].match \ covered) = 0
<1>1. /\ PoolOK(pool) /\ selected \in Seq(DOMAIN pool) /\ Len(selected) <= MaxPatterns
      /\ covered = Explained(pool, selected, DOMAIN selected) /\ request \in Int
  BY DEF CoverInv, Selection
<1>2. Len(selected) \in Nat /\ MaxPatterns \in Nat /\ covered \in SUBSET Lines
  BY <1>1, SelectionTyped, MultiCoverAssumption
<1>3. \A i \in DOMAIN pool : /\ Gain(i) = GainOf(pool, i, covered) /\ Gain(i) \in Nat
                             /\ Gain(i) = Cardinality(pool[i].match \ covered)
  <2>1. \A i \in DOMAIN pool : GainOf(pool, i, covered) \in 0 .. N
    BY <1>1, GainTyped
  <2>2. \A n \in 0 .. N : n \in Nat
    BY LinesAssumption
  <2>3. \A i \in DOMAIN pool : GainOf(pool, i, covered) \in Nat
    BY <2>1, <2>2
  <2>. QED
    BY <2>3 DEF Gain, GainOf
<1>4. MinGain \in Nat \ {0}
  BY MinGainIs
<1>5. CASE Cardinality(covered) >= TargetCount
  <2>1. Cardinality(covered) \in Nat
    BY <1>2, LinesCounted, LinesAssumption
  <2>. QED
    BY <1>1, <1>5, <2>1, TargetIs
<1>6. CASE Len(selected) >= MaxPatterns
  BY <1>1, <1>2, <1>6
<1>7. CASE {i \in DOMAIN pool \ Used : IsBest(i)} = {}
  <2>1. \A i \in DOMAIN pool \ Used : Gain(i) = 0
    <3>1. \A i \in DOMAIN pool \ Used : ~ (Gain(i) > 0)
      BY <1>1, <1>7, BestIsThere
    <3>. TAKE i \in DOMAIN pool \ Used
    <3>2. ~ (Gain(i) > 0) /\ Gain(i) \in Nat
      BY <1>3, <3>1
    <3>. QED
      BY <3>2
  <2>. QED
    BY <1>3, <1>4, <2>1
<1>8. CASE /\ \A i \in {i \in DOMAIN pool \ Used : IsBest(i)} : selected # <<>> /\ Gain(i) < MinGain
           /\ {i \in DOMAIN pool \ Used : IsBest(i)} # {}
  <2>1. PICK b \in DOMAIN pool \ Used : IsBest(b) /\ selected # <<>> /\ Gain(b) < MinGain
    BY <1>8
  <2>2. \A i \in DOMAIN pool : GainOf(pool, i, covered) <= GainOf(pool, b, covered)
    BY <1>1, <2>1, BestGains
  <2>3. \A i \in DOMAIN pool : Gain(i) < MinGain
    <3>. TAKE i \in DOMAIN pool
    <3>1. Gain(i) <= Gain(b) /\ Gain(i) \in Nat /\ Gain(b) \in Nat /\ Gain(b) < MinGain
      BY <1>3, <2>1, <2>2
    <3>. QED
      BY <1>4, <3>1
  <2>. QED
    BY <1>3, <2>1, <2>3
<1>. QED
  BY <1>5, <1>6, <1>7, <1>8

LEMMA RoundKeeps ==
  ASSUME CoverInv, SuggestSet, CoverRound
  PROVE  CoverInv'
<1>. DEFINE tops == {i \in DOMAIN pool \ Used : IsBest(i)}
            Marginal == \A i \in tops : selected # <<>> /\ Gain(i) < MinGain
            stops == \/ Cardinality(covered) >= TargetCount \/ Len(selected) >= MaxPatterns
                     \/ tops = {} \/ Marginal
<1>1. /\ mpc = "cover" /\ tpc = "tiled" /\ tpc' = tpc /\ list' = list /\ evalSet' = evalSet
      /\ request' = request /\ pool' = pool
  BY DEF SuggestSet, CoverRound, tileVars
<1>2. IF stops THEN Stopped
      ELSE \E i \in tops : /\ selected' = Append(selected, i)
                           /\ covered' = covered \cup pool[i].match
                           /\ UNCHANGED mpc
  BY Zenon DEF CoverRound
<1>3. /\ PoolOK(pool) /\ Selection(pool, selected, TargetPercent * N) /\ request \in Int
      /\ covered = Explained(pool, selected, DOMAIN selected) /\ list = Nil
      /\ mpc # "raw" /\ Len(evalSet) = N
  BY <1>1 DEF CoverInv
<1>4. selected \in Seq(DOMAIN pool) /\ Len(selected) \in Nat /\ MaxPatterns \in Nat
  BY <1>3, SelectionTyped, MultiCoverAssumption DEF Selection
<1>5. TargetPercent' = TargetPercent /\ (request \in Int)' /\ PoolOK(pool)'
  BY <1>1, <1>3 DEF TargetPercent
<1>6. CASE stops
  <2>1. mpc' = "finish" /\ selected' = selected /\ covered' = covered
    BY <1>2, <1>6 DEF Stopped
  <2>2. \/ 100 * Cardinality(covered) >= TargetPercent * N
        \/ Len(selected) = MaxPatterns
        \/ \A i \in DOMAIN pool \ Used :
             /\ Cardinality(pool[i].match \ covered) < MinGain
             /\ selected = <<>> => Cardinality(pool[i].match \ covered) = 0
    BY <1>6, StoppedForReason
  <2>3. StopsForReason'
    BY <1>1, <1>5, <2>1, <2>2 DEF StopsForReason, Gain, Used
  <2>4. FiguresAgree'
    BY <2>1 DEF FiguresAgree
  <2>5. Selection(pool, selected, TargetPercent * N)'
    BY <1>1, <1>3, <1>5, <2>1
  <2>6. (covered = Explained(pool, selected, DOMAIN selected))'
    BY <1>1, <1>3, <2>1
  <2>. QED
    BY <1>1, <1>3, <1>5, <2>1, <2>3, <2>4, <2>5, <2>6 DEF CoverInv
<1>7. CASE ~ stops
  <2>1. /\ ~ (Cardinality(covered) >= TargetCount) /\ ~ (Len(selected) >= MaxPatterns)
        /\ \E i \in tops : ~ (selected # <<>> /\ Gain(i) < MinGain)
    BY <1>7
  <2>2. PICK i \in tops : /\ selected' = Append(selected, i)
                          /\ covered' = covered \cup pool[i].match /\ mpc' = mpc
    BY <1>2, <1>7
  <2>3. i \in DOMAIN pool \ Used /\ IsBest(i)
    OBVIOUS
  <2>4. \A j \in DOMAIN pool : Gain(j) = GainOf(pool, j, covered) /\ Gain(j) \in Nat
    <3>1. \A j \in DOMAIN pool : GainOf(pool, j, covered) \in 0 .. N
      BY <1>3, GainTyped
    <3>2. \A n \in 0 .. N : n \in Nat
      BY LinesAssumption
    <3>3. \A j \in DOMAIN pool : GainOf(pool, j, covered) \in Nat
      BY <3>1, <3>2
    <3>. QED
      BY <3>3 DEF Gain, GainOf
  <2>5. selected = <<>> \/ Gain(i) >= MinGain
    <3>1. PICK j \in tops : ~ (selected # <<>> /\ Gain(j) < MinGain)
      BY <2>1
    <3>2. j \in DOMAIN pool
      OBVIOUS
    <3>3. GainOf(pool, j, covered) <= GainOf(pool, i, covered)
      BY <1>3, <1>4, <2>3, <3>2, BestGains
    <3>. QED
      BY <2>3, <2>4, <3>1, <3>2, <3>3, MinGainIs
  <2>6. Len(selected) < MaxPatterns
    BY <1>4, <2>1
  <2>7. Selection(pool, Append(selected, i), TargetPercent * N)
    <3>. DEFINE goal == TargetPercent * N
    <3>1. goal = TargetPercent * N /\ Selection(pool, selected, goal)
      BY <1>3
    <3>. HIDE DEF goal
    <3>2. Selection(pool, Append(selected, i), goal)
      BY <1>3, <2>1, <2>3, <2>5, <2>6, <3>1, RoundTakesWell
    <3>. QED
      BY <3>2 DEF goal
  <2>8. Explained(pool, Append(selected, i), DOMAIN Append(selected, i)) = covered \cup pool[i].match
    BY <1>3, <1>4, <2>3, ExplainedOn
  <2>9. Selection(pool, selected, TargetPercent * N)'
    BY <1>1, <1>5, <2>2, <2>7
  <2>10. (covered = Explained(pool, selected, DOMAIN selected))'
    BY <1>1, <2>2, <2>8
  <2>11. StopsForReason' /\ FiguresAgree'
    BY <1>1, <2>2 DEF StopsForReason, FiguresAgree
  <2>. QED
    BY <1>1, <1>3, <1>5, <2>2, <2>9, <2>10, <2>11 DEF CoverInv
<1>. QED
  BY <1>6, <1>7

LEMMA FiguresKeep ==
  ASSUME CoverInv, SampleInv, SuggestSet, FinishMulti
  PROVE  CoverInv'
<1>1. /\ mpc = "finish" /\ mpc' = "done" /\ tpc = "tiled" /\ tpc' = tpc /\ list' = list
      /\ evalSet' = evalSet /\ total' = total
      /\ request' = request /\ pool' = pool /\ selected' = selected /\ covered' = covered
  BY DEF SuggestSet, FinishMulti, tileVars
<1>2. /\ PoolOK(pool) /\ Selection(pool, selected, TargetPercent * N) /\ request \in Int
      /\ covered = Explained(pool, selected, DOMAIN selected) /\ list = Nil
      /\ Len(evalSet) = N
  BY <1>1 DEF CoverInv
<1>3. /\ selected \in Seq(DOMAIN pool) /\ covered \in SUBSET Lines
      /\ \A k \in DOMAIN selected : selected[k] \in DOMAIN pool
  BY <1>2, SelectionTyped DEF Selection
<1>4. total \in Nat /\ total >= N
  <2>1. total \in Nat /\ Len(evalSet) = Min({total, N})
    BY ONLY <1>1, SampleInv DEF SampleInv, Spread
  <2>2. Min({total, N}) = IF total <= N THEN total ELSE N
    BY <2>1, Smaller, LinesAssumption
  <2>. QED
    BY <1>2, <2>1, <2>2, LinesAssumption
<1>5. PICK below \in BOOLEAN :
        LET Figures(m) == Finalize(total, m, N, Estimated, below) IN
        multi' = [patterns |-> [k \in DOMAIN selected |-> Figures(Cardinality(pool[selected[k]].match))],
                  combined |-> Figures(Cardinality(covered)).matched]
  BY DEF FinishMulti
<1>. DEFINE Figure(i) == Finalize(total, i, N, Estimated, below).matched
            c == Cardinality(covered)
            Of(k) == Cardinality(pool[selected[k]].match)
<1>6. /\ multi'.combined = Figure(c)
      /\ DOMAIN multi'.patterns = DOMAIN selected
      /\ \A k \in DOMAIN selected : multi'.patterns[k].matched = Figure(Of(k))
  BY <1>5
<1>7. \A m, l \in 0 .. N : m <= l =>
        /\ Figure(m) \in 0 .. total /\ Figure(m) <= Figure(l)
        /\ m = N => Figure(m) = total
        /\ Figure(m) = 0 => m = 0
  BY <1>4, FiguresAre
<1>8. c \in 0 .. N /\ c <= c /\ IsFiniteSet(covered)
  BY <1>3, LinesCounted, LinesAssumption
<1>9. \A k \in DOMAIN selected : Of(k) \in 0 .. N /\ Of(k) <= c
  <2>. TAKE k \in DOMAIN selected
  <2>1. pool[selected[k]].match \in SUBSET Lines /\ pool[selected[k]].match \in SUBSET covered
    BY <1>2, <1>3, GainTyped DEF Explained
  <2>. QED
    BY <1>8, <2>1, LinesCounted, FS_Subset
<1>10. (covered = Lines => c = N) /\ (c = 0 => covered = {})
  <2>1. Cardinality(Lines) = N
    BY FS_Interval, LinesAssumption DEF Lines
  <2>. QED
    BY <1>8, <2>1, FS_EmptySet
<1>. HIDE DEF Figure, c, Of
<1>11. /\ Figure(c) \in 0 .. total
       /\ \A k \in DOMAIN selected : Figure(Of(k)) <= Figure(c)
       /\ covered = Lines => Figure(c) = total
       /\ Figure(c) = 0 => covered = {}
  BY <1>7, <1>8, <1>9, <1>10
<1>12. FiguresAgree'
  BY <1>1, <1>6, <1>11 DEF FiguresAgree
<1>13. StopsForReason'
  BY <1>1 DEF StopsForReason
<1>14. TargetPercent' = TargetPercent
  BY <1>1 DEF TargetPercent
<1>15. Selection(pool, selected, TargetPercent * N)'
  BY <1>1, <1>2, <1>14
<1>16. /\ PoolOK(pool)' /\ (request \in Int)'
       /\ (covered = Explained(pool, selected, DOMAIN selected))'
  BY <1>1, <1>2
<1>. QED
  BY <1>1, <1>2, <1>12, <1>13, <1>15, <1>16 DEF CoverInv

LEMMA CoverInvariant == SuggestSpec => []CoverInv
<1>1. SuggestInit => CoverInv
  <2>. SUFFICES ASSUME SuggestInit PROVE CoverInv
    OBVIOUS
  <2>1. /\ mpc = "raw" /\ pool = <<>> /\ selected = <<>> /\ covered = {} /\ multi = Nil
        /\ list = Nil /\ tpc = "pick" /\ request = 0
    BY DEF SuggestInit, CoverInit, TileInit
  <2>2. PoolOK(<<>>)
    BY DEF PoolOK
  <2>3. Selection(pool, selected, TargetPercent * N)
        /\ covered = Explained(pool, selected, DOMAIN selected)
    BY <2>1, NothingSelected
  <2>4. StopsForReason /\ FiguresAgree
    BY <2>1 DEF StopsForReason, FiguresAgree
  <2>. QED
    BY <2>1, <2>2, <2>3, <2>4 DEF CoverInv
<1>2. ASSUME CoverInv, SampleInv, AnswerInv, [SuggestNext]_suggestVars
      PROVE  CoverInv'
  <2>1. CASE UNCHANGED suggestVars
    <3>1. /\ mpc' = mpc /\ request' = request /\ pool' = pool /\ selected' = selected
          /\ covered' = covered /\ multi' = multi /\ list' = list /\ tpc' = tpc
          /\ evalSet' = evalSet /\ total' = total
      BY <2>1 DEF suggestVars, coverVars, tileVars
    <3>2. TargetPercent' = TargetPercent
      BY <3>1 DEF TargetPercent
    <3>3. StopsForReason' /\ FiguresAgree'
      BY <1>2, <3>1, <3>2 DEF CoverInv, StopsForReason, FiguresAgree, Gain, Used
    <3>4. Selection(pool, selected, TargetPercent * N)'
      BY <1>2, <3>1, <3>2 DEF CoverInv
    <3>. QED
      BY <1>2, <3>1, <3>3, <3>4 DEF CoverInv
  <2>2. CASE Prepare
    BY <1>2, <2>2, PrepareKeeps
  <2>3. CASE Tile
    BY <1>2, <2>3, TileKeeps
  <2>4. CASE SuggestSet
    <3>1. TilerInv
      BY <1>2 DEF AnswerInv
    <3>2. BuildPool \/ CoverRound \/ FinishMulti
      BY <2>4 DEF SuggestSet, CoverNext
    <3>. QED
      BY <1>2, <2>4, <3>1, <3>2, PoolKeeps, RoundKeeps, FiguresKeep
  <2>5. CASE SuggestTopK \/ FallBack
    BY <1>2, <2>5, ListKeeps
  <2>. QED
    BY <1>2, <2>1, <2>2, <2>3, <2>4, <2>5 DEF SuggestNext
<1>. QED
  BY <1>1, <1>2, SampleInvariant, AnswerInvariant, PTL DEF SuggestSpec

\* A set of patterns stops growing for a reason, holds none without need, covers
\* nearly what the best set would and reports figures that agree, for any input,
\* candidates, target and limits (multi.go 84-143, 225-285).
THEOREM CoverIsWorthwhile == SuggestSpec => []CoverWorthwhile
<1>1. ASSUME CoverInv, SampleInv, AnswerInv
      PROVE  CoverWorthwhile
  <2>. DEFINE goal == TargetPercent * N
  <2>1. /\ PoolOK(pool) /\ Selection(pool, selected, goal)
        /\ covered = Explained(pool, selected, DOMAIN selected)
    BY <1>1 DEF CoverInv
  <2>2. selected \in Seq(DOMAIN pool) /\ \A k \in 1 .. Len(selected) : TakenWell(pool, selected, k, goal)
    BY <2>1 DEF Selection
  <2>3. DOMAIN selected = 1 .. Len(selected) /\ Len(selected) \in Nat
    BY <2>1, <2>2, SelectionTyped
  <2>4. CoverTypeOK
    <3>1. mpc \in {"raw", "build", "cover", "finish", "done", "listed", "fallback"}
      BY <1>1 DEF CoverInv
    <3>2. \A i \in DOMAIN pool : pool[i].match # {} /\ pool[i].match \subseteq Lines
      BY <2>1, GainTyped
    <3>3. \A i, j \in DOMAIN selected : i # j => selected[i] # selected[j]
      BY <2>1 DEF Selection
    <3>4. covered = UNION {pool[i].match : i \in Used}
      <4>1. {pool[selected[j]].match : j \in DOMAIN selected} = {pool[i].match : i \in Used}
        BY DEF Used, ToSet
      <4>. QED
        BY <2>1, <4>1 DEF Explained
    <3>. QED
      BY <3>1, <3>2, <3>3, <3>4 DEF CoverTypeOK
  <2>5. TileTypeOK
    <3>1. TilerInv /\ (tiled # Nil => tiled.match \subseteq Lines)
      BY <1>1 DEF AnswerInv
    <3>2. tpc \in {"pick", "build", "tiled"}
      BY <3>1 DEF TilerInv
    <3>3. \A k \in DOMAIN shapes : \E i \in shapes[k].match : input[i] = shapes[k].template
      <4>1. CASE tpc = "pick"
        BY <3>1, <4>1 DEF TilerInv
      <4>2. CASE tpc # "pick"
        <5>. TAKE k \in DOMAIN shapes
        <5>1. PICK t \in Lines : /\ shapes[k] = ShapeOf(input, input[t])
                                 /\ MatchesLine(InferPieces(input, input[t]), input[t])
          BY <3>1, <4>2, ShapeIs
        <5>2. t \in shapes[k].match /\ shapes[k].template = input[t]
          BY <5>1 DEF ShapeOf
        <5>. QED
          BY <5>2
      <4>. QED
        BY <4>1, <4>2
    <3>. QED
      BY <3>1, <3>2, <3>3 DEF TileTypeOK
  <2>6. total >= Len(evalSet)
    <3>1. CASE mpc = "raw"
      <4>1. total = 0 /\ Len(evalSet) = 0
        BY <1>1, <3>1 DEF SampleInv
      <4>. QED
        BY <4>1
    <3>2. CASE mpc # "raw"
      <4>1. total \in Nat /\ Len(evalSet) = Min({total, N})
        BY ONLY <1>1, <3>2 DEF SampleInv, Spread
      <4>2. Min({total, N}) = IF total <= N THEN total ELSE N
        BY <4>1, Smaller, LinesAssumption
      <4>. QED
        BY <4>1, <4>2, LinesAssumption
    <3>. QED
      BY <3>1, <3>2
  <2>7. SuggestTypeOK
    BY <1>1, <2>4, <2>5, <2>6 DEF SuggestTypeOK, CoverInv
  <2>8. NoPatternWithoutNeed
    <3>1. \A k \in DOMAIN selected :
            /\ 100 * Cardinality(Explained(pool, selected, 1 .. k - 1)) < goal
            /\ Cardinality(pool[selected[k]].match \ Explained(pool, selected, 1 .. k - 1))
                 >= IF k = 1 THEN 1 ELSE MinGain
      BY <2>2, <2>3 DEF TakenWell, GainOf
    <3>. QED
      BY ONLY <3>1 DEF NoPatternWithoutNeed, Explained
  <2>9. GreedyIsNearBest
    <3>1. \A k \in 1 .. Min({2, Len(selected)}) : \A S \in kSubset(k, DOMAIN pool) :
            IF k = 1
            THEN Cardinality(Explained(pool, selected, 1 .. k))
                   >= Cardinality(UNION {pool[i].match : i \in S})
            ELSE 4 * Cardinality(Explained(pool, selected, 1 .. k))
                   >= 3 * Cardinality(UNION {pool[i].match : i \in S})
      <4>. HIDE DEF goal
      <4>. QED
        BY <2>1, NearBest
    <3>. QED
      BY ONLY <3>1 DEF GreedyIsNearBest, Explained
  <2>. QED
    BY <1>1, <2>7, <2>8, <2>9 DEF CoverWorthwhile, CoverInv
<1>. QED
  BY <1>1, CoverInvariant, SampleInvariant, AnswerInvariant, PTL

=============================================================================
