------------------------------ MODULE MultiCover ------------------------------
(***************************************************************************)
(* DiscoverMulti (internal/pattern/multi.go): the pool of candidates, and  *)
(* greedyCover, which takes the candidate that explains most of what is    *)
(* left until the target, the pattern cap or the gain floor stops it.      *)
(*                                                                         *)
(* The eval lines are those of SeqScan, so a candidate's bitmap is its set *)
(* `match`.  The shapes are those of Tiler; how the probes come by their   *)
(* candidates is data here.  The text of a pattern is a sequence of pieces.*)
(* Fractions are percentages.                                              *)
(***************************************************************************)
EXTENDS Sampling, Tiler

CONSTANTS
  PoolInputs,     \* what the library and the probes may offer
  TargetRequests, \* Options.TargetCoverage, in percent
  KeptEntries,    \* library candidates kept: 24 in the code
  CatchallMax,    \* multiCatchallMaxSpecificity
  MaxPatterns,    \* maxMultiPatterns
  MinGainPercent  \* multiMinGainFraction

\* The candidates of an offer match lines.
ASSUME MultiCoverAssumption ==
  /\ MaxPatterns \in Nat \ {0} /\ MinGainPercent \in 0 .. 100
  /\ KeptEntries \in Nat /\ CatchallMax \in Int
  /\ TargetRequests \subseteq Int
  /\ \A o \in PoolInputs : \A s \in {o.library, o.structured, o.envelope} :
       /\ s \in Seq(ToSet(s))
       /\ \A i \in DOMAIN s :
            /\ s[i].match \subseteq Lines /\ s[i].typed \in Nat
            /\ {s[i].specificity, s[i].priority} \subseteq Int

VARIABLES
  offer,    \* input: library, structured, envelope; Nil before
  total,    \* lines after normalisation; more than N are estimated
  request,  \* input: the target asked for
  mpc,      \* "raw", "build", "cover", "finish", "done"; other calls end elsewhere
  pool,     \* the candidates, in the order they were added
  selected, \* indices into pool, in the order they were taken
  covered,  \* the eval lines explained so far
  multi     \* the MultiPatternResult

coverVars == <<offer, total, request, mpc, pool, selected, covered, multi>>

Estimated == total > N

(***************************************************************************)
(* The pool                                                                *)
(***************************************************************************)
\* One candidate for the pool, as `add` gets it.
Pooled(c, rank) ==
  [grok |-> c.grok, match |-> c.match, rank |-> rank, typed |-> c.typed,
   specificity |-> c.specificity]

ShapeCandidate(c) ==
  [grok |-> c.pieces, match |-> c.match, typed |-> Typed(c.pieces), specificity |-> 0]

\* The candidates of every source that pass its own test, in pool order.
Offered(o) ==
  LET kept == KeptLibrary(o.library, KeptEntries)
      specific == {i \in DOMAIN kept : kept[i].specificity > CatchallMax}
      typed == {i \in DOMAIN o.structured : o.structured[i].typed > 0}
      reusable == {i \in DOMAIN shapes : /\ Cardinality(shapes[i].match) >= MinBranchLines
                                        /\ Promoted(shapes[i].pieces) >= 1}
      tilings == Picked(shapes, reusable)
      All(s, family) == [i \in DOMAIN s |-> Pooled(s[i], FamilyRank(family))]
  IN  All(Picked(kept, specific), "library") \o All(Picked(o.structured, typed), "structured")
        \o All(o.envelope, "inferred")
        \o All([i \in DOMAIN tilings |-> ShapeCandidate(tilings[i])], "inferred")

\* add: a grok already pooled, or without a match, is left out.
Add(p, c) ==
  IF c.match = {} \/ \E i \in DOMAIN p : p[i].grok = c.grok THEN p ELSE Append(p, c)

BuildMultiCandidates(o) ==
  LET offered == Offered(o)
      added[k \in 0 .. Len(offered)] == IF k = 0 THEN <<>> ELSE Add(added[k - 1], offered[k])
  IN  added[Len(offered)]

(***************************************************************************)
(* greedyCover                                                             *)
(***************************************************************************)
TargetPercent == IF request <= 0 THEN 90 ELSE Min({request, 100})

\* int(nEval * target + 0.999)
TargetCount == (N * TargetPercent * 10 + 999) \div 1000

MinGain == Max({1, (N * MinGainPercent * 10 + 999) \div 1000})

Used == ToSet(selected)
Gain(i) == Cardinality(pool[i].match \ covered)

\* preferMultiCandidate.
Prefer(a, b) ==
  \/ a.rank < b.rank
  \/ /\ a.rank = b.rank
     /\ a.typed > b.typed \/ (a.typed = b.typed /\ a.specificity > b.specificity)

\* The candidate a round takes: most gain, then the preferred, then pool order.
\* Preference is no cycle, so the scan for it ends at the one no other beats.
IsBest(i) ==
  /\ Gain(i) > 0
  /\ \A j \in DOMAIN pool \ (Used \cup {i}) :
       \/ Gain(i) > Gain(j)
       \/ /\ Gain(i) = Gain(j)
          /\ Prefer(pool[i], pool[j]) \/ (~Prefer(pool[j], pool[i]) /\ i < j)

Stopped == mpc' = "finish" /\ UNCHANGED <<selected, covered>>

\* Mutant: a candidate below the gain floor is still taken before stopping.
CoverRoundLate ==
  /\ mpc = "cover"
  /\ LET best == {i \in DOMAIN pool \ Used : IsBest(i)} IN
     IF Cardinality(covered) >= TargetCount \/ Len(selected) > MaxPatterns \/ best = {}
     THEN Stopped
     ELSE \E i \in best :
            /\ selected' = Append(selected, i) /\ covered' = covered \cup pool[i].match
            /\ UNCHANGED mpc
  /\ UNCHANGED <<offer, total, request, pool, multi>>

CoverRound ==
  /\ mpc = "cover"
  /\ LET best == {i \in DOMAIN pool \ Used : IsBest(i)}
         Marginal == \A i \in best : selected # <<>> /\ Gain(i) < MinGain
     IN IF \/ Cardinality(covered) >= TargetCount \/ Len(selected) >= MaxPatterns
           \/ best = {} \/ Marginal
        THEN Stopped
        ELSE \E i \in best :
               /\ selected' = Append(selected, i) /\ covered' = covered \cup pool[i].match
               /\ UNCHANGED mpc
  /\ UNCHANGED <<offer, total, request, pool, multi>>

(***************************************************************************)
(* DiscoverMulti                                                           *)
(***************************************************************************)
CoverInit ==
  /\ offer = Nil /\ total = 0 /\ request = 0
  /\ mpc = "raw"
  /\ pool = <<>> /\ selected = <<>> /\ covered = {} /\ multi = Nil

\* An empty pool is left to Discover, which always has an answer.
BuildPool ==
  /\ mpc = "build"
  /\ request' \in TargetRequests /\ offer' \in PoolInputs /\ pool' = BuildMultiCandidates(offer')
  /\ \/ pool' # <<>> /\ mpc' = "cover" /\ UNCHANGED multi
     \/ /\ pool' = <<>> /\ mpc' = "done"
        /\ \E single \in 0 .. total :
             multi' = [patterns |-> <<[matched |-> single, total |-> total]>>,
                        combined |-> single]
  /\ UNCHANGED <<total, selected, covered>>

\* The figures of every pattern and of the set.
FinishMulti ==
  /\ mpc = "finish"
  /\ \E below \in BOOLEAN :
       LET Figures(m) == Finalize(total, m, N, Estimated, below) IN
       multi' = [patterns |-> [k \in DOMAIN selected |->
                                  Figures(Cardinality(pool[selected[k]].match))],
                  combined |-> Figures(Cardinality(covered)).matched]
  /\ mpc' = "done"
  /\ UNCHANGED <<offer, total, request, pool, selected, covered>>

CoverNext == BuildPool \/ CoverRound \/ FinishMulti

(***************************************************************************)
(* Properties                                                              *)
(***************************************************************************)
CoverTypeOK ==
  /\ mpc \in {"raw", "build", "cover", "finish", "done", "listed", "fallback"}
  /\ \A i \in DOMAIN pool : pool[i].match # {} /\ pool[i].match \subseteq Lines
  /\ \A i, j \in DOMAIN selected : i # j => selected[i] # selected[j]
  /\ covered = UNION {pool[i].match : i \in Used}

\* The selection ends only for a reason the options give: the fraction asked for
\* is reached, the list is full, or nothing left is worth a pattern (multi.go
\* 232-262; a floor instead of a ceiling would stop below the target).
StopsForReason ==
  mpc = "finish" =>
    \/ 100 * Cardinality(covered) >= TargetPercent * N
    \/ Len(selected) = MaxPatterns
    \/ \A i \in DOMAIN pool \ Used : Gain(i) < MinGain /\ (selected = <<>> => Gain(i) = 0)

\* Every pattern of the set pays for itself, the one before the last already not
\* reaching the target: no pattern is added after the goal, none explains only
\* lines others explain, and none after the first less than the floor.
NoPatternWithoutNeed ==
  \A k \in DOMAIN selected :
    LET before == UNION {pool[selected[j]].match : j \in 1 .. k - 1}
        gain == Cardinality(pool[selected[k]].match \ before)
    IN  /\ 100 * Cardinality(before) < TargetPercent * N
        /\ gain >= IF k = 1 THEN 1 ELSE MinGain

\* What greedy selection promises (multi.go 16-18: "the first explains the most
\* lines, and each subsequent one explains the most of what remained"): the first
\* k patterns explain at least 1 - (1 - 1/k)^k of what any k of the pool could,
\* that is three quarters with two patterns and all of it with one.
GreedyIsNearBest ==
  \A k \in 1 .. Min({2, Len(selected)}) :
    LET got == Cardinality(UNION {pool[selected[j]].match : j \in 1 .. k}) IN
    \A S \in kSubset(k, DOMAIN pool) :
      LET could == Cardinality(UNION {pool[i].match : i \in S}) IN
      IF k = 1 THEN got >= could ELSE 4 * got >= 3 * could

\* The figures agree after rescaling from the eval lines to the whole input: the
\* set explains no less than any of its patterns and no more than there is, and
\* all of it exactly when no eval line is left (multi.go 118-131).
FiguresAgree ==
  mpc = "done" /\ multi # Nil =>
    LET m == multi.combined IN
    /\ m \in 0 .. total
    /\ \A k \in DOMAIN multi.patterns : multi.patterns[k].matched <= m
    /\ selected # <<>> => (covered = Lines => m = total) /\ (m = 0 => covered = {})

=============================================================================
