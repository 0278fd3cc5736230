-------------------------------- MODULE Suggest --------------------------------
(***************************************************************************)
(* The entry points of internal/pattern that give several suggestions, on  *)
(* one input: the lines are limited, normalised, sampled and tiled, then   *)
(* DiscoverMulti or DiscoverTopK is called on them; what no stage explains *)
(* is left to deriveSafeFallback.                                          *)
(*                                                                         *)
(* Candidates are over N eval lines, so the calls go on for the inputs     *)
(* that fill the eval set.                                                 *)
(***************************************************************************)
EXTENDS MultiCover, TopK

CONSTANTS
  RawInputs,     \* sequences of "line", "empty", and "bom" for a first line with a mark
  LimitRequests, \* Options.MaxLines
  TopKRequests,
  FallbackInputs \* sequences of candidates of deriveSafeFallback

\* The eval set is larger than what is always taken from the start.  A list of
\* last resort ends with the message pattern; Nil is none of its answers.
ASSUME SuggestAssumption ==
  /\ FirstLines < N
  /\ RawInputs \subseteq Seq({"line", "empty", "bom"})
  /\ LimitRequests \cup TopKRequests \subseteq Int
  /\ \A s \in FallbackInputs :
       /\ s \in Seq(ToSet(s))
       /\ \A i \in DOMAIN s :
            /\ s[i].match \subseteq Lines /\ s[i].typed \in Nat
            /\ {s[i].compiles, s[i].last} \subseteq BOOLEAN
            /\ s[i].last => i = Len(s)
            /\ Counted("fallback", s[i]) # Nil

VARIABLES
  raw,     \* input: the lines, dropped once they are sampled
  evalSet, \* the indices of the eval lines among the normalised lines
  list     \* the suggestions of DiscoverTopK or the fallback; Nil before

suggestVars == <<coverVars, tileVars, raw, evalSet, list>>

SuggestInit ==
  /\ CoverInit /\ TileInit
  /\ raw \in RawInputs /\ evalSet = <<>> /\ list = Nil

\* limitLines, normalizeLines and chooseSample; no line left is ErrEmptyInput.
Prepare ==
  /\ mpc = "raw"
  /\ \E max \in LimitRequests :
       LET kept == NormalizeLines(LimitLines(raw, max).lines) IN
       /\ total' = Len(kept)
       /\ evalSet' \in ChooseSample(Len(kept), N)
       /\ mpc' = IF kept = <<>> THEN "done" ELSE "build"
  /\ raw' = <<>>
  /\ UNCHANGED <<offer, request, pool, selected, covered, multi, list, tileVars>>

\* The eval lines are tiled.
Tile ==
  /\ mpc = "build" /\ Len(evalSet) = N
  /\ TileNext
  /\ UNCHANGED <<coverVars, raw, evalSet, list>>

SuggestSet == tpc = "tiled" /\ CoverNext /\ UNCHANGED <<tileVars, raw, evalSet, list>>

FirstOf(s) == IF s = <<>> THEN Nil ELSE s[1]

\* What tryTiling gives; a union has the captures of all its branches.
Tiling(t) ==
  IF t = Nil THEN Nil
  ELSE LET parts == IF "branches" \in DOMAIN t THEN t.branches ELSE <<t>> IN
       [match |-> t.match,
        typed |-> FoldLeft(LAMBDA n, c : n + Typed(c.pieces), 0, parts)]

Inferred(o) ==
  PickBetter(Counted("inferred", Tiling(tiled)), Counted("inferred", FirstOf(o.envelope)))

Listed(k, o) ==
  DiscoverTopK(k, KeptLibrary(o.library, KeptEntries),
               Counted("structured", FirstOf(o.structured)), Inferred(o))

SuggestTopK ==
  /\ mpc = "build" /\ tpc = "tiled"
  /\ offer' \in PoolInputs
  /\ \E k \in TopKRequests : list' = [wanted |-> k, found |-> Listed(k, offer')]
  /\ mpc' = "listed"
  /\ UNCHANGED <<total, request, pool, selected, covered, multi, raw, evalSet, tileVars>>

\* Discover when no stage has an answer; that the others have none is data.
FallBack ==
  /\ mpc = "build" /\ tpc = "tiled" /\ tiled = Nil
  /\ \E candidates \in FallbackInputs :
       list' = [tried |-> candidates, found |-> DeriveSafeFallback(candidates)]
  /\ mpc' = "fallback"
  /\ UNCHANGED <<offer, total, request, pool, selected, covered, multi, raw, evalSet, tileVars>>

SuggestNext == Prepare \/ Tile \/ SuggestSet \/ SuggestTopK \/ FallBack

SuggestSpec == SuggestInit /\ [][SuggestNext]_suggestVars

SuggestTypeOK ==
  /\ CoverTypeOK /\ TileTypeOK
  /\ list # Nil => mpc \in {"listed", "fallback"}
  /\ total >= Len(evalSet)

(***************************************************************************)
(* Properties                                                              *)
(***************************************************************************)
\* A sample is lines of the input, each once and in input order, as many as the
\* cap allows (score.go 201-236; the float stride must not run past the end).
SampleDistinct ==
  mpc = "build" =>
    /\ Len(evalSet) = Min({total, N})
    /\ \A k \in DOMAIN evalSet : evalSet[k] \in 1 .. total
    /\ \A k \in 2 .. Len(evalSet) : evalSet[k - 1] < evalSet[k]

\* It looks at the whole input: after the first lines no stretch longer than a
\* stride goes unseen, the end of the input included, so that a format that
\* begins late is sampled.
SampleSpreads ==
  mpc = "build" /\ total > N =>
    LET rest == total - FirstLines
        remaining == N - FirstLines
        stride == (rest + remaining - 1) \div remaining
    IN  \A i \in 1 .. total - stride + 1 :
          \E k \in DOMAIN evalSet : evalSet[k] \in i .. i + stride - 1

\* A longer list only adds: the first k suggestions do not depend on how many
\* were asked for (discovery.go 499-557).
TopKPrefix ==
  mpc = "listed" /\ list.wanted > 0 =>
    IsPrefix(list.found, Listed(list.wanted + 1, offer))

\* The answer of last resort: there is none only when nothing compiles; one that
\* explains less than 80% is returned only when no other explains more, and of
\* equals the specific one before the message pattern (discovery.go 559-609).
FallbackHonest ==
  mpc = "fallback" =>
    LET usable == {c \in ToSet(list.tried) : c.compiles}
        found == list.found
    IN  /\ found = Nil <=> usable = {}
        /\ found # Nil /\ ~Enough(found) =>
             \A c \in usable : /\ Cardinality(c.match) <= found.matched
                               /\ found.candidate.last /\ ~c.last => Cardinality(c.match) < found.matched

\* The eval set stands for the input: lines of it, in order, none twice, and no
\* long stretch unseen (chooseSample, score.go 201-236).
SampleSound == SampleDistinct /\ SampleSpreads

\* The tiling that is returned explains as much as the best one tried, its tail
\* was relaxed at the best place, and each branch of a union earns its place
\* (betterTiling, tryTiling, the relaxed tail and the union: tiler.go 1044-1362).
AnswerWorthwhile == AnswerCoversBest /\ RelaxedIsBest /\ BranchesPay

\* A set of patterns stops growing for one of its three reasons, holds no
\* pattern that was not needed, covers nearly what the best set would, and
\* reports figures that agree with one another (multi.go 84-143, 225-285).
CoverWorthwhile ==
  SuggestTypeOK /\ StopsForReason /\ NoPatternWithoutNeed /\ GreedyIsNearBest /\ FiguresAgree

\* A ranked list is ranked whatever its length, and the last resort is the best
\* that compiles (discovery.go 499-609).
ListHonest == TopKPrefix /\ FallbackHonest

=============================================================================
