--------------------------------- MODULE Tiler ---------------------------------
(***************************************************************************)
(* tryTiling (internal/pattern/tiler.go): a shape is tiled from every      *)
(* template line, typed by the lines aligned with it; the strongest shape  *)
(* is the answer, its tail relaxed when that buys coverage, or a union of  *)
(* shapes when none explains the input.                                    *)
(*                                                                         *)
(* A line is a sequence of tokens with one space between them, so it is    *)
(* aligned with the templates of its length.  The sample is the eval set,  *)
(* as in inputs below the caps.  Ratios are compared as counts of lines.   *)
(***************************************************************************)
EXTENDS TileTyping

CONSTANTS
  Inputs,         \* the inputs to consider: functions from Lines to lines
  TokenLen,       \* bytes of a token
  Skeleton,       \* the char-class skeleton of a token
  MaxTemplates,   \* tileShapeTemplates
  MinLines,       \* tilingMinLines
  ShortLines,     \* tilingShortSampleMinLines
  MaxCuts,        \* relaxTailMaxCuts
  MaxBranches,    \* tiledUnionMaxBranches
  MinBranchLines  \* tiledUnionMinBranchLines

\* A shape, and one whose tail is relaxed.
ShapeSet == [template : Seq(Tokens), pieces : Seq(PieceSet), match : SUBSET Lines]
CutSet == [match : SUBSET Lines, pieces : Seq(PieceSet)]

\* Fewer lines are looked at than are too short a sample to judge.
ASSUME TilerAssumption ==
  /\ Inputs \subseteq [Lines -> Seq(Tokens)] /\ TokenLen \in [Tokens -> Nat]
  /\ {MaxTemplates, MinLines, MaxBranches, MinBranchLines} \subseteq Nat
  /\ MinLines <= ShortLines /\ ShortLines \in Nat
  /\ Nil \notin ShapeSet \cup CutSet

VARIABLES
  input,     \* input: the lines; Nil before
  tpc,       \* "pick", "build" or "tiled"
  templates, \* the template lines still to tile
  shapes,    \* the tileCandidates
  tiled      \* the answer: Nil, or what the pattern matches and is made of

tileVars == <<input, tpc, templates, shapes, tiled>>

Count(match) == Cardinality(match)

\* cov >= percent / 100
AtLeast(matched, percent) == 100 * matched >= percent * N

(***************************************************************************)
(* tileShapes                                                              *)
(***************************************************************************)
LineLen(line) ==
  LET len[k \in 0 .. Len(line)] == IF k = 0 THEN 0 ELSE len[k - 1] + TokenLen[line[k]] + 1
  IN  len[Len(line)]
SkeletonOf(line) == [k \in DOMAIN line |-> Skeleton[line[k]]]

\* Longest lines first, one for each skeleton.
PickTemplateLines(lines) ==
  LET Before(i, j) == \/ LineLen(lines[i]) > LineLen(lines[j])
                      \/ LineLen(lines[i]) = LineLen(lines[j]) /\ i < j
      first == {i \in Lines : \A j \in Lines :
                  SkeletonOf(lines[j]) = SkeletonOf(lines[i]) => ~Before(j, i)}
      order == InOrder(first, {p \in first \X first : Before(p[1], p[2])})
  IN  [k \in 1 .. Min({MaxTemplates, Len(order)}) |-> lines[order[k]]]

Aligned(lines, template) == {i \in Lines : Len(lines[i]) = Len(template)}

\* probeUnits: what the aligned lines, in input order, show at a token.
Stats(lines, template, u) ==
  LET shown[i \in 0 .. N] ==
        IF i = 0 THEN NoStats
        ELSE IF i - 1 \in Aligned(lines, template) THEN AddValue(shown[i - 1], lines[i - 1][u])
        ELSE shown[i - 1]
  IN  shown[N]

\* tileInferPieces: the typed tokens and the spaces between them.
InferPieces(lines, template) ==
  [k \in 1 .. 2 * Len(template) - 1 |->
     IF k % 2 = 0 THEN Lit(" ")
     ELSE TypeToken(template[(k + 1) \div 2], Stats(lines, template, (k + 1) \div 2))]

\* The pattern of these pieces, from start to end.
MatchesLine(pieces, line) ==
  /\ Len(pieces) = 2 * Len(line) - 1
  /\ \A u \in DOMAIN line : MatchesPiece(pieces[2 * u - 1], line[u])

\* The pattern of these pieces followed by %{GREEDYDATA:message}: the last piece
\* is a token that need not end there, or a space.
MatchesLineGreedy(pieces, line) ==
  LET last == (Len(pieces) + 1) \div 2  cutToken == Len(pieces) % 2 = 1 IN
  /\ Len(line) >= last + (IF cutToken THEN 0 ELSE 1)
  /\ \A u \in 1 .. last : \/ MatchesPiece(pieces[2 * u - 1], line[u])
                          \/ cutToken /\ u = last /\ Begins(pieces[2 * u - 1], line[u])

Match(pieces) == {i \in Lines : MatchesLine(pieces, input[i])}
MatchGreedy(pieces) == {i \in Lines : MatchesLineGreedy(pieces, input[i])}

\* typedCaptureCount: every field has a name.
Typed(pieces) == Promoted(pieces) + LitFields(pieces)

(***************************************************************************)
(* bestTiling                                                              *)
(***************************************************************************)

BetterTiling(a, b) ==
  \/ b = Nil
  \/ Count(a.match) > Count(b.match)
  \/ /\ Count(a.match) = Count(b.match)
     /\ LET pa == Promoted(a.pieces)   pb == Promoted(b.pieces)
            la == LitFields(a.pieces)  lb == LitFields(b.pieces)
        IN  \/ pa > pb
            \/ pa = pb /\ la < lb
            \/ pa = pb /\ la = lb /\ Typed(a.pieces) > Typed(b.pieces)

Margin == Max({N \div 50, 1})

\* A cut after piece i is a real boundary, with a promoted field before it.
IsCut(pieces, i) ==
  /\ Promoted(SubSeq(pieces, 1, i)) > 0
  /\ ~(pieces[i].kind = "lit" /\ pieces[i + 1].kind = "lit")

\* The first cuts, as many as are tried.
Cuts(pieces) ==
  LET all == {i \in 1 .. Len(pieces) - 1 : IsCut(pieces, i)}
  IN  {i \in all : Cardinality({j \in all : j <= i}) <= MaxCuts}

Relaxed(pieces, i) ==
  [match |-> MatchGreedy(SubSeq(pieces, 1, i)), pieces |-> SubSeq(pieces, 1, i)]

\* The gain of a cut, as the scan with a floor counts it.
TailGain(shape, cut) ==
  SeqFloor(cut.match, Count(shape.match) + Margin - 1) - Count(shape.match)

\* Mutant: on a tie the earlier cut stays.
KeepEarlierCut(shape, best, i) ==
  LET cut == Relaxed(shape.pieces, i) IN
  IF TailGain(shape, cut) >= Margin /\ BetterTiling(cut, best) THEN cut ELSE best

\* A cut that buys the margin replaces the one before unless that is better.
TryCut(shape, best, i) ==
  LET cut == Relaxed(shape.pieces, i) IN
  IF TailGain(shape, cut) >= Margin /\ (best = Nil \/ ~BetterTiling(best, cut)) THEN cut ELSE best

RelaxTail(shape) ==
  LET last == Len(shape.pieces) - 1
      best[i \in 0 .. last] ==
        IF i = 0 THEN Nil
        ELSE IF i \in Cuts(shape.pieces) THEN TryCut(shape, best[i - 1], i) ELSE best[i - 1]
  IN  best[last]

Strongest(candidates) ==
  LET best[k \in 0 .. Len(candidates)] ==
        IF k = 0 THEN Nil
        ELSE IF BetterTiling(candidates[k], best[k - 1]) THEN candidates[k] ELSE best[k - 1]
  IN  best[Len(candidates)]

BestTiling ==
  LET best == Strongest(shapes)
      relaxed == RelaxTail(best)
  IN  IF best = Nil \/ Count(best.match) = N \/ relaxed = Nil THEN best ELSE relaxed

(***************************************************************************)
(* tiledUnion                                                              *)
(***************************************************************************)

AddBranch(u, c) ==
  LET gained == c.match \cap u.remaining IN
  IF \/ Len(u.branches) >= MaxBranches \/ Promoted(c.pieces) < 1
     \/ Count(gained) < MinBranchLines
  THEN u
  ELSE [branches |-> Append(u.branches, c), remaining |-> u.remaining \ gained]

\* Shapes by descending match count, in shape order where equal.
ByMatched ==
  LET Before(i, j) == \/ Count(shapes[i].match) > Count(shapes[j].match)
                      \/ Count(shapes[i].match) = Count(shapes[j].match) /\ i < j
      indices == DOMAIN shapes
      order == InOrder(indices, {p \in indices \X indices : Before(p[1], p[2])})
  IN  [k \in DOMAIN order |-> shapes[order[k]]]

\* The union's answer, or Nil; its pattern matches what one of the branches does.
TiledUnion(bestMatched) ==
  LET taken[k \in 0 .. Len(shapes)] ==
        IF k = 0 THEN [branches |-> <<>>, remaining |-> Lines]
        ELSE AddBranch(taken[k - 1], ByMatched[k])
      branches == taken[Len(shapes)].branches
      match == UNION {c.match : c \in ToSet(branches)}
  IN  IF \/ Len(shapes) < 2 \/ Len(branches) < 2
         \/ ~AtLeast(Count(match), 90) \/ ~AtLeast(Count(match) - bestMatched, 15)
      THEN Nil
      ELSE [match |-> match, branches |-> branches]

(***************************************************************************)
(* tryTiling                                                               *)
(***************************************************************************)
Informative(c) ==
  Promoted(c.pieces) >= 1 \/ (LiteralKeywords(c.pieces) > 0 /\ Typed(c.pieces) >= 2)

\* Too few lines are no evidence of a format; the code looks before it tiles.
TryTiling ==
  LET best == BestTiling
      matched == Count(best.match)
      weakShort == N < ShortLines /\ (~AtLeast(matched, 85) \/ LiteralKeywords(best.pieces) = 0)
  IN  IF N < MinLines \/ best = Nil THEN Nil
      ELSE IF ~AtLeast(matched, 85) /\ TiledUnion(matched) # Nil THEN TiledUnion(matched)
      ELSE IF weakShort \/ ~AtLeast(matched, 50) \/ ~Informative(best) THEN Nil
      ELSE best

TileInit ==
  /\ input = Nil /\ tpc = "pick"
  /\ templates = <<>> /\ shapes = <<>> /\ tiled = Nil

PickTemplates ==
  /\ tpc = "pick"
  /\ input' \in Inputs /\ templates' = PickTemplateLines(input')
  /\ tpc' = "build"
  /\ UNCHANGED <<shapes, tiled>>

\* A tiling that does not even match its template is dropped.
BuildTiling ==
  /\ tpc = "build" /\ templates # <<>>
  /\ LET template == Head(templates)
         pieces == InferPieces(input, template)
         shape == [template |-> template, pieces |-> pieces, match |-> Match(pieces)]
     IN  shapes' = IF MatchesLine(pieces, template) THEN Append(shapes, shape) ELSE shapes
  /\ templates' = Tail(templates)
  /\ UNCHANGED <<input, tpc, tiled>>

Choose ==
  /\ tpc = "build" /\ templates = <<>>
  /\ tiled' = TryTiling /\ tpc' = "tiled"
  /\ UNCHANGED <<input, templates, shapes>>

TileNext == PickTemplates \/ BuildTiling \/ Choose

(***************************************************************************)
(* Properties                                                              *)
(***************************************************************************)
\* The control state; a shape matches its own template, and the answer's matches
\* are lines.
TileTypeOK ==
  /\ tpc \in {"pick", "build", "tiled"}
  /\ \A k \in DOMAIN shapes : \E i \in shapes[k].match : input[i] = shapes[k].template
  /\ tiled # Nil => tiled.match \subseteq Lines

\* At every slot, line i shows a value that the statistics kept.
KeptValues(lines, template, i) ==
  \A u \in DOMAIN template :
    LET st == Stats(lines, template, u) IN
    st.overflow => Contains(st.distinct, lines[i][u])

\* What population typing promises (tiler.go 475-479): the pattern of a template
\* matches every line it was learned from, whatever placeholders, separators and
\* constants its columns mix; and where a slot showed more values than are kept,
\* every line whose value is one of those kept ("voting uses the capped set").
PopulationMatched ==
  tpc = "build" => \A k \in DOMAIN shapes :
    \A i \in Aligned(input, shapes[k].template) :
      KeptValues(input, shapes[k].template, i) => i \in shapes[k].match

\* Neither relaxing nor a union nor the honesty gates lose coverage: an answer
\* covers at least what any shape does, and a shape with a promoted field that
\* covers most, half the lines or more, is never without an answer (tiler.go
\* 1030-1046, 1322-1360; the gate looks at the best shape after it is chosen).
AnswerCoversBest ==
  tpc = "tiled" =>
    \A c \in ToSet(shapes) :
      /\ tiled # Nil => Count(tiled.match) >= Count(c.match)
      /\ /\ N >= ShortLines /\ AtLeast(Count(c.match), 50) /\ Promoted(c.pieces) > 0
         /\ \A d \in ToSet(shapes) : Count(d.match) <= Count(c.match)
         => tiled # Nil

\* The tail is relaxed exactly where a cut buys the margin, and at the best one
\* (tiler.go 1047-1107): none covers more, and of those that cover as much none has
\* more promoted fields, or as many and fewer speculative ones.  A longer prefix
\* that covers as much is passed over only for the speculative fields it adds, so
\* constant separators stay out of the message.  "On equal coverage the longest
\* prefix wins" (1057-1058) is thus so only where the longer one adds no field.
RelaxedIsBest ==
  LET best == Strongest(shapes)
      relaxed == RelaxTail(best)
      Worth(i) == Count(Relaxed(best.pieces, i).match) >= Count(best.match) + Margin
  IN  tpc = "build" /\ templates = <<>> /\ best # Nil =>
        IF \E i \in Cuts(best.pieces) : Worth(i)
        THEN /\ relaxed # Nil
             /\ \A i \in Cuts(best.pieces) :
                  LET other == Relaxed(best.pieces, i) IN
                  /\ Count(other.match) <= Count(relaxed.match)
                  /\ Count(other.match) = Count(relaxed.match) =>
                       /\ Promoted(other.pieces) <= Promoted(relaxed.pieces)
                       /\ Promoted(other.pieces) = Promoted(relaxed.pieces) =>
                            LitFields(other.pieces) >= LitFields(relaxed.pieces)
                       /\ i > Len(relaxed.pieces) =>
                            LitFields(other.pieces) > LitFields(relaxed.pieces)
        ELSE relaxed = Nil

\* A union is a union of formats: every branch explains at least two lines that
\* no branch before it does, so none is a one-off or a repetition of the others
\* (tiler.go 1242-1245).
BranchesPay ==
  tiled # Nil /\ "branches" \in DOMAIN tiled =>
    \A k \in DOMAIN tiled.branches :
      LET before == UNION {tiled.branches[j].match : j \in 1 .. k - 1}
      IN  Count(tiled.branches[k].match \ before) >= MinBranchLines

=============================================================================
