--------------------------------- MODULE TopK ---------------------------------
(***************************************************************************)
(* DiscoverTopK and deriveSafeFallback (internal/pattern/discovery.go):    *)
(* the list of suggestions and the answer of last resort, over the eval    *)
(* lines of SeqScan.                                                       *)
(***************************************************************************)
EXTENDS Candidates

CONSTANT DefaultK  \* 5 in the code

ASSUME TopKAssumption == DefaultK \in Nat \ {0}

Upto(s, n) == SubSeq(s, 1, Min({n, Len(s)}))

\* A stage's candidate over the eval lines, if it has one.
Counted(family, c) == IF c = Nil THEN Nil ELSE Found(family, c, SeqCount(c.match))

\* DiscoverTopK: the library's candidates in sample order, without those that
\* match no eval line, then a structured and an inferred one while there is room.
DiscoverTopK(k, library, structured, inferred) ==
  LET wanted == IF k <= 0 THEN DefaultK ELSE k
      hits == Picked(library, {i \in DOMAIN library : library[i].match # {}})
      named == [i \in DOMAIN Upto(hits, wanted) |-> Counted("library", hits[i])]
      WithOne(s, c) == IF Len(s) < wanted /\ c # Nil THEN Append(s, c) ELSE s
  IN  WithOne(WithOne(named, structured), inferred)

(***************************************************************************)
(* deriveSafeFallback.  A candidate compiles or not; the last is the       *)
(* message pattern.  The state of the loop is the answer so far.           *)
(***************************************************************************)
Enough(found) == 100 * found.matched >= 80 * N

\* Mutant: the message pattern wins a tie.
LastResortTies(cur, c) ==
  LET found == Counted("fallback", c) IN
  IF c.last THEN IF cur.best = Nil \/ cur.best.matched <= found.matched
                 THEN [best |-> found, settled |-> TRUE]
                 ELSE [cur EXCEPT !.settled = TRUE]
  ELSE IF Enough(found) THEN [best |-> found, settled |-> TRUE]
  ELSE [cur EXCEPT !.best = PickBetter(@, found)]

Consider(cur, c) ==
  LET found == Counted("fallback", c) IN
  IF c.last THEN IF cur.best = Nil \/ cur.best.matched < found.matched
                 THEN [best |-> found, settled |-> TRUE]
                 ELSE [cur EXCEPT !.settled = TRUE]
  ELSE IF Enough(found) THEN [best |-> found, settled |-> TRUE]
  ELSE [cur EXCEPT !.best = PickBetter(@, found)]

\* Nil where the code panics: no candidate compiles.
DeriveSafeFallback(candidates) ==
  LET cur[k \in 0 .. Len(candidates)] ==
        IF k = 0 THEN [best |-> Nil, settled |-> FALSE]
        ELSE IF cur[k - 1].settled \/ ~candidates[k].compiles THEN cur[k - 1]
        ELSE Consider(cur[k - 1], candidates[k])
  IN  cur[Len(candidates)].best

=============================================================================
