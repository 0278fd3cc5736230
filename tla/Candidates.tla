------------------------------ MODULE Candidates ------------------------------
(***************************************************************************)
(* The candidates of discovery and the orders the code puts them in        *)
(* (internal/pattern discovery.go, score.go), over the eval lines of       *)
(* SeqScan.                                                                *)
(*                                                                         *)
(* A candidate is a record: match, the lines its regexp matches; typed,    *)
(* its typedCaptureCount; specificity, priority and generic (a "Generic "  *)
(* name), which only the library looks at.  Coverage is compared as a      *)
(* count of lines.                                                         *)
(***************************************************************************)
EXTENDS SeqScan, Orders, SequencesExt, FiniteSetsExt

CONSTANTS
  Sample,  \* lines the library is scored on
  Nil

ASSUME CandidatesAssumption == Sample \subseteq Lines

\* A DiscoveredPattern, or a candidateResult.
Found(stage, c, n) == [family |-> stage, candidate |-> c, matched |-> n]

FamilyRank(family) ==
  CASE family = "library" -> 0
    [] family = "structured" -> 1
    [] family = "inferred" -> 2
    [] OTHER -> 3

\* Mutant: typed captures come before the matched count.
BeatsTypedFirst(b, a) ==
  \/ b.candidate.typed > a.candidate.typed
  \/ b.candidate.typed = a.candidate.typed /\ b.matched > a.matched

\* pickBetter's reasons to take b over a.
Beats(b, a) ==
  \/ b.matched > a.matched
  \/ /\ b.matched = a.matched
     /\ \/ b.candidate.typed > a.candidate.typed
        \/ /\ b.candidate.typed = a.candidate.typed
           /\ FamilyRank(b.family) < FamilyRank(a.family)

PickBetter(a, b) ==
  CASE a = Nil -> b
    [] b = Nil -> a
    [] OTHER -> IF Beats(b, a) THEN b ELSE a

\* betterCandidate; the count of GREEDYDATA references is left out.
BetterCandidate(next, cur) ==
  \/ cur = Nil
  \/ next.matched > cur.matched
  \/ /\ next.matched = cur.matched
     /\ LET n == next.candidate  c == cur.candidate IN
        \/ n.typed > c.typed
        \/ n.typed = c.typed /\ n.specificity > c.specificity
        \/ n.typed = c.typed /\ n.specificity = c.specificity /\ n.priority < c.priority

SampleCount(c) == Cardinality(c.match \cap Sample)

\* keepTopCandidates.
LibraryOrder(a, b) ==
  \/ SampleCount(a) > SampleCount(b)
  \/ /\ SampleCount(a) = SampleCount(b)
     /\ \/ a.specificity > b.specificity
        \/ a.specificity = b.specificity /\ a.priority < b.priority

\* The library candidates that keepTopCandidates keeps, ties in library order.
KeptLibrary(library, n) ==
  LET indices == DOMAIN library
      Before(i, j) == \/ LibraryOrder(library[i], library[j])
                      \/ ~LibraryOrder(library[j], library[i]) /\ i < j
      ranked == InOrder(indices, {p \in indices \X indices : Before(p[1], p[2])})
  IN  [k \in 1 .. Min({n, Len(ranked)}) |-> library[ranked[k]]]

=============================================================================
