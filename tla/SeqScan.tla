------------------------------- MODULE SeqScan -------------------------------
(***************************************************************************)
(* The sequential scans of internal/pattern: the results every parallel    *)
(* scan promises.  Lines are the numbers 0 .. N - 1; a regexp is the set   *)
(* of lines it matches.                                                    *)
(***************************************************************************)
EXTENDS Integers, FiniteSets

CONSTANT N  \* number of lines

ASSUME LinesAssumption == N \in Nat \ {0}

Lines == 0 .. N - 1

\* scanMatchesSeq: one pass over all lines.
SeqCount(match) == Cardinality(match)

HitsUpTo(match, i) == Cardinality(match \cap 0 .. i)

\* After line i, even matching all lines left would not exceed floor.
Prunes(match, floor, i) == HitsUpTo(match, i) + (N - i - 1) <= floor

\* evaluateCoverageWithFloorSeq: the pass ends at the first line that prunes,
\* with the matches so far; a negative floor never prunes.
IsSeqFloor(match, floor, result) ==
  \/ /\ \A i \in Lines : ~ Prunes(match, floor, i)
     /\ result = SeqCount(match)
  \/ \E i \in Lines :
       /\ Prunes(match, floor, i)
       /\ \A j \in 0 .. i - 1 : ~ Prunes(match, floor, j)
       /\ result = HitsUpTo(match, i)

SeqFloor(match, floor) == CHOOSE n \in 0 .. N : IsSeqFloor(match, floor, n)

=============================================================================
