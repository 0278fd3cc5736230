----------------------------- MODULE MCDiscovery -----------------------------
(***************************************************************************)
(* Discovery over three lines, with the candidates that tell its rules     *)
(* apart: none, some or all lines matched, with and without typed captures,*)
(* specific, generic and tied library entries.                             *)
(***************************************************************************)
EXTENDS Discovery

Candidate(match, typed) ==
  [match |-> match, typed |-> typed, specificity |-> 0, priority |-> 0, generic |-> FALSE]

Entry(match, typed, specificity, priority) ==
  [match |-> match, typed |-> typed, specificity |-> specificity,
   priority |-> priority, generic |-> FALSE]

AtMost(n, S) == {<<>>} \cup UNION {[1 .. k -> S] : k \in 1 .. n}

MCStructuredInputs ==
  AtMost(1, {Candidate(m, t) : m \in {{}, {0}, {0, 1}, Lines}, t \in {0, 1}})
    \cup {<<Candidate({0}, 1), Candidate({0, 1}, 0)>>}

MCLibraryEntries ==
  {Entry({}, 1, 1, 1), Entry({0, 1}, 2, 1, 2), [Entry({1, 2}, 2, 2, 3) EXCEPT !.generic = TRUE],
   Entry({0}, 2, 2, 4), Entry({1, 2}, 1, 2, 5), Entry(Lines, 1, 1, 6),
   Entry(Lines, 3, 0, 7), Entry({0, 2}, 3, 1, 8)}

MCLibraryInputs == {S \in SUBSET MCLibraryEntries : Cardinality(S) <= 3}

MCInferredInputs ==
  AtMost(1, {Candidate(m, 1) : m \in {{0, 1}, Lines}})
    \cup {<<Candidate({2}, 2), Candidate({1, 2}, 2)>>,
          <<Candidate({0, 1}, 0), Candidate({1}, 2)>>}

MCSample == {0, 1}

MCFallback == Candidate(Lines, 0)

=============================================================================
