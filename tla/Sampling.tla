------------------------------- MODULE Sampling -------------------------------
(***************************************************************************)
(* What discovery does to its input before and after the candidates are    *)
(* counted: limitLines, normalizeLines, chooseSample, ratio and finalize   *)
(* (internal/pattern discovery.go, score.go).  A sequence of lines is      *)
(* sampled by its indices.                                                 *)
(*                                                                         *)
(* chooseSample and finalize compute with float64.  A product that is      *)
(* exactly an integer (or, before + 0.5, a half) may come out just below   *)
(* it when the quotient it is made from has no exact float64; both results *)
(* are considered.                                                         *)
(***************************************************************************)
EXTENDS Orders, SequencesExt, FiniteSetsExt

CONSTANT FirstLines  \* lines taken from the start: 1024 in the code

ASSUME SamplingAssumption == FirstLines \in Nat \ {0}

(***************************************************************************)
(* Before: the lines that count                                            *)
(***************************************************************************)
LimitLines(lines, max) ==
  IF max > 0 /\ Len(lines) > max
  THEN [lines |-> SubSeq(lines, 1, max), truncated |-> TRUE]
  ELSE [lines |-> lines, truncated |-> FALSE]

\* The first line loses its byte order mark, which may leave it empty; empty
\* lines are dropped.
NormalizeLines(lines) ==
  LET unmarked == [i \in DOMAIN lines |->
        IF i = 1 /\ lines[i] = "bom" THEN "empty" ELSE lines[i]]
  IN  Picked(unmarked, {i \in DOMAIN lines : unmarked[i] # "empty"})

(***************************************************************************)
(* chooseSample                                                            *)
(***************************************************************************)
\* Mutant: the step is an integer.
StrideWhole(rest, remaining, i) == {i * (rest \div remaining)}

\* int(float64(i) * (float64(rest) / float64(remaining))).
Stride(rest, remaining, i) ==
  LET exact == (i * rest) \div remaining IN
  IF (i * rest) % remaining = 0 /\ rest % remaining # 0 /\ i > 0
  THEN {exact, exact - 1}
  ELSE {exact}

LineAt(first, offset, n) == Min({first + offset + 1, n})

\* The samples of max lines out of n, as sequences of indices.
ChooseSample(n, max) ==
  IF max <= 0 \/ n = 0 THEN {<<>>}
  ELSE IF n <= max THEN {[i \in 1 .. n |-> i]}
  ELSE LET first == Min({FirstLines, max, n})
           remaining == max - first
           Offsets == [0 .. remaining - 1 -> 0 .. n]
       IN  {[i \in 1 .. max |-> IF i <= first THEN i ELSE LineAt(first, o[i - first - 1], n)] :
              o \in {f \in Offsets : \A k \in DOMAIN f : f[k] \in Stride(n - first, remaining, k)}}

(***************************************************************************)
(* After: the figures of the whole input                                   *)
(***************************************************************************)
\* int(float64(total) * (matched / evalLines) + 0.5); `below` says that a sum
\* that should be an integer comes out below it.
Rescaled(total, matched, evalLines, below) ==
  LET sum == 2 * total * matched + evalLines
      tie == sum % (2 * evalLines) = 0 /\ matched % evalLines # 0
  IN  sum \div (2 * evalLines) - (IF tie /\ below THEN 1 ELSE 0)

\* finalize of a pattern that matched so many of the eval lines.
Finalize(total, matched, evalLines, estimated, below) ==
  IF estimated
  THEN [matched |-> Rescaled(total, matched, evalLines, below), total |-> total]
  ELSE [matched |-> matched, total |-> evalLines]

=============================================================================
