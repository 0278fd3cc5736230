------------------------------ MODULE Discovery ------------------------------
(***************************************************************************)
(* Discover (internal/pattern/discovery.go 79-227): three stages run       *)
(* concurrently, each in a goroutine that scans its candidates one after   *)
(* another and sends its best on a channel of capacity 1; the coordinator  *)
(* receives in stage-priority order, returns as soon as an answer is       *)
(* settled and aborts the scans of the stages it will not read.            *)
(*                                                                         *)
(* Candidates, their counts and their order are those of Candidates.  How  *)
(* a stage comes by its candidates is data here: each is an input.         *)
(***************************************************************************)
EXTENDS Candidates

CONSTANTS
  StructuredInputs, \* the sequences of structured candidates to consider
  LibraryInputs,    \* the sets of library entries to consider
  InferredInputs,   \* sequences: the tiling first, the text envelope second
  Top,              \* library candidates kept for the full scan
  SampleFloor,      \* sample lines a kept candidate must match
  Threshold,        \* lines that make opts.LibraryThreshold
  InferredMin,      \* lines that make tilingMinCoverage, textEnvelopeMinCoverage
  Fallback          \* the candidate deriveSafeFallback settles on

Stages == {"structured", "library", "inferred"}

CandidateSet ==
  [match : SUBSET Lines, typed : Nat, specificity : Int, priority : Int, generic : BOOLEAN]
FoundSet == [family : Stages \cup {"fallback"}, candidate : CandidateSet, matched : 0 .. N]

\* Nil is neither a found candidate nor what a stage sends.
ASSUME DiscoveryAssumption ==
  /\ StructuredInputs \cup InferredInputs \subseteq Seq(CandidateSet)
  /\ \A entries \in LibraryInputs : IsFiniteSet(entries) /\ entries \subseteq CandidateSet
  /\ Top \in Nat \ {0}
  /\ SampleFloor \in Nat
  /\ Threshold \in 1 .. N + 1
  /\ InferredMin \in Nat
  /\ Fallback \in CandidateSet
  /\ Nil \notin FoundSet
  /\ Nil \notin [found : FoundSet \cup {Nil}, accept : BOOLEAN, diag : Seq(Stages \X (0 .. N))]

VARIABLES
  probes,      \* input: the candidates each stage scans, in order
  at,          \* the candidate each stage scans next
  best,        \* the best candidate of each stage so far
  buf,         \* each stage's diagnostics: the counts it logged
  aborted,     \* the stages' ctl tokens
  chan,        \* the stages' channels
  exited,      \* the stages whose goroutine is gone
  coordinator, \* the stage whose channel is received next, or "done"
  got,         \* what the coordinator received
  answer,      \* what Discover returned
  diag         \* the diagnostics Discover wrote

stageVars == <<at, best, buf, exited>>
vars == <<probes, stageVars, aborted, chan, coordinator, got, answer, diag>>

(***************************************************************************)
(* A stage                                                                 *)
(***************************************************************************)
\* The entries as keepTopCandidates sorts them.
Ranked(entries) ==
  LET places == 1 .. Cardinality(entries) IN
  {ranked \in [places -> entries] :
     \A i, j \in places : i < j => ranked[i] # ranked[j] /\ ~ LibraryOrder(ranked[j], ranked[i])}

\* The Top first, less those under the sample floor, which are the last of them.
LibraryProbes(ranked) ==
  LET kept == {i \in DOMAIN ranked : i <= Top /\ SampleCount(ranked[i]) >= SampleFloor}
  IN  [i \in 1 .. Cardinality(kept) |-> ranked[i]]

\* Mutant: a floor one too high.
FloorTooHigh(stage, cur) ==
  IF stage = "library" /\ cur # Nil THEN cur.matched + 1 ELSE -1

\* Only the library prunes, with the best count so far.
Floor(stage, cur) ==
  IF stage = "library" /\ cur # Nil THEN cur.matched ELSE -1

\* The count of a scan that runs to its end.
FullCount(stage, c, cur) == SeqFloor(c.match, Floor(stage, cur))

\* The best candidate after c was counted.  An inferred candidate below the
\* minimum is dropped.
BestAfter(stage, cur, c, n) ==
  CASE stage = "library" ->
         IF BetterCandidate(Found(stage, c, n), cur) THEN Found(stage, c, n) ELSE cur
    [] stage = "inferred" /\ n < InferredMin -> cur
    [] OTHER -> PickBetter(cur, Found(stage, c, n))

\* The scan of one candidate; an aborted scan may stop with any partial count.
Scan(s) ==
  /\ at[s] <= Len(probes[s])
  /\ LET c == probes[s][at[s]]
         full == FullCount(s, c, best[s])
     IN \E n \in (IF aborted[s] THEN 0 .. full ELSE {full}) :
          /\ best' = [best EXCEPT ![s] = BestAfter(s, @, c, n)]
          /\ buf' = [buf EXCEPT ![s] = Append(@, <<s, n>>)]
  /\ at' = [at EXCEPT ![s] = @ + 1]
  /\ UNCHANGED <<probes, aborted, chan, exited, coordinator, got, answer, diag>>

Covers(found) == found # Nil /\ found.matched >= Threshold

Accepts(s, found) ==
  /\ Covers(found)
  /\ CASE s = "structured" -> found.candidate.typed > 0
       [] s = "library" -> ~ found.candidate.generic /\ found.candidate.typed >= 2
       [] OTHER -> TRUE

\* Mutant: the channel has no buffer, so the send waits for the coordinator.
FinishUnbuffered(s) ==
  /\ s \notin exited
  /\ at[s] > Len(probes[s])
  /\ coordinator = s
  /\ chan' = [chan EXCEPT ![s] = [found |-> best[s], accept |-> Accepts(s, best[s]),
                                  diag |-> buf[s]]]
  /\ exited' = exited \cup {s}
  /\ UNCHANGED <<probes, at, best, buf, aborted, coordinator, got, answer, diag>>

\* The only send on the channel finds room, and the goroutine is gone.
Finish(s) ==
  /\ s \notin exited
  /\ at[s] > Len(probes[s])
  /\ chan' = [chan EXCEPT ![s] = [found |-> best[s], accept |-> Accepts(s, best[s]),
                                  diag |-> buf[s]]]
  /\ exited' = exited \cup {s}
  /\ UNCHANGED <<probes, at, best, buf, aborted, coordinator, got, answer, diag>>

(***************************************************************************)
(* The coordinator                                                         *)
(***************************************************************************)
Receive(s) ==
  /\ coordinator = s
  /\ chan[s] # Nil
  /\ chan' = [chan EXCEPT ![s] = Nil]
  /\ got' = [got EXCEPT ![s] = chan[s]]

AbortStages(S) == aborted' = [s \in Stages |-> aborted[s] \/ s \in S]

\* abortStage of the stages that are not read, flushDiag of those that were.
Return(found, flushed, losers) ==
  /\ AbortStages(losers)
  /\ diag' = flushed
  /\ answer' = found
  /\ coordinator' = "done"

Continue(s) ==
  /\ coordinator' = s
  /\ UNCHANGED <<aborted, answer, diag>>

\* Mutant: a structured candidate that exists at all aborts the inferred stage.
ReadStructuredAbortsEarly ==
  /\ Receive("structured")
  /\ LET r == chan["structured"] IN
     IF r.accept
     THEN Return(r.found, r.diag, {"library", "inferred"})
     ELSE /\ coordinator' = "library"
          /\ AbortStages(IF r.found = Nil THEN {} ELSE {"inferred"})
          /\ UNCHANGED <<answer, diag>>
  /\ UNCHANGED <<probes, stageVars>>

ReadStructured ==
  /\ Receive("structured")
  /\ LET r == chan["structured"] IN
     IF r.accept
     THEN Return(r.found, r.diag, {"library", "inferred"})
     ELSE Continue("library")
  /\ UNCHANGED <<probes, stageVars>>

\* The library's answer, then a contentless structured candidate, then a
\* generic library candidate; otherwise the inferred stage is needed.
ReadLibrary ==
  /\ Receive("library")
  /\ LET structured == got["structured"]
         library == chan["library"]
         flushed == structured.diag \o library.diag
     IN IF library.accept
        THEN Return(library.found, flushed, {"inferred"})
        ELSE IF Covers(structured.found)
        THEN Return(structured.found, flushed, {"inferred"})
        ELSE IF Covers(library.found)
        THEN Return(library.found, flushed, {"inferred"})
        ELSE Continue("inferred")
  /\ UNCHANGED <<probes, stageVars>>

\* The best of all stages, and the safe fallback when it matches nothing.
BestOfAll(structured, library, inferred) ==
  LET pick == PickBetter(PickBetter(structured, library), inferred) IN
  IF pick # Nil /\ pick.matched > 0 THEN pick
  ELSE Found("fallback", Fallback, SeqCount(Fallback.match))

ReadInferred ==
  /\ Receive("inferred")
  /\ LET inferred == chan["inferred"] IN
     Return(IF inferred.accept THEN inferred.found
            ELSE BestOfAll(got["structured"].found, got["library"].found, inferred.found),
            got["structured"].diag \o got["library"].diag \o inferred.diag, {})
  /\ UNCHANGED <<probes, stageVars>>

-----------------------------------------------------------------------------
Init ==
  /\ \E s \in StructuredInputs, l \in LibraryInputs, i \in InferredInputs :
     \E ranked \in Ranked(l) :
       probes = [structured |-> s, library |-> LibraryProbes(ranked), inferred |-> i]
  /\ at = [s \in Stages |-> 1]
  /\ best = [s \in Stages |-> Nil]
  /\ buf = [s \in Stages |-> <<>>]
  /\ aborted = [s \in Stages |-> FALSE]
  /\ chan = [s \in Stages |-> Nil]
  /\ exited = {}
  /\ coordinator = "structured"
  /\ got = [s \in Stages |-> Nil]
  /\ answer = Nil
  /\ diag = <<>>

StageStep(s) == Scan(s) \/ Finish(s)

Coordinate == ReadStructured \/ ReadLibrary \/ ReadInferred

Next == Coordinate \/ \E s \in Stages : StageStep(s)

\* Every goroutine runs until it blocks.
Fairness == WF_vars(Coordinate) /\ \A s \in Stages : WF_vars(StageStep(s))

Spec == Init /\ [][Next]_vars /\ Fairness

-----------------------------------------------------------------------------
(***************************************************************************)
(* The stages one after another, each to its end                           *)
(***************************************************************************)
\* One candidate more, of a stage that is not cut short.
RunStep(s, c, prev) ==
  LET full == FullCount(s, c, prev.best) IN
  [best |-> BestAfter(s, prev.best, c, full), buf |-> Append(prev.buf, <<s, full>>)]

\* What stage s has found and logged after each of the candidates p.
SeqRun(s, p) ==
  LET run[k \in 0 .. Len(p)] ==
        IF k = 0 THEN [best |-> Nil, buf |-> <<>>] ELSE RunStep(s, p[k], run[k - 1])
  IN run

SeqBest(s, p) == SeqRun(s, p)[Len(p)].best
SeqBuf(s, p) == SeqRun(s, p)[Len(p)].buf

\* What Discover returns and the stages whose diagnostics it writes when each
\* stage starts only once the one before has not settled the answer.
Sequential ==
  LET Best(s) == SeqBest(s, probes[s])
      Buf(s) == SeqBuf(s, probes[s])
      S == Best("structured")  L == Best("library")  I == Best("inferred")
      two == Buf("structured") \o Buf("library")
  IN
  CASE Accepts("structured", S) -> <<S, Buf("structured")>>
    [] ~ Accepts("structured", S) /\ Accepts("library", L) -> <<L, two>>
    [] ~ Accepts("structured", S) /\ ~ Accepts("library", L) /\ Covers(S) -> <<S, two>>
    [] ~ Accepts("library", L) /\ ~ Covers(S) /\ Covers(L) -> <<L, two>>
    [] OTHER -> <<IF Accepts("inferred", I) THEN I ELSE BestOfAll(S, L, I),
                  two \o Buf("inferred")>>

(***************************************************************************)
(* Properties                                                              *)
(***************************************************************************)
FoundBy(s, found) ==
  \/ found = Nil
  \/ /\ found.family = s /\ found.matched \in 0 .. N
     /\ \E i \in 1 .. Len(probes[s]) : found.candidate = probes[s][i]

\* Types; a stage's candidates come from its own probes, and nothing is
\* received before it was sent.
TypeOK ==
  /\ \A s \in Stages :
       /\ at[s] \in 1 .. Len(probes[s]) + 1
       /\ FoundBy(s, best[s])
       /\ Len(buf[s]) = at[s] - 1
       /\ chan[s] # Nil => s \in exited /\ got[s] = Nil /\ FoundBy(s, chan[s].found)
       /\ got[s] # Nil => s \in exited /\ FoundBy(s, got[s].found)
  /\ aborted \in [Stages -> BOOLEAN]
  /\ exited \subseteq Stages
  /\ coordinator \in Stages \cup {"done"}
  /\ (coordinator = "done") = (answer # Nil)

\* "Auto-accept follows stage priority, not finish order", "Diagnostics ordering"
\* and "Determinism: identical input always yields the same DiscoveredPattern"
\* (README.md 273-279): whatever the schedule, Discover returns and writes what
\* the stages would one after another; nothing of a cut-short scan leaks.
Deterministic == coordinator = "done" => <<answer, diag>> = Sequential

\* The candidates of stage s that could become its best.
Considered(s) ==
  {c \in Range(probes[s]) : s = "inferred" => SeqCount(c.match) >= InferredMin}

\* No schedule, floor or abort makes Discover settle for less than it has seen:
\* if any candidate covers the threshold then the answer does, and otherwise no
\* candidate matches more lines than the answer (discovery.go 172-226).
NothingBetterMissed ==
  coordinator = "done" =>
    \A s \in Stages : \A c \in Considered(s) :
      \/ answer.matched >= Threshold
      \/ SeqCount(c.match) < Threshold /\ SeqCount(c.match) <= answer.matched

\* "aborted partial counts would poison pickBetter" (discovery_test.go 291-292):
\* the matched count Discover reports is the true count of its pattern, never
\* the partial of a pruned or a cancelled scan.
ReportedCountExact ==
  coordinator = "done" => answer.matched = SeqCount(answer.candidate.match)

\* Discover returns, and no stage's goroutine is left behind, read or not
\* ("their channels are buffered (capacity 1) so they exit cleanly without being
\* read", discovery.go 119-122).
NothingLeaks == <>(coordinator = "done" /\ exited = Stages)

\* At every moment each stage has what it is sent for, and the count in the end
\* is a true one (discovery.go 79-226).
CountsSound == TypeOK /\ ReportedCountExact

=============================================================================
