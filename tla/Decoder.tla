------------------------------- MODULE Decoder -------------------------------
(***************************************************************************)
(* Decoder (pkg/log2grok/decoder.go): Decode, DecodeConcurrent with its    *)
(* workers and done channel, and DecodeReader with its callback.           *)
(*                                                                         *)
(* Lines are their indices; what the regexp says of a line is an input,    *)
(* the set `hits`.  The callback and the reader may fail at any line.      *)
(***************************************************************************)
EXTENDS Naturals, Integers, SequencesExt, FiniteSetsExt

CONSTANTS
  NumCPU,         \* runtime.NumCPU()
  MinBatch,       \* concurrentDecodeMinBatch: 512 in the code
  WorkerRequests  \* the `workers` arguments to consider

ASSUME DecoderAssumption ==
  /\ NumCPU \in Nat \ {0} /\ MinBatch \in Nat \ {0}
  /\ WorkerRequests \subseteq Int

VARIABLES
  count,     \* input: len(lines), or the lines the reader has
  hits,      \* input: the lines the regexp matches
  dpc,       \* "idle", "reading", "decoding" or "returned"
  pos,       \* each worker's next index; the reader's is worker 0
  running,   \* the workers that have not sent on done
  done,      \* messages in the done channel
  received,  \* messages the parent took
  results,   \* the result slice; a miss is also what make() puts there
  delivered, \* the results the callback got
  matched, failed, derr \* what DecodeReader returns

decodeVars ==
  <<count, hits, dpc, pos, running, done, received, results, delivered, matched, failed, derr>>

\* decodeOne: a map of the named groups on a match, nil and a reason otherwise.
DecodeOne(i) == IF i \in hits THEN "fields" ELSE "error"
Zero == "zero"

Workers == DOMAIN pos

DecodeInit ==
  /\ count = 0 /\ hits = {} /\ dpc = "idle"
  /\ pos = <<>> /\ running = {} /\ done = 0 /\ received = 0
  /\ results = <<>> /\ delivered = <<>>
  /\ matched = 0 /\ failed = 0 /\ derr = "none"

(***************************************************************************)
(* The calls                                                               *)
(***************************************************************************)
Take(n, matching) == count' = n /\ hits' = matching

\* Decode, which DecodeConcurrent also calls for a small batch.
Decode(n, matching) ==
  /\ dpc = "idle"
  /\ Take(n, matching)
  /\ results' = [i \in 1 .. n |-> DecodeOne(i)']
  /\ dpc' = "returned"
  /\ UNCHANGED <<pos, running, done, received, delivered, matched, failed, derr>>

EffectiveWorkers(n, requested) ==
  Min({n, IF requested <= 0 THEN NumCPU ELSE requested})

DecodeConcurrent(n, matching) ==
  /\ dpc = "idle" /\ n >= MinBatch
  /\ Take(n, matching)
  /\ \E requested \in WorkerRequests :
       LET workers == EffectiveWorkers(n, requested) IN
         pos' = [w \in 1 .. workers |-> w] /\ running' = 1 .. workers
  /\ results' = [i \in 1 .. n |-> Zero]
  /\ dpc' = "decoding"
  /\ UNCHANGED <<done, received, delivered, matched, failed, derr>>

\* A nil reader or callback is refused; otherwise the lines are streamed.
DecodeReader(n, matching) ==
  /\ dpc = "idle"
  /\ Take(n, matching)
  /\ \/ dpc' = "reading" /\ UNCHANGED derr
     \/ dpc' = "returned" /\ derr' = "nil argument"
  /\ UNCHANGED <<pos, running, done, received, results, delivered, matched, failed>>

(***************************************************************************)
(* A worker: its stripe, then one message on the buffered channel          *)
(***************************************************************************)
\* Mutant: a stride that leaves one line between the stripes.
StrideLong(w) ==
  /\ dpc = "decoding" /\ w \in running /\ pos[w] <= count
  /\ results' = [results EXCEPT ![pos[w]] = DecodeOne(pos[w])]
  /\ pos' = [pos EXCEPT ![w] = @ + Cardinality(Workers) + 1]
  /\ UNCHANGED <<count, hits, dpc, running, done, received, delivered, matched, failed, derr>>

DecodeStripe(w) ==
  /\ w \in running /\ pos[w] <= count
  /\ results' = [results EXCEPT ![pos[w]] = DecodeOne(pos[w])]
  /\ pos' = [pos EXCEPT ![w] = @ + Cardinality(Workers)]
  /\ UNCHANGED <<count, hits, dpc, running, done, received, delivered, matched, failed, derr>>

\* Mutant: a worker ends without a message.
WorkerSilent(w) ==
  /\ w \in running /\ pos[w] > count
  /\ running' = running \ {w}
  /\ UNCHANGED <<count, hits, dpc, pos, done, received, results, delivered, matched, failed, derr>>

WorkerDone(w) ==
  /\ w \in running /\ pos[w] > count
  /\ done < Cardinality(Workers)
  /\ done' = done + 1
  /\ running' = running \ {w}
  /\ UNCHANGED <<count, hits, dpc, pos, received, results, delivered, matched, failed, derr>>

ReceiveDone ==
  /\ dpc = "decoding" /\ received < Cardinality(Workers) /\ done > 0
  /\ done' = done - 1 /\ received' = received + 1
  /\ UNCHANGED <<count, hits, dpc, pos, running, results, delivered, matched, failed, derr>>

ReturnResults ==
  /\ dpc = "decoding" /\ received = Cardinality(Workers)
  /\ dpc' = "returned"
  /\ UNCHANGED <<count, hits, pos, running, done, received, results, delivered, matched, failed, derr>>

(***************************************************************************)
(* The reader                                                              *)
(***************************************************************************)
\* Mutant: a line the callback refuses is not counted.
DeliverThenCount ==
  LET i == Len(delivered) + 1 IN
  /\ dpc = "reading" /\ i <= count
  /\ delivered' = Append(delivered, DecodeOne(i))
  /\ \/ /\ matched' = matched + (IF i \in hits THEN 1 ELSE 0)
        /\ failed' = failed + (IF i \in hits THEN 0 ELSE 1)
        /\ UNCHANGED <<dpc, derr>>
     \/ dpc' = "returned" /\ derr' = "callback" /\ UNCHANGED <<matched, failed>>
  /\ UNCHANGED <<count, hits, pos, running, done, received, results>>

\* One line: counted, then given to the callback, whose error ends the call.
Deliver ==
  LET i == Len(delivered) + 1 IN
  /\ dpc = "reading" /\ i <= count
  /\ matched' = matched + (IF i \in hits THEN 1 ELSE 0)
  /\ failed' = failed + (IF i \in hits THEN 0 ELSE 1)
  /\ delivered' = Append(delivered, DecodeOne(i))
  /\ \/ UNCHANGED <<dpc, derr>>
     \/ dpc' = "returned" /\ derr' = "callback"
  /\ UNCHANGED <<count, hits, pos, running, done, received, results>>

\* The end of the input, or the scanner's error.
EndOfInput ==
  /\ dpc = "reading"
  /\ dpc' = "returned"
  /\ \/ Len(delivered) = count /\ UNCHANGED derr
     \/ Len(delivered) < count /\ derr' = "read"
  /\ UNCHANGED <<count, hits, pos, running, done, received, results, delivered, matched, failed>>

DecodeStep ==
  \/ \E w \in Workers : DecodeStripe(w) \/ WorkerDone(w)
  \/ ReceiveDone \/ ReturnResults \/ Deliver \/ EndOfInput

(***************************************************************************)
(* Properties                                                              *)
(***************************************************************************)
DecodeTypeOK ==
  /\ count \in Nat /\ hits \subseteq 1 .. count
  /\ dpc \in {"idle", "reading", "decoding", "returned"}
  /\ running \subseteq Workers
  /\ done + received + Cardinality(running) = Cardinality(Workers)
  /\ derr \in {"none", "nil argument", "callback", "read"}

\* Whatever the number of workers and their schedule, the returned slice is what
\* Decode gives, line for line (decoder.go 148-150: "The output slice preserves
\* input order"), and no worker is left to write to it.
SameAsDecode ==
  dpc = "returned" /\ results # <<>> =>
    results = [i \in 1 .. count |-> DecodeOne(i)] /\ running = {}

\* No two workers are about to write one element, which is why the slice needs
\* no lock (decoder.go 167-169: "each worker writes a disjoint stride").
StripesDisjoint ==
  \A v, w \in running : v # w /\ pos[v] <= count => pos[v] # pos[w]

\* The callback gets the lines in order up to the first it refuses, and the
\* totals count exactly those, also when it or the reader fails (decoder.go
\* 207-219).
TotalsAreDelivered ==
  /\ \A i \in DOMAIN delivered : delivered[i] = DecodeOne(i)
  /\ matched = Cardinality(hits \cap DOMAIN delivered)
  /\ failed = Len(delivered) - matched

=============================================================================
