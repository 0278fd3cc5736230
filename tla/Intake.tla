-------------------------------- MODULE Intake --------------------------------
(***************************************************************************)
(* From a raw log to decoded records: JoinMultiline folds the physical     *)
(* lines, and a caller gives the records to one of Decoder's entry points, *)
(* as multiline.go 33-37 intends.  The pattern matches the records that    *)
(* begin with a header line.                                               *)
(***************************************************************************)
EXTENDS Multiline, Decoder

vars == <<joinVars, decodeVars>>

Init == JoinInit /\ DecodeInit

\* The caller decodes what JoinMultiline returned without an error.
Call ==
  LET headed == {k \in DOMAIN out : raw[out[k][1]] = "head"} IN
  /\ jpc = "returned" /\ jerr = "none"
  /\ \/ Decode(Len(out), headed)
     \/ DecodeConcurrent(Len(out), headed)
     \/ DecodeReader(Len(out), headed)

Next ==
  \/ JoinNext /\ UNCHANGED decodeVars
  \/ (Call \/ DecodeStep) /\ UNCHANGED joinVars

\* The caller's thread runs on, and the scheduler starves no worker.
Fairness ==
  /\ WF_vars(JoinNext /\ UNCHANGED decodeVars)
  /\ WF_vars((Call \/ ReceiveDone \/ ReturnResults \/ Deliver \/ EndOfInput)
             /\ UNCHANGED joinVars)
  /\ \A w \in 1 .. MaxInput :
       WF_vars(w \in Workers /\ (DecodeStripe(w) \/ WorkerDone(w)) /\ UNCHANGED joinVars)

Spec == Init /\ [][Next]_vars /\ Fairness

TypeOK == JoinTypeOK /\ DecodeTypeOK

\* With a header mode every header line of the raw log becomes one decoded
\* record, whatever is folded, full, dropped or decoded by whom: the count of
\* matches is the count of headers (multiline.go 140-162, decoder.go 156-184).
HeadersDecoded ==
  dpc = "returned" /\ cfg.mode = "header" =>
    LET decoded == IF results # <<>> THEN results ELSE delivered
        Headers(n) == Cardinality({i \in 1 .. n : raw[i] = "head"})
        Fields == Cardinality({k \in DOMAIN decoded : decoded[k] = "fields"})
    IN  IF derr = "none" THEN Fields = Headers(Len(raw)) ELSE Fields <= Headers(Len(raw))

\* A log whose lines were folded is decoded to the end or to an error: the done
\* channel has room for every worker and every worker sends once.
CallReturns == (jpc = "returned" /\ jerr = "none") ~> (dpc = "returned")

\* No line with text is lost, doubled or moved on its way into the records, blank
\* ones are there where a record is open, and no record outgrows the limits
\* (JoinMultiline, multiline.go 109-236).
RecordsWhole == TypeOK /\ LinesKept /\ BlankJoined /\ RecordsBounded

\* Decoding by several workers is decoding by one: each record has one writer,
\* its own place, and the fields of its own line (decoder.go 127-184).
ResultsExact == SameAsDecode /\ StripesDisjoint /\ HeadersDecoded

=============================================================================
