------------------------------ MODULE LineTokens ------------------------------
(***************************************************************************)
(* The core of the web UI (internal/webapi/webapi.go): Run turns a pasted  *)
(* text into the response, with the segments of every line that the page   *)
(* tints by the primitive that matched them.                               *)
(*                                                                         *)
(* A text is the sequence of the kinds of its lines: "text", "textcr" with *)
(* a CR at its end, "blank" of spaces, "cr", "empty", and for a first line *)
(* "bom" and "bomtext", which begin with a byte order mark.  A line with   *)
(* text has LineSize bytes; an interval of them is a pair of offsets.      *)
(***************************************************************************)
EXTENDS GrokExpand, Orders

CONSTANTS
  LineSize,
  MaxTokenLines, MaxTokenBytes  \* 2000 and 500000 in the code

ASSUME TokensAssumption == LineSize \in Nat \ {0} /\ MaxTokenLines \in Nat /\ MaxTokenBytes \in Nat

(***************************************************************************)
(* The lines                                                               *)
(***************************************************************************)
LineKinds == {"text", "textcr", "blank", "cr", "empty", "bom", "bomtext"}

Bytes(kind) ==
  CASE kind = "empty" -> 0
    [] kind = "cr" -> 1
    [] kind \in {"text", "bomtext", "bom", "blank"} -> LineSize
    [] kind = "textcr" -> LineSize + 1

TextBytes(text) == FoldLeft(LAMBDA n, kind : n + Bytes(kind), Len(text) - 1, text)

\* One CR goes from the end of every line, then the empty lines at the end.
SplitLines(text) ==
  LET bare(kind) == CASE kind = "cr" -> "empty" [] kind = "textcr" -> "text" [] OTHER -> kind
      lines == [i \in DOMAIN text |-> bare(text[i])]
      kept == {i \in DOMAIN lines : lines[i] # "empty"}
  IN  SubSeq(lines, 1, IF kept = {} THEN 0 ELSE Max(kept))

HasContent(lines) == \E i \in DOMAIN lines : lines[i] \notin {"blank", "empty"}

NonEmptyCount(lines) == Len(SelectSeq(lines, LAMBDA kind : kind # "empty"))

\* The lines the library counts: the first one loses its mark.
Considered(lines) == {i \in DOMAIN lines : lines[i] \notin {"empty", "bom"}}

(***************************************************************************)
(* groupTokens                                                             *)
(***************************************************************************)
\* The references with a field.  The queue of a name is those with this name that
\* have not given a group their token yet.
FieldRefs(grok) == {i \in DOMAIN grok : grok[i].kind = "ref" /\ grok[i].field # None}

TrimNumSuffix(name) ==
  IF name.suffix = <<>> THEN name ELSE [name EXCEPT !.suffix = Front(@)]

\* The queue a group takes its token from: its name's, or its base's.
Offered(grok, left, name) ==
  LET queue(n) == {i \in left : Sanitized[grok[i].field] = n}
  IN  IF queue(name) # {} THEN queue(name) ELSE queue(TrimNumSuffix(name))

HeadToken(grok, offered) == IF offered = {} THEN None ELSE grok[Min(offered)].prim

\* Mutant: the head of a queue stays there.
GroupTokensKeepHead(grok, groups) ==
  [g \in DOMAIN groups |-> HeadToken(grok, Offered(grok, FieldRefs(grok), groups[g].name))]

\* The token of every group.
GroupTokens(grok, groups) ==
  LET left[g \in 0 .. Len(groups)] ==
        IF g = 0 THEN FieldRefs(grok)
        ELSE LET offered == Offered(grok, left[g - 1], groups[g].name)
             IN  left[g - 1] \ (IF offered = {} THEN {} ELSE {Min(offered)})
  IN  [g \in DOMAIN groups |-> HeadToken(grok, Offered(grok, left[g - 1], groups[g].name))]

(***************************************************************************)
(* segmentsFor.  A span is what a group captured; None for no part.        *)
(***************************************************************************)
Segment(from, to, token, field) == [from |-> from, to |-> to, token |-> token, field |-> field]
Plain(from, to) == Segment(from, to, None, None)

Captured(spans) == {g \in DOMAIN spans : spans[g] # None /\ spans[g][1] < spans[g][2]}

\* Mutant: of spans with one start the shorter is emitted.
InnerSpansFirst(spans) ==
  LET Before(g, h) == \/ spans[g][1] < spans[h][1]
                      \/ spans[g][1] = spans[h][1] /\ spans[g][2] < spans[h][2]
                      \/ spans[g] = spans[h] /\ g < h
      full == Captured(spans)
  IN  InOrder(full, {p \in full \X full : Before(p[1], p[2])})

\* The groups that captured something, outer ones first.
Spans(spans) ==
  LET Before(g, h) == \/ spans[g][1] < spans[h][1]
                      \/ spans[g][1] = spans[h][1] /\ spans[g][2] > spans[h][2]
                      \/ spans[g] = spans[h] /\ g < h
      full == Captured(spans)
  IN  InOrder(full, {p \in full \X full : Before(p[1], p[2])})

\* One span: skipped inside an emitted one, else after the text before it.
Emit(done, span, token, field) ==
  LET gap == IF span[1] > done.pos THEN <<Plain(done.pos, span[1])>> ELSE <<>> IN
  IF span[1] < done.pos THEN done
  ELSE [segs |-> done.segs \o gap \o <<Segment(span[1], span[2], token, field)>>, pos |-> span[2]]

SegmentsFor(size, spans, groups, tokens) ==
  LET order == Spans(spans)
      done[k \in 0 .. Len(order)] ==
        IF k = 0 THEN [segs |-> <<>>, pos |-> 0]
        ELSE LET g == order[k] IN Emit(done[k - 1], spans[g], tokens[g], groups[g].name)
      all == done[Len(order)]
  IN  IF all.pos < size \/ all.segs = <<>>
      THEN Append(all.segs, Plain(all.pos, size))
      ELSE all.segs

LinePayload(matched, segments) == [matched |-> matched, segments |-> segments]

\* BuildLineTokens; `spans` gives what the regexp captures on every line, None
\* for a line it does not match.
BuildLineTokens(grok, extras, lines, spans) ==
  LET compiled == CompileGrok(grok, extras)
      tokens == GroupTokens(grok, compiled.groups)
      Payload(i) ==
        IF lines[i] = "empty" THEN LinePayload(FALSE, <<Plain(0, 0)>>)
        ELSE IF spans[i] = None THEN LinePayload(FALSE, <<Plain(0, LineSize)>>)
        ELSE LinePayload(TRUE, SegmentsFor(LineSize, spans[i], compiled.groups, tokens))
  IN  IF compiled.err # "none" THEN None ELSE [i \in DOMAIN lines |-> Payload(i)]

(***************************************************************************)
(* Run                                                                     *)
(***************************************************************************)
NoContent(text) == ~HasContent(SplitLines(text)) \/ Considered(SplitLines(text)) = {}

\* The lines get segments only in a text of bounded size.
Tokenised(text) ==
  /\ Len(SplitLines(text)) <= MaxTokenLines
  /\ TextBytes(text) <= MaxTokenBytes

\* The response for a text whose pattern is `grok` with `extras` and which
\* captures `spans`.
Response(text, grok, extras, spans) ==
  LET lines == SplitLines(text) IN
  [grok  |-> grok, extras |-> extras,
   lines |-> IF Tokenised(text) THEN BuildLineTokens(grok, extras, lines, spans) ELSE None,
   total |-> Cardinality(Considered(lines)),
   count |-> NonEmptyCount(lines)]

=============================================================================
