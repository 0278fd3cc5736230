------------------------------ MODULE Multiline ------------------------------
(***************************************************************************)
(* JoinMultiline and JoinMultilineStrings (pkg/log2grok/multiline.go):     *)
(* physical lines are folded into records, a continuation going to the     *)
(* record that is open when it is read.                                    *)
(*                                                                         *)
(* A physical line is its kind: "head" matches Header, "indented" starts   *)
(* with a space or a tab, "body" does neither, "blank" is empty.  The      *)
(* builder `open` holds the indices of the lines written to it; an empty   *)
(* line written to an empty builder leaves it empty, as in the code, where *)
(* open.Len() = 0 stands for "no record is open".                          *)
(***************************************************************************)
EXTENDS Naturals, Integers, SequencesExt, FiniteSetsExt

CONSTANTS
  MaxInput,        \* bound: physical lines of an input
  LineLen,         \* length of a line of each kind; 0 for "blank" only
  CustomKinds,     \* the kinds a caller's IsContinuation accepts
  Configs,         \* the MultilineConfigs to consider
  DefaultMaxLines, \* 100 in the code
  DefaultMaxBytes  \* 1 MiB in the code

Kinds == {"head", "indented", "body", "blank"}

ASSUME MultilineAssumption ==
  /\ MaxInput \in Nat \ {0}
  /\ LineLen \in [Kinds -> Nat] /\ \A k \in Kinds : LineLen[k] = 0 <=> k = "blank"
  /\ CustomKinds \subseteq Kinds
  /\ Configs \subseteq [mode : STRING, given : BOOLEAN, joiner : Nat, maxLines : Int, maxBytes : Int]
  /\ DefaultMaxLines \in Nat \ {0} /\ DefaultMaxBytes \in Nat \ {0}

VARIABLES
  raw,    \* input: the kinds of the physical lines
  entry,  \* input: the function called, "reader" or "strings"
  cfg,    \* input: the configuration, normalised by validate
  jpc,    \* "validate", "scan" or "returned"
  at,     \* the line read next
  open,   \* the lines in the builder
  nLines, \* continuations counted for the open record
  out,    \* the records emitted
  jerr    \* the error returned, or "none"

joinVars == <<raw, entry, cfg, jpc, at, open, nLines, out, jerr>>

Inputs == UNION {[1 .. n -> Kinds] : n \in 0 .. MaxInput}

(***************************************************************************)
(* The configuration                                                       *)
(***************************************************************************)
\* validate's error cases: `given` says that the field the mode needs is set.
Valid(c) == c.mode = "indent" \/ (c.mode \in {"header", "custom"} /\ c.given)

Normalised(c) ==
  [c EXCEPT !.joiner   = IF @ = 0 THEN 1 ELSE @,
            !.maxLines = IF @ <= 0 THEN DefaultMaxLines ELSE @,
            !.maxBytes = IF @ <= 0 THEN DefaultMaxBytes ELSE @]

IsContinuation(c, kind) ==
  CASE c.mode = "header" -> kind # "head"
    [] c.mode = "indent" -> kind = "indented"
    [] c.mode = "custom" -> kind \in CustomKinds

(***************************************************************************)
(* The builder                                                             *)
(***************************************************************************)
\* open.Len() with these lines of the text written to it, a joiner between two.
Bytes(c, text, lines) ==
  LET len[k \in 0 .. Len(lines)] ==
        IF k = 0 THEN 0
        ELSE len[k - 1] + LineLen[text[lines[k]]] + (IF k = 1 THEN 0 ELSE c.joiner)
  IN len[Len(lines)]

Full(c, i) ==
  \/ nLines >= c.maxLines
  \/ Bytes(c, raw, open) + LineLen[raw[i]] + c.joiner > c.maxBytes

\* Writing line i to an empty builder.
Opened(i) == IF LineLen[raw[i]] = 0 THEN <<>> ELSE <<i>>

\* Mutant: the counter of continuations is not reset.
FlushKeepsCount(written) ==
  /\ out' = IF open = <<>> THEN out ELSE Append(out, open)
  /\ open' = written
  /\ UNCHANGED nLines

\* flush, and what is written to the builder after it.
Flush(written) ==
  /\ out' = IF open = <<>> THEN out ELSE Append(out, open)
  /\ nLines' = IF open = <<>> THEN nLines ELSE 0
  /\ open' = written

\* Mutant: an empty line is skipped.
AddLineSkipsBlank(i) ==
  IF open = <<>> THEN open' = Opened(i) /\ UNCHANGED <<nLines, out>>
  ELSE IF LineLen[raw[i]] = 0 THEN UNCHANGED <<open, nLines, out>>
  ELSE IF ~IsContinuation(cfg, raw[i]) \/ Full(cfg, i) THEN Flush(Opened(i))
  ELSE open' = Append(open, i) /\ nLines' = nLines + 1 /\ UNCHANGED out

\* The body of either loop.
AddLine(i) ==
  IF open = <<>> THEN open' = Opened(i) /\ UNCHANGED <<nLines, out>>
  ELSE IF ~IsContinuation(cfg, raw[i]) \/ Full(cfg, i) THEN Flush(Opened(i))
  ELSE open' = Append(open, i) /\ nLines' = nLines + 1 /\ UNCHANGED out

(***************************************************************************)
(* Actions                                                                 *)
(***************************************************************************)
JoinInit ==
  /\ raw \in Inputs
  /\ entry \in {"reader", "strings"}
  /\ cfg \in Configs
  /\ jpc = "validate"
  /\ at = 1 /\ open = <<>> /\ nLines = 0 /\ out = <<>>
  /\ jerr = "none"

JoinReturn(e) == jpc' = "returned" /\ jerr' = e

\* A configuration error, or a nil reader, returns before anything is read.
Validate ==
  /\ jpc = "validate"
  /\ \/ ~Valid(cfg) /\ JoinReturn("config") /\ UNCHANGED cfg
     \/ /\ Valid(cfg) /\ entry = "reader"
        /\ JoinReturn("nil reader") /\ cfg' = Normalised(cfg)
     \/ Valid(cfg) /\ jpc' = "scan" /\ cfg' = Normalised(cfg) /\ UNCHANGED jerr
  /\ UNCHANGED <<raw, entry, at, open, nLines, out>>

JoinMultiline ==
  /\ jpc = "scan" /\ entry = "reader" /\ at <= Len(raw)
  /\ AddLine(at)
  /\ at' = at + 1
  /\ UNCHANGED <<raw, entry, cfg, jpc, jerr>>

JoinMultilineStrings ==
  /\ jpc = "scan" /\ entry = "strings" /\ at <= Len(raw)
  /\ AddLine(at)
  /\ at' = at + 1
  /\ UNCHANGED <<raw, entry, cfg, jpc, jerr>>

\* The last flush, with the scanner's error when the reader failed or a line
\* is longer than its buffer.
JoinEnd ==
  /\ jpc = "scan"
  /\ \/ at > Len(raw) /\ JoinReturn("none")
     \/ at <= Len(raw) /\ entry = "reader" /\ JoinReturn("read")
  /\ Flush(<<>>)
  /\ UNCHANGED <<raw, entry, cfg, at>>

JoinNext == Validate \/ JoinMultiline \/ JoinMultilineStrings \/ JoinEnd

(***************************************************************************)
(* Properties                                                              *)
(***************************************************************************)
JoinTypeOK ==
  /\ raw \in Inputs /\ entry \in {"reader", "strings"}
  /\ jpc \in {"validate", "scan", "returned"}
  /\ at \in 1 .. Len(raw) + 1
  /\ nLines \in 0 .. Len(raw)
  /\ \A r \in ToSet(out) \cup {open} : ToSet(r) \subseteq 1 .. at - 1
  /\ jerr \in {"none", "config", "nil reader", "read"}

HasText(i) == raw[i] # "blank"
Records == Append(out, open)

\* No line with text is lost, repeated or moved, whatever fills up, flushes or
\* fails: the lines read so far are those of the emitted records and the open
\* one, in order (multiline.go 131-164: flush, the full buffer, the read error).
LinesKept ==
  /\ \A i \in 1 .. at - 1 : HasText(i) => \E r \in ToSet(Records) : i \in ToSet(r)
  /\ \A k, m \in DOMAIN Records : \A a \in DOMAIN Records[k], b \in DOMAIN Records[m] :
       k < m \/ (k = m /\ a < b) => Records[k][a] < Records[m][b]

\* A folded record has at most MaxLines continuations and MaxBytes bytes; only a
\* single physical line may be longer (multiline.go 42-44, 145-152).
RecordsBounded ==
  jpc # "validate" => \A r \in ToSet(Records) : Len(r) > 1 =>
    Len(r) - 1 <= cfg.maxLines /\ Bytes(cfg, raw, r) <= cfg.maxBytes

\* A record with room takes a continuation: a record starts only with a line
\* that is none, or after a line that was dropped, or when the record before
\* has no room for it (multiline.go 140-160; an unreset counter would split).
SplitsWhereDue ==
  \A k \in 1 .. Len(out) : LET prev == out[k]  r == Records[k + 1] IN
    r # <<>> =>
      \/ ~IsContinuation(cfg, raw[r[1]])
      \/ r[1] # Last(prev) + 1
      \/ Len(prev) > cfg.maxLines
      \/ Bytes(cfg, raw, prev) + LineLen[raw[r[1]]] + cfg.joiner > cfg.maxBytes

\* An empty line that is a continuation of an open record with room is joined to
\* it, so a line is dropped only where no record could take it (multiline.go
\* 113-114: "in which case they're joined").
BlankJoined ==
  \A i \in 2 .. at - 1 : \A r \in ToSet(Records) :
    /\ raw[i] = "blank" /\ IsContinuation(cfg, "blank")
    /\ i - 1 \in ToSet(r)
    /\ Len(r) <= cfg.maxLines /\ Bytes(cfg, raw, r) + cfg.joiner <= cfg.maxBytes
    => i \in ToSet(r)

=============================================================================
