---------------------------- MODULE IntakeProofs ----------------------------
(***************************************************************************)
(* For any log, any configuration and any number of workers: the records   *)
(* that JoinMultiline emits hold the lines of the log, in order and within *)
(* the limits, and the decoder gives a result for each of them, its own,   *)
(* whatever the workers' schedule and whichever callback or reader fails.  *)
(***************************************************************************)
EXTENDS Intake, FiniteSetTheorems, SequenceTheorems, WellFoundedInduction, TLAPS

-----------------------------------------------------------------------------
(***************************************************************************)
(* Numbers                                                                 *)
(***************************************************************************)
LEMMA LeastOf ==
  ASSUME NEW S \in SUBSET Nat, S # {}
  PROVE  \E m \in S : \A k \in S : m <= k
<1>. DEFINE R == {ss \in Nat \X Nat : ss[1] < ss[2]}
<1>1. IsWellFoundedOn(R, Nat)
  BY NatLessThanWellFounded DEF OpToRel
<1>. HIDE DEF R
<1>2. PICK m \in S : \A k \in S : ~ (<<k, m>> \in R)
  BY <1>1, WFMin
<1>3. \A k \in S : m <= k
  <2>. TAKE k \in S
  <2>1. k \in Nat /\ m \in Nat /\ <<k, m>> \notin R
    BY <1>2
  <2>2. <<k, m>> \in R <=> k < m
    BY <2>1 DEF R
  <2>. QED
    BY <2>1, <2>2
<1>. QED
  BY <1>3

\* Induction, for a set of numbers.
LEMMA UpFromZero ==
  ASSUME NEW S, 0 \in S, \A n \in Nat : n \in S => n + 1 \in S
  PROVE  Nat \subseteq S
<1>1. SUFFICES ASSUME Nat \ S # {} PROVE FALSE
  OBVIOUS
<1>2. PICK m \in Nat \ S : \A k \in Nat \ S : m <= k
  BY <1>1, LeastOf
<1>3. m # 0 /\ m - 1 \in Nat /\ m - 1 \notin Nat \ S
  BY <1>2
<1>. QED
  BY <1>2, <1>3

-----------------------------------------------------------------------------
(***************************************************************************)
(* The length of the builder                                               *)
(***************************************************************************)
CfgSet == [mode : STRING, given : BOOLEAN, joiner : Nat, maxLines : Int, maxBytes : Int]

\* The lengths after each of the first n lines.
IsLen(c, text, lines, n, len) ==
  len = [k \in 0 .. n |->
           IF k = 0 THEN 0
           ELSE len[k - 1] + LineLen[text[lines[k]]] + (IF k = 1 THEN 0 ELSE c.joiner)]

LEMMA LensExist ==
  ASSUME NEW c, NEW text, NEW lines
  PROVE  \A n \in Nat : \E len : IsLen(c, text, lines, n, len)
<1>. DEFINE S == {n \in Nat : \E len : IsLen(c, text, lines, n, len)}
<1>1. 0 \in S
  <2>. DEFINE len == [k \in 0 .. 0 |-> 0]
  <2>1. IsLen(c, text, lines, 0, len)
    BY DEF IsLen
  <2>. QED
    BY <2>1
<1>2. ASSUME NEW n \in Nat, n \in S PROVE n + 1 \in S
  <2>1. PICK len : IsLen(c, text, lines, n, len)
    BY <1>2
  <2>. DEFINE new == len[n] + LineLen[text[lines[n + 1]]] + (IF n + 1 = 1 THEN 0 ELSE c.joiner)
              longer == [k \in 0 .. n + 1 |-> IF k = n + 1 THEN new ELSE len[k]]
              value(k) == IF k = 0 THEN 0
                          ELSE longer[k - 1] + LineLen[text[lines[k]]]
                                 + (IF k = 1 THEN 0 ELSE c.joiner)
  <2>2. \A k \in 0 .. n + 1 : longer[k] = value(k)
    <3>. TAKE k \in 0 .. n + 1
    <3>1. CASE k = 0
      BY <2>1, <3>1 DEF IsLen
    <3>2. CASE k \in 1 .. n
      <4>1. longer[k] = len[k] /\ longer[k - 1] = len[k - 1]
        BY <3>2
      <4>2. len[k] = len[k - 1] + LineLen[text[lines[k]]] + (IF k = 1 THEN 0 ELSE c.joiner)
        BY <2>1, <3>2 DEF IsLen
      <4>. HIDE DEF longer
      <4>. QED
        BY <3>2, <4>1, <4>2
    <3>3. CASE k = n + 1
      <4>1. longer[k] = new /\ longer[k - 1] = len[n] /\ k # 0
        BY <3>3
      <4>. HIDE DEF longer
      <4>. QED
        BY <3>3, <4>1
    <3>. QED
      BY <3>1, <3>2, <3>3
  <2>3. IsLen(c, text, lines, n + 1, longer)
    <3>1. longer = [k \in 0 .. n + 1 |-> longer[k]]
      OBVIOUS
    <3>. HIDE DEF longer
    <3>. QED
      BY <2>2, <3>1 DEF IsLen
  <2>. QED
    BY <2>3
<1>. HIDE DEF S
<1>3. Nat \subseteq S
  BY <1>1, <1>2, UpFromZero
<1>. QED
  BY <1>3 DEF S

\* The lengths from the empty builder to the one that n lines were written to.
Lengths(c, text, lines, n, len) ==
  /\ Bytes(c, text, lines) = len[n]
  /\ len[0] = 0
  /\ \A k \in 1 .. n :
       len[k] = len[k - 1] + LineLen[text[lines[k]]] + (IF k = 1 THEN 0 ELSE c.joiner)

LEMMA BytesUnfold ==
  ASSUME NEW c, NEW text, NEW lines, NEW n \in Nat, n = Len(lines)
  PROVE  \E len : Lengths(c, text, lines, n, len)
<1>. DEFINE len == CHOOSE f : IsLen(c, text, lines, Len(lines), f)
<1>1. Bytes(c, text, lines) = len[Len(lines)]
  BY DEF Bytes, IsLen
<1>2. IsLen(c, text, lines, n, len)
  BY LensExist
<1>. HIDE DEF len
<1>3. len[0] = 0
  BY <1>2 DEF IsLen
<1>4. \A k \in 1 .. n :
        len[k] = len[k - 1] + LineLen[text[lines[k]]] + (IF k = 1 THEN 0 ELSE c.joiner)
  BY <1>2 DEF IsLen
<1>. QED
  BY <1>1, <1>3, <1>4 DEF Lengths

LEMMA BytesGrow ==
  ASSUME NEW c \in CfgSet, NEW text \in Seq(Kinds), NEW lines \in Seq(1 .. Len(text)),
         NEW i \in 1 .. Len(text)
  PROVE  /\ Bytes(c, text, lines) \in Nat /\ LineLen[text[i]] \in Nat /\ c.joiner \in Nat
         /\ Bytes(c, text, Append(lines, i)) =
              Bytes(c, text, lines) + LineLen[text[i]] + (IF lines = <<>> THEN 0 ELSE c.joiner)
<1>. DEFINE n == Len(lines)
            longer == Append(lines, i)
<1>1. /\ n \in Nat /\ Len(longer) = n + 1 /\ longer[n + 1] = i
      /\ \A k \in 1 .. n : longer[k] = lines[k] /\ lines[k] \in 1 .. Len(text)
      /\ lines = <<>> <=> n = 0
  OBVIOUS
<1>2. c.joiner \in Nat
  BY DEF CfgSet
<1>3. \A k \in 1 .. Len(text) : LineLen[text[k]] \in Nat
  <2>1. \A k \in 1 .. Len(text) : text[k] \in Kinds
    OBVIOUS
  <2>. QED
    BY <2>1, MultilineAssumption
<1>. HIDE DEF n, longer
<1>4. PICK f : Lengths(c, text, lines, n, f)
  <2>1. n = Len(lines)
    BY DEF n
  <2>. QED
    BY <1>1, <2>1, BytesUnfold
<1>5. PICK g : Lengths(c, text, longer, n + 1, g)
  <2>1. n + 1 \in Nat /\ n + 1 = Len(longer)
    BY <1>1
  <2>. QED
    BY <2>1, BytesUnfold
<1>. DEFINE S == {k \in Nat : k <= n => f[k] \in Nat /\ g[k] = f[k]}
<1>6. 0 \in S
  BY <1>4, <1>5 DEF Lengths
<1>7. ASSUME NEW k \in Nat, k \in S PROVE k + 1 \in S
  <2>1. CASE k + 1 <= n
    <3>1. k + 1 \in 1 .. n /\ k + 1 \in 1 .. n + 1 /\ k <= n /\ (k + 1) - 1 = k
      BY <1>1, <2>1
    <3>2. f[k] \in Nat /\ g[k] = f[k]
      BY <1>7, <3>1
    <3>3. /\ f[k + 1] = f[k] + LineLen[text[lines[k + 1]]] + (IF k + 1 = 1 THEN 0 ELSE c.joiner)
          /\ g[k + 1] = g[k] + LineLen[text[longer[k + 1]]] + (IF k + 1 = 1 THEN 0 ELSE c.joiner)
      BY <1>4, <1>5, <3>1 DEF Lengths
    <3>4. longer[k + 1] = lines[k + 1] /\ LineLen[text[lines[k + 1]]] \in Nat
      BY <1>1, <1>3, <3>1
    <3>5. f[k + 1] \in Nat /\ g[k + 1] = f[k + 1]
      BY <1>2, <3>2, <3>3, <3>4
    <3>. QED
      BY <3>5
  <2>2. CASE ~ (k + 1 <= n)
    BY <2>2
  <2>. QED
    BY <2>1, <2>2
<1>. HIDE DEF S
<1>8. Nat \subseteq S
  BY <1>6, <1>7, UpFromZero
<1>9. f[n] \in Nat /\ g[n] = f[n]
  BY <1>1, <1>8 DEF S
<1>10. g[n + 1] = g[n] + LineLen[text[i]] + (IF n + 1 = 1 THEN 0 ELSE c.joiner)
  <2>1. n + 1 \in 1 .. n + 1 /\ (n + 1) - 1 = n
    BY <1>1
  <2>. QED
    BY <1>1, <1>5, <2>1 DEF Lengths
<1>. QED
  BY <1>1, <1>2, <1>3, <1>4, <1>5, <1>9, <1>10 DEF longer, Lengths

LEMMA NoBytes ==
  ASSUME NEW c, NEW text
  PROVE  Bytes(c, text, <<>>) = 0
<1>1. PICK len : Lengths(c, text, <<>>, 0, len)
  BY BytesUnfold
<1>. QED
  BY <1>1 DEF Lengths

-----------------------------------------------------------------------------
(***************************************************************************)
(* The inductive invariant of the joiner                                   *)
(***************************************************************************)
JoinShapes ==
  /\ raw \in Inputs /\ entry \in {"reader", "strings"} /\ cfg \in CfgSet
  /\ jpc \in {"validate", "scan", "returned"}
  /\ jerr \in {"none", "config", "nil reader", "read"}
  /\ at \in 1 .. Len(raw) + 1
  /\ open \in Seq(1 .. at - 1) /\ out \in Seq(Seq(1 .. at - 1))
  /\ nLines = IF open = <<>> THEN 0 ELSE Len(open) - 1

JoinPhases ==
  /\ jpc = "validate" => at = 1 /\ open = <<>> /\ out = <<>>
  /\ jpc = "returned" => open = <<>> /\ (jerr = "none" => at = Len(raw) + 1)

\* A record has no gap.
Consecutive(r) == r # <<>> /\ \A j \in 1 .. Len(r) : r[j] = r[1] + j - 1

\* The records follow one another, and the open one reaches to the line before
\* the next; when none is open that line was dropped.
Chained ==
  /\ \A k \in 1 .. Len(out) : Consecutive(out[k])
  /\ open # <<>> => Consecutive(open) /\ Last(open) = at - 1
  /\ \A k, m \in 1 .. Len(out) : k < m => Last(out[k]) < out[m][1]
  /\ \A k \in 1 .. Len(out) :
       /\ open # <<>> => Last(out[k]) < open[1]
       /\ open = <<>> /\ jpc = "scan" => Last(out[k]) < at - 1

Covered ==
  \A i \in 1 .. at - 1 :
    HasText(i) => i \in ToSet(open) \/ \E k \in 1 .. Len(out) : i \in ToSet(out[k])

\* The limits, for one record.
InLimits(c, text, r) ==
  Len(r) > 1 => Len(r) - 1 <= c.maxLines /\ Bytes(c, text, r) <= c.maxBytes

Bounded ==
  jpc # "validate" =>
    /\ InLimits(cfg, raw, open)
    /\ \A k \in 1 .. Len(out) : InLimits(cfg, raw, out[k])

\* A blank line i that continues record r, which has room for it, is in r.
BlankIn(c, text, i, r) ==
  /\ text[i] = "blank" /\ IsContinuation(c, "blank") /\ i - 1 \in ToSet(r)
  /\ Len(r) <= c.maxLines /\ Bytes(c, text, r) + c.joiner <= c.maxBytes
  => i \in ToSet(r)

BlanksKept ==
  \A i \in 2 .. at - 1 :
    /\ BlankIn(cfg, raw, i, open)
    /\ \A k \in 1 .. Len(out) : BlankIn(cfg, raw, i, out[k])

\* A record that begins with line i is due after prev.
Due(c, text, prev, i) ==
  \/ ~ IsContinuation(c, text[i])
  \/ i # Last(prev) + 1
  \/ Len(prev) > c.maxLines
  \/ Bytes(c, text, prev) + LineLen[text[i]] + c.joiner > c.maxBytes

SplitsDue ==
  /\ \A k \in 1 .. Len(out) - 1 : Due(cfg, raw, out[k], out[k + 1][1])
  /\ out # <<>> /\ open # <<>> => Due(cfg, raw, out[Len(out)], open[1])

HeadLines(text, n) == {i \in 1 .. n : text[i] = "head"}
HeadRecords(text, recs) == {k \in 1 .. Len(recs) : text[recs[k][1]] = "head"}

\* Header lines and records that begin with one are equally many.
HeadsCounted ==
  cfg.mode = "header" =>
    Cardinality(HeadRecords(raw, out))
      + (IF open # <<>> /\ raw[open[1]] = "head" THEN 1 ELSE 0)
    = Cardinality(HeadLines(raw, at - 1))

JoinInv ==
  /\ JoinShapes
  /\ JoinPhases
  /\ Chained
  /\ Covered
  /\ Bounded
  /\ BlanksKept
  /\ SplitsDue
  /\ HeadsCounted

-----------------------------------------------------------------------------
(***************************************************************************)
(* The joiner's steps: a line joins the open record, or the record is      *)
(* flushed and the builder begins again                                    *)
(***************************************************************************)
Joins ==
  /\ jpc = "scan" /\ at \in 1 .. Len(raw) /\ at' = at + 1
  /\ raw' = raw /\ cfg' = cfg /\ entry' = entry /\ jpc' = jpc /\ jerr' = jerr
  /\ open # <<>> /\ IsContinuation(cfg, raw[at]) /\ ~ Full(cfg, at)
  /\ open' = Append(open, at) /\ nLines' = nLines + 1 /\ out' = out

\* The reading of a line that does not join; written is what it leaves in the
\* builder.
Begins(written) ==
  /\ written = Opened(at) /\ at \in 1 .. Len(raw) /\ at' = at + 1
  /\ jpc' = "scan" /\ jerr' = jerr
  /\ open = <<>> \/ ~ IsContinuation(cfg, raw[at]) \/ Full(cfg, at)

Finishes(written) ==
  /\ written = <<>> /\ at' = at /\ jpc' = "returned" /\ jerr' \in {"none", "read"}
  /\ jerr' = "none" => at = Len(raw) + 1

Flushes(written) ==
  /\ jpc = "scan" /\ raw' = raw /\ cfg' = cfg /\ entry' = entry
  /\ Flush(written)
  /\ Begins(written) \/ Finishes(written)

LEMMA RawTyped ==
  ASSUME raw \in Inputs
  PROVE  raw \in Seq(Kinds) /\ Len(raw) \in 0 .. MaxInput
<1>1. PICK n \in 0 .. MaxInput : raw \in [1 .. n -> Kinds]
  BY DEF Inputs
<1>2. n \in Nat /\ n \in 0 .. MaxInput
  BY MultilineAssumption
<1>3. raw \in Seq(Kinds) /\ Len(raw) = n
  BY <1>1, <1>2
<1>. QED
  BY <1>2, <1>3

LEMMA Appended ==
  ASSUME NEW S, NEW T, S \subseteq T, NEW s \in Seq(S), NEW x \in T
  PROVE  /\ s \in Seq(T) /\ Append(s, x) \in Seq(T) /\ Append(s, x) # <<>>
         /\ Len(s) \in Nat /\ Len(Append(s, x)) = Len(s) + 1
         /\ \A j \in 1 .. Len(s) : s[j] \in S /\ Append(s, x)[j] = s[j]
         /\ Append(s, x)[Len(s) + 1] = x
<1>1. s \in Seq(T)
  BY SeqMonotonic
<1>2. Len(s) \in Nat /\ Append(s, x) \in Seq(T) /\ Len(Append(s, x)) = Len(s) + 1
  BY <1>1
<1>3. Append(s, x) # <<>>
  BY <1>2
<1>4. \A j \in 1 .. Len(s) : s[j] \in S
  OBVIOUS
<1>5. /\ \A j \in 1 .. Len(s) : Append(s, x)[j] = s[j]
      /\ Append(s, x)[Len(s) + 1] = x
  BY <1>1
<1>. QED
  BY <1>1, <1>2, <1>3, <1>4, <1>5

LEMMA Listed ==
  ASSUME NEW S, NEW s \in Seq(S)
  PROVE  /\ Len(s) \in Nat /\ (s = <<>> <=> Len(s) = 0)
         /\ \A k \in 1 .. Len(s) : s[k] \in S
         /\ DOMAIN s = 1 .. Len(s) /\ ToSet(s) = {s[k] : k \in 1 .. Len(s)}
  BY DEF ToSet

LEMMA Shapes ==
  ASSUME JoinShapes
  PROVE  /\ raw \in Seq(Kinds) /\ Len(raw) \in Nat /\ at \in Nat /\ at \in 1 .. Len(raw) + 1
         /\ open \in Seq(1 .. at - 1) /\ out \in Seq(Seq(1 .. at - 1))
         /\ Len(out) \in Nat /\ Len(open) \in Nat /\ (open = <<>> <=> Len(open) = 0)
         /\ \A k \in 1 .. Len(out) : out[k] \in Seq(1 .. at - 1)
         /\ \A i \in 1 .. Len(raw) : raw[i] \in Kinds
<1>1. raw \in Seq(Kinds) /\ Len(raw) \in Nat
  <2>1. raw \in Inputs
    BY DEF JoinShapes
  <2>2. MaxInput \in Nat
    BY MultilineAssumption
  <2>. QED
    BY <2>1, <2>2, RawTyped
<1>2. at \in Nat /\ at \in 1 .. Len(raw) + 1
  <2>1. at \in 1 .. Len(raw) + 1
    BY Zenon DEF JoinShapes
  <2>. QED
    BY <1>1, <2>1
<1>3. open \in Seq(1 .. at - 1) /\ out \in Seq(Seq(1 .. at - 1))
  BY DEF JoinShapes
<1>4. Len(open) \in Nat /\ (open = <<>> <=> Len(open) = 0)
  BY <1>3
<1>5. Len(out) \in Nat /\ \A k \in 1 .. Len(out) : out[k] \in Seq(1 .. at - 1)
  <2>. DEFINE S == Seq(1 .. at - 1)
  <2>1. out \in Seq(S)
    BY <1>3
  <2>. HIDE DEF S
  <2>2. Len(out) \in Nat /\ \A k \in 1 .. Len(out) : out[k] \in S
    BY <2>1
  <2>. QED
    BY <2>2 DEF S
<1>6. \A i \in 1 .. Len(raw) : raw[i] \in Kinds
  BY <1>1
<1>. QED
  BY <1>1, <1>2, <1>3, <1>4, <1>5, <1>6

LEMMA JoinCases ==
  ASSUME JoinInv, JoinNext
  PROVE  Validate \/ Joins \/ \E written \in {<<>>, <<at>>} : Flushes(written)
<1>1. at \in 1 .. Len(raw) + 1 /\ Len(raw) \in Nat
  BY Shapes DEF JoinInv
<1>2. CASE JoinMultiline \/ JoinMultilineStrings
  <2>1. /\ jpc = "scan" /\ at <= Len(raw) /\ AddLine(at) /\ at' = at + 1
        /\ raw' = raw /\ cfg' = cfg /\ entry' = entry /\ jpc' = jpc /\ jerr' = jerr
    BY <1>2 DEF JoinMultiline, JoinMultilineStrings
  <2>2. at \in 1 .. Len(raw) /\ Opened(at) \in {<<>>, <<at>>}
    BY <1>1, <2>1 DEF Opened
  <2>3. CASE open = <<>> \/ ~ IsContinuation(cfg, raw[at]) \/ Full(cfg, at)
    <3>1. Flush(Opened(at))
      BY <2>1, <2>3 DEF AddLine, Flush
    <3>2. Flushes(Opened(at))
      BY <2>1, <2>2, <2>3, <3>1 DEF Flushes, Begins
    <3>. QED
      BY <2>2, <3>2
  <2>4. CASE ~ (open = <<>> \/ ~ IsContinuation(cfg, raw[at]) \/ Full(cfg, at))
    <3>1. open' = Append(open, at) /\ nLines' = nLines + 1 /\ out' = out
      BY <2>1, <2>4 DEF AddLine
    <3>2. Joins
      BY <2>1, <2>2, <2>4, <3>1 DEF Joins
    <3>. QED
      BY <3>2
  <2>. QED
    BY <2>3, <2>4
<1>3. CASE JoinEnd
  <2>1. Finishes(<<>>)
    BY <1>1, <1>3 DEF JoinEnd, JoinReturn, Finishes
  <2>2. Flushes(<<>>)
    BY <1>3, <2>1 DEF JoinEnd, Flushes
  <2>. QED
    BY <2>2
<1>. QED
  BY <1>2, <1>3 DEF JoinNext

\* What is known before and after a flush.
LEMMA FlushFacts ==
  ASSUME JoinInv, NEW written, written \in {<<>>, <<at>>}, Flushes(written)
  PROVE  /\ raw \in Seq(Kinds) /\ Len(raw) \in Nat /\ at \in 1 .. Len(raw) + 1
         /\ (at' = at \/ at' = at + 1) /\ at' \in 1 .. Len(raw) + 1
         /\ open' = written /\ open \in Seq(1 .. at - 1) /\ out \in Seq(Seq(1 .. at - 1))
         /\ Len(out) \in Nat /\ Len(open) \in Nat
         /\ Len(out') = IF open = <<>> THEN Len(out) ELSE Len(out) + 1
         /\ out' = IF open = <<>> THEN out ELSE Append(out, open)
         /\ \A k \in 1 .. Len(out) : out'[k] = out[k]
         /\ open # <<>> => out'[Len(out) + 1] = open
         /\ nLines' = 0
         /\ written # <<>> => at' = at + 1 /\ raw[at] # "blank" /\ at \in 1 .. Len(raw)
         /\ at' = at + 1 => jpc' = "scan" /\ at \in 1 .. Len(raw)
                              /\ (raw[at] # "blank" => written = <<at>>)
<1>1. /\ raw \in Seq(Kinds) /\ Len(raw) \in Nat /\ at \in 1 .. Len(raw) + 1
      /\ open \in Seq(1 .. at - 1) /\ out \in Seq(Seq(1 .. at - 1))
      /\ nLines = IF open = <<>> THEN 0 ELSE Len(open) - 1
      /\ Len(out) \in Nat /\ Len(open) \in Nat
  BY Shapes DEF JoinInv, JoinShapes
<1>2. /\ out' = IF open = <<>> THEN out ELSE Append(out, open)
      /\ nLines' = IF open = <<>> THEN nLines ELSE 0
      /\ open' = written
  BY DEF Flushes, Flush
<1>3. Len(out) \in Nat /\ Len(open) \in Nat /\ open \in Seq(1 .. at - 1)
  BY <1>1
<1>4. /\ Len(out') = IF open = <<>> THEN Len(out) ELSE Len(out) + 1
      /\ \A k \in 1 .. Len(out) : out'[k] = out[k]
      /\ open # <<>> => out'[Len(out) + 1] = open
  <2>. DEFINE S == Seq(1 .. at - 1)
  <2>1. out \in Seq(S) /\ open \in S
    BY <1>1
  <2>. HIDE DEF S
  <2>2. /\ Len(Append(out, open)) = Len(out) + 1 /\ Append(out, open)[Len(out) + 1] = open
        /\ \A k \in 1 .. Len(out) : Append(out, open)[k] = out[k]
    BY <2>1, Appended
  <2>. QED
    BY <1>2, <2>2
<1>5. Begins(written) \/ Finishes(written)
  BY DEF Flushes
<1>6. (at' = at \/ at' = at + 1) /\ at' \in 1 .. Len(raw) + 1
  BY <1>1, <1>5 DEF Begins, Finishes
<1>7. at \in 1 .. Len(raw) => (Opened(at) = IF raw[at] = "blank" THEN <<>> ELSE <<at>>)
  <2>. SUFFICES ASSUME at \in 1 .. Len(raw)
                PROVE  Opened(at) = IF raw[at] = "blank" THEN <<>> ELSE <<at>>
    OBVIOUS
  <2>1. raw[at] \in Kinds
    BY <1>1
  <2>2. LineLen[raw[at]] = 0 <=> raw[at] = "blank"
    BY <2>1, MultilineAssumption
  <2>. QED
    BY <2>2 DEF Opened
<1>8. written # <<>> => at' = at + 1 /\ raw[at] # "blank" /\ at \in 1 .. Len(raw)
  BY <1>5, <1>7 DEF Begins, Finishes
<1>9. at' = at + 1 => jpc' = "scan" /\ at \in 1 .. Len(raw)
                       /\ (raw[at] # "blank" => written = <<at>>)
  BY <1>1, <1>5, <1>7 DEF Begins, Finishes
<1>10. nLines' = 0
  BY <1>1, <1>2
<1>. QED
  BY <1>1, <1>2, <1>3, <1>4, <1>6, <1>8, <1>9, <1>10

\* What is known before and after a line joins.
LEMMA JoinFacts ==
  ASSUME JoinInv, Joins
  PROVE  /\ raw \in Seq(Kinds) /\ Len(raw) \in Nat /\ at \in 1 .. Len(raw)
         /\ open \in Seq(1 .. at - 1) /\ out \in Seq(Seq(1 .. at - 1))
         /\ Len(out) \in Nat /\ Len(open) \in Nat \ {0}
         /\ open' \in Seq(1 .. at) /\ Len(open') = Len(open) + 1 /\ open' # <<>>
         /\ \A j \in 1 .. Len(open) : open'[j] = open[j]
         /\ open'[Len(open) + 1] = at
         /\ nLines = Len(open) - 1 /\ nLines' = Len(open)
         /\ open[Len(open)] = at - 1 /\ Consecutive(open)
<1>1. /\ raw \in Seq(Kinds) /\ Len(raw) \in Nat /\ at \in 1 .. Len(raw)
      /\ open \in Seq(1 .. at - 1) /\ out \in Seq(Seq(1 .. at - 1))
      /\ open # <<>> /\ nLines = Len(open) - 1
      /\ open' = Append(open, at) /\ nLines' = nLines + 1
  BY Shapes DEF JoinInv, JoinShapes, Joins
<1>2. Len(open) \in Nat \ {0} /\ Len(out) \in Nat
  BY <1>1, Shapes DEF JoinInv
<1>3. 1 .. at - 1 \subseteq 1 .. at /\ at \in 1 .. at
  BY <1>1
<1>4. /\ open' \in Seq(1 .. at) /\ Len(open') = Len(open) + 1 /\ open' # <<>>
      /\ \A j \in 1 .. Len(open) : open'[j] = open[j]
      /\ open'[Len(open) + 1] = at
  BY SMTT(60), <1>1, <1>3, Appended
<1>5. open[Len(open)] = at - 1 /\ Consecutive(open)
  BY <1>1 DEF JoinInv, Chained, Last
<1>. QED
  BY <1>1, <1>2, <1>4, <1>5

-----------------------------------------------------------------------------
(***************************************************************************)
(* Records, and counting those that begin with a header                    *)
(***************************************************************************)
LEMMA Widen ==
  ASSUME NEW S, NEW T, S \subseteq T, NEW recs \in Seq(Seq(S))
  PROVE  recs \in Seq(Seq(T))
<1>1. Seq(S) \subseteq Seq(T)
  BY SeqMonotonic
<1>. QED
  BY <1>1, SeqMonotonic

\* A record without a gap lies between its first line and its last.
LEMMA Between ==
  ASSUME NEW n \in Nat, NEW r \in Seq(1 .. n), Consecutive(r), NEW x \in ToSet(r)
  PROVE  x \in Nat /\ Last(r) \in Nat /\ r[1] \in Nat /\ r[1] <= x /\ x <= Last(r)
<1>1. /\ Len(r) \in Nat \ {0} /\ \A j \in 1 .. Len(r) : r[j] = r[1] + j - 1
      /\ \A j \in 1 .. Len(r) : r[j] \in 1 .. n
  BY DEF Consecutive
<1>2. PICK j \in 1 .. Len(r) : x = r[j]
  BY Listed
<1>3. r[1] \in 1 .. n /\ r[Len(r)] \in 1 .. n /\ x \in 1 .. n
  BY <1>1, <1>2
<1>4. r[Len(r)] = r[1] + Len(r) - 1 /\ x = r[1] + j - 1
  BY <1>1, <1>2
<1>5. Last(r) = r[Len(r)]
  BY DEF Last
<1>6. r[1] \in Int /\ r[Len(r)] \in Int /\ x \in Int /\ j \in Int /\ Len(r) \in Int
      /\ 1 <= j /\ j <= Len(r) /\ x >= 1 /\ r[1] >= 1 /\ r[Len(r)] >= 1
  BY ONLY <1>1, <1>2, <1>3, n \in Nat
<1>7. r[1] <= x /\ x <= r[Len(r)]
  BY ONLY <1>4, <1>6
<1>. QED
  BY ONLY <1>5, <1>6, <1>7

\* The numbers up to n that P holds of, when one more number is looked at.
LEMMA CountGrows ==
  ASSUME NEW n \in Nat, NEW S, S \subseteq 1 .. n, NEW T,
         T = S \/ T = S \cup {n + 1}
  PROVE  /\ IsFiniteSet(S) /\ Cardinality(S) \in Nat
         /\ Cardinality(T) = Cardinality(S) + (IF n + 1 \in T THEN 1 ELSE 0)
<1>1. IsFiniteSet(S) /\ Cardinality(S) \in Nat
  <2>1. IsFiniteSet(1 .. n)
    BY FS_Interval
  <2>. QED
    BY <2>1, FS_Subset, FS_CardinalityType
<1>2. n + 1 \notin S
  OBVIOUS
<1>3. CASE T = S
  BY <1>1, <1>2, <1>3
<1>4. CASE T = S \cup {n + 1}
  BY <1>1, <1>2, <1>4, FS_AddElement
<1>. QED
  BY <1>1, <1>3, <1>4

LEMMA HeadLinesGrow ==
  ASSUME NEW text, NEW n \in Nat
  PROVE  /\ Cardinality(HeadLines(text, n)) \in Nat
         /\ Cardinality(HeadLines(text, n + 1)) =
              Cardinality(HeadLines(text, n)) + (IF text[n + 1] = "head" THEN 1 ELSE 0)
<1>. DEFINE S == HeadLines(text, n)  T == HeadLines(text, n + 1)
<1>1. S \subseteq 1 .. n /\ (n + 1 \in T <=> text[n + 1] = "head")
  BY DEF HeadLines
<1>2. T = S \/ T = S \cup {n + 1}
  BY DEF HeadLines
<1>. HIDE DEF S, T
<1>3. /\ Cardinality(S) \in Nat
      /\ Cardinality(T) = Cardinality(S) + (IF n + 1 \in T THEN 1 ELSE 0)
  BY <1>1, <1>2, CountGrows
<1>. QED
  BY <1>1, <1>3 DEF S, T

LEMMA HeadRecordsGrow ==
  ASSUME NEW text, NEW recs, NEW longer, NEW n \in Nat, Len(recs) = n, Len(longer) = n + 1,
         \A k \in 1 .. n : longer[k] = recs[k]
  PROVE  /\ Cardinality(HeadRecords(text, recs)) \in Nat
         /\ Cardinality(HeadRecords(text, longer)) =
              Cardinality(HeadRecords(text, recs))
                + (IF text[longer[n + 1][1]] = "head" THEN 1 ELSE 0)
<1>. DEFINE S == HeadRecords(text, recs)  T == HeadRecords(text, longer)
<1>1. S \subseteq 1 .. n /\ (n + 1 \in T <=> text[longer[n + 1][1]] = "head")
  BY DEF HeadRecords
<1>2. T = S \/ T = S \cup {n + 1}
  BY DEF HeadRecords
<1>. HIDE DEF S, T
<1>3. /\ Cardinality(S) \in Nat
      /\ Cardinality(T) = Cardinality(S) + (IF n + 1 \in T THEN 1 ELSE 0)
  BY ZenonT(60), <1>1, <1>2, CountGrows
<1>4. Cardinality(T) = Cardinality(S) + (IF text[longer[n + 1][1]] = "head" THEN 1 ELSE 0)
  BY ONLY <1>1, <1>3
<1>. QED
  BY ONLY <1>3, <1>4 DEF S, T

-----------------------------------------------------------------------------
(***************************************************************************)
(* A line that joins keeps the invariant                                   *)
(***************************************************************************)
LEMMA JoinsShapes ==
  ASSUME JoinInv, Joins
  PROVE  JoinShapes' /\ JoinPhases'
<1>1. /\ raw' = raw /\ cfg' = cfg /\ entry' = entry /\ jpc' = jpc /\ jerr' = jerr
      /\ out' = out /\ at' = at + 1 /\ jpc = "scan"
  BY DEF Joins
<1>2. /\ raw \in Inputs /\ entry \in {"reader", "strings"} /\ cfg \in CfgSet
      /\ jerr \in {"none", "config", "nil reader", "read"}
  BY Zenon DEF JoinInv, JoinShapes
<1>3. at' \in 1 .. Len(raw) + 1 /\ at' - 1 = at /\ 1 .. at - 1 \subseteq 1 .. at
  BY SMTT(60), <1>1, JoinFacts
<1>4. open' \in Seq(1 .. at) /\ nLines' = IF open' = <<>> THEN 0 ELSE Len(open') - 1
  <2>1. /\ open' \in Seq(1 .. at) /\ open' # <<>> /\ nLines' = Len(open)
        /\ Len(open) \in Nat /\ Len(open') = Len(open) + 1
    BY JoinFacts
  <2>2. Len(open') - 1 = Len(open)
    BY ONLY <2>1
  <2>. QED
    BY ONLY <2>1, <2>2, Zenon
<1>5. out \in Seq(Seq(1 .. at))
  BY <1>3, JoinFacts, Widen
<1>6. /\ open' \in Seq(1 .. at' - 1) /\ out' \in Seq(Seq(1 .. at' - 1))
      /\ at' \in 1 .. Len(raw') + 1
  BY ONLY <1>1, <1>3, <1>4, <1>5, Zenon
<1>7. JoinShapes'
  BY ONLY <1>1, <1>2, <1>4, <1>6, Zenon DEF JoinShapes
<1>8. JoinPhases'
  BY <1>1 DEF JoinPhases
<1>. QED
  BY <1>7, <1>8

LEMMA JoinsChained ==
  ASSUME JoinInv, Joins
  PROVE  Chained' /\ open'[1] = open[1]
<1>1. /\ \A k \in 1 .. Len(out) : Consecutive(out[k]) /\ Last(out[k]) < open[1]
      /\ \A k, m \in 1 .. Len(out) : k < m => Last(out[k]) < out[m][1]
      /\ out' = out /\ at' = at + 1
  BY DEF JoinInv, Chained, Joins
<1>2. Len(open) \in Nat \ {0} /\ Len(open') = Len(open) + 1 /\ at \in Nat
  BY JoinFacts
<1>3. open'[1] = open[1] /\ open[1] \in Nat
  BY <1>2, JoinFacts
<1>4. Consecutive(open')
  <2>1. \A j \in 1 .. Len(open) : open'[j] = open[1] + j - 1
    BY JoinFacts DEF Consecutive
  <2>2. open'[Len(open) + 1] = open[1] + (Len(open) + 1) - 1
    <3>1. open[Len(open)] = open[1] + Len(open) - 1 /\ open[Len(open)] = at - 1
      BY <1>2, JoinFacts DEF Consecutive
    <3>2. open'[Len(open) + 1] = at
      BY JoinFacts
    <3>. QED
      BY <1>2, <1>3, <3>1, <3>2
  <2>3. \A j \in 1 .. Len(open') : open'[j] = open'[1] + j - 1
    <3>. TAKE j \in 1 .. Len(open')
    <3>1. j \in 1 .. Len(open) \/ j = Len(open) + 1
      BY <1>2
    <3>. QED
      BY <1>3, <2>1, <2>2, <3>1
  <2>4. open' # <<>>
    BY JoinFacts
  <2>. QED
    BY <2>3, <2>4 DEF Consecutive
<1>5. Last(open') = at' - 1
  BY <1>1, <1>2, JoinFacts DEF Last
<1>. QED
  BY <1>1, <1>3, <1>4, <1>5, JoinFacts DEF Chained

LEMMA JoinsCovered ==
  ASSUME JoinInv, Joins
  PROVE  Covered' /\ ToSet(open') = ToSet(open) \cup {at}
<1>1. ToSet(open') = ToSet(open) \cup {at}
  <2>1. ToSet(open') = {open'[j] : j \in 1 .. Len(open')}
    BY JoinFacts, Listed
  <2>2. ToSet(open) = {open[j] : j \in 1 .. Len(open)}
    BY JoinFacts, Listed
  <2>3. 1 .. Len(open') = 1 .. Len(open) \cup {Len(open) + 1}
    BY JoinFacts
  <2>. QED
    <3>1. /\ \A j \in 1 .. Len(open) : open'[j] = open[j]
          /\ open'[Len(open) + 1] = at
      BY JoinFacts
    <3>2. \A x \in ToSet(open') : x \in ToSet(open) \cup {at}
      BY ONLY <2>1, <2>2, <2>3, <3>1
    <3>3. \A x \in ToSet(open) : x \in ToSet(open')
      BY ONLY <2>1, <2>2, <2>3, <3>1
    <3>4. at \in ToSet(open')
      BY ONLY <2>1, <2>3, <3>1
    <3>. QED
      BY ONLY <3>2, <3>3, <3>4
<1>2. /\ \A i \in 1 .. at - 1 :
           raw[i] # "blank" => i \in ToSet(open) \/ \E k \in 1 .. Len(out) : i \in ToSet(out[k])
      /\ raw' = raw /\ out' = out /\ at' = at + 1 /\ at \in Nat
  BY JoinFacts DEF JoinInv, Covered, HasText, Joins
<1>3. ASSUME NEW i \in 1 .. at' - 1, raw'[i] # "blank"
      PROVE  i \in ToSet(open') \/ \E k \in 1 .. Len(out') : i \in ToSet(out'[k])
  <2>1. i \in 1 .. at - 1 \/ i = at
    BY <1>2
  <2>. QED
    BY <1>1, <1>2, <1>3, <2>1
<1>. QED
  BY <1>1, <1>3 DEF Covered, HasText

\* The builder has room for the line.
LEMMA JoinsRoom ==
  ASSUME JoinInv, Joins
  PROVE  /\ Len(open) \in Nat /\ cfg.maxLines \in Int /\ Len(open) <= cfg.maxLines
         /\ Bytes(cfg, raw, open) \in Nat /\ cfg.joiner \in Nat
         /\ Bytes(cfg, raw, open') \in Nat /\ cfg.maxBytes \in Int
         /\ Bytes(cfg, raw, open') <= cfg.maxBytes
         /\ Bytes(cfg, raw, open) <= Bytes(cfg, raw, open')
<1>1. cfg \in CfgSet
  BY Zenon DEF JoinInv, JoinShapes
<1>2. cfg.maxLines \in Int /\ cfg.maxBytes \in Int
  BY <1>1 DEF CfgSet
<1>3. open' = Append(open, at) /\ open # <<>> /\ ~ Full(cfg, at)
  BY Zenon DEF Joins
<1>4. PICK c, text, lines, i : c = cfg /\ text = raw /\ lines = open /\ i = at
  OBVIOUS
<1>5. text \in Seq(Kinds) /\ lines \in Seq(1 .. Len(text)) /\ i \in 1 .. Len(text)
  <2>1. 1 .. at - 1 \subseteq 1 .. Len(raw)
    BY JoinFacts
  <2>. QED
    BY <1>4, <2>1, JoinFacts, SeqMonotonic
<1>6. /\ Bytes(c, text, lines) \in Nat /\ LineLen[text[i]] \in Nat /\ c.joiner \in Nat
      /\ Bytes(c, text, Append(lines, i)) = Bytes(c, text, lines) + LineLen[text[i]] + c.joiner
  BY <1>1, <1>3, <1>4, <1>5, BytesGrow
<1>7. /\ ~ (nLines >= cfg.maxLines)
      /\ ~ (Bytes(cfg, raw, open) + LineLen[raw[at]] + cfg.joiner > cfg.maxBytes)
  BY <1>3 DEF Full
<1>8. nLines = Len(open) - 1 /\ Len(open) \in Nat
  BY JoinFacts
<1>9. Len(open) <= cfg.maxLines
  BY ONLY <1>2, <1>7, <1>8
<1>10. /\ Bytes(cfg, raw, open) \in Nat /\ LineLen[raw[at]] \in Nat /\ cfg.joiner \in Nat
       /\ Bytes(cfg, raw, open') = Bytes(cfg, raw, open) + LineLen[raw[at]] + cfg.joiner
  BY ONLY <1>3, <1>4, <1>6, Zenon
<1>11. /\ Bytes(cfg, raw, open') \in Nat /\ Bytes(cfg, raw, open') <= cfg.maxBytes
       /\ Bytes(cfg, raw, open) <= Bytes(cfg, raw, open')
  <2>1. PICK b, new, len, joiner, max :
          /\ b = Bytes(cfg, raw, open) /\ new = Bytes(cfg, raw, open')
          /\ len = LineLen[raw[at]] /\ joiner = cfg.joiner /\ max = cfg.maxBytes
    OBVIOUS
  <2>2. /\ b \in Nat /\ len \in Nat /\ joiner \in Nat /\ max \in Int /\ new = b + len + joiner
        /\ ~ (b + len + joiner > max)
    BY ONLY <1>2, <1>7, <1>10, <2>1, Zenon
  <2>3. new \in Nat /\ new <= max /\ b <= new
    BY ONLY <2>2
  <2>. QED
    BY ONLY <2>1, <2>3, Zenon
<1>. QED
  BY <1>2, <1>8, <1>9, <1>10, <1>11

LEMMA JoinsBounded ==
  ASSUME JoinInv, Joins
  PROVE  Bounded'
<1>1. raw' = raw /\ cfg' = cfg /\ jpc' = jpc /\ jpc = "scan" /\ out' = out
  BY DEF Joins
<1>2. \A k \in 1 .. Len(out) : InLimits(cfg, raw, out[k])
  BY <1>1 DEF JoinInv, Bounded
<1>3. InLimits(cfg, raw, open')
  <2>1. Len(open') = Len(open) + 1 /\ Len(open) \in Nat /\ Len(open) <= cfg.maxLines
    BY JoinFacts, JoinsRoom
  <2>2. Len(open') - 1 <= cfg.maxLines
    BY ONLY <2>1
  <2>3. Bytes(cfg, raw, open') <= cfg.maxBytes
    BY JoinsRoom
  <2>. QED
    BY ONLY <2>2, <2>3, Zenon DEF InLimits
<1>4. InLimits(cfg', raw', open')
  BY ONLY <1>1, <1>3, Zenon
<1>5. \A k \in 1 .. Len(out') : InLimits(cfg', raw', out'[k])
  BY ONLY <1>1, <1>2, Zenon
<1>. QED
  BY ONLY <1>4, <1>5, Zenon DEF Bounded

\* Line at - 1 is in no record that was emitted.
LEMMA NotEmitted ==
  ASSUME JoinInv, jpc = "scan", NEW k \in 1 .. Len(out)
  PROVE  /\ Last(out[k]) \in Nat /\ Last(out[k]) < at - 1
         /\ at - 1 \notin ToSet(out[k]) /\ at \notin ToSet(out[k])
<1>1. /\ at \in Nat /\ at - 1 \in Nat /\ out[k] \in Seq(1 .. at - 1)
      /\ open \in Seq(1 .. at - 1) /\ (open = <<>> <=> Len(open) = 0) /\ Len(open) \in Nat
  BY Shapes DEF JoinInv
<1>2. /\ Consecutive(out[k])
      /\ open # <<>> => Consecutive(open) /\ Last(open) = at - 1 /\ Last(out[k]) < open[1]
      /\ open = <<>> => Last(out[k]) < at - 1
  BY DEF JoinInv, Chained
<1>3. out[k][1] \in ToSet(out[k])
  <2>1. Len(out[k]) \in Nat /\ out[k] # <<>>
    BY <1>1, <1>2 DEF Consecutive
  <2>2. 1 \in 1 .. Len(out[k])
    BY <1>1, <2>1, Listed
  <2>. QED
    BY <1>1, <2>2, Listed
<1>4. Last(out[k]) \in Nat
  BY <1>1, <1>2, <1>3, Between
<1>5. Last(out[k]) < at - 1
  <2>1. CASE open = <<>>
    BY <1>2, <2>1
  <2>2. CASE open # <<>>
    <3>1. open[1] \in ToSet(open)
      <4>1. 1 \in 1 .. Len(open)
        BY <1>1, <2>2
      <4>. QED
        BY <1>1, <4>1, Listed
    <3>2. open[1] \in Nat /\ open[1] <= at - 1
      BY <1>1, <1>2, <2>2, <3>1, Between
    <3>. QED
      BY <1>1, <1>2, <1>4, <2>2, <3>2
  <2>. QED
    BY <2>1, <2>2
<1>6. \A x \in ToSet(out[k]) : x \in Nat /\ x <= Last(out[k])
  BY <1>1, <1>2, Between
<1>. QED
  BY <1>1, <1>4, <1>5, <1>6

LEMMA JoinsBlanks ==
  ASSUME JoinInv, Joins
  PROVE  BlanksKept'
<1>1. raw' = raw /\ cfg' = cfg /\ jpc = "scan" /\ out' = out /\ at' = at + 1
  BY DEF Joins
<1>2. at \in Nat /\ ToSet(open') = ToSet(open) \cup {at}
  BY JoinFacts, JoinsCovered
<1>3. ASSUME NEW i \in 2 .. at
      PROVE  BlankIn(cfg, raw, i, open') /\ \A k \in 1 .. Len(out) : BlankIn(cfg, raw, i, out[k])
  <2>1. CASE i = at
    <3>1. i \in ToSet(open')
      BY <1>2, <2>1
    <3>2. \A k \in 1 .. Len(out) : i - 1 \notin ToSet(out[k])
      BY <1>1, <2>1, NotEmitted
    <3>. QED
      BY ONLY <3>1, <3>2, Zenon DEF BlankIn
  <2>2. CASE i # at
    <3>1. i \in 2 .. at - 1 /\ i - 1 # at
      BY <1>2, <2>2
    <3>2. BlankIn(cfg, raw, i, open) /\ \A k \in 1 .. Len(out) : BlankIn(cfg, raw, i, out[k])
      BY <3>1 DEF JoinInv, BlanksKept
    <3>3. i - 1 \in ToSet(open') => i - 1 \in ToSet(open)
      BY <1>2, <3>1
    <3>4. Len(open') <= cfg.maxLines => Len(open) <= cfg.maxLines
      BY JoinsRoom
    <3>5. Bytes(cfg, raw, open') + cfg.joiner <= cfg.maxBytes
            => Bytes(cfg, raw, open) + cfg.joiner <= cfg.maxBytes
      BY JoinsRoom
    <3>6. i \in ToSet(open) => i \in ToSet(open')
      BY <1>2
    <3>7. BlankIn(cfg, raw, i, open')
      BY ONLY <3>2, <3>3, <3>4, <3>5, <3>6, Zenon DEF BlankIn
    <3>. QED
      BY <3>2, <3>7
  <2>. QED
    BY <2>1, <2>2
<1>4. at' - 1 = at
  BY <1>1, <1>2
<1>5. \A i \in 2 .. at' - 1 :
        /\ BlankIn(cfg', raw', i, open')
        /\ \A k \in 1 .. Len(out') : BlankIn(cfg', raw', i, out'[k])
  BY ONLY <1>1, <1>3, <1>4, Zenon
<1>. QED
  BY ONLY <1>5, Zenon DEF BlanksKept

LEMMA JoinsSplits ==
  ASSUME JoinInv, Joins
  PROVE  SplitsDue' /\ HeadsCounted'
<1>1. /\ raw' = raw /\ cfg' = cfg /\ out' = out /\ at' = at + 1
      /\ open # <<>> /\ open' # <<>> /\ open'[1] = open[1] /\ IsContinuation(cfg, raw[at])
  BY JoinFacts, JoinsChained DEF Joins
<1>2. SplitsDue'
  <2>1. SplitsDue
    BY DEF JoinInv
  <2>. QED
    BY ONLY <1>1, <2>1, Zenon DEF SplitsDue
<1>3. ASSUME cfg.mode = "header"
      PROVE  Cardinality(HeadRecords(raw, out)) + (IF raw[open[1]] = "head" THEN 1 ELSE 0)
               = Cardinality(HeadLines(raw, at))
  <2>1. Cardinality(HeadRecords(raw, out)) + (IF raw[open[1]] = "head" THEN 1 ELSE 0)
          = Cardinality(HeadLines(raw, at - 1))
    BY <1>1, <1>3 DEF JoinInv, HeadsCounted
  <2>2. raw[at] # "head"
    BY <1>1, <1>3 DEF IsContinuation
  <2>3. at - 1 \in Nat /\ (at - 1) + 1 = at
    BY JoinFacts
  <2>4. /\ Cardinality(HeadLines(raw, at - 1)) \in Nat
        /\ Cardinality(HeadLines(raw, (at - 1) + 1)) = Cardinality(HeadLines(raw, at - 1))
              + (IF raw[(at - 1) + 1] = "head" THEN 1 ELSE 0)
    <3>1. PICK text, n : text = raw /\ n = at - 1
      OBVIOUS
    <3>2. n \in Nat
      BY <2>3, <3>1
    <3>3. /\ Cardinality(HeadLines(text, n)) \in Nat
          /\ Cardinality(HeadLines(text, n + 1)) = Cardinality(HeadLines(text, n))
                + (IF text[n + 1] = "head" THEN 1 ELSE 0)
      BY <3>2, HeadLinesGrow
    <3>. QED
      BY ONLY <3>1, <3>3, Zenon
  <2>5. Cardinality(HeadLines(raw, at)) = Cardinality(HeadLines(raw, at - 1))
    BY ONLY <2>2, <2>3, <2>4
  <2>. QED
    BY ONLY <2>1, <2>5, Zenon
<1>4. at' - 1 = at
  BY <1>1, JoinFacts
<1>5. cfg'.mode = "header" =>
        Cardinality(HeadRecords(raw', out'))
          + (IF open' # <<>> /\ raw'[open'[1]] = "head" THEN 1 ELSE 0)
        = Cardinality(HeadLines(raw', at' - 1))
  BY ONLY <1>1, <1>3, <1>4
<1>. QED
  BY <1>2, <1>5 DEF HeadsCounted

LEMMA JoinsKeep ==
  ASSUME JoinInv, Joins
  PROVE  JoinInv'
BY JoinsShapes, JoinsChained, JoinsCovered, JoinsBounded, JoinsBlanks, JoinsSplits
DEF JoinInv

-----------------------------------------------------------------------------
(***************************************************************************)
(* A flush keeps the invariant, whatever is written to the builder then    *)
(***************************************************************************)
\* After a flush, record k is one of those before it or the one that was open.
LEMMA FlushedRecord ==
  ASSUME JoinInv, NEW written, written \in {<<>>, <<at>>}, Flushes(written), NEW k \in 1 .. Len(out')
  PROVE  \/ k \in 1 .. Len(out) /\ out'[k] = out[k]
         \/ k = Len(out) + 1 /\ open # <<>> /\ out'[k] = open
<1>1. /\ Len(out) \in Nat
      /\ Len(out') = IF open = <<>> THEN Len(out) ELSE Len(out) + 1
      /\ \A j \in 1 .. Len(out) : out'[j] = out[j]
      /\ open # <<>> => out'[Len(out) + 1] = open
  BY FlushFacts
<1>. QED
  BY <1>1

LEMMA FlushesShapes ==
  ASSUME JoinInv, NEW written, written \in {<<>>, <<at>>}, Flushes(written)
  PROVE  JoinShapes' /\ JoinPhases'
<1>1. raw' = raw /\ cfg' = cfg /\ entry' = entry
  BY DEF Flushes
<1>2. /\ raw \in Inputs /\ entry \in {"reader", "strings"} /\ cfg \in CfgSet
      /\ jerr \in {"none", "config", "nil reader", "read"}
  BY Zenon DEF JoinInv, JoinShapes
<1>3. Begins(written) \/ Finishes(written)
  BY DEF Flushes
<1>4. /\ jpc' \in {"validate", "scan", "returned"}
      /\ jerr' \in {"none", "config", "nil reader", "read"}
  BY <1>2, <1>3 DEF Begins, Finishes
<1>5. /\ at \in Nat /\ (at' = at \/ at' = at + 1) /\ at' \in 1 .. Len(raw) + 1
      /\ open' = written /\ nLines' = 0 /\ (written # <<>> => at' = at + 1)
      /\ open \in Seq(1 .. at - 1) /\ out \in Seq(Seq(1 .. at - 1))
      /\ out' = IF open = <<>> THEN out ELSE Append(out, open)
  BY FlushFacts
<1>6. at' - 1 \in Nat /\ 1 .. at - 1 \subseteq 1 .. at' - 1
      /\ (written # <<>> => at \in 1 .. at' - 1)
  <2>1. /\ at \in 1 .. Len(raw) + 1 /\ Len(raw) \in Nat /\ (at' = at \/ at' = at + 1)
        /\ (written # <<>> => at' = at + 1)
    BY FlushFacts
  <2>. QED
    BY ONLY <2>1
<1>7. open' \in Seq(1 .. at' - 1) /\ nLines' = IF open' = <<>> THEN 0 ELSE Len(open') - 1
  <2>1. CASE written = <<>>
    BY <1>5, <2>1
  <2>2. CASE written # <<>>
    <3>1. written = <<at>> /\ at \in 1 .. at' - 1
      BY <1>6, <2>2, Zenon
    <3>2. <<at>> \in Seq(1 .. at' - 1) /\ Len(<<at>>) = 1 /\ <<at>> # <<>>
      BY <3>1
    <3>. QED
      BY <1>5, <3>1, <3>2
  <2>. QED
    BY <2>1, <2>2
<1>8. out' \in Seq(Seq(1 .. at' - 1))
  <2>. DEFINE S == Seq(1 .. at' - 1)
  <2>. DEFINE old == 1 .. at - 1  new == 1 .. at' - 1
  <2>5. out \in Seq(Seq(old)) /\ open \in Seq(old) /\ old \subseteq new
    BY ONLY <1>5, <1>6
  <2>6. S = Seq(new)
    OBVIOUS
  <2>. HIDE DEF S, old, new
  <2>1. out \in Seq(S)
    BY ONLY <2>5, <2>6, Widen, SMTT(60)
  <2>2. open \in S
    BY ONLY <2>5, <2>6, SeqMonotonic, SMTT(60)
  <2>3. Append(out, open) \in Seq(S)
    BY <2>1, <2>2, Appended
  <2>4. out' \in Seq(S)
    BY <1>5, <2>1, <2>3
  <2>. QED
    BY <2>4 DEF S
<1>9. at' \in 1 .. Len(raw') + 1
  BY ONLY <1>1, <1>5, Zenon
<1>10. JoinShapes'
  BY ONLY <1>1, <1>2, <1>4, <1>7, <1>8, <1>9, Zenon DEF JoinShapes
<1>11. JoinPhases'
  <2>1. jpc' = "scan" \/ (open' = <<>> /\ (jerr' = "none" => at' = Len(raw') + 1) /\ jpc' = "returned")
    BY <1>1, <1>3, <1>5 DEF Begins, Finishes
  <2>. QED
    BY ONLY <2>1, Zenon DEF JoinPhases
<1>. QED
  BY <1>10, <1>11

LEMMA FlushesChained ==
  ASSUME JoinInv, NEW written, written \in {<<>>, <<at>>}, Flushes(written)
  PROVE  /\ Chained'
         /\ \A k \in 1 .. Len(out') : Consecutive(out'[k]) /\ Last(out'[k]) < at
<1>1. /\ \A k \in 1 .. Len(out) : Consecutive(out[k])
      /\ open # <<>> => Consecutive(open) /\ Last(open) = at - 1
      /\ \A k, m \in 1 .. Len(out) : k < m => Last(out[k]) < out[m][1]
      /\ \A k \in 1 .. Len(out) : open # <<>> => Last(out[k]) < open[1]
  BY DEF JoinInv, Chained
<1>2. jpc = "scan" /\ at \in Nat /\ Len(out) \in Nat
  BY FlushFacts DEF Flushes
<1>3. \A k \in 1 .. Len(out') : Consecutive(out'[k]) /\ Last(out'[k]) < at
  <2>. TAKE k \in 1 .. Len(out')
  <2>1. CASE k \in 1 .. Len(out) /\ out'[k] = out[k]
    <3>1. Last(out[k]) \in Nat /\ Last(out[k]) < at - 1
      BY <1>2, <2>1, NotEmitted
    <3>2. Last(out[k]) < at
      BY ONLY <1>2, <3>1
    <3>. QED
      BY <1>1, <2>1, <3>2
  <2>2. CASE k = Len(out) + 1 /\ open # <<>> /\ out'[k] = open
    <3>1. at - 1 < at
      BY <1>2
    <3>. QED
      BY <1>1, <2>2, <3>1
  <2>. QED
    BY <2>1, <2>2, FlushedRecord
<1>4. \A k, m \in 1 .. Len(out') : k < m => Last(out'[k]) < out'[m][1]
  <2>. SUFFICES ASSUME NEW k \in 1 .. Len(out'), NEW m \in 1 .. Len(out'), k < m
                PROVE  Last(out'[k]) < out'[m][1]
    BY Zenon
  <2>1. Len(out') = IF open = <<>> THEN Len(out) ELSE Len(out) + 1
    BY FlushFacts
  <2>2. k \in 1 .. Len(out) /\ out'[k] = out[k]
    <3>1. k # Len(out) + 1
      BY <1>2, <2>1
    <3>. QED
      BY <3>1, FlushedRecord
  <2>3. CASE m \in 1 .. Len(out) /\ out'[m] = out[m]
    BY <1>1, <2>2, <2>3
  <2>4. CASE m = Len(out) + 1 /\ open # <<>> /\ out'[m] = open
    BY <1>1, <2>2, <2>4
  <2>. QED
    BY <2>3, <2>4, FlushedRecord
<1>5. open' = <<>> \/ (open' = <<at>> /\ at' = at + 1)
  BY FlushFacts
<1>6. open' # <<>> => Consecutive(open') /\ Last(open') = at' - 1 /\ open'[1] = at
  <2>. SUFFICES ASSUME open' # <<>> PROVE Consecutive(open') /\ Last(open') = at' - 1 /\ open'[1] = at
    OBVIOUS
  <2>1. open' = <<at>> /\ at' - 1 = at /\ Len(<<at>>) = 1 /\ <<at>>[1] = at
    BY <1>2, <1>5
  <2>2. Last(open') = at
    BY <2>1 DEF Last
  <2>3. Consecutive(open')
    <3>1. \A j \in 1 .. Len(open') : open'[j] = open'[1] + j - 1
      BY <1>2, <2>1
    <3>. QED
      BY <3>1 DEF Consecutive
  <2>. QED
    BY <2>1, <2>2, <2>3
<1>7. \A k \in 1 .. Len(out') :
        /\ open' # <<>> => Last(out'[k]) < open'[1]
        /\ open' = <<>> /\ jpc' = "scan" => Last(out'[k]) < at' - 1
  <2>1. jpc' = "scan" => at' - 1 = at
    <3>1. Begins(written) \/ Finishes(written)
      BY DEF Flushes
    <3>. QED
      BY <1>2, <3>1 DEF Begins, Finishes
  <2>. QED
    BY <1>3, <1>6, <2>1
<1>. QED
  BY <1>3, <1>4, <1>6, <1>7 DEF Chained

LEMMA FlushesCovered ==
  ASSUME JoinInv, NEW written, written \in {<<>>, <<at>>}, Flushes(written)
  PROVE  Covered'
<1>1. /\ \A i \in 1 .. at - 1 :
           raw[i] # "blank" => i \in ToSet(open) \/ \E k \in 1 .. Len(out) : i \in ToSet(out[k])
      /\ raw' = raw
  BY DEF JoinInv, Covered, HasText, Flushes
<1>2. /\ at \in Nat /\ (at' = at \/ at' = at + 1) /\ open' = written /\ Len(out) \in Nat
      /\ Len(out') = IF open = <<>> THEN Len(out) ELSE Len(out) + 1
      /\ \A k \in 1 .. Len(out) : out'[k] = out[k]
      /\ open # <<>> => out'[Len(out) + 1] = open
      /\ at' = at + 1 => (raw[at] # "blank" => written = <<at>>)
  BY FlushFacts
<1>3. open = <<>> => ToSet(open) = {}
  BY DEF ToSet
<1>4. at \in ToSet(<<at>>)
  BY DEF ToSet
<1>5. ASSUME NEW i \in 1 .. at' - 1, raw'[i] # "blank"
      PROVE  i \in ToSet(open') \/ \E k \in 1 .. Len(out') : i \in ToSet(out'[k])
  <2>1. CASE i \in 1 .. at - 1
    <3>1. CASE i \in ToSet(open)
      <4>1. Len(out) + 1 \in 1 .. Len(out') /\ i \in ToSet(out'[Len(out) + 1])
        BY <1>2, <1>3, <3>1
      <4>. QED
        BY <4>1
    <3>2. CASE \E k \in 1 .. Len(out) : i \in ToSet(out[k])
      <4>1. PICK k \in 1 .. Len(out) : i \in ToSet(out[k])
        BY <3>2
      <4>2. k \in 1 .. Len(out') /\ i \in ToSet(out'[k])
        BY <1>2, <4>1
      <4>. QED
        BY <4>2
    <3>. QED
      BY <1>1, <1>5, <2>1, <3>1, <3>2
  <2>2. CASE i = at /\ at' = at + 1
    BY <1>1, <1>2, <1>4, <1>5, <2>2
  <2>3. i \in 1 .. at - 1 \/ (i = at /\ at' = at + 1)
    <3>1. at \in Nat /\ (at' = at \/ at' = at + 1) /\ i \in 1 .. at' - 1
      BY <1>2
    <3>. QED
      BY ONLY <3>1
  <2>. QED
    BY <2>1, <2>2, <2>3
<1>. QED
  BY <1>5 DEF Covered, HasText

LEMMA FlushesBounded ==
  ASSUME JoinInv, NEW written, written \in {<<>>, <<at>>}, Flushes(written)
  PROVE  Bounded'
<1>1. raw' = raw /\ cfg' = cfg /\ jpc = "scan" /\ open' = written
  BY FlushFacts DEF Flushes
<1>2. InLimits(cfg, raw, open) /\ \A k \in 1 .. Len(out) : InLimits(cfg, raw, out[k])
  BY <1>1 DEF JoinInv, Bounded
<1>3. InLimits(cfg, raw, open')
  <2>1. Len(open') = 0 \/ Len(open') = 1
    <3>1. open' = <<>> \/ open' = <<at>>
      BY <1>1
    <3>2. Len(<<>>) = 0 /\ Len(<<at>>) = 1
      OBVIOUS
    <3>. QED
      BY ONLY <3>1, <3>2, Zenon
  <2>2. ~ (Len(open') > 1)
    <3>1. PICK q : q = Len(open')
      OBVIOUS
    <3>2. ~ (q > 1)
      BY ONLY <2>1, <3>1
    <3>. QED
      BY ONLY <3>1, <3>2, Zenon
  <2>. QED
    BY ONLY <2>2, Zenon DEF InLimits
<1>4. \A k \in 1 .. Len(out') : InLimits(cfg, raw, out'[k])
  BY <1>2, FlushedRecord
<1>. QED
  BY ONLY <1>1, <1>3, <1>4, Zenon DEF Bounded

\* Why a line does not join the record that is open.
LEMMA NoRoom ==
  ASSUME JoinInv, NEW written, written \in {<<>>, <<at>>}, Flushes(written),
         at' = at + 1, open # <<>>
  PROVE  \/ ~ IsContinuation(cfg, raw[at])
         \/ Len(open) > cfg.maxLines
         \/ Bytes(cfg, raw, open) + LineLen[raw[at]] + cfg.joiner > cfg.maxBytes
<1>1. Begins(written)
  <2>1. at \in Nat /\ (Begins(written) \/ Finishes(written))
    BY FlushFacts DEF Flushes
  <2>2. at' # at
    BY <2>1
  <2>. QED
    BY ONLY <2>1, <2>2, Zenon DEF Finishes
<1>2. ~ IsContinuation(cfg, raw[at]) \/ Full(cfg, at)
  BY <1>1 DEF Begins
<1>3. nLines >= cfg.maxLines => Len(open) > cfg.maxLines
  <2>1. nLines = Len(open) - 1 /\ Len(open) \in Nat
    BY FlushFacts DEF JoinInv, JoinShapes
  <2>2. cfg \in CfgSet
    BY Zenon DEF JoinInv, JoinShapes
  <2>3. cfg.maxLines \in Int
    BY <2>2 DEF CfgSet
  <2>. QED
    BY ONLY <2>1, <2>3
<1>. QED
  BY ONLY <1>2, <1>3, Zenon DEF Full

LEMMA FlushesBlanks ==
  ASSUME JoinInv, NEW written, written \in {<<>>, <<at>>}, Flushes(written)
  PROVE  BlanksKept'
<1>1. raw' = raw /\ cfg' = cfg /\ jpc = "scan" /\ open' = written
  BY FlushFacts DEF Flushes
<1>2. at \in Nat /\ (at' = at \/ at' = at + 1) /\ (written # <<>> => at' = at + 1)
  BY FlushFacts
<1>3. ToSet(<<>>) = {} /\ ToSet(<<at>>) = {at}
  BY DEF ToSet
<1>4. \A i \in 2 .. at - 1 :
        /\ BlankIn(cfg, raw, i, open)
        /\ \A k \in 1 .. Len(out) : BlankIn(cfg, raw, i, out[k])
  BY DEF JoinInv, BlanksKept
<1>5. ASSUME NEW i, i \in 2 .. at' - 1
      PROVE  /\ BlankIn(cfg, raw, i, open')
             /\ \A k \in 1 .. Len(out') : BlankIn(cfg, raw, i, out'[k])
  <2>1. i \in 2 .. at - 1 \/ (i = at /\ at' = at + 1)
    BY ONLY <1>2, <1>5
  <2>2. i - 1 # at
    BY ONLY <1>2, <1>5
  <2>3. i - 1 \notin ToSet(open')
    BY ONLY <1>1, <1>3, <2>2, written \in {<<>>, <<at>>}
  <2>4. BlankIn(cfg, raw, i, open')
    BY ONLY <2>3, Zenon DEF BlankIn
  <2>5. ASSUME i \in 2 .. at - 1
        PROVE  \A k \in 1 .. Len(out') : BlankIn(cfg, raw, i, out'[k])
    BY <1>4, <2>5, FlushedRecord
  <2>6. ASSUME i = at, at' = at + 1, NEW k \in 1 .. Len(out')
        PROVE  BlankIn(cfg, raw, i, out'[k])
    <3>1. CASE k \in 1 .. Len(out) /\ out'[k] = out[k]
      <4>1. i - 1 \notin ToSet(out[k])
        BY <1>1, <2>6, <3>1, NotEmitted
      <4>. QED
        BY ONLY <3>1, <4>1, Zenon DEF BlankIn
    <3>2. CASE k = Len(out) + 1 /\ open # <<>> /\ out'[k] = open
      <4>1. \/ ~ IsContinuation(cfg, raw[at])
            \/ Len(open) > cfg.maxLines
            \/ Bytes(cfg, raw, open) + LineLen[raw[at]] + cfg.joiner > cfg.maxBytes
        BY <2>6, <3>2, NoRoom
      <4>2. ~ (Len(open) > cfg.maxLines /\ Len(open) <= cfg.maxLines)
        <5>1. cfg \in CfgSet /\ Len(open) \in Nat
          BY FlushFacts DEF JoinInv, JoinShapes
        <5>2. cfg.maxLines \in Int
          BY <5>1 DEF CfgSet
        <5>. QED
          BY ONLY <5>1, <5>2
      <4>3. raw[at] = "blank" =>
              ~ (/\ Bytes(cfg, raw, open) + LineLen[raw[at]] + cfg.joiner > cfg.maxBytes
                 /\ Bytes(cfg, raw, open) + cfg.joiner <= cfg.maxBytes)
        <5>1. cfg \in CfgSet /\ raw \in Seq(Kinds) /\ open \in Seq(1 .. at - 1)
              /\ at \in 1 .. Len(raw) /\ Len(raw) \in Nat
          BY <2>6, FlushFacts DEF JoinInv, JoinShapes
        <5>2. 1 .. at - 1 \subseteq 1 .. Len(raw)
          BY ONLY <5>1
        <5>3. open \in Seq(1 .. Len(raw))
          BY ONLY <5>1, <5>2, SeqMonotonic
        <5>4. PICK c, text, lines, n : c = cfg /\ text = raw /\ lines = open /\ n = at
          OBVIOUS
        <5>5. Bytes(c, text, lines) \in Nat /\ c.joiner \in Nat
          BY <5>1, <5>3, <5>4, BytesGrow
        <5>6. Bytes(cfg, raw, open) \in Nat /\ cfg.joiner \in Nat
          BY ONLY <5>4, <5>5, Zenon
        <5>7. cfg.maxBytes \in Int
          BY <5>1 DEF CfgSet
        <5>8. LineLen["blank"] = 0
          BY MultilineAssumption DEF Kinds
        <5>9. PICK b, joiner, max :
                b = Bytes(cfg, raw, open) /\ joiner = cfg.joiner /\ max = cfg.maxBytes
          OBVIOUS
        <5>10. b \in Nat /\ joiner \in Nat /\ max \in Int
          BY ONLY <5>6, <5>7, <5>9, Zenon
        <5>11. ~ (b + 0 + joiner > max /\ b + joiner <= max)
          BY ONLY <5>10
        <5>. QED
          BY ONLY <5>8, <5>9, <5>11, Zenon
      <4>. QED
        BY ONLY <2>6, <3>2, <4>1, <4>2, <4>3, Zenon DEF BlankIn
    <3>. QED
      BY <3>1, <3>2, FlushedRecord
  <2>. QED
    BY <2>1, <2>4, <2>5, <2>6
<1>. QED
  BY ONLY <1>1, <1>5, Zenon DEF BlanksKept

LEMMA FlushesSplits ==
  ASSUME JoinInv, NEW written, written \in {<<>>, <<at>>}, Flushes(written)
  PROVE  SplitsDue'
<1>1. raw' = raw /\ cfg' = cfg /\ jpc = "scan" /\ open' = written
  BY FlushFacts DEF Flushes
<1>2. /\ Len(out) \in Nat /\ at \in Nat
      /\ Len(out') = IF open = <<>> THEN Len(out) ELSE Len(out) + 1
      /\ \A k \in 1 .. Len(out) : out'[k] = out[k]
      /\ open # <<>> => out'[Len(out) + 1] = open
      /\ (out = <<>> <=> Len(out) = 0)
      /\ written # <<>> => at' = at + 1 /\ written = <<at>>
  <2>1. out = <<>> <=> Len(out) = 0
    BY FlushFacts, EmptySeq
  <2>. QED
    BY <2>1, FlushFacts
<1>3. /\ \A k \in 1 .. Len(out) - 1 : Due(cfg, raw, out[k], out[k + 1][1])
      /\ out # <<>> /\ open # <<>> => Due(cfg, raw, out[Len(out)], open[1])
  BY DEF JoinInv, SplitsDue
<1>4. ASSUME NEW k, k \in 1 .. Len(out') - 1
      PROVE  Due(cfg, raw, out'[k], out'[k + 1][1])
  <2>1. /\ k \in 1 .. Len(out)
        /\ k \in 1 .. Len(out) - 1 \/ (k = Len(out) /\ open # <<>>)
        /\ k \in 1 .. Len(out) - 1 => k + 1 \in 1 .. Len(out)
    BY ONLY <1>2, <1>4
  <2>2. CASE k \in 1 .. Len(out) - 1
    BY ONLY <1>2, <1>3, <2>1, <2>2, Zenon
  <2>3. CASE k = Len(out) /\ open # <<>>
    <3>1. out # <<>>
      BY <1>2, <2>1, <2>3
    <3>. QED
      BY ONLY <1>2, <1>3, <2>1, <2>3, <3>1, Zenon
  <2>. QED
    BY <2>1, <2>2, <2>3
<1>5. ASSUME out' # <<>>, open' # <<>>
      PROVE  Due(cfg, raw, out'[Len(out')], open'[1])
  <2>1. open'[1] = at /\ at' = at + 1
    BY <1>1, <1>2, <1>5
  <2>2. CASE open = <<>>
    <3>1. out' = out /\ Len(out) \in 1 .. Len(out)
      BY <1>2, <1>5, <2>2, FlushFacts
    <3>2. Last(out[Len(out)]) \in Nat /\ Last(out[Len(out)]) < at - 1
      BY <1>1, <3>1, NotEmitted
    <3>3. at # Last(out[Len(out)]) + 1
      BY <1>2, <3>2
    <3>. QED
      BY ONLY <2>1, <3>1, <3>3, Zenon DEF Due
  <2>3. CASE open # <<>>
    <3>1. out'[Len(out')] = open
      BY <1>2, <2>3
    <3>2. Due(cfg, raw, open, at)
      BY <2>1, <2>3, NoRoom DEF Due
    <3>. QED
      BY ONLY <2>1, <3>1, <3>2, Zenon
  <2>. QED
    BY <2>2, <2>3
<1>. QED
  BY ONLY <1>1, <1>4, <1>5, Zenon DEF SplitsDue

LEMMA FlushesHeads ==
  ASSUME JoinInv, NEW written, written \in {<<>>, <<at>>}, Flushes(written)
  PROVE  HeadsCounted'
<1>1. raw' = raw /\ cfg' = cfg /\ open' = written
  BY FlushFacts DEF Flushes
<1>2. /\ Len(out) \in Nat /\ at - 1 \in Nat /\ (at - 1) + 1 = at
      /\ (at' = at \/ at' = at + 1) /\ at' - 1 \in Nat
      /\ at' = at => written = <<>>
      /\ at' = at + 1 => at' - 1 = at /\ (raw[at] # "blank" => written = <<at>>)
      /\ <<at>> # <<>> /\ <<at>>[1] = at
  BY FlushFacts
<1>3. ASSUME cfg.mode = "header"
      PROVE  Cardinality(HeadRecords(raw, out'))
               + (IF written # <<>> /\ raw[written[1]] = "head" THEN 1 ELSE 0)
               = Cardinality(HeadLines(raw, at' - 1))
  <2>1. Cardinality(HeadRecords(raw, out))
          + (IF open # <<>> /\ raw[open[1]] = "head" THEN 1 ELSE 0)
          = Cardinality(HeadLines(raw, at - 1))
    BY <1>3 DEF JoinInv, HeadsCounted
  <2>2. PICK text, recs, longer, n, m :
          text = raw /\ recs = out /\ longer = out' /\ n = at - 1 /\ m = Len(out)
    OBVIOUS
  <2>3. /\ Cardinality(HeadLines(text, n)) \in Nat
        /\ Cardinality(HeadLines(text, n + 1)) =
             Cardinality(HeadLines(text, n)) + (IF text[n + 1] = "head" THEN 1 ELSE 0)
    BY <1>2, <2>2, HeadLinesGrow
  <2>4. Cardinality(HeadRecords(raw, out')) =
          Cardinality(HeadRecords(raw, out))
            + (IF open # <<>> /\ raw[open[1]] = "head" THEN 1 ELSE 0)
    <3>1. CASE open = <<>>
      <4>1. out' = out
        BY <3>1, FlushFacts
      <4>2. PICK q : q = Cardinality(HeadRecords(raw, out))
        OBVIOUS
      <4>3. q \in Nat
        <5>1. HeadRecords(text, recs) \subseteq 1 .. m /\ m \in Nat
          BY <1>2, <2>2 DEF HeadRecords
        <5>2. Cardinality(HeadRecords(text, recs)) \in Nat
          BY ONLY <5>1, CountGrows
        <5>. QED
          BY ONLY <2>2, <4>2, <5>2, Zenon
      <4>4. q = q + 0
        BY ONLY <4>3
      <4>. QED
        BY ONLY <3>1, <4>1, <4>2, <4>4
    <3>2. CASE open # <<>>
      <4>1. /\ m \in Nat /\ Len(recs) = m /\ Len(longer) = m + 1
            /\ \A k \in 1 .. m : longer[k] = recs[k]
            /\ longer[m + 1] = open
        BY <2>2, <3>2, FlushFacts
      <4>2. Cardinality(HeadRecords(text, longer)) =
              Cardinality(HeadRecords(text, recs))
                + (IF text[longer[m + 1][1]] = "head" THEN 1 ELSE 0)
        <5>1. PICK k : k = m
          OBVIOUS
        <5>2. /\ k \in Nat /\ Len(recs) = k /\ Len(longer) = k + 1
              /\ \A j \in 1 .. k : longer[j] = recs[j]
          BY ONLY <4>1, <5>1
        <5>3. Cardinality(HeadRecords(text, longer)) =
                Cardinality(HeadRecords(text, recs))
                  + (IF text[longer[k + 1][1]] = "head" THEN 1 ELSE 0)
          BY ONLY <5>2, HeadRecordsGrow
        <5>. QED
          BY ONLY <5>1, <5>3
      <4>. QED
        BY ONLY <2>2, <3>2, <4>1, <4>2
    <3>. QED
      BY <3>1, <3>2
  <2>5. Cardinality(HeadRecords(raw, out')) = Cardinality(HeadLines(raw, at - 1))
    BY ONLY <2>1, <2>4
  <2>6. /\ Cardinality(HeadLines(raw, at - 1)) \in Nat
        /\ Cardinality(HeadLines(raw, at)) =
             Cardinality(HeadLines(raw, at - 1)) + (IF raw[at] = "head" THEN 1 ELSE 0)
    BY ONLY <1>2, <2>2, <2>3
  <2>7. CASE at' = at
    <3>1. at' - 1 = at - 1 /\ written = <<>>
      BY <1>2, <2>7
    <3>. QED
      BY ONLY <2>5, <2>6, <3>1
  <2>8. CASE at' = at + 1
    <3>1. at' - 1 = at /\ (raw[at] = "head" => written = <<at>>)
      BY <1>2, <2>8
    <3>2. (written # <<>> /\ raw[written[1]] = "head") <=> raw[at] = "head"
      <4>1. written = <<>> \/ written = <<at>>
        OBVIOUS
      <4>. QED
        BY ONLY <1>2, <3>1, <4>1
    <3>. QED
      BY ONLY <2>5, <2>6, <3>1, <3>2
  <2>. QED
    BY <1>2, <2>7, <2>8
<1>. QED
  BY ONLY <1>1, <1>3, Zenon DEF HeadsCounted

LEMMA FlushesKeep ==
  ASSUME JoinInv, NEW written, written \in {<<>>, <<at>>}, Flushes(written)
  PROVE  JoinInv'
BY FlushesShapes, FlushesChained, FlushesCovered, FlushesBounded, FlushesBlanks, FlushesSplits,
   FlushesHeads
DEF JoinInv

-----------------------------------------------------------------------------
(***************************************************************************)
(* The first step, and the invariant of the joiner                         *)
(***************************************************************************)
LEMMA NormalisedTyped ==
  ASSUME NEW c \in CfgSet
  PROVE  Normalised(c) \in CfgSet
<1>. DEFINE j == IF c.joiner = 0 THEN 1 ELSE c.joiner
            l == IF c.maxLines <= 0 THEN DefaultMaxLines ELSE c.maxLines
            b == IF c.maxBytes <= 0 THEN DefaultMaxBytes ELSE c.maxBytes
<1>1. /\ c.mode \in STRING /\ c.given \in BOOLEAN /\ c.joiner \in Nat
      /\ c.maxLines \in Int /\ c.maxBytes \in Int
  BY DEF CfgSet
<1>2. j \in Nat /\ l \in Int /\ b \in Int
  BY <1>1, MultilineAssumption
<1>3. Normalised(c) = [[[c EXCEPT !.joiner = j] EXCEPT !.maxLines = l] EXCEPT !.maxBytes = b]
  BY DEF Normalised
<1>. HIDE DEF j, l, b
<1>4. [c EXCEPT !.joiner = j] \in CfgSet
  BY <1>2 DEF CfgSet
<1>5. \A d \in CfgSet : [d EXCEPT !.maxLines = l] \in CfgSet
  BY <1>2 DEF CfgSet
<1>6. \A d \in CfgSet : [d EXCEPT !.maxBytes = b] \in CfgSet
  BY <1>2 DEF CfgSet
<1>. QED
  BY ONLY <1>3, <1>4, <1>5, <1>6, Zenon

\* Nothing is read yet, or validate refused the configuration.
NothingRead ==
  /\ raw \in Inputs /\ entry \in {"reader", "strings"} /\ cfg \in CfgSet
  /\ jpc \in {"validate", "scan", "returned"}
  /\ jerr \in {"none", "config", "nil reader", "read"}
  /\ jpc = "returned" => jerr # "none"
  /\ at = 1 /\ open = <<>> /\ nLines = 0 /\ out = <<>>

LEMMA NothingReadSound == NothingRead => JoinInv
<1>. SUFFICES ASSUME NothingRead PROVE JoinInv
  OBVIOUS
<1>1. at = 1 /\ open = <<>> /\ nLines = 0 /\ out = <<>>
  BY Zenon DEF NothingRead
<1>2. 1 .. at - 1 = {} /\ 2 .. at - 1 = {} /\ 1 .. Len(out) = {} /\ 1 .. Len(out) - 1 = {}
  BY ONLY <1>1
<1>3. ~ (Len(open) > 1) /\ Len(open) = 0
  BY ONLY <1>1
<1>4. open \in Seq(1 .. at - 1) /\ out \in Seq(Seq(1 .. at - 1))
  <2>1. \A S : <<>> \in Seq(S)
    BY EmptySeq
  <2>. QED
    BY ONLY <1>1, <2>1, Zenon
<1>5. at \in 1 .. Len(raw) + 1
  <2>1. raw \in Inputs /\ MaxInput \in Nat
    BY MultilineAssumption DEF NothingRead
  <2>2. Len(raw) \in 0 .. MaxInput
    BY <2>1, RawTyped
  <2>. QED
    BY ONLY <1>1, <2>1, <2>2
<1>6. JoinShapes
  BY <1>1, <1>4, <1>5, Zenon DEF JoinShapes, NothingRead
<1>7. JoinPhases
  BY <1>1, Zenon DEF JoinPhases, NothingRead
<1>8. Chained /\ Covered /\ BlanksKept /\ SplitsDue
  BY ONLY <1>1, <1>2, Zenon DEF Chained, Covered, BlanksKept, SplitsDue
<1>9. Bounded
  BY ONLY <1>2, <1>3, Zenon DEF Bounded, InLimits
<1>10. HeadsCounted
  <2>1. HeadRecords(raw, out) = {} /\ HeadLines(raw, at - 1) = {}
    BY ONLY <1>2, Zenon DEF HeadRecords, HeadLines
  <2>2. Cardinality({}) = 0
    BY FS_EmptySet
  <2>3. (IF open # <<>> /\ raw[open[1]] = "head" THEN 1 ELSE 0) = 0
    BY ONLY <1>1, Zenon
  <2>4. 0 + 0 = 0
    OBVIOUS
  <2>. QED
    BY ONLY <2>1, <2>2, <2>3, <2>4, Zenon DEF HeadsCounted
<1>. QED
  BY <1>6, <1>7, <1>8, <1>9, <1>10 DEF JoinInv

LEMMA JoinStarts ==
  ASSUME JoinInit
  PROVE  JoinInv
<1>1. cfg \in CfgSet
  BY MultilineAssumption DEF JoinInit, CfgSet
<1>2. NothingRead
  BY <1>1 DEF JoinInit, NothingRead
<1>. QED
  BY <1>2, NothingReadSound

LEMMA ValidateKeeps ==
  ASSUME JoinInv, Validate
  PROVE  JoinInv'
<1>1. /\ raw' = raw /\ entry' = entry /\ at' = at /\ open' = open /\ nLines' = nLines
      /\ out' = out /\ jpc = "validate"
  BY DEF Validate
<1>2. /\ raw \in Inputs /\ entry \in {"reader", "strings"} /\ cfg \in CfgSet
      /\ jerr \in {"none", "config", "nil reader", "read"}
      /\ nLines = IF open = <<>> THEN 0 ELSE Len(open) - 1
  BY Zenon DEF JoinInv, JoinShapes
<1>3. at = 1 /\ open = <<>> /\ out = <<>> /\ nLines = 0
  BY <1>1, <1>2 DEF JoinInv, JoinPhases
<1>4. cfg' \in CfgSet
  BY <1>2, NormalisedTyped DEF Validate
<1>5. /\ jpc' \in {"validate", "scan", "returned"}
      /\ jerr' \in {"none", "config", "nil reader", "read"}
      /\ jpc' = "returned" => jerr' # "none"
  BY <1>2 DEF Validate, JoinReturn
<1>6. NothingRead'
  BY ONLY <1>1, <1>2, <1>3, <1>4, <1>5, Zenon DEF NothingRead
<1>. QED
  BY <1>6, NothingReadSound, PTL

-----------------------------------------------------------------------------
(***************************************************************************)
(* The inductive invariant of the decoder                                  *)
(***************************************************************************)
Outcomes == {"fields", "error", "zero"}

DecodeShapes ==
  /\ count \in Nat /\ hits \subseteq 1 .. count
  /\ dpc \in {"idle", "reading", "decoding", "returned"}
  /\ derr \in {"none", "nil argument", "callback", "read"}
  /\ pos \in Seq(Nat) /\ running \subseteq 1 .. Len(pos)
  /\ done \in Nat /\ received \in Nat
  /\ done + received + Cardinality(running) = Len(pos)
  /\ delivered \in Seq(Outcomes) /\ Len(delivered) <= count

AllDecoded == results = [i \in 1 .. count |-> DecodeOne(i)]

DecodePhases ==
  /\ dpc = "idle" => done = 0 /\ received = 0
  /\ dpc # "decoding" => running = {}
  /\ dpc \in {"idle", "reading"} => results = <<>> /\ derr = "none"
  /\ dpc \in {"idle", "decoding"} => delivered = <<>> /\ derr = "none"
  /\ dpc = "returned" =>
       \/ AllDecoded /\ delivered = <<>> /\ derr = "none"
       \/ results = <<>> /\ (derr = "none" => Len(delivered) = count)

\* The lines that a worker at p has before it.
Stripe(p, step) == {p + k * step : k \in Nat}

\* Each worker stays on its own stripe, and a line that has no result yet is
\* before a worker that runs.
Striped ==
  dpc = "decoding" =>
    /\ Len(pos) # 0
    /\ \A w \in 1 .. Len(pos) : pos[w] \in Stripe(w, Len(pos))
    /\ results \in [1 .. count -> Outcomes]
    /\ \A i \in 1 .. count :
         results[i] = DecodeOne(i) \/ \E w \in running : i \in Stripe(pos[w], Len(pos))

\* What is decoded is what JoinMultiline returned.
Linked ==
  dpc # "idle" =>
    jpc = "returned" /\ jerr = "none" /\ count = Len(out) /\ hits = HeadRecords(raw, out)

DecodeInv ==
  /\ DecodeShapes
  /\ DecodePhases
  /\ Striped
  /\ TotalsAreDelivered
  /\ Linked

IInv == JoinInv /\ DecodeInv
-----------------------------------------------------------------------------
(***************************************************************************)
(* Stripes                                                                 *)
(***************************************************************************)
LEMMA StripesApart ==
  ASSUME NEW W \in Nat, NEW v \in 1 .. W, NEW w \in 1 .. W, v < w,
         NEW p \in Stripe(v, W), NEW q \in Stripe(w, W)
  PROVE  p # q
<1>1. PICK k \in Nat : p = v + k * W
  BY DEF Stripe
<1>2. PICK l \in Nat : q = w + l * W
  BY DEF Stripe
<1>3. k * W \in Nat /\ l * W \in Nat
  OBVIOUS
<1>4. CASE k <= l
  <2>1. k * W <= l * W
    BY <1>4
  <2>. QED
    BY <1>1, <1>2, <1>3, <2>1
<1>5. CASE l < k
  <2>1. PICK d \in Nat : k = l + 1 + d
    <3>1. k - l - 1 \in Nat /\ k = l + 1 + (k - l - 1)
      BY <1>5
    <3>. QED
      BY <3>1
  <2>2. k * W = l * W + W + d * W /\ d * W \in Nat
    BY <2>1
  <2>. QED
    BY <1>1, <1>2, <1>3, <2>2
<1>. QED
  BY <1>4, <1>5

LEMMA StripesCover ==
  ASSUME NEW W \in Nat \ {0}, NEW i \in Nat \ {0}
  PROVE  \E w \in 1 .. W : i \in Stripe(w, W)
<1>. DEFINE S == {n \in Nat : \E w \in 1 .. W, k \in Nat : n + 1 = w + k * W}
<1>1. 0 \in S
  <2>1. 1 \in 1 .. W /\ 0 \in Nat /\ 0 + 1 = 1 + 0 * W
    OBVIOUS
  <2>. QED
    BY <2>1
<1>2. ASSUME NEW n \in Nat, n \in S PROVE n + 1 \in S
  <2>1. PICK w \in 1 .. W, k \in Nat : n + 1 = w + k * W
    BY <1>2
  <2>2. k * W \in Nat
    OBVIOUS
  <2>3. CASE w < W
    <3>1. w + 1 \in 1 .. W /\ (n + 1) + 1 = (w + 1) + k * W
      BY <2>1, <2>2, <2>3
    <3>2. \E v \in 1 .. W, l \in Nat : (n + 1) + 1 = v + l * W
      BY ONLY <3>1, k \in Nat, Zenon
    <3>. QED
      BY <3>2
  <2>4. CASE w = W
    <3>1. (k + 1) * W = k * W + W
      OBVIOUS
    <3>2. 1 \in 1 .. W /\ k + 1 \in Nat /\ (n + 1) + 1 = 1 + (k + 1) * W
      BY <2>1, <2>2, <2>4, <3>1
    <3>3. \E v \in 1 .. W, l \in Nat : (n + 1) + 1 = v + l * W
      BY ONLY <3>2, Zenon
    <3>. QED
      BY <3>3
  <2>. QED
    BY <2>3, <2>4
<1>. HIDE DEF S
<1>3. Nat \subseteq S
  BY <1>1, <1>2, UpFromZero
<1>4. i - 1 \in S /\ (i - 1) + 1 = i
  BY <1>3
<1>. QED
  BY <1>4 DEF S, Stripe

LEMMA StripeGoesOn ==
  ASSUME NEW W \in Nat, NEW p \in Nat
  PROVE  /\ p \in Stripe(p, W)
         /\ \A i \in Stripe(p, W) : i \in Nat /\ i >= p /\ (i = p \/ i \in Stripe(p + W, W))
         /\ \A w \in Nat : p \in Stripe(w, W) => p + W \in Stripe(w, W)
<1>1. p \in Stripe(p, W)
  <2>1. p = p + 0 * W
    OBVIOUS
  <2>. QED
    BY <2>1 DEF Stripe
<1>2. ASSUME NEW i \in Stripe(p, W)
      PROVE  i \in Nat /\ i >= p /\ (i = p \/ i \in Stripe(p + W, W))
  <2>1. PICK k \in Nat : i = p + k * W
    BY <1>2 DEF Stripe
  <2>2. k * W \in Nat
    OBVIOUS
  <2>3. CASE k = 0
    BY <2>1, <2>3
  <2>4. CASE k # 0
    <3>1. k - 1 \in Nat /\ k * W = (k - 1) * W + W /\ (k - 1) * W \in Nat
      BY <2>4
    <3>2. i = (p + W) + (k - 1) * W
      BY <2>1, <3>1
    <3>3. i \in Stripe(p + W, W)
      BY <3>1, <3>2 DEF Stripe
    <3>. QED
      BY <2>1, <2>2, <3>3
  <2>. QED
    BY <2>3, <2>4
<1>3. ASSUME NEW w \in Nat, p \in Stripe(w, W) PROVE p + W \in Stripe(w, W)
  <2>1. PICK k \in Nat : p = w + k * W
    BY <1>3 DEF Stripe
  <2>2. (k + 1) * W = k * W + W /\ k * W \in Nat
    OBVIOUS
  <2>3. k + 1 \in Nat /\ p + W = w + (k + 1) * W
    BY <2>1, <2>2
  <2>. QED
    BY <2>3 DEF Stripe
<1>. QED
  BY <1>1, <1>2, <1>3

-----------------------------------------------------------------------------
(***************************************************************************)
(* The decoder's steps                                                     *)
(***************************************************************************)
LEMMA DecodeFacts ==
  ASSUME DecodeShapes
  PROVE  /\ count \in Nat /\ hits \subseteq 1 .. count /\ Len(pos) \in Nat
         /\ Workers = 1 .. Len(pos) /\ Cardinality(Workers) = Len(pos)
         /\ \A w \in 1 .. Len(pos) : pos[w] \in Nat
         /\ running \subseteq 1 .. Len(pos) /\ IsFiniteSet(running)
         /\ Cardinality(running) \in Nat /\ done \in Nat /\ received \in Nat
         /\ Len(delivered) \in Nat /\ DOMAIN delivered = 1 .. Len(delivered)
         /\ Len(delivered) <= count
<1>1. pos \in Seq(Nat) /\ running \subseteq 1 .. Len(pos) /\ delivered \in Seq(Outcomes)
      /\ count \in Nat /\ hits \subseteq 1 .. count /\ done \in Nat /\ received \in Nat
      /\ Len(delivered) <= count
  BY Zenon DEF DecodeShapes
<1>2. Len(pos) \in Nat /\ Workers = 1 .. Len(pos) /\ \A w \in 1 .. Len(pos) : pos[w] \in Nat
  BY <1>1, Listed DEF Workers
<1>3. IsFiniteSet(1 .. Len(pos)) /\ Cardinality(1 .. Len(pos)) = Len(pos)
  BY <1>2, FS_Interval
<1>4. IsFiniteSet(running) /\ Cardinality(running) \in Nat
  BY <1>1, <1>3, FS_Subset, FS_CardinalityType
<1>5. Len(delivered) \in Nat /\ DOMAIN delivered = 1 .. Len(delivered)
  BY <1>1, Listed
<1>. QED
  BY <1>1, <1>2, <1>3, <1>4, <1>5

\* A step that leaves the input and the joiner alone keeps the link.
LEMMA LinkedKept ==
  ASSUME Linked, dpc # "idle", UNCHANGED joinVars, count' = count, hits' = hits
  PROVE  Linked'
BY DEF Linked, joinVars, HeadRecords

LEMMA WorkersRunning ==
  ASSUME DecodeInv, NEW w \in running
  PROVE  /\ dpc = "decoding" /\ w \in 1 .. Len(pos) /\ w \in Workers
         /\ derr = "none" /\ delivered = <<>>
BY DecodeFacts DEF DecodeInv, DecodePhases

LEMMA DecodeStripeKeeps ==
  ASSUME DecodeInv, NEW w \in Workers, DecodeStripe(w), UNCHANGED joinVars
  PROVE  DecodeInv'
<1>1. /\ w \in running /\ pos[w] <= count
      /\ results' = [results EXCEPT ![pos[w]] = DecodeOne(pos[w])]
      /\ pos' = [pos EXCEPT ![w] = @ + Cardinality(Workers)]
      /\ count' = count /\ hits' = hits /\ dpc' = dpc /\ running' = running /\ done' = done
      /\ received' = received /\ delivered' = delivered /\ matched' = matched
      /\ failed' = failed /\ derr' = derr
  BY Zenon DEF DecodeStripe
<1>2. /\ dpc = "decoding" /\ w \in 1 .. Len(pos) /\ derr = "none" /\ delivered = <<>>
  BY <1>1, WorkersRunning
<1>3. PICK W : W = Len(pos)
  OBVIOUS
<1>4. /\ W \in Nat /\ Cardinality(Workers) = W /\ \A v \in 1 .. W : pos[v] \in Nat
      /\ running \subseteq 1 .. W /\ w \in 1 .. W
  BY <1>2, <1>3, DecodeFacts DEF DecodeInv
<1>5. /\ pos' \in Seq(Nat) /\ Len(pos') = W
      /\ pos'[w] = pos[w] + W /\ \A v \in 1 .. W : v # w => pos'[v] = pos[v]
  <2>1. pos \in Seq(Nat) /\ pos[w] + W \in Nat
    <3>1. pos \in Seq(Nat)
      BY Zenon DEF DecodeInv, DecodeShapes
    <3>2. pos[w] \in Nat
      BY <1>4
    <3>. QED
      BY ONLY <1>4, <3>1, <3>2
  <2>2. pos' = [pos EXCEPT ![w] = pos[w] + W]
    BY <1>1, <1>4
  <2>. QED
    BY <1>2, <1>3, <2>1, <2>2, ExceptSeq
<1>6. /\ W # 0 /\ \A v \in 1 .. W : pos[v] \in Stripe(v, W)
      /\ results \in [1 .. count -> Outcomes]
      /\ \A i \in 1 .. count : results[i] = DecodeOne(i) \/ \E v \in running : i \in Stripe(pos[v], W)
  BY <1>2, <1>3 DEF DecodeInv, Striped
<1>7. pos[w] \in 1 .. count /\ count \in Nat
  <2>1. pos[w] >= w
    <3>1. PICK p : p = pos[w]
      OBVIOUS
    <3>2. w \in Nat /\ W \in Nat /\ p \in Stripe(w, W)
      BY <1>4, <1>6, <3>1
    <3>3. p >= w
      BY ONLY <3>2, StripeGoesOn
    <3>. QED
      BY ONLY <3>1, <3>3
  <2>2. count \in Nat /\ pos[w] \in Nat /\ w \in Nat /\ w >= 1 /\ pos[w] <= count
    BY <1>1, <1>4, DecodeFacts DEF DecodeInv
  <2>. QED
    BY ONLY <2>1, <2>2
<1>8. /\ results' \in [1 .. count -> Outcomes]
      /\ \A i \in 1 .. count : results'[i] = IF i = pos[w] THEN DecodeOne(i) ELSE results[i]
  <2>1. DecodeOne(pos[w]) \in Outcomes
    BY DEF DecodeOne, Outcomes
  <2>. QED
    BY <1>1, <1>6, <1>7, <2>1
<1>9. \A v \in 1 .. W : pos'[v] \in Stripe(v, W)
  <2>1. pos[w] + W \in Stripe(w, W)
    <3>1. PICK p : p = pos[w]
      OBVIOUS
    <3>2. p \in Nat /\ w \in Nat /\ p \in Stripe(w, W) /\ W \in Nat
      BY <1>4, <1>6, <3>1
    <3>3. p + W \in Stripe(w, W)
      BY ONLY <3>2, StripeGoesOn
    <3>. QED
      BY ONLY <3>1, <3>3
  <2>. QED
    BY ONLY <1>5, <1>6, <2>1, Zenon
<1>10. ASSUME NEW i \in 1 .. count
       PROVE  results'[i] = DecodeOne(i) \/ \E v \in running : i \in Stripe(pos'[v], W)
  <2>1. CASE i = pos[w]
    BY <1>8, <2>1
  <2>2. CASE i # pos[w] /\ results[i] = DecodeOne(i)
    BY <1>8, <2>2
  <2>3. CASE i # pos[w] /\ \E v \in running : i \in Stripe(pos[v], W)
    <3>1. PICK v \in running : i \in Stripe(pos[v], W)
      BY <2>3
    <3>2. CASE v = w
      <4>1. i \in Stripe(pos[w] + W, W)
        BY <1>4, <2>3, <3>1, <3>2, StripeGoesOn
      <4>. QED
        BY <1>1, <1>5, <4>1
    <3>3. CASE v # w
      BY <1>4, <1>5, <3>1, <3>3
    <3>. QED
      BY <3>2, <3>3
  <2>. QED
    BY <1>6, <2>1, <2>2, <2>3
<1>11. \A i : DecodeOne(i)' = DecodeOne(i)
  BY <1>1 DEF DecodeOne
<1>12. Striped'
  BY ONLY <1>1, <1>3, <1>5, <1>6, <1>8, <1>9, <1>10, <1>11, Zenon DEF Striped
<1>13. DecodeShapes'
  <2>1. DecodeShapes
    BY DEF DecodeInv
  <2>. QED
    BY ONLY <1>1, <1>3, <1>5, <2>1, Zenon DEF DecodeShapes
<1>14. DecodePhases'
  BY ONLY <1>1, <1>2, Zenon DEF DecodePhases
<1>15. TotalsAreDelivered'
  <2>1. TotalsAreDelivered
    BY DEF DecodeInv
  <2>. QED
    BY ONLY <1>1, <1>11, <2>1, Zenon DEF TotalsAreDelivered
<1>16. Linked'
  BY <1>1, <1>2, LinkedKept DEF DecodeInv
<1>. QED
  BY <1>12, <1>13, <1>14, <1>15, <1>16 DEF DecodeInv

LEMMA WorkerDoneKeeps ==
  ASSUME DecodeInv, NEW w \in Workers, WorkerDone(w), UNCHANGED joinVars
  PROVE  DecodeInv'
<1>1. /\ w \in running /\ pos[w] > count /\ done' = done + 1 /\ running' = running \ {w}
      /\ count' = count /\ hits' = hits /\ dpc' = dpc /\ pos' = pos /\ received' = received
      /\ results' = results /\ delivered' = delivered /\ matched' = matched
      /\ failed' = failed /\ derr' = derr
  BY Zenon DEF WorkerDone
<1>2. dpc = "decoding" /\ w \in 1 .. Len(pos) /\ derr = "none" /\ delivered = <<>>
  BY <1>1, WorkersRunning
<1>3. DecodeShapes'
  <2>1. DecodeShapes
    BY DEF DecodeInv
  <2>2. done' \in Nat /\ running' \subseteq 1 .. Len(pos)
    BY <1>1, <2>1, DecodeFacts
  <2>3. done' + received + Cardinality(running') = Len(pos)
    <3>1. Cardinality(running') = Cardinality(running) - 1
      BY <1>1, <2>1, DecodeFacts, FS_RemoveElement
    <3>2. done + received + Cardinality(running) = Len(pos)
      BY <2>1 DEF DecodeShapes
    <3>3. done \in Nat /\ received \in Nat /\ Cardinality(running) \in Nat
      BY <2>1, DecodeFacts
    <3>4. PICK r, s, n : r = Cardinality(running) /\ s = Cardinality(running') /\ n = Len(pos)
      OBVIOUS
    <3>5. done + 1 + received + s = n
      BY ONLY <3>1, <3>2, <3>3, <3>4
    <3>. QED
      BY ONLY <1>1, <3>4, <3>5
  <2>. QED
    BY ONLY <1>1, <2>1, <2>2, <2>3, Zenon DEF DecodeShapes
<1>4. DecodePhases'
  BY ONLY <1>1, <1>2, Zenon DEF DecodePhases
<1>5. \A i : DecodeOne(i)' = DecodeOne(i)
  BY <1>1 DEF DecodeOne
<1>6. /\ Len(pos) # 0 /\ \A v \in 1 .. Len(pos) : pos[v] \in Stripe(v, Len(pos))
      /\ results \in [1 .. count -> Outcomes]
      /\ \A i \in 1 .. count :
           results[i] = DecodeOne(i) \/ \E v \in running : i \in Stripe(pos[v], Len(pos))
  BY <1>2 DEF DecodeInv, Striped
<1>7. ASSUME NEW i \in 1 .. count
      PROVE  results[i] = DecodeOne(i) \/ \E v \in running' : i \in Stripe(pos[v], Len(pos))
  <2>1. i \notin Stripe(pos[w], Len(pos))
    <3>1. PICK p, W : p = pos[w] /\ W = Len(pos)
      OBVIOUS
    <3>2. p \in Nat /\ W \in Nat /\ p > count /\ count \in Nat
      BY <1>1, <1>2, <3>1, DecodeFacts DEF DecodeInv
    <3>3. \A j \in Stripe(p, W) : j \in Nat /\ j >= p
      BY ONLY <3>2, StripeGoesOn
    <3>4. i \notin Stripe(p, W)
      BY <3>2, <3>3
    <3>. QED
      BY ONLY <3>1, <3>4
  <2>. QED
    BY <1>1, <1>6, <2>1
<1>8. Striped'
  BY ONLY <1>1, <1>5, <1>6, <1>7, Zenon DEF Striped
<1>9. TotalsAreDelivered'
  <2>1. TotalsAreDelivered
    BY DEF DecodeInv
  <2>. QED
    BY ONLY <1>1, <1>5, <2>1, Zenon DEF TotalsAreDelivered
<1>10. Linked'
  BY <1>1, <1>2, LinkedKept DEF DecodeInv
<1>. QED
  BY <1>3, <1>4, <1>8, <1>9, <1>10 DEF DecodeInv

LEMMA ReceiveDoneKeeps ==
  ASSUME DecodeInv, ReceiveDone, UNCHANGED joinVars
  PROVE  DecodeInv'
<1>1. /\ dpc = "decoding" /\ done > 0 /\ done' = done - 1 /\ received' = received + 1
      /\ count' = count /\ hits' = hits /\ dpc' = dpc /\ pos' = pos /\ running' = running
      /\ results' = results /\ delivered' = delivered /\ matched' = matched
      /\ failed' = failed /\ derr' = derr
  BY Zenon DEF ReceiveDone
<1>2. derr = "none" /\ delivered = <<>>
  BY <1>1 DEF DecodeInv, DecodePhases
<1>3. DecodeShapes'
  <2>1. DecodeShapes
    BY DEF DecodeInv
  <2>2. /\ done \in Nat /\ received \in Nat /\ Cardinality(running) \in Nat
        /\ done + received + Cardinality(running) = Len(pos)
    BY <2>1, DecodeFacts DEF DecodeShapes
  <2>3. done' \in Nat /\ received' \in Nat
    BY ONLY <1>1, <2>2
  <2>4. done' + received' = done + received
    BY ONLY <1>1, <2>2
  <2>. QED
    BY ONLY <1>1, <2>1, <2>2, <2>3, <2>4, Zenon DEF DecodeShapes
<1>4. DecodePhases'
  BY ONLY <1>1, <1>2, Zenon DEF DecodePhases
<1>5. \A i : DecodeOne(i)' = DecodeOne(i)
  BY <1>1 DEF DecodeOne
<1>6. Striped' /\ TotalsAreDelivered'
  <2>1. Striped /\ TotalsAreDelivered
    BY DEF DecodeInv
  <2>. QED
    BY ONLY <1>1, <1>5, <2>1, Zenon DEF Striped, TotalsAreDelivered
<1>7. Linked'
  BY <1>1, LinkedKept DEF DecodeInv
<1>. QED
  BY <1>3, <1>4, <1>6, <1>7 DEF DecodeInv

\* The parent returns when every worker has sent its message, and then none runs
\* and every line has its result.
LEMMA ReturnResultsKeeps ==
  ASSUME DecodeInv, ReturnResults, UNCHANGED joinVars
  PROVE  DecodeInv'
<1>1. /\ dpc = "decoding" /\ received = Cardinality(Workers) /\ dpc' = "returned"
      /\ count' = count /\ hits' = hits /\ pos' = pos /\ running' = running /\ done' = done
      /\ received' = received /\ results' = results /\ delivered' = delivered
      /\ matched' = matched /\ failed' = failed /\ derr' = derr
  BY Zenon DEF ReturnResults
<1>2. derr = "none" /\ delivered = <<>> /\ DecodeShapes /\ TotalsAreDelivered /\ Striped
  BY <1>1 DEF DecodeInv, DecodePhases
<1>3. running = {}
  <2>1. /\ done \in Nat /\ received \in Nat /\ Cardinality(running) \in Nat
        /\ done + received + Cardinality(running) = Len(pos) /\ IsFiniteSet(running)
        /\ received = Len(pos)
    BY <1>1, <1>2, DecodeFacts DEF DecodeShapes
  <2>2. Cardinality(running) = 0
    BY ONLY <2>1
  <2>. QED
    BY <2>1, <2>2, FS_EmptySet
<1>4. \A i : DecodeOne(i)' = DecodeOne(i)
  BY <1>1 DEF DecodeOne
<1>5. AllDecoded
  <2>1. results \in [1 .. count -> Outcomes] /\ \A i \in 1 .. count : results[i] = DecodeOne(i)
    BY <1>1, <1>2, <1>3 DEF Striped
  <2>. QED
    BY <2>1 DEF AllDecoded
<1>6. AllDecoded'
  BY ONLY <1>1, <1>4, <1>5, Zenon DEF AllDecoded
<1>7. DecodePhases'
  BY ONLY <1>1, <1>2, <1>3, <1>6, Zenon DEF DecodePhases
<1>8. DecodeShapes' /\ Striped' /\ TotalsAreDelivered'
  BY ONLY <1>1, <1>2, <1>4, Zenon DEF DecodeShapes, Striped, TotalsAreDelivered
<1>9. Linked'
  BY <1>1, LinkedKept DEF DecodeInv
<1>. QED
  BY <1>7, <1>8, <1>9 DEF DecodeInv

LEMMA DeliverKeeps ==
  ASSUME DecodeInv, Deliver, UNCHANGED joinVars
  PROVE  DecodeInv'
<1>. DEFINE n == Len(delivered)
<1>1. /\ dpc = "reading" /\ n + 1 <= count
      /\ matched' = matched + (IF n + 1 \in hits THEN 1 ELSE 0)
      /\ failed' = failed + (IF n + 1 \in hits THEN 0 ELSE 1)
      /\ delivered' = Append(delivered, DecodeOne(n + 1))
      /\ count' = count /\ hits' = hits /\ pos' = pos /\ running' = running /\ done' = done
      /\ received' = received /\ results' = results
  BY Zenon DEF Deliver
<1>2. (dpc' = "reading" /\ derr' = derr) \/ (dpc' = "returned" /\ derr' = "callback")
  BY DEF Deliver
<1>3. /\ derr = "none" /\ results = <<>> /\ running = {} /\ DecodeShapes /\ TotalsAreDelivered
  BY <1>1 DEF DecodeInv, DecodePhases
<1>4. n \in Nat /\ delivered \in Seq(Outcomes) /\ count \in Nat /\ DOMAIN delivered = 1 .. n
      /\ hits \subseteq 1 .. count
  BY <1>3, DecodeFacts DEF DecodeShapes
<1>5. DecodeOne(n + 1) \in Outcomes
  BY DEF DecodeOne, Outcomes
<1>6. /\ delivered' \in Seq(Outcomes) /\ Len(delivered') = n + 1
      /\ \A j \in 1 .. n : delivered'[j] = delivered[j]
      /\ delivered'[n + 1] = DecodeOne(n + 1)
      /\ DOMAIN delivered' = 1 .. n + 1
  <2>1. /\ delivered' \in Seq(Outcomes) /\ Len(delivered') = n + 1
        /\ \A j \in 1 .. n : delivered'[j] = delivered[j]
        /\ delivered'[n + 1] = DecodeOne(n + 1)
    BY <1>1, <1>4, <1>5, Appended
  <2>. QED
    BY <2>1, Listed
<1>. HIDE DEF n
<1>7. DecodeShapes'
  <2>1. dpc' \in {"idle", "reading", "decoding", "returned"}
        /\ derr' \in {"none", "nil argument", "callback", "read"}
    BY ONLY <1>2, <1>3
  <2>. QED
    BY ONLY <1>1, <1>3, <1>6, <2>1, Zenon DEF DecodeShapes
<1>8. DecodePhases'
  BY ONLY <1>1, <1>2, <1>3 DEF DecodePhases
<1>9. Striped'
  BY ONLY <1>2 DEF Striped
<1>10. TotalsAreDelivered'
  <2>1. \A i : DecodeOne(i)' = DecodeOne(i)
    BY <1>1 DEF DecodeOne
  <2>2. \A i \in 1 .. n + 1 : delivered'[i] = DecodeOne(i)
    <3>. TAKE i \in 1 .. n + 1
    <3>1. i \in 1 .. n \/ i = n + 1
      BY <1>4
    <3>. QED
      BY <1>3, <1>4, <1>6, <3>1 DEF TotalsAreDelivered
  <2>3. PICK S, T : S = hits \cap 1 .. n /\ T = hits \cap 1 .. n + 1
    OBVIOUS
  <2>4. S \subseteq 1 .. n /\ (T = S \/ T = S \cup {n + 1}) /\ (n + 1 \in T <=> n + 1 \in hits)
    BY <1>4, <2>3
  <2>5. /\ Cardinality(S) \in Nat
        /\ Cardinality(T) = Cardinality(S) + (IF n + 1 \in T THEN 1 ELSE 0)
    BY <1>4, <2>4, CountGrows
  <2>6. matched = Cardinality(S) /\ failed = n - matched
    BY <1>3, <1>4, <2>3 DEF TotalsAreDelivered, n
  <2>7. matched' = Cardinality(T) /\ failed' = (n + 1) - matched'
    BY ONLY <1>1, <1>4, <2>4, <2>5, <2>6
  <2>. QED
    BY ONLY <1>1, <1>6, <2>1, <2>2, <2>3, <2>7, Zenon DEF TotalsAreDelivered
<1>11. Linked'
  BY <1>1, LinkedKept DEF DecodeInv
<1>. QED
  BY <1>7, <1>8, <1>9, <1>10, <1>11 DEF DecodeInv

LEMMA EndOfInputKeeps ==
  ASSUME DecodeInv, EndOfInput, UNCHANGED joinVars
  PROVE  DecodeInv'
<1>1. /\ dpc = "reading" /\ dpc' = "returned"
      /\ count' = count /\ hits' = hits /\ pos' = pos /\ running' = running /\ done' = done
      /\ received' = received /\ results' = results /\ delivered' = delivered
      /\ matched' = matched /\ failed' = failed
  BY Zenon DEF EndOfInput
<1>2. (Len(delivered) = count /\ derr' = derr) \/ derr' = "read"
  BY DEF EndOfInput
<1>3. /\ derr = "none" /\ results = <<>> /\ running = {} /\ DecodeShapes /\ TotalsAreDelivered
  BY <1>1 DEF DecodeInv, DecodePhases
<1>4. DecodeShapes'
  <2>1. derr' \in {"none", "nil argument", "callback", "read"}
        /\ dpc' \in {"idle", "reading", "decoding", "returned"}
    BY ONLY <1>1, <1>2, <1>3
  <2>. QED
    BY ONLY <1>1, <1>3, <2>1, Zenon DEF DecodeShapes
<1>5. DecodePhases'
  BY ONLY <1>1, <1>2, <1>3, Zenon DEF DecodePhases
<1>6. Striped'
  BY ONLY <1>1 DEF Striped
<1>7. TotalsAreDelivered'
  <2>1. \A i : DecodeOne(i)' = DecodeOne(i)
    BY <1>1 DEF DecodeOne
  <2>. QED
    BY ONLY <1>1, <1>3, <2>1, Zenon DEF TotalsAreDelivered
<1>8. Linked'
  BY <1>1, LinkedKept DEF DecodeInv
<1>. QED
  BY <1>4, <1>5, <1>6, <1>7, <1>8 DEF DecodeInv

-----------------------------------------------------------------------------
(***************************************************************************)
(* The call: the records and their headers are handed over                 *)
(***************************************************************************)
\* What holds of an idle decoder, and of what it is given.
LEMMA IdleFacts ==
  ASSUME IInv, dpc = "idle"
  PROVE  /\ done = 0 /\ received = 0 /\ running = {} /\ Len(pos) = 0 /\ pos \in Seq(Nat)
         /\ results = <<>> /\ delivered = <<>> /\ derr = "none"
         /\ delivered \in Seq(Outcomes) /\ Len(delivered) = 0
         /\ Len(out) \in Nat /\ HeadRecords(raw, out) \subseteq 1 .. Len(out)
         /\ HeadRecords(raw, out) = {k \in DOMAIN out : raw[out[k][1]] = "head"}
         /\ \A n, matching : Take(n, matching) => (delivered' = delivered /\ matched' = matched
                                                     /\ failed' = failed => TotalsAreDelivered')
<1>1. /\ done = 0 /\ received = 0 /\ running = {} /\ results = <<>> /\ delivered = <<>>
      /\ derr = "none" /\ DecodeShapes /\ TotalsAreDelivered
  BY DEF IInv, DecodeInv, DecodePhases
<1>2. pos \in Seq(Nat) /\ Len(pos) = 0
  <2>1. done + received + Cardinality(running) = Len(pos) /\ pos \in Seq(Nat)
    BY <1>1, Zenon DEF DecodeShapes
  <2>2. Cardinality(running) = 0
    BY <1>1, FS_EmptySet
  <2>. QED
    BY ONLY <1>1, <2>1, <2>2
<1>3. delivered \in Seq(Outcomes) /\ Len(delivered) = 0 /\ DOMAIN delivered = {}
  BY <1>1, EmptySeq
<1>4. Len(out) \in Nat /\ DOMAIN out = 1 .. Len(out)
  <2>. DEFINE S == Seq(1 .. at - 1)
  <2>1. out \in Seq(S)
    BY Shapes DEF IInv, JoinInv
  <2>. HIDE DEF S
  <2>. QED
    BY <2>1, Listed
<1>5. HeadRecords(raw, out) = {k \in DOMAIN out : raw[out[k][1]] = "head"}
  BY ONLY <1>4, Zenon DEF HeadRecords
<1>6. HeadRecords(raw, out) \subseteq 1 .. Len(out)
  BY DEF HeadRecords
<1>7. ASSUME delivered' = delivered, matched' = matched, failed' = failed
      PROVE  TotalsAreDelivered'
  <2>1. hits \cap DOMAIN delivered = {} /\ hits' \cap DOMAIN delivered' = {}
    BY <1>3, <1>7
  <2>2. matched = Cardinality({}) /\ failed = Len(delivered) - matched
    BY <1>1, <2>1 DEF TotalsAreDelivered
  <2>3. DOMAIN delivered' = {}
    BY <1>3, <1>7
  <2>. QED
    BY ONLY <1>7, <2>1, <2>2, <2>3, Zenon DEF TotalsAreDelivered
<1>. QED
  BY <1>1, <1>2, <1>3, <1>4, <1>5, <1>6, <1>7

LEMMA DecodeKeeps ==
  ASSUME IInv, NEW n, n = Len(out), NEW headed, headed = HeadRecords(raw, out),
         Decode(n, headed), UNCHANGED joinVars, jpc = "returned", jerr = "none"
  PROVE  DecodeInv'
<1>1. /\ dpc = "idle" /\ count' = n /\ hits' = headed /\ dpc' = "returned"
      /\ results' = [i \in 1 .. n |-> DecodeOne(i)']
      /\ pos' = pos /\ running' = running /\ done' = done /\ received' = received
      /\ delivered' = delivered /\ matched' = matched /\ failed' = failed /\ derr' = derr
  BY Zenon DEF Decode, Take
<1>2. /\ n \in Nat /\ headed \subseteq 1 .. n /\ derr = "none" /\ running = {}
      /\ delivered = <<>> /\ Len(delivered) = 0 /\ delivered \in Seq(Outcomes)
      /\ DecodeShapes /\ TotalsAreDelivered'
  BY <1>1, IdleFacts DEF IInv, DecodeInv, Decode
<1>3. AllDecoded'
  BY <1>1 DEF AllDecoded
<1>4. DecodePhases'
  BY ONLY <1>1, <1>2, <1>3, Zenon DEF DecodePhases
<1>5. DecodeShapes'
  <2>1. 0 <= n /\ dpc' \in {"idle", "reading", "decoding", "returned"}
    BY <1>1, <1>2
  <2>. QED
    BY ONLY <1>1, <1>2, <2>1, Zenon DEF DecodeShapes
<1>6. Striped'
  BY ONLY <1>1 DEF Striped
<1>7. Linked'
  BY <1>1 DEF Linked, joinVars
<1>. QED
  BY <1>2, <1>4, <1>5, <1>6, <1>7 DEF DecodeInv

LEMMA DecodeReaderKeeps ==
  ASSUME IInv, NEW n, n = Len(out), NEW headed, headed = HeadRecords(raw, out),
         DecodeReader(n, headed), UNCHANGED joinVars, jpc = "returned", jerr = "none"
  PROVE  DecodeInv'
<1>1. /\ dpc = "idle" /\ count' = n /\ hits' = headed
      /\ pos' = pos /\ running' = running /\ done' = done /\ received' = received
      /\ results' = results
      /\ delivered' = delivered /\ matched' = matched /\ failed' = failed
  BY Zenon DEF DecodeReader, Take
<1>2. (dpc' = "reading" /\ derr' = derr) \/ (dpc' = "returned" /\ derr' = "nil argument")
  BY DEF DecodeReader
<1>3. /\ n \in Nat /\ headed \subseteq 1 .. n /\ derr = "none" /\ running = {}
      /\ delivered = <<>> /\ Len(delivered) = 0 /\ delivered \in Seq(Outcomes)
      /\ results = <<>> /\ DecodeShapes /\ TotalsAreDelivered'
  BY <1>1, IdleFacts DEF IInv, DecodeInv, DecodeReader
<1>4. DecodePhases'
  BY ONLY <1>1, <1>2, <1>3 DEF DecodePhases
<1>5. DecodeShapes'
  <2>1. /\ dpc' \in {"idle", "reading", "decoding", "returned"}
        /\ derr' \in {"none", "nil argument", "callback", "read"}
    BY ONLY <1>2, <1>3
  <2>2. 0 <= n
    BY <1>3
  <2>. QED
    BY ONLY <1>1, <1>3, <2>1, <2>2, Zenon DEF DecodeShapes
<1>6. Striped'
  BY ONLY <1>2 DEF Striped
<1>7. Linked'
  BY <1>1 DEF Linked, joinVars
<1>. QED
  BY <1>3, <1>4, <1>5, <1>6, <1>7 DEF DecodeInv

LEMMA WorkersEffective ==
  ASSUME NEW n \in Nat \ {0}, NEW requested \in Int
  PROVE  EffectiveWorkers(n, requested) \in Nat \ {0}
<1>. DEFINE m == IF requested <= 0 THEN NumCPU ELSE requested
<1>1. m \in Nat \ {0}
  BY DecoderAssumption
<1>. HIDE DEF m
<1>2. \E x \in {n, m} : \A y \in {n, m} : x <= y
  BY <1>1
<1>3. Min({n, m}) \in {n, m}
  BY <1>2 DEF Min
<1>. QED
  BY <1>1, <1>3 DEF EffectiveWorkers, m

LEMMA DecodeConcurrentKeeps ==
  ASSUME IInv, NEW n, n = Len(out), NEW headed, headed = HeadRecords(raw, out),
         DecodeConcurrent(n, headed), UNCHANGED joinVars, jpc = "returned", jerr = "none"
  PROVE  DecodeInv'
<1>1. /\ dpc = "idle" /\ n >= MinBatch /\ count' = n /\ hits' = headed /\ dpc' = "decoding"
      /\ results' = [i \in 1 .. n |-> Zero]
      /\ done' = done /\ received' = received
      /\ delivered' = delivered /\ matched' = matched /\ failed' = failed /\ derr' = derr
  BY Zenon DEF DecodeConcurrent, Take
<1>2. /\ n \in Nat /\ headed \subseteq 1 .. n /\ derr = "none" /\ done = 0 /\ received = 0
      /\ delivered = <<>> /\ Len(delivered) = 0 /\ delivered \in Seq(Outcomes)
      /\ TotalsAreDelivered'
  BY <1>1, IdleFacts DEF DecodeConcurrent
<1>3. n \in Nat \ {0}
  BY <1>1, <1>2, DecoderAssumption
<1>4. PICK W \in Nat \ {0} : pos' = [w \in 1 .. W |-> w] /\ running' = 1 .. W
  <2>1. PICK requested \in WorkerRequests :
          /\ pos' = [w \in 1 .. EffectiveWorkers(n, requested) |-> w]
          /\ running' = 1 .. EffectiveWorkers(n, requested)
    BY DEF DecodeConcurrent
  <2>2. EffectiveWorkers(n, requested) \in Nat \ {0}
    BY <1>3, DecoderAssumption, WorkersEffective
  <2>. QED
    BY <2>1, <2>2
<1>5. /\ pos' \in Seq(Nat) /\ Len(pos') = W /\ \A w \in 1 .. W : pos'[w] = w
  BY <1>4
<1>6. Cardinality(running') = W /\ done' + received' + Cardinality(running') = Len(pos')
  <2>1. Cardinality(1 .. W) = W
    BY FS_Interval
  <2>2. 0 + 0 + W = W
    OBVIOUS
  <2>. QED
    BY ONLY <1>1, <1>2, <1>4, <1>5, <2>1, <2>2
<1>7. DecodeShapes'
  <2>1. /\ dpc' \in {"idle", "reading", "decoding", "returned"}
        /\ derr' \in {"none", "nil argument", "callback", "read"}
        /\ 0 <= n /\ done' \in Nat /\ received' \in Nat
    BY <1>1, <1>2
  <2>. QED
    BY ONLY <1>1, <1>2, <1>4, <1>5, <1>6, <2>1, Zenon DEF DecodeShapes
<1>8. DecodePhases'
  BY ONLY <1>1, <1>2 DEF DecodePhases
<1>9. Striped'
  <2>1. results' \in [1 .. n -> Outcomes]
    BY <1>1 DEF Zero, Outcomes
  <2>2. \A w \in 1 .. W : pos'[w] \in Stripe(w, W)
    BY <1>5, StripeGoesOn
  <2>3. \A i \in 1 .. n : \E w \in running' : i \in Stripe(pos'[w], W)
    BY <1>4, <1>5, StripesCover
  <2>4. W # 0
    OBVIOUS
  <2>. QED
    BY ONLY <1>1, <1>4, <1>5, <2>1, <2>2, <2>3, <2>4, Zenon DEF Striped
<1>10. Linked'
  BY <1>1 DEF Linked, joinVars
<1>. QED
  BY <1>2, <1>7, <1>8, <1>9, <1>10 DEF DecodeInv

-----------------------------------------------------------------------------
(***************************************************************************)
(* The invariant of the two together                                       *)
(***************************************************************************)
LEMMA JoinStepKeeps ==
  ASSUME IInv, JoinNext, UNCHANGED decodeVars
  PROVE  IInv'
<1>1. JoinInv'
  <2>1. JoinInv
    BY DEF IInv
  <2>. QED
    BY <2>1, JoinCases, JoinsKeep, FlushesKeep, ValidateKeeps
<1>2. jpc # "returned"
  BY DEF JoinNext, Validate, JoinMultiline, JoinMultilineStrings, JoinEnd
<1>3. /\ DecodeInv /\ dpc = "idle"
      /\ count' = count /\ hits' = hits /\ pos' = pos /\ running' = running /\ done' = done
      /\ received' = received /\ delivered' = delivered /\ matched' = matched
      /\ failed' = failed /\ derr' = derr /\ dpc' = dpc /\ results' = results
  BY <1>2 DEF IInv, DecodeInv, Linked, decodeVars
<1>4. \A i : DecodeOne(i)' = DecodeOne(i)
  BY <1>3 DEF DecodeOne
<1>5. DecodeShapes' /\ TotalsAreDelivered'
  BY ONLY <1>3, <1>4, Zenon DEF DecodeInv, DecodeShapes, TotalsAreDelivered
<1>6. DecodePhases' /\ Striped' /\ Linked'
  <2>1. DecodePhases
    BY <1>3 DEF DecodeInv
  <2>. QED
    BY ONLY <1>3, <2>1 DEF DecodePhases, Striped, Linked
<1>. QED
  BY <1>1, <1>5, <1>6 DEF IInv, DecodeInv

LEMMA JoinUnchanged ==
  ASSUME JoinInv, UNCHANGED joinVars
  PROVE  JoinInv'
<1>1. /\ raw' = raw /\ entry' = entry /\ cfg' = cfg /\ jpc' = jpc /\ at' = at /\ open' = open
      /\ nLines' = nLines /\ out' = out /\ jerr' = jerr
  BY DEF joinVars
<1>2. JoinShapes' /\ JoinPhases' /\ Chained'
  BY ONLY <1>1, JoinInv, Zenon DEF JoinInv, JoinShapes, JoinPhases, Chained
<1>3. Covered' /\ Bounded' /\ BlanksKept'
  BY ONLY <1>1, JoinInv, Zenon DEF JoinInv, Covered, HasText, Bounded, BlanksKept
<1>4. SplitsDue' /\ HeadsCounted'
  BY ONLY <1>1, JoinInv, Zenon DEF JoinInv, SplitsDue, HeadsCounted
<1>. QED
  BY <1>2, <1>3, <1>4 DEF JoinInv

LEMMA CallKeeps ==
  ASSUME IInv, Call, UNCHANGED joinVars
  PROVE  DecodeInv'
<1>1. PICK n, headed : /\ n = Len(out)
                       /\ headed = {k \in DOMAIN out : raw[out[k][1]] = "head"}
  OBVIOUS
<1>2. /\ jpc = "returned" /\ jerr = "none"
      /\ Decode(n, headed) \/ DecodeConcurrent(n, headed) \/ DecodeReader(n, headed)
  BY <1>1 DEF Call
<1>3. dpc = "idle"
  BY <1>2 DEF Decode, DecodeConcurrent, DecodeReader
<1>4. headed = HeadRecords(raw, out)
  BY <1>1, <1>3, IdleFacts
<1>. QED
  BY <1>1, <1>2, <1>4, DecodeKeeps, DecodeConcurrentKeeps, DecodeReaderKeeps

LEMMA DecodeStepKeeps ==
  ASSUME IInv, Call \/ DecodeStep, UNCHANGED joinVars
  PROVE  IInv'
<1>1. JoinInv /\ DecodeInv
  BY DEF IInv
<1>2. JoinInv'
  BY <1>1, JoinUnchanged
<1>3. DecodeInv'
  BY <1>1, CallKeeps, DecodeStripeKeeps, WorkerDoneKeeps, ReceiveDoneKeeps, ReturnResultsKeeps,
     DeliverKeeps, EndOfInputKeeps
     DEF DecodeStep
<1>. QED
  BY <1>2, <1>3 DEF IInv

LEMMA DecodeUnchanged ==
  ASSUME DecodeInv, UNCHANGED vars
  PROVE  DecodeInv'
<1>1. /\ raw' = raw /\ jpc' = jpc /\ out' = out /\ jerr' = jerr
      /\ count' = count /\ hits' = hits /\ pos' = pos /\ running' = running /\ done' = done
      /\ received' = received /\ delivered' = delivered /\ matched' = matched
      /\ failed' = failed /\ derr' = derr /\ dpc' = dpc /\ results' = results
  BY DEF vars, joinVars, decodeVars
<1>2. \A i : DecodeOne(i)' = DecodeOne(i)
  BY <1>1 DEF DecodeOne
<1>3. AllDecoded => AllDecoded'
  BY ONLY <1>1, <1>2, Zenon DEF AllDecoded
<1>4. DecodeShapes' /\ DecodePhases'
  BY ONLY <1>1, <1>3, DecodeInv, Zenon DEF DecodeInv, DecodeShapes, DecodePhases
<1>5. Striped' /\ TotalsAreDelivered' /\ Linked'
  BY ONLY <1>1, <1>2, DecodeInv, Zenon DEF DecodeInv, Striped, TotalsAreDelivered, Linked
<1>. QED
  BY <1>4, <1>5 DEF DecodeInv

LEMMA DecodeStarts ==
  ASSUME DecodeInit
  PROVE  DecodeInv
<1>1. /\ count = 0 /\ hits = {} /\ dpc = "idle" /\ pos = <<>> /\ running = {} /\ done = 0
      /\ received = 0 /\ results = <<>> /\ delivered = <<>> /\ matched = 0 /\ failed = 0
      /\ derr = "none"
  BY DEF DecodeInit
<1>2. Cardinality({}) = 0
  BY FS_EmptySet
<1>3. DecodeShapes
  BY <1>1, <1>2 DEF DecodeShapes
<1>4. DecodePhases /\ Striped /\ Linked
  BY <1>1 DEF DecodePhases, Striped, Linked
<1>5. TotalsAreDelivered
  <2>1. DOMAIN delivered = {} /\ hits \cap DOMAIN delivered = {} /\ Len(delivered) = 0
    BY <1>1
  <2>. QED
    BY <1>1, <1>2, <2>1 DEF TotalsAreDelivered
<1>. QED
  BY <1>3, <1>4, <1>5 DEF DecodeInv

\* The records and their results, at every moment of every run: the invariant
\* from which the four theorems below follow (multiline.go 109-236, decoder.go
\* 127-220).
THEOREM IntakeInvariant == Spec => []IInv
<1>1. Init => IInv
  BY JoinStarts, DecodeStarts DEF Init, IInv
<1>2. IInv /\ [Next]_vars => IInv'
  <2>. SUFFICES ASSUME IInv, [Next]_vars PROVE IInv'
    OBVIOUS
  <2>1. CASE JoinNext /\ UNCHANGED decodeVars
    BY <2>1, JoinStepKeeps
  <2>2. CASE (Call \/ DecodeStep) /\ UNCHANGED joinVars
    BY <2>2, DecodeStepKeeps
  <2>3. CASE UNCHANGED vars
    <3>1. UNCHANGED joinVars
      BY <2>3 DEF vars
    <3>. QED
      BY <2>3, <3>1, JoinUnchanged, DecodeUnchanged DEF IInv
  <2>. QED
    BY <2>1, <2>2, <2>3 DEF Next
<1>. QED
  BY <1>1, <1>2, PTL DEF Spec

-----------------------------------------------------------------------------
(***************************************************************************)
(* What the invariant says                                                 *)
(***************************************************************************)
LEMMA RecordCases ==
  ASSUME JoinInv
  PROVE  /\ \A k \in DOMAIN Records :
              \/ k \in 1 .. Len(out) /\ Records[k] = out[k]
              \/ k = Len(out) + 1 /\ Records[k] = open
         /\ \A r \in ToSet(Records) : r = open \/ \E k \in 1 .. Len(out) : r = out[k]
         /\ open \in ToSet(Records) /\ \A k \in 1 .. Len(out) : out[k] \in ToSet(Records)
         /\ Len(out) \in Nat /\ Records[Len(out) + 1] = open
         /\ \A k \in 1 .. Len(out) : Records[k] = out[k]
<1>. DEFINE S == Seq(1 .. at - 1)
<1>1. out \in Seq(S) /\ open \in S
  BY Shapes DEF JoinInv
<1>. HIDE DEF S
<1>2. /\ Records \in Seq(S) /\ Len(out) \in Nat /\ Len(Records) = Len(out) + 1
      /\ \A k \in 1 .. Len(out) : Records[k] = out[k]
      /\ Records[Len(out) + 1] = open
  BY <1>1, Appended DEF Records
<1>3. DOMAIN Records = 1 .. Len(Records) /\ ToSet(Records) = {Records[k] : k \in 1 .. Len(Records)}
  BY <1>2, Listed
<1>4. \A k \in 1 .. Len(Records) :
        \/ k \in 1 .. Len(out) /\ Records[k] = out[k]
        \/ k = Len(out) + 1 /\ Records[k] = open
  BY <1>2
<1>5. 1 .. Len(out) \subseteq 1 .. Len(Records) /\ Len(out) + 1 \in 1 .. Len(Records)
  BY <1>2
<1>6. \A r \in ToSet(Records) : r = open \/ \E k \in 1 .. Len(out) : r = out[k]
  BY ONLY <1>3, <1>4, Zenon
<1>7. open \in ToSet(Records) /\ \A k \in 1 .. Len(out) : out[k] \in ToSet(Records)
  BY <1>2, <1>3, <1>5
<1>. QED
  BY <1>2, <1>3, <1>4, <1>6, <1>7

\* The open record is no longer than what was read, and ends just before the next line.
LEMMA OpenLength ==
  ASSUME JoinInv
  PROVE  Len(open) <= at - 1 /\ (open # <<>> => Last(open) = at - 1)
<1>1. open \in Seq(1 .. at - 1) /\ at \in Nat /\ at - 1 \in Nat /\ Len(open) \in Nat
  BY Shapes DEF JoinInv
<1>2. open # <<>> => Consecutive(open) /\ Last(open) = at - 1
  BY DEF JoinInv, Chained
<1>3. CASE open = <<>>
  BY <1>1, <1>3
<1>4. CASE open # <<>>
  <2>1. Len(open) \in 1 .. Len(open) /\ 1 \in 1 .. Len(open)
    BY <1>1, <1>4
  <2>2. open[Len(open)] = open[1] + Len(open) - 1 /\ open[1] \in 1 .. at - 1
        /\ open[Len(open)] = at - 1
    BY <1>1, <1>2, <1>4, <2>1 DEF Consecutive, Last
  <2>. QED
    BY SMTT(60), <1>1, <1>2, <1>4, <2>2
<1>. QED
  BY <1>3, <1>4

LEMMA JoinTyped ==
  ASSUME JoinInv
  PROVE  JoinTypeOK
<1>1. /\ raw \in Inputs /\ entry \in {"reader", "strings"}
      /\ jpc \in {"validate", "scan", "returned"}
      /\ jerr \in {"none", "config", "nil reader", "read"}
      /\ nLines = IF open = <<>> THEN 0 ELSE Len(open) - 1
  BY Zenon DEF JoinInv, JoinShapes
<1>2. /\ at \in 1 .. Len(raw) + 1 /\ Len(raw) \in Nat /\ Len(open) \in Nat
      /\ (open = <<>> <=> Len(open) = 0) /\ Len(open) <= at - 1
  BY Shapes, OpenLength DEF JoinInv
<1>3. nLines \in 0 .. Len(raw)
  <2>1. nLines = 0 \/ (nLines = Len(open) - 1 /\ Len(open) # 0)
    BY ONLY <1>1, <1>2, Zenon
  <2>2. PICK n, m : n = Len(raw) /\ m = Len(open)
    OBVIOUS
  <2>3. n \in Nat /\ m \in Nat /\ m <= at - 1 /\ at \in 1 .. n + 1
    BY ONLY <1>2, <2>2
  <2>4. nLines = 0 \/ (nLines = m - 1 /\ m # 0)
    BY ONLY <2>1, <2>2, Zenon
  <2>5. nLines \in 0 .. n
    BY ONLY <2>3, <2>4
  <2>. QED
    BY ONLY <2>2, <2>5
<1>4. \A r : r \in Seq(1 .. at - 1) => ToSet(r) \subseteq 1 .. at - 1
  <2>. SUFFICES ASSUME NEW r \in Seq(1 .. at - 1) PROVE ToSet(r) \subseteq 1 .. at - 1
    OBVIOUS
  <2>. DEFINE S == 1 .. at - 1
  <2>1. r \in Seq(S)
    OBVIOUS
  <2>. HIDE DEF S
  <2>2. ToSet(r) = {r[k] : k \in 1 .. Len(r)} /\ \A k \in 1 .. Len(r) : r[k] \in S
    BY <2>1, Listed
  <2>3. ToSet(r) \subseteq S
    BY ONLY <2>2
  <2>. QED
    BY <2>3 DEF S
<1>5. \A r \in ToSet(out) \cup {open} : ToSet(r) \subseteq 1 .. at - 1
  <2>. DEFINE S == Seq(1 .. at - 1)
  <2>1. out \in Seq(S) /\ open \in S
    BY Shapes DEF JoinInv
  <2>. HIDE DEF S
  <2>2. \A r \in ToSet(out) \cup {open} : r \in S
    BY <2>1, Listed
  <2>. QED
    BY <1>4, <2>2 DEF S
<1>. QED
  BY ONLY <1>1, <1>2, <1>3, <1>5, Zenon DEF JoinTypeOK

LEMMA DecodeTyped ==
  ASSUME DecodeInv
  PROVE  DecodeTypeOK
<1>1. DecodeShapes
  BY DEF DecodeInv
<1>2. Workers = 1 .. Len(pos) /\ Cardinality(Workers) = Len(pos)
  BY <1>1, DecodeFacts
<1>. QED
  BY ONLY <1>1, <1>2, Zenon DEF DecodeTypeOK, DecodeShapes

LEMMA LinesKeptHolds ==
  ASSUME JoinInv
  PROVE  LinesKept
<1>1. /\ at \in Nat /\ at - 1 \in Nat /\ open \in Seq(1 .. at - 1)
      /\ \A k \in 1 .. Len(out) : out[k] \in Seq(1 .. at - 1)
  BY Shapes DEF JoinInv
<1>2. /\ \A k \in 1 .. Len(out) : Consecutive(out[k])
      /\ open # <<>> => Consecutive(open)
      /\ \A k, m \in 1 .. Len(out) : k < m => Last(out[k]) < out[m][1]
      /\ \A k \in 1 .. Len(out) : open # <<>> => Last(out[k]) < open[1]
  BY DEF JoinInv, Chained
<1>3. \A i \in 1 .. at - 1 : HasText(i) => \E r \in ToSet(Records) : i \in ToSet(r)
  BY RecordCases DEF JoinInv, Covered
<1>4. ASSUME NEW r \in Seq(1 .. at - 1), Consecutive(r), NEW a \in DOMAIN r, NEW b \in DOMAIN r, a < b
      PROVE  r[a] < r[b]
  <2>1. DOMAIN r = 1 .. Len(r) /\ Len(r) \in Nat /\ Len(r) # 0
    BY <1>4, Listed DEF Consecutive
  <2>2. r[a] = r[1] + a - 1 /\ r[b] = r[1] + b - 1
    BY <1>4, <2>1 DEF Consecutive
  <2>3. 1 \in 1 .. Len(r) /\ a \in Nat /\ b \in Nat
    BY <2>1
  <2>4. r[1] \in 1 .. at - 1
    BY <2>3, Listed
  <2>. QED
    BY ONLY SMTT(60), <1>1, <1>4, <2>2, <2>3, <2>4
<1>5. ASSUME NEW r \in Seq(1 .. at - 1), Consecutive(r), NEW s \in Seq(1 .. at - 1), Consecutive(s),
             Last(r) < s[1], NEW a \in DOMAIN r, NEW b \in DOMAIN s
      PROVE  r[a] < s[b]
  <2>1. r[a] \in ToSet(r) /\ s[b] \in ToSet(s)
    BY Listed
  <2>2. r[a] \in Nat /\ Last(r) \in Nat /\ r[a] <= Last(r) /\ s[1] \in Nat /\ s[1] <= s[b] /\ s[b] \in Nat
    BY <1>1, <1>5, <2>1, Between
  <2>. QED
    BY <1>5, <2>2
<1>6. ASSUME NEW k \in DOMAIN Records, NEW m \in DOMAIN Records,
             NEW a \in DOMAIN Records[k], NEW b \in DOMAIN Records[m],
             k < m \/ (k = m /\ a < b)
      PROVE  Records[k][a] < Records[m][b]
  <2>1. /\ Len(out) \in Nat
        /\ \/ k \in 1 .. Len(out) /\ Records[k] = out[k]
           \/ k = Len(out) + 1 /\ Records[k] = open
        /\ \/ m \in 1 .. Len(out) /\ Records[m] = out[m]
           \/ m = Len(out) + 1 /\ Records[m] = open
    BY RecordCases
  <2>2. Records[k] \in Seq(1 .. at - 1) /\ Records[m] \in Seq(1 .. at - 1)
    BY <1>1, <2>1
  <2>3. Records[k] # <<>> /\ Records[m] # <<>>
    BY <1>6
  <2>4. Consecutive(Records[k]) /\ Consecutive(Records[m])
    BY <1>2, <2>1, <2>3
  <2>5. CASE k = m
    <3>1. a < b
      BY <1>6, <2>1, <2>5
    <3>. QED
      BY <1>4, <2>2, <2>4, <2>5, <3>1
  <2>6. CASE k # m
    <3>1. k < m
      BY <1>6, <2>6
    <3>2. k \in 1 .. Len(out) /\ Records[k] = out[k]
      BY <2>1, <3>1
    <3>3. Last(Records[k]) < Records[m][1]
      BY <1>2, <2>1, <2>3, <3>1, <3>2
    <3>. QED
      BY <1>5, <2>2, <2>4, <3>3
  <2>. QED
    BY <2>5, <2>6
<1>. QED
  BY <1>3, <1>6 DEF LinesKept

LEMMA BlankJoinedHolds ==
  ASSUME JoinInv
  PROVE  BlankJoined
<1>1. \A i \in 2 .. at - 1 :
        /\ BlankIn(cfg, raw, i, open)
        /\ \A k \in 1 .. Len(out) : BlankIn(cfg, raw, i, out[k])
  BY DEF JoinInv, BlanksKept
<1>2. \A r \in ToSet(Records) : r = open \/ \E k \in 1 .. Len(out) : r = out[k]
  BY RecordCases
<1>3. \A i \in 2 .. at - 1 : \A r \in ToSet(Records) : BlankIn(cfg, raw, i, r)
  BY ONLY <1>1, <1>2, Zenon
<1>. QED
  BY ONLY <1>3, Zenon DEF BlankJoined, BlankIn

LEMMA RecordsBoundedHolds ==
  ASSUME JoinInv
  PROVE  RecordsBounded
<1>1. jpc # "validate" =>
        InLimits(cfg, raw, open) /\ \A k \in 1 .. Len(out) : InLimits(cfg, raw, out[k])
  BY DEF JoinInv, Bounded
<1>2. \A r \in ToSet(Records) : r = open \/ \E k \in 1 .. Len(out) : r = out[k]
  BY RecordCases
<1>3. jpc # "validate" => \A r \in ToSet(Records) : InLimits(cfg, raw, r)
  BY ONLY <1>1, <1>2, Zenon
<1>. QED
  BY ONLY <1>3, Zenon DEF RecordsBounded, InLimits

\* Every line of the log that has text is in one record, in its place, blank
\* lines stay inside the record they continue, and no record outgrows the limits
\* (JoinMultiline, multiline.go 109-236).
THEOREM RecordsAreWhole == Spec => []RecordsWhole
<1>1. IInv => RecordsWhole
  BY JoinTyped, DecodeTyped, LinesKeptHolds, BlankJoinedHolds, RecordsBoundedHolds
     DEF IInv, RecordsWhole, TypeOK
<1>. QED
  BY <1>1, IntakeInvariant, PTL

\* A record begins only where its first line is no continuation, or a line was
\* dropped, or the record before has no room for it (multiline.go 140-162: the
\* counter is reset with every flush).
THEOREM RecordsSplitWhereDue == Spec => []SplitsWhereDue
<1>1. IInv => SplitsWhereDue
  <2>. SUFFICES ASSUME IInv PROVE SplitsWhereDue
    OBVIOUS
  <2>1. /\ Len(out) \in Nat /\ Records[Len(out) + 1] = open
        /\ \A k \in 1 .. Len(out) : Records[k] = out[k]
    BY RecordCases DEF IInv
  <2>2. /\ \A k \in 1 .. Len(out) - 1 : Due(cfg, raw, out[k], out[k + 1][1])
        /\ out # <<>> /\ open # <<>> => Due(cfg, raw, out[Len(out)], open[1])
    BY DEF IInv, JoinInv, SplitsDue
  <2>3. ASSUME NEW k \in 1 .. Len(out), Records[k + 1] # <<>>
        PROVE  Due(cfg, raw, out[k], Records[k + 1][1])
    <3>1. CASE k \in 1 .. Len(out) - 1
      <4>1. k + 1 \in 1 .. Len(out)
        BY <2>1, <3>1
      <4>. QED
        BY ONLY <2>1, <2>2, <3>1, <4>1, Zenon
    <3>2. CASE k = Len(out)
      <4>1. out # <<>>
        BY <2>1, <3>2
      <4>. QED
        BY ONLY <2>1, <2>2, <2>3, <3>2, <4>1, Zenon
    <3>. QED
      BY <2>1, <3>1, <3>2
  <2>. QED
    BY ONLY <2>3, Zenon DEF SplitsWhereDue, Due
<1>. QED
  BY <1>1, IntakeInvariant, PTL

LEMMA SameAsDecodeHolds ==
  ASSUME DecodeInv
  PROVE  SameAsDecode
<1>1. dpc = "returned" => running = {} /\ (AllDecoded \/ results = <<>>)
  BY DEF DecodeInv, DecodePhases
<1>. QED
  BY ONLY <1>1, Zenon DEF SameAsDecode, AllDecoded

LEMMA StripesDisjointHolds ==
  ASSUME DecodeInv
  PROVE  StripesDisjoint
<1>. SUFFICES ASSUME NEW v \in running, NEW w \in running, v # w PROVE pos[v] # pos[w]
  BY DEF StripesDisjoint
<1>1. PICK W : W = Len(pos)
  OBVIOUS
<1>2. v \in 1 .. W /\ w \in 1 .. W /\ W \in Nat
  BY <1>1, DecodeFacts DEF DecodeInv
<1>3. pos[v] \in Stripe(v, W) /\ pos[w] \in Stripe(w, W)
  BY <1>1, <1>2, WorkersRunning DEF DecodeInv, Striped
<1>4. PICK p, q : p = pos[v] /\ q = pos[w]
  OBVIOUS
<1>5. v < w \/ w < v
  BY <1>2
<1>6. p \in Stripe(v, W) /\ q \in Stripe(w, W)
  BY ONLY <1>3, <1>4, Zenon
<1>7. p # q
  BY ONLY <1>2, <1>5, <1>6, StripesApart
<1>. QED
  BY ONLY <1>4, <1>7, Zenon

\* The records with fields, in what the decoder gave.
LEMMA FieldsCounted ==
  ASSUME DecodeInv, dpc = "returned"
  PROVE  \E F : /\ {k \in DOMAIN (IF results # <<>> THEN results ELSE delivered) :
                      (IF results # <<>> THEN results ELSE delivered)[k] = "fields"} = F
                /\ F \subseteq hits /\ (derr = "none" => F = hits)
<1>1. \/ AllDecoded /\ delivered = <<>> /\ derr = "none"
      \/ results = <<>> /\ (derr = "none" => Len(delivered) = count)
  BY DEF DecodeInv, DecodePhases
<1>2. /\ count \in Nat /\ hits \subseteq 1 .. count /\ Len(delivered) \in Nat
      /\ DOMAIN delivered = 1 .. Len(delivered) /\ Len(delivered) <= count
  BY DecodeFacts DEF DecodeInv
<1>3. \A i : DecodeOne(i) = "fields" <=> i \in hits
  BY DEF DecodeOne
<1>4. CASE results # <<>>
  <2>1. results = [i \in 1 .. count |-> DecodeOne(i)] /\ derr = "none"
    BY <1>1, <1>4 DEF AllDecoded
  <2>2. {k \in DOMAIN results : results[k] = "fields"} = hits
    BY <1>2, <1>3, <2>1
  <2>. QED
    BY <1>4, <2>2
<1>5. CASE results = <<>>
  <2>1. \A i \in DOMAIN delivered : delivered[i] = DecodeOne(i)
    BY DEF DecodeInv, TotalsAreDelivered
  <2>2. {k \in DOMAIN delivered : delivered[k] = "fields"} = hits \cap 1 .. Len(delivered)
    BY <1>2, <1>3, <2>1
  <2>3. derr = "none" => hits \subseteq 1 .. Len(delivered)
    <3>1. CASE results = <<>> /\ (derr = "none" => Len(delivered) = count)
      BY <1>2, <3>1
    <3>2. CASE AllDecoded
      <4>1. results = [i \in 1 .. count |-> DecodeOne(i)]
        BY <3>2 DEF AllDecoded
      <4>2. DOMAIN results = 1 .. count /\ DOMAIN results = {}
        BY <1>5, <4>1
      <4>. QED
        BY <1>2, <4>2
    <3>. QED
      BY <1>1, <3>1, <3>2
  <2>. QED
    BY <1>5, <2>2, <2>3
<1>. QED
  BY <1>4, <1>5

LEMMA HeadersDecodedHolds ==
  ASSUME IInv
  PROVE  HeadersDecoded
<1>. SUFFICES ASSUME dpc = "returned", cfg.mode = "header" PROVE HeadersDecoded
  BY DEF HeadersDecoded
<1>. DEFINE decoded == IF results # <<>> THEN results ELSE delivered
<1>1. /\ jpc = "returned" /\ jerr = "none" /\ hits = HeadRecords(raw, out)
      /\ open = <<>> /\ at = Len(raw) + 1 /\ Len(raw) \in Nat
  BY Shapes DEF IInv, DecodeInv, Linked, JoinInv, JoinPhases
<1>2. Cardinality(HeadRecords(raw, out))
        + (IF open # <<>> /\ raw[open[1]] = "head" THEN 1 ELSE 0)
      = Cardinality(HeadLines(raw, at - 1))
  BY DEF IInv, JoinInv, HeadsCounted
<1>3. (IF open # <<>> /\ raw[open[1]] = "head" THEN 1 ELSE 0) = 0
  BY ONLY <1>1, Zenon
<1>4. IsFiniteSet(hits) /\ Cardinality(hits) \in Nat
  <2>1. count \in Nat /\ hits \subseteq 1 .. count
    BY DecodeFacts DEF IInv, DecodeInv
  <2>. QED
    BY <2>1, CountGrows
<1>5. Cardinality(hits) = Cardinality(HeadLines(raw, Len(raw)))
  <2>1. at - 1 = Len(raw)
    BY ONLY <1>1
  <2>2. Cardinality(hits) + 0 = Cardinality(HeadLines(raw, Len(raw)))
    BY ONLY <1>1, <1>2, <1>3, <2>1, Zenon
  <2>. QED
    BY ONLY <1>4, <2>2
<1>6. PICK F : /\ {k \in DOMAIN decoded : decoded[k] = "fields"} = F
               /\ F \subseteq hits /\ (derr = "none" => F = hits)
  BY FieldsCounted DEF IInv
<1>7. Cardinality(F) <= Cardinality(hits)
  BY <1>4, <1>6, FS_Subset
<1>. HIDE DEF decoded
<1>8. IF derr = "none"
      THEN Cardinality({k \in DOMAIN decoded : decoded[k] = "fields"})
             = Cardinality(HeadLines(raw, Len(raw)))
      ELSE Cardinality({k \in DOMAIN decoded : decoded[k] = "fields"})
             <= Cardinality(HeadLines(raw, Len(raw)))
  BY ONLY <1>5, <1>6, <1>7
<1>9. HeadLines(raw, Len(raw)) = {i \in 1 .. Len(raw) : raw[i] = "head"}
  BY DEF HeadLines
<1>. QED
  BY ONLY <1>8, <1>9, Zenon DEF HeadersDecoded, decoded

\* DecodeConcurrent gives what Decode gives, whatever the workers and their
\* schedule, no two of them write one element, and the headers of the log are
\* the records with fields (decoder.go 127-184).
THEOREM WorkersDecodeExactly == Spec => []ResultsExact
<1>1. IInv => ResultsExact
  BY SameAsDecodeHolds, StripesDisjointHolds, HeadersDecodedHolds DEF IInv, ResultsExact
<1>. QED
  BY <1>1, IntakeInvariant, PTL

\* The totals that DecodeReader returns count the lines that its callback got, in
\* order, when the callback or the reader fails too (decoder.go 186-220).
THEOREM TotalsCountDelivered == Spec => []TotalsAreDelivered
<1>1. IInv => TotalsAreDelivered
  BY DEF IInv, DecodeInv
<1>. QED
  BY <1>1, IntakeInvariant, PTL

=============================================================================
