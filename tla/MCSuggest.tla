------------------------------- MODULE MCSuggest -------------------------------
(***************************************************************************)
(* Inputs that leave none to nine lines, of which five are eval lines.     *)
(* The eval lines mix numbers, words, placeholders and split tokens, so    *)
(* that slots are constant, typed, dashed, split or past the cap of two    *)
(* values, tails vary and shapes complement each other; the candidates of  *)
(* the other sources complement, contain, tie with and repeat them.        *)
(***************************************************************************)
EXTENDS Suggest

(***************************************************************************)
(* Raw lines                                                               *)
(***************************************************************************)
MCRawInputs ==
  UNION {[1 .. n -> {"line", "empty"}] : n \in 0 .. 6}
    \cup {<<"bom">>, <<"bom", "line">>, <<"bom", "line", "line", "line", "line", "line">>}
    \cup {[i \in 1 .. n |-> "line"] : n \in {7, 8, 9, 10}}

(***************************************************************************)
(* Eval lines and their tokens                                             *)
(***************************************************************************)
Number == {"8", "9"}
Word   == {"x", "y"}
Values == Number \cup Word \cup {"-", "8:x", "9:x", "8:y", "x:"}

MCPrims ==
  <<[accepts |-> Number, promote |-> TRUE],
    [accepts |-> Word, promote |-> FALSE],
    [accepts |-> Values, promote |-> FALSE]>>

MCSplitSub == [v \in Values |->
  CASE v = "8:x" -> [parts |-> <<"8", "x">>, sig |-> <<"P", "P">>]
    [] v = "9:x" -> [parts |-> <<"9", "x">>, sig |-> <<"P", "P">>]
    [] v = "8:y" -> [parts |-> <<"8", "y">>, sig |-> <<"P", "P">>]
    [] v = "x:"  -> [parts |-> <<"x", "">>, sig |-> <<"P", "0">>]
    [] OTHER     -> [parts |-> <<v>>, sig |-> <<>>]]

MCTokenLen == [v \in Values |-> CASE v \in {"8:x", "9:x", "8:y"} -> 3 [] v = "x:" -> 2 [] OTHER -> 1]

MCSkeleton == [v \in Values |->
  CASE v \in Number -> "9" [] v \in Word -> "A" [] v = "-" -> "-"
    [] v = "x:" -> "A:" [] OTHER -> "9:A"]

MixedLines ==
  <<<<"8", "x">>, <<"9", "x">>, <<"8", "y">>, <<"-", "x">>, <<"8", "x", "x">>, <<"9", "x", "-">>>>

TwoFormats == <<<<"8", "x">>, <<"9", "x">>, <<"x", "8", "9">>, <<"x", "9", "9">>, <<"x">>>>

\* A cut behind the second token covers what one before it does, with a word more.
LongTails == <<<<"8", "x", "x">>, <<"9", "y", "x">>, <<"8", "x", "x", "y">>>>

SplitLines == <<<<"8:x">>, <<"9:x">>, <<"-">>, <<"x:">>>>

\* Inputs of these lines.  Their order matters to the cap, to the ties between
\* shapes, and to nothing else, so only split tokens come in every order.
Picks(s) == [Lines -> DOMAIN s]
Sorted(s) == {f \in Picks(s) : \A i \in 1 .. N - 1 : f[i - 1] <= f[i]}
StartsFirst(s) == {f \in Picks(s) : f[0] = 1}
Taken(s, F) == {[i \in Lines |-> s[f[i]]] : f \in F}

MCInputs ==
  Taken(MixedLines, Sorted(MixedLines)) \cup Taken(TwoFormats, Sorted(TwoFormats))
    \cup Taken(LongTails, Sorted(LongTails))
    \cup Taken(SplitLines, StartsFirst(SplitLines))

(***************************************************************************)
(* The candidates of the other sources                                     *)
(***************************************************************************)
Candidate(grok, match, typed, specificity) ==
  [grok |-> <<Lit(grok)>>, match |-> match, typed |-> typed, specificity |-> specificity,
   priority |-> 0]

\* Library entries; "a" is the text of two.
A1 == Candidate("a", {0, 1}, 1, 80)
A2 == Candidate("a", {1, 2, 4}, 1, 60)
B  == Candidate("b", {0, 1, 2, 3}, 2, 20)
C  == Candidate("c", {2, 4}, 3, 80)
D  == Candidate("d", {}, 3, 90)

Structured == Candidate("s", {2, 3}, 1, 0)
Skeletal   == Candidate("s", Lines, 0, 0)
Envelope   == Candidate("t", {0, 3, 4}, 2, 0)

MCPoolInputs ==
  [library: {<<>>, <<A1, A2>>, <<B>>, <<D, C, A1>>, <<B, C>>, <<A2, C>>},
   structured: {<<>>, <<Structured>>}, envelope: {<<>>, <<Envelope>>}]
    \cup [library: {<<C>>}, structured: {<<Skeletal>>}, envelope: {<<>>}]

Fallback(match, compiles, last) ==
  [match |-> match, compiles |-> compiles, last |-> last, typed |-> 1]

MCFallbackInputs ==
  {<<Fallback(a, c[1], FALSE), Fallback(b, c[2], FALSE), Fallback(m, c[3], TRUE)>> :
     a \in {{0}, {1, 2, 3}, Lines}, b \in {{}, {1, 2}, Lines}, m \in {{}, {1, 2, 3}, Lines},
     c \in {<<TRUE, TRUE, TRUE>>, <<FALSE, TRUE, TRUE>>, <<TRUE, TRUE, FALSE>>,
            <<FALSE, FALSE, FALSE>>}}

=============================================================================
