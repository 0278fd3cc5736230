------------------------------ MODULE GrokExpand ------------------------------
(***************************************************************************)
(* CompileGrok and expandGrok (internal/pattern/compile.go): a pattern's   *)
(* references are replaced by the bodies of the primitives, level by       *)
(* level, and the names of the capture groups made unique on the way.      *)
(*                                                                         *)
(* A pattern, or a body, is the sequence of its references and of the      *)
(* groups it writes itself; text around them is left out.  A reference has *)
(* the field it names, or None.  A name is a base and the numbers appended *)
(* to it: n_2 is [base |-> "n", suffix |-> <<2>>], written so or generated. *)
(* Whether the text makes a regexp in the end is an input.                 *)
(***************************************************************************)
EXTENDS Naturals, SequencesExt, FiniteSetsExt

CONSTANTS
  Primitives,  \* name of a primitive -> body
  Sanitized,   \* field as written -> name
  Unparsable,  \* the patterns, with their extras, whose expansion is no regexp
  MaxDepth,    \* levels of expansion: 32 in the code
  None

Names == [base : STRING, suffix : Seq(Nat)]
Pieces == [kind : {"ref"}, prim : STRING, field : DOMAIN Sanitized \cup {None}]
            \cup [kind : {"group"}, name : Names]

ASSUME ExpandAssumption ==
  /\ MaxDepth \in Nat
  /\ \A prim \in DOMAIN Primitives : Primitives[prim] \in Seq(Pieces)
  /\ \A field \in DOMAIN Sanitized : Sanitized[field] \in Names
  /\ None \notin Seq(Pieces) \cup Names

Ref(prim, field) == [kind |-> "ref", prim |-> prim, field |-> field]
Group(name) == [kind |-> "group", name |-> name]

\* The groups of an expansion, in order, each with the piece that opened it, how
\* many groups it is around and whether a primitive's body opened it; `used` is
\* every name asked for so far, and what Go's map counts is how often.
Expansion(err, groups, used) == [err |-> err, groups |-> groups, used |-> used]
Opened(piece, name, around) == [piece |-> piece, name |-> name, around |-> around, inner |-> FALSE]

Body(prim, extras) ==
  IF prim \in DOMAIN extras THEN extras[prim]
  ELSE IF prim \in DOMAIN Primitives THEN Primitives[prim] ELSE None

Asked(name, used) == Cardinality({i \in DOMAIN used : used[i] = name})

\* The name handed out when `name` is asked for the k-th time.
Nth(name, k) == IF k = 1 THEN name ELSE [name EXCEPT !.suffix = Append(@, k)]

UniqueName(name, used) == Nth(name, Asked(name, used) + 1)

\* Mutant: a body's names are made unique among themselves.
DedupWithinBody(e) ==
  LET rename(groups, g) ==
        LET names == [k \in DOMAIN groups |-> groups[k].name] IN
        Append(groups, [g EXCEPT !.name = UniqueName(@, names), !.inner = TRUE])
  IN  [e EXCEPT !.groups = FoldLeft(rename, <<>>, @)]

Rename(done, g) ==
  Expansion(done.err,
            Append(done.groups, [g EXCEPT !.name = UniqueName(@, done.used), !.inner = TRUE]),
            Append(done.used, g.name))

\* dedupNamedGroups: every group of an expanded body asks for its name again.
DedupNamedGroups(e) ==
  LET done[k \in 0 .. Len(e.groups)] ==
        IF k = 0 THEN Expansion(e.err, <<>>, e.used) ELSE Rename(done[k - 1], e.groups[k])
  IN  done[Len(e.groups)]

FirstError(before, err) == IF before = "none" THEN err ELSE before

\* A reference around its expanded body: the body's groups are named first and
\* stand after the reference's own.
Wrapped(piece, body) ==
  LET deduped == DedupNamedGroups(body)
      name == Sanitized[piece.field]
      own == Opened(piece, UniqueName(name, deduped.used), Len(deduped.groups))
  IN  IF piece.field = None THEN deduped
      ELSE Expansion(deduped.err, <<own>> \o deduped.groups, Append(deduped.used, name))

\* What expandGrok is called for, save its depth.
GrokCalls == [grok : Seq(Pieces), used : Seq(Names)]
GrokCall(grok, used) == [grok |-> grok, used |-> used]

\* One piece of a pattern after those that gave e; `deeper` expands a body.
ExpandPiece(e, piece, extras, deeper) ==
  LET body == Body(piece.prim, extras)
      inside == deeper[GrokCall(body, e.used)]
      whole == Wrapped(piece, inside)
  IN  IF piece.kind = "group"
      THEN Expansion(e.err, Append(e.groups, Opened(piece, piece.name, 0)), e.used)
      ELSE IF body = None THEN Expansion(FirstError(e.err, "unknown"), e.groups, e.used)
      ELSE IF inside.err # "none"
      THEN Expansion(FirstError(e.err, inside.err), e.groups, inside.used)
      ELSE Expansion(e.err, e.groups \o whole.groups, whole.used)

ExpandPieces(call, extras, deeper) ==
  LET e[k \in 0 .. Len(call.grok)] ==
        IF k = 0 THEN Expansion("none", <<>>, call.used)
        ELSE ExpandPiece(e[k - 1], call.grok[k], extras, deeper)
  IN  e[Len(call.grok)]

TooDeep(call) == Expansion("too deep", <<>>, call.used)

\* expandGrok by the levels that are left: at depth 0 there are MaxDepth + 1.
ExpandGrok(extras) ==
  LET expand[left \in 0 .. MaxDepth + 1] ==
        IF left = 0 THEN [call \in GrokCalls |-> TooDeep(call)]
        ELSE [call \in GrokCalls |-> ExpandPieces(call, extras, expand[left - 1])]
  IN  expand[MaxDepth + 1]

Expanded(grok, extras) == ExpandGrok(extras)[GrokCall(grok, <<>>)]

Parsable(grok, extras) == [grok |-> grok, extras |-> extras] \notin Unparsable

\* CompileGrok: regexp.Compile sees the whole expansion only, and does not mind
\* two groups of one name.
CompileGrok(grok, extras) ==
  LET e == Expanded(grok, extras) IN
  IF e.err = "none" /\ ~Parsable(grok, extras)
  THEN Expansion("not a regexp", e.groups, e.used) ELSE e

\* Group h is inside group g.
Around(groups, g, h) == g < h /\ h <= g + groups[g].around

(***************************************************************************)
(* What a pattern promises, of the pattern and its expansion alone         *)
(***************************************************************************)
\* The primitives referred to at a depth of the expansion.
Prims(body) == IF body = None THEN {} ELSE {body[i].prim : i \in {j \in DOMAIN body : body[j].kind = "ref"}}

ReferredAt(grok, extras, depth) ==
  LET at[d \in 0 .. depth] ==
        IF d = 0 THEN Prims(grok) ELSE UNION {Prims(Body(p, extras)) : p \in at[d - 1]}
  IN  at[depth]

\* The names written in the pattern and in every body it reaches.
Written(grok, extras) ==
  LET reached == UNION {ReferredAt(grok, extras, d) : d \in 0 .. MaxDepth}
      bodies == {grok} \cup ({Body(p, extras) : p \in reached} \ {None})
      Named(p) == IF p.kind = "group" THEN {p.name}
                  ELSE IF p.field = None THEN {} ELSE {Sanitized[p.field]}
  IN  UNION {UNION {Named(p) : p \in ToSet(b)} : b \in bodies}

\* No written name looks like a generated one.
Unnumbered(grok, extras) == \A n \in Written(grok, extras) : n.suffix = <<>>

=============================================================================
