------------------------------ MODULE TileTyping ------------------------------
(***************************************************************************)
(* How the tiler types one token slot of a template line from the values   *)
(* the other lines show there (internal/pattern/tiler.go): unitStats,      *)
(* voteSingle, typeToken, subSplitPieces, and what the emitted piece then  *)
(* matches.                                                                *)
(*                                                                         *)
(* A value is a token.  SplitSub gives its parts around separators and the *)
(* signature of the split, <<>> for a token without a separator; a primi-  *)
(* tive is the set of tokens and parts it matches whole.  Quoted regions   *)
(* and composites (timestamps of several tokens) are left out, so a group  *)
(* never nests.                                                            *)
(***************************************************************************)
EXTENDS Candidates

CONSTANTS
  Prims,       \* tileSingles: records accepts, promote; the last is NOTSPACE
  SplitSub,    \* value -> [parts, sig]
  Dash,        \* the placeholder "-"
  DistinctCap  \* tileDistinctCap: 64 in the code

(***************************************************************************)
(* unitStats                                                               *)
(***************************************************************************)
NoStats == [matched |-> 0, distinct |-> <<>>, overflow |-> FALSE]

AddValue(st, v) ==
  LET new == ~Contains(st.distinct, v)
      room == Len(st.distinct) < DistinctCap
  IN  [matched  |-> st.matched + 1,
       distinct |-> IF new /\ room THEN Append(st.distinct, v) ELSE st.distinct,
       overflow |-> st.overflow \/ (new /\ ~room)]

(***************************************************************************)
(* Pieces.  A group has one piece per column of its signature, Nil for an  *)
(* empty one, or the one piece that got a dash.                            *)
(***************************************************************************)
Lit(text) == [kind |-> "lit", text |-> text]
Field(k) == [kind |-> "field", prim |-> k]
Group(sub, sig, dash) == [kind |-> "group", sub |-> sub, sig |-> sig, dash |-> dash]

Tokens == DOMAIN SplitSub
Texts == Tokens \cup {Dash, " "} \cup UNION {ToSet(SplitSub[v].parts) : v \in Tokens}
LeafSet == [kind : {"lit"}, text : Texts] \cup [kind : {"field"}, prim : DOMAIN Prims]
Signatures == {SplitSub[v].sig : v \in Tokens} \cup {<<>>}
PieceSet ==
  LeafSet \cup
    [kind : {"group"}, sub : Seq(LeafSet \cup {Nil}), sig : Signatures, dash : BOOLEAN]

NotSpace == Prims[Len(Prims)]

\* NOTSPACE matches every token and every part that is not empty; the signature
\* says which parts there are and which are empty; Nil is no piece.
ASSUME TypingAssumption ==
  /\ DistinctCap \in Nat \ {0} /\ Nil \notin LeafSet
  /\ Len(Prims) > 0 /\ Prims \in Seq(ToSet(Prims))
  /\ \A k \in DOMAIN Prims : Prims[k].promote \in BOOLEAN
  /\ \A v \in Tokens :
       LET parts == SplitSub[v].parts IN
       /\ v \in NotSpace.accepts /\ parts \in Seq(ToSet(parts))
       /\ \A i \in DOMAIN parts : parts[i] # "" => parts[i] \in NotSpace.accepts
       /\ \A w \in Tokens : SplitSub[w].sig = SplitSub[v].sig =>
            /\ DOMAIN SplitSub[w].parts = DOMAIN parts
            /\ \A i \in DOMAIN parts : SplitSub[w].parts[i] = "" <=> parts[i] = ""

\* voteSingle; classifyToken is the vote of one value.
VoteSingle(values) ==
  LET fits == {k \in DOMAIN Prims : values \subseteq Prims[k].accepts}
  IN  IF fits = {} THEN Len(Prims) ELSE Min(fits)

\* The columns of subSplitPieces, or Nil when the values are not aligned or no
\* column has a promoted type.
SubSplitPieces(core) ==
  LET sig == SplitSub[core[1]].sig
      Column(i) == {SplitSub[v].parts[i] : v \in ToSet(core)} \ {""}
      Piece(i) ==
        LET col == Column(i)  k == VoteSingle(col) IN
        IF col = {} THEN Nil
        ELSE IF Prims[k].promote \/ Cardinality(col) > 1 THEN Field(k)
        ELSE Lit(CHOOSE v \in col : TRUE)
      columns == DOMAIN SplitSub[core[1]].parts
      promoted == {i \in columns : Column(i) # {} /\ Prims[VoteSingle(Column(i))].promote}
  IN  IF sig = <<>> \/ (\E v \in ToSet(core) : SplitSub[v].sig # sig) \/ promoted = {}
      THEN Nil
      ELSE [i \in columns |-> Piece(i)]

WrapDash(piece, dash) == IF dash THEN Group(<<piece>>, <<>>, TRUE) ELSE piece

\* The values at a token without the placeholder.
CoreValues(st) == Picked(st.distinct, {k \in DOMAIN st.distinct : st.distinct[k] # Dash})

\* Mutant: the columns are wrapped only when the whole-token primitive rejects "-".
TypeTokenNeedDash(tmpl, st) ==
  LET core == CoreValues(st)
      dashes == Contains(st.distinct, Dash)
      k == VoteSingle(ToSet(core))
      needDash == dashes /\ Dash \notin Prims[k].accepts
      sub == SubSplitPieces(core)
  IN  IF st.matched < 2 THEN Field(VoteSingle({tmpl}))
      ELSE IF core = <<>> THEN Lit(Dash)
      ELSE IF Prims[k].promote THEN WrapDash(Field(k), needDash)
      ELSE IF sub # Nil THEN Group(sub, SplitSub[core[1]].sig, needDash)
      ELSE IF Len(core) = 1 /\ ~st.overflow /\ ~dashes THEN Lit(core[1])
      ELSE WrapDash(Field(k), needDash)

\* typeToken.
TypeToken(tmpl, st) ==
  LET core == CoreValues(st)
      dashes == Contains(st.distinct, Dash)
      k == VoteSingle(ToSet(core))
      needDash == dashes /\ Dash \notin Prims[k].accepts
      sub == SubSplitPieces(core)
  IN  IF st.matched < 2 THEN Field(VoteSingle({tmpl}))
      ELSE IF core = <<>> THEN Lit(Dash)
      ELSE IF Prims[k].promote THEN WrapDash(Field(k), needDash)
      ELSE IF sub # Nil THEN Group(sub, SplitSub[core[1]].sig, dashes)
      ELSE IF Len(core) = 1 /\ ~st.overflow /\ ~dashes THEN Lit(core[1])
      ELSE WrapDash(Field(k), needDash)

(***************************************************************************)
(* What the rendered piece matches                                         *)
(***************************************************************************)
AcceptsOne(piece, v) ==
  IF piece.kind = "lit" THEN v = piece.text ELSE v \in Prims[piece.prim].accepts

AcceptsColumn(piece, part) == IF piece = Nil THEN part = "" ELSE AcceptsOne(piece, part)

\* The whole token.
MatchesPiece(piece, v) ==
  IF piece.kind # "group" THEN AcceptsOne(piece, v)
  ELSE \/ piece.dash /\ v = Dash
       \/ piece.sig = <<>> /\ AcceptsOne(piece.sub[1], v)
       \/ /\ piece.sig # <<>> /\ SplitSub[v].sig = piece.sig
          /\ \A i \in DOMAIN piece.sub : AcceptsColumn(piece.sub[i], SplitSub[v].parts[i])

\* A prefix of the token: what is left goes to the pattern that follows.
BeginsOne(piece, v) == AcceptsOne(piece, v) \/ AcceptsOne(piece, SplitSub[v].parts[1])

Begins(piece, v) ==
  LET parts == SplitSub[v].parts  last == Len(piece.sub) IN
  IF piece.kind # "group" THEN BeginsOne(piece, v)
  ELSE \/ piece.dash /\ v = Dash
       \/ piece.sig = <<>> /\ BeginsOne(piece.sub[1], v)
       \/ /\ piece.sig # <<>> /\ Len(parts) >= last
          /\ \A i \in 1 .. last - 1 : AcceptsColumn(piece.sub[i], parts[i])
          /\ piece.sub[last] = Nil \/ AcceptsOne(piece.sub[last], parts[last])

(***************************************************************************)
(* pieceCounts and literalKeywords of a render tree                        *)
(***************************************************************************)
Parts(piece) == IF piece.kind = "group" THEN piece.sub ELSE <<piece>>
Leaf(pieces, p) == Parts(pieces[p[1]])[p[2]]

\* Where the leaves are: piece and part.
Leaves(pieces) ==
  {p \in UNION {{i} \X DOMAIN Parts(pieces[i]) : i \in DOMAIN pieces} : Leaf(pieces, p) # Nil}

Fields(pieces) == {p \in Leaves(pieces) : Leaf(pieces, p).kind = "field"}
Promoted(pieces) == Cardinality({p \in Fields(pieces) : Prims[Leaf(pieces, p).prim].promote})
LitFields(pieces) == Cardinality({p \in Fields(pieces) : ~Prims[Leaf(pieces, p).prim].promote})

\* Literals with a letter or a digit: all but the placeholder and the delimiter.
LiteralKeywords(pieces) ==
  Cardinality({p \in Leaves(pieces) \ Fields(pieces) : Leaf(pieces, p).text \notin {Dash, " "}})

=============================================================================
