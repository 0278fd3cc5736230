----------------------------- MODULE MCWebServer -----------------------------
(***************************************************************************)
(* Two connections: the first carries pages and every kind of request for  *)
(* /api/discover, the second pages.  Fifteen patterns, of which three do   *)
(* not expand and one expands to no regexp; texts of up to four lines.     *)
(***************************************************************************)
EXTENDS WebServer

Name(base) == [base |-> base, suffix |-> <<>>]

MCSanitized ==
  [n |-> Name("n"), p |-> Name("p"), n_2 |-> [base |-> "n", suffix |-> <<2>>]]
    @@ ("a.b" :> Name("a_b")) @@ ("a-b" :> Name("a_b"))

MCPrimitives ==
  [INT |-> <<>>, WORD |-> <<>>,
   ID |-> <<Group(Name("n"))>>,
   PROG |-> <<Ref("WORD", "p"), Ref("INT", "n")>>,
   BASE |-> <<Ref("PROG", None)>>,
   DEEP |-> <<Ref("INT", None), Ref("BASE", None)>>,
   CYCLE |-> <<Ref("CYCLE", None)>>,
   HALF |-> <<Ref("GONE", None), Ref("INT", None)>>,
   OPEN |-> <<>>, CLOSE |-> <<>>]

Plainly(grok) == [grok |-> grok, extras |-> <<>>]

\* The bodies of OPEN and CLOSE are a parenthesis each, which LoadConfig accepts.
Unbalanced == Plainly(<<Ref("OPEN", "p"), Ref("INT", "n")>>)
Balanced == Plainly(<<Ref("OPEN", None), Ref("INT", "n"), Ref("CLOSE", None)>>)

MCUnparsable == {Unbalanced}

MCEntries ==
  {Plainly(<<Ref("INT", "n"), Ref("WORD", "p")>>),
   Plainly(<<Ref("INT", "n"), Ref("WORD", "n")>>),
   Plainly(<<Ref("INT", "a.b"), Ref("WORD", None), Ref("WORD", "a-b")>>),
   Plainly(<<Ref("INT", "n_2"), Ref("WORD", "n"), Ref("INT", "n")>>),
   Plainly(<<Ref("PROG", "p")>>),
   Plainly(<<Ref("ID", "n"), Ref("INT", "n")>>),
   Plainly(<<Ref("BASE", None)>>),
   Plainly(<<Ref("BASE", None), Ref("INT", "n")>>),
   Plainly(<<Group(Name("n")), Ref("INT", "n")>>),
   [grok |-> <<Ref("EXTRA", None), Ref("WORD", "p")>>, extras |-> [EXTRA |-> <<Ref("INT", "n")>>]],
   Plainly(<<Ref("DEEP", None), Ref("INT", "n")>>),
   Plainly(<<Ref("CYCLE", "n")>>),
   Plainly(<<Ref("INT", "n"), Ref("HALF", "p"), Ref("WORD", None)>>),
   Unbalanced, Balanced}

Page(path, gzip) == [path |-> path, method |-> "GET", body |-> "none", text |-> <<>>, gzip |-> gzip]
Post(body, text, gzip) ==
  [path |-> "discover", method |-> "POST", body |-> body, text |-> text, gzip |-> gzip]

Pages == {Page(path, gzip) : path \in {"index", "missing", "healthz", "styles.css", "image"},
                             gzip \in BOOLEAN}

Texts == {<<>>, <<"text">>, <<"textcr", "empty", "text", "cr">>, <<"bomtext", "blank">>,
          <<"empty", "cr">>, <<"blank", "empty">>, <<"bom">>, <<"bom", "blank">>,
          <<"text", "text", "text">>}

Interchangeable == Permutations(Compressors)

MCRequests ==
  <<Pages \cup {Post("json", text, TRUE) : text \in Texts}
          \cup {Post("json", <<"text">>, FALSE)}
          \cup {Post(body, <<>>, TRUE) : body \in {"too large", "cut off", "not UTF-8", "not JSON"}}
          \cup {Page("discover", TRUE)},
    {Page("styles.css", TRUE)}>>
=============================================================================
