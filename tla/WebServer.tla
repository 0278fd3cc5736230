------------------------------ MODULE WebServer ------------------------------
(***************************************************************************)
(* The web server (cmd/log2grok-web): the goroutines of its connections,   *)
(* each behind the gzip middleware, whose compressors come from one pool.  *)
(* A request for /api/discover runs webapi.Run.                            *)
(*                                                                         *)
(* A handler is what it gives its ResponseWriter, `todo`.  net/http is     *)
(* modelled by what the code sees of it: the first WriteHeader counts, a   *)
(* write goes to the wire unless the client is gone, a panic cuts the      *)
(* connection.  A chunk on the wire is a document, plain or compressed, or *)
(* the end of a compressed one, with the connection it was written for.    *)
(***************************************************************************)
EXTENDS LineTokens

CONSTANTS
  Conns,       \* connections; each serves one request after another
  Requests,    \* connection -> the requests it may carry
  Entries,     \* patterns Discover may choose from: [grok, extras]
  Compressors  \* the gzip.Writers there can be

\* A request: a text only in a body that is JSON.
RequestSet ==
  [path : {"index", "missing", "healthz", "styles.css", "image", "discover"},
   method : STRING,
   body : {"none", "too large", "cut off", "not UTF-8", "not JSON", "json"},
   text : Seq(LineKinds),
   gzip : BOOLEAN]

MediaTypes == {"html", "plain", "css", "png", "json"}
Headers == [status : Nat, type : MediaTypes, encoding : {"gzip", None}, length : BOOLEAN]

ASSUME ServerAssumption ==
  /\ DOMAIN Requests = Conns
  /\ \A c \in Conns : \A r \in Requests[c] :
       r \in RequestSet /\ (r.method = "POST" => r.body # "none")
  /\ \A e \in Entries : /\ e.grok \in Seq(Pieces)
                        /\ \A prim \in DOMAIN e.extras : e.extras[prim] \in Seq(Pieces)
  /\ IsFiniteSet(Compressors) /\ Cardinality(Compressors) >= Cardinality(Conns)
  /\ None \notin Compressors /\ None # "gzip"
  /\ None \notin RequestSet /\ None \notin Headers

VARIABLES
  library,     \* the entries that compile, None before the first Run
  pc,          \* connection -> what its goroutine does next
  request,     \* connection -> its request
  todo,        \* connection -> the replies its handler still has to write
  sent,        \* connection -> the header that left, or None
  wire,        \* connection -> the chunks that left
  gone,        \* the connections whose client is gone or whose time is over
  gz,          \* connection -> its gzipWriter: started, and its compressor
  held,        \* compressor -> where it writes to, and what it holds back
  pool,        \* gzPool
  answer       \* connection -> what Run returned, until it is written

vars == <<library, pc, request, todo, sent, wire, gone, gz, held, pool, answer>>

Waiting == {"idle", "done", "aborted"}
Fresh == [started |-> FALSE, zw |-> None]

Init ==
  /\ library = None
  /\ pc = [c \in Conns |-> "idle"]
  /\ request = [c \in Conns |-> None]
  /\ todo = [c \in Conns |-> <<>>]
  /\ sent = [c \in Conns |-> None]
  /\ wire = [c \in Conns |-> <<>>]
  /\ gone = {}
  /\ gz = [c \in Conns |-> Fresh]
  /\ held = [z \in Compressors |-> [to |-> None, buffer |-> <<>>]]
  /\ pool = {}
  /\ answer = [c \in Conns |-> None]

\* A request comes, on a connection kept alive or on a new one.
Accept(c) ==
  /\ pc[c] \in Waiting
  /\ \E r \in Requests[c] : request' = [request EXCEPT ![c] = r]
  /\ pc' = [pc EXCEPT ![c] = "handle"]
  /\ sent' = [sent EXCEPT ![c] = None]
  /\ wire' = [wire EXCEPT ![c] = <<>>]
  /\ gone' = gone \ {c}
  /\ gz' = [gz EXCEPT ![c] = Fresh]
  /\ UNCHANGED <<library, todo, held, pool, answer>>

(***************************************************************************)
(* The handlers                                                            *)
(***************************************************************************)
Reply(status, type, length) == [status |-> status, type |-> type, length |-> length]
Json(status) == Reply(status, "json", FALSE)

Compressible(type) == type \in {"html", "plain", "css", "json"}

\* A file server declares the length of the file; the pages do not.
PageReplies(path) ==
  CASE path = "index" -> <<Reply(200, "html", FALSE)>>
    [] path = "missing" -> <<Reply(404, "html", FALSE)>>
    [] path = "healthz" -> <<Reply(200, "plain", FALSE)>>
    [] path = "styles.css" -> <<Reply(200, "css", TRUE)>>
    [] path = "image" -> <<Reply(200, "png", TRUE)>>

\* The first check that fails ends handleDiscover.
Refusals(r) ==
  IF r.method # "POST" THEN <<Json(405)>>
  ELSE IF r.body = "too large" THEN <<Json(413)>>
  ELSE IF r.body # "json" \/ NoContent(r.text) THEN <<Json(400)>>
  ELSE <<>>

Handled(c, replies) ==
  /\ todo' = [todo EXCEPT ![c] = replies]
  /\ pc' = [pc EXCEPT ![c] = "reply"]
  /\ UNCHANGED <<request, sent, wire, gone, gz, held, pool>>

ServePage(c) ==
  /\ pc[c] = "handle" /\ request[c].path # "discover"
  /\ Handled(c, PageReplies(request[c].path))
  /\ UNCHANGED <<library, answer>>

RefuseDiscover(c) ==
  /\ pc[c] = "handle" /\ request[c].path = "discover"
  /\ Refusals(request[c]) # <<>>
  /\ Handled(c, Refusals(request[c]))
  /\ UNCHANGED <<library, answer>>

\* compiledKnownPatterns leaves out the entries CompileGrok rejects.
Compiled == {e \in Entries : CompileGrok(e.grok, e.extras).err = "none"}

\* What the groups of a pattern may capture on a line: inner ones inside, later
\* ones behind.  An empty capture is left out: segmentsFor skips it like none.
Captures(groups) ==
  LET intervals == {i \in (0 .. LineSize) \X (0 .. LineSize) : i[1] < i[2]}
      Fits(s, g, h) ==
        IF Around(groups, g, h)
        THEN s[h] # None => s[g] # None /\ s[g][1] <= s[h][1] /\ s[h][2] <= s[g][2]
        ELSE s[g] # None /\ s[h] # None => s[g][2] <= s[h][1]
  IN  {s \in [DOMAIN groups -> intervals \cup {None}] :
         \A g, h \in DOMAIN groups : g < h => Fits(s, g, h)}

RunDiscover(c) ==
  LET r == request[c]
      lines == SplitLines(r.text)
      searched == IF Tokenised(r.text) THEN {i \in DOMAIN lines : lines[i] # "empty"} ELSE {} IN
  /\ pc[c] = "handle" /\ r.path = "discover" /\ Refusals(r) = <<>>
  /\ library' = Compiled
  /\ \E e \in library' :
       LET groups == CompileGrok(e.grok, e.extras).groups IN
       \E s \in Captures(groups) : \E captures \in [searched -> {s, None}] :
         answer' = [answer EXCEPT ![c] =
           [groups |-> groups, captures |-> captures,
            response |-> Response(r.text, e.grok, e.extras, captures)]]
  /\ Handled(c, <<Json(200)>>)

\* deriveSafeFallback panics without GREEDYDATA: nothing was written, so the
\* deferred close does nothing, and net/http cuts the connection.
DiscoverPanics(c) ==
  /\ pc[c] = "handle" /\ request[c].path = "discover" /\ Refusals(request[c]) = <<>>
  /\ library' = Compiled
  /\ pc' = [pc EXCEPT ![c] = "aborted"]
  /\ UNCHANGED <<request, todo, sent, wire, gone, gz, held, pool, answer>>

(***************************************************************************)
(* The gzipWriter                                                          *)
(***************************************************************************)

Header(reply, encoding) ==
  [status |-> reply.status, type |-> reply.type, encoding |-> encoding,
   length |-> reply.length /\ encoding = None]

Unused == {z \in Compressors \ pool : \A c \in Conns : gz[c].zw # z}

\* WriteHeader of a reply, the first one starting the gzipWriter.
SendHeader(c, encoding) ==
  /\ sent' = [sent EXCEPT ![c] = IF @ = None THEN Header(Head(todo[c]), encoding) ELSE @]
  /\ pc' = [pc EXCEPT ![c] = "write"]
  /\ answer' = [answer EXCEPT ![c] = None]
  /\ UNCHANGED <<library, request, todo, wire, gone>>

WriteHeader(c) ==
  LET starts == request[c].gzip /\ ~gz[c].started
      coding == IF gz[c].zw = None THEN None ELSE "gzip" IN
  /\ pc[c] = "reply" /\ todo[c] # <<>>
  /\ IF starts /\ Compressible(Head(todo[c]).type)
     THEN /\ \E z \in pool \cup Unused :
               /\ pool' = pool \ {z}
               /\ gz' = [gz EXCEPT ![c] = [started |-> TRUE, zw |-> z]]
               /\ held' = [held EXCEPT ![z] = [to |-> c, buffer |-> <<>>]]
          /\ SendHeader(c, "gzip")
     ELSE /\ gz' = [gz EXCEPT ![c].started = @ \/ starts]
          /\ SendHeader(c, coding)
          /\ UNCHANGED <<held, pool>>

Chunk(c, coding) == [of |-> c, coding |-> coding]

\* A write arrives, or finds the client gone or WriteTimeout over: that and all
\* later ones are lost, and the handler does not look at the error.
Arrives(c, chunks) ==
  \/ c \notin gone /\ wire' = [wire EXCEPT ![c] = @ \o chunks] /\ UNCHANGED gone
  \/ gone' = gone \cup {c} /\ UNCHANGED wire

\* A compressor holds back what it likes.
Write(c) ==
  LET z == gz[c].zw IN
  /\ pc[c] = "write"
  /\ todo' = [todo EXCEPT ![c] = Tail(@)]
  /\ pc' = [pc EXCEPT ![c] = "reply"]
  /\ IF z = None
     THEN Arrives(c, <<Chunk(c, "plain")>>) /\ UNCHANGED held
     ELSE LET full == Append(held[z].buffer, Chunk(c, "gzip")) IN
          \/ held' = [held EXCEPT ![z].buffer = full] /\ UNCHANGED <<wire, gone>>
          \/ held' = [held EXCEPT ![z].buffer = <<>>] /\ Arrives(held[z].to, full)
  /\ UNCHANGED <<library, request, sent, gz, pool, answer>>

\* Mutant: the compressor is back in the pool before it is closed.
CloseOrderPutFirst == <<"put", "close">>

\* close, deferred by gzipped: the compressor is closed, then given back.
CloseOrder == <<"close", "put">>

AfterClosing(step) == IF step = CloseOrder[1] THEN CloseOrder[2] ELSE "done"

Return(c) ==
  /\ pc[c] = "reply" /\ todo[c] = <<>>
  /\ pc' = [pc EXCEPT ![c] = IF gz[c].zw = None THEN "done" ELSE CloseOrder[1]]
  /\ UNCHANGED <<library, request, todo, sent, wire, gone, gz, held, pool, answer>>

CloseCompressor(c) ==
  LET z == gz[c].zw IN
  /\ pc[c] = "close"
  /\ Arrives(held[z].to, Append(held[z].buffer, Chunk(c, "end")))
  /\ held' = [held EXCEPT ![z].buffer = <<>>]
  /\ pc' = [pc EXCEPT ![c] = AfterClosing("close")]
  /\ UNCHANGED <<library, request, todo, sent, gz, pool, answer>>

PutCompressor(c) ==
  /\ pc[c] = "put"
  /\ pool' = pool \cup {gz[c].zw}
  /\ pc' = [pc EXCEPT ![c] = AfterClosing("put")]
  /\ UNCHANGED <<library, request, todo, sent, wire, gone, gz, held, answer>>

\* The garbage collector empties the pool.
Collect ==
  /\ pool # {}
  /\ pool' = {}
  /\ UNCHANGED <<library, pc, request, todo, sent, wire, gone, gz, held, answer>>

ConnStep(c) ==
  \/ Accept(c)
  \/ ServePage(c) \/ RefuseDiscover(c) \/ RunDiscover(c) \/ DiscoverPanics(c)
  \/ WriteHeader(c) \/ Write(c) \/ Return(c)
  \/ CloseCompressor(c) \/ PutCompressor(c)

Next == (\E c \in Conns : ConnStep(c)) \/ Collect

Spec == Init /\ [][Next]_vars

(***************************************************************************)
(* Properties of the connections                                           *)
(***************************************************************************)
\* Types of the state: a compressor is closed only where there is one, and a
\* handler writes only what it has (middleware.go 91-114).
TypeOK ==
  /\ library = None \/ library \subseteq Entries
  /\ pc \in [Conns -> Waiting \cup {"handle", "reply", "write", "close", "put"}]
  /\ \A c \in Conns : request[c] \in Requests[c] \cup {None}
  /\ \A c \in Conns : pc[c] = "write" => todo[c] # <<>>
  /\ \A c \in Conns : gz[c].zw \in Compressors \cup {None} /\ gz[c].started \in BOOLEAN
  /\ \A c \in Conns : pc[c] \in {"close", "put"} => gz[c].zw # None
  /\ gone \subseteq Conns /\ pool \subseteq Compressors

\* Whatever the pool hands out and takes back between two connections, nothing
\* written or closed for one of them arrives on the other (close, gzPool:
\* middleware.go 62, 76-89, 109-114).
NoForeignBytes ==
  \A c \in Conns : \A k \in DOMAIN wire[c] : wire[c][k].of = c

\* What is on the wire is coded as the header that left says, a client gets
\* gzip only when it accepts it, and no length is declared for it (start,
\* Write: middleware.go 76-107).
AsDeclared ==
  \A c \in Conns : sent[c] # None =>
    /\ sent[c].encoding = "gzip" => request[c].gzip /\ ~sent[c].length
    /\ \A k \in DOMAIN wire[c] :
         wire[c][k].coding \in IF sent[c].encoding = "gzip" THEN {"gzip", "end"} ELSE {"plain"}

\* A line with text, or a mark, which HasContent takes for text, before blanks,
\* which normalizeLines keeps.
HasLogs(text) ==
  LET kinds == {text[i] : i \in DOMAIN text} IN
  kinds \cap {"text", "textcr", "bomtext"} # {} \/ {"bom", "blank"} \subseteq kinds

\* A request that was handled to its end, and whose client stayed, got one
\* document and the end of it, under the status of what the request is:
\* handleDiscover answers once on every path, and close comes after the last
\* write (server.go 44-121, middleware.go 119-130).
OneWholeReply ==
  \A c \in Conns : pc[c] = "done" /\ c \notin gone =>
    /\ [k \in DOMAIN wire[c] |-> wire[c][k].coding] =
         IF sent[c].encoding = "gzip" THEN <<"gzip", "end">> ELSE <<"plain">>
    /\ request[c].path = "discover" =>
         (sent[c].status = 200 <=>
            /\ request[c].method = "POST" /\ request[c].body = "json"
            /\ HasLogs(request[c].text))

(***************************************************************************)
(* Properties of the answers                                               *)
(***************************************************************************)
Answered == {c \in Conns : answer[c] # None /\ answer[c].response.lines # None}

Segments(c, i) == answer[c].response.lines[i].segments
MatchedLines(c) == {i \in DOMAIN answer[c].response.lines : answer[c].response.lines[i].matched}

Expandable ==
  {e \in Entries :
     /\ \A d \in 0 .. MaxDepth : \A p \in ReferredAt(e.grok, e.extras, d) : Body(p, e.extras) # None
     /\ ReferredAt(e.grok, e.extras, MaxDepth) = {}}

\* Only the entries whose references all lead to known primitives, none of them
\* too deep, and that make a regexp then, are offered, and every one of them is: an
\* error below one reference is not lost among its siblings, and an entry that is
\* left out takes no other with it (expandGrok, compile.go 24-84; score.go 56-66).
LibraryExpands ==
  library # None => library = {e \in Expandable : Parsable(e.grok, e.extras)}

\* The segments of a line, one after another, are the line: no byte is lost,
\* doubled or moved, whatever the groups capture (segmentsFor, webapi.go 197-237).
SegmentsAreLine ==
  \A c \in Answered : \A i \in DOMAIN answer[c].response.lines :
    LET segs == Segments(c, i)
        size == IF SplitLines(request[c].text)[i] = "empty" THEN 0 ELSE LineSize
    IN  /\ segs # <<>> /\ segs[1].from = 0 /\ segs[Len(segs)].to = size
        /\ \A k \in 1 .. Len(segs) - 1 : segs[k].to = segs[k + 1].from /\ segs[k].from < segs[k].to

\* What a group captures is shown as a segment with the group's name, unless a
\* group around it is: sorting and skipping leave out no field
\* (webapi.go 195-227).
EveryCaptureShown ==
  \A c \in Answered : \A i \in MatchedLines(c) :
    LET spans == answer[c].captures[i]
        groups == answer[c].groups
        Shown(g) == \E s \in ToSet(Segments(c, i)) :
                      s.field = groups[g].name /\ <<s.from, s.to>> = spans[g]
    IN  \A g \in DOMAIN groups :
          spans[g] # None /\ spans[g][1] < spans[g][2] =>
            Shown(g) \/ \E h \in DOMAIN groups : Around(groups, h, g) /\ Shown(h)

\* The pattern itself writes no group: expandGrok leaves the names of those alone.
OnlyRefs(grok) == \A i \in DOMAIN grok : grok[i].kind = "ref"

\* Where the pattern's references are all there is, a segment has the primitive
\* its own reference names, also for the second of two equal fields
\* (groupTokens, webapi.go 162-193).
TokenOfReference ==
  \A c \in Answered :
    LET groups == answer[c].groups
        grok == answer[c].response.grok IN
    /\ OnlyRefs(grok) /\ Unnumbered(grok, answer[c].response.extras)
    /\ \A g \in DOMAIN groups : ~groups[g].inner
    =>
      \A i \in MatchedLines(c) : \A s \in ToSet(Segments(c, i)) : s.field # None =>
        \E g \in DOMAIN groups : /\ groups[g].name = s.field
                                 /\ groups[g].piece.prim = s.token
                                 /\ answer[c].captures[i][g] = <<s.from, s.to>>

\* The groups of a pattern of references have different names, whatever their
\* bodies write, unless a name is written that looks like a generated one
\* (uniqueName, dedupNamedGroups: compile.go 73, 110-125).
NamesUnique ==
  \A c \in Answered :
    LET grok == answer[c].response.grok IN
    OnlyRefs(grok) /\ Unnumbered(grok, answer[c].response.extras) =>
      \A g, h \in DOMAIN answer[c].groups :
        answer[c].groups[g].name = answer[c].groups[h].name => g = h

\* A client gets its own whole reply, coded as the header says, and nothing of
\* another client's, whatever the pool of compressors does between the two
\* (middleware.go 62-130, server.go 44-121).
OwnWholeReply == TypeOK /\ NoForeignBytes /\ AsDeclared /\ OneWholeReply

\* What expands to a regexp is offered, and nothing else, and its groups can be
\* told apart by name (compile.go 24-125).
ExpansionSound == LibraryExpands /\ NamesUnique

\* The segments of a line are the whole line with every field in it
\* (BuildLineTokens, segmentsFor: webapi.go 138-237).
LineShown == SegmentsAreLine /\ EveryCaptureShown

\* A field written once in all the bodies a pattern reaches is exposed under the
\* name written there (SPEC.md 1294).  It is not: dedupNamedGroups asks for it
\* again and gets a numbered name.
FieldsExposed ==
  \A c \in Answered :
    LET groups == answer[c].groups IN
    \A g \in DOMAIN groups :
      LET piece == groups[g].piece
          name == IF piece.kind = "group" THEN piece.name ELSE Sanitized[piece.field]
      IN  (\A h \in DOMAIN groups \ {g} : TrimNumSuffix(groups[h].name) # name) =>
            groups[g].name = name

=============================================================================
