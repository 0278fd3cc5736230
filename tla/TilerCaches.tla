----------------------------- MODULE TilerCaches -----------------------------
(***************************************************************************)
(* The tiler's two regexp caches (internal/pattern/tiler.go): compExprRe,  *)
(* one regexp per timestamp composite, and the single-token primitives     *)
(* tileSingles with tileDataPrim and tileHostnamePrim.  Both follow one    *)
(* protocol: ensure*() reads the version, looks at the tag under RLock,    *)
(* builds without a lock (one CompileGrok, hence one read of the           *)
(* primitives, per expression), publishes under Lock; the caller then      *)
(* takes RLock AGAIN and reads.  A commit resets both caches afterwards,   *)
(* one lock at a time.                                                     *)
(*                                                                         *)
(* A cached regexp is the pair <<expression, table it was compiled from>>. *)
(* Tiling a line calls the readers thousands of times per Discover call,   *)
(* from every worker of every concurrent call.                             *)
(***************************************************************************)
EXTENDS PatternState, FiniteSets

CONSTANTS
  Composites,  \* expressions of tileComposites
  Singles,     \* expressions of tileSingleSpecs
  Data,        \* %{DATA}
  Hostname,    \* %{HOSTNAME}
  Fallback,    \* the regexp used when nothing compiles or DATA is missing
  Functions,   \* the functions readers call
  Readers,     \* goroutines that tile lines
  Committers,  \* goroutines that commit new sources
  Nil          \* a nil pointer

ASSUME ExprsAssumption ==
  /\ Composites \cup Singles \cup {Data, Hostname} \subseteq Entries
  /\ Composites # {} /\ Composites \cap (Singles \cup {Data, Hostname}) = {}

VARIABLES
  cacheVersion,   \* compExprVer, tileSinglesVersion
  compExprLoaded, \* the composites' cache was built since its last reset
  slice,          \* compExprRe, tileSingles; empty until the first build
  tileDataPrim,
  tileHostnamePrim,
  committer,      \* where each committer is
  pc,             \* where each reader is
  reading,        \* the function each reader runs
  seen,           \* local variable version of ensure*(), read as the call begins
  todo,           \* expressions ensure*() has still to compile
  built           \* local variable built, or singles, dataPrim and hostPrim

cacheVars == <<cacheVersion, compExprLoaded, slice, tileDataPrim, tileHostnamePrim>>
readerVars == <<pc, reading, seen, todo, built>>
vars == <<stateVars, cacheVars, committer, readerVars>>

Caches == {"compExprs", "tileSingles"}

\* classifyToken and voteSingle read the cache alike.
ASSUME FunctionsAssumption ==
  Functions \subseteq {"matchComposite", "classifyToken", "tileDataPrimitive",
                      "tileHostnamePrimitive"}

CacheOf(f) == IF f = "matchComposite" THEN "compExprs" ELSE "tileSingles"

Exprs(k) ==
  IF k = "compExprs" THEN Composites ELSE Singles \cup {Data, Hostname}

Works(pairs, exprs) == {p \in pairs \ Broken : p[1] \in exprs}

\* What a builder leaves in each field.  A composite that fails to compile keeps
\* its slot and never matches; a single that fails is skipped, and NOTSPACE
\* stands in when none is left.
SliceOf(k, pairs) ==
  IF k = "compExprs" THEN pairs
  ELSE IF Works(pairs, Singles) = {} THEN {Fallback} ELSE Works(pairs, Singles)

DataPrimOf(pairs) ==
  IF Works(pairs, {Data}) = {} THEN Fallback
  ELSE CHOOSE p \in pairs : p[1] = Data

HostnamePrimOf(pairs) ==
  IF Works(pairs, {Hostname}) = {} THEN Nil
  ELSE CHOOSE p \in pairs : p[1] = Hostname

(***************************************************************************)
(* Commit, then resetTilerCaches.                                          *)
(***************************************************************************)
Commit(c) ==
  /\ committer[c] = "idle"
  /\ CommitState
  /\ committer' = [committer EXCEPT ![c] = "resetCompExprs"]
  /\ UNCHANGED <<cacheVars, readerVars>>

\* Mutant: the reset drops the compiled slice as well.
ResetDropsCompExprs(c) ==
  /\ committer[c] = "resetCompExprs"
  /\ committer' = [committer EXCEPT ![c] = "resetTileSingles"]
  /\ cacheVersion' = [cacheVersion EXCEPT !["compExprs"] = 0]
  /\ slice' = [slice EXCEPT !["compExprs"] = {}]
  /\ compExprLoaded' = FALSE
  /\ UNCHANGED <<stateVars, tileDataPrim, tileHostnamePrim, readerVars>>

ResetCompExprs(c) ==
  /\ committer[c] = "resetCompExprs"
  /\ committer' = [committer EXCEPT ![c] = "resetTileSingles"]
  /\ cacheVersion' = [cacheVersion EXCEPT !["compExprs"] = 0]
  /\ compExprLoaded' = FALSE
  /\ UNCHANGED <<stateVars, slice, tileDataPrim, tileHostnamePrim, readerVars>>

ResetTileSingles(c) ==
  /\ committer[c] = "resetTileSingles"
  /\ committer' = [committer EXCEPT ![c] = "idle"]
  /\ cacheVersion' = [cacheVersion EXCEPT !["tileSingles"] = 0]
  /\ tileDataPrim' = Nil
  /\ tileHostnamePrim' = Nil
  /\ UNCHANGED <<stateVars, compExprLoaded, slice, readerVars>>

(***************************************************************************)
(* A reader: ensure*(), then the read.                                     *)
(***************************************************************************)
Loaded(k) == IF k = "compExprs" THEN compExprLoaded ELSE slice[k] # {}

\* ensure*() starts by reading the version.
Call(r, f) ==
  /\ pc[r] = "idle"
  /\ pc' = [pc EXCEPT ![r] = "check"]
  /\ reading' = [reading EXCEPT ![r] = f]
  /\ seen' = [seen EXCEPT ![r] = version]
  /\ UNCHANGED <<stateVars, cacheVars, committer, todo, built>>

\* Mutant: a cache that was ever loaded is good enough.
CheckLoadedOnly(r) ==
  LET k == CacheOf(reading[r]) IN
  /\ pc[r] = "check"
  /\ IF Loaded(k)
     THEN /\ pc' = [pc EXCEPT ![r] = "read"]
          /\ UNCHANGED todo
     ELSE /\ pc' = [pc EXCEPT ![r] = "build"]
          /\ todo' = [todo EXCEPT ![r] = Exprs(k)]
  /\ UNCHANGED <<stateVars, cacheVars, committer, reading, seen, built>>

CheckTag(r) ==
  LET k == CacheOf(reading[r]) IN
  /\ pc[r] = "check"
  /\ IF Loaded(k) /\ cacheVersion[k] = seen[r]
     THEN /\ pc' = [pc EXCEPT ![r] = "read"]
          /\ UNCHANGED todo
     ELSE /\ pc' = [pc EXCEPT ![r] = "build"]
          /\ todo' = [todo EXCEPT ![r] = Exprs(k)]
  /\ UNCHANGED <<stateVars, cacheVars, committer, reading, seen, built>>

CompileExpr(r, e) ==
  /\ pc[r] = "build"
  /\ e \in todo[r]
  /\ todo' = [todo EXCEPT ![r] = @ \ {e}]
  /\ built' = [built EXCEPT ![r] = @ \cup {<<e, primitives>>}]
  /\ UNCHANGED <<stateVars, cacheVars, committer, pc, reading, seen>>

\* Store under the tag v unless the cache already has that tag.
Store(r, v) ==
  LET k == CacheOf(reading[r]) IN
  /\ pc[r] = "build"
  /\ todo[r] = {}
  /\ IF Loaded(k) /\ cacheVersion[k] = v
     THEN UNCHANGED cacheVars
     ELSE /\ slice' = [slice EXCEPT ![k] = SliceOf(k, built[r])]
          /\ cacheVersion' = [cacheVersion EXCEPT ![k] = v]
          /\ IF k = "compExprs"
             THEN /\ compExprLoaded' = TRUE
                  /\ UNCHANGED <<tileDataPrim, tileHostnamePrim>>
             ELSE /\ tileDataPrim' = DataPrimOf(built[r])
                  /\ tileHostnamePrim' = HostnamePrimOf(built[r])
                  /\ UNCHANGED compExprLoaded
  /\ pc' = [pc EXCEPT ![r] = "read"]
  /\ built' = [built EXCEPT ![r] = {}]
  /\ UNCHANGED <<stateVars, committer, reading, seen, todo>>

\* Mutant: the tag is the version of publication time.
PublishCurrentVersion(r) == Store(r, version)

Publish(r) == Store(r, seen[r])

\* What the call returns to its caller, read under RLock.
Observed(r) ==
  LET f == reading[r] IN
  CASE f = "tileDataPrimitive" ->
         IF tileDataPrim = Nil THEN {Fallback} ELSE {tileDataPrim}
    [] f = "tileHostnamePrimitive" ->
         IF tileHostnamePrim = Nil THEN {} ELSE {tileHostnamePrim}
    [] OTHER -> slice[CacheOf(f)]

\* The call returns and its local variables are gone.
Read(r) ==
  /\ pc[r] = "read"
  /\ pc' = [pc EXCEPT ![r] = "idle"]
  /\ reading' = [reading EXCEPT ![r] = "matchComposite"]
  /\ seen' = [seen EXCEPT ![r] = 1]
  /\ UNCHANGED <<stateVars, cacheVars, committer, todo, built>>

-----------------------------------------------------------------------------
Init ==
  /\ StateInit
  /\ cacheVersion = [k \in Caches |-> 0]
  /\ compExprLoaded = FALSE
  /\ slice = [k \in Caches |-> {}]
  /\ tileDataPrim = Nil
  /\ tileHostnamePrim = Nil
  /\ committer = [c \in Committers |-> "idle"]
  /\ pc = [r \in Readers |-> "idle"]
  /\ reading = [r \in Readers |-> "matchComposite"]
  /\ seen = [r \in Readers |-> 1]
  /\ todo = [r \in Readers |-> {}]
  /\ built = [r \in Readers |-> {}]

ReaderStep(r) ==
  \/ CheckTag(r)
  \/ \E e \in Entries : CompileExpr(r, e)
  \/ Publish(r)
  \/ Read(r)

Next ==
  \/ \E c \in Committers : Commit(c) \/ ResetCompExprs(c) \/ ResetTileSingles(c)
  \/ \E r \in Readers : ReaderStep(r) \/ \E f \in Functions : Call(r, f)

\* A runnable goroutine runs; nobody is obliged to commit or to tile.
Fairness == \A r \in Readers : WF_vars(ReaderStep(r))

Spec == Init /\ [][Next]_vars /\ Fairness

-----------------------------------------------------------------------------
(***************************************************************************)
(* Properties                                                              *)
(***************************************************************************)

\* Types, and the marks of the composites' cache agree: it is loaded exactly
\* when it has a version.
TypeOK ==
  /\ StateTypeOK
  /\ cacheVersion \in [Caches -> 0 .. MaxVersion]
  /\ compExprLoaded \in BOOLEAN
  /\ compExprLoaded <=> cacheVersion["compExprs"] # 0
  /\ slice \in [Caches -> SUBSET (Regexps \cup {Fallback})]
  /\ slice["compExprs"] \subseteq Regexps
  /\ tileDataPrim = Nil \/ tileDataPrim = Fallback \/ tileDataPrim \in Regexps
  /\ tileHostnamePrim = Nil \/ tileHostnamePrim \in Regexps
  /\ committer \in [Committers -> {"idle", "resetCompExprs", "resetTileSingles"}]
  /\ pc \in [Readers -> {"idle", "check", "build", "read"}]
  /\ reading \in [Readers -> Functions \cup {"matchComposite"}]
  /\ seen \in [Readers -> 1 .. MaxVersion]
  /\ todo \in [Readers -> SUBSET Entries]
  /\ built \in [Readers -> SUBSET Regexps]

\* No reader indexes a slice that is empty or too short, whatever resets fall
\* between its ensure*() and its read (tiler.go 132-138, 171, 338, 361).
ReadsInBounds ==
  \A r \in Readers :
    pc[r] = "read" =>
      IF reading[r] = "matchComposite"
      THEN \A x \in Composites :
             Cardinality({p \in slice["compExprs"] : p[1] = x}) = 1
      ELSE slice["tileSingles"] # {}

\* A cache tagged with the current version holds what the current primitives
\* give, all of it: a builder that lost a race can publish an old table, but
\* never under a tag the next ensure*() would accept (tiler.go 103-129, 282-302).
TagHonest ==
  \A k \in Caches :
    Loaded(k) /\ cacheVersion[k] = version =>
      LET now == Exprs(k) \X {primitives} IN
      /\ slice[k] = SliceOf(k, now)
      /\ k = "tileSingles" => /\ tileDataPrim = DataPrimOf(now)
                              /\ tileHostnamePrim = HostnamePrimOf(now)

\* Staleness does not last: once commits stop, there is a time after which
\* every call that reaches its read finds the regexps of the current table.
EventuallyFresh ==
  <>[](\A r \in Readers :
         pc[r] = "read" =>
           LET k == CacheOf(reading[r]) IN
           /\ slice[k] = SliceOf(k, Exprs(k) \X {primitives})
           /\ \A p \in Observed(r) \ {Fallback, Nil} : p[2] = primitives)

\* No reset between ensure*() and the reader's lock leaves a reader with an
\* ill-formed cache or an index out of range (tiler.go 155-177, 304-324).
ReadsSound == TypeOK /\ ReadsInBounds

=============================================================================
