-------------------------- MODULE TilerCachesProofs --------------------------
(***************************************************************************)
(* Proofs about the tiler's regexp caches, for every number of readers and *)
(* committers and every set of composites, singles and tables.             *)
(*                                                                         *)
(* A builder does not compare the version again before it publishes, so    *)
(* what a cache holds says nothing about the current sources by itself:    *)
(* only the tag does.  The strengthening says what a builder holds         *)
(* (BuildersExact) and that no tag and no version a reader remembers is    *)
(* ahead of the current one (TagsInRange).                                 *)
(***************************************************************************)
EXTENDS TilerCaches, FiniteSetTheorems, TLAPS

\* One pair for each of the expressions, and no other.
OneEach(pairs, exprs) ==
  /\ \A p \in pairs : p[1] \in exprs
  /\ \A e \in exprs : \E p \in pairs : {q \in pairs : q[1] = e} = {p}

TagsInRange ==
  /\ \A k \in Caches : cacheVersion[k] <= version
  /\ \A r \in Readers : seen[r] <= version

\* A builder has compiled each expression of its cache that is not in todo
\* once, and all of them against the current table as long as the version it
\* read when it began is current.
BuilderExact(r) ==
  /\ pc[r] # "build" => built[r] = {}
  /\ pc[r] = "build" =>
       /\ todo[r] \subseteq Exprs(CacheOf(reading[r]))
       /\ OneEach(built[r], Exprs(CacheOf(reading[r])) \ todo[r])
       /\ seen[r] = version => \A p \in built[r] : p[2] = primitives

BuildersExact == \A r \in Readers : BuilderExact(r)

\* A cache was never built, and then no reader is past its ensure*(), or it is
\* whole: resets leave the slices alone.
CachesWhole ==
  /\ \/ OneEach(slice["compExprs"], Composites)
     \/ /\ ~ compExprLoaded
        /\ \A r \in Readers : pc[r] = "read" => reading[r] # "matchComposite"
  /\ \/ slice["tileSingles"] # {}
     \/ \A r \in Readers : pc[r] = "read" => reading[r] = "matchComposite"

IInv == TypeOK /\ TagsInRange /\ BuildersExact /\ CachesWhole /\ TagHonest

-----------------------------------------------------------------------------
\* What one commit does to the sources, whichever entry point makes it.
LEMMA CommitEffect ==
  ASSUME StateTypeOK, CommitState
  PROVE  StateTypeOK' /\ version' = version + 1
<1>1. PICK t \in Tables, l \in Libraries : CommitSources(t, l)
  BY DEF CommitState, ReplaceKnownPatternsLibrary, ReplaceGrokPrimitives,
         CommitPatternState, RefreshLibrary, StateTypeOK
<1>2. [primitives |-> t, library |-> l] \in Source
  BY DEF Source
<1>. QED
  BY <1>1, <1>2, MaxVersionAssumption DEF StateTypeOK, CommitSources

\* What the fields of a published cache are made of.
LEMMA PublishedTypes ==
  ASSUME NEW pairs \in SUBSET Regexps, NEW k \in Caches
  PROVE  /\ SliceOf(k, pairs) \ {Fallback} \subseteq Regexps
         /\ k = "compExprs" => SliceOf(k, pairs) = pairs
         /\ k = "tileSingles" => SliceOf(k, pairs) # {}
         /\ DataPrimOf(pairs) \in Regexps \cup {Fallback}
         /\ HostnamePrimOf(pairs) \in Regexps \cup {Nil}
<1>1. SliceOf(k, pairs) \ {Fallback} \subseteq Regexps
  BY DEF SliceOf, Works
<1>2. DataPrimOf(pairs) \in Regexps \cup {Fallback}
  <2>1. CASE Works(pairs, {Data}) = {}
    BY <2>1 DEF DataPrimOf
  <2>2. CASE Works(pairs, {Data}) # {}
    <3>1. \E p \in pairs : p[1] = Data
      BY <2>2 DEF Works
    <3>2. (CHOOSE p \in pairs : p[1] = Data) \in pairs
      BY <3>1
    <3>. QED
      BY <2>2, <3>2 DEF DataPrimOf
  <2>. QED
    BY <2>1, <2>2
<1>3. HostnamePrimOf(pairs) \in Regexps \cup {Nil}
  <2>1. CASE Works(pairs, {Hostname}) = {}
    BY <2>1 DEF HostnamePrimOf
  <2>2. CASE Works(pairs, {Hostname}) # {}
    <3>1. \E p \in pairs : p[1] = Hostname
      BY <2>2 DEF Works
    <3>2. (CHOOSE p \in pairs : p[1] = Hostname) \in pairs
      BY <3>1
    <3>. QED
      BY <2>2, <3>2 DEF HostnamePrimOf
  <2>. QED
    BY <2>1, <2>2
<1>. QED
  BY <1>1, <1>2, <1>3 DEF SliceOf

\* A step of one reader, and a step that is no reader's.
LEMMA StepCases ==
  ASSUME [Next]_vars
  PROVE  \/ \E r \in Readers : ReaderStep(r) \/ \E f \in Functions : Call(r, f)
         \/ UNCHANGED readerVars
BY DEF Next, vars, Commit, ResetCompExprs, ResetTileSingles

\* The version never falls, and the primitives change only with it.
LEMMA SourcesStep ==
  ASSUME TypeOK, [Next]_vars
  PROVE  /\ version \in Nat /\ version' \in Nat /\ version <= version'
         /\ version' = version => UNCHANGED <<primitives, library>>
<1>1. CASE \E c \in Committers : Commit(c)
  BY <1>1, CommitEffect DEF Commit, TypeOK, StateTypeOK
<1>2. CASE UNCHANGED stateVars
  BY <1>2 DEF stateVars, TypeOK, StateTypeOK
<1>. QED
  BY <1>1, <1>2
     DEF Next, vars, ReaderStep, ResetCompExprs, ResetTileSingles, Call,
         CheckTag, CompileExpr, Publish, Store, Read

-----------------------------------------------------------------------------
LEMMA TypeInit == Init => TypeOK
<1>. SUFFICES ASSUME Init PROVE TypeOK
  OBVIOUS
<1>1. StateTypeOK
  <2>1. [primitives |-> primitives, library |-> library] \in Source
    BY DEF Init, StateInit, Source
  <2>. QED
    BY <2>1, MaxVersionAssumption DEF Init, StateInit, StateTypeOK
<1>2. cacheVersion["compExprs"] = 0 /\ compExprLoaded = FALSE
  BY DEF Init, Caches
<1>3. compExprLoaded \in BOOLEAN /\ (compExprLoaded <=> cacheVersion["compExprs"] # 0)
  BY ONLY <1>2, Zenon
<1>. QED
  BY <1>1, <1>3, MaxVersionAssumption DEF Init, TypeOK, Caches

LEMMA TypeStep == TypeOK /\ [Next]_vars => TypeOK'
<1>. SUFFICES ASSUME TypeOK, [Next]_vars PROVE TypeOK'
  OBVIOUS
<1>. USE DEF TypeOK, cacheVars, readerVars, Caches
<1>0. UNCHANGED stateVars => StateTypeOK'
  BY DEF stateVars, StateTypeOK
<1>1. ASSUME NEW c \in Committers, Commit(c) PROVE TypeOK'
  BY <1>1, CommitEffect DEF Commit
<1>2. ASSUME NEW c \in Committers, ResetCompExprs(c) PROVE TypeOK'
  <2>1. cacheVersion'["compExprs"] = 0 /\ compExprLoaded' = FALSE
    BY <1>2 DEF ResetCompExprs
  <2>2. compExprLoaded' \in BOOLEAN /\ (compExprLoaded' <=> cacheVersion'["compExprs"] # 0)
    BY ONLY <2>1, Zenon
  <2>. QED
    BY <1>2, <1>0, <2>2, MaxVersionAssumption DEF ResetCompExprs
<1>3. ASSUME NEW c \in Committers, ResetTileSingles(c) PROVE TypeOK'
  BY <1>3, <1>0, MaxVersionAssumption DEF ResetTileSingles
<1>4. ASSUME NEW r \in Readers, NEW f \in Functions, Call(r, f) PROVE TypeOK'
  BY <1>4, <1>0 DEF Call, StateTypeOK
<1>5. ASSUME NEW r \in Readers, CheckTag(r) PROVE TypeOK'
  <2>1. Exprs(CacheOf(reading[r])) \subseteq Entries
    BY ExprsAssumption DEF Exprs
  <2>. QED
    BY <1>5, <1>0, <2>1 DEF CheckTag
<1>6. ASSUME NEW r \in Readers, NEW e \in Entries, CompileExpr(r, e)
      PROVE  TypeOK'
  BY <1>6, <1>0 DEF CompileExpr, StateTypeOK, Regexps
<1>7. ASSUME NEW r \in Readers, Publish(r) PROVE TypeOK'
  <2>. DEFINE k == CacheOf(reading[r])
  <2>1. k \in Caches
    BY DEF CacheOf
  <2>2. CASE UNCHANGED cacheVars
    BY <2>2, <1>7, <1>0 DEF Publish, Store
  <2>3. CASE ~ UNCHANGED cacheVars
    <3>1. /\ slice' = [slice EXCEPT ![k] = SliceOf(k, built[r])]
          /\ cacheVersion' = [cacheVersion EXCEPT ![k] = seen[r]]
          /\ UNCHANGED stateVars
      BY <2>3, <1>7 DEF Publish, Store
    <3>2. compExprLoaded' \in BOOLEAN /\ (compExprLoaded' <=> cacheVersion'["compExprs"] # 0)
      <4>1. CASE k = "compExprs"
        <5>1. cacheVersion'["compExprs"] # 0
          BY <4>1, <3>1
        <5>2. compExprLoaded' = TRUE
          BY <4>1, <2>3, <1>7 DEF Publish, Store
        <5>. QED
          BY ONLY <5>1, <5>2, Zenon
      <4>2. CASE k = "tileSingles"
        <5>1. compExprLoaded' = compExprLoaded
          BY <4>2, <2>3, <1>7 DEF Publish, Store
        <5>2. cacheVersion'["compExprs"] = cacheVersion["compExprs"]
          BY <4>2, <3>1
        <5>3. compExprLoaded \in BOOLEAN /\ (compExprLoaded <=> cacheVersion["compExprs"] # 0)
          OBVIOUS
        <5>. QED
          BY ONLY <5>1, <5>2, <5>3, Zenon
      <4>. QED
        BY <2>1, <4>1, <4>2
    <3>3. built[r] \in SUBSET Regexps
      OBVIOUS
    <3>4. /\ slice' \in [Caches -> SUBSET (Regexps \cup {Fallback})]
          /\ slice'["compExprs"] \subseteq Regexps
      BY <3>1, <3>3, <2>1, PublishedTypes
    <3>5. cacheVersion' \in [Caches -> 0 .. MaxVersion]
      BY <3>1, <2>1
    <3>6. /\ tileDataPrim' \in Regexps \cup {Fallback, Nil}
          /\ tileHostnamePrim' \in Regexps \cup {Nil}
      BY <2>3, <3>3, <2>1, <1>7, PublishedTypes DEF Publish, Store
    <3>. QED
      BY <3>1, <3>2, <3>4, <3>5, <3>6, <1>7, <1>0 DEF Publish, Store
  <2>. QED
    BY <2>2, <2>3
<1>8. ASSUME NEW r \in Readers, Read(r) PROVE TypeOK'
  BY <1>8, <1>0, MaxVersionAssumption DEF Read
<1>9. CASE UNCHANGED vars
  BY <1>9, <1>0 DEF vars
<1>. QED
  BY <1>1, <1>2, <1>3, <1>4, <1>5, <1>6, <1>7, <1>8, <1>9
     DEF Next, ReaderStep

-----------------------------------------------------------------------------
LEMMA TagsInRangeStep ==
  ASSUME TypeOK, TagsInRange, [Next]_vars
  PROVE  TagsInRange'
<1>. USE SourcesStep DEF TagsInRange, TypeOK, StateTypeOK, Caches
<1>1. CASE \E c \in Committers :
             Commit(c) \/ ResetCompExprs(c) \/ ResetTileSingles(c)
  BY <1>1 DEF Commit, ResetCompExprs, ResetTileSingles, cacheVars, readerVars
<1>2. ASSUME NEW r \in Readers, NEW f \in Functions, Call(r, f)
      PROVE  TagsInRange'
  BY <1>2 DEF Call, stateVars, cacheVars
<1>3. ASSUME NEW r \in Readers,
             CheckTag(r) \/ (\E e \in Entries : CompileExpr(r, e))
      PROVE  TagsInRange'
  BY <1>3 DEF CheckTag, CompileExpr, stateVars, cacheVars
<1>4. ASSUME NEW r \in Readers, Publish(r) PROVE TagsInRange'
  BY <1>4 DEF Publish, Store, CacheOf, stateVars, cacheVars
<1>5. ASSUME NEW r \in Readers, Read(r) PROVE TagsInRange'
  BY <1>5 DEF Read, stateVars, cacheVars
<1>6. CASE UNCHANGED vars
  BY <1>6 DEF vars, stateVars, cacheVars, readerVars
<1>. QED
  BY <1>1, <1>2, <1>3, <1>4, <1>5, <1>6 DEF Next, ReaderStep

\* One more expression compiled.
LEMMA OneEachGrows ==
  ASSUME NEW pairs, NEW exprs, NEW todo0, NEW e \in todo0, NEW t,
         todo0 \subseteq exprs, OneEach(pairs, exprs \ todo0)
  PROVE  OneEach(pairs \cup {<<e, t>>}, exprs \ (todo0 \ {e}))
<1>. DEFINE more == pairs \cup {<<e, t>>}
<1>1. \A p \in pairs : p[1] # e
  BY DEF OneEach
<1>2. {q \in more : q[1] = e} = {<<e, t>>}
  BY <1>1
<1>3. ASSUME NEW x \in exprs \ todo0
      PROVE  \E p \in more : {q \in more : q[1] = x} = {p}
  <2>1. x # e /\ \E p \in pairs : {q \in pairs : q[1] = x} = {p}
    BY DEF OneEach
  <2>2. {q \in more : q[1] = x} = {q \in pairs : q[1] = x}
    BY <2>1
  <2>. QED
    BY <2>1, <2>2
<1>4. \A p \in more : p[1] \in exprs \ (todo0 \ {e})
  BY DEF OneEach
<1>5. ASSUME NEW x \in exprs \ (todo0 \ {e})
      PROVE  \E p \in more : {q \in more : q[1] = x} = {p}
  <2>1. CASE x = e
    BY <1>2, <2>1
  <2>2. CASE x # e
    <3>1. x \in exprs \ todo0
      BY <2>2
    <3>. QED
      BY <1>3, <3>1
  <2>. QED
    BY <2>1, <2>2
<1>. QED
  BY <1>4, <1>5 DEF OneEach

\* A step that leaves a reader alone leaves what it holds exact: if the sources
\* changed, the version it remembers is no longer current.
LEMMA OtherBuilderExact ==
  ASSUME TypeOK, TagsInRange, [Next]_vars, NEW r \in Readers, BuilderExact(r),
         pc'[r] = pc[r], reading'[r] = reading[r], seen'[r] = seen[r],
         todo'[r] = todo[r], built'[r] = built[r]
  PROVE  BuilderExact(r)'
<1>1. /\ version \in Nat /\ version' \in Nat /\ version <= version'
      /\ version' = version => primitives' = primitives
  BY SourcesStep
<1>2. seen[r] \in Nat /\ seen[r] <= version
  BY DEF TagsInRange, TypeOK
<1>3. seen'[r] = version' => seen[r] = version /\ primitives' = primitives
  BY <1>1, <1>2
<1>. QED
  BY <1>3 DEF BuilderExact

LEMMA BuildersExactStep ==
  ASSUME TypeOK, TagsInRange, BuildersExact, [Next]_vars
  PROVE  BuildersExact'
<1>. SUFFICES ASSUME NEW r \in Readers PROVE BuilderExact(r)'
  BY DEF BuildersExact
<1>0. BuilderExact(r)
  BY DEF BuildersExact
<1>1. CASE UNCHANGED readerVars
  BY <1>1, <1>0, OtherBuilderExact DEF readerVars
<1>2. ASSUME NEW q \in Readers \ {r},
             ReaderStep(q) \/ \E f \in Functions : Call(q, f)
      PROVE  BuilderExact(r)'
  <2>1. /\ pc'[r] = pc[r] /\ reading'[r] = reading[r] /\ seen'[r] = seen[r]
        /\ todo'[r] = todo[r] /\ built'[r] = built[r]
    BY <1>2 DEF TypeOK, ReaderStep, Call, CheckTag, CompileExpr, Publish, Store, Read
  <2>. QED
    BY <2>1, <1>0, OtherBuilderExact
<1>3. ASSUME NEW f \in Functions, Call(r, f) PROVE BuilderExact(r)'
  BY <1>3, <1>0 DEF Call, BuilderExact, TypeOK
<1>4. CASE CheckTag(r)
  <2>1. OneEach({}, Exprs(CacheOf(reading[r])) \ Exprs(CacheOf(reading[r])))
    BY DEF OneEach
  <2>. QED
    BY <1>4, <1>0, <2>1 DEF CheckTag, BuilderExact, TypeOK
<1>5. ASSUME NEW e \in Entries, CompileExpr(r, e) PROVE BuilderExact(r)'
  <2>. DEFINE exprs == Exprs(CacheOf(reading[r]))
  <2>1. OneEach(built[r] \cup {<<e, primitives>>}, exprs \ (todo[r] \ {e}))
    BY <1>5, <1>0, OneEachGrows DEF CompileExpr, BuilderExact
  <2>2. /\ UNCHANGED <<pc, reading, seen, version, primitives>>
        /\ todo'[r] = todo[r] \ {e}
        /\ built'[r] = built[r] \cup {<<e, primitives>>}
    BY <1>5 DEF CompileExpr, stateVars, TypeOK
  <2>3. pc[r] = "build" /\ todo[r] \subseteq exprs
        /\ (seen[r] = version => \A p \in built[r] : p[2] = primitives)
    BY <1>5, <1>0 DEF CompileExpr, BuilderExact
  <2>4. pc'[r] = "build" /\ todo'[r] \subseteq exprs
        /\ OneEach(built'[r], exprs \ todo'[r])
    BY <2>1, <2>2, <2>3
  <2>5. seen'[r] = version' => \A p \in built'[r] : p[2] = primitives'
    BY <2>2, <2>3
  <2>. QED
    BY <2>2, <2>4, <2>5 DEF BuilderExact
<1>6. CASE Publish(r)
  BY <1>6 DEF Publish, Store, BuilderExact, TypeOK
<1>7. CASE Read(r)
  BY <1>7, <1>0 DEF Read, BuilderExact, TypeOK
<1>. QED
  BY StepCases, <1>1, <1>2, <1>3, <1>4, <1>5, <1>6, <1>7 DEF ReaderStep

\* What a builder with nothing left to compile holds.
LEMMA BuiltExact ==
  ASSUME TypeOK, BuildersExact, NEW r \in Readers, pc[r] = "build", todo[r] = {}
  PROVE  LET k == CacheOf(reading[r]) IN
         /\ OneEach(built[r], Exprs(k))
         /\ seen[r] = version => built[r] = Exprs(k) \X {primitives}
<1>. DEFINE k == CacheOf(reading[r])
<1>1. OneEach(built[r], Exprs(k))
  BY DEF BuildersExact, BuilderExact
<1>2. ASSUME seen[r] = version PROVE built[r] = Exprs(k) \X {primitives}
  <2>1. \A p \in built[r] : p \in Entries \X Tables /\ p[1] \in Exprs(k) /\ p[2] = primitives
    BY <1>1, <1>2 DEF BuildersExact, BuilderExact, OneEach, TypeOK, Regexps
  <2>2. \A p \in built[r] : p = <<p[1], primitives>> /\ p[1] \in Exprs(k)
    BY <2>1
  <2>3. \A e \in Exprs(k) : \E p \in built[r] : p[1] = e
    BY <1>1 DEF OneEach
  <2>4. \A e \in Exprs(k) : <<e, primitives>> \in built[r]
    BY <2>2, <2>3
  <2>. QED
    BY <2>2, <2>4
<1>. QED
  BY <1>1, <1>2

LEMMA CachesWholeStep ==
  ASSUME TypeOK, BuildersExact, CachesWhole, [Next]_vars
  PROVE  CachesWhole'
<1>. USE DEF CachesWhole, TypeOK
<1>1. CASE \E c \in Committers : Commit(c) \/ ResetTileSingles(c)
  BY <1>1 DEF Commit, ResetTileSingles, cacheVars, readerVars
<1>2. ASSUME NEW c \in Committers, ResetCompExprs(c) PROVE CachesWhole'
  BY <1>2 DEF ResetCompExprs, readerVars
<1>3. ASSUME NEW r \in Readers, NEW f \in Functions, Call(r, f)
      PROVE  CachesWhole'
  BY <1>3 DEF Call, cacheVars
<1>4. ASSUME NEW r \in Readers, CheckTag(r) PROVE CachesWhole'
  BY <1>4 DEF CheckTag, cacheVars, Loaded, CacheOf
<1>5. ASSUME NEW r \in Readers, NEW e \in Entries, CompileExpr(r, e)
      PROVE  CachesWhole'
  BY <1>5 DEF CompileExpr, cacheVars
<1>6. ASSUME NEW r \in Readers, Publish(r) PROVE CachesWhole'
  <2>. DEFINE k == CacheOf(reading[r])
  <2>1. k \in Caches /\ (k = "compExprs" <=> reading[r] = "matchComposite")
    BY DEF CacheOf, Caches
  <2>2. pc' = [pc EXCEPT ![r] = "read"] /\ reading' = reading
    BY <1>6 DEF Publish, Store
  <2>3. CASE UNCHANGED cacheVars /\ Loaded(k)
    BY <2>1, <2>2, <2>3 DEF cacheVars, Loaded, Caches
  <2>4. CASE slice' = [slice EXCEPT ![k] = SliceOf(k, built[r])]
    <3>1. OneEach(built[r], Exprs(k))
      BY <1>6, BuiltExact DEF Publish, Store
    <3>2. CASE k = "compExprs"
      BY <2>1, <2>2, <2>4, <3>1, <3>2 DEF SliceOf, Exprs, Caches
    <3>3. CASE k = "tileSingles"
      <4>1. slice'["tileSingles"] # {} /\ slice'["compExprs"] = slice["compExprs"]
        BY <2>4, <3>3, PublishedTypes, <2>1 DEF Caches
      <4>2. ~ compExprLoaded => ~ compExprLoaded'
        BY <1>6, <3>3 DEF Publish, Store, cacheVars
      <4>. QED
        BY <4>1, <4>2, <2>1, <2>2, <3>3
    <3>. QED
      BY <2>1, <3>2, <3>3 DEF Caches
  <2>. QED
    BY <1>6, <2>3, <2>4 DEF Publish, Store
<1>7. ASSUME NEW r \in Readers, Read(r) PROVE CachesWhole'
  BY <1>7 DEF Read, cacheVars
<1>8. CASE UNCHANGED vars
  BY <1>8 DEF vars, cacheVars, readerVars
<1>. QED
  BY <1>1, <1>2, <1>3, <1>4, <1>5, <1>6, <1>7, <1>8 DEF Next, ReaderStep

LEMMA TagHonestStep ==
  ASSUME TypeOK, TagsInRange, BuildersExact, TagHonest, [Next]_vars
  PROVE  TagHonest'
<1>. USE DEF TypeOK
<1>1. ASSUME NEW c \in Committers, Commit(c) PROVE TagHonest'
  <2>1. version' = version + 1 /\ cacheVersion' = cacheVersion
    BY <1>1, CommitEffect DEF Commit, cacheVars
  <2>2. \A k \in Caches : cacheVersion'[k] # version'
    BY <2>1 DEF TagsInRange, StateTypeOK, Caches
  <2>. QED
    BY <2>2 DEF TagHonest
<1>2. CASE UNCHANGED <<stateVars, cacheVars>>
  BY <1>2 DEF TagHonest, stateVars, cacheVars, Loaded
<1>3. ASSUME NEW c \in Committers, ResetCompExprs(c) PROVE TagHonest'
  BY <1>3 DEF ResetCompExprs, TagHonest, Loaded, Caches, stateVars, Exprs
<1>4. ASSUME NEW c \in Committers, ResetTileSingles(c) PROVE TagHonest'
  <2>1. cacheVersion'["tileSingles"] # version'
    BY <1>4, SourcesStep DEF ResetTileSingles, Caches, stateVars, StateTypeOK
  <2>2. UNCHANGED <<stateVars, compExprLoaded, slice>>
        /\ cacheVersion'["compExprs"] = cacheVersion["compExprs"]
    BY <1>4 DEF ResetTileSingles, Caches
  <2>. QED
    BY <2>1, <2>2 DEF TagHonest, Loaded, Caches, stateVars, Exprs
<1>5. ASSUME NEW r \in Readers, Publish(r), ~ UNCHANGED cacheVars
      PROVE  TagHonest'
  <2>. DEFINE k == CacheOf(reading[r])
  <2>1. k \in Caches
    BY DEF CacheOf, Caches
  <2>2. /\ slice' = [slice EXCEPT ![k] = SliceOf(k, built[r])]
        /\ cacheVersion' = [cacheVersion EXCEPT ![k] = seen[r]]
        /\ UNCHANGED stateVars
        /\ k = "tileSingles" => /\ tileDataPrim' = DataPrimOf(built[r])
                                /\ tileHostnamePrim' = HostnamePrimOf(built[r])
        /\ k = "tileSingles" => UNCHANGED compExprLoaded
        /\ k = "compExprs" => UNCHANGED <<tileDataPrim, tileHostnamePrim>>
    BY <1>5 DEF Publish, Store
  <2>3. seen[r] = version => built[r] = Exprs(k) \X {primitives}
    BY <1>5, BuiltExact DEF Publish, Store
  <2>4. ASSUME NEW j \in Caches, Loaded(j)', cacheVersion'[j] = version'
        PROVE  LET now == Exprs(j) \X {primitives'} IN
               /\ slice'[j] = SliceOf(j, now)
               /\ j = "tileSingles" => /\ tileDataPrim' = DataPrimOf(now)
                                       /\ tileHostnamePrim' = HostnamePrimOf(now)
    <3>1. CASE j = k
      <4>1. built[r] = Exprs(k) \X {primitives} /\ UNCHANGED <<version, primitives>>
        BY <2>1, <2>2, <2>3, <2>4, <3>1 DEF stateVars
      <4>. QED
        BY <2>1, <2>2, <4>1, <3>1
    <3>2. CASE j # k
      <4>1. /\ slice'[j] = slice[j] /\ cacheVersion'[j] = cacheVersion[j]
            /\ UNCHANGED <<version, primitives>>
        BY <2>1, <2>2, <3>2 DEF stateVars
      <4>2. Loaded(j)
        BY <2>1, <2>2, <2>4, <3>2, <4>1 DEF Loaded, Caches
      <4>3. j = "tileSingles" => UNCHANGED <<tileDataPrim, tileHostnamePrim>>
        BY <2>1, <2>2, <3>2 DEF Caches
      <4>. QED
        BY <2>4, <4>1, <4>2, <4>3 DEF TagHonest
    <3>. QED
      BY <3>1, <3>2
  <2>. QED
    BY <2>4 DEF TagHonest, Exprs
<1>. QED
  <2>1. ASSUME NEW r \in Readers, ReaderStep(r) PROVE TagHonest'
    BY <2>1, <1>2, <1>5
       DEF ReaderStep, CheckTag, CompileExpr, Publish, Store, Read
  <2>2. ASSUME NEW r \in Readers, NEW f \in Functions, Call(r, f) PROVE TagHonest'
    BY <2>2, <1>2 DEF Call
  <2>3. CASE UNCHANGED vars
    BY <2>3, <1>2 DEF vars
  <2>. QED
    BY <1>1, <1>3, <1>4, <2>1, <2>2, <2>3 DEF Next

-----------------------------------------------------------------------------
LEMMA InitIInv == Init => IInv
<1>. SUFFICES ASSUME Init PROVE IInv
  OBVIOUS
<1>1. version = 1
  BY DEF Init, StateInit
<1>2. TagsInRange /\ TagHonest
  BY <1>1 DEF Init, TagsInRange, TagHonest, Caches
<1>3. BuildersExact /\ CachesWhole
  BY DEF Init, BuildersExact, BuilderExact, CachesWhole
<1>. QED
  BY TypeInit, <1>2, <1>3 DEF IInv

LEMMA StepIInv == IInv /\ [Next]_vars => IInv'
BY TypeStep, TagsInRangeStep, BuildersExactStep, CachesWholeStep, TagHonestStep
   DEF IInv

\* The inductive invariant: what it adds to the two properties is what builders
\* hold and that no tag comes from the future (tiler.go 93-129, 282-324).
THEOREM CachesInvariant == Spec => []IInv
BY InitIInv, StepIInv, PTL DEF Spec

\* Every reader finds well-formed caches, whatever resets fall between its
\* ensure*() and its lock (tiler.go 132-138, 155-177, 304-324).
THEOREM ReadersFindCachesWhole == Spec => []ReadsSound
<1>1. IInv => ReadsInBounds
  <2>. SUFFICES ASSUME IInv, NEW r \in Readers, pc[r] = "read"
                PROVE  IF reading[r] = "matchComposite"
                       THEN \A x \in Composites :
                              Cardinality({p \in slice["compExprs"] : p[1] = x}) = 1
                       ELSE slice["tileSingles"] # {}
    BY DEF ReadsInBounds
  <2>1. CASE reading[r] = "matchComposite"
    <3>1. OneEach(slice["compExprs"], Composites)
      BY <2>1 DEF IInv, CachesWhole
    <3>2. \A x \in Composites : Cardinality({p \in slice["compExprs"] : p[1] = x}) = 1
      <4>1. SUFFICES ASSUME NEW x \in Composites
                     PROVE  Cardinality({p \in slice["compExprs"] : p[1] = x}) = 1
        OBVIOUS
      <4>2. \E y : {p \in slice["compExprs"] : p[1] = x} = {y}
        BY ONLY <3>1, x \in Composites DEF OneEach
      <4>. QED
        BY ONLY <4>2, FS_Singleton
    <3>. QED
      BY ONLY <2>1, <3>2
  <2>2. CASE reading[r] # "matchComposite"
    BY <2>2 DEF IInv, CachesWhole
  <2>. QED
    BY <2>1, <2>2
<1>2. IInv => ReadsSound
  BY <1>1 DEF IInv, ReadsSound
<1>. QED
  BY <1>2, CachesInvariant, PTL

\* A cache that carries the current version holds what the current primitives
\* give, for every interleaving of slow builders, commits and resets
\* (tiler.go 103-129, 282-302).
THEOREM TagsAreHonest == Spec => []TagHonest
<1>1. IInv => TagHonest
  BY DEF IInv
<1>. QED
  BY <1>1, CachesInvariant, PTL

=============================================================================
