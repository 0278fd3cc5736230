------------------------ MODULE CompiledLibraryProofs ------------------------
(***************************************************************************)
(* Proofs about the compiled-library cache, for every number of readers    *)
(* and committers and every set of entries, libraries and tables.          *)
(*                                                                         *)
(* The invariants the cache is read by (CacheExact, AnswerCurrent) are not *)
(* inductive: they need to say what a builder that has not published yet   *)
(* holds.  BuilderExact is that strengthening.                             *)
(***************************************************************************)
EXTENDS CompiledLibrary, TLAPS

\* The version a call in progress has read lies between the version it began
\* at and the current one.
SeenInRange ==
  \A r \in Readers :
    /\ begun[r] <= version
    /\ pc[r] \in {"cache", "snapshot", "compile", "publish"} =>
         begun[r] <= seen[r] /\ seen[r] <= version

\* A builder whose version is still current has compiled exactly the entries
\* no longer in todo, all against the current table; one that passed the
\* re-check holds everything that its version's sources compile to.
BuilderExact ==
  \A r \in Readers :
    /\ pc[r] = "compile" /\ seen[r] = version =>
         tried[r] \cup (todo[r] \X {primitives}) = library \X {primitives}
    /\ pc[r] = "publish" =>
         tried[r] = history[seen[r]].library \X {history[seen[r]].primitives}

IInv == TypeOK /\ SeenInRange /\ BuilderExact /\ CacheExact /\ AnswerCurrent

-----------------------------------------------------------------------------
\* What one commit does to the sources, whichever entry point makes it.
LEMMA CommitStateEffect ==
  ASSUME StateTypeOK, CommitState
  PROVE  /\ StateTypeOK'
         /\ version' = version + 1
         /\ \A v \in 1 .. version : history'[v] = history[v]
<1>1. \E t \in Tables, l \in Libraries : CommitSources(t, l)
  BY DEF CommitState, ReplaceKnownPatternsLibrary, ReplaceGrokPrimitives,
         CommitPatternState, RefreshLibrary, StateTypeOK
<1>2. PICK t \in Tables, l \in Libraries : CommitSources(t, l)
  BY <1>1
<1>3. [primitives |-> t, library |-> l] \in Source
  BY DEF Source
<1>. QED
  BY <1>2, <1>3, MaxVersionAssumption DEF StateTypeOK, CommitSources

LEMMA TypeInit == Init => TypeOK
<1>. SUFFICES ASSUME Init PROVE TypeOK
  OBVIOUS
<1>1. StateTypeOK
  <2>1. [primitives |-> primitives, library |-> library] \in Source
    BY DEF Init, StateInit, Source
  <2>. QED
    BY <2>1, MaxVersionAssumption DEF Init, StateInit, StateTypeOK
<1>. QED
  BY <1>1, MaxVersionAssumption
     DEF Init, TypeOK, ReaderSteps, Callers

LEMMA TypeStep == TypeOK /\ [Next]_vars => TypeOK'
<1>. SUFFICES ASSUME TypeOK, [Next]_vars PROVE TypeOK'
  OBVIOUS
<1>. USE DEF TypeOK, ReaderSteps, Callers, cacheVars, readerVars
<1>0. UNCHANGED stateVars => StateTypeOK'
  BY DEF stateVars, StateTypeOK
<1>1. ASSUME NEW c \in Committers, Commit(c) PROVE TypeOK'
  BY <1>1, CommitStateEffect DEF Commit
<1>2. ASSUME NEW c \in Committers, ResetCompiledLibrary(c) PROVE TypeOK'
  BY <1>2, <1>0, MaxVersionAssumption DEF ResetCompiledLibrary
<1>3. ASSUME NEW r \in Readers, NEW f \in Callers, Call(r, f) PROVE TypeOK'
  BY <1>3, <1>0 DEF Call, StateTypeOK
<1>4. ASSUME NEW r \in Readers, ReadVersion(r) PROVE TypeOK'
  BY <1>4, <1>0 DEF ReadVersion, StateTypeOK
<1>5. ASSUME NEW r \in Readers, CheckCache(r) PROVE TypeOK'
  BY <1>5, <1>0 DEF CheckCache, CacheHit, AfterLibrary
<1>6. ASSUME NEW r \in Readers, TakeSnapshot(r) PROVE TypeOK'
  BY <1>6, <1>0, LibrariesAssumption DEF TakeSnapshot, StateTypeOK
<1>7. ASSUME NEW r \in Readers, NEW e \in Entries, CompileEntry(r, e)
      PROVE  TypeOK'
  BY <1>7, <1>0 DEF CompileEntry, StateTypeOK, Regexps
<1>8. ASSUME NEW r \in Readers, RecheckVersion(r) PROVE TypeOK'
  BY <1>8, <1>0 DEF RecheckVersion
<1>9. ASSUME NEW r \in Readers, Publish(r) PROVE TypeOK'
  BY <1>9, <1>0, NilAssumption DEF Publish, AfterLibrary
<1>10. ASSUME NEW r \in Readers, ReadDiagnostics(r) PROVE TypeOK'
  BY <1>10, <1>0 DEF ReadDiagnostics
<1>11. CASE UNCHANGED vars
  BY <1>11, <1>0 DEF vars
<1>. QED
  BY <1>1, <1>2, <1>3, <1>4, <1>5, <1>6, <1>7, <1>8, <1>9, <1>10, <1>11
     DEF Next, ReaderStep

-----------------------------------------------------------------------------
\* No step rewrites the past: the version never falls, the sources of the
\* versions there are stay what they were, and they change only with it.
LEMMA SourcesStep ==
  ASSUME TypeOK, [Next]_vars
  PROVE  /\ version \in Nat /\ version' \in Nat /\ version <= version'
         /\ \A v \in 1 .. version : history'[v] = history[v]
         /\ version' = version => UNCHANGED <<primitives, library>>
<1>1. CASE \E c \in Committers : Commit(c)
  BY <1>1, CommitStateEffect DEF Commit, TypeOK, StateTypeOK
<1>2. CASE UNCHANGED stateVars
  BY <1>2 DEF stateVars, TypeOK, StateTypeOK
<1>. QED
  BY <1>1, <1>2
     DEF Next, vars, ReaderStep, ResetCompiledLibrary, Call, ReadVersion,
         CheckCache, TakeSnapshot, CompileEntry, RecheckVersion, Publish,
         ReadDiagnostics

\* A step of one reader, and a step that is no reader's.
LEMMA StepCases ==
  ASSUME [Next]_vars
  PROVE  \/ \E r \in Readers : ReaderStep(r) \/ \E f \in Callers : Call(r, f)
         \/ UNCHANGED readerVars
BY DEF Next, vars, Commit, ResetCompiledLibrary

LEMMA SeenInRangeStep ==
  ASSUME TypeOK, SeenInRange, [Next]_vars
  PROVE  SeenInRange'
<1>. USE SourcesStep DEF SeenInRange, TypeOK, StateTypeOK
<1>1. CASE UNCHANGED readerVars
  BY <1>1 DEF readerVars
<1>2. ASSUME NEW r \in Readers, NEW f \in Callers, Call(r, f)
      PROVE  SeenInRange'
  BY <1>2 DEF Call, stateVars
<1>3. ASSUME NEW r \in Readers, ReadVersion(r) PROVE SeenInRange'
  BY <1>3 DEF ReadVersion, stateVars
<1>4. ASSUME NEW r \in Readers, CheckCache(r) PROVE SeenInRange'
  BY <1>4 DEF CheckCache, AfterLibrary, stateVars
<1>5. ASSUME NEW r \in Readers, TakeSnapshot(r) PROVE SeenInRange'
  BY <1>5 DEF TakeSnapshot, stateVars
<1>6. ASSUME NEW r \in Readers, NEW e \in Entries, CompileEntry(r, e)
      PROVE  SeenInRange'
  BY <1>6 DEF CompileEntry, stateVars
<1>7. ASSUME NEW r \in Readers, RecheckVersion(r) PROVE SeenInRange'
  BY <1>7 DEF RecheckVersion, stateVars
<1>8. ASSUME NEW r \in Readers, Publish(r) PROVE SeenInRange'
  BY <1>8 DEF Publish, AfterLibrary, stateVars
<1>9. ASSUME NEW r \in Readers, ReadDiagnostics(r) PROVE SeenInRange'
  BY <1>9 DEF ReadDiagnostics, stateVars
<1>. QED
  BY StepCases, <1>1, <1>2, <1>3, <1>4, <1>5, <1>6, <1>7, <1>8, <1>9
     DEF ReaderStep

LEMMA BuilderExactStep ==
  ASSUME TypeOK, SeenInRange, BuilderExact, [Next]_vars
  PROVE  BuilderExact'
<1>. USE SourcesStep DEF SeenInRange, BuilderExact, TypeOK, StateTypeOK
<1>1. CASE UNCHANGED readerVars
  BY <1>1 DEF readerVars
<1>2. ASSUME NEW r \in Readers, NEW f \in Callers, Call(r, f)
      PROVE  BuilderExact'
  BY <1>2 DEF Call, stateVars
<1>3. ASSUME NEW r \in Readers, ReadVersion(r) PROVE BuilderExact'
  BY <1>3 DEF ReadVersion, stateVars
<1>4. ASSUME NEW r \in Readers, CheckCache(r) PROVE BuilderExact'
  BY <1>4 DEF CheckCache, AfterLibrary, stateVars
<1>5. ASSUME NEW r \in Readers, TakeSnapshot(r) PROVE BuilderExact'
  BY <1>5 DEF TakeSnapshot, stateVars
<1>6. ASSUME NEW r \in Readers, NEW e \in Entries, CompileEntry(r, e)
      PROVE  BuilderExact'
  BY <1>6 DEF CompileEntry, stateVars
<1>7. ASSUME NEW r \in Readers, RecheckVersion(r) PROVE BuilderExact'
  BY <1>7 DEF RecheckVersion, stateVars
<1>8. ASSUME NEW r \in Readers, Publish(r) PROVE BuilderExact'
  BY <1>8 DEF Publish, AfterLibrary, stateVars
<1>9. ASSUME NEW r \in Readers, ReadDiagnostics(r) PROVE BuilderExact'
  BY <1>9 DEF ReadDiagnostics, stateVars
<1>. QED
  BY StepCases, <1>1, <1>2, <1>3, <1>4, <1>5, <1>6, <1>7, <1>8, <1>9
     DEF ReaderStep

LEMMA CacheExactStep ==
  ASSUME TypeOK, SeenInRange, BuilderExact, CacheExact, [Next]_vars
  PROVE  CacheExact'
<1>. USE SourcesStep DEF CacheExact, TypeOK, StateTypeOK, Compiled, CompileErrors
<1>1. CASE UNCHANGED cacheVars
  BY <1>1 DEF cacheVars
<1>2. ASSUME NEW c \in Committers, ResetCompiledLibrary(c) PROVE CacheExact'
  BY <1>2 DEF ResetCompiledLibrary
<1>3. ASSUME NEW r \in Readers, Publish(r) PROVE CacheExact'
  <2>1. CASE UNCHANGED cacheVars
    BY <2>1, <1>1
  <2>2. CASE ~ UNCHANGED cacheVars
    <3>1. /\ compiledVersion' = seen[r]
          /\ compiledLib' = tried[r] \ Broken
          /\ libraryDiagErrs' = tried[r] \cap Broken
          /\ UNCHANGED stateVars
      BY <2>2, <1>3 DEF Publish
    <3>2. /\ seen[r] \in 1 .. version
          /\ tried[r] = history[seen[r]].library
                          \X {history[seen[r]].primitives}
      BY <1>3 DEF Publish, SeenInRange, BuilderExact
    <3>. QED
      BY <3>1, <3>2 DEF stateVars
  <2>. QED
    BY <2>1, <2>2
<1>. QED
  BY <1>1, <1>2, <1>3
     DEF Next, vars, ReaderStep, Commit, Call, ReadVersion, CheckCache,
         TakeSnapshot, CompileEntry, RecheckVersion, ReadDiagnostics

\* A reader's result stands: later commits only widen the interval of its call.
LEMMA AnswerCurrentStep ==
  ASSUME TypeOK, SeenInRange, CacheExact, CacheExact', AnswerCurrent, [Next]_vars
  PROVE  AnswerCurrent'
<1>. USE SourcesStep DEF AnswerCurrent, TypeOK, StateTypeOK
<1>1. CASE UNCHANGED readerVars
  <2>. SUFFICES ASSUME NEW r \in Readers, pc'[r] \in {"diagnostics", "returned"}
                PROVE  \E v \in begun'[r] .. version' :
                          answer'[r] = Compiled(history'[v])
    BY DEF Compiled
  <2>1. PICK v \in begun[r] .. version : answer[r] = Compiled(history[v])
    BY <1>1 DEF readerVars
  <2>2. v \in 1 .. version /\ v \in begun[r] .. version'
    BY <2>1
  <2>3. history'[v] = history[v]
    BY <2>2
  <2>. QED
    BY <1>1, <2>1, <2>2, <2>3 DEF readerVars
<1>2. ASSUME NEW r \in Readers, NEW f \in Callers, Call(r, f)
      PROVE  AnswerCurrent'
  BY <1>2 DEF Call, stateVars
<1>3. ASSUME NEW r \in Readers, ReadVersion(r) PROVE AnswerCurrent'
  BY <1>3 DEF ReadVersion, stateVars
<1>4. ASSUME NEW r \in Readers, CheckCache(r) PROVE AnswerCurrent'
  <2>1. CASE CacheHit(r)
    <3>1. /\ seen[r] \in begun[r] .. version
          /\ compiledLib = Compiled(history[seen[r]])
      BY <1>4, <2>1 DEF CheckCache, CacheHit, SeenInRange, CacheExact
    <3>. QED
      BY <1>4, <2>1, <3>1 DEF CheckCache, AfterLibrary, stateVars
  <2>2. CASE ~ CacheHit(r)
    BY <1>4, <2>2 DEF CheckCache, stateVars
  <2>. QED
    BY <2>1, <2>2
<1>5. ASSUME NEW r \in Readers, TakeSnapshot(r) PROVE AnswerCurrent'
  BY <1>5 DEF TakeSnapshot, stateVars
<1>6. ASSUME NEW r \in Readers, NEW e \in Entries, CompileEntry(r, e)
      PROVE  AnswerCurrent'
  BY <1>6 DEF CompileEntry, stateVars
<1>7. ASSUME NEW r \in Readers, RecheckVersion(r) PROVE AnswerCurrent'
  BY <1>7 DEF RecheckVersion, stateVars
<1>8. ASSUME NEW r \in Readers, Publish(r) PROVE AnswerCurrent'
  <2>1. compiledLib' # Nil /\ compiledVersion' = seen[r] /\ UNCHANGED stateVars
    BY <1>8, NilAssumption DEF Publish, cacheVars
  <2>2. /\ seen[r] \in begun[r] .. version
        /\ compiledLib' = Compiled(history[seen[r]])
    BY <2>1, <1>8 DEF Publish, SeenInRange, CacheExact, stateVars, Compiled
  <2>. QED
    BY <1>8, <2>1, <2>2 DEF Publish, AfterLibrary, stateVars
<1>9. ASSUME NEW r \in Readers, ReadDiagnostics(r) PROVE AnswerCurrent'
  BY <1>9 DEF ReadDiagnostics, stateVars
<1>. QED
  BY StepCases, <1>1, <1>2, <1>3, <1>4, <1>5, <1>6, <1>7, <1>8, <1>9
     DEF ReaderStep

-----------------------------------------------------------------------------
\* Every variable keeps its type, and the marks of an empty cache agree
\* (score.go 18-34).
THEOREM TypeCorrect == Spec => []TypeOK
<1>1. Init => TypeOK
  BY TypeInit
<1>2. TypeOK /\ [Next]_vars => TypeOK'
  BY TypeStep
<1>. QED
  BY <1>1, <1>2, PTL DEF Spec

\* The inductive invariant holds of every reachable state.
LEMMA Inductive == Spec => []IInv
<1>1. Init => IInv
  <2>. SUFFICES ASSUME Init PROVE IInv
    OBVIOUS
  <2>1. TypeOK
    BY TypeInit
  <2>2. SeenInRange /\ BuilderExact /\ AnswerCurrent
    BY DEF Init, StateInit, SeenInRange, BuilderExact, AnswerCurrent
  <2>3. CacheExact
    BY DEF Init, CacheExact
  <2>. QED
    BY <2>1, <2>2, <2>3 DEF IInv
<1>2. IInv /\ [Next]_vars => IInv'
  BY TypeStep, SeenInRangeStep, BuilderExactStep, CacheExactStep,
     AnswerCurrentStep DEF IInv
<1>. QED
  BY <1>1, <1>2, PTL DEF Spec

\* A published library is exactly what its version's sources compile to,
\* although entries are compiled one by one against a table that commits may
\* replace in between (score.go 38-82).
THEOREM PublishedLibraryExact == Spec => []CacheExact
<1>1. IInv => CacheExact
  BY DEF IInv
<1>. QED
  BY <1>1, Inductive, PTL

\* compiledKnownPatterns returns the compiled form of one version that was
\* current during the call (score.go 38-82).
THEOREM CallReturnsCurrentLibrary == Spec => []AnswerCurrent
<1>1. IInv => AnswerCurrent
  BY DEF IInv
<1>. QED
  BY <1>1, Inductive, PTL

-----------------------------------------------------------------------------
\* The refinement.  Steps inside a call stutter; the step that ends it returns
\* what AnswerCurrent says it may.
LEMMA ImplementsInit == Init => Service!Init
<1>. SUFFICES ASSUME Init PROVE Service!Init
  OBVIOUS
<1>1. [primitives |-> primitives, library |-> library] \in Source
  BY DEF Init, StateInit, Source
<1>2. \E src \in Source : history = <<src>>
  BY <1>1 DEF Init, StateInit
<1>3. OpenCall = [r \in Readers |-> 0] /\ answer = [r \in Readers |-> {}]
  BY DEF Init, OpenCall
<1>. QED
  BY <1>2, <1>3 DEF Service!Init

LEMMA ImplementsCommit ==
  ASSUME IInv, NEW c \in Committers, Commit(c)
  PROVE  Service!Commit
<1>1. \E t \in Tables, l \in Libraries : CommitSources(t, l)
  BY DEF Commit, CommitState, ReplaceKnownPatternsLibrary, ReplaceGrokPrimitives,
         CommitPatternState, RefreshLibrary, StateTypeOK, IInv, TypeOK
<1>2. PICK t \in Tables, l \in Libraries : CommitSources(t, l)
  BY <1>1
<1>3. [primitives |-> t, library |-> l] \in Source
  BY DEF Source
<1>4. \E src \in Source : history' = Append(history, src)
  BY <1>2, <1>3 DEF CommitSources
<1>5. UNCHANGED <<OpenCall, answer>>
  BY DEF Commit, OpenCall, readerVars
<1>. QED
  BY <1>4, <1>5 DEF Service!Commit

LEMMA ImplementsCall ==
  ASSUME IInv, NEW r \in Readers, NEW f \in Callers, Call(r, f)
  PROVE  Service!Begin(r)
<1>. USE DEF IInv, TypeOK, StateTypeOK, Call
<1>1. OpenCall[r] = 0 /\ OpenCall' = [OpenCall EXCEPT ![r] = Len(history)]
  BY DEF OpenCall
<1>2. UNCHANGED history
  BY DEF stateVars
<1>. QED
  BY <1>1, <1>2 DEF Service!Begin

\* A step into "diagnostics" or "returned" from inside compiledKnownPatterns.
LEMMA ImplementsReturn ==
  ASSUME IInv, AnswerCurrent', UNCHANGED <<stateVars, begun>>,
         NEW r \in Readers, pc[r] \in {"cache", "publish"},
         NEW where \in {"diagnostics", "returned"},
         pc' = [pc EXCEPT ![r] = where],
         NEW value, answer' = [answer EXCEPT ![r] = value]
  PROVE  Service!Return(r)
<1>. USE DEF IInv, TypeOK, StateTypeOK, stateVars
<1>1. OpenCall[r] = begun[r] /\ begun[r] # 0
  BY DEF OpenCall
<1>2. OpenCall' = [OpenCall EXCEPT ![r] = 0]
  BY DEF OpenCall
<1>3. \E v \in begun[r] .. Len(history) : value = Compiled(history[v])
  <2>1. pc'[r] \in {"diagnostics", "returned"} /\ answer'[r] = value
    OBVIOUS
  <2>2. PICK v \in begun'[r] .. version' : answer'[r] = Compiled(history'[v])
    BY <2>1 DEF AnswerCurrent, Compiled
  <2>. QED
    BY <2>1, <2>2
<1>4. \E v \in OpenCall[r] .. Len(history) :
        answer' = [answer EXCEPT ![r] = Compiled(history[v])]
  BY <1>1, <1>3
<1>. QED
  BY <1>1, <1>2, <1>4 DEF Service!Return

\* A step of a call that neither begins nor ends it, or one of LibraryDiagnostics
\* after the library was returned.
LEMMA ImplementsStutter ==
  ASSUME IInv, UNCHANGED <<history, begun, answer>>, NEW r \in Readers,
         NEW where, pc' = [pc EXCEPT ![r] = where],
         pc[r] \in {"idle", "diagnostics", "returned"} <=>
           where \in {"idle", "diagnostics", "returned"}
  PROVE  UNCHANGED Service!vars
BY DEF IInv, TypeOK, OpenCall, Service!vars

LEMMA ImplementsStep ==
  ASSUME IInv, AnswerCurrent', [Next]_vars
  PROVE  [Service!Next]_(Service!vars)
<1>. USE DEF Service!Next
<1>1. ASSUME NEW c \in Committers, Commit(c) PROVE Service!Next
  BY <1>1, ImplementsCommit
<1>2. ASSUME NEW c \in Committers, ResetCompiledLibrary(c)
      PROVE  UNCHANGED Service!vars
  BY <1>2 DEF ResetCompiledLibrary, readerVars, stateVars, OpenCall, Service!vars
<1>3. ASSUME NEW r \in Readers, NEW f \in Callers, Call(r, f) PROVE Service!Next
  BY <1>3, ImplementsCall
<1>4. ASSUME NEW r \in Readers, ReadVersion(r) PROVE UNCHANGED Service!vars
  BY <1>4, ImplementsStutter DEF ReadVersion, stateVars
<1>5. ASSUME NEW r \in Readers, CheckCache(r)
      PROVE  Service!Next \/ UNCHANGED Service!vars
  <2>1. CASE CacheHit(r)
    BY <1>5, <2>1, ImplementsReturn DEF CheckCache, AfterLibrary
  <2>2. CASE ~ CacheHit(r)
    BY <1>5, <2>2, ImplementsStutter DEF CheckCache, stateVars
  <2>. QED
    BY <2>1, <2>2
<1>6. ASSUME NEW r \in Readers, TakeSnapshot(r) PROVE UNCHANGED Service!vars
  BY <1>6, ImplementsStutter DEF TakeSnapshot, stateVars
<1>7. ASSUME NEW r \in Readers, NEW e \in Entries, CompileEntry(r, e)
      PROVE  UNCHANGED Service!vars
  BY <1>7 DEF CompileEntry, stateVars, OpenCall, Service!vars
<1>8. ASSUME NEW r \in Readers, RecheckVersion(r) PROVE UNCHANGED Service!vars
  BY <1>8, ImplementsStutter DEF RecheckVersion, stateVars
<1>9. ASSUME NEW r \in Readers, Publish(r) PROVE Service!Next
  BY <1>9, ImplementsReturn DEF Publish, AfterLibrary
<1>10. ASSUME NEW r \in Readers, ReadDiagnostics(r) PROVE UNCHANGED Service!vars
  BY <1>10, ImplementsStutter DEF ReadDiagnostics, stateVars
<1>11. CASE UNCHANGED vars
  BY <1>11 DEF vars, stateVars, readerVars, OpenCall, Service!vars
<1>. QED
  BY <1>1, <1>2, <1>3, <1>4, <1>5, <1>6, <1>7, <1>8, <1>9, <1>10, <1>11
     DEF Next, ReaderStep

\* The cache with its versions, resets and retries implements a library service
\* that has no cache: every call returns the compiled form of a source current
\* during the call (score.go 28-82, state.go 65-105).
THEOREM CacheImplementsService == Spec => ImplementsService
<1>1. Init => Service!Init
  BY ImplementsInit
<1>2. IInv /\ AnswerCurrent' /\ [Next]_vars => [Service!Next]_(Service!vars)
  BY ImplementsStep
<1>3. IInv => AnswerCurrent
  BY DEF IInv
<1>. QED
  BY <1>1, <1>2, <1>3, Inductive, PTL DEF Spec, ImplementsService, Service!Spec

=============================================================================
