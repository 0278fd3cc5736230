--------------------------- MODULE CompiledLibrary ---------------------------
(***************************************************************************)
(* The compiled-library cache (internal/pattern/score.go) on top of the    *)
(* versioned sources of PatternState.                                      *)
(*                                                                         *)
(* Readers run compiledKnownPatterns, or LibraryDiagnostics which calls it.*)
(* Every step of a reader is one critical section of the code: a version   *)
(* read, the cache check, the library snapshot, the compilation of ONE     *)
(* entry (CompileGrok takes patternStateMu for that entry only, so a       *)
(* commit can fall between two entries), the version re-check, the         *)
(* publication, the read of the recorded errors.  Committers commit and    *)
(* then reset the cache in a second critical section.                      *)
(***************************************************************************)
EXTENDS PatternState

CONSTANTS
  Readers,     \* goroutines that call compiledKnownPatterns
  Committers,  \* goroutines that commit new sources
  Nil          \* compiledLib before it is built, and after a reset

ASSUME NilAssumption == \A lib \in SUBSET Regexps : Nil # lib

VARIABLES
  compiledVersion,  \* the version compiledLib was built from, 0 when none
  compiledLib,      \* set of regexps, or Nil
  libraryDiagErrs,  \* set of compile errors recorded with compiledLib
  committer,        \* where each committer is
  pc,               \* where each reader is
  caller,           \* the function each reader runs
  begun,            \* history variable: the version when the call began
  seen,             \* local variable version
  todo,             \* the entries of the snapshot not compiled yet
  tried,            \* the pairs compiled so far: compiled and errs together
  answer,           \* what compiledKnownPatterns returned last
  reported          \* what LibraryDiagnostics returned last

readerVars == <<pc, caller, begun, seen, todo, tried, answer, reported>>
cacheVars == <<compiledVersion, compiledLib, libraryDiagErrs>>
vars == <<stateVars, cacheVars, committer, readerVars>>

Callers == {"compiledKnownPatterns", "LibraryDiagnostics"}

ReaderSteps == {"idle", "version", "cache", "snapshot", "compile",
                "publish", "diagnostics", "returned"}

(***************************************************************************)
(* Commit: the locked section of state.go, then resetCompiledLibrary.      *)
(***************************************************************************)
Commit(c) ==
  /\ committer[c] = "idle"
  /\ CommitState
  /\ committer' = [committer EXCEPT ![c] = "reset"]
  /\ UNCHANGED <<cacheVars, readerVars>>

\* Mutant: a reset that forgets the library itself.
ResetKeepsLibrary(c) ==
  /\ committer[c] = "reset"
  /\ committer' = [committer EXCEPT ![c] = "idle"]
  /\ compiledVersion' = 0
  /\ libraryDiagErrs' = {}
  /\ UNCHANGED <<stateVars, compiledLib, readerVars>>

ResetCompiledLibrary(c) ==
  /\ committer[c] = "reset"
  /\ committer' = [committer EXCEPT ![c] = "idle"]
  /\ compiledVersion' = 0
  /\ compiledLib' = Nil
  /\ libraryDiagErrs' = {}
  /\ UNCHANGED <<stateVars, readerVars>>

(***************************************************************************)
(* compiledKnownPatterns                                                   *)
(***************************************************************************)
Call(r, f) ==
  /\ pc[r] \in {"idle", "returned"}
  /\ pc' = [pc EXCEPT ![r] = "version"]
  /\ caller' = [caller EXCEPT ![r] = f]
  /\ begun' = [begun EXCEPT ![r] = version]
  /\ answer' = [answer EXCEPT ![r] = {}]
  /\ reported' = [reported EXCEPT ![r] = {}]
  /\ UNCHANGED <<stateVars, cacheVars, committer, seen, todo, tried>>

ReadVersion(r) ==
  /\ pc[r] = "version"
  /\ pc' = [pc EXCEPT ![r] = "cache"]
  /\ seen' = [seen EXCEPT ![r] = version]
  /\ UNCHANGED <<stateVars, cacheVars, committer, caller, begun, todo, tried, answer, reported>>

\* Where a reader goes once compiledKnownPatterns has its result.
AfterLibrary(r) ==
  IF caller[r] = "LibraryDiagnostics" THEN "diagnostics" ELSE "returned"

CacheHit(r) == compiledLib # Nil /\ compiledVersion = seen[r]

\* Mutant: any library that was ever built counts as a hit.
CheckCacheAnyVersion(r) ==
  /\ pc[r] = "cache"
  /\ \/ /\ compiledLib # Nil
        /\ answer' = [answer EXCEPT ![r] = compiledLib]
        /\ pc' = [pc EXCEPT ![r] = AfterLibrary(r)]
     \/ /\ compiledLib = Nil
        /\ pc' = [pc EXCEPT ![r] = "snapshot"]
        /\ UNCHANGED answer
  /\ UNCHANGED <<stateVars, cacheVars, committer, caller, begun, seen, todo, tried, reported>>

CheckCache(r) ==
  /\ pc[r] = "cache"
  /\ \/ /\ CacheHit(r)
        /\ answer' = [answer EXCEPT ![r] = compiledLib]
        /\ pc' = [pc EXCEPT ![r] = AfterLibrary(r)]
     \/ /\ ~ CacheHit(r)
        /\ pc' = [pc EXCEPT ![r] = "snapshot"]
        /\ UNCHANGED answer
  /\ UNCHANGED <<stateVars, cacheVars, committer, caller, begun, seen, todo, tried, reported>>

TakeSnapshot(r) ==
  /\ pc[r] = "snapshot"
  /\ pc' = [pc EXCEPT ![r] = "compile"]
  /\ todo' = [todo EXCEPT ![r] = library]
  /\ tried' = [tried EXCEPT ![r] = {}]
  /\ UNCHANGED <<stateVars, cacheVars, committer, caller, begun, seen, answer, reported>>

\* CompileGrok of one entry of the snapshot against the primitives of now.
CompileEntry(r, e) ==
  /\ pc[r] = "compile"
  /\ e \in todo[r]
  /\ todo' = [todo EXCEPT ![r] = @ \ {e}]
  /\ tried' = [tried EXCEPT ![r] = @ \cup {<<e, primitives>>}]
  /\ UNCHANGED <<stateVars, cacheVars, committer, pc, caller, begun, seen, answer, reported>>

\* Mutant: the snapshot is published without asking whether it is still current.
NoRecheck(r) ==
  /\ pc[r] = "compile"
  /\ todo[r] = {}
  /\ pc' = [pc EXCEPT ![r] = "publish"]
  /\ UNCHANGED <<stateVars, cacheVars, committer, caller, begun, seen, todo, tried, answer, reported>>

\* Mutant: the version is read once, before the loop.
RecheckKeepsVersion(r) ==
  /\ pc[r] = "compile"
  /\ todo[r] = {}
  /\ IF version # seen[r]
     THEN /\ pc' = [pc EXCEPT ![r] = "cache"]
          /\ tried' = [tried EXCEPT ![r] = {}]
     ELSE /\ pc' = [pc EXCEPT ![r] = "publish"]
          /\ UNCHANGED tried
  /\ UNCHANGED <<stateVars, cacheVars, committer, caller, begun, seen, todo, answer, reported>>

RecheckVersion(r) ==
  /\ pc[r] = "compile"
  /\ todo[r] = {}
  /\ IF version # seen[r]
     THEN /\ pc' = [pc EXCEPT ![r] = "version"]
          /\ tried' = [tried EXCEPT ![r] = {}]
     ELSE /\ pc' = [pc EXCEPT ![r] = "publish"]
          /\ UNCHANGED tried
  /\ UNCHANGED <<stateVars, cacheVars, committer, caller, begun, seen, todo, answer, reported>>

\* Mutant: a publication that leaves the version of the library it replaces.
PublishWithoutVersion(r) ==
  /\ pc[r] = "publish"
  /\ IF compiledLib = Nil \/ compiledVersion # seen[r]
     THEN /\ compiledLib' = tried[r] \ Broken
          /\ libraryDiagErrs' = tried[r] \cap Broken
          /\ UNCHANGED compiledVersion
     ELSE UNCHANGED cacheVars
  /\ answer' = [answer EXCEPT ![r] = compiledLib']
  /\ pc' = [pc EXCEPT ![r] = AfterLibrary(r)]
  /\ tried' = [tried EXCEPT ![r] = {}]
  /\ UNCHANGED <<stateVars, committer, caller, begun, seen, todo, reported>>

\* Publish what was built unless the same version is already there, and
\* return what the cache now holds.
Publish(r) ==
  /\ pc[r] = "publish"
  /\ IF compiledLib = Nil \/ compiledVersion # seen[r]
     THEN /\ compiledVersion' = seen[r]
          /\ compiledLib' = tried[r] \ Broken
          /\ libraryDiagErrs' = tried[r] \cap Broken
     ELSE UNCHANGED cacheVars
  /\ answer' = [answer EXCEPT ![r] = compiledLib']
  /\ pc' = [pc EXCEPT ![r] = AfterLibrary(r)]
  /\ tried' = [tried EXCEPT ![r] = {}]
  /\ UNCHANGED <<stateVars, committer, caller, begun, seen, todo, reported>>

\* LibraryDiagnostics reads the recorded errors in a lock section of its own.
ReadDiagnostics(r) ==
  /\ pc[r] = "diagnostics"
  /\ pc' = [pc EXCEPT ![r] = "returned"]
  /\ reported' = [reported EXCEPT ![r] = libraryDiagErrs]
  /\ UNCHANGED <<stateVars, cacheVars, committer, caller, begun, seen, todo, tried, answer>>

-----------------------------------------------------------------------------
Init ==
  /\ StateInit
  /\ compiledVersion = 0
  /\ compiledLib = Nil
  /\ libraryDiagErrs = {}
  /\ committer = [c \in Committers |-> "idle"]
  /\ pc = [r \in Readers |-> "idle"]
  /\ caller = [r \in Readers |-> "compiledKnownPatterns"]
  /\ begun = [r \in Readers |-> 1]
  /\ seen = [r \in Readers |-> 1]
  /\ todo = [r \in Readers |-> {}]
  /\ tried = [r \in Readers |-> {}]
  /\ answer = [r \in Readers |-> {}]
  /\ reported = [r \in Readers |-> {}]

\* The steps a call makes on its own once it has begun.
ReaderStep(r) ==
  \/ ReadVersion(r)
  \/ CheckCache(r)
  \/ TakeSnapshot(r)
  \/ \E e \in Entries : CompileEntry(r, e)
  \/ RecheckVersion(r)
  \/ Publish(r)
  \/ ReadDiagnostics(r)

Next ==
  \/ \E c \in Committers : Commit(c) \/ ResetCompiledLibrary(c)
  \/ \E r \in Readers : ReaderStep(r) \/ \E f \in Callers : Call(r, f)

\* Goroutines that are runnable run, and sync.Mutex is starvation-free, so a
\* call that has begun keeps taking steps.  Nothing obliges anyone to commit
\* or to call.
Fairness == \A r \in Readers : WF_vars(ReaderStep(r))

Spec == Init /\ [][Next]_vars /\ Fairness

-----------------------------------------------------------------------------
(***************************************************************************)
(* Properties                                                              *)
(***************************************************************************)

\* Types, and the two marks of an empty cache agree: version 0 exactly when
\* compiledLib is nil, and then no errors are recorded.
TypeOK ==
  /\ StateTypeOK
  /\ compiledVersion \in 0 .. MaxVersion
  /\ compiledLib = Nil \/ compiledLib \in SUBSET Regexps
  /\ libraryDiagErrs \in SUBSET Regexps
  /\ compiledLib = Nil <=> compiledVersion = 0
  /\ compiledLib = Nil => libraryDiagErrs = {}
  /\ committer \in [Committers -> {"idle", "reset"}]
  /\ pc \in [Readers -> ReaderSteps]
  /\ caller \in [Readers -> Callers]
  /\ begun \in [Readers -> 1 .. MaxVersion]
  /\ seen \in [Readers -> 1 .. MaxVersion]
  /\ todo \in [Readers -> SUBSET Entries]
  /\ tried \in [Readers -> SUBSET Regexps]
  /\ answer \in [Readers -> SUBSET Regexps]
  /\ reported \in [Readers -> SUBSET Regexps]

\* The cache is never a mixture: whatever the interleaving of commits, resets
\* and slow builders, a published library and its errors are exactly what the
\* sources of the version it is tagged with compile to, although the builder
\* read the library once and the primitives entry by entry (score.go 55-77).
CacheExact ==
  compiledLib # Nil =>
    /\ compiledVersion \in 1 .. version
    /\ compiledLib = Compiled(history[compiledVersion])
    /\ libraryDiagErrs = CompileErrors(history[compiledVersion])

\* A call of compiledKnownPatterns returns the compiled form of ONE version
\* that was current at some moment of that call: never one replaced before the
\* call began, never a half-old half-new library (score.go 38-82).
AnswerCurrent ==
  \A r \in Readers :
    pc[r] \in {"diagnostics", "returned"} =>
      \E v \in begun[r] .. version : answer[r] = Compiled(history[v])

\* Every call returns: the retry of score.go 68-70 runs again only after a
\* commit, so once commits stop no reader loops for ever.
CallsReturn ==
  \A r \in Readers : pc[r] = "version" ~> pc[r] = "returned"

\* The call of compiledKnownPatterns a reader has open, as the version that
\* was current when it began; 0 when it has none.
OpenCall ==
  [r \in Readers |->
     IF pc[r] \in {"idle", "diagnostics", "returned"} THEN 0 ELSE begun[r]]

Service ==
  INSTANCE LibraryService WITH
    Sources <- Source, Compile <- Compiled,
    log <- history, open <- OpenCall, result <- answer

\* The cache with its versions, resets and retries implements the service
\* without a cache.
ImplementsService == Service!Spec

=============================================================================
