---------------------------- MODULE PatternState ----------------------------
(***************************************************************************)
(* The versioned source state every matcher is derived from                *)
(* (internal/pattern/state.go): the primitive table, the source library    *)
(* and the version number that each commit raises under patternStateMu.    *)
(*                                                                         *)
(* A library is a set of entries (composeKnownPatterns fixes their order,  *)
(* which no property here depends on); a primitive table is an opaque      *)
(* value.  Compiling entry e against table t yields <<e, t>>, which is an  *)
(* error when the pair is in Broken and a regexp otherwise.                *)
(*                                                                         *)
(* Every operator below is one critical section of patternStateMu.  The    *)
(* cache resets that follow a commit run after the lock is released and    *)
(* belong to the modules of the caches.                                    *)
(***************************************************************************)
EXTENDS Naturals, Sequences

CONSTANTS
  Entries,     \* what CompileGrok is asked for: library entries, expressions
  Libraries,   \* the libraries that may be committed: sets of entries
  Tables,      \* primitive tables (values of GrokPrimitives)
  Broken,      \* the <<entry, table>> pairs CompileGrok rejects
  MaxVersion   \* bound: commits stop when the version reaches it

ASSUME LibrariesAssumption == Libraries \subseteq SUBSET Entries
ASSUME BrokenAssumption == Broken \subseteq Entries \X Tables
ASSUME MaxVersionAssumption == MaxVersion \in Nat \ {0}

VARIABLES
  version,     \* patternStateVersion
  primitives,  \* GrokPrimitives
  library,     \* KnownPatternsLibrary, and KnownPatterns derived from it
  history      \* history variable: the sources committed as each version

stateVars == <<version, primitives, library, history>>

Source == [primitives : Tables, library : Libraries]

Regexps == Entries \X Tables

\* What compiling a whole library against one table gives: the entries that
\* compile, and the errors of those that do not.
Compiled(src) == (src.library \X {src.primitives}) \ Broken

CompileErrors(src) == (src.library \X {src.primitives}) \cap Broken

StateTypeOK ==
  /\ version \in 1 .. MaxVersion
  /\ primitives \in Tables
  /\ library \in Libraries
  /\ history \in Seq(Source)
  /\ Len(history) = version
  /\ history[version] = [primitives |-> primitives, library |-> library]

\* Package init commits the embedded defaults before anything else runs, so
\* the version is 1 and never 0, the value the caches use for "empty".
StateInit ==
  /\ version = 1
  /\ primitives \in Tables
  /\ library \in Libraries
  /\ history = << [primitives |-> primitives, library |-> library] >>

\* The body shared by the four commits, between Lock and Unlock.
CommitSources(t, l) ==
  /\ version < MaxVersion
  /\ version' = version + 1
  /\ primitives' = t
  /\ library' = l
  /\ history' = Append(history, [primitives |-> t, library |-> l])

ReplaceKnownPatternsLibrary(l) == CommitSources(primitives, l)

ReplaceGrokPrimitives(t) == CommitSources(t, library)

CommitPatternState(t, l) == CommitSources(t, l)

RefreshLibrary == CommitSources(primitives, library)

\* One commit, by whichever of the four entry points.
CommitState ==
  \/ \E l \in Libraries : ReplaceKnownPatternsLibrary(l)
  \/ \E t \in Tables : ReplaceGrokPrimitives(t)
  \/ \E t \in Tables, l \in Libraries : CommitPatternState(t, l)
  \/ RefreshLibrary

=============================================================================
