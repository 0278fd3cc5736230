\* Two readers, one committer, two versions.
SPECIFICATION Spec
CONSTANTS
  x1 = x1
  s1 = s1
  t1 = t1
  t2 = t2
  Data = Data
  Hostname = Hostname
  Fallback = Fallback
  Nil = Nil
  Composites <- MCComposites
  Singles <- MCSingles
  Entries <- MCEntries
  Libraries <- MCLibraries
  Tables <- MCTables
  Broken <- MCBroken
  MaxVersion = 2
  Functions = {"matchComposite", "classifyToken", "tileDataPrimitive", "tileHostnamePrimitive"}
  Readers = {r1, r2}
  Committers = {c1}
INVARIANTS
  ReadsSound
  TagHonest
PROPERTIES
  EventuallyFresh
