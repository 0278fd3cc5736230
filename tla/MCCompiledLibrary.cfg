\* Two readers, one committer, two versions, two libraries and two tables.
SPECIFICATION Spec
CONSTANTS
  e1 = e1
  e2 = e2
  t1 = t1
  t2 = t2
  Entries <- MCEntries
  Tables <- MCTables
  Libraries <- MCLibraries
  Broken <- MCBroken
  MaxVersion = 2
  Readers = {r1, r2}
  Committers = {c1}
  Nil = Nil
INVARIANTS
  TypeOK
  CacheExact
  AnswerCurrent
PROPERTIES
  ImplementsService
  CallsReturn
