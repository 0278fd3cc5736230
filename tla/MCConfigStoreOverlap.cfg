SPECIFICATION Spec
CONSTANTS
  t1 = t1
  t2 = t2
  d1 = d1
  e1 = e1
  e2 = e2
  p1 = p1
  Missing = Missing
  Garbled = Garbled
  Truncated = Truncated
  NoDir = NoDir
  NoItem = NoItem
  Threads <- MCThreads
  Dirs <- MCDirs
  Entries <- MCEntries
  Primitives <- OnePrimitive
  Name <- MCName
  Needs <- MCNeeds
  Embedded <- MCEmbedded
  UserContents <- CleanContents
  MaxDepth = 3
  Overlapping = {"load"}
  MaxCrashes = 1
INVARIANTS EditsInMemory
