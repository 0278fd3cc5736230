----------------------------- MODULE ConfigStore -----------------------------
(***************************************************************************)
(* The externalised configuration: two JSON files in a directory and the   *)
(* primitives and library in memory (internal/pattern/config.go), and the  *)
(* admin operations that edit both (pkg/log2grok/library_admin.go).        *)
(*                                                                         *)
(* Admin operations hold adminMu; LoadConfig and ResetConfig do not, and   *)
(* the validation of UpsertLibraryEntry comes before it.  One action is    *)
(* one file operation, one lock operation, or one critical section of      *)
(* patternStateMu.  The process may crash between any two and start again  *)
(* from the embedded defaults and whatever the files then are.             *)
(*                                                                         *)
(* A file's content is a set of items, or no content that parses.  An item *)
(* is a library entry or a primitive: Name gives its name and Needs the    *)
(* names of the primitives its body refers to.                             *)
(***************************************************************************)
EXTENDS Naturals

CONSTANTS
  Threads,        \* goroutines that call the operations
  Dirs,           \* config directories
  Entries,        \* library entries
  Primitives,     \* primitives
  Name, Needs,    \* functions on items
  Embedded,       \* the embedded defaults: per file, a set of items
  UserContents,   \* per file: what it may hold before the first start
  Missing,        \* the file does not exist
  Garbled,        \* the user's file does not parse
  Truncated,      \* a write of the program did not end
  NoDir,          \* currentConfigDir = ""
  NoItem,
  MaxDepth,       \* how deep expandGrok follows references (32 in the code)
  Overlapping,    \* which of "load" and "reset" may run beside other operations
  MaxCrashes      \* bound on crashes

Files == {"primitives", "patterns"}
Items == [primitives |-> Primitives, patterns |-> Entries]
Loads == {"load", "reset"}

Parses(content) == content \notin {Missing, Garbled, Truncated}

\* A mark is no set of items, and NoDir no directory.
ASSUME ConfigAssumption ==
  /\ Entries \cap Primitives = {}
  /\ Embedded \in [Files -> SUBSET (Entries \cup Primitives)]
  /\ \A f \in Files :
       /\ Embedded[f] \subseteq Items[f]
       /\ \A content \in SUBSET Items[f] : Parses(content)
       /\ \A content \in UserContents[f] : Parses(content) => content \subseteq Items[f]
  /\ NoDir \notin Dirs
  /\ MaxDepth \in Nat
  /\ Overlapping \subseteq Loads
  /\ MaxCrashes \in Nat

VARIABLES
  disk,      \* per directory and file: a set of items, or one of the marks
  mem,       \* GrokPrimitives, KnownPatternsLibrary
  currentConfigDir,
  adminMu,   \* the thread that holds it, or none
  pc,        \* where each thread is
  op,        \* the operation each thread runs
  dir,       \* local variable dir
  file,      \* the file an operation is at
  data,      \* per file: what the operation read or built
  crashes,
  acked,     \* history variable: upserts that returned success and that no
             \* later operation has undertaken to undo
  original,  \* history variable: the files' contents before the first start
  fate       \* history variable: per directory and file, what first became of
             \* the user's original: "kept" in a backup or taken over by an edit,
             \* "overwritten" by a reset that could not look at it, or "none"

stateVars == <<mem, currentConfigDir>>
ghostVars == <<acked, original, fate>>
vars == <<disk, stateVars, adminMu, pc, op, dir, file, data, crashes, ghostVars>>

\* expandGrok: the names that expand within MaxDepth references.  Every other
\* check of CompileGrok depends on the body alone.
Expands(item, table) ==
  LET reach[k \in 0 .. MaxDepth] ==
        IF k = 0 THEN {}
        ELSE {Name[p] : p \in {q \in table : Needs[q] \subseteq reach[k - 1]}}
  IN Needs[item] \subseteq reach[MaxDepth]

Upsert(content, item) == {x \in content : Name[x] # Name[item]} \cup {item}

(***************************************************************************)
(* Starting and ending an operation                                        *)
(***************************************************************************)
Operation == [kind : {"upsert", "remove"}, item : Entries \cup Primitives]
               \cup [kind : Loads, item : {NoItem}]

FileOf(item) == IF item \in Entries THEN "patterns" ELSE "primitives"

\* History: the file is about to lose what it holds, the user's original perhaps.
Loses(d, f, what) ==
  fate' = IF disk[d][f] = original[d][f] /\ fate[d][f] = "none"
          THEN [fate EXCEPT ![d][f] = what] ELSE fate

\* What does not overlap runs alone, as in the programs of cmd/.
MayBegin(o) ==
  \A t \in Threads :
    pc[t] # "idle" => {op[t].kind, o.kind} \cap (Loads \ Overlapping) = {}

Idle(t) ==
  /\ pc' = [pc EXCEPT ![t] = "idle"]
  /\ op' = [op EXCEPT ![t] = [kind |-> "load", item |-> NoItem]]
  /\ dir' = [dir EXCEPT ![t] = NoDir]
  /\ file' = [file EXCEPT ![t] = "primitives"]
  /\ data' = [data EXCEPT ![t] = [f \in Files |-> {}]]

Goto(t, step) ==
  /\ pc' = [pc EXCEPT ![t] = step]
  /\ UNCHANGED <<op, dir, file, data>>

\* Only the upsert of an entry has something to do before the lock.  The
\* checks of empty names and bodies, and regexp.Compile of a primitive's body,
\* depend on nothing else.
BeginAdmin(t, o) ==
  /\ pc[t] = "idle"
  /\ o.kind \notin Loads
  /\ MayBegin(o)
  /\ op' = [op EXCEPT ![t] = o]
  /\ file' = [file EXCEPT ![t] = FileOf(o.item)]
  /\ pc' = [pc EXCEPT ![t] =
              IF o.kind = "upsert" /\ o.item \in Entries THEN "validate" ELSE "lock"]
  /\ UNCHANGED <<disk, stateVars, adminMu, dir, data, crashes, ghostVars>>

Validate(t) ==
  /\ pc[t] = "validate"
  /\ IF Expands(op[t].item, mem.primitives) THEN Goto(t, "lock") ELSE Idle(t)
  /\ UNCHANGED <<disk, stateVars, adminMu, crashes, ghostVars>>

Lock(t) ==
  /\ pc[t] = "lock"
  /\ adminMu = {}
  /\ adminMu' = {t}
  /\ Goto(t, "dir")
  /\ UNCHANGED <<disk, stateVars, crashes, ghostVars>>

\* Mutant: the early return keeps the lock.
ReadDirKeepsLock(t) ==
  /\ pc[t] = "dir"
  /\ IF currentConfigDir = NoDir
     THEN Idle(t) /\ UNCHANGED adminMu
     ELSE /\ pc' = [pc EXCEPT ![t] = "snapshot"]
          /\ dir' = [dir EXCEPT ![t] = currentConfigDir]
          /\ UNCHANGED <<adminMu, op, file, data>>
  /\ UNCHANGED <<disk, stateVars, crashes, ghostVars>>

ReadDir(t) ==
  /\ pc[t] = "dir"
  /\ IF currentConfigDir = NoDir
     THEN Idle(t) /\ adminMu' = {}
     ELSE /\ pc' = [pc EXCEPT ![t] = "snapshot"]
          /\ dir' = [dir EXCEPT ![t] = currentConfigDir]
          /\ UNCHANGED <<adminMu, op, file, data>>
  /\ UNCHANGED <<disk, stateVars, crashes, ghostVars>>

\* What the operation makes of the active content.
Edited(o, content) ==
  IF o.kind = "upsert" THEN Upsert(content, o.item)
  ELSE {x \in content : Name[x] # Name[o.item]}

\* Removing what is not there ends the operation.
Snapshot(t) ==
  LET f == file[t]
      updated == Edited(op[t], mem[f])
  IN
  /\ pc[t] = "snapshot"
  /\ IF op[t].kind = "remove" /\ updated = mem[f]
     THEN Idle(t) /\ adminMu' = {} /\ UNCHANGED acked
     ELSE /\ pc' = [pc EXCEPT ![t] = "writeTmp"]
          /\ data' = [data EXCEPT ![t][f] = updated]
          /\ acked' = {a \in acked : a[1] = dir[t] => Name[a[2]] # Name[op[t].item]
                                                      \/ FileOf(a[2]) # f}
          /\ UNCHANGED <<adminMu, op, dir, file>>
  /\ UNCHANGED <<disk, stateVars, crashes, original, fate>>

\* Mutant: the error of the write is dropped and the edit published.
PersistErrorDropped(t) ==
  /\ pc[t] \in {"writeTmp", "rename"}
  /\ Goto(t, "publish")
  /\ UNCHANGED <<disk, stateVars, adminMu, crashes, ghostVars>>

\* The write or the rename failed: the error is returned, memory is as before.
PersistFails(t) ==
  /\ pc[t] \in {"writeTmp", "rename"}
  /\ Idle(t)
  /\ adminMu' = {}
  /\ UNCHANGED <<disk, stateVars, crashes, ghostVars>>

\* Mutant: the file itself is written, with no .tmp in between.
WriteInPlace(t) ==
  /\ pc[t] = "writeTmp"
  /\ disk' = [disk EXCEPT ![dir[t]][file[t]] = Truncated]
  /\ Goto(t, "rename")
  /\ UNCHANGED <<stateVars, adminMu, crashes, ghostVars>>

\* The .tmp file is never read, and adminMu keeps other writers from it: its
\* content is data until the rename, and of no interest after a failure.
WriteTmp(t) ==
  /\ pc[t] = "writeTmp"
  /\ Goto(t, "rename")
  /\ UNCHANGED <<disk, stateVars, adminMu, crashes, ghostVars>>

\* The file is the old one or the new one, never a part of it.
Rename(t) ==
  LET d == dir[t]  f == file[t] IN
  /\ pc[t] = "rename"
  /\ disk' = [disk EXCEPT ![d][f] = data[t][f]]
  /\ IF Parses(disk[d][f]) THEN Loses(d, f, "kept") ELSE UNCHANGED fate
  /\ Goto(t, "publish")
  /\ UNCHANGED <<stateVars, adminMu, crashes, acked, original>>

\* ReplaceKnownPatternsLibrary, ReplaceGrokPrimitives.
PublishEdit(t) ==
  /\ pc[t] = "publish"
  /\ mem' = [mem EXCEPT ![file[t]] = data[t][file[t]]]
  /\ Goto(t, "unlock")
  /\ UNCHANGED <<disk, currentConfigDir, adminMu, crashes, ghostVars>>

Unlock(t) ==
  /\ pc[t] = "unlock"
  /\ adminMu' = {}
  /\ acked' = IF op[t].kind = "upsert" THEN acked \cup {<<dir[t], op[t].item>>} ELSE acked
  /\ Idle(t)
  /\ UNCHANGED <<disk, stateVars, crashes, original, fate>>

(***************************************************************************)
(* LoadConfig and ResetConfig                                              *)
(***************************************************************************)
BeginLoad(t, kind, d) ==
  /\ pc[t] = "idle"
  /\ kind \in Loads
  /\ MayBegin([kind |-> kind, item |-> NoItem])
  /\ op' = [op EXCEPT ![t] = [kind |-> kind, item |-> NoItem]]
  /\ dir' = [dir EXCEPT ![t] = d]
  /\ pc' = [pc EXCEPT ![t] = "read"]
  /\ acked' = IF kind = "reset" THEN {a \in acked : a[1] # d} ELSE acked
  /\ UNCHANGED <<disk, stateVars, adminMu, file, data, crashes>>
  /\ UNCHANGED <<original, fate>>

\* The next file, or the commit.
AfterFile(t) ==
  IF file[t] = "primitives"
  THEN /\ file' = [file EXCEPT ![t] = "patterns"]
       /\ pc' = [pc EXCEPT ![t] = "read"]
  ELSE /\ pc' = [pc EXCEPT ![t] = "commit"]
       /\ UNCHANGED file

\* loadOrSeedBytes and the decoding, or the os.Stat of ResetConfig.
ReadFile(t) ==
  LET content == disk[dir[t]][file[t]] IN
  /\ pc[t] = "read"
  /\ IF op[t].kind = "load" /\ Parses(content)
     THEN /\ data' = [data EXCEPT ![t][file[t]] = content]
          /\ AfterFile(t)
     ELSE /\ data' = [data EXCEPT ![t][file[t]] = Embedded[file[t]]]
          /\ pc' = [pc EXCEPT ![t] = IF content = Missing THEN "seed" ELSE "backup"]
          /\ UNCHANGED file
  /\ UNCHANGED <<disk, stateVars, adminMu, op, dir, crashes, ghostVars>>

\* os.ReadFile of LoadConfig fails: the file is treated as one that does not
\* parse, the edits in it included.
ReadError(t) ==
  LET d == dir[t]  f == file[t] IN
  /\ pc[t] = "read"
  /\ op[t].kind = "load"
  /\ disk[d][f] # Missing
  /\ data' = [data EXCEPT ![t][f] = Embedded[f]]
  /\ pc' = [pc EXCEPT ![t] = "backup"]
  /\ acked' = {a \in acked : a[1] # d \/ FileOf(a[2]) # f}
  /\ UNCHANGED <<disk, stateVars, adminMu, op, dir, file, crashes>>
  /\ UNCHANGED <<original, fate>>

\* os.Stat of ResetConfig fails on a file that is there: any error skips the
\* backup, and the file is overwritten where it is.
StatError(t) ==
  LET d == dir[t]  f == file[t] IN
  /\ pc[t] = "read"
  /\ op[t].kind = "reset"
  /\ disk[d][f] # Missing
  /\ data' = [data EXCEPT ![t][f] = Embedded[f]]
  /\ pc' = [pc EXCEPT ![t] = "overwrite"]
  /\ UNCHANGED <<disk, stateVars, adminMu, op, dir, file, crashes, ghostVars>>

\* Mutant: the file that does not parse is not moved aside.
NoBackup(t) ==
  /\ pc[t] = "backup"
  /\ Goto(t, "seed")
  /\ UNCHANGED <<disk, stateVars, adminMu, crashes, ghostVars>>

\* backupFile; with the file gone, LoadConfig goes on and ResetConfig fails.
Backup(t) ==
  LET d == dir[t]  f == file[t] IN
  /\ pc[t] = "backup"
  /\ op[t].kind = "load" \/ disk[d][f] # Missing
  /\ disk' = [disk EXCEPT ![d][f] = Missing]
  /\ Loses(d, f, "kept")
  /\ Goto(t, "seed")
  /\ UNCHANGED <<stateVars, adminMu, crashes, acked, original>>

\* writeEmbeddedTo: os.WriteFile creates or truncates, then writes.
Seed(t) ==
  LET d == dir[t]  f == file[t] IN
  /\ pc[t] \in {"seed", "overwrite"}
  /\ disk' = [disk EXCEPT ![d][f] = Truncated]
  /\ IF pc[t] = "overwrite" THEN Loses(d, f, "overwritten") ELSE UNCHANGED fate
  /\ Goto(t, "seeded")
  /\ UNCHANGED <<stateVars, adminMu, crashes, acked, original>>

Seeded(t) ==
  /\ pc[t] = "seeded"
  /\ disk' = [disk EXCEPT ![dir[t]][file[t]] = Embedded[file[t]]]
  /\ AfterFile(t)
  /\ UNCHANGED <<stateVars, adminMu, op, dir, data, crashes, ghostVars>>

\* A file operation fails: the error is returned, memory is as before.
LoadFails(t) ==
  /\ pc[t] \in {"backup", "seed", "overwrite", "seeded"}
  /\ Idle(t)
  /\ UNCHANGED <<disk, stateVars, adminMu, crashes, ghostVars>>

\* Mutant: each file is committed on its own, the primitives alone here.
CommitPrimitivesOnly(t) ==
  /\ pc[t] = "commit"
  /\ mem' = [mem EXCEPT !.primitives = data[t].primitives]
  /\ currentConfigDir' = dir[t]
  /\ Idle(t)
  /\ UNCHANGED <<disk, adminMu, crashes, ghostVars>>

CommitLoad(t) ==
  /\ pc[t] = "commit"
  /\ mem' = data[t]
  /\ currentConfigDir' = dir[t]
  /\ Idle(t)
  /\ UNCHANGED <<disk, adminMu, crashes, ghostVars>>

(***************************************************************************)
(* A crash, and the start of the next process.                             *)
(***************************************************************************)
Start ==
  /\ mem' = Embedded
  /\ currentConfigDir' = NoDir
  /\ adminMu' = {}
  /\ pc' = [t \in Threads |-> "idle"]
  /\ op' = [t \in Threads |-> [kind |-> "load", item |-> NoItem]]
  /\ dir' = [t \in Threads |-> NoDir]
  /\ file' = [t \in Threads |-> "primitives"]
  /\ data' = [t \in Threads |-> [f \in Files |-> {}]]

CrashAndRestart ==
  /\ crashes < MaxCrashes
  /\ crashes' = crashes + 1
  /\ Start
  /\ UNCHANGED <<disk, ghostVars>>

-----------------------------------------------------------------------------
Init ==
  /\ disk \in [Dirs -> {c \in [Files -> UNION {UserContents[f] : f \in Files}] :
                          \A f \in Files : c[f] \in UserContents[f]}]
  /\ mem = Embedded
  /\ currentConfigDir = NoDir
  /\ adminMu = {}
  /\ pc = [t \in Threads |-> "idle"]
  /\ op = [t \in Threads |-> [kind |-> "load", item |-> NoItem]]
  /\ dir = [t \in Threads |-> NoDir]
  /\ file = [t \in Threads |-> "primitives"]
  /\ data = [t \in Threads |-> [f \in Files |-> {}]]
  /\ crashes = 0
  /\ acked = {}
  /\ original = disk
  /\ fate = [d \in Dirs |-> [f \in Files |-> "none"]]

AdminStep(t) ==
  \/ Validate(t) \/ Lock(t) \/ ReadDir(t) \/ Snapshot(t)
  \/ PersistFails(t) \/ WriteTmp(t) \/ Rename(t)
  \/ PublishEdit(t) \/ Unlock(t)

LoadStep(t) ==
  \/ ReadFile(t) \/ ReadError(t) \/ StatError(t) \/ Backup(t) \/ Seed(t) \/ Seeded(t)
  \/ LoadFails(t) \/ CommitLoad(t)

Next ==
  \/ \E t \in Threads :
       \/ \E o \in Operation : BeginAdmin(t, o)
       \/ \E kind \in Loads, d \in Dirs : BeginLoad(t, kind, d)
       \/ AdminStep(t)
       \/ LoadStep(t)
  \/ CrashAndRestart

\* An operation that has begun goes on; sync.Mutex lets every waiter in.
Fairness ==
  \A t \in Threads :
    /\ WF_vars(AdminStep(t) \/ LoadStep(t))
    /\ SF_vars(Lock(t))

Spec == Init /\ [][Next]_vars /\ Fairness

-----------------------------------------------------------------------------
(***************************************************************************)
(* Properties                                                              *)
(***************************************************************************)
Contents(f) == SUBSET Items[f]

\* Types, and adminMu is held exactly by the thread inside an admin operation.
TypeOK ==
  /\ \A d \in Dirs, f \in Files :
       Parses(disk[d][f]) => disk[d][f] \in Contents(f)
  /\ \A f \in Files : mem[f] \in Contents(f)
  /\ currentConfigDir \in Dirs \cup {NoDir}
  /\ \A t \in Threads :
       /\ op[t] \in Operation
       /\ dir[t] \in Dirs \cup {NoDir}
       /\ file[t] \in Files
       /\ \A f \in Files : data[t][f] \in Contents(f)
       /\ (t \in adminMu) <=>
            pc[t] \in {"dir", "snapshot", "writeTmp", "rename", "publish", "unlock"}
  /\ crashes \in 0 .. MaxCrashes

\* "a successful return guarantees on-disk state matches the in-memory state"
\* (library_admin.go 247-251): when an edit is done, the file it wrote is the
\* active directory's and holds what is now in memory.
EditOnDisk ==
  \A t \in Threads :
    pc[t] = "unlock" =>
      /\ dir[t] = currentConfigDir
      /\ disk[dir[t]][file[t]] = mem[file[t]]

OnDisk(a) ==
  LET content == disk[a[1]][FileOf(a[2])] IN Parses(content) /\ a[2] \in content

\* "adminMu serializes all admin write operations so concurrent callers can't race
\* on the on-disk JSON or the in-memory derived state" (library_admin.go 33-34): an
\* upsert that was reported as done and is in the file of the active directory is
\* in memory.
EditsInMemory ==
  \A a \in acked : OnDisk(a) /\ currentConfigDir = a[1] => a[2] \in mem[FileOf(a[2])]

\* An upsert that was reported as done stays in the file, and in memory while
\* its directory is active, until someone removes it, replaces it or resets the
\* directory, or the file cannot be read: not another edit, a failed write, a
\* reload or a crash at any moment takes it away (library_admin.go 33-36,
\* 247-251).
EditsSurvive == (\A a \in acked : OnDisk(a)) /\ EditsInMemory

\* "If the file exists but is corrupt ... it is renamed to a backup"
\* (config.go 37-42) and "Existing files are renamed" by a reset (config.go 101):
\* what the user had in a file before the first start is in the file or in a
\* backup, or it parsed and an edit took it over, wherever a load fails or the
\* process crashes.  The one exception is a reset whose os.Stat failed on this
\* very file (config.go 112).
UserFilesKept ==
  \A d \in Dirs, f \in Files :
    disk[d][f] = original[d][f] \/ original[d][f] = Missing
      \/ fate[d][f] # "none"

\* "After all files have been processed, the full primitives + patterns
\* snapshot is committed at once" (config.go 45-47): when LoadConfig or
\* ResetConfig commits, memory becomes what both files of its directory hold,
\* whatever their state was before and whatever was seeded or recovered on the
\* way.
LoadInstallsFiles ==
  [][\A t \in Threads :
       pc[t] = "commit" /\ pc[t]' = "idle" /\ crashes' = crashes =>
         currentConfigDir' = dir[t] /\ mem' = disk'[dir[t]]]_vars

\* Every operation ends, whichever errors it runs into, unless the process
\* crashes: adminMu is given back on every path.
OperationsReturn == \A t \in Threads : pc[t] # "idle" ~> pc[t] = "idle"

\* No path through the file operations, their errors and crashes leaves the lock
\* with the wrong thread or an edit published that is not on disk
\* (library_admin.go 64-284).
StoreSound == TypeOK /\ EditOnDisk

=============================================================================
