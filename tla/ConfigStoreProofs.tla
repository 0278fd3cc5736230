-------------------------- MODULE ConfigStoreProofs --------------------------
(***************************************************************************)
(* For any number of goroutines, directories, entries and primitives and   *)
(* any number of crashes: a user's file is never lost, whatever runs       *)
(* beside what, but one that a reset could not look at (config.go 112);    *)
(* and where LoadConfig and ResetConfig run alone, as in the programs of   *)
(* cmd/, an edit reported as done is on disk and survives, and a load      *)
(* installs what the files hold.                                           *)
(***************************************************************************)
EXTENDS ConfigStore, TLAPS

-----------------------------------------------------------------------------
(***************************************************************************)
(* Types, and who is where                                                 *)
(***************************************************************************)
Item == Entries \cup Primitives

\* What memory, or an operation, holds for the two files.
Tables == {c \in [Files -> SUBSET Item] : \A f \in Files : c[f] \subseteq Items[f]}

\* What a directory's files may be.
Disks ==
  {c \in [Files -> (SUBSET Item) \cup {Missing, Garbled, Truncated}] :
     \A f \in Files : Parses(c[f]) => c[f] \subseteq Items[f]}

\* What became of the user's files.
Fates == [Dirs -> [Files -> {"none", "kept", "overwritten"}]]

\* The steps of an admin operation with adminMu, all its steps, and a load's.
Critical == {"dir", "snapshot", "writeTmp", "rename", "publish", "unlock"}
AdminSteps == {"validate", "lock"} \cup Critical
LoadSteps == {"read", "backup", "seed", "overwrite", "seeded", "commit"}

Shapes ==
  /\ disk \in [Dirs -> Disks] /\ original \in [Dirs -> Disks]
  /\ mem \in Tables
  /\ currentConfigDir \in Dirs \cup {NoDir}
  /\ adminMu \in SUBSET Threads
  /\ pc \in [Threads -> {"idle"} \cup AdminSteps \cup LoadSteps]
  /\ op \in [Threads -> Operation]
  /\ dir \in [Threads -> Dirs \cup {NoDir}]
  /\ file \in [Threads -> Files]
  /\ data \in [Threads -> Tables]
  /\ crashes \in 0 .. MaxCrashes
  /\ acked \in SUBSET (Dirs \X Item)
  /\ fate \in Fates

\* A thread at a step of an operation runs such an operation.
InOperation(t) ==
  /\ pc[t] \in AdminSteps =>
       /\ op[t].kind \in {"upsert", "remove"} /\ op[t].item \in Item
       /\ file[t] = FileOf(op[t].item)
  /\ pc[t] \in Critical \ {"dir"} => dir[t] \in Dirs
  /\ pc[t] \in LoadSteps => op[t].kind \in Loads /\ dir[t] \in Dirs
  /\ pc[t] = "commit" => file[t] = "patterns"
  /\ pc[t] = "idle" => file[t] = "primitives"

\* adminMu is held by the one thread in a critical section.
LockHeld ==
  /\ \A t \in Threads : t \in adminMu <=> pc[t] \in Critical
  /\ \A s, t \in adminMu : s = t

Typed ==
  /\ Shapes
  /\ \A t \in Threads : InOperation(t)
  /\ LockHeld

-----------------------------------------------------------------------------
(***************************************************************************)
(* The user's files                                                        *)
(***************************************************************************)
\* What became of the user's file is settled, or there was none.
Kept(d, f) == original[d][f] = Missing \/ fate[d][f] # "none"

\* An edit may take the file over: what the user had in it parses.
Editable(d, f) == Kept(d, f) \/ Parses(original[d][f])

\* A load seeds only files whose content is kept or that it could not look at,
\* commits only when it has seen that both parse or has seeded them, and an edit is
\* made only in a directory that was loaded.
SeedsSafely(t) ==
  /\ pc[t] \in {"seed", "seeded"} => Kept(dir[t], file[t])
  /\ pc[t] \in LoadSteps /\ file[t] = "patterns" => Editable(dir[t], "primitives")
  /\ pc[t] = "commit" => Editable(dir[t], "patterns")
  /\ pc[t] \in Critical \ {"dir"} => \A f \in Files : Editable(dir[t], f)

ActiveEditable ==
  currentConfigDir # NoDir => \A f \in Files : Editable(currentConfigDir, f)

KeptInv ==
  /\ Typed
  /\ UserFilesKept
  /\ \A t \in Threads : SeedsSafely(t)
  /\ ActiveEditable

-----------------------------------------------------------------------------
(***************************************************************************)
(* The edits, where loads run alone                                        *)
(***************************************************************************)
\* While a load runs every other thread is idle.
LoadsAlone ==
  \A s, t \in Threads : s # t /\ pc[s] \in LoadSteps => pc[t] = "idle"

AckedAt(d, f) == {a \in acked : a[1] = d /\ FileOf(a[2]) = f}

\* A load is past file f.
Past(t, f) == pc[t] = "commit" \/ (f = "primitives" /\ file[t] = "patterns")

\* What an operation is about to put in place keeps every edit acknowledged.
EditStep(t) ==
  LET d == dir[t]  f == file[t] IN
  /\ pc[t] \in Critical \ {"dir"} => d = currentConfigDir
  /\ pc[t] \in {"writeTmp", "rename", "publish"} =>
       /\ \A a \in AckedAt(d, f) : a[2] \in data[t][f]
       /\ op[t].kind = "upsert" => op[t].item \in data[t][f]
  /\ pc[t] = "publish" => disk[d][f] = data[t][f]
  /\ pc[t] = "unlock" =>
       /\ disk[d][f] = mem[f]
       /\ op[t].kind = "upsert" => op[t].item \in mem[f]

LoadStepKeeps(t) ==
  LET d == dir[t] IN
  pc[t] \in LoadSteps =>
    /\ op[t].kind = "reset" => \A f \in Files : AckedAt(d, f) = {}
    /\ pc[t] \in {"backup", "seed", "overwrite", "seeded"} =>
         AckedAt(d, file[t]) = {} /\ data[t][file[t]] = Embedded[file[t]]
    /\ \A f \in Files : Past(t, f) => disk[d][f] = data[t][f]

EditsInv ==
  /\ Typed
  /\ LoadsAlone
  /\ \A t \in Threads : EditStep(t) /\ LoadStepKeeps(t)
  /\ EditsSurvive

-----------------------------------------------------------------------------
(***************************************************************************)
(* Types                                                                   *)
(***************************************************************************)
LEMMA LosesIs ==
  ASSUME Shapes, NEW d \in Dirs, NEW f \in Files, NEW what \in {"kept", "overwritten"},
         Loses(d, f, what)
  PROVE  /\ fate' \in Fates
         /\ \A e \in Dirs, g \in Files : fate[e][g] # "none" => fate'[e][g] # "none"
         /\ disk[d][f] = original[d][f] => fate'[d][f] # "none"
BY DEF Shapes, Loses, Fates

LEMMA EmbeddedTable == Embedded \in Tables /\ [f \in Files |-> {}] \in Tables
BY ConfigAssumption DEF Tables, Item

\* A set of items is no mark, and what parses is a set of items.
LEMMA ContentsParse ==
  ASSUME NEW c \in Tables, NEW f \in Files
  PROVE  Parses(c[f]) /\ c[f] \in SUBSET Item /\ c[f] \subseteq Items[f]
BY ConfigAssumption DEF Tables

LEMMA FileNamed == \A item : FileOf(item) \in Files
BY DEF FileOf, Files

LEMMA InitTyped == Init => Typed
<1>. SUFFICES ASSUME Init PROVE Typed
  OBVIOUS
<1>1. Shapes
  <2>1. disk \in [Dirs -> Disks]
    <3>1. ASSUME NEW c \in [Files -> UNION {UserContents[f] : f \in Files}],
                 \A f \in Files : c[f] \in UserContents[f]
          PROVE  c \in Disks
      <4>1. \A f \in Files : Parses(c[f]) => c[f] \subseteq Items[f]
        <5>. TAKE f \in Files
        <5>1. c[f] \in UserContents[f]
          BY <3>1
        <5>. QED
          BY <5>1, ConfigAssumption
      <4>2. \A f \in Files : Items[f] \subseteq Item
        BY DEF Items, Files, Item
      <4>3. \A f \in Files : c[f] \in (SUBSET Item) \cup {Missing, Garbled, Truncated}
        <5>. TAKE f \in Files
        <5>1. CASE Parses(c[f])
          BY <4>1, <4>2, <5>1
        <5>2. CASE ~ Parses(c[f])
          BY <5>2 DEF Parses
        <5>. QED
          BY <5>1, <5>2
      <4>. QED
        BY <4>1, <4>3 DEF Disks
    <3>. QED
      BY <3>1 DEF Init
  <2>2. [kind |-> "load", item |-> NoItem] \in Operation
    BY DEF Operation, Loads
  <2>3. 0 \in 0 .. MaxCrashes /\ "primitives" \in Files
    BY ConfigAssumption DEF Files
  <2>4. fate \in Fates
    BY DEF Init, Fates
  <2>. QED
    BY <2>1, <2>2, <2>3, <2>4, EmbeddedTable DEF Init, Shapes
<1>2. (\A t \in Threads : InOperation(t)) /\ LockHeld
  BY DEF Init, InOperation, LockHeld, AdminSteps, LoadSteps, Critical
<1>. QED
  BY <1>1, <1>2 DEF Typed

LEMMA IdleTyped ==
  ASSUME Shapes, NEW t \in Threads, Idle(t)
  PROVE  /\ pc' \in [Threads -> {"idle"} \cup AdminSteps \cup LoadSteps]
         /\ op' \in [Threads -> Operation]
         /\ dir' \in [Threads -> Dirs \cup {NoDir}]
         /\ file' \in [Threads -> Files]
         /\ data' \in [Threads -> Tables]
         /\ pc'[t] = "idle" /\ file'[t] = "primitives"
         /\ \A s \in Threads : s # t => /\ pc'[s] = pc[s] /\ op'[s] = op[s] /\ dir'[s] = dir[s]
                                       /\ file'[s] = file[s] /\ data'[s] = data[s]
<1>1. [kind |-> "load", item |-> NoItem] \in Operation /\ "primitives" \in Files
  BY DEF Operation, Loads, Files
<1>2. data' \in [Threads -> Tables]
  BY EmbeddedTable DEF Idle, Shapes
<1>. QED
  BY <1>1, <1>2 DEF Idle, Shapes

LEMMA GotoTyped ==
  ASSUME Shapes, NEW t \in Threads, NEW step \in AdminSteps \cup LoadSteps, Goto(t, step)
  PROVE  /\ pc' \in [Threads -> {"idle"} \cup AdminSteps \cup LoadSteps]
         /\ pc'[t] = step
         /\ \A s \in Threads : s # t => pc'[s] = pc[s]
         /\ op' = op /\ dir' = dir /\ file' = file /\ data' = data
BY DEF Goto, Shapes

\* A step of thread t leaves the other threads where they are.
Apart(t) ==
  \A s \in Threads : s # t =>
    /\ pc'[s] = pc[s] /\ op'[s] = op[s] /\ dir'[s] = dir[s]
    /\ file'[s] = file[s] /\ data'[s] = data[s]

\* It takes the lock, gives it back, or does neither.
LockStep(t) ==
  \/ adminMu' = adminMu /\ (pc'[t] \in Critical <=> pc[t] \in Critical)
  \/ adminMu = {} /\ adminMu' = {t} /\ pc'[t] \in Critical
  \/ adminMu' = {} /\ pc[t] \in Critical /\ pc'[t] \notin Critical

LEMMA TypedFrame ==
  ASSUME Typed, NEW t \in Threads, Apart(t), LockStep(t), Shapes', InOperation(t)'
  PROVE  Typed'
<1>1. \A s \in Threads : InOperation(s)'
  BY DEF Typed, Apart, InOperation
<1>2. LockHeld'
  <2>1. CASE adminMu' = adminMu /\ (pc'[t] \in Critical <=> pc[t] \in Critical)
    BY <2>1 DEF Typed, LockHeld, Apart
  <2>2. CASE adminMu = {} /\ adminMu' = {t} /\ pc'[t] \in Critical
    BY <2>2 DEF Typed, LockHeld, Apart
  <2>3. CASE adminMu' = {} /\ pc[t] \in Critical /\ pc'[t] \notin Critical
    BY <2>3 DEF Typed, LockHeld, Apart
  <2>. QED
    BY <2>1, <2>2, <2>3 DEF LockStep
<1>. QED
  BY <1>1, <1>2 DEF Typed

\* A step with which an operation returns.
LEMMA ReturnTyped ==
  ASSUME Typed, NEW t \in Threads, Idle(t), LockStep(t),
         disk' = disk, original' = original, mem' \in Tables,
         currentConfigDir' \in Dirs \cup {NoDir}, crashes' = crashes,
         acked' \in SUBSET (Dirs \X Item), fate' = fate
  PROVE  Typed' /\ Apart(t)
<1>1. Apart(t) /\ pc'[t] = "idle" /\ file'[t] = "primitives"
  BY IdleTyped DEF Apart, Typed
<1>2. adminMu' \in SUBSET Threads
  BY DEF LockStep, Typed, Shapes
<1>3. Shapes'
  BY IdleTyped, <1>2 DEF Typed, Shapes
<1>4. InOperation(t)'
  BY <1>1 DEF InOperation, AdminSteps, Critical, LoadSteps
<1>. QED
  BY <1>1, <1>3, <1>4, TypedFrame

LEMMA BeginAdminTyped ==
  ASSUME Typed, NEW t \in Threads, NEW o \in Operation, BeginAdmin(t, o)
  PROVE  Typed' /\ Apart(t)
<1>. USE DEF BeginAdmin, Typed, stateVars, ghostVars
<1>0. o.kind \in {"upsert", "remove"} /\ o.item \in Item
  BY DEF Operation, Loads, Item
<1>1. pc'[t] \in {"validate", "lock"} /\ op'[t] = o /\ file'[t] = FileOf(o.item)
  BY DEF Shapes
<1>2. Shapes'
  BY FileNamed DEF Shapes, AdminSteps
<1>3. Apart(t)
  BY DEF Apart, Shapes
<1>4. InOperation(t)'
  BY <1>0, <1>1 DEF InOperation, Critical, LoadSteps
<1>5. LockStep(t)
  BY <1>1 DEF LockStep, Critical
<1>. QED
  BY <1>2, <1>3, <1>4, <1>5, TypedFrame

\* A step that only goes to the next one.
LEMMA GotoKeepsTyped ==
  ASSUME Typed, NEW t \in Threads, NEW step \in AdminSteps \cup LoadSteps, Goto(t, step),
         disk' \in [Dirs -> Disks], original' = original, mem' \in Tables,
         currentConfigDir' = currentConfigDir, crashes' = crashes, acked' \in SUBSET (Dirs \X Item),
         fate' \in Fates, LockStep(t), adminMu' \in SUBSET Threads,
         step \in AdminSteps <=> pc[t] \in AdminSteps,
         step \in LoadSteps <=> pc[t] \in LoadSteps,
         step \in Critical \ {"dir"} => pc[t] \in Critical \ {"dir"},
         step # "commit"
  PROVE  Typed' /\ Apart(t)
<1>1. Apart(t) /\ pc'[t] = step /\ op' = op /\ dir' = dir /\ file' = file /\ data' = data
  BY GotoTyped DEF Apart, Typed
<1>2. Shapes'
  BY <1>1, GotoTyped DEF Typed, Shapes
<1>3. step # "idle"
  BY DEF AdminSteps, LoadSteps, Critical
<1>4. InOperation(t)'
  BY <1>1, <1>3 DEF InOperation, Typed
<1>. QED
  BY <1>1, <1>2, <1>4, TypedFrame

\* Contents after an edit are contents of the same file.
LEMMA EditedTyped ==
  ASSUME NEW o \in Operation, o.item \in Item, NEW c \in Tables
  PROVE  Edited(o, c[FileOf(o.item)]) \in SUBSET Item
         /\ Edited(o, c[FileOf(o.item)]) \subseteq Items[FileOf(o.item)]
<1>. DEFINE f == FileOf(o.item)
<1>1. f \in Files /\ c[f] \in SUBSET Item /\ c[f] \subseteq Items[f]
  BY FileNamed, ContentsParse
<1>2. o.item \in Items[f]
  BY DEF FileOf, Items, Item
<1>. HIDE DEF f
<1>. QED
  BY <1>1, <1>2 DEF Edited, Upsert, f

\* A content of a file, put in its place, leaves a directory or table well-formed.
LEMMA PutTyped ==
  ASSUME NEW f \in Files, NEW c \in (SUBSET Item) \cup {Missing, Garbled, Truncated},
         Parses(c) => c \subseteq Items[f]
  PROVE  /\ \A D \in [Dirs -> Disks], d \in Dirs : [D EXCEPT ![d][f] = c] \in [Dirs -> Disks]
         /\ \A m \in Tables : Parses(c) => [m EXCEPT ![f] = c] \in Tables
<1>1. ASSUME NEW D \in [Dirs -> Disks], NEW d \in Dirs
      PROVE  [D EXCEPT ![d][f] = c] \in [Dirs -> Disks]
  <2>1. D[d] \in Disks
    OBVIOUS
  <2>2. [D[d] EXCEPT ![f] = c] \in Disks
    BY <2>1 DEF Disks
  <2>. QED
    BY <2>2
<1>2. ASSUME NEW m \in Tables, Parses(c) PROVE [m EXCEPT ![f] = c] \in Tables
  <2>1. c \in SUBSET Item
    BY <1>2 DEF Parses
  <2>. QED
    BY <1>2, <2>1 DEF Tables
<1>. QED
  BY <1>1, <1>2

LEMMA MarksTyped ==
  ASSUME NEW f \in Files, NEW c \in {Missing, Garbled, Truncated}
  PROVE  \A D \in [Dirs -> Disks], d \in Dirs : [D EXCEPT ![d][f] = c] \in [Dirs -> Disks]
<1>1. ~ Parses(c)
  BY DEF Parses
<1>. QED
  BY <1>1, PutTyped

LEMMA DataTyped ==
  ASSUME Shapes, NEW t \in Threads, NEW f \in Files, NEW c \in SUBSET Item, c \subseteq Items[f]
  PROVE  [data EXCEPT ![t][f] = c] \in [Threads -> Tables]
<1>1. data[t] \in Tables
  BY DEF Shapes
<1>2. [data[t] EXCEPT ![f] = c] \in Tables
  BY <1>1 DEF Tables
<1>. QED
  BY <1>2 DEF Shapes

LEMMA ValidateTyped ==
  ASSUME Typed, NEW t \in Threads, Validate(t)
  PROVE  Typed' /\ Apart(t)
<1>. USE DEF Validate, stateVars, ghostVars
<1>0. Shapes
  BY DEF Typed
<1>1. CASE Goto(t, "lock")
  <2>1. LockStep(t)
    BY <1>0, <1>1, GotoTyped DEF LockStep, AdminSteps, Critical
  <2>. QED
    BY <1>0, <1>1, <2>1, GotoKeepsTyped DEF Shapes, AdminSteps, Critical, LoadSteps
<1>2. CASE Idle(t)
  <2>1. LockStep(t)
    BY <1>0, <1>2, IdleTyped DEF LockStep, Critical
  <2>. QED
    BY <1>0, <1>2, <2>1, ReturnTyped DEF Shapes
<1>. QED
  BY <1>1, <1>2

LEMMA LockTyped ==
  ASSUME Typed, NEW t \in Threads, Lock(t)
  PROVE  Typed' /\ Apart(t)
<1>. USE DEF Lock, stateVars, ghostVars
<1>0. Shapes
  BY DEF Typed
<1>1. LockStep(t)
  BY <1>0, GotoTyped DEF LockStep, AdminSteps, Critical
<1>. QED
  BY <1>0, <1>1, GotoKeepsTyped DEF Shapes, AdminSteps, Critical, LoadSteps

LEMMA ReadDirTyped ==
  ASSUME Typed, NEW t \in Threads, ReadDir(t)
  PROVE  Typed' /\ Apart(t)
<1>. USE DEF ReadDir, stateVars, ghostVars
<1>0. Shapes
  BY DEF Typed
<1>1. CASE currentConfigDir = NoDir
  <2>1. LockStep(t)
    BY <1>0, <1>1, IdleTyped DEF LockStep, Critical
  <2>. QED
    BY <1>0, <1>1, <2>1, ReturnTyped DEF Shapes
<1>2. CASE currentConfigDir # NoDir
  <2>1. Apart(t) /\ pc'[t] = "snapshot" /\ dir'[t] = currentConfigDir /\ op' = op /\ file' = file
    BY <1>0, <1>2 DEF Apart, Shapes
  <2>2. Shapes'
    BY <1>0, <1>2 DEF Shapes, AdminSteps, Critical
  <2>3. InOperation(t)'
    BY <1>0, <1>2, <2>1 DEF InOperation, AdminSteps, Critical, LoadSteps, Typed, Shapes
  <2>4. LockStep(t)
    BY <1>2, <2>1 DEF LockStep, Critical
  <2>. QED
    BY <2>1, <2>2, <2>3, <2>4, TypedFrame
<1>. QED
  BY <1>1, <1>2

LEMMA SnapshotTyped ==
  ASSUME Typed, NEW t \in Threads, Snapshot(t)
  PROVE  Typed' /\ Apart(t)
<1>. USE DEF stateVars
<1>. DEFINE f == file[t]
            updated == Edited(op[t], mem[f])
<1>0. Shapes /\ InOperation(t) /\ pc[t] = "snapshot"
  BY DEF Typed, Snapshot
<1>1. acked' \in SUBSET (Dirs \X Item)
  BY <1>0 DEF Snapshot, Shapes
<1>2. CASE Idle(t) /\ adminMu' = {} /\ UNCHANGED acked
  <2>1. LockStep(t)
    BY <1>0, <1>2, IdleTyped DEF LockStep, Critical
  <2>. QED
    BY <1>0, <1>1, <1>2, <2>1, ReturnTyped DEF Snapshot, Shapes
<1>3. CASE /\ pc' = [pc EXCEPT ![t] = "writeTmp"]
           /\ data' = [data EXCEPT ![t][f] = updated]
           /\ UNCHANGED <<adminMu, op, dir, file>>
  <2>1. f \in Files /\ updated \in SUBSET Item /\ updated \subseteq Items[f]
    BY <1>0, FileNamed, EditedTyped DEF Shapes, InOperation, AdminSteps, Critical
  <2>2. Apart(t) /\ pc'[t] = "writeTmp"
    BY <1>0, <1>3 DEF Apart, Shapes
  <2>3. data' \in [Threads -> Tables]
    BY <1>0, <1>3, <2>1, DataTyped
  <2>4. Shapes'
    BY <1>0, <1>1, <1>3, <2>3 DEF Shapes, Snapshot, AdminSteps, Critical
  <2>5. InOperation(t)'
    BY <1>0, <1>3, <2>2 DEF InOperation, AdminSteps, Critical, LoadSteps
  <2>6. LockStep(t)
    BY <1>0, <1>3, <2>2 DEF LockStep, Critical
  <2>. QED
    BY <2>2, <2>4, <2>5, <2>6, TypedFrame
<1>. QED
  BY <1>2, <1>3 DEF Snapshot

LEMMA PersistFailsTyped ==
  ASSUME Typed, NEW t \in Threads, PersistFails(t)
  PROVE  Typed' /\ Apart(t)
<1>. USE DEF PersistFails, stateVars, ghostVars
<1>0. Shapes
  BY DEF Typed
<1>1. LockStep(t)
  BY <1>0, IdleTyped DEF LockStep, Critical
<1>. QED
  BY <1>0, <1>1, ReturnTyped DEF Shapes

LEMMA WriteTmpTyped ==
  ASSUME Typed, NEW t \in Threads, WriteTmp(t)
  PROVE  Typed' /\ Apart(t)
<1>. USE DEF WriteTmp, stateVars, ghostVars
<1>0. Shapes
  BY DEF Typed
<1>1. LockStep(t)
  BY <1>0, GotoTyped DEF LockStep, AdminSteps, Critical
<1>. QED
  BY <1>0, <1>1, GotoKeepsTyped DEF Shapes, AdminSteps, Critical, LoadSteps

LEMMA RenameTyped ==
  ASSUME Typed, NEW t \in Threads, Rename(t)
  PROVE  Typed' /\ Apart(t)
<1>. USE DEF stateVars
<1>0. Shapes /\ InOperation(t)
  BY DEF Typed
<1>1. dir[t] \in Dirs /\ file[t] \in Files /\ data[t] \in Tables
  BY <1>0 DEF Shapes, InOperation, Rename, Critical
<1>2. disk' \in [Dirs -> Disks]
  BY <1>0, <1>1, ContentsParse, PutTyped DEF Rename, Shapes
<1>3. LockStep(t)
  BY <1>0, GotoTyped DEF LockStep, AdminSteps, Critical, Rename
<1>4. fate' \in Fates
  BY <1>0, <1>1, LosesIs DEF Rename, Shapes
<1>. QED
  BY <1>0, <1>2, <1>3, <1>4, GotoKeepsTyped DEF Shapes, AdminSteps, Critical, LoadSteps, Rename

LEMMA PublishEditTyped ==
  ASSUME Typed, NEW t \in Threads, PublishEdit(t)
  PROVE  Typed' /\ Apart(t)
<1>. USE DEF ghostVars
<1>0. Shapes
  BY DEF Typed
<1>1. file[t] \in Files /\ data[t] \in Tables
  BY <1>0 DEF Shapes
<1>2. mem' \in Tables
  BY <1>0, <1>1, ContentsParse, PutTyped DEF PublishEdit, Shapes
<1>3. LockStep(t)
  BY <1>0, GotoTyped DEF LockStep, AdminSteps, Critical, PublishEdit
<1>. QED
  BY <1>0, <1>2, <1>3, GotoKeepsTyped DEF Shapes, AdminSteps, Critical, LoadSteps, PublishEdit

LEMMA UnlockTyped ==
  ASSUME Typed, NEW t \in Threads, Unlock(t)
  PROVE  Typed' /\ Apart(t)
<1>. USE DEF Unlock, stateVars
<1>0. Shapes /\ InOperation(t)
  BY DEF Typed
<1>1. dir[t] \in Dirs /\ op[t].item \in Item
  BY <1>0 DEF InOperation, AdminSteps, Critical
<1>2. acked' \in SUBSET (Dirs \X Item)
  BY <1>0, <1>1 DEF Shapes
<1>3. LockStep(t)
  BY <1>0, IdleTyped DEF LockStep, Critical
<1>. QED
  BY <1>0, <1>2, <1>3, ReturnTyped DEF Shapes

LEMMA BeginLoadTyped ==
  ASSUME Typed, NEW t \in Threads, NEW kind \in Loads, NEW d \in Dirs, BeginLoad(t, kind, d)
  PROVE  Typed' /\ Apart(t)
<1>. USE DEF BeginLoad, stateVars
<1>0. Shapes
  BY DEF Typed
<1>1. [kind |-> kind, item |-> NoItem] \in Operation
  BY DEF Operation
<1>2. Apart(t) /\ pc'[t] = "read" /\ dir'[t] = d /\ op'[t].kind = kind
  BY <1>0 DEF Apart, Shapes
<1>3. acked' \in SUBSET (Dirs \X Item)
  BY <1>0 DEF Shapes
<1>4. Shapes'
  BY <1>0, <1>1, <1>3 DEF Shapes, LoadSteps
<1>5. InOperation(t)'
  BY <1>2 DEF InOperation, AdminSteps, Critical, LoadSteps
<1>6. LockStep(t)
  BY <1>2 DEF LockStep, Critical
<1>. QED
  BY <1>2, <1>4, <1>5, <1>6, TypedFrame

\* A load that goes on to another of its steps.
LEMMA LoadGoesOn ==
  ASSUME Typed, NEW t \in Threads, pc[t] \in LoadSteps,
         NEW step \in LoadSteps, pc' = [pc EXCEPT ![t] = step],
         op' = op, dir' = dir, adminMu' = adminMu,
         file' \in [Threads -> Files], \A s \in Threads : s # t => file'[s] = file[s],
         data' \in [Threads -> Tables], \A s \in Threads : s # t => data'[s] = data[s],
         step = "commit" => file'[t] = "patterns",
         disk' \in [Dirs -> Disks], original' = original, mem' = mem,
         currentConfigDir' = currentConfigDir, crashes' = crashes,
         acked' \in SUBSET (Dirs \X Item), fate' \in Fates
  PROVE  Typed' /\ Apart(t)
<1>0. Shapes /\ InOperation(t)
  BY DEF Typed
<1>1. Apart(t) /\ pc'[t] = step
  BY <1>0 DEF Apart, Shapes
<1>2. Shapes'
  BY <1>0 DEF Shapes
<1>3. step \notin AdminSteps /\ pc[t] \notin AdminSteps /\ step # "idle"
  BY DEF AdminSteps, LoadSteps, Critical
<1>4. InOperation(t)'
  BY <1>0, <1>1, <1>3 DEF InOperation, AdminSteps
<1>5. LockStep(t)
  BY <1>1, <1>3 DEF LockStep, AdminSteps
<1>. QED
  BY <1>1, <1>2, <1>4, <1>5, TypedFrame

\* The step after a file that is as it should be.
LEMMA AfterFileTyped ==
  ASSUME Shapes, NEW t \in Threads, AfterFile(t)
  PROVE  /\ file' \in [Threads -> Files]
         /\ \A s \in Threads : s # t => file'[s] = file[s]
         /\ file'[t] = "patterns"
         /\ \/ file[t] = "primitives" /\ pc' = [pc EXCEPT ![t] = "read"]
            \/ file[t] = "patterns" /\ pc' = [pc EXCEPT ![t] = "commit"]
BY DEF AfterFile, Shapes, Files

LEMMA ReadFileTyped ==
  ASSUME Typed, NEW t \in Threads, ReadFile(t)
  PROVE  Typed' /\ Apart(t)
<1>. USE DEF stateVars, ghostVars
<1>. DEFINE f == file[t]
            content == disk[dir[t]][f]
<1>0. Shapes /\ InOperation(t) /\ pc[t] = "read" /\ "read" \in LoadSteps
  BY DEF Typed, ReadFile, LoadSteps
<1>1. f \in Files /\ dir[t] \in Dirs /\ disk[dir[t]] \in Disks
  BY <1>0 DEF InOperation, Shapes
<1>2. CASE Parses(content) /\ data' = [data EXCEPT ![t][f] = content] /\ AfterFile(t)
  <2>1. content \in SUBSET Item /\ content \subseteq Items[f]
    BY <1>1, <1>2 DEF Disks, Parses
  <2>2. data' \in [Threads -> Tables] /\ \A s \in Threads : s # t => data'[s] = data[s]
    BY <1>0, <1>1, <1>2, <2>1, DataTyped DEF Shapes
  <2>5. /\ pc[t] \in LoadSteps /\ op' = op /\ dir' = dir /\ adminMu' = adminMu
        /\ file' \in [Threads -> Files] /\ (\A s \in Threads : s # t => file'[s] = file[s])
        /\ file'[t] = "patterns"
        /\ data' \in [Threads -> Tables] /\ (\A s \in Threads : s # t => data'[s] = data[s])
        /\ disk' \in [Dirs -> Disks] /\ original' = original /\ mem' = mem
        /\ currentConfigDir' = currentConfigDir /\ crashes' = crashes
        /\ acked' \in SUBSET (Dirs \X Item) /\ fate' \in Fates
    <3>1. pc[t] \in LoadSteps
      BY ONLY <1>0
    <3>2. UNCHANGED <<disk, stateVars, adminMu, op, dir, crashes, ghostVars>>
      BY DEF ReadFile
    <3>3. disk \in [Dirs -> Disks] /\ acked \in SUBSET (Dirs \X Item) /\ fate \in Fates
      BY ONLY <1>0, Zenon DEF Shapes
    <3>4. /\ op' = op /\ dir' = dir /\ adminMu' = adminMu /\ disk' = disk /\ mem' = mem
          /\ original' = original /\ currentConfigDir' = currentConfigDir /\ crashes' = crashes
          /\ acked' = acked /\ fate' = fate
      BY ONLY <3>2 DEF stateVars, ghostVars
    <3>5. /\ file' \in [Threads -> Files] /\ (\A s \in Threads : s # t => file'[s] = file[s])
          /\ file'[t] = "patterns"
      BY <1>0, <1>2, AfterFileTyped
    <3>. QED
      BY ONLY <2>2, <3>1, <3>3, <3>4, <3>5
  <2>3. CASE pc' = [pc EXCEPT ![t] = "read"]
    <3>1. "read" \in LoadSteps /\ "read" # "commit"
      BY DEF LoadSteps
    <3>. QED
      BY ONLY <2>3, <2>5, <3>1, LoadGoesOn, Typed, t \in Threads, ZenonT(60)
  <2>4. CASE pc' = [pc EXCEPT ![t] = "commit"]
    <3>1. "commit" \in LoadSteps
      BY DEF LoadSteps
    <3>. QED
      BY ONLY <2>4, <2>5, <3>1, LoadGoesOn, Typed, t \in Threads, ZenonT(60)
  <2>. QED
    BY <1>0, <1>2, <2>3, <2>4, AfterFileTyped
<1>3. CASE /\ data' = [data EXCEPT ![t][f] = Embedded[f]]
           /\ pc' = [pc EXCEPT ![t] = IF content = Missing THEN "seed" ELSE "backup"]
           /\ UNCHANGED file
  <2>1. data' \in [Threads -> Tables] /\ \A s \in Threads : s # t => data'[s] = data[s]
    BY <1>0, <1>1, <1>3, EmbeddedTable, ContentsParse, DataTyped DEF Shapes
  <2>2. "seed" \in LoadSteps /\ "backup" \in LoadSteps
    BY DEF LoadSteps
  <2>. QED
    BY <1>0, <1>3, <2>1, <2>2, LoadGoesOn DEF Shapes, ReadFile
<1>. QED
  BY <1>2, <1>3 DEF ReadFile

LEMMA StatErrorTyped ==
  ASSUME Typed, NEW t \in Threads, StatError(t)
  PROVE  Typed' /\ Apart(t)
<1>. USE DEF stateVars, ghostVars
<1>0. Shapes /\ InOperation(t) /\ pc[t] \in LoadSteps /\ "overwrite" \in LoadSteps
  BY DEF Typed, StatError, LoadSteps
<1>1. file[t] \in Files
  BY <1>0 DEF Shapes
<1>2. data' \in [Threads -> Tables] /\ \A s \in Threads : s # t => data'[s] = data[s]
  BY ZenonT(60), <1>0, <1>1, EmbeddedTable, ContentsParse, DataTyped DEF Shapes, StatError
<1>. QED
  BY <1>0, <1>2, LoadGoesOn DEF Shapes, StatError

LEMMA ReadErrorTyped ==
  ASSUME Typed, NEW t \in Threads, ReadError(t)
  PROVE  Typed' /\ Apart(t)
<1>. USE DEF stateVars
<1>0. Shapes /\ InOperation(t) /\ pc[t] \in LoadSteps /\ "backup" \in LoadSteps
  BY DEF Typed, ReadError, LoadSteps
<1>1. file[t] \in Files
  BY <1>0 DEF Shapes
<1>2. data' \in [Threads -> Tables] /\ \A s \in Threads : s # t => data'[s] = data[s]
  BY ZenonT(60), <1>0, <1>1, EmbeddedTable, ContentsParse, DataTyped DEF Shapes, ReadError
<1>3. acked' \in SUBSET (Dirs \X Item)
  BY <1>0 DEF Shapes, ReadError
<1>. QED
  BY <1>0, <1>2, <1>3, LoadGoesOn DEF Shapes, ReadError

\* A load that changes its file on disk.
LEMMA LoadWritesTyped ==
  ASSUME Typed, NEW t \in Threads, Backup(t) \/ Seed(t)
  PROVE  Typed' /\ Apart(t)
<1>. USE DEF stateVars, ghostVars
<1>0. Shapes /\ InOperation(t)
  BY DEF Typed
<1>1. pc[t] \in LoadSteps /\ "seed" \in LoadSteps /\ "seeded" \in LoadSteps
  BY DEF Backup, Seed, LoadSteps
<1>2. file[t] \in Files /\ dir[t] \in Dirs
  BY <1>0, <1>1 DEF Shapes, InOperation
<1>b. fate' \in Fates
  BY <1>0, <1>2, LosesIs DEF Backup, Seed, Shapes
<1>3. disk' \in [Dirs -> Disks]
  <2>1. CASE disk' = [disk EXCEPT ![dir[t]][file[t]] = Missing]
    BY <1>0, <1>2, <2>1, MarksTyped DEF Shapes
  <2>2. CASE disk' = [disk EXCEPT ![dir[t]][file[t]] = Truncated]
    BY <1>0, <1>2, <2>2, MarksTyped DEF Shapes
  <2>. QED
    BY <2>1, <2>2 DEF Backup, Seed
<1>4. CASE Backup(t)
  BY <1>0, <1>1, <1>b, <1>3, <1>4, LoadGoesOn DEF Shapes, Backup, Goto
<1>5. CASE Seed(t)
  BY <1>0, <1>1, <1>b, <1>3, <1>5, LoadGoesOn DEF Shapes, Seed, Goto
<1>. QED
  BY <1>4, <1>5

LEMMA SeededTyped ==
  ASSUME Typed, NEW t \in Threads, Seeded(t)
  PROVE  Typed' /\ Apart(t)
<1>. USE DEF stateVars, ghostVars
<1>0. Shapes /\ InOperation(t)
  BY DEF Typed
<1>1. pc[t] \in LoadSteps /\ "read" \in LoadSteps /\ "commit" \in LoadSteps
  BY DEF Seeded, LoadSteps
<1>2. file[t] \in Files /\ dir[t] \in Dirs
  BY <1>0, <1>1 DEF Shapes, InOperation
<1>3. disk' \in [Dirs -> Disks]
  BY <1>0, <1>2, EmbeddedTable, ContentsParse, PutTyped DEF Shapes, Seeded
<1>4. CASE pc' = [pc EXCEPT ![t] = "read"]
  BY <1>0, <1>1, <1>3, <1>4, AfterFileTyped, LoadGoesOn DEF Shapes, Seeded
<1>5. CASE pc' = [pc EXCEPT ![t] = "commit"]
  BY <1>0, <1>1, <1>3, <1>5, AfterFileTyped, LoadGoesOn DEF Shapes, Seeded
<1>. QED
  BY <1>0, <1>4, <1>5, AfterFileTyped DEF Seeded

LEMMA LoadEndsTyped ==
  ASSUME Typed, NEW t \in Threads, LoadFails(t) \/ CommitLoad(t)
  PROVE  Typed' /\ Apart(t)
<1>. USE DEF LoadFails, CommitLoad, stateVars, ghostVars
<1>0. Shapes /\ InOperation(t)
  BY DEF Typed
<1>1. pc[t] \in LoadSteps
  BY DEF LoadSteps
<1>2. data[t] \in Tables /\ dir[t] \in Dirs
  BY <1>0, <1>1 DEF Shapes, InOperation
<1>3. LockStep(t)
  BY <1>0, <1>1, IdleTyped DEF LockStep, Critical, LoadSteps
<1>4. mem' \in Tables /\ currentConfigDir' \in Dirs \cup {NoDir}
  BY <1>0, <1>2 DEF Shapes
<1>. QED
  BY <1>0, <1>3, <1>4, ReturnTyped DEF Shapes

LEMMA CrashTyped ==
  ASSUME Typed, CrashAndRestart
  PROVE  Typed'
<1>. USE DEF CrashAndRestart, Start, ghostVars
<1>0. Shapes
  BY DEF Typed
<1>1. [kind |-> "load", item |-> NoItem] \in Operation /\ "primitives" \in Files
  BY DEF Operation, Loads, Files
<1>2. data' \in [Threads -> Tables] /\ mem' \in Tables
  BY EmbeddedTable
<1>3. crashes' \in 0 .. MaxCrashes
  BY <1>0, ConfigAssumption DEF Shapes
<1>4. Shapes'
  BY <1>0, <1>1, <1>2, <1>3 DEF Shapes
<1>5. \A t \in Threads : pc'[t] = "idle" /\ file'[t] = "primitives"
  OBVIOUS
<1>6. (\A t \in Threads : InOperation(t)') /\ LockHeld'
  BY <1>5 DEF InOperation, LockHeld, AdminSteps, Critical, LoadSteps
<1>. QED
  BY <1>4, <1>6 DEF Typed

LEMMA TypedStutters == Typed /\ UNCHANGED vars => Typed'
<1>. SUFFICES ASSUME Typed, UNCHANGED vars PROVE Typed'
  OBVIOUS
<1>. USE DEF vars, stateVars, ghostVars
<1>1. Shapes' /\ LockHeld'
  BY DEF Typed, Shapes, LockHeld
<1>2. \A t \in Threads : InOperation(t)'
  BY DEF Typed, InOperation
<1>. QED
  BY <1>1, <1>2 DEF Typed

\* Every step keeps the types, and is a crash or leaves all but one thread alone.
LEMMA StepTyped ==
  ASSUME Typed, NEW t \in Threads,
         \/ \E o \in Operation : BeginAdmin(t, o)
         \/ \E kind \in Loads, d \in Dirs : BeginLoad(t, kind, d)
         \/ AdminStep(t)
         \/ LoadStep(t)
  PROVE  Typed' /\ Apart(t)
<1>1. ASSUME AdminStep(t) PROVE Typed' /\ Apart(t)
  BY <1>1, ValidateTyped, LockTyped, ReadDirTyped, SnapshotTyped, PersistFailsTyped,
     WriteTmpTyped, RenameTyped, PublishEditTyped, UnlockTyped DEF AdminStep
<1>2. ASSUME LoadStep(t) PROVE Typed' /\ Apart(t)
  BY <1>2, ReadFileTyped, ReadErrorTyped, StatErrorTyped, LoadWritesTyped, SeededTyped, LoadEndsTyped DEF LoadStep
<1>. QED
  BY <1>1, <1>2, BeginAdminTyped, BeginLoadTyped

-----------------------------------------------------------------------------
(***************************************************************************)
(* The user's files are kept, whatever overlaps                            *)
(***************************************************************************)
\* What is kept stays kept.
KeepsKept ==
  /\ original' = original
  /\ \A d \in Dirs, f \in Files : fate[d][f] # "none" => fate'[d][f] # "none"

LEMMA KeptStays ==
  ASSUME KeepsKept
  PROVE  \A d \in Dirs, f \in Files :
           (Kept(d, f) => Kept(d, f)') /\ (Editable(d, f) => Editable(d, f)')
BY DEF KeepsKept, Kept, Editable

LEMMA KeptFrame ==
  ASSUME KeptInv, NEW t \in Threads, Typed', Apart(t), KeepsKept,
         UserFilesKept', SeedsSafely(t)', ActiveEditable'
  PROVE  KeptInv'
<1>1. ASSUME NEW s \in Threads, s # t PROVE SeedsSafely(s)'
  <2>1. SeedsSafely(s)
    BY DEF KeptInv
  <2>2. pc'[s] = pc[s] /\ dir'[s] = dir[s] /\ file'[s] = file[s]
    BY <1>1 DEF Apart
  <2>3. /\ pc[s] \in LoadSteps \/ pc[s] \in Critical \ {"dir"} => dir[s] \in Dirs
        /\ file[s] \in Files /\ {"primitives", "patterns"} \subseteq Files
    BY DEF KeptInv, Typed, Shapes, InOperation, Files
  <2>4. {"seed", "seeded", "commit"} \subseteq LoadSteps
    BY DEF LoadSteps
  <2>. QED
    BY <2>1, <2>2, <2>3, <2>4, KeptStays DEF SeedsSafely
<1>. QED
  BY <1>1 DEF KeptInv

\* A file is overwritten where its content is kept.
LEMMA PutKept ==
  ASSUME KeptInv, KeepsKept, NEW d \in Dirs, NEW f \in Files, NEW c,
         disk' = [disk EXCEPT ![d][f] = c], Kept(d, f)'
  PROVE  UserFilesKept'
<1>1. disk \in [Dirs -> Disks]
  BY DEF KeptInv, Typed, Shapes
<1>2. ASSUME NEW e \in Dirs, NEW g \in Files
      PROVE  disk'[e][g] = original'[e][g] \/ Kept(e, g)'
  <2>1. disk[e][g] = original[e][g] \/ Kept(e, g)
    BY DEF KeptInv, UserFilesKept, Kept
  <2>2. CASE e = d /\ g = f
    BY <2>2
  <2>3. CASE ~ (e = d /\ g = f)
    <3>1. disk[e] \in Disks /\ disk[d] \in Disks
      BY <1>1
    <3>2. disk'[e][g] = disk[e][g]
      BY <1>1, <2>3, <3>1 DEF Disks
    <3>. QED
      BY <2>1, <3>2, KeptStays DEF KeepsKept
  <2>. QED
    BY <2>2, <2>3
<1>. QED
  BY <1>2 DEF UserFilesKept, Kept

LEMMA InitKept == Init => KeptInv
<1>. SUFFICES ASSUME Init PROVE KeptInv
  OBVIOUS
<1>1. Typed
  BY InitTyped
<1>2. UserFilesKept
  BY DEF Init, UserFilesKept
<1>3. (\A t \in Threads : SeedsSafely(t)) /\ ActiveEditable
  BY DEF Init, SeedsSafely, ActiveEditable, LoadSteps, Critical
<1>. QED
  BY <1>1, <1>2, <1>3 DEF KeptInv

\* Outside the rename an admin operation touches no file; it edits in the
\* active directory.
LEMMA AdminKept ==
  ASSUME KeptInv, NEW t \in Threads, Typed', Apart(t),
         \/ \E o \in Operation : BeginAdmin(t, o)
         \/ AdminStep(t) /\ ~ Rename(t)
  PROVE  KeptInv'
<1>. USE DEF stateVars, ghostVars
<1>0. Shapes /\ SeedsSafely(t)
  BY DEF KeptInv, Typed
<1>1. /\ disk' = disk /\ original' = original /\ fate' = fate
      /\ currentConfigDir' = currentConfigDir
  BY DEF BeginAdmin, AdminStep, Validate, Lock, ReadDir, Snapshot, PersistFails, WriteTmp,
         PublishEdit, Unlock
<1>2. UserFilesKept' /\ ActiveEditable' /\ KeepsKept
  BY <1>1 DEF KeptInv, UserFilesKept, ActiveEditable, Editable, Kept, KeepsKept
<1>3. \/ pc'[t] \in {"idle", "validate", "lock", "dir"}
      \/ pc'[t] \in Critical /\ pc[t] \in Critical \ {"dir"} /\ dir'[t] = dir[t]
      \/ pc'[t] \in Critical /\ dir'[t] = currentConfigDir /\ currentConfigDir # NoDir
  <2>1. \/ pc[t] \in Critical \ {"dir"} \/ pc[t] \in {"idle", "validate", "lock", "dir"}
    BY DEF BeginAdmin, AdminStep, Validate, Lock, ReadDir, Snapshot, PersistFails, WriteTmp,
           PublishEdit, Unlock, Critical
  <2>2. CASE \E o \in Operation : BeginAdmin(t, o)
    BY <1>0, <2>2 DEF BeginAdmin, Shapes
  <2>3. CASE Validate(t) \/ Lock(t) \/ PersistFails(t) \/ Unlock(t)
    BY <1>0, <2>3 DEF Validate, Lock, PersistFails, Unlock, Idle, Goto, Shapes
  <2>4. CASE ReadDir(t)
    BY <1>0, <2>4 DEF ReadDir, Idle, Shapes, Critical
  <2>5. CASE Snapshot(t) \/ WriteTmp(t) \/ PublishEdit(t)
    BY <1>0, <2>5 DEF Snapshot, WriteTmp, PublishEdit, Idle, Goto, Shapes, Critical
  <2>. QED
    BY <2>2, <2>3, <2>4, <2>5 DEF AdminStep
<1>4. SeedsSafely(t)'
  <2>1. CASE pc'[t] \in {"idle", "validate", "lock", "dir"}
    BY <2>1 DEF SeedsSafely, LoadSteps, Critical
  <2>2. ASSUME pc'[t] \in Critical, \A f \in Files : Editable(dir'[t], f)
        PROVE  SeedsSafely(t)'
    <3>1. \A f \in Files : Editable(dir[t], f)'
      BY <1>1, <2>2 DEF Editable, Kept
    <3>2. pc'[t] \notin LoadSteps
      BY <2>2 DEF LoadSteps, Critical
    <3>. QED
      BY <3>1, <3>2 DEF SeedsSafely, LoadSteps
  <2>3. CASE pc'[t] \in Critical /\ pc[t] \in Critical \ {"dir"} /\ dir'[t] = dir[t]
    <3>1. \A f \in Files : Editable(dir'[t], f)
      BY <1>0, <2>3 DEF SeedsSafely
    <3>. QED
      BY <2>2, <2>3, <3>1
  <2>4. CASE pc'[t] \in Critical /\ dir'[t] = currentConfigDir /\ currentConfigDir # NoDir
    <3>1. \A f \in Files : Editable(dir'[t], f)
      BY <2>4 DEF KeptInv, ActiveEditable
    <3>. QED
      BY <2>2, <2>4, <3>1
  <2>. QED
    BY <1>3, <2>1, <2>3, <2>4
<1>. QED
  BY <1>2, <1>4, KeptFrame

\* The rename takes over the user's file, or replaces one that is kept.
LEMMA RenameKept ==
  ASSUME KeptInv, NEW t \in Threads, Typed', Apart(t), Rename(t)
  PROVE  KeptInv'
<1>. USE DEF stateVars
<1>0. Shapes /\ InOperation(t) /\ SeedsSafely(t)
  BY DEF KeptInv, Typed
<1>a. PICK d \in Dirs, f \in Files : d = dir[t] /\ f = file[t]
  BY <1>0 DEF Shapes, InOperation, Rename, Critical
<1>1. \A g \in Files : Editable(d, g)
  BY <1>0, <1>a DEF Rename, SeedsSafely, Critical
<1>2. /\ original' = original /\ currentConfigDir' = currentConfigDir
      /\ disk' = [disk EXCEPT ![d][f] = data[t][f]]
      /\ IF Parses(disk[d][f]) THEN Loses(d, f, "kept") ELSE UNCHANGED fate
      /\ pc'[t] = "publish" /\ dir'[t] = d
  BY <1>0, <1>a DEF Rename, Goto, Shapes
<1>3. KeepsKept
  BY <1>0, <1>2, LosesIs DEF KeepsKept
<1>4. Kept(d, f)'
  <2>1. CASE disk[d][f] = original[d][f] /\ Parses(disk[d][f])
    BY <1>0, <1>2, <2>1, LosesIs DEF Kept
  <2>2. CASE disk[d][f] = original[d][f] /\ ~ Parses(disk[d][f])
    <3>1. Kept(d, f)
      BY <1>1, <2>2 DEF Editable
    <3>. QED
      BY <1>3, <3>1, KeptStays
  <2>3. CASE disk[d][f] # original[d][f]
    <3>1. Kept(d, f)
      BY <2>3 DEF KeptInv, UserFilesKept, Kept
    <3>. QED
      BY <1>3, <3>1, KeptStays
  <2>. QED
    BY <2>1, <2>2, <2>3
<1>5. UserFilesKept'
  BY <1>2, <1>3, <1>4, PutKept
<1>6. ActiveEditable'
  BY <1>0, <1>2, <1>3, KeptStays DEF KeptInv, ActiveEditable, Shapes
<1>7. SeedsSafely(t)'
  <2>1. \A g \in Files : Editable(d, g)'
    BY <1>1, <1>2, <1>3, KeptStays
  <2>. QED
    BY <1>2, <2>1 DEF SeedsSafely, LoadSteps, Critical
<1>. QED
  BY <1>3, <1>5, <1>6, <1>7, KeptFrame


\* A step that leaves the files, what became of them, and the active directory.
LEMMA QuietKept ==
  ASSUME KeptInv, NEW t \in Threads, Typed', Apart(t), SeedsSafely(t)',
         disk' = disk, original' = original, fate' = fate,
         currentConfigDir' = currentConfigDir
  PROVE  KeptInv'
<1>1. UserFilesKept' /\ ActiveEditable' /\ KeepsKept
  BY DEF KeptInv, UserFilesKept, ActiveEditable, Editable, Kept, KeepsKept
<1>. QED
  BY <1>1, KeptFrame

\* A load has seen that file f of directory d parses, or has seeded it.
LEMMA AfterFileKept ==
  ASSUME KeptInv, NEW t \in Threads, KeepsKept, AfterFile(t), dir' = dir, pc[t] \in LoadSteps,
         Editable(dir[t], file[t])
  PROVE  SeedsSafely(t)'
<1>0. Shapes /\ InOperation(t) /\ SeedsSafely(t) /\ "primitives" \in Files
  BY DEF KeptInv, Typed, Files
<1>a. PICK d \in Dirs, f \in Files : d = dir[t] /\ f = file[t]
  BY <1>0 DEF Shapes, InOperation
<1>1. Editable(d, f)' /\ (f = "patterns" => Editable(d, "primitives")')
  BY <1>0, <1>a, KeptStays DEF SeedsSafely
<1>2. /\ dir'[t] = d /\ file'[t] = "patterns"
      /\ pc'[t] \in {"read", "commit"} /\ (f = "primitives" => pc'[t] = "read")
  BY <1>0, <1>a, AfterFileTyped DEF Shapes, Files
<1>3. f \in {"primitives", "patterns"}
  BY DEF Files
<1>4. CASE f = "primitives"
  BY <1>1, <1>2, <1>4 DEF SeedsSafely, LoadSteps, Critical
<1>5. CASE f = "patterns"
  BY <1>1, <1>2, <1>5 DEF SeedsSafely, LoadSteps, Critical
<1>. QED
  BY <1>3, <1>4, <1>5

LEMMA BeginLoadKept ==
  ASSUME KeptInv, NEW t \in Threads, Typed', Apart(t),
         NEW kind \in Loads, NEW d \in Dirs, BeginLoad(t, kind, d)
  PROVE  KeptInv'
<1>1. pc'[t] = "read" /\ file'[t] = "primitives"
  BY DEF BeginLoad, KeptInv, Typed, Shapes, InOperation
<1>2. SeedsSafely(t)'
  BY <1>1 DEF SeedsSafely, LoadSteps, Critical
<1>. QED
  BY <1>2, QuietKept DEF BeginLoad, stateVars

LEMMA ReadKept ==
  ASSUME KeptInv, NEW t \in Threads, Typed', Apart(t), ReadFile(t) \/ ReadError(t) \/ StatError(t)
  PROVE  KeptInv'
<1>. USE DEF stateVars, ghostVars
<1>0. Shapes /\ InOperation(t) /\ SeedsSafely(t) /\ pc[t] = "read" /\ "read" \in LoadSteps
  BY DEF KeptInv, Typed, ReadFile, ReadError, StatError, LoadSteps
<1>a. PICK d \in Dirs, f \in Files : d = dir[t] /\ f = file[t]
  BY <1>0 DEF Shapes, InOperation
<1>1. /\ disk' = disk /\ original' = original /\ fate' = fate
      /\ currentConfigDir' = currentConfigDir /\ dir' = dir
  BY DEF ReadFile, ReadError, StatError
<1>2. KeepsKept
  BY <1>1 DEF KeepsKept
<1>3. disk[d][f] = original[d][f] \/ Kept(d, f)
  BY DEF KeptInv, UserFilesKept, Kept
<1>4. SeedsSafely(t)'
  <2>1. CASE Parses(disk[d][f]) /\ AfterFile(t)
    <3>1. Editable(d, f)
      BY <1>3, <2>1 DEF Editable
    <3>. QED
      BY <1>0, <1>a, <1>1, <1>2, <2>1, <3>1, AfterFileKept
  <2>2. ASSUME pc' = [pc EXCEPT ![t] = "seed"], file' = file, disk[d][f] = Missing
        PROVE  SeedsSafely(t)'
    <3>1. Kept(d, f)
      BY <1>3, <2>2 DEF Kept
    <3>2. Kept(d, f)' /\ (f = "patterns" => Editable(d, "primitives")')
      BY <1>0, <1>a, <1>2, <3>1, KeptStays DEF SeedsSafely, Files
    <3>3. pc'[t] = "seed" /\ dir'[t] = d /\ file'[t] = f
      BY <1>0, <1>a, <1>1, <2>2 DEF Shapes
    <3>. QED
      BY <3>2, <3>3 DEF SeedsSafely, Critical
  <2>3. ASSUME NEW step \in {"backup", "overwrite"}, pc' = [pc EXCEPT ![t] = step], file' = file
        PROVE  SeedsSafely(t)'
    <3>1. f = "patterns" => Editable(d, "primitives")'
      BY <1>0, <1>a, <1>2, KeptStays DEF SeedsSafely, Files
    <3>2. pc'[t] = step /\ dir'[t] = d /\ file'[t] = f
      BY <1>0, <1>a, <1>1, <2>3 DEF Shapes
    <3>. QED
      BY <3>1, <3>2 DEF SeedsSafely, Critical
  <2>. QED
    BY <1>a, <2>1, <2>2, <2>3 DEF ReadFile, ReadError, StatError
<1>. QED
  BY <1>1, <1>4, QuietKept

\* The file is moved aside, or its place is taken after that.
LEMMA LoadWritesKept ==
  ASSUME KeptInv, NEW t \in Threads, Typed', Apart(t), Backup(t) \/ Seed(t) \/ Seeded(t)
  PROVE  KeptInv'
<1>. USE DEF stateVars, ghostVars
<1>0. Shapes /\ InOperation(t) /\ SeedsSafely(t) /\ pc[t] \in LoadSteps
  BY DEF KeptInv, Typed, Backup, Seed, Seeded, LoadSteps
<1>a. PICK d \in Dirs, f \in Files : d = dir[t] /\ f = file[t]
  BY <1>0 DEF Shapes, InOperation
<1>1. KeepsKept /\ currentConfigDir' = currentConfigDir /\ dir' = dir
  <2>1. CASE fate' = fate
    BY <2>1 DEF Backup, Seed, Seeded, Goto, KeepsKept
  <2>2. CASE \E what \in {"kept", "overwritten"} : Loses(d, f, what)
    BY <1>0, <2>2, LosesIs DEF Backup, Seed, Seeded, Goto, KeepsKept
  <2>. QED
    BY <1>a, <2>1, <2>2 DEF Backup, Seed, Seeded
<1>2. Kept(d, f)'
  <2>1. CASE \E what \in {"kept", "overwritten"} : Loses(d, f, what)
    <3>1. CASE disk[d][f] = original[d][f]
      BY <1>0, <2>1, <3>1, LosesIs DEF Kept
    <3>2. CASE disk[d][f] # original[d][f]
      <4>1. Kept(d, f)
        BY <3>2 DEF KeptInv, UserFilesKept, Kept
      <4>. QED
        BY <1>1, <4>1, KeptStays
    <3>. QED
      BY <3>1, <3>2
  <2>2. CASE pc[t] \in {"seed", "seeded"}
    <3>1. Kept(d, f)
      BY <1>0, <1>a, <2>2 DEF SeedsSafely
    <3>. QED
      BY <1>1, <3>1, KeptStays
  <2>. QED
    BY <1>a, <2>1, <2>2 DEF Backup, Seed, Seeded
<1>3. UserFilesKept'
  <2>1. \E c : disk' = [disk EXCEPT ![d][f] = c]
    BY <1>a DEF Backup, Seed, Seeded
  <2>. QED
    BY <1>1, <1>2, <2>1, PutKept
<1>4. ActiveEditable'
  BY <1>0, <1>1, KeptStays DEF KeptInv, ActiveEditable, Shapes
<1>5. SeedsSafely(t)'
  <2>1. CASE Backup(t) \/ Seed(t)
    <3>1. pc'[t] \in {"seed", "seeded"} /\ dir'[t] = d /\ file'[t] = f
      BY <1>0, <1>a, <2>1 DEF Backup, Seed, Goto, Shapes
    <3>2. f = "patterns" => Editable(d, "primitives")'
      BY <1>0, <1>a, <1>1, KeptStays DEF SeedsSafely, Files
    <3>. QED
      BY <1>2, <3>1, <3>2 DEF SeedsSafely, Critical
  <2>2. CASE Seeded(t)
    <3>1. Editable(dir[t], file[t])
      BY <1>0, <2>2 DEF SeedsSafely, Seeded, Editable
    <3>. QED
      BY <1>0, <1>1, <2>2, <3>1, AfterFileKept DEF Seeded
  <2>. QED
    BY <2>1, <2>2
<1>. QED
  BY <1>1, <1>3, <1>4, <1>5, KeptFrame

LEMMA LoadEndsKept ==
  ASSUME KeptInv, NEW t \in Threads, Typed', Apart(t), LoadFails(t) \/ CommitLoad(t)
  PROVE  KeptInv'
<1>. USE DEF stateVars, ghostVars
<1>0. Shapes /\ InOperation(t) /\ SeedsSafely(t)
  BY DEF KeptInv, Typed
<1>1. pc'[t] = "idle"
  BY <1>0 DEF LoadFails, CommitLoad, Idle, Shapes
<1>2. SeedsSafely(t)'
  BY <1>1 DEF SeedsSafely, LoadSteps, Critical
<1>3. CASE LoadFails(t)
  BY <1>2, <1>3, QuietKept DEF LoadFails
<1>4. CASE CommitLoad(t)
  <2>1. KeepsKept /\ UserFilesKept'
    BY <1>4 DEF CommitLoad, KeepsKept, KeptInv, UserFilesKept
  <2>2. PICK d \in Dirs : d = dir[t]
    BY <1>0, <1>4 DEF CommitLoad, InOperation, LoadSteps
  <2>3. \A f \in Files : Editable(d, f)
    BY <1>0, <1>4, <2>2 DEF CommitLoad, InOperation, SeedsSafely, LoadSteps, Files
  <2>4. ActiveEditable'
    BY <1>4, <2>1, <2>2, <2>3, KeptStays DEF CommitLoad, ActiveEditable
  <2>. QED
    BY <1>2, <2>1, <2>4, KeptFrame
<1>. QED
  BY <1>3, <1>4

LEMMA CrashKept ==
  ASSUME KeptInv, CrashAndRestart
  PROVE  KeptInv'
<1>. USE DEF CrashAndRestart, Start, ghostVars
<1>1. Typed'
  BY CrashTyped DEF KeptInv
<1>2. UserFilesKept'
  BY DEF KeptInv, UserFilesKept
<1>3. ActiveEditable'
  BY DEF ActiveEditable
<1>4. \A t \in Threads : pc'[t] = "idle"
  OBVIOUS
<1>5. \A t \in Threads : SeedsSafely(t)'
  BY <1>4 DEF SeedsSafely, LoadSteps, Critical
<1>. QED
  BY <1>1, <1>2, <1>3, <1>5 DEF KeptInv

LEMMA KeptStutters == KeptInv /\ UNCHANGED vars => KeptInv'
<1>. SUFFICES ASSUME KeptInv, UNCHANGED vars PROVE KeptInv'
  OBVIOUS
<1>. USE DEF vars, stateVars, ghostVars
<1>1. Typed'
  BY TypedStutters DEF KeptInv
<1>2. KeepsKept /\ UserFilesKept'
  BY DEF KeptInv, UserFilesKept, KeepsKept
<1>3. ActiveEditable'
  BY DEF KeptInv, ActiveEditable, Editable, Kept
<1>4. \A t \in Threads : SeedsSafely(t)'
  BY DEF KeptInv, SeedsSafely, Editable, Kept
<1>. QED
  BY <1>1, <1>2, <1>3, <1>4 DEF KeptInv

LEMMA NextKept == KeptInv /\ [Next]_vars => KeptInv'
<1>. SUFFICES ASSUME KeptInv, [Next]_vars PROVE KeptInv'
  OBVIOUS
<1>0. Typed
  BY DEF KeptInv
<1>1. ASSUME NEW t \in Threads, NEW o \in Operation, BeginAdmin(t, o) PROVE KeptInv'
  BY <1>0, <1>1, StepTyped, AdminKept
<1>2. ASSUME NEW t \in Threads, NEW kind \in Loads, NEW d \in Dirs, BeginLoad(t, kind, d)
      PROVE  KeptInv'
  BY <1>0, <1>2, StepTyped, BeginLoadKept
<1>3. ASSUME NEW t \in Threads, AdminStep(t) PROVE KeptInv'
  BY <1>0, <1>3, StepTyped, AdminKept, RenameKept
<1>4. ASSUME NEW t \in Threads, LoadStep(t) PROVE KeptInv'
  <2>1. Typed' /\ Apart(t)
    BY <1>0, <1>4, StepTyped
  <2>. QED
    BY <1>4, <2>1, ReadKept, LoadWritesKept, LoadEndsKept DEF LoadStep
<1>. QED
  BY <1>1, <1>2, <1>3, <1>4, CrashKept, KeptStutters DEF Next

\* The inductive invariant, whichever of LoadConfig and ResetConfig run beside
\* other operations: types and the lock, where the user's files are, and that an
\* edit replaces, and a load seeds, only a file whose content is kept, unless it
\* is a reset whose os.Stat failed on it (config.go 66-156, 158-220,
\* library_admin.go 64-284).
THEOREM StoreInvariant == Spec => []KeptInv
<1>. QED
  BY InitKept, NextKept, PTL DEF Spec

\* What the user had in a file before the first start is in the file or in a
\* backup, or it parsed and an edit took it over, or a reset could not look at it
\* and overwrote it (config.go 112): in every state, with loads and resets running
\* beside edits or not, through failed file operations and crashes (config.go
\* 37-42).
THEOREM UserFilesAreKept == Spec => []UserFilesKept
<1>1. KeptInv => UserFilesKept
  BY DEF KeptInv
<1>. QED
  BY <1>1, StoreInvariant, PTL

-----------------------------------------------------------------------------
(***************************************************************************)
(* Edits and loads, where loads run alone                                  *)
(***************************************************************************)
\* A step that puts nothing in place of anything, in any file or in memory.
LEMMA QuietEdits ==
  ASSUME EditsInv, NEW t \in Threads, Typed', Apart(t), LoadsAlone',
         EditStep(t)', LoadStepKeeps(t)',
         disk' = disk, mem' = mem, currentConfigDir' = currentConfigDir, acked' \subseteq acked
  PROVE  EditsInv'
<1>1. ASSUME NEW s \in Threads, s # t PROVE EditStep(s)' /\ LoadStepKeeps(s)'
  <2>1. EditStep(s) /\ LoadStepKeeps(s)
    BY DEF EditsInv
  <2>2. /\ pc'[s] = pc[s] /\ op'[s] = op[s] /\ dir'[s] = dir[s]
        /\ file'[s] = file[s] /\ data'[s] = data[s]
    BY <1>1 DEF Apart
  <2>3. EditStep(s)'
    BY <2>1, <2>2 DEF EditStep, AckedAt
  <2>4. LoadStepKeeps(s)'
    BY <2>1, <2>2 DEF LoadStepKeeps, AckedAt, Past
  <2>. QED
    BY <2>3, <2>4
<1>2. EditsSurvive'
  BY DEF EditsInv, EditsSurvive, EditsInMemory, OnDisk
<1>. QED
  BY <1>1, <1>2 DEF EditsInv

\* A step of the thread that has the lock, or of one that loads.
LEMMA AloneEdits ==
  ASSUME EditsInv, NEW t \in Threads, pc[t] \in Critical \cup LoadSteps,
         Typed', Apart(t), LoadsAlone', EditStep(t)', LoadStepKeeps(t)', EditsSurvive'
  PROVE  EditsInv'
<1>1. ASSUME NEW s \in Threads, s # t PROVE EditStep(s)' /\ LoadStepKeeps(s)'
  <2>1. pc[s] \notin Critical \cup LoadSteps
    <3>1. pc[t] # "idle" /\ "idle" \notin Critical
      BY DEF Critical, LoadSteps
    <3>2. pc[s] \notin LoadSteps
      BY <1>1, <3>1 DEF EditsInv, LoadsAlone
    <3>3. pc[s] \notin Critical
      BY <1>1, <3>1 DEF EditsInv, LoadsAlone, Typed, LockHeld
    <3>. QED
      BY <3>2, <3>3
  <2>2. pc'[s] = pc[s]
    BY <1>1 DEF Apart
  <2>. QED
    BY <2>1, <2>2 DEF EditStep, LoadStepKeeps, Critical
<1>. QED
  BY <1>1 DEF EditsInv

\* An operation that goes on, or returns.
LEMMA GoesOnAlone ==
  ASSUME LoadsAlone, NEW t \in Threads, Apart(t), pc[t] # "idle",
         pc'[t] \in LoadSteps => pc[t] \in LoadSteps
  PROVE  LoadsAlone'
BY DEF LoadsAlone, Apart

\* What a thread that is at no step of its own on files or memory must show.
LEMMA OutsideEdits ==
  ASSUME NEW t \in Threads, pc'[t] \in {"idle", "validate", "lock", "dir"}
  PROVE  EditStep(t)' /\ LoadStepKeeps(t)'
BY DEF EditStep, LoadStepKeeps, Critical, LoadSteps

LEMMA BeginAdminEdits ==
  ASSUME Overlapping = {}, EditsInv, NEW t \in Threads, Typed', Apart(t),
         NEW o \in Operation, BeginAdmin(t, o)
  PROVE  EditsInv'
<1>. USE DEF BeginAdmin, stateVars, ghostVars
<1>1. pc'[t] \in {"validate", "lock"}
  BY DEF EditsInv, Typed, Shapes
<1>2. \A s \in Threads : pc[s] \notin LoadSteps
  <2>. TAKE s \in Threads
  <2>1. pc[s] \in LoadSteps => pc[s] # "idle" /\ op[s].kind \in Loads
    BY DEF EditsInv, Typed, InOperation, LoadSteps
  <2>2. pc[s] # "idle" => op[s].kind \notin Loads
    BY DEF MayBegin
  <2>. QED
    BY <2>1, <2>2
<1>3. LoadsAlone'
  BY <1>1, <1>2 DEF LoadsAlone, Apart, LoadSteps
<1>. QED
  BY <1>1, <1>3, OutsideEdits, QuietEdits

\* The steps of an admin operation that touch neither the files nor memory.
LEMMA QuietAdminEdits ==
  ASSUME EditsInv, NEW t \in Threads, Typed', Apart(t),
         Validate(t) \/ Lock(t) \/ ReadDir(t) \/ PersistFails(t) \/ WriteTmp(t)
  PROVE  EditsInv'
<1>. USE DEF Validate, Lock, ReadDir, PersistFails, WriteTmp, stateVars, ghostVars
<1>0. Shapes /\ EditStep(t) /\ LoadsAlone
  BY DEF EditsInv, Typed
<1>1. pc[t] # "idle" /\ disk' = disk /\ mem' = mem /\ currentConfigDir' = currentConfigDir
      /\ acked' = acked
  OBVIOUS
<1>2. \/ pc'[t] \in {"idle", "lock", "dir"}
      \/ pc'[t] = "snapshot" /\ dir'[t] = currentConfigDir
      \/ /\ pc[t] = "writeTmp" /\ pc'[t] = "rename"
         /\ op'[t] = op[t] /\ dir'[t] = dir[t] /\ file'[t] = file[t] /\ data'[t] = data[t]
  BY <1>0 DEF Idle, Goto, Shapes
<1>3. LoadsAlone'
  BY <1>0, <1>1, <1>2, GoesOnAlone DEF LoadSteps
<1>4. EditStep(t)' /\ LoadStepKeeps(t)'
  <2>1. CASE pc'[t] \in {"idle", "lock", "dir"}
    BY <2>1, OutsideEdits
  <2>2. CASE pc'[t] = "snapshot" /\ dir'[t] = currentConfigDir
    BY <1>1, <2>2 DEF EditStep, LoadStepKeeps, LoadSteps
  <2>3. CASE /\ pc[t] = "writeTmp" /\ pc'[t] = "rename"
             /\ op'[t] = op[t] /\ dir'[t] = dir[t] /\ file'[t] = file[t] /\ data'[t] = data[t]
    <3>1. EditStep(t)'
      BY <1>0, <1>1, <2>3 DEF EditStep, AckedAt, Critical
    <3>2. LoadStepKeeps(t)'
      BY <2>3 DEF LoadStepKeeps, LoadSteps
    <3>. QED
      BY <3>1, <3>2
  <2>. QED
    BY <1>2, <2>1, <2>2, <2>3
<1>. QED
  BY <1>1, <1>3, <1>4, QuietEdits

\* What an acknowledged edit promises, of a directory and a file.
Survives(a, d, f) ==
  a[2] \in disk[d][f] /\ Parses(disk[d][f]) /\ (currentConfigDir = d => a[2] \in mem[f])

LEMMA AcknowledgedSurvive ==
  ASSUME EditsSurvive, NEW d \in Dirs, NEW f \in Files, NEW a \in AckedAt(d, f)
  PROVE  Survives(a, d, f)
BY DEF EditsSurvive, EditsInMemory, OnDisk, AckedAt, Survives

\* Where an edit starts from the active content, it keeps what the edits before
\* it have left there.
LEMMA SnapshotEdits ==
  ASSUME EditsInv, NEW t \in Threads, Typed', Apart(t), Snapshot(t)
  PROVE  EditsInv'
<1>. USE DEF stateVars
<1>0. Shapes /\ InOperation(t) /\ EditStep(t) /\ LoadsAlone /\ EditsSurvive /\ pc[t] = "snapshot"
  BY DEF EditsInv, Typed, Snapshot
<1>a. PICK d \in Dirs, f \in Files : d = dir[t] /\ f = file[t]
  BY <1>0 DEF Shapes, InOperation, Critical
<1>1. /\ disk' = disk /\ mem' = mem /\ currentConfigDir' = currentConfigDir
      /\ acked' \subseteq acked /\ currentConfigDir = d
  BY <1>0, <1>a DEF Snapshot, EditStep, Critical
<1>2. CASE Idle(t)
  <2>1. pc'[t] = "idle"
    BY <1>0, <1>2 DEF Idle, Shapes
  <2>. QED
    BY <1>0, <1>1, <2>1, GoesOnAlone, OutsideEdits, QuietEdits DEF LoadSteps
<1>3. CASE /\ pc' = [pc EXCEPT ![t] = "writeTmp"]
           /\ data' = [data EXCEPT ![t][f] = Edited(op[t], mem[f])]
           /\ acked' = {a \in acked : a[1] = d => Name[a[2]] # Name[op[t].item]
                                                  \/ FileOf(a[2]) # f}
           /\ UNCHANGED <<op, dir, file>>
  <2>1. /\ pc'[t] = "writeTmp" /\ op' = op /\ dir'[t] = d /\ file'[t] = f
        /\ data'[t][f] = Edited(op[t], mem[f])
    <3>1. data[t] \in Tables
      BY <1>0 DEF Shapes
    <3>. QED
      BY <1>0, <1>a, <1>3, <3>1 DEF Shapes, Tables
  <2>2. ASSUME NEW a \in AckedAt(d, f)' PROVE a[2] \in Edited(op[t], mem[f])
    <3>1. a \in AckedAt(d, f) /\ Name[a[2]] # Name[op[t].item]
      BY <1>3, <2>2 DEF AckedAt
    <3>2. a[2] \in mem[f]
      BY <1>0, <1>1, <3>1, AcknowledgedSurvive DEF Survives
    <3>. QED
      BY <3>1, <3>2 DEF Edited, Upsert
  <2>3. op[t].kind = "upsert" => op[t].item \in Edited(op[t], mem[f])
    BY DEF Edited, Upsert
  <2>4. EditStep(t)'
    BY <1>1, <2>1, <2>2, <2>3 DEF EditStep
  <2>5. LoadStepKeeps(t)' /\ pc'[t] \notin LoadSteps
    BY <2>1 DEF LoadStepKeeps, LoadSteps
  <2>. QED
    BY <1>0, <1>1, <2>4, <2>5, GoesOnAlone, QuietEdits
<1>. QED
  BY <1>a, <1>2, <1>3 DEF Snapshot

\* A step of one directory and file, where every acknowledged edit of theirs
\* holds again after it.
LEMMA SurviveAt ==
  ASSUME EditsInv, NEW d \in Dirs, NEW f \in Files, acked' = acked,
         \A e \in Dirs, g \in Files : ~ (e = d /\ g = f) =>
           /\ disk'[e][g] = disk[e][g]
           /\ currentConfigDir' = e => currentConfigDir = e /\ mem'[g] = mem[g],
         \A a \in AckedAt(d, f) : Survives(a, d, f)'
  PROVE  EditsSurvive'
<1>1. ASSUME NEW a \in acked'
      PROVE  /\ Parses(disk'[a[1]][FileOf(a[2])]) /\ a[2] \in disk'[a[1]][FileOf(a[2])]
             /\ currentConfigDir' = a[1] => a[2] \in mem'[FileOf(a[2])]
  <2>1. a \in acked /\ a[1] \in Dirs /\ FileOf(a[2]) \in Files
    BY <1>1, FileNamed DEF EditsInv, Typed, Shapes
  <2>2. PICK e \in Dirs, g \in Files : e = a[1] /\ g = FileOf(a[2])
    BY <2>1
  <2>3. a \in AckedAt(e, g)
    BY <2>1, <2>2 DEF AckedAt
  <2>4. CASE e = d /\ g = f
    BY <2>2, <2>3, <2>4 DEF Survives
  <2>5. CASE ~ (e = d /\ g = f)
    BY <2>2, <2>3, <2>5, AcknowledgedSurvive DEF EditsInv, Survives
  <2>. QED
    BY <2>4, <2>5
<1>. QED
  BY <1>1 DEF EditsSurvive, EditsInMemory, OnDisk

Puts(d, f, c) == disk' = [disk EXCEPT ![d][f] = c]

\* The other files stay as they are.
LEMMA OthersStay ==
  ASSUME disk \in [Dirs -> Disks], NEW d \in Dirs, NEW f \in Files, NEW c, Puts(d, f, c)
  PROVE  /\ disk'[d][f] = c
         /\ \A e \in Dirs, g \in Files : ~ (e = d /\ g = f) => disk'[e][g] = disk[e][g]
<1>1. \A e \in Dirs : disk[e] \in Disks
  OBVIOUS
<1>. QED
  BY <1>1 DEF Disks, Puts

LEMMA RenameEdits ==
  ASSUME EditsInv, NEW t \in Threads, Typed', Apart(t), Rename(t)
  PROVE  EditsInv'
<1>. USE DEF stateVars
<1>0. /\ Shapes /\ InOperation(t) /\ EditStep(t) /\ LoadsAlone /\ EditsSurvive
      /\ pc[t] = "rename" /\ pc[t] \in Critical
  BY DEF EditsInv, Typed, Rename, Critical
<1>a. PICK d \in Dirs, f \in Files : d = dir[t] /\ f = file[t]
  BY <1>0 DEF Shapes, InOperation, Critical
<1>1. /\ disk' = [disk EXCEPT ![d][f] = data[t][f]]
      /\ mem' = mem /\ currentConfigDir' = currentConfigDir /\ acked' = acked
      /\ pc'[t] = "publish" /\ op' = op /\ dir' = dir /\ file' = file /\ data' = data
  BY <1>0, <1>a DEF Rename, Goto, Shapes
<1>2. /\ disk'[d][f] = data[t][f]
      /\ \A e \in Dirs, g \in Files : ~ (e = d /\ g = f) => disk'[e][g] = disk[e][g]
  <2>1. PICK c : c = data[t][f] /\ Puts(d, f, c)
    BY <1>1 DEF Puts
  <2>. QED
    BY <1>0, <2>1, OthersStay DEF Shapes
<1>3. /\ d = currentConfigDir /\ (\A a \in AckedAt(d, f) : a[2] \in data[t][f])
      /\ op[t].kind = "upsert" => op[t].item \in data[t][f]
  BY <1>0, <1>a DEF EditStep, Critical
<1>4. Parses(data[t][f])
  BY <1>0, ContentsParse DEF Shapes
<1>5. \A a \in AckedAt(d, f) : Survives(a, d, f)'
  <2>. TAKE a \in AckedAt(d, f)
  <2>1. Survives(a, d, f)
    BY <1>0, AcknowledgedSurvive
  <2>. QED
    BY <1>1, <1>2, <1>3, <1>4, <2>1 DEF Survives
<1>6. EditsSurvive'
  BY <1>1, <1>2, <1>5, SurviveAt
<1>7. EditStep(t)'
  BY <1>a, <1>1, <1>2, <1>3 DEF EditStep, AckedAt
<1>8. LoadStepKeeps(t)' /\ pc'[t] \notin LoadSteps /\ pc[t] # "idle"
  BY <1>0, <1>1 DEF LoadStepKeeps, LoadSteps
<1>. QED
  BY <1>0, <1>6, <1>7, <1>8, GoesOnAlone, AloneEdits

LEMMA PublishEditEdits ==
  ASSUME EditsInv, NEW t \in Threads, Typed', Apart(t), PublishEdit(t)
  PROVE  EditsInv'
<1>. USE DEF ghostVars
<1>0. /\ Shapes /\ InOperation(t) /\ EditStep(t) /\ LoadsAlone /\ EditsSurvive
      /\ pc[t] = "publish" /\ pc[t] \in Critical
  BY DEF EditsInv, Typed, PublishEdit, Critical
<1>a. PICK d \in Dirs, f \in Files : d = dir[t] /\ f = file[t]
  BY <1>0 DEF Shapes, InOperation, Critical
<1>1. /\ mem' = [mem EXCEPT ![f] = data[t][f]]
      /\ disk' = disk /\ currentConfigDir' = currentConfigDir /\ acked' = acked
      /\ pc'[t] = "unlock" /\ op' = op /\ dir' = dir /\ file' = file /\ data' = data
  BY <1>0, <1>a DEF PublishEdit, Goto, Shapes
<1>2. mem'[f] = data[t][f] /\ (\A g \in Files : g # f => mem'[g] = mem[g])
  BY <1>0, <1>1 DEF Shapes, Tables
<1>3. /\ d = currentConfigDir /\ (\A a \in AckedAt(d, f) : a[2] \in data[t][f])
      /\ op[t].kind = "upsert" => op[t].item \in data[t][f]
      /\ disk[d][f] = data[t][f]
  BY <1>0, <1>a DEF EditStep, Critical
<1>5. \A a \in AckedAt(d, f) : Survives(a, d, f)'
  <2>. TAKE a \in AckedAt(d, f)
  <2>1. Survives(a, d, f)
    BY <1>0, AcknowledgedSurvive
  <2>. QED
    BY <1>1, <1>2, <1>3, <2>1 DEF Survives
<1>6. EditsSurvive'
  <2>1. \A e \in Dirs, g \in Files : ~ (e = d /\ g = f) =>
          /\ disk'[e][g] = disk[e][g]
          /\ currentConfigDir' = e => currentConfigDir = e /\ mem'[g] = mem[g]
    BY <1>1, <1>2, <1>3
  <2>. QED
    BY <1>1, <1>5, <2>1, SurviveAt
<1>7. EditStep(t)'
  BY <1>a, <1>1, <1>2, <1>3 DEF EditStep
<1>8. LoadStepKeeps(t)' /\ pc'[t] \notin LoadSteps /\ pc[t] # "idle"
  BY <1>0, <1>1 DEF LoadStepKeeps, LoadSteps
<1>. QED
  BY <1>0, <1>6, <1>7, <1>8, GoesOnAlone, AloneEdits

\* The edit is reported as done.
LEMMA UnlockEdits ==
  ASSUME EditsInv, NEW t \in Threads, Typed', Apart(t), Unlock(t)
  PROVE  EditsInv'
<1>. USE DEF stateVars
<1>0. /\ Shapes /\ InOperation(t) /\ EditStep(t) /\ LoadsAlone /\ EditsSurvive
      /\ pc[t] = "unlock" /\ pc[t] \in Critical
  BY DEF EditsInv, Typed, Unlock, Critical
<1>a. PICK d \in Dirs, f \in Files : d = dir[t] /\ f = file[t]
  BY <1>0 DEF Shapes, InOperation, Critical
<1>1. /\ mem' = mem /\ disk' = disk /\ currentConfigDir' = currentConfigDir
      /\ pc'[t] = "idle"
      /\ acked' = IF op[t].kind = "upsert" THEN acked \cup {<<d, op[t].item>>} ELSE acked
  BY <1>0, <1>a DEF Unlock, Idle, Shapes
<1>2. /\ disk[d][f] = mem[f] /\ (op[t].kind = "upsert" => op[t].item \in mem[f])
      /\ f = FileOf(op[t].item)
  BY <1>0, <1>a DEF EditStep, InOperation, AdminSteps, Critical
<1>3. Parses(mem[f])
  BY <1>0, ContentsParse DEF Shapes
<1>4. EditsSurvive'
  <2>. SUFFICES ASSUME NEW a \in acked'
                PROVE  /\ Parses(disk[a[1]][FileOf(a[2])]) /\ a[2] \in disk[a[1]][FileOf(a[2])]
                       /\ currentConfigDir = a[1] => a[2] \in mem[FileOf(a[2])]
    BY <1>1 DEF EditsSurvive, EditsInMemory, OnDisk
  <2>1. CASE a \in acked
    BY <1>0, <2>1 DEF EditsSurvive, EditsInMemory, OnDisk
  <2>2. CASE op[t].kind = "upsert" /\ a = <<d, op[t].item>>
    BY <1>2, <1>3, <2>2
  <2>. QED
    BY <1>1, <2>1, <2>2
<1>5. pc'[t] \notin LoadSteps /\ pc[t] # "idle"
  BY <1>0, <1>1 DEF LoadSteps
<1>. QED
  BY <1>0, <1>1, <1>4, <1>5, OutsideEdits, GoesOnAlone, AloneEdits

LEMMA BeginLoadEdits ==
  ASSUME Overlapping = {}, EditsInv, NEW t \in Threads, Typed', Apart(t),
         NEW kind \in Loads, NEW d \in Dirs, BeginLoad(t, kind, d)
  PROVE  EditsInv'
<1>. USE DEF BeginLoad, stateVars
<1>0. Shapes /\ InOperation(t)
  BY DEF EditsInv, Typed
<1>1. /\ pc'[t] = "read" /\ dir'[t] = d /\ file'[t] = "primitives" /\ op'[t].kind = kind
      /\ acked' = IF kind = "reset" THEN {a \in acked : a[1] # d} ELSE acked
  BY <1>0 DEF Shapes, InOperation
<1>2. \A s \in Threads : pc[s] = "idle"
  BY DEF MayBegin
<1>3. LoadsAlone'
  BY <1>2 DEF LoadsAlone, Apart, LoadSteps
<1>4. EditStep(t)'
  BY <1>1 DEF EditStep, Critical
<1>5. LoadStepKeeps(t)'
  <2>1. kind = "reset" => \A f \in Files : AckedAt(d, f)' = {}
    BY <1>1 DEF AckedAt
  <2>. QED
    BY <1>1, <2>1 DEF LoadStepKeeps, Past
<1>. QED
  BY <1>1, <1>3, <1>4, <1>5, QuietEdits

\* A load takes what a file holds, or is about to replace a file that no edit
\* reported as done is in.
LEMMA ReadEdits ==
  ASSUME EditsInv, NEW t \in Threads, Typed', Apart(t), ReadFile(t) \/ ReadError(t) \/ StatError(t)
  PROVE  EditsInv'
<1>. USE DEF stateVars, ghostVars
<1>0. /\ Shapes /\ InOperation(t) /\ LoadStepKeeps(t) /\ LoadsAlone /\ EditsSurvive
      /\ pc[t] = "read" /\ pc[t] \in LoadSteps /\ pc[t] # "idle"
  BY DEF EditsInv, Typed, ReadFile, ReadError, StatError, LoadSteps
<1>a. PICK d \in Dirs, f \in Files : d = dir[t] /\ f = file[t]
  BY <1>0 DEF Shapes, InOperation
<1>1. /\ disk' = disk /\ mem' = mem /\ currentConfigDir' = currentConfigDir
      /\ dir' = dir /\ op' = op /\ acked' \subseteq acked
  BY DEF ReadFile, ReadError, StatError
<1>2. /\ op[t].kind = "reset" => \A g \in Files : AckedAt(d, g) = {}
      /\ f = "patterns" => disk[d]["primitives"] = data[t]["primitives"]
  BY <1>0, <1>a DEF LoadStepKeeps, Past, Files
<1>3. f \in {"primitives", "patterns"} /\ data[t] \in Tables /\ op[t].kind \in Loads
  BY <1>0 DEF Files, Shapes, InOperation
<1>4. \A g \in Files : AckedAt(d, g)' \subseteq AckedAt(d, g)
  BY <1>1 DEF AckedAt
<1>5. LoadStepKeeps(t)' /\ pc'[t] \in LoadSteps
  <2>1. ASSUME op[t].kind = "load", data' = [data EXCEPT ![t][f] = disk[d][f]], AfterFile(t)
        PROVE  LoadStepKeeps(t)' /\ pc'[t] \in LoadSteps
    <3>1. /\ data'[t][f] = disk[d][f] /\ (\A g \in Files : g # f => data'[t][g] = data[t][g])
          /\ dir'[t] = d /\ op'[t].kind = "load"
      BY <1>0, <1>a, <1>1, <1>3, <2>1 DEF Shapes, Tables
    <3>2. /\ file'[t] = "patterns" /\ pc'[t] \in {"read", "commit"}
          /\ pc'[t] = "commit" => f = "patterns"
      BY <1>0, <1>a, <2>1, AfterFileTyped DEF Shapes
    <3>3. \A g \in Files : Past(t, g)' => disk[d][g] = data'[t][g]
      BY <1>2, <1>3, <3>1, <3>2 DEF Past, Files
    <3>4. pc'[t] \in LoadSteps
      BY <3>2 DEF LoadSteps
    <3>. QED
      BY <1>1, <3>1, <3>2, <3>3, <3>4 DEF LoadStepKeeps
  <2>2. ASSUME data' = [data EXCEPT ![t][f] = Embedded[f]], file' = file,
               NEW step \in {"seed", "backup", "overwrite"}, pc' = [pc EXCEPT ![t] = step],
               AckedAt(d, f)' = {}
        PROVE  LoadStepKeeps(t)' /\ pc'[t] \in LoadSteps
    <3>1. /\ data'[t][f] = Embedded[f] /\ (\A g \in Files : g # f => data'[t][g] = data[t][g])
          /\ dir'[t] = d /\ file'[t] = f /\ op'[t] = op[t] /\ pc'[t] = step
      BY <1>0, <1>a, <1>1, <1>3, <2>2 DEF Shapes, Tables
    <3>2. \A g \in Files : Past(t, g)' => disk[d][g] = data'[t][g]
      BY <1>2, <1>3, <3>1 DEF Past, Files
    <3>3. op[t].kind = "reset" => \A g \in Files : AckedAt(d, g)' = {}
      BY <1>2, <1>4
    <3>4. pc'[t] \in LoadSteps
      BY <3>1 DEF LoadSteps
    <3>. QED
      BY <1>1, <2>2, <3>1, <3>2, <3>3, <3>4 DEF LoadStepKeeps
  <2>3. CASE ReadFile(t)
    <3>1. ~ (op[t].kind = "load" /\ Parses(disk[d][f])) => AckedAt(d, f) = {}
      BY <1>0, <1>2, <1>3, AcknowledgedSurvive DEF Survives, Loads
    <3>. QED
      BY <1>a, <1>4, <2>1, <2>2, <2>3, <3>1 DEF ReadFile
  <2>4. CASE ReadError(t)
    <3>1. AckedAt(d, f)' = {}
      BY <1>a, <2>4 DEF ReadError, AckedAt
    <3>. QED
      BY <1>a, <2>2, <2>4, <3>1 DEF ReadError
  <2>5. CASE StatError(t)
    <3>1. AckedAt(d, f)' = {}
      BY <1>2, <1>4, <2>5 DEF StatError
    <3>. QED
      BY <1>a, <2>2, <2>5, <3>1 DEF StatError
  <2>. QED
    BY <2>3, <2>4, <2>5
<1>6. EditStep(t)'
  BY <1>5 DEF EditStep, LoadSteps, Critical
<1>. QED
  BY <1>0, <1>1, <1>5, <1>6, GoesOnAlone, QuietEdits

\* The file a load moves aside, or writes, is one that no edit reported as done
\* is in.
LEMMA LoadWritesEdits ==
  ASSUME EditsInv, NEW t \in Threads, Typed', Apart(t), Backup(t) \/ Seed(t) \/ Seeded(t)
  PROVE  EditsInv'
<1>. USE DEF stateVars, ghostVars
<1>0. /\ Shapes /\ InOperation(t) /\ LoadStepKeeps(t) /\ LoadsAlone /\ EditsSurvive
      /\ pc[t] \in {"backup", "seed", "overwrite", "seeded"} /\ pc[t] \in LoadSteps
      /\ pc[t] # "idle"
  BY DEF EditsInv, Typed, Backup, Seed, Seeded, LoadSteps
<1>a. PICK d \in Dirs, f \in Files : d = dir[t] /\ f = file[t]
  BY <1>0 DEF Shapes, InOperation
<1>1. /\ mem' = mem /\ currentConfigDir' = currentConfigDir
      /\ dir' = dir /\ op' = op /\ data' = data /\ acked' = acked
  BY DEF Backup, Seed, Seeded, Goto
<1>2. /\ op[t].kind = "reset" => \A g \in Files : AckedAt(d, g) = {}
      /\ AckedAt(d, f) = {} /\ data[t][f] = Embedded[f]
      /\ f = "patterns" => disk[d]["primitives"] = data[t]["primitives"]
  BY <1>0, <1>a DEF LoadStepKeeps, Past, Files
<1>3. f \in {"primitives", "patterns"}
  BY DEF Files
<1>4. PICK c : Puts(d, f, c) /\ (Seeded(t) => c = Embedded[f])
  BY <1>a DEF Backup, Seed, Seeded, Puts
<1>5. /\ disk'[d][f] = c
      /\ \A e \in Dirs, g \in Files : ~ (e = d /\ g = f) => disk'[e][g] = disk[e][g]
  BY <1>0, <1>4, OthersStay DEF Shapes
<1>6. EditsSurvive'
  BY <1>1, <1>2, <1>5, SurviveAt
<1>7. \A g \in Files : AckedAt(d, g)' = AckedAt(d, g)
  BY <1>1 DEF AckedAt
<1>8. LoadStepKeeps(t)' /\ pc'[t] \in LoadSteps
  <2>1. CASE Backup(t) \/ Seed(t)
    <3>1. pc'[t] \in {"seed", "seeded"} /\ dir'[t] = d /\ file'[t] = f
      BY <1>0, <1>a, <2>1 DEF Backup, Seed, Goto, Shapes
    <3>2. \A g \in Files : Past(t, g)' => disk'[d][g] = data[t][g]
      BY <1>2, <1>3, <1>5, <3>1 DEF Past, Files
    <3>3. pc'[t] \in LoadSteps
      BY <3>1 DEF LoadSteps
    <3>. QED
      BY <1>1, <1>2, <1>7, <3>1, <3>2, <3>3 DEF LoadStepKeeps
  <2>2. CASE Seeded(t)
    <3>1. /\ file'[t] = "patterns" /\ pc'[t] \in {"read", "commit"} /\ dir'[t] = d
          /\ pc'[t] = "commit" => f = "patterns"
      BY <1>0, <1>a, <1>1, <2>2, AfterFileTyped DEF Seeded, Shapes
    <3>2. \A g \in Files : Past(t, g)' => disk'[d][g] = data[t][g]
      BY <1>2, <1>3, <1>4, <1>5, <2>2, <3>1 DEF Past, Files
    <3>3. pc'[t] \in LoadSteps
      BY <3>1 DEF LoadSteps
    <3>. QED
      BY <1>1, <1>2, <1>7, <3>1, <3>2, <3>3 DEF LoadStepKeeps
  <2>. QED
    BY <2>1, <2>2
<1>9. EditStep(t)'
  BY <1>8 DEF EditStep, LoadSteps, Critical
<1>. QED
  BY <1>0, <1>6, <1>8, <1>9, GoesOnAlone, AloneEdits

LEMMA LoadFailsEdits ==
  ASSUME EditsInv, NEW t \in Threads, Typed', Apart(t), LoadFails(t)
  PROVE  EditsInv'
<1>. USE DEF LoadFails, stateVars, ghostVars
<1>1. pc'[t] = "idle" /\ pc[t] # "idle" /\ LoadsAlone
  BY DEF Idle, EditsInv, Typed, Shapes
<1>2. LoadsAlone'
  BY <1>1, GoesOnAlone DEF LoadSteps
<1>. QED
  BY <1>1, <1>2, OutsideEdits, QuietEdits

\* A load commits what both files of its directory hold.
LEMMA CommitInstalls ==
  ASSUME EditsInv, NEW t \in Threads, CommitLoad(t)
  PROVE  mem' = disk'[dir[t]] /\ currentConfigDir' = dir[t] /\ dir[t] \in Dirs
<1>0. Shapes /\ InOperation(t) /\ LoadStepKeeps(t) /\ pc[t] = "commit" /\ pc[t] \in LoadSteps
  BY DEF EditsInv, Typed, CommitLoad, LoadSteps
<1>a. PICK d \in Dirs : d = dir[t]
  BY <1>0 DEF InOperation
<1>1. \A f \in Files : disk[d][f] = data[t][f]
  BY <1>0, <1>a DEF LoadStepKeeps, Past
<1>2. disk[d] \in Disks /\ data[t] \in Tables
  BY <1>0 DEF Shapes
<1>3. disk[d] = data[t]
  BY <1>1, <1>2 DEF Disks, Tables
<1>. QED
  BY <1>a, <1>3 DEF CommitLoad

LEMMA CommitLoadEdits ==
  ASSUME EditsInv, NEW t \in Threads, Typed', Apart(t), CommitLoad(t)
  PROVE  EditsInv'
<1>. USE DEF ghostVars
<1>0. Shapes /\ LoadsAlone /\ EditsSurvive /\ pc[t] \in LoadSteps /\ pc[t] # "idle"
  BY DEF EditsInv, Typed, CommitLoad, LoadSteps
<1>a. PICK d \in Dirs : d = dir[t]
  BY CommitInstalls
<1>1. /\ mem' = disk[d] /\ currentConfigDir' = d /\ disk' = disk /\ acked' = acked
      /\ pc'[t] = "idle"
  BY <1>0, <1>a, CommitInstalls DEF CommitLoad, Idle, Shapes
<1>2. EditsSurvive'
  BY <1>0, <1>1 DEF EditsSurvive, EditsInMemory, OnDisk
<1>3. LoadsAlone'
  BY <1>0, <1>1, GoesOnAlone DEF LoadSteps
<1>. QED
  BY <1>0, <1>1, <1>2, <1>3, OutsideEdits, AloneEdits

\* What a crash leaves: the files, and nothing else that a step depends on.
LEMMA CrashEdits ==
  ASSUME EditsInv, CrashAndRestart
  PROVE  EditsInv'
<1>. USE DEF CrashAndRestart, Start, ghostVars
<1>1. Typed'
  BY CrashTyped DEF EditsInv
<1>2. \A t \in Threads : pc'[t] = "idle"
  OBVIOUS
<1>3. \A t \in Threads : EditStep(t)' /\ LoadStepKeeps(t)'
  BY <1>2, OutsideEdits
<1>4. LoadsAlone'
  BY <1>2 DEF LoadsAlone, LoadSteps
<1>5. EditsSurvive'
  <2>1. \A a \in acked : a[1] # NoDir
    BY ConfigAssumption DEF EditsInv, Typed, Shapes
  <2>. QED
    BY <2>1 DEF EditsInv, EditsSurvive, EditsInMemory, OnDisk
<1>. QED
  BY <1>1, <1>3, <1>4, <1>5 DEF EditsInv

LEMMA EditsStutter == EditsInv /\ UNCHANGED vars => EditsInv'
<1>. SUFFICES ASSUME EditsInv, UNCHANGED vars PROVE EditsInv'
  OBVIOUS
<1>. USE DEF vars, stateVars, ghostVars
<1>1. Typed'
  BY TypedStutters DEF EditsInv
<1>2. LoadsAlone' /\ EditsSurvive'
  BY DEF EditsInv, LoadsAlone, EditsSurvive, EditsInMemory, OnDisk
<1>3. \A t \in Threads : EditStep(t)' /\ LoadStepKeeps(t)'
  BY DEF EditsInv, EditStep, LoadStepKeeps, AckedAt, Past
<1>. QED
  BY <1>1, <1>2, <1>3 DEF EditsInv

LEMMA InitEdits == Init => EditsInv
<1>. SUFFICES ASSUME Init PROVE EditsInv
  OBVIOUS
<1>1. \A t \in Threads : pc[t] = "idle"
  BY DEF Init
<1>2. \A t \in Threads : EditStep(t) /\ LoadStepKeeps(t)
  BY <1>1 DEF EditStep, LoadStepKeeps, Critical, LoadSteps
<1>3. LoadsAlone /\ EditsSurvive
  BY <1>1 DEF Init, LoadsAlone, LoadSteps, EditsSurvive, EditsInMemory, OnDisk
<1>. QED
  BY <1>2, <1>3, InitTyped DEF EditsInv

LEMMA NextEdits ==
  ASSUME Overlapping = {}
  PROVE  EditsInv /\ [Next]_vars => EditsInv'
<1>. SUFFICES ASSUME EditsInv, [Next]_vars PROVE EditsInv'
  OBVIOUS
<1>0. Typed
  BY DEF EditsInv
<1>1. ASSUME NEW t \in Threads, NEW o \in Operation, BeginAdmin(t, o) PROVE EditsInv'
  BY <1>0, <1>1, StepTyped, BeginAdminEdits
<1>2. ASSUME NEW t \in Threads, NEW kind \in Loads, NEW d \in Dirs, BeginLoad(t, kind, d)
      PROVE  EditsInv'
  BY <1>0, <1>2, StepTyped, BeginLoadEdits
<1>3. ASSUME NEW t \in Threads, AdminStep(t) PROVE EditsInv'
  <2>1. Typed' /\ Apart(t)
    BY <1>0, <1>3, StepTyped
  <2>. QED
    BY <1>3, <2>1, QuietAdminEdits, SnapshotEdits, RenameEdits, PublishEditEdits, UnlockEdits
    DEF AdminStep
<1>4. ASSUME NEW t \in Threads, LoadStep(t) PROVE EditsInv'
  <2>1. Typed' /\ Apart(t)
    BY <1>0, <1>4, StepTyped
  <2>. QED
    BY <1>4, <2>1, ReadEdits, LoadWritesEdits, LoadFailsEdits, CommitLoadEdits DEF LoadStep
<1>. QED
  BY <1>1, <1>2, <1>3, <1>4, CrashEdits, EditsStutter DEF Next

\* The inductive invariant where LoadConfig and ResetConfig run alone: every
\* acknowledged edit is in what each operation is about to put in place, and a
\* load has in hand what the files it is past hold (config.go 66-220,
\* library_admin.go 64-284).
THEOREM EditsInvariant ==
  ASSUME Overlapping = {}
  PROVE  Spec => []EditsInv
<1>. QED
  BY InitEdits, NextEdits, PTL DEF Spec

\* An upsert reported as done stays on disk, and in memory while its directory
\* is active, through other edits, failed writes, reloads and crashes
\* (library_admin.go 33-36, 247-251).
THEOREM DoneEditsSurvive ==
  ASSUME Overlapping = {}
  PROVE  Spec => []EditsSurvive
<1>1. EditsInv => EditsSurvive
  BY DEF EditsInv
<1>. QED
  BY <1>1, EditsInvariant, PTL

\* No path through the file operations leaves the lock with the wrong thread, a
\* table with an item of the other file, or an edit published that is not on
\* disk (library_admin.go 64-284).
THEOREM StoreIsSound ==
  ASSUME Overlapping = {}
  PROVE  Spec => []StoreSound
<1>1. EditsInv => StoreSound
  <2>. SUFFICES ASSUME EditsInv PROVE StoreSound
    OBVIOUS
  <2>0. Shapes /\ LockHeld
    BY DEF EditsInv, Typed
  <2>1. EditOnDisk
    <3>1. ASSUME NEW t \in Threads, pc[t] = "unlock"
          PROVE  dir[t] = currentConfigDir /\ disk[dir[t]][file[t]] = mem[file[t]]
      BY <3>1 DEF EditsInv, EditStep, Critical
    <3>. QED
      BY <3>1 DEF EditOnDisk
  <2>2. \A d \in Dirs, f \in Files : Parses(disk[d][f]) => disk[d][f] \in Contents(f)
    BY <2>0 DEF Shapes, Disks, Contents
  <2>3. \A f \in Files : mem[f] \in Contents(f) /\ \A t \in Threads : data[t][f] \in Contents(f)
    BY <2>0, ContentsParse DEF Shapes, Contents
  <2>4. TypeOK
    BY <2>0, <2>2, <2>3 DEF TypeOK, Shapes, LockHeld, Critical
  <2>. QED
    BY <2>1, <2>4 DEF StoreSound
<1>. QED
  BY <1>1, EditsInvariant, PTL

\* When LoadConfig or ResetConfig commits, memory becomes what both files of its
\* directory hold (config.go 45-47).
THEOREM LoadsInstallFiles ==
  ASSUME Overlapping = {}
  PROVE  Spec => LoadInstallsFiles
<1>. DEFINE Installs ==
       \A t \in Threads :
         pc[t] = "commit" /\ pc[t]' = "idle" /\ crashes' = crashes =>
           currentConfigDir' = dir[t] /\ mem' = disk'[dir[t]]
<1>1. EditsInv /\ [Next]_vars => [Installs]_vars
  <2>. SUFFICES ASSUME EditsInv, Next, NEW t \in Threads,
                       pc[t] = "commit", pc'[t] = "idle", crashes' = crashes
                PROVE  currentConfigDir' = dir[t] /\ mem' = disk'[dir[t]]
    OBVIOUS
  <2>0. Typed
    BY DEF EditsInv
  <2>1. ~ CrashAndRestart
    BY <2>0, ConfigAssumption DEF CrashAndRestart, Typed, Shapes
  <2>2. PICK s \in Threads :
          \/ \E o \in Operation : BeginAdmin(s, o)
          \/ \E kind \in Loads, d \in Dirs : BeginLoad(s, kind, d)
          \/ AdminStep(s)
          \/ LoadStep(s)
    BY <2>1 DEF Next
  <2>3. Apart(s)
    BY <2>0, <2>2, StepTyped
  <2>4. s = t
    BY <2>3 DEF Apart
  <2>5. CommitLoad(t)
    BY <2>2, <2>4 DEF BeginAdmin, BeginLoad, AdminStep, LoadStep, Validate, Lock, ReadDir,
       Snapshot, PersistFails, WriteTmp, Rename, PublishEdit, Unlock, ReadFile, ReadError,
       StatError, Backup, Seed, Seeded, LoadFails
  <2>. QED
    BY <2>5, CommitInstalls
<1>. QED
  BY <1>1, EditsInvariant, PTL DEF Spec, LoadInstallsFiles

=============================================================================
