# log2grok: specifications, model checking and proofs

TLA+ modules for the concurrent and stateful core of log2grok and the algorithms
that decide its answers (paths are relative to `src/`), the TLC configurations
that check them on small instances, and TLAPS proofs for every value of the
constants.

## 1. The system

log2grok infers a Grok pattern for a set of log lines. A `Discover` call
normalises and samples the lines and runs three stages concurrently: structured
formats, the curated library, and shapes inferred from the lines themselves.
Every stage compiles candidate patterns and counts the lines they match with
parallel, cancellable scans. All of it reads one versioned source state (the
primitive table and the library) that configuration loading and the admin API
replace while discovery runs, and from which three caches of compiled regexps
are derived.

| Component | Code | State | Operations | Interacts with | Hard behaviour | What makes it correct |
|---|---|---|---|---|---|---|
| Pattern state | `internal/pattern/state.go`, `embedded.go` | primitives, library, version, config dir, under `patternStateMu` | four commits, snapshots | resets the caches after each commit, outside the lock | commits between two reads of one reader | a version names one source |
| Compiled-library cache | `score.go` 18-92 | `compiledLib`, `compiledVersion`, `libraryDiagErrs` under `compileMu` | `compiledKnownPatterns`, `LibraryDiagnostics`, reset | snapshot and `CompileGrok` take the state lock entry by entry | slow builders, late resets, retries | what is published and returned is one version's library, a current one |
| Tiler caches | `tiler.go` 93-177, 234-363 | two caches, each with a tag, under RW locks | `ensure*`, readers, reset | as above; no re-check before publishing | stale builder overwrites, reset between ensure and read | no index out of range, honest tags, staleness ends |
| Parallel scans | `scan.go`, `coverage.go` | atomics `next`, `misses`, `total`, `stop`, per-chunk counts, bitmap | `scanMatchesInto`, `scanMatchesFloor`, cancellation | called by every stage with its `scanCtl` | any claim order, abort at any moment, early stop | the sequential scan's result, exactly |
| Discover | `discovery.go` 79-484 | three stage goroutines, channels of capacity 1, abort tokens | coordinator, stages, ranking | scans, library cache, tiler | finish order, cancelled partial counts, pruned partial counts, unread channels | priority not finish order; nothing better missed; true counts; no leak |
| Config files | `config.go` | two JSON files, backups | load, seed, recover, reset | commits once at the end | crashes between steps, several processes | memory = disk, edits are not lost |
| Admin API | `pkg/log2grok/library_admin.go` | `adminMu`, the files | upsert and remove of entries and primitives | config dir, state commits | validation before the lock, other writers without the lock | disk = memory, an edit reported as done stays |
| Grok expansion | `compile.go`, `naming.go` | none | expansion, renaming of groups | primitives | depth, cycles, collisions | unique group names, termination |
| Library composition | `library.go` | none | dedup, sort | state commits | - | stable order |
| Sampling, multi cover, top-K | `score.go` 201-236, `multi.go`, `discovery.go` 495-557 | none | index arithmetic, greedy cover, ranking | scans | boundaries, ties | samples spread; every pattern gains; a longer list only adds |
| Tiler | `tiler.go` 440-1362 | none | typing of columns, tilings, relaxed tail, union of shapes | compile, scans | caps, ties, what a branch still gains | a typed column matches what it was typed from; the answer covers the best shape |
| Probes, envelope | `identify.go`, `text_envelope.go` | none | string recognisers | compile, scans | - | candidates compile and match |
| Decoder, multiline, timestamps | `pkg/log2grok/decoder.go`, `multiline.go`, `timestamp.go` | worker pool, open record | decode, join | compile | order of concurrent results, limits | order kept, no line lost |
| Web server, web API | `cmd/log2grok-web`, `internal/webapi` | response writer | gzip, handlers | Discover | header/write/flush order | one encoding per response |
| Web client | `cmd/log2grok-web/static/app.js`, `worker.js` | engine, pending requests, busy flag | discover, engine restart | worker, fetch | stale answers, abandoned promises | last request wins, never stuck busy |
| Commands | `cmd/log2grok`, `cmd/buildpacks`, `cmd/log2grok-wasm` | none | flags, output | all | - | - |

`PROJECT.json` lists the hazards of this code, each at the line where it bites,
with the properties that cover it, or why none does.

## 2. Plan

Items 1 to 11 are done. Only item 12 is left of the modelling:

1. `PatternState`: versioned sources.
2. `LibraryService` and `CompiledLibrary`: the cache, its abstract service, the
   refinement, all proved.
3. `TilerCaches`.
4. `SeqScan`, `ScanLines`, `ScanFloor`, `ScanInto`.
5. `Discovery`, on the orders of `Candidates`.
6. `ConfigStore`: files, admin API, configuration.
7. `WebClient`.
8. `Multiline` and `Decoder`, composed in `Intake`.
9. `TileTyping` and `Tiler`.
10. `Sampling`, `MultiCover`, `TopK`, composed with the tiler in `Suggest`.
11. `GrokExpand`, `LineTokens` and `WebServer`.
12. A composition of `Discovery` with the caches over versions.

Proofs done: the caches, both scans, `Discovery`, `ConfigStore`, `WebClient`,
`Intake`, `Suggest` with all it composes, and `WebServer` with the expansion of
patterns and the segments of lines (Section 5). What remains is liveness, which
stays with TLC.

## 3. Modules

### PatternState (`state.go`, `embedded.go`)

One operator per critical section of `patternStateMu`. A library is a set of
entries and a primitive table an opaque value; compiling an entry against a
table gives the pair of the two, and `Broken` is the set of pairs `CompileGrok`
rejects. Two builds are thus equal exactly when they used the same entries and
tables, which is what the caches must not mix up. `history` records the sources
of each version. `MaxVersion` bounds the commits. Deduplication and order of the
library are not modelled: they are a function of the library alone.

### LibraryService, CompiledLibrary (`score.go` 18-92)

`CompiledLibrary` gives every critical section of `compiledKnownPatterns` and
`LibraryDiagnostics` an action of its own: version read, cache check, snapshot,
one `CompileGrok` per entry, version re-check, publication, read of the errors.
A committer commits and resets in two steps. `LibraryService` has no cache: a
call returns the compiled form of a source current at some moment of the call.
`ImplementsService` is the refinement: the log is `history`, a call is open from
its begin to the moment its answer is read, and results are the answers.

### TilerCaches (`tiler.go` 93-177, 234-363)

The two caches share a protocol and are modelled together, indexed by `Caches`.
Unlike the library cache, a builder does not compare the version again before it
publishes, and a reader reads under a second lock section. Regexps are pairs as
above. A failed composite keeps its slot, a failed single is dropped, a missing
DATA or an empty list falls back to a built-in regexp (`Fallback`), a missing
HOSTNAME is `Nil`. `voteSingle` reads exactly like `classifyToken`.

### SeqScan, ScanLines, ScanFloor, ScanInto (`scan.go`, `coverage.go`)

A regexp is the set of lines it matches; Init ranges over all of them.
`SeqScan` defines the two sequential scans as functions of that set,
`ScanLines` the chunk arithmetic. `ScanFloor` has one action per atomic
operation of a worker and per chunk scanned, plus the parent's walk;
`ScanInto` the same for the counting scan with its bitmap, and the sequential
path line by line. Chunks are scanned in one step: lines do not change and the
chunk's counter belongs to one worker. `Abort` may happen at any moment.

### Discovery (`discovery.go` 79-484, `score.go` 162-199)

A stage scans its candidates in order, keeps its best and sends it; the
coordinator receives in priority order and returns, falls through or aborts.
A candidate is a record of the lines it matches, its typed captures, its
specificity and priority and whether it is a generic entry; the candidates of
each stage are inputs. The library's candidates are ranked on the sample
(`Ranked`: every order that `keepTopCandidates` may sort them in), cut and filtered
(`LibraryProbes`) as in `tryLibrary`, and scanned with the best count so far as
floor, with `SeqScan`'s result (which `ScanFloor` shows the
parallel scan to return). A scan that ends after an abort may have any partial
count. `SeqRun` is a stage run on its own from candidate to candidate, and
`Sequential` what `Discover` would return if the stages ran one after another.
Coverage thresholds are line counts. The records and orders of candidates
are in `Candidates`, which `TopK` and the tiler use too. Not modelled: how the
candidates of the probes arise, the GREEDYDATA tie-break. One candidate stands
for the one `deriveSafeFallback` settles on, which is in `TopK`.

### Sampling (`discovery.go` 233-399, `score.go` 201-236)

The lines before and the figures after: `LimitLines`, `NormalizeLines`,
`ChooseSample`, `Finalize`. A real step is a fraction; where float64 can fall
just below an exact product both integers are considered.

### TileTyping, Tiler (`tiler.go` 440-1362)

A line is a sequence of tokens and a primitive the set of tokens it matches.
`TileTyping` has the statistics of a column with their cap, the vote for a type,
the split of tokens at separators and the dashes for missing values; `Accepts`
is what the emitted piece matches. `Tiler` builds a tiling from each template
line, orders tilings as `betterTiling` does, relaxes the tail cut by cut, and
unites shapes branch by branch. Inputs are below the caps, so the sample is the
eval set. Not modelled: the tokeniser, quoted regions, composites of several
tokens, names of fields, and the rendering of pieces as pattern text (two tilings
with equal pieces are equal patterns).

### MultiCover, TopK, Suggest (`multi.go`, `discovery.go` 486-609)

`MultiCover` fills the pool (library entries that are no catchalls, typed probes,
envelope, reusable shapes; a text only once) and covers the eval lines greedily, one
action per round, until the target, the cap of patterns, the gain floor or the end of
the pool. `TopK` lists suggestions and settles the last resort. `Suggest` calls one of
them on an input that it limits, normalises, samples and tiles first. A raw line is
text, empty, or only a byte order mark. `Orders` sorts and selects by indices, with an
order as the set of its pairs: sampling, the tiler, the cover and the ranking of the
library use it. Fractions are percentages; on five lines no ceiling sits exactly on a
value that float64 rounds differently.

### Multiline, Decoder, Intake (`pkg/log2grok/multiline.go`, `decoder.go`)

`Multiline` is the joiner line by line, with the three modes, both limits, the
builder that is empty when no record is open, and a reader that fails. `Decoder`
has the workers of `DecodeConcurrent` with their stripes and the `done` channel,
the sequential path below the threshold, and `DecodeReader` with a callback or a
reader that fails at any line. `Intake` gives the joined records to the decoder,
as the comment of `multiline.go` 33-37 intends. Not modelled: what is captured of
a line, times and entities, the scanner's limit of 8 MiB per line (a failing
reader stands for it).

### GrokExpand, LineTokens (`compile.go`, `internal/webapi/webapi.go`)

A pattern is the sequence of its references and the groups it writes; `ExpandGrok` is
`expandGrok` with its depth, its errors, and the names asked for so far, which is what
makes a name unique. It is a function of the levels that are left and, at a level, of
the pattern and the names asked for; `ExpandPiece` is the callback of one reference. A
name is a base and the numbers appended to it, so a written `n_2` and a generated one
are equal; names are given for good, and `used` is what the map of the code counts.
Whether the text of an expansion is a regexp is an input: `Unparsable` are the
patterns for which `regexp.Compile` returns an error, and `CompileGrok` with it.
`LineTokens` is `Run`: lines, tokens of groups, spans sorted and emitted as segments,
the limits beyond which no segments are sent. The queue of a field in `groupTokens` is
the positions of its references that no group has taken yet. What the regexp captures
is an input: every arrangement of spans that nests and follows as the groups do.

### WebServer (`cmd/log2grok-web`)

One goroutine per connection: routing, the checks of `handleDiscover` in order,
`Run` or its panic, `WriteHeader`, `Write`, and the deferred close of the gzip
middleware as two steps, the close and the return to the pool. The pool gives any
compressor it holds or a new one, and the collector may empty it. A compressor
writes to the connection it was reset for and holds back what it likes. A client
may be gone at any write; nobody looks at the error. Not modelled: the fixed
headers, HEAD and Range requests, request timeouts (a body cut off stands for
them) and the shutdown in `main.go`, which are `net/http`'s.

### ConfigStore (`config.go`, `pkg/log2grok/library_admin.go`)

The two JSON files of a directory, the tables in memory, `adminMu`, and threads that
edit, load and reset. One action per file operation, per lock operation and per
critical section of the state lock; a seed is two actions because `os.WriteFile`
truncates first, an edit's rename is one. Every read, write, rename and backup may
fail, and so may the `os.Stat` with which a reset decides on a backup: then the file
is overwritten where it is (`StatError`), and the process may crash between any two
actions and start again from the embedded defaults and the files as they are. A file
is a set of items or one of three marks (missing, not parsing, cut off by a crash or
an error); an item has a name and the names its body refers to, and `Expands` follows
them as `expandGrok` does. The `.tmp` file is not a variable: nothing reads it and
`adminMu` keeps it to one writer. `Overlapping` says which of `LoadConfig` and
`ResetConfig` may run beside other operations: neither, as in the programs of `cmd/`,
or `LoadConfig`, as the package API allows. History variables record the edits
reported as done, the files as they were before the first start, and what became of
each of those (`fate`): kept in a backup or taken over by an edit, or overwritten by a
reset that could not look at it. Not modelled: `ListLibrary` and `ListPrimitives`
(they change nothing), two processes on one directory, the clash of two backups in one
nanosecond.

### WebClient (`static/app.js` 290-479, `static/worker.js`)

An action is one task of the page's event loop with its microtasks, which is
what decides whether a rejected call still finds the engine usable. `Calls` are
the `discover()` calls under way at once: the button is disabled while one is,
Ctrl+Enter and the examples are not. The worker boots, reports readiness or
failure, answers in order, panics or stops at any moment. What is displayed of
an answer is left out, save the note about where logs are analysed. A terminated
worker delivers nothing more.

## 4. Runs

A run checks one property per question. A property such as `ClaimsSound` or
`CoverWorthwhile` is the conjunction of named invariants of its module, each of
them stated and commented next to it; the type invariant is one of the parts.

| Run | Instance | States | Shows |
|---|---|---|---|
| `compiled_library` | 2 readers, 1 committer, 2 versions, 2 libraries, 2 tables | 200 thousand | types, exact and current libraries, refinement of `LibraryService`, calls return |
| `tiler_caches` | 2 readers, 1 committer, 2 versions, 1 composite, 1 single and DATA, HOSTNAME | 2.1 million | no index out of range, honest tags, staleness ends |
| `scan_floor` | 7 lines in chunks of 2, 2 workers, every regexp and floor | 570 thousand | the sequential result, the claimed prefix, termination |
| `scan_into` | 5 lines in chunks of 2, 3 workers, above and below the parallel threshold | 240 thousand | the sequential count and bitmap, disjoint ranges, partial counts, termination |
| `discovery` | 3 lines; up to 3 library entries of 8, up to 2 candidates in each other stage | 125 thousand | one answer for every schedule, nothing better missed, true counts, no leak |
| `config_store` | 2 threads, 1 directory, 2 entries, 1 primitive, 1 crash | 530 thousand | edits survive, user files are kept but one that cannot be looked at, loads are whole, the lock comes back |
| `config_store_overlap` | the same, loads overlap | violation | a load undoes in memory an edit that is on disk |
| `web_client` | 3 calls at once, any number of boots | 750 | waiters have an engine, the server only without one, never stuck busy |
| `intake` | 4 lines of every kind, 15 configurations, up to 3 workers | 510 thousand | no line with text lost, splits where due, the workers' result is `Decode`'s, totals, calls return |
| `suggest` | 5 eval lines out of up to 10, four kinds of lines, 13 offers | 2.0 million | samples spread, columns match their values, relaxing and branches pay, the cover stops for a reason, figures and lists agree |
| `web_request` | 2 connections, 2 compressors, 15 patterns of up to 3 groups, lines of 3 bytes, depth 3 | 370 thousand | own, whole and declared replies; the patterns that expand to a regexp are offered, names differ, segments are the line |
| `grok_names` | the same | violation | a primitive's own fields are renamed without a collision |

**Why the bounds are enough.** Caches: two versions give an old and a new source, two
readers a slow and a fast builder; every hazard of these protocols is a race of two
builds or of a build and a commit. Scans: four chunks and two workers let one worker
be two claims ahead of the other, with a short last chunk; every regexp and every
floor, the useless ones included, is an initial state, and the thresholds are in the
ratio of the code. Discovery: three lines tell apart none, some and all around a
threshold of two; the inputs hold equal counts with different captures, generic and
specific entries, candidates without captures. ConfigStore: one file starts out
unparsable and the other edited; a missing file is what a load that failed halfway
leaves; edits that upsert the same name, that remove and that add another are all
there. WebClient: three calls are one that ends, one that is lost and one that comes
later. Intake: limits of one or two continuations and of five bytes are passed by four
lines, `MinBatch` of two and three workers give stripes of different lengths and more
workers than lines. Suggest: the eval set is smaller than some inputs and larger than
others, the cap of two values is passed, shapes contain, complement and tie with each
other, a longer cut of a tail ties with a shorter one and has more fields, and targets
of zero, 50 and 120 percent fall on the default, a ceiling and the clamp. WebServer:
two connections are what one pool needs to mix up; the depth of three has patterns
that end at it and one past it; three groups nest, follow, repeat a field or a written
number, and three bytes leave room for a gap between two captures. `MaxTokenLines` and
`MaxTokenBytes` are passed by one text each; one of the patterns expands to text that
is no regexp, and one has such bodies that complement each other. What a group
captured in an earlier iteration of a repeated group around it is not among the
captures. In `scan_*`, `discovery`, `intake`, `suggest` and `web_request` the system
may end or idle, so deadlock is not checked; elsewhere it is.

**Fairness.** Only weak fairness of a thread, a goroutine or a worker that has
something to do, which the Go scheduler gives, and in `ConfigStore` strong
fairness of taking `adminMu`, which `sync.Mutex` gives by handing over to a
waiter that starves. In `WebClient` a boot ends, a worker with work answers or
dies, and a fetch settles; the server has timeouts for it. In `Intake` a
goroutine or a caller with a step to take takes it. `Suggest` and `WebServer`
state no liveness. Nothing forces a call, a commit, a load, an abort, a failed
write or a crash to happen.

## 5. Proofs

`tlapm` checks every proof below, for all values of the constants that satisfy the
named assumptions of the modules; TLC evaluates the assumptions in the runs. Each
module has one inductive invariant (`ConfigStoreProofs` two, with and without
overlapping loads, `WebProofs` one for the page, one for the connections of the
server and one for its answers,
`DiscoveryProofs` one for `Discover` and one for each question about `Suggest`);
the properties of the runs follow from it.

| Module | Theorems | States of the runs' properties |
|---|---|---|
| `CompiledLibraryProofs` | `TypeCorrect`, `PublishedLibraryExact`, `CallReturnsCurrentLibrary`, `CacheImplementsService` | `TypeOK`, `CacheExact`, `AnswerCurrent`, `ImplementsService` |
| `TilerCachesProofs` | `CachesInvariant`, `ReadersFindCachesWhole`, `TagsAreHonest` | `ReadsSound`, `TagHonest` |
| `ScanFloorProofs` | `FloorInvariant`, `FloorIsSequential`, `FloorClaimsSound` | `ResultIsSequential`, `ClaimsSound` |
| `ScanIntoProofs` | `IntoInvariant`, `IntoIsSequential`, `IntoChunksSound` | `ResultIsSequential`, `ChunksSound` |
| `DiscoveryProofs` | `DiscoverInvariant`, `DiscoverDeterministic`, `DiscoverMissesNothing`, `DiscoverCountsSound` | `Deterministic`, `NothingBetterMissed`, `CountsSound` |
| | `SampleIsSound`, `ListIsHonest`, `PopulationIsMatched`, `AnswerIsWorthwhile`, `CoverIsWorthwhile` | `SampleSound`, `ListHonest`, `PopulationMatched`, `AnswerWorthwhile`, `CoverWorthwhile` |
| `ConfigStoreProofs` | `StoreInvariant`, `UserFilesAreKept`, `EditsInvariant`, `DoneEditsSurvive`, `StoreIsSound`, `LoadsInstallFiles` | `UserFilesKept`, `EditsSurvive`, `StoreSound`, `LoadInstallsFiles` |
| `WebProofs` | `ClientInvariant`, `ClientEngineSound`, `ClientServerOnlyWithoutEngine` | `EngineSound`, `ServerOnlyWithoutEngine` |
| | `ServerInvariant`, `ServerRepliesOwnWhole` | `OwnWholeReply` |
| | `AnswerInvariant`, `LinesAreShown`, `ExpansionIsSound`, `TokensAreOfReferences` | `LineShown`, `ExpansionSound`, `TokenOfReference` |
| `IntakeProofs` | `IntakeInvariant`, `RecordsAreWhole`, `RecordsSplitWhereDue`, `WorkersDecodeExactly`, `TotalsCountDelivered` | `RecordsWhole`, `SplitsWhereDue`, `ResultsExact`, `TotalsAreDelivered` |

Both scan modules begin with the lemmas on how chunks divide the lines and how many
elements disjoint sets of lines have. `ScanIntoProofs` repeats those it needs,
because the two models have variables of the same names.

**CompiledLibraryProofs.** The assumptions are those of `PatternState` (libraries
are sets of entries, `Broken` relates entries and tables, at least one version)
and `CompiledLibrary` (`Nil` is not a library). Neither `CacheExact` nor
`AnswerCurrent` is inductive: a builder publishes what it holds, so what it holds
has to be known. `IInv` adds `SeenInRange` (the versions a reader remembers are
existing ones, in order) and `BuilderExact` (what a builder has compiled so far
is, as long as the version it read at its start is current, the compiled form of a
part of that version's library with that version's table; after the re-check, all
of it). The re-check under the state lock is what carries `BuilderExact` to
publication: without it the step fails, as does the run on the mutant. The
refinement rests on `AnswerCurrent` in the next state: the moment an answer is
read is the moment the service returns, and the source it must come from is the
witness.

**TilerCachesProofs.** The same builder invariant without a re-check: a builder
may publish an old table, and `TagHonest` survives because the tag it writes is
then old too, and no tag is ahead of the version (`TagsInRange`). For the readers
`CachesWhole` says that a slice is whole from its first build on: resets leave the
slices alone, so what `ensure*` found is there when the reader locks again.

**ScanFloorProofs, ScanIntoProofs.** `IInv` says that chunks in flight are distinct
and below the shared counter, that the shared counts are those of the lines
finished, that each finished chunk has its own count on record, and why a worker
stops. The counting scan cannot say "sum of the local counts" without recursion,
so `Uncounted` has one pair per line that a worker has counted and not yet added,
and the total plus its cardinality is that of the bitmap. `OffsetBounded` is why
the offset never wraps: past the last line each worker adds one chunk at most. A
scan without an abort returns the sequential result for every number of lines,
chunk size and number of workers, which is what `Discovery` takes for granted.

**DiscoveryProofs, Discover.** The candidates are any sequences and finite sets of
candidates (`DiscoveryAssumption`, which also says that `Nil` is neither a candidate
found nor a message). The key is `Going`: until the coordinator has returned, no stage
is aborted, so each is where its sequential run was after as many candidates
(`OnTrack`), and each message on a channel or already read is what a run to the end
sends. A stage that was aborted is never read, and `Settled` does not mention it. The
lemma `FullScan` is what makes the counts true: a scan pruned below its floor never
becomes the best, and one that is not pruned has counted every line (`FloorTells`).

**DiscoveryProofs, Suggest.** The loops of the code are recursive functions on
`0 .. n`. That such a function satisfies its own equation has to be proved:
`LoopExists` does it by a least counterexample, and `AlongLoop` carries an
invariant from one turn to the next in the same way. `InOrderRanks` says that
sorting a finite set by a total order takes every member once, in order.

- `SampleInv` (`SampleSound`): the sample's indices increase strictly, and no
  stretch of lines as long as a stride is without one (`Spread`), also where float64
  falls one below the exact product. It is integer division throughout.
- `ListInv` (`ListHonest`): a list is what `SuggestTopK` or `DeriveSafeFallback`
  computes; a longer list begins with the shorter one, and the last resort is used
  only when nothing that compiles matches as many lines.
- `TilerInv` (`PopulationMatched`): the shapes are those of the template lines, and
  every piece matches what each line of its population has in that column, however
  the column was typed, split or filled with dashes; past the cap on kept values this is
  said of the lines whose values were kept.
- `AnswerInv` (`AnswerWorthwhile`): the strongest shape is ahead of every other
  (`StrongestIs`), the relaxed one ahead of every other cut and the longest of its
  equals (`RelaxIs`; as prefixes have no more promoted fields than what they begin, a
  longer cut with equal coverage only adds speculative ones), and each branch of a
  union matches enough lines that no earlier one does (`UnionPays`).
- `CoverInv` (`CoverWorthwhile`): each pattern of the cover was needed when it was
  taken, gained at least the floor, and no other of the pool gained more
  (`Selection`, `TakenWell`). `BestIsThere` is why a round with something to gain
  finds a best candidate, `FirstTwo` why the first two rounds cover three quarters of
  what any two patterns do, and `RescaledIs` why figures estimated from the sample
  and rounded still agree with one another.

The assumptions: the eval set has more lines than those that are always taken
(`SuggestAssumption`; the code's cap is far above 1024), the type of last resort
accepts every token and a non-empty token has non-empty parts, a signature of
separators tells which parts are empty (`TypingAssumption`), the tiler's two
thresholds of lines are in order (`TilerAssumption`: 3 and 10), the last resort comes
last (`SuggestAssumption`), and what an offer matches are eval lines and its figures
numbers (`MultiCoverAssumption`).

**ConfigStoreProofs.** Two invariants. `KeptInv` needs no assumption on what
overlaps: a load seeds a file only after it was moved to a backup or found missing
(`SeedsSafely`), and an edit replaces only a file that parsed when its directory
became current (`ActiveEditable`). The one exception is in the statement: a reset
whose `os.Stat` failed on a file loses it. `EditsInv` assumes `Overlapping = {}`, which
is how the programs of `cmd/` use the package and what `config_store` checks; with
overlapping loads `EditsSurvive` is false, as `config_store_overlap` shows. It
says what each step of an edit or a load is about to put in place: everything
acknowledged so far. `ConfigAssumption` has the shape of the inputs: embedded
entries and user contents that parse are items of the file they are in.

**WebProofs.** On the page the two properties and the type invariant are inductive
together. `Calls` is any finite set, and `NoWorker`, `"booting"` and `"ready"` are
different values. On the server `OwnWholeReply` is a matter of who has which
compressor: `OneUser` says that one in use is not in the pool, writes to the
connection that uses it, and is used by no other. `ConnInv` says for every place a
goroutine can be at what its connection has on the wire and what its compressor
holds back (`Begins`, `Headed`, `Unclosed`, `Ended`), and that the status it owes is
200 exactly for a text with logs; `ContentIsLogs` shows that `HasContent` and the
library's normalisation, each with its own idea of an empty line, come to that.
`ServerAssumption` has the shape of the requests (a POST has a body) and a
compressor for every connection.

What an answer says follows from `AnswerInv`: while a reply is not written, its
answer is what `Run` makes of the text of this very request with one of the patterns
that compile. The three properties are then facts about `Run`, and each is an
argument along the steps of its loops:

- `LineShown`. `Spans` puts the captures in order (`SpansInOrder`), and
  `SegmentsComplete` follows the loop of `segmentsFor`: the segments so far are the
  line up to `pos`, and a capture that is not among them begins inside one that is
  and comes earlier in the order. As captures nest as their groups do, that one is
  around it.
- `ExpansionSound`. The error of an expansion depends on the pattern and the level and
  never on the names (`LevelsEven`), and at a level it is "none" when each body
  expands one level deeper; matched with the references reached at each depth, this is
  `ExpandsWhenReachable`; the entry is offered if `regexp.Compile` takes the result.
  For the names, what counts is how often each name was asked for, before and after. A
  numbered name is `Born` between the two counts that its number lies between, and
  only there. A body that writes groups leaves names that are unnumbered, perhaps
  twice, or born in its expansion (`Tidy`); asking for each again makes them all born,
  or first asked for, since the body began, and different (`DedupApart`,
  `WrappedApart`: `Apart`). What pieces one after the other leave is born in intervals
  that do not meet; `LevelsNames` carries this from level to level.
- `TokenOfReference`. Without inner groups the groups of an expansion are the
  references with a field, in order, each under the name of its field with or
  without a number (`Placed`, `CompiledPlaced`), and then each group finds its own
  reference at the head of the queue of its field (`TokensPlaced`).

`ExpandAssumption` has the shape of the primitives and of what `sanitizeFieldName`
returns; `TokensAssumption` that a line with text has bytes.

**IntakeProofs.** `JoinInv` is the joiner: a record is a run of lines without a gap
(`Consecutive`), the records follow one another and the open one reaches to the
line before the next (`Chained`), the continuation counter is one less than the
lines of the open record, and the records that begin with a header are as many as
the headers read (`HeadsCounted`). `SplitsDue` and `Bounded` are about record sizes.
`Bytes` is a recursive function on the number of lines summed; the one fact the
steps need, what it is with one more line (`BytesGrow`), follows from its defining
equation, which is proved by a least counterexample (`UpFromZero`, from the
library's well-foundedness of `<`). `DecodeInv` is the decoder: each worker stays on
its stripe and a line without its result lies before a worker that runs (`Striped`),
and what is decoded is what `JoinMultiline` returned (`Linked`), which carries the
count of headers into `HeadersDecoded`. The assumptions are `MultilineAssumption`
(the fields of a configuration have their types, only a blank line has no bytes) and
`DecoderAssumption` (a positive number of processors and batch size, integer
`workers` arguments).

**Only model-checked.** Liveness (`EventuallyFresh`, `Terminates`, `NothingLeaks`,
`OperationsReturn`, `BusyClears`, `CallReturns`): out of the prover's reach.

## 6. Where the code and its documentation disagree

With a run that ends in a counterexample:

- `config.go:96`: a load commits without `adminMu` and undoes in memory an edit that
  was reported as done and is on disk (`config_store_overlap`).
- `compile.go:73`: `dedupNamedGroups` asks for names that the expansion has just
  registered, so `%{SYSLOGBASE}` exposes `timestamp_2`, `logsource_2` and `pid_2`,
  against `SPEC.md:1294` (`grok_names`).

Without a run of their own; the modules named have the steps that lead there:

- `tiler.go:121` (`TilerCaches`): builders publish without looking at the version
  again; with two of them a reader sees regexps of a replaced table, against
  `tiler.go:137-138`. `EventuallyFresh` says that it does not last.
- `discovery.go:456` (`Discovery`): the floor settles ties before
  `betterCandidate` compares typed captures (`score.go:151-161`).
- `config.go:112` (`ConfigStore`): a reset backs a file up only if `os.Stat` succeeds;
  after any error, not only that of a missing file, it goes on and overwrites it in
  place, against "Existing files are renamed to ".bak.<timestamp>" first" (`config.go`
  100-101). `UserFilesKept` makes the exception.
- `library_admin.go:194` (`ConfigStore`): the check that a primitive's references
  expand is announced and not made. An entry can also be persisted that no longer
  compiles, when a primitive is removed between the validation
  (`library_admin.go:74`) and the lock.
- `app.js:395` (`WebClient`): logs are sent to the server while the page says that
  they never leave it (`app.js:389`), once the engine stopped and could not start
  again. `app.js:343`: calls posted behind one that panics are never settled.
- `multiline.go:117` (`Multiline`): a blank line that continues nothing is dropped,
  against "Blank lines are preserved" (`multiline.go:114-115`).
- `discovery.go:492-493` (`TopK`): suggestions are "in descending preference
  order" within each source only; a later source's may match more.
- `tiler.go:1057-1058` (`Tiler`): "on equal coverage the longest prefix wins" when a
  tail is relaxed, but `betterTiling` (1112-1125) prefers fewer literal and speculative
  fields before the loop sees which cut is longer, so a shorter prefix stays when the
  longer one adds such a field. `RelaxedIsBest` says which wins.
- `multi.go:156` (`MultiCover`): two entries with one text but other custom
  patterns collapse in the pool, which `library.go:93-96` says they must not.
- `webapi.go:162-164` (`LineTokens`): for `%{SYSLOGPROG} %{POSINT:pid}` the inner
  group `pid_2` takes the token of the outer reference, and the outer one, `pid_3`,
  has none. `TokenOfReference` is stated for patterns without inner groups.
- `compile.go:110-117` (`GrokExpand`): `%{INT:n} %{INT:n} %{INT:n_2}` gives `n`,
  `n_2` and `n_2`, against `SPEC.md:264-266`; Go accepts it and the decoder keeps
  the last. A group that the pattern itself writes is never renamed either, so
  `(?<n>...) %{INT:n}` has two groups `n`. `NamesUnique` and `TokenOfReference` are
  stated for patterns of references only, without numbered names.
- `webapi.go:113` (`LineTokens`): `nonEmptyCount` "matches the library's
  normalization", but the library drops a byte order mark and the web core does
  not: a first line that is only a mark is counted by one of them, and one that
  begins with a mark can be counted as matched and shown as unmatched. A mark
  followed by a blank line is answered with a pattern although no line "has
  non-whitespace content" (`webapi.go:103`).
- `SPEC.md` gives an expansion depth of 16, the code has 32. A primitive that
  refers to itself twice is expanded 2^33 times before the depth ends it, under
  the read lock (`compile.go:29-31`).
- `middleware.go:82`: a Range request for a compressible file is answered with a
  `Content-Range` of the plain file and a compressed part.
- `score.go:86` (`CompiledLibrary`): `LibraryDiagnostics` reads the errors in
  another lock section than the one that filled them. A reset in between makes it
  return none, a slow builder's publication those of an older version.
- `discovery.go:198` and `206`: the inferred stage is aborted by candidates that
  were not auto-accepted, against `discovery.go:61-63`; and `README.md:280` says
  that lower stages are not cancelled in mid-flight, which `abortStage` does.
- `app.js:284`: `render` sets the token spans of the text that was sent, also
  when the text has changed since ("highlights are stale as soon as the text
  changes", `app.js:433`).

## 7. Not modelled

- The structured probes, the text envelope, the names of `naming.go`, the times
  of `timestamp.go` and the entities of `smart.go` are recognisers of strings: a
  model of them would be a transliteration. They appear as the candidates, tokens
  and records they result in.
- The tiler's tokeniser and the text of its patterns, for the same reason.
- `library.go`: deduplication and order of a fixed library, a function of it.
- `api.go` converts options and results. The commands and `buildpacks` are input
  and output.
- Regexp matching is a set of matched lines, or of spans.
- Discovery against commits in mid-call (item 12 of the plan): each stage may see
  another version; the modules of the caches show what one stage sees.
