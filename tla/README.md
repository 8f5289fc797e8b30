# Anamnesis in TLA+

Specifications, model-checking configurations and machine-checked proofs for
Anamnesis (`src/`), the batch extractor that turns Windows memory images into a
CAR store. Paths below are relative to `src/`.

* [Inventory](#inventory): the parts of the program, their state, what is hard
* [What is modelled](#what-is-modelled): modules, state and actions against the code
* [Runs](#runs): what TLC checks, on which instances, and what that shows
* [Divergences](#divergences): where the code does not do what its text says
* [Proofs](#proofs): what TLAPS proves, from what, and how
* [Limits](#limits): what is not modelled, or only model-checked
* [Plan](#plan): what is still to come

## Inventory

The container runs `cmd/anamnesis` without arguments: `runBatch` walks every
image below the input directory, one at a time, in one process. All else is
called from there.

| Part | State it keeps | Operations | What is hard, and when it is correct |
|---|---|---|---|
| Batch orchestrator `cmd/anamnesis/batch.go`, `reexec_*.go` | `<out>/<image>/plugins/*.jsonl`, `*.stalled`; summary counters in memory | classify collectors, open and run, record a stall and re-exec, rebuild, reap | kills at any step, re-execs that forget all memory, reruns with other settings. Valid output survives; attempts are bounded; the chain ends; the summary adds up |
| Collector driver `internal/collect` | the JSONL file being written | `Run`, `runOne` (goroutine, timer, select), `writeJSONL` | a native call that never returns; a late answer; a short write |
| Store rebuild `internal/pipeline`, `internal/store` | `<out>/<image>/car.db`, rendered views | `BuildStore`: load, normalize, enrich, remove, create, insert | a failure or kill between the steps; superseded inputs. The store never claims what the raw output lacks |
| Timeline `internal/timeline` | `timeline.json`, `car/*.csv` | render, overlay malfind | views must not outlive the store they came from |
| Normalization `internal/normalize`, enrichment `internal/enrich`, `carmodel`, `car`, `value` | none: pure, table-driven | one record to one event; dedupe, collapse, inherit by PID | order of passes, PID reuse, identity of processes |
| Native engine `internal/memprocfs/engine_vmm.go` | the vmm handle, caches per image | `Open` (staging of a read-only symbol cache), `Close`, listings | native locks are poisoned by a stall; scans need budgets below the watchdog's |
| Engine recovery `internal/memprocfs/recover_vmm.go` | offsets, globals and their gates for one image | `recoverPrePass`, ring walk, pool scan, KDBG, signatures | torn memory; poisoned stores; bounded walks. A value is used only after it decodes this image |
| Offset store `internal/symbols/store.go` | one JSON file per kernel build in Symbols, `/tmp` and a seed | read, `Merge`, `MergeGlobal`, write by rename | several containers share the cache without a lock. Entries only grow, and become complete |
| Signature store `internal/symbols/sigstore.go` | one JSON file per module | read, append a variant, rename | the same, with read-modify-write of a list, and a head stored stops the authoring. Variants accumulate |
| Symbol algorithms `internal/symbols/*.go` | none | displacement decoding, fingerprint consensus, KDBG decoding, sweep planning, SID choice, environment blocks | boundaries of address ranges and buffers |
| Profile `internal/profile`, `cmd/frameprofile`, `cmd/symrec`, `cmd/anamnesis/main.go` | none | developer and single-image commands | - |

Parts meet in three ways. The batch *calls* the driver, the engine and the
store rebuild, in that order, per image; the command line does the same for one
image. Processes that follow one another (after a stall, a kill, or an
operator's rerun) meet *on disk* in the output tree. Engines of different
containers meet *on disk* in the symbol cache. Within a process there is one
concurrent actor, the collector's goroutine against the watchdog timer.

The modules follow these seams:

| Module | Question it answers |
|---|---|
| `Batch`, abstractly `Ledger` | what a chain of batch processes does to the output tree of all images |
| `StoreBuild` | what a chain of runs, batch or command line, does to the store and the views of one image |
| `CarStore` | what both promise of one folder's `car.db`; shown of `Batch` in `BatchStore`, of `StoreBuild` in `StoreBuildCar` |
| `OffsetStore` | what several engines do to one shared entry of the symbol cache |
| `SigStore` | what several engines do to one shared signature file |
| `Recovery` | what one engine believes of one torn image, and what it then says about hidden processes |
| `PoolSweep` | what a sweep of memory for pool tags finds, and reports of itself |
| `Engine` | `Recovery` and `PoolSweep` together, as `Processes` runs them |
| `Enrich` | which process each event ends up linked to, and with which values |

## What is modelled

### `Batch`: orchestrator, driver and rebuild over one output tree

One process at a time; `pc` is where it is in `process` (`batch.go:176`),
`collect.Run` (`collect.go:119`) or `BuildStore` (`pipeline.go:27`). The state on
disk (`file`, `origin`, `marker`, `store`, `rows`) outlives the process; the rest
is its memory and is used again only after `Startup` has reset it.

| Code | Action |
|---|---|
| operator starts the batch, kill | `Invoke`, `Crash` |
| `process` up to the image loop; exit 2 on a config error | `Startup` |
| image loop, summary and exit status | `BeginImage`, `AllDone`, `EndImage`, `Finish` |
| `switch` over the requested plugins | `Classify` (`Skips`, `GivenUp`) |
| `memprocfs.Open`, which may fail | `OpenEngine` |
| `Run`: unknown name, answer, stall | `UnknownCollector`, `StartCollector`, `CollectorAnswers`, `CollectorStalls` |
| `writeJSONL`: create, first record, rest | `CreateOutput`, `WriteFirst`, `WriteRest`, each with its failure |
| `bumpStall`: truncate, then write | `BumpStall`, `WriteMarker` |
| `reexec` (Unix replaces the process, Windows exits 3) | `Reexec` |
| `BuildStore`: remove, create, insert | `RemoveStore`, `CreateSchema`, `FillStore` |
| loop over `todo` after `runImage` | `Reap` |

A raw output is abstracted to what `validJSONL` and the loader tell apart:
absent, empty, first line torn, whole records but not all, complete. Every point
at which a kill leaves a different tree is a step of its own: after `os.Create`,
after the first record, between truncation and write of a marker, between the
three steps of the rebuild. `stalls` and `completed` are history variables, read
by properties only. What a rebuild takes from an output is `Loaded`: nothing of
one that a successor's file supersedes, or that is only joined at output time
(`Triggers`, the malfind collectors).

`Ledger` is the abstract promise about one (folder, collector) entry: open,
done, given up. `BatchLedger` maps `Batch` to it: done are the valid outputs,
tries are the markers, the count in hand while a marker is being rewritten.

### `OffsetStore`: engines sharing one entry of the symbol cache

One entry (one kernel build) and any number of engines, each analysing one image
after another. An entry says for each accessor, the token scan and each global
whether it is known ("right", or "wrong" in a hand-made seed) and which
accessors are undecodable for good.

| Code | Action |
|---|---|
| `Open` with `stageSymbols` (`engine_vmm.go:83,120`) | `Open` (`Stage`) |
| lookup over `storeDirs` (`recover_vmm.go:106`) | `LookHit`, `LookMiss` |
| `RecoverOffsets`, `Merge`, token gate and scan, `MergeGlobal` | `Recover` (`Recovered`, `Solved`) |
| `writableStoreDir`, `WriteStoredOffsets` | `Save` |
| kill | `Crash` |

An image is the set of fields it lets the engine recover: the pages that are
resident. `Decodable` are the accessors whose code carries an offset in this
build. `Writers` are the engines whose Symbols mount is read-write: the others
stage it. `/tmp` is one directory per engine (containers do not share it).

### `SigStore`: engines sharing the signature file

Engines analyse images of any builds one after another and share the signature
file and the offset store. A variant is the build it was authored on; `Locates`
says to which builds' heads it leads. Of the offset store only what matters here
is kept: the builds whose entry has the head.

| Code | Action |
|---|---|
| lookup in the offset store (`recover_vmm.go:105`) | `Open` |
| stored head, or no ring to go by (`:602`, `:611-618`) | `NothingNew` |
| `applyShippedSignatures` | `Fingerprint` (`Covered`) |
| ring anchor, which is to be authored from (`:611-636`) | `Anchor` |
| `WriteSignature`: read the file; append, write, rename | `ReadBack`, `Write` |
| write of the offset store (`:264`) | `Save` |
| kill | `Crash` |

An image is torn (the ring cannot be walked), blind (it can, but the self-test of
the fingerprints fails or no code site names the head, so that nothing can be
authored) or whole. Both files may fail to be read back or written. `missed` is
history: the builds whose last variant was tried in vain. `Save` may take away a
head that another engine stored since the entry was read, as in `OffsetStore`. An engine with a read-only mount writes a
file of its own under `/tmp`: for that file it is the one engine.

### `StoreBuild`: one output folder over its life

Raw outputs, `car.db`, `timeline.json` and the tables under `car/`, under runs in
any order of the command line (`main.go` `runSingle`, with JSON, CSV or no
timeline) and of the batch (`runImage`), over any collectors. `BuildStore` is
one step in `Batch`'s sense three times; here it is taken apart.

| Code | Action |
|---|---|
| `process` and `runSingle` up to the engine; nothing left to do | `Invoke`, `OpenEngine` |
| `collect.Run`, and a stall in it | `Collect`, `Stalled` |
| `BuildStore`: the loop over `plugins/` (`LoadJSONL`, supersede rule) | `Load` (`Wanted`, `Superseded`) |
| the removals of `car.db`, `timeline.json` and `car/*.csv` | `RemoveDb`, `RemoveTimeline`, `RemoveCsv` |
| `store.Create`, `InsertEvents`, each `InsertContext` | `OpenStore`, `InsertEvents`, `InsertContext` |
| what the caller does next | `Built` |
| `WriteTimelineJSON`; `WriteObjectCSVs`, table by table | `WriteTimelineJSON`, `WriteObjectCSV`, `WriteObjectCSVFails` |
| exit status; loop over `todo` after `runImage` | `Status`; `Reap`, `EndImage` |
| kill between any two of these | `Kill` |

A raw file is absent, without one whole record, with some, or complete, and
carries the run that wrote it; a row of the store is the raw file it comes from
and the build that put it in; a view is absent, torn or whole and carries the
rows it was written from. So a property can say that two things on disk agree.
`Faults` are the calls that may fail: `os.Remove` and the renderings, whose
errors nobody looks at, reading a raw file, which then counts as empty, and
opening and filling the store, which end the build (`Fails`). `stuck` and
`missed` are history: files that could not be removed, raw files that could not
be read. The malfind overlay of `timeline.json` is left out: those rows come from
the trigger, not from the store.

### `CarStore`: what a folder promises of its store

`Batch` has the rebuild in three steps among many images, `StoreBuild` has every
removal and transaction of it in one folder. `CarStore` is what is true of both:
raw outputs change one at a time and never during a build; a build begins by
dropping the store (`Begin`; if `MayStay`, an old one may resist), makes it anew
(`Create`), adds only what the raw outputs hold, triggers and superseded ones left
out (`Add`), and the store is complete only when all of that is in it (`Finish`),
up to outputs that could not be read if `MaySkip`. Between builds no store
changes; a failed or killed build leaves a partial one (`Abandon`).

| | `store` | `held` | a build runs |
|---|---|---|---|
| `BatchStore` (any one folder `Folder`) | `store[Folder]` | the outputs in `rows` | in `schema` and `fill`, on an image of that folder |
| `StoreBuildCar` | from `db.made` and `whole` | the sources of `db.rows` | from the first removal on |

No file tells a finished `car.db` from one whose build failed, so `StoreBuildCar`
adds the history variable `whole`: the build returned no error. In `Batch`
nothing can fail to be read or removed (`MaySkip` and `MayStay` are `FALSE`), in
`StoreBuild` it depends on `Faults`.

### `Recovery`: what the engine believes

One kernel build, one image after another, an offset store and a signature store
that outlive them and start with anything. An image (`Image`) is what can be
read of it and what is there: which accessors decode, which fields of System are
resident, the process list forwards and backwards with every pointer free to
lead nowhere, the debugger block plain, encoded or absent with or without a
stale copy, and of every process the PID that can be read and the views that say
it has ended.

| Code (`recover_vmm.go`) | Action |
|---|---|
| lookup, `RecoverOffsets`, `Merge` | `Open` (`Learn`) |
| token gate, and token scan | `Token` |
| gates of PID, exit status and links | `Gates` (`Passes`, `Closure`) |
| `recoverObHeaderCookie` | `Cookie` |
| `fingerprintSelfTest`, signatures | `Signatures` (`Located`) |
| `recoverProcessHead`: stored, anchored (and authored), none | `StoredHead`, `AnchorHead`, `NoHead` (`HeadGate`, `Walk`) |
| `recoverKdbg`: stored or scanned plain, encoded, none | `KdbgPlain`, `KdbgEncoded`, `NoKdbg` (`Agrees`) |
| write of the store | `Save` |
| `gateObCookie`, create-time gate | `Typing` |
| `Processes` with `linkedPIDs` (`engine_vmm.go`) | `List`, `Scan` |
| `ActivePIDs` with its three views | `Active` |
| next image, or kill at any step | `Close` |

A wrong offset is one that reads something else: `Shown` lets it show any
processes whatever. The gates themselves are trusted: a value that decodes
System to what is known of System is taken to be right. `walkRing` is a recursive
function over the image's pointers; `HeadOnRing` and `HiddenExactly` compare with
`Ring`, which is defined without a walk.

### `PoolSweep` and `Engine`

`PoolSweep` follows `poolScanProcesses`: calibration on the enumerated processes
(`StartSweep`), the two plans of `symbols.PlanPoolSweep`, `sweepPoolTag` read by
read with its overlap (`Sweep`), the deadline at any moment (`Expire`), the outer
pass over what `SubtractRanges` leaves (`PassEnds`), and the classification
(`Classify`). An address counts chunks of 16 bytes. A plan is the set of its
ranges: they do not touch (`PlanSound`), so that the list in ascending order, which
the code builds by sorting, is determined by the set, and `First` is the range
that is read next. The halving loop of the plan tries finitely many pairs of a
margin and a gap, in an order that is the lexicographic one: `PlanPoolSweep`
takes the greatest that fits. `Engine` composes: the sweep
runs inside `Processes`, once the list is built, and only with object typing and
the PID offset recovered; the rest of `Recovery` goes on when it is over.

### `Enrich`: from the machine to linked events

A `World` is what really happened: processes with their creation and exit, PIDs
reused over time, connections, accounts, registry rows, MFT attributes; and what
the engine sees of it, in which order, with which times. The collectors, the CAR
maps and the order of the files turn it into events; the properties compare the
result with the world.

| Code | Action or operator |
|---|---|
| `collect*` and the CAR map of each | `Process`, `Thread`, `Module`, `Conn`, ... (`Rows`) |
| loop of `BuildStore` over the files | `Load`, `Loaded` |
| `collapseMFT`, `collapseSessions`, `dedupe` | `CollapseMFT`, `CollapseSessions`, `Dedupe` |
| `processIndex`, `match`, `processOffsetIndex` | `Match`, `AtOffset` |
| `hostIdentity`, canonical accounts, `sidUserIndex` | `Host`, `Identified`, `ProfileUser` |
| the loop of `Enrich`, one event per step | `LinkRegistry`, `LinkAccess`, `LinkProcess`, `LinkSpoke`, `Enriched` |

Columns that are treated alike are one field (`uid` for the SID columns, `path`
for executable, image path and command line, `host` for host name and domain).
That one event is linked per step matters: it inherits what its process holds at
that moment, and files come in alphabetical order.

Threads, modules, unloaded modules and handles are asked for *by PID*, once on
the turn of every process the engine lists (`collectors.go:93,122,186,215,299,383`;
`engine_vmm.go:569` caches handles by PID), and the rows carry the address of the
process whose turn it is. `world.listed` says whose lists the library gives for a
PID, `Listed` and `PerListed` make the rows of them: where two processes that are
seen share a PID both turns yield the same list, and where there is none the
collector goes on. `from` is the process a row is really of.

### Other modules

`BatchProofs`, `BatchLedgerProofs`, `OffsetStoreProofs`, `SigStoreProofs`,
`StoreBuildProofs`, `EngineProofs`, `PoolSweepProofs` and `EnrichProofs` hold
theorems and proofs; the `MC` modules the values for TLC. Operators whose comment calls them a
mutant (such as `GivenUpLate`) are bugs the code does not have. No action uses
them: substituted for the definition they name, they must make a property fail,
which shows that the property says something about the code.

## Runs

`tlc -config <run>.cfg <module>`, where the module is `MCBatch`, `MCOffsetStore`, `MCSigStore`,
`MCStoreBuild`, `MCEngine` or `MCEnrich`; each run takes about a minute at most.
Runs of systems that really stop disable the deadlock check: the batch and
`StoreBuild` once the operator's invocations (`MaxRuns`) are used up, the engine
after its images (`MaxImages`), enrichment when every event is linked.

| Run | Checks | Instance | Shows |
|---|---|---|---|
| `MCBatchResume` | `TypeOK`, `Resumable`, `StoreMatchesRaw`, `ValidKept`, `CompletedNotRerun`, `ImplementsCarStore` | 1 image, 5 names (one unknown, one left over and superseded, one done in the old layout), 2 runs with different lists, 1 kill, no FORCE | whatever is on disk, the next process resumes: nothing valid is lost, nothing completed is redone, a complete store holds nothing the raw output lacks, and is rebuilt as `CarStore` allows |
| `MCBatchForce` | `SummaryAddsUp`, `Terminates`, `ImplementsLedger` | 2 images, FORCE on and off, 2 runs, 1 kill | files and markers evolve as `Ledger` allows (given-up entries are never touched again, even under FORCE), the summary is right across images and re-execs, and where every image has a folder of its own every chain of re-execs ends |
| `MCOffsetShared` | `TypeOK`, `SeedCarried`, `CompleteIsWhole`, `Grows` | a writer and a read-only engine with failing reads, 3 accessors (2 decodable), kills, failing writes | the seed is never lost, a closed entry lacks nothing, sessions only add |
| `MCOffsetConverge` | `Converges` | 2 writers, fresh cache, no kills | lost updates notwithstanding, sessions end up starting from a complete entry |
| `MCSigOne` | `HeadsCovered`, `VariantsKept`, `LineagesCovered` | 1 engine, 3 builds of which 2 share a variant, any images, failing reads and writes, kills that come to an end | no write takes a variant away, a head is stored only after its variant is made, at every kill, and in the end a variant leads to every build's head, but for builds whose last authoring failed |
| `MCStoreBuild` | `TypeOK`, `ViewsMatchStore`, `NothingTwice` (`OneBuild`, `NoDoubleView`), `StoreFromDisk`, `ImplementsCarStore` | a built-in, its successor, a plugin without CAR map and the trigger; 2 runs in 4 modes over different collectors; 1 kill; every fault; 3.8 million states | the store always holds what is on disk, once, and the views what is in the store, unless a removal failed and nobody noticed; step by step it is a `CarStore` |
| `MCEngine` | `EngineTypeOK`, `HeadOnRing`, `HiddenExactly`, `KdbgAgrees`, `BaseWins`, `PlanSound`, `NoCoverageDefect`, `OnceEach`, `PoolOnlyExact` | 2 images in a row out of 7 shapes of the process list, 3 x 4 sources of globals, all views of 2 processes, some 200 pool layouts; 4 store entries (2 of them poisoned), 3 signature files, failing writes; 1.2 million states | nothing wrong in a store or an image is consumed as head or block, Hidden means what the code says (found running, and no PID of the ring; one that could not be read there is none), and a sweep finds exactly what its plan can reach |
| `MCEnrich` | `TypeOK`, `OwnerTrue`, `ParentTrue`, `ParentOlder`, `FactsOnce`, `RecordOnce`, `OneLogin`, `OneNamePerSid`, `FillsOnlyBlanks` | 3 processes of which the last may have any PID, seen in 4 orders or not at all, dated or not; 2 sets of accounts, 3 of connections, 2 of registry and MFT rows; lists by PID from either holder, or none; 3 sets of collectors; 494 000 states | links by PID survive its reuse, but for a listing by a PID that several share, facts are merged neither too little nor too much, a file record keeps its longest name and both birth times, values are only ever filled in |

*Bounds.* `MaxStalls` is the code's 2. Two invocations and one kill are enough
for every pair "state left on disk, process that finds it": a process reads
nothing but the disk and its environment. Two images (`MCBatchForce`) are needed for what one
image leaves for the next (indexes, counters), two collectors for what one
leaves for the other; a third only adds length to `todo`. Three accessors are one
read first, one read later and one that never decodes; two engines are enough
for a lost update, as a third could only repeat it. Counters are unbounded in
the model except `stalls`, which saturates one above `MaxStalls`. `Folder` is the
one folder whose `car.db` is compared with `CarStore`: any of them, for the proof.

`MCStoreBuild`: what a run meets of its predecessors is the folder, so two runs
give every pair; the four plugins are one of each kind the rules of `BuildStore`
tell apart, and both mapped ones share a table so that rows of two could meet.
`MCEngine`: `MinRing` 3, `MinLinked` 2 and `MaxRing` 4 stand for 5, 4 and 8192, so
that rings of four entries can be too small, right and too long; the seven
shapes are whole, unlinked, a rho, cut, bent round the head, two module addresses
and a second head; two images show what one leaves in the stores for the next.
The pool has 27 chunks with margins, gaps and cap scaled to them, so that ranges
merge, touch, are halved under the cap and are cut, and a range's rest is one
header. `MCEnrich`: a PID can be reused once before and once after any moment,
which is all `Match` can tell apart.

*Fairness.* `FairSpec` assumes that the process keeps running (`WF` of `Step`,
which also covers the native calls outside the watchdog: open, close, rebuild)
and, only where the watchdog is armed, that a collector either answers or is
declared stalled: that is what the timer in `runOne` guarantees, and no more.
Nothing is assumed of the operator. `ConvergenceSpec` assumes that sessions run
to their end and that each engine meets, again and again, an image from which
every field can be recovered (`SF` of `Open(e, Fields)`): without it an entry
need never become complete, whatever the code does. That of `SigStore` is alike: of
every build a whole image comes again and again (`SF` of `Open(e, b, "whole")`), and
the kills it allows come to an end.
`StoreBuild`, `Engine` and
`Enrich` have safety properties only and assume no fairness.

## Divergences

Each of these runs checks what a comment of the code says, and TLC shows a
behaviour of the code that violates it. `LineagesCovered` and `Converges` also
hold in passing runs, with one author and with writable mounts, and
`StallRecoveryEnds` does where every image has its own folder (`Terminates`).

| Run (property) | Text | Behaviour |
|---|---|---|
| `MCBatchNoStore` (`DoneHasStore`) | `batch.go:38` "Output per image: ... + car.db" | the last open collector stalls twice; the next process has nothing to do and `BuildStore` is never reached |
| `MCBatchSharedFolder` (`StallRecoveryEnds`) | `batch.go:35-36` "completed collectors skip, the stalled one is retried, and after two stalls it is skipped as failed" | two images of one folder (`a/b.raw`, `a_b.raw`) under FORCE: the first answers and the loop after `runImage` removes the marker (`batch.go:236`) that the stall of the second wrote; the second stalls, writes 1 again and re-execs, for ever |
| `MCSigLost` (`LineagesCovered`) | `sigstore.go:38-40` "accumulates [...] the file converges toward covering the build lineages the cache has seen" | two engines author at once and the later rename drops the other's variant; that build's head is stored, so it is never authored again |
| `MCOffsetReadOnly` (`Converges`) | `recover_vmm.go:117` "the store converges over time", `:1328` | an incomplete entry in a read-only cache hides the one in `/tmp` and is staged over it |

Further behaviours that the models show, where the text of the code says more
than the code does, and where a property above therefore has an exception:

* `store.go:213-215` "last writer wins, which is safe": two writers that merge into
  the same base lose one merge until an image yields it again. `Grows` is
  therefore checked and proved for one writer, and `Converges` for two.
* `batch.go:23` "one folder per image": `cleanName` gives `a/b.raw` and `a_b.raw` one
  folder, where the collectors of the second are skipped for the output of the
  first. `DestOf` may be so; the theorems about `Batch` hold for it too. Under FORCE
  such a batch need not end (`MCBatchSharedFolder`).
* `batch.go:35` "completed collectors skip": FORCE is in the environment handed to
  the re-exec (`batch.go:210`), so a collector that completed before the stall is
  run again. `CompletedNotRerun` is stated for batches without FORCE.
* `batch.go:117`: a kill between the truncation and the write of a marker forgets
  its stalls. `Resumable` and `Ledger` allow that; only the number of kills bounds it.
* `pipeline.go:5-7` "safe under subset/incremental runs": the file of a successor
  hides its built-in by mere presence (`pipeline.go:46`). When it holds nothing,
  the batch removes it, but only after the rebuild (`batch.go:234-244`), so the
  store lacks both until the next build. `StoreFromDisk` takes the files as they
  are at the build.
* `pipeline.go:89`: an old `car.db` that cannot be removed is filled a second
  time, so every row is there twice; a view that cannot be removed stays
  (`stuck` in `NothingTwice`, `ViewsMatchStore`). `main.go:117-132`
  drops the errors of the renderings and exits 0.
* `recover_vmm.go:221-226`: an address of `ObHeaderCookie` outside the module is not
  stored, but what was just recovered is still read through; only the typing gate
  rejects it (`at = "outside"` in `Cookie`).
* `recover_vmm.go:251` "first sighting of a build": the same follows where the
  image whose ring gave the head cannot be authored from, or its variant cannot
  be written (`blind`, `Miss`): the head is stored, and no later image of the build
  makes a variant. `HeadsCovered` and `LineagesCovered` except these (`missed`).
* `recover_vmm.go:602-609`: a stored head that fails its gate is ignored and
  stays: the image is then without a head, although it could be anchored.
* `recover_vmm.go:1543`: a running process whose own PID field cannot be read is
  missing on the ring and so counts as Hidden; `HiddenExactly` says exactly that.
* `collectors.go:145-163`: of several processes with one PID the last enumerated
  gives its address to a connection, which makes a link to a process that may
  have come later "definitive". `OwnerTrue` speaks of addresses only where no two
  processes seen share the PID.
* `collectors.go:84-85` "stamped from the process being enumerated, so the owner link
  is definitive": the list is that of the PID. Two processes with one PID get the
  same threads, modules and handles; `dedupe` keeps, of one guid and PID, the fullest
  row, the first where they are alike, so the process enumerated first is the
  "definitive" owner of what may be the other's (`README.md:35` "not a reused-PID
  guess"). Keys, whose guid has the owner's address, are there for both. `OwnerTrue`
  says of a shared PID only that the owner is one of those seen with it.
* `enrich.go:4` a parent's "create time is <= the child's": true of a process
  event's own time. A termination is matched by its exit time, so a process that
  took over the parent's PID in between becomes the parent (`ParentOlder` compares
  with the event's own time).
* `data.yaml:3` one name per SID: files, network and access events come before
  `windows.anamnesis.processes`, so they inherit the SID with the name their
  process had then (`LinkedAfter` in `OneNamePerSid`).
* `timeline.go:60-66`: the malfind overlay takes the last process per PID.
* `enrich.go:485-488`: registry events are never linked to a process, and the
  hives that `collectKeys` names never have the form the SID lookup expects.
* The user of a blank process comes from the sessions by PID alone, so an exited
  process can get the user of the one that reused its PID.

## Proofs

All are for every value of the constants: any number of images, folders,
collectors, lists, runs, kills, engines, accessors.

`BatchProofs` (`DistinctPlugins`: no plugin list names a collector twice):

* `TypeCorrect` (`TypeOK`). Not inductive alone: loop indexes must lie inside the
  lists they index (`InBounds`).
* `AlwaysResumable` (`Resumable`), the inductive invariant behind the next
  three. Its heart is `AheadOpen`: without FORCE a collector of `todo` that has
  not been run has no valid output and fewer than `maxStalls` recorded stalls.
  It survives because `todo` has no duplicates (`TodoDistinct`), so that the
  collector being run is never one still to be run. `StallsRecorded` ties the
  stalls of this invocation to the marker, or to the count on its way there,
  until an output exists.
* `StallsBounded` (`StallBound`), `ValidOutputKept` (`ValidKept`).
* `CompletedSkipped` (`CompletedNotRerun`) where FORCE is never set; with FORCE
  it is false (see the divergences).

`BatchLedgerProofs` (`DistinctPlugins`):

* `BatchImplementsLedger` (`ImplementsLedger`): the refinement, with and without
  FORCE. Every step of `Batch` is a step of `Ledger` on one entry or none
  (`StepIsLedgers`, action by action). It needs that a collector in `todo` was not
  given up, and that an output being written is still its writer's (`TodoOpen`): a
  step that begins, fails or bumps then finds its entry open.

* `BatchImplementsCarStore` (`ImplementsCarStore`), for any folder, even one that
  several images share, and without `DistinctPlugins`. It needs that a build goes on
  in a folder whose store was dropped and has no rows yet (`BuildingEmpty`). Then
  `FillStore` is `Finish` because what it puts in is what the abstract `Loads` are
  (`LoadedIsLoads`), every write or removal of an output is `Extract` if it is in the
  folder and nothing otherwise (`OneOutput`), and a step that writes neither outputs
  nor stores is none, or ends a build (`QuietFolder`).

`BatchProofs` on what the batch says of its results:

* `StoreNeverAhead` (`StoreMatchesRaw`), inductive once it is said that an output
  still being completed has no rows in a complete store (`StoreBehind`), since it
  was invalid when its writer began.
* `SummaryTrue` (`SummaryAddsUp`), if the images are distinct too, which they are
  because `discover` walks the input tree and meets each file once
  (`batch.go:319-338`). Three invariants carry it: every collector of the images so
  far is counted once or still in `todo` (`SumsUp`); `todo` comes from the list
  (`FromList`); and without FORCE what is counted as processed or skipped is, in
  number, what has a valid output among the collectors judged so far (`Counted`).
  The last compares a counter with a cardinality, so each step says by how many
  entries the set grows (`ReapJudges`, `ClassifyJudges`, `CountedElsewhere`).

`OffsetStoreProofs`:

* `TypeCorrect` (`TypeOK`).
* `SeedAlwaysCarried` (`SeedCarried`) over a fresh cache: what a session holds
  between lookup and write covers the seed (`SeedInv`), as `Covers` is transitive
  and `Recovered`, `Solved` only add (`RecoveredCovers`).
* `CompleteEntriesAreWhole` (`CompleteIsWhole`), if the seed and the cache found
  are honest about undecodable accessors (`UndecInv`).
* `NothingLost` (`Grows`), if one engine alone writes the cache and its reads
  succeed: then what it holds covers what the cache holds (`WriterInv`). With two
  writers it is false, and with failing reads too.

`SigStoreProofs`:

* `TypeCorrect` (`TypeOK`).
* `NoVariantLost` (`VariantsKept`) for one engine, whatever fails: what it has read
  back is what the file holds (`ReadIsFile`).
* `StoredIsCovered` (`HeadsCovered`) for one engine, whatever fails: the build of a
  head that a session is about to store is covered already, or its authoring
  failed (`Settled`, `StoreSettled`), and stays so because variants are not lost.
* `StoreTaught` (`NeverEmptied`) for any number of engines: the same with "there is
  a variant" (`Taught`) in the place of "a variant leads there", which survives a
  lost update, since every rename leaves the writer's own. No run checks it: with
  one engine it follows from `HeadsCovered`.

`StoreBuildProofs`: every property of its run, over three layers of invariants.

* `Inv1`: types, that the loop in progress goes over what its kind says
  (`LeftOK`), and that what has records was written by a run (`RawDated`).
  `TypeCorrect` (`TypeOK`) follows.
* `Inv2`: from the load on, what is loaded is what is on disk, since no step of a
  build writes a raw file (`LoadedFromDisk`); no row is of a later run, and none of
  this one before it inserts (`Older`); what this run has added, so far and in
  the end (`Filled`); a store whose file could be removed holds nothing else
  (`Fresh`). `StoreIsDisk` (`StoreFromDisk`) reads off it. `NoRowTwice`
  (`NothingTwice`) has two parts that are inductive relative to it, `OneBuild` and
  `NoDoubleView`; the latter because what is wanted together never contains a built-in with its
  successor, so neither does what one build adds.
* `Inv3`: between the removals and the renderings every view that could be
  removed is gone (`Cleared`), so rows can be added. `ViewsAgree`
  (`ViewsMatchStore`) is its last part.

* `BuildImplementsCarStore` (`ImplementsCarStore`), of `CarSpec`, whose steps are
  those of `StoreBuild` with the history variable. Beyond `Inv1` and `Inv2` it needs
  that a store being filled is not `whole` (`Opening`). `LoadsAreWanted` says that the
  abstract `Loads` are what `BuildStore` wants, `RowsAdded` that rows put in are
  loads added, and the step that returns (`Built`) is `Finish` because by
  `StoreFromDisk` all that was read is in by then (`missed` is what was not).

The only assumption about names is that no CAR object is called "db" or
"timeline", which are the names of files in `stuck`.

`EngineProofs`: for any images, processes, stores and signature files, over
`EngineSpec`, whose steps are steps of `Recovery` or change nothing of it
(`EngineStep`).

* `RecoveryTypes` (`RecoveryTypeOK`): the entry stays an entry through whatever is
  learnt and merged. Inductive with the image in hand one of the images (`IType`).
* `BlockAndHeadAgree` (`KdbgAgrees`), inductive once it is said that a block is in
  use only after the last step that can change the head (`KInv`).
* `StoredStays` (`BaseWins`): the session's entry has at all times what the store
  knows, but for a token that was solved again (`Kept`), so writing it loses
  nothing. Each merge rule of the code is one line of `CoversMore`.
* `HeadAlwaysOnRing` (`HeadOnRing`) and `HiddenIsExact` (`HiddenExactly`), for process
  lists of any size and shape. The walk is proved about first: after every step
  it has seen what lies behind it and nothing else, and it is on the ring that
  holds its start if there is one (`Sound`, `WalkedSound`). So a walk that closes
  has gone round a ring (`ClosedWalk`), and from an entry of a ring it closes and
  sees all of it (`WalkFindsRing`), `Nodes` being finite: a ring that is short
  enough is closed before the bound. With System apart from module and processes
  (`SysApart`) a gated head is on System's ring (`GatedHead`); what is consumed went
  through its gate (`Gated`); and what `linkedPIDs` reads is the PIDs of the ring
  (`RingRead`), wherever its walk starts. The set of processes is finite
  (`RecoveryAssumption`), which an image of memory makes it.

`PoolSweepProofs`: every property of the sweep, over `EngineSpec`, for any memory
layout, margins, gaps, cap and size of a read (`Unit > 1`: a read is longer than a
header).

* `PlansAreSound` (`PlanSound`) from three lemmas about the operators: `BuildIs` (the
  ranges of a plan are apart and cover every address, because between the last
  address of one and the first of the next there is more than the gap), `KeepIs`
  (what is kept of a plan that is too big fits) and `SubtractIs`.
* `HeadersOnce` (`OnceEach`) and `CoverageNeverFails` (`NoCoverageDefect`) from
  `SweepInv`: in a pass (`Swept`) what was found is ascending, what is tagged was found
  or is still to come, and nothing found lies behind what is to come. The last
  part is why comparing with the last hit alone is enough to drop the header
  that two reads share (`FoundIs`, `ReadStep`). Between the passes `CoreSwept` says
  that the core is complete or the time was up, so that nothing was read after.
* `PoolOnlyIsExact` (`PoolOnlyExact`): the order in which deltas are tried is total
  (`DeltasOrdered`), so the first one that leads anywhere is one.
* `EngineTyped` (`EngineTypeOK`), with `RecoveryTypes`.

`EnrichProofs`: for any coherent worlds (`Coherent`: a PID is held by one process
at a time, and so on), with any number of processes and any reuse of PIDs, any
order of the seen ones, any collectors, connections and accounts.

* `EnrichTyped`, `OwnerIsTrue`, `ParentIsTrue`, `ParentIsOlder`, `NamePerSid`,
  `LoginIsOne` (the properties `TypeOK`, `OwnerTrue`, `ParentTrue`, `ParentOlder`,
  `OneNamePerSid`, `OneLogin`) follow from one inductive invariant,
  `EnrichInv`, which has a part for every stage. Until the linking every event is
  typed, unlinked (`Fresh`) and `Told`: what it says of the process it comes from
  is so in the world. While collectors load, those loaded are `Whole`: every
  process they should report has its event. After the sessions' collapse
  `Logins`, after the deduplication `Once`. During the linking, events before the
  next one satisfy `OwnerSo`, `ParentSo`, `OlderSo`, `NameSo`, and those after it
  are as they were.
* `OwnerIsTrue` rests on what a row of a listing says (`ToldSpoke`): that the process
  it is of and the one whose address it carries are both seen and share a PID
  (`PerListedIs`). Only where no other process seen has that PID (`Alone`) are they
  one; for a login and a connection with a known time they are in any case.
* The heart is `MatchTrue`: a PID at a moment when a process that is seen and
  dated ran leads to that process, which needs that no other one held the PID
  between its creation and the moment (`Coherent`) and that its creation
  survived every pass (`Whole`, and that `Identity` keeps two processes apart).
* `OnlyBlanksFilled` (`FillsOnlyBlanks`) is an action property of the linking steps.
* `FactIsOnce` and `RecordIsOnce` (`FactsOnce`, `RecordOnce`) rest on a second
  invariant, `FactsInv`, inductive together with the first. Until they are merged
  the MFT attributes are all there and untouched (`Unmerged`, `AllRows`). From then
  on the events cover what was loaded (`Covers`: every fact is there and no
  emptier; it is transitive, so each pass is looked at alone), as many events
  without a guid are left as there were, each record is one event that `Tells`
  its name and times, and after the deduplication no fact is there twice (`Solo`).
  Losses are counted by a one-to-one correspondence of positions (`OneToOne`,
  `SameSize`), never by adding up.

The collapsing passes are stated over the positions of a sequence (`Pick`, `Best`,
`Collapse`). `PickAt` and `CollapseAt` say what they return: the positions picked,
in order, each once; and for every key one element, the best that has it.
Assumed of the constants: `None` is a value of its own, connections are finitely
many and not processes, registry rows hold what they should (`WellFormed`).

The walk is a recursive function of the number of steps. Its proof is an
induction all the same: the least number of steps after which a statement
would fail is taken (`LeastOne`, from the well-foundedness of `<`), which needs
no induction theorem with an operator for its parameter. That the recursive
definition has a solution is proved by such an argument (`TraceExists`) rather
than taken from the definition, and `WalkedTrace` cites it.

What stays with TLC:

* `Terminates` (`StallRecoveryEnds` for distinct folders), `Converges` and
  `LineagesCovered` are liveness, out of the prover's reach. `MCBatchForce` checks
  the first with one collector for each of two images; `StallsBounded` is proved
  for any number of both, without FORCE.

## Limits

What the models leave out of the parts they cover:

* Data: records, events and offsets are classes, not values. That a recovered
  offset is right is the disassembler's business; a wrong one comes from a store.
* Two behaviours that follow from `Batch` and are not runs of their own: an
  output cut after its first record counts as done (`validJSONL` reads one line),
  and under FORCE an older output is counted as processed when the engine does
  not open, so that such a batch exits 0.
* `os.Remove` fails in `StoreBuild`, not in `Batch`; `os.Stat` fails in neither,
  and directories can be created.
* The first-line limit of `validJSONL` (1 MiB) is not modelled: its effect is that
  of an output without a whole record.
* A goroutine left behind by a stall touches nothing the next process sees.
* `StoreBuild` does not load outputs of the old layout, as the code does not.
* In `Recovery` one engine at a time writes the stores. Sharing them is the matter
  of `OffsetStore` and `SigStore`, where in turn what a stored value is worth is
  left out.
* `PoolSweep` has no end of the address space and no margin below a chunk. Two
  deltas used equally often are ordered by their size (`Before`), where the code
  leaves the order to a map and an unstable sort (`recover_vmm.go:1004-1008`); `only`
  is a set (`Classify`), where the code's list may name an object twice that two
  headers lead to (`:1048-1070`).
* The address of a block in a stored `Entry` is one in the module; the code's guards
  against one outside (`recover_vmm.go:725,899`) are not reached.
* `SigStore` has no ring that is long enough to be anchored but too short for the
  gate of the fingerprints (`Covered`).
* For the batch `StoreBuild.Invoke` runs the collectors without a valid output.
  FORCE, the old layout and the count of stalls, which decide it too
  (`batch.go:210-216`), are in `Batch` only.
* `Enrich`: the identity of an access also has its access level (`enrich.go:136`);
  each process has one access row here, so `Identity` leaves it out. Where the
  library cannot list a PID (`world.listed`) no collector gets a list of it.
* External: the vmm library, SQLite with its transactions, the file system (a
  rename is atomic; data is durable in the order it was written).

Not modelled, and why:

* Memory profile (`internal/profile`, `cmd/frameprofile`) and symbol tool
  (`cmd/symrec`): developer reports, pure functions of one image without state
  that any other part reads.
* Decoding of PE headers, x86 instructions, environment blocks, SIDs and process
  parameters (`symbols/pe.go`, `procparams.go`, ...): byte formats with fixed
  layouts, whose mistakes are wrong constants rather than wrong orders of steps;
  the models take their outcome (decodes, does not, decodes wrong).
* The collectors whose records are neither linked nor feed a link: process list
  of a second source, drivers, image information, banners, file scan, malfind and
  its overlay in the timeline: one loop each from a listing to records.
* The projection of the remaining CAR columns (`normalize/mappings.go`, `value`,
  `carmodel`): tables and formatting.

## Plan

`Watchdog`: goroutine, timer and select of `runOne` (`collect.go:152-174`), refining
the choice between answer and stall that is one step in `Batch`.
