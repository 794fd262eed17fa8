# pwnlibc in TLA+

pwnlibc is a command-line tool: it downloads the Ubuntu builds of glibc from several mirrors, keeps them under
one cache directory with an index of their symbols and BuildIDs, identifies a libc file, patches a challenge
binary to use a given version, and carries versions between machines as tar bundles.

This directory holds its specification: TLA+ modules translated from the Go source, configurations that
model-check them with TLC, and proofs that TLAPS checks. `PROJECT.json` lists, for each definition, the source
lines it stands for; for each run, its properties; for each property, a change of the code that violates it; and
the hazards the properties are for. Paths below are relative to `src/internal/` unless they start with `src/`.

    tlc -workers 2 -config MCFetch.cfg MCFetch     # one run
    tlapm FetchProofs.tla                          # the proofs of one module

## 1. Inventory

| Part | State it keeps | Operations | Meets | Hard because |
|---|---|---|---|---|
| Racing downloader, `fetch` | per call: goroutines, contexts, response bodies, one buffered channel | `DownloadFileRacing`, `GetWithRetry` | the mirrors; download and mirror update call it | goroutines, timeouts, retries, disposing of losers without cancelling the winner |
| Download and cache, `cli/download.go`, `cache` | `debs/`, `libs/<version>/<arch>/`, `PROVENANCE.json` | `runDownload`, `downloadAndExtractDeb`, `Manifest.Save` | fetch, archive, index; patch and run call it | several processes, no lock but the index's, kills, errors halfway |
| Index, `index` | bbolt: symbols, metadata, BuildIDs | `Open`, `IndexVersion`, lookups, fingerprint | download writes it, identify, patch, search read it | the file lock with its 5 s timeout; sort order of equals |
| Identification, `identify`, `libcrip` | none of its own | `Identify`, `searchByBuildID`, `autoIdentifyVersion` | index, libc.rip, patch, run | three sources in order, offline and failing service |
| Mirror registry, `mirrors` | order, failures per mirror, in memory | `NewRegistry`, `Ranked`, `RecordFailure/Success`, `Probe` | config, update, download | the order under every configuration; the circuit breaker |
| Package list, `packages` | `packages.json` | `Merge`, `Save`, `LoadList`, lookups | mirror update writes, search and download read | merging partial answers; two writers, a reader beside a writer |
| Bundle and archive, `bundle`, `archive` | the tar being written or read, a version's directory | `Export`, `Import`, `SafeExtractTar` | a download into the directory being walked | sizes and names read before the data; errors dropped in defers; partial imports |
| Patching, `patcher`, `cli/patch.go`, `cli/run.go` | the copy of the binary | `FindLoader`, `Patch`, `copyFile`, `findCoLocatedLibc` | identify, download, patchelf | two commands with one output, two paths of one file, failure after truncation |
| ELF reading, `elfinfo` | none | BuildID note, symbols, hardening flags, glob, strings | index, identify, diff, search | sizes that wrap around, notes cut anywhere, two symbol tables |
| Build and container, `buildsrc`, `cli/build.go`, `cli/run.go`, `cli/dockerutil.go` | a docker CLI as child, a container, an output directory | `Build`, `ImageFor`, `hostPath`, run's launch | docker | the scanner's limits, a full pipe, a two-hour timeout that kills the CLI and not the container |
| Versions and CVEs, `glibcver`, `vulndb` | none | `Ordinal`, `AffectedBy` | vuln, buildsrc | comparing versions |
| Symbol diff, `diffcmd` | none | `Diff` | elfinfo | both directions must agree |
| Searches, `cli/search.go` | none | by version, BuildID, symbol, local | packages, index, libc.rip, elfinfo | the tolerance filter's arithmetic |
| Configuration and start, `config`, `cli/app.go` | read once | `Load`, `PersistentPreRunE` | every command | keys left out, a file that does not parse |
| Doctor, `cli/doctor.go` | none | probes and checks | mirrors, docker, disk | one budget shared by all probes |
| Output, entry point | none | printing | every command | - |

What makes the parts correct, in a sentence each: the race returns the first success, whole, and leaves nothing
running; whatever was killed, what is indexed can be trusted and a manifest tells the truth; packages.json is what
the mirrors said; the registry is in the user's order; an indexed file is recognised, and an exact answer is
exact; a bundle that looks complete is complete; patch writes only its output, all of it;
a build's verdict is true and always comes; and every command that only reads gives the answer its question asks for.

## 2. Modules

| Module | What it is | Lines it is from |
|---|---|---|
| `Fetch` | `DownloadFileRacing` and `GetWithRetry`: one action per step of a goroutine, of the collector, and of a timer | `fetch/fetch.go` |
| `Race` | what a caller may rely on: the abstract specification that `Fetch` implements | `fetch/fetch.go` (its contract) |
| `Store` | processes running download, patch and identify over one cache directory | `cli/download.go`, `cli/patch.go`, `archive/extract.go`, `index/index.go`, `cache` |
| `Cache` | what the commands make of the cache, seen from outside: the abstract specification that `Store` implements | `cli/download.go`, `cli/patch.go`, `index/index.go` (their contract) |
| `Catalog` | registry, package list, `mirror update`, and the readers of the list | `mirrors`, `packages`, `cli/mirror.go`, `cli/download.go` |
| `Identify` | the index over a sequence of downloads and queries, and the pipeline over it | `index`, `identify`, `libcrip`, `cli/search.go` |
| `Bundle` | an export while a download runs, then an import | `bundle`, `archive/extract.go`, `cli/bundle.go` |
| `Patch` | commands that patch a binary at the same time | `patcher`, `cli/patch.go`, `cli/run.go` |
| `Versions` | the order of versions, `AffectedBy`, `ImageFor`: definitions | `glibcver`, `vulndb`, `buildsrc` |
| `Containers` | `build` and `run`: command, docker CLI, container and the pipe between them | `buildsrc`, `cli/build.go`, `cli/run.go`, `cli/dockerutil.go` |
| `Mirrors` | `NewRegistry` and what a registry should be: definitions | `mirrors` |
| `Elf` | what is read from an ELF file, and the references it is compared with: definitions | `elfinfo` |
| `Session` | builds and runs side by side, or one command that only reads, from its configuration to its answer | `cli/app.go`, `config`, `diffcmd`, `cli/search.go`, `cli/vuln.go`, `cli/doctor.go` |
| `MC<X>` | instances of `<X>` for TLC, and what a document says that the code does not do | |
| `Lists` | the filter loop, and the sum of a list: definitions | used by the modules above |
| `<X>Proofs` | theorems about `<X>`; `SessionProofs` has those about `Containers`, `Elf` and `Versions` | |

How the modules fit: `Store` uses the race of `Fetch` by its effects (the destination is created, grows, the call
returns with or without an error), which is what `Race` states. `Catalog` builds the candidates that `Fetch` is given.
`Identify` takes queries one at a time because `Store` shows that nobody changes the index from a query's first lookup
to its answer (`LookupsSeeOneIndex`). `Bundle` and `Patch` have the steps of a download that matter to them and leave
the rest to `Store`. `Containers` extends `Versions`; `Session` extends `Containers`, `Elf` and `Mirrors`; `Catalog`
extends `Mirrors`; `Mirrors` and `Elf` extend `Lists`. `run` downloads and patches first, which is `Store` and
`Patch`; `Containers` has what follows.

### Fetch

`pc[c]`, `attempt[c]` and `result[c]` are goroutine c's place in `GetWithRetry` and what it returned; `rctx` and
`cctx` the request's and the child's context, `parent` the caller's; `results` is the channel; `i`, `cpc`,
`winner` the collector. A body is a number of chunks. `StartRequest`, `Wake`, `Send` and the ways a request ends are the
goroutine; `ReceiveWinner`, `ReceiveLoser`, `ReceiveError` the three branches of the collector's loop
(`fetch.go`, "cancel the losers' contexts"); `CreateDest`, `CopyChunk`, `CopyEnds`, `CopyFails` the writing of the
file with its SHA-256. A response whose end is not announced (`Framed` does not hold it) may end early without an
error. A mirror may never answer: only timers end such a request.

### Store

A process is killed or fails at every step that can. A build is what some mirror serves of a version; a file is a
sequence of blocks of builds. `deb[v][k]` is the directory entry of package k's .deb (libc6 or libc6-dbg),
`inode[p][k]` the blocks of the file p created, `fd[p]` what p writes to. `OpenFile` truncates a file of the version
and `WriteFile` puts one block at p's own position (`pos`), as `io.CopyN` does into a file opened with `O_TRUNC`, so
`libs[v][f]` may hold blocks of two builds, holes, or the end of a longer one. `downloadAndExtractDeb` (`NoMirror` to
`ExtractEnds`) is run for libc6 and, from `FetchDebug`, a second time for libc6-dbg (`pkg[p]`), where a failure is only a
warning (`Fails`). What a download indexes it reads from the libc that is there then (`LoadLibc`, `LoadSymbols`): a
torn one has the BuildID of one of its builds or none, and `Put` makes no BuildID entry where there is none.
`lock` is bbolt's flock, which `OpenIndex` waits for and `OpenTimesOut` gives up on after 5 s. `writers` is read
by properties only.

`Cache` has none of this: a command is out of the index, looking something up, or adding and recording a version, or
has its result; a version's files are there or not; an index entry and a record exist or not. It allows a version to
be added only when all its files are there, a record only after the entry, and success only after the record (for
patch: with both files). The commands are those of `Store`; an import, which does remove files, is in `Bundle`.
`ImplementsCache` maps the places in `Store` to these stages (`Stages`, `Present`, `Records`), the lock to its user,
and the index to itself (the symbols of a torn libc are `Junk`); everything done to .debs, offsets and descriptors is a stutter.

### Catalog

A listing is the set of files a mirror hosts; hosting changes between requests (`Retire`). An updater asks the mirrors one after
the other under one 60 s deadline, merges and saves with open-truncate then write; readers load whatever is there.
A list on disk is known by its writer, so that the property can ask what that writer was told.

### Identify

A build has a BuildID or none, and anchors at offsets. `IndexVersion` is a download's transaction; `Ask` begins a
query, and each lookup is an action, so that libc.rip may answer (which names no version the cache knows) or fail
in between.

### Bundle

`ReadNames` is Walk's reading of the names, `Stat`, `Open`, `Copy` follow it from name to name in their order, while
`Truncate`, `OpenFile`, `WriteBlock` are a download into the same directory. The tar's entries have a size from Lstat and blocks from the copy. `ExportError` ends an
export with an error, or with success when only a deferred Close failed (the bundle is then cut). `NextEntry`,
`WriteEntry` are SafeExtractTar, over a destination that may hold a version already.

### Patch

A path leads to a file, and two paths may lead to one. The copy is made by blocks. patchelf takes the output's length
(`StatElf`), reads that many blocks (`ReadElf`), opens the output with `O_TRUNC` (`OpenElf`) and writes block after
block (`WriteElf`), each a step, which is how two commands with one output get in each other's way. `Detect` finds the
version by the first name beside the binary that looks like a libc's. While a version is downloaded (`Extract`) its
loaders appear one after the other and its links go and come, so another command finds the directory half extracted;
`fetched` (read by properties only) has the versions to which that happened.

### Containers

A build is a command, its child and a container. `cli[p]` is the docker CLI, which `CommandContext` kills when
`limit[p]` expires, and which may die by itself (`CLIDies`); `ctr[p]` the container, which the daemon runs and
which goes on without the CLI; `pipe[p]` the lines in between, `Cap` at most, so that a container that nobody reads stops in `Write`. A line is of one of four
kinds (`LineKinds`): ordinary, longer than the scanner's 1 MiB, the sentinel, the sentinel behind output that did not
end its line. `Scan`, `ScanEOF`, `WaitForCLI` are the command; its verdict is the child's exit status, then the
context, then the sentinel, in the code's order. `out` is the output directory on the host, file by file with who
wrote it last, so that a container left behind by one attempt meets the next (`after`). `HostPath` translates a
directory for the daemon and refuses one under no known root. The daemon, the CLI and `buildScript` are external.

### Session, Elf, Versions, Mirrors

`Prepare` is `PersistentPreRunE`: the configuration's keys over the defaults, then `NewRegistry`. `Run` is the body of
vuln, diff, `search --libc` and `search --symbol`; `ProbeNext` and `Diagnose` are doctor, whose probes share a budget
of time. The answers are definitions translated from the code: `ParseBuildIDNote` over 4-byte words with sizes that
wrap at `Top`; `Symbols` with the precedence of the tables; `GlobMatch`, `Hex`, `IndexBytes`, `StringsInDataSections`; `Diff`;
`FilterByTolerance` in words that wrap at `Wide`; `Ordinal`. Each has a reference written independently of it
(`IDOf`, `Matches`, `NumberUpTo`, `AddressesOf`, `OffsetsOf`, `Applied`, `Ranges`, `InUsersOrder`), and the properties compare the two for
every input of the instance, the theorems for every input. A file carries, beside its words, the notes they were
written from (`written`), list by list: `BuildIDRight` compares what `ParseBuildIDNote` finds in the words with what
the notes hold. A loop that the code runs over a slice is a recursive function on positions here (`Lists`, `ParseFrom`,
`GlobFrom`, `HexUpTo`), so that it can be unfolded in a proof.

## 3. Runs

| Run | Instance | Shows |
|---|---|---|
| `fetch` | 3 candidates: announced end, unannounced end, bad URL; the default 3 attempts; bodies of 2 chunks | every order of answers, retries, timeouts and receives; and that `Fetch` implements `Race` |
| `fetch_fallback` | an ordinary and a fallback candidate, 1 attempt | finding 1 |
| `store_shared` | a download and a patch without `--version` on one version, both killable; builds whose files have 2 blocks and 1, one without a BuildID; .debs of 2 blocks | what holds even when processes share a version; and that `Store` implements `Cache` |
| `store_distinct` | a download with its debug package, a patch without `--version` on another version, an identify; two may be killed | what holds when they do not, what stays of both packages' .debs; and that every process ends |
| `catalog_concurrent` | 2 updaters (one killable), a reader, a custom mirror with a built-in's name | lists and file |
| `identify` | 5 builds of 3 versions, one stripped, one later build of a version, one unknown; 5 downloads and queries | the pipeline |
| `bundle` | 3 files and a link, 2 builds of unequal lengths, directory empty or not, destination empty or not | interleaved export, cut bundles, imports |
| `bundle_links` | the same | finding 2 |
| `patch` | 2 commands, 4 paths of 2 files and a new one, 2 versions, 6 listings of loaders | interleaved copies, rewrites and extractions |
| `patch_original` | the same, fewer outputs | finding 3 |
| `session` | 3 builds (2 into one directory, at once or one after the other; 1 refused), 2 runs; or a reading command: 18 configurations, 4096 behaviours of six mirrors, sections of four arbitrary words, sections loaded at their offset or above it, one or two lists of notes whole or cut at any word, patterns of 3 characters, all addresses of 4 bits | build's verdict and its containers; every answer against its reference |
| `run_container` | 2 builds, 2 runs of binaries outside the libs directory | finding 4 |

Why the bounds are enough. Two of everything that races is where the interleavings are: two writers of a file, a
writer and a reader, a winner and a loser; the third candidate of `fetch` is one that never gets to a request, and
the
third process of `store_distinct` is one more waiter for the lock. Two blocks distinguish begun, half and whole; that
builds differ in length (`Lengths`) is what leaves a hole or a foreign end in a file. Three attempts are the
code's default and include a first, a middle and a last. Five downloads and queries suffice to index three
versions, replace one and ask. Six and seven anchors are on both sides of the threshold of six. The theorems of
section 6 remove the bounds from what they state. Only `store_distinct` has libc6-dbg, which no two of its processes want;
`SuccessComplete` and `DebHasCause` hold of commands that share it. The runs use no symmetry: their processes differ in role.

In `session` the pipe holds one line (`Cap`) and a container writes one (`Lines`) and the sentinel: enough to fill
the pipe with the reader gone, by an over-long line before the sentinel; one installed file is enough because what
matters is who wrote it last. Words wrap at 64 (`Top`) instead of 2^32 and addresses at 16 (`Wide`) instead of 2^64: both
edges, the middle and everything between are inputs; digits are in base 4 (`Base`), a major version counts 100 (`Unit`), more than
any minor one, as 10000 is. Doctor's budget and probe limit are the code's 8 s and 5 s in half seconds; a mirror answers at
once, after 3.5 s, with an error, or never. The session runs say `CHECK_DEADLOCK FALSE` because commands end; the
other runs check for deadlock.

Every property of a passing run has a mutant in `PROJECT.json`: an operator (marked "Mutant:") of the run's base
module, or of one it extends, that changes a definition as a plausible bug would, under which the property fails.

## 4. Fairness

Liveness is checked in three runs, and `FairSpec` asks weak fairness there of what the program or the kernel does get to do.

- `fetch` (`CallReturns`, `ImplementsRace`): the Go scheduler runs a goroutine that can run; request timers fire; `Do`
  and a body's `Read` return once their context is done. Nothing is asked of the network or of a mirror: a
  request may end only because its context expires.
- `store_distinct` (`AllEnd`): a process that can step does. A waiter's two ways on, getting the lock and timing
  out, are one step together, so no waiter depends on others releasing the lock; and nobody has to be killed.
- `session` (`BuildReturns`): the command is scheduled and its timer fires (`CommandsRun`); the daemon, the docker CLI and the
  container promise nothing, so a build's end rests on the limit alone.

No fairness prefers success: an action with a failing branch may take it every time.

## 5. Findings

Four disagreements between the code and what the repository says of it, each shown by a run that ends in a violation.

1. `fetch_fallback`: `config/config.go:17` says "Fallback mirrors are only tried after all non-fallback mirrors
   fail". The candidates go to `DownloadFileRacing` in order, but it starts all of them at once.
2. `bundle_links`: "Export writes every file under libsDir" (`bundle/bundle.go:18`); a symbolic link's header has no
   target, Import removes what is at the destination and cannot make the link, and both report success.
3. `patch_original`: `src/README.md:379` says "`patch` never modifies the original file". Paths are compared as
   strings: the same path is patched in place, another path of the same file is truncated before it is read.
4. `run_container`: `cli/run.go:24` says the container serves "to reproduce a challenge immediately"; it has the
   binary's directory only, and the interpreter of the patched binary is in the version's directory, outside it.

Met while modelling, and not shown by a run.

- Downloads: a copy that fails leaves a partial .deb, which only the next download of that version overwrites; two
  downloads of one version from mirrors that serve different builds can leave a manifest with the one's SHA-256
  beside the other's files, or files that hold blocks of both, and patch takes them as they are; a command that
  succeeds without its debug symbols may leave libc6-dbg's partial .deb; an index held by an identify that asks
  libc.rip for up to 15 s outlasts the 5 s another
  command waits; losers are cancelled only as their own outcomes arrive, so a slow one delays the return.
- Mirrors and lists: a `legacy` mark is wrong when the non-fallback mirrors did not answer the update
  (`packages/packages.go:20` says "only on old-releases"); the circuit breaker cannot open within a download (proved as
  `NoCircuitOpen`).
- Identification: `src/README.md:348` says fingerprints are for stripped files, the code uses them whenever the BuildID
  is not found; a match by libc.rip carries no version, so that patch, which needs one, fails although the file
  was identified (`cli/patch.go:135`); `libc++.so.1` sorts before `libc.so.6` and is taken for glibc's.
- Bundles: a bundle's manifest may itself be partial; an import that fails leaves the new manifest beside the old
  libraries; imported versions are not indexed.
- Builds: `build 2.33` builds the glibc of the image's distribution, 2.31, and reports 2.33
  (`buildsrc/buildsrc.go:19-22`); a line over 1 MiB stalls the build until its limit and then leaves the container at
  work; the attempt after a limit shares the directory with that container; `hostPath` refuses a directory of a
  pwnlibc installed without the wrapper, which `src/README.md:159-160` offers.
- Reading commands: differences of addresses wrap, so 0 and 2^64-1 are 1 apart, and two addresses 2^63 apart match at any
  tolerance; `search --libc --str` gives addresses
  where the comment of `StringsInDataSections` says file offsets and the JSON field is called `offsets_hex`
  (`elfinfo/elfinfo.go:280-282`, `301`, `cli/search.go:137`): in a libc's `.data`, which is loaded above its offset, they
  differ. `StringsExact`, a part of `AnswersExact`, states both halves, that the answers are the documented offsets
  where a section is loaded at its offset and are not where all are loaded above; `align4` wraps at sizes next to 2^32 and the
  slice that follows panics.
- Doctor and output: two silent mirrors at the front use up doctor's 8 s and the live ones behind are not
  counted; doctor exits 1 without a docker socket, which `src/README.md:477` says is no failure; with `--json` a doctor
  that fails prints two envelopes, the first with `ok: true`, and an error before `PersistentPreRunE` ends is printed as
  text (`cli/app.go:155-158`); the code of an error wrapped with `%w` is lost and comes out as "internal".

## 6. Proofs

All theorems hold for every value of the constants under the modules' named assumptions. Each is proved in the
same way: an invariant is true initially, kept by every step (one lemma or step per
action), and implies the property.

| Module | Theorems | The invariant and why it is needed |
|---|---|---|
| `FetchProofs` | `TypeCorrect`, `WinnerSurvives`, `NoContextLeak`, `NoneOutlivesCall`, `WinnerIsFirst`, `SuccessIsSound`, `FailureIsSound`, `FetchImplementsRace` | `Order`: the channel carries each candidate once, so that `i = Cardinality(Cands)` means everybody has sent (a counting argument with FiniteSetTheorems); `Contexts`, `Bodies`: which are open, by whether the outcome has been received and won |
| `StoreProofs` | `TypeCorrect`, `LockIsDisciplined`, `LookupsSeeOne`, `IndexBeforeManifest`, `SuccessComplete`, `PatchUsesOne` | `OwnBuilds`: whatever a process or the disk holds of a version is one of its builds, or else an index entry could lead elsewhere; `Progress`: how far a process has come with its two packages; `Batches`: while the writers since somebody last began agree on a build, each file has blocks of it and holes only, and is whole as far as one of them has come; `Recorded`: no step takes back what success reported |
| | `StoreImplementsCache`, `NothingGoesFromCache` | `Placed`: what was extracted or is being written is in the directory, and patch goes on with a version only when its libc is there; so whoever is past its extraction finds every file |
| | `ManifestIsTrue`, `DebHasCause` | `Private`: what a process and the disk have of its version is its own body at every step; `OthersStep`: a process at work on another version leaves all of that alone, the .deb's file behind its path included; `DebKept`: whoever truncated a .deb last has yet to remove it, or never will |
| `MirrorsProofs` | `RegistryInOrder` | no state: `ThoseFacts` says what a filtered list has, in which order and how often; `PreferredFacts`, by induction over `mirror_priority`, that the ranked built-ins come in its order, each once; the unranked ones and the custom mirrors follow, and moving the fallbacks to the end keeps the order within each kind |
| `CatalogProofs` | `NoCircuitOpen`, `UnreadableCaused` | `Uncharged`: a registry is charged for the first time at a step after which it is not asked; `Caused`: a list on disk is that of a writer who has ended |
| | `MergeSays`, `ListsFaithful` | `MergeSays`, by induction over the listings: what the accumulated list says of each file is what the listings so far said. `Kept`: a list on disk or in a reader's hands is the merge of what its writer was told, and that writer is done, so nothing it is told later can make the list untrue |
| `IdentifyProofs` | `IndexedRecognised`, `OfflineResult`, `ExactAnswers`, `BestFingerprint` | `Leads`: a BuildID leads to an indexed version that has such a build; `Pipeline`: each stage is reached only when the earlier one missed |
| `BundleProofs` | `TypeCorrect`, `ManifestMeansAll`, `QuietRoundTrip`, `CompleteImport`, `ImportConfined` | `Downloading`, `Fresh`: the manifest exists only after the rest is whole; `Covers`: so an export that has its name has all names; `Quiet`, `Importing`: what was copied so far is a prefix; `Confined`: no two entries have one name, so what an import has behind it stays |
| `PatchProofs` | `TypeCorrect`, `OthersUntouched`, `LoaderPresent`, `SuccessIsPatched` | `Directory`: a path leads to one file for good; `Mixed`: once every writer's patchelf has opened a file again, which truncates it, it holds blocks they have patched and holes only; `OneCopy`: the copy, what patchelf read of it and what it has written back are prefixes of the binary when nobody disturbs them |
| `SessionProofs` | `SessionImplementsContainers`, `TypeCorrect`, `SuccessIsSound`, `OnlyACutLeaves`, `FailureIsExplained` | `Own`: where command, CLI, container and limit may stand together; `Heard`: the sentinel is in the pipe, seen, or was lost for a reason that is on record; `Succession`: while a build's attempt before it may still write, that one's limit has expired or its CLI died |
| | `RegistriesInOrder`, `DoctorIsRight` | `Started`: a registry is `NewRegistry` of the command's configuration; `Course`: the budget left is at least the whole less what the prompt mirrors probed so far took and, at most once, a probe's limit (`OneLate`), so each prompt mirror is given its time and counted (`Tally`) |
| | `AnswersAreExact`, `BuildIDsAreRight` | `Course`: an answer is `AnswerTo` of the command, a crash is a panic. The rest is about the definitions, below |

`AnswersAreExact` rests on one lemma for each answer. `OrdinalOrder`: with minor numbers below `Unit` the weighted sum
orders versions as (major, minor) does. `DiffIsExact`: the changes partition the names of both tables. `FilterExact`:
in the lower half of the address space the wrapped difference is the difference. `GlobExact`: `M[k]` holds the
positions from which the last k characters of the pattern can be cut to fit (`CutStep`), so the code's recursion and the
reference's cuts agree. `DigitsExact`: the printed digits end in the given ones exactly when the number's residue by
the base's power is theirs, by induction on the digits from the last one. `StringsFacts`: from any start, the
positions a section's search returns are the occurrences from there on, each once; sections do not overlap, so no
address is returned twice. `PlacesExact`: those addresses are the file offsets when all sections are loaded at theirs,
and when all are loaded above, the least offset of a place is below every address returned.

`BuildIDsAreRight` goes note by note from the last to the first (`ParseExact`): at the word where a note begins, the
parser finds what the notes from there on hold, as `TurnAt` shows it finding the note's own id or going to the
next one's first word; where the list is cut it runs out of words before it can take part of a note for a whole one
(`CutExact`). `PanicCause`, for any words whatever: only a size within three of `Top` makes the slice expression panic.

`FetchImplementsRace` is the safety half of `ImplementsRace`, by step simulation under the refinement mapping of
`Fetch`: a goroutine's step settles its candidate or is a stutter, and the collector's steps are the abstract
`AllFailed`, `Create`, `Copy`, `Deliver`, `Abort`. The hard step is the first success received: it is the
earliest success of the channel (`Earliest`), which is what the abstract race calls the winner.

`StoreImplementsCache` is all of `ImplementsCache`, which asks no fairness. The steps that touch neither disk, index nor
lock are stutters, a failure, or patch's success (`InnerMaps`); opening and writing a file both put it there
(`FileMaps`); a step under the lock is the abstract one of the same place or a failure (`LockedMaps`, `FailMaps`). The
hard step is `OpenMaps`: a download that gets the index may have had its files truncated by another since, and the
theorem needs that they are there all the same (`AllPresent`). What holds of every step of `Cache` then holds of
`Store`: `NothingGoesFromCache` is proved of the abstract steps, of which there are nine, and not of the twenty-two.

How recursion is proved about. The provers cannot instantiate a theorem of induction, which has an operator as
parameter; the lemmas by induction argue from a least (or a greatest) counterexample instead, which exists because < is
well founded on the naturals (`Induction` in `MirrorsProofs`, `StrongInduction` and `BackwardInduction` in `SessionProofs` say it for a set of numbers).
A recursive function is a CHOOSE, which says what its values are only when such a function exists: lemmas named
`...Def` show that it does, and give the equation that the code's loop is.

Assumptions. All are named ASSUMEs that TLC evaluates in the runs. Finite non-empty candidates and natural sizes
(`Fetch`); at least one block to a .deb and to a file, and values of distinct kinds (`Store`); updaters are not readers (`Catalog`);
finite anchors, and a BuildID belongs to one build of one version, being a hash of what was linked (`Identify`); names
listed once, links are not the manifest (`Bundle`); files known by themselves, loaders that are links are called
ld-linux (`Patch`); a pipe that holds a line (`Containers`); the built-in mirrors and a configuration's keys are lists
(`Mirrors`, `Session`); words are uint32s, `Top` a multiple of 4, a base above 1 (`Elf`); and of a session's inputs
(`Session`): minor numbers are below `Unit` (10000 in the code), addresses are uint64s and tolerances not negative,
every mirror answers a probe at some time or after its limit, names and contents are finite, the sections read for
strings do not overlap in memory, and the notes of a file that is called whole or cut were written by some
writer, with sizes that are not within three of 2^32. A file of arbitrary words is neither, and only the last
part of `BuildIDRight`, which is about panics, applies to it.

Three theorems carry a condition of their own: `ManifestIsTrue` that no two commands download or patch the same version
(`Alone`, which run `store_distinct` meets and without which TLC finds it violated), `UnreadableCaused` and
`ListsFaithful` that a list's JSON is told from what is none (`ListsApart`).

Every invariant of a passing run is stated by a theorem, and so are `ImplementsCache` and the action properties
`LookupsSeeOneIndex` and `PatchUsesOneBuild`. (The runs do not check the type correctness of `Store`, `Bundle`, `Patch` and `Containers`: theorems
named `TypeCorrect` prove it.) Only model-checked: the liveness properties (`CallReturns`,
`AllEnd`, `BuildReturns`, and the fairness half of `ImplementsRace`), because TLAPS does not handle fairness and ENABLED.
The four runs that end in a violation are counterexamples, and there is nothing to prove of them.

## 7. What is not modelled

- Output and entry point (`ui`, `jsonout`, `pwnerr`, `cmd/pwnlibc`, Dockerfile, scripts): formatting and packaging, on which
  no other part depends. So what is printed, and in which format, no property is about.
- The parsing of ELF tables (`debug/elf`), of `config.yaml` and of versions into components: external or assumed done.
- What docker, bash and make do, beyond what a build's command can see of them; the package's prefix and platform.
- Doctor's checks of docker, directories, disk and index: one nondeterministic outcome.
- Inside modelled parts: HTTP below a response, bbolt and flock (a transaction is one step, the lock is one
  variable), tar and gzip beyond entries and where they end, `safeJoin` and the size cap of an extraction, file modes, and how
  patchelf lays out a file.
- An operating system crash: processes are killed, the file system stays.

## 8. Plan

Done, in this order: `Fetch` and `Race` (every download goes through it), `Store` and `Cache` (where processes meet), `Catalog`,
`Identify`, `Bundle`, `Patch`; then `Versions`, `Containers`, `Mirrors`, `Elf` and `Session`; each with its runs, mutants
and proofs.

Next:

1. `Session` with a reading command beside a download: the index and the version's files change under it.
2. Theorems about runs: a run is launched in the image its version asks for; `ImageFor` is the last row reached.
