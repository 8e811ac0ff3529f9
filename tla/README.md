# ContainerHive: TLA+ specifications and proofs

ContainerHive (`ch`) renders, builds, tests and publishes a project of
container images that depend on each other. These modules specify its core: in
what order images are built and on what, what survives failures and kills, how
external versions become tags, which images a commit affects, what several CI
pipelines leave in one registry, and what the jobs of a pipeline do. TLC checks
the modules on small instances; TLAPS proves the most important results for
instances of every size.

To check: `tlc -config X.cfg M` for the runs in the tables below, `tlapm M.tla`
for the `*Proofs` modules. `PROJECT.json` lists the runs, for every definition
the source lines it models, the mutants that show a property can fail, and the
hazards the properties are for.

## Inventory

| Component | Source | State | Operations | What is hard |
|---|---|---|---|---|
| Dependency graph | `internal/dependency`, `pkg/deps` | nodes, edges, the queue of the sort | scan dist, merge `depends_on` and parents, Kahn's sort | dangling and malformed references, map order, an exact cycle error |
| Project build | `pkg/build`, `pkg/platform`, `pkg/shard` | tars in `dist/`, pushed tags, counters | `ch build`: loops over images, tags, variants, platforms | partial failure, stale or half-written tars of earlier runs, shards without their base |
| BuildKit client | `internal/buildkit` | connection, attempt counter | `Client.Build`, retry, reconnect | transient or genuine, cancellation during a pause, an attempt that failed after it exported |
| Version cache | `internal/tagrange/cache.go` | memory map, files, singleflight group | `FetchVersions`, load, store | processes sharing a directory, expiry, crashes, read-only directories |
| Tag ranges and sources | `internal/tagrange`, `pkg/discovery/tag_ranges.go` | pages fetched, candidates, generated tags | fetch, filter, select, render, merge | retries and pages of a listing, collisions between versions, ranges, static tags and variants |
| Change detection | `internal/changes`, `pkg/changes`, `pkg/cli/changes.go` | `dist/changes.json` | diff, classify, expand, write; `limitToChanges` | unknown diffs, stale sets, agreement with the static CI rules |
| CI pipelines | `pkg/ci` and its templates | tags and manifests in the registry | generate, build, test, manifest jobs | concurrent pipelines, needs across stages, auto-cancel |
| CI context | `pkg/ci/context.go` | depths, stages, platforms | depths of the images, jobs per image and platform | rings, name collisions, platforms of several levels |
| Finalize | `pkg/registry`, `internal/gcr`, `internal/semantic_tags`, `pkg/rendering` | manifest tags and aliases | manifest lists, retagging | highest version, several definitions of one name, failing pushes |
| Discovery | `pkg/discovery` | map of images under a mutex | walk `images/`, parse in parallel | errors and cancellation during the walk |
| Rendering | `pkg/rendering`, `internal/file_resolver` | files in `dist/` | a goroutine per tag and per variant | goroutines that share directories, errors while others write |
| Backends without a Dockerfile | `internal/buildkit/build_context` | git checkout and package cache shared by builds of a daemon, image layers | resolve, cut or nix build, assemble, export | builds that share a checkout, killed git, cached solves, links and directories in each other's place |
| Solve and display | `internal/buildkit/main.go`, `pkg/progress` | status channel, line buffers, what was printed | send, read, print, done | channel without a buffer, log chunks that end anywhere, repeated or missing states |
| Tests of built images | `internal/container_structure_test`, `pkg/test`, `pkg/cli/test.go` | images in the Docker daemon, result channel, report files | load or pull, run definition files, collect | goroutines left behind, names without a platform, definitions that do not parse |
| SBOM | `pkg/cli/sbom.go`, `pkg/sbom` | work queue, counter, first error | collect, worker pool, write | several workers, a failure among them, tars newer than their SBOM |
| Waiting for daemons | `pkg/wait` | what each target answered | poll every target until a deadline | tick and deadline in one select, parallel targets |
| Development environment | `internal/docker`, `pkg/devenv`, `pkg/cli/dev.go` | the container of one name | start, stop | several commands on one container without a lock |
| MCP server | `pkg/mcp` | `image.yml` files, documentation cache | add image, add variant, list, look up | concurrent calls, edits in several writes, a map under two mutexes |
| Others | `pkg/lint`, `pkg/report`, `internal/registry`, templating, `pkg/deps/graph.go` | little or none | formatters, external tools | see "Not modelled" |

The components interact as the commands do. `ch generate` discovers the project
(tag ranges through the version cache) and renders it into `dist/`. `ch changes`
stores an affected set next to it. `ch build` resolves the build order from the
rendered files, narrows its filters to the affected set and calls the BuildKit
client per unit and platform; it leaves tars in `dist/` and push tags in the
registry. `ch test` reads those, `ch finalize` combines them into manifests and
moves aliases. In CI each of these is a job whose script first waits for its
daemon, and the registry is all they share besides `dist/`. The client builds
most images from a Dockerfile and hands the others to a backend; every solve
reports to a display. The MCP server edits the project the other commands read.

## Modules

A module that models a component is named for it; `MC*` modules give its
constants values for TLC, `*Proofs` modules hold theorems. Three modules compose
others: `Generate` rendering with `Discovery`, `TagRanges` tag generation with
`VersionSource`, and `Jobs` the commands of a CI job. `BuildContract` is the
abstract specification that `ProjectBuild` implements. Mutated forms of definitions
(marked in their comments) are the bugs `PROJECT.json` pairs with properties;
no specification uses them.

### DependencyGraph

One call of `deps.ResolveOrder`. The inputs (directories of `dist/`, project
images, references, `depends_on`, parents) are chosen arbitrarily by `Init` and
then fixed. `ScanRenderedProject`, `MergeImage`/`MergeFails`, `StartSort`,
`SortStep` and `FinishSort` are the phases of the code; `edges`, `inDegree`,
`queue` and `order` are its variables. A name is its alphabetical rank, so the
sorted queue pops the least number. Map order in the merge is the choice of the
image in `MergeImage`.

### ProjectBuild

One or more invocations of `ch build` over one `dist/`. A unit is a tag of an
image definition or one of its variants; `Reached` and `BaseFirst` are the
nested loops with Go's map order left open. `SetupFails` stands for every error
of `buildProject` before the loops, `SelectUnit` is `platformsFor`,
`StartPlatform`/`FailPlatform`/`SkipPlatform` are `buildTag` and `buildVariant`
up to the solve, `BuildSucceeds`/`BuildFails` are its outcomes. What a unit
needs comes from its entrypoint (`HiveRefs`) and from the parent of a Nix or
Chisel backend (`ParentRefs`, with the `__hive_parent__` placeholder). `Precedes`
says which of these the build order puts first: images of another name and the
tag that a variant extends, not two tags of one image. `tars` is
what lies in `dist/`: nothing, a partial tar, a tar of an earlier invocation or
one of this invocation. `Kill` ends the process anywhere. The build order is
what `DependencyGraph` establishes, the solve is one step of what `BuildRetry`
details.

`BuildContract` states what an invocation promises without its loops: it makes
each of a set of builds at most once, in one step, from dependencies it has made
itself wherever it was asked for them, and ends with success only when all are
made. `Contract` in `ProjectBuild` instantiates it with expressions over the
detailed state (a build is `wanted` when the filters, the shard and the affected
set select it, `made` when its export has ended); `KeepsContract` is the
refinement: every step of the loops is a step of the contract or a stutter.

### BuildRetry

`Client.Build`: `StartAttempt` to `SolveSucceeds`/`SolveFails` is one
`buildOnce`, `AfterFailure` the decision of `retryTransient`, then the pause
and `ResetConnection`. `Cancel` may strike between any two steps. The exporter
(`ExportStarts`, `ExportEnds`, `Push`) is BuildKit's and external.

### VersionCache

Goroutines of several processes call `FetchVersions` for keys of one cache
directory. The program counter of a goroutine walks through the code from the
singleflight call over memory, disk and fetch to the temporary file and the
rename. `LoadDisk` reads the entry and `Keep` takes it into memory, two steps,
since no mutex is held from one to the other. Files are inodes: `path` and `tmp` name them and `fd` holds them open, so
that a rename under an open descriptor does what it does on a real file
system. `Crash` and `Tick` are the environment.

### VersionSource and TagRanges

`VersionSource` is `Fetch` of the json, github and registry sources: a listing
in the order of the server, pages, the retries of `getBody` and what ends them.
`TagRanges` is `resolveTagRanges` for one image on top of it: `Parse`, `Filter`,
`Select`, `Render` are the stages of `GenerateTags`, `MergeTag` is the loop of
`mergeGeneratedTags`. A version is a record of numbers with a prerelease rank;
a tag name is the tuple of components its template prints.

### ChangeDetection

`ch changes` as `StartChanges`, `DiffFiles`/`DiffFails`, `Classify` per file,
`ExpandStep` per turn of `Expand`'s loop and `Write`; `Generate` (which empties
`dist/`), `Commit`, and the later commands as `LimitToChanges`. A file is a
record of what the globs say of it.

### CIContext

`BuildCIContext`: `DepthRound`/`DepthsStuck` are the loop of `calculateDepths`,
`CollectImage` is one image of the loop over the map of images with its
platforms, then `SortImages`, `SetStages` and `SetShards`. A platform is the
sequence of components it is written as, so that `amd64` and `linux/amd64` are
two spellings of one platform.

### Pipelines

Several pipelines, each a set of jobs with `Needs`, over one registry, of GitLab
or of GitHub (`Provider`). `CreatePipeline` cancels the outdated pipelines
(`CancelsOutdated`: of the same ref on GitLab, pushes to the default branch only
on GitHub); `Condition` is what a job asks of its needs, since GitHub skips a job
whose needs were skipped. `PullDependency`, `Push`, `RunTests`, `FetchRef` and
`WriteIndex` are the registry accesses of `ch build`, `ch test` and
`ch finalize`, each a step of its own. An image is the commit it was built from
and the commits of its dependencies.

### Finalize

`ch finalize`: `CreateManifest` per unit, then per definition the alias
resolution (`ResolveAliases`, `LatestTags`) and `Retag` per alias, definitions
in map order. A version keeps its components as digit sequences where the code
compares strings.

### Jobs

The scripts of the jobs as compositions of commands, each of them a module of
its own that `Jobs` instantiates and whose steps it takes while `script` names
the command:

- `Wait` is `ch wait`: a goroutine per target (`Tick`, `CheckAnswers`,
  `CheckFails`, `GiveUp`) and `AllReturn`. Daemons come and go (`Daemon`).
- `Sbom` is `ch sbom`: `Collect` fills the queue, a worker is `Take`,
  `Generate`, `Write` or `Fails`, `Finish` is `eg.Wait`. A tar is the number of
  the build that wrote it, an SBOM that of the tar it describes.
- `StructureTests` is `ch test`: the loop of the command on one side, and on the
  other a goroutine per image that runs the definition files and sends results
  through a channel with room for one.
- `Finalize` as above, for the manifest job.
- `Backends` is `RunBuild` of the Nix and Chisel backends. `Resolve` to `Export`
  are the steps of one build, `Mount` to `Cut` the script the daemon runs under
  the lock of a cache mount, on a checkout that outlives it; `CacheHit` is the
  daemon that reuses an earlier result. `Assemble` lays the parent, without
  its `/nix` but with its store (`Laid`), then the output, and last what the
  backend adds (`Last`): the static files of a chisel build, or the closure that
  `nix copy` puts into the store of the image; a `rootfs/` beside a flake is no
  layer. All directories of the output that meet links to one directory of the
  parent merge there (`Moved`), and `[ -d ]` follows the links of the output
  (`IsDirectory`). A chisel build copies the other links of its output as they
  are, a nix build what they lead to, in the output or in the store of the
  builder image (`Seen`, `Entry`), and fails where that is nothing
  (`LeadsNowhere`). A link of a chisel output where others have been moved counts
  as a clash, in whatever order the shell visits them. At the top of a tree
  `nixstore` stands for `/nix/store` and `nix` for the rest of `/nix`. `Kill`,
  `Network` and `Commit` are the environment.
- `Solve` is one solve with its display: `Send` and `Close` are BuildKit,
  `Update` and `Done` the reader of the channel, for the interactive and the
  linear display.
- `Buildkitd` is `ch dev buildkitd start` and `stop`, with a step per call of
  the Docker API; `Exit` is the daemon that ends by itself.

A build job waits, builds and makes SBOMs; a test job waits and tests; a
manifest job finalizes. `ch sbom` by hand, the cuts of one daemon, a solve and
the commands of a developer are scripts without a pipeline. `RunBuild` is
`ch build` as `ProjectBuild` describes it, reduced to the tars it leaves.

### McpServer

The tool calls of a client, each in a goroutine. `Program` lists the steps of a
tool; a write of a file is `Truncate` and `WriteContent`, since another call may
come between them. `Discover` is what `list_images` and `get_image` find in the
files of that moment. `EnterGet` to `LeaveSet` are the accesses to the map of
the documentation cache and the mutex that each takes. `EditFails`, `Kill` and
`FatalError` (the Go runtime's answer to a map race) end an edit half-way.

### Discovery and Generate

`Discovery` is `discoverImages` with its three kinds of goroutines: the walker,
the dispatcher at the unbuffered channel and a worker per config, in one
errgroup whose context an error or an interrupt cancels. `Generate` adds
`RenderProject`: a goroutine per name, per tag and, once the base of a tag is
written, per variant, each with the steps `Steps` lists. `dist[path]` records
whose files a directory holds, so that two units writing one path show.
`Earlier` are the directories of an earlier rendering, of units of the project
and of others; `StartRender` keeps any of them (`left`), since the error of
`RemoveAll` is ignored, and a unit is then rendered over what lies there
(`Before`): its entrypoint and tests replace the old ones, its rootfs is merged
into the old one.

## Runs

Deadlock is checked except in `VersionCache`, `ChangeDetection` and `McpServer`,
where the environment (crashes, a bounded number of commits, a client that asks
nothing more) really may leave nothing to do. Every bound is a named constant of
the cfg or of the MC module. A property that names several concerns is a
conjunction of definitions that its module comments one by one.

| Run | What it shows | Instance, and why it is enough |
|---|---|---|
| `DependencyGraph` | The bookkeeping of the sort (`ResolveInvariant`); the order covers and respects what was declared, is the same for every map order, and fails exactly when images are stuck | Three names, up to three references and one `depends_on` entry, with dangling and malformed ones: chains, forks, rings and self-loops all occur. Proved for every size |
| `ProjectBuild` | Nothing is built on an older or failed dependency, a shard builds the bases of its variants, all platforms of a failing tag are tried, exit status and tars agree, invocations end, and the loops implement `BuildContract` | Four images, one of them with two tags of which one refers to the other, two platforms, filters, every split of the units into two shards, two invocations over one `dist/`, kills during an export. Safety and the refinement are proved for every size |
| `BuildRetry` | At most `maxRetries + 1` solves, cancellation stops the loop, success means exported and pushed, retries use a fresh connection, `Build` returns | The code's bound of three retries and every sequence of outcomes. Safety is proved for every bound |
| `VersionCache` | Readers see whole entries and `--refresh-versions` returns nothing old (`EntriesAreSound`), no process asks the source again for what its memory holds, every waiter is answered, an unwritable cache is no error (`CacheInvariant`) | Two processes, three goroutines on one key, expiry after one tick, one crash: a waiter, a late comer and a foreign writer at the same time. Safety is proved for every size |
| `TagRanges` | What enters the pipeline is all that the source publishes, and ranges, static tags and variants do not overwrite each other (`ResolutionInvariant`); a tag carries the newest version and `max_major_increment` is a gap, no window (`NewestIsKept`) | All subsets of seven releases plus odd versions, pages of two entries and one entry more than the cap, three attempts, two ranges |
| `ChangeDetection` | The affected set is the closure of what changed, an unknown diff affects all, the jobs that GitLab creates cover the affected images and a stored set is not older than the rendered project (`AffectedIsWorkedOff`) | Three images, five graphs with rings, six kinds of files, two commits. Safety is proved for every size |
| `CIContext` | Depths are exact levels, no job needs a job of a later stage, every platform has exactly one job (`ContextFitsTheBuild`) | Every relation over three images and a dangling name (4096), two platform lists |
| `Pipelines` | A manifest is of one commit; published images are tested and their dependencies are of the same pipeline (`PublishedIsSound`); production is the default branch and its latest commit is published (`ProductionIsLatestMain`); every affected image is, on GitHub too, where skipped needs skip a job; no job waits for ever (deadlock) | Both providers, two images, two platforms (symmetric), two pipelines of one merge request and the default branch, one failing job. Proved for every size and number |
| `Generate` | No goroutine outlives its phase, the result of the walk is exact, a success leaves every unit in `dist/` as defined, over whatever an earlier rendering left | Two directory layouts, two earlier directories (of a unit and of none), seven kinds of broken or legal definitions, an interrupt, failing writes |
| `McpServer` | An `image.yml` never stands without its Dockerfile, edits that neither overlap nor fail add up, every call is answered | Three calls at a time on one or two images, every workload of `MCMcpServer`, one death of the server: two edits and a reader in every interleaving |
| `Jobs` | See the next table | Five cases of four tags, among them one with a definition that does not parse and one without tests, two workers, two wait targets; three tags for the aliases; nine builds in eight sessions, two commits of each release; two start and two stop commands; two steps with three updates |
| `FinalizeBuildNumbers` (violation) | 1.2.3.9 beats 1.2.3.10 | finding 1 |

`Jobs` checks one property per command, and that every script ends:

| Property | Command | What it says |
|---|---|---|
| `DaemonsAnswered` | `ch wait` | The rest of the script runs only if every target has answered; a wait fails only at its deadline |
| `SbomsDescribeTars` | `ch sbom` | No tar is in two hands or lost, and a success leaves an SBOM of the very tar |
| `TestsJudgeImages` | `ch test` | Reports hold all results of their image and no other's; one bad image hides no other; no goroutine is left behind unless the report file could not be created |
| `AliasesFollowManifests` | `ch finalize` | An alias is the highest version that claims it, is copied from a tag that is no alias, after all manifests; the filter holds for both |
| `CutsAreSound` | `ch build`, Chisel and Nix | A cut is of one commit that was current while its script ran; the image has the topmost file of the layers of its backend and no other; a killed git breaks builds of its release only |
| `DaemonsAreKept` | `ch dev buildkitd` | No start takes the daemon from the builds on it |
| `ScreenTellsTheSolve` | display of a solve | Every log byte once and in order, a final line per completed step, one header |
| `JobEnds` | all | The script ends |

### Fairness

Weak fairness of steps the program takes by itself: of the loops of one
invocation in `ProjectBuild` (one goroutine; `client.Build` returns, which
`BuildRetry` shows), of the retry loop and of the solve in `BuildRetry` (gRPC
calls end with an error at the latest when the connection breaks), of every
goroutine in `VersionCache` (the Go scheduler; HTTP has a 30 s timeout), of
`ch changes` in `ChangeDetection`, of the goroutine of each call in `McpServer`
(requests for pages have a timeout), of whatever the script runs in `Jobs`
(`GoesOn`) and of each polling goroutine there.

Strong fairness once: of `GiveUp` in `Wait`. Past the deadline a goroutine
alternates between `select` and a check that fails at once; while it is in
`select` with both a tick and the deadline ready, Go chooses at random, so it
does not choose the tick for ever. `GiveUp` is enabled again and again but not
continuously, which is what weak fairness would need.

Crashes, kills, cancellations, ticks, commits, daemons, the network and the
client of the server are never fair. The remaining modules state no liveness
property: that discovery, rendering and pipelines do not get stuck is what
checking deadlock shows there.

## Findings

1. `internal/semantic_tags/main.go:140`. The fourth component of a version is
   compared as a string.

### Claims that the code does not keep

Further properties show where a comment or a document and the code disagree.
They are kept for the reader and belong to no run. Each is violated under the
cfg named: as it stands, or (marked +) with the property in place of the cfg's
own.

| cfg | Property | Claim | Code |
|---|---|---|---|
| `ChangeDetectionTemplates` | `AffectedFollowsBuildOrder` | docs/adr/010-ci-change-detection.md:38 "the paths come from the same graph as the build order" | changes.go:219 scans unrendered templates, the build order rendered ones |
| `DependencyGraph` + | `CycleErrorMeansCycle` | graph.go:91 "returns an error if a cycle is detected" | graph.go:134 reports a dangling reference as a cycle too |
| `BuildRetry` + | `GenuineFailuresNotRetried` | retry.go:6-7, docs/troubleshooting.md:29 genuine build failures are never retried | retry.go:105 looks for substrings in the whole text, which quotes the output of the build |
| `VersionCacheContainers` | `EntryFileIsWhole` | cache.go:235-237 entries are written atomically | cache.go:259 names the temporary file by the PID, which containers share |
| `VersionCacheHiveTTL` | `HiveTTLIsKept` | docs/configuration/hive.md:83 `version_cache_ttl` | cache.go:172 never reads it |
| `VersionCacheHiveTTL` + | `ValidEntryIsUsed` | cache.go:137-138 memory, then disk, then a fetch | cache.go:200 returns on an expired memory entry without reading a valid file |
| `TagRangesDrafts` | `FetchIsComplete` | docs/configuration/image.md:120 drafts are excluded; github.go:14 the listing ends at a cap of pages only | github.go:88 takes a page that is not full for the last one, but drafts have been dropped from it by then |
| `TagRanges` + | `VariantTagsAreDistinct` | docs/configuration/image.md:183-184 a collision with a variant-suffixed tag is an error | tag_ranges.go:106 checks one direction only |
| `TagRanges` + | `PatchesAreDistinct` | docs/configuration/image.md:134 "keep the 2 highest distinct values" | dsl.go:70 counts candidates, and two spellings of one version are two |
| `Pipelines` + , `Branches = {feature}` | `ProductionIsMain` | docs/usage/build-ids.md:71 | pipeline.yml.gotpl:30 leaves `SNAPSHOT_ID` empty in branch pipelines |
| `Pipelines` + | `EveryManifestIsOneCommit` | docs/configuration/hive.md:165 a newer pipeline cancels those in progress "on the same ref" | workflow.yml.gotpl:18-19 gives every pull request run a group of its own, as docs/usage/ci-integration.md:274 says |
| `FinalizeBuildNumbers` + , `Projects <- SharedName` | `HighestVersionWins` | docs/usage/multi-platform.md:87 the highest version wins | registry.go:197 resolves aliases per definition, and two can share a name |
| `FinalizeBuildNumbers` + , `Projects <- WithVariant`, `FilterSets <- VersionFilter` | `FilterTakesVariants` | registry.go:223-224 variant tags match the filter of their tag | registry.go:233 compares for equality |
| `BackendsBranchHead` | `TracksBranchHead` | docs/usage/chisel.md:66-67 "The build tracks the branch head" | chisel.go:268-271 a solve whose script and context are unchanged is reused |
| `BackendsBranchHead` + | `CutsOffline` | docs/usage/chisel.md:82 "works offline once the clone and the deb cache are warm" | chisel.go:312 a branch is always fetched, under `sh -e` |
| `McpServer` + | `CacheIsGuarded` | search_test.go:385 reads are safe next to others | search.go:62-78 `Get` and `Set` take different mutexes |

### Observations

Behaviour met while modelling that no document contradicts:

- Discovery: an image.yml ends the walk of its directory, so a nested directory
  that sorts after it (`v9`) is never found; an interrupt makes discovery return
  a part of the images and `ch generate` succeed.
- Rendering: the error of `RemoveAll` is ignored, and what stays in `dist/`
  enters the build order; definitions whose tags spell the same path write one
  directory at the same time.
- Build: a reference between two tags of one image, or between definitions of
  one name, is no edge of the graph (scanner.go:157). Their order is that of a
  Go map, so such a build finds the new tar, an old one or none; only the tag
  that a variant extends comes first.
- CI: an image named `lint`, `report` or `pages` joins that stage, which may
  come before the stage of an image it needs.
- MCP server: an `add_image` that failed half-way can never be repeated, since
  its directory exists; `add_image_variant` lists a variant before it creates
  the directory, so a failure in between makes the project undiscoverable; it
  accepts a variant that is listed already and overwrites its Dockerfile; a
  truncated image.yml that it reads is an empty definition, and the tags are
  lost when it writes.
- Display: the interactive one ends with "DONE" for steps that were still
  running when the solve failed; a status is printed once per ID, although the
  exporters share IDs; a partial last line has no line end.
- Tests: when the report file cannot be created the goroutine of the tests
  stays at its channel; a definition file that does not parse ends the command
  with a panic.
- Development: a container that is removed between the look-up and the stop is
  an error, although a stop is meant to do nothing then.
- Embedded registry: it listens on port 5051, whatever its comment says of a
  random one, so the second of two local commands fails after 30 seconds.

## Proofs

The `*Proofs` modules are checked by TLAPS without unproved leaves. What they
assume of the constants is what the modules state, and three facts of the
environment that theorems name themselves (`PidsDiffer`, `ProductionIsExclusive`,
`DraftsEndTheListing`):

| Module | Assumed |
|---|---|
| `DependencyGraphProofs` | Names are a finite set of natural numbers (their alphabetical ranks) |
| `ProjectBuildProofs` | Finitely many definitions, of which a name and a tag identify a unit; what may be run again are invocations, and there is at least one run. Of `BuildRetry`: the number of retries is a natural number |
| `VersionCacheProofs` | Finitely many processes, and enough inodes for each; lifetimes are natural numbers. `EntriesSafety` and `RequestsAreNotRepeated` also that processes which share the directory differ in PID (`PidsDiffer`). Of `TagRanges`: components are natural numbers and tell versions apart, pages are not empty, a template prints up to three components, levels are known. `RangesResolve` and `RangesKeepTheNewest` also that a page with a draft is the last one (`DraftsEndTheListing`): without that the listing is cut short, see `TagRangesDrafts` |
| `ChangeDetectionProofs` | Finitely many images; filters are lists |
| `PipelinesProofs` | Finitely many images and platforms, refs that differ, a merge request has no empty number. All but `AffectedPublished` also that the default branch has its outdated pipelines cancelled, which is the default of `ci_cancel_outdated`, and that other branches have pipelines only as merge requests (`ProductionIsExclusive`), which the generated workflow sees to and a GitLab project has to configure. Of `CIContext`: finitely many images, of which some are named like a stage; platforms are among the lists of the model |
| `JobsProofs` | A finite set of cases and one to four workers, which `sbom.go` enforces; a script waits for known targets; a build names a repository and a ref of the model; the files of a case to test are a list of definitions with the outcomes of their tests, and its platform is none of the words that `StructureTests` uses for the daemon (`CasesAssumption`); a log chunk is a list of bytes (`SolveAssumption`); a file of a layer tells its layer, a link of the parent or the output leads to no further link, and the closure of a nix build is below `/nix`, where the parent has no link in place of its store (`LayersFit`); names of tags and aliases are not shared by definitions and version numbers are spelled so that strings order them (`ProjectsAssumption`): where they are not, the runs `FinalizeBuildNumbers` and `SharedName` show what happens |
| `McpServerProofs` | A request names a tool and has its parameters: an image, a variant, a page |
| `GenerateProofs` | Directories are a tree: an entry is in one directory, once, the images directory is in no other one and a config is no directory; variants have a suffix |

**`DependencyGraph`.** `CycleIffStuck` and `OrderHonoursDeclarations` are not
inductive, since they say nothing of a sort that is under way.
`ResolveInvariant` adds what the loop maintains: the graph is what has been
declared so far (`GraphSoFar`); the degree of a node is its number of
dependencies that are not emitted, the queue holds exactly the nodes of degree
zero, sorted, and nothing is emitted twice (`SortBookkeeping`); no node that is
stuck is emitted (`NoStuckEmitted`). One lemma per action preserves it;
`StepInvariant` counts with `FiniteSetTheorems`. From it follow
`DependenciesComeFirst`, `CycleErrorExact`, `DeclarationsHonoured` and
`OrderDeterministic`: the queue is all the nodes that are ready and its head the
least of them, so each step appends the name that the declarations alone
determine.

**`ProjectBuild`.** The properties speak of units that are done or of a solve
that begins; `BuildIInv` adds what holds in the middle of the nested loops: no
unit that is left to do comes before the one at hand, each platform of which is
either waiting or attempted (`UnitOK`); the units that the loops have left behind
were built with every platform asked for, and their tars lie in `dist/`
(`PassedOK`), as do those of the unit at hand that have not failed (`BuiltOK`);
failures are platforms of that unit only (`FailuresOK`).
`ReferencesAreEdges` and `PositionOfName` turn a reference into an order of
names, `SolveIsFresh` combines them at the one step where a dependency is read.
`LoopsKeepContract` is the refinement of `BuildContract`
with one lemma per action: it makes a step of the contract or a stutter. The
proof of `DependenciesFresh` showed that an earlier form of the property claimed
too much: a reference between two tags of one image has no order (see
Observations), and `MCProjectBuild` now holds such a pair.

**`BuildRetry`** (in `ProjectBuildProofs`). The bound on solves needs the relation between the attempt
counter and the solves started (`StartsFollowAttempts`), and `CancelStopsLoop`
needs that a solve started after the cancellation is the last one
(`LateSolveIsLast`), since the loop looks at the context only between attempts.
`AtMostMaxAttempts`, `CancellationStops`, `SuccessIsExported` and
`RetriesReconnect` are consequences.

**`VersionCache`.** The invariant has two halves. What the goroutines of one
process do with their memory and the singleflight call (`CallInvariant`,
`FlightOK`, `DraftsOK`) depends on no other process and needs nothing of the
PIDs. That an entry file is whole needs that the inode behind `path` has no
writer left (`WritersOK`, `FileExists`): two processes with one PID would share
a temporary file, and a rename would publish an inode that the other still
writes. `RequestsAreNotRepeated` is an action property: a call that starts a
fetch has seen that its memory holds nothing it could return, or that the file
which filled the memory in the meantime holds nothing any more.

**`TagRanges`** (in `VersionCacheProofs`). `FetchInvariant` says what a fetch has
after so many pages: all entries up to that page that are kept, whatever was
retried. A page that is not full ends it, which is right only if a page is not
short for its drafts; hence the hypothesis. `PipelineInvariant` follows the four
stages and `MergeInvariant` the tags, each of which is the newest of its name
among what the filters let through (`RangeTags`). `SelectKeepsHigher` is the fact
behind it: if the selection leaves a version out but keeps a lower one of the
same name, it also keeps one of that name that is not lower. `GuardByChains` says
that the first gap above the limit is where the chain of small steps ends. Both,
and the lists that the code sorts, rest on the highest element of a finite set
(`HighestExists`): there is one because the subsets of a finite set are
well-founded, so that no recursive function is needed.

**`ChangeDetection`.** `Expand` maintains that every image found is reachable
from the seeds and that a dependent of a found image is found or still in the
queue (`WalkInvariant`); `ReachableIsSmallest` makes of an empty queue the
closure. Two walks over one graph agree (`WalksAgree`), which is why a stored set
fits the project rendered from the same commit (`DetectionOK`); `NarrowedMatches`
is about the filters that the later commands derive from it: they select what
the given filters select and is affected.

**`Pipelines`.** `FlowInv` is about one pipeline: the jobs of an affected image
exist and are never left out for want of a condition (`NotLeftOut`), and whatever
is skipped has a cause (`SkipsHaveCauses`); `AffectedPublished` follows. The
others are about several pipelines that write the same tags, and about a
manifest that is put together from tags fetched one after another. The argument
is ownership: a pipeline that still has jobs to run is the newest of its ref
(`OutdatedEnded`, `WaitingIsOwner`), and the newest is the only one that writes
under its build ID (`OneOwner`). So a tag stays what the owner pushed from the
end of its build (`BuildsOK`) over its test (`TestsOK`) and the fetches of its
index (`IndexesOK`) to the manifest (`ManifestsOK`), which is what a build of a
dependent pulls (`PullsOK`). One lemma per access to the registry; all other
steps end a job without touching an affected image (`QuietMove`). The proof of
`ProductionLatestMain` showed that the property said nothing of GitLab, where no
lint job exists that could be done; it now speaks of the jobs that exist.

**`CIContext`** (in `PipelinesProofs`). `LevelsOK` is the invariant of
`calculateDepths`: the images that have a depth are closed under dependencies,
each is one above the last of its own, and an image that has just become ready
waited for the round before. When no image is ready, the rest hang on a ring or
on a name that is no image. `ListsOK` follows the sorting, the stages and the
shards; sorting by depth and name gives one list for every map order, since the
names are a total order (`InOrder`).

**`Jobs`.** A script runs one command at a time, so `JobInvariant` is a
conjunction of an invariant per command, each kept by its own steps and by the
steps of the others, and of `OrderOK`, what one command leaves to the next: a
build has waited, `ch sbom` finds a tar of all that was selected and no worker
at work. `WaitInvariant` links a goroutine to what it saw: it ended as ready
only if its target answered, and timed out only past the deadline.
`SbomInvariant` adds to `SbomsDescribeTars` what the workers do in between: each
holds one item exactly while it is at work, and what it is about to write was
made from the tar of that item (`HandsOK`); the queue holds every tar once and
starts all workers (`QueueOK`); without an error a worker ends only when the
queue is empty and every item is queued, held or written (`NothingLost`). When
the last worker has ended without an error, the first two are empty, so
everything is written. `DevInvariant` says that a start which has created a
container owns an ID that no other start has.

`CutInvariant` is about builds that share a checkout. The script of a build with
a cache has the mount for itself from its first command to the assembled image
(`HolderOK`), so what it found stays: the branch it fetched is a commit between
the one at its begin and the newest (`CheckoutOK`), and so is what it cuts
(`CommitOK`). What git left half done is being done by somebody or was hurt by a
kill (`DirOK`), hence a broken clone or a lock is only ever met in a directory
in which a script was killed. A reused result is that of an equal context
(`ImageOK`). `LayersMerge` is the lemma on trees: layers that do not clash are
all in the result, each file in the directory the parent has by that name or
points to, unless a layer above has it, and the result has nothing else. It is
proved for both backends at once, from what `Entry` and `Last` give (`CopyHas`,
`SeenFiles`, `MovedFiles`). Its proof showed two errors of an
earlier `Redirected`: of several output directories that the parent links to one
place only one survived, and links to directories were copied as links.

`FinalizeInvariant` says which names of the registry this run has written: while
manifests are made only tags themselves (`ManifestsOK`), then aliases, each a
copy of a tag that no alias overwrites and of a definition that was taken
(`RetagOK`). What remains is about one definition: which tag its aliases are
resolved to. The comparison of the versions it may stand for is one of strings,
and agrees with that of the numbers where builds have equally many digits
(`GreaterIsAbove`). `SeriesIs` and `SourceIs` say what follows for a series,
such as `1.2`, and for the tag that an alias is copied from.

`TestInvariant` relates three places that a result passes: what the goroutine of
a case has said is told by its position (`Said`: the outcomes of the files
before the one it is at, and of that one up to its position), and it is what was
collected followed by what waits in the channel (`SaidOK`). So a report that
ends with a closed and empty channel has everything. The image of the results
cannot change in between: the cases are tested one after another, and another
platform of the tag would have to be loaded first. A goroutine that goes on
after its case is one whose report could not be created (`RunnerOK`); it fills
its channel and then waits, since nobody reads. `CountOK` says that the counters
are those of the cases that are through.

`SolveInvariant` says of every byte that it is printed, buffered or on its way
(`BytesOK`); of the marks of the display that they tell what was reported and
shown (`SeenOK`); and that on a terminal nothing precedes the header and what has
started ends once (`FrameOK`). `LinesHoldAll` is the lemma on the line buffer:
the whole lines of some bytes and the rest are these bytes. Both proofs need
induction over data, lists of files and of bytes. A proof by the least number
with which a set of numbers begins (`LeastNumber`) takes the place of the
library's induction rules: `JoinExists` builds the concatenation part by part,
and `FlattenIs` and `FlattenConcat` give it the equations that the rest uses.

**`McpServer`.** `EditsAddUp` speaks of images with no edit under way; `Inv`
says what holds during one. `ProgressOK` and `ImageOK` follow the order of the
writes: add_image has its directory and its Dockerfile before it truncates
`image.yml`, and whoever has read or written an `image.yml` leaves it there, so
a race, a failure or the death of the server cannot make it stand alone. An
image that was never edited by two calls at once and saw no edit fail has at
most one edit (`CleanOK`), and `EditOK` says how far it has come: what
add_image_variant has read is the settled definition, to which it alone adds,
and `image.yml` is that definition, truncated, or has the variant appended. The
proof needs one lemma per handler step; `MoveKeeps` reduces each to the call
that moves and the image it edits. It showed that two guards of a `CASE`
(`Content`, and `Condition` of `Pipelines`) held at the same time: TLC takes the
first, TLA+ leaves the choice open. Both are now exclusive.

**`Generate`.** A config is visible if no other config comes before its branch in
a directory above it (`Open`, of which `Defining` is the case of configs). The
walk keeps on its stack only entries whose directories are open (`WalkInvariant`,
`Left`), so it sends visible configs only; and as long as nothing has failed, each
of them has been handed over or has a part of its branch on the stack
(`NoneIsPassed`). When the stack is empty and the group has ended, all have been
stored. Two visible configs are in different directories, so that none replaces
another in the map (`OneConfigPerDir`). No step of the discovery is possible once
it has ended, which freezes the project for the rendering. There a variant has
started exactly if its base is done, and a name that still waits has no unit that
has started (`UnitInvariant`, `BasesInvariant`). What lies in a directory nobody
else writes to is a function of the unit, its step and what lay there (`Partial`):
that alone before the first (`PartialBegins`), changed by each into the next (`PartialGoesOn`) and
after the last as defined (`PartialEnds`). `FilesInvariant` says that of every
unit, if paths are apart.

Only model-checked: liveness (`InvocationsEnd`, `Returns`, `CallsReturn`,
`DetectionEnds`, `JobEnds`, `CallsAreAnswered`), which TLAPS cannot prove under
fairness.

## Not modelled

The text of Dockerfiles, templates, labels and cut scripts, reports, lint and
schemas are conversions without state of their own. BuildKit, registries, git,
GitLab, GitHub, Docker and container-structure-test are external and appear as
the outcomes the code distinguishes. Of the workflows, jobs in shards, the
report and the pages job are left out; of a nix build (flake, lock file, store
cache), everything but that it may fail without network; of the MCP server, the
tools that only read other state. The embedded registry (`internal/registry`)
keeps its data in `dist/.registry`, but no command reads what another one left
there: a local finalize makes its manifests from the tars and retags what it
has just pushed. `pkg/deps/graph.go` and the variant graph serve display.

## Plan

1. Sharded jobs in `Pipelines`, next to the shards of `ProjectBuild`.
2. The embedded registry, should a command come to read what another one left.
