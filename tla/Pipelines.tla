----------------------------- MODULE Pipelines -----------------------------
(***************************************************************************)
(* The generated GitLab pipeline or GitHub workflow, of which several run  *)
(* at once against one registry: the generate, build, test and manifest    *)
(* jobs with their needs and conditions, the build ID that keeps merge     *)
(* requests apart, the affected set of change detection, and what cancels  *)
(* outdated pipelines. A pull request and a run of a workflow are called   *)
(* merge request and pipeline here.                                        *)
(*                                                                         *)
(* A pipeline is its number, which also names the commit it runs for;      *)
(* commit 0 is the default branch that production was last built from.     *)
(* What an image contains is the commit it was built from and the commits  *)
(* of the dependencies it was built on. The CI services (job scheduling,   *)
(* needs, cancellation) and the registry are external.                     *)
(***************************************************************************)
EXTENDS Naturals, FiniteSets, Sequences

CONSTANTS Providers,        \* "gitlab", "github": the templates rendered
          Images,
          Platforms,
          Deps,             \* Deps[i]: images that i is built on
          Main,             \* the default branch
          MergeRequests,    \* refs with merge request pipelines
          Branches,         \* other refs with push pipelines
          CancelOutdated,   \* refs whose outdated pipelines are cancelled
          Production,       \* the empty build ID
          None,             \* no such tag
          MaxPipelines,     \* bound: pipelines of one run
          MaxFailures       \* bound: jobs that fail by themselves

ASSUME PipelinesAssumption ==
    /\ Providers \subseteq {"gitlab", "github"}
    /\ IsFiniteSet(Images) /\ IsFiniteSet(Platforms)
    /\ Deps \in [Images -> SUBSET Images]
    /\ MaxPipelines \in Nat /\ MaxFailures \in Nat
    /\ Main \notin MergeRequests \cup Branches
    /\ Production \notin MergeRequests

Refs == {Main} \cup MergeRequests \cup Branches
Numbers == 1..MaxPipelines
Ids == MergeRequests \cup {Production}

Generate == <<"generate">>
Lint == <<"lint">>   \* of GitHub; GitLab's lint job is needed by no other
Build(i, p) == <<"build", i, p>>
Test(i, p) == <<"test", i, p>>
Manifest(i) == <<"manifest", i>>

JobsOf(i) ==
    {Manifest(i)} \cup {Build(i, p) : p \in Platforms} \cup {Test(i, p) : p \in Platforms}
Jobs == {Generate, Lint} \cup UNION {JobsOf(i) : i \in Images}

VARIABLES
    provider,   \* the CI service, fixed
    created,    \* pipelines created so far
    pipe,       \* pipe[n]: [ref, affected, images] of a created pipeline
    status,     \* status[n][j]: state of a job
    work,       \* work[n][j]: what a running job has fetched
    tags,       \* tags[<<i, p, id>>]: platform image under its push tag
    manifests,  \* manifests[<<i, id>>]: platform images of a manifest tag
    tested,     \* platform images that passed ch test
    failures    \* jobs that failed by themselves

registry == <<tags, manifests>>
vars == <<provider, created, pipe, status, work, registry, tested, failures>>

Image(c, ds) == [commit |-> c, on |-> ds]
Initial(i) == Image(0, [d \in Deps[i] |-> 0])
NoRefs == [p \in {} |-> None]

Init ==
    /\ provider \in Providers
    /\ created = 0
    /\ pipe = [n \in Numbers |-> [ref |-> None, affected |-> {}, images |-> {}]]
    /\ status = [n \in Numbers |-> [j \in Jobs |-> "absent"]]
    /\ work = [n \in Numbers |-> [j \in Jobs |-> NoRefs]]
    /\ tags = [t \in Images \X Platforms \X Ids |->
                  IF t[3] = Production THEN Initial(t[1]) ELSE None]
    /\ manifests = [m \in Images \X Ids |->
                  IF m[2] = Production THEN [p \in Platforms |-> Initial(m[1])]
                                       ELSE None]
    /\ tested = {<<i, p, Initial(i)>> : i \in Images, p \in Platforms}
    /\ failures = 0

-----------------------------------------------------------------------------
(* The generated pipeline.                                                 *)

\* Mutated form: the jobs run ch without --build-id.
NoBuildID(n) == Production

\* SNAPSHOT_ID: ${CI_MERGE_REQUEST_IID}, which is empty in other pipelines.
BuildID(n) == IF pipe[n].ref \in MergeRequests THEN pipe[n].ref ELSE Production

\* The images whose jobs a pipeline has, and the images it affects. Pipelines
\* of the default branch run without a change set; for the others the affected
\* images are closed under dependents. In GitLab those have jobs
\* (ChangeDetection), and a change to an excluded file creates jobs for images
\* that are not affected; a workflow has the jobs of all images.
Scopes(r) ==
    IF r = Main
    THEN {[ref |-> r, affected |-> Images, images |-> Images]}
    ELSE {s \in [ref : {r}, affected : SUBSET Images, images : SUBSET Images] :
            /\ s.affected \subseteq s.images
            /\ provider = "github" => s.images = Images
            /\ \A i \in Images : Deps[i] \cap s.affected # {} => i \in s.affected}

Ended == {"absent", "done", "failed", "skipped", "unaffected", "cancelled"}

\* Mutated form: outdated pipelines are not cancelled.
CancelNone(r) == status

\* GitLab: workflow:auto_cancel:on_new_commit: interruptible, for all jobs.
\* GitHub: pushes share a concurrency group, each pull request run has its own.
CancelsOutdated(r) == r \in CancelOutdated /\ (provider = "gitlab" \/ r = Main)

Cancel(r) ==
    [n \in Numbers |->
        IF n <= created /\ pipe[n].ref = r /\ CancelsOutdated(r)
        THEN [j \in Jobs |-> IF status[n][j] \in Ended THEN status[n][j] ELSE "cancelled"]
        ELSE status[n]]

JobExists(s, j) ==
    \/ j = Generate
    \/ j = Lint /\ provider = "github"
    \/ \E i \in s.images : j \in JobsOf(i)

CreatePipeline(r) ==
    /\ created < MaxPipelines
    /\ created' = created + 1
    /\ \E s \in Scopes(r) :
        /\ pipe' = [pipe EXCEPT ![created + 1] = s]
        /\ status' = [Cancel(r) EXCEPT ![created + 1] =
                [j \in Jobs |-> IF JobExists(s, j) THEN "waiting" ELSE "absent"]]
    /\ UNCHANGED <<provider, work, registry, tested, failures>>

\* GitLab: the manifest jobs of dependencies are optional needs, of which only
\* those that exist in the pipeline are waited for.
GitLabNeeds(n, j) ==
    CASE j[1] \in {"generate", "lint"} -> {}
      [] j[1] = "build"    -> {Generate} \cup
                {Manifest(d) : d \in Deps[j[2]] \cap pipe[n].images}
      [] j[1] = "test"     -> {Generate, Build(j[2], j[3])}
      [] j[1] = "manifest" -> {Generate} \cup (JobsOf(j[2]) \ {j})

GitHubNeeds(j) ==
    CASE j[1] = "generate" -> {}
      [] j[1] = "lint"     -> {Generate}
      [] j[1] = "build"    -> {Generate, Lint} \cup {Manifest(d) : d \in Deps[j[2]]}
      [] j[1] = "test"     -> {Build(j[2], j[3])}
      [] j[1] = "manifest" -> JobsOf(j[2]) \ {j}

\* Mutated forms: build jobs do not wait for manifests, or manifest jobs do not
\* wait for tests.
NeedsWithoutDependencies(n, j) ==
    (IF provider = "gitlab" THEN GitLabNeeds(n, j) ELSE GitHubNeeds(j))
        \ (IF j[1] = "build" THEN {Manifest(d) : d \in Images} ELSE {})
NeedsWithoutTests(n, j) ==
    (IF provider = "gitlab" THEN GitLabNeeds(n, j) ELSE GitHubNeeds(j))
        \ {Test(i, p) : i \in Images, p \in Platforms}

Needs(n, j) == IF provider = "gitlab" THEN GitLabNeeds(n, j) ELSE GitHubNeeds(j)

Affected(n, i) == i \in pipe[n].affected

\* Mutated form: without the status checks, all that a job needs has to succeed.
ConditionOfSuccess(n, j) ==
    /\ \A k \in Needs(n, j) : status[n][k] = "done"
    /\ (provider = "github" /\ j[1] = "build") => Affected(n, j[2])

\* The "if" of a GitHub job, once nothing upstream has failed: a build runs for
\* an affected image whatever was skipped, a test after its build, a manifest
\* after its tests. GitLab jobs have none.
Condition(n, j) ==
    \/ provider = "gitlab"
    \/ CASE j[1] = "build"    -> Affected(n, j[2])
         [] j[1] = "test"     -> status[n][Build(j[2], j[3])] = "done"
         [] j[1] = "manifest" -> \A p \in Platforms : status[n][Test(j[2], p)] = "done"
         [] OTHER             -> TRUE

\* A job starts as soon as its needs are done; in GitHub a job that it needs may
\* have been left out for want of its condition.
Running(n, j) ==
    /\ status[n][j] = "waiting"
    /\ \A k \in Needs(n, j) : status[n][k] \in {"done", "unaffected"}
    /\ Condition(n, j)

\* A job is skipped when one that it needs ended without success. As every job
\* of a workflow is, a failure anywhere upstream (failure()) shows in its needs.
Skip(n, j) ==
    /\ status[n][j] = "waiting"
    /\ provider = "github" => \A k \in Needs(n, j) : status[n][k] \in Ended
    /\ \E k \in Needs(n, j) : status[n][k] \in {"failed", "skipped", "cancelled"}
    /\ status' = [status EXCEPT ![n][j] = "skipped"]
    /\ UNCHANGED <<provider, created, pipe, work, registry, tested, failures>>

LeaveOut(n, j) ==
    /\ status[n][j] = "waiting"
    /\ \A k \in Needs(n, j) : status[n][k] \in {"done", "unaffected"}
    /\ ~Condition(n, j)
    /\ status' = [status EXCEPT ![n][j] = "unaffected"]
    /\ UNCHANGED <<provider, created, pipe, work, registry, tested, failures>>

End(n, j, s) ==
    /\ Running(n, j)
    /\ status' = [status EXCEPT ![n][j] = s]
    /\ failures' = IF s = "failed" THEN failures + 1 ELSE failures
    /\ work' = [work EXCEPT ![n][j] = NoRefs]

\* A runner, daemon, network or script failure, in any job.
Fail(n, j) ==
    /\ failures < MaxFailures
    /\ End(n, j, "failed")
    /\ UNCHANGED <<provider, created, pipe, registry, tested>>

\* ch generate and ch changes, ch lint; and every command of a job whose image
\* limitToChanges drops.
NothingToDo(n, j) ==
    /\ IF j \in {Generate, Lint} THEN TRUE ELSE ~ Affected(n, j[2])
    /\ End(n, j, "done")
    /\ UNCHANGED <<provider, created, pipe, registry, tested>>

-----------------------------------------------------------------------------
(* ch build, ch test and ch finalize of one image.                         *)

\* depBuildID: a dependency that is not affected has only its production tag.
DepBuildID(n, d) == IF Affected(n, d) THEN BuildID(n) ELSE Production

\* ResolveHiveDeps: no tar of another job is in dist/, so a dependency is the
\* registry's manifest, pulled when the build runs.
PullDependency(n, i, p, d) ==
    LET j == Build(i, p) IN
    /\ Running(n, j) /\ Affected(n, i)
    /\ d \in Deps[i] \ DOMAIN work[n][j]
    /\ IF manifests[<<d, DepBuildID(n, d)>>] = None
       THEN End(n, j, "failed")
       ELSE /\ work' = [work EXCEPT ![n][j] = [x \in DOMAIN @ \cup {d} |->
                IF x = d THEN manifests[<<d, DepBuildID(n, d)>>][p].commit
                         ELSE @[x]]]
            /\ UNCHANGED <<status, failures>>
    /\ UNCHANGED <<provider, created, pipe, registry, tested>>

\* The build pushes its platform image; ch sbom, which follows in the same job,
\* may still fail it.
Push(n, i, p) ==
    LET j == Build(i, p) IN
    /\ Affected(n, i) /\ DOMAIN work[n][j] = Deps[i]
    /\ tags' = [tags EXCEPT ![<<i, p, BuildID(n)>>] = Image(n, work[n][j])]
    /\ \/ End(n, j, "done")
       \/ failures < MaxFailures /\ End(n, j, "failed")
    /\ UNCHANGED <<provider, created, pipe, manifests, tested>>

\* ch test pulls the push tag.
RunTests(n, i, p) ==
    /\ Affected(n, i)
    /\ tags[<<i, p, BuildID(n)>>] # None
    /\ tested' = tested \cup {<<i, p, tags[<<i, p, BuildID(n)>>]>>}
    /\ End(n, Test(i, p), "done")
    /\ UNCHANGED <<provider, created, pipe, registry>>

\* CreateManifestListFromRefs fetches the push tag of every platform, ...
FetchRef(n, i, p) ==
    LET j == Manifest(i) IN
    /\ Running(n, j) /\ Affected(n, i)
    /\ p \notin DOMAIN work[n][j]
    /\ IF tags[<<i, p, BuildID(n)>>] = None
       THEN End(n, j, "failed")
       ELSE /\ work' = [work EXCEPT ![n][j] = [x \in DOMAIN @ \cup {p} |->
                IF x = p THEN tags[<<i, p, BuildID(n)>>] ELSE @[x]]]
            /\ UNCHANGED <<status, failures>>
    /\ UNCHANGED <<provider, created, pipe, registry, tested>>

\* ... and writes the index under the manifest tag.
WriteIndex(n, i) ==
    LET j == Manifest(i) IN
    /\ Affected(n, i) /\ DOMAIN work[n][j] = Platforms
    /\ manifests' = [manifests EXCEPT ![<<i, BuildID(n)>>] = work[n][j]]
    /\ End(n, j, "done")
    /\ UNCHANGED <<provider, created, pipe, tags, tested>>

-----------------------------------------------------------------------------
RunJob(n) ==
    \/ \E j \in Jobs : Skip(n, j) \/ LeaveOut(n, j) \/ NothingToDo(n, j)
    \/ \E i \in Images :
        \/ WriteIndex(n, i)
        \/ \E p \in Platforms :
            \/ \E d \in Images : PullDependency(n, i, p, d)
            \/ Push(n, i, p)
            \/ RunTests(n, i, p)
            \/ FetchRef(n, i, p)

AllEnded(n) == \A j \in Jobs : status[n][j] \in Ended

Done ==
    /\ created = MaxPipelines
    /\ \A n \in Numbers : AllEnded(n)
    /\ UNCHANGED vars

Next ==
    \/ \E r \in Refs : CreatePipeline(r)
    \/ \E n \in Numbers : RunJob(n)
    \/ \E n \in Numbers, j \in Jobs : Fail(n, j)
    \/ Done

\* The CI service runs the jobs of a pipeline; nobody has to push a commit.
Spec == Init /\ [][Next]_vars /\ \A n \in Numbers : WF_vars(RunJob(n))

-----------------------------------------------------------------------------
Published(id) == UNION {{<<i, p, manifests[<<i, id>>][p]>> : p \in Platforms} :
                        i \in {j \in Images : manifests[<<j, id>>] # None}}

\* What no two pipelines write at the same time: production, and the tags of a
\* merge request whose outdated pipelines are cancelled. The runs of one GitHub
\* pull request go on next to each other.
Exclusive(id) == id = Production \/ CancelsOutdated(id)

OneCommit(m) ==
    manifests[m] # None =>
        \A p, q \in Platforms : manifests[m][p].commit = manifests[m][q].commit

\* A manifest tag combines platform images of a single commit, although its
\* platforms are pushed by separate jobs and a newer pipeline of the same merge
\* request writes to the same tags.
ManifestIsOneCommit == \A m \in DOMAIN manifests : Exclusive(m[2]) => OneCommit(m)

\* A claim that does not hold for pull requests on GitHub: whatever
\* the ref, a newer pipeline has cancelled the older one.
EveryManifestIsOneCommit == \A m \in DOMAIN manifests : OneCommit(m)

\* Nothing is published under a manifest tag that did not pass its tests.
PublishedIsTested == \A id \in Ids : Exclusive(id) => Published(id) \subseteq tested

\* An image is built on the dependencies of its own pipeline wherever that
\* pipeline rebuilds them, and on production images elsewhere.
DependenciesOfOwnPipeline ==
    \A t \in DOMAIN tags :
        Exclusive(t[3]) /\ tags[t] # None /\ tags[t].commit > 0 =>
            LET c == tags[t].commit IN
            \A d \in Deps[t[1]] :
                LET source == tags[t].on[d] IN
                IF d \in pipe[c].affected
                THEN source = c
                ELSE source = 0 \/ pipe[source].ref = Main

\* A pipeline in which nothing fails publishes every image that it affects: an
\* unaffected dependency, whose jobs do not run, does not keep its dependents
\* from being built, tested and published.
AffectedArePublished ==
    \A n \in 1 .. created :
        (\A j \in Jobs : status[n][j] \in {"absent", "done", "unaffected", "skipped"}) =>
            \A i \in pipe[n].affected : status[n][Manifest(i)] = "done"

\* docs/usage/build-ids.md: production tags are what the default branch built.
ProductionIsMain ==
    \A x \in Published(Production) : x[3].commit = 0 \/ pipe[x[3].commit].ref = Main

\* Once the newest pipeline of the default branch succeeded, production is
\* that commit and stays so: no outdated pipeline overwrites it.
LatestMainIsPublished ==
    \A n \in 1..created :
        /\ pipe[n].ref = Main
        /\ \A m \in (n + 1)..created : pipe[m].ref # Main
        /\ \A j \in Jobs : status[n][j] \in {"absent", "done"}
        => \A i \in Images, p \in Platforms :
              manifests[<<i, Production>>][p].commit = n

\* Production is what the default branch built, and the newest commit of it
\* that went through.
ProductionIsLatestMain == ProductionIsMain /\ LatestMainIsPublished

\* Whatever is published was tested, and built on what the same pipeline made of
\* its dependencies.
PublishedIsSound == PublishedIsTested /\ DependenciesOfOwnPipeline
=============================================================================
