----------------------------- MODULE CIContext -----------------------------
(***************************************************************************)
(* BuildCIContext: the depths of the images, the stages of the generated   *)
(* GitLab pipeline and the jobs of every image, from the dependencies that *)
(* the unrendered Dockerfiles declare and the platforms of hive.yml and    *)
(* image.yml. An image name is a number, so that names have an order. A    *)
(* platform is written as the sequence of its components.                  *)
(***************************************************************************)
EXTENDS Integers, Sequences, FiniteSets, FiniteSetsExt, SequencesExt

CONSTANTS
    Names,
    Dangling,     \* a name that no directory of the project has
    FixedNames,   \* names of images that a fixed stage has as well
    Units,        \* Units[n]: the tags and variant tags of n
    MaxShards,
    Definitions,  \* Definitions[n]: records [platforms, variants], a variant
                  \* being the set of platforms it configures
    Globals       \* the platform lists hive.yml may have

PlatformLists == SUBSET Seq(STRING)

ASSUME CIAssumption ==
    /\ Names \subseteq Nat /\ IsFiniteSet(Names) /\ Dangling \in Nat \ Names
    /\ FixedNames \subseteq Names
    /\ Units \in [Names -> Nat] /\ MaxShards \in Nat
    /\ Globals \subseteq PlatformLists
    /\ \A n \in Names : \A d \in Definitions[n] :
          d.platforms \in PlatformLists /\ d.variants \subseteq PlatformLists

VARIABLES
    dependencies,       \* dependencies[n]: Dependencies of the merged graph
    requested,          \* ci_build_shards
    global,             \* platforms of hive.yml
    fixed,              \* fixedStages: the image names among the stages of the template
    depths, remaining, currentDepth,    \* calculateDepths
    platforms,          \* platforms[n] of the images collected so far
    images,             \* ciImages, sorted
    stages, shards,
    pc

project == <<dependencies, requested, global, fixed>>
levels == <<depths, remaining, currentDepth>>
contextVars == <<project, levels, platforms, images, stages, shards, pc>>

ContextInit ==
    /\ dependencies \in [Names -> SUBSET (Names \cup {Dangling})]
    /\ requested \in 0 .. MaxShards
    /\ global \in Globals
    /\ fixed \in SUBSET FixedNames
    /\ platforms = <<>>
    /\ depths = <<>>
    /\ remaining = Names
    /\ currentDepth = 0
    /\ images = <<>>
    /\ stages = <<>>
    /\ shards = <<>>
    /\ pc = "depths"
-----------------------------------------------------------------------------
With(f, S, x) == [n \in DOMAIN f \cup S |-> IF n \in S THEN x ELSE f[n]]

\* Mutated form: an image is ready together with its last dependency, as if the
\* depths were assigned while the loop looks for ready images.
ReadyEagerly ==
    {n \in remaining : \A d \in dependencies[n] :
        \/ d \in DOMAIN depths
        \/ d \in remaining /\ dependencies[d] \subseteq DOMAIN depths}

\* Images all of whose dependencies have a depth.
Ready == {n \in remaining : dependencies[n] \subseteq DOMAIN depths}

\* One round of the loop of calculateDepths.
DepthRound ==
    /\ pc = "depths"
    /\ remaining # {} /\ Ready # {}
    /\ depths' = With(depths, Ready, currentDepth)
    /\ remaining' = remaining \ Ready
    /\ currentDepth' = currentDepth + 1
    /\ UNCHANGED <<project, platforms, images, stages, shards, pc>>

\* What is left waits for a ring, or for an image that does not exist.
DepthsStuck ==
    /\ pc = "depths"
    /\ remaining # {} /\ Ready = {}
    /\ depths' = With(depths, remaining, currentDepth)
    /\ pc' = "collect"
    /\ UNCHANGED <<project, remaining, currentDepth, platforms, images, stages, shards>>

DepthsDone ==
    /\ pc = "depths"
    /\ remaining = {}
    /\ pc' = "collect"
    /\ UNCHANGED <<project, levels, platforms, images, stages, shards>>

\* platform.Normalize, platform.Short and the level that platform.Resolve takes.
Normalize(p) == IF Len(p) = 1 THEN <<"linux">> \o p ELSE p
Short(p) == IF Len(p) = 2 /\ p[1] = "linux" THEN Tail(p) ELSE p
Resolve(image, variant) ==
    {Normalize(p) : p \in IF variant # {} THEN variant ELSE IF image # {} THEN image ELSE global}

\* Mutated form: of the base tags alone.
ResolvePlatformsOfTags(n) ==
    UNION {{Short(p) : p \in Resolve(d.platforms, {})} : d \in Definitions[n]}

\* Those of the base tags and of every variant of every definition.
ResolvePlatforms(n) ==
    UNION {{Short(p) : p \in UNION {Resolve(d.platforms, v) : v \in d.variants \cup {{}}}}
           : d \in Definitions[n]}

\* One round of the loop over ImagesByName, a map.
CollectImage(n) ==
    /\ pc = "collect"
    /\ n \notin DOMAIN platforms
    /\ platforms' = With(platforms, {n}, ResolvePlatforms(n))
    /\ pc' = IF DOMAIN platforms' = Names THEN "sort" ELSE pc
    /\ UNCHANGED <<project, levels, images, stages, shards>>

\* An alias of an image cannot be resolved.
CollectFails ==
    /\ pc = "collect"
    /\ pc' = "failed"
    /\ UNCHANGED <<project, levels, platforms, images, stages, shards>>

\* Mutated form: by name alone.
BeforeByName(m, n) == m < n

\* ciImages is sorted by depth and name.
Before(m, n) == depths[m] < depths[n] \/ (depths[m] = depths[n] /\ m < n)

InOrder(S) ==
    CHOOSE q \in [1 .. Cardinality(S) -> S] :
        \A i, j \in 1 .. Cardinality(S) : i < j => Before(q[i], q[j])

SortImages ==
    /\ pc = "sort"
    /\ images' = InOrder(Names)
    /\ pc' = "stages"
    /\ UNCHANGED <<project, levels, platforms, stages, shards>>

\* One stage per image in the order of the images, unless a fixed stage has its
\* name already.
SetStages ==
    /\ pc = "stages"
    /\ stages' = InOrder(ToSet(images) \ fixed)
    /\ pc' = "shards"
    /\ UNCHANGED <<project, levels, platforms, images, shards>>

\* ci_build_shards has to be positive; an image without a tag has one unit.
SetShards ==
    /\ pc = "shards"
    /\ IF requested < 1
       THEN pc' = "failed" /\ UNCHANGED shards
       ELSE /\ shards' = [n \in Names |-> Min({requested, Max({Units[n], 1})})]
            /\ pc' = "done"
    /\ UNCHANGED <<project, levels, platforms, images, stages>>

Finished ==
    /\ pc \in {"done", "failed"}
    /\ UNCHANGED contextVars

ContextNext ==
    \/ DepthRound \/ DepthsStuck \/ DepthsDone
    \/ (\E n \in Names : CollectImage(n)) \/ CollectFails
    \/ SortImages \/ SetStages \/ SetShards
    \/ Finished

ContextSpec == ContextInit /\ [][ContextNext]_contextVars
-----------------------------------------------------------------------------
ContextTypeOK ==
    /\ DOMAIN depths \subseteq Names
    /\ \A n \in DOMAIN depths : depths[n] \in 0 .. Cardinality(Names)
    /\ remaining \subseteq Names
    /\ currentDepth \in 0 .. Cardinality(Names)
    /\ DOMAIN platforms \subseteq Names
    /\ images \in Seq(Names) /\ stages \in Seq(Names)
    /\ pc \in {"depths", "collect", "sort", "stages", "shards", "done", "failed"}

\* Images whose dependencies are resolvable, in the sense of the build order:
\* nothing they need, directly or not, is on a ring or missing.
Resolvable == {n \in Names :
    \E S \in SUBSET Names :
        /\ n \in S
        /\ \A m \in S : dependencies[m] \subseteq S
        /\ \A T \in SUBSET S : T # {} => \E m \in T : dependencies[m] \cap T = {}}

\* "Depth 0 = no dependencies, depth 1 = depends only on depth-0 images, etc.":
\* between the rounds every image that has a depth has the exact one, and the
\* images of a ring end up together below everything else.
DepthsAreLevels ==
    /\ ContextTypeOK
    /\ \A n \in DOMAIN depths \cap Resolvable :
          IF dependencies[n] = {} THEN depths[n] = 0
          ELSE depths[n] = 1 + Max({depths[d] : d \in dependencies[n]})
    /\ \A n \in DOMAIN depths \ Resolvable :
          depths[n] > Max({-1} \cup {depths[m] : m \in Resolvable})
          /\ \A m \in DOMAIN depths \ Resolvable : depths[m] = depths[n]
    /\ pc # "depths" => DOMAIN depths = Names

\* Where the jobs of an image are in the pipeline: GitLab rejects a pipeline
\* with a job that needs a job of a later stage.
Stage(n) == CHOOSE k \in DOMAIN stages : stages[k] = n

\* The manifest job that the build of an image needs is in an earlier stage,
\* unless the image is on a ring or shares its name with a fixed stage; and no
\* build job is a shard without a number.
StagesFollowNeeds ==
    pc = "done" =>
        /\ \A n \in Resolvable : \A d \in dependencies[n] :
              {n, d} \cap fixed = {} => Stage(d) < Stage(n)
        /\ \A n \in Names \ fixed : \E k \in DOMAIN stages : stages[k] = n
        /\ \A n \in Names : shards[n] \in 1 .. Max({Units[n], 1})

\* Every platform that `ch build` builds a tag or a variant of an image for has
\* a job: "a platform only a variant supports still gets a job". And the value a
\* job passes as --platform names exactly one of them, so no job is without work.
JobsCoverPlatforms ==
    \A n \in DOMAIN platforms :
        LET built == UNION {UNION {Resolve(d.platforms, v) : v \in d.variants \cup {{}}}
                            : d \in Definitions[n]}
        IN  /\ \A p \in built : \E q \in platforms[n] : Normalize(q) = p
            /\ \A q, r \in platforms[n] :
                  Normalize(q) \in built /\ (Normalize(q) = Normalize(r) => q = r)

\* The context that the templates render: exact depths, whatever the map order,
\* so that the stages follow the needs of their jobs, and jobs that together
\* build everything.
ContextFitsTheBuild == DepthsAreLevels /\ StagesFollowNeeds /\ JobsCoverPlatforms
=============================================================================
