---------------------------- MODULE ProjectBuild ----------------------------
(***************************************************************************)
(* One or several `ch build` invocations over the same dist directory:     *)
(* build.BuildProject walks the images in dependency order, the tags and   *)
(* variants of an image in Go's random map order, and the platforms of a   *)
(* tag one after the other. Each build first resolves its __hive__/        *)
(* references, to the tar of an earlier build or to the registry, and then *)
(* runs in BuildKit, which writes the tar (and pushes the image).          *)
(*                                                                         *)
(* A unit is one tag of an image definition, or one of its variants:       *)
(* <<definition, tag, variant>>, with NoVariant for the tag itself.        *)
(***************************************************************************)
EXTENDS Naturals, FiniteSets

CONSTANTS
    Defs,             \* image definitions (their identifiers)
    NameOf,           \* NameOf[d]: the image name of a definition
    TagsOf,           \* TagsOf[d]: its tags
    VariantsOf,       \* VariantsOf[d]: its variants
    NoVariant,
    FullTag,          \* FullTag[t, v]: tag + the variant's tag suffix
    DependsOn,        \* DependsOn[n]: depends_on entries
    HiveRefs,         \* HiveRefs[u]: the <<name, tag>> pairs its entrypoint refers to
    Parents,          \* Parents[u]: parent of a Nix or Chisel unit, <<name, tag>>
    NoParent,         \* no parent, or one that is no image of the project
    HiveParent,       \* the placeholder for the tag that a variant extends
    Entrypoints,      \* units whose rendered Dockerfile exists in dist
    Normalize,        \* Normalize[p]: canonical form of a platform spelling
    GlobalPlatforms,  \* hive.yml platforms
    ImagePlatforms,   \* ImagePlatforms[d]: platforms of image.yml
    VariantPlatforms, \* VariantPlatforms[d, v]: platforms of a variant
    Invocations,      \* the option records `ch build` may be started with
    Repeatable,       \* those of them that may follow each other on one dist
    MaxRuns           \* bound: how many of them do

\* Tag collisions are the concern of discovery (module TagRanges): here a name
\* and a tag identify one unit.
ASSUME UnitsAssumption ==
    \A d, e \in Defs : \A t \in TagsOf[d], s \in TagsOf[e] :
        \A v \in VariantsOf[d] \cup {NoVariant}, w \in VariantsOf[e] \cup {NoVariant} :
            (NameOf[d] = NameOf[e] /\ FullTag[<<t, v>>] = FullTag[<<s, w>>])
                => <<d, t, v>> = <<e, s, w>>

\* A project is finite, and what repeats are invocations.
ASSUME ProjectAssumption ==
    /\ IsFiniteSet(Defs)
    /\ Repeatable \subseteq Invocations
    /\ MaxRuns \in Nat \ {0}

VARIABLES
    opts,       \* options of the running invocation
    run,        \* number of the running invocation
    order,      \* the image order this invocation follows
    todo,       \* units the loops have not reached yet
    unit,       \* the unit the loops are at
    platforms,  \* platforms of the unit still to build
    building,   \* the platform in BuildKit
    contexts,   \* <<name, tag, source>> of the named contexts it uses
    failed,     \* platforms of the unit that failed (the joined errors)
    matched, skipped,  \* platformMatched > 0 and platformSkipped > 0
    tars,       \* tars[<<name, tag, p>>]: state of dist/name/tag/p/image.tar
    attempted,  \* <<unit, p>> builds this invocation has started
    consumed,   \* <<unit, p, name, tag, source>> of its successful builds
    broken,     \* <<name, tag, p>> whose build failed in this invocation
    pc, result

progress == <<opts, run, order, todo, unit, platforms>>
counters == <<matched, skipped>>
history == <<attempted, consumed, broken>>
vars == <<progress, building, contexts, failed, counters, tars, history, pc, result>>

-----------------------------------------------------------------------------
Units == UNION {{<<d, t, v>> : t \in TagsOf[d], v \in VariantsOf[d] \cup {NoVariant}}
                : d \in Defs}
Names == {NameOf[d] : d \in Defs}
Name(u) == NameOf[u[1]]
Tag(u) == FullTag[<<u[2], u[3]>>]
IsBase(u) == u[3] = NoVariant
BaseOf(u) == <<u[1], u[2], NoVariant>>

\* platform.Resolve: the most specific non-empty level, normalized; an override
\* selects within it.
Resolve(override, image, variant) ==
    LET configured == IF variant # {} THEN variant
                      ELSE IF image # {} THEN image ELSE GlobalPlatforms
        Canonical(S) == {Normalize[p] : p \in S}
    IN  IF override = {} THEN Canonical(configured)
        ELSE Canonical(configured) \cap Canonical(override)

UnitPlatforms(override, u) ==
    Resolve(override, ImagePlatforms[u[1]],
            IF IsBase(u) THEN {} ELSE VariantPlatforms[<<u[1], u[3]>>])

AllPlatforms == UNION {UnitPlatforms({}, u) : u \in Units}

TarPath(u, p) == <<Name(u), Tag(u), p>>
TarPaths == {TarPath(u, p) : u \in Units, p \in AllPlatforms}

\* matchesFilters: a filter is <<name, tag>>, with "" matching everything.
MatchesFilters(u) ==
    \/ opts.filters = {}
    \/ \E f \in opts.filters : f[1] \in {"", Name(u)} /\ f[2] \in {"", Tag(u)}

\* opts.owned holds the <<definition, tag>> pairs that hash to this shard. A
\* base tag is also built by every shard that owns one of its variants.
Owns(u) == ~opts.sharded \/ <<u[1], Tag(u)>> \in opts.owned
OwnsBase(u) == \E v \in VariantsOf[u[1]] \cup {NoVariant} : Owns(<<u[1], u[2], v>>)

\* Mutated form: a base is built only by the shard it hashes to.
SelectedByExactOwner(u) == MatchesFilters(u) /\ Owns(u)

Selected(u) == MatchesFilters(u) /\ (IF IsBase(u) THEN OwnsBase(u) ELSE Owns(u))

OwnedUnits == {u \in Units : Owns(u)}

\* The image of the project that a parent names, none for a base with the
\* placeholder, which is an error.
ParentRefs(u) ==
    IF Parents[u] = HiveParent THEN IF IsBase(u) THEN {} ELSE {<<Name(u), Tag(BaseOf(u))>>}
    ELSE {Parents[u]} \ {NoParent}

\* The image-level graph: references to other images, depends_on, parents. The
\* placeholder carries no edge.
Edges(n) ==
    DependsOn[n] \cup
    UNION {{r[1] : r \in HiveRefs[u] \cup ({Parents[u]} \ {NoParent, HiveParent})} \ {n}
           : u \in {w \in Units : Name(w) = n}}

\* Mutated form: the images in map order although they depend on each other.
BuildOrdersIgnoringEdges ==
    {o \in [1 .. Cardinality(Names) -> Names] :
        \A i, j \in DOMAIN o : o[i] = o[j] => i = j}

\* What deps.ResolveOrder returns (module DependencyGraph): every image once,
\* after its dependencies. Without dependencies the loop ranges over a map.
BuildOrders ==
    {o \in [1 .. Cardinality(Names) -> Names] :
        /\ \A i, j \in DOMAIN o : o[i] = o[j] => i = j
        /\ \A i \in DOMAIN o : Edges(o[i]) \subseteq {o[j] : j \in 1 .. (i - 1)}}

-----------------------------------------------------------------------------
Init ==
    /\ opts \in Invocations
    /\ run = 1
    /\ order \in BuildOrders
    /\ todo = Units
    /\ unit = NoVariant
    /\ platforms = {} /\ building = {} /\ contexts = {} /\ failed = {}
    /\ matched = FALSE /\ skipped = FALSE
    /\ tars = [f \in TarPaths |-> "none"]
    /\ attempted = {} /\ consumed = {} /\ broken = {}
    /\ pc = "start"
    /\ result = "none"

Return(r) ==
    /\ pc' = "done"
    /\ result' = r

\* validatePlatforms: a --platform value has to be configured somewhere.
Supported == \A p \in opts.platforms : Normalize[p] \in AllPlatforms

\* buildProject up to the build: an unsupported platform, or dist, the build
\* order, BuildKit, the cache or the registry is not usable.
SetupFails ==
    /\ pc = "start"
    /\ Return("setup failed")
    /\ UNCHANGED <<progress, building, contexts, failed, counters, tars, history>>

\* BuildProject returns early when its shard owns nothing.
StartBuild ==
    /\ pc = "start"
    /\ Supported
    /\ IF opts.sharded /\ OwnedUnits = {}
       THEN Return("empty shard")
       ELSE pc' = "loop" /\ UNCHANGED result
    /\ UNCHANGED <<progress, building, contexts, failed, counters, tars, history>>

\* The nested loops: images in order, the definitions of a name one by one, the
\* tags of a definition one by one, and a tag before its variants.
Position(n) == CHOOSE i \in DOMAIN order : order[i] = n
Begun(S) == S \cap todo # {} /\ S \ todo # {}
Reached(u) ==
    /\ u \in todo
    /\ \A w \in todo : Position(Name(u)) <= Position(Name(w))
    /\ \A d \in Defs : Begun({w \in Units : w[1] = d}) => d = u[1]
    /\ \A w \in Units : Begun({x \in Units : x[1] = w[1] /\ x[2] = w[2]}) =>
            w[1] = u[1] /\ w[2] = u[2]

BaseFirst(u) == Reached(u) /\ (IsBase(u) \/ BaseOf(u) \notin todo)

SkipUnit(u) ==
    /\ pc = "loop"
    /\ BaseFirst(u)
    /\ ~Selected(u)
    /\ todo' = todo \ {u}
    /\ UNCHANGED <<opts, run, order, unit, platforms, building, contexts, failed,
                   counters, tars, history, pc, result>>

\* platformsFor, with the counters behind warnIfNothingSelected.
SelectUnit(u) ==
    /\ pc = "loop"
    /\ BaseFirst(u)
    /\ Selected(u)
    /\ todo' = todo \ {u}
    /\ unit' = u
    /\ platforms' = UnitPlatforms(opts.platforms, u)
    /\ failed' = {}
    /\ matched' = (matched \/ platforms' # {})
    /\ skipped' = (skipped \/ (platforms' = {} /\ opts.platforms # {}))
    /\ pc' = "platforms"
    /\ UNCHANGED <<opts, run, order, building, contexts, tars, history, result>>

\* Where resolveDepContext finds a reference: the local tar first, whatever
\* invocation wrote it, then the registry.
TarState(f) == IF f \in TarPaths THEN tars[f] ELSE "none"
Source(r, p) ==
    CASE TarState(<<r[1], r[2], p>>) # "none" -> TarState(<<r[1], r[2], p>>)
      [] TarState(<<r[1], r[2], p>>) = "none" /\ opts.registry -> "registry"
      [] OTHER -> "missing"

\* ocistore.FromTar fails on a tar without its index, which is written last.
Readable(source) == source \notin {"missing", "partial"}

\* A reference to a tag that the project does not build for the platform is
\* rejected, whatever a tar or the registry holds.
CheckDepPlatform(r, p) ==
    \A w \in Units : Name(w) = r[1] /\ Tag(w) = r[2] => p \in UnitPlatforms({}, w)

Resolvable(r, p) == CheckDepPlatform(r, p) /\ Readable(Source(r, p))

\* buildTag and buildVariant up to client.Build. A missing entrypoint is an
\* error for a tag and only a warning for a variant.
SkipPlatform(p) ==
    /\ pc = "platforms"
    /\ p \in platforms
    /\ unit \notin Entrypoints /\ ~IsBase(unit)
    /\ platforms' = platforms \ {p}
    /\ attempted' = attempted \cup {<<unit, p>>}
    /\ UNCHANGED <<opts, run, order, todo, unit, building, contexts, failed,
                   counters, tars, consumed, broken, pc, result>>

\* What the entrypoint and the parent of a unit need, and where it is found:
\* ResolveHiveDeps and ResolveParentImage.
References(u) == HiveRefs[u] \cup ParentRefs(u)
Contexts(u, p) == {<<r[1], r[2], Source(r, p)>> : r \in References(u)}

\* Mutated form: the first failing platform ends the loop over platforms.
FailPlatformStopsOthers(p) ==
    /\ pc = "platforms"
    /\ p \in platforms
    /\ unit \in Entrypoints \/ IsBase(unit)
    /\ platforms' = {}
    /\ attempted' = attempted \cup {<<unit, p>>}
    /\ failed' = failed \cup {p}
    /\ broken' = broken \cup {TarPath(unit, p)}
    /\ UNCHANGED <<opts, run, order, todo, unit, building, contexts, counters,
                   tars, consumed, pc, result>>

\* An error before the solve: the entrypoint of a tag is missing, a reference is
\* not resolvable, or a file, a setting or a secret cannot be read or written.
FailPlatform(p) ==
    /\ pc = "platforms"
    /\ p \in platforms
    /\ unit \in Entrypoints \/ IsBase(unit)
    /\ platforms' = platforms \ {p}
    /\ attempted' = attempted \cup {<<unit, p>>}
    /\ failed' = failed \cup {p}
    /\ broken' = broken \cup {TarPath(unit, p)}
    /\ UNCHANGED <<opts, run, order, todo, unit, building, contexts, counters,
                   tars, consumed, pc, result>>

StartPlatform(p) ==
    /\ pc = "platforms"
    /\ p \in platforms
    /\ unit \in Entrypoints
    /\ \A r \in References(unit) : Resolvable(r, p)
    /\ ~(IsBase(unit) /\ Parents[unit] = HiveParent)
    /\ platforms' = platforms \ {p}
    /\ attempted' = attempted \cup {<<unit, p>>}
    /\ building' = {p}
    /\ contexts' = Contexts(unit, p)
    /\ pc' = "solve"
    /\ UNCHANGED <<opts, run, order, todo, unit, failed, counters, tars,
                   consumed, broken, result>>

\* client.Build succeeds: every registry context exists, the tar is complete.
BuildSucceeds ==
    /\ pc = "solve"
    /\ \A c \in contexts : c[3] = "registry" => <<c[1], c[2]>> \in opts.published
    /\ \E p \in building :
         /\ tars' = [tars EXCEPT ![TarPath(unit, p)] = "new"]
         /\ consumed' = consumed \cup {<<unit, p, c[1], c[2], c[3]>> : c \in contexts}
    /\ building' = {} /\ contexts' = {}
    /\ pc' = "platforms"
    /\ UNCHANGED <<progress, failed, counters, attempted, broken, result>>

\* client.Build fails before the export, during it, or in the push after it.
BuildFails ==
    /\ pc = "solve"
    /\ \E p \in building :
         /\ \E left \in {tars[TarPath(unit, p)], "partial", "new"} :
              tars' = [tars EXCEPT ![TarPath(unit, p)] = left]
         /\ failed' = failed \cup {p}
         /\ broken' = broken \cup {TarPath(unit, p)}
    /\ building' = {} /\ contexts' = {}
    /\ pc' = "platforms"
    /\ UNCHANGED <<progress, counters, attempted, consumed, result>>

\* Mutated form: a failed tag does not end the build.
EndPlatformsContinues ==
    /\ pc = "platforms"
    /\ platforms = {}
    /\ pc' = "loop"
    /\ UNCHANGED <<progress, building, contexts, failed, counters, tars, history, result>>

\* Mutated form: the failed platforms are tried again.
EndPlatformsRetries ==
    /\ pc = "platforms"
    /\ platforms = {}
    /\ pc' = IF failed # {} THEN "platforms" ELSE "loop"
    /\ platforms' = failed
    /\ failed' = {}
    /\ UNCHANGED <<opts, run, order, todo, unit, building, contexts, counters, tars,
                   history, result>>

\* buildPlatforms returns the joined errors, which end the whole build.
EndPlatforms ==
    /\ pc = "platforms"
    /\ platforms = {}
    /\ IF failed # {}
       THEN Return("error")
       ELSE pc' = "loop" /\ UNCHANGED result
    /\ UNCHANGED <<progress, building, contexts, failed, counters, tars, history>>

EndBuild ==
    /\ pc = "loop"
    /\ todo = {}
    /\ Return(IF ~matched /\ skipped THEN "ok, nothing selected" ELSE "ok")
    /\ UNCHANGED <<progress, building, contexts, failed, counters, tars, history>>

\* The process is killed; an export that was under way leaves a partial tar.
Kill ==
    /\ pc \in {"loop", "platforms", "solve"}
    /\ \/ UNCHANGED tars
       \/ \E p \in building : tars' = [tars EXCEPT ![TarPath(unit, p)] = "partial"]
    /\ Return("killed")
    /\ UNCHANGED <<progress, building, contexts, failed, counters, history>>

\* The next `ch build` on the same dist directory, after `ch generate` has
\* emptied it or without.
NextInvocation(o) ==
    /\ pc = "done"
    /\ run < MaxRuns
    /\ opts \in Repeatable
    /\ run' = run + 1
    /\ opts' = o
    /\ order' \in BuildOrders
    /\ todo' = Units
    /\ unit' = NoVariant
    /\ platforms' = {} /\ building' = {} /\ contexts' = {} /\ failed' = {}
    /\ matched' = FALSE /\ skipped' = FALSE
    /\ tars' = [f \in TarPaths |-> IF o.generate THEN "none"
                                   ELSE IF tars[f] = "new" THEN "old" ELSE tars[f]]
    /\ attempted' = {} /\ consumed' = {} /\ broken' = {}
    /\ pc' = "start"
    /\ result' = "none"

Done ==
    /\ pc = "done"
    /\ run = MaxRuns \/ opts \notin Repeatable
    /\ UNCHANGED vars

Build ==
    \/ SetupFails
    \/ StartBuild
    \/ \E u \in Units : SkipUnit(u) \/ SelectUnit(u)
    \/ \E p \in AllPlatforms : SkipPlatform(p) \/ FailPlatform(p) \/ StartPlatform(p)
    \/ BuildSucceeds
    \/ BuildFails
    \/ EndPlatforms
    \/ EndBuild

Next ==
    \/ Build
    \/ Kill
    \/ \E o \in Repeatable : NextInvocation(o)
    \/ Done

\* The loops run in one goroutine and client.Build returns (module BuildRetry),
\* so an invocation keeps taking steps.
Spec == Init /\ [][Next]_vars /\ WF_vars(Build)

-----------------------------------------------------------------------------
TarStates == {"none", "old", "partial", "new"}

\* The loop variables, the tars and the history keep their types.
TypeOK ==
    /\ opts \in Invocations
    /\ run \in 1 .. MaxRuns
    /\ order \in BuildOrders
    /\ todo \in SUBSET Units
    /\ unit \in Units \cup {NoVariant}
    /\ platforms \in SUBSET AllPlatforms
    /\ building \in SUBSET AllPlatforms
    /\ failed \in SUBSET AllPlatforms
    /\ <<matched, skipped>> \in BOOLEAN \X BOOLEAN
    /\ tars \in [TarPaths -> TarStates]
    /\ attempted \in SUBSET (Units \X AllPlatforms)
    /\ broken \in SUBSET TarPaths
    /\ pc \in {"start", "loop", "platforms", "solve", "done"}
    /\ result \in {"none", "setup failed", "empty shard", "error", "ok", "ok, nothing selected", "killed"}

\* The builds an invocation is asked for and can do.
Wanted == {b \in Units \X AllPlatforms :
              /\ Selected(b[1]) /\ b[1] \in Entrypoints
              /\ b[2] \in UnitPlatforms(opts.platforms, b[1])}

\* The units that a unit can rely on being built before it: those of other
\* images, and the tag that a variant extends. Other tags of its own image come
\* in map order.
Precedes(w, u) == Name(w) # Name(u) \/ (~IsBase(u) /\ w = BaseOf(u))

\* A build never uses what an earlier invocation or the registry holds of an
\* image that this invocation builds itself: another image, or the tag its own
\* variant extends. It gets the tar written minutes ago, whatever map order,
\* filters, shard and leftovers in dist.
DependenciesAreFresh ==
    \A c \in consumed : \A w \in Units :
        (/\ Name(w) = c[3] /\ Tag(w) = c[4]
         /\ <<w, c[2]>> \in Wanted
         /\ Precedes(w, c[1])) => c[5] = "new"

\* A shard never takes the tag that its variant extends from the registry or
\* from an old dist: "a shard that owns a variant also builds the base".
ShardBuildsItsBases ==
    (opts.sharded /\ opts.filters = {}) =>
        \A c \in consumed :
            (~IsBase(c[1]) /\ c[3] = Name(c[1]) /\ c[4] = Tag(BaseOf(c[1]))) => c[5] = "new"

\* No solve is given a dependency whose own build failed before in this
\* invocation, even if that failure left a complete tar behind.
NothingBuiltOnFailure ==
    pc = "solve" => \A c \in contexts, p \in building : <<c[1], c[2], p>> \notin broken

\* When an invocation fails, every platform of the failing tag has been tried:
\* "a failing platform does not stop the remaining ones".
EveryPlatformTried ==
    result = "error" =>
        \A p \in UnitPlatforms(opts.platforms, unit) : <<unit, p>> \in attempted

\* A successful invocation has written every tar it was asked for.
SuccessIsComplete ==
    result \in {"ok", "ok, nothing selected"} =>
        \A b \in Wanted : tars[TarPath(b[1], b[2])] = "new"

\* An invocation that --platform leaves without any build does not end with a
\* plain success.
EmptyBuildIsVisible ==
    (result = "ok" /\ attempted = {} /\ opts.platforms # {}) =>
        ~ \E u \in Units : Selected(u)

\* The exit status tells what happened: nothing was built on a failed build, a
\* success is complete, a build of nothing is no plain success, and a failure has
\* tried all platforms of what failed.
BuildInvariant ==
    /\ TypeOK
    /\ NothingBuiltOnFailure
    /\ SuccessIsComplete
    /\ EmptyBuildIsVisible
    /\ EveryPlatformTried

\* Every invocation ends.
InvocationsEnd == (pc # "done") ~> (pc = "done")

-----------------------------------------------------------------------------
(* The refinement of BuildContract.                                        *)

AllBuilds == Units \X AllPlatforms

\* The images of the project that a build is made from: of other images, and
\* the tag that a variant extends.
UsesOf(b) ==
    {<<w, b[2]>> : w \in {x \in Units :
        <<Name(x), Tag(x)>> \in References(b[1]) /\ Precedes(x, b[1])}}

TarOf(b) == TarPath(b[1], b[2])
SameTagAs(b) == {<<b[1], p>> : p \in AllPlatforms}

LostBuilds == {b \in attempted : TarOf(b) \in broken}

\* Attempted, and not skipped for want of an entrypoint, failed or in BuildKit.
MadeBuilds ==
    {b \in attempted : b[1] \in Entrypoints /\ ~(b[1] = unit /\ b[2] \in building)} \ LostBuilds

Outcome ==
    CASE result = "none" -> "none"
      [] result \in {"ok", "ok, nothing selected", "empty shard"} -> "ok"
      [] result = "error" -> "failed"
      [] OTHER -> "stopped"

Contract ==
    INSTANCE BuildContract WITH
        Builds <- AllBuilds, Tars <- TarPaths,
        Tar <- TarOf, Uses <- UsesOf, SameTag <- SameTagAs,
        wanted <- Wanted, made <- MadeBuilds, lost <- LostBuilds,
        store <- tars, outcome <- Outcome

\* The loops of `ch build` keep the promise of BuildContract: builds are made
\* once, from what this invocation made, and a success is all that was wanted.
KeepsContract == Contract!Spec
=============================================================================
