----------------------------- MODULE TagRanges ------------------------------
(***************************************************************************)
(* The tags an image gets from its tag_ranges: Resolver.ResolveImage runs  *)
(* the pipeline of GenerateTags (parse, filter, select, render, cap) for   *)
(* every range, and mergeGeneratedTags then adds the results one by one to *)
(* the tags the image declares itself. The versions come from module       *)
(* VersionSource.                                                          *)
(*                                                                         *)
(* A listed version is a record: its three levels, whether it has a        *)
(* prerelease component, whether the source calls it a prerelease, whether *)
(* it contains an excluded suffix, whether it parses, whether its full     *)
(* form is a valid OCI tag, and the rank of its raw spelling among the     *)
(* spellings of equal versions ("v1.2.0", "1.2.0", "1.2").                 *)
(* A tag name is a tuple, so that appending a variant's suffix is          *)
(* concatenation and a template is a number of levels plus a suffix.       *)
(***************************************************************************)
EXTENDS VersionSource

CONSTANTS
    RangeLists,  \* the tag_ranges an image may declare (sequences of records)
    StaticTags,  \* the sets of tag names an image may declare itself
    Suffixes,    \* the sets of variant tag suffixes an image may have
    defaultMaxTags,
    All, NotGiven   \* select level "all"; a level or block that is not given

Level == Int \cup {All, NotGiven}
SelectLevels == [major : Level, minor : Level, patch : Level]
IsSequence(s) == s \in Seq({s[i] : i \in DOMAIN s})

VARIABLES
    ranges, static, suffixes,   \* the input
    r,          \* index of the range being resolved
    versions,   \* the candidates of that range still in the pipeline
    filtered,   \* what its filters left
    generated,  \* the generated tags of all ranges so far
    next,       \* the generated tag to merge next
    tags,       \* img.Tags: the tags merged so far, as records like generated
    step

input == <<ranges, static, suffixes>>
rangesVars == <<fetchVars, input, r, versions, filtered, generated, next, tags, step>>

-----------------------------------------------------------------------------
\* semver.Version.Compare, and the raw spelling on a tie (sortDescending).
Release(v) == IF v.pre THEN 0 ELSE 1
Key(v) == <<v.major, v.minor, v.patch, Release(v), v.raw>>
Exceeds(v, w, n) ==
    \E i \in 1 .. n : Key(v)[i] > Key(w)[i] /\ \A j \in 1 .. (i - 1) : Key(v)[j] = Key(w)[j]
Newer(v, w) == Exceeds(v, w, 4)
Higher(v, w) == Exceeds(v, w, 5)

\* A source lists a spelling once; the level "all" and what is not given are no
\* numbers of versions.
ASSUME RangesAssumption ==
    /\ \A l \in Listings : \A i, j \in DOMAIN l.entries :
          /\ {l.entries[i][f] : f \in {"major", "minor", "patch", "raw"}} \subseteq Nat
          /\ Key(l.entries[i]) = Key(l.entries[j]) => l.entries[i] = l.entries[j]
    /\ \A rs \in RangeLists : Len(rs) \in Nat /\ DOMAIN rs = 1 .. Len(rs) /\ \A k \in DOMAIN rs :
          /\ rs[k].select \in SelectLevels \cup {NotGiven}
          /\ rs[k].filter.maxMajorIncrement \in Int
          /\ rs[k].template.depth \in 0 .. 3 /\ IsSequence(rs[k].template.suffix)

IsPrerelease(v) == v.pre \/ v.flagged

\* Mutated form: the gap is measured from the lowest major.
MaxMajorIncrementFromLowest(S, max) ==
    LET majors == {v.major : v \in S}
        beyond == {m \in majors : \E n \in majors : m - n > max}
    IN  IF max <= 0 THEN S ELSE {v \in S : \A m \in beyond : v.major < m}

\* applyMaxMajorIncrement: the first gap above max drops everything beyond it.
MaxMajorIncrement(S, max) ==
    LET majors == {v.major : v \in S}
        beyond == {m \in majors : /\ \E n \in majors : n < m
                                  /\ \A n \in majors : n < m => m - n > max}
    IN  IF max <= 0 THEN S ELSE {v \in S : \A m \in beyond : v.major < m}

\* applyFilters: prereleases (dropped unless the filter says otherwise),
\* suffixes, the version bounds, the guard against outlier majors.
Passes(v, f) ==
    /\ ~(f.excludePrerelease /\ IsPrerelease(v))
    /\ ~(f.excludeSuffixes /\ v.suffixed)
    /\ f.minVersion # NotGiven => ~Newer(f.minVersion, v)
    /\ f.maxVersion # NotGiven => ~Newer(v, f.maxVersion)

ApplyFilters(S, f) == MaxMajorIncrement({v \in S : Passes(v, f)}, f.maxMajorIncrement)

\* groupByLevel and keepLevel keep the first runs of a descending list; a level
\* that is not given, or not positive, keeps one.
Limit(level) == IF level = NotGiven \/ level <= 0 THEN 1 ELSE level

KeepHighest(values, level) ==
    IF level = All THEN values
    ELSE {x \in values : Cardinality({y \in values : y > x}) < Limit(level)}

KeepLevel(S, level) ==
    IF level = All THEN S
    ELSE {v \in S : Cardinality({w \in S : Higher(w, v)}) < Limit(level)}

SelectVersions(S, sel) ==
    LET Major(m) == {v \in S : v.major = m}
        Minor(m, n) == {v \in Major(m) : v.minor = n}
        majors == KeepHighest({v.major : v \in S}, sel.major)
        Minors(m) == KeepHighest({v.minor : v \in Major(m)}, sel.minor)
    IN  UNION {UNION {KeepLevel(Minor(m, n), sel.patch) : n \in Minors(m)} : m \in majors}

\* The rendered tag_name, and whether it is a valid OCI tag.
TagName(template, v) ==
    SubSeq(<<v.major, v.minor, v.patch>>, 1, template.depth) \o template.suffix
ValidTag(template, v) == template.depth = 3 => v.ociTag

\* Mutated form: the last version with a name wins.
RenderTagsLastWins(S, range, i) ==
    {[name |-> TagName(range.template, v), from |-> i, version |-> v] :
        v \in {w \in S : \A u \in S :
                  TagName(range.template, u) = TagName(range.template, w) => ~Higher(w, u)}}

\* renderTags: of the versions that render to one name the highest wins.
RenderTags(S, range, i) ==
    {[name |-> TagName(range.template, v), from |-> i, version |-> v] :
        v \in {w \in S : \A u \in S :
                  TagName(range.template, u) = TagName(range.template, w) => ~Higher(u, w)}}

Names(T) == {g.name : g \in T}

-----------------------------------------------------------------------------
RangesInit ==
    /\ FetchInit
    /\ ranges \in RangeLists
    /\ static \in StaticTags
    /\ suffixes \in Suffixes
    /\ r = 1
    /\ versions = {}
    /\ filtered = {}
    /\ generated = <<>>
    /\ next = 1
    /\ tags = {[name |-> n, from |-> 0] : n \in static}
    /\ step = "resolve"

Fail ==
    /\ step' = "error"
    /\ UNCHANGED <<fetchVars, input, r, versions, filtered, generated, next, tags>>

\* effectiveConfig and the source's Validate.
ConfigFails ==
    /\ step = "resolve"
    /\ r <= Len(ranges)
    /\ \/ ranges[r].source = ranges[r].generator
       \/ ranges[r].source /\ ranges[r].select = NotGiven
    /\ Fail

\* resolveOne: the configuration of a range is complete, so its source is
\* fetched, or the fetch has failed.
Fetch ==
    /\ step = "resolve"
    /\ r <= Len(ranges)
    /\ ranges[r].source # ranges[r].generator
    /\ ranges[r].source => ranges[r].select # NotGiven
    /\ StartFetch \/ FetchNext
    /\ UNCHANGED <<input, r, versions, filtered, generated, next, tags, step>>

SourceFails ==
    /\ step = "resolve"
    /\ fetch = "failed"
    /\ step' = "error"
    /\ UNCHANGED <<fetchVars, input, r, versions, filtered, generated, next, tags>>

\* The versions are parsed; what does not parse is dropped.
Parse ==
    /\ step = "resolve"
    /\ fetch = "fetched"
    /\ versions' = {v \in source : v.parses}
    /\ step' = IF versions' = {} THEN "error" ELSE "filter"
    /\ UNCHANGED <<fetchVars, input, r, filtered, generated, next, tags>>

Filter ==
    /\ step = "filter"
    /\ versions' = ApplyFilters(versions, ranges[r].filter)
    /\ filtered' = versions'
    /\ step' = IF versions' = {} THEN "error" ELSE "select"
    /\ UNCHANGED <<fetchVars, input, r, generated, next, tags>>

\* A generator without a select block of its own asks for one of each level.
EffectiveSelect(range) ==
    IF range.select # NotGiven THEN range.select
    ELSE [major |-> 1, minor |-> 1, patch |-> 1]

Select ==
    /\ step = "select"
    /\ versions' = SelectVersions(versions, EffectiveSelect(ranges[r]))
    /\ step' = "render"
    /\ UNCHANGED <<fetchVars, input, r, filtered, generated, next, tags>>

\* The generated tags in descending order of their versions.
Descending(T) ==
    CHOOSE q \in [1 .. Cardinality(T) -> T] :
        \A i, j \in DOMAIN q : i < j => Higher(q[i].version, q[j].version)

MaxTags(range) == IF range.maxTags <= 0 THEN defaultMaxTags ELSE range.maxTags

\* renderTags, then the cap; then the next range.
Render ==
    LET rendered == RenderTags(versions, ranges[r], r)
    IN  /\ step = "render"
        /\ IF \/ \E v \in versions : ~ValidTag(ranges[r].template, v)
              \/ Cardinality(rendered) > MaxTags(ranges[r])
           THEN Fail
           ELSE /\ generated' = generated \o Descending(rendered)
                /\ r' = r + 1
                /\ versions' = {}
                /\ filtered' = {}
                /\ step' = "resolve"
                /\ fetch' = "idle"
                /\ source' = {}
                /\ UNCHANGED <<listing, page, attempt, input, next, tags>>

\* collidesWithVariantTag: the new name is another tag's name with a suffix.
CollidesWithVariantTag(name) ==
    \E t \in tags, s \in suffixes : t.name # name /\ t.name \o s = name

\* Mutated form: a static tag is replaced.
MergeTagReplacesStatic ==
    LET g == generated[next]
    IN  /\ step = "resolve" /\ r > Len(ranges) /\ next <= Len(generated)
        /\ IF \/ \E i \in 1 .. (next - 1) : generated[i].name = g.name /\ generated[i].from # g.from
              \/ CollidesWithVariantTag(g.name)
           THEN Fail
           ELSE /\ tags' = {t \in tags : t.name # g.name} \cup {g}
                /\ next' = next + 1
                /\ UNCHANGED <<fetchVars, input, r, versions, filtered, generated, step>>

\* Mutated form: the later range wins.
MergeTagLastRangeWins ==
    LET g == generated[next]
    IN  /\ step = "resolve" /\ r > Len(ranges) /\ next <= Len(generated)
        /\ IF g.name \in static
           THEN next' = next + 1 /\ UNCHANGED <<fetchVars, input, r, versions, filtered, generated, tags, step>>
           ELSE IF CollidesWithVariantTag(g.name)
           THEN Fail
           ELSE /\ tags' = {t \in tags : t.name # g.name} \cup {g}
                /\ next' = next + 1
                /\ UNCHANGED <<fetchVars, input, r, versions, filtered, generated, step>>

\* One round of mergeGeneratedTags: a static tag wins silently; a name that
\* another range has generated before, or that looks like a variant, is an error.
MergeTag ==
    LET g == generated[next]
        seenFrom == {generated[i].from : i \in {j \in 1 .. (next - 1) : generated[j].name = g.name}}
    IN  /\ step = "resolve"
        /\ r > Len(ranges)
        /\ next <= Len(generated)
        /\ CASE g.name \in static ->
                  /\ next' = next + 1
                  /\ UNCHANGED <<fetchVars, input, r, versions, filtered, generated, tags, step>>
             [] g.name \notin static /\ (seenFrom \ {g.from} # {} \/ CollidesWithVariantTag(g.name)) ->
                  Fail
             [] OTHER ->
                  /\ tags' = {t \in tags : t.name # g.name} \cup {g}
                  /\ next' = next + 1
                  /\ UNCHANGED <<fetchVars, input, r, versions, filtered, generated, step>>

MergeEnds ==
    /\ step = "resolve"
    /\ r > Len(ranges)
    /\ next > Len(generated)
    /\ step' = "done"
    /\ UNCHANGED <<fetchVars, input, r, versions, filtered, generated, next, tags>>

Done ==
    /\ step \in {"done", "error"}
    /\ UNCHANGED rangesVars

RangesNext ==
    \/ ConfigFails \/ Fetch \/ SourceFails
    \/ Parse \/ Filter \/ Select \/ Render
    \/ MergeTag \/ MergeEnds
    \/ Done

RangesSpec == RangesInit /\ [][RangesNext]_rangesVars

-----------------------------------------------------------------------------
RangesTypeOK ==
    /\ FetchTypeOK
    /\ r \in 1 .. (Len(ranges) + 1)
    /\ filtered \subseteq Published /\ versions \subseteq Published
    /\ next \in 1 .. (Len(generated) + 1)
    /\ \A i \in DOMAIN generated : generated[i].from \in 1 .. Len(ranges)
    /\ step \in {"resolve", "filter", "select", "render", "done", "error"}

Eligible(range) == ApplyFilters({v \in Published : v.parses}, range.filter)

\* A generated tag always carries the newest version it may: of everything the
\* filters let through, no version that renders to the same name is higher than
\* the one the tag was built from, whatever select left out on the way.
TagsCarryTheNewest ==
    \A t \in tags : t.from # 0 =>
        \A v \in Eligible(ranges[t.from]) :
            TagName(ranges[t.from].template, v) = t.name => ~Higher(v, t.version)

\* "A static tag in tags always wins": after the merge the image has every tag
\* it declares, unchanged, and one tag per name.
StaticTagsSurvive ==
    /\ \A n \in static : [name |-> n, from |-> 0] \in tags
    /\ \A t, u \in tags : t.name = u.name => t = u

\* "Two different tag_ranges producing the same tag name is a hard error", unless
\* a static tag settles it.
RangesDoNotOverlap ==
    step = "done" =>
        \A i, j \in DOMAIN generated :
            (generated[i].name = generated[j].name /\ generated[i].from # generated[j].from)
                => generated[i].name \in static

\* What enters the pipeline is everything the source publishes; nothing that the
\* image declares is lost at its end, and no range takes a tag of another.
ResolutionInvariant ==
    /\ RangesTypeOK
    /\ FetchIsComplete
    /\ StaticTagsSurvive
    /\ RangesDoNotOverlap

\* "[18, 20, 22, 24] with 5 keeps everything ...; adding 99 drops it": the guard
\* drops nothing that a chain of small steps connects to the lowest major, and
\* everything else.
GuardIsNoWindow ==
    step = "select" =>
        LET f == ranges[r].filter
            before == {v \in Published : v.parses /\ Passes(v, f)}
            majors == {v.major : v \in before}
            Connected(m) == \A n \in majors :
                (n < m /\ \A k \in majors : k <= n \/ k >= m) => m - n <= f.maxMajorIncrement
        IN  f.maxMajorIncrement > 0 =>
                filtered = {v \in before : \A m \in majors : m <= v.major => Connected(m)}

\* "A generated tag colliding with another tag's variant-suffixed form (tag +
\* variant.tag_suffix) is a hard error": in the merged image no tag is the
\* variant-suffixed form of another one if one of them was generated.
VariantTagsAreDistinct ==
    step = "done" =>
        \A t, u \in tags : \A s \in suffixes :
            (t.from # 0 \/ u.from # 0) => t.name \o s # u.name

\* "patch: 2  # keep the 2 highest distinct values": of a minor with more than
\* N patches, N different ones are kept.
PatchesAreDistinct ==
    step = "render" =>
        LET sel == EffectiveSelect(ranges[r])
            Patches(S, v) == {w.patch : w \in {x \in S : x.major = v.major /\ x.minor = v.minor}}
        IN  sel.patch # All =>
                \A v \in versions :
                    Cardinality(Patches(filtered, v)) >= Limit(sel.patch) =>
                        Cardinality(Patches(versions, v)) = Limit(sel.patch)

\* No newer version is left out where it should be in: neither by the guard
\* against outliers nor by the selection of what is rendered.
NewestIsKept == TagsCarryTheNewest /\ GuardIsNoWindow
=============================================================================
