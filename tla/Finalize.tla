------------------------------ MODULE Finalize ------------------------------
(***************************************************************************)
(* `ch finalize` of one image name against a remote registry: a manifest   *)
(* list for every selected tag, then a retag for every alias, computed     *)
(* from the tags that parse as semantic versions.                          *)
(*                                                                         *)
(* A tag name is a record: nums, the one to four numbers of its version    *)
(* (empty for a tag that is no version), and suffix, the strings that      *)
(* follow them.  Several definitions can share the image name.             *)
(***************************************************************************)
EXTENDS Integers, Sequences, FiniteSets

CONSTANTS Projects,     \* the definitions of the image, one sequence each
          FilterSets    \* the tags of the command line filters, {} for none

VARIABLES
    defs, filters,      \* inputs
    registry,           \* registry[name]: the tag whose manifest name holds
    todo,               \* units or aliases of the loop that runs
    defsLeft,           \* definitions RetagAllAliases has not reached
    aliases,            \* the alias map of the definition being retagged
    missed,             \* aliases whose retag failed, a warning
    pc

inputs == <<defs, filters>>
vars == <<inputs, registry, todo, defsLeft, aliases, missed, pc>>

-----------------------------------------------------------------------------
(* internal/semantic_tags.                                                 *)

IsVersion(t) == t.nums # << >>

Component(t, k) == IF k <= Len(t.nums) THEN t.nums[k] ELSE -1

\* Strings of digits compare character by character.
Digits(n) == IF n < 0 THEN << >> ELSE IF n < 10 THEN <<n>> ELSE <<n \div 10, n % 10>>
StringLess(a, b) ==
    \/ \E k \in 1..Len(b) :
        /\ \A m \in 1..(k - 1) : m <= Len(a) /\ a[m] = b[m]
        /\ k > Len(a) \/ a[k] < b[k]

\* Major, minor and patch compare as numbers, build as a string; a component
\* that is absent is the smallest.  Suffixes are ignored.
ComponentLess(k, a, b) == IF k < 4 THEN a < b ELSE StringLess(Digits(a), Digits(b))

\* Mutated form: every component compares as a string.
GreaterAsStrings(v, w) ==
    \E k \in 1..4 :
        /\ StringLess(Digits(Component(w, k)), Digits(Component(v, k)))
        /\ \A m \in 1..(k - 1) : Component(v, m) = Component(w, m)

Greater(v, w) ==
    \E k \in 1..4 :
        /\ ComponentLess(k, Component(w, k), Component(v, k))
        /\ \A m \in 1..(k - 1) : Component(v, m) = Component(w, m)

GetLowerVariants(v) ==
    {[nums |-> SubSeq(v.nums, 1, n), suffix |-> v.suffix] : n \in 1..(Len(v.nums) - 1)}

-----------------------------------------------------------------------------
(* pkg/rendering: alias resolution.                                        *)

Suffixed(t, s) == [t EXCEPT !.suffix = @ \o s]

Tagged(d, s) == {Suffixed(t, s) : t \in d.tags}
Variants(d) == UNION {Tagged(d, s) : s \in d.variants}
Prereleases(d) == UNION {{Suffixed(t, s) : t \in d.prereleases} : s \in d.variants \cup {<< >>}}
Units(d) == d.tags \cup Variants(d)

\* Mutated form: the first candidate keeps the alias.
Lowest(C) == CHOOSE v \in C : \A w \in C : ~ Greater(v, w)

\* The candidates are visited in sorted order and a later one replaces an
\* earlier one only if it is greater; of equal versions the plain tag sorts
\* first.
Highest(C) ==
    CHOOSE v \in C : \A w \in C : ~ Greater(w, v) /\
        (Greater(v, w) \/ Len(v.suffix) <= Len(w.suffix))

Candidates(d, tags) == {t \in tags \ Prereleases(d) : IsVersion(t)}

ResolveAliases(d) ==
    LET Claims(a) == {t \in Candidates(d, Units(d)) : a \in GetLowerVariants(t)}
    IN  [a \in UNION {GetLowerVariants(t) : t \in Candidates(d, Units(d))} |->
            Highest(Claims(a))]

\* latest_alias points at the highest base tag, and with the suffix of every
\* variant at the highest tag of that variant.
LatestNames(d) == IF d.latest = "off" THEN {}
                  ELSE {[nums |-> << >>, suffix |-> <<"latest">> \o s] :
                            s \in d.variants \cup {<< >>}}
LatestTags(d, a) == Candidates(d, Tagged(d, Tail(a.suffix)))
Resolved(d) == {a \in LatestNames(d) : LatestTags(d, a) # {}}

\* A latest alias without any version is an error unless on_missing says
\* "silent" or "warning".
ResolveFails(d) == d.latest = "error" /\ Resolved(d) # LatestNames(d)

ResolveAllAliases(d) ==
    LET series == ResolveAliases(d) IN
    [a \in DOMAIN series \cup Resolved(d) |->
        IF a \in Resolved(d) THEN Highest(LatestTags(d, a)) ELSE series[a]]

\* What can be said of the aliases of several definitions. A tag is spelled by one
\* tag and one suffix of its definition, the fourth numbers of its versions have
\* one length, see Digits, and of two definitions neither claims a tag of the
\* other: RetagAllAliases takes the definitions one by one.
TagNames == [nums : Seq(Nat), suffix : Seq(STRING)]
Claimed(d) == Units(d) \cup DOMAIN ResolveAllAliases(d)

Spelled(d) ==
    /\ IsFiniteSet(d.tags) /\ d.tags \subseteq TagNames
    /\ \A t \in d.tags : Len(t.nums) <= 4 /\ (Len(t.nums) = 4 => t.nums[4] < 100)
    /\ \A t, u \in d.tags : Len(t.nums) = 4 /\ Len(u.nums) = 4 =>
          (t.nums[4] < 10 <=> u.nums[4] < 10)
    /\ d.prereleases \subseteq d.tags
    /\ IsFiniteSet(d.variants) /\ d.variants \subseteq Seq(STRING)
    /\ \A t, u \in d.tags : \A r, s \in d.variants \cup {<< >>} :
          Suffixed(t, r) = Suffixed(u, s) => t = u

\* What the tag held before this run: the manifest of an earlier release.
Previous(n) == [n EXCEPT !.suffix = <<"previous">> \o @]

WellFormed(p) ==
    /\ \A k \in DOMAIN p : Spelled(p[k])
    /\ \A j, k \in DOMAIN p : j # k => Claimed(p[j]) \cap Claimed(p[k]) = {}
    /\ \A j, k \in DOMAIN p : \A n \in Claimed(p[k]) : Previous(n) \notin Units(p[j])

-----------------------------------------------------------------------------
AllUnits == UNION {Units(defs[k]) : k \in DOMAIN defs}
Names == UNION {Units(defs[k]) \cup DOMAIN ResolveAllAliases(defs[k]) : k \in DOMAIN defs}

\* A filter selects the tag it names, no other.
MatchesTagFilter(t) == filters = {} \/ t \in filters

Init ==
    /\ defs \in Projects
    /\ filters \in FilterSets
    /\ registry = [n \in Names |-> Previous(n)]
    /\ todo = {t \in AllUnits : MatchesTagFilter(t)}
    /\ defsLeft = DOMAIN defs
    /\ aliases = << >>
    /\ missed = {}
    /\ pc = "manifests"

\* The platform images of the tag combined into one manifest list.
CreateManifest(t) ==
    /\ pc = "manifests"
    /\ t \in todo
    /\ registry' = [registry EXCEPT ![t] = t]
    /\ todo' = todo \ {t}
    /\ UNCHANGED <<inputs, defsLeft, aliases, missed, pc>>

\* Mutated form: a manifest that failed is a warning too.
ManifestWarns(t) ==
    /\ pc = "manifests"
    /\ t \in todo
    /\ todo' = todo \ {t}
    /\ UNCHANGED <<inputs, registry, defsLeft, aliases, missed, pc>>

\* A platform image cannot be fetched or the index cannot be written.
ManifestFails(t) ==
    /\ pc = "manifests"
    /\ t \in todo
    /\ pc' = "failed"
    /\ UNCHANGED <<inputs, registry, todo, defsLeft, aliases, missed>>

EndManifests ==
    /\ pc = "manifests"
    /\ todo = {}
    /\ pc' = "retag"
    /\ UNCHANGED <<inputs, registry, todo, defsLeft, aliases, missed>>

\* Mutated form: the filters limit the manifests only.
SelectedAll(map) == DOMAIN map

Selected(map) == {a \in DOMAIN map : MatchesTagFilter(map[a])}

\* ImagesByIdentifier is a map: the definitions come in any order.
StartRetag(k) ==
    /\ pc = "retag"
    /\ todo = {} /\ k \in defsLeft
    /\ \/ /\ ResolveFails(defs[k])
          /\ pc' = "failed"
          /\ UNCHANGED <<todo, defsLeft, aliases>>
       \/ /\ ~ ResolveFails(defs[k])
          /\ aliases' = ResolveAllAliases(defs[k])
          /\ todo' = Selected(aliases')
          /\ defsLeft' = defsLeft \ {k}
          /\ UNCHANGED pc
    /\ UNCHANGED <<inputs, registry, missed>>

\* gcr.Retag copies what the source tag holds now; the alias map has no order.
Retag(a) ==
    /\ pc = "retag"
    /\ a \in todo
    /\ registry' = [registry EXCEPT ![a] = registry[aliases[a]]]
    /\ todo' = todo \ {a}
    /\ UNCHANGED <<inputs, defsLeft, aliases, missed, pc>>

\* A retag that fails is logged, and the command still succeeds.
RetagFails(a) ==
    /\ pc = "retag"
    /\ a \in todo
    /\ todo' = todo \ {a}
    /\ missed' = missed \cup {a}
    /\ UNCHANGED <<inputs, registry, defsLeft, aliases, pc>>

EndRetag ==
    /\ pc = "retag"
    /\ todo = {} /\ defsLeft = {}
    /\ pc' = "done"
    /\ UNCHANGED <<inputs, registry, todo, defsLeft, aliases, missed>>

Done == pc \in {"done", "failed"} /\ UNCHANGED vars

Step ==
    \/ \E t \in DOMAIN registry : CreateManifest(t) \/ ManifestFails(t)
    \/ EndManifests
    \/ \E k \in DOMAIN defs : StartRetag(k)
    \/ \E a \in DOMAIN registry : Retag(a) \/ RetagFails(a)
    \/ EndRetag

Next == Step \/ Done

Spec == Init /\ [][Next]_vars /\ WF_vars(Step)

-----------------------------------------------------------------------------
\* The order of versions a reader means: by numbers, absent ones smallest.
AtLeast(v, w) ==
    \/ v.nums = w.nums
    \/ \E k \in 1..4 : /\ Component(w, k) < Component(v, k)
                       /\ \A m \in 1..(k - 1) : Component(v, m) = Component(w, m)

AllPrereleases == UNION {Prereleases(defs[k]) : k \in DOMAIN defs}

\* docs/usage/multi-platform.md: when tags compete for an alias the highest
\* version wins, and it is no prerelease.  Stated of a finalize that was not
\* filtered and whose retags went through.
HighestVersionWins ==
    pc = "done" /\ filters = {} /\ missed = {} =>
        \A t \in AllUnits \ AllPrereleases : \A a \in GetLowerVariants(t) :
            registry[a] \in AllUnits \ AllPrereleases /\ AtLeast(registry[a], t)

\* The aliases of a definition can be retagged in any order: the tag that an
\* alias is copied from is never itself the target of an alias, also where an
\* alias overwrites a tag that was declared.
SourceIsNoAlias ==
    pc = "retag" => \A a \in Selected(aliases) : registry[aliases[a]] = aliases[a]

\* No alias moves before every selected tag has its manifest: a finalize that
\* fails leaves the aliases at the previous release.
AliasesFollowManifests ==
    (\E n \in DOMAIN registry : registry[n] \notin {Previous(n), n}) =>
        \A t \in AllUnits : MatchesTagFilter(t) => registry[t] # Previous(t)

\* A filtered finalize publishes only what the filter selects, under the tag
\* itself or under its aliases.
FilterIsKept ==
    \A n \in DOMAIN registry : registry[n] # Previous(n) => MatchesTagFilter(registry[n])

\* The comment on matchesTagFilter: a filter that names a base tag selects the
\* variant tags that start with it.
FilterTakesVariants ==
    pc = "done" =>
        \A k \in DOMAIN defs : \A t \in defs[k].tags \cap filters :
            \A s \in defs[k].variants : registry[Suffixed(t, s)] # Previous(Suffixed(t, s))
=============================================================================
