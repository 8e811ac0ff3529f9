---------------------------- MODULE MCTagRanges -----------------------------
(***************************************************************************)
(* A source that may list releases of four majors, one of them an outlier, *)
(* the same release in two spellings, a prerelease, a flavour, a release   *)
(* with build metadata, and a tag that is not a version.                   *)
(***************************************************************************)
EXTENDS TagRanges

Order == INSTANCE SequencesExt

CONSTANT slim   \* the suffix "-slim"

Slim == <<slim>>

Version(a, b, c, n) ==
    [major |-> a, minor |-> b, patch |-> c, raw |-> n, pre |-> FALSE, flagged |-> FALSE,
     suffixed |-> FALSE, parses |-> TRUE, ociTag |-> TRUE, draft |-> FALSE]

Plain == {Version(8, 0, 0, 1), Version(8, 0, 1, 1), Version(8, 0, 1, 2), Version(8, 1, 0, 1),
          Version(10, 0, 0, 1), Version(12, 0, 0, 1), Version(99, 0, 0, 1)}
Prerelease == [Version(10, 0, 0, 1) EXCEPT !.pre = TRUE]
Flagged == [Version(10, 1, 0, 1) EXCEPT !.flagged = TRUE]
Flavour == [Version(8, 0, 2, 1) EXCEPT !.suffixed = TRUE]
WithMetadata == [Version(8, 1, 0, 2) EXCEPT !.ociTag = FALSE]
NotAVersion == [Version(0, 0, 0, 1) EXCEPT !.parses = FALSE]
Draft == [Version(12, 1, 0, 1) EXCEPT !.draft = TRUE]

Listing(kind, entries) == [kind |-> kind, entries |-> entries]

\* Every list of plain releases, and short lists with the other kinds.
JSONListings ==
    {Listing("json", Order!SetToSeq(S)) : S \in
        SUBSET Plain \cup
        {S \in SUBSET {Version(8, 0, 1, 1), Version(10, 0, 0, 1), Prerelease, Flagged, Flavour,
                       WithMetadata, NotAVersion} : Cardinality(S) <= 3}}

\* Pages of two entries, at most three of them: releases by date, of several
\* lines, up to one page more than the cap; a full page has no draft.
Dated == <<Version(12, 0, 0, 1), Version(8, 0, 1, 1), Version(10, 0, 0, 1), Version(8, 0, 0, 1),
           Version(8, 1, 0, 1), Version(99, 0, 0, 1), Version(8, 0, 1, 2)>>
GitHubListings ==
    {Listing(k, SubSeq(Dated, 1, n)) : k \in {"releases", "tags"}, n \in 0 .. 7}
    \cup {Listing("releases", SubSeq(Dated, 1, n) \o <<Draft>>) : n \in {0, 2, 4, 6}}

\* Registries below and above the cap on tags.
RegistryListings == {Listing("registry", SubSeq(Dated, 1, n)) : n \in {2, 5}}

\* A full page with a draft.
DraftListings ==
    {Listing("releases", SubSeq(Dated, 1, n) \o <<Draft>> \o SubSeq(Dated, n + 1, 7)) : n \in 0 .. 1}

MCListings == JSONListings \cup GitHubListings \cup RegistryListings

NoFilter == [excludePrerelease |-> TRUE, excludeSuffixes |-> FALSE, minVersion |-> NotGiven,
             maxVersion |-> NotGiven, maxMajorIncrement |-> 0]
Filters == {NoFilter,
            [NoFilter EXCEPT !.excludePrerelease = FALSE, !.minVersion = Version(8, 0, 1, 0)],
            [NoFilter EXCEPT !.excludeSuffixes = TRUE, !.maxVersion = Version(12, 0, 0, 0)],
            [NoFilter EXCEPT !.maxMajorIncrement = 2]}

Levels(a, b, c) == [major |-> a, minor |-> b, patch |-> c]
Selects == {Levels(1, 1, 1), Levels(2, 1, 2), Levels(All, All, 2), Levels(NotGiven, All, NotGiven),
            Levels(All, 1, All), Levels(NotGiven, NotGiven, 1)}

Template(d, s) == [depth |-> d, suffix |-> s]
Range(sel, f, t, max) ==
    [source |-> TRUE, generator |-> FALSE, select |-> sel, filter |-> f, template |-> t,
     maxTags |-> max]

SingleRanges ==
    {<<Range(sel, f, t, 0)>> : sel \in Selects, f \in Filters,
                               t \in {Template(2, <<>>), Template(3, <<>>)}}

\* Configurations that are rejected, the shorthand generator, a low cap.
OddRanges ==
    LET usual == Range(Levels(All, 1, 1), NoFilter, Template(1, <<>>), 2)
    IN  {<<usual>>,
         <<[usual EXCEPT !.generator = TRUE]>>,
         <<[usual EXCEPT !.source = FALSE]>>,
         <<[usual EXCEPT !.select = NotGiven]>>,
         <<[usual EXCEPT !.source = FALSE, !.generator = TRUE, !.select = NotGiven]>>}

\* Two ranges over the same source, with names that may be equal, or the one
\* with the suffix of the variant of the other.
RangePairs ==
    LET R(t) == Range(Levels(All, 1, 1), NoFilter, t, 0)
    IN  {<<R(t), R(u)>> : t \in {Template(1, <<>>), Template(1, Slim)},
                          u \in {Template(1, <<>>), Template(1, Slim)}}

MCRangeLists == SingleRanges \cup OddRanges \cup RangePairs
MCStaticTags == {{}, {<<8>>, <<8, 0>>}, {<<10, slim>>}}
MCSuffixes == {{}, {Slim}}
=============================================================================
