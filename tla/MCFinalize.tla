----------------------------- MODULE MCFinalize -----------------------------
(***************************************************************************)
(* Definitions with up to four tags whose versions have one, two or three  *)
(* numbers, two digits included, with and without a variant, a prerelease  *)
(* and a latest alias.                                                     *)
(***************************************************************************)
EXTENDS Finalize

Version(nums) == [nums |-> nums, suffix |-> << >>]
Edge == [nums |-> << >>, suffix |-> <<"edge">>]
Alpine == <<"alpine">>

Definitions(versions, variants) ==
    {d \in [tags : SUBSET versions, prereleases : SUBSET versions,
            variants : SUBSET variants, latest : {"off", "error", "silent"}] :
        /\ d.tags # {} /\ Cardinality(d.tags) <= 4
        /\ d.prereleases \subseteq d.tags /\ Cardinality(d.prereleases) <= 1
        /\ Cardinality(d.tags) > 3 => d.variants = {} /\ d.prereleases = {}}

Releases == {Version(<<1, 2>>), Version(<<1, 2, 3>>), Version(<<1, 10>>),
             Version(<<1, 9, 0>>), Version(<<2>>), Edge}

OneDefinition == {<<d>> : d \in Definitions(Releases, {Alpine})}
ReleaseFilters == {{}, {Version(<<1, 2>>)}, {Version(<<1, 2, 3>>), Version(<<1, 9, 0>>)}}
NoFilters == {{}}

Plain(versions) == [tags |-> versions, prereleases |-> {}, variants |-> {},
                    latest |-> "off"]

\* Four-component versions: builds 9 and 10 of 1.2.3.
BuildNumbers == {<<Plain({Version(<<1, 2, 3, 9>>), Version(<<1, 2, 3, 10>>)})>>}

\* Two image definitions with the same name.
SharedName == {<<Plain({Version(<<1, 2>>)}), Plain({Version(<<1, 3>>)})>>}

WithVariant == {<<[Plain({Version(<<1, 2>>)}) EXCEPT !.variants = {Alpine}]>>}
VersionFilter == {{Version(<<1, 2>>)}}
=============================================================================
