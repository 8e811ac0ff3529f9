------------------------- MODULE MCChangeDetection --------------------------
(***************************************************************************)
(* Three images, every graph over them (cyclic ones included), and files   *)
(* of each kind the classification tells apart.                            *)
(***************************************************************************)
EXTENDS ChangeDetection, TLC

CONSTANTS base, mid, leaf, v1, v2, any

MCImages == {base, mid, leaf}
MCTags == {v1, v2}

File(g, x, own, out) == [global |-> g, excluded |-> x, owners |-> own, outside |-> out]

MCFiles == {
    File(FALSE, FALSE, {base}, FALSE),       \* images/base/Dockerfile
    File(FALSE, FALSE, {leaf, mid}, TRUE),   \* a nested directory, linked images
    File(FALSE, TRUE, {mid}, FALSE),         \* an excluded file of an image
    File(TRUE, TRUE, {}, FALSE),             \* hive.yml, also excluded
    File(FALSE, FALSE, {}, FALSE),           \* unmatched
    File(FALSE, FALSE, {}, TRUE) }           \* unmatched, outside the project

\* Chains, a fan, a self-loop and cycles; the templates show every edge.
Edges(b, m, l) == base :> b @@ mid :> m @@ leaf :> l
PlainGraphs == {[source |-> e, rendered |-> e] : e \in {
    Edges({}, {base}, {mid}),
    Edges({}, {base}, {base}),
    Edges({mid}, {base}, {mid}),
    Edges({leaf}, {base}, {mid}),
    Edges({}, {}, {leaf}) }}

\* mid's Dockerfile.gotpl says FROM {{ resolve_base "base" ... }}.
TemplatedGraphs == {[source |-> Edges({}, {}, {mid}),
                     rendered |-> Edges({}, {base}, {mid})]}

Filter(i, t) == [image |-> i, tag |-> t]
MCFilterLists == {
    << >>,
    <<Filter(base, any)>>,
    <<Filter(any, v1)>>,
    <<Filter(base, v1), Filter(leaf, any)>>,
    <<Filter(any, v2), Filter(mid, v1)>> }
NoFilterLists == {}
=============================================================================
