--------------------------- MODULE MCProjectBuild ---------------------------
(***************************************************************************)
(* A project of four images: "base" with two tags, the second built on the *)
(* first, and a variant that extends its tag; "app", built on the variant  *)
(* base:1-slim and with a Chisel variant, which only amd64 is configured   *)
(* for; "tool", a Nix image whose parent is that variant and which         *)
(* depends_on base, for both platforms, so that its arm64 build cannot be  *)
(* resolved; and "extra", which depends on nothing.                        *)
(***************************************************************************)
EXTENDS ProjectBuild, Sequences

MCDefs == {"base", "app", "tool", "extra"}
MCNameOf == [d \in MCDefs |-> d]
MCTagsOf == [base |-> {"1", "2"}, app |-> {"7"}, tool |-> {"5"}, extra |-> {"9"}]
MCVariantsOf == [base |-> {"slim"}, app |-> {"dev"}, tool |-> {}, extra |-> {}]

MCTags == {"1", "2", "5", "7", "9"}
MCFullTag ==
    [tv \in MCTags \X {"slim", "dev", NoVariant} |->
        IF tv[2] = NoVariant THEN tv[1] ELSE tv[1] \o "-" \o tv[2]]

MCDependsOn == [base |-> {}, app |-> {}, tool |-> {"base"}, extra |-> {}]

MCHiveRefs ==
    [u \in Units |->
        CASE u = <<"app", "7", NoVariant>> -> {<<"base", "1-slim">>}
          [] u[1] = "base" /\ u[3] # NoVariant -> {<<u[1], u[2]>>}
          [] u = <<"base", "2", NoVariant>> -> {<<"base", "1">>}
          [] OTHER -> {}]

\* "tool" is a Nix image, the variant of "app" a Chisel one.
MCParents ==
    [u \in Units |->
        CASE u = <<"tool", "5", NoVariant>> -> <<"app", "7-dev">>
          [] u = <<"app", "7", "dev">> -> HiveParent
          [] OTHER -> NoParent]

MCNormalize == [riscv64 |-> "linux/riscv64", amd64 |-> "linux/amd64", arm64 |-> "linux/arm64"]
MCGlobalPlatforms == {"amd64", "arm64"}
MCImagePlatforms ==
    [base |-> {}, app |-> {"arm64", "amd64"}, tool |-> {}, extra |-> {"amd64"}]
MCVariantPlatforms ==
    [dv \in MCDefs \X {"slim", "dev"} |->
        IF dv = <<"app", "dev">> THEN {"amd64"} ELSE {}]

\* Every unit is rendered, except the variant of base:2.
MCEntrypoints == Units \ {<<"base", "2", "slim">>}

Option(f, p, r, published, sharded, owned, generate) ==
    [filters |-> f, platforms |-> p, registry |-> r,
     published |-> published, sharded |-> sharded, owned |-> owned,
     generate |-> generate]

Everything == {<<Name(u), Tag(u)>> : u \in Units}
AllOwned == {<<u[1], Tag(u)>> : u \in Units}

\* Whole builds, single images, single tags, one platform or all of them, with
\* and without a registry.
FilteredInvocations ==
    {Option(f, p, r, Everything, FALSE, {}, FALSE) :
        f \in {{}, {<<"app", "">>}, {<<"base", "1">>, <<"app", "7-dev">>}},
        p \in {{}, {"amd64"}},
        r \in BOOLEAN}
    \cup {Option({<<"extra", "">>}, {p}, FALSE, {}, FALSE, {}, FALSE) : p \in {"arm64", "riscv64"}}

\* Every assignment of the units of base and app to this shard; the rest of
\* the project belongs to another shard.
ShardedInvocations ==
    {Option({}, p, TRUE, Everything, TRUE, o, FALSE) :
        p \in {{"amd64"}, {"arm64"}},
        o \in SUBSET {x \in AllOwned : x[1] \in {"base", "app"}}}

SingleRuns == FilteredInvocations \cup ShardedInvocations

\* Repeated invocations: everything, then only app, with or without generate.
RepeatedRuns ==
    {Option(f, {"amd64"}, r, {}, FALSE, {}, g) :
        f \in {{}, {<<"app", "">>}}, r \in BOOLEAN, g \in BOOLEAN}

AllRuns == SingleRuns \cup RepeatedRuns
=============================================================================
