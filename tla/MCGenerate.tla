---------------------------- MODULE MCGenerate ----------------------------
(***************************************************************************)
(* Two layouts of images/: one with a config beside the directories of the *)
(* versions of an image, one with a rootfs directory that holds a config;  *)
(* and every way in which the definition of one image can be wrong. An     *)
(* earlier version had the variant of that image, and an image that is     *)
(* gone.                                                                   *)
(***************************************************************************)
EXTENDS Generate, TLC

MCConfigs == {"alpine/image.yml", "dotnet/8/image.yml", "dotnet/image.yml",
              "dotnet/v9/image.yml", "dotnet/rootfs/image.yml"}
MCRootfsDirs == {"dotnet/rootfs"}

\* "dotnet/v9" comes after "dotnet/image.yml" and is not visited.
Beside ==
    ("images" :> <<"alpine", "dotnet">>) @@
    ("alpine" :> <<"alpine/Dockerfile", "alpine/image.yml">>) @@
    ("dotnet" :> <<"dotnet/8", "dotnet/image.yml", "dotnet/v9">>) @@
    ("dotnet/8" :> <<"dotnet/8/image.yml">>) @@
    ("dotnet/v9" :> <<"dotnet/v9/image.yml">>)

Versions ==
    ("images" :> <<"alpine", "dotnet">>) @@
    ("alpine" :> <<"alpine/Dockerfile", "alpine/image.yml">>) @@
    ("dotnet" :> <<"dotnet/8", "dotnet/rootfs", "dotnet/v9">>) @@
    ("dotnet/8" :> <<"dotnet/8/image.yml">>) @@
    ("dotnet/v9" :> <<"dotnet/v9/image.yml">>) @@
    ("dotnet/rootfs" :> <<"dotnet/rootfs/image.yml">>)

MCTrees == {Beside, Versions}

MCTags ==
    [c \in MCConfigs |->
       CASE c = "dotnet/8/image.yml" -> {"8"}
         [] c = "dotnet/v9/image.yml" -> {"9"}
         [] OTHER -> {"1"}]

MCVariants ==
    [c \in MCConfigs |-> IF c = "dotnet/8/image.yml" THEN {"-node"} ELSE {}]

\* Every image has a Dockerfile; that of dotnet 8 has what is given.
Project(odd) ==
    [c \in MCConfigs |->
        IF c = "dotnet/8/image.yml" THEN odd
        ELSE [parses |-> TRUE, base |-> [build |-> "", files |-> {"dockerfile"}],
              variant |-> [build |-> "", files |-> {}]]]
Odd(parses, build, files, variantFiles) ==
    [parses |-> parses, base |-> [build |-> build, files |-> files],
     variant |-> [build |-> "", files |-> variantFiles]]

MCDefinitions ==
    {Project(odd) : odd \in
        {Odd(TRUE, "", {"dockerfile"}, {"dockerfile"}),
         Odd(TRUE, "", {"nix", "dockerfile"}, {"chisel"}),
         Odd(TRUE, "", {"chisel", "dockerfile"}, {"dockerfile"}),
         Odd(TRUE, "nix", {"dockerfile"}, {"dockerfile"}),
         Odd(TRUE, "unknown", {"dockerfile"}, {"dockerfile"}),
         Odd(TRUE, "", {"dockerfile"}, {}),
         Odd(FALSE, "", {"dockerfile"}, {"dockerfile"})}}

MCSuffixed == [t \in {"1", "8", "9"} |-> ("" :> t) @@ ("-node" :> t \o "-node")]

MCEarlier == {<<"gone", "1">>, <<"dotnet", "8-node">>}

MCWithRootfs == {<<"dotnet/8/image.yml", "">>, <<"dotnet/8/image.yml", "-node">>}
=============================================================================
