------------------------------ MODULE Generate ------------------------------
(***************************************************************************)
(* ch generate: the images that Discovery found are rendered into dist/,   *)
(* one goroutine for every name, one for every tag of the name and, once   *)
(* the base of a tag is rendered, one for each of its variants. Several    *)
(* definitions can share a name, and a tag with a suffix can spell another *)
(* tag: what they write is a directory of the same path.                   *)
(***************************************************************************)
EXTENDS Discovery

CONSTANTS
    Tags,        \* Tags[c]: the tags of the definition c
    Suffixed,    \* Suffixed[t][s]: t followed by s; "" is the suffix of the base
    WithRootfs,  \* <<c, s>>: the base or the variant s of c has a rootfs directory
    Earlier      \* <<name, tag>>: an earlier version of the project was rendered there

ASSUME GenerateAssumption ==
    \A c \in Configs : "" \notin Variants[c]

VARIABLES
    dist,      \* the directories of dist/ by <<name, tag>>
    left,      \* those of an earlier rendering that os.RemoveAll has not removed
    render,    \* RenderProject
    names,     \* names whose goroutine has not been started
    unit, at,  \* of every unit: its goroutine, and the step it is at
    noDir      \* RenderProject returned early: the directory of a name failed

rendering == <<dist, left, render, names, unit, at, noDir>>
vars == <<discoveryVars, rendering>>

Bases == UNION {{<<c, t, "">> : t \in Tags[c]} : c \in Configs}
Units == Bases \cup UNION {{<<c, t, s>> : t \in Tags[c], s \in Variants[c]} : c \in Configs}
Names == {Name(c) : c \in images}
Path(u) == <<Name(u[1]), Suffixed[u[2]][u[3]]>>
IsVariant(u) == u[3] # ""

\* The files of a directory: whose entrypoint and tests they are, and the rootfs
\* directories that have been copied to its rootfs, one over the other.
NoFiles == [entrypoint |-> {}, rootfs |-> <<>>, tests |-> {}]
OldFiles == [entrypoint |-> {<<<<"earlier", "", "">>, TRUE>>}, rootfs |-> <<<<"earlier", "">>>>,
             tests |-> {<<"earlier", "", "">>}]
Before(p) == IF p \in left THEN OldFiles ELSE NoFiles

Init ==
    /\ DiscoveryInit
    /\ left = Earlier
    /\ dist = [p \in left |-> OldFiles]
    /\ render = "waiting"
    /\ names = {}
    /\ unit = [u \in Units |-> "none"]
    /\ at = [u \in Units |-> 1]
    /\ noDir = FALSE
-----------------------------------------------------------------------------
\* What setupImageTagDir and setupVariantDir do, in their order.
Optional(step, present) == IF present THEN <<step>> ELSE <<>>

\* Mutated form: the rootfs of the base comes last.
StepsBaseLast(u) ==
    <<"mkdir", "entrypoint">>
    \o Optional("parent", IsVariant(u))
    \o Optional("overlay", IsVariant(u) /\ <<u[1], u[3]>> \in WithRootfs)
    \o Optional("rootfs", <<u[1], "">> \in WithRootfs)
    \o <<"tests">>

Steps(u) ==
    <<"mkdir", "entrypoint">>
    \o Optional("parent", IsVariant(u))
    \o Optional("rootfs", <<u[1], "">> \in WithRootfs)
    \o Optional("overlay", IsVariant(u) /\ <<u[1], u[3]>> \in WithRootfs)
    \o <<"tests">>

\* The files in the directory of u after a step, files being those before. An
\* entrypoint is that of a unit with its __hive_parent__ replaced or not. Entrypoint
\* and tests are written over those of an earlier rendering, and a rootfs is merged
\* into what is there: of a file of several, the one copied last is kept.
After(step, u, files) ==
    CASE step = "mkdir"      -> files
      [] step = "entrypoint" -> [files EXCEPT !.entrypoint = {<<u, ~ IsVariant(u)>>}]
      [] step = "parent"     -> [files EXCEPT !.entrypoint = {<<e[1], TRUE>> : e \in @}]
      [] step = "rootfs"     -> [files EXCEPT !.rootfs = Append(@, <<u[1], "">>)]
      [] step = "overlay"    -> [files EXCEPT !.rootfs = Append(@, <<u[1], u[3]>>)]
      [] step = "tests"      -> [files EXCEPT !.tests = {u}]

Files(p) == IF p \in DOMAIN dist THEN dist[p] ELSE NoFiles

\* Mutated form: what was rendered earlier is not removed.
StartRenderOver ==
    /\ discovery = "found" /\ render = "waiting"
    /\ left' = {} /\ dist' = dist
    /\ render' = "names" /\ names' = Names
    /\ UNCHANGED <<discoveryVars, unit, at, noDir>>

\* os.RemoveAll, whose error is ignored, removes any of the directories.
StartRender ==
    /\ discovery = "found" /\ render = "waiting"
    /\ left' \in SUBSET Earlier
    /\ dist' = [p \in left' |-> OldFiles]
    /\ render' \in {"names", "failed"}
    /\ names' = Names
    /\ UNCHANGED <<discoveryVars, unit, at, noDir>>

\* ImagesByName is visited in any order.
StartName(n) ==
    /\ render = "names"
    /\ n \in names
    /\ names' = names \ {n}
    /\ unit' = [u \in Units |->
                  IF u \in Bases /\ u[1] \in images /\ Name(u[1]) = n THEN "running" ELSE unit[u]]
    /\ UNCHANGED <<discoveryVars, dist, left, render, at, noDir>>

NameDirFails ==
    /\ render = "names" /\ names # {}
    /\ noDir' = TRUE
    /\ render' = "failed"
    /\ UNCHANGED <<discoveryVars, dist, left, names, unit, at>>

\* One step of a goroutine; after its last one, a base starts its variants.
Do(u) ==
    /\ unit[u] = "running"
    /\ LET p == Path(u)
           last == at[u] = Len(Steps(u))
           begun == IF last /\ ~ IsVariant(u)
                    THEN {<<u[1], u[2], s>> : s \in Variants[u[1]]} ELSE {}
       IN  /\ dist' = [q \in DOMAIN dist \cup {p} |->
                         IF q = p THEN After(Steps(u)[at[u]], u, Files(p)) ELSE dist[q]]
           /\ at' = [at EXCEPT ![u] = IF last THEN @ ELSE @ + 1]
           /\ unit' = [v \in Units |-> IF v = u /\ last THEN "done"
                                       ELSE IF v \in begun THEN "running" ELSE unit[v]]
    /\ UNCHANGED <<discoveryVars, left, render, names, noDir>>

\* A template, a copy or a write fails. The other goroutines go on.
Fail(u) ==
    /\ unit[u] = "running"
    /\ unit' = [unit EXCEPT ![u] = "failed"]
    /\ UNCHANGED <<discoveryVars, dist, left, render, names, at, noDir>>

\* eg.Wait, of the names and of the units of each.
EndRender ==
    /\ render = "names" /\ names = {}
    /\ \A u \in Units : unit[u] # "running"
    /\ render' = IF \E u \in Units : unit[u] = "failed" THEN "failed" ELSE "ok"
    /\ UNCHANGED <<discoveryVars, dist, left, names, unit, at, noDir>>

\* ch exits.
Exit ==
    /\ discovery = "failed" \/ render \in {"ok", "failed"}
    /\ UNCHANGED vars

Next ==
    \/ DiscoveryNext /\ UNCHANGED rendering
    \/ StartRender
    \/ \E c \in images : StartName(Name(c))
    \/ NameDirFails
    \/ \E u \in Units : Do(u) \/ Fail(u)
    \/ EndRender
    \/ Exit

Spec == Init /\ [][Next]_vars
-----------------------------------------------------------------------------
TypeOK ==
    /\ DiscoveryTypeOK
    /\ \A p \in DOMAIN dist :
          /\ p \in left \/ \E u \in Units : u[1] \in images /\ p = Path(u)
          /\ DOMAIN dist[p] = DOMAIN NoFiles
    /\ left \subseteq Earlier /\ noDir \in BOOLEAN
    /\ render \in {"waiting", "names", "ok", "failed"}
    /\ names \subseteq Names
    /\ unit \in [Units -> {"none", "running", "done", "failed"}]
    /\ at \in [Units -> 1 .. 6]

\* Once RenderProject has returned nobody writes to dist/, so that what runs
\* next reads what was rendered. Only a directory of a name that cannot be
\* created makes it return without waiting.
RenderIsQuiet ==
    (render \in {"ok", "failed"} /\ ~ noDir) => \A u \in Units : unit[u] # "running"

\* What holds of the goroutines of both phases, in every step.
GenerateInvariant ==
    /\ TypeOK
    /\ DiscoveryIsQuiet
    /\ DiscoveryIsExact
    /\ RenderIsQuiet

\* The directory a unit is rendered to when nobody else writes to it: the rootfs of
\* a variant lies over that of its base, which lies over that of an earlier
\* rendering, and its parent is known.
Rendered(u) ==
    LET old == Before(Path(u)).rootfs
        base == IF <<u[1], "">> \in WithRootfs THEN Append(old, <<u[1], "">>) ELSE old
    IN  [entrypoint |-> {<<u, TRUE>>},
         rootfs |-> IF IsVariant(u) /\ <<u[1], u[3]>> \in WithRootfs
                    THEN Append(base, <<u[1], u[3]>>) ELSE base,
         tests |-> {u}]

\* When ch generate succeeds, dist/ holds every unit of every image config that
\* is not hidden, each as its own definition says, and nothing else but what
\* RemoveAll left of an earlier rendering: directories that are no unit any more,
\* and, in that of a unit, files of a rootfs, under those of the unit. Provided that
\* no two units have the same path and nobody interrupted the discovery.
GeneratedIsComplete ==
    LET visible == {u \in Units : u[1] \in Visible}
        apart == \A u, v \in visible : Path(u) = Path(v) => u = v
    IN  (render = "ok" /\ ~ interrupted /\ apart) =>
            /\ \A u \in visible : Path(u) \in DOMAIN dist /\ dist[Path(u)] = Rendered(u)
            /\ DOMAIN dist = {Path(u) : u \in visible} \cup left
=============================================================================
