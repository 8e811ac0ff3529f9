------------------------------ MODULE Backends ------------------------------
(***************************************************************************)
(* The two backends without a Dockerfile. Several builds run on one daemon *)
(* at a time; RunBuild of each resolves its inputs, has the daemon run one *)
(* script, and attaches the configuration of the image to the result. The  *)
(* script of a chisel build works on a git checkout of the release in a    *)
(* cache mount that outlives it, and may be killed anywhere; a step of it  *)
(* that fails ends it (sh -e). The daemon does not run a script again that *)
(* it has run with the same inputs, as long as it keeps the result.        *)
(*                                                                         *)
(* A file tree is a function from the names at its top to directories,     *)
(* themselves functions from files to who put them there, and links.       *)
(***************************************************************************)
EXTENDS Integers, FiniteSets, Functions

CONSTANTS
    Builds,
    Contexts,   \* Contexts[b]: [backend, repo, ref, cache, platform, pin, shipped, parent,
                \*               output, builder, static, closure, env, parentEnv]
    Sessions,   \* sets of builds that run on the daemon at the same time
    Repos, Refs,
    MaxCommits  \* bound: commits of a branch

Mixed == -1         \* a worktree in the middle of a checkout
NoVersion == "none" \* no pin, or no chisel in the builder image
NoTree == << >>

VARIABLES
    remote,     \* remote[repo][ref]: the newest commit, numbered from 1
    online,
    holder,     \* the build that holds the cache mount, a set of at most one
    checkouts,  \* checkouts[dir]: [git, refs, tree, locks]
    debs,       \* release directories whose packages have been downloaded
    phase,      \* phase[b]
    tool,       \* tool[b]: the chisel that runs
    asked,      \* history, asked[b]: commit of the release when b began
    begun,      \* history, begun[b]: the same when its script began, 0 if it did not
    got,        \* got[b]: commit that chisel cut
    out,        \* out[b]: the file tree of the image
    env,        \* env[b]: its environment
    cause,      \* cause[b]: why b failed
    hurt        \* history: directories in which a script was killed at git

environment == <<remote, online>>
cacheMount == <<holder, checkouts, debs>>
image == <<got, out, env>>
history == <<asked, begun, cause, hurt>>
vars == <<environment, cacheMount, phase, tool, image, history>>

Chisel == {b \in Builds : Contexts[b].backend = "chisel"}

\* checkoutDir hashes both; a build without cache clones into its own /tmp.
checkoutDir(b) ==
    [repo |-> Contexts[b].repo, ref |-> Contexts[b].ref,
     of |-> IF Contexts[b].cache THEN "cache" ELSE b]
Dirs == {checkoutDir(b) : b \in Chisel}

NoClone == [git |-> "none", refs |-> [r \in Refs |-> 0], tree |-> 0, locks |-> {}]

Start(running) ==
    /\ remote = [p \in Repos |-> [r \in Refs |-> 1]]
    /\ online \in BOOLEAN
    /\ holder = {}
    /\ checkouts = [d \in Dirs |-> NoClone]
    /\ debs = {}
    /\ phase = [b \in Builds |-> IF b \in running THEN "resolve" ELSE "none"]
    /\ tool = [b \in Builds |-> NoVersion]
    /\ asked = [b \in Builds |-> 0]
    /\ begun = [b \in Builds |-> 0]
    /\ got = [b \in Builds |-> 0]
    /\ out = [b \in Builds |-> NoTree]
    /\ env = [b \in Builds |-> NoTree]
    /\ cause = [b \in Builds |-> "none"]
    /\ hurt = {}

Init == \E running \in Sessions : Start(running)
-----------------------------------------------------------------------------
\* Releases get commits, and the network comes and goes.
Commit(p, r) ==
    /\ remote[p][r] < MaxCommits
    /\ remote' = [remote EXCEPT ![p][r] = @ + 1]
    /\ UNCHANGED <<online, cacheMount, phase, tool, image, history>>

Network ==
    /\ online' = ~ online
    /\ UNCHANGED <<remote, cacheMount, phase, tool, image, history>>

At(b, p) == phase[b] = p
Go(b, p) == phase' = [phase EXCEPT ![b] = p]
Fail(b, why) ==
    /\ Go(b, "failed")
    /\ cause' = [cause EXCEPT ![b] = why]
    /\ holder' = holder \ {b}
    /\ UNCHANGED <<begun, hurt>>
Abort(b, why) == Fail(b, why) /\ UNCHANGED asked

Newest(b) == remote[Contexts[b].repo][Contexts[b].ref]

\* The platforms each backend knows; chisel publishes no tool for linux/386.
Supported(b) == Contexts[b].platform \in
    IF b \in Chisel THEN {"amd64", "arm64", "arm/v7"}
    ELSE {"amd64", "arm64", "arm/v7", "arm/v6", "386"}

needsChiselDownload(b) ==
    \/ Contexts[b].shipped = NoVersion
    \/ Contexts[b].pin # NoVersion /\ Contexts[b].pin # Contexts[b].shipped

\* Mutated form: a chisel that is there is used.
ToolThatIsThere(b) ==
    IF Contexts[b].shipped # NoVersion THEN Contexts[b].shipped
    ELSE IF Contexts[b].pin = NoVersion THEN "default" ELSE Contexts[b].pin

Tool(b) == IF needsChiselDownload(b)
           THEN IF Contexts[b].pin = NoVersion THEN "default" ELSE Contexts[b].pin
           ELSE Contexts[b].shipped

\* RunBuild up to client.Solve. The images are resolved by the daemon.
Resolve(b) ==
    /\ At(b, "resolve")
    /\ asked' = [asked EXCEPT ![b] = Newest(b)]
    /\ IF Supported(b)
       THEN \/ /\ Go(b, "solve")
               /\ tool' = [tool EXCEPT ![b] = IF b \in Chisel THEN Tool(b) ELSE NoVersion]
               /\ UNCHANGED <<holder, begun, cause, hurt>>
            \/ ~ online /\ Fail(b, "network") /\ UNCHANGED tool
       ELSE Fail(b, "platform") /\ UNCHANGED tool
    /\ UNCHANGED <<environment, checkouts, debs, image>>

\* The key of the script is made of the digest of the builder image, the script
\* itself and the context, which is cacheable across sessions.
CacheHit(b) ==
    /\ At(b, "solve")
    /\ \E a \in Builds \ {b} :
          /\ Contexts[a] = Contexts[b] /\ phase[a] \in {"export", "built"}
          /\ got' = [got EXCEPT ![b] = got[a]]
          /\ out' = [out EXCEPT ![b] = out[a]]
    /\ Go(b, "export")
    /\ UNCHANGED <<environment, cacheMount, tool, env, history>>

\* Mutated form: CacheMountShared.
MountShared(b) ==
    /\ At(b, "solve") /\ b \in Chisel
    /\ Go(b, "clone")
    /\ begun' = [begun EXCEPT ![b] = Newest(b)]
    /\ UNCHANGED <<environment, cacheMount, tool, image, asked, cause, hurt>>

\* The script starts once it has the cache mount (CacheMountLocked).
Mount(b) ==
    /\ At(b, "solve") /\ b \in Chisel
    /\ Contexts[b].cache => holder = {}
    /\ holder' = IF Contexts[b].cache THEN {b} ELSE holder
    /\ Go(b, "clone")
    /\ begun' = [begun EXCEPT ![b] = Newest(b)]
    /\ UNCHANGED <<environment, checkouts, debs, tool, image, asked, cause, hurt>>

\* The checkout and the release of build b.
Checkout(b) == checkouts[checkoutDir(b)]
Keep(b, c) == checkouts' = [checkouts EXCEPT ![checkoutDir(b)] = c]

\* `[ -d .git ]` skips the clone; git clone makes the directory first, fills it
\* last, and removes it again when the remote does not answer.
Clone(b) ==
    /\ At(b, "clone")
    /\ IF Checkout(b).git = "none"
       THEN Go(b, "cloning") /\ Keep(b, [Checkout(b) EXCEPT !.git = "partial"])
       ELSE Go(b, "fetch") /\ UNCHANGED checkouts
    /\ UNCHANGED <<environment, holder, debs, tool, image, history>>

CloneEnds(b) ==
    /\ At(b, "cloning")
    /\ IF online
       THEN /\ Keep(b, [Checkout(b) EXCEPT !.git = "whole", !.refs = remote[Contexts[b].repo]])
            /\ Go(b, IF Contexts[b].cache THEN "fetch" ELSE "checkout")
            /\ UNCHANGED <<holder, history>>
       ELSE Keep(b, NoClone) /\ Abort(b, "network")
    /\ UNCHANGED <<environment, debs, tool, image>>

\* Mutated form: a clone that is there is used as it is.
FetchSkipped(b) ==
    /\ At(b, "fetch")
    /\ Go(b, "checkout")
    /\ UNCHANGED <<environment, cacheMount, tool, image, history>>

\* fetch --force --prune --tags
Fetch(b) ==
    /\ At(b, "fetch")
    /\ IF Checkout(b).git # "whole" THEN Abort(b, "clone") /\ UNCHANGED checkouts
       ELSE IF online /\ "refs" \in Checkout(b).locks
               /\ Checkout(b).refs # remote[Contexts[b].repo]
       THEN Abort(b, "lock") /\ UNCHANGED checkouts
       ELSE IF ~ online THEN Abort(b, "network") /\ UNCHANGED checkouts
       ELSE /\ Keep(b, [Checkout(b) EXCEPT !.refs = remote[Contexts[b].repo]])
            /\ Go(b, "checkout")
            /\ UNCHANGED <<holder, history>>
    /\ UNCHANGED <<environment, debs, tool, image>>

\* checkout --force --detach takes index.lock while it rewrites the worktree.
CheckoutStarts(b) ==
    /\ At(b, "checkout")
    /\ IF "index" \in Checkout(b).locks
       THEN Abort(b, "lock") /\ UNCHANGED checkouts
       ELSE /\ Keep(b, [Checkout(b) EXCEPT !.tree = Mixed, !.locks = @ \cup {"index"}])
            /\ Go(b, "checking out")
            /\ UNCHANGED <<holder, history>>
    /\ UNCHANGED <<environment, debs, tool, image>>

CheckoutEnds(b) ==
    /\ At(b, "checking out")
    /\ Keep(b, [Checkout(b) EXCEPT !.tree = Checkout(b).refs[Contexts[b].ref],
                                   !.locks = @ \ {"index"}])
    /\ Go(b, "cut")
    /\ UNCHANGED <<environment, holder, debs, tool, image, history>>

\* chisel cut reads the release and downloads the packages it does not have.
Cut(b) ==
    /\ At(b, "cut")
    /\ got' = [got EXCEPT ![b] = Checkout(b).tree]
    /\ IF online \/ checkoutDir(b) \in debs
       THEN /\ Go(b, "assemble")
            /\ debs' = IF Contexts[b].cache THEN debs \cup {checkoutDir(b)} ELSE debs
            /\ UNCHANGED <<holder, history>>
       ELSE Abort(b, "network") /\ UNCHANGED debs
    /\ UNCHANGED <<environment, checkouts, tool, out, env>>

\* The nix store cache is best effort: without network the inputs of the flake
\* may or may not be in the store.
NixBuild(b) ==
    /\ At(b, "solve") /\ b \notin Chisel
    /\ \/ Go(b, "assemble") /\ UNCHANGED <<holder, history>>
       \/ ~ online /\ Abort(b, "network")
    /\ UNCHANGED <<environment, checkouts, debs, tool, image>>

\* The daemon or the container of the script is killed. What git was doing
\* stays half done.
Kill(b) ==
    /\ phase[b] \in {"clone", "cloning", "fetch", "checkout", "checking out", "cut"}
    /\ Go(b, "killed")
    /\ holder' = holder \ {b}
    /\ hurt' = hurt \cup (IF phase[b] \in {"cloning", "fetch", "checking out"}
                           THEN {checkoutDir(b)} ELSE {})
    /\ \/ UNCHANGED checkouts
       \/ At(b, "fetch") /\ Keep(b, [Checkout(b) EXCEPT !.locks = @ \cup {"refs"}])
    /\ UNCHANGED <<environment, debs, tool, image, asked, begun, cause>>
-----------------------------------------------------------------------------
(* Assembling the root file system: the parent, then the output of the     *)
(* build, then the static files of a chisel build, or the closure that nix *)
(* copies to the store of the image. At the top of a tree, "nixstore" is   *)
(* /nix/store and "nix" is the rest of /nix. `cp -a` merges a directory    *)
(* into a directory, puts a file or link over a file or link, and refuses  *)
(* to replace one kind by the other; `cp -RL`, of a nix build, copies what *)
(* a link leads to, and fails where that is nothing.                       *)

IsLink(e) == "link" \in DOMAIN e
Over(e, f) == IF IsLink(e) THEN e ELSE [x \in DOMAIN e \cup DOMAIN f |->
                                           IF x \in DOMAIN e THEN e[x] ELSE f[x]]
Clash(upper, lower) ==
    \E n \in DOMAIN upper \cap DOMAIN lower : IsLink(upper[n]) # IsLink(lower[n])
Copy(upper, lower) ==
    [n \in DOMAIN upper \cup DOMAIN lower |->
        IF n \notin DOMAIN lower THEN upper[n]
        ELSE IF n \notin DOMAIN upper THEN lower[n]
        ELSE Over(upper[n], lower[n])]

\* `[ -d ]` of a name: a directory, or a link to one of the same tree.
IsDirectory(t, n) ==
    ~ IsLink(t[n]) \/ (t[n]["link"] \in DOMAIN t /\ ~ IsLink(t[t[n]["link"]]))
Listing(t, n) == IF IsLink(t[n]) THEN t[t[n]["link"]] ELSE t[n]

\* The output as the script sees it, where a link may lead into the file system of
\* the builder image (its nix store, for one).
Seen(b) ==
    LET output == Contexts[b].output
        builder == Contexts[b].builder
    IN  [n \in DOMAIN output \cup DOMAIN builder |->
            IF n \in DOMAIN output THEN output[n] ELSE builder[n]]

\* Mutated form: all of the parent is laid.
LaidWhole(b) == Contexts[b].parent

\* Of the parent's /nix only the store is kept.
Laid(b) == Restrict(Contexts[b].parent, DOMAIN Contexts[b].parent \ {"nix"})

\* A directory of the output that meets a link of the parent merges into what
\* the link points to, together with all others that do.
Redirected(b) ==
    {n \in DOMAIN Contexts[b].output \cap DOMAIN Laid(b) :
        IsLink(Laid(b)[n]) /\ IsDirectory(Seen(b), n)}
Moved(b) ==
    LET into(m) == {k \in Redirected(b) : Laid(b)[k]["link"] = m}
    IN  [m \in {Laid(b)[k]["link"] : k \in Redirected(b)} |->
            [f \in UNION {DOMAIN Listing(Seen(b), k) : k \in into(m)} |->
                Listing(Seen(b), CHOOSE k \in into(m) : f \in DOMAIN Listing(Seen(b), k))[f]]]
Under(b) == Copy(Moved(b), Laid(b))

\* Mutated form: a nix build keeps links.
LinkKept(b, n) == Contexts[b].output[n]

Entry(b, n) == IF b \in Chisel THEN Contexts[b].output[n] ELSE Listing(Seen(b), n)
Staying(b) == [n \in DOMAIN Contexts[b].output \ Redirected(b) |-> Entry(b, n)]
Merged(b) == Copy(Staying(b), Under(b))

\* Mutated form: static files are laid over every build.
LastStatic(b) == Contexts[b].static

Last(b) == IF b \in Chisel THEN Contexts[b].static ELSE Contexts[b].closure

\* Mutated form: the parent is laid over the output.
AssembledUpsideDown(b) == Copy(Last(b), Copy(Laid(b), Contexts[b].output))

Assembled(b) == Copy(Last(b), Merged(b))

\* The copies of a nix build put directories in place of directories only, so they
\* do not clash; they fail where a link leads to nothing.
LeadsNowhere(b) ==
    b \notin Chisel /\ \E n \in DOMAIN Contexts[b].output : ~ IsDirectory(Seen(b), n)
AssemblyFails(b) ==
    LeadsNowhere(b) \/ Clash(Staying(b), Under(b)) \/ Clash(Last(b), Merged(b))

Assemble(b) ==
    /\ At(b, "assemble")
    /\ IF AssemblyFails(b) THEN Abort(b, "overlay") /\ UNCHANGED out
       ELSE /\ out' = [out EXCEPT ![b] = Assembled(b)]
            /\ Go(b, "export")
            /\ holder' = holder \ {b}
            /\ UNCHANGED history
    /\ UNCHANGED <<environment, checkouts, debs, tool, got, env>>

\* exportImageConfig: the config block on top of what the parent image has.
Export(b) ==
    /\ At(b, "export")
    /\ env' = [env EXCEPT ![b] = Over(Contexts[b].env, Contexts[b].parentEnv)]
    /\ Go(b, "built")
    /\ UNCHANGED <<environment, cacheMount, tool, got, out, history>>

Build(b) ==
    \/ Resolve(b) \/ CacheHit(b) \/ Mount(b) \/ Clone(b) \/ CloneEnds(b) \/ Fetch(b)
    \/ CheckoutStarts(b) \/ CheckoutEnds(b) \/ Cut(b) \/ NixBuild(b)
    \/ Assemble(b) \/ Export(b)

Ended == \A b \in Builds : phase[b] \in {"none", "built", "failed", "killed"}

Step ==
    \/ ~ Ended /\ (Network \/ \E p \in Repos, r \in Refs : Commit(p, r))
    \/ \E b \in Builds : Build(b) \/ Kill(b)

Next == Step \/ (Ended /\ UNCHANGED vars)

Spec == Init /\ [][Next]_vars
-----------------------------------------------------------------------------
Phases == {"none", "resolve", "solve", "clone", "cloning", "fetch", "checkout", "checking out",
           "cut", "assemble", "export", "built", "failed", "killed"}

TypeOK ==
    /\ remote \in [Repos -> [Refs -> 1 .. MaxCommits]] /\ online \in BOOLEAN
    /\ holder \subseteq Builds /\ Cardinality(holder) <= 1
    /\ checkouts \in [Dirs -> [git : {"none", "partial", "whole"}, refs : [Refs -> Nat],
                              tree : Nat \cup {Mixed}, locks : SUBSET {"index", "refs"}]]
    /\ debs \subseteq Dirs /\ hurt \subseteq Dirs
    /\ phase \in [Builds -> Phases]

\* A cut is made of one commit of its release, one that was the newest at some
\* moment since its script began, and with the chisel that is pinned. Other
\* builds on the daemon, of this release or another one, do not matter.
CutIsOneCommit ==
    \A b \in Chisel : phase[b] = "built" =>
        /\ got[b] # Mixed /\ begun[b] <= got[b] /\ got[b] \in 1 .. Newest(b)
        /\ Contexts[b].pin # NoVersion => tool[b] = Contexts[b].pin

\* What git leaves behind when it is killed breaks later builds, but only those
\* of the very release, in the cache it was killed in.
FailureStaysInRelease ==
    \A b \in Chisel : phase[b] = "failed" /\ cause[b] \in {"clone", "lock"} =>
        Contexts[b].cache /\ checkoutDir(b) \in hurt

\* The layers of an image, from below. A rootfs directory beside a flake is no layer
\* (docs/usage/nix.md:77-78).
Layers(b) ==
    IF Contexts[b].backend = "chisel"
    THEN <<Contexts[b].parent, Contexts[b].output, Contexts[b].static>>
    ELSE <<Contexts[b].parent, Contexts[b].output, Contexts[b].closure>>
Label(b) ==
    <<"parent", "output", IF Contexts[b].backend = "chisel" THEN "static" ELSE "closure">>

\* The trees of a context: a file says which layer it is of, a link of the parent or
\* of the output leads to a directory if to anything, and nix copies its closure to
\* /nix, where the parent has no link.
LayersFit(b) ==
    LET parent == Contexts[b].parent
        closure == Contexts[b].closure
    IN  /\ \A k \in 1 .. 3 : \A n \in DOMAIN Layers(b)[k] : \A f \in DOMAIN Layers(b)[k][n] :
              IsLink(Layers(b)[k][n]) \/ Layers(b)[k][n][f] = Label(b)[k]
        /\ \A n \in DOMAIN Contexts[b].builder : \A f \in DOMAIN Contexts[b].builder[n] :
              f # "link" /\ Contexts[b].builder[n][f] = "output"
        /\ \A t \in {parent, Seen(b)} : \A n \in DOMAIN t :
              IsLink(t[n]) /\ t[n]["link"] \in DOMAIN t => ~ IsLink(t[t[n]["link"]])
        /\ \A n \in DOMAIN closure : n \in {"nix", "nixstore"} /\ ~ IsLink(closure[n])
        /\ "nixstore" \in DOMAIN parent => ~ IsLink(parent["nixstore"])

\* Every file of the layers is found in the image, in the directory the parent has
\* by that name or points to, unless a layer above has that file; and the image has
\* no other files. A chisel image keeps the links of its output, and a nix image has
\* the files they lead to.
MeetsLink(b, n) ==
    n \in DOMAIN Contexts[b].parent \ {"nix"} /\ IsLink(Contexts[b].parent[n])
Place(b, n) == IF MeetsLink(b, n) THEN Contexts[b].parent[n]["link"] ELSE n
Brings(b, k) ==
    {n \in DOMAIN Layers(b)[k] :
        /\ k = 1 => n # "nix"
        /\ \/ ~ IsLink(Layers(b)[k][n])
           \/ k = 2 /\ Contexts[b].backend # "chisel"
           \/ k = 2 /\ MeetsLink(b, n) /\ IsDirectory(Seen(b), n)}
FilesOf(b, k, n) == DOMAIN Listing(IF k = 2 THEN Seen(b) ELSE Layers(b)[k], n)
Has(b, k, p, f) == \E n \in Brings(b, k) : Place(b, n) = p /\ f \in FilesOf(b, k, n)
Holds(t, p, f, label) == p \in DOMAIN t /\ f \in DOMAIN t[p] /\ t[p][f] = label
IsLayered(b, t) ==
    /\ \A k \in 1 .. 3 : \A n \in Brings(b, k) : \A f \in FilesOf(b, k, n) :
          \/ Holds(t, Place(b, n), f, Label(b)[k])
          \/ \E j \in (k + 1) .. 3 : Has(b, j, Place(b, n), f)
    /\ \A p \in DOMAIN t : ~ IsLink(t[p]) =>
          \A f \in DOMAIN t[p] : \E k \in 1 .. 3 : Has(b, k, p, f)
ImageIsLayered ==
    \A b \in Builds : phase[b] = "built" =>
        /\ IsLayered(b, out[b])
        /\ \A v \in DOMAIN Contexts[b].env : env[b][v] = Contexts[b].env[v]

CutsAreSound == TypeOK /\ CutIsOneCommit /\ ImageIsLayered

\* docs/usage/chisel.md:66-67, of a release that names a branch: "The build
\* tracks the branch head".
TracksBranchHead ==
    \A b \in Chisel : phase[b] = "built" => asked[b] <= got[b]

\* docs/usage/chisel.md:82: the git path works offline once the clone and the
\* deb cache are warm.
CutsOffline ==
    \A b \in Chisel :
        phase[b] = "failed" /\ cause[b] = "network" /\ begun[b] # 0 =>
            checkoutDir(b) \notin debs
=============================================================================
