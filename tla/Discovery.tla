----------------------------- MODULE Discovery -----------------------------
(***************************************************************************)
(* discoverImages: a walker sends the image configs below images/ over an  *)
(* unbuffered channel to a dispatcher, which starts a worker for each. All *)
(* of them are goroutines of one errgroup, whose context the first error   *)
(* cancels; so does an interrupt of ch.                                    *)
(***************************************************************************)
EXTENDS Naturals, Sequences, FiniteSets, Functions

CONSTANTS
    Root,        \* the images directory
    RootfsDirs,  \* directories named rootfs
    Configs,     \* files named image.yaml or image.yml
    Trees,       \* each maps a directory to its entries in lexical order
    Variants,    \* Variants[c]: the tag suffixes of the variants of config c
    Definitions  \* each maps a config to whether it parses, and to what the
                 \* directory of the base and those of the variants hold

Backends == {"dockerfile", "nix", "chisel"}
Source == [build : Backends \cup {"", "unknown"}, files : SUBSET Backends]

\* An entry is in one directory, once; a config is no directory, the images
\* directory is in no other one.
ASSUME DiscoveryAssumption ==
    /\ \A t \in Trees :
          /\ Root \in DOMAIN t /\ Configs \cap DOMAIN t = {}
          /\ \A d \in DOMAIN t : t[d] \in Seq(Range(t[d])) /\ Root \notin Range(t[d])
          /\ \A d, o \in DOMAIN t : \A i \in DOMAIN t[d], j \in DOMAIN t[o] :
                t[d][i] = t[o][j] => d = o /\ i = j
    /\ Configs \cap RootfsDirs = {}
    /\ Definitions \subseteq
          [Configs -> [parses : BOOLEAN, base : Source, variant : Source]]

VARIABLES
    tree, definition,          \* the project
    unreadable,                \* directories that cannot be listed
    walker, stack,             \* the walk: what is left of every directory it is in
    dispatcher, inbox,         \* the config the dispatcher has just received
    worker,                    \* worker[c]: the goroutine that processes config c
    images,                    \* the configs of the result map, keyed by directory
    failed,                    \* a goroutine of the group returned an error
    interrupted,               \* ch received SIGINT
    discovery                  \* whether eg.Wait has returned, and what

project == <<tree, definition, unreadable>>
walk == <<walker, stack>>
dispatch == <<dispatcher, inbox>>
group == <<failed, interrupted, discovery>>
discoveryVars == <<project, walk, dispatch, worker, images, group>>

Dirs == DOMAIN tree
Entries(t) == UNION {Range(t[d]) : d \in DOMAIN t}
ParentDirs == [t \in Trees |->
    [e \in Entries(t) |-> CHOOSE d \in DOMAIN t : e \in Range(t[d])]]
DirOf(e) == ParentDirs[tree][e]

DiscoveryInit ==
    /\ tree \in Trees
    /\ definition \in Definitions
    /\ unreadable \in {{}} \cup {{d} : d \in Dirs}
    /\ walker = "walk"
    /\ stack = << <<Root>> >>
    /\ dispatcher = "receive"
    /\ inbox = {}
    /\ worker = [c \in Configs |-> "none"]
    /\ images = {}
    /\ failed = FALSE
    /\ interrupted = FALSE
    /\ discovery = "running"

Cancelled == failed \/ interrupted
-----------------------------------------------------------------------------
Current == Head(Head(stack))
Skip == <<Tail(Head(stack))>> \o Tail(stack)    \* on to the next entry
SkipDir == Tail(stack)                          \* leave the rest of the directory

Visiting(e) ==
    /\ walker = "walk"
    /\ stack # <<>> /\ Head(stack) # <<>>
    /\ e = Current

\* SkipDir for a directory: the walk does not go into it.
VisitDir ==
    \E e \in Dirs :
        /\ Visiting(e)
        /\ IF Cancelled \/ e \in RootfsDirs
           THEN stack' = Skip /\ UNCHANGED walker
           ELSE walker' = "list" /\ UNCHANGED stack
        /\ UNCHANGED <<project, dispatch, worker, images, group>>

\* A directory that cannot be read ends the walk, unless it is cancelled.
ListDir ==
    /\ walker = "list"
    /\ IF Current \notin unreadable
       THEN stack' = <<tree[Current]>> \o Skip /\ walker' = "walk"
       ELSE IF Cancelled
            THEN stack' = Skip /\ walker' = "walk"
            ELSE stack' = <<>> /\ walker' = "error"
    /\ UNCHANGED <<project, dispatch, worker, images, group>>

\* SkipDir for a file: the walk leaves the directory the file is in.
VisitFile ==
    \E e \in Entries(tree) \ Dirs :
        /\ Visiting(e)
        /\ IF Cancelled
           THEN stack' = SkipDir /\ UNCHANGED walker
           ELSE IF e \in Configs
                THEN walker' = "send" /\ UNCHANGED stack
                ELSE stack' = Skip /\ UNCHANGED walker
        /\ UNCHANGED <<project, dispatch, worker, images, group>>

LeaveDir ==
    /\ walker = "walk"
    /\ stack # <<>> /\ Head(stack) = <<>>
    /\ stack' = SkipDir
    /\ UNCHANGED <<project, walker, dispatch, worker, images, group>>

\* The walker closes the channel, and returns.
EndWalk ==
    /\ walker \in {"walk", "error"} /\ stack = <<>>
    /\ walker' = "closed"
    /\ failed' = (failed \/ walker = "error")
    /\ UNCHANGED <<project, stack, dispatch, worker, images, interrupted, discovery>>

\* The channel has no buffer: the walker waits for the dispatcher, and goes on
\* with SkipDir.
Receive ==
    /\ walker = "send" /\ dispatcher = "receive"
    /\ inbox' = {Current}
    /\ dispatcher' = "start"
    /\ stack' = SkipDir
    /\ walker' = "walk"
    /\ UNCHANGED <<project, worker, images, group>>

StartWorker ==
    /\ dispatcher = "start"
    /\ worker' = [c \in Configs |-> IF c \in inbox THEN "parse" ELSE worker[c]]
    /\ inbox' = {}
    /\ dispatcher' = "receive"
    /\ UNCHANGED <<project, walk, images, group>>

EndDispatch ==
    /\ dispatcher = "receive" /\ walker = "closed"
    /\ dispatcher' = "done"
    /\ UNCHANGED <<project, walk, inbox, worker, images, group>>

\* resolveBuildEntrypoint: the backend of a directory, or none if that is an
\* error. A named backend needs its file; otherwise a flake goes before a
\* Dockerfile, and a cut spec has to be alone.
Entrypoint(src) ==
    IF src.build # "" THEN {src.build} \cap src.files
    ELSE IF "chisel" \in src.files /\ src.files # {"chisel"} THEN {}
    ELSE IF "nix" \in src.files THEN {"nix"}
    ELSE src.files

\* processImageConfig succeeds.
Valid(c) ==
    /\ definition[c].parses
    /\ Entrypoint(definition[c].base) # {}
    /\ Variants[c] # {} => Entrypoint(definition[c].variant) # {}

Parse(c) ==
    /\ worker[c] = "parse"
    /\ worker' = [worker EXCEPT ![c] = IF Valid(c) THEN "store" ELSE "done"]
    /\ failed' = (failed \/ ~ Valid(c))
    /\ UNCHANGED <<project, walk, dispatch, images, interrupted, discovery>>

Store(c) ==
    /\ worker[c] = "store"
    /\ worker' = [worker EXCEPT ![c] = "done"]
    /\ images' = {x \in images : DirOf(x) # DirOf(c)} \cup {c}
    /\ UNCHANGED <<project, walk, dispatch, group>>

\* Mutated form: the workers do not belong to the group.
WaitIgnoringWorkers ==
    /\ discovery = "running"
    /\ walker = "closed" /\ dispatcher = "done"
    /\ discovery' = IF failed THEN "failed" ELSE "found"
    /\ UNCHANGED <<project, walk, dispatch, worker, images, failed, interrupted>>

\* eg.Wait: an interrupt is no error of any goroutine.
Wait ==
    /\ discovery = "running"
    /\ walker = "closed" /\ dispatcher = "done"
    /\ \A c \in Configs : worker[c] \in {"none", "done"}
    /\ discovery' = IF failed THEN "failed" ELSE "found"
    /\ UNCHANGED <<project, walk, dispatch, worker, images, failed, interrupted>>

Interrupt ==
    /\ discovery = "running" /\ ~ interrupted
    /\ interrupted' = TRUE
    /\ UNCHANGED <<project, walk, dispatch, worker, images, failed, discovery>>

DiscoveryNext ==
    \/ VisitDir \/ ListDir \/ VisitFile \/ LeaveDir \/ EndWalk
    \/ Receive \/ StartWorker \/ EndDispatch
    \/ \E c \in Configs : Parse(c) \/ Store(c)
    \/ Wait
    \/ Interrupt
-----------------------------------------------------------------------------
\* The name of an image: its directory below images/, or the directory above
\* that one when it is nested.
Name(c) ==
    LET d == DirOf(c)
    IN  IF d = Root \/ DirOf(d) = Root THEN d ELSE DirOf(d)

\* An entry of a tree with the directories it is in: the least set that holds
\* the entry and, with what a directory lists, the directory.
Chain(t, e) ==
    LET Above(S) == \A d \in DOMAIN t : Range(t[d]) \cap S # {} => d \in S
        all == DOMAIN t \cup {e}
    IN  {x \in all : \A S \in SUBSET all : e \in S /\ Above(S) => x \in S}

\* The configs that define images: those outside of rootfs directories whose
\* branch comes before any other config in each directory above them.
Defining == [t \in Trees |->
    {c \in Configs :
        LET chain == Chain(t, c)
        IN  /\ Root \in chain
            /\ chain \cap RootfsDirs = {}
            /\ \A d \in chain \cap DOMAIN t : \A i \in DOMAIN t[d] :
                  t[d][i] \in chain =>
                      \A j \in 1 .. i - 1 : t[d][j] \notin Configs}]
Visible == Defining[tree]

DiscoveryTypeOK ==
    /\ tree \in Trees /\ definition \in Definitions /\ unreadable \subseteq Dirs
    /\ walker \in {"walk", "list", "send", "error", "closed"}
    /\ dispatcher \in {"receive", "start", "done"}
    /\ inbox \subseteq Configs /\ Cardinality(inbox) <= 1
    /\ worker \in [Configs -> {"none", "parse", "store", "done"}]
    /\ images \subseteq Configs
    /\ failed \in BOOLEAN /\ interrupted \in BOOLEAN
    /\ discovery \in {"running", "found", "failed"}

\* Once discoverImages has returned, none of its goroutines runs, so that nobody
\* reads the map while another one writes it.
DiscoveryIsQuiet ==
    discovery # "running" =>
        /\ walker = "closed" /\ dispatcher = "done"
        /\ \A c \in Configs : worker[c] \in {"none", "done"}

\* Without an error and without an interrupt the map is complete.
DiscoveryIsExact ==
    (discovery = "found" /\ ~ interrupted) =>
        images = Visible /\ \A c \in images : Valid(c)
=============================================================================
