----------------------------- MODULE McpServer -----------------------------
(***************************************************************************)
(* `ch mcp`: a server whose tool calls run concurrently, each in a         *)
(* goroutine of its own (the MCP library starts one per request). Two of   *)
(* the tools edit the project: add_image creates a directory with a        *)
(* Dockerfile and an image.yml, add_image_variant reads the image.yml of   *)
(* an image, appends a variant and writes it back before it creates the    *)
(* directory of the variant. list_images and get_image read what the two   *)
(* have written so far; get_documentation and search_documentation share   *)
(* caches of downloaded pages.                                             *)
(*                                                                         *)
(* os.WriteFile is two steps, the truncation and the write, and another    *)
(* call may come between them.                                             *)
(***************************************************************************)
EXTENDS Naturals, Sequences, FiniteSets, SequencesExt

CONSTANTS
    Calls,      \* the tool calls a client makes, in any order and overlap
    Images,     \* image names
    Existing,   \* those that the project holds at first
    Variants,   \* variant names
    Pages,      \* cache keys: documentation paths
    Workloads,  \* what the calls may be: functions from calls to requests
    MaxDeaths   \* bound: how often the server dies

ASSUME ExistingAssumption == Existing \subseteq Images

ASSUME WorkloadsAssumption ==
    \A w \in Workloads : \A c \in Calls :
        \/ w[c].tool = "add_image" /\ w[c].image \in Images
        \/ w[c].tool = "add_image_variant" /\ w[c].image \in Images /\ w[c].variant \in Variants
        \/ w[c].tool = "list_images"
        \/ w[c].tool = "get_documentation" /\ w[c].page \in Pages

VARIABLES
    request,   \* the request of each call
    step,      \* 0: not made yet; n: at the n-th step of its Program
    opened,    \* the call has truncated the file that it is about to write
    config,    \* what the call has read of image.yml
    answer,    \* "none", "ok", "error", or "lost" with the server
    dirs,      \* directories that exist
    files,     \* files[<<directory, name>>]
    cached,    \* cached[page]: an entry of the lookup cache is "none", "valid", "expired"
    inMap,     \* calls inside of an access to the map of the cache: <<call, kind>>
    mu,        \* calls that hold docCache.mu
    raced,     \* images with two edits at the same time
    torn,      \* images with an edit that failed or died in between
    deaths

calls == <<request, step, opened, config, answer>>
project == <<dirs, files>>
cache == <<cached, inMap, mu>>
vars == <<calls, project, cache, raced, torn, deaths>>

-----------------------------------------------------------------------------
\* A file is absent, empty (truncated), mixed from two writers, or whole: a
\* Dockerfile or an image.yml with the definition it was made for (its base)
\* and the variants listed.
Absent == [state |-> "absent", base |-> "", variants |-> <<>>]
Empty == [state |-> "empty", base |-> "", variants |-> <<>>]
Mixed == [state |-> "mixed", base |-> "", variants |-> <<>>]
Whole(base, variants) == [state |-> "whole", base |-> base, variants |-> variants]

Dockerfile(d) == <<d, "Dockerfile">>
ImageYAML(d) == <<d, "image.yml">>
VariantDir(i, v) == <<i, v>>
Dirs == {<<i>> : i \in Images} \cup {VariantDir(i, v) : i \in Images, v \in Variants}
Files == {Dockerfile(d) : d \in Dirs} \cup {ImageYAML(d) : d \in Dirs}

Req(c) == request[c]
ImageDir(c) == <<Req(c).image>>

\* Mutated form of Program: image.yml is written before the Dockerfile.
ProgramYAMLFirst ==
    [add_image |-> <<"stat", "mkdir", "write image.yml", "write Dockerfile">>,
     add_image_variant |-> <<"read", "write image.yml", "mkdir variant",
                             "write variant Dockerfile", "write variant image.yml">>,
     list_images |-> <<"discover">>,
     get_documentation |-> <<"get", "leave get", "fetch", "set", "leave set">>]

\* The steps of a tool, in the order of the code. "write" steps name the file
\* by its directory (the image's or the variant's) and kind.
Program ==
    [add_image |-> <<"stat", "mkdir", "write Dockerfile", "write image.yml">>,
     add_image_variant |-> <<"read", "write image.yml", "mkdir variant",
                             "write variant Dockerfile", "write variant image.yml">>,
     list_images |-> <<"discover">>,
     get_documentation |-> <<"get", "leave get", "fetch", "set", "leave set">>]

InFlight(c) == step[c] > 0 /\ answer[c] = "none"
At(c, s) == InFlight(c) /\ Program[Req(c).tool][step[c]] = s
Edits(c) == Req(c).tool \in {"add_image", "add_image_variant"}
EditsOf(i) == {c \in Calls : InFlight(c) /\ Edits(c) /\ Req(c).image = i}

Advance(c) ==
    IF step[c] = Len(Program[Req(c).tool])
    THEN answer' = [answer EXCEPT ![c] = "ok"] /\ UNCHANGED step
    ELSE step' = [step EXCEPT ![c] = @ + 1] /\ UNCHANGED answer

Answer(c, a) == answer' = [answer EXCEPT ![c] = a] /\ UNCHANGED step

-----------------------------------------------------------------------------
Init ==
    /\ request \in Workloads
    /\ step = [c \in Calls |-> 0]
    /\ opened = {}
    /\ config = [c \in Calls |-> Absent]
    /\ answer = [c \in Calls |-> "none"]
    /\ dirs = {<<i>> : i \in Existing}
    /\ files = [f \in Files |-> IF f[1] \in dirs THEN Whole(f[1][1], <<>>) ELSE Absent]
    /\ cached = [p \in Pages |-> "none"]
    /\ inMap = {} /\ mu = {}
    /\ raced = {} /\ torn = {}
    /\ deaths = 0

\* The client makes a call; the library starts its handler at once.
Call(c) ==
    /\ step[c] = 0
    /\ step' = [step EXCEPT ![c] = 1]
    /\ raced' = raced \cup {i \in Images : Edits(c) /\ Req(c).image = i /\ EditsOf(i) # {}}
    /\ UNCHANGED <<request, opened, config, answer, project, cache, torn, deaths>>

\* add_image refuses a name whose directory exists, whatever is in it.
StatImage(c) ==
    /\ At(c, "stat")
    /\ IF ImageDir(c) \in dirs THEN Answer(c, "error") ELSE Advance(c)
    /\ UNCHANGED <<request, opened, config, project, cache, raced, torn, deaths>>

TargetDir(c) == IF At(c, "mkdir") THEN ImageDir(c) ELSE VariantDir(Req(c).image, Req(c).variant)

\* MkdirAll succeeds on a directory that exists.
Mkdir(c) ==
    /\ At(c, "mkdir") \/ At(c, "mkdir variant")
    /\ dirs' = dirs \cup {TargetDir(c)}
    /\ Advance(c)
    /\ UNCHANGED <<request, opened, config, files, cache, raced, torn, deaths>>

\* add_image_variant reads and parses image.yml. The parser takes an empty file
\* for an empty definition; a mixed one may be malformed or not.
ReadConfig(c) ==
    /\ At(c, "read")
    /\ LET f == files[ImageYAML(ImageDir(c))]
       IN  \/ /\ f.state \in {"absent", "mixed"}
              /\ Answer(c, "error")
              /\ UNCHANGED config
           \/ /\ f.state # "absent"
              /\ config' = [config EXCEPT ![c] = f]
              /\ Advance(c)
    /\ UNCHANGED <<request, opened, project, cache, raced, torn, deaths>>

\* Mutated form: the variant replaces those that are listed.
WithVariantOnly(c) == Whole(config[c].base, <<Req(c).variant>>)

\* The definition with the variant appended, without a look at those listed.
WithVariant(c) == Whole(config[c].base, Append(config[c].variants, Req(c).variant))

\* The file a call is at, and what it writes into it.
Target(c) ==
    CASE At(c, "write Dockerfile") -> Dockerfile(ImageDir(c))
      [] At(c, "write image.yml") -> ImageYAML(ImageDir(c))
      [] At(c, "write variant Dockerfile") -> Dockerfile(VariantDir(Req(c).image, Req(c).variant))
      [] OTHER -> ImageYAML(VariantDir(Req(c).image, Req(c).variant))

Content(c) ==
    IF Req(c).tool = "add_image" THEN Whole(Req(c).base, <<>>)
    ELSE IF At(c, "write image.yml") THEN WithVariant(c)
    ELSE Whole(Req(c).variant, <<>>)

Writing(c) ==
    InFlight(c) /\ Program[Req(c).tool][step[c]] \in
        {"write Dockerfile", "write image.yml", "write variant Dockerfile", "write variant image.yml"}

Truncate(c) ==
    /\ Writing(c)
    /\ c \notin opened
    /\ files' = [files EXCEPT ![Target(c)] = Empty]
    /\ opened' = opened \cup {c}
    /\ UNCHANGED <<request, step, config, answer, dirs, cache, raced, torn, deaths>>

\* The write starts at the offset 0 of what the file holds by now: a longer text
\* of another call keeps its tail.
WriteContent(c) ==
    /\ c \in opened
    /\ LET before == files[Target(c)]
       IN  \E after \in {Content(c)} \cup
                        (IF before \in {Empty, Content(c)} THEN {} ELSE {Mixed}) :
               files' = [files EXCEPT ![Target(c)] = after]
    /\ opened' = opened \ {c}
    /\ Advance(c)
    /\ UNCHANGED <<request, config, dirs, cache, raced, torn, deaths>>

\* A directory or a file cannot be made, or the text is written in part.
EditFails(c) ==
    /\ At(c, "mkdir") \/ At(c, "mkdir variant") \/ Writing(c)
    /\ \/ UNCHANGED files
       \/ c \in opened /\ files' = [files EXCEPT ![Target(c)] = Mixed]
    /\ opened' = opened \ {c}
    /\ torn' = torn \cup {Req(c).image}
    /\ Answer(c, "error")
    /\ UNCHANGED <<request, config, dirs, cache, raced, deaths>>

\* What DiscoverProject makes of the files of an image (module Discovery): the
\* parser of discovery rejects an empty file, and each listed variant needs an
\* entrypoint in its directory.
Loads(i) ==
    LET f == files[ImageYAML(<<i>>)]
    IN  /\ f.state # "empty"
        /\ f.state # "absent" =>
              /\ files[Dockerfile(<<i>>)].state # "absent"
              /\ \A v \in ToSet(f.variants) :
                    files[Dockerfile(VariantDir(i, v))].state # "absent"

\* list_images, get_image and get_dependencies; a mixed image.yml may parse.
Discover(c) ==
    /\ At(c, "discover")
    /\ \/ (\A i \in Images : Loads(i)) /\ Advance(c)
       \/ /\ \E i \in Images : ~Loads(i) \/ files[ImageYAML(<<i>>)].state = "mixed"
          /\ Answer(c, "error")
    /\ UNCHANGED <<request, opened, config, project, cache, raced, torn, deaths>>

-----------------------------------------------------------------------------
\* docCache. Get reads the map under rmu, which Set does not take: Set writes it
\* under mu.
EnterGet(c) ==
    /\ At(c, "get")
    /\ inMap' = inMap \cup {<<c, "read">>}
    /\ Advance(c)
    /\ UNCHANGED <<request, opened, config, project, cached, mu, raced, torn, deaths>>

\* A valid entry is the answer; none or an expired one makes the call fetch.
LeaveGet(c) ==
    /\ At(c, "leave get")
    /\ inMap' = inMap \ {<<c, "read">>}
    /\ IF cached[Req(c).page] = "valid" THEN Answer(c, "ok") ELSE Advance(c)
    /\ UNCHANGED <<request, opened, config, project, cached, mu, raced, torn, deaths>>

Fetched(c) ==
    /\ At(c, "fetch")
    /\ Advance(c) \/ Answer(c, "error")
    /\ UNCHANGED <<request, opened, config, project, cache, raced, torn, deaths>>

EnterSet(c) ==
    /\ At(c, "set")
    /\ mu = {}
    /\ mu' = {c}
    /\ inMap' = inMap \cup {<<c, "write">>}
    /\ Advance(c)
    /\ UNCHANGED <<request, opened, config, project, cached, raced, torn, deaths>>

\* Mutated form: the mutex is not unlocked.
LeaveSetLocked(c) ==
    /\ At(c, "leave set")
    /\ cached' = [cached EXCEPT ![Req(c).page] = "valid"]
    /\ inMap' = inMap \ {<<c, "write">>}
    /\ Advance(c)
    /\ UNCHANGED <<request, opened, config, project, mu, raced, torn, deaths>>

LeaveSet(c) ==
    /\ At(c, "leave set")
    /\ cached' = [cached EXCEPT ![Req(c).page] = "valid"]
    /\ mu' = {}
    /\ inMap' = inMap \ {<<c, "write">>}
    /\ Advance(c)
    /\ UNCHANGED <<request, opened, config, project, raced, torn, deaths>>

\* cacheTTL passes.
Expire(p) ==
    /\ cached[p] = "valid"
    /\ cached' = [cached EXCEPT ![p] = "expired"]
    /\ UNCHANGED <<calls, project, inMap, mu, raced, torn, deaths>>

\* The server is gone with every call in flight; the client starts another one
\* for its next call.
Die ==
    /\ answer' = [c \in Calls |-> IF InFlight(c) THEN "lost" ELSE answer[c]]
    /\ opened' = {}
    /\ torn' = torn \cup {i \in Images : EditsOf(i) # {}}
    /\ cached' = [p \in Pages |-> "none"]
    /\ inMap' = {} /\ mu' = {}
    /\ deaths' = deaths + 1
    /\ UNCHANGED <<request, step, config, project, raced>>

\* A write of a map with another access to it at the same time: the Go runtime
\* may detect it and end the process.
MapRace == \E x, y \in inMap : x[1] # y[1] /\ x[2] = "write"
FatalError == MapRace /\ deaths < MaxDeaths /\ Die

\* The client ends the server.
Kill ==
    /\ deaths < MaxDeaths
    /\ \E c \in Calls : InFlight(c)
    /\ Die

Handle(c) ==
    \/ StatImage(c) \/ Mkdir(c) \/ ReadConfig(c)
    \/ Truncate(c) \/ WriteContent(c) \/ EditFails(c)
    \/ Discover(c)
    \/ EnterGet(c) \/ LeaveGet(c) \/ Fetched(c) \/ EnterSet(c) \/ LeaveSet(c)

Next ==
    \/ \E c \in Calls : Call(c) \/ Handle(c)
    \/ \E p \in Pages : Expire(p)
    \/ FatalError
    \/ Kill

\* The goroutine of a call runs; requests for pages have a timeout. What the
\* client does is not fair.
Spec == Init /\ [][Next]_vars /\ \A c \in Calls : WF_vars(Handle(c))

-----------------------------------------------------------------------------
FileStates == {"absent", "empty", "mixed", "whole"}

\* Calls, files and the cache keep their types, and Set keeps others out of the
\* map of the cache.
TypeOK ==
    /\ request \in Workloads
    /\ step \in [Calls -> 0 .. 5]
    /\ opened \in SUBSET Calls
    /\ answer \in [Calls -> {"none", "ok", "error", "lost"}]
    /\ dirs \in SUBSET Dirs
    /\ \A f \in Files : files[f].state \in FileStates
    /\ cached \in [Pages -> {"none", "valid", "expired"}]
    /\ inMap \in SUBSET (Calls \X {"read", "write"})
    /\ mu \in SUBSET Calls /\ Cardinality(mu) <= 1

\* An image.yml never stands without a Dockerfile next to it: an add_image that
\* is under way, raced by another one of the same name, failed or killed does
\* not make discovery fail for want of an entrypoint.
HalfAddedIsInvisible ==
    \A i \in Images :
        files[ImageYAML(<<i>>)].state # "absent" => files[Dockerfile(<<i>>)].state # "absent"

\* Edits of one image that do not overlap and do not fail add up: every variant
\* reported as added is listed, in its image's own definition, and the project
\* loads.
EditsAddUp ==
    \A i \in Images \ (raced \cup torn) :
        LET f == files[ImageYAML(<<i>>)]
            Reported(tool) == {c \in Calls : answer[c] = "ok" /\ Req(c).tool = tool /\ Req(c).image = i}
        IN  EditsOf(i) = {} =>
                /\ Loads(i)
                /\ (i \in Existing \/ Reported("add_image") # {}) =>
                      f.state = "whole" /\ (i \in Existing => f.base = i)
                /\ \A c \in Reported("add_image") : f.base = Req(c).base
                /\ \A c \in Reported("add_image_variant") : Req(c).variant \in ToSet(f.variants)

\* No image is half added and no edit gets lost, whatever the calls, the failures
\* and the ends of the server.
McpInvariant == TypeOK /\ HalfAddedIsInvisible /\ EditsAddUp

\* Every call is answered, or lost with the server.
CallsAreAnswered ==
    \A c \in Calls : (step[c] > 0) ~> (answer[c] # "none")

\* A claim that the code does not keep: the mutexes that
\* docCache declares keep writers and readers of its map apart.
CacheIsGuarded == ~MapRace
=============================================================================
