--------------------------- MODULE McpServerProofs ---------------------------
(***************************************************************************)
(* The safety of the tools that edit a project, for any number of calls,   *)
(* images and ends of the server: no image is half added, and edits of one *)
(* image that neither overlap nor fail add up.                             *)
(***************************************************************************)
EXTENDS McpServer, FiniteSetTheorems, TLAPS

Configuration(i) == files[ImageYAML(<<i>>)]
Dockerfiles(i) == files[Dockerfile(<<i>>)]
Tool(c) == Req(c).tool
Adds(c) == Tool(c) = "add_image"
Varies(c) == Tool(c) = "add_image_variant"
Image(c) == Req(c).image
OwnVariant(c) == VariantDir(Image(c), Req(c).variant)
Clean == Images \ (raced \cup torn)

\* A call is at one of the steps of its tool; it has a file open only while it
\* writes; what is not absent stays so.
CallOK(c) ==
    /\ step[c] \in 0 .. Len(Program[Tool(c)])
    /\ step[c] = 0 => answer[c] = "none"
    /\ c \in opened => Writing(c)
    /\ config[c].variants \in Seq(Variants)

Shapes ==
    /\ request \in Workloads
    /\ step = [c \in Calls |-> step[c]]
    /\ opened \in SUBSET Calls
    /\ answer \in [Calls -> {"none", "ok", "error", "lost"}]
    /\ config = [c \in Calls |-> config[c]]
    /\ dirs \in SUBSET Dirs
    /\ files = [f \in Files |-> files[f]]
    /\ \A f \in Files : files[f].state \in FileStates /\ files[f].variants \in Seq(Variants)
    /\ cached \in [Pages -> {"none", "valid", "expired"}]
    /\ inMap \in SUBSET (Calls \X {"read", "write"})
    /\ mu = {} \/ \E c \in Calls : mu = {c}

Types == Shapes /\ \A c \in Calls : CallOK(c)

\* The order of the writes of add_image: the directory, the Dockerfile, and only
\* then image.yml, which nobody removes again.
Present(i) == Configuration(i).state # "absent"
ImageOK(i) ==
    /\ i \in Existing => Present(i)
    /\ Present(i) => <<i>> \in dirs /\ Dockerfiles(i).state # "absent"

ProgressOK(c) ==
    /\ answer[c] = "ok" /\ Edits(c) => Present(Image(c))
    /\ InFlight(c) /\ Adds(c) /\ step[c] >= 3 => <<Image(c)>> \in dirs
    /\ InFlight(c) /\ Adds(c) /\ step[c] = 4 => Dockerfiles(Image(c)).state # "absent"
    /\ InFlight(c) /\ Varies(c) /\ step[c] >= 2 => Present(Image(c))
    /\ InFlight(c) /\ Varies(c) /\ step[c] = 5 => files[Dockerfile(OwnVariant(c))].state # "absent"

\* What is reported of an image, and a definition of it that agrees.
Reported(i) == {c \in Calls : answer[c] = "ok" /\ Edits(c) /\ Image(c) = i}
Settled(i, f) ==
    /\ f.state \in {"absent", "whole"}
    /\ \A v \in ToSet(f.variants) :
          f.state = "whole" => files[Dockerfile(VariantDir(i, v))].state # "absent"
    /\ i \in Existing => f.base = i
    /\ \A c \in Reported(i) :
          /\ Adds(c) => f.base = Req(c).base
          /\ Varies(c) => Req(c).variant \in ToSet(f.variants)

\* The one edit of a clean image: what it finds is settled, and what it leaves
\* is the same with its own part added.
EditOK(c) ==
    LET i == Image(c)
        f == Configuration(i)
    IN  /\ step[c] = 1 => Settled(i, f)
        /\ Adds(c) /\ step[c] >= 2 =>
              /\ i \notin Existing /\ Reported(i) = {}
              /\ IF c \in opened /\ step[c] = 4 THEN f = Empty ELSE f.state = "absent"
        /\ Varies(c) /\ step[c] >= 2 =>
              /\ Settled(i, config[c]) /\ config[c].state = "whole"
              /\ f = IF step[c] > 2 THEN WithVariant(c)
                     ELSE IF c \in opened THEN Empty ELSE config[c]

CleanOK(i) ==
    /\ \A a, b \in EditsOf(i) : a = b
    /\ EditsOf(i) = {} => Settled(i, Configuration(i))
    /\ \A c \in EditsOf(i) : EditOK(c)

Inv ==
    /\ Types
    /\ \A i \in Images : ImageOK(i)
    /\ \A c \in Calls : ProgressOK(c)
    /\ \A i \in Clean : CleanOK(i)
-----------------------------------------------------------------------------
\* The paths of a project.
LEMMA Paths ==
    ASSUME NEW i \in Images, NEW j, NEW v \in Variants, NEW w
    PROVE  /\ <<i>> \in Dirs /\ VariantDir(i, v) \in Dirs
           /\ ImageYAML(<<i>>) \in Files /\ Dockerfile(<<i>>) \in Files
           /\ ImageYAML(VariantDir(i, v)) \in Files /\ Dockerfile(VariantDir(i, v)) \in Files
           /\ i # j => ImageYAML(<<i>>) # ImageYAML(<<j>>)
           /\ \A d, e : ImageYAML(d) # Dockerfile(e)
           /\ ImageYAML(<<i>>) # ImageYAML(VariantDir(j, w))
  <1>1. <<i>> \in Dirs /\ VariantDir(i, v) \in Dirs
    BY DEF Dirs
  <1>2. <<i>> # VariantDir(j, w)
    BY DEF VariantDir
  <1> QED BY <1>1, <1>2 DEF Files, ImageYAML, Dockerfile

\* The tools, and the step that each name stands for.
AddSteps == <<"stat", "mkdir", "write Dockerfile", "write image.yml">>
VarySteps == <<"read", "write image.yml", "mkdir variant", "write variant Dockerfile",
               "write variant image.yml">>
DiscoverSteps == <<"discover">>
DocumentationSteps == <<"get", "leave get", "fetch", "set", "leave set">>

LEMMA Tools ==
    ASSUME Types, NEW c \in Calls
    PROVE  /\ Adds(c) => Image(c) \in Images /\ Program[Tool(c)] = AddSteps
           /\ Varies(c) => /\ Image(c) \in Images /\ Req(c).variant \in Variants
                           /\ Program[Tool(c)] = VarySteps
           /\ Tool(c) = "list_images" => Program[Tool(c)] = DiscoverSteps
           /\ Tool(c) = "get_documentation" =>
                 Req(c).page \in Pages /\ Program[Tool(c)] = DocumentationSteps
           /\ Adds(c) \/ Varies(c) \/ Tool(c) \in {"list_images", "get_documentation"}
           /\ Edits(c) <=> Adds(c) \/ Varies(c)
  <1>1. /\ Program["add_image"] = AddSteps /\ Program["add_image_variant"] = VarySteps
        /\ Program["list_images"] = DiscoverSteps
        /\ Program["get_documentation"] = DocumentationSteps
    BY DEF Program, AddSteps, VarySteps, DiscoverSteps, DocumentationSteps
  <1> QED BY <1>1, WorkloadsAssumption DEF Types, Shapes, Adds, Varies, Edits, Image, Tool, Req

LEMMA Programs ==
    /\ Len(AddSteps) = 4 /\ Len(VarySteps) = 5 /\ Len(DocumentationSteps) = 5
    /\ Len(DiscoverSteps) = 1 /\ DiscoverSteps[1] = "discover"
    /\ AddSteps[1] = "stat" /\ AddSteps[2] = "mkdir"
    /\ AddSteps[3] = "write Dockerfile" /\ AddSteps[4] = "write image.yml"
    /\ VarySteps[1] = "read" /\ VarySteps[2] = "write image.yml"
    /\ VarySteps[3] = "mkdir variant" /\ VarySteps[4] = "write variant Dockerfile"
    /\ VarySteps[5] = "write variant image.yml"
    /\ DocumentationSteps[1] = "get" /\ DocumentationSteps[2] = "leave get"
    /\ DocumentationSteps[3] = "fetch" /\ DocumentationSteps[4] = "set"
    /\ DocumentationSteps[5] = "leave set"
  BY DEF AddSteps, VarySteps, DiscoverSteps, DocumentationSteps

LEMMA Lengths ==
    ASSUME Types, NEW c \in Calls
    PROVE  LET n == Len(Program[Tool(c)])
           IN  \/ Adds(c) /\ ~ Varies(c) /\ n = 4
               \/ Varies(c) /\ ~ Adds(c) /\ n = 5
               \/ Tool(c) = "list_images" /\ ~ Edits(c) /\ n = 1
               \/ Tool(c) = "get_documentation" /\ ~ Edits(c) /\ n = 5
  <1>1. CASE Adds(c)
    <2>1. Program[Tool(c)] = AddSteps
      BY <1>1, Tools
    <2>2. Len(Program[Tool(c)]) = 4
      BY <2>1, Programs
    <2> QED BY <1>1, <2>2 DEF Adds, Varies
  <1>2. CASE Varies(c)
    <2>1. Program[Tool(c)] = VarySteps
      BY <1>2, Tools
    <2>2. Len(Program[Tool(c)]) = 5
      BY <2>1, Programs
    <2> QED BY <1>2, <2>2 DEF Adds, Varies
  <1>3. CASE Tool(c) = "list_images"
    <2>1. Program[Tool(c)] = DiscoverSteps
      BY <1>3, Tools
    <2>2. Len(Program[Tool(c)]) = 1
      BY <2>1, Programs
    <2> QED BY <1>3, <2>2 DEF Edits, Tool
  <1>4. CASE Tool(c) = "get_documentation"
    <2>1. Program[Tool(c)] = DocumentationSteps
      BY <1>4, Tools
    <2>2. Len(Program[Tool(c)]) = 5
      BY <2>1, Programs
    <2> QED BY <1>4, <2>2 DEF Edits, Tool
  <1> QED BY <1>1, <1>2, <1>3, <1>4, Tools

LEMMA Steps ==
    ASSUME Types, NEW c \in Calls, InFlight(c)
    PROVE  /\ At(c, "stat") <=> Adds(c) /\ step[c] = 1
           /\ At(c, "mkdir") <=> Adds(c) /\ step[c] = 2
           /\ At(c, "write Dockerfile") <=> Adds(c) /\ step[c] = 3
           /\ At(c, "write image.yml") <=> (Adds(c) /\ step[c] = 4) \/ (Varies(c) /\ step[c] = 2)
           /\ At(c, "read") <=> Varies(c) /\ step[c] = 1
           /\ At(c, "mkdir variant") <=> Varies(c) /\ step[c] = 3
           /\ At(c, "write variant Dockerfile") <=> Varies(c) /\ step[c] = 4
           /\ At(c, "write variant image.yml") <=> Varies(c) /\ step[c] = 5
           /\ Writing(c) <=>
                 (Adds(c) /\ step[c] \in {3, 4}) \/ (Varies(c) /\ step[c] \in {2, 4, 5})
           /\ At(c, "discover") => Tool(c) = "list_images" /\ ~ Edits(c)
           /\ \A s \in {"get", "leave get", "fetch", "set", "leave set"} :
                 At(c, s) => Tool(c) = "get_documentation" /\ ~ Edits(c)
           /\ step[c] \in 1 .. Len(Program[Tool(c)])
           /\ Adds(c) => Len(Program[Tool(c)]) = 4 /\ step[c] \in {1, 2, 3, 4}
           /\ Varies(c) => Len(Program[Tool(c)]) = 5 /\ step[c] \in {1, 2, 3, 4, 5}
           /\ ~ (Adds(c) /\ Varies(c))
  <1>1. step[c] \in 1 .. Len(Program[Tool(c)])
    <2>1. Len(Program[Tool(c)]) \in {1, 4, 5}
      BY Lengths
    <2>2. step[c] \in 0 .. Len(Program[Tool(c)]) /\ step[c] > 0
      BY DEF Types, Shapes, CallOK, InFlight
    <2> QED BY <2>1, <2>2
  <1>2. CASE Adds(c)
    <2>1. Len(Program[Tool(c)]) = 4
      BY <1>2, Lengths DEF Adds, Varies, Edits, Tool
    <2>2. step[c] \in {1, 2, 3, 4}
      BY <1>1, <2>1
    <2>3. Program[Tool(c)] = AddSteps
      BY <1>2, Tools
    <2> QED BY <1>1, <1>2, <2>1, <2>2, <2>3, Programs DEF At, Writing, Adds, Varies, Tool
  <1>3. CASE Varies(c)
    <2>1. Len(Program[Tool(c)]) = 5
      BY <1>3, Lengths DEF Adds, Varies, Edits, Tool
    <2>2. step[c] \in {1, 2, 3, 4, 5}
      BY <1>1, <2>1
    <2>3. Program[Tool(c)] = VarySteps
      BY <1>3, Tools
    <2> QED BY <1>1, <1>3, <2>1, <2>2, <2>3, Programs DEF At, Writing, Adds, Varies, Tool
  <1>4. CASE Tool(c) = "list_images"
    <2>1. Len(Program[Tool(c)]) = 1
      BY <1>4, Lengths DEF Adds, Varies, Edits, Tool
    <2>2. step[c] = 1
      BY <1>1, <2>1
    <2>3. Program[Tool(c)] = DiscoverSteps
      BY <1>4, Tools
    <2> QED BY <1>1, <1>4, <2>1, <2>2, <2>3, Programs DEF At, Writing, Adds, Varies, Edits, Tool
  <1>5. CASE Tool(c) = "get_documentation"
    <2>1. Len(Program[Tool(c)]) = 5
      BY <1>5, Lengths DEF Adds, Varies, Edits, Tool
    <2>2. step[c] \in {1, 2, 3, 4, 5}
      BY <1>1, <2>1
    <2>3. Program[Tool(c)] = DocumentationSteps
      BY <1>5, Tools
    <2> QED BY <1>1, <1>5, <2>1, <2>2, <2>3, Programs DEF At, Writing, Adds, Varies, Edits, Tool
  <1> QED BY <1>2, <1>3, <1>4, <1>5, Tools
-----------------------------------------------------------------------------
\* Nothing is removed.
Grows ==
    /\ dirs \subseteq dirs'
    /\ \A f \in Files : files[f].state # "absent" => files'[f].state # "absent"

\* Call a stays where it is.
Stays(a) ==
    /\ step'[a] = step[a] /\ answer'[a] = answer[a] /\ config'[a] = config[a]
    /\ a \in opened' <=> a \in opened

LEMMA CallKept ==
    ASSUME NEW a \in Calls, CallOK(a), Stays(a), UNCHANGED request
    PROVE  CallOK(a)'
  BY DEF CallOK, Stays, Writing, InFlight, Tool, Req

LEMMA ProgressKept ==
    ASSUME Types, NEW a \in Calls, ProgressOK(a), Stays(a), UNCHANGED request, Grows
    PROVE  ProgressOK(a)'
  <1>1. /\ Image(a)' = Image(a) /\ OwnVariant(a)' = OwnVariant(a) /\ Edits(a)' = Edits(a)
        /\ Adds(a)' = Adds(a) /\ Varies(a)' = Varies(a) /\ InFlight(a)' = InFlight(a)
        /\ step'[a] = step[a] /\ answer'[a] = answer[a]
    BY DEF Image, OwnVariant, Edits, Adds, Varies, InFlight, Tool, Req, Stays
  <1>2. Edits(a) => Image(a) \in Images /\ (Adds(a) \/ Varies(a))
    BY Tools
  <1>3. Varies(a) => Req(a).variant \in Variants /\ Image(a) \in Images
    BY Tools
  <1>4. Adds(a) => Image(a) \in Images
    BY Tools
  <1>5. ASSUME NEW i \in Images
        PROVE  /\ Present(i) => Present(i)'
               /\ Dockerfiles(i).state # "absent" => Dockerfiles(i)'.state # "absent"
    <2>1. ImageYAML(<<i>>) \in Files /\ Dockerfile(<<i>>) \in Files
      BY DEF Files, Dirs
    <2> QED BY <2>1 DEF Grows, Present, Configuration, Dockerfiles, ImageYAML, Dockerfile
  <1>6. Varies(a) /\ files[Dockerfile(OwnVariant(a))].state # "absent" =>
           files'[Dockerfile(OwnVariant(a))].state # "absent"
    BY <1>3, Paths DEF Grows, OwnVariant
  <1> QED BY <1>1, <1>2, <1>3, <1>4, <1>5, <1>6 DEF ProgressOK, Grows

\* The edits of an image and the reports on it stay while its calls do.
LEMMA CleanKept ==
    ASSUME Types, NEW i \in Images, CleanOK(i), Grows, UNCHANGED request,
           Configuration(i)' = Configuration(i),
           \A a \in Calls : Edits(a) /\ Image(a) = i => Stays(a)
    PROVE  CleanOK(i)'
  <1>1. EditsOf(i)' = EditsOf(i) /\ Reported(i)' = Reported(i)
    BY DEF EditsOf, Reported, InFlight, Stays, Edits, Image, Req
  <1>2. ASSUME NEW v \in Variants, files[Dockerfile(VariantDir(i, v))].state # "absent"
        PROVE  files'[Dockerfile(VariantDir(i, v))].state # "absent"
    BY <1>2, Paths DEF Grows
  <1>3. ASSUME Settled(i, Configuration(i))
        PROVE  Settled(i, Configuration(i))'
    <2>0. ImageYAML(<<i>>) \in Files
      BY DEF Files, Dirs
    <2>1. Configuration(i).variants \in Seq(Variants)
      BY <2>0 DEF Types, Shapes, Configuration
    <2>2. ToSet(Configuration(i).variants) \subseteq Variants
      BY <2>1 DEF ToSet
    <2> QED BY <1>1, <1>2, <1>3, <2>2 DEF Settled, Adds, Varies, Tool, Req
  <1>4. ASSUME NEW c \in Calls, Settled(i, config[c]), config'[c] = config[c]
        PROVE  Settled(i, config[c])'
    <2>1. config[c].variants \in Seq(Variants)
      BY DEF Types, CallOK
    <2>2. ToSet(config[c].variants) \subseteq Variants
      BY <2>1 DEF ToSet
    <2> QED BY <1>1, <1>2, <1>4, <2>2 DEF Settled, Adds, Varies, Tool, Req
  <1>5. ASSUME NEW c \in EditsOf(i), EditOK(c) PROVE EditOK(c)'
    <2>1. c \in Calls /\ Image(c) = i /\ Edits(c) /\ Stays(c)
      BY <1>5 DEF EditsOf, Image
    <2>2. Image(c)' = i /\ Adds(c)' = Adds(c) /\ Varies(c)' = Varies(c)
      BY <2>1 DEF Image, Adds, Varies, Tool, Req
    <2>3. WithVariant(c)' = WithVariant(c)
      BY <2>1 DEF WithVariant, Stays, Req
    <2>4. step'[c] = step[c] /\ config'[c] = config[c] /\ (c \in opened' <=> c \in opened)
      BY <2>1 DEF Stays
    <2> QED BY <1>1, <1>3, <1>4, <1>5, <2>1, <2>2, <2>3, <2>4 DEF EditOK
  <1> QED BY <1>1, <1>3, <1>5 DEF CleanOK

\* A definition stays settled while the reports on its image do.
LEMMA SettledKept ==
    ASSUME NEW i \in Images, NEW f, f.variants \in Seq(Variants), Settled(i, f), Grows,
           UNCHANGED request, Reported(i)' = Reported(i)
    PROVE  Settled(i, f)'
  <1>1. ToSet(f.variants) \subseteq Variants
    BY DEF ToSet
  <1>2. ASSUME NEW v \in Variants, files[Dockerfile(VariantDir(i, v))].state # "absent"
        PROVE  files'[Dockerfile(VariantDir(i, v))].state # "absent"
    BY <1>2, Paths DEF Grows
  <1> QED BY <1>1, <1>2 DEF Settled, Adds, Varies, Tool, Req

\* A step of one call: the other calls stay, and so does the definition of every
\* image that the call does not edit.
Moves(c) ==
    /\ UNCHANGED request
    /\ \A a \in Calls : a # c => Stays(a)
    /\ raced \subseteq raced' /\ torn \subseteq torn'
    /\ Grows
    /\ \A i \in Images : ~ (Edits(c) /\ Image(c) = i) => Configuration(i)' = Configuration(i)

\* What is left to show of such a step concerns the call and the image it edits.
LEMMA MoveKeeps ==
    ASSUME Inv, NEW c \in Calls, Moves(c), Shapes', CallOK(c)', ProgressOK(c)',
           Edits(c) => ImageOK(Image(c))',
           Edits(c) /\ Image(c) \in Clean' => CleanOK(Image(c))'
    PROVE  Inv'
  <1>0. Image(c)' = Image(c)
    BY DEF Moves, Image, Req
  <1>1. ASSUME NEW a \in Calls PROVE CallOK(a)' /\ ProgressOK(a)'
    BY CallKept, ProgressKept DEF Moves, Inv, Types
  <1>2. ASSUME NEW i \in Images PROVE ImageOK(i)'
    <2>1. CASE Edits(c) /\ Image(c) = i
      BY <1>0, <2>1
    <2>2. CASE ~ (Edits(c) /\ Image(c) = i)
      <3>1. ImageOK(i) /\ Configuration(i)' = Configuration(i) /\ Grows
        BY <2>2 DEF Inv, Moves
      <3>2. Dockerfile(<<i>>) \in Files
        BY DEF Files, Dirs
      <3>3. Dockerfiles(i).state # "absent" => files'[Dockerfile(<<i>>)].state # "absent"
        BY <3>1, <3>2 DEF Grows, Dockerfiles
      <3>4. Present(i)' = Present(i)
        BY <3>1 DEF Present
      <3>5. Dockerfiles(i).state # "absent" => (Dockerfiles(i).state # "absent")'
        BY <3>3 DEF Dockerfiles
      <3>6. <<i>> \in dirs => <<i>> \in dirs'
        BY <3>1 DEF Grows
      <3> QED BY <3>1, <3>4, <3>5, <3>6 DEF ImageOK
    <2> QED BY <2>1, <2>2
  <1>3. ASSUME NEW i \in Images, i \in Clean' PROVE CleanOK(i)'
    <2>1. CASE Edits(c) /\ Image(c) = i
      BY <1>0, <1>3, <2>1
    <2>2. CASE ~ (Edits(c) /\ Image(c) = i)
      <3>1. CleanOK(i)
        BY <1>3 DEF Inv, Moves, Clean
      <3>2. \A a \in Calls : Edits(a) /\ Image(a) = i => Stays(a)
        BY <2>2 DEF Moves
      <3>3. /\ Types /\ Grows /\ UNCHANGED request
            /\ Configuration(i)' = Configuration(i)
        BY <2>2 DEF Inv, Moves
      <3> QED BY <3>1, <3>2, <3>3, CleanKept
    <2> QED BY <2>1, <2>2
  <1>4. Clean' \subseteq Images
    BY DEF Clean
  <1> QED BY <1>1, <1>2, <1>3, <1>4 DEF Inv, Types

\* The edit of a clean image is alone.
LEMMA OneEdit ==
    ASSUME Inv, NEW c \in Calls, InFlight(c), Edits(c), Moves(c), Image(c) \in Clean'
    PROVE  /\ CleanOK(Image(c)) /\ EditOK(c) /\ EditsOf(Image(c)) = {c}
           /\ InFlight(c)' => EditsOf(Image(c))' = {c}
           /\ ~ InFlight(c)' => EditsOf(Image(c))' = {}
           /\ answer'[c] # "ok" => Reported(Image(c))' = Reported(Image(c))
           /\ answer'[c] = "ok" => Reported(Image(c))' = Reported(Image(c)) \cup {c}
  <1> DEFINE i == Image(c)
  <1>1. i \in Clean
    BY DEF Moves, Clean
  <1>2. CleanOK(i) /\ c \in EditsOf(i)
    BY <1>1 DEF Inv, EditsOf, Image
  <1>3. EditsOf(i) = {c} /\ EditOK(c)
    BY <1>2 DEF CleanOK
  <1>4. ASSUME NEW a \in Calls
        PROVE  Edits(a)' = Edits(a) /\ Image(a)' = Image(a) /\ (a # c => InFlight(a)' = InFlight(a))
    BY DEF Moves, Stays, InFlight, Edits, Image, Req
  <1>5. EditsOf(i)' = {a \in Calls : InFlight(a)' /\ Edits(a) /\ Image(a) = i}
    BY <1>4 DEF EditsOf, Moves, Edits, Image, Req
  <1>6. \A a \in Calls : InFlight(a) /\ Edits(a) /\ Image(a) = i => a = c
    BY <1>3 DEF EditsOf, Image
  <1>7. Reported(i)' = {a \in Calls : answer'[a] = "ok" /\ Edits(a) /\ Image(a) = i}
    BY <1>4 DEF Reported, Moves, Edits, Image, Req
  <1>8. \A a \in Calls : a # c => answer'[a] = answer[a]
    BY DEF Moves, Stays
  <1>9. answer[c] = "none"
    BY DEF InFlight
  <1>10. (InFlight(c)' => EditsOf(i)' = {c}) /\ (~ InFlight(c)' => EditsOf(i)' = {})
    BY <1>4, <1>5, <1>6
  <1>11. /\ answer'[c] # "ok" => Reported(i)' = Reported(i)
         /\ answer'[c] = "ok" => Reported(i)' = Reported(i) \cup {c}
    BY <1>7, <1>8, <1>9 DEF Reported
  <1> QED BY <1>2, <1>3, <1>10, <1>11

\* A clean image after a step of its edit.
LEMMA CleanAfter ==
    ASSUME Inv, NEW c \in Calls, InFlight(c), Edits(c), Moves(c), Image(c) \in Clean',
           InFlight(c)' => EditOK(c)',
           ~ InFlight(c)' => Settled(Image(c), Configuration(Image(c)))'
    PROVE  CleanOK(Image(c))'
  <1>1. Image(c)' = Image(c)
    BY DEF Moves, Image, Req
  <1> QED BY <1>1, OneEdit DEF CleanOK

\* The two ways in which a handler goes on.
LEMMA Advances ==
    ASSUME Types, NEW c \in Calls, InFlight(c), Advance(c)
    PROVE  /\ step' = [a \in Calls |-> step'[a]]
           /\ answer' \in [Calls -> {"none", "ok", "error", "lost"}]
           /\ \A a \in Calls : a # c => step'[a] = step[a] /\ answer'[a] = answer[a]
           /\ \/ /\ step[c] < Len(Program[Tool(c)])
                 /\ step'[c] = step[c] + 1 /\ answer'[c] = "none" /\ InFlight(c)'
              \/ /\ step[c] = Len(Program[Tool(c)])
                 /\ step'[c] = step[c] /\ answer'[c] = "ok" /\ ~ InFlight(c)'
  <1>1. step[c] \in 1 .. Len(Program[Tool(c)]) /\ Len(Program[Tool(c)]) \in {1, 4, 5}
    BY Steps, Lengths
  <1>2. answer[c] = "none" /\ step[c] > 0
    BY DEF InFlight
  <1>3. /\ step = [a \in Calls |-> step[a]]
        /\ answer \in [Calls -> {"none", "ok", "error", "lost"}]
    BY DEF Types, Shapes
  <1>4. CASE step[c] = Len(Program[Tool(c)])
    <2>1. answer' = [answer EXCEPT ![c] = "ok"] /\ step' = step
      BY <1>4 DEF Advance, Tool
    <2> QED BY <1>3, <1>4, <2>1 DEF InFlight
  <1>5. CASE step[c] # Len(Program[Tool(c)])
    <2>1. answer' = answer /\ step' = [step EXCEPT ![c] = @ + 1]
      BY <1>5 DEF Advance, Tool
    <2>2. step' = [a \in Calls |-> step'[a]] /\ step'[c] = step[c] + 1
      BY <1>3, <2>1
    <2>3. \A a \in Calls : a # c => step'[a] = step[a]
      BY <1>3, <2>1
    <2>4. step[c] < Len(Program[Tool(c)]) /\ step[c] + 1 > 0
      BY <1>1, <1>5
    <2> QED BY <1>2, <1>3, <2>1, <2>2, <2>3, <2>4 DEF InFlight
  <1> QED BY <1>4, <1>5

LEMMA Answers ==
    ASSUME Types, NEW c \in Calls, InFlight(c), NEW r \in {"ok", "error"}, Answer(c, r)
    PROVE  /\ step' = [a \in Calls |-> step'[a]]
           /\ answer' \in [Calls -> {"none", "ok", "error", "lost"}]
           /\ \A a \in Calls : a # c => step'[a] = step[a] /\ answer'[a] = answer[a]
           /\ step'[c] = step[c] /\ answer'[c] = r /\ ~ InFlight(c)'
  BY DEF Types, Shapes, Answer, InFlight

LEMMA CallMoves ==
    ASSUME Types, NEW c \in Calls, InFlight(c), UNCHANGED request,
           Advance(c) \/ Answer(c, "ok") \/ Answer(c, "error"),
           c \notin opened', config'[c].variants \in Seq(Variants)
    PROVE  CallOK(c)'
  <1>1. Program[Tool(c)]' = Program[Tool(c)]
    BY DEF Tool, Req
  <1>2. step[c] \in 1 .. Len(Program[Tool(c)]) /\ Len(Program[Tool(c)]) \in {1, 4, 5}
    BY Steps, Lengths
  <1>3. step'[c] \in {step[c], step[c] + 1} /\ (step'[c] # step[c] => step[c] < Len(Program[Tool(c)]))
    BY Advances, Answers
  <1>4. step'[c] \in 1 .. Len(Program[Tool(c)])
    BY <1>2, <1>3
  <1>5. step'[c] \in 0 .. Len(Program[Tool(c)]) /\ step'[c] # 0
    BY <1>2, <1>4
  <1> QED BY <1>1, <1>5 DEF CallOK

\* A step of a call that edits nothing.
LEMMA QuietKeeps ==
    ASSUME Inv, NEW c \in Calls, InFlight(c), ~ Edits(c),
           Advance(c) \/ Answer(c, "ok") \/ Answer(c, "error"),
           UNCHANGED <<request, opened, config, project, raced, torn>>,
           cached' \in [Pages -> {"none", "valid", "expired"}],
           inMap' \in SUBSET (Calls \X {"read", "write"}),
           mu' = {} \/ \E a \in Calls : mu' = {a}
    PROVE  Inv'
  <1> USE DEF project
  <1>1. Types
    BY DEF Inv
  <1>2. /\ step' = [a \in Calls |-> step'[a]]
        /\ answer' \in [Calls -> {"none", "ok", "error", "lost"}]
        /\ \A a \in Calls : a # c => step'[a] = step[a] /\ answer'[a] = answer[a]
    BY <1>1, Advances, Answers
  <1>3. Shapes'
    BY <1>1, <1>2 DEF Types, Shapes
  <1>4. Grows
    BY DEF Grows
  <1>5. Moves(c)
    BY <1>2, <1>4 DEF Moves, Stays, Configuration
  <1>6. c \notin opened' /\ config'[c].variants \in Seq(Variants)
    BY <1>1, Steps, Tools DEF Types, CallOK
  <1>7. CallOK(c)'
    BY <1>1, <1>6, CallMoves
  <1>8. ~ Edits(c)' /\ ~ Adds(c)' /\ ~ Varies(c)'
    BY <1>1, Tools DEF Edits, Adds, Varies, Tool, Req
  <1>9. ProgressOK(c)'
    BY <1>8 DEF ProgressOK
  <1> QED BY <1>3, <1>5, <1>7, <1>9, MoveKeeps

LEMMA OthersKeep ==
    ASSUME Inv, NEW c \in Calls,
           Discover(c) \/ EnterGet(c) \/ LeaveGet(c) \/ Fetched(c) \/ EnterSet(c) \/ LeaveSet(c)
    PROVE  Inv'
  <1> DEFINE Names == {"discover", "get", "leave get", "fetch", "set", "leave set"}
  <1>1. Types
    BY DEF Inv
  <1>2. /\ cached \in [Pages -> {"none", "valid", "expired"}]
        /\ inMap \in SUBSET (Calls \X {"read", "write"})
        /\ mu = {} \/ \E a \in Calls : mu = {a}
    BY <1>1 DEF Types, Shapes
  <1>3. \E s \in Names : At(c, s)
    BY DEF Discover, EnterGet, LeaveGet, Fetched, EnterSet, LeaveSet
  <1>4. InFlight(c) /\ ~ Edits(c)
    BY <1>1, <1>3, Steps DEF At
  <1>5. Advance(c) \/ Answer(c, "ok") \/ Answer(c, "error")
    BY DEF Discover, EnterGet, LeaveGet, Fetched, EnterSet, LeaveSet
  <1>6. UNCHANGED <<request, opened, config, project, raced, torn>>
    BY DEF Discover, EnterGet, LeaveGet, Fetched, EnterSet, LeaveSet
  <1>7. cached' \in [Pages -> {"none", "valid", "expired"}]
    BY <1>2 DEF Discover, EnterGet, LeaveGet, Fetched, EnterSet, LeaveSet, cache
  <1>8. inMap' \in SUBSET (Calls \X {"read", "write"})
    <2>1. inMap' \subseteq inMap \cup {<<c, "read">>, <<c, "write">>}
      BY DEF Discover, EnterGet, LeaveGet, Fetched, EnterSet, LeaveSet, cache
    <2>2. <<c, "read">> \in Calls \X {"read", "write"} /\ <<c, "write">> \in Calls \X {"read", "write"}
      OBVIOUS
    <2> QED BY <1>2, <2>1, <2>2
  <1>9. mu' = {} \/ \E a \in Calls : mu' = {a}
    BY <1>2 DEF Discover, EnterGet, LeaveGet, Fetched, EnterSet, LeaveSet, cache
  <1> HIDE DEF Names
  <1> QED BY <1>4, <1>5, <1>6, <1>7, <1>8, <1>9, QuietKeeps

LEMMA ExpireKeeps ==
    ASSUME Inv, NEW p \in Pages, Expire(p)
    PROVE  Inv'
  <1>1. /\ UNCHANGED <<request, step, opened, config, answer, dirs, files, inMap, mu, raced, torn>>
        /\ cached' = [cached EXCEPT ![p] = "expired"]
    BY DEF Expire, calls, project
  <1>2. Shapes'
    BY <1>1 DEF Inv, Types, Shapes
  <1>3. Grows /\ Clean' = Clean
    BY <1>1 DEF Grows, Clean
  <1>4. \A a \in Calls : Stays(a)
    BY <1>1 DEF Stays
  <1>5. \A i \in Images : Configuration(i)' = Configuration(i)
    BY <1>1 DEF Configuration
  <1>6. \A a \in Calls : CallOK(a)' /\ ProgressOK(a)'
    BY <1>1, <1>3, <1>4, CallKept, ProgressKept DEF Inv, Types
  <1>7. \A i \in Images : ImageOK(i)'
    BY <1>1 DEF Inv, ImageOK, Present, Configuration, Dockerfiles
  <1>8. \A i \in Clean : CleanOK(i)'
    BY <1>1, <1>3, <1>4, <1>5, CleanKept DEF Inv, Clean
  <1> QED BY <1>2, <1>3, <1>6, <1>7, <1>8 DEF Inv, Types
-----------------------------------------------------------------------------
\* The file that a call writes.
LEMMA Targets ==
    ASSUME Types, NEW c \in Calls, Writing(c)
    PROVE  /\ InFlight(c) /\ Edits(c) /\ Image(c) \in Images /\ Target(c) \in Files
           /\ \/ Adds(c) /\ step[c] = 3 /\ Target(c) = Dockerfile(<<Image(c)>>)
              \/ Adds(c) /\ step[c] = 4 /\ Target(c) = ImageYAML(<<Image(c)>>)
              \/ Varies(c) /\ step[c] = 2 /\ Target(c) = ImageYAML(<<Image(c)>>)
              \/ Varies(c) /\ step[c] = 4 /\ Target(c) = Dockerfile(OwnVariant(c))
              \/ Varies(c) /\ step[c] = 5 /\ Target(c) = ImageYAML(OwnVariant(c))
  <1>1. InFlight(c)
    BY DEF Writing
  <1>2. Edits(c) /\ Image(c) \in Images
    BY <1>1, Steps, Tools
  <1>3. ImageDir(c) = <<Image(c)>> /\ OwnVariant(c) = VariantDir(Req(c).image, Req(c).variant)
    BY DEF ImageDir, OwnVariant, Image
  <1>4. ImageYAML(<<Image(c)>>) \in Files /\ Dockerfile(<<Image(c)>>) \in Files
    BY <1>2 DEF Files, Dirs
  <1>5. Varies(c) => ImageYAML(OwnVariant(c)) \in Files /\ Dockerfile(OwnVariant(c)) \in Files
    BY <1>2, Tools, Paths DEF OwnVariant
  <1>6. CASE Adds(c) /\ step[c] = 3
    <2>1. At(c, "write Dockerfile")
      BY <1>1, <1>6, Steps
    <2> QED BY <1>1, <1>2, <1>3, <1>4, <1>6, <2>1 DEF Target, At
  <1>7. CASE Adds(c) /\ step[c] = 4
    <2>1. At(c, "write image.yml")
      BY <1>1, <1>7, Steps
    <2> QED BY <1>1, <1>2, <1>3, <1>4, <1>7, <2>1 DEF Target, At
  <1>8. CASE Varies(c) /\ step[c] = 2
    <2>1. At(c, "write image.yml")
      BY <1>1, <1>8, Steps
    <2> QED BY <1>1, <1>2, <1>3, <1>4, <1>8, <2>1 DEF Target, At
  <1>9. CASE Varies(c) /\ step[c] = 4
    <2>1. At(c, "write variant Dockerfile")
      BY <1>1, <1>9, Steps
    <2> QED BY <1>1, <1>2, <1>3, <1>5, <1>9, <2>1 DEF Target, At
  <1>10. CASE Varies(c) /\ step[c] = 5
    <2>1. At(c, "write variant image.yml")
      BY <1>1, <1>10, Steps
    <2> QED BY <1>1, <1>2, <1>3, <1>5, <1>10, <2>1 DEF Target, At
  <1> QED BY <1>1, <1>6, <1>7, <1>8, <1>9, <1>10, Steps

\* A write of what is not absent: nothing is lost by it, no other definition
\* changes, and image.yml is not there before what it needs.
LEMMA Written ==
    ASSUME Inv, NEW c \in Calls, Writing(c), UNCHANGED <<request, dirs>>,
           NEW g, g.state \in FileStates \ {"absent"}, g.variants \in Seq(Variants),
           files' = [files EXCEPT ![Target(c)] = g]
    PROVE  /\ files' = [f \in Files |-> files'[f]]
           /\ \A f \in Files : files'[f].state \in FileStates /\ files'[f].variants \in Seq(Variants)
           /\ Grows
           /\ \A i \in Images : ~ (Edits(c) /\ Image(c) = i) => Configuration(i)' = Configuration(i)
           /\ ImageOK(Image(c))'
           /\ files'[Target(c)] = g
           /\ Configuration(Image(c))' =
                 IF Target(c) = ImageYAML(<<Image(c)>>) THEN g ELSE Configuration(Image(c))
  <1> DEFINE i == Image(c)
  <1>1. Types /\ ProgressOK(c)
    BY DEF Inv
  <1>2. /\ InFlight(c) /\ Edits(c) /\ i \in Images /\ Target(c) \in Files
        /\ \/ Adds(c) /\ step[c] = 3 /\ Target(c) = Dockerfile(<<i>>)
           \/ Adds(c) /\ step[c] = 4 /\ Target(c) = ImageYAML(<<i>>)
           \/ Varies(c) /\ step[c] = 2 /\ Target(c) = ImageYAML(<<i>>)
           \/ Varies(c) /\ step[c] = 4 /\ Target(c) = Dockerfile(OwnVariant(c))
           \/ Varies(c) /\ step[c] = 5 /\ Target(c) = ImageYAML(OwnVariant(c))
    BY <1>1, Targets
  <1>3. /\ files = [f \in Files |-> files[f]]
        /\ \A f \in Files : files[f].state \in FileStates /\ files[f].variants \in Seq(Variants)
    BY <1>1 DEF Types, Shapes
  <1>4. files' = [f \in Files |-> IF f = Target(c) THEN g ELSE files[f]]
    BY <1>3
  <1>5. files'[Target(c)] = g /\ \A f \in Files : f # Target(c) => files'[f] = files[f]
    BY <1>2, <1>4
  <1>6. files' = [f \in Files |-> files'[f]]
    BY <1>4
  <1>7. \A f \in Files : files'[f].state \in FileStates /\ files'[f].variants \in Seq(Variants)
    BY <1>3, <1>5
  <1>8. Grows
    BY <1>5 DEF Grows
  <1>9. ASSUME NEW j \in Images, j # i PROVE Configuration(j)' = Configuration(j)
    <2>1. ImageYAML(<<j>>) \in Files
      BY DEF Files, Dirs
    <2>2. ImageYAML(<<j>>) # Target(c)
      BY <1>2, <1>9 DEF ImageYAML, Dockerfile, OwnVariant, VariantDir
    <2> QED BY <1>5, <2>1, <2>2 DEF Configuration, ImageYAML
  <1>10. ImageYAML(<<i>>) \in Files /\ Dockerfile(<<i>>) \in Files
    BY <1>2 DEF Files, Dirs
  <1>11. Configuration(i)' = IF Target(c) = ImageYAML(<<i>>) THEN g ELSE Configuration(i)
    <2>1. Configuration(i)' = files'[ImageYAML(<<i>>)]
      BY DEF Configuration, Image, Req, ImageYAML
    <2> QED BY <1>5, <1>10, <2>1 DEF Configuration
  <1>12. ImageOK(i)
    BY <1>2 DEF Inv
  <1>13. ImageOK(i)'
    <2>1. /\ Image(c)' = i
          /\ Present(i)' <=> Configuration(i)'.state # "absent"
          /\ (Dockerfiles(i).state # "absent")' <=> files'[Dockerfile(<<i>>)].state # "absent"
      BY DEF Present, Image, Req, Configuration, Dockerfiles
    <2>2. Present(i) => Present(i)'
      BY <1>11, <2>1 DEF Present
    <2>3. Dockerfiles(i).state # "absent" => (Dockerfiles(i).state # "absent")'
      BY <1>8, <1>10, <2>1 DEF Grows, Dockerfiles
    <2>4. CASE Target(c) = ImageYAML(<<i>>)
      <3>0. Adds(c) => step[c] = 4
        BY <1>2, <2>4 DEF Adds, Varies, ImageYAML, Dockerfile
      <3>1. Adds(c) => <<i>> \in dirs /\ Dockerfiles(i).state # "absent"
        BY <1>1, <1>2, <3>0 DEF ProgressOK
      <3>2. Varies(c) => Present(i)
        BY <1>1, <1>2, <2>4 DEF ProgressOK, ImageYAML, Dockerfile, OwnVariant, VariantDir
      <3>3. <<i>> \in dirs /\ Dockerfiles(i).state # "absent"
        BY <1>2, <1>12, <3>1, <3>2 DEF ImageOK
      <3>4. Present(i)'
        BY <1>11, <2>1, <2>4
      <3> QED BY <2>1, <2>3, <3>3, <3>4 DEF ImageOK
    <2>5. CASE Target(c) # ImageYAML(<<i>>)
      <3>1. Present(i)' <=> Present(i)
        BY <1>11, <2>1, <2>5 DEF Present
      <3> QED BY <1>12, <2>1, <2>3, <3>1 DEF ImageOK
    <2> QED BY <2>4, <2>5
  <1> QED BY <1>2, <1>5, <1>6, <1>7, <1>8, <1>9, <1>11, <1>13
-----------------------------------------------------------------------------
\* A step of an edit that writes no file.
LEMMA FoldersMove ==
    ASSUME Inv, NEW c \in Calls, InFlight(c), Edits(c), ~ Writing(c),
           Advance(c) \/ Answer(c, "error"),
           UNCHANGED <<request, opened, files, cache, raced, torn>>,
           dirs \subseteq dirs', dirs' \subseteq Dirs,
           config' = [a \in Calls |-> config'[a]],
           \A a \in Calls : a # c => config'[a] = config[a],
           config'[c].variants \in Seq(Variants)
    PROVE  /\ Moves(c) /\ Shapes' /\ CallOK(c)' /\ ImageOK(Image(c))'
           /\ Configuration(Image(c))' = Configuration(Image(c)) /\ c \notin opened'
           /\ Image(c)' = Image(c) /\ (Edits(c) /\ (Adds(c) <=> ~ Varies(c)))'
           /\ Adds(c)' = Adds(c) /\ Varies(c)' = Varies(c)
  <1>1. Types
    BY DEF Inv
  <1>2. /\ step' = [a \in Calls |-> step'[a]]
        /\ answer' \in [Calls -> {"none", "ok", "error", "lost"}]
        /\ \A a \in Calls : a # c => step'[a] = step[a] /\ answer'[a] = answer[a]
    BY <1>1, Advances, Answers
  <1>3. Grows
    BY DEF Grows
  <1>4. Moves(c)
    BY <1>2, <1>3 DEF Moves, Stays, Configuration
  <1>5. Shapes'
    BY <1>1, <1>2 DEF Types, Shapes, cache
  <1>6. c \notin opened'
    BY <1>1 DEF Types, CallOK
  <1>7. CallOK(c)'
    BY <1>1, <1>6, CallMoves
  <1>8. Image(c) \in Images
    BY <1>1, Tools
  <1>9. ImageOK(Image(c))
    BY <1>8 DEF Inv
  <1>10. Image(c)' = Image(c)
    BY DEF Image, Req
  <1>11. /\ Configuration(Image(c))' = Configuration(Image(c))
         /\ Present(Image(c))' = Present(Image(c))
         /\ Dockerfiles(Image(c))' = Dockerfiles(Image(c))
    BY <1>10 DEF Configuration, Present, Dockerfiles
  <1>12. (Dockerfiles(Image(c)).state # "absent")' <=> Dockerfiles(Image(c)).state # "absent"
    BY <1>11 DEF Dockerfiles
  <1>13. ImageOK(Image(c))'
    BY <1>9, <1>10, <1>11, <1>12 DEF ImageOK
  <1>14. Edits(c)' /\ Adds(c)' = Adds(c) /\ Varies(c)' = Varies(c) /\ (Adds(c) <=> ~ Varies(c))
    BY <1>1, Tools DEF Edits, Adds, Varies, Tool, Req
  <1> QED BY <1>4, <1>5, <1>6, <1>7, <1>10, <1>11, <1>13, <1>14

\* What is settled for an image stays so while its edit is not reported as done.
LEMMA StaysSettled ==
    ASSUME Inv, NEW c \in Calls, InFlight(c), Edits(c), Moves(c), Image(c) \in Clean',
           answer'[c] # "ok", NEW f, f.variants \in Seq(Variants), Settled(Image(c), f)
    PROVE  Settled(Image(c), f)'
  <1>1. Reported(Image(c))' = Reported(Image(c))
    BY OneEdit
  <1>2. Image(c)' = Image(c) /\ Image(c) \in Images
    BY Tools DEF Moves, Image, Req, Inv
  <1>3. ASSUME NEW j \in Images, j = Image(c) PROVE Settled(j, f)'
    <2>1. Settled(j, f) /\ Reported(j)' = Reported(j)
      BY <1>1, <1>2, <1>3
    <2> QED BY <2>1, SettledKept DEF Moves
  <1> QED BY <1>2, <1>3

\* A settled image whose edit gives up.
LEMMA GivesUp ==
    ASSUME Inv, NEW c \in Calls, InFlight(c), Edits(c), Moves(c), Image(c) \in Clean',
           Settled(Image(c), Configuration(Image(c))), answer'[c] = "error",
           Configuration(Image(c))' = Configuration(Image(c))
    PROVE  Settled(Image(c), Configuration(Image(c)))'
  <1>1. PICK f : f = Configuration(Image(c))
    OBVIOUS
  <1>2. Types /\ Image(c) \in Images
    BY Tools DEF Inv
  <1>3. ImageYAML(<<Image(c)>>) \in Files
    BY <1>2 DEF Files, Dirs
  <1>4. f.variants \in Seq(Variants)
    BY <1>1, <1>2, <1>3 DEF Types, Shapes, Configuration
  <1>5. Settled(Image(c), f)'
    BY <1>1, <1>4, StaysSettled
  <1> QED BY <1>1, <1>5

\* When an edit writes, where it goes on, and where it ends.
LEMMA Writers ==
    ASSUME Types, NEW c \in Calls, InFlight(c)
    PROVE  /\ Writing(c) <=> \/ Adds(c) /\ (step[c] = 3 \/ step[c] = 4)
                             \/ Varies(c) /\ (step[c] = 2 \/ step[c] = 4 \/ step[c] = 5)
           /\ ~ (Adds(c) /\ Varies(c))
  BY Steps

LEMMA GoesOn ==
    ASSUME Types, NEW c \in Calls, InFlight(c), Advance(c), NEW n \in {1, 2, 3, 4}, step[c] = n,
           Varies(c) \/ (Adds(c) /\ n < 4)
    PROVE  step'[c] = n + 1 /\ answer'[c] = "none" /\ InFlight(c)'
  <1>1. Len(Program[Tool(c)]) = IF Varies(c) THEN 5 ELSE 4
    BY Lengths DEF Adds, Varies
  <1> QED BY <1>1, Advances

LEMMA Ends ==
    ASSUME Types, NEW c \in Calls, InFlight(c), Advance(c),
           (Varies(c) /\ step[c] = 5) \/ (Adds(c) /\ step[c] = 4)
    PROVE  step'[c] = step[c] /\ answer'[c] = "ok" /\ ~ InFlight(c)'
  <1>1. Len(Program[Tool(c)]) = step[c]
    BY Lengths DEF Adds, Varies
  <1> QED BY <1>1, Advances

LEMMA StatKeeps ==
    ASSUME Inv, NEW c \in Calls, StatImage(c)
    PROVE  Inv'
  <1> DEFINE i == Image(c)
  <1>1. Types /\ InFlight(c)
    BY DEF Inv, StatImage, At
  <1>2. Adds(c) /\ step[c] = 1 /\ ~ Writing(c) /\ Edits(c) /\ i \in Images
    <2>1. Adds(c) /\ step[c] = 1
      <3>1. At(c, "stat")
        BY DEF StatImage
      <3> QED BY <1>1, <3>1, Steps
    <2>2. ~ Writing(c)
      BY <1>1, <2>1, Writers
    <2> QED BY <1>1, <2>1, <2>2, Tools
  <1>3. /\ UNCHANGED <<request, opened, config, dirs, files, cache, raced, torn>>
        /\ IF <<i>> \in dirs THEN Answer(c, "error") ELSE Advance(c)
    BY DEF StatImage, project, ImageDir, Image
  <1>4. /\ dirs' \subseteq Dirs /\ config' = [a \in Calls |-> config'[a]]
        /\ config'[c].variants \in Seq(Variants)
    BY <1>1, <1>3 DEF Types, Shapes, CallOK
  <1>5. /\ Moves(c) /\ Shapes' /\ CallOK(c)' /\ ImageOK(i)'
        /\ Configuration(i)' = Configuration(i) /\ c \notin opened'
        /\ Image(c)' = i /\ Adds(c)' /\ ~ Varies(c)'
    BY <1>1, <1>2, <1>3, <1>4, FoldersMove
  <1>6. ProgressOK(c)
    BY DEF Inv
  <1>7. CASE <<i>> \in dirs
    <2>1. answer'[c] = "error" /\ ~ InFlight(c)'
      BY <1>1, <1>3, <1>7, Answers
    <2>2. ProgressOK(c)'
      BY <2>1 DEF ProgressOK
    <2>3. ASSUME i \in Clean' PROVE CleanOK(i)'
      <3>1. EditOK(c)
        BY <1>1, <1>2, <1>5, <2>3, OneEdit
      <3>2. Settled(i, Configuration(i))
        BY <1>2, <3>1 DEF EditOK
      <3>3. Settled(i, Configuration(i))'
        BY <1>1, <1>2, <1>5, <2>1, <2>3, <3>2, GivesUp
      <3> QED BY <1>1, <1>2, <1>5, <2>1, <2>3, <3>3, CleanAfter
    <2> QED BY <1>5, <2>2, <2>3, MoveKeeps
  <1>8. CASE <<i>> \notin dirs
    <2>1. step'[c] = 2 /\ answer'[c] = "none" /\ InFlight(c)'
      BY <1>1, <1>2, <1>3, <1>8, GoesOn
    <2>2. ProgressOK(c)'
      BY <1>5, <2>1 DEF ProgressOK
    <2>3. ASSUME i \in Clean' PROVE CleanOK(i)'
      <3>1. ~ Present(i) /\ i \notin Existing
        BY <1>2, <1>8 DEF Inv, ImageOK
      <3>2. Reported(i) = {}
        BY <3>1 DEF Inv, ProgressOK, Reported
      <3>3. Reported(i)' = {}
        BY <1>1, <1>2, <1>5, <2>1, <2>3, <3>2, OneEdit
      <3>4. Configuration(i)'.state = "absent"
        BY <1>5, <3>1 DEF Present
      <3>5. EditOK(c)'
        BY <1>5, <2>1, <3>1, <3>3, <3>4 DEF EditOK
      <3> QED BY <1>1, <1>2, <1>5, <2>1, <2>3, <3>5, CleanAfter
    <2> QED BY <1>5, <2>2, <2>3, MoveKeeps
  <1> QED BY <1>7, <1>8

LEMMA ReadKeeps ==
    ASSUME Inv, NEW c \in Calls, ReadConfig(c)
    PROVE  Inv'
  <1> DEFINE i == Image(c)
  <1>1. Types /\ InFlight(c)
    BY DEF Inv, ReadConfig, At
  <1>2. Varies(c) /\ step[c] = 1 /\ ~ Writing(c) /\ Edits(c) /\ i \in Images
    <2>1. Varies(c) /\ step[c] = 1
      <3>1. At(c, "read")
        BY DEF ReadConfig
      <3> QED BY <1>1, <3>1, Steps
    <2>2. ~ Writing(c)
      BY <1>1, <2>1, Writers
    <2> QED BY <1>1, <2>1, <2>2, Tools
  <1>3. /\ UNCHANGED <<request, opened, dirs, files, cache, raced, torn>>
        /\ \/ Configuration(i).state \in {"absent", "mixed"} /\ Answer(c, "error") /\ config' = config
           \/ /\ Configuration(i).state # "absent" /\ Advance(c)
              /\ config' = [config EXCEPT ![c] = Configuration(i)]
    BY DEF ReadConfig, project, ImageDir, Image, Configuration
  <1>4. ImageYAML(<<i>>) \in Files
    BY <1>2 DEF Files, Dirs
  <1>5. Configuration(i).variants \in Seq(Variants)
    BY <1>1, <1>4 DEF Types, Shapes, Configuration
  <1>6. /\ dirs' \subseteq Dirs /\ config' = [a \in Calls |-> config'[a]]
        /\ \A a \in Calls : a # c => config'[a] = config[a]
        /\ config'[c].variants \in Seq(Variants)
    BY <1>1, <1>3, <1>5 DEF Types, Shapes, CallOK
  <1>7. /\ Moves(c) /\ Shapes' /\ CallOK(c)' /\ ImageOK(i)'
        /\ Configuration(i)' = Configuration(i) /\ c \notin opened'
        /\ Image(c)' = i /\ ~ Adds(c)' /\ Varies(c)'
    BY <1>1, <1>2, <1>3, <1>6, FoldersMove
  <1>8. CASE Answer(c, "error") /\ config' = config
    <2>1. answer'[c] = "error" /\ ~ InFlight(c)'
      BY <1>1, <1>8, Answers
    <2>2. ProgressOK(c)'
      BY <2>1 DEF ProgressOK
    <2>3. ASSUME i \in Clean' PROVE CleanOK(i)'
      <3>1. EditOK(c)
        BY <1>1, <1>2, <1>7, <2>3, OneEdit
      <3>2. Settled(i, Configuration(i))
        BY <1>2, <3>1 DEF EditOK
      <3>3. Settled(i, Configuration(i))'
        BY <1>1, <1>2, <1>7, <2>1, <2>3, <3>2, GivesUp
      <3> QED BY <1>1, <1>2, <1>7, <2>1, <2>3, <3>3, CleanAfter
    <2> QED BY <1>7, <2>2, <2>3, MoveKeeps
  <1>9. CASE /\ Configuration(i).state # "absent" /\ Advance(c)
             /\ config' = [config EXCEPT ![c] = Configuration(i)]
    <2>1. step'[c] = 2 /\ answer'[c] = "none" /\ InFlight(c)'
      BY <1>1, <1>2, <1>9, GoesOn
    <2>2. Present(i) /\ Present(i)'
      BY <1>7, <1>9 DEF Present
    <2>3. config'[c] = Configuration(i)
      BY <1>1, <1>9 DEF Types, Shapes
    <2>4. ProgressOK(c)'
      BY <1>7, <2>1, <2>2 DEF ProgressOK
    <2>5. ASSUME i \in Clean' PROVE CleanOK(i)'
      <3>1. EditOK(c)
        BY <1>1, <1>2, <1>7, <2>5, OneEdit
      <3>2. Settled(i, Configuration(i))
        BY <1>2, <3>1 DEF EditOK
      <3>3. Configuration(i).state = "whole"
        BY <1>9, <3>2 DEF Settled
      <3>4. PICK f : f = Configuration(i)
        OBVIOUS
      <3>5. Settled(i, f)'
        BY <1>1, <1>2, <1>5, <1>7, <2>1, <2>5, <3>2, <3>4, StaysSettled
      <3>6. config'[c] = f /\ Configuration(i)' = f
        BY <1>7, <2>3, <3>4
      <3>7. Settled(i, config[c])'
        BY <3>5, <3>6
      <3>8. EditOK(c)'
        BY <1>7, <2>1, <3>3, <3>4, <3>6, <3>7 DEF EditOK
      <3> QED BY <1>1, <1>2, <1>7, <2>1, <2>5, <3>8, CleanAfter
    <2> QED BY <1>7, <2>4, <2>5, MoveKeeps
  <1> QED BY <1>3, <1>8, <1>9

\* The definition that an add_image_variant has read stays what it adds to.
LEMMA ReadStaysSettled ==
    ASSUME Inv, NEW c \in Calls, InFlight(c), Edits(c), Moves(c), Image(c) \in Clean',
           answer'[c] # "ok", Settled(Image(c), config[c]), config'[c] = config[c]
    PROVE  Settled(Image(c), config[c])'
  <1>1. PICK f : f = config[c]
    OBVIOUS
  <1>2. f.variants \in Seq(Variants)
    BY <1>1 DEF Inv, Types, CallOK
  <1>3. Settled(Image(c), f)'
    BY <1>1, <1>2, StaysSettled
  <1> QED BY <1>1, <1>3

LEMMA MkdirKeeps ==
    ASSUME Inv, NEW c \in Calls, Mkdir(c)
    PROVE  Inv'
  <1> DEFINE i == Image(c)
  <1>1. Types /\ InFlight(c)
    BY DEF Inv, Mkdir, At
  <1>2. (Adds(c) /\ step[c] = 2) \/ (Varies(c) /\ step[c] = 3)
    <2>1. At(c, "mkdir") \/ At(c, "mkdir variant")
      BY DEF Mkdir
    <2> QED BY <1>1, <2>1, Steps
  <1>3. ~ Writing(c)
    BY <1>1, <1>2, Writers
  <1>4. Edits(c) /\ i \in Images /\ (Varies(c) => Req(c).variant \in Variants)
    BY <1>1, <1>2, Tools
  <1>5. /\ UNCHANGED <<request, opened, config, files, cache, raced, torn>>
        /\ dirs' = dirs \cup {TargetDir(c)} /\ Advance(c)
    BY DEF Mkdir
  <1>6. TargetDir(c) \in Dirs /\ (Adds(c) => TargetDir(c) = <<i>>)
    <2>1. CASE Adds(c) /\ step[c] = 2
      <3>1. At(c, "mkdir")
        BY <1>1, <2>1, Steps
      <3> QED BY <1>4, <3>1 DEF TargetDir, ImageDir, Image, Dirs
    <2>2. CASE Varies(c) /\ step[c] = 3
      <3>1. ~ At(c, "mkdir") /\ ~ Adds(c)
        BY <1>1, <2>2, Steps, Writers
      <3> QED BY <1>4, <2>2, <3>1 DEF TargetDir, Image, Dirs
    <2> QED BY <1>2, <2>1, <2>2
  <1>7. /\ dirs' \subseteq Dirs /\ config' = [a \in Calls |-> config'[a]]
        /\ config'[c].variants \in Seq(Variants)
    BY <1>1, <1>5, <1>6 DEF Types, Shapes, CallOK
  <1>8. /\ Moves(c) /\ Shapes' /\ CallOK(c)' /\ ImageOK(i)'
        /\ Configuration(i)' = Configuration(i) /\ c \notin opened'
        /\ Image(c)' = i /\ Adds(c)' = Adds(c) /\ Varies(c)' = Varies(c) /\ (Adds(c) <=> ~ Varies(c))
    BY <1>1, <1>3, <1>4, <1>5, <1>7, FoldersMove
  <1>9. step'[c] = step[c] + 1 /\ answer'[c] = "none" /\ InFlight(c)'
    BY <1>1, <1>2, <1>5, GoesOn
  <1>10. ProgressOK(c)'
    <2>1. Varies(c) => Present(i)
      <3>1. ProgressOK(c)
        BY DEF Inv
      <3>2. Varies(c) => step[c] = 3
        BY <1>2, <1>8
      <3> QED BY <1>1, <3>1, <3>2 DEF ProgressOK
    <2>2. Varies(c) => Present(i)'
      BY <1>8, <2>1 DEF Present
    <2>3. Adds(c) => <<i>> \in dirs'
      BY <1>5, <1>6
    <2> QED BY <1>2, <1>8, <1>9, <2>2, <2>3 DEF ProgressOK
  <1>11. ASSUME i \in Clean' PROVE CleanOK(i)'
    <2>1. EditOK(c) /\ Reported(i)' = Reported(i)
      BY <1>1, <1>4, <1>8, <1>9, <1>11, OneEdit
    <2>2. c \notin opened /\ config'[c] = config[c]
      BY <1>1, <1>3, <1>5 DEF Types, CallOK
    <2>3. CASE Adds(c)
      <3>1. i \notin Existing /\ Reported(i) = {} /\ Configuration(i).state = "absent"
        BY <1>2, <1>8, <2>1, <2>2, <2>3 DEF EditOK
      <3> QED BY <1>1, <1>2, <1>4, <1>8, <1>9, <1>11, <2>1, <2>3, <3>1, CleanAfter DEF EditOK
    <2>4. CASE Varies(c)
      <3>1. Settled(i, config[c]) /\ config[c].state = "whole" /\ Configuration(i) = WithVariant(c)
        BY <1>2, <1>8, <2>1, <2>4 DEF EditOK
      <3>2. Settled(i, config[c])'
        BY <1>1, <1>4, <1>8, <1>9, <1>11, <2>2, <3>1, ReadStaysSettled
      <3>3. WithVariant(c)' = WithVariant(c)
        BY <1>5 DEF WithVariant, Req
      <3>4. EditOK(c)'
        BY <1>2, <1>8, <1>9, <2>2, <2>4, <3>1, <3>2, <3>3 DEF EditOK
      <3> QED BY <1>1, <1>4, <1>8, <1>9, <1>11, <3>4, CleanAfter
    <2> QED BY <1>2, <2>3, <2>4
  <1> QED BY <1>8, <1>10, <1>11, MoveKeeps
-----------------------------------------------------------------------------
\* The step of a write, up to what it makes of a clean image.
LEMMA WriteMoves ==
    ASSUME Inv, NEW c \in Calls, Writing(c), UNCHANGED <<request, dirs, config, cache>>,
           NEW g, g.state \in FileStates \ {"absent"}, g.variants \in Seq(Variants),
           files' = [files EXCEPT ![Target(c)] = g],
           step' = [a \in Calls |-> step'[a]],
           answer' \in [Calls -> {"none", "ok", "error", "lost"}],
           \A a \in Calls : a # c => step'[a] = step[a] /\ answer'[a] = answer[a],
           opened' \subseteq Calls, \A a \in Calls : a # c => (a \in opened' <=> a \in opened),
           raced \subseteq raced', torn \subseteq torn'
    PROVE  /\ Moves(c) /\ Shapes' /\ ImageOK(Image(c))' /\ Grows
           /\ files'[Target(c)] = g
           /\ Configuration(Image(c))' =
                 IF Target(c) = ImageYAML(<<Image(c)>>) THEN g ELSE Configuration(Image(c))
           /\ Image(c)' = Image(c) /\ OwnVariant(c)' = OwnVariant(c) /\ Edits(c)'
           /\ Adds(c)' = Adds(c) /\ Varies(c)' = Varies(c) /\ (Adds(c) <=> ~ Varies(c))
  <1>1. Types
    BY DEF Inv
  <1>2. Edits(c) /\ (Adds(c) <=> ~ Varies(c))
    BY <1>1, Targets, Tools DEF Adds, Varies
  <1>3. /\ files' = [f \in Files |-> files'[f]]
        /\ \A f \in Files : files'[f].state \in FileStates /\ files'[f].variants \in Seq(Variants)
        /\ Grows
        /\ \A i \in Images : ~ (Edits(c) /\ Image(c) = i) => Configuration(i)' = Configuration(i)
        /\ ImageOK(Image(c))'
        /\ files'[Target(c)] = g
        /\ Configuration(Image(c))' =
              IF Target(c) = ImageYAML(<<Image(c)>>) THEN g ELSE Configuration(Image(c))
    BY Written
  <1>4. \A a \in Calls : a # c => Stays(a)
    BY DEF Stays
  <1>5. Moves(c)
    BY <1>3, <1>4 DEF Moves
  <1>6. Shapes'
    BY <1>1, <1>3 DEF Types, Shapes, cache
  <1>7. /\ Image(c)' = Image(c) /\ OwnVariant(c)' = OwnVariant(c) /\ Edits(c)'
        /\ Adds(c)' = Adds(c) /\ Varies(c)' = Varies(c)
    BY <1>2 DEF Image, OwnVariant, Edits, Adds, Varies, Tool, Req
  <1> QED BY <1>2, <1>3, <1>5, <1>6, <1>7

LEMMA TruncateKeeps ==
    ASSUME Inv, NEW c \in Calls, Truncate(c)
    PROVE  Inv'
  <1> DEFINE i == Image(c)
  <1>1. Writing(c) /\ c \notin opened /\ files' = [files EXCEPT ![Target(c)] = Empty]
        /\ opened' = opened \cup {c}
        /\ UNCHANGED <<request, step, config, answer, dirs, cache, raced, torn>>
    BY DEF Truncate
  <1>2. Types /\ InFlight(c) /\ ProgressOK(c)
    BY <1>1 DEF Inv, Writing
  <1>3. /\ Edits(c) /\ i \in Images /\ Target(c) \in Files
        /\ \/ Adds(c) /\ step[c] = 3 /\ Target(c) = Dockerfile(<<i>>)
           \/ Adds(c) /\ step[c] = 4 /\ Target(c) = ImageYAML(<<i>>)
           \/ Varies(c) /\ step[c] = 2 /\ Target(c) = ImageYAML(<<i>>)
           \/ Varies(c) /\ step[c] = 4 /\ Target(c) = Dockerfile(OwnVariant(c))
           \/ Varies(c) /\ step[c] = 5 /\ Target(c) = ImageYAML(OwnVariant(c))
    BY <1>1, <1>2, Targets
  <1>4. /\ Empty.state \in FileStates \ {"absent"} /\ Empty.variants \in Seq(Variants)
        /\ Empty.state = "empty"
    BY DEF Empty, FileStates
  <1>5. /\ step' = [a \in Calls |-> step'[a]]
        /\ answer' \in [Calls -> {"none", "ok", "error", "lost"}]
        /\ opened' \subseteq Calls
    BY <1>1, <1>2 DEF Types, Shapes
  <1>6. /\ Moves(c) /\ Shapes' /\ ImageOK(i)' /\ Grows
        /\ Configuration(i)' = IF Target(c) = ImageYAML(<<i>>) THEN Empty ELSE Configuration(i)
        /\ Image(c)' = i /\ OwnVariant(c)' = OwnVariant(c) /\ Edits(c)'
        /\ Adds(c)' = Adds(c) /\ Varies(c)' = Varies(c) /\ (Adds(c) <=> ~ Varies(c))
    BY <1>1, <1>4, <1>5, WriteMoves
  <1>7. CallOK(c)'
    BY <1>1, <1>2 DEF Types, CallOK, Writing, InFlight, Tool, Req
  <1>8. InFlight(c)' /\ step'[c] = step[c] /\ answer'[c] = "none" /\ c \in opened' /\ config'[c] = config[c]
    BY <1>1, <1>2 DEF InFlight
  <1>9. ImageYAML(<<i>>) \in Files /\ Dockerfile(<<i>>) \in Files
        /\ (Varies(c) => Dockerfile(OwnVariant(c)) \in Files)
    BY <1>2, <1>3, Tools, Paths DEF Files, Dirs, OwnVariant
  <1>10. Present(i) => Present(i)'
    BY <1>6, <1>9 DEF Grows, Present, Configuration
  <1>11. Dockerfiles(i).state # "absent" => (Dockerfiles(i).state # "absent")'
    BY <1>6, <1>9 DEF Grows, Dockerfiles
  <1>12. ProgressOK(c)'
    BY <1>1, <1>2, <1>6, <1>8, <1>9, <1>10, <1>11 DEF ProgressOK, Grows
  <1>13. ASSUME i \in Clean' PROVE CleanOK(i)'
    <2>1. EditOK(c) /\ Reported(i)' = Reported(i)
      BY <1>2, <1>3, <1>6, <1>8, <1>13, OneEdit
    <2>2. CASE Adds(c)
      <3>1. step[c] = 3 \/ step[c] = 4
        BY <1>3, <1>6, <2>2
      <3>2. i \notin Existing /\ Reported(i) = {} /\ Configuration(i).state = "absent"
        BY <1>1, <1>6, <2>1, <2>2, <3>1 DEF EditOK
      <3>3. Target(c) = ImageYAML(<<i>>) <=> step[c] = 4
        BY <1>3, <1>6, <2>2 DEF ImageYAML, Dockerfile
      <3>4. EditOK(c)'
        BY <1>6, <1>8, <2>1, <2>2, <3>1, <3>2, <3>3 DEF EditOK
      <3> QED BY <1>2, <1>3, <1>6, <1>8, <1>13, <3>4, CleanAfter
    <2>3. CASE Varies(c)
      <3>1. step[c] = 2 \/ step[c] = 4 \/ step[c] = 5
        BY <1>3, <1>6, <2>3
      <3>2. /\ Settled(i, config[c]) /\ config[c].state = "whole"
            /\ step[c] > 2 => Configuration(i) = WithVariant(c)
        BY <1>1, <1>6, <2>1, <2>3, <3>1 DEF EditOK
      <3>3. Settled(i, config[c])'
        BY <1>2, <1>3, <1>6, <1>8, <1>13, <3>2, ReadStaysSettled
      <3>4. WithVariant(c)' = WithVariant(c)
        BY <1>1 DEF WithVariant, Req
      <3>5. Target(c) = ImageYAML(<<i>>) <=> step[c] = 2
        BY <1>3, <1>6, <2>3 DEF ImageYAML, Dockerfile, OwnVariant, VariantDir
      <3>6. EditOK(c)'
        BY <1>6, <1>8, <2>3, <3>1, <3>2, <3>3, <3>4, <3>5 DEF EditOK
      <3> QED BY <1>2, <1>3, <1>6, <1>8, <1>13, <3>6, CleanAfter
    <2> QED BY <1>6, <2>2, <2>3
  <1> QED BY <1>6, <1>7, <1>12, <1>13, MoveKeeps

LEMMA Appended ==
    ASSUME NEW s \in Seq(Variants), NEW v
    PROVE  ToSet(Append(s, v)) = ToSet(s) \cup {v}
  <1>1. /\ DOMAIN Append(s, v) = DOMAIN s \cup {Len(s) + 1}
        /\ Append(s, v)[Len(s) + 1] = v
        /\ \A n \in DOMAIN s : Append(s, v)[n] = s[n]
    OBVIOUS
  <1> QED BY <1>1 DEF ToSet

\* What a call writes.
LEMMA Contents ==
    ASSUME Types, NEW c \in Calls, Writing(c)
    PROVE  /\ Content(c).state = "whole" /\ Content(c).variants \in Seq(Variants)
           /\ Adds(c) => Content(c) = Whole(Req(c).base, <<>>)
           /\ Varies(c) /\ step[c] = 2 => Content(c) = WithVariant(c)
           /\ Varies(c) => WithVariant(c) =
                 [state |-> "whole", base |-> config[c].base,
                  variants |-> Append(config[c].variants, Req(c).variant)]
  <1>1. InFlight(c) /\ Edits(c) /\ (Adds(c) \/ Varies(c))
    BY Targets
  <1>2. /\ Whole(Req(c).base, <<>>).state = "whole" /\ Whole(Req(c).base, <<>>).variants \in Seq(Variants)
        /\ Whole(Req(c).variant, <<>>).state = "whole" /\ Whole(Req(c).variant, <<>>).variants \in Seq(Variants)
    BY DEF Whole
  <1>3. CASE Adds(c)
    <2>1. Content(c) = Whole(Req(c).base, <<>>)
      BY <1>3 DEF Content, Adds, Tool
    <2> QED BY <1>1, <1>2, <1>3, <2>1, Writers
  <1>4. CASE Varies(c)
    <2>1. config[c].variants \in Seq(Variants) /\ Req(c).variant \in Variants
      BY <1>4, Tools DEF Types, CallOK
    <2>2. WithVariant(c) = [state |-> "whole", base |-> config[c].base,
                            variants |-> Append(config[c].variants, Req(c).variant)]
      BY DEF WithVariant, Whole
    <2>3. WithVariant(c).state = "whole" /\ WithVariant(c).variants \in Seq(Variants)
      BY <2>1, <2>2
    <2>4. CASE At(c, "write image.yml")
      <3>1. Content(c) = WithVariant(c)
        BY <1>4, <2>4 DEF Content, Varies, Tool
      <3> QED BY <1>1, <1>4, <2>2, <2>3, <3>1, Writers
    <2>5. CASE ~ At(c, "write image.yml")
      <3>1. Content(c) = Whole(Req(c).variant, <<>>)
        BY <1>4, <2>5 DEF Content, Varies, Tool
      <3>2. step[c] # 2
        BY <1>1, <1>4, <2>5, Steps
      <3> QED BY <1>1, <1>2, <1>4, <2>2, <3>1, <3>2, Writers
    <2> QED BY <2>4, <2>5
  <1> QED BY <1>1, <1>3, <1>4

\* An add_image that is done settles its image.
LEMMA AddSettles ==
    ASSUME Inv, NEW c \in Calls, InFlight(c), Edits(c), Moves(c), Image(c) \in Clean',
           Adds(c), answer'[c] = "ok", Image(c) \notin Existing, Reported(Image(c)) = {}
    PROVE  Settled(Image(c), Whole(Req(c).base, <<>>))'
  <1>1. Reported(Image(c))' = {c}
    BY OneEdit
  <1>2. Image(c)' = Image(c) /\ Req(c)' = Req(c) /\ Adds(c)' /\ ~ Varies(c)'
    BY DEF Moves, Image, Req, Adds, Varies, Tool
  <1>3. /\ Whole(Req(c).base, <<>>)'.state = "whole"
        /\ Whole(Req(c).base, <<>>)'.base = Req(c).base
        /\ Whole(Req(c).base, <<>>)'.variants = <<>>
    BY <1>2 DEF Whole
  <1>4. ToSet(Whole(Req(c).base, <<>>)'.variants) = {}
    BY <1>3 DEF ToSet
  <1> QED BY <1>1, <1>2, <1>3, <1>4 DEF Settled

\* An add_image_variant that is done leaves its image settled.
LEMMA VariantSettles ==
    ASSUME Inv, NEW c \in Calls, InFlight(c), Edits(c), Moves(c), Image(c) \in Clean',
           Varies(c), answer'[c] = "ok", config'[c] = config[c],
           Settled(Image(c), config[c]), config[c].state = "whole",
           files[Dockerfile(OwnVariant(c))].state # "absent"
    PROVE  Settled(Image(c), WithVariant(c))'
  <1> DEFINE i == Image(c)
             w == [state |-> "whole", base |-> config[c].base,
                   variants |-> Append(config[c].variants, Req(c).variant)]
  <1>1. Types
    BY DEF Inv
  <1>2. config[c].variants \in Seq(Variants) /\ Req(c).variant \in Variants /\ i \in Images
    BY <1>1, Tools DEF Types, CallOK
  <1>3. Reported(i)' = Reported(i) \cup {c}
    BY OneEdit
  <1>4. Image(c)' = i /\ request' = request /\ Grows
    BY DEF Moves, Image, Req
  <1>5. WithVariant(c)' = w
    BY <1>4 DEF WithVariant, Whole, Req
  <1>6. ToSet(w.variants) = ToSet(config[c].variants) \cup {Req(c).variant}
    BY <1>2, Appended
  <1>7. ToSet(config[c].variants) \subseteq Variants
    BY <1>2 DEF ToSet
  <1>8. ASSUME NEW v \in ToSet(w.variants)
        PROVE  files'[Dockerfile(VariantDir(i, v))].state # "absent"
    <2>1. v \in Variants
      BY <1>2, <1>6, <1>7
    <2>2. files[Dockerfile(VariantDir(i, v))].state # "absent"
      BY <1>6 DEF Settled, OwnVariant
    <2>3. Dockerfile(VariantDir(i, v)) \in Files
      BY <1>2, <2>1, Paths
    <2> QED BY <1>4, <2>2, <2>3 DEF Grows
  <1>9. i \in Existing => w.base = i
    BY DEF Settled
  <1>10. ASSUME NEW a \in Reported(i) \cup {c}
         PROVE  (Adds(a) => w.base = Req(a).base) /\ (Varies(a) => Req(a).variant \in ToSet(w.variants))
    BY <1>6 DEF Settled, Adds, Varies
  <1>11. \A a : Adds(a)' = Adds(a) /\ Varies(a)' = Varies(a) /\ Req(a)' = Req(a)
    BY <1>4 DEF Adds, Varies, Tool, Req
  <1>12. w.state = "whole"
    OBVIOUS
  <1> HIDE DEF w
  <1> QED BY <1>3, <1>4, <1>5, <1>8, <1>9, <1>10, <1>11, <1>12 DEF Settled

LEMMA WriteKeeps ==
    ASSUME Inv, NEW c \in Calls, WriteContent(c)
    PROVE  Inv'
  <1> DEFINE i == Image(c)
             before == files[Target(c)]
  <1>1. /\ c \in opened /\ opened' = opened \ {c} /\ Advance(c)
        /\ UNCHANGED <<request, config, dirs, cache, raced, torn>>
    BY DEF WriteContent
  <1>2. PICK g : /\ files' = [files EXCEPT ![Target(c)] = g]
                 /\ g = Content(c) \/ (g = Mixed /\ before # Empty)
    BY DEF WriteContent
  <1>3. Types /\ ProgressOK(c) /\ Writing(c) /\ InFlight(c)
    BY <1>1 DEF Inv, Types, CallOK, Writing
  <1>4. /\ Edits(c) /\ i \in Images /\ Target(c) \in Files
        /\ \/ Adds(c) /\ step[c] = 3 /\ Target(c) = Dockerfile(<<i>>)
           \/ Adds(c) /\ step[c] = 4 /\ Target(c) = ImageYAML(<<i>>)
           \/ Varies(c) /\ step[c] = 2 /\ Target(c) = ImageYAML(<<i>>)
           \/ Varies(c) /\ step[c] = 4 /\ Target(c) = Dockerfile(OwnVariant(c))
           \/ Varies(c) /\ step[c] = 5 /\ Target(c) = ImageYAML(OwnVariant(c))
    BY <1>3, Targets
  <1>5. g.state \in FileStates \ {"absent"} /\ g.variants \in Seq(Variants)
    <2>1. Mixed.state = "mixed" /\ Mixed.variants \in Seq(Variants)
      BY DEF Mixed
    <2>2. Content(c).state = "whole" /\ Content(c).variants \in Seq(Variants)
      BY <1>3, Contents
    <2> QED BY <1>2, <2>1, <2>2 DEF FileStates
  <1>6. /\ step' = [a \in Calls |-> step'[a]]
        /\ answer' \in [Calls -> {"none", "ok", "error", "lost"}]
        /\ \A a \in Calls : a # c => step'[a] = step[a] /\ answer'[a] = answer[a]
    BY <1>1, <1>3, Advances
  <1>7. opened' \subseteq Calls /\ \A a \in Calls : a # c => (a \in opened' <=> a \in opened)
    BY <1>1, <1>3 DEF Types, Shapes
  <1>8. /\ Moves(c) /\ Shapes' /\ ImageOK(i)' /\ Grows
        /\ files'[Target(c)] = g
        /\ Configuration(i)' = IF Target(c) = ImageYAML(<<i>>) THEN g ELSE Configuration(i)
        /\ Image(c)' = i /\ OwnVariant(c)' = OwnVariant(c) /\ Edits(c)'
        /\ Adds(c)' = Adds(c) /\ Varies(c)' = Varies(c) /\ (Adds(c) <=> ~ Varies(c))
    BY <1>1, <1>2, <1>3, <1>5, <1>6, <1>7, WriteMoves
  <1>9. c \notin opened' /\ config'[c] = config[c] /\ config'[c].variants \in Seq(Variants)
    BY <1>1, <1>3 DEF Types, CallOK
  <1>10. CallOK(c)'
    BY <1>1, <1>3, <1>9, CallMoves
  <1>11. ImageYAML(<<i>>) \in Files /\ Dockerfile(<<i>>) \in Files
         /\ (Varies(c) => Dockerfile(OwnVariant(c)) \in Files)
    BY <1>3, <1>4, Tools, Paths DEF Files, Dirs, OwnVariant
  <1>12. (Adds(c) => step[c] = 3 \/ step[c] = 4)
         /\ (Varies(c) => step[c] = 2 \/ step[c] = 4 \/ step[c] = 5)
    BY <1>4, <1>8
  <1>13. CASE step[c] = 3
    <2>1. Adds(c) /\ Target(c) = Dockerfile(<<i>>) /\ Target(c) # ImageYAML(<<i>>)
      BY <1>4, <1>13 DEF ImageYAML, Dockerfile
    <2>2. step'[c] = 4 /\ answer'[c] = "none" /\ InFlight(c)'
      BY <1>1, <1>3, <1>13, <2>1, GoesOn
    <2>3. (Dockerfiles(i).state # "absent")'
      BY <1>5, <1>8, <2>1 DEF Dockerfiles, Dockerfile
    <2>4. <<i>> \in dirs
      BY <1>3, <1>13, <2>1 DEF ProgressOK
    <2>5. ProgressOK(c)'
      BY <1>1, <1>8, <2>1, <2>2, <2>3, <2>4 DEF ProgressOK
    <2>6. ASSUME i \in Clean' PROVE CleanOK(i)'
      <3>1. EditOK(c) /\ Reported(i)' = Reported(i)
        BY <1>3, <1>4, <1>8, <2>2, <2>6, OneEdit
      <3>2. i \notin Existing /\ Reported(i) = {} /\ Configuration(i).state = "absent"
        BY <1>13, <2>1, <3>1 DEF EditOK
      <3>3. EditOK(c)'
        BY <1>8, <1>9, <2>1, <2>2, <3>1, <3>2 DEF EditOK
      <3> QED BY <1>3, <1>4, <1>8, <2>2, <2>6, <3>3, CleanAfter
    <2> QED BY <1>8, <1>10, <2>5, <2>6, MoveKeeps
  <1>14. CASE Adds(c) /\ step[c] = 4
    <2>1. Target(c) = ImageYAML(<<i>>)
      BY <1>4, <1>8, <1>14
    <2>2. answer'[c] = "ok" /\ ~ InFlight(c)'
      BY <1>1, <1>3, <1>14, Ends
    <2>3. Present(i)'
      BY <1>5, <1>8, <2>1 DEF Present
    <2>4. ProgressOK(c)'
      BY <1>8, <2>2, <2>3 DEF ProgressOK
    <2>5. ASSUME i \in Clean' PROVE CleanOK(i)'
      <3>1. EditOK(c)
        BY <1>3, <1>4, <1>8, <2>5, OneEdit
      <3>2. i \notin Existing /\ Reported(i) = {} /\ Configuration(i) = Empty
        BY <1>1, <1>14, <3>1 DEF EditOK
      <3>3. before = Empty
        BY <2>1, <3>2 DEF Configuration
      <3>4. g = Whole(Req(c).base, <<>>)
        BY <1>2, <1>3, <1>14, <3>3, Contents
      <3>5. Settled(i, Whole(Req(c).base, <<>>))'
        BY <1>3, <1>4, <1>8, <1>14, <2>2, <2>5, <3>2, AddSettles
      <3>6. Configuration(i)' = Whole(Req(c).base, <<>>)'
        BY <1>1, <1>8, <2>1, <3>4 DEF Req, Whole
      <3>7. Settled(i, Configuration(i))'
        BY <3>5, <3>6
      <3> QED BY <1>3, <1>4, <1>8, <2>2, <2>5, <3>7, CleanAfter
    <2> QED BY <1>8, <1>10, <2>4, <2>5, MoveKeeps
  <1>15. CASE Varies(c) /\ (step[c] = 2 \/ step[c] = 4)
    <2>1. step'[c] = step[c] + 1 /\ answer'[c] = "none" /\ InFlight(c)'
      BY <1>1, <1>3, <1>15, GoesOn
    <2>2. Present(i)'
      <3>1. Present(i)
        BY <1>3, <1>15 DEF ProgressOK
      <3> QED BY <1>8, <1>11, <3>1 DEF Grows, Present, Configuration
    <2>3. step[c] = 4 => files'[Dockerfile(OwnVariant(c))].state # "absent"
      BY <1>4, <1>5, <1>8, <1>15
    <2>4. ProgressOK(c)'
      BY <1>8, <1>15, <2>1, <2>2, <2>3 DEF ProgressOK
    <2>5. ASSUME i \in Clean' PROVE CleanOK(i)'
      <3>1. EditOK(c)
        BY <1>3, <1>4, <1>8, <2>5, OneEdit
      <3>2. /\ Settled(i, config[c]) /\ config[c].state = "whole"
            /\ step[c] = 4 => Configuration(i) = WithVariant(c)
            /\ step[c] = 2 => Configuration(i) = Empty
        BY <1>1, <1>15, <3>1 DEF EditOK
      <3>3. Settled(i, config[c])'
        BY <1>3, <1>4, <1>8, <1>9, <2>1, <2>5, <3>2, ReadStaysSettled
      <3>4. WithVariant(c)' = WithVariant(c)
        BY <1>1 DEF WithVariant, Req
      <3>5. ASSUME step[c] = 2 PROVE Configuration(i)' = WithVariant(c)'
        <4>1. Target(c) = ImageYAML(<<i>>)
          BY <1>4, <1>15, <3>5
        <4>2. before = Empty
          BY <3>2, <3>5, <4>1 DEF Configuration
        <4>3. g = WithVariant(c)
          BY <1>2, <1>3, <1>15, <3>5, <4>2, Contents
        <4>4. Configuration(i)' = g
          BY <1>8, <4>1
        <4> QED BY <3>4, <4>3, <4>4
      <3>6. ASSUME step[c] = 4 PROVE Configuration(i)' = WithVariant(c)'
        <4>1. Target(c) # ImageYAML(<<i>>)
          BY <1>4, <1>8, <1>15, <3>6 DEF ImageYAML, Dockerfile, OwnVariant, VariantDir
        <4>2. Configuration(i)' = Configuration(i)
          BY <1>8, <4>1
        <4> QED BY <3>2, <3>4, <3>6, <4>2
      <3>7. Configuration(i)' = WithVariant(c)'
        BY <1>15, <3>5, <3>6
      <3>8. EditOK(c)'
        BY <1>8, <1>9, <1>15, <2>1, <3>2, <3>3, <3>7 DEF EditOK
      <3> QED BY <1>3, <1>4, <1>8, <2>1, <2>5, <3>8, CleanAfter
    <2> QED BY <1>8, <1>10, <2>4, <2>5, MoveKeeps
  <1>16. CASE Varies(c) /\ step[c] = 5
    <2>1. Target(c) = ImageYAML(OwnVariant(c)) /\ Target(c) # ImageYAML(<<i>>)
      BY <1>4, <1>8, <1>16 DEF ImageYAML, OwnVariant, VariantDir
    <2>2. answer'[c] = "ok" /\ ~ InFlight(c)'
      BY <1>1, <1>3, <1>16, Ends
    <2>3. Present(i)'
      <3>1. Present(i)
        BY <1>3, <1>16 DEF ProgressOK
      <3> QED BY <1>8, <1>11, <3>1 DEF Grows, Present, Configuration
    <2>4. ProgressOK(c)'
      BY <1>8, <2>2, <2>3 DEF ProgressOK
    <2>5. ASSUME i \in Clean' PROVE CleanOK(i)'
      <3>1. EditOK(c)
        BY <1>3, <1>4, <1>8, <2>5, OneEdit
      <3>2. /\ Settled(i, config[c]) /\ config[c].state = "whole"
            /\ Configuration(i) = WithVariant(c)
        BY <1>16, <3>1 DEF EditOK
      <3>3. files[Dockerfile(OwnVariant(c))].state # "absent"
        BY <1>3, <1>16 DEF ProgressOK
      <3>4. Settled(i, WithVariant(c))'
        BY <1>3, <1>4, <1>8, <1>9, <1>16, <2>2, <2>5, <3>2, <3>3, VariantSettles
      <3>5. Configuration(i)' = WithVariant(c)'
        BY <1>1, <1>8, <2>1, <3>2 DEF WithVariant, Req
      <3>6. Settled(i, Configuration(i))'
        BY <3>4, <3>5
      <3> QED BY <1>3, <1>4, <1>8, <2>2, <2>5, <3>6, CleanAfter
    <2> QED BY <1>8, <1>10, <2>4, <2>5, MoveKeeps
  <1> QED BY <1>8, <1>12, <1>13, <1>14, <1>15, <1>16

LEMMA FailsKeeps ==
    ASSUME Inv, NEW c \in Calls, EditFails(c)
    PROVE  Inv'
  <1> DEFINE i == Image(c)
  <1>1. /\ At(c, "mkdir") \/ At(c, "mkdir variant") \/ Writing(c)
        /\ UNCHANGED files \/ (c \in opened /\ files' = [files EXCEPT ![Target(c)] = Mixed])
        /\ opened' = opened \ {c} /\ torn' = torn \cup {i} /\ Answer(c, "error")
        /\ UNCHANGED <<request, config, dirs, cache, raced>>
    BY DEF EditFails, Image
  <1>2. Types /\ InFlight(c)
    BY <1>1 DEF Inv, At, Writing
  <1>3. Edits(c) /\ i \in Images
    <2>1. Adds(c) \/ Varies(c)
      BY <1>1, <1>2, Steps
    <2> QED BY <1>2, <2>1, Tools
  <1>4. /\ step' = [a \in Calls |-> step'[a]]
        /\ answer' \in [Calls -> {"none", "ok", "error", "lost"}]
        /\ \A a \in Calls : a # c => step'[a] = step[a] /\ answer'[a] = answer[a]
        /\ answer'[c] = "error" /\ ~ InFlight(c)'
    BY <1>1, <1>2, Answers
  <1>5. opened' \subseteq Calls /\ \A a \in Calls : a # c => (a \in opened' <=> a \in opened)
    BY <1>1, <1>2 DEF Types, Shapes
  <1>6. Moves(c) /\ Shapes' /\ ImageOK(i)'
    <2>1. CASE UNCHANGED files
      <3>1. Grows
        BY <1>1, <2>1 DEF Grows
      <3>2. Moves(c)
        BY <1>1, <1>4, <1>5, <2>1, <3>1 DEF Moves, Stays, Configuration
      <3>3. Shapes'
        BY <1>1, <1>2, <1>4, <1>5, <2>1 DEF Types, Shapes, cache
      <3>4. ImageOK(i) /\ Image(c)' = i
        BY <1>1, <1>3 DEF Inv, Image, Req
      <3>5. ImageOK(i)'
        BY <1>1, <2>1, <3>4 DEF ImageOK, Present, Configuration, Dockerfiles
      <3> QED BY <3>2, <3>3, <3>5
    <2>2. CASE c \in opened /\ files' = [files EXCEPT ![Target(c)] = Mixed]
      <3>1. Writing(c)
        BY <1>2, <2>2 DEF Types, CallOK
      <3>2. Mixed.state \in FileStates \ {"absent"} /\ Mixed.variants \in Seq(Variants)
        BY DEF Mixed, FileStates
      <3>3. torn \subseteq torn' /\ raced \subseteq raced'
        BY <1>1
      <3> QED BY <1>1, <1>4, <1>5, <2>2, <3>1, <3>2, <3>3, WriteMoves
    <2> QED BY <1>1, <2>1, <2>2
  <1>7. CallOK(c)'
    <2>1. c \notin opened' /\ config'[c].variants \in Seq(Variants)
      BY <1>1, <1>2 DEF Types, CallOK
    <2> QED BY <1>1, <1>2, <2>1, CallMoves
  <1>8. ProgressOK(c)'
    BY <1>4 DEF ProgressOK
  <1>9. Image(c)' = i /\ i \notin Clean'
    BY <1>1 DEF Clean, Image, Req
  <1> QED BY <1>6, <1>7, <1>8, <1>9, MoveKeeps

\* A call for an image that no other call edits finds what those before it left.
LEMMA CallKeeps ==
    ASSUME Inv, NEW c \in Calls, Call(c)
    PROVE  Inv'
  <1> DEFINE i == Image(c)
  <1>1. /\ step[c] = 0 /\ step' = [step EXCEPT ![c] = 1]
        /\ raced' = raced \cup {j \in Images : Edits(c) /\ Req(c).image = j /\ EditsOf(j) # {}}
        /\ UNCHANGED <<request, opened, config, answer, dirs, files, cache, torn>>
    BY DEF Call, project
  <1>2. Types /\ answer[c] = "none" /\ ProgressOK(c)
    BY <1>1 DEF Inv, Types, CallOK
  <1>3. step'[c] = 1 /\ step' = [a \in Calls |-> step'[a]]
        /\ \A a \in Calls : a # c => step'[a] = step[a]
    BY <1>1, <1>2 DEF Types, Shapes
  <1>4. Grows
    BY <1>1 DEF Grows
  <1>5. Moves(c)
    BY <1>1, <1>3, <1>4 DEF Moves, Stays, Configuration
  <1>6. Shapes'
    BY <1>1, <1>2, <1>3 DEF Types, Shapes, cache
  <1>7. CallOK(c)'
    <2>1. Len(Program[Tool(c)]) \in {1, 4, 5} /\ Program[Tool(c)]' = Program[Tool(c)]
      BY <1>1, <1>2, Lengths DEF Tool, Req
    <2>2. c \notin opened'
      <3>1. ~ InFlight(c) /\ (c \in opened => Writing(c))
        BY <1>1, <1>2 DEF Types, CallOK, InFlight
      <3> QED BY <1>1, <3>1 DEF Writing
    <2>3. config'[c].variants \in Seq(Variants)
      BY <1>1, <1>2 DEF Types, CallOK
    <2>4. 1 \in 0 .. Len(Program[Tool(c)]) /\ 1 # 0
      <3>1. \A m \in {1, 4, 5} : 1 \in 0 .. m
        OBVIOUS
      <3>2. 1 \in 0 .. Len(Program[Tool(c)])
        BY <2>1, <3>1, Zenon
      <3> QED BY <3>2
    <2>5. step'[c] \in 0 .. Len(Program[Tool(c)])' /\ step'[c] # 0
      BY <1>3, <2>1, <2>4
    <2> QED BY <2>2, <2>3, <2>5 DEF CallOK
  <1>8. ProgressOK(c)'
    BY <1>1, <1>2, <1>3 DEF ProgressOK
  <1>9. Image(c)' = i /\ Edits(c)' = Edits(c) /\ Adds(c)' = Adds(c) /\ Varies(c)' = Varies(c)
    BY <1>1 DEF Image, Edits, Adds, Varies, Tool, Req
  <1>10. ASSUME Edits(c) PROVE ImageOK(i)'
    <2>1. ImageOK(i)
      BY <1>2, <1>10, Tools DEF Inv
    <2> QED BY <1>1, <1>9, <2>1 DEF ImageOK, Present, Configuration, Dockerfiles
  <1>11. ASSUME Edits(c), i \in Clean' PROVE CleanOK(i)'
    <2>1. i \in Images /\ i \in Clean /\ EditsOf(i) = {}
      BY <1>1, <1>2, <1>11, Tools DEF Clean, Image
    <2>2. Settled(i, Configuration(i))
      BY <2>1 DEF Inv, CleanOK
    <2>3. Reported(i)' = Reported(i)
      BY <1>1, <1>9 DEF Reported, Edits, Image, Req
    <2>4. \A j, f : Settled(j, f)' <=>
             /\ f.state \in {"absent", "whole"}
             /\ \A v \in ToSet(f.variants) :
                   f.state = "whole" => files[Dockerfile(VariantDir(j, v))].state # "absent"
             /\ j \in Existing => f.base = j
             /\ \A a \in Reported(j)' :
                   /\ Adds(a) => f.base = Req(a).base
                   /\ Varies(a) => Req(a).variant \in ToSet(f.variants)
      BY <1>1 DEF Settled, Adds, Varies, Tool, Req
    <2>5. Configuration(i)' = Configuration(i)
      BY <1>1, <1>9 DEF Configuration
    <2>6. Settled(i, Configuration(i))'
      BY <1>9, <2>2, <2>3, <2>4, <2>5 DEF Settled
    <2>7. EditsOf(i)' = {c}
      <3>1. \A a \in Calls : a # c => InFlight(a)' = InFlight(a)
        BY <1>1, <1>3 DEF InFlight
      <3>2. InFlight(c)' /\ ~ InFlight(c)
        BY <1>1, <1>2, <1>3 DEF InFlight
      <3> QED BY <1>1, <1>9, <1>11, <2>1, <3>1, <3>2 DEF EditsOf, Edits, Image, Req
    <2>8. EditOK(c)'
      BY <1>3, <1>9, <2>6 DEF EditOK
    <2> QED BY <1>9, <2>7, <2>8 DEF CleanOK
  <1> QED BY <1>5, <1>6, <1>7, <1>8, <1>10, <1>11, MoveKeeps

\* The server dies: whoever was editing an image leaves it torn.
LEMMA DieKeeps ==
    ASSUME Inv, Die
    PROVE  Inv'
  <1>1. /\ answer' = [c \in Calls |-> IF InFlight(c) THEN "lost" ELSE answer[c]]
        /\ opened' = {} /\ torn' = torn \cup {i \in Images : EditsOf(i) # {}}
        /\ cached' = [p \in Pages |-> "none"] /\ inMap' = {} /\ mu' = {}
        /\ UNCHANGED <<request, step, config, dirs, files, raced>>
    BY DEF Die, project
  <1>2. Types
    BY DEF Inv
  <1>3. Shapes'
    <2>1. answer' \in [Calls -> {"none", "ok", "error", "lost"}]
      BY <1>1, <1>2 DEF Types, Shapes
    <2> QED BY <1>1, <1>2, <2>1 DEF Types, Shapes
  <1>4. ASSUME NEW c \in Calls
        PROVE  /\ ~ InFlight(c)' /\ (answer'[c] = "ok" <=> answer[c] = "ok")
               /\ answer'[c] = "none" <=> (answer[c] = "none" /\ ~ InFlight(c))
               /\ Image(c)' = Image(c) /\ Edits(c)' = Edits(c)
               /\ Adds(c)' = Adds(c) /\ Varies(c)' = Varies(c)
    BY <1>1 DEF InFlight, Image, Edits, Adds, Varies, Tool, Req
  <1>5. ASSUME NEW c \in Calls PROVE CallOK(c)'
    <2>1. CallOK(c)
      BY <1>2 DEF Types
    <2>2. step[c] = 0 => answer'[c] = "none"
      BY <1>1, <2>1 DEF CallOK, InFlight
    <2> QED BY <1>1, <2>1, <2>2 DEF CallOK, Tool, Req
  <1>6. ASSUME NEW i \in Images PROVE ImageOK(i)'
    BY <1>1 DEF Inv, ImageOK, Present, Configuration, Dockerfiles
  <1>7. ASSUME NEW c \in Calls PROVE ProgressOK(c)'
    <2>1. answer[c] = "ok" /\ Edits(c) => Present(Image(c))
      BY DEF Inv, ProgressOK
    <2>2. Present(Image(c))' = Present(Image(c))
      BY <1>1, <1>4 DEF Present, Configuration
    <2> QED BY <1>4, <2>1, <2>2 DEF ProgressOK
  <1>8. ASSUME NEW i \in Clean' PROVE CleanOK(i)'
    <2>1. i \in Clean /\ EditsOf(i) = {}
      BY <1>1 DEF Clean
    <2>2. Settled(i, Configuration(i))
      BY <2>1 DEF Inv, CleanOK
    <2>3. EditsOf(i)' = {}
      BY <1>4 DEF EditsOf
    <2>4. Reported(i)' = Reported(i)
      BY <1>4 DEF Reported
    <2>5. Settled(i, Configuration(i))'
      BY <1>1, <2>2, <2>4 DEF Settled, Configuration, Adds, Varies, Tool, Req
    <2> QED BY <2>3, <2>5 DEF CleanOK
  <1> QED BY <1>3, <1>5, <1>6, <1>7, <1>8 DEF Inv, Types, Clean

LEMMA InitInv ==
    ASSUME Init
    PROVE  Inv
  <1>0. /\ Absent.state = "absent" /\ Absent.variants = <<>> /\ <<>> \in Seq(Variants)
        /\ \A b : Whole(b, <<>>).state = "whole" /\ Whole(b, <<>>).base = b
                 /\ Whole(b, <<>>).variants = <<>>
    BY DEF Whole, Absent
  <1>1. ASSUME NEW f \in Files
        PROVE  /\ files[f] = IF f[1] \in dirs THEN Whole(f[1][1], <<>>) ELSE Absent
               /\ files[f].state \in {"absent", "whole"} /\ files[f].variants = <<>>
    BY <1>0 DEF Init
  <1>2. dirs \subseteq Dirs
    BY ExistingAssumption DEF Dirs, Init
  <1>3. Shapes
    <2>1. \A f \in Files : files[f].state \in FileStates /\ files[f].variants \in Seq(Variants)
      BY <1>0, <1>1 DEF FileStates
    <2>2. /\ step = [c \in Calls |-> step[c]] /\ config = [c \in Calls |-> config[c]]
          /\ files = [f \in Files |-> files[f]]
      BY DEF Init
    <2>3. /\ request \in Workloads /\ opened \in SUBSET Calls
          /\ answer \in [Calls -> {"none", "ok", "error", "lost"}]
          /\ cached \in [Pages -> {"none", "valid", "expired"}]
          /\ inMap = {} /\ mu = {}
      BY DEF Init
    <2> QED BY <1>2, <2>1, <2>2, <2>3 DEF Shapes
  <1>4. ASSUME NEW c \in Calls PROVE ~ InFlight(c) /\ answer[c] = "none"
    BY DEF InFlight, Init
  <1>5. ASSUME NEW c \in Calls PROVE CallOK(c)
    <2>1. Len(Program[Tool(c)]) \in {1, 4, 5}
      <3>1. /\ Program["add_image"] = AddSteps /\ Program["add_image_variant"] = VarySteps
            /\ Program["list_images"] = DiscoverSteps
            /\ Program["get_documentation"] = DocumentationSteps
        BY DEF Program, AddSteps, VarySteps, DiscoverSteps, DocumentationSteps
      <3>2. Tool(c) \in {"add_image", "add_image_variant", "list_images", "get_documentation"}
        BY WorkloadsAssumption DEF Tool, Req, Init
      <3> QED BY <3>1, <3>2, Programs
    <2>2. config[c].variants \in Seq(Variants)
      BY <1>0 DEF Init
    <2>3. step[c] = 0 /\ c \notin opened
      BY DEF Init
    <2>4. 0 \in 0 .. Len(Program[Tool(c)])
      BY <2>1
    <2> QED BY <1>4, <2>2, <2>3, <2>4 DEF CallOK
  <1>6. ASSUME NEW i \in Images
        PROVE  /\ ImageYAML(<<i>>) \in Files /\ Dockerfile(<<i>>) \in Files
               /\ ImageYAML(<<i>>)[1] = <<i>> /\ Dockerfile(<<i>>)[1] = <<i>> /\ <<i>>[1] = i
    BY DEF Files, Dirs, ImageYAML, Dockerfile
  <1>7. ASSUME NEW i \in Images
        PROVE  /\ Configuration(i) = IF i \in Existing THEN Whole(i, <<>>) ELSE Absent
               /\ Dockerfiles(i) = IF i \in Existing THEN Whole(i, <<>>) ELSE Absent
               /\ i \in Existing => <<i>> \in dirs
    <2>1. <<i>> \in dirs <=> i \in Existing
      BY DEF Init
    <2> QED BY <1>1, <1>6, <2>1 DEF Configuration, Dockerfiles
  <1>8. ASSUME NEW i \in Images PROVE ImageOK(i)
    BY <1>0, <1>7 DEF ImageOK, Present
  <1>9. ASSUME NEW c \in Calls PROVE ProgressOK(c)
    BY <1>4 DEF ProgressOK
  <1>10. ASSUME NEW i \in Images PROVE CleanOK(i)
    <2>1. EditsOf(i) = {} /\ Reported(i) = {}
      BY <1>4 DEF EditsOf, Reported
    <2>2. /\ Configuration(i).state \in {"absent", "whole"} /\ Configuration(i).variants = <<>>
          /\ i \in Existing => Configuration(i).base = i
      BY <1>0, <1>7
    <2>3. ToSet(Configuration(i).variants) = {}
      BY <2>2 DEF ToSet
    <2> QED BY <2>1, <2>2, <2>3 DEF CleanOK, Settled
  <1> QED BY <1>3, <1>5, <1>8, <1>9, <1>10 DEF Inv, Types, Clean

LEMMA NextInv ==
    ASSUME Inv, [Next]_vars
    PROVE  Inv'
  <1>1. CASE UNCHANGED vars
    <2>1. UNCHANGED <<request, step, opened, config, answer, dirs, files, cached, inMap, mu, raced, torn>>
      BY <1>1 DEF vars, calls, project, cache
    <2>2. Grows /\ \A a \in Calls : Stays(a)
      BY <2>1 DEF Grows, Stays
    <2>3. \A i \in Images : ImageOK(i)'
      BY <2>1 DEF Inv, ImageOK, Present, Configuration, Dockerfiles
    <2>4. Types'
      <3>1. Shapes'
        BY <2>1 DEF Inv, Types, Shapes
      <3> QED BY <2>1, <2>2, <3>1, CallKept DEF Inv, Types
    <2>5. \A c \in Calls : ProgressOK(c)'
      BY <2>1, <2>2, ProgressKept DEF Inv
    <2>6. ASSUME NEW i \in Clean' PROVE CleanOK(i)'
      <3>1. i \in Images /\ CleanOK(i) /\ Configuration(i)' = Configuration(i)
        BY <2>1 DEF Inv, Clean, Configuration
      <3> QED BY <2>1, <2>2, <3>1, CleanKept DEF Inv
    <2> QED BY <2>3, <2>4, <2>5, <2>6 DEF Inv, Clean
  <1>2. ASSUME NEW c \in Calls, Call(c) PROVE Inv'
    BY <1>2, CallKeeps
  <1>3. ASSUME NEW c \in Calls, Handle(c) PROVE Inv'
    BY <1>3, StatKeeps, MkdirKeeps, ReadKeeps, TruncateKeeps, WriteKeeps, FailsKeeps, OthersKeep
       DEF Handle
  <1>4. ASSUME NEW p \in Pages, Expire(p) PROVE Inv'
    BY <1>4, ExpireKeeps
  <1>5. CASE FatalError \/ Kill
    BY <1>5, DieKeeps DEF FatalError, Kill
  <1> QED BY <1>1, <1>2, <1>3, <1>4, <1>5 DEF Next

\* What the invariant says of a client's view.
LEMMA InvImplies ==
    ASSUME Inv
    PROVE  McpInvariant
  <1>1. Types
    BY DEF Inv
  <1>2. ASSUME NEW c \in Calls PROVE step[c] \in 0 .. 5
    <2>1. Len(Program[Tool(c)]) \in {1, 4, 5} /\ step[c] \in 0 .. Len(Program[Tool(c)])
      BY <1>1, Lengths DEF Types, CallOK
    <2>2. \A n \in {1, 4, 5} : 0 .. n \subseteq 0 .. 5
      OBVIOUS
    <2> QED BY <2>1, <2>2
  <1>3. mu \in SUBSET Calls /\ Cardinality(mu) <= 1
    <2>1. Cardinality({}) = 0 /\ \A c \in Calls : Cardinality({c}) = 1
      BY FS_EmptySet, FS_Singleton
    <2>2. mu \subseteq Calls /\ (mu = {} \/ \E c \in Calls : mu = {c})
      BY <1>1 DEF Types, Shapes
    <2>3. CASE mu = {}
      <3>1. Cardinality(mu) = 0
        BY <2>1, <2>3
      <3> QED BY <2>2, <3>1
    <2>4. ASSUME NEW c \in Calls, mu = {c} PROVE Cardinality(mu) <= 1
      <3>1. Cardinality(mu) = 1
        BY <2>1, <2>4
      <3> QED BY <3>1
    <2> QED BY <2>2, <2>3, <2>4
  <1>4. TypeOK
    <2>1. step \in [Calls -> 0 .. 5]
      BY <1>1, <1>2 DEF Types, Shapes
    <2> QED BY <1>1, <1>3, <2>1 DEF Types, Shapes, TypeOK
  <1>5. HalfAddedIsInvisible
    BY DEF HalfAddedIsInvisible, Inv, ImageOK, Present, Configuration, Dockerfiles
  <1>6. ASSUME NEW i \in Clean, EditsOf(i) = {}
        PROVE  /\ Settled(i, Configuration(i)) /\ ImageOK(i) /\ i \in Images
               /\ Reported(i) # {} => Present(i)
    BY <1>6 DEF Inv, CleanOK, ProgressOK, Reported, Clean
  <1>7. \A c : (Tool(c) = "add_image" <=> Adds(c)) /\ (Tool(c) = "add_image_variant" <=> Varies(c))
               /\ (Adds(c) \/ Varies(c) <=> Edits(c))
    BY DEF Adds, Varies, Edits, Tool
  <1>8. EditsAddUp
    <2> SUFFICES ASSUME NEW i \in Images \ (raced \cup torn), EditsOf(i) = {}
        PROVE  LET f == files[ImageYAML(<<i>>)]
                   Answered(tool) ==
                       {c \in Calls : answer[c] = "ok" /\ Req(c).tool = tool /\ Req(c).image = i}
               IN  /\ Loads(i)
                   /\ (i \in Existing \/ Answered("add_image") # {}) =>
                         f.state = "whole" /\ (i \in Existing => f.base = i)
                   /\ \A c \in Answered("add_image") : f.base = Req(c).base
                   /\ \A c \in Answered("add_image_variant") : Req(c).variant \in ToSet(f.variants)
      BY DEF EditsAddUp
    <2>1. /\ Settled(i, Configuration(i)) /\ ImageOK(i)
          /\ Reported(i) # {} => Present(i)
      BY <1>6 DEF Clean
    <2>2. Loads(i)
      BY <2>1 DEF Settled, ImageOK, Present, Configuration, Dockerfiles, Loads
    <2>3. i \in Existing \/ Reported(i) # {} => Configuration(i).state = "whole"
      BY <2>1 DEF Settled, ImageOK, Present
    <2>4. \A c \in Calls : answer[c] = "ok" /\ (Adds(c) \/ Varies(c)) /\ Req(c).image = i => c \in Reported(i)
      BY <1>7 DEF Reported, Image
    <2> QED BY <1>7, <2>1, <2>2, <2>3, <2>4 DEF Settled, Configuration, Tool
  <1> QED BY <1>4, <1>5, <1>8 DEF McpInvariant

\* McpInvariant, for any number of calls, images and deaths of the server:
\* calls and files keep their types and Set its mutex, an image.yml never stands
\* without its Dockerfile, and edits of one image that neither overlap nor fail
\* all end up in its definition (add_image and add_image_variant).
THEOREM McpSafety == Spec => []McpInvariant
  <1>1. Init => Inv
    BY InitInv
  <1>2. Inv /\ [Next]_vars => Inv'
    BY NextInv
  <1>3. Inv => McpInvariant
    BY InvImplies
  <1> QED BY <1>1, <1>2, <1>3, PTL DEF Spec
=============================================================================
