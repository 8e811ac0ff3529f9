--------------------------- MODULE DependencyGraph ---------------------------
(***************************************************************************)
(* How `ch build`, `ch changes` and `ch finalize` arrive at a build order: *)
(* deps.ResolveOrder scans the rendered dist directory for __hive__/       *)
(* references, merges depends_on declarations and the parents of Nix and   *)
(* Chisel images, and sorts the resulting graph with Kahn's algorithm.     *)
(*                                                                         *)
(* An image name is represented by its rank in the alphabetical order that *)
(* slices.Sort uses, so "alphabetically smallest" is <=.                   *)
(***************************************************************************)
EXTENDS Naturals, Sequences, FiniteSets

CONSTANTS Names,        \* image names that a reference can mention
          Malformed     \* a __hive__/ parent without a name or without a tag

ASSUME NamesAssumption ==
    /\ Names \subseteq Nat
    /\ IsFiniteSet(Names)
    /\ Malformed \notin Names

VARIABLES
    \* The inputs, fixed for the whole run.
    dist,       \* directories of the rendered dist directory
    project,    \* keys of project.ImagesByName
    hiveRefs,   \* hiveRefs[i]: images the Dockerfiles under dist/i refer to
    dependsOn,  \* dependsOn[i]: the depends_on entries of i's definitions
    parents,    \* parents[i]: __hive__/ parents of i's Nix and Chisel builds
    \* The graph, and the local variables of the sort.
    nodes, edges, todo, inDegree, queue, order,
    pc, result

inputs == <<dist, project, hiveRefs, dependsOn, parents>>
vars == <<inputs, nodes, edges, todo, inDegree, queue, order, pc, result>>

-----------------------------------------------------------------------------
NewGraph ==
    /\ nodes = {}
    /\ edges = [i \in Names |-> {}]

Init ==
    /\ dist \in SUBSET Names
    /\ project \in SUBSET Names
    /\ hiveRefs \in [Names -> SUBSET Names]
    /\ dependsOn \in [Names -> SUBSET Names]
    /\ parents \in [Names -> SUBSET (Names \cup {Malformed})]
    /\ NewGraph
    /\ todo = {}
    /\ inDegree = [i \in Names |-> 0]
    /\ queue = {}
    /\ order = << >>
    /\ pc = "scan"
    /\ result = "none"

Return(r) ==
    /\ pc' = "done"
    /\ result' = r

\* Every visible directory is a node, and refers to every other image that one
\* of its Dockerfiles names, whether that image is a node or not.
ScanRenderedProject ==
    /\ pc = "scan"
    /\ nodes' = dist
    /\ edges' = [i \in Names |-> IF i \in dist THEN hiveRefs[i] \ {i} ELSE {}]
    /\ todo' = project
    /\ pc' = "merge"
    /\ UNCHANGED <<inputs, inDegree, queue, order, result>>

\* A directory or a Dockerfile that cannot be read.
ScanFails ==
    /\ pc = "scan"
    /\ Return("scan error")
    /\ UNCHANGED <<inputs, nodes, edges, todo, inDegree, queue, order>>

\* BuildDependencyGraph visits the images in map order. A depends_on entry of
\* the image itself is an edge, a parent of the same image is not.
Declared(i) == dependsOn[i] \cup (parents[i] \ {i})

\* Mutated form: only depends_on entries become edges.
MergeImageWithoutParents(i) ==
    /\ pc = "merge"
    /\ i \in todo
    /\ dependsOn[i] \cup parents[i] \subseteq project
    /\ todo' = todo \ {i}
    /\ nodes' = nodes \cup {i}
    /\ edges' = [edges EXCEPT ![i] = @ \cup dependsOn[i]]
    /\ UNCHANGED <<inputs, inDegree, queue, order, pc, result>>

MergeImage(i) ==
    /\ pc = "merge"
    /\ i \in todo
    /\ dependsOn[i] \cup parents[i] \subseteq project
    /\ todo' = todo \ {i}
    /\ nodes' = nodes \cup {i}
    /\ edges' = [edges EXCEPT ![i] = @ \cup Declared(i)]
    /\ UNCHANGED <<inputs, inDegree, queue, order, pc, result>>

\* An unknown depends_on, an unknown parent, or a parent without name or tag.
MergeFails(i) ==
    /\ pc = "merge"
    /\ i \in todo
    /\ ~ (dependsOn[i] \cup parents[i] \subseteq project)
    /\ Return("unknown dependency")
    /\ UNCHANGED <<inputs, nodes, edges, todo, inDegree, queue, order>>

\* TopologicalSort counts the dependencies of every image and queues the
\* nodes that have none.
StartSort ==
    /\ pc = "merge"
    /\ todo = {}
    /\ inDegree' = [i \in Names |-> Cardinality(edges[i])]
    /\ queue' = {i \in nodes : inDegree'[i] = 0}
    /\ pc' = "sort"
    /\ UNCHANGED <<inputs, nodes, edges, todo, order, result>>

Dependents(name) == {i \in Names : name \in edges[i]}

\* Mutated form: an in-degree of 1 already counts as ready.
SortStepOffByOne(node) ==
    /\ pc = "sort"
    /\ node \in queue
    /\ \A other \in queue : node <= other
    /\ order' = Append(order, node)
    /\ inDegree' = [i \in Names |-> IF i \in Dependents(node)
                                    THEN inDegree[i] - 1 ELSE inDegree[i]]
    /\ queue' = (queue \ {node}) \cup {i \in Dependents(node) : inDegree'[i] <= 1}
    /\ UNCHANGED <<inputs, nodes, edges, todo, pc, result>>

\* Mutated form: the queue is not sorted before its head is taken.
SortStepUnsorted(node) ==
    /\ pc = "sort"
    /\ node \in queue
    /\ order' = Append(order, node)
    /\ inDegree' = [i \in Names |-> IF i \in Dependents(node)
                                    THEN inDegree[i] - 1 ELSE inDegree[i]]
    /\ queue' = (queue \ {node}) \cup {i \in Dependents(node) : inDegree'[i] = 0}
    /\ UNCHANGED <<inputs, nodes, edges, todo, pc, result>>

\* The head of the sorted queue is appended to the order; every dependent
\* whose last dependency this was joins the queue.
SortStep(node) ==
    /\ pc = "sort"
    /\ node \in queue
    /\ \A other \in queue : node <= other
    /\ order' = Append(order, node)
    /\ inDegree' = [i \in Names |-> IF i \in Dependents(node)
                                    THEN inDegree[i] - 1 ELSE inDegree[i]]
    /\ queue' = (queue \ {node}) \cup {i \in Dependents(node) : inDegree'[i] = 0}
    /\ UNCHANGED <<inputs, nodes, edges, todo, pc, result>>

\* Mutated form: the length of the order is not compared with the nodes.
FinishSortUnchecked ==
    /\ pc = "sort"
    /\ queue = {}
    /\ Return("ok")
    /\ UNCHANGED <<inputs, nodes, edges, todo, inDegree, queue, order>>

\* The loop ends with an empty queue; an incomplete order is reported as a
\* dependency cycle.
FinishSort ==
    /\ pc = "sort"
    /\ queue = {}
    /\ Return(IF Len(order) = Cardinality(nodes) THEN "ok" ELSE "cycle")
    /\ UNCHANGED <<inputs, nodes, edges, todo, inDegree, queue, order>>

Done ==
    /\ pc = "done"
    /\ UNCHANGED vars

Next ==
    \/ ScanRenderedProject
    \/ ScanFails
    \/ \E i \in Names : MergeImage(i) \/ MergeFails(i) \/ SortStep(i)
    \/ StartSort
    \/ FinishSort
    \/ Done

Spec == Init /\ [][Next]_vars

-----------------------------------------------------------------------------
Results == {"none", "scan error", "unknown dependency", "cycle", "ok"}

\* The types of the inputs, of the graph and of the sort's locals: no edge
\* leaves the image names, and inDegree is a map of counts.
TypeOK ==
    /\ dist \in SUBSET Names
    /\ project \in SUBSET Names
    /\ hiveRefs \in [Names -> SUBSET Names]
    /\ dependsOn \in [Names -> SUBSET Names]
    /\ parents \in [Names -> SUBSET (Names \cup {Malformed})]
    /\ nodes \in SUBSET Names
    /\ edges \in [Names -> SUBSET Names]
    /\ todo \in SUBSET Names
    /\ inDegree \in [Names -> Nat]
    /\ queue \in SUBSET Names
    /\ order \in Seq(Names)
    /\ pc \in {"scan", "merge", "sort", "done"}
    /\ result \in Results

Sorted == {order[k] : k \in 1 .. Len(order)}
Before(k) == {order[j] : j \in 1 .. (k - 1)}

\* Every image in the order comes after all the images it has an edge to
\* (TopologicalSort: "a build order where dependencies come first").
OrderRespectsDependencies ==
    \A k \in 1 .. Len(order) : edges[order[k]] \subseteq Before(k)

\* The graph is complete: it is being sorted, or has been.
Sorting == pc = "sort" \/ result \in {"ok", "cycle"}

\* What the merge has put into the graph so far: nodes and edges are those of
\* dist and of the images already visited, whatever order they were visited in.
GraphSoFar ==
    (pc = "merge" \/ Sorting) =>
        /\ todo \subseteq project
        /\ Sorting => todo = {}
        /\ nodes = dist \cup (project \ todo)
        /\ \A i \in Names : edges[i] =
             (IF i \in dist THEN hiveRefs[i] \ {i} ELSE {})
             \cup (IF i \in project \ todo THEN Declared(i) ELSE {})

\* The bookkeeping of Kahn's algorithm: while it sorts, an in-degree is the
\* number of dependencies not yet in the order, the queue holds exactly the
\* nodes that are ready and not yet emitted (none is lost, none is queued
\* twice), and the order is a sequence of distinct nodes.
SortBookkeeping ==
    /\ Sorting =>
         /\ \A i \in Names : inDegree[i] = Cardinality(edges[i] \ Sorted)
         /\ queue = {i \in nodes \ Sorted : edges[i] \subseteq Sorted}
    /\ ~Sorting => order = << >>
    /\ Sorted \subseteq nodes
    /\ \A j, k \in 1 .. Len(order) : order[j] = order[k] => j = k

\* What the sort has decided when it returns.
SortResult ==
    /\ (result # "none") <=> (pc = "done")
    /\ result \in {"ok", "cycle"} =>
         /\ queue = {}
         /\ (result = "ok") <=> (Len(order) = Cardinality(nodes))

\* A successful ResolveOrder honours everything the user wrote: every image of
\* the project and of dist is in the order once, after each image its
\* Dockerfiles, its depends_on list and its backend parents name.
OrderHonoursDeclarations ==
    result = "ok" =>
        /\ Sorted = dist \cup project
        /\ \A k \in 1 .. Len(order) :
             LET i == order[k] IN
             /\ i \in dist => hiveRefs[i] \ {i} \subseteq Before(k)
             /\ i \in project => Declared(i) \subseteq Before(k)

\* A set of nodes each of which waits for another member or for something
\* that is no node at all: none of them can ever be built.
Stuck(S) ==
    /\ S \subseteq nodes
    /\ \A i \in S : \E d \in edges[i] : d \in S \/ d \notin nodes

\* The sort fails exactly when some set of images is stuck: it never rejects
\* a graph that has a build order and never accepts one that has none.
CycleIffStuck ==
    /\ result = "cycle" => \E S \in SUBSET nodes : S # {} /\ Stuck(S)
    /\ result = "ok"    => \A S \in SUBSET nodes : Stuck(S) => S = {}

\* No image that waits for a cycle or for an unknown image is ever emitted.
NoStuckEmitted ==
    Sorting => \A S \in SUBSET nodes : Stuck(S) => S \cap Sorted = {}

\* The inductive invariant of a resolution, from which the properties of its
\* result follow for graphs of every size.
ResolveInvariant ==
    /\ TypeOK
    /\ GraphSoFar
    /\ SortBookkeeping
    /\ SortResult
    /\ OrderRespectsDependencies
    /\ NoStuckEmitted

\* The order does not depend on map iteration: at every position stands the
\* alphabetically smallest node whose dependencies are all placed before it.
OrderIsDeterministic ==
    \A k \in 1 .. Len(order) : \A i \in nodes \ Before(k) :
        edges[i] \subseteq Before(k) => order[k] <= i

\* TopologicalSort's comment: it "returns an error if a cycle is detected",
\* and the error text is "dependency cycle detected". Read as a claim about
\* the graph: the cycle error means some images wait for each other in a ring.
CycleErrorMeansCycle ==
    result = "cycle" =>
        \E S \in SUBSET nodes : S # {} /\ \A i \in S : edges[i] \cap S # {}

=============================================================================
