------------------------ MODULE DependencyGraphProofs ------------------------
(***************************************************************************)
(* Proofs about deps.ResolveOrder for projects of every size: the types,   *)
(* the inductive invariant of Kahn's algorithm, and what it gives about    *)
(* the returned order and about the "dependency cycle detected" error.     *)
(***************************************************************************)
EXTENDS DependencyGraph, FiniteSetTheorems, TLAPS

\* Every set of image names is finite and has a natural number of elements.
LEMMA NamesFinite ==
    ASSUME NEW S \in SUBSET Names
    PROVE  IsFiniteSet(S) /\ Cardinality(S) \in Nat
BY NamesAssumption, FS_Subset, FS_CardinalityType

\* An order without repetitions is as long as the set of images in it.
LEMMA CountEmitted ==
    ASSUME order \in Seq(Names),
           \A j, k \in 1 .. Len(order) : order[j] = order[k] => j = k
    PROVE  Cardinality(Sorted) = Len(order)
<1>1. order \in [1 .. Len(order) -> Sorted]
  BY DEF Sorted
<1>2. order \in Bijection(1 .. Len(order), Sorted)
  BY <1>1 DEF Bijection, Injection, Surjection, IsInjective, Sorted
<1>3. ExistsBijection(1 .. Len(order), Sorted)
  BY <1>2 DEF ExistsBijection
<1>4. Len(order) \in Nat
  OBVIOUS
<1>. QED
  BY <1>3, <1>4, FS_CountingElements

-----------------------------------------------------------------------------
\* An empty graph before the scan satisfies the invariant.
LEMMA InitInvariant == Init => ResolveInvariant
<1>. SUFFICES ASSUME Init PROVE ResolveInvariant
  OBVIOUS
<1>1. TypeOK
  BY DEF Init, NewGraph, TypeOK, Results
<1>2. Sorted = {} /\ Len(order) = 0
  BY DEF Init, Sorted
<1>3. GraphSoFar /\ SortResult /\ NoStuckEmitted
  BY DEF Init, GraphSoFar, SortResult, NoStuckEmitted, Sorting
<1>4. SortBookkeeping /\ OrderRespectsDependencies
  BY <1>2 DEF Init, SortBookkeeping, OrderRespectsDependencies, Sorting
<1>. QED
  BY <1>1, <1>3, <1>4 DEF ResolveInvariant

\* A step that sorts nothing and decides nothing about the sort.
LEMMA ScanInvariant == ResolveInvariant /\ ScanRenderedProject => ResolveInvariant'
<1>. SUFFICES ASSUME ResolveInvariant, ScanRenderedProject
              PROVE  ResolveInvariant'
  OBVIOUS
<1>. USE DEF ResolveInvariant, ScanRenderedProject, inputs
<1>1. TypeOK'
  BY DEF TypeOK
<1>2. result = "none" /\ ~Sorting /\ ~Sorting'
  BY DEF TypeOK, SortResult, Sorting, Results
<1>3. order = << >> /\ order' = << >> /\ Sorted' = {} /\ Len(order') = 0
  BY <1>2 DEF SortBookkeeping, Sorted
<1>4. GraphSoFar'
  BY <1>2 DEF GraphSoFar, Declared, TypeOK
<1>5. SortBookkeeping' /\ OrderRespectsDependencies'
  BY <1>2, <1>3 DEF SortBookkeeping, OrderRespectsDependencies
<1>6. SortResult' /\ NoStuckEmitted'
  BY <1>2 DEF SortResult, NoStuckEmitted
<1>. QED
  BY <1>1, <1>4, <1>5, <1>6

\* Returning an error before the sort leaves nothing to show.
LEMMA FailInvariant ==
    ResolveInvariant /\ (ScanFails \/ \E i \in Names : MergeFails(i))
        => ResolveInvariant'
<1>. SUFFICES ASSUME ResolveInvariant,
                     pc \in {"scan", "merge"},
                     pc' = "done",
                     result' \in {"scan error", "unknown dependency"},
                     UNCHANGED <<dist, project, hiveRefs, dependsOn, parents>>,
                     UNCHANGED <<nodes, edges, todo, inDegree, queue, order>>
              PROVE  ResolveInvariant'
  BY DEF ScanFails, MergeFails, Return, inputs
<1>1. TypeOK'
  BY DEF ResolveInvariant, TypeOK, Results
<1>2. result = "none" /\ ~Sorting /\ ~Sorting' /\ pc' = "done"
  BY DEF ResolveInvariant, TypeOK, SortResult, Sorting, Results
<1>3. GraphSoFar' /\ SortResult' /\ NoStuckEmitted'
  BY <1>2 DEF GraphSoFar, SortResult, NoStuckEmitted
<1>4. SortBookkeeping'
  <2>1. Sorted' = Sorted /\ order' = order /\ nodes' = nodes
    BY DEF Sorted
  <2>. QED
    BY <1>2, <2>1 DEF ResolveInvariant, SortBookkeeping
<1>5. OrderRespectsDependencies'
  <2>1. order = << >>
    BY <1>2 DEF ResolveInvariant, SortBookkeeping
  <2>2. Len(order) = 0
    BY ONLY <2>1
  <2>3. Len(order') = 0
    BY <2>2, Zenon
  <2>. QED
    BY ONLY <2>3 DEF OrderRespectsDependencies
<1>. QED
  BY <1>1, <1>3, <1>4, <1>5 DEF ResolveInvariant

\* Merging one image adds its node and its declared edges and sorts nothing.
LEMMA MergeInvariant ==
    ASSUME ResolveInvariant, NEW i \in Names, MergeImage(i)
    PROVE  ResolveInvariant'
<1>. USE DEF ResolveInvariant, MergeImage, inputs
<1>1. Declared(i) \subseteq Names
  BY DEF TypeOK, Declared
<1>2. TypeOK'
  BY <1>1 DEF TypeOK
<1>3. result = "none" /\ ~Sorting /\ ~Sorting'
  BY DEF TypeOK, SortResult, Sorting, Results
<1>4. order = << >> /\ order' = << >> /\ Sorted' = {} /\ Len(order') = 0
  BY <1>3 DEF SortBookkeeping, Sorted
<1>5. GraphSoFar'
  <2>1. todo' \subseteq project' /\ nodes' = dist' \cup (project' \ todo')
    BY DEF GraphSoFar, TypeOK
  <2>2. ASSUME NEW n \in Names
        PROVE  edges'[n] =
                 (IF n \in dist' THEN hiveRefs'[n] \ {n} ELSE {})
                 \cup (IF n \in project' \ todo' THEN Declared(n)' ELSE {})
    <3>1. CASE n = i
      BY <3>1 DEF GraphSoFar, TypeOK, Declared
    <3>2. CASE n # i
      BY <3>2 DEF GraphSoFar, TypeOK, Declared
    <3>. QED
      BY <3>1, <3>2
  <2>. QED
    BY <1>3, <2>1, <2>2 DEF GraphSoFar
<1>6. SortBookkeeping' /\ OrderRespectsDependencies'
  BY <1>3, <1>4 DEF SortBookkeeping, OrderRespectsDependencies
<1>7. SortResult' /\ NoStuckEmitted'
  BY <1>3 DEF SortResult, NoStuckEmitted
<1>. QED
  BY <1>2, <1>5, <1>6, <1>7

\* Before the first step of the sort nothing is emitted.
LEMMA StartInvariant == ResolveInvariant /\ StartSort => ResolveInvariant'
<1>. SUFFICES ASSUME ResolveInvariant, StartSort
              PROVE  ResolveInvariant'
  OBVIOUS
<1>1. \A i \in Names : edges[i] \in SUBSET Names
  BY DEF ResolveInvariant, TypeOK
<1>2. \A i \in Names : /\ IsFiniteSet(edges[i])
                       /\ Cardinality(edges[i]) \in Nat
                       /\ Cardinality(edges[i]) = 0 <=> edges[i] = {}
  BY <1>1, NamesFinite, FS_EmptySet
<1>3. TypeOK'
  BY <1>2 DEF ResolveInvariant, StartSort, inputs, TypeOK
<1>4. result = "none" /\ ~Sorting /\ Sorting' /\ pc' = "sort"
  BY DEF ResolveInvariant, StartSort, TypeOK, SortResult, Sorting, Results
<1>5. order = << >> /\ order' = order
  BY <1>4 DEF ResolveInvariant, SortBookkeeping, StartSort
<1>6. Sorted' = {} /\ Len(order') = 0
  BY <1>5 DEF Sorted
<1>7. GraphSoFar'
  BY <1>4 DEF ResolveInvariant, GraphSoFar, StartSort, inputs, Declared
<1>8. SortBookkeeping'
  <2>1. \A i \in Names : inDegree'[i] = Cardinality(edges[i] \ {})
    <3>1. \A i \in Names : edges[i] \ {} = edges[i]
      OBVIOUS
    <3>. QED
      BY <3>1 DEF StartSort
  <2>2. queue' = {i \in nodes \ {} : edges[i] \subseteq {}}
    BY <1>2 DEF StartSort, ResolveInvariant, TypeOK
  <2>3. UNCHANGED <<nodes, edges>>
    BY DEF StartSort
  <2>. QED
    BY <1>4, <1>6, <2>1, <2>2, <2>3 DEF SortBookkeeping
<1>9. SortResult'
  BY <1>4 DEF StartSort, SortResult
<1>10. OrderRespectsDependencies' /\ NoStuckEmitted'
  BY <1>6 DEF OrderRespectsDependencies, NoStuckEmitted
<1>. QED
  BY <1>3, <1>7, <1>8, <1>9, <1>10 DEF ResolveInvariant

\* One turn of the loop: the head of the queue has all its dependencies in
\* the order, and the in-degrees of its dependents stay exact.
LEMMA StepInvariant ==
    ASSUME ResolveInvariant, NEW node \in Names, SortStep(node)
    PROVE  ResolveInvariant'
<1>1. Sorting /\ Sorting' /\ pc' = "sort" /\ result' = result /\ result = "none"
  BY DEF ResolveInvariant, TypeOK, SortStep, Sorting, SortResult, Results
<1>2. node \in nodes /\ node \notin Sorted /\ edges[node] \subseteq Sorted
  BY <1>1 DEF ResolveInvariant, SortBookkeeping, SortStep
<1>3. /\ order \in Seq(Names) /\ order' = Append(order, node)
      /\ order' \in Seq(Names) /\ Len(order') = Len(order) + 1
      /\ \A k \in 1 .. Len(order) : order'[k] = order[k]
      /\ order'[Len(order) + 1] = node /\ Len(order) \in Nat
  BY DEF ResolveInvariant, TypeOK, SortStep
<1>4. Sorted' = Sorted \cup {node}
  BY <1>3 DEF Sorted
<1>5. ASSUME NEW i \in Names
      PROVE  inDegree'[i] = Cardinality(edges[i] \ Sorted')
  <2>1. edges[i] \ Sorted \in SUBSET Names
    BY DEF ResolveInvariant, TypeOK
  <2>2. IsFiniteSet(edges[i] \ Sorted)
    BY <2>1, NamesFinite
  <2>3. edges[i] \ Sorted' = (edges[i] \ Sorted) \ {node}
    BY <1>4
  <2>4. Cardinality(edges[i] \ Sorted') =
          IF node \in edges[i] THEN Cardinality(edges[i] \ Sorted) - 1
                               ELSE Cardinality(edges[i] \ Sorted)
    BY <1>2, <2>2, <2>3, FS_RemoveElement
  <2>5. inDegree[i] = Cardinality(edges[i] \ Sorted)
    BY <1>1 DEF ResolveInvariant, SortBookkeeping
  <2>. QED
    BY <2>4, <2>5 DEF SortStep, Dependents
<1>6. ASSUME NEW i \in Names
      PROVE  /\ inDegree'[i] \in Nat
             /\ inDegree'[i] = 0 <=> edges[i] \subseteq Sorted'
  <2>1. edges[i] \ Sorted' \in SUBSET Names
    BY DEF ResolveInvariant, TypeOK
  <2>2. IsFiniteSet(edges[i] \ Sorted') /\ Cardinality(edges[i] \ Sorted') \in Nat
    BY <2>1, NamesFinite
  <2>. QED
    BY <1>5, <2>2, FS_EmptySet
<1>7. TypeOK'
  <2>1. inDegree' \in [Names -> Nat]
    BY <1>6 DEF SortStep
  <2>2. queue' \in SUBSET Names
    BY DEF ResolveInvariant, TypeOK, SortStep, Dependents
  <2>. QED
    BY <1>3, <2>1, <2>2 DEF ResolveInvariant, TypeOK, SortStep, inputs
<1>8. GraphSoFar'
  BY <1>1 DEF ResolveInvariant, GraphSoFar, SortStep, inputs, Declared
<1>9. SortBookkeeping'
  <2>1. UNCHANGED <<nodes, edges>>
    BY DEF SortStep
  <2>2. Sorted' \subseteq nodes'
    BY <1>2, <1>4, <2>1 DEF ResolveInvariant, SortBookkeeping
  <2>3. \A j, k \in 1 .. Len(order') : order'[j] = order'[k] => j = k
    <3>1. \A k \in 1 .. Len(order) : order[k] # node
      BY <1>2 DEF Sorted
    <3>2. \A j, k \in 1 .. Len(order) : order[j] = order[k] => j = k
      BY DEF ResolveInvariant, SortBookkeeping
    <3>. QED
      BY <1>3, <3>1, <3>2
  <2>4. queue' = {i \in nodes \ Sorted' : edges[i] \subseteq Sorted'}
    <3>1. queue = {i \in nodes \ Sorted : edges[i] \subseteq Sorted}
      BY <1>1 DEF ResolveInvariant, SortBookkeeping
    <3>2. \A i \in Names : edges[i] # {} => i \in nodes
      BY <1>1 DEF ResolveInvariant, GraphSoFar
    <3>3. \A i \in Dependents(node) : i \in nodes /\ i \notin Sorted /\ i # node
      <4>1. \A k \in 1 .. Len(order) : edges[order[k]] \subseteq Sorted
        BY DEF ResolveInvariant, OrderRespectsDependencies, Before, Sorted, TypeOK
      <4>2. \A i \in Sorted : edges[i] \subseteq Sorted
        BY <4>1 DEF Sorted
      <4>. QED
        BY <1>2, <3>2, <4>2 DEF Dependents
    <3>4. queue' = (queue \ {node}) \cup
                   {i \in Dependents(node) : edges[i] \subseteq Sorted'}
      BY <1>6 DEF SortStep, Dependents
    <3>5. \A i \in nodes : (edges[i] \subseteq Sorted' /\ ~(edges[i] \subseteq Sorted))
                           => i \in Dependents(node)
      BY <1>4 DEF Dependents, ResolveInvariant, TypeOK
    <3>. QED
      BY <1>2, <1>4, <3>1, <3>3, <3>4, <3>5
  <2>. QED
    BY <1>1, <1>5, <2>1, <2>2, <2>3, <2>4 DEF SortBookkeeping
<1>10. SortResult'
  BY <1>1 DEF SortResult
<1>11. OrderRespectsDependencies'
  <2>1. UNCHANGED edges
    BY DEF SortStep
  <2>2. ASSUME NEW k \in 1 .. Len(order')
        PROVE  edges[order'[k]] \subseteq Before(k)'
    <3>1. CASE k \in 1 .. Len(order)
      <4>1. edges[order[k]] \subseteq Before(k)
        BY <3>1 DEF ResolveInvariant, OrderRespectsDependencies
      <4>2. Before(k)' = Before(k)
        BY <1>3, <3>1 DEF Before
      <4>. QED
        BY <1>3, <3>1, <4>1, <4>2
    <3>2. CASE k = Len(order) + 1
      <4>1. Before(k)' = Sorted
        BY <1>3, <3>2 DEF Before, Sorted
      <4>. QED
        BY <1>2, <1>3, <3>2, <4>1
    <3>. QED
      BY <1>3, <3>1, <3>2
  <2>. QED
    BY <2>1, <2>2 DEF OrderRespectsDependencies
<1>12. NoStuckEmitted'
  <2>1. UNCHANGED <<nodes, edges>>
    BY DEF SortStep
  <2>2. ASSUME NEW S \in SUBSET nodes, Stuck(S)
        PROVE  S \cap Sorted' = {}
    <3>1. S \cap Sorted = {}
      BY <1>1, <2>2 DEF ResolveInvariant, NoStuckEmitted
    <3>2. Sorted \subseteq nodes
      BY DEF ResolveInvariant, SortBookkeeping
    <3>3. node \notin S
      BY <1>2, <2>2, <3>1, <3>2 DEF Stuck
    <3>. QED
      BY <1>4, <3>1, <3>3
  <2>3. ASSUME NEW S PROVE Stuck(S)' <=> Stuck(S)
    BY <2>1 DEF Stuck
  <2>. QED
    BY <2>1, <2>2, <2>3 DEF NoStuckEmitted
<1>. QED
  BY <1>7, <1>8, <1>9, <1>10, <1>11, <1>12 DEF ResolveInvariant

\* The verdict of the sort compares the length of the order with the nodes.
LEMMA FinishInvariant == ResolveInvariant /\ FinishSort => ResolveInvariant'
<1>. SUFFICES ASSUME ResolveInvariant, FinishSort
              PROVE  ResolveInvariant'
  OBVIOUS
<1>1. Sorting /\ Sorting' /\ pc' = "done" /\ result' \in {"ok", "cycle"}
  BY DEF FinishSort, Return, Sorting
<1>2. UNCHANGED <<dist, project, hiveRefs, dependsOn, parents,
                  nodes, edges, todo, inDegree, queue, order>>
  BY DEF FinishSort, inputs
<1>3. TypeOK' /\ GraphSoFar'
  BY <1>1, <1>2 DEF ResolveInvariant, TypeOK, GraphSoFar, Declared, Results
<1>4. SortBookkeeping' /\ OrderRespectsDependencies'
  BY <1>1, <1>2 DEF ResolveInvariant, SortBookkeeping, OrderRespectsDependencies,
                    Sorted, Before
<1>5. SortResult'
  BY <1>1, <1>2 DEF FinishSort, Return, SortResult
<1>6. NoStuckEmitted'
  BY <1>1, <1>2 DEF ResolveInvariant, NoStuckEmitted, Stuck, Sorted
<1>. QED
  BY <1>3, <1>4, <1>5, <1>6 DEF ResolveInvariant

\* A step that changes nothing keeps the invariant.
LEMMA StutterInvariant == ResolveInvariant /\ UNCHANGED vars => ResolveInvariant'
<1>. SUFFICES ASSUME ResolveInvariant, UNCHANGED vars
              PROVE  ResolveInvariant'
  OBVIOUS
<1>. USE DEF ResolveInvariant, vars, inputs
<1>1. TypeOK' /\ GraphSoFar'
  BY DEF TypeOK, GraphSoFar, Sorting, Declared
<1>2. Sorted' = Sorted /\ (Sorting' <=> Sorting)
  BY DEF Sorted, Sorting
<1>3. SortBookkeeping' /\ SortResult'
  BY <1>2 DEF SortBookkeeping, SortResult
<1>4. OrderRespectsDependencies'
  BY DEF OrderRespectsDependencies, Before
<1>5. NoStuckEmitted'
  BY <1>2 DEF NoStuckEmitted, Stuck
<1>. QED
  BY <1>1, <1>3, <1>4, <1>5

\* Every reachable state of a resolution satisfies the inductive invariant, so
\* Kahn's bookkeeping is exact for every project.
THEOREM ResolveInvariantHolds == Spec => []ResolveInvariant
<1>1. ResolveInvariant /\ [Next]_vars => ResolveInvariant'
  <2>. SUFFICES ASSUME ResolveInvariant, [Next]_vars
                PROVE  ResolveInvariant'
    OBVIOUS
  <2>1. CASE ScanRenderedProject
    BY <2>1, ScanInvariant
  <2>2. CASE ScanFails
    BY <2>2, FailInvariant
  <2>3. ASSUME NEW i \in Names, MergeImage(i)
        PROVE  ResolveInvariant'
    BY <2>3, MergeInvariant
  <2>4. ASSUME NEW i \in Names, MergeFails(i)
        PROVE  ResolveInvariant'
    BY <2>4, FailInvariant
  <2>5. ASSUME NEW i \in Names, SortStep(i)
        PROVE  ResolveInvariant'
    BY <2>5, StepInvariant
  <2>6. CASE StartSort
    BY <2>6, StartInvariant
  <2>7. CASE FinishSort
    BY <2>7, FinishInvariant
  <2>8. CASE UNCHANGED vars
    BY <2>8, StutterInvariant
  <2>. QED
    BY <2>1, <2>2, <2>3, <2>4, <2>5, <2>6, <2>7, <2>8 DEF Next, Done
<1>. QED
  BY InitInvariant, <1>1, PTL DEF Spec

\* The values of the resolution keep their types.
THEOREM TypeCorrect == Spec => []TypeOK
BY ResolveInvariantHolds, PTL DEF ResolveInvariant

\* A build order never places an image before one of its dependencies.
THEOREM DependenciesComeFirst == Spec => []OrderRespectsDependencies
BY ResolveInvariantHolds, PTL DEF ResolveInvariant

-----------------------------------------------------------------------------
\* When the sort succeeds, every node has been emitted.
LEMMA AllEmitted ==
    ASSUME ResolveInvariant, result = "ok"
    PROVE  Sorted = nodes
<1>1. Len(order) = Cardinality(nodes)
  BY DEF ResolveInvariant, SortResult
<1>2. Cardinality(Sorted) = Len(order)
  BY CountEmitted DEF ResolveInvariant, TypeOK, SortBookkeeping
<1>3. IsFiniteSet(nodes) /\ Sorted \in SUBSET nodes
  BY NamesFinite DEF ResolveInvariant, TypeOK, SortBookkeeping
<1>. QED
  BY <1>1, <1>2, <1>3, FS_Subset

\* ResolveOrder reports a cycle exactly when a set of images is stuck: the
\* check of the order's length is neither too weak nor too strong.
THEOREM CycleErrorExact == Spec => []CycleIffStuck
<1>1. ResolveInvariant => CycleIffStuck
  <2>. SUFFICES ASSUME ResolveInvariant PROVE CycleIffStuck
    OBVIOUS
  <2>1. ASSUME result = "cycle"
        PROVE  \E S \in SUBSET nodes : S # {} /\ Stuck(S)
    <3>1. Sorting /\ queue = {} /\ Len(order) # Cardinality(nodes)
      BY <2>1 DEF ResolveInvariant, SortResult, Sorting
    <3>2. Cardinality(Sorted) = Len(order)
      BY CountEmitted DEF ResolveInvariant, TypeOK, SortBookkeeping
    <3>3. nodes \ Sorted # {}
      BY <3>1, <3>2 DEF ResolveInvariant, SortBookkeeping
    <3>4. \A i \in nodes \ Sorted : ~(edges[i] \subseteq Sorted)
      BY <3>1 DEF ResolveInvariant, SortBookkeeping
    <3>5. Stuck(nodes \ Sorted)
      BY <3>4 DEF Stuck
    <3>. QED
      BY <3>3, <3>5
  <2>2. ASSUME result = "ok", NEW S \in SUBSET nodes, Stuck(S)
        PROVE  S = {}
    <3>1. S \cap Sorted = {}
      BY <2>2 DEF ResolveInvariant, NoStuckEmitted, Sorting
    <3>2. Sorted = nodes
      BY <2>2, AllEmitted
    <3>. QED
      BY <3>1, <3>2
  <2>. QED
    BY <2>1, <2>2 DEF CycleIffStuck
<1>. QED
  BY <1>1, ResolveInvariantHolds, PTL

\* A successful ResolveOrder contains every image once and honours every
\* Dockerfile reference, depends_on entry and backend parent.
THEOREM DeclarationsHonoured == Spec => []OrderHonoursDeclarations
<1>1. ResolveInvariant => OrderHonoursDeclarations
  <2>. SUFFICES ASSUME ResolveInvariant, result = "ok"
                PROVE  /\ Sorted = dist \cup project
                       /\ \A k \in 1 .. Len(order) :
                            /\ order[k] \in dist =>
                                 hiveRefs[order[k]] \ {order[k]} \subseteq Before(k)
                            /\ order[k] \in project =>
                                 Declared(order[k]) \subseteq Before(k)
    BY DEF OrderHonoursDeclarations
  <2>1. Sorted = nodes
    BY AllEmitted
  <2>2. nodes = dist \cup project /\ todo = {}
    BY DEF ResolveInvariant, GraphSoFar, Sorting
  <2>3. ASSUME NEW k \in 1 .. Len(order)
        PROVE  /\ order[k] \in dist =>
                    hiveRefs[order[k]] \ {order[k]} \subseteq Before(k)
               /\ order[k] \in project => Declared(order[k]) \subseteq Before(k)
    <3>1. order[k] \in Names
      BY DEF ResolveInvariant, TypeOK
    <3>2. edges[order[k]] \subseteq Before(k)
      BY DEF ResolveInvariant, OrderRespectsDependencies
    <3>3. edges[order[k]] =
            (IF order[k] \in dist THEN hiveRefs[order[k]] \ {order[k]} ELSE {})
            \cup (IF order[k] \in project \ todo THEN Declared(order[k]) ELSE {})
      BY <3>1 DEF ResolveInvariant, GraphSoFar, Sorting
    <3>. QED
      BY <2>2, <3>2, <3>3
  <2>. QED
    BY <2>1, <2>2, <2>3
<1>. QED
  BY <1>1, ResolveInvariantHolds, PTL

-----------------------------------------------------------------------------
\* The head of the sorted queue is the smallest image that is ready.
LEMMA StepDeterministic ==
    ASSUME ResolveInvariant, OrderIsDeterministic, NEW node \in Names, SortStep(node)
    PROVE  OrderIsDeterministic'
<1>1. /\ order' = Append(order, node) /\ UNCHANGED <<nodes, edges>>
      /\ queue = {i \in nodes \ Sorted : edges[i] \subseteq Sorted}
      /\ \A other \in queue : node <= other
  BY DEF ResolveInvariant, SortBookkeeping, SortStep, Sorting
<1>2. /\ Len(order) \in Nat /\ Len(order') = Len(order) + 1
      /\ \A k \in 1 .. Len(order) : order'[k] = order[k]
      /\ order'[Len(order) + 1] = node
  BY <1>1 DEF ResolveInvariant, TypeOK
<1>3. ASSUME NEW k \in 1 .. Len(order'), NEW i \in nodes, i \notin Before(k)',
             edges[i] \subseteq Before(k)'
      PROVE  order'[k] <= i
  <2>1. CASE k \in 1 .. Len(order)
    <3>1. Before(k)' = Before(k)
      BY <1>2, <2>1 DEF Before
    <3>. QED
      BY <1>2, <1>3, <2>1, <3>1 DEF OrderIsDeterministic
  <2>2. CASE k = Len(order) + 1
    <3>1. Before(k)' = Sorted
      BY <1>2, <2>2 DEF Before, Sorted
    <3>2. i \in queue
      BY <1>1, <1>3, <3>1
    <3>. QED
      BY <1>1, <1>2, <2>2, <3>2
  <2>. QED
    BY <1>2, <2>1, <2>2
<1>. QED
  BY <1>1, <1>3 DEF OrderIsDeterministic

\* The build order does not depend on map iteration: whatever order the images
\* were merged in, at every position stands the alphabetically smallest image
\* whose dependencies are all placed (slices.Sort of the queue).
THEOREM OrderDeterministic == Spec => []OrderIsDeterministic
<1>1. Init => OrderIsDeterministic
  BY DEF Init, OrderIsDeterministic
<1>2. ResolveInvariant /\ OrderIsDeterministic /\ [Next]_vars => OrderIsDeterministic'
  <2>. SUFFICES ASSUME ResolveInvariant, OrderIsDeterministic, [Next]_vars
                PROVE  OrderIsDeterministic'
    OBVIOUS
  <2>1. ASSUME NEW i \in Names, SortStep(i)
        PROVE  OrderIsDeterministic'
    BY <2>1, StepDeterministic
  <2>2. CASE UNCHANGED <<nodes, edges, order>>
    BY <2>2 DEF OrderIsDeterministic, Before
  <2>3. CASE ~Sorting /\ UNCHANGED order
    <3>1. Len(order') = 0
      BY <2>3 DEF ResolveInvariant, SortBookkeeping
    <3>. QED
      BY <3>1 DEF OrderIsDeterministic
  <2>4. CASE ScanRenderedProject \/ \E i \in Names : MergeImage(i)
    <3>1. UNCHANGED order /\ pc \in {"scan", "merge"}
      BY <2>4 DEF ScanRenderedProject, MergeImage
    <3>2. ~Sorting
      BY <3>1 DEF Sorting, ResolveInvariant, SortResult
    <3>. QED
      BY <2>3, <3>1, <3>2
  <2>5. CASE ScanFails \/ (\E i \in Names : MergeFails(i)) \/ StartSort \/ FinishSort \/ Done
    BY <2>2, <2>5 DEF ScanFails, MergeFails, StartSort, FinishSort, Done, vars, Return
  <2>. QED
    BY <2>1, <2>2, <2>4, <2>5 DEF Next, vars
<1>. QED
  BY <1>1, <1>2, ResolveInvariantHolds, PTL DEF Spec
=============================================================================
