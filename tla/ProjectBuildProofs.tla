------------------------- MODULE ProjectBuildProofs -------------------------
(***************************************************************************)
(* Safety of `ch build` for every project, every order that the loops may  *)
(* take and every number of invocations over one dist directory, and the   *)
(* proof that the loops implement BuildContract; and the safety of one     *)
(* solve and its retries, whatever their number.                           *)
(***************************************************************************)
EXTENDS ProjectBuild, BuildRetry, FiniteSetTheorems, TLAPS

Asked(u) == UnitPlatforms(opts.platforms, u)
AtUnit == pc \in {"platforms", "solve"}

\* The units that the loops have left behind.
Passed == Units \ (todo \cup (IF AtUnit THEN {unit} ELSE {}))

\* What the phases of an invocation have in common.
PhaseOK ==
    /\ result = "none" <=> pc # "done"
    /\ pc = "start" => todo = Units /\ attempted = {}
    /\ pc \in {"start", "loop"} => platforms = {} /\ failed = {}
    /\ pc \in {"start", "loop", "platforms"} => building = {} /\ contexts = {}

\* At a unit the loops have left all images before it behind, and the tag that
\* a variant extends. Each of its platforms is waiting or attempted.
UnitOK ==
    AtUnit =>
        /\ unit \in Units \ todo /\ Selected(unit)
        /\ \A w \in todo : Position(Name(unit)) <= Position(Name(w))
        /\ IsBase(unit) \/ BaseOf(unit) \notin todo
        /\ \A p \in AllPlatforms :
              p \in Asked(unit) <=> (p \in platforms \/ <<unit, p>> \in attempted)
        /\ \A p \in platforms : <<unit, p>> \notin attempted

\* What BuildKit is at.
SolveOK ==
    pc = "solve" =>
        \E p \in AllPlatforms :
            /\ building = {p} /\ contexts = Contexts(unit, p)
            /\ <<unit, p>> \in attempted /\ p \notin failed
            /\ unit \in Entrypoints
            /\ \A r \in References(unit) : Resolvable(r, p)

\* Only platforms of the current unit have failed.
FailuresOK ==
    /\ broken = {TarPath(unit, p) : p \in failed}
    /\ \A p \in failed : <<unit, p>> \in attempted

AttemptsOK ==
    \A b \in attempted : b[1] \notin todo /\ Selected(b[1]) /\ b[2] \in Asked(b[1])

\* A build whose turn is over without a failure: the tag has an entrypoint, and
\* what has one has its tar.
Built(u, p) ==
    /\ u \in Entrypoints => tars[TarPath(u, p)] = "new"
    /\ IsBase(u) => u \in Entrypoints

PassedOK ==
    pc # "done" =>
        \A w \in Passed : Selected(w) =>
            \A p \in Asked(w) : <<w, p>> \in attempted /\ Built(w, p)

BuiltOK ==
    AtUnit =>
        \A p \in AllPlatforms \ (failed \cup building) :
            <<unit, p>> \in attempted => Built(unit, p)

\* platformMatched and platformSkipped.
CountersOK ==
    pc # "done" =>
        /\ matched => attempted # {} \/ platforms # {}
        /\ opts.platforms # {} =>
              \A w \in Units \ todo : (Selected(w) /\ Asked(w) = {}) => skipped

BuildIInv ==
    /\ TypeOK /\ PhaseOK /\ UnitOK /\ SolveOK /\ FailuresOK
    /\ AttemptsOK /\ PassedOK /\ BuiltOK /\ CountersOK

-----------------------------------------------------------------------------
(* Units, their platforms and their tars.                                  *)

LEMMA UnitShape ==
    ASSUME NEW u \in Units
    PROVE  /\ \E d \in Defs : \E t \in TagsOf[d], v \in VariantsOf[d] \cup {NoVariant} :
                 u = <<d, t, v>>
           /\ u[1] \in Defs /\ u[2] \in TagsOf[u[1]]
           /\ u[3] \in VariantsOf[u[1]] \cup {NoVariant} /\ u = <<u[1], u[2], u[3]>>
  <1>1. PICK d \in Defs : u \in {<<d, t, v>> : t \in TagsOf[d], v \in VariantsOf[d] \cup {NoVariant}}
    BY DEF Units
  <1> QED BY <1>1

LEMMA UnitMade ==
    ASSUME NEW d \in Defs, NEW t \in TagsOf[d], NEW v \in VariantsOf[d] \cup {NoVariant}
    PROVE  <<d, t, v>> \in Units
  BY DEF Units

LEMMA BaseIsUnit ==
    ASSUME NEW u \in Units
    PROVE  /\ BaseOf(u) \in Units /\ IsBase(BaseOf(u))
           /\ Name(BaseOf(u)) = Name(u)
           /\ IsBase(u) => BaseOf(u) = u
           /\ ~IsBase(u) => BaseOf(u) # u
  <1>1. u[1] \in Defs /\ u[2] \in TagsOf[u[1]] /\ u = <<u[1], u[2], u[3]>>
    BY UnitShape
  <1>2. BaseOf(u) \in Units
    BY <1>1, UnitMade DEF BaseOf
  <1> QED BY <1>1, <1>2 DEF BaseOf, IsBase, Name

\* A name and a tag identify a unit, a path one of its platforms.
LEMMA TagsDiffer ==
    ASSUME NEW u \in Units, NEW w \in Units, Name(u) = Name(w), Tag(u) = Tag(w)
    PROVE  u = w
  <1>1. /\ u[1] \in Defs /\ u[2] \in TagsOf[u[1]]
        /\ u[3] \in VariantsOf[u[1]] \cup {NoVariant} /\ u = <<u[1], u[2], u[3]>>
        /\ w[1] \in Defs /\ w[2] \in TagsOf[w[1]]
        /\ w[3] \in VariantsOf[w[1]] \cup {NoVariant} /\ w = <<w[1], w[2], w[3]>>
    BY UnitShape
  <1>2. <<u[1], u[2], u[3]>> = <<w[1], w[2], w[3]>>
    BY <1>1, UnitsAssumption DEF Name, Tag
  <1> QED BY <1>1, <1>2

LEMMA TarsDiffer ==
    ASSUME NEW u \in Units, NEW w \in Units, NEW p, NEW q, TarPath(u, p) = TarPath(w, q)
    PROVE  u = w /\ p = q
  BY TagsDiffer DEF TarPath

\* --platform only selects among what is configured.
LEMMA AskedAreConfigured ==
    ASSUME NEW u \in Units, NEW o
    PROVE  /\ UnitPlatforms(o, u) \subseteq UnitPlatforms({}, u)
           /\ UnitPlatforms({}, u) \subseteq AllPlatforms
  <1>1. UnitPlatforms(o, u) \subseteq UnitPlatforms({}, u)
    BY DEF UnitPlatforms, Resolve
  <1>2. UnitPlatforms({}, u) \subseteq AllPlatforms
    BY DEF AllPlatforms
  <1> QED BY <1>1, <1>2

\* What is configured for two units is asked of both or of none.
LEMMA AskedOfBoth ==
    ASSUME NEW u \in Units, NEW w \in Units, NEW o,
           NEW p \in UnitPlatforms(o, u), p \in UnitPlatforms({}, w)
    PROVE  p \in UnitPlatforms(o, w)
  BY DEF UnitPlatforms, Resolve

LEMMA TarIsKept ==
    ASSUME NEW u \in Units, NEW p \in AllPlatforms
    PROVE  TarPath(u, p) \in TarPaths
  BY DEF TarPaths

-----------------------------------------------------------------------------
(* The order: every image is in it, after what it depends on.              *)

LEMMA NamesFinite == IsFiniteSet(Names)
  <1> DEFINE f == [d \in Defs |-> NameOf[d]]
  <1>1. f \in Surjection(Defs, Names)
    BY DEF Names, Surjection
  <1> QED BY <1>1, ProjectAssumption, FS_Surjection

LEMMA PositionOfName ==
    ASSUME order \in BuildOrders, NEW n \in Names
    PROVE  Position(n) \in 1 .. Cardinality(Names) /\ order[Position(n)] = n
  <1> DEFINE k == Cardinality(Names)
  <1>1. k \in Nat
    BY NamesFinite, FS_CardinalityType
  <1>2. /\ order \in [1 .. k -> Names]
        /\ \A i, j \in 1 .. k : order[i] = order[j] => i = j
    BY DEF BuildOrders
  <1>3. order \in Injection(1 .. k, Names)
    BY <1>2 DEF Injection, IsInjective
  <1>4. IsFiniteSet(1 .. k) /\ Cardinality(1 .. k) = k
    BY <1>1, FS_Interval
  <1>5. order \in Surjection(1 .. k, Names)
    BY <1>3, <1>4, NamesFinite, FS_Injection
  <1>6. \E i \in DOMAIN order : order[i] = n
    BY <1>5, <1>2 DEF Surjection
  <1> QED BY <1>2, <1>6 DEF Position

LEMMA DependenciesFirst ==
    ASSUME order \in BuildOrders, NEW n \in Names, NEW m \in Edges(n)
    PROVE  Position(m) < Position(n)
  <1> DEFINE k == Cardinality(Names)
  <1>1. /\ order \in [1 .. k -> Names]
        /\ \A i, j \in 1 .. k : order[i] = order[j] => i = j
        /\ \A i \in 1 .. k : Edges(order[i]) \subseteq {order[j] : j \in 1 .. (i - 1)}
    BY DEF BuildOrders
  <1>2. k \in Nat
    BY NamesFinite, FS_CardinalityType
  <1>3. Position(n) \in 1 .. k /\ order[Position(n)] = n
    BY PositionOfName
  <1>4. PICK j \in 1 .. (Position(n) - 1) : m = order[j]
    BY <1>1, <1>3
  <1>5. j \in 1 .. k /\ j < Position(n)
    BY <1>2, <1>3
  <1>6. m \in Names
    BY <1>1, <1>4, <1>5
  <1>7. Position(m) \in 1 .. k /\ order[Position(m)] = m
    BY <1>6, PositionOfName
  <1>8. Position(m) = j
    BY <1>1, <1>4, <1>5, <1>7
  <1> QED BY <1>5, <1>8

\* A reference to another image is an edge of the graph.
LEMMA ReferencesAreEdges ==
    ASSUME NEW u \in Units, NEW r \in References(u), r[1] # Name(u)
    PROVE  r[1] \in Edges(Name(u))
  <1>1. r \in HiveRefs[u] \cup ({Parents[u]} \ {NoParent, HiveParent})
    BY DEF References, ParentRefs
  <1> QED BY <1>1 DEF Edges

\* What a unit refers to and can rely on has its turn before it.
LEMMA PrecedingIsPassed ==
    ASSUME TypeOK, UnitOK, AtUnit, NEW w \in Units, Precedes(w, unit),
           NEW r \in References(unit), r[1] = Name(w)
    PROVE  w \in Passed
  <1>1. /\ unit \in Units /\ order \in BuildOrders
        /\ \A x \in todo : Position(Name(unit)) <= Position(Name(x))
        /\ IsBase(unit) \/ BaseOf(unit) \notin todo
    BY DEF TypeOK, UnitOK
  <1>2. CASE Name(w) # Name(unit)
    <2>1. Name(w) \in Edges(Name(unit))
      BY <1>1, <1>2, ReferencesAreEdges
    <2>2. Name(w) \in Names /\ Name(unit) \in Names
      BY <1>1, UnitShape DEF Names, Name
    <2>3. Position(Name(w)) < Position(Name(unit))
      BY <1>1, <2>1, <2>2, DependenciesFirst
    <2>4. Position(Name(w)) \in Nat /\ Position(Name(unit)) \in Nat
      BY <1>1, <2>2, PositionOfName
    <2>5. w \notin todo
      BY <1>1, <2>3, <2>4
    <2> QED BY <1>2, <2>5 DEF Passed
  <1>3. CASE ~IsBase(unit) /\ w = BaseOf(unit)
    BY <1>1, <1>3, BaseIsUnit DEF Passed
  <1> QED BY <1>2, <1>3 DEF Precedes

-----------------------------------------------------------------------------
(* What a solve is given.                                                  *)

\* Its dependencies that were asked for are made, and it gets their new tars.
LEMMA SolveIsFresh ==
    ASSUME BuildIInv, pc = "solve", NEW p \in building, NEW c \in contexts,
           NEW w \in Units, Name(w) = c[1], Tag(w) = c[2], Precedes(w, unit),
           Selected(w), p \in Asked(w)
    PROVE  /\ <<w, p>> \in attempted /\ w # unit /\ Built(w, p)
           /\ w \in Entrypoints => c[3] = "new"
  <1>1. TypeOK /\ UnitOK /\ AtUnit /\ SolveOK /\ PassedOK
    BY DEF BuildIInv, AtUnit
  <1>2. contexts = Contexts(unit, p)
    BY <1>1 DEF SolveOK
  <1>3. PICK r \in References(unit) : c = <<r[1], r[2], Source(r, p)>>
    BY <1>2 DEF Contexts
  <1>4. w \in Passed
    BY <1>1, <1>3, PrecedingIsPassed
  <1>5. <<w, p>> \in attempted /\ Built(w, p) /\ w # unit
    BY <1>1, <1>4 DEF PassedOK, Passed
  <1>6. ASSUME w \in Entrypoints
        PROVE  c[3] = "new"
    <2>1. tars[TarPath(w, p)] = "new"
      BY <1>5, <1>6 DEF Built
    <2>2. p \in AllPlatforms
      BY AskedAreConfigured DEF Asked
    <2>3. <<r[1], r[2], p>> = TarPath(w, p) /\ TarPath(w, p) \in TarPaths
      BY <1>3, <2>2, TarIsKept DEF TarPath
    <2>4. TarState(<<r[1], r[2], p>>) = "new"
      BY <2>1, <2>3 DEF TarState
    <2> QED BY <1>3, <2>4 DEF Source
  <1> QED BY <1>5, <1>6

\* A shard that solves a variant has made the tag that the variant extends.
LEMMA ShardSolveIsFresh ==
    ASSUME BuildIInv, pc = "solve", NEW p \in building, NEW c \in contexts,
           opts.sharded, opts.filters = {}, ~IsBase(unit),
           c[1] = Name(unit), c[2] = Tag(BaseOf(unit))
    PROVE  c[3] = "new"
  <1> DEFINE w == BaseOf(unit)
  <1>1. TypeOK /\ UnitOK /\ SolveOK /\ AtUnit
    BY DEF BuildIInv, AtUnit
  <1>2. unit \in Units /\ Selected(unit)
    BY <1>1 DEF UnitOK
  <1>3. w \in Units /\ IsBase(w) /\ Name(w) = Name(unit) /\ Precedes(w, unit)
    BY <1>2, BaseIsUnit DEF Precedes
  <1>4. Selected(w)
    <2>1. Owns(unit) /\ unit[3] \in VariantsOf[unit[1]] \cup {NoVariant}
      BY <1>2, UnitShape DEF Selected
    <2>2. w[1] = unit[1] /\ w[2] = unit[2] /\ unit = <<unit[1], unit[2], unit[3]>>
      BY <1>2, UnitShape DEF BaseOf
    <2>3. OwnsBase(w)
      BY <2>1, <2>2 DEF OwnsBase
    <2> QED BY <1>3, <2>3 DEF Selected, MatchesFilters
  <1>5. /\ p \in AllPlatforms /\ contexts = Contexts(unit, p)
        /\ <<unit, p>> \in attempted
        /\ \A r \in References(unit) : Resolvable(r, p)
    BY <1>1 DEF SolveOK
  <1>6. PICK r \in References(unit) : c = <<r[1], r[2], Source(r, p)>>
    BY <1>5 DEF Contexts
  <1>7. p \in UnitPlatforms({}, w)
    <2>1. CheckDepPlatform(r, p)
      BY <1>5 DEF Resolvable
    <2> QED BY <2>1, <1>3, <1>6 DEF CheckDepPlatform
  <1>8. p \in Asked(unit)
    BY <1>1, <1>5 DEF UnitOK
  <1>9. p \in Asked(w)
    BY <1>2, <1>3, <1>7, <1>8, AskedOfBoth DEF Asked
  <1>10. /\ Built(w, p)
         /\ w \in Entrypoints => c[3] = "new"
    BY <1>3, <1>4, <1>9, SolveIsFresh
  <1> QED BY <1>3, <1>10 DEF Built

-----------------------------------------------------------------------------
(* The steps of an invocation preserve the invariant.                      *)

LEMMA SameQuestions ==
    ASSUME UNCHANGED <<opts, order>>
    PROVE  /\ \A u : Asked(u)' = Asked(u) /\ (Selected(u)' <=> Selected(u))
           /\ \A n : Position(n)' = Position(n)
  BY DEF Asked, Selected, MatchesFilters, OwnsBase, Owns, Position

\* A step that only ends the invocation.
LEMMA ReturnStep ==
    ASSUME BuildIInv, pc # "done", NEW r \in {"setup failed", "empty shard", "error", "ok",
                                              "ok, nothing selected", "killed"},
           Return(r), UNCHANGED <<progress, building, contexts, failed, counters, history>>,
           tars' \in [TarPaths -> TarStates]
    PROVE  BuildIInv'
  <1> USE DEF BuildIInv, Return, progress, counters, history
  <1>1. TypeOK'
    BY DEF TypeOK
  <1>2. PhaseOK' /\ UnitOK' /\ SolveOK' /\ PassedOK' /\ BuiltOK' /\ CountersOK'
    BY DEF PhaseOK, UnitOK, SolveOK, PassedOK, BuiltOK, CountersOK, AtUnit
  <1>3. FailuresOK'
    BY DEF FailuresOK
  <1>4. AttemptsOK'
    BY SameQuestions DEF AttemptsOK
  <1> QED BY <1>1, <1>2, <1>3, <1>4

LEMMA SetupFailsStep ==
    ASSUME BuildIInv, SetupFails
    PROVE  BuildIInv'
  BY ReturnStep DEF SetupFails, BuildIInv, TypeOK

LEMMA StartBuildStep ==
    ASSUME BuildIInv, StartBuild
    PROVE  BuildIInv'
  <1>1. CASE opts.sharded /\ OwnedUnits = {}
    BY <1>1, ReturnStep DEF StartBuild, BuildIInv, TypeOK
  <1>2. CASE ~(opts.sharded /\ OwnedUnits = {})
    <2> USE DEF BuildIInv
    <2>1. /\ pc = "start" /\ pc' = "loop" /\ result' = result
          /\ UNCHANGED <<progress, building, contexts, failed, counters, tars, history>>
      BY <1>2 DEF StartBuild
    <2> USE <2>1 DEF progress, counters, history
    <2>2. TypeOK' /\ PhaseOK' /\ FailuresOK'
      BY DEF TypeOK, PhaseOK, FailuresOK
    <2>3. UnitOK' /\ SolveOK' /\ BuiltOK'
      BY DEF UnitOK, SolveOK, BuiltOK, AtUnit
    <2>4. AttemptsOK' /\ CountersOK'
      BY SameQuestions DEF AttemptsOK, CountersOK
    <2>5. PassedOK'
      BY DEF PassedOK, Passed, AtUnit, PhaseOK
    <2> QED BY <2>2, <2>3, <2>4, <2>5
  <1> QED BY <1>1, <1>2

LEMMA EndBuildStep ==
    ASSUME BuildIInv, EndBuild
    PROVE  BuildIInv'
  BY ReturnStep DEF EndBuild, BuildIInv, TypeOK

LEMMA KillStep ==
    ASSUME BuildIInv, Kill
    PROVE  BuildIInv'
  BY ReturnStep DEF Kill, BuildIInv, TypeOK, TarStates

LEMMA EndPlatformsStep ==
    ASSUME BuildIInv, EndPlatforms
    PROVE  BuildIInv'
  <1>1. CASE failed # {}
    BY <1>1, ReturnStep DEF EndPlatforms, BuildIInv, TypeOK
  <1>2. CASE failed = {}
    <2> USE DEF BuildIInv
    <2>1. /\ pc = "platforms" /\ platforms = {} /\ pc' = "loop" /\ result' = result
          /\ UNCHANGED <<progress, building, contexts, failed, counters, tars, history>>
      BY <1>2 DEF EndPlatforms
    <2> USE <1>2, <2>1 DEF progress, counters, history
    <2>2. TypeOK' /\ PhaseOK' /\ FailuresOK'
      BY DEF TypeOK, PhaseOK, FailuresOK
    <2>3. UnitOK' /\ SolveOK' /\ BuiltOK'
      BY DEF UnitOK, SolveOK, BuiltOK, AtUnit
    <2>4. AttemptsOK' /\ CountersOK'
      BY SameQuestions DEF AttemptsOK, CountersOK
    <2>5. PassedOK'
      <3> SUFFICES ASSUME NEW w \in Units \ todo, Selected(w), NEW q \in Asked(w)
                   PROVE  <<w, q>> \in attempted /\ Built(w, q)
        BY SameQuestions DEF PassedOK, Passed, AtUnit, Built
      <3>1. CASE w # unit
        BY <3>1 DEF PassedOK, Passed, AtUnit
      <3>2. CASE w = unit
        <4>1. q \in AllPlatforms
          BY AskedAreConfigured DEF Asked
        <4>2. <<unit, q>> \in attempted
          BY <3>2, <4>1 DEF UnitOK, AtUnit
        <4>3. building = {}
          BY DEF PhaseOK
        <4> QED BY <3>2, <4>1, <4>2, <4>3 DEF BuiltOK, AtUnit
      <3> QED BY <3>1, <3>2
    <2> QED BY <2>2, <2>3, <2>4, <2>5
  <1> QED BY <1>1, <1>2

LEMMA SkipUnitStep ==
    ASSUME BuildIInv, NEW u \in Units, SkipUnit(u)
    PROVE  BuildIInv'
  <1>1. /\ pc = "loop" /\ pc' = "loop" /\ todo' = todo \ {u} /\ ~Selected(u)
        /\ UNCHANGED <<opts, run, order, unit, platforms, building, contexts, failed,
                       counters, tars, history, result>>
    BY DEF SkipUnit
  <1> USE <1>1 DEF BuildIInv, counters, history
  <1>2. TypeOK' /\ PhaseOK' /\ FailuresOK'
    BY DEF TypeOK, PhaseOK, FailuresOK
  <1>3. UnitOK' /\ SolveOK' /\ BuiltOK'
    BY DEF UnitOK, SolveOK, BuiltOK, AtUnit
  <1>4. AttemptsOK' /\ CountersOK'
    BY SameQuestions DEF AttemptsOK, CountersOK
  <1>5. PassedOK'
    BY SameQuestions DEF PassedOK, Passed, AtUnit, Built
  <1> QED BY <1>2, <1>3, <1>4, <1>5

LEMMA SelectUnitStep ==
    ASSUME BuildIInv, NEW u \in Units, SelectUnit(u)
    PROVE  BuildIInv'
  <1>1. /\ pc = "loop" /\ pc' = "platforms" /\ todo' = todo \ {u} /\ unit' = u
        /\ platforms' = Asked(u) /\ failed' = {}
        /\ matched' = (matched \/ platforms' # {})
        /\ skipped' = (skipped \/ (platforms' = {} /\ opts.platforms # {}))
        /\ Selected(u) /\ BaseFirst(u)
        /\ UNCHANGED <<opts, run, order, building, contexts, tars, history, result>>
    BY DEF SelectUnit, Asked
  <1> USE <1>1 DEF BuildIInv, history
  <1>2. /\ u \in todo /\ (IsBase(u) \/ BaseOf(u) \notin todo)
        /\ \A w \in todo : Position(Name(u)) <= Position(Name(w))
    BY DEF BaseFirst, Reached
  <1>3. platforms = {} /\ failed = {} /\ broken = {}
    BY DEF PhaseOK, FailuresOK
  <1>4. Asked(u) \subseteq AllPlatforms
    BY AskedAreConfigured DEF Asked
  <1>5. TypeOK'
    BY <1>4 DEF TypeOK
  <1>6. PhaseOK' /\ FailuresOK' /\ SolveOK'
    BY <1>3 DEF PhaseOK, FailuresOK, SolveOK
  <1>7. \A q : <<u, q>> \notin attempted
    BY <1>2 DEF AttemptsOK
  <1>8. UnitOK'
    BY <1>2, <1>7, SameQuestions DEF UnitOK
  <1>9. AttemptsOK' /\ BuiltOK'
    BY <1>7, SameQuestions DEF AttemptsOK, BuiltOK
  <1>10. PassedOK'
    BY SameQuestions DEF PassedOK, Passed, AtUnit, Built
  <1>11. CountersOK'
    BY <1>2, <1>3, SameQuestions DEF CountersOK
  <1> QED BY <1>5, <1>6, <1>8, <1>9, <1>10, <1>11

\* A platform of the current unit has its turn; it is built, fails or is left
\* out.
LEMMA TurnStep ==
    ASSUME BuildIInv, pc = "platforms", NEW p \in platforms,
           platforms' = platforms \ {p}, attempted' = attempted \cup {<<unit, p>>},
           UNCHANGED <<opts, run, order, todo, unit, counters, tars, consumed, result>>,
           pc' \in {"platforms", "solve"}
    PROVE  /\ p \in AllPlatforms /\ p \notin failed /\ unit \in Units
           /\ UnitOK' /\ AttemptsOK' /\ PassedOK' /\ CountersOK'
           /\ attempted' \in SUBSET (Units \X AllPlatforms)
           /\ platforms' \in SUBSET AllPlatforms
  <1> USE DEF BuildIInv, counters
  <1>1. AtUnit /\ AtUnit'
    BY DEF AtUnit
  <1>2. /\ unit \in Units \ todo /\ Selected(unit) /\ p \in AllPlatforms
        /\ p \in Asked(unit) /\ <<unit, p>> \notin attempted
    BY <1>1 DEF UnitOK, TypeOK
  <1>3. p \notin failed
    BY <1>2 DEF FailuresOK
  <1>4. UnitOK'
    BY <1>1, <1>2, SameQuestions DEF UnitOK
  <1>5. AttemptsOK'
    BY <1>2, SameQuestions DEF AttemptsOK
  <1>6. PassedOK'
    BY <1>1, SameQuestions DEF PassedOK, Passed, Built
  <1>7. CountersOK'
    BY SameQuestions DEF CountersOK
  <1>8. /\ attempted' \in SUBSET (Units \X AllPlatforms)
        /\ platforms' \in SUBSET AllPlatforms
    <2>1. /\ attempted \in SUBSET (Units \X AllPlatforms)
          /\ platforms \in SUBSET AllPlatforms
      BY DEF TypeOK
    <2>2. <<unit, p>> \in Units \X AllPlatforms
      BY <1>2
    <2> QED BY <2>1, <2>2
  <1> QED BY <1>2, <1>3, <1>4, <1>5, <1>6, <1>7, <1>8

LEMMA SkipPlatformStep ==
    ASSUME BuildIInv, NEW p \in AllPlatforms, SkipPlatform(p)
    PROVE  BuildIInv'
  <1>1. /\ pc = "platforms" /\ pc' = "platforms" /\ p \in platforms
        /\ unit \notin Entrypoints /\ ~IsBase(unit)
        /\ platforms' = platforms \ {p} /\ attempted' = attempted \cup {<<unit, p>>}
        /\ UNCHANGED <<opts, run, order, todo, unit, building, contexts, failed,
                       counters, tars, consumed, broken, result>>
    BY DEF SkipPlatform
  <1>2. /\ p \notin failed /\ UnitOK' /\ AttemptsOK' /\ PassedOK' /\ CountersOK'
        /\ attempted' \in SUBSET (Units \X AllPlatforms)
        /\ platforms' \in SUBSET AllPlatforms
    BY <1>1, TurnStep
  <1> USE <1>1 DEF BuildIInv, counters
  <1>3. TypeOK'
    BY <1>2 DEF TypeOK
  <1>4. PhaseOK' /\ SolveOK' /\ FailuresOK'
    BY DEF PhaseOK, SolveOK, FailuresOK
  <1>5. BuiltOK'
    BY DEF BuiltOK, Built, AtUnit
  <1> QED BY <1>2, <1>3, <1>4, <1>5

LEMMA FailPlatformStep ==
    ASSUME BuildIInv, NEW p \in AllPlatforms, FailPlatform(p)
    PROVE  BuildIInv'
  <1>1. /\ pc = "platforms" /\ pc' = "platforms" /\ p \in platforms
        /\ platforms' = platforms \ {p} /\ attempted' = attempted \cup {<<unit, p>>}
        /\ failed' = failed \cup {p} /\ broken' = broken \cup {TarPath(unit, p)}
        /\ UNCHANGED <<opts, run, order, todo, unit, building, contexts,
                       counters, tars, consumed, result>>
    BY DEF FailPlatform
  <1>2. /\ unit \in Units /\ UnitOK' /\ AttemptsOK' /\ PassedOK' /\ CountersOK'
        /\ attempted' \in SUBSET (Units \X AllPlatforms)
        /\ platforms' \in SUBSET AllPlatforms
    BY <1>1, TurnStep
  <1>3. TarPath(unit, p) \in TarPaths
    BY <1>2, TarIsKept
  <1> USE <1>1 DEF BuildIInv, counters
  <1>4. TypeOK'
    BY <1>2, <1>3 DEF TypeOK
  <1>5. PhaseOK' /\ SolveOK' /\ FailuresOK'
    BY DEF PhaseOK, SolveOK, FailuresOK
  <1>6. BuiltOK'
    BY DEF BuiltOK, Built, AtUnit
  <1> QED BY <1>2, <1>4, <1>5, <1>6

LEMMA StartPlatformStep ==
    ASSUME BuildIInv, NEW p \in AllPlatforms, StartPlatform(p)
    PROVE  BuildIInv'
  <1>1. /\ pc = "platforms" /\ pc' = "solve" /\ p \in platforms
        /\ unit \in Entrypoints /\ \A r \in References(unit) : Resolvable(r, p)
        /\ platforms' = platforms \ {p} /\ attempted' = attempted \cup {<<unit, p>>}
        /\ building' = {p} /\ contexts' = Contexts(unit, p)
        /\ UNCHANGED <<opts, run, order, todo, unit, failed, counters, tars,
                       consumed, broken, result>>
    BY DEF StartPlatform
  <1>2. /\ p \notin failed /\ UnitOK' /\ AttemptsOK' /\ PassedOK' /\ CountersOK'
        /\ attempted' \in SUBSET (Units \X AllPlatforms)
        /\ platforms' \in SUBSET AllPlatforms
    BY <1>1, TurnStep
  <1> USE <1>1 DEF BuildIInv, counters
  <1>3. TypeOK'
    BY <1>2 DEF TypeOK
  <1>4. PhaseOK' /\ FailuresOK'
    BY DEF PhaseOK, FailuresOK
  <1>5. SolveOK'
    <2>1. \A r, q : Source(r, q)' = Source(r, q)
      BY DEF Source, TarState
    <2>2. /\ Contexts(unit, p)' = Contexts(unit, p)
          /\ \A r : Resolvable(r, p)' <=> Resolvable(r, p)
      BY <2>1 DEF Contexts, Resolvable
    <2> QED BY <1>2, <2>2 DEF SolveOK
  <1>6. BuiltOK'
    BY DEF BuiltOK, Built, AtUnit, PhaseOK
  <1> QED BY <1>2, <1>3, <1>4, <1>5, <1>6

\* The solve of a platform ends and leaves a tar.
LEMMA SolveEndsStep ==
    ASSUME BuildIInv, pc = "solve", pc' = "platforms", NEW p \in building,
           NEW left \in TarStates, tars' = [tars EXCEPT ![TarPath(unit, p)] = left],
           \/ /\ left = "new" /\ UNCHANGED <<failed, broken>>
           \/ /\ failed' = failed \cup {p} /\ broken' = broken \cup {TarPath(unit, p)},
           building' = {} /\ contexts' = {},
           UNCHANGED <<progress, counters, attempted, result>>
    PROVE  BuildIInv'
  <1> USE DEF BuildIInv, progress, counters
  <1>1. /\ building = {p} /\ p \in AllPlatforms /\ <<unit, p>> \in attempted
        /\ p \notin failed /\ unit \in Entrypoints
    BY DEF SolveOK
  <1>2. AtUnit /\ AtUnit' /\ unit \in Units
    BY DEF AtUnit, UnitOK
  <1>3. TarPath(unit, p) \in TarPaths
    BY <1>1, <1>2, TarIsKept
  <1>4. TypeOK'
    BY <1>1, <1>3 DEF TypeOK
  <1>5. PhaseOK' /\ SolveOK'
    BY DEF PhaseOK, SolveOK
  <1>6. FailuresOK'
    BY <1>1 DEF FailuresOK
  <1>7. UnitOK' /\ AttemptsOK' /\ CountersOK'
    BY <1>2, SameQuestions DEF UnitOK, AttemptsOK, CountersOK
  <1>8. ASSUME NEW w \in Units, NEW q \in AllPlatforms, <<w, q>> # <<unit, p>>, Built(w, q)
        PROVE  Built(w, q)'
    <2>1. TarPath(w, q) # TarPath(unit, p)
      BY <1>2, <1>8, TarsDiffer
    <2>2. tars'[TarPath(w, q)] = tars[TarPath(w, q)]
      BY <2>1, <1>8, TarIsKept DEF TypeOK
    <2> QED BY <1>8, <2>2 DEF Built
  <1>9. PassedOK'
    <2> SUFFICES ASSUME NEW w \in Passed, Selected(w), NEW q \in Asked(w)
                 PROVE  <<w, q>> \in attempted /\ Built(w, q)'
      BY <1>2, SameQuestions DEF PassedOK, Passed
    <2>1. <<w, q>> \in attempted /\ Built(w, q) /\ w \in Units /\ w # unit
      BY <1>2 DEF PassedOK, Passed
    <2>2. q \in AllPlatforms
      BY <2>1, AskedAreConfigured DEF Asked
    <2> QED BY <1>8, <2>1, <2>2
  <1>10. BuiltOK'
    <2> SUFFICES ASSUME NEW q \in AllPlatforms \ failed', <<unit, q>> \in attempted
                 PROVE  Built(unit, q)'
      BY DEF BuiltOK
    <2>1. CASE q # p
      <3>1. q \notin building /\ q \notin failed
        BY <1>1, <2>1
      <3>2. Built(unit, q)
        BY <1>2, <3>1 DEF BuiltOK
      <3> QED BY <1>2, <1>8, <2>1, <3>2
    <2>2. CASE q = p
      <3>1. left = "new"
        BY <2>2
      <3>2. tars'[TarPath(unit, p)] = "new"
        BY <1>3, <3>1 DEF TypeOK
      <3> QED BY <1>1, <2>2, <3>2 DEF Built
    <2> QED BY <2>1, <2>2
  <1> QED BY <1>4, <1>5, <1>6, <1>7, <1>9, <1>10

LEMMA BuildSucceedsStep ==
    ASSUME BuildIInv, BuildSucceeds
    PROVE  BuildIInv'
  <1>1. PICK p \in building : tars' = [tars EXCEPT ![TarPath(unit, p)] = "new"]
    BY DEF BuildSucceeds
  <1>2. /\ pc = "solve" /\ pc' = "platforms" /\ building' = {} /\ contexts' = {}
        /\ UNCHANGED <<progress, counters, attempted, result>> /\ UNCHANGED <<failed, broken>>
    BY DEF BuildSucceeds
  <1>3. "new" \in TarStates
    BY DEF TarStates
  <1> QED BY <1>1, <1>2, <1>3, SolveEndsStep

LEMMA BuildFailsStep ==
    ASSUME BuildIInv, BuildFails
    PROVE  BuildIInv'
  <1>1. PICK p \in building :
          /\ \E left \in {tars[TarPath(unit, p)], "partial", "new"} :
                tars' = [tars EXCEPT ![TarPath(unit, p)] = left]
          /\ failed' = failed \cup {p}
          /\ broken' = broken \cup {TarPath(unit, p)}
    BY DEF BuildFails
  <1>2. /\ pc = "solve" /\ pc' = "platforms" /\ building' = {} /\ contexts' = {}
        /\ UNCHANGED <<progress, counters, attempted, result>>
    BY DEF BuildFails
  <1>3. tars[TarPath(unit, p)] \in TarStates
    <2>1. p \in AllPlatforms /\ unit \in Units
      BY <1>2 DEF BuildIInv, TypeOK, UnitOK, AtUnit
    <2> QED BY <2>1, TarIsKept DEF BuildIInv, TypeOK
  <1>4. PICK left \in TarStates : tars' = [tars EXCEPT ![TarPath(unit, p)] = left]
    BY <1>1, <1>3 DEF TarStates
  <1> QED BY <1>1, <1>2, <1>4, SolveEndsStep

LEMMA NextInvocationStep ==
    ASSUME BuildIInv, NEW o \in Repeatable, NextInvocation(o)
    PROVE  BuildIInv'
  <1>1. run' \in 1 .. MaxRuns /\ opts' \in Invocations
    <2>1. run \in 1 .. MaxRuns /\ run < MaxRuns /\ run' = run + 1 /\ opts' = o
      BY DEF BuildIInv, TypeOK, NextInvocation
    <2> QED BY <2>1, ProjectAssumption
  <1> USE DEF BuildIInv, NextInvocation
  <1>2. tars' \in [TarPaths -> TarStates]
    BY DEF TypeOK, TarStates
  <1>3. TypeOK'
    BY <1>1, <1>2 DEF TypeOK
  <1>4. PhaseOK' /\ UnitOK' /\ SolveOK' /\ BuiltOK'
    BY DEF PhaseOK, UnitOK, SolveOK, BuiltOK, AtUnit
  <1>5. FailuresOK' /\ AttemptsOK' /\ CountersOK'
    BY DEF FailuresOK, AttemptsOK, CountersOK
  <1>6. PassedOK'
    BY DEF PassedOK, Passed, AtUnit
  <1> QED BY <1>3, <1>4, <1>5, <1>6

LEMMA BuildInit ==
    Init => BuildIInv
  <1> SUFFICES ASSUME Init PROVE BuildIInv
    OBVIOUS
  <1> USE DEF Init
  <1>1. TypeOK
    <2>1. run \in 1 .. MaxRuns
      BY ProjectAssumption
    <2>2. tars \in [TarPaths -> TarStates]
      BY DEF TarStates
    <2> QED BY <2>1, <2>2 DEF TypeOK
  <1>2. PhaseOK /\ UnitOK /\ SolveOK /\ BuiltOK
    BY DEF PhaseOK, UnitOK, SolveOK, BuiltOK, AtUnit
  <1>3. FailuresOK /\ AttemptsOK /\ CountersOK
    BY DEF FailuresOK, AttemptsOK, CountersOK
  <1>4. PassedOK
    BY DEF PassedOK, Passed, AtUnit
  <1> QED BY <1>1, <1>2, <1>3, <1>4 DEF BuildIInv

LEMMA BuildStutter ==
    ASSUME BuildIInv, UNCHANGED vars
    PROVE  BuildIInv'
  <1> USE DEF BuildIInv, vars, progress, counters, history
  <1>1. TypeOK' /\ PhaseOK' /\ FailuresOK'
    BY DEF TypeOK, PhaseOK, FailuresOK
  <1>2. UnitOK' /\ AttemptsOK' /\ CountersOK'
    BY SameQuestions DEF UnitOK, AttemptsOK, CountersOK, AtUnit
  <1>3. PassedOK' /\ BuiltOK'
    BY SameQuestions DEF PassedOK, BuiltOK, Passed, Built, AtUnit
  <1>4. SolveOK'
    <2>1. \A r, q : Source(r, q)' = Source(r, q)
      BY DEF Source, TarState
    <2>2. \A q : /\ Contexts(unit, q)' = Contexts(unit, q)
                 /\ \A r : Resolvable(r, q)' <=> Resolvable(r, q)
      BY <2>1 DEF Contexts, Resolvable
    <2> QED BY <2>2 DEF SolveOK
  <1> QED BY <1>1, <1>2, <1>3, <1>4

LEMMA BuildNext ==
    BuildIInv /\ [Next]_vars => BuildIInv'
  <1> SUFFICES ASSUME BuildIInv, [Next]_vars PROVE BuildIInv'
    OBVIOUS
  <1>1. CASE Build
    <2>1. CASE \E u \in Units : SkipUnit(u) \/ SelectUnit(u)
      BY <2>1, SkipUnitStep, SelectUnitStep
    <2>2. CASE \E p \in AllPlatforms : SkipPlatform(p) \/ FailPlatform(p) \/ StartPlatform(p)
      BY <2>2, SkipPlatformStep, FailPlatformStep, StartPlatformStep
    <2>3. CASE SetupFails \/ StartBuild \/ BuildSucceeds \/ BuildFails \/ EndPlatforms \/ EndBuild
      BY <2>3, SetupFailsStep, StartBuildStep, BuildSucceedsStep, BuildFailsStep,
         EndPlatformsStep, EndBuildStep
    <2> QED BY <1>1, <2>1, <2>2, <2>3 DEF Build
  <1>2. CASE Kill
    BY <1>2, KillStep
  <1>3. CASE \E o \in Repeatable : NextInvocation(o)
    BY <1>3, NextInvocationStep
  <1>4. CASE Done \/ UNCHANGED vars
    BY <1>4, BuildStutter DEF Done
  <1> QED BY <1>1, <1>2, <1>3, <1>4 DEF Next

LEMMA BuildIInvHolds == Spec => []BuildIInv
  BY BuildInit, BuildNext, PTL DEF Spec

-----------------------------------------------------------------------------
(* What an invocation says of itself.                                      *)

Outcomes == SuccessIsComplete /\ EmptyBuildIsVisible /\ EveryPlatformTried

LEMMA SameWanted ==
    ASSUME UNCHANGED opts
    PROVE  Wanted' = Wanted /\ \A u : Selected(u)' <=> Selected(u)
  BY DEF Wanted, Selected, MatchesFilters, OwnsBase, Owns

\* A success follows the last unit; until then all was made that was asked for.
LEMMA EndBuildOutcome ==
    ASSUME BuildIInv, EndBuild
    PROVE  Outcomes'
  <1>1. /\ pc = "loop" /\ todo = {}
        /\ result' = IF ~matched /\ skipped THEN "ok, nothing selected" ELSE "ok"
        /\ UNCHANGED <<progress, building, contexts, failed, counters, tars, history>>
    BY DEF EndBuild, Return
  <1> USE <1>1 DEF progress, counters, history
  <1>2. Passed = Units /\ PassedOK /\ CountersOK /\ PhaseOK
    BY DEF Passed, AtUnit, BuildIInv
  <1>3. SuccessIsComplete'
    <2> SUFFICES ASSUME NEW b \in Wanted PROVE tars[TarPath(b[1], b[2])] = "new"
      BY SameWanted DEF SuccessIsComplete, TarPath
    <2> QED BY <1>2 DEF Wanted, PassedOK, Built, Asked
  <1>4. EmptyBuildIsVisible'
    <2> SUFFICES ASSUME result' = "ok", attempted = {}, opts.platforms # {},
                        NEW u \in Units, Selected(u)
                 PROVE  FALSE
      BY SameWanted DEF EmptyBuildIsVisible
    <2>1. Asked(u) = {}
      BY <1>2 DEF PassedOK
    <2>2. skipped
      BY <1>2, <2>1 DEF CountersOK
    <2>3. ~matched
      BY <1>2 DEF CountersOK, PhaseOK
    <2> QED BY <2>2, <2>3
  <1>5. EveryPlatformTried'
    BY DEF EveryPlatformTried
  <1> QED BY <1>3, <1>4, <1>5 DEF Outcomes

LEMMA OutcomesInductive ==
    BuildIInv /\ Outcomes /\ [Next]_vars /\ BuildIInv' => Outcomes'
  <1> SUFFICES ASSUME BuildIInv, Outcomes, [Next]_vars, BuildIInv' PROVE Outcomes'
    OBVIOUS
  <1>1. CASE pc' # "done"
    BY <1>1 DEF BuildIInv, PhaseOK, Outcomes, SuccessIsComplete, EmptyBuildIsVisible,
                EveryPlatformTried
  <1>2. CASE result' \in {"setup failed", "empty shard", "killed"}
    BY <1>2 DEF Outcomes, SuccessIsComplete, EmptyBuildIsVisible, EveryPlatformTried
  <1>3. CASE EndBuild
    BY <1>3, EndBuildOutcome
  <1>4. CASE EndPlatforms /\ failed # {}
    <2>1. /\ pc = "platforms" /\ platforms = {} /\ result' = "error"
          /\ UNCHANGED <<progress, history>>
      BY <1>4 DEF EndPlatforms, Return
    <2>2. /\ unit \in Units
          /\ \A p \in AllPlatforms : p \in Asked(unit) => <<unit, p>> \in attempted
      BY <2>1 DEF BuildIInv, UnitOK, AtUnit
    <2>3. \A p \in Asked(unit) : <<unit, p>> \in attempted
      BY <2>2, AskedAreConfigured DEF Asked
    <2>4. EveryPlatformTried'
      BY <2>1, <2>3 DEF EveryPlatformTried, Asked, progress, history
    <2> QED BY <2>1, <2>4 DEF Outcomes, SuccessIsComplete, EmptyBuildIsVisible
  <1>5. CASE UNCHANGED vars
    <2> USE <1>5 DEF vars, progress, history
    <2>1. Wanted' = Wanted /\ \A u : Selected(u)' <=> Selected(u)
      BY SameWanted
    <2>2. SuccessIsComplete'
      BY <2>1 DEF Outcomes, SuccessIsComplete, TarPath
    <2> QED BY <2>1, <2>2 DEF Outcomes, EmptyBuildIsVisible, EveryPlatformTried
  <1> QED
    <2>1. CASE SetupFails \/ StartBuild \/ Kill
      BY <1>1, <1>2, <2>1 DEF SetupFails, StartBuild, Kill, Return
    <2>2. CASE \E u \in Units : SkipUnit(u) \/ SelectUnit(u)
      BY <1>1, <2>2 DEF SkipUnit, SelectUnit
    <2>3. CASE \E p \in AllPlatforms : SkipPlatform(p) \/ FailPlatform(p) \/ StartPlatform(p)
      BY <1>1, <2>3 DEF SkipPlatform, FailPlatform, StartPlatform
    <2>4. CASE BuildSucceeds \/ BuildFails \/ \E o \in Repeatable : NextInvocation(o)
      BY <1>1, <2>4 DEF BuildSucceeds, BuildFails, NextInvocation
    <2>5. CASE EndPlatforms
      BY <1>1, <1>4, <2>5 DEF EndPlatforms
    <2>6. CASE EndBuild
      BY <1>3, <2>6
    <2>7. CASE Done \/ UNCHANGED vars
      BY <1>5, <2>7 DEF Done
    <2> QED BY <2>1, <2>2, <2>3, <2>4, <2>5, <2>6, <2>7 DEF Next, Build

\* A failed platform is not tried again, so what BuildKit is given is not broken.
LEMMA SolveIsUnbroken ==
    BuildIInv => NothingBuiltOnFailure
  <1> SUFFICES ASSUME BuildIInv, pc = "solve", NEW c \in contexts, NEW p \in building,
                      <<c[1], c[2], p>> \in broken
               PROVE  FALSE
    BY DEF NothingBuiltOnFailure
  <1>1. PICK q \in failed : <<c[1], c[2], p>> = TarPath(unit, q)
    BY DEF BuildIInv, FailuresOK
  <1>2. p = q
    BY <1>1 DEF TarPath
  <1> QED BY <1>2 DEF BuildIInv, SolveOK

\* The exit status of an invocation is true: no solve is given what failed
\* before, a success has written every tar that was asked for, a build of
\* nothing is no plain success, and a failing tag was tried on all platforms.
THEOREM BuildInvariantHolds == Spec => []BuildInvariant
  <1>1. Init => Outcomes
    BY DEF Init, Outcomes, SuccessIsComplete, EmptyBuildIsVisible, EveryPlatformTried
  <1>2. BuildIInv /\ Outcomes => BuildInvariant
    BY SolveIsUnbroken DEF BuildIInv, Outcomes, BuildInvariant
  <1> QED BY <1>1, <1>2, OutcomesInductive, BuildIInvHolds, PTL DEF Spec

-----------------------------------------------------------------------------
(* What successful builds were made from.                                  *)

\* Only a successful solve adds to what was consumed.
LEMMA ConsumedBySolves ==
    ASSUME BuildIInv, [Next]_vars
    PROVE  \/ UNCHANGED <<opts, consumed>>
           \/ consumed' = {}
           \/ /\ pc = "solve" /\ UNCHANGED opts
              /\ \E p \in building :
                    consumed' = consumed \cup {<<unit, p, c[1], c[2], c[3]>> : c \in contexts}
  <1>1. CASE SetupFails \/ StartBuild \/ EndPlatforms \/ EndBuild \/ Kill
    BY <1>1 DEF SetupFails, StartBuild, EndPlatforms, EndBuild, Kill, progress, history
  <1>2. CASE \E u \in Units : SkipUnit(u) \/ SelectUnit(u)
    BY <1>2 DEF SkipUnit, SelectUnit, history
  <1>3. CASE \E p \in AllPlatforms : SkipPlatform(p) \/ FailPlatform(p) \/ StartPlatform(p)
    BY <1>3 DEF SkipPlatform, FailPlatform, StartPlatform
  <1>4. CASE BuildSucceeds
    BY <1>4 DEF BuildSucceeds, progress
  <1>5. CASE BuildFails
    BY <1>5 DEF BuildFails, progress
  <1>6. CASE \E o \in Repeatable : NextInvocation(o)
    BY <1>6 DEF NextInvocation
  <1>7. CASE Done \/ UNCHANGED vars
    BY <1>7 DEF Done, vars, progress, history
  <1> QED BY <1>1, <1>2, <1>3, <1>4, <1>5, <1>6, <1>7 DEF Next, Build

LEMMA FreshInductive ==
    BuildIInv /\ DependenciesAreFresh /\ [Next]_vars => DependenciesAreFresh'
  <1> SUFFICES ASSUME BuildIInv, DependenciesAreFresh, [Next]_vars
               PROVE  DependenciesAreFresh'
    OBVIOUS
  <1>1. CASE UNCHANGED <<opts, consumed>>
    BY <1>1, SameWanted DEF DependenciesAreFresh
  <1>2. CASE consumed' = {}
    BY <1>2 DEF DependenciesAreFresh
  <1>3. ASSUME pc = "solve", UNCHANGED opts, NEW p \in building,
               consumed' = consumed \cup {<<unit, p, c[1], c[2], c[3]>> : c \in contexts}
        PROVE  DependenciesAreFresh'
    <2> SUFFICES ASSUME NEW d \in consumed', NEW w \in Units,
                        Name(w) = d[3], Tag(w) = d[4], <<w, d[2]>> \in Wanted,
                        Precedes(w, d[1])
                 PROVE  d[5] = "new"
      BY <1>3, SameWanted DEF DependenciesAreFresh
    <2>1. CASE d \in consumed
      BY <2>1 DEF DependenciesAreFresh
    <2>2. ASSUME NEW c \in contexts, d = <<unit, p, c[1], c[2], c[3]>>
          PROVE  d[5] = "new"
      <3>1. Selected(w) /\ w \in Entrypoints /\ p \in Asked(w)
        BY <2>2 DEF Wanted, Asked
      <3>2. c[3] = "new"
        BY <1>3, <2>2, <3>1, SolveIsFresh
      <3> QED BY <2>2, <3>2
    <2> QED BY <1>3, <2>1, <2>2
  <1> QED BY <1>1, <1>2, <1>3, ConsumedBySolves

\* Nothing is built on what an earlier invocation or the registry holds of an
\* image that this invocation builds itself, in any order of the loops.
THEOREM DependenciesFresh == Spec => []DependenciesAreFresh
  <1>1. Init => DependenciesAreFresh
    BY DEF Init, DependenciesAreFresh
  <1> QED BY <1>1, FreshInductive, BuildIInvHolds, PTL DEF Spec

LEMMA ShardInductive ==
    BuildIInv /\ ShardBuildsItsBases /\ [Next]_vars => ShardBuildsItsBases'
  <1> SUFFICES ASSUME BuildIInv, ShardBuildsItsBases, [Next]_vars,
                      opts'.sharded, opts'.filters = {}, NEW d \in consumed',
                      ~IsBase(d[1]), d[3] = Name(d[1]), d[4] = Tag(BaseOf(d[1]))
               PROVE  d[5] = "new"
    BY DEF ShardBuildsItsBases
  <1>1. CASE UNCHANGED <<opts, consumed>>
    BY <1>1 DEF ShardBuildsItsBases
  <1>2. CASE consumed' = {}
    BY <1>2
  <1>3. ASSUME pc = "solve", UNCHANGED opts, NEW p \in building,
               consumed' = consumed \cup {<<unit, p, c[1], c[2], c[3]>> : c \in contexts}
        PROVE  d[5] = "new"
    <2>1. CASE d \in consumed
      BY <1>3, <2>1 DEF ShardBuildsItsBases
    <2>2. ASSUME NEW c \in contexts, d = <<unit, p, c[1], c[2], c[3]>>
          PROVE  d[5] = "new"
      BY <1>3, <2>2, ShardSolveIsFresh
    <2> QED BY <1>3, <2>1, <2>2
  <1> QED BY <1>1, <1>2, <1>3, ConsumedBySolves

\* A shard builds the tags that its variants extend and builds on those.
THEOREM ShardsBuildTheirBases == Spec => []ShardBuildsItsBases
  <1>1. Init => ShardBuildsItsBases
    BY DEF Init, ShardBuildsItsBases
  <1> QED BY <1>1, ShardInductive, BuildIInvHolds, PTL DEF Spec

-----------------------------------------------------------------------------
(* The loops implement BuildContract.                                      *)

LEMMA OutcomeOfPhase ==
    ASSUME BuildIInv
    PROVE  pc # "done" <=> Outcome = "none"
  BY DEF BuildIInv, PhaseOK, TypeOK, Outcome

\* What is lost are the failed platforms of the current unit.
LEMMA LostAreFailed ==
    BuildIInv => /\ LostBuilds = {<<unit, q>> : q \in failed}
                 /\ \A q \in failed : unit \in Units /\ q \in AllPlatforms
  <1> SUFFICES ASSUME BuildIInv
               PROVE  /\ LostBuilds = {<<unit, q>> : q \in failed}
                      /\ \A q \in failed : unit \in Units /\ q \in AllPlatforms
    OBVIOUS
  <1>1. attempted \in SUBSET (Units \X AllPlatforms) /\ FailuresOK
    BY DEF BuildIInv, TypeOK
  <1>2. \A q \in failed : unit \in Units /\ q \in AllPlatforms /\ <<unit, q>> \in attempted
    BY <1>1 DEF FailuresOK
  <1>3. ASSUME NEW b \in LostBuilds
        PROVE  b \in {<<unit, q>> : q \in failed}
    <2>1. PICK u \in Units, q \in AllPlatforms : b = <<u, q>>
      BY <1>1 DEF LostBuilds
    <2>2. PICK r \in failed : TarPath(u, q) = TarPath(unit, r)
      BY <1>1, <2>1 DEF LostBuilds, TarOf, FailuresOK
    <2> QED BY <1>2, <2>1, <2>2, TarsDiffer
  <1>4. ASSUME NEW q \in failed
        PROVE  <<unit, q>> \in LostBuilds
    BY <1>1, <1>2 DEF LostBuilds, TarOf, FailuresOK
  <1> QED BY <1>2, <1>3, <1>4

LEMMA LostAreFailedNext ==
    BuildIInv' => LostBuilds' = {<<unit', q>> : q \in failed'}
  <1> DEFINE LostOK == /\ LostBuilds = {<<unit, q>> : q \in failed}
                       /\ \A q \in failed : unit \in Units /\ q \in AllPlatforms
  <1>1. BuildIInv => LostOK
    BY LostAreFailed
  <1> HIDE DEF LostOK
  <1>2. BuildIInv' => LostOK'
    BY <1>1, PTL
  <1> QED BY <1>2 DEF LostOK

LEMMA AttemptedArePairs ==
    ASSUME BuildIInv, NEW b \in attempted
    PROVE  b = <<b[1], b[2]>> /\ b[1] \in Units /\ b[2] \in AllPlatforms
  <1>1. attempted \in SUBSET (Units \X AllPlatforms)
    BY DEF BuildIInv, TypeOK
  <1> QED BY <1>1

LEMMA ContractInit ==
    Init => Contract!Init
  <1> SUFFICES ASSUME Init PROVE Contract!Init
    OBVIOUS
  <1>1. Wanted \in SUBSET AllBuilds
    BY DEF Wanted, AllBuilds
  <1>2. MadeBuilds = {} /\ LostBuilds = {}
    BY DEF Init, MadeBuilds, LostBuilds
  <1>3. Outcome = "none"
    BY DEF Init, Outcome
  <1> QED BY <1>1, <1>2, <1>3 DEF Init, Contract!Init

ContractKept == Contract!Next \/ UNCHANGED Contract!vars

\* Steps that the contract does not see.
LEMMA QuietStep ==
    ASSUME UNCHANGED <<opts, tars, MadeBuilds, LostBuilds, Outcome>>
    PROVE  ContractKept
  BY SameWanted DEF ContractKept, Contract!vars

LEMMA StopRefines ==
    ASSUME BuildIInv, pc # "done", SetupFails \/ Kill
    PROVE  ContractKept
  <1>1. /\ UNCHANGED <<progress, building, contexts, failed, counters, history>>
        /\ result' \in {"setup failed", "killed"}
    BY DEF SetupFails, Kill, Return
  <1>2. Outcome = "none" /\ Outcome' = "stopped"
    BY <1>1, OutcomeOfPhase DEF Outcome
  <1>3. UNCHANGED <<Wanted, MadeBuilds, LostBuilds>>
    BY <1>1, SameWanted DEF progress, history, MadeBuilds, LostBuilds, TarOf, TarPath
  <1>4. UNCHANGED tars \/ \E b \in Wanted \ (MadeBuilds \cup LostBuilds) :
                              tars' = [tars EXCEPT ![TarOf(b)] = "partial"]
    <2>1. CASE UNCHANGED tars
      BY <2>1
    <2>2. ASSUME Kill, NEW p \in building, tars' = [tars EXCEPT ![TarPath(unit, p)] = "partial"]
          PROVE  \E b \in Wanted \ (MadeBuilds \cup LostBuilds) :
                     tars' = [tars EXCEPT ![TarOf(b)] = "partial"]
      <3> DEFINE b == <<unit, p>>
      <3>1. pc = "solve"
        BY <2>2 DEF BuildIInv, PhaseOK, Kill
      <3>2. /\ p \in AllPlatforms /\ p \notin failed /\ unit \in Entrypoints
            /\ b \in attempted /\ building = {p}
        BY <3>1 DEF BuildIInv, SolveOK
      <3>3. unit \in Units /\ Selected(unit) /\ p \in Asked(unit)
        BY <3>1, <3>2 DEF BuildIInv, UnitOK, AtUnit
      <3>4. b \in Wanted
        BY <3>2, <3>3 DEF Wanted, Asked
      <3>5. b \notin MadeBuilds
        BY <3>2 DEF MadeBuilds
      <3>6. b \notin LostBuilds
        BY <3>2, LostAreFailed
      <3>7. TarOf(b) = TarPath(unit, p)
        BY DEF TarOf
      <3> QED BY <2>2, <3>4, <3>5, <3>6, <3>7
    <2> QED BY <2>1, <2>2 DEF SetupFails, Kill
  <1>5. Contract!Stop
    BY <1>2, <1>3, <1>4 DEF Contract!Stop
  <1> QED BY <1>5 DEF ContractKept, Contract!Next

\* A shard that owns nothing is asked for nothing.
LEMMA EmptyShardWantsNothing ==
    ASSUME opts.sharded, OwnedUnits = {}
    PROVE  Wanted = {}
  <1> SUFFICES ASSUME NEW u \in Units, Selected(u) PROVE FALSE
    BY DEF Wanted
  <1>1. /\ u[1] \in Defs /\ u[2] \in TagsOf[u[1]]
    BY UnitShape
  <1>2. PICK w \in Units : Owns(w)
    BY <1>1, UnitMade DEF Selected, OwnsBase
  <1> QED BY <1>2 DEF OwnedUnits

LEMMA StartRefines ==
    ASSUME BuildIInv, StartBuild
    PROVE  ContractKept
  <1>1. /\ pc = "start" /\ attempted = {}
        /\ UNCHANGED <<progress, building, contexts, failed, counters, tars, history>>
    BY DEF StartBuild, BuildIInv, PhaseOK
  <1>2. /\ MadeBuilds = {} /\ LostBuilds = {} /\ UNCHANGED <<MadeBuilds, LostBuilds>>
    BY <1>1 DEF MadeBuilds, LostBuilds, history
  <1>3. UNCHANGED <<opts, Wanted>>
    BY <1>1, SameWanted DEF progress
  <1>4. CASE opts.sharded /\ OwnedUnits = {}
    <2>1. Outcome = "none" /\ Outcome' = "ok"
      BY <1>1, <1>4, OutcomeOfPhase DEF StartBuild, Return, Outcome
    <2>2. Contract!Succeed
      BY <1>1, <1>2, <1>3, <1>4, <2>1, EmptyShardWantsNothing DEF Contract!Succeed
    <2> QED BY <2>2 DEF ContractKept, Contract!Next
  <1>5. CASE ~(opts.sharded /\ OwnedUnits = {})
    <2>1. UNCHANGED Outcome
      BY <1>5 DEF StartBuild, Outcome
    <2> QED BY <1>1, <1>2, <1>3, <2>1, QuietStep
  <1> QED BY <1>4, <1>5

LEMMA UnitRefines ==
    ASSUME BuildIInv, NEW u \in Units, SkipUnit(u) \/ SelectUnit(u)
    PROVE  ContractKept
  <1>1. /\ pc = "loop" /\ building = {}
        /\ UNCHANGED <<opts, building, tars, history, result>>
    BY DEF SkipUnit, SelectUnit, BuildIInv, PhaseOK
  <1>2. UNCHANGED <<MadeBuilds, LostBuilds, Outcome>>
    BY <1>1 DEF MadeBuilds, LostBuilds, TarOf, TarPath, history, Outcome
  <1> QED BY <1>1, <1>2, QuietStep

LEMMA EndPlatformsRefines ==
    ASSUME BuildIInv, EndPlatforms
    PROVE  ContractKept
  <1>1. /\ pc = "platforms" /\ platforms = {} /\ building = {}
        /\ UNCHANGED <<progress, building, contexts, failed, counters, tars, history>>
    BY DEF EndPlatforms, BuildIInv, PhaseOK
  <1>2. UNCHANGED <<MadeBuilds, LostBuilds>>
    BY <1>1 DEF MadeBuilds, LostBuilds, TarOf, TarPath, history, progress
  <1>3. UNCHANGED <<opts, Wanted>>
    BY <1>1, SameWanted DEF progress
  <1>4. CASE failed = {}
    <2>1. UNCHANGED Outcome
      BY <1>4 DEF EndPlatforms, Outcome
    <2> QED BY <1>1, <1>2, <1>3, <2>1, QuietStep
  <1>5. CASE failed # {}
    <2>1. Outcome = "none" /\ Outcome' = "failed"
      BY <1>1, <1>5, OutcomeOfPhase DEF EndPlatforms, Return, Outcome
    <2>2. PICK q \in failed : <<unit, q>> \in LostBuilds
      BY <1>5, LostAreFailed
    <2>3. SameTagAs(<<unit, q>>) \cap Wanted \subseteq MadeBuilds \cup LostBuilds
      <3> SUFFICES ASSUME NEW p \in AllPlatforms, <<unit, p>> \in Wanted
                   PROVE  <<unit, p>> \in MadeBuilds \cup LostBuilds
        BY DEF SameTagAs
      <3>1. unit \in Entrypoints /\ p \in Asked(unit)
        BY DEF Wanted, Asked
      <3>2. <<unit, p>> \in attempted
        BY <1>1, <3>1 DEF BuildIInv, UnitOK, AtUnit
      <3> QED BY <1>1, <3>1, <3>2 DEF MadeBuilds
    <2>4. Contract!Fail
      BY <1>1, <1>2, <1>3, <2>1, <2>2, <2>3 DEF Contract!Fail
    <2> QED BY <2>4 DEF ContractKept, Contract!Next
  <1> QED BY <1>4, <1>5

LEMMA EndBuildRefines ==
    ASSUME BuildIInv, EndBuild
    PROVE  ContractKept
  <1>1. /\ pc = "loop" /\ todo = {} /\ building = {} /\ failed = {}
        /\ result' \in {"ok", "ok, nothing selected"}
        /\ UNCHANGED <<progress, building, contexts, failed, counters, tars, history>>
    BY DEF EndBuild, Return, BuildIInv, PhaseOK
  <1>2. UNCHANGED <<opts, Wanted, MadeBuilds, LostBuilds>>
    BY <1>1, SameWanted DEF MadeBuilds, LostBuilds, TarOf, TarPath, history, progress
  <1>3. Outcome = "none" /\ Outcome' = "ok"
    BY <1>1, OutcomeOfPhase DEF Outcome
  <1>4. LostBuilds = {}
    BY <1>1, LostAreFailed
  <1>5. Wanted \subseteq MadeBuilds
    <2> SUFFICES ASSUME NEW b \in Wanted PROVE b \in MadeBuilds
      OBVIOUS
    <2>1. /\ b \in Units \X AllPlatforms
          /\ Selected(b[1]) /\ b[2] \in Asked(b[1]) /\ b[1] \in Entrypoints
      BY DEF Wanted, Asked
    <2>3. b[1] \in Passed /\ b = <<b[1], b[2]>>
      <3>1. PICK u \in Units, q \in AllPlatforms : b = <<u, q>>
        BY <2>1
      <3> QED BY <1>1, <3>1 DEF Passed, AtUnit
    <2>2. b \in attempted
      BY <1>1, <2>1, <2>3 DEF BuildIInv, PassedOK
    <2> QED BY <1>1, <1>4, <2>1, <2>2 DEF MadeBuilds
  <1>6. MadeBuilds \subseteq Wanted
    BY DEF MadeBuilds, BuildIInv, AttemptsOK, TypeOK, Wanted, Asked
  <1>7. Contract!Succeed
    BY <1>1, <1>2, <1>3, <1>4, <1>5, <1>6 DEF Contract!Succeed
  <1> QED BY <1>7 DEF ContractKept, Contract!Next

LEMMA SkipPlatformRefines ==
    ASSUME BuildIInv, BuildIInv', NEW p \in AllPlatforms, SkipPlatform(p)
    PROVE  ContractKept
  <1>1. /\ unit \notin Entrypoints /\ attempted' = attempted \cup {<<unit, p>>}
        /\ UNCHANGED <<opts, unit, building, failed, tars, broken, result>>
    BY DEF SkipPlatform
  <1>2. UNCHANGED LostBuilds
    BY <1>1, LostAreFailed, LostAreFailedNext
  <1>3. UNCHANGED MadeBuilds
    BY <1>1, <1>2 DEF MadeBuilds
  <1>4. UNCHANGED Outcome
    BY <1>1 DEF Outcome
  <1> QED BY <1>1, <1>2, <1>3, <1>4, QuietStep

LEMMA StartPlatformRefines ==
    ASSUME BuildIInv, BuildIInv', NEW p \in AllPlatforms, StartPlatform(p)
    PROVE  ContractKept
  <1>1. /\ pc = "platforms" /\ p \in platforms /\ attempted' = attempted \cup {<<unit, p>>}
        /\ building' = {p}
        /\ UNCHANGED <<opts, unit, failed, tars, broken, result>>
    BY DEF StartPlatform
  <1>2. building = {} /\ <<unit, p>> \notin attempted
    BY <1>1 DEF BuildIInv, PhaseOK, UnitOK, AtUnit
  <1>3. \A b \in attempted : b[1] = unit => b[2] # p
    <2>1. \A b \in attempted : b = <<b[1], b[2]>>
      BY AttemptedArePairs
    <2> QED BY <1>2, <2>1
  <1>4. UNCHANGED LostBuilds
    BY <1>1, LostAreFailed, LostAreFailedNext
  <1>5. UNCHANGED MadeBuilds
    BY <1>1, <1>2, <1>3, <1>4 DEF MadeBuilds
  <1>6. UNCHANGED Outcome
    BY <1>1 DEF Outcome
  <1> QED BY <1>1, <1>4, <1>5, <1>6, QuietStep

\* A failure loses one build, before the solve or in it.
LEMMA LossRefines ==
    ASSUME BuildIInv, BuildIInv', AtUnit, NEW p \in AllPlatforms, p \notin failed,
           \/ /\ <<unit, p>> \notin attempted /\ attempted' = attempted \cup {<<unit, p>>}
              /\ building = {}
           \/ /\ <<unit, p>> \in attempted /\ UNCHANGED attempted
              /\ building = {p},
           failed' = failed \cup {p}, building' = {}, UNCHANGED <<opts, unit, result>>,
           \E left \in {tars[TarPath(unit, p)], "partial", "new"} :
               tars' = [tars EXCEPT ![TarPath(unit, p)] = left]
    PROVE  ContractKept
  <1> DEFINE b == <<unit, p>>
  <1>1. unit \in Units /\ b \in AllBuilds
    BY DEF BuildIInv, UnitOK, AllBuilds
  <1>2. LostBuilds = {<<unit, q>> : q \in failed} /\ \A q \in failed : q \in AllPlatforms
    BY LostAreFailed
  <1>3. LostBuilds' = LostBuilds \cup {b}
    BY <1>2, LostAreFailedNext
  <1>4. b \notin LostBuilds /\ \A l \in LostBuilds : l \in SameTagAs(b)
    BY <1>2 DEF SameTagAs
  <1>5. b \notin MadeBuilds
    BY DEF MadeBuilds
  <1>6. MadeBuilds' = MadeBuilds
    <2>1. \A x \in attempted : x = <<x[1], x[2]>>
      BY AttemptedArePairs
    <2>2. \A x \in attempted : (x[1] = unit /\ x[2] = p) => x = b
      BY <2>1
    <2> QED BY <1>3, <2>2 DEF MadeBuilds
  <1>7. Outcome = "none" /\ UNCHANGED Outcome
    BY OutcomeOfPhase DEF Outcome, AtUnit
  <1>8. UNCHANGED Wanted
    BY SameWanted
  <1>9. Contract!Lose(b)
    BY <1>3, <1>4, <1>5, <1>6, <1>7, <1>8 DEF Contract!Lose, Contract!Open, TarOf
  <1> QED BY <1>1, <1>9 DEF ContractKept, Contract!Next

LEMMA FailPlatformRefines ==
    ASSUME BuildIInv, BuildIInv', NEW p \in AllPlatforms, FailPlatform(p)
    PROVE  ContractKept
  <1>1. /\ pc = "platforms" /\ p \in platforms /\ attempted' = attempted \cup {<<unit, p>>}
        /\ failed' = failed \cup {p}
        /\ UNCHANGED <<opts, unit, building, tars, result>>
    BY DEF FailPlatform
  <1>2. AtUnit /\ building = {} /\ <<unit, p>> \notin attempted
    BY <1>1 DEF BuildIInv, PhaseOK, UnitOK, AtUnit
  <1>3. p \notin failed
    BY <1>2 DEF BuildIInv, FailuresOK
  <1>4. tars' = [tars EXCEPT ![TarPath(unit, p)] = tars[TarPath(unit, p)]]
    BY <1>1 DEF BuildIInv, TypeOK
  <1> QED BY <1>1, <1>2, <1>3, <1>4, LossRefines

LEMMA BuildFailsRefines ==
    ASSUME BuildIInv, BuildIInv', BuildFails
    PROVE  ContractKept
  <1>1. PICK p \in building :
          /\ \E left \in {tars[TarPath(unit, p)], "partial", "new"} :
                tars' = [tars EXCEPT ![TarPath(unit, p)] = left]
          /\ failed' = failed \cup {p}
    BY DEF BuildFails
  <1>2. pc = "solve" /\ building' = {} /\ UNCHANGED <<opts, unit, attempted, result>>
    BY DEF BuildFails, progress
  <1>3. /\ AtUnit /\ building = {p} /\ p \in AllPlatforms
        /\ p \notin failed /\ <<unit, p>> \in attempted
    BY <1>2 DEF BuildIInv, SolveOK, AtUnit
  <1> QED BY <1>1, <1>2, <1>3, LossRefines

\* A successful solve makes one build, from what was made before.
LEMMA BuildSucceedsRefines ==
    ASSUME BuildIInv, BuildIInv', BuildSucceeds
    PROVE  ContractKept
  <1>1. PICK p \in building : tars' = [tars EXCEPT ![TarPath(unit, p)] = "new"]
    BY DEF BuildSucceeds
  <1> DEFINE b == <<unit, p>>
  <1>2. /\ pc = "solve" /\ building' = {}
        /\ UNCHANGED <<opts, unit, failed, attempted, broken, result>>
    BY DEF BuildSucceeds, progress
  <1>3. /\ AtUnit /\ building = {p} /\ p \in AllPlatforms /\ contexts = Contexts(unit, p)
        /\ p \notin failed /\ b \in attempted /\ unit \in Entrypoints
    BY <1>2 DEF BuildIInv, SolveOK, AtUnit
  <1>4. unit \in Units /\ Selected(unit) /\ p \in Asked(unit)
    BY <1>3 DEF BuildIInv, UnitOK
  <1>5. b \in AllBuilds /\ b \in Wanted
    BY <1>3, <1>4 DEF AllBuilds, Wanted, Asked
  <1>6. LostBuilds = {<<unit, q>> : q \in failed} /\ LostBuilds' = LostBuilds
    BY <1>2, LostAreFailed, LostAreFailedNext
  <1>7. b \notin LostBuilds /\ \A l \in LostBuilds : l \in SameTagAs(b)
    BY <1>3, <1>6, LostAreFailed DEF SameTagAs
  <1>8. b \notin MadeBuilds
    BY <1>3 DEF MadeBuilds
  <1>9. MadeBuilds' = MadeBuilds \cup {b}
    <2>1. \A x \in attempted : x = <<x[1], x[2]>>
      BY AttemptedArePairs
    <2>2. \A x \in attempted : (x[1] = unit /\ x[2] = p) => x = b
      BY <2>1
    <2> QED BY <1>2, <1>3, <1>6, <1>7, <2>2 DEF MadeBuilds
  <1>10. UsesOf(b) \cap Wanted \subseteq MadeBuilds
    <2> SUFFICES ASSUME NEW w \in Units, <<Name(w), Tag(w)>> \in References(unit),
                        Precedes(w, unit), <<w, p>> \in Wanted
                 PROVE  <<w, p>> \in MadeBuilds
      BY DEF UsesOf
    <2>1. Selected(w) /\ w \in Entrypoints /\ p \in Asked(w)
      BY DEF Wanted, Asked
    <2>2. PICK c \in contexts : c[1] = Name(w) /\ c[2] = Tag(w)
      <3> DEFINE r == <<Name(w), Tag(w)>>
      <3>1. <<r[1], r[2], Source(r, p)>> \in contexts
        BY <1>3 DEF Contexts
      <3> QED BY <3>1
    <2>3. <<w, p>> \in attempted /\ w # unit
      BY <1>2, <2>1, <2>2, SolveIsFresh
    <2>4. <<w, p>> \notin LostBuilds
      BY <1>6, <2>3
    <2> QED BY <2>1, <2>3, <2>4 DEF MadeBuilds
  <1>11. Outcome = "none" /\ UNCHANGED Outcome
    BY <1>2, OutcomeOfPhase DEF Outcome
  <1>12. UNCHANGED Wanted
    BY <1>2, SameWanted
  <1>13. TarOf(b) = TarPath(unit, p)
    BY DEF TarOf
  <1>14. Contract!Make(b)
    BY <1>1, <1>5, <1>6, <1>7, <1>8, <1>9, <1>10, <1>11, <1>12, <1>13
       DEF Contract!Make, Contract!Open
  <1> QED BY <1>5, <1>14 DEF ContractKept, Contract!Next

LEMMA NextInvocationRefines ==
    ASSUME BuildIInv, NEW o \in Repeatable, NextInvocation(o)
    PROVE  ContractKept
  <1>1. /\ pc = "done" /\ attempted' = {} /\ result' = "none"
        /\ tars' = [f \in TarPaths |-> IF o.generate THEN "none"
                                       ELSE IF tars[f] = "new" THEN "old" ELSE tars[f]]
    BY DEF NextInvocation
  <1>2. Outcome # "none" /\ Outcome' = "none"
    BY <1>1, OutcomeOfPhase DEF Outcome
  <1>3. MadeBuilds' = {} /\ LostBuilds' = {}
    BY <1>1 DEF MadeBuilds, LostBuilds
  <1>4. Wanted' \in SUBSET AllBuilds
    BY DEF Wanted, AllBuilds
  <1>5. tars' \in {[f \in TarPaths |-> "none"],
                   [f \in TarPaths |-> IF tars[f] = "new" THEN "old" ELSE tars[f]]}
    BY <1>1
  <1>6. Contract!Again
    BY <1>2, <1>3, <1>4, <1>5 DEF Contract!Again
  <1> QED BY <1>6 DEF ContractKept, Contract!Next

LEMMA StepRefines ==
    BuildIInv /\ BuildIInv' /\ [Next]_vars => ContractKept
  <1> SUFFICES ASSUME BuildIInv, BuildIInv', [Next]_vars PROVE ContractKept
    OBVIOUS
  <1>1. CASE SetupFails \/ Kill
    BY <1>1, StopRefines DEF SetupFails, Kill
  <1>2. CASE StartBuild
    BY <1>2, StartRefines
  <1>3. CASE \E u \in Units : SkipUnit(u) \/ SelectUnit(u)
    BY <1>3, UnitRefines
  <1>4. CASE \E p \in AllPlatforms : SkipPlatform(p) \/ FailPlatform(p) \/ StartPlatform(p)
    BY <1>4, SkipPlatformRefines, FailPlatformRefines, StartPlatformRefines
  <1>5. CASE BuildSucceeds
    BY <1>5, BuildSucceedsRefines
  <1>6. CASE BuildFails
    BY <1>6, BuildFailsRefines
  <1>7. CASE EndPlatforms
    BY <1>7, EndPlatformsRefines
  <1>8. CASE EndBuild
    BY <1>8, EndBuildRefines
  <1>9. CASE \E o \in Repeatable : NextInvocation(o)
    BY <1>9, NextInvocationRefines
  <1>10. CASE Done \/ UNCHANGED vars
    <2>1. UNCHANGED <<opts, unit, building, attempted, broken, result, tars>>
      BY <1>10 DEF Done, vars, progress, history
    <2>2. UNCHANGED <<MadeBuilds, LostBuilds, Outcome>>
      BY <2>1 DEF MadeBuilds, LostBuilds, TarOf, TarPath, Outcome
    <2> QED BY <2>1, <2>2, QuietStep
  <1> QED BY <1>1, <1>2, <1>3, <1>4, <1>5, <1>6, <1>7, <1>8, <1>9, <1>10 DEF Next, Build

\* The loops of `ch build` implement BuildContract: every build is made at most
\* once, from what this invocation made where it was asked for it, nothing but
\* the same tag is built after a loss, and a success is all that was wanted.
THEOREM LoopsKeepContract == Spec => KeepsContract
  <1>1. BuildIInv /\ BuildIInv' /\ [Next]_vars => [Contract!Next]_(Contract!vars)
    BY StepRefines DEF ContractKept
  <1> QED BY <1>1, ContractInit, BuildIInvHolds, PTL DEF Spec, KeepsContract, Contract!Spec
-----------------------------------------------------------------------------
(***************************************************************************)
(* One call of client.Build. Its safety follows from RetryInvariant, which *)
(* ties the counters, the connection and the exporter to the place the     *)
(* loop is at.                                                             *)
(***************************************************************************)

\* Build starts with its first attempt still to be counted.
LEMMA InitInvariant == RetryInit => RetryInvariant
  <1>1. RetryInit => FlagsOK
    BY Zenon DEF RetryInit, FlagsOK
  <1> QED BY <1>1, RetriesAssumption
    DEF RetryInit, RetryInvariant, RetryTypeOK, StartsFollowAttempts, LateSolveIsLast, FailuresArePast,
        RetryUsesFreshConnection, SuccessMeansExported

\* Starting a solve: the only step that counts, and the only one that can be late.
LEMMA StartInvariant == RetryInvariant /\ StartAttempt => RetryInvariant'
  <1> SUFFICES ASSUME RetryInvariant, StartAttempt PROVE RetryInvariant'
    OBVIOUS
  <1>1. FlagsOK'
    BY Zenon DEF RetryInvariant, RetryTypeOK, FlagsOK, StartAttempt, fixed, connection
  <1>2. RetryTypeOK'
    BY <1>1, RetriesAssumption DEF RetryInvariant, RetryTypeOK, StartAttempt, fixed, connection
  <1>3. StartsFollowAttempts' /\ LateSolveIsLast'
    BY <1>2
    DEF RetryInvariant, RetryTypeOK, StartsFollowAttempts, LateSolveIsLast, StartAttempt,
        fixed, connection
  <1>4. FailuresArePast' /\ RetryUsesFreshConnection'
    BY DEF RetryInvariant, RetryTypeOK, FailuresArePast, RetryUsesFreshConnection,
           StartAttempt, fixed, connection
  <1>5. (answer = "ok" => place = "done")' /\ (export = "written" => tar = "complete")'
    BY DEF RetryInvariant, RetryTypeOK, StartAttempt, fixed, connection
  <1>6. SuccessMeansExported'
    BY DEF RetryInvariant, RetryTypeOK, SuccessMeansExported, StartAttempt, fixed, connection
  <1> QED BY <1>2, <1>3, <1>4, <1>5, <1>6 DEF RetryInvariant

\* The exporter works: only the tar changes.
LEMMA ExportInvariant == RetryInvariant /\ (ExportStarts \/ ExportEnds) => RetryInvariant'
  <1> SUFFICES ASSUME RetryInvariant, ExportStarts \/ ExportEnds PROVE RetryInvariant'
    OBVIOUS
  <1>1. FlagsOK'
    BY Zenon
    DEF RetryInvariant, RetryTypeOK, FlagsOK, ExportStarts, ExportEnds, fixed, connection,
        counts
  <1>2. RetryTypeOK'
    BY <1>1, RetriesAssumption
    DEF RetryInvariant, RetryTypeOK, ExportStarts, ExportEnds, fixed, connection, counts
  <1>3. StartsFollowAttempts' /\ LateSolveIsLast'
    BY <1>2
    DEF RetryInvariant, RetryTypeOK, StartsFollowAttempts, LateSolveIsLast, ExportStarts,
        ExportEnds, fixed, connection, counts
  <1>4. FailuresArePast' /\ RetryUsesFreshConnection'
    <2>1. UNCHANGED <<place, hasEndpoint, conn, generation, spent>>
      BY DEF ExportStarts, ExportEnds, fixed, connection
    <2> QED BY <2>1, Zenon DEF RetryInvariant, FailuresArePast, RetryUsesFreshConnection
  <1>5. (answer = "ok" => place = "done")' /\ (export = "written" => tar = "complete")'
    BY DEF RetryInvariant, RetryTypeOK, ExportStarts, ExportEnds, fixed, connection, counts
  <1>6. SuccessMeansExported'
    BY DEF RetryInvariant, RetryTypeOK, SuccessMeansExported, ExportStarts, ExportEnds,
           fixed, connection, counts
  <1> QED BY <1>2, <1>3, <1>4, <1>5, <1>6 DEF RetryInvariant

\* The image is pushed: nothing on disk changes.
LEMMA PushInvariant == RetryInvariant /\ Push => RetryInvariant'
  <1> SUFFICES ASSUME RetryInvariant, Push PROVE RetryInvariant'
    OBVIOUS
  <1>1. FlagsOK'
    BY Zenon DEF RetryInvariant, RetryTypeOK, FlagsOK, Push, fixed, connection, counts
  <1>2. RetryTypeOK'
    BY <1>1, RetriesAssumption DEF RetryInvariant, RetryTypeOK, Push, fixed, connection, counts
  <1>3. StartsFollowAttempts' /\ LateSolveIsLast'
    BY <1>2
    DEF RetryInvariant, RetryTypeOK, StartsFollowAttempts, LateSolveIsLast, Push, fixed,
        connection, counts
  <1>4. FailuresArePast' /\ RetryUsesFreshConnection'
    BY DEF RetryInvariant, RetryTypeOK, FailuresArePast, RetryUsesFreshConnection, Push,
           fixed, connection, counts
  <1>5. (answer = "ok" => place = "done")' /\ (export = "written" => tar = "complete")'
    BY DEF RetryInvariant, RetryTypeOK, Push, fixed, connection, counts
  <1>6. SuccessMeansExported'
    BY DEF RetryInvariant, RetryTypeOK, SuccessMeansExported, Push, fixed, connection, counts
  <1> QED BY <1>2, <1>3, <1>4, <1>5, <1>6 DEF RetryInvariant

\* The solve succeeds and Build returns.
LEMMA SuccessInvariant == RetryInvariant /\ SolveSucceeds => RetryInvariant'
  <1> SUFFICES ASSUME RetryInvariant, SolveSucceeds PROVE RetryInvariant'
    OBVIOUS
  <1>1. FlagsOK'
    BY Zenon
    DEF RetryInvariant, RetryTypeOK, FlagsOK, SolveSucceeds, Answer, fixed, connection,
        counts, solve
  <1>2. RetryTypeOK'
    BY <1>1, RetriesAssumption
    DEF RetryInvariant, RetryTypeOK, SolveSucceeds, Answer, fixed, connection, counts,
        solve
  <1>3. StartsFollowAttempts' /\ LateSolveIsLast'
    BY <1>2
    DEF RetryInvariant, RetryTypeOK, StartsFollowAttempts, LateSolveIsLast, SolveSucceeds,
        Answer, fixed, connection, counts, solve
  <1>4. FailuresArePast' /\ RetryUsesFreshConnection'
    BY DEF RetryInvariant, RetryTypeOK, FailuresArePast, RetryUsesFreshConnection,
           SolveSucceeds, Answer, fixed, connection, counts, solve
  <1>5. (answer = "ok" => place = "done")' /\ (export = "written" => tar = "complete")'
    BY DEF RetryInvariant, RetryTypeOK, SolveSucceeds, Answer, fixed, connection, counts, solve
  <1>6. SuccessMeansExported'
    BY DEF RetryInvariant, RetryTypeOK, SuccessMeansExported, SolveSucceeds, Answer, fixed,
           connection, counts, solve
  <1> QED BY <1>2, <1>3, <1>4, <1>5, <1>6 DEF RetryInvariant

\* The solve fails and spends its connection.
LEMMA ErrorInvariant == RetryInvariant /\ (\E e \in Errors : SolveFails(e)) => RetryInvariant'
  <1> SUFFICES ASSUME RetryInvariant, \E e \in Errors : SolveFails(e) PROVE RetryInvariant'
    OBVIOUS
  <1>1. FlagsOK'
    BY Zenon DEF RetryInvariant, RetryTypeOK, FlagsOK, SolveFails, fixed, counts, solve
  <1>2. RetryTypeOK'
    BY <1>1, RetriesAssumption
    DEF RetryInvariant, RetryTypeOK, SolveFails, fixed, counts, solve
  <1>3. StartsFollowAttempts' /\ LateSolveIsLast'
    BY <1>2
    DEF RetryInvariant, RetryTypeOK, StartsFollowAttempts, LateSolveIsLast, SolveFails,
        fixed, counts, solve
  <1>4. FailuresArePast' /\ RetryUsesFreshConnection'
    BY DEF RetryInvariant, RetryTypeOK, FailuresArePast, RetryUsesFreshConnection,
           SolveFails, fixed, counts, solve
  <1>5. (answer = "ok" => place = "done")' /\ (export = "written" => tar = "complete")'
    BY DEF RetryInvariant, RetryTypeOK, SolveFails, fixed, counts, solve
  <1>6. SuccessMeansExported'
    BY DEF RetryInvariant, RetryTypeOK, SuccessMeansExported, SolveFails, fixed, counts, solve
  <1> QED BY <1>2, <1>3, <1>4, <1>5, <1>6 DEF RetryInvariant

\* The decision after a failure: it only goes on below the bound, with a live context.
LEMMA FailureInvariant == RetryInvariant /\ AfterFailure => RetryInvariant'
  <1> SUFFICES ASSUME RetryInvariant, AfterFailure PROVE RetryInvariant'
    OBVIOUS
  <1>1. FlagsOK'
    BY Zenon
    DEF RetryInvariant, RetryTypeOK, FlagsOK, AfterFailure, Answer, fixed, connection,
        counts, solve
  <1>2. RetryTypeOK'
    BY <1>1, RetriesAssumption
    DEF RetryInvariant, RetryTypeOK, AfterFailure, Answer, fixed, connection, counts, solve
  <1>3. StartsFollowAttempts' /\ LateSolveIsLast'
    <2>1. /\ place = "failed" /\ UNCHANGED <<starts, late, ctx>>
          /\ \/ place' = "done" /\ attempt' = attempt
             \/ place' = "wait" /\ attempt' = attempt + 1 /\ ctx # "cancelled"
      BY DEF AfterFailure, Answer, counts
    <2>2. starts = attempt + 1 /\ attempt \in Nat /\ LateSolveIsLast
      BY <2>1, RetriesAssumption DEF RetryInvariant, RetryTypeOK, StartsFollowAttempts
    <2>3. CASE place' = "done" /\ attempt' = attempt
      BY ONLY <2>1, <2>2, <2>3 DEF StartsFollowAttempts, LateSolveIsLast
    <2>4. CASE place' = "wait" /\ attempt' = attempt + 1 /\ ctx # "cancelled"
      BY ONLY <2>1, <2>2, <2>4 DEF StartsFollowAttempts, LateSolveIsLast
    <2> QED BY <2>1, <2>3, <2>4
  <1>4. FailuresArePast' /\ RetryUsesFreshConnection'
    BY DEF RetryInvariant, RetryTypeOK, FailuresArePast, RetryUsesFreshConnection,
           AfterFailure, Answer, fixed, connection, counts, solve
  <1>5. (answer = "ok" => place = "done")' /\ (export = "written" => tar = "complete")'
    BY DEF RetryInvariant, RetryTypeOK, AfterFailure, Answer, fixed, connection, counts, solve
  <1>6. SuccessMeansExported'
    BY DEF RetryInvariant, RetryTypeOK, SuccessMeansExported, AfterFailure, Answer, fixed,
           connection, counts, solve
  <1> QED BY <1>2, <1>3, <1>4, <1>5, <1>6 DEF RetryInvariant

\* The pause between two attempts.
LEMMA PauseInvariant == RetryInvariant /\ (WaitCancelled \/ DelayElapsed) => RetryInvariant'
  <1> SUFFICES ASSUME RetryInvariant, WaitCancelled \/ DelayElapsed PROVE RetryInvariant'
    OBVIOUS
  <1>1. FlagsOK'
    BY Zenon
    DEF RetryInvariant, RetryTypeOK, FlagsOK, WaitCancelled, DelayElapsed, Answer, fixed,
        connection, counts, solve
  <1>2. RetryTypeOK'
    BY <1>1, RetriesAssumption
    DEF RetryInvariant, RetryTypeOK, WaitCancelled, DelayElapsed, Answer, fixed,
        connection, counts, solve
  <1>3. StartsFollowAttempts' /\ LateSolveIsLast'
    BY <1>2
    DEF RetryInvariant, RetryTypeOK, StartsFollowAttempts, LateSolveIsLast, WaitCancelled,
        DelayElapsed, Answer, fixed, connection, counts, solve
  <1>4. FailuresArePast' /\ RetryUsesFreshConnection'
    BY DEF RetryInvariant, RetryTypeOK, FailuresArePast, RetryUsesFreshConnection,
           WaitCancelled, DelayElapsed, Answer, fixed, connection, counts, solve
  <1>5. (answer = "ok" => place = "done")' /\ (export = "written" => tar = "complete")'
    BY DEF RetryInvariant, RetryTypeOK, WaitCancelled, DelayElapsed, Answer, fixed,
           connection, counts, solve
  <1>6. SuccessMeansExported'
    BY DEF RetryInvariant, RetryTypeOK, SuccessMeansExported, WaitCancelled, DelayElapsed,
           Answer, fixed, connection, counts, solve
  <1> QED BY <1>2, <1>3, <1>4, <1>5, <1>6 DEF RetryInvariant

\* The new connection, or none: its number is above every one that failed.
LEMMA ResetInvariant == RetryInvariant /\ ResetConnection => RetryInvariant'
  <1> SUFFICES ASSUME RetryInvariant, ResetConnection PROVE RetryInvariant'
    OBVIOUS
  <1>1. FlagsOK'
    BY Zenon DEF RetryInvariant, RetryTypeOK, FlagsOK, ResetConnection, fixed, counts, solve
  <1>2. RetryTypeOK'
    BY <1>1, RetriesAssumption
    DEF RetryInvariant, RetryTypeOK, ResetConnection, fixed, counts, solve
  <1>3. StartsFollowAttempts' /\ LateSolveIsLast'
    BY <1>2
    DEF RetryInvariant, RetryTypeOK, StartsFollowAttempts, LateSolveIsLast,
        ResetConnection, fixed, counts, solve
  <1>4. FailuresArePast' /\ RetryUsesFreshConnection'
    BY DEF RetryInvariant, RetryTypeOK, FailuresArePast, RetryUsesFreshConnection,
           ResetConnection, fixed, counts, solve
  <1>5. (answer = "ok" => place = "done")' /\ (export = "written" => tar = "complete")'
    BY DEF RetryInvariant, RetryTypeOK, ResetConnection, fixed, counts, solve
  <1>6. SuccessMeansExported'
    BY DEF RetryInvariant, RetryTypeOK, SuccessMeansExported, ResetConnection, fixed,
           counts, solve
  <1> QED BY <1>2, <1>3, <1>4, <1>5, <1>6 DEF RetryInvariant

\* A cancellation, at whatever place of the loop.
LEMMA CancelInvariant == RetryInvariant /\ Cancel => RetryInvariant'
  <1> SUFFICES ASSUME RetryInvariant, Cancel PROVE RetryInvariant'
    OBVIOUS
  <1>1. FlagsOK'
    BY Zenon DEF RetryInvariant, RetryTypeOK, FlagsOK, Cancel, fixed, connection, counts, solve
  <1>2. RetryTypeOK'
    BY <1>1, RetriesAssumption
    DEF RetryInvariant, RetryTypeOK, Cancel, fixed, connection, counts, solve
  <1>3. StartsFollowAttempts' /\ LateSolveIsLast'
    BY <1>2
    DEF RetryInvariant, RetryTypeOK, StartsFollowAttempts, LateSolveIsLast, Cancel, fixed,
        connection, counts, solve
  <1>4. FailuresArePast' /\ RetryUsesFreshConnection'
    BY DEF RetryInvariant, RetryTypeOK, FailuresArePast, RetryUsesFreshConnection, Cancel,
           fixed, connection, counts, solve
  <1>5. (answer = "ok" => place = "done")' /\ (export = "written" => tar = "complete")'
    BY DEF RetryInvariant, RetryTypeOK, Cancel, fixed, connection, counts, solve
  <1>6. SuccessMeansExported'
    BY DEF RetryInvariant, RetryTypeOK, SuccessMeansExported, Cancel, fixed, connection,
           counts, solve
  <1> QED BY <1>2, <1>3, <1>4, <1>5, <1>6 DEF RetryInvariant

\* Nothing happens.
LEMMA StutterInvariant == RetryInvariant /\ (UNCHANGED retryVars) => RetryInvariant'
  <1> SUFFICES ASSUME RetryInvariant, UNCHANGED retryVars PROVE RetryInvariant'
    OBVIOUS
  <1>1. FlagsOK'
    BY Zenon DEF RetryInvariant, RetryTypeOK, FlagsOK, retryVars
  <1>2. RetryTypeOK'
    BY <1>1, RetriesAssumption DEF RetryInvariant, RetryTypeOK, retryVars
  <1>3. StartsFollowAttempts' /\ LateSolveIsLast'
    BY <1>2 DEF RetryInvariant, RetryTypeOK, StartsFollowAttempts, LateSolveIsLast, retryVars
  <1>4. FailuresArePast' /\ RetryUsesFreshConnection'
    BY DEF RetryInvariant, RetryTypeOK, FailuresArePast, RetryUsesFreshConnection, retryVars
  <1>5. (answer = "ok" => place = "done")' /\ (export = "written" => tar = "complete")'
    BY DEF RetryInvariant, RetryTypeOK, retryVars
  <1>6. SuccessMeansExported'
    BY DEF RetryInvariant, RetryTypeOK, SuccessMeansExported, retryVars
  <1> QED BY <1>2, <1>3, <1>4, <1>5, <1>6 DEF RetryInvariant

\* RetryInvariant holds in every reachable state of Client.Build.
THEOREM RetryInvariantHolds == RetrySpec => []RetryInvariant
  <1>1. RetryInvariant /\ [RetryNext]_retryVars => RetryInvariant'
    BY StartInvariant, ExportInvariant, PushInvariant, SuccessInvariant, ErrorInvariant,
       FailureInvariant, PauseInvariant, ResetInvariant, CancelInvariant, StutterInvariant
    DEF RetryNext, Work, RetryDone
  <1> QED BY <1>1, InitInvariant, PTL DEF RetrySpec

\* "A build therefore runs at most buildMaxRetries+1 times", for any bound.
THEOREM AtMostMaxAttempts == RetrySpec => []AttemptsBounded
  <1>1. RetryInvariant => AttemptsBounded
    BY RetriesAssumption DEF RetryInvariant, RetryTypeOK, StartsFollowAttempts, AttemptsBounded
  <1> QED BY <1>1, RetryInvariantHolds, PTL

\* A cancellation lets at most one more solve start, whenever it strikes.
THEOREM CancellationStops == RetrySpec => []CancelStopsLoop
  <1>1. RetryInvariant => CancelStopsLoop
    BY DEF RetryInvariant, RetryTypeOK, LateSolveIsLast, CancelStopsLoop
  <1> QED BY <1>1, RetryInvariantHolds, PTL

\* Success means that the last attempt itself wrote the tar and pushed the image.
THEOREM SuccessIsExported == RetrySpec => []SuccessMeansExported
  <1>1. RetryInvariant => SuccessMeansExported
    BY DEF RetryInvariant
  <1> QED BY <1>1, RetryInvariantHolds, PTL

\* No retry solves over a connection that failed, unless none can be dialled.
THEOREM RetriesReconnect == RetrySpec => []RetryUsesFreshConnection
  <1>1. RetryInvariant => RetryUsesFreshConnection
    BY DEF RetryInvariant
  <1> QED BY <1>1, RetryInvariantHolds, PTL
=============================================================================
