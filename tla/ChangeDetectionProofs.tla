------------------------ MODULE ChangeDetectionProofs ------------------------
(***************************************************************************)
(* Change detection for any set of images, any dependency graph (cyclic    *)
(* ones included), any files and any command line filters: the affected    *)
(* set is exactly the closure of the changed images, and whoever works it  *)
(* off takes all of it. What ties the steps together is DetectionOK: what  *)
(* a detection has concluded so far rests on files that differ.            *)
(***************************************************************************)
EXTENDS ChangeDetection, FiniteSetTheorems, TLAPS

\* What may be concluded from the files that differ when unmatched files are
\* ignored.
GlobalIsFounded(g) == g => \E f \in files : f.global
ChangedAreFounded(S) == \A n \in S : \E f \in files : n \in f.owners

\* A detection works on the files of one commit; its result is of that commit,
\* and does not claim more than the files say.
DetectionOK ==
    /\ pc = "classify" => pending \subseteq files
    /\ pc \in {"classify", "expand"} /\ opts.unmatched = "ignore" =>
          GlobalIsFounded(global) /\ ChangedAreFounded(changed)
    /\ pc = "write" =>
          /\ result.kind = "set"
          /\ result.commit = head
          /\ result.known /\ opts.unmatched = "ignore" =>
                GlobalIsFounded(result.global) /\ ChangedAreFounded(result.changed)
          /\ result.known /\ result.global => result.affected = Images

\* dist/ was not rendered from a commit that is still to come.
RenderedOK == rendered = NotRendered \/ rendered <= head

DetectionInvariant ==
    /\ TypeOK
    /\ DetectionOK
    /\ RenderedOK
    /\ WalkInvariant
    /\ AffectedIsClosure
    /\ UnknownDiffAffectsAll
    /\ LimitNotOlderThanRender
    /\ LimitSelectsAffected
-----------------------------------------------------------------------------
(* Sequences as sets, and the two walks of the graph.                      *)

Elements(s) == {s[k] : k \in 1..Len(s)}

\* A listing of a finite set is a sequence of exactly its elements.
LEMMA ListingElements ==
    ASSUME NEW S, IsFiniteSet(S), NEW s \in Listings(S)
    PROVE  s \in Seq(S) /\ Len(s) = Cardinality(S) /\ Elements(s) = S
  <1>1. Cardinality(S) \in Nat
    BY FS_CardinalityType
  <1>2. s \in [1..Cardinality(S) -> S] /\ {s[k] : k \in 1..Cardinality(S)} = S
    BY DEF Listings
  <1>3. s \in Seq(S) /\ Len(s) = Cardinality(S)
    BY <1>1, <1>2
  <1> QED BY <1>2, <1>3 DEF Elements

LEMMA ElementsOfTail ==
    ASSUME NEW S, NEW s \in Seq(S), s # << >>
    PROVE  /\ Head(s) \in S /\ Tail(s) \in Seq(S)
           /\ Elements(s) = {Head(s)} \cup Elements(Tail(s))
  <1>1. /\ Head(s) = s[1] /\ Head(s) \in S /\ Tail(s) \in Seq(S)
        /\ Len(s) \in Nat /\ Len(s) >= 1 /\ Len(Tail(s)) = Len(s) - 1
        /\ \A k \in 1..Len(Tail(s)) : Tail(s)[k] = s[k + 1]
    OBVIOUS
  <1>2. ASSUME NEW k \in 1..Len(s) PROVE s[k] \in {Head(s)} \cup Elements(Tail(s))
    <2>1. CASE k = 1
      BY <1>1, <2>1
    <2>2. CASE k # 1
      <3>1. k - 1 \in 1..Len(Tail(s)) /\ (k - 1) + 1 = k
        BY <1>1, <2>2
      <3>2. Tail(s)[k - 1] = s[k]
        BY <1>1, <3>1
      <3> QED BY <3>1, <3>2 DEF Elements
    <2> QED BY <2>1, <2>2
  <1>3. ASSUME NEW k \in 1..Len(Tail(s)) PROVE Tail(s)[k] \in Elements(s)
    <2>1. k + 1 \in 1..Len(s)
      BY <1>1
    <2> QED BY <1>1, <2>1 DEF Elements
  <1>4. Head(s) \in Elements(s)
    <2>1. 1 \in 1..Len(s)
      BY <1>1
    <2> QED BY <1>1, <2>1 DEF Elements
  <1> QED BY <1>1, <1>2, <1>3, <1>4 DEF Elements

LEMMA ElementsOfConcat ==
    ASSUME NEW S, NEW s \in Seq(S), NEW t \in Seq(S)
    PROVE  s \o t \in Seq(S) /\ Elements(s \o t) = Elements(s) \cup Elements(t)
  <1>1. /\ s \o t \in Seq(S) /\ Len(s) \in Nat /\ Len(t) \in Nat
        /\ Len(s \o t) = Len(s) + Len(t)
        /\ \A k \in 1..Len(s) : (s \o t)[k] = s[k]
        /\ \A k \in 1..Len(t) : (s \o t)[Len(s) + k] = t[k]
    OBVIOUS
  <1>2. ASSUME NEW k \in 1..Len(s \o t) PROVE (s \o t)[k] \in Elements(s) \cup Elements(t)
    <2>1. CASE k <= Len(s)
      <3>1. k \in 1..Len(s)
        BY <1>1, <2>1
      <3> QED BY <1>1, <3>1 DEF Elements
    <2>2. CASE k > Len(s)
      <3>1. k - Len(s) \in 1..Len(t) /\ Len(s) + (k - Len(s)) = k
        BY <1>1, <2>2
      <3>2. (s \o t)[k] = t[k - Len(s)]
        BY <1>1, <3>1
      <3> QED BY <3>1, <3>2 DEF Elements
    <2> QED BY <1>1, <2>1, <2>2
  <1>3. ASSUME NEW k \in 1..Len(s) PROVE s[k] \in Elements(s \o t)
    <2>1. k \in 1..Len(s \o t)
      BY <1>1
    <2> QED BY <1>1, <2>1 DEF Elements
  <1>4. ASSUME NEW k \in 1..Len(t) PROVE t[k] \in Elements(s \o t)
    <2>1. Len(s) + k \in 1..Len(s \o t)
      BY <1>1
    <2> QED BY <1>1, <2>1 DEF Elements
  <1> QED BY <1>1, <1>2, <1>3, <1>4 DEF Elements

\* The smallest closed set is the set of what is in every closed set.
LEMMA ReachableIsSmallest ==
    ASSUME NEW start \in SUBSET Images, NEW S \in SUBSET Images, start \subseteq S,
           Closed(S, Dependents),
           \A T \in SUBSET Images : start \subseteq T /\ Closed(T, Dependents) => S \subseteq T
    PROVE  S = Reachable(start, Dependents)
  BY DEF Reachable

\* Walking the dependents of what changed and walking the dependencies of each
\* image find the same: an image is reached from a changed one exactly when it
\* reaches one. Expand relies on it in Detect and, the other way round, in
\* TriggerDirs.
LEMMA WalksAgree ==
    ASSUME graph.source \in [Images -> SUBSET Images], NEW start \in SUBSET Images
    PROVE  Reachable(start, Dependents) =
              {i \in Images : Reachable({i}, Dependencies) \cap start # {}}
  <1> DEFINE S == {n \in Images : Reachable({n}, Dependencies) \cap start # {}}
  <1>1. start \subseteq S
    <2>1. \A n \in Images : n \in Reachable({n}, Dependencies)
      BY DEF Reachable
    <2> QED BY <2>1
  <1>2. Closed(S, Dependents)
    <2> SUFFICES ASSUME NEW n \in S, NEW m \in Dependents(n) PROVE m \in S
      BY DEF Closed
    <2>1. m \in Images /\ n \in Dependencies(m)
      BY DEF Dependents, Dependencies
    <2>2. Reachable({n}, Dependencies) \subseteq Reachable({m}, Dependencies)
      BY <2>1 DEF Reachable, Closed
    <2> QED BY <2>1, <2>2
  <1>3. ASSUME NEW T \in SUBSET Images, start \subseteq T, Closed(T, Dependents)
        PROVE  S \subseteq T
    <2> SUFFICES ASSUME NEW n \in S, n \notin T PROVE FALSE
      OBVIOUS
    <2>1. Closed(Images \ T, Dependencies)
      BY <1>3 DEF Closed, Dependents, Dependencies
    <2>2. Reachable({n}, Dependencies) \subseteq Images \ T
      BY <2>1 DEF Reachable
    <2> QED BY <1>3, <2>2
  <1>4. S \in SUBSET Images
    OBVIOUS
  <1> HIDE DEF S
  <1>5. S = Reachable(start, Dependents)
    BY <1>1, <1>2, <1>3, <1>4, ReachableIsSmallest
  <1> QED BY <1>5 DEF S
-----------------------------------------------------------------------------
(* A detection, step by step.                                              *)

LEMMA FiniteSubset ==
    ASSUME NEW S \in SUBSET Images
    PROVE  IsFiniteSet(S)
  BY ChangesAssumption, FS_Subset

LEMMA GraphType ==
    ASSUME TypeOK
    PROVE  graph.source \in [Images -> SUBSET Images]
  BY ChangesAssumption DEF TypeOK

LEMMA InitDetection ==
    Init => DetectionInvariant
  <1> SUFFICES ASSUME Init PROVE DetectionInvariant
    OBVIOUS
  <1>1. << >> \in Seq(Images) /\ 0 \in 0..MaxCommits /\ 0 \in 0..MaxRuns /\ NotRendered \in 0..NotRendered
    BY ChangesAssumption DEF NotRendered
  <1>2. TypeOK
    BY <1>1 DEF Init, TypeOK, SetOrNone
  <1> QED BY <1>2 DEF Init, DetectionInvariant, DetectionOK, RenderedOK, WalkInvariant,
              AffectedIsClosure, UnknownDiffAffectsAll, LimitNotOlderThanRender,
              LimitSelectsAffected, NoFile

\* Between the detections: commits, renderings, starts.
LEMMA CommitStep ==
    ASSUME DetectionInvariant, Commit PROVE DetectionInvariant'
  <1>1. /\ pc = "idle" /\ pc' = "idle" /\ head' = head + 1 /\ head < MaxCommits
        /\ files' \subseteq Files
        /\ UNCHANGED <<graph, rendered, stored, locals, result, filters, limited, pc, runs>>
    BY DEF Commit
  <1>2. head \in Nat /\ head' \in 0..MaxCommits /\ rendered \in Nat
        /\ (rendered <= head => rendered <= head')
    BY <1>1, ChangesAssumption DEF DetectionInvariant, TypeOK, NotRendered
  <1>3. TypeOK'
    BY <1>1, <1>2 DEF DetectionInvariant, TypeOK, locals
  <1> QED BY <1>1, <1>2, <1>3 DEF DetectionInvariant, DetectionOK, RenderedOK, WalkInvariant,
              AffectedIsClosure, UnknownDiffAffectsAll, LimitNotOlderThanRender,
              LimitSelectsAffected

LEMMA GenerateStep ==
    ASSUME DetectionInvariant, Generate PROVE DetectionInvariant'
  <1>1. /\ pc = "idle" /\ pc' = "idle" /\ rendered' = head /\ stored' = NoFile
        /\ UNCHANGED <<project, locals, result, filters, limited, pc, runs>>
    BY DEF Generate
  <1>2. head \in Nat /\ rendered' \in 0..NotRendered /\ rendered' <= head'
    BY <1>1, ChangesAssumption DEF DetectionInvariant, TypeOK, NotRendered, project
  <1>3. TypeOK'
    BY <1>1, <1>2 DEF DetectionInvariant, TypeOK, locals, project, SetOrNone
  <1> QED BY <1>1, <1>2, <1>3 DEF DetectionInvariant, DetectionOK, RenderedOK, WalkInvariant,
              AffectedIsClosure, UnknownDiffAffectsAll, LimitNotOlderThanRender,
              LimitSelectsAffected, NoFile

LEMMA StartStep ==
    ASSUME DetectionInvariant, NEW u \in {"all", "ignore"}, NEW strict \in BOOLEAN,
           StartChanges(u, strict)
    PROVE  DetectionInvariant'
  <1>1. /\ pc = "idle" /\ pc' = "diff" /\ runs' = runs + 1 /\ runs < MaxRuns
        /\ opts' = [unmatched |-> u, strict |-> strict]
        /\ UNCHANGED <<project, rendered, stored, pending, global, changed, queue,
                       seen, result, filters, limited>>
    BY DEF StartChanges
  <1>2. runs' \in 0..MaxRuns
    BY <1>1, ChangesAssumption DEF DetectionInvariant, TypeOK
  <1>3. TypeOK'
    BY <1>1, <1>2 DEF DetectionInvariant, TypeOK, project
  <1> QED BY <1>1, <1>2, <1>3 DEF DetectionInvariant, DetectionOK, RenderedOK, WalkInvariant,
              AffectedIsClosure, UnknownDiffAffectsAll, LimitNotOlderThanRender,
              LimitSelectsAffected, project

\* What is left of the invariant when a detection ends with a set.
LEMMA FinishStep ==
    ASSUME DetectionInvariant, NEW set, Finish(set),
           set \in [kind : {"set"}, global : BOOLEAN, changed : SUBSET Images,
                    affected : SUBSET Images, known : BOOLEAN, commit : 0..MaxCommits],
           set.commit = head,
           set.known /\ opts.unmatched = "ignore" =>
                GlobalIsFounded(set.global) /\ ChangedAreFounded(set.changed),
           set.global => set.affected = Images,
           ~ set.global => set.known /\ set.affected = Reachable(set.changed, Dependents),
           UNCHANGED <<project, rendered, stored, opts, pending, global, changed, filters,
                       limited, runs>>,
           queue' = queue, seen' = seen
    PROVE  DetectionInvariant'
  <1>1. result' = set /\ pc' = "write"
    BY DEF Finish
  <1>2. TypeOK'
    BY <1>1 DEF DetectionInvariant, TypeOK, project, SetOrNone
  <1>3. DetectionOK' /\ RenderedOK'
    BY <1>1 DEF DetectionInvariant, DetectionOK, RenderedOK, project, GlobalIsFounded, ChangedAreFounded
  <1>4. WalkInvariant' /\ LimitNotOlderThanRender' /\ LimitSelectsAffected'
    BY <1>1 DEF DetectionInvariant, WalkInvariant, LimitNotOlderThanRender, LimitSelectsAffected
  <1>5. AffectedIsClosure'
    BY <1>1 DEF AffectedIsClosure, Reachable, Closed, Dependents, project
  <1>6. UnknownDiffAffectsAll'
    BY <1>1 DEF DetectionInvariant, UnknownDiffAffectsAll
  <1> QED BY <1>2, <1>3, <1>4, <1>5, <1>6 DEF DetectionInvariant

\* What is left when it ends and its locals are gone.
LEMMA ReturnStep ==
    ASSUME DetectionInvariant, Return, pc \in {"diff", "write"},
           stored' \in {stored, BadFile} \/ (pc = "write" /\ stored' = result),
           UNCHANGED <<project, rendered, filters, limited, runs>>
    PROVE  DetectionInvariant'
  <1>1. /\ pc' = "idle" /\ result' = NoFile
        /\ opts' = [unmatched |-> "all", strict |-> FALSE]
        /\ pending' = {} /\ global' = FALSE /\ changed' = {} /\ queue' = << >> /\ seen' = {}
    BY DEF Return
  <1>2. TypeOK'
    <2>1. << >> \in Seq(Images) /\ stored' \in SetOrNone /\ result' \in SetOrNone
      BY <1>1 DEF DetectionInvariant, TypeOK, SetOrNone
    <2>2. opts' \in [unmatched : {"all", "ignore"}, strict : BOOLEAN]
      BY <1>1
    <2> QED BY <1>1, <2>1, <2>2 DEF DetectionInvariant, TypeOK, project
  <1>3. DetectionOK' /\ RenderedOK' /\ WalkInvariant' /\ AffectedIsClosure' /\ LimitSelectsAffected'
    BY <1>1 DEF DetectionInvariant, DetectionOK, RenderedOK, WalkInvariant, AffectedIsClosure,
                LimitSelectsAffected, project
  <1>4. UnknownDiffAffectsAll'
    BY <1>1 DEF DetectionInvariant, UnknownDiffAffectsAll, BadFile, NoFile
  <1>5. LimitNotOlderThanRender'
    <2>1. CASE stored' \in {stored, BadFile}
      BY <1>1, <2>1 DEF DetectionInvariant, LimitNotOlderThanRender, BadFile
    <2>2. CASE pc = "write" /\ stored' = result
      <3>1. result.commit = head /\ head \in Nat /\ rendered \in Nat
            /\ (rendered = NotRendered \/ rendered <= head)
        BY <2>2, ChangesAssumption DEF DetectionInvariant, DetectionOK, RenderedOK, TypeOK, NotRendered
      <3> QED BY <2>2, <3>1 DEF LimitNotOlderThanRender
    <2> QED BY <2>1, <2>2
  <1> QED BY <1>2, <1>3, <1>4, <1>5 DEF DetectionInvariant

LEMMA DiffFailsStep ==
    ASSUME DetectionInvariant, DiffFails PROVE DetectionInvariant'
  <1>1. pc = "diff" /\ UNCHANGED <<project, rendered, stored, filters, limited, runs>>
    BY DEF DiffFails
  <1>2. CASE Return
    BY <1>1, <1>2, ReturnStep
  <1>3. CASE /\ Finish([kind |-> "set", global |-> TRUE, changed |-> {},
                        affected |-> Images, known |-> FALSE, commit |-> head])
             /\ UNCHANGED locals
    <2> DEFINE set == [kind |-> "set", global |-> TRUE, changed |-> {},
                       affected |-> Images, known |-> FALSE, commit |-> head]
    <2>1. /\ set \in [kind : {"set"}, global : BOOLEAN, changed : SUBSET Images,
                      affected : SUBSET Images, known : BOOLEAN, commit : 0..MaxCommits]
          /\ set.commit = head /\ ~ set.known /\ set.global /\ set.affected = Images
      BY DEF DetectionInvariant, TypeOK
    <2>2. UNCHANGED <<opts, pending, global, changed>> /\ queue' = queue /\ seen' = seen
      BY <1>3 DEF locals
    <2> HIDE DEF set
    <2>3. Finish(set)
      BY <1>3 DEF set
    <2> QED BY <1>1, <2>1, <2>2, <2>3, FinishStep
  <1> QED BY <1>2, <1>3 DEF DiffFails

LEMMA DiffFilesStep ==
    ASSUME DetectionInvariant, DiffFiles PROVE DetectionInvariant'
  <1>1. /\ pc = "diff" /\ pc' = "classify" /\ pending' = files /\ global' = FALSE
        /\ changed' = {}
        /\ UNCHANGED <<project, rendered, stored, opts, queue, seen, result,
                       filters, limited, runs>>
    BY DEF DiffFiles
  <1>2. TypeOK'
    BY <1>1 DEF DetectionInvariant, TypeOK, project
  <1> QED BY <1>1, <1>2 DEF DetectionInvariant, DetectionOK, RenderedOK, WalkInvariant,
              AffectedIsClosure, UnknownDiffAffectsAll, LimitNotOlderThanRender,
              LimitSelectsAffected, project, GlobalIsFounded, ChangedAreFounded

LEMMA ClassifyStep ==
    ASSUME DetectionInvariant, NEW f \in Files, Classify(f) PROVE DetectionInvariant'
  <1>1. /\ pc = "classify" /\ f \in pending /\ pending' = pending \ {f}
        /\ global' = \/ global
                      \/ f.global
                      \/ /\ ~ f.excluded /\ f.owners = {} /\ ~ f.outside
                         /\ opts.unmatched # "ignore"
        /\ changed' = IF f.global \/ f.excluded THEN changed ELSE changed \cup f.owners
        /\ UNCHANGED <<project, rendered, stored, opts, queue, seen, result,
                       filters, limited, pc, runs>>
    BY DEF Classify
  <1>2. f.global \in BOOLEAN /\ f.excluded \in BOOLEAN /\ f.outside \in BOOLEAN
        /\ f.owners \in SUBSET Images
    BY ChangesAssumption
  <1>3. TypeOK'
    <2>1. global' \in BOOLEAN
      BY <1>1
    <2>2. changed' \in SUBSET Images
      BY <1>1, <1>2 DEF DetectionInvariant, TypeOK
    <2>3. pending' \in SUBSET Files
      BY <1>1 DEF DetectionInvariant, TypeOK
    <2> QED BY <1>1, <2>1, <2>2, <2>3 DEF DetectionInvariant, TypeOK, project
  <1>4. DetectionOK'
    <2>1. f \in files /\ pending' \subseteq files
      BY <1>1 DEF DetectionInvariant, DetectionOK
    <2>2. ASSUME opts.unmatched = "ignore" PROVE GlobalIsFounded(global')
      BY <1>1, <1>2, <2>1, <2>2 DEF DetectionInvariant, DetectionOK, GlobalIsFounded
    <2>3. ASSUME opts.unmatched = "ignore" PROVE ChangedAreFounded(changed')
      BY <1>1, <1>2, <2>1, <2>3 DEF DetectionInvariant, DetectionOK, ChangedAreFounded
    <2>4. UNCHANGED <<files, opts>> /\ pc' = "classify"
      BY <1>1 DEF project
    <2> QED BY <2>1, <2>2, <2>3, <2>4 DEF DetectionOK, GlobalIsFounded, ChangedAreFounded
  <1> QED BY <1>1, <1>3, <1>4 DEF DetectionInvariant, RenderedOK, WalkInvariant,
              AffectedIsClosure, UnknownDiffAffectsAll, LimitNotOlderThanRender,
              LimitSelectsAffected, project

LEMMA EndClassifyStep ==
    ASSUME DetectionInvariant, EndClassify PROVE DetectionInvariant'
  <1>1. /\ pc = "classify" /\ UNCHANGED <<project, rendered, stored, opts, pending, global,
                                          changed, filters, limited, runs>>
    BY DEF EndClassify
  <1>2. CASE /\ global /\ UNCHANGED <<queue, seen>>
             /\ Finish([kind |-> "set", global |-> TRUE, changed |-> changed,
                        affected |-> Images, known |-> TRUE, commit |-> head])
    <2> DEFINE set == [kind |-> "set", global |-> TRUE, changed |-> changed,
                       affected |-> Images, known |-> TRUE, commit |-> head]
    <2>1. /\ set \in [kind : {"set"}, global : BOOLEAN, changed : SUBSET Images,
                      affected : SUBSET Images, known : BOOLEAN, commit : 0..MaxCommits]
          /\ set.commit = head /\ set.known /\ set.global /\ set.affected = Images
          /\ set.changed = changed
      BY DEF DetectionInvariant, TypeOK
    <2>2. opts.unmatched = "ignore" => GlobalIsFounded(TRUE) /\ ChangedAreFounded(changed)
      BY <1>1, <1>2 DEF DetectionInvariant, DetectionOK, GlobalIsFounded
    <2> HIDE DEF set
    <2>3. Finish(set)
      BY <1>2 DEF set
    <2>4. opts.unmatched = "ignore" => GlobalIsFounded(set.global) /\ ChangedAreFounded(set.changed)
      BY <2>1, <2>2 DEF GlobalIsFounded
    <2> QED BY <1>1, <1>2, <2>1, <2>3, <2>4, FinishStep
  <1>3. CASE /\ ~ global /\ queue' \in Listings(changed) /\ seen' = {} /\ pc' = "expand"
             /\ UNCHANGED result
    <2>1. queue' \in Seq(Images) /\ Queued' = changed
      <3>1. changed \in SUBSET Images
        BY DEF DetectionInvariant, TypeOK
      <3>2. IsFiniteSet(changed)
        BY <3>1, FiniteSubset
      <3>3. queue' \in Seq(changed) /\ Elements(queue') = changed
        BY <1>3, <3>2, ListingElements
      <3> QED BY <3>1, <3>3 DEF Elements, Queued
    <2>2. TypeOK'
      BY <1>1, <1>3, <2>1 DEF DetectionInvariant, TypeOK, project
    <2>3. WalkInvariant'
      BY <1>1, <1>3, <2>1 DEF WalkInvariant
    <2>4. DetectionOK'
      BY <1>1, <1>3 DEF DetectionInvariant, DetectionOK, project, GlobalIsFounded, ChangedAreFounded
    <2> QED BY <1>1, <1>3, <2>2, <2>3, <2>4 DEF DetectionInvariant, RenderedOK,
                AffectedIsClosure, UnknownDiffAffectsAll, LimitNotOlderThanRender,
                LimitSelectsAffected, project
  <1> QED BY <1>2, <1>3 DEF EndClassify

\* One turn of the walk: what has been seen or queued stays so, and grows by what
\* depends on the image that is visited.
LEMMA ExpandStepStep ==
    ASSUME DetectionInvariant, ExpandStep PROVE DetectionInvariant'
  <1> DEFINE name == Head(queue)
  <1>1. /\ pc = "expand" /\ queue # << >>
        /\ UNCHANGED <<project, rendered, stored, opts, pending, global, changed,
                       result, filters, limited, pc, runs>>
    BY DEF ExpandStep
  <1>2. /\ queue \in Seq(Images) /\ name \in Images /\ Tail(queue) \in Seq(Images)
        /\ Queued = {name} \cup Elements(Tail(queue))
    <2>1. queue \in Seq(Images)
      BY DEF DetectionInvariant, TypeOK
    <2> QED BY <1>1, <2>1, ElementsOfTail DEF Queued, Elements
  <1>3. /\ changed \subseteq seen \cup Queued /\ seen \subseteq Images
        /\ \A n \in seen : Dependents(n) \subseteq seen \cup Queued
        /\ \A S \in SUBSET Images :
              changed \subseteq S /\ Closed(S, Dependents) => seen \cup Queued \subseteq S
    BY <1>1 DEF DetectionInvariant, WalkInvariant, TypeOK
  <1>4. /\ queue' \in Seq(Images) /\ seen' = seen \cup {name}
        /\ \/ name \in seen /\ seen' \cup Queued' = seen \cup Queued
           \/ seen' \cup Queued' = seen \cup Queued \cup Dependents(name)
    <2>1. CASE name \in seen
      <3>1. queue' = Tail(queue) /\ seen' = seen
        BY <2>1 DEF ExpandStep
      <3>2. Queued' = Elements(Tail(queue))
        BY <3>1 DEF Queued, Elements
      <3> QED BY <2>1, <3>1, <3>2, <1>2
    <2>2. CASE name \notin seen
      <3>1. PICK s \in Listings(Dependents(name)) : queue' = Tail(queue) \o s /\ seen' = seen \cup {name}
        BY <2>2 DEF ExpandStep
      <3>2. Dependents(name) \in SUBSET Images
        BY DEF Dependents
      <3>3. s \in Seq(Images) /\ Elements(s) = Dependents(name)
        <4>1. IsFiniteSet(Dependents(name))
          BY <3>2, FiniteSubset
        <4>2. s \in Seq(Dependents(name)) /\ Elements(s) = Dependents(name)
          BY <4>1, ListingElements
        <4> QED BY <3>2, <4>2
      <3>4. queue' \in Seq(Images) /\ Elements(queue') = Elements(Tail(queue)) \cup Dependents(name)
        <4>1. Tail(queue) \in Seq(Images) /\ s \in Seq(Images)
          BY <1>2, <3>3
        <4>2. /\ Tail(queue) \o s \in Seq(Images)
              /\ Elements(Tail(queue) \o s) = Elements(Tail(queue)) \cup Elements(s)
          BY <4>1, ElementsOfConcat
        <4> QED BY <3>1, <3>3, <4>2
      <3>5. Queued' = Elements(Tail(queue)) \cup Dependents(name)
        BY <3>4 DEF Queued, Elements
      <3> QED BY <3>1, <3>4, <3>5, <1>2
    <2> QED BY <2>1, <2>2
  <1>5. TypeOK'
    BY <1>1, <1>2, <1>4 DEF DetectionInvariant, TypeOK, project
  <1>6. WalkInvariant'
    <2>1. \A n : Dependents(n)' = Dependents(n)
      BY <1>1 DEF Dependents, project
    <2>2. changed' \subseteq seen' \cup Queued'
      BY <1>1, <1>3, <1>4
    <2>3. \A n \in seen' : Dependents(n) \subseteq seen' \cup Queued'
      BY <1>3, <1>4
    <2>4. ASSUME NEW S \in SUBSET Images, changed \subseteq S,
                 \A n \in S : Dependents(n) \subseteq S
          PROVE  seen' \cup Queued' \subseteq S
      <3>1. seen \cup Queued \subseteq S
        BY <1>3, <2>4 DEF Closed
      <3>2. Dependents(name) \subseteq S
        BY <3>1, <1>2, <2>4
      <3> QED BY <3>1, <3>2, <1>4
    <2> QED BY <1>1, <2>1, <2>2, <2>3, <2>4 DEF WalkInvariant, Closed
  <1>7. DetectionOK'
    BY <1>1 DEF DetectionInvariant, DetectionOK, project, GlobalIsFounded, ChangedAreFounded
  <1> QED BY <1>1, <1>5, <1>6, <1>7 DEF DetectionInvariant, RenderedOK,
              AffectedIsClosure, UnknownDiffAffectsAll, LimitNotOlderThanRender,
              LimitSelectsAffected, project

\* The walk ends with the smallest closed set.
LEMMA EndExpandStep ==
    ASSUME DetectionInvariant, EndExpand PROVE DetectionInvariant'
  <1> DEFINE set == [kind |-> "set", global |-> FALSE, changed |-> changed,
                     affected |-> seen, known |-> TRUE, commit |-> head]
  <1>1. /\ pc = "expand" /\ queue = << >> /\ Finish(set)
        /\ UNCHANGED <<project, rendered, stored, locals, filters, limited, runs>>
    BY DEF EndExpand
  <1>2. /\ set \in [kind : {"set"}, global : BOOLEAN, changed : SUBSET Images,
                    affected : SUBSET Images, known : BOOLEAN, commit : 0..MaxCommits]
        /\ set.commit = head /\ set.known /\ ~ set.global /\ set.affected = seen
        /\ set.changed = changed
    BY DEF DetectionInvariant, TypeOK
  <1>3. seen = Reachable(changed, Dependents)
    <2>1. Queued = {}
      BY <1>1 DEF Queued
    <2>2. changed \in SUBSET Images /\ seen \in SUBSET Images
      BY DEF DetectionInvariant, TypeOK
    <2>3. Closed(seen, Dependents) /\ changed \subseteq seen
      BY <1>1, <2>1 DEF DetectionInvariant, WalkInvariant, Closed
    <2>4. \A T \in SUBSET Images : changed \subseteq T /\ Closed(T, Dependents) => seen \subseteq T
      BY <1>1 DEF DetectionInvariant, WalkInvariant
    <2> QED BY <2>2, <2>3, <2>4, ReachableIsSmallest
  <1>4. opts.unmatched = "ignore" => ChangedAreFounded(changed)
    BY <1>1 DEF DetectionInvariant, DetectionOK
  <1> HIDE DEF set
  <1>5. opts.unmatched = "ignore" => GlobalIsFounded(set.global) /\ ChangedAreFounded(set.changed)
    BY <1>2, <1>4 DEF GlobalIsFounded
  <1>6. set.affected = Reachable(set.changed, Dependents)
    BY <1>2, <1>3
  <1>7. UNCHANGED <<opts, pending, global, changed>> /\ queue' = queue /\ seen' = seen
    BY <1>1 DEF locals
  <1> QED BY <1>1, <1>2, <1>5, <1>6, <1>7, FinishStep

\* The set is stored, or only printed, or the file is spoilt.
LEMMA WriteStep ==
    ASSUME DetectionInvariant, Write \/ WriteFails PROVE DetectionInvariant'
  <1>1. /\ pc = "write" /\ Return /\ UNCHANGED <<project, rendered, filters, limited, runs>>
        /\ stored' \in {stored, BadFile} \/ stored' = result
    BY DEF Write, WriteFails
  <1> QED BY <1>1, ReturnStep
-----------------------------------------------------------------------------
(* A limited command.                                                      *)

\* The filters a stored set turns a list of filters into.
Narrowed(fs, set) == UNION {Narrow(f, set) : f \in Filters(fs)}

LEMMA FiniteImage ==
    ASSUME NEW S, IsFiniteSet(S), NEW f
    PROVE  IsFiniteSet({f[x] : x \in S})
  <1> DEFINE T == {f[x] : x \in S}
             g == [x \in S |-> f[x]]
  <1>1. g \in Surjection(S, T)
    BY DEF Surjection
  <1> QED BY <1>1, FS_Surjection

LEMMA NarrowedIsFinite ==
    ASSUME NEW fs \in FilterLists, NEW set, set.affected \in SUBSET Images
    PROVE  IsFiniteSet(Narrowed(fs, set))
  <1>1. IsFiniteSet(Filters(fs))
    <2>1. CASE fs = Unlimited
      BY <2>1, FS_Singleton DEF Filters
    <2>2. CASE fs # Unlimited
      <3>1. Len(fs) \in Nat
        BY ChangesAssumption
      <3>2. IsFiniteSet(1..Len(fs))
        BY <3>1, FS_Interval
      <3>3. IsFiniteSet({fs[k] : k \in 1..Len(fs)})
        BY <3>2, FiniteImage
      <3> QED BY <2>2, <3>3 DEF Filters
    <2> QED BY <2>1, <2>2
  <1>2. ASSUME NEW f PROVE IsFiniteSet(Narrow(f, set))
    <2>1. IsFiniteSet(set.affected)
      BY FiniteSubset
    <2>2. IsFiniteSet({[image |-> i, tag |-> f.tag] : i \in set.affected})
      <3> DEFINE named == [i \in set.affected |-> [image |-> i, tag |-> f.tag]]
      <3>1. IsFiniteSet({named[i] : i \in set.affected})
        BY <2>1, FiniteImage
      <3> QED BY <3>1
    <2>3. IsFiniteSet({f}) /\ IsFiniteSet({})
      BY FS_Singleton, FS_EmptySet
    <2> QED BY <2>2, <2>3 DEF Narrow
  <1>3. IsFiniteSet({Narrow(f, set) : f \in Filters(fs)})
    <2> DEFINE narrow == [f \in Filters(fs) |-> Narrow(f, set)]
    <2>1. IsFiniteSet({narrow[f] : f \in Filters(fs)})
      BY <1>1, FiniteImage
    <2> QED BY <2>1
  <1> QED BY <1>2, <1>3, FS_UNION DEF Narrowed

\* What the narrowed filters match is what the filters match and is affected.
LEMMA NarrowedMatches ==
    ASSUME NEW fs \in FilterLists, NEW set, set.affected \in SUBSET Images,
           NEW i \in Images, NEW t \in Tags
    PROVE  (\E g \in Narrowed(fs, set) : g.image \in {AnyName, i} /\ g.tag \in {AnyName, t})
           <=> Matches(fs, i, t) /\ IsAffected(set, i)
  <1>1. AnyName \notin Images /\ AnyName # i
    BY ChangesAssumption
  <1>2. Matches(fs, i, t) <=>
           \E f \in Filters(fs) : f.image \in {AnyName, i} /\ f.tag \in {AnyName, t}
    BY DEF Matches, Filters
  <1>3. ASSUME NEW g \in Narrowed(fs, set), g.image \in {AnyName, i}, g.tag \in {AnyName, t}
        PROVE  Matches(fs, i, t) /\ IsAffected(set, i)
    <2>1. PICK f \in Filters(fs) : g \in Narrow(f, set)
      BY DEF Narrowed
    <2>2. CASE f.image # AnyName
      <3>1. g = f /\ IsAffected(set, f.image)
        BY <2>1, <2>2 DEF Narrow
      <3> QED BY <1>2, <1>3, <2>2, <3>1
    <2>3. CASE f.image = AnyName
      <3>1. PICK j \in set.affected : g = [image |-> j, tag |-> f.tag]
        BY <2>1, <2>3 DEF Narrow
      <3>2. g.image = j /\ g.tag = f.tag /\ j = i
        BY <1>1, <1>3, <3>1
      <3> QED BY <1>2, <1>3, <2>3, <3>2 DEF IsAffected
    <2> QED BY <2>2, <2>3
  <1>4. ASSUME Matches(fs, i, t), IsAffected(set, i)
        PROVE  \E g \in Narrowed(fs, set) : g.image \in {AnyName, i} /\ g.tag \in {AnyName, t}
    <2>1. PICK f \in Filters(fs) : f.image \in {AnyName, i} /\ f.tag \in {AnyName, t}
      BY <1>2, <1>4
    <2>2. CASE f.image # AnyName
      <3>1. f \in Narrow(f, set)
        BY <1>4, <2>1, <2>2 DEF Narrow
      <3> QED BY <2>1, <3>1 DEF Narrowed
    <2>3. CASE f.image = AnyName
      <3> DEFINE g == [image |-> i, tag |-> f.tag]
      <3>1. g \in Narrow(f, set)
        BY <1>4, <2>3 DEF Narrow, IsAffected
      <3>2. g \in Narrowed(fs, set) /\ g.image = i /\ g.tag = f.tag
        BY <3>1 DEF Narrowed
      <3> HIDE DEF g
      <3> QED BY <2>1, <3>2
    <2> QED BY <2>2, <2>3
  <1> QED BY <1>3, <1>4

LEMMA LimitStep ==
    ASSUME DetectionInvariant, NEW fs \in FilterLists, LimitToChanges(fs)
    PROVE  DetectionInvariant'
  <1>1. /\ pc = "idle" /\ filters' = fs /\ pc' \in {"limited", "failed", "skipped"}
        /\ UNCHANGED <<project, rendered, stored, locals, result, runs>>
    BY DEF LimitToChanges
  <1>2. TypeOK'
    BY <1>1 DEF DetectionInvariant, TypeOK, project, locals
  <1>3. LimitSelectsAffected'
    <2> SUFFICES ASSUME pc' \in {"limited", "skipped"}, stored.kind = "set"
                 PROVE  LET Kept == {u \in Images \X Tags :
                                       Matches(fs, u[1], u[2]) /\ IsAffected(stored, u[1])}
                        IN  IF pc' = "skipped" THEN Kept = {}
                            ELSE Kept = {u \in Images \X Tags : Matches(limited', u[1], u[2])}
      BY <1>1 DEF LimitSelectsAffected
    <2> DEFINE narrowed == Narrowed(fs, stored)
    <2>1. limited' \in Listings(narrowed) /\ (pc' = "skipped" <=> narrowed = {})
      BY DEF LimitToChanges, Narrowed, NoFile, BadFile
    <2>2. stored.affected \in SUBSET Images
      BY DEF DetectionInvariant, TypeOK, SetOrNone, NoFile, BadFile
    <2>3. /\ limited' \in Seq(narrowed) /\ Elements(limited') = narrowed
          /\ narrowed # {} => limited' # << >>
      <3>1. IsFiniteSet(narrowed)
        BY <2>2, NarrowedIsFinite
      <3> HIDE DEF narrowed
      <3>2. limited' \in Seq(narrowed) /\ Elements(limited') = narrowed
        BY <2>1, <3>1, ListingElements
      <3> QED BY <3>2 DEF Elements
    <2>4. ASSUME NEW i \in Images, NEW t \in Tags
          PROVE  (\E g \in narrowed : g.image \in {AnyName, i} /\ g.tag \in {AnyName, t})
                 <=> Matches(fs, i, t) /\ IsAffected(stored, i)
      BY <2>2, NarrowedMatches
    <2> HIDE DEF narrowed
    <2>5. CASE pc' = "skipped"
      BY <2>1, <2>4, <2>5
    <2>6. CASE pc' # "skipped"
      <3>1. \A i, t : Matches(limited', i, t) <=>
               \E g \in narrowed : g.image \in {AnyName, i} /\ g.tag \in {AnyName, t}
        BY <2>1, <2>3, <2>6 DEF Matches, Elements, Unlimited
      <3> QED BY <2>4, <2>6, <3>1
    <2> QED BY <2>5, <2>6
  <1> QED BY <1>1, <1>2, <1>3 DEF DetectionInvariant, DetectionOK, RenderedOK, WalkInvariant,
              AffectedIsClosure, UnknownDiffAffectsAll, LimitNotOlderThanRender, project, locals

LEMMA CommandEndsStep ==
    ASSUME DetectionInvariant, CommandEnds PROVE DetectionInvariant'
  <1>1. /\ pc \in {"limited", "skipped", "failed"} /\ pc' = "idle"
        /\ UNCHANGED <<project, rendered, stored, locals, result, runs>>
    BY DEF CommandEnds
  <1>2. TypeOK'
    BY <1>1 DEF DetectionInvariant, TypeOK, project, locals
  <1> QED BY <1>1, <1>2 DEF DetectionInvariant, DetectionOK, RenderedOK, WalkInvariant,
              AffectedIsClosure, UnknownDiffAffectsAll, LimitNotOlderThanRender,
              LimitSelectsAffected, project, locals
-----------------------------------------------------------------------------
LEMMA NextDetection ==
    ASSUME DetectionInvariant, [Next]_vars PROVE DetectionInvariant'
  <1>1. CASE UNCHANGED vars
    <2>1. TypeOK' /\ Queued' = Queued /\ DetectionOK'
      BY <1>1 DEF vars, project, locals, DetectionInvariant, TypeOK, Queued, DetectionOK,
                  GlobalIsFounded, ChangedAreFounded
    <2>2. \A n : Dependents(n)' = Dependents(n)
      BY <1>1 DEF vars, project, Dependents
    <2>3. WalkInvariant' /\ AffectedIsClosure'
      BY <1>1, <2>1, <2>2 DEF vars, locals, DetectionInvariant, WalkInvariant, AffectedIsClosure,
                              Reachable, Closed
    <2> QED BY <1>1, <2>1, <2>3 DEF vars, project, locals, DetectionInvariant, RenderedOK,
                UnknownDiffAffectsAll, LimitNotOlderThanRender, LimitSelectsAffected
  <1>2. CASE Commit
    BY <1>2, CommitStep
  <1>3. CASE Generate
    BY <1>3, GenerateStep
  <1>4. ASSUME NEW u \in {"all", "ignore"}, NEW strict \in BOOLEAN, StartChanges(u, strict)
        PROVE  DetectionInvariant'
    BY <1>4, StartStep
  <1>5. CASE Detection
    BY <1>5, DiffFailsStep, DiffFilesStep, ClassifyStep, EndClassifyStep, ExpandStepStep,
       EndExpandStep, WriteStep DEF Detection
  <1>6. ASSUME NEW fs \in FilterLists, LimitToChanges(fs) PROVE DetectionInvariant'
    BY <1>6, LimitStep
  <1>7. CASE CommandEnds
    BY <1>7, CommandEndsStep
  <1> QED BY <1>1, <1>2, <1>3, <1>4, <1>5, <1>6, <1>7 DEF Next

LEMMA DetectionHolds ==
    Spec => []DetectionInvariant
  BY InitDetection, NextDetection, PTL DEF Spec

\* Halfway through Expand nothing is lost and nothing is invented; a detection
\* that cannot tell what changed leaves nothing out; and changes.json is never
\* older than the dist/ it limits.
THEOREM ChangesInvariantHolds ==
    Spec => []ChangesInvariant
  <1>1. DetectionInvariant => ChangesInvariant
    BY DEF DetectionInvariant, ChangesInvariant
  <1> QED BY <1>1, DetectionHolds, PTL

\* Detect affects exactly the smallest set that holds the changed images and
\* everything that depends on one of its own, whatever cycles the graph has.
THEOREM AffectedExact ==
    Spec => []AffectedIsClosure
  <1>1. DetectionInvariant => AffectedIsClosure
    BY DEF DetectionInvariant
  <1> QED BY <1>1, DetectionHolds, PTL

\* The jobs of the generated pipeline (Triggers, from TriggerDirs) and the
\* commands that read changes.json (LimitToChanges) take all of an affected set:
\* the two walks of the graph find the same, and narrowed filters select what
\* the filters select and is affected.
THEOREM AffectedWorkedOff ==
    Spec => []AffectedIsWorkedOff
  <1>1. DetectionInvariant => JobsCoverAffected
    <2> SUFFICES ASSUME DetectionInvariant, pc = "write", opts.unmatched = "ignore",
                        result.known, NEW i \in result.affected
                 PROVE  i \in JobsCreated
      BY DEF JobsCoverAffected
    <2>1. /\ result.kind = "set" /\ GlobalIsFounded(result.global)
          /\ ChangedAreFounded(result.changed)
          /\ graph.source \in [Images -> SUBSET Images]
      BY GraphType DEF DetectionInvariant, DetectionOK
    <2>2. result.changed \in SUBSET Images /\ i \in Images
      BY <2>1 DEF DetectionInvariant, TypeOK, SetOrNone, NoFile, BadFile
    <2>3. CASE result.global
      BY <2>1, <2>2, <2>3 DEF GlobalIsFounded, JobsCreated, Triggers
    <2>4. CASE ~ result.global
      <3>1. i \in Reachable(result.changed, Dependents)
        BY <2>4 DEF DetectionInvariant, AffectedIsClosure
      <3>2. Reachable({i}, Dependencies) \cap result.changed # {}
        BY <2>1, <2>2, <3>1, WalksAgree
      <3>3. PICK n \in Reachable({i}, Dependencies) : n \in result.changed
        BY <3>2
      <3>4. PICK f \in files : n \in f.owners
        BY <2>1, <3>3 DEF ChangedAreFounded
      <3>5. Triggers(i, f)
        BY <3>3, <3>4 DEF Triggers
      <3> QED BY <2>2, <3>4, <3>5 DEF JobsCreated
    <2> QED BY <2>3, <2>4
  <1>2. DetectionInvariant => AffectedIsWorkedOff
    BY <1>1 DEF DetectionInvariant, AffectedIsWorkedOff
  <1> QED BY <1>2, DetectionHolds, PTL
=============================================================================
