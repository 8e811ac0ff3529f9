------------------------- MODULE VersionCacheProofs -------------------------
(***************************************************************************)
(* The safety of the version cache for any number of processes, goroutines *)
(* and crashes, any lifetimes and any time. CallInvariant is about the     *)
(* calls of each process and needs nothing of the process IDs; that the    *)
(* entry file is whole also needs them to be distinct (DiskInvariant).     *)
(*                                                                         *)
(* The second part is the resolution of tag ranges, which reads through    *)
(* that cache, for any listings, ranges, static tags and retries:          *)
(* RangesInvariant says what a fetch has returned so far, what the         *)
(* pipeline of a range holds after each of its steps, and that every tag   *)
(* made so far is the newest of its name.                                  *)
(***************************************************************************)
EXTENDS VersionCache, TagRanges, FiniteSetTheorems, SequenceTheorems,
        WellFoundedInduction, TLAPS

\* What a call holds between a step that reads or fetches and one that uses it.
Holding == {"keep", "rekeep", "store", "create", "write", "rename"}

\* The goroutine in flight is the one that runs the group's function, in its own
\* process, and whoever waits does so for it.
FlightOK ==
    /\ \A p \in Processes : \A t \in flight[p] : ProcessOf[t] = p /\ pc[t] \in Leading
    /\ \A t \in Goroutines : pc[t] \in Leading => t \in flight[ProcessOf[t]]
    /\ \A t \in Goroutines : pc[t] = "wait" => flight[ProcessOf[t]] # {}

\* A call that is to store or to keep an entry holds exactly one.
DraftsOK ==
    /\ \A t \in Goroutines : AtMostOne(draft[t])
    /\ \A t \in Goroutines : pc[t] \in Holding => draft[t] # {}

\* A file holds at most one entry, and a temporary name at most one file.
FilesOK ==
    /\ \A i \in Inodes : AtMostOne(content[i])
    /\ \A id \in Pids : AtMostOne(tmp[id])

\* The part of the types that is not about calls.
StoreOK ==
    /\ clock \in Times
    /\ memory \in [Processes -> SUBSET Entries]
    /\ unwritable \in [Processes -> BOOLEAN]
    /\ content \in [Inodes -> SUBSET Entries]
    /\ path \in SUBSET Inodes
    /\ tmp \in [Pids -> SUBSET Inodes]
    /\ fd \in [Processes -> SUBSET Inodes]
    /\ started \in [Processes -> [at : Times, refresh : BOOLEAN]]
    /\ sourceDown \in SUBSET Processes
    /\ crashes \in 0 .. MaxCrashes
    /\ AtMostOne(path)
    /\ \A p \in Processes : AtMostOne(memory[p]) /\ AtMostOne(fd[p])

CallInvariant == TypeOK /\ FlightOK /\ DraftsOK /\ FilesOK /\ OnlyTheSourceFails

\* Under --refresh-versions a call never looks, and what it fetches is new.
RefreshOK ==
    /\ \A p \in Processes : started[p].at <= clock
    /\ \A t \in Goroutines : Refreshing(ProcessOf[t]) =>
          /\ pc[t] \notin Looking \cup {"reload", "reread", "rekeep"}
          /\ \A e \in draft[t] : e.at >= started[ProcessOf[t]].at

\* While a process writes, its temporary file is the one it has open; once
\* written it is whole. No file has two names.
WritersOK ==
    /\ \A p \in Processes : fd[p] # {} => \E t \in flight[p] : pc[t] = "write"
    /\ \A t \in Goroutines : pc[t] = "write" => fd[ProcessOf[t]] = tmp[Pid[ProcessOf[t]]]
    /\ \A t \in Goroutines : pc[t] = "rename" =>
          \A i \in tmp[Pid[ProcessOf[t]]] : content[i] # {}
    /\ \A id \in Pids : tmp[id] \cap path = {}
    /\ \A id, jd \in Pids : id # jd => tmp[id] \cap tmp[jd] = {}

\* What a call that found the memory empty can find there later comes from the
\* entry file.
FileExists ==
    \A t \in Goroutines :
        (pc[t] \in {"keep", "rekeep"} \/ (pc[t] = "reread" /\ memory[ProcessOf[t]] # {}))
        => path # {}

DiskInvariant == WritersOK /\ EntryFileIsWhole /\ FileExists

\* Processes of one machine have IDs of their own.
PidsDiffer == \A p, q \in Processes : p # q => Pid[p] # Pid[q]

CacheIInv == CallInvariant /\ RefreshOK /\ RefreshRefetches
AllInv == CacheIInv /\ DiskInvariant
-----------------------------------------------------------------------------
(* There is always an inode left for a temporary file.                     *)

\* As many sets of at most one element have no more elements together.
LEMMA UnionOfFew ==
    ASSUME NEW S, IsFiniteSet(S), NEW f, \A x \in S : AtMostOne(f[x])
    PROVE  /\ IsFiniteSet(UNION {f[x] : x \in S})
           /\ Cardinality(UNION {f[x] : x \in S}) <= Cardinality(S)
  <1> DEFINE U == UNION {f[x] : x \in S}
             T == {x \in S : f[x] # {}}
             g == [x \in T |-> CHOOSE y : y \in f[x]]
  <1>1. IsFiniteSet(T) /\ Cardinality(T) <= Cardinality(S)
    BY FS_Subset
  <1>2. \A x \in T : g[x] \in f[x]
    OBVIOUS
  <1>3. g \in [T -> U]
    BY <1>2
  <1>4. ASSUME NEW y \in U PROVE \E x \in T : g[x] = y
    <2>1. PICK x \in S : y \in f[x]
      OBVIOUS
    <2>2. x \in T /\ g[x] \in f[x]
      BY <2>1, <1>2
    <2> QED BY <2>1, <2>2 DEF AtMostOne
  <1>5. g \in Surjection(T, U)
    BY <1>3, <1>4 DEF Surjection
  <1>6. IsFiniteSet(U) /\ Cardinality(U) <= Cardinality(T)
    BY <1>1, <1>5, FS_Surjection
  <1>7. Cardinality(U) \in Nat /\ Cardinality(T) \in Nat /\ Cardinality(S) \in Nat
    BY <1>1, <1>6, FS_CardinalityType
  <1>8. Cardinality(U) <= Cardinality(S)
    BY <1>1, <1>6, <1>7
  <1> QED BY <1>6, <1>8

\* At most one process has a file open per process, and the name that is to be
\* created refers to none.
LEMMA InodeIsLeft ==
    ASSUME TypeOK, FilesOK, NEW p \in Processes, tmp[Pid[p]] = {}
    PROVE  \E i \in Inodes : i \notin Used
  <1> DEFINE n == Cardinality(Processes)
             named == Pids \ {Pid[p]}
             A == UNION {tmp[id] : id \in named}
             B == UNION {fd[q] : q \in Processes}
  <1>1. n \in Nat /\ IsFiniteSet(Inodes) /\ Cardinality(Inodes) \in Nat
        /\ Cardinality(Inodes) > 2 * n
    BY CacheAssumption, FS_CardinalityType
  <1>2. IsFiniteSet(Pids) /\ Cardinality(Pids) <= n /\ Cardinality(Pids) \in Nat
    <2> DEFINE h == [q \in Processes |-> Pid[q]]
    <2>1. h \in Surjection(Processes, Pids)
      BY DEF Surjection, Pids
    <2> QED BY <2>1, CacheAssumption, FS_Surjection, FS_CardinalityType
  <1>3. IsFiniteSet(named) /\ Cardinality(named) + 1 <= n /\ Cardinality(named) \in Nat
    <2>1. Pid[p] \in Pids
      BY DEF Pids
    <2>2. IsFiniteSet(named) /\ Cardinality(named) = Cardinality(Pids) - 1
      BY <2>1, <1>2, FS_RemoveElement
    <2>3. Cardinality(named) \in Nat
      BY <2>2, FS_CardinalityType
    <2> QED BY <2>2, <2>3, <1>1, <1>2
  <1>4. IsFiniteSet(A) /\ Cardinality(A) <= Cardinality(named)
    BY <1>3, UnionOfFew DEF FilesOK
  <1>5. IsFiniteSet(B) /\ Cardinality(B) <= n
    BY CacheAssumption, UnionOfFew DEF TypeOK
  <1>6. IsFiniteSet(path) /\ Cardinality(path) <= 1
    <2>1. CASE path = {}
      BY <2>1, FS_EmptySet
    <2>2. CASE path # {}
      <3>1. PICK i \in path : TRUE
        BY <2>2
      <3>2. path = {i}
        BY <3>1 DEF TypeOK, AtMostOne
      <3> QED BY <3>2, FS_Singleton
    <2> QED BY <2>1, <2>2
  <1>7. /\ Cardinality(A) \in Nat /\ Cardinality(B) \in Nat /\ Cardinality(path) \in Nat
    BY <1>4, <1>5, <1>6, FS_CardinalityType
  <1>8. IsFiniteSet(path \cup A) /\ Cardinality(path \cup A) <= 1 + Cardinality(named)
        /\ Cardinality(path \cup A) \in Nat
    <2>1. IsFiniteSet(path \cap A) /\ Cardinality(path \cap A) \in Nat
      BY <1>6, FS_Intersection, FS_CardinalityType
    <2>2. /\ IsFiniteSet(path \cup A)
          /\ Cardinality(path \cup A) =
                Cardinality(path) + Cardinality(A) - Cardinality(path \cap A)
      BY <1>4, <1>6, FS_Union
    <2>3. Cardinality(path \cup A) \in Nat
      BY <2>2, FS_CardinalityType
    <2> HIDE DEF A, named
    <2> QED BY <1>3, <1>4, <1>6, <1>7, <2>1, <2>2, <2>3
  <1>9. /\ IsFiniteSet((path \cup A) \cup B) /\ Cardinality((path \cup A) \cup B) \in Nat
        /\ Cardinality((path \cup A) \cup B) <= 2 * n
    <2>1. IsFiniteSet((path \cup A) \cap B) /\ Cardinality((path \cup A) \cap B) \in Nat
      BY <1>5, FS_Intersection, FS_CardinalityType
    <2>2. /\ IsFiniteSet((path \cup A) \cup B)
          /\ Cardinality((path \cup A) \cup B) =
                Cardinality(path \cup A) + Cardinality(B) - Cardinality((path \cup A) \cap B)
      BY <1>5, <1>8, FS_Union
    <2>3. Cardinality((path \cup A) \cup B) \in Nat
      BY <2>2, FS_CardinalityType
    <2> HIDE DEF A, B, n, named
    <2> QED BY <1>1, <1>3, <1>5, <1>7, <1>8, <2>1, <2>2, <2>3
  <1>10. Used = (path \cup A) \cup B
    BY DEF Used, Pids
  <1> SUFFICES ASSUME Inodes \subseteq Used PROVE FALSE
    OBVIOUS
  <1>11. Cardinality(Inodes) <= Cardinality(Used)
    BY <1>9, <1>10, FS_Subset
  <1> QED BY <1>1, <1>9, <1>10, <1>11

\* What a writer opens is one inode, its temporary file or one that is not used.
LEMMA TargetIsOne ==
    ASSUME TypeOK, FilesOK, NEW p \in Processes
    PROVE  /\ OpenTmpTarget(p) \in SUBSET Inodes
           /\ OpenTmpTarget(p) # {} /\ AtMostOne(OpenTmpTarget(p))
           /\ OpenTmpTarget(p) = tmp[Pid[p]] \/ OpenTmpTarget(p) \cap Used = {}
  <1>0. Pid[p] \in Pids
    BY DEF Pids
  <1>1. CASE tmp[Pid[p]] # {}
    BY <1>0, <1>1 DEF OpenTmpTarget, TypeOK, FilesOK
  <1>2. CASE tmp[Pid[p]] = {}
    <2>1. OpenTmpTarget(p) = {CHOOSE i \in Inodes : i \notin Used}
      BY <1>2 DEF OpenTmpTarget
    <2>2. (CHOOSE i \in Inodes : i \notin Used) \in Inodes \ Used
      BY <1>2, InodeIsLeft
    <2> QED BY <2>1, <2>2 DEF AtMostOne
  <1> QED BY <1>1, <1>2
-----------------------------------------------------------------------------
(* The calls of a process.                                                 *)

\* A call that returns ends its flight and everybody who waits for it.
LEMMA DeliverEffect ==
    ASSUME CallInvariant, NEW t \in Goroutines, pc[t] \in Looking \cup Leading,
           NEW a \in SUBSET Entries, Deliver(t, a)
    PROVE  /\ pc' \in [Goroutines -> Looking \cup Leading \cup {"idle", "enter", "wait", "done"}]
           /\ flight' \in [Processes -> SUBSET Goroutines]
           /\ answer' \in [Goroutines -> SUBSET Entries]
           /\ draft' = [draft EXCEPT ![t] = {}]
           /\ \A p \in Processes : flight'[p] = flight[p] \ {t}
           /\ \A u \in Goroutines : pc'[u] = pc[u] \/ pc'[u] = "done"
           /\ pc'[t] = "done"
           /\ \A u \in Goroutines : u # t /\ pc'[u] # pc[u] => pc[u] = "wait"
           /\ \A u \in Goroutines :
                 \/ pc'[u] = pc[u] /\ answer'[u] = answer[u]
                 \/ pc'[u] = "done" /\ answer'[u] = a /\ ProcessOf[u] = ProcessOf[t]
           /\ FlightOK'
  <1> DEFINE p == ProcessOf[t]
             served == {t} \cup (IF t \in flight[p]
                                 THEN {u \in Goroutines : ProcessOf[u] = p /\ pc[u] = "wait"}
                                 ELSE {})
  <1>1. /\ answer' = [u \in Goroutines |-> IF u \in served THEN a ELSE answer[u]]
        /\ pc' = [u \in Goroutines |-> IF u \in served THEN "done" ELSE pc[u]]
        /\ draft' = [draft EXCEPT ![t] = {}]
        /\ flight' = [flight EXCEPT ![p] = @ \ {t}]
    BY DEF Deliver
  <1>2. p \in Processes
    BY CacheAssumption
  <1>3. /\ served \subseteq Goroutines /\ t \in served
        /\ \A u \in served : ProcessOf[u] = p /\ (u = t \/ pc[u] = "wait")
    OBVIOUS
  <1>4. pc' \in [Goroutines -> Looking \cup Leading \cup {"idle", "enter", "wait", "done"}]
    BY <1>1 DEF CallInvariant, TypeOK
  <1>5. /\ flight' \in [Processes -> SUBSET Goroutines]
        /\ \A q \in Processes : flight'[q] = flight[q] \ {t}
    BY <1>1, <1>2 DEF CallInvariant, TypeOK, FlightOK
  <1>6. answer' \in [Goroutines -> SUBSET Entries]
    BY <1>1 DEF CallInvariant, TypeOK
  <1>7. \A u \in Goroutines : pc'[u] = pc[u] \/ pc'[u] = "done"
    BY <1>1
  <1>8. \A u \in Goroutines : u # t /\ pc'[u] # pc[u] => pc[u] = "wait"
    BY <1>1, <1>3
  <1>9. \A u \in Goroutines :
            \/ pc'[u] = pc[u] /\ answer'[u] = answer[u]
            \/ pc'[u] = "done" /\ answer'[u] = a /\ ProcessOf[u] = ProcessOf[t]
    BY <1>1, <1>3
  <1>10. FlightOK'
    <2>1. ASSUME NEW q \in Processes, NEW u \in flight'[q]
          PROVE  ProcessOf[u] = q /\ pc'[u] \in Leading
      <3>1. u \in flight[q] /\ u # t
        BY <1>5
      <3>2. ProcessOf[u] = q /\ pc[u] \in Leading /\ u \in Goroutines
        BY <3>1 DEF CallInvariant, FlightOK, TypeOK
      <3>3. pc[u] # "wait"
        BY <3>2 DEF Leading
      <3> QED BY <1>8, <3>1, <3>2, <3>3
    <2>2. ASSUME NEW u \in Goroutines, pc'[u] \in Leading
          PROVE  u \in flight'[ProcessOf[u]]
      <3>1. pc'[u] # "done" /\ u # t
        BY <1>1, <1>3, <2>2 DEF Leading
      <3>2. pc[u] \in Leading
        BY <1>7, <2>2, <3>1
      <3> QED BY <1>5, <3>1, <3>2, CacheAssumption DEF CallInvariant, FlightOK
    <2>3. ASSUME NEW u \in Goroutines, pc'[u] = "wait"
          PROVE  flight'[ProcessOf[u]] # {}
      <3>1. pc[u] = "wait" /\ u \notin served
        BY <1>1, <2>3
      <3>2. PICK v \in flight[ProcessOf[u]] : TRUE
        BY <3>1 DEF CallInvariant, FlightOK
      <3>3. v # t
        <4>1. CASE v = t
          <5>1. ProcessOf[u] = p /\ t \in flight[p]
            BY <3>2, <4>1, CacheAssumption DEF CallInvariant, FlightOK
          <5> QED BY <3>1, <5>1
        <4> QED BY <4>1
      <3> QED BY <1>5, <3>2, <3>3, CacheAssumption
    <2> QED BY <2>1, <2>2, <2>3 DEF FlightOK
  <1> HIDE DEF p
  <1> QED BY <1>1, <1>3, <1>4, <1>5, <1>6, <1>7, <1>8, <1>9, <1>10

\* What Deliver leaves of the calls, when an answer that is none comes from a
\* source that has failed.
LEMMA DeliverKeepsCalls ==
    ASSUME CallInvariant, NEW t \in Goroutines, pc[t] \in Looking \cup Leading,
           NEW a \in SUBSET Entries, Deliver(t, a),
           a # {} \/ ProcessOf[t] \in sourceDown', sourceDown \subseteq sourceDown'
    PROVE  DraftsOK' /\ OnlyTheSourceFails'
  <1>1. DraftsOK'
    <2>1. \A u \in Goroutines : draft'[u] = IF u = t THEN {} ELSE draft[u]
      <3>1. draft' = [draft EXCEPT ![t] = {}]
        BY DeliverEffect
      <3> QED BY <3>1 DEF CallInvariant, TypeOK
    <2>2. \A u \in Goroutines : pc'[u] \in Holding => u # t /\ pc'[u] = pc[u]
      BY DeliverEffect DEF Holding
    <2> QED BY <2>1, <2>2 DEF CallInvariant, DraftsOK, AtMostOne
  <1>2. OnlyTheSourceFails'
    <2> SUFFICES ASSUME NEW u \in Goroutines, pc'[u] = "done", answer'[u] = {}
                 PROVE  ProcessOf[u] \in sourceDown'
      BY DEF OnlyTheSourceFails
    <2>1. CASE pc'[u] = pc[u] /\ answer'[u] = answer[u]
      BY <2>1 DEF CallInvariant, OnlyTheSourceFails
    <2>2. CASE answer'[u] = a /\ ProcessOf[u] = ProcessOf[t]
      BY <2>2
    <2> QED BY <2>1, <2>2, DeliverEffect
  <1> QED BY <1>1, <1>2

\* A call that goes on, and not to wait, keeps its role and ends nobody's.
LEMMA MoveKeepsCalls ==
    ASSUME CallInvariant, NEW t \in Goroutines, NEW place,
           place \in Looking \cup Leading \cup {"idle", "enter"},
           place \in Leading <=> pc[t] \in Leading,
           pc' = [pc EXCEPT ![t] = place], UNCHANGED <<flight, answer, sourceDown>>,
           draft' \in [Goroutines -> SUBSET Entries],
           \A u \in Goroutines : u # t => draft'[u] = draft[u],
           AtMostOne(draft'[t]), place \in Holding => draft'[t] # {}
    PROVE  /\ FlightOK' /\ DraftsOK' /\ OnlyTheSourceFails'
           /\ pc' \in [Goroutines -> Looking \cup Leading \cup {"idle", "enter", "wait", "done"}]
  <1>1. /\ \A u \in Goroutines : pc'[u] = IF u = t THEN place ELSE pc[u]
        /\ pc' \in [Goroutines -> Looking \cup Leading \cup {"idle", "enter", "wait", "done"}]
        /\ place \notin {"wait", "done"}
    BY DEF CallInvariant, TypeOK, Looking, Leading
  <1>2. FlightOK'
    BY <1>1 DEF CallInvariant, TypeOK, FlightOK
  <1>3. DraftsOK'
    BY <1>1 DEF CallInvariant, DraftsOK
  <1>4. OnlyTheSourceFails'
    BY <1>1 DEF CallInvariant, OnlyTheSourceFails
  <1> QED BY <1>1, <1>2, <1>3, <1>4

\* FetchVersions is called.
LEMMA CallStep ==
    ASSUME CallInvariant, NEW t \in Goroutines, Call(t)
    PROVE  CallInvariant'
  <1> DEFINE place == IF Refreshing(ProcessOf[t]) THEN "enter" ELSE "load"
  <1>1. /\ pc[t] = "idle" /\ pc' = [pc EXCEPT ![t] = place]
        /\ UNCHANGED <<clock, memory, unwritable, flight, disk, draft, answer, started,
                       sourceDown, crashes>>
    BY DEF Call
  <1>2. /\ place \in Looking \cup Leading \cup {"idle", "enter"} /\ place \notin Holding
        /\ place \notin Leading /\ pc[t] \notin Leading
    BY <1>1 DEF Looking, Leading, Holding
  <1>3. draft' \in [Goroutines -> SUBSET Entries] /\ AtMostOne(draft'[t])
        /\ \A u \in Goroutines : draft'[u] = draft[u]
    BY <1>1 DEF CallInvariant, TypeOK, DraftsOK
  <1> HIDE DEF place
  <1>4. /\ FlightOK' /\ DraftsOK' /\ OnlyTheSourceFails'
        /\ pc' \in [Goroutines -> Looking \cup Leading \cup {"idle", "enter", "wait", "done"}]
    BY <1>1, <1>2, <1>3, MoveKeepsCalls
  <1>5. TypeOK' /\ FilesOK'
    BY <1>1, <1>4 DEF CallInvariant, TypeOK, FilesOK, disk
  <1> QED BY <1>4, <1>5 DEF CallInvariant

\* group.Do: the first one runs the function, the others wait for it.
LEMMA EnterStep ==
    ASSUME CallInvariant, NEW t \in Goroutines, Enter(t)
    PROVE  CallInvariant'
  <1> DEFINE p == ProcessOf[t]
             place == IF flight[p] # {} THEN "wait"
                      ELSE IF Refreshing(p) THEN "fetch" ELSE "reload"
  <1>1. /\ pc[t] = "enter" /\ pc' = [pc EXCEPT ![t] = place]
        /\ flight' = [flight EXCEPT ![p] = IF @ = {} THEN {t} ELSE @]
        /\ UNCHANGED <<clock, memory, unwritable, disk, draft, answer, started, sourceDown,
                       crashes>>
    BY DEF Enter, Goto
  <1>2. p \in Processes
    BY CacheAssumption
  <1>3. /\ \A u \in Goroutines : pc'[u] = IF u = t THEN place ELSE pc[u]
        /\ pc' \in [Goroutines -> Looking \cup Leading \cup {"idle", "enter", "wait", "done"}]
    BY <1>1 DEF CallInvariant, TypeOK, Leading
  <1>4. /\ \A q \in Processes : flight'[q] = IF q = p /\ flight[q] = {} THEN {t} ELSE flight[q]
        /\ flight' \in [Processes -> SUBSET Goroutines]
        /\ \A q \in Processes : AtMostOne(flight'[q])
    BY <1>1, <1>2 DEF CallInvariant, TypeOK, AtMostOne
  <1>5. place \notin Holding /\ place # "done" /\ (place \in Leading <=> flight[p] = {})
    BY DEF Holding, Leading
  <1>6. place = "wait" => flight[p] # {}
    OBVIOUS
  <1>7. pc[t] \notin Leading
    BY <1>1 DEF Leading
  <1> HIDE DEF place
  <1>8. FlightOK'
    <2>1. ASSUME NEW q \in Processes, NEW u \in flight'[q]
          PROVE  ProcessOf[u] = q /\ pc'[u] \in Leading
      <3>1. CASE u \in flight[q]
        <4>1. ProcessOf[u] = q /\ pc[u] \in Leading /\ u \in Goroutines
          BY <3>1 DEF CallInvariant, TypeOK, FlightOK
        <4> QED BY <4>1, <1>3, <1>7
      <3>2. CASE u = t /\ q = p /\ flight[q] = {}
        BY <3>2, <1>3, <1>5
      <3> QED BY <3>1, <3>2, <1>4
    <2>2. ASSUME NEW u \in Goroutines, pc'[u] \in Leading
          PROVE  u \in flight'[ProcessOf[u]]
      <3>1. CASE u = t
        BY <3>1, <2>2, <1>2, <1>3, <1>4, <1>5
      <3>2. CASE u # t
        BY <3>2, <2>2, <1>3, <1>4, CacheAssumption DEF CallInvariant, FlightOK
      <3> QED BY <3>1, <3>2
    <2>3. ASSUME NEW u \in Goroutines, pc'[u] = "wait" PROVE flight'[ProcessOf[u]] # {}
      BY <2>3, <1>2, <1>3, <1>4, <1>6, CacheAssumption DEF CallInvariant, FlightOK
    <2> QED BY <2>1, <2>2, <2>3 DEF FlightOK
  <1>9. DraftsOK' /\ OnlyTheSourceFails'
    BY <1>1, <1>3, <1>5 DEF CallInvariant, DraftsOK, OnlyTheSourceFails
  <1>10. TypeOK' /\ FilesOK'
    BY <1>1, <1>3, <1>4 DEF CallInvariant, TypeOK, FilesOK, disk
  <1> QED BY <1>8, <1>9, <1>10 DEF CallInvariant

\* What is left to show of a step in which a call returns.
LEMMA ReturnStep ==
    ASSUME CallInvariant, NEW t \in Goroutines, pc[t] \in Looking \cup Leading,
           NEW a \in SUBSET Entries, Deliver(t, a),
           a # {} \/ ProcessOf[t] \in sourceDown', sourceDown \subseteq sourceDown',
           StoreOK', FilesOK'
    PROVE  CallInvariant'
  <1>1. DraftsOK' /\ OnlyTheSourceFails'
    BY DeliverKeepsCalls
  <1>2. /\ pc' \in [Goroutines -> Looking \cup Leading \cup {"idle", "enter", "wait", "done"}]
        /\ flight' \in [Processes -> SUBSET Goroutines]
        /\ answer' \in [Goroutines -> SUBSET Entries]
        /\ draft' = [draft EXCEPT ![t] = {}]
        /\ \A p \in Processes : flight'[p] = flight[p] \ {t}
        /\ FlightOK'
    BY DeliverEffect
  <1>3. draft' \in [Goroutines -> SUBSET Entries]
    BY <1>2 DEF CallInvariant, TypeOK
  <1>4. \A p \in Processes : AtMostOne(flight'[p])
    BY <1>2 DEF CallInvariant, TypeOK, AtMostOne
  <1>5. TypeOK'
    BY <1>2, <1>3, <1>4 DEF StoreOK, TypeOK
  <1> QED BY <1>1, <1>2, <1>5 DEF CallInvariant

\* What is left to show of a step in which a call goes on.
LEMMA MoveStep ==
    ASSUME CallInvariant, NEW t \in Goroutines, NEW place,
           place \in Looking \cup Leading \cup {"idle", "enter"},
           place \in Leading <=> pc[t] \in Leading,
           pc' = [pc EXCEPT ![t] = place], UNCHANGED <<flight, answer, sourceDown>>,
           NEW a \in SUBSET Entries, AtMostOne(a), place \in Holding => a # {},
           draft' = [draft EXCEPT ![t] = a],
           StoreOK', FilesOK'
    PROVE  CallInvariant'
  <1>1. /\ draft' \in [Goroutines -> SUBSET Entries] /\ draft'[t] = a
        /\ \A u \in Goroutines : u # t => draft'[u] = draft[u]
    BY DEF CallInvariant, TypeOK
  <1>2. /\ FlightOK' /\ DraftsOK' /\ OnlyTheSourceFails'
        /\ pc' \in [Goroutines -> Looking \cup Leading \cup {"idle", "enter", "wait", "done"}]
    BY <1>1, MoveKeepsCalls
  <1>3. TypeOK'
    BY <1>1, <1>2 DEF CallInvariant, StoreOK, TypeOK
  <1> QED BY <1>2, <1>3 DEF CallInvariant

\* The same, with the draft as it was.
LEMMA PlainMove ==
    ASSUME CallInvariant, NEW t \in Goroutines, NEW place,
           place \in Looking \cup Leading \cup {"idle", "enter"},
           place \in Leading <=> pc[t] \in Leading,
           place \in Holding => pc[t] \in Holding,
           Goto(t, place), UNCHANGED <<flight, sourceDown>>,
           StoreOK', FilesOK'
    PROVE  CallInvariant'
  <1>1. pc' = [pc EXCEPT ![t] = place] /\ UNCHANGED <<draft, answer>>
    BY DEF Goto
  <1>2. /\ draft[t] \in SUBSET Entries /\ AtMostOne(draft[t])
        /\ pc[t] \in Holding => draft[t] # {}
        /\ draft' = [draft EXCEPT ![t] = draft[t]]
    BY <1>1 DEF CallInvariant, TypeOK, DraftsOK
  <1> QED BY <1>1, <1>2, MoveStep

\* Steps that leave the cache alone keep its types.
LEMMA StoreKept ==
    ASSUME CallInvariant, UNCHANGED <<clock, memory, unwritable, disk, started, sourceDown,
                                      crashes>>
    PROVE  StoreOK' /\ FilesOK'
  BY DEF CallInvariant, TypeOK, StoreOK, FilesOK, disk

\* load(), in the memory.
LEMMA LoadMemoryStep ==
    ASSUME CallInvariant, NEW t \in Goroutines, LoadMemory(t)
    PROVE  CallInvariant'
  <1> DEFINE p == ProcessOf[t]
             held == {e \in memory[p] : Valid(e)}
  <1>1. /\ pc[t] \in {"load", "reload"}
        /\ UNCHANGED <<clock, memory, unwritable, disk, started, sourceDown, crashes>>
    BY DEF LoadMemory
  <1>2. StoreOK' /\ FilesOK'
    BY <1>1, StoreKept
  <1>3. p \in Processes /\ held \in SUBSET Entries
    BY CacheAssumption DEF CallInvariant, TypeOK
  <1>4. pc[t] \in Looking \cup Leading
    BY <1>1 DEF Looking, Leading
  <1>5. CASE held # {}
    <2>1. Deliver(t, held)
      BY <1>5 DEF LoadMemory
    <2> HIDE DEF held
    <2> QED BY <1>1, <1>2, <1>3, <1>4, <1>5, <2>1, ReturnStep
  <1>6. CASE held = {}
    <2> DEFINE place == IF memory[p] # {} THEN AfterMiss(t)
                        ELSE IF pc[t] = "load" THEN "read" ELSE "reread"
    <2>1. Goto(t, place) /\ UNCHANGED flight
      BY <1>6 DEF LoadMemory
    <2>2. /\ place \in Looking \cup Leading \cup {"idle", "enter"}
          /\ place \in Leading <=> pc[t] \in Leading
          /\ place \notin Holding
      BY <1>1 DEF AfterMiss, Looking, Leading, Holding
    <2> HIDE DEF place
    <2> QED BY <1>1, <1>2, <2>1, <2>2, PlainMove
  <1> QED BY <1>5, <1>6

\* load(), from the file.
LEMMA LoadDiskStep ==
    ASSUME CallInvariant, NEW t \in Goroutines, LoadDisk(t)
    PROVE  CallInvariant'
  <1> DEFINE found == {e \in UNION {content[i] : i \in path} : Valid(e)}
  <1>1. /\ pc[t] \in {"read", "reread"}
        /\ UNCHANGED <<clock, memory, unwritable, flight, disk, started, sourceDown, crashes>>
    BY DEF LoadDisk
  <1>2. StoreOK' /\ FilesOK'
    BY <1>1, StoreKept
  <1>3. CASE found # {}
    <2> DEFINE place == IF pc[t] = "read" THEN "keep" ELSE "rekeep"
    <2>1. /\ draft' = [draft EXCEPT ![t] = found] /\ UNCHANGED answer
          /\ pc' = [pc EXCEPT ![t] = place]
      BY <1>3 DEF LoadDisk, CallInvariant, TypeOK
    <2>2. found \in SUBSET Entries /\ AtMostOne(found)
      BY DEF CallInvariant, TypeOK, FilesOK, AtMostOne
    <2>3. /\ place \in Looking \cup Leading \cup {"idle", "enter"}
          /\ place \in Leading <=> pc[t] \in Leading
      BY <1>1 DEF Looking, Leading
    <2> HIDE DEF place, found
    <2> QED BY <1>1, <1>2, <1>3, <2>1, <2>2, <2>3, MoveStep
  <1>4. CASE found = {}
    <2>1. Goto(t, AfterMiss(t))
      BY <1>4 DEF LoadDisk
    <2>2. /\ AfterMiss(t) \in Looking \cup Leading \cup {"idle", "enter"}
          /\ AfterMiss(t) \in Leading <=> pc[t] \in Leading
          /\ AfterMiss(t) \notin Holding
      BY <1>1 DEF AfterMiss, Looking, Leading, Holding
    <2> QED BY <1>1, <1>2, <2>1, <2>2, PlainMove
  <1> QED BY <1>3, <1>4

\* What a call holds, while it holds it.
LEMMA HeldEntry ==
    ASSUME CallInvariant, NEW t \in Goroutines, pc[t] \in Holding
    PROVE  draft[t] \in SUBSET Entries /\ draft[t] # {} /\ AtMostOne(draft[t])
  BY DEF CallInvariant, TypeOK, DraftsOK

\* An entry that was read goes into the memory.
LEMMA KeepStep ==
    ASSUME CallInvariant, NEW t \in Goroutines, Keep(t)
    PROVE  CallInvariant'
  <1>1. /\ pc[t] \in {"keep", "rekeep"} /\ Deliver(t, draft[t])
        /\ memory' = [memory EXCEPT ![ProcessOf[t]] = draft[t]]
        /\ UNCHANGED <<clock, unwritable, disk, started, sourceDown, crashes>>
    BY DEF Keep
  <1>2. pc[t] \in Holding /\ pc[t] \in Looking \cup Leading
    BY <1>1 DEF Holding, Looking, Leading
  <1>3. draft[t] \in SUBSET Entries /\ draft[t] # {} /\ AtMostOne(draft[t])
    BY <1>2, HeldEntry
  <1>4. StoreOK' /\ FilesOK'
    BY <1>1, <1>3 DEF CallInvariant, TypeOK, StoreOK, FilesOK, disk
  <1> QED BY <1>1, <1>2, <1>3, <1>4, ReturnStep

\* The source answers.
LEMMA FetchedStep ==
    ASSUME CallInvariant, NEW t \in Goroutines, Fetched(t)
    PROVE  CallInvariant'
  <1> DEFINE a == {[at |-> clock, stamped |-> clock, expires |-> clock]}
  <1>1. /\ pc[t] = "fetch" /\ pc' = [pc EXCEPT ![t] = "store"]
        /\ draft' = [draft EXCEPT ![t] = a]
        /\ UNCHANGED <<clock, memory, unwritable, flight, disk, answer, started,
                       sourceDown, crashes>>
    BY DEF Fetched
  <1>2. StoreOK' /\ FilesOK'
    BY <1>1, StoreKept
  <1>3. clock \in Times /\ clock \in Nat
    BY CacheAssumption DEF CallInvariant, TypeOK, Times
  <1>4. a \in SUBSET Entries /\ AtMostOne(a) /\ a # {}
    BY <1>3 DEF Entries, AtMostOne
  <1>5. "store" \in Leading /\ pc[t] \in Leading
    BY <1>1 DEF Leading
  <1> HIDE DEF a
  <1> QED BY <1>1, <1>2, <1>4, <1>5, MoveStep

\* The source fails.
LEMMA FetchFailsStep ==
    ASSUME CallInvariant, NEW t \in Goroutines, FetchFails(t)
    PROVE  CallInvariant'
  <1>1. /\ pc[t] = "fetch" /\ Deliver(t, {})
        /\ sourceDown' = sourceDown \cup {ProcessOf[t]}
        /\ UNCHANGED <<clock, memory, unwritable, disk, started, crashes>>
    BY DEF FetchFails
  <1>2. StoreOK' /\ FilesOK'
    BY <1>1, CacheAssumption DEF CallInvariant, TypeOK, StoreOK, FilesOK, disk
  <1>3. {} \in SUBSET Entries /\ pc[t] \in Looking \cup Leading
        /\ ProcessOf[t] \in sourceDown' /\ sourceDown \subseteq sourceDown'
    BY <1>1 DEF Leading
  <1> QED BY <1>1, <1>2, <1>3, ReturnStep

\* What StoreMemory stores.
Stamped(t) ==
    {[e EXCEPT !.stamped = clock, !.expires = clock + TTL(t)] : e \in draft[t]}

\* A stamped entry is one, and keeps when the source answered.
LEMMA Stamping ==
    ASSUME CallInvariant, NEW t \in Goroutines, pc[t] = "store"
    PROVE  /\ Stamped(t) \in SUBSET Entries /\ Stamped(t) # {} /\ AtMostOne(Stamped(t))
           /\ \A x \in Stamped(t) : \E e \in draft[t] : x.at = e.at
  <1>1. draft[t] \in SUBSET Entries /\ draft[t] # {} /\ AtMostOne(draft[t])
    BY HeldEntry DEF Holding
  <1>2. clock \in Times /\ clock + TTL(t) \in Nat
    <2>1. clock \in Times /\ clock \in Nat
      BY CacheAssumption DEF CallInvariant, TypeOK, Times
    <2>2. TTL(t) \in Nat
      BY CacheAssumption DEF TTL
    <2> QED BY <2>1, <2>2
  <1>3. ASSUME NEW c \in Times, NEW x \in Nat, NEW e \in Entries
        PROVE  /\ [e EXCEPT !.stamped = c, !.expires = x] \in Entries
               /\ [e EXCEPT !.stamped = c, !.expires = x].at = e.at
    BY DEF Entries
  <1>4. \A x \in Stamped(t) : x \in Entries /\ \E e \in draft[t] : x.at = e.at
    <2> SUFFICES ASSUME NEW x \in Stamped(t)
                 PROVE  x \in Entries /\ \E e \in draft[t] : x.at = e.at
      OBVIOUS
    <2>1. PICK e \in draft[t] :
             x = [e EXCEPT !.stamped = clock, !.expires = clock + TTL(t)]
      BY DEF Stamped
    <2>2. e \in Entries
      BY <1>1
    <2>3. PICK expires \in Nat : expires = clock + TTL(t)
      BY <1>2
    <2>4. x = [e EXCEPT !.stamped = clock, !.expires = expires]
      BY <2>1, <2>3
    <2>5. x \in Entries /\ x.at = e.at
      BY <1>2, <1>3, <2>2, <2>4
    <2> QED BY <2>5
  <1>5. Stamped(t) # {} /\ AtMostOne(Stamped(t))
    BY <1>1 DEF Stamped, AtMostOne
  <1> QED BY <1>4, <1>5

\* The entry goes into the memory, and to the disk if that is writable.
LEMMA StoreMemoryStep ==
    ASSUME CallInvariant, NEW t \in Goroutines, StoreMemory(t)
    PROVE  CallInvariant'
  <1>1. /\ pc[t] = "store" /\ memory' = [memory EXCEPT ![ProcessOf[t]] = Stamped(t)]
        /\ UNCHANGED <<clock, unwritable, disk, started, sourceDown, crashes>>
    BY DEF StoreMemory, Stamped
  <1>2. Stamped(t) \in SUBSET Entries /\ Stamped(t) # {} /\ AtMostOne(Stamped(t))
    BY <1>1, Stamping
  <1>3. \/ Deliver(t, Stamped(t))
        \/ /\ draft' = [draft EXCEPT ![t] = Stamped(t)]
           /\ pc' = [pc EXCEPT ![t] = "create"]
           /\ UNCHANGED <<answer, flight>>
    BY DEF StoreMemory, Stamped
  <1>4. pc[t] \in Leading /\ "create" \in Leading
    BY <1>1 DEF Leading
  <1>5. StoreOK' /\ FilesOK'
    BY <1>1, <1>2 DEF CallInvariant, TypeOK, StoreOK, FilesOK, disk
  <1>6. sourceDown \subseteq sourceDown' /\ UNCHANGED sourceDown
    BY <1>1
  <1>7. CASE Deliver(t, Stamped(t))
    BY <1>2, <1>4, <1>5, <1>6, <1>7, ReturnStep
  <1>8. CASE /\ draft' = [draft EXCEPT ![t] = Stamped(t)]
             /\ pc' = [pc EXCEPT ![t] = "create"]
             /\ UNCHANGED <<answer, flight>>
    BY <1>2, <1>4, <1>5, <1>6, <1>8, MoveStep
  <1> QED BY <1>3, <1>7, <1>8

\* Whatever fails on the disk, the call returns what it holds.
LEMMA GiveUpDiskStep ==
    ASSUME CallInvariant, NEW t \in Goroutines, pc[t] \in {"create", "write", "rename"},
           GiveUpDisk(t), UNCHANGED <<clock, memory, content, path, started, sourceDown, crashes>>,
           tmp' = tmp \/ tmp' = [tmp EXCEPT ![Pid[ProcessOf[t]]] = {}],
           fd' = fd \/ fd' = [fd EXCEPT ![ProcessOf[t]] = {}]
    PROVE  CallInvariant'
  <1>1. /\ unwritable' = [unwritable EXCEPT ![ProcessOf[t]] = TRUE]
        /\ Deliver(t, draft[t])
    BY DEF GiveUpDisk
  <1>2. pc[t] \in Holding /\ pc[t] \in Looking \cup Leading
    BY DEF Holding, Leading
  <1>3. draft[t] \in SUBSET Entries /\ draft[t] # {}
    BY <1>2, HeldEntry
  <1>4. /\ tmp' \in [Pids -> SUBSET Inodes] /\ \A id \in Pids : AtMostOne(tmp'[id])
        /\ fd' \in [Processes -> SUBSET Inodes] /\ \A p \in Processes : AtMostOne(fd'[p])
    <2>1. TypeOK /\ FilesOK
      BY DEF CallInvariant
    <2>2. /\ tmp' \in [Pids -> SUBSET Inodes] /\ \A id \in Pids : tmp'[id] \in {{}, tmp[id]}
          /\ fd' \in [Processes -> SUBSET Inodes] /\ \A p \in Processes : fd'[p] \in {{}, fd[p]}
      BY <2>1 DEF TypeOK
    <2>3. AtMostOne({})
      BY DEF AtMostOne
    <2> QED BY <2>1, <2>2, <2>3 DEF TypeOK, FilesOK
  <1>5. StoreOK' /\ FilesOK'
    BY <1>1, <1>4 DEF CallInvariant, TypeOK, StoreOK, FilesOK
  <1> QED BY <1>1, <1>2, <1>3, <1>5, ReturnStep

\* The temporary file is opened.
LEMMA CreateStep ==
    ASSUME CallInvariant, NEW t \in Goroutines, Create(t)
    PROVE  CallInvariant'
  <1> DEFINE p == ProcessOf[t]
             target == OpenTmpTarget(p)
  <1>1. /\ pc[t] = "create" /\ Goto(t, "write")
        /\ tmp' = [tmp EXCEPT ![Pid[p]] = target]
        /\ fd' = [fd EXCEPT ![p] = target]
        /\ content' = [i \in Inodes |-> IF i \in target THEN {} ELSE content[i]]
        /\ UNCHANGED <<clock, memory, unwritable, flight, path, started, sourceDown, crashes>>
    BY DEF Create
  <1>2. p \in Processes /\ TypeOK /\ FilesOK
    BY CacheAssumption DEF CallInvariant
  <1>3. target \in SUBSET Inodes /\ AtMostOne(target)
    BY <1>2, TargetIsOne
  <1> HIDE DEF target
  <1>4. /\ tmp' \in [Pids -> SUBSET Inodes]
        /\ \A id \in Pids : tmp'[id] \in {target, tmp[id]}
        /\ fd' \in [Processes -> SUBSET Inodes]
        /\ \A q \in Processes : fd'[q] \in {target, fd[q]}
        /\ content' \in [Inodes -> SUBSET Entries]
        /\ \A i \in Inodes : content'[i] \in {{}, content[i]}
    BY <1>1, <1>2, <1>3 DEF TypeOK
  <1>7. /\ \A id \in Pids : AtMostOne(tmp'[id])
        /\ \A q \in Processes : AtMostOne(fd'[q])
        /\ \A i \in Inodes : AtMostOne(content'[i])
    <2>1. AtMostOne({})
      BY DEF AtMostOne
    <2> QED BY <2>1, <1>2, <1>3, <1>4 DEF TypeOK, FilesOK
  <1>5. StoreOK' /\ FilesOK'
    BY <1>1, <1>2, <1>4, <1>7 DEF TypeOK, StoreOK, FilesOK
  <1>6. /\ "write" \in Looking \cup Leading \cup {"idle", "enter"}
        /\ "write" \in Leading <=> pc[t] \in Leading
        /\ "write" \in Holding => pc[t] \in Holding
    BY <1>1 DEF Leading, Holding
  <1> QED BY <1>1, <1>5, <1>6, PlainMove

\* The temporary file is written.
LEMMA WriteStep ==
    ASSUME CallInvariant, NEW t \in Goroutines, Write(t)
    PROVE  CallInvariant'
  <1> DEFINE p == ProcessOf[t]
  <1>1. /\ pc[t] = "write" /\ Goto(t, "rename")
        /\ content' = [i \in Inodes |-> IF i \in fd[p] THEN draft[t] ELSE content[i]]
        /\ fd' = [fd EXCEPT ![p] = {}]
        /\ UNCHANGED <<clock, memory, unwritable, flight, path, tmp, started, sourceDown,
                       crashes>>
    BY DEF Write
  <1>2. draft[t] \in SUBSET Entries /\ AtMostOne(draft[t])
    BY <1>1, HeldEntry DEF Holding
  <1>3. /\ fd' \in [Processes -> SUBSET Inodes]
        /\ \A q \in Processes : fd'[q] \in {{}, fd[q]}
        /\ content' \in [Inodes -> SUBSET Entries]
        /\ \A i \in Inodes : content'[i] \in {draft[t], content[i]}
    BY <1>1, <1>2 DEF CallInvariant, TypeOK
  <1>6. /\ \A q \in Processes : AtMostOne(fd'[q])
        /\ \A i \in Inodes : AtMostOne(content'[i])
    <2>1. AtMostOne({})
      BY DEF AtMostOne
    <2> QED BY <2>1, <1>2, <1>3 DEF CallInvariant, TypeOK, FilesOK
  <1>4. StoreOK' /\ FilesOK'
    BY <1>1, <1>3, <1>6 DEF CallInvariant, TypeOK, StoreOK, FilesOK
  <1>5. /\ "rename" \in Looking \cup Leading \cup {"idle", "enter"}
        /\ "rename" \in Leading <=> pc[t] \in Leading
        /\ "rename" \in Holding => pc[t] \in Holding
    BY <1>1 DEF Leading, Holding
  <1> QED BY <1>1, <1>4, <1>5, PlainMove

\* The temporary file becomes the entry file.
LEMMA RenameStep ==
    ASSUME CallInvariant, NEW t \in Goroutines, Rename(t)
    PROVE  CallInvariant'
  <1> DEFINE id == Pid[ProcessOf[t]]
  <1>1. /\ pc[t] = "rename" /\ Deliver(t, draft[t])
        /\ path' = tmp[id] /\ tmp' = [tmp EXCEPT ![id] = {}]
        /\ UNCHANGED <<clock, memory, unwritable, content, fd, started, sourceDown, crashes>>
    BY DEF Rename
  <1>2. pc[t] \in Holding /\ pc[t] \in Looking \cup Leading
    BY <1>1 DEF Holding, Leading
  <1>3. draft[t] \in SUBSET Entries /\ draft[t] # {}
    BY <1>2, HeldEntry
  <1>4. id \in Pids
    BY CacheAssumption DEF Pids
  <1>5. /\ tmp' \in [Pids -> SUBSET Inodes] /\ \A jd \in Pids : AtMostOne(tmp'[jd])
        /\ path' \in SUBSET Inodes /\ AtMostOne(path')
    BY <1>1, <1>4 DEF CallInvariant, TypeOK, FilesOK, AtMostOne
  <1>6. StoreOK' /\ FilesOK'
    BY <1>1, <1>5 DEF CallInvariant, TypeOK, StoreOK, FilesOK
  <1> QED BY <1>1, <1>2, <1>3, <1>6, ReturnStep

\* A process dies and another takes its place: its calls are gone, and with them
\* everybody who waited.
LEMMA CrashStep ==
    ASSUME CallInvariant, NEW p \in Processes, Crash(p)
    PROVE  CallInvariant'
  <1>1. /\ memory' = [memory EXCEPT ![p] = {}] /\ flight' = [flight EXCEPT ![p] = {}]
        /\ fd' = [fd EXCEPT ![p] = {}] /\ unwritable' = [unwritable EXCEPT ![p] = FALSE]
        /\ pc' = [t \in Goroutines |-> IF ProcessOf[t] = p THEN "idle" ELSE pc[t]]
        /\ draft' = [t \in Goroutines |-> IF ProcessOf[t] = p THEN {} ELSE draft[t]]
        /\ answer' = [t \in Goroutines |-> IF ProcessOf[t] = p THEN {} ELSE answer[t]]
        /\ sourceDown' = sourceDown \ {p} /\ crashes < MaxCrashes /\ crashes' = crashes + 1
        /\ UNCHANGED <<clock, content, path, tmp>>
    BY DEF Crash
  <1>2. crashes' \in 0 .. MaxCrashes
    BY <1>1, CacheAssumption DEF CallInvariant, TypeOK
  <1>3. started' \in [Processes -> [at : Times, refresh : BOOLEAN]]
    <2>1. PICK new \in {FALSE, (p \in Refreshable)} :
             started' = [started EXCEPT ![p] = [at |-> clock, refresh |-> new]]
      BY DEF Crash
    <2>2. new \in BOOLEAN
      <3>1. (p \in Refreshable) \in BOOLEAN
        OBVIOUS
      <3>2. new = FALSE \/ new = (p \in Refreshable)
        OBVIOUS
      <3> QED BY <3>1, <3>2
    <2>3. [at |-> clock, refresh |-> new] \in [at : Times, refresh : BOOLEAN]
      BY <2>2 DEF CallInvariant, TypeOK
    <2> QED BY <2>1, <2>3 DEF CallInvariant, TypeOK
  <1>4. /\ \A q \in Processes : /\ memory'[q] \in {{}, memory[q]} /\ fd'[q] \in {{}, fd[q]}
                                /\ flight'[q] = IF q = p THEN {} ELSE flight[q]
        /\ \A t \in Goroutines :
              /\ pc'[t] = IF ProcessOf[t] = p THEN "idle" ELSE pc[t]
              /\ draft'[t] = IF ProcessOf[t] = p THEN {} ELSE draft[t]
              /\ answer'[t] = IF ProcessOf[t] = p THEN {} ELSE answer[t]
    BY <1>1 DEF CallInvariant, TypeOK
  <1>5. /\ memory' \in [Processes -> SUBSET Entries] /\ unwritable' \in [Processes -> BOOLEAN]
        /\ flight' \in [Processes -> SUBSET Goroutines] /\ fd' \in [Processes -> SUBSET Inodes]
        /\ draft' \in [Goroutines -> SUBSET Entries] /\ answer' \in [Goroutines -> SUBSET Entries]
    BY <1>1 DEF CallInvariant, TypeOK
  <1>6. pc' \in [Goroutines -> Looking \cup Leading \cup {"idle", "enter", "wait", "done"}]
    BY <1>1 DEF CallInvariant, TypeOK
  <1>7. /\ \A q \in Processes : AtMostOne(memory'[q]) /\ AtMostOne(flight'[q]) /\ AtMostOne(fd'[q])
        /\ \A t \in Goroutines : AtMostOne(draft'[t])
    <2>1. AtMostOne({})
      BY DEF AtMostOne
    <2> QED BY <2>1, <1>4 DEF CallInvariant, TypeOK, DraftsOK
  <1>8. TypeOK' /\ FilesOK'
    BY <1>1, <1>2, <1>3, <1>5, <1>6, <1>7 DEF CallInvariant, TypeOK, FilesOK
  <1>9. FlightOK'
    <2>1. "idle" \notin Leading
      BY DEF Leading
    <2>2. ASSUME NEW q \in Processes, NEW u \in flight'[q]
          PROVE  ProcessOf[u] = q /\ pc'[u] \in Leading
      BY <1>4 DEF CallInvariant, TypeOK, FlightOK
    <2>3. ASSUME NEW u \in Goroutines, pc'[u] \in Leading \/ pc'[u] = "wait"
          PROVE  ProcessOf[u] \in Processes /\ ProcessOf[u] # p /\ pc'[u] = pc[u]
      BY <2>1, <2>3, <1>4, CacheAssumption
    <2> QED BY <2>2, <2>3, <1>4 DEF CallInvariant, FlightOK
  <1>10. DraftsOK' /\ OnlyTheSourceFails'
    BY <1>1, <1>4, <1>7, CacheAssumption DEF CallInvariant, DraftsOK, OnlyTheSourceFails, Holding
  <1> QED BY <1>8, <1>9, <1>10 DEF CallInvariant

\* Time passes.
LEMMA TickStep ==
    ASSUME CallInvariant, Tick
    PROVE  CallInvariant'
  <1>1. clock' \in Times
    BY CacheAssumption DEF Tick, CallInvariant, TypeOK, Times
  <1> QED BY <1>1 DEF Tick, disk, calls, CallInvariant, TypeOK, FlightOK, DraftsOK, FilesOK,
                      OnlyTheSourceFails

LEMMA InitInvariant ==
    Init => CallInvariant
  <1> SUFFICES ASSUME Init PROVE CallInvariant
    OBVIOUS
  <1>1. 0 \in Times /\ crashes \in 0 .. MaxCrashes
    BY CacheAssumption DEF Init, Times
  <1>2. started \in [Processes -> [at : Times, refresh : BOOLEAN]]
    <2>1. PICK new \in SUBSET Refreshable :
             started = [p \in Processes |-> [at |-> 0, refresh |-> p \in new]]
      BY DEF Init
    <2>2. \A p \in Processes :
             [at |-> 0, refresh |-> p \in new] \in [at : Times, refresh : BOOLEAN]
      BY <1>1
    <2> QED BY <2>1, <2>2
  <1>3. AtMostOne({})
    BY DEF AtMostOne
  <1>4. TypeOK
    BY <1>1, <1>2, <1>3 DEF Init, TypeOK
  <1>5. FlightOK /\ DraftsOK /\ FilesOK /\ OnlyTheSourceFails
    BY <1>3 DEF Init, FlightOK, DraftsOK, FilesOK, OnlyTheSourceFails, Leading, Holding
  <1> QED BY <1>4, <1>5 DEF CallInvariant

LEMMA NextInvariant ==
    ASSUME CallInvariant, [Next]_vars
    PROVE  CallInvariant'
  <1>1. CASE UNCHANGED vars
    BY <1>1 DEF vars, disk, calls, CallInvariant, TypeOK, FlightOK, DraftsOK, FilesOK,
                OnlyTheSourceFails
  <1>2. ASSUME NEW t \in Goroutines, Call(t) PROVE CallInvariant'
    BY <1>2, CallStep
  <1>3. ASSUME NEW t \in Goroutines, Step(t) PROVE CallInvariant'
    <2>1. CASE LoadMemory(t)
      BY <2>1, LoadMemoryStep
    <2>2. CASE LoadDisk(t)
      BY <2>2, LoadDiskStep
    <2>3. CASE Keep(t)
      BY <2>3, KeepStep
    <2>4. CASE Enter(t)
      BY <2>4, EnterStep
    <2>5. CASE Fetched(t)
      BY <2>5, FetchedStep
    <2>6. CASE FetchFails(t)
      BY <2>6, FetchFailsStep
    <2>7. CASE StoreMemory(t)
      BY <2>7, StoreMemoryStep
    <2>8. CASE CreateFails(t)
      BY <2>8, GiveUpDiskStep DEF CreateFails, disk
    <2>9. CASE Create(t)
      BY <2>9, CreateStep
    <2>10. CASE Write(t)
      BY <2>10, WriteStep
    <2>11. CASE WriteFails(t)
      BY <2>11, GiveUpDiskStep DEF WriteFails
    <2>12. CASE Rename(t)
      BY <2>12, RenameStep
    <2>13. CASE RenameFails(t)
      BY <2>13, GiveUpDiskStep DEF RenameFails
    <2> QED BY <1>3, <2>1, <2>2, <2>3, <2>4, <2>5, <2>6, <2>7, <2>8, <2>9, <2>10, <2>11,
               <2>12, <2>13 DEF Step
  <1>4. ASSUME NEW p \in Processes, Crash(p) PROVE CallInvariant'
    BY <1>4, CrashStep
  <1>5. CASE Tick
    BY <1>5, TickStep
  <1> QED BY <1>1, <1>2, <1>3, <1>4, <1>5 DEF Next

\* The calls of a process never end up waiting for a call that is not running,
\* and none fails unless its source did (Cache.FetchVersions, Cache.store),
\* whatever is on the disk and whatever the process IDs are.
THEOREM CacheSafety ==
    Spec => []CacheInvariant
  <1>1. Spec => []CallInvariant
    BY InitInvariant, NextInvariant, PTL DEF Spec
  <1>2. CallInvariant => CacheInvariant
    BY CacheAssumption DEF CallInvariant, CacheInvariant, FlightOK, TypeOK, WaitersHaveALeader
  <1> QED BY <1>1, <1>2, PTL
-----------------------------------------------------------------------------
(* A refresh is served with what the source says now.                      *)

Fresh(t, S) ==
    Refreshing(ProcessOf[t]) => \A e \in S : e.at >= started[ProcessOf[t]].at

LEMMA RefreshReturns ==
    ASSUME CacheIInv, NEW t \in Goroutines, pc[t] \in Looking \cup Leading,
           NEW a \in SUBSET Entries, Deliver(t, a), Fresh(t, a), UNCHANGED <<clock, started>>
    PROVE  RefreshOK' /\ RefreshRefetches'
  <1>1. CallInvariant
    BY DEF CacheIInv
  <1>2. /\ draft' = [draft EXCEPT ![t] = {}]
        /\ \A u \in Goroutines : pc'[u] = pc[u] \/ pc'[u] = "done"
        /\ \A u \in Goroutines :
              \/ pc'[u] = pc[u] /\ answer'[u] = answer[u]
              \/ pc'[u] = "done" /\ answer'[u] = a /\ ProcessOf[u] = ProcessOf[t]
    BY <1>1, DeliverEffect
  <1>3. \A u \in Goroutines : draft'[u] = IF u = t THEN {} ELSE draft[u]
    BY <1>1, <1>2 DEF CallInvariant, TypeOK
  <1>4. RefreshOK'
    BY <1>2, <1>3 DEF CacheIInv, RefreshOK, Refreshing, Looking
  <1>5. RefreshRefetches'
    BY <1>2 DEF CacheIInv, RefreshRefetches, Refreshing, Fresh
  <1> QED BY <1>4, <1>5

LEMMA RefreshMoves ==
    ASSUME CacheIInv, NEW t \in Goroutines, NEW place,
           Refreshing(ProcessOf[t]) => place \notin Looking \cup {"reload", "reread", "rekeep"},
           pc' = [pc EXCEPT ![t] = place], NEW a, draft' = [draft EXCEPT ![t] = a],
           Fresh(t, a), UNCHANGED <<answer, clock, started>>
    PROVE  RefreshOK' /\ RefreshRefetches'
  <1>1. \A u \in Goroutines : /\ draft'[u] = IF u = t THEN a ELSE draft[u]
                              /\ pc'[u] = IF u = t THEN place ELSE pc[u]
    BY DEF CacheIInv, CallInvariant, TypeOK
  <1> QED BY <1>1 DEF CacheIInv, RefreshOK, RefreshRefetches, Refreshing, Fresh

\* The same, with the draft as it was.
LEMMA RefreshPlainMove ==
    ASSUME CacheIInv, NEW t \in Goroutines, NEW place,
           Refreshing(ProcessOf[t]) => place \notin Looking \cup {"reload", "reread", "rekeep"},
           Goto(t, place), UNCHANGED <<clock, started>>
    PROVE  RefreshOK' /\ RefreshRefetches'
  <1>1. pc' = [pc EXCEPT ![t] = place] /\ UNCHANGED <<draft, answer>>
    BY DEF Goto
  <1>2. draft' = [draft EXCEPT ![t] = draft[t]] /\ Fresh(t, draft[t])
    BY <1>1 DEF CacheIInv, CallInvariant, TypeOK, RefreshOK, Fresh
  <1> QED BY <1>1, <1>2, RefreshMoves

\* A call in a process that refreshes is not looking for an entry.
LEMMA NotLooking ==
    ASSUME CacheIInv, NEW t \in Goroutines,
           pc[t] \in {"load", "read", "keep", "reload", "reread", "rekeep"}
    PROVE  ~ Refreshing(ProcessOf[t])
  BY DEF CacheIInv, RefreshOK, Looking

LEMMA RefreshStep ==
    ASSUME CacheIInv, NEW t \in Goroutines, Call(t) \/ Step(t)
    PROVE  RefreshOK' /\ RefreshRefetches'
  <1>0. CallInvariant /\ ProcessOf[t] \in Processes /\ clock \in Times /\ clock \in Nat
    BY CacheAssumption DEF CacheIInv, CallInvariant, TypeOK, Times
  <1> DEFINE Quiet == Looking \cup {"reload", "reread", "rekeep"}
  <1>a. Fresh(t, draft[t]) /\ Fresh(t, {})
    BY DEF CacheIInv, RefreshOK, Fresh
  <1>b. pc[t] \in Holding => draft[t] \in SUBSET Entries
    BY <1>0, HeldEntry
  <1>c. {} \in SUBSET Entries
    OBVIOUS
  <1>1. CASE Call(t)
    <2>1. /\ Goto(t, IF Refreshing(ProcessOf[t]) THEN "enter" ELSE "load")
          /\ UNCHANGED <<clock, started>>
      BY <1>1 DEF Call, Goto
    <2> QED BY <2>1, RefreshPlainMove DEF Looking
  <1>2. CASE Enter(t)
    <2>1. /\ Goto(t, IF flight[ProcessOf[t]] # {} THEN "wait"
                     ELSE IF Refreshing(ProcessOf[t]) THEN "fetch" ELSE "reload")
          /\ UNCHANGED <<clock, started>>
      BY <1>2 DEF Enter
    <2> QED BY <2>1, RefreshPlainMove DEF Looking
  <1>3. CASE LoadMemory(t)
    <2> DEFINE held == {e \in memory[ProcessOf[t]] : Valid(e)}
               place == IF memory[ProcessOf[t]] # {} THEN AfterMiss(t)
                        ELSE IF pc[t] = "load" THEN "read" ELSE "reread"
    <2>1. /\ pc[t] \in {"load", "reload"} /\ UNCHANGED <<clock, started>>
          /\ Deliver(t, held) \/ Goto(t, place)
      BY <1>3 DEF LoadMemory
    <2>2. ~ Refreshing(ProcessOf[t])
      BY <2>1, NotLooking
    <2>3. held \in SUBSET Entries /\ Fresh(t, held) /\ pc[t] \in Looking \cup Leading
      BY <1>0, <2>1, <2>2 DEF CallInvariant, TypeOK, Fresh, Looking, Leading
    <2> HIDE DEF held, place
    <2> QED BY <2>1, <2>2, <2>3, RefreshReturns, RefreshPlainMove
  <1>4. CASE LoadDisk(t)
    <2> DEFINE found == {e \in UNION {content[i] : i \in path} : Valid(e)}
               place == IF pc[t] = "read" THEN "keep" ELSE "rekeep"
    <2>1. /\ pc[t] \in {"read", "reread"} /\ UNCHANGED <<clock, started>>
          /\ \/ /\ draft' = [draft EXCEPT ![t] = found] /\ UNCHANGED answer
                /\ pc' = [pc EXCEPT ![t] = place]
             \/ Goto(t, AfterMiss(t))
      BY <1>0, <1>4 DEF LoadDisk, CallInvariant, TypeOK
    <2>2. ~ Refreshing(ProcessOf[t])
      BY <2>1, NotLooking
    <2>3. Fresh(t, found)
      BY <2>2 DEF Fresh
    <2> HIDE DEF found, place
    <2> QED BY <2>1, <2>2, <2>3, RefreshMoves, RefreshPlainMove
  <1>5. CASE Keep(t)
    <2>1. /\ pc[t] \in {"keep", "rekeep"} /\ Deliver(t, draft[t]) /\ UNCHANGED <<clock, started>>
      BY <1>5 DEF Keep
    <2>2. pc[t] \in Holding /\ pc[t] \in Looking \cup Leading
      BY <2>1 DEF Holding, Looking, Leading
    <2> QED BY <1>a, <1>b, <2>1, <2>2, RefreshReturns
  <1>6. CASE Fetched(t)
    <2> DEFINE a == {[at |-> clock, stamped |-> clock, expires |-> clock]}
    <2>1. /\ draft' = [draft EXCEPT ![t] = a] /\ pc' = [pc EXCEPT ![t] = "store"]
          /\ UNCHANGED <<answer, clock, started>>
      BY <1>6 DEF Fetched
    <2>2. Fresh(t, a)
      BY <1>0 DEF Fresh, CacheIInv, RefreshOK, CallInvariant, TypeOK, Times
    <2>3. "store" \notin Quiet
      BY DEF Looking
    <2> HIDE DEF a
    <2> QED BY <2>1, <2>2, <2>3, RefreshMoves
  <1>7. CASE FetchFails(t)
    <2>1. pc[t] \in Leading /\ Deliver(t, {}) /\ UNCHANGED <<clock, started>>
      BY <1>7 DEF FetchFails, Leading
    <2> QED BY <1>a, <1>c, <2>1, RefreshReturns
  <1>8. CASE StoreMemory(t)
    <2>1. /\ pc[t] = "store" /\ UNCHANGED <<clock, started>>
          /\ \/ Deliver(t, Stamped(t))
             \/ /\ draft' = [draft EXCEPT ![t] = Stamped(t)]
                /\ pc' = [pc EXCEPT ![t] = "create"] /\ UNCHANGED answer
      BY <1>8 DEF StoreMemory, Stamped
    <2>2. /\ Stamped(t) \in SUBSET Entries
          /\ \A x \in Stamped(t) : \E e \in draft[t] : x.at = e.at
      BY <1>0, <2>1, Stamping
    <2>3. Fresh(t, Stamped(t))
      BY <1>a, <2>2 DEF Fresh
    <2>4. "create" \notin Quiet /\ pc[t] \in Leading
      BY <2>1 DEF Looking, Leading
    <2> QED BY <2>1, <2>2, <2>3, <2>4, RefreshReturns, RefreshMoves
  <1>9. CASE CreateFails(t) \/ WriteFails(t) \/ RenameFails(t) \/ Rename(t)
    <2>1. /\ pc[t] \in {"create", "write", "rename"} /\ Deliver(t, draft[t])
          /\ UNCHANGED <<clock, started>>
      BY <1>9 DEF CreateFails, WriteFails, RenameFails, Rename, GiveUpDisk
    <2>2. pc[t] \in Holding /\ pc[t] \in Looking \cup Leading
      BY <2>1 DEF Holding, Leading
    <2> QED BY <1>a, <1>b, <2>1, <2>2, RefreshReturns
  <1>10. CASE Create(t) \/ Write(t)
    <2>1. /\ Goto(t, "write") \/ Goto(t, "rename")
          /\ UNCHANGED <<clock, started>>
      BY <1>10 DEF Create, Write
    <2>2. "write" \notin Quiet /\ "rename" \notin Quiet
      BY DEF Looking
    <2> QED BY <2>1, <2>2, RefreshPlainMove
  <1> QED BY <1>1, <1>2, <1>3, <1>4, <1>5, <1>6, <1>7, <1>8, <1>9, <1>10 DEF Step

LEMMA CacheIInvInductive ==
    /\ Init => CacheIInv
    /\ CacheIInv /\ [Next]_vars => CacheIInv'
  <1>1. Init => CacheIInv
    <2> SUFFICES ASSUME Init PROVE RefreshOK /\ RefreshRefetches
      BY InitInvariant DEF CacheIInv
    <2>1. \A p \in Processes : started[p].at = 0 /\ clock = 0
      BY DEF Init
    <2> QED BY <2>1, CacheAssumption DEF Init, RefreshOK, RefreshRefetches, Looking
  <1>2. ASSUME CacheIInv, [Next]_vars PROVE RefreshOK' /\ RefreshRefetches'
    <2>1. CASE UNCHANGED vars
      BY <1>2, <2>1 DEF CacheIInv, RefreshOK, RefreshRefetches, Refreshing, vars, calls
    <2>2. ASSUME NEW t \in Goroutines, Call(t) \/ Step(t) PROVE RefreshOK' /\ RefreshRefetches'
      BY <1>2, <2>2, RefreshStep
    <2>3. ASSUME NEW p \in Processes, Crash(p) PROVE RefreshOK' /\ RefreshRefetches'
      <3>1. /\ clock' = clock /\ clock \in Nat
            /\ \A q \in Processes : IF q = p THEN started'[q].at = clock
                                     ELSE started'[q] = started[q]
            /\ \A t \in Goroutines :
                  IF ProcessOf[t] = p
                  THEN pc'[t] = "idle" /\ draft'[t] = {} /\ answer'[t] = {}
                  ELSE pc'[t] = pc[t] /\ draft'[t] = draft[t] /\ answer'[t] = answer[t]
        BY <1>2, <2>3, CacheAssumption DEF Crash, CacheIInv, CallInvariant, TypeOK, Times
      <3>2. RefreshOK'
        BY <1>2, <3>1, CacheAssumption DEF CacheIInv, RefreshOK, Refreshing, Looking
      <3>3. RefreshRefetches'
        BY <1>2, <3>1, CacheAssumption DEF CacheIInv, RefreshRefetches, Refreshing
      <3> QED BY <3>2, <3>3
    <2>4. CASE Tick
      <3>1. clock' = clock + 1 /\ UNCHANGED <<started, pc, draft, answer>> /\ clock \in Nat
            /\ \A p \in Processes : started[p].at \in Nat
        BY <1>2, <2>4, CacheAssumption DEF Tick, calls, CacheIInv, CallInvariant, TypeOK, Times
      <3> QED BY <1>2, <3>1 DEF CacheIInv, RefreshOK, RefreshRefetches, Refreshing
    <2> QED BY <1>2, <2>1, <2>2, <2>3, <2>4 DEF Next
  <1> QED BY <1>1, <1>2, NextInvariant DEF CacheIInv

-----------------------------------------------------------------------------
(* The entry file is whole, and is never gone again.                       *)

\* One goroutine of a process runs the group's function.
LEMMA OneLeader ==
    ASSUME CallInvariant, NEW t \in Goroutines, NEW u \in Goroutines,
           pc[t] \in Leading, pc[u] \in Leading, ProcessOf[t] = ProcessOf[u]
    PROVE  t = u
  <1>1. /\ t \in flight[ProcessOf[t]] /\ u \in flight[ProcessOf[t]]
        /\ ProcessOf[t] \in Processes
    BY CacheAssumption DEF CallInvariant, FlightOK
  <1> QED BY <1>1 DEF CallInvariant, TypeOK, AtMostOne

\* A step that leaves the disk alone and ends no writing.
LEMMA WritersMove ==
    ASSUME WritersOK, EntryFileIsWhole, UNCHANGED disk,
           \A u \in Goroutines : pc'[u] \in {"write", "rename"} => pc'[u] = pc[u],
           \A p \in Processes : \A u \in flight[p] :
               pc[u] = "write" => pc'[u] = "write" /\ u \in flight'[p]
    PROVE  WritersOK' /\ EntryFileIsWhole'
  <1>1. UNCHANGED <<content, path, tmp, fd>>
    BY DEF disk
  <1>2. EntryFileIsWhole'
    BY <1>1 DEF EntryFileIsWhole
  <1>3. WritersOK'
    BY <1>1 DEF WritersOK
  <1> QED BY <1>2, <1>3

\* A call that returns without having written leaves the writers as they are.
LEMMA WritersReturn ==
    ASSUME CallInvariant, NEW t \in Goroutines, pc[t] \in Looking \cup Leading,
           NEW a \in SUBSET Entries, Deliver(t, a)
    PROVE  /\ \A u \in Goroutines : pc'[u] \in {"write", "rename"} => pc'[u] = pc[u] /\ u # t
           /\ \A p \in Processes : \A u \in flight[p] :
                 pc[u] = "write" /\ u # t => pc'[u] = "write" /\ u \in flight'[p]
  <1>1. /\ \A p \in Processes : flight'[p] = flight[p] \ {t}
        /\ \A u \in Goroutines : pc'[u] = pc[u] \/ pc'[u] = "done"
        /\ pc'[t] = "done"
        /\ \A u \in Goroutines : u # t /\ pc'[u] # pc[u] => pc[u] = "wait"
    BY DeliverEffect
  <1>2. \A p \in Processes : flight[p] \subseteq Goroutines
    BY DEF CallInvariant, TypeOK
  <1> QED BY <1>1, <1>2

\* The steps of a call that do not touch the disk.
LEMMA WritersStay ==
    ASSUME CallInvariant, WritersOK, EntryFileIsWhole, NEW t \in Goroutines,
           \/ Call(t) \/ LoadMemory(t) \/ LoadDisk(t) \/ Keep(t) \/ Enter(t)
           \/ Fetched(t) \/ FetchFails(t) \/ StoreMemory(t) \/ CreateFails(t)
    PROVE  WritersOK' /\ EntryFileIsWhole'
  <1>1. UNCHANGED disk /\ pc[t] # "write"
    BY DEF Call, LoadMemory, LoadDisk, Keep, Enter, Fetched, FetchFails, StoreMemory, CreateFails
  <1>2. CASE \E a \in SUBSET Entries : pc[t] \in Looking \cup Leading /\ Deliver(t, a)
    <2>1. PICK a \in SUBSET Entries : pc[t] \in Looking \cup Leading /\ Deliver(t, a)
      BY <1>2
    <2>2. /\ \A u \in Goroutines : pc'[u] \in {"write", "rename"} => pc'[u] = pc[u]
          /\ \A p \in Processes : \A u \in flight[p] :
                pc[u] = "write" => pc'[u] = "write" /\ u \in flight'[p]
      BY <1>1, <2>1, WritersReturn
    <2> QED BY <1>1, <2>2, WritersMove
  <1>3. CASE /\ \E place : place \notin {"write", "rename"} /\ pc' = [pc EXCEPT ![t] = place]
             /\ \A p \in Processes : flight[p] \subseteq flight'[p]
    <2>1. \A u \in Goroutines : IF u = t THEN pc'[u] \notin {"write", "rename"}
                                ELSE pc'[u] = pc[u]
      BY <1>3 DEF CallInvariant, TypeOK
    <2>2. \A p \in Processes : flight[p] \subseteq Goroutines
      BY DEF CallInvariant, TypeOK
    <2>3. \A p \in Processes : \A u \in flight[p] :
             pc[u] = "write" => pc'[u] = "write" /\ u \in flight'[p]
      BY <1>1, <1>3, <2>1, <2>2
    <2>4. \A u \in Goroutines : pc'[u] \in {"write", "rename"} => pc'[u] = pc[u]
      BY <2>1
    <2> QED BY <1>1, <2>3, <2>4, WritersMove
  <1>4. CASE Call(t)
    BY <1>3, <1>4 DEF Call
  <1>5. CASE LoadMemory(t)
    <2> DEFINE held == {e \in memory[ProcessOf[t]] : Valid(e)}
               place == IF memory[ProcessOf[t]] # {} THEN AfterMiss(t)
                        ELSE IF pc[t] = "load" THEN "read" ELSE "reread"
    <2>1. /\ pc[t] \in {"load", "reload"}
          /\ Deliver(t, held) \/ (UNCHANGED flight /\ Goto(t, place))
      BY <1>5 DEF LoadMemory
    <2>2. /\ held \in SUBSET Entries /\ pc[t] \in Looking \cup Leading
          /\ place \notin {"write", "rename"}
      BY <2>1, CacheAssumption DEF CallInvariant, TypeOK, Looking, Leading, AfterMiss
    <2> HIDE DEF held, place
    <2> QED BY <1>2, <1>3, <2>1, <2>2 DEF Goto
  <1>6. CASE LoadDisk(t)
    <2>1. UNCHANGED flight /\ \E place \in {"keep", "rekeep", AfterMiss(t)} : pc' = [pc EXCEPT ![t] = place]
      BY <1>6 DEF LoadDisk, Goto, CallInvariant, TypeOK
    <2>2. AfterMiss(t) \in {"enter", "fetch"}
      BY DEF AfterMiss
    <2> QED BY <1>3, <2>1, <2>2
  <1>7. CASE Keep(t) \/ CreateFails(t)
    <2>1. pc[t] \in {"keep", "rekeep", "create"} /\ Deliver(t, draft[t])
      BY <1>7 DEF Keep, CreateFails, GiveUpDisk
    <2>2. draft[t] \in SUBSET Entries /\ pc[t] \in Looking \cup Leading
      BY <2>1 DEF CallInvariant, TypeOK, Looking, Leading
    <2> QED BY <1>2, <2>1, <2>2
  <1>8. CASE Enter(t)
    <2>1. \E place \in {"wait", "fetch", "reload"} : pc' = [pc EXCEPT ![t] = place]
      BY <1>8 DEF Enter, Goto
    <2>2. \A p \in Processes : flight[p] \subseteq flight'[p]
      BY <1>8 DEF Enter, CallInvariant, TypeOK
    <2> QED BY <1>3, <2>1, <2>2
  <1>9. CASE Fetched(t)
    BY <1>3, <1>9 DEF Fetched
  <1>10. CASE FetchFails(t)
    <2>1. {} \in SUBSET Entries /\ pc[t] \in Looking \cup Leading /\ Deliver(t, {})
      BY <1>10 DEF FetchFails, Leading
    <2> QED BY <1>2, <2>1
  <1>11. CASE StoreMemory(t)
    <2>1. /\ pc[t] = "store"
          /\ Deliver(t, Stamped(t)) \/ (UNCHANGED flight /\ pc' = [pc EXCEPT ![t] = "create"])
      BY <1>11 DEF StoreMemory, Stamped
    <2>2. Stamped(t) \in SUBSET Entries
      BY <2>1, Stamping
    <2>3. pc[t] \in Looking \cup Leading
      BY <2>1 DEF Leading
    <2> QED BY <1>2, <1>3, <2>1, <2>2, <2>3
  <1> QED BY <1>4, <1>5, <1>6, <1>7, <1>8, <1>9, <1>10, <1>11

\* What two writers have open, or left, are different files.
LEMMA NamesDiffer ==
    ASSUME PidsDiffer, CallInvariant, NEW t \in Goroutines, NEW u \in Goroutines, u # t,
           pc[t] \in Leading, pc[u] \in Leading
    PROVE  ProcessOf[u] # ProcessOf[t] /\ Pid[ProcessOf[u]] # Pid[ProcessOf[t]]
  <1>1. ProcessOf[u] # ProcessOf[t]
    BY OneLeader
  <1> QED BY <1>1, CacheAssumption DEF PidsDiffer

\* The temporary file is opened: it is not the entry file, nor anybody else's.
LEMMA WritersCreate ==
    ASSUME PidsDiffer, CallInvariant, WritersOK, EntryFileIsWhole,
           NEW t \in Goroutines, Create(t)
    PROVE  WritersOK' /\ EntryFileIsWhole'
  <1> DEFINE p == ProcessOf[t]
             target == OpenTmpTarget(p)
  <1>1. /\ pc[t] = "create" /\ pc' = [pc EXCEPT ![t] = "write"]
        /\ tmp' = [tmp EXCEPT ![Pid[p]] = target] /\ fd' = [fd EXCEPT ![p] = target]
        /\ content' = [i \in Inodes |-> IF i \in target THEN {} ELSE content[i]]
        /\ UNCHANGED <<path, flight>>
    BY DEF Create, Goto
  <1>2. p \in Processes /\ Pid[p] \in Pids /\ t \in flight[p]
    BY <1>1, CacheAssumption DEF Pids, CallInvariant, FlightOK, Leading
  <1>3. /\ \A u \in Goroutines : pc'[u] = IF u = t THEN "write" ELSE pc[u]
        /\ \A id \in Pids : tmp'[id] = IF id = Pid[p] THEN target ELSE tmp[id]
        /\ \A q \in Processes : fd'[q] = IF q = p THEN target ELSE fd[q]
        /\ \A i \in Inodes : content'[i] = IF i \in target THEN {} ELSE content[i]
    BY <1>1, <1>2 DEF CallInvariant, TypeOK
  <1>4. /\ target \cap path = {}
        /\ \A id \in Pids : id # Pid[p] => tmp[id] \cap target = {}
    <2>1. target = tmp[Pid[p]] \/ target \cap Used = {}
      BY <1>2, TargetIsOne DEF CallInvariant
    <2>2. CASE target = tmp[Pid[p]]
      BY <2>2, <1>2 DEF WritersOK
    <2>3. CASE target \cap Used = {}
      BY <2>3 DEF Used
    <2> QED BY <2>1, <2>2, <2>3
  <1> HIDE DEF target
  <1>5. \A q \in Processes : fd'[q] # {} => \E u \in flight'[q] : pc'[u] = "write"
    <2> SUFFICES ASSUME NEW q \in Processes, fd'[q] # {}
                 PROVE  \E u \in flight[q] : pc'[u] = "write"
      BY <1>1
    <2>1. CASE q = p
      BY <2>1, <1>2, <1>3 DEF CallInvariant, TypeOK
    <2>2. CASE q # p
      <3>1. PICK u \in flight[q] : pc[u] = "write"
        BY <2>2, <1>3 DEF WritersOK
      <3>2. u \in Goroutines /\ u # t
        BY <3>1, <1>1 DEF CallInvariant, TypeOK
      <3> QED BY <3>1, <3>2, <1>3
    <2> QED BY <2>1, <2>2
  <1>6. ASSUME NEW u \in Goroutines, u # t, pc[u] \in Leading
        PROVE  Pid[ProcessOf[u]] # Pid[p] /\ ProcessOf[u] # p
               /\ ProcessOf[u] \in Processes /\ Pid[ProcessOf[u]] \in Pids
    <2>1. pc[t] \in Leading
      BY <1>1 DEF Leading
    <2>2. ProcessOf[u] \in Processes /\ Pid[ProcessOf[u]] \in Pids
      BY CacheAssumption DEF Pids
    <2> QED BY <1>6, <2>1, <2>2, NamesDiffer
  <1>7. ASSUME NEW u \in Goroutines, pc'[u] = "write"
        PROVE  fd'[ProcessOf[u]] = tmp'[Pid[ProcessOf[u]]]
    <2>1. CASE u = t
      BY <2>1, <1>2, <1>3
    <2>2. CASE u # t
      <3>1. pc[u] = "write" /\ pc[u] \in Leading
        BY <2>2, <1>3, <1>7 DEF Leading
      <3> QED BY <2>2, <3>1, <1>3, <1>6 DEF WritersOK
    <2> QED BY <2>1, <2>2
  <1>8. ASSUME NEW u \in Goroutines, pc'[u] = "rename", NEW i \in tmp'[Pid[ProcessOf[u]]]
        PROVE  content'[i] # {}
    <2>1. u # t /\ pc[u] = "rename" /\ pc[u] \in Leading
      BY <1>3, <1>8 DEF Leading
    <2>2. /\ Pid[ProcessOf[u]] # Pid[p] /\ Pid[ProcessOf[u]] \in Pids
          /\ i \in tmp[Pid[ProcessOf[u]]]
      BY <2>1, <1>3, <1>6, <1>8
    <2>3. i \in Inodes /\ i \notin target
      BY <2>2, <1>4 DEF CallInvariant, TypeOK
    <2> QED BY <2>1, <2>2, <2>3, <1>3 DEF WritersOK
  <1>9. /\ \A id \in Pids : tmp'[id] \cap path' = {}
        /\ \A id, jd \in Pids : id # jd => tmp'[id] \cap tmp'[jd] = {}
    BY <1>1, <1>3, <1>4 DEF WritersOK
  <1>10. EntryFileIsWhole'
    BY <1>1, <1>3, <1>4 DEF EntryFileIsWhole, CallInvariant, TypeOK
  <1> QED BY <1>5, <1>7, <1>8, <1>9, <1>10 DEF WritersOK

\* The temporary file is written, to the end or not.
LEMMA WritersWrite ==
    ASSUME PidsDiffer, CallInvariant, WritersOK, EntryFileIsWhole,
           NEW t \in Goroutines, Write(t) \/ WriteFails(t)
    PROVE  WritersOK' /\ EntryFileIsWhole'
  <1> DEFINE p == ProcessOf[t]
  <1>1. /\ pc[t] = "write" /\ fd' = [fd EXCEPT ![p] = {}] /\ UNCHANGED <<path, tmp>>
    BY DEF Write, WriteFails
  <1>2. pc[t] \in Leading /\ pc[t] \in Looking \cup Leading /\ pc[t] \in Holding
    BY <1>1 DEF Leading, Holding
  <1>3. draft[t] \in SUBSET Entries /\ draft[t] # {}
    BY <1>2, HeldEntry
  <1>4. \A i \in Inodes : content[i] # {} => content'[i] # {}
    BY <1>3 DEF Write, WriteFails
  <1>5. /\ \A u \in Goroutines : pc'[u] = "write" => u # t /\ pc[u] = "write"
        /\ \A u \in Goroutines : pc'[u] = "rename" => pc[u] = "rename" \/ (u = t /\ Write(t))
        /\ \A q \in Processes : \A u \in flight[q] :
              pc[u] = "write" /\ u # t => pc'[u] = "write" /\ u \in flight'[q]
    <2>1. CASE Write(t)
      <3>1. pc' = [pc EXCEPT ![t] = "rename"] /\ UNCHANGED flight
        BY <2>1 DEF Write, Goto
      <3>2. \A u \in Goroutines : pc'[u] = IF u = t THEN "rename" ELSE pc[u]
        BY <3>1 DEF CallInvariant, TypeOK
      <3>3. \A q \in Processes : flight[q] \subseteq Goroutines
        BY DEF CallInvariant, TypeOK
      <3> QED BY <2>1, <3>1, <3>2, <3>3
    <2>2. CASE WriteFails(t)
      <3>1. Deliver(t, draft[t])
        BY <2>2 DEF WriteFails, GiveUpDisk
      <3> QED BY <3>1, <1>2, <1>3, WritersReturn
    <2> QED BY <2>1, <2>2
  <1>6. p \in Processes /\ \A q \in Processes : fd'[q] = IF q = p THEN {} ELSE fd[q]
    BY <1>1, CacheAssumption DEF CallInvariant, TypeOK
  <1>7. ASSUME NEW q \in Processes, fd'[q] # {}
        PROVE  \E u \in flight'[q] : pc'[u] = "write"
    <2>1. q # p /\ fd[q] # {}
      BY <1>6, <1>7
    <2>2. PICK u \in flight[q] : pc[u] = "write"
      BY <2>1 DEF WritersOK
    <2>3. u # t
      BY <2>1, <2>2 DEF CallInvariant, FlightOK
    <2> QED BY <2>2, <2>3, <1>5
  <1>8. ASSUME NEW u \in Goroutines, pc'[u] = "write"
        PROVE  fd'[ProcessOf[u]] = tmp'[Pid[ProcessOf[u]]]
    <2>1. u # t /\ pc[u] = "write" /\ pc[u] \in Leading
      BY <1>5, <1>8 DEF Leading
    <2>2. ProcessOf[u] # p /\ ProcessOf[u] \in Processes
      BY <2>1, <1>2, NamesDiffer, CacheAssumption
    <2> QED BY <2>1, <2>2, <1>1, <1>6 DEF WritersOK
  <1>9. ASSUME NEW u \in Goroutines, pc'[u] = "rename", NEW i \in tmp'[Pid[ProcessOf[u]]]
        PROVE  content'[i] # {}
    <2>1. i \in tmp[Pid[ProcessOf[u]]] /\ Pid[ProcessOf[u]] \in Pids
      BY <1>1, <1>9, CacheAssumption DEF Pids
    <2>2. i \in Inodes
      BY <2>1 DEF CallInvariant, TypeOK
    <2>3. CASE pc[u] = "rename"
      BY <2>1, <2>2, <2>3, <1>4 DEF WritersOK
    <2>4. CASE u = t /\ Write(t)
      <3>1. i \in fd[p]
        BY <2>1, <2>4, <1>1 DEF WritersOK
      <3> QED BY <2>2, <2>4, <3>1, <1>3 DEF Write
    <2> QED BY <2>3, <2>4, <1>5, <1>9
  <1>10. EntryFileIsWhole'
    BY <1>1, <1>4 DEF EntryFileIsWhole, CallInvariant, TypeOK
  <1> QED BY <1>1, <1>7, <1>8, <1>9, <1>10 DEF WritersOK

\* The temporary file becomes the entry file, or is removed.
LEMMA WritersRename ==
    ASSUME PidsDiffer, CallInvariant, WritersOK, EntryFileIsWhole,
           NEW t \in Goroutines, Rename(t) \/ RenameFails(t)
    PROVE  WritersOK' /\ EntryFileIsWhole'
  <1> DEFINE id == Pid[ProcessOf[t]]
  <1>1. /\ pc[t] = "rename" /\ Deliver(t, draft[t]) /\ UNCHANGED <<content, fd>>
        /\ tmp' = [tmp EXCEPT ![id] = {}] /\ path' \in {path, tmp[id]}
    BY DEF Rename, RenameFails, GiveUpDisk
  <1>2. pc[t] \in Leading /\ pc[t] \in Looking \cup Leading /\ id \in Pids
    BY <1>1, CacheAssumption DEF Leading, Pids
  <1>3. draft[t] \in SUBSET Entries
    BY DEF CallInvariant, TypeOK
  <1>4. /\ \A u \in Goroutines : pc'[u] \in {"write", "rename"} => pc'[u] = pc[u] /\ u # t
        /\ \A p \in Processes : \A u \in flight[p] :
              pc[u] = "write" => pc'[u] = "write" /\ u \in flight'[p]
    BY <1>1, <1>2, <1>3, WritersReturn
  <1>5. \A jd \in Pids : tmp'[jd] = IF jd = id THEN {} ELSE tmp[jd]
    BY <1>1, <1>2 DEF CallInvariant, TypeOK
  <1>6. ASSUME NEW u \in Goroutines, pc'[u] \in {"write", "rename"}
        PROVE  /\ pc'[u] = pc[u]
               /\ tmp'[Pid[ProcessOf[u]]] = tmp[Pid[ProcessOf[u]]]
    <2>1. pc'[u] = pc[u] /\ u # t
      BY <1>4, <1>6
    <2>2. pc[u] \in Leading
      BY <1>6, <2>1 DEF Leading
    <2>3. Pid[ProcessOf[u]] # id
      BY <2>1, <2>2, <1>2, NamesDiffer
    <2>4. Pid[ProcessOf[u]] \in Pids
      BY CacheAssumption DEF Pids
    <2> QED BY <2>1, <2>3, <2>4, <1>5
  <1>7. EntryFileIsWhole'
    BY <1>1 DEF EntryFileIsWhole, WritersOK
  <1>8. /\ \A jd \in Pids : tmp'[jd] \cap path' = {}
        /\ \A jd, kd \in Pids : jd # kd => tmp'[jd] \cap tmp'[kd] = {}
    BY <1>1, <1>2, <1>5 DEF WritersOK
  <1>9. \A p \in Processes : fd'[p] # {} => \E u \in flight'[p] : pc'[u] = "write"
    BY <1>1, <1>4 DEF WritersOK
  <1>10. /\ \A u \in Goroutines : pc'[u] = "write" =>
              fd'[ProcessOf[u]] = tmp'[Pid[ProcessOf[u]]]
         /\ \A u \in Goroutines : pc'[u] = "rename" =>
              \A i \in tmp'[Pid[ProcessOf[u]]] : content'[i] # {}
    BY <1>1, <1>6 DEF WritersOK
  <1> QED BY <1>7, <1>8, <1>9, <1>10 DEF WritersOK

\* What puts an entry into a memory that a call found empty came from the file.
LEMMA FileExistsStep ==
    ASSUME CallInvariant, FileExists, NEW t \in Goroutines, Call(t) \/ Step(t)
    PROVE  FileExists'
  <1>1. path # {} => path' # {}
    BY DEF Call, Step, LoadMemory, LoadDisk, Keep, Enter, Fetched, FetchFails, StoreMemory,
           CreateFails, Create, Write, WriteFails, Rename, RenameFails, disk
  <1> SUFFICES ASSUME path = {}, NEW u \in Goroutines,
                      \/ pc'[u] \in {"keep", "rekeep"}
                      \/ pc'[u] = "reread" /\ memory'[ProcessOf[u]] # {}
               PROVE  FALSE
    BY <1>1 DEF FileExists
  <1>2. \A v \in Goroutines : /\ pc[v] \notin {"keep", "rekeep"}
                              /\ pc[v] = "reread" => memory[ProcessOf[v]] = {}
    BY DEF FileExists
  <1>3. CASE pc'[u] = pc[u] /\ UNCHANGED memory
    BY <1>2, <1>3
  <1>4. CASE UNCHANGED memory /\ \E a \in SUBSET Entries : pc[t] \in Looking \cup Leading /\ Deliver(t, a)
    BY <1>3, <1>4, DeliverEffect
  <1>5. CASE /\ UNCHANGED memory
             /\ \E place \in {"load", "read", "enter", "wait", "reload", "fetch", "store", "create",
                             "write", "rename"} : pc' = [pc EXCEPT ![t] = place]
    <2>1. pc'[u] = pc[u] \/ pc'[u] \notin {"keep", "rekeep", "reread"}
      BY <1>5 DEF CallInvariant, TypeOK
    <2> QED BY <1>3, <1>5, <2>1
  <1>6. CASE Call(t)
    BY <1>5, <1>6 DEF Call
  <1>7. CASE LoadMemory(t)
    <2> DEFINE held == {e \in memory[ProcessOf[t]] : Valid(e)}
    <2>1. held \in SUBSET Entries /\ (pc[t] \in {"load", "reload"} => pc[t] \in Looking \cup Leading)
      BY CacheAssumption DEF CallInvariant, TypeOK, Looking, Leading
    <2>2. CASE Deliver(t, held)
      BY <1>4, <1>7, <2>1, <2>2 DEF LoadMemory
    <2>3. CASE memory[ProcessOf[t]] # {} /\ Goto(t, AfterMiss(t))
      BY <1>5, <1>7, <2>3 DEF LoadMemory, Goto, AfterMiss
    <2>4. CASE memory[ProcessOf[t]] = {} /\ (Goto(t, "read") \/ Goto(t, "reread"))
      <3>1. UNCHANGED memory
        BY <1>7 DEF LoadMemory
      <3>2. pc'[u] = pc[u] \/ (u = t /\ pc'[u] \in {"read", "reread"})
        BY <2>4 DEF Goto, CallInvariant, TypeOK
      <3> QED BY <1>3, <2>4, <3>1, <3>2
    <2> QED BY <1>7, <2>2, <2>3, <2>4 DEF LoadMemory
  <1>8. CASE LoadDisk(t)
    <2>1. /\ pc[t] \in {"read", "reread"} /\ Goto(t, AfterMiss(t)) /\ UNCHANGED memory
      BY <1>8 DEF LoadDisk
    <2> QED BY <1>5, <2>1 DEF Goto, AfterMiss
  <1>9. CASE Keep(t)
    BY <1>2, <1>9 DEF Keep
  <1>10. CASE Enter(t)
    BY <1>5, <1>10 DEF Enter, Goto
  <1>11. CASE Fetched(t) \/ Create(t) \/ Write(t)
    BY <1>5, <1>11 DEF Fetched, Create, Write, Goto
  <1>12. CASE FetchFails(t)
    <2>1. {} \in SUBSET Entries /\ pc[t] \in Leading /\ Deliver(t, {}) /\ UNCHANGED memory
      BY <1>12 DEF FetchFails, Leading
    <2> QED BY <1>4, <2>1
  <1>13. CASE StoreMemory(t)
    <2>1. /\ pc[t] = "store" /\ memory' = [memory EXCEPT ![ProcessOf[t]] = Stamped(t)]
          /\ Deliver(t, Stamped(t)) \/ pc' = [pc EXCEPT ![t] = "create"]
      BY <1>13 DEF StoreMemory, Stamped
    <2>2. pc[t] \in Leading /\ Stamped(t) \in SUBSET Entries
      <3>1. pc[t] \in Leading
        BY <2>1 DEF Leading
      <3> QED BY <2>1, <3>1, Stamping
    <2>3. u # t /\ pc'[u] = pc[u]
      <3>1. CASE Deliver(t, Stamped(t))
        <4>1. pc'[t] = "done" /\ (pc'[u] = pc[u] \/ pc'[u] = "done")
          BY <2>2, <3>1, DeliverEffect
        <4> QED BY <4>1
      <3>2. CASE pc' = [pc EXCEPT ![t] = "create"]
        BY <3>2 DEF CallInvariant, TypeOK
      <3> QED BY <2>1, <3>1, <3>2
    <2>4. pc[u] = "reread" /\ pc[u] \in Leading
      BY <1>2, <2>3 DEF Leading
    <2>5. ProcessOf[u] # ProcessOf[t]
      BY <2>2, <2>3, <2>4, OneLeader
    <2>6. memory'[ProcessOf[u]] = memory[ProcessOf[u]]
      BY <2>1, <2>5, CacheAssumption DEF CallInvariant, TypeOK
    <2> QED BY <1>2, <2>3, <2>4, <2>6
  <1>14. CASE CreateFails(t) \/ WriteFails(t) \/ RenameFails(t) \/ Rename(t)
    <2>1. /\ pc[t] \in {"create", "write", "rename"} /\ Deliver(t, draft[t]) /\ UNCHANGED memory
      BY <1>14 DEF CreateFails, WriteFails, RenameFails, Rename, GiveUpDisk
    <2>2. pc[t] \in Leading /\ draft[t] \in SUBSET Entries
      BY <2>1 DEF Leading, CallInvariant, TypeOK
    <2> QED BY <1>4, <2>1, <2>2
  <1> QED BY <1>6, <1>7, <1>8, <1>9, <1>10, <1>11, <1>12, <1>13, <1>14 DEF Step

LEMMA DiskInvariantInductive ==
    ASSUME PidsDiffer
    PROVE  /\ Init => DiskInvariant
           /\ CallInvariant /\ DiskInvariant /\ [Next]_vars => DiskInvariant'
  <1>1. Init => DiskInvariant
    BY DEF Init, DiskInvariant, WritersOK, EntryFileIsWhole, FileExists
  <1>2. ASSUME CallInvariant, DiskInvariant, [Next]_vars PROVE DiskInvariant'
    <2>0. WritersOK /\ EntryFileIsWhole /\ FileExists
      BY <1>2 DEF DiskInvariant
    <2>1. CASE UNCHANGED vars \/ Tick
      BY <2>0, <2>1 DEF DiskInvariant, WritersOK, EntryFileIsWhole, FileExists, Tick, vars, calls, disk
    <2>2. ASSUME NEW t \in Goroutines, Call(t) \/ Step(t) PROVE DiskInvariant'
      <3>1. FileExists'
        BY <1>2, <2>0, <2>2, FileExistsStep
      <3>2. CASE Create(t)
        BY <1>2, <2>0, <3>1, <3>2, WritersCreate DEF DiskInvariant
      <3>3. CASE Write(t) \/ WriteFails(t)
        BY <1>2, <2>0, <3>1, <3>3, WritersWrite DEF DiskInvariant
      <3>4. CASE Rename(t) \/ RenameFails(t)
        BY <1>2, <2>0, <3>1, <3>4, WritersRename DEF DiskInvariant
      <3>5. CASE \/ Call(t) \/ LoadMemory(t) \/ LoadDisk(t) \/ Keep(t) \/ Enter(t)
                 \/ Fetched(t) \/ FetchFails(t) \/ StoreMemory(t) \/ CreateFails(t)
        BY <1>2, <2>0, <3>1, <3>5, WritersStay DEF DiskInvariant
      <3> QED BY <2>2, <3>2, <3>3, <3>4, <3>5 DEF Step
    <2>3. ASSUME NEW p \in Processes, Crash(p) PROVE DiskInvariant'
      <3>1. /\ UNCHANGED <<content, path, tmp>>
            /\ \A q \in Processes : /\ fd'[q] = IF q = p THEN {} ELSE fd[q]
                                    /\ flight'[q] = IF q = p THEN {} ELSE flight[q]
                                    /\ memory'[q] = IF q = p THEN {} ELSE memory[q]
            /\ \A t \in Goroutines : pc'[t] = IF ProcessOf[t] = p THEN "idle" ELSE pc[t]
        BY <1>2, <2>3 DEF Crash, CallInvariant, TypeOK
      <3>2. ASSUME NEW q \in Processes, fd'[q] # {}
            PROVE  \E u \in flight'[q] : pc'[u] = "write"
        <4>1. q # p /\ fd[q] # {}
          BY <3>1, <3>2
        <4>2. PICK u \in flight[q] : pc[u] = "write"
          BY <2>0, <4>1 DEF WritersOK
        <4>3. u \in Goroutines /\ ProcessOf[u] = q
          BY <1>2, <4>2 DEF CallInvariant, TypeOK, FlightOK
        <4> QED BY <3>1, <4>1, <4>2, <4>3
      <3>3. \A t \in Goroutines : /\ ProcessOf[t] \in Processes
                                  /\ pc'[t] # "idle" => pc'[t] = pc[t] /\ ProcessOf[t] # p
        BY <3>1, CacheAssumption
      <3>4. WritersOK' /\ EntryFileIsWhole' /\ FileExists'
        BY <2>0, <3>1, <3>2, <3>3 DEF WritersOK, EntryFileIsWhole, FileExists
      <3> QED BY <3>4 DEF DiskInvariant
    <2> QED BY <1>2, <2>1, <2>2, <2>3 DEF Next
  <1> QED BY <1>1, <1>2

\* What a lookup is served from (Cache.load) is whole, whatever process wrote it,
\* was interrupted, or crashed, as long as each writes a temporary file of its own;
\* and a refresh is served with what the source says now.
THEOREM EntriesSafety ==
    ASSUME PidsDiffer
    PROVE  Spec => []EntriesAreSound
  <1>1. Spec => [](CacheIInv /\ DiskInvariant)
    <2>1. Init => CacheIInv /\ DiskInvariant
      BY CacheIInvInductive, DiskInvariantInductive
    <2>2. CacheIInv /\ DiskInvariant /\ [Next]_vars => CacheIInv' /\ DiskInvariant'
      BY CacheIInvInductive, DiskInvariantInductive DEF CacheIInv
    <2> QED BY <2>1, <2>2, PTL DEF Spec
  <1>2. CacheIInv /\ DiskInvariant => EntriesAreSound
    BY DEF CacheIInv, DiskInvariant, EntriesAreSound
  <1> QED BY <1>1, <1>2, PTL

\* Requests are not repeated: whatever the other calls and processes do, a call
\* that asks the source has seen that its memory holds nothing it could return,
\* or that the file its memory was filled from holds nothing any more.
THEOREM RequestsAreNotRepeated ==
    ASSUME PidsDiffer
    PROVE  Spec => NoRedundantFetch
  <1> DEFINE Redundant(t) == /\ pc[t] # "fetch" /\ pc'[t] = "fetch"
                             /\ ~ Refreshing(ProcessOf[t])
             Justified(t) == \/ \A e \in memory[ProcessOf[t]] : ~Valid(e)
                             \/ /\ pc[t] = "reread"
                                /\ \E i \in path : \E e \in content[i] : ~Valid(e)
  <1>1. ASSUME CallInvariant, DiskInvariant, [Next]_vars, NEW t \in Goroutines, Redundant(t)
        PROVE  Justified(t)
    <2>1. CASE \E a \in SUBSET Entries, u \in Goroutines :
                  pc[u] \in Looking \cup Leading /\ Deliver(u, a)
      BY <1>1, <2>1, DeliverEffect
    <2>2. CASE \E u \in Goroutines : \E place :
                  place # "fetch" /\ pc' = [pc EXCEPT ![u] = place]
      BY <1>1, <2>2 DEF CallInvariant, TypeOK
    <2>3. CASE UNCHANGED pc
      BY <1>1, <2>3
    <2>4. ASSUME NEW u \in Goroutines, Goto(u, "fetch")
          PROVE  u = t
      BY <1>1, <2>4 DEF Goto, CallInvariant, TypeOK
    <2>5. ASSUME NEW u \in Goroutines, LoadMemory(u) PROVE Justified(t)
      <3> DEFINE held == {e \in memory[ProcessOf[u]] : Valid(e)}
      <3>1. pc[u] \in {"load", "reload"} => held \in SUBSET Entries /\ pc[u] \in Looking \cup Leading
        BY <1>1, CacheAssumption DEF CallInvariant, TypeOK, Looking, Leading
      <3>2. CASE held # {}
        BY <2>1, <2>5, <3>1, <3>2 DEF LoadMemory
      <3>3. CASE held = {} /\ ~ Goto(u, "fetch")
        BY <2>2, <2>5, <3>3 DEF LoadMemory, Goto, AfterMiss
      <3>4. CASE held = {} /\ Goto(u, "fetch")
        BY <2>4, <3>4
      <3> QED BY <3>2, <3>3, <3>4
    <2>6. ASSUME NEW u \in Goroutines, LoadDisk(u) PROVE Justified(t)
      <3> DEFINE found == {e \in UNION {content[i] : i \in path} : Valid(e)}
      <3>1. CASE found # {}
        <4>1. \E place : place # "fetch" /\ pc' = [pc EXCEPT ![u] = place]
          BY <1>1, <2>6, <3>1 DEF LoadDisk, CallInvariant, TypeOK
        <4> QED BY <2>2, <4>1
      <3>2. CASE found = {} /\ pc[u] = "read"
        BY <2>2, <2>6, <3>2 DEF LoadDisk, Goto, AfterMiss
      <3>3. CASE found = {} /\ pc[u] = "reread"
        <4>1. u = t
          BY <2>4, <2>6, <3>3 DEF LoadDisk, AfterMiss
        <4>2. CASE memory[ProcessOf[t]] # {}
          <5>1. PICK i \in path : content[i] # {}
            BY <1>1, <3>3, <4>1, <4>2 DEF DiskInvariant, FileExists, EntryFileIsWhole
          <5> QED BY <3>3, <4>1, <5>1
        <4> QED BY <4>2
      <3> QED BY <2>6, <3>1, <3>2, <3>3 DEF LoadDisk
    <2>7. ASSUME NEW u \in Goroutines, Enter(u) PROVE Justified(t)
      <3>1. CASE Goto(u, "fetch") /\ Refreshing(ProcessOf[u])
        BY <1>1, <2>4, <3>1
      <3>2. CASE Goto(u, "wait") \/ Goto(u, "reload")
        BY <2>2, <3>2 DEF Goto
      <3> QED BY <2>7, <3>1, <3>2 DEF Enter
    <2>8. ASSUME NEW u \in Goroutines, Call(u) \/ Fetched(u) \/ Create(u) \/ Write(u)
          PROVE  Justified(t)
      BY <2>2, <2>8 DEF Call, Fetched, Create, Write, Goto
    <2>9. ASSUME NEW u \in Goroutines, Keep(u) \/ CreateFails(u) \/ WriteFails(u) \/ Rename(u) \/ RenameFails(u)
          PROVE  Justified(t)
      <3>1. Deliver(u, draft[u]) /\ pc[u] \in {"keep", "rekeep", "create", "write", "rename"}
        BY <2>9 DEF Keep, CreateFails, WriteFails, Rename, RenameFails, GiveUpDisk
      <3>2. pc[u] \in Looking \cup Leading /\ draft[u] \in SUBSET Entries
        BY <1>1, <3>1 DEF Looking, Leading, CallInvariant, TypeOK
      <3> QED BY <2>1, <3>1, <3>2
    <2>10. ASSUME NEW u \in Goroutines, FetchFails(u) PROVE Justified(t)
      <3>1. Deliver(u, {}) /\ pc[u] \in Leading /\ {} \in SUBSET Entries
        BY <2>10 DEF FetchFails, Leading
      <3> QED BY <2>1, <3>1
    <2>11. ASSUME NEW u \in Goroutines, StoreMemory(u) PROVE Justified(t)
      <3>1. /\ pc[u] = "store"
            /\ Deliver(u, Stamped(u)) \/ pc' = [pc EXCEPT ![u] = "create"]
        BY <2>11 DEF StoreMemory, Stamped
      <3>2. pc[u] \in Leading
        BY <3>1 DEF Leading
      <3>3. Stamped(u) \in SUBSET Entries
        BY <1>1, <3>1, Stamping
      <3> QED BY <2>1, <2>2, <3>1, <3>2, <3>3
    <2>12. ASSUME NEW p \in Processes, Crash(p) PROVE Justified(t)
      BY <1>1, <2>12 DEF Crash
    <2>13. CASE Tick \/ UNCHANGED vars
      BY <2>3, <2>13 DEF Tick, calls, vars
    <2> QED BY <1>1, <2>5, <2>6, <2>7, <2>8, <2>9, <2>10, <2>11, <2>12, <2>13 DEF Next, Step
  <1>2. Spec => [](CallInvariant /\ DiskInvariant)
    <2>1. Init => CallInvariant /\ DiskInvariant
      BY InitInvariant, DiskInvariantInductive
    <2>2. CallInvariant /\ DiskInvariant /\ [Next]_vars => CallInvariant' /\ DiskInvariant'
      BY NextInvariant, DiskInvariantInductive
    <2> QED BY <2>1, <2>2, PTL DEF Spec
  <1>3. CallInvariant /\ DiskInvariant /\ [Next]_vars =>
           [\A t \in Goroutines :
              (pc[t] # "fetch" /\ pc'[t] = "fetch" /\ ~ Refreshing(ProcessOf[t])) =>
                  \/ \A e \in memory[ProcessOf[t]] : ~Valid(e)
                  \/ pc[t] = "reread" /\ \E i \in path : \E e \in content[i] : ~Valid(e)]_vars
    BY <1>1
  <1> QED BY <1>2, <1>3, PTL DEF Spec, NoRedundantFetch

-----------------------------------------------------------------------------
(* Finite sets with a strict order.                                        *)

\* A finite set that is not empty has an element that none is above.
LEMMA TopExists ==
    ASSUME NEW C, IsFiniteSet(C), C # {}, NEW R,
           \A v \in C : <<v, v>> \notin R,
           \A u, v, w \in C : <<u, v>> \in R /\ <<v, w>> \in R => <<u, w>> \in R
    PROVE  \E v \in C : \A w \in C : <<w, v>> \notin R
  <1> DEFINE Up(v) == {w \in C : <<w, v>> \in R}
             F == {Up(v) : v \in C}
  <1>1. F \subseteq FiniteSubsetsOf(C) /\ F # {}
    <2>1. \A v \in C : Up(v) \in SUBSET C
      OBVIOUS
    <2>2. \A v \in C : IsFiniteSet(Up(v))
      BY <2>1, FS_Subset
    <2>3. ASSUME NEW U \in F PROVE U \in FiniteSubsetsOf(C)
      <3>1. PICK v \in C : U = Up(v)
        OBVIOUS
      <3> HIDE DEF Up
      <3> QED BY <2>1, <2>2, <3>1 DEF FiniteSubsetsOf
    <2>4. PICK v : v \in C
      OBVIOUS
    <2>5. Up(v) \in F
      BY <2>4
    <2> HIDE DEF F
    <2> QED BY <2>3, <2>5
  <1>2. PICK U \in F : \A V \in F : <<V, U>> \notin StrictSubsetOrdering(C)
    <2> HIDE DEF F
    <2> QED BY <1>1, FS_StrictSubsetOrderingWellFounded, WFMin
  <1>3. PICK v \in C : U = Up(v)
    BY <1>2
  <1>4. ASSUME NEW w \in C, <<w, v>> \in R
        PROVE  FALSE
    <2>1. w \in Up(v) /\ w \notin Up(w) /\ Up(w) \subseteq Up(v)
      BY <1>4
    <2>2. <<Up(w), Up(v)>> \in StrictSubsetOrdering(C)
      BY <2>1 DEF StrictSubsetOrdering
    <2> QED BY <1>2, <1>3, <2>2
  <1> QED BY <1>4

\* A strict order of all elements of a finite set lists them.
LEMMA ListExists ==
    ASSUME NEW C, IsFiniteSet(C), NEW R,
           \A v \in C : <<v, v>> \notin R,
           \A u, v, w \in C : <<u, v>> \in R /\ <<v, w>> \in R => <<u, w>> \in R,
           \A u, v \in C : u # v => <<u, v>> \in R \/ <<v, u>> \in R
    PROVE  \E q \in [1 .. Cardinality(C) -> C] :
               \A i, j \in 1 .. Cardinality(C) : i < j => <<q[i], q[j]>> \in R
  <1> DEFINE n == Cardinality(C)
             Below(v) == {w \in C : <<w, v>> \in R}
             rank == [v \in C |-> Cardinality(Below(v)) + 1]
  <1>1. n \in Nat /\ IsFiniteSet(1 .. n) /\ Cardinality(1 .. n) = n
    BY FS_CardinalityType, FS_Interval
  <1>2. \A v \in C : IsFiniteSet(Below(v)) /\ Below(v) \subseteq C /\ v \notin Below(v)
    BY FS_Subset
  <1>3. ASSUME NEW v \in C PROVE rank[v] \in 1 .. n
    <2>1. Below(v) \in SUBSET C /\ Below(v) # C /\ IsFiniteSet(Below(v))
      BY <1>2
    <2>2. rank[v] = Cardinality(Below(v)) + 1
      OBVIOUS
    <2> HIDE DEF Below, rank
    <2>3. Cardinality(Below(v)) \in Nat /\ Cardinality(Below(v)) <= n /\ Cardinality(Below(v)) # n
      BY <2>1, FS_Subset, FS_CardinalityType
    <2> QED BY <1>1, <2>2, <2>3
  <1>4. ASSUME NEW u \in C, NEW v \in C, <<u, v>> \in R
        PROVE  rank[u] < rank[v]
    <2>1. Below(u) \in SUBSET Below(v) /\ Below(u) # Below(v)
      <3>1. Below(u) \subseteq Below(v) /\ u \in Below(v) /\ u \notin Below(u)
        BY <1>4
      <3> HIDE DEF Below
      <3> QED BY <3>1
    <2>2. rank[u] = Cardinality(Below(u)) + 1 /\ rank[v] = Cardinality(Below(v)) + 1
      OBVIOUS
    <2>3. IsFiniteSet(Below(u)) /\ IsFiniteSet(Below(v))
      BY <1>2
    <2> HIDE DEF Below, rank
    <2>4. /\ Cardinality(Below(u)) \in Nat /\ Cardinality(Below(v)) \in Nat
          /\ Cardinality(Below(u)) <= Cardinality(Below(v))
          /\ Cardinality(Below(u)) # Cardinality(Below(v))
      BY <2>1, <2>3, FS_Subset, FS_CardinalityType
    <2> QED BY <2>2, <2>4
  <1>5. rank \in [C -> 1 .. n]
    BY <1>3
  <1> HIDE DEF rank, Below
  <1>6. ASSUME NEW u \in C, NEW v \in C, u # v
        PROVE  rank[u] # rank[v]
    <2>1. rank[u] < rank[v] \/ rank[v] < rank[u]
      BY <1>4, <1>6
    <2>2. rank[u] \in Int /\ rank[v] \in Int
      BY <1>1, <1>3
    <2> QED BY <2>1, <2>2
  <1>7. rank \in Injection(C, 1 .. n)
    BY <1>5, <1>6 DEF Injection, IsInjective
  <1>8. rank \in Surjection(C, 1 .. n)
    BY <1>1, <1>7, FS_Injection
  <1>9. \A i \in 1 .. n : \E v \in C : rank[v] = i
    BY <1>8 DEF Surjection
  <1> DEFINE q == [i \in 1 .. n |-> CHOOSE v \in C : rank[v] = i]
  <1>10. \A i \in 1 .. n : q[i] \in C /\ rank[q[i]] = i
    BY <1>9
  <1>11. ASSUME NEW i \in 1 .. n, NEW j \in 1 .. n, i < j
         PROVE  <<q[i], q[j]>> \in R
    <2>1. q[i] \in C /\ q[j] \in C /\ rank[q[i]] = i /\ rank[q[j]] = j
      BY <1>10
    <2> HIDE DEF q
    <2>2. q[i] # q[j] /\ ~ rank[q[j]] < rank[q[i]]
      BY <1>11, <2>1
    <2> QED BY <1>4, <2>1, <2>2
  <1>12. q \in [1 .. n -> C]
    BY <1>10
  <1> QED BY <1>11, <1>12
-----------------------------------------------------------------------------
(* VersionSource: what a fetch has returned so far.                        *)

\* What the pages up to p return.
UpTo(p) == Versions(Kept({i \in DOMAIN listing.entries : Paged => i <= p * githubPageSize}))

\* A page with a draft is the last one that is not empty.
DraftsEndTheListing ==
    \A l \in Listings : l.kind = "releases" =>
        \A i \in DOMAIN l.entries : l.entries[i].draft =>
            \A n \in 1 .. maxGitHubPages :
                ((n - 1) * githubPageSize < i /\ i <= n * githubPageSize)
                    => Len(l.entries) <= n * githubPageSize

FetchInvariant ==
    /\ FetchTypeOK
    /\ fetch \in {"request", "backoff"} =>
          /\ attempt < maxRetries
          /\ source = IF Paged THEN UpTo(page - 1) ELSE {}
    /\ FetchIsComplete

LEMMA FetchStarts == FetchInit => FetchInvariant
  BY SourceAssumption DEF FetchInit, FetchInvariant, FetchTypeOK, FetchIsComplete

\* The pages before a page and the page itself.
LEMMA PageIsNext ==
    ASSUME listing \in Listings, Paged, NEW p \in 1 .. maxGitHubPages
    PROVE  UpTo(p - 1) \cup Versions(Kept(Page(p))) = UpTo(p)
  <1>1. ASSUME NEW i \in DOMAIN listing.entries
        PROVE  i <= p * githubPageSize <=>
                   (i <= (p - 1) * githubPageSize
                    \/ ((p - 1) * githubPageSize < i /\ i <= p * githubPageSize))
    <2>1. i \in Nat /\ githubPageSize \in Nat /\ p \in Nat
      BY SourceAssumption
    <2>2. (p - 1) * githubPageSize \in Int /\ p * githubPageSize \in Int
      BY <2>1
    <2>3. (p - 1) * githubPageSize = p * githubPageSize - githubPageSize
      BY <2>1
    <2> QED BY <2>1, <2>2, <2>3
  <1>2. {i \in DOMAIN listing.entries : Paged => i <= p * githubPageSize}
          = {i \in DOMAIN listing.entries : Paged => i <= (p - 1) * githubPageSize} \cup Page(p)
    BY <1>1 DEF Page
  <1>3. \A A, B : Versions(Kept(A \cup B)) = Versions(Kept(A)) \cup Versions(Kept(B))
    BY DEF Versions, Kept
  <1> QED BY <1>2, <1>3 DEF UpTo

\* A page that is not full has nothing after it.
LEMMA ShortPageIsLast ==
    ASSUME DraftsEndTheListing, listing \in Listings, Paged, NEW p \in 1 .. maxGitHubPages,
           ~ Cardinality(Kept(Page(p))) >= githubPageSize
    PROVE  Len(listing.entries) <= p * githubPageSize
  <1> DEFINE n == Len(listing.entries)
             low == (p - 1) * githubPageSize
  <1>1. /\ n \in Nat /\ DOMAIN listing.entries = 1 .. n
        /\ githubPageSize \in Nat \ {0} /\ maxGitHubPages \in Nat
    BY SourceAssumption
  <1>2. /\ low \in Nat /\ p * githubPageSize = low + githubPageSize
        /\ p * githubPageSize \in Nat
    <2>1. p \in Nat /\ p - 1 \in Nat
      BY <1>1
    <2>2. \A a, b \in Nat : a * b \in Nat
      OBVIOUS
    <2>3. p * githubPageSize = (p - 1) * githubPageSize + githubPageSize
      BY <1>1, <2>1
    <2> QED BY <1>1, <2>1, <2>2, <2>3
  <1> HIDE DEF low
  <1> SUFFICES ASSUME n > p * githubPageSize PROVE FALSE
    BY <1>1, <1>2
  <1>3. Page(p) = (low + 1) .. (low + githubPageSize)
    <2>1. \A i \in Int : (i \in 1 .. n /\ low < i /\ i <= p * githubPageSize)
                            <=> (i >= low + 1 /\ i <= low + githubPageSize)
      BY <1>1, <1>2
    <2>2. Page(p) = {i \in 1 .. n : low < i /\ i <= p * githubPageSize}
      BY <1>1 DEF Page, low
    <2> HIDE DEF n
    <2> QED BY <1>1, <1>2, <2>1, <2>2
  <1>4. Kept(Page(p)) = Page(p)
    <2>1. ASSUME NEW i \in Page(p), listing.kind = "releases"
          PROVE  ~ listing.entries[i].draft
      <3>1. i \in DOMAIN listing.entries /\ (p - 1) * githubPageSize < i
                /\ i <= p * githubPageSize
        BY DEF Page
      <3> QED BY <1>1, <1>2, <2>1, <3>1 DEF DraftsEndTheListing
    <2> QED BY <2>1 DEF Kept
  <1>5. Cardinality((low + 1) .. (low + githubPageSize)) = githubPageSize
    <2>1. low + 1 \in Int /\ low + githubPageSize \in Int
      BY <1>1, <1>2
    <2>2. Cardinality((low + 1) .. (low + githubPageSize))
            = IF low + 1 > low + githubPageSize THEN 0
              ELSE (low + githubPageSize) - (low + 1) + 1
      BY <2>1, FS_Interval
    <2> QED BY <1>1, <1>2, <2>2
  <1> QED BY <1>1, <1>3, <1>4, <1>5

\* With the last page, everything up to the cap has been returned.
LEMMA LastPageIsAll ==
    ASSUME listing \in Listings, Paged, NEW p \in 1 .. maxGitHubPages,
           p = maxGitHubPages \/ Len(listing.entries) <= p * githubPageSize
    PROVE  UpTo(p) = Published
  <1>1. CASE p = maxGitHubPages
    BY <1>1 DEF UpTo, Published
  <1>2. CASE Len(listing.entries) <= p * githubPageSize
    <2>1. /\ Len(listing.entries) \in Nat /\ githubPageSize \in Nat /\ maxGitHubPages \in Nat
          /\ DOMAIN listing.entries = 1 .. Len(listing.entries)
      BY SourceAssumption
    <2>2. p * githubPageSize <= maxGitHubPages * githubPageSize
          /\ p * githubPageSize \in Int /\ maxGitHubPages * githubPageSize \in Int
      <3>1. \A a, b, c \in Nat : a <= b => a * c <= b * c
        OBVIOUS
      <3>2. \A a, b \in Nat : a * b \in Int
        OBVIOUS
      <3> QED BY <2>1, <3>1, <3>2
    <2>3. \A i \in 1 .. Len(listing.entries) :
             i <= p * githubPageSize /\ i <= maxGitHubPages * githubPageSize
      BY <1>2, <2>1, <2>2
    <2>4. {i \in DOMAIN listing.entries : Paged => i <= p * githubPageSize}
            = {i \in DOMAIN listing.entries : Paged => i <= maxGitHubPages * githubPageSize}
      BY <2>1, <2>3
    <2> QED BY <2>4 DEF UpTo, Published
  <1> QED BY <1>1, <1>2

\* A source without pages returns everything at once.
LEMMA UnpagedIsAll ==
    ASSUME ~Paged PROVE Published = Versions(Kept(DOMAIN listing.entries))
                        /\ Page(page) = DOMAIN listing.entries
  BY DEF Published, Page

LEMMA FetchKept ==
    ASSUME UNCHANGED listing
    PROVE  /\ Published' = Published /\ (Paged' <=> Paged)
           /\ \A p : UpTo(p)' = UpTo(p)
  BY DEF Published, Paged, UpTo, Versions, Kept

\* Before the first page nothing has been returned.
LEMMA NothingYet ==
    ASSUME listing \in Listings, Paged PROVE UpTo(0) = {}
  <1>1. \A i \in DOMAIN listing.entries : ~ i <= 0 * githubPageSize
    BY SourceAssumption
  <1> QED BY <1>1 DEF UpTo, Versions, Kept

LEMMA FetchStep ==
    ASSUME DraftsEndTheListing, FetchInvariant, StartFetch \/ FetchNext
    PROVE  FetchInvariant'
  <1> USE SourceAssumption
  <1>0. listing \in Listings /\ page \in 1 .. maxGitHubPages /\ attempt \in 0 .. maxRetries
    BY DEF FetchInvariant, FetchTypeOK
  <1>1. CASE StartFetch
    <2>1. UNCHANGED listing
      BY <1>1 DEF StartFetch
    <2>2. Paged' => UpTo(page - 1)' = {}
      <3>1. UpTo(page - 1)' = UpTo(page' - 1)
        BY <2>1 DEF UpTo, Versions, Kept, Paged
      <3>2. page' - 1 = 0
        BY <1>1 DEF StartFetch
      <3> QED BY <1>0, <2>1, <3>1, <3>2, FetchKept, NothingYet
    <2> QED BY <1>0, <1>1, <2>1, <2>2 DEF StartFetch, FetchInvariant, FetchTypeOK, FetchIsComplete
  <1>2. CASE Answered
    <2> DEFINE got == Kept(Page(page))
    <2>1. /\ fetch = "request" /\ UNCHANGED listing
          /\ source = IF Paged THEN UpTo(page - 1) ELSE {}
          /\ source' = source \cup Versions(got)
          /\ attempt' = 0
      BY <1>2 DEF Answered, FetchInvariant
    <2>2. CASE Paged /\ Cardinality(got) >= githubPageSize /\ page < maxGitHubPages
      <3>1. page' = page + 1 /\ fetch' = "request"
        BY <1>2, <2>1, <2>2 DEF Answered
      <3>2. source' = UpTo(page)
        BY <1>0, <2>1, <2>2, PageIsNext
      <3>3. UpTo(page - 1)' = UpTo(page)
        <4>1. UpTo(page - 1)' = UpTo(page' - 1)
          BY <2>1 DEF UpTo, Versions, Kept, Paged
        <4>2. page' - 1 = page
          BY <1>0, <3>1
        <4> QED BY <4>1, <4>2
      <3>4. page' \in 1 .. maxGitHubPages /\ 0 \in 0 .. maxRetries /\ 0 < maxRetries
        BY <1>0, <2>2, <3>1
      <3> HIDE DEF got
      <3> QED BY <1>0, <2>1, <2>2, <3>1, <3>2, <3>3, <3>4, FetchKept
           DEF FetchInvariant, FetchTypeOK, FetchIsComplete
    <2>3. CASE ~(Paged /\ Cardinality(got) >= githubPageSize /\ page < maxGitHubPages)
      <3>1. fetch' = "fetched" /\ UNCHANGED page
        BY <1>2, <2>1, <2>3 DEF Answered
      <3>2. source' = Published
        <4>1. CASE Paged
          <5>1. source' = UpTo(page)
            BY <1>0, <2>1, <4>1, PageIsNext
          <5>2. page = maxGitHubPages \/ Len(listing.entries) <= page * githubPageSize
            <6>1. CASE page < maxGitHubPages
              BY <1>0, <2>3, <4>1, <6>1, ShortPageIsLast
            <6> QED BY <1>0, <6>1
          <5> QED BY <1>0, <4>1, <5>1, <5>2, LastPageIsAll
        <4>2. CASE ~Paged
          BY <2>1, <4>2, UnpagedIsAll
        <4> QED BY <4>1, <4>2
      <3>3. 0 \in 0 .. maxRetries
        OBVIOUS
      <3> HIDE DEF got
      <3> QED BY <1>0, <2>1, <3>1, <3>2, <3>3, FetchKept
           DEF FetchInvariant, FetchTypeOK, FetchIsComplete
    <2> QED BY <2>2, <2>3
  <1>3. CASE RegistryListed
    <2>1. UNCHANGED listing /\ ~Paged
      BY <1>3 DEF RegistryListed, Paged
    <2>2. source' = Published
      <3>1. Kept(DOMAIN listing.entries) = DOMAIN listing.entries
        BY <1>3 DEF Kept, RegistryListed
      <3> QED BY <1>3, <2>1, <3>1, UnpagedIsAll DEF RegistryListed
    <2> QED BY <1>0, <1>3, <2>1, <2>2, FetchKept
         DEF RegistryListed, FetchInvariant, FetchTypeOK, FetchIsComplete
  <1>4. CASE RequestFails \/ RequestRejected \/ Backoff
    <2>1. UNCHANGED <<listing, page, source>> /\ fetch' # "fetched"
      BY <1>4 DEF RequestFails, RequestRejected, Backoff
    <2>2. fetch \in {"request", "backoff"}
      BY <1>4 DEF RequestFails, RequestRejected, Backoff
    <2>3. attempt < maxRetries /\ source = IF Paged THEN UpTo(page - 1) ELSE {}
      BY <2>2 DEF FetchInvariant
    <2>4. attempt' \in 0 .. maxRetries /\ (fetch' \in {"request", "backoff"} => attempt' < maxRetries)
      BY <1>0, <1>4, <2>3 DEF RequestFails, RequestRejected, Backoff
    <2>5. fetch' \in {"request", "backoff", "failed"}
      BY <1>4 DEF RequestFails, RequestRejected, Backoff
    <2>6. UpTo(page - 1)' = UpTo(page - 1)
      BY <2>1 DEF UpTo, Versions, Kept, Paged
    <2> QED BY <1>0, <2>1, <2>3, <2>4, <2>5, <2>6, FetchKept
         DEF FetchInvariant, FetchTypeOK, FetchIsComplete
  <1> QED BY <1>1, <1>2, <1>3, <1>4 DEF FetchNext
-----------------------------------------------------------------------------
(* TagRanges: the order of versions and the names of tags.                 *)

Numbered(v) == v.major \in Nat /\ v.minor \in Nat /\ v.patch \in Nat /\ v.raw \in Nat

\* A set of versions that is listed: finite, with a total order.
Listed(S) ==
    /\ IsFiniteSet(S)
    /\ \A v \in S : Numbered(v)
    /\ \A v, w \in S : Key(v) = Key(w) => v = w

\* The order, level by level.
HigherByLevel(v, w) ==
    \/ v.major > w.major
    \/ v.major = w.major /\ v.minor > w.minor
    \/ v.major = w.major /\ v.minor = w.minor /\ v.patch > w.patch
    \/ /\ v.major = w.major /\ v.minor = w.minor /\ v.patch = w.patch
       /\ \/ Release(v) > Release(w)
          \/ Release(v) = Release(w) /\ v.raw > w.raw

LEMMA HigherIsByLevel ==
    ASSUME NEW v, NEW w PROVE Higher(v, w) <=> HigherByLevel(v, w)
  <1> DEFINE Tops(i) == Key(v)[i] > Key(w)[i] /\ \A j \in 1 .. (i - 1) : Key(v)[j] = Key(w)[j]
  <1>1. Higher(v, w) <=> Tops(1) \/ Tops(2) \/ Tops(3) \/ Tops(4) \/ Tops(5)
    <2>1. 1 .. 5 = {1, 2, 3, 4, 5}
      OBVIOUS
    <2>2. Higher(v, w) <=> \E i \in 1 .. 5 : Tops(i)
      BY DEF Higher, Exceeds
    <2> HIDE DEF Tops
    <2> QED BY <2>1, <2>2
  <1>2. /\ 1 .. (1 - 1) = {} /\ 1 .. (2 - 1) = {1} /\ 1 .. (3 - 1) = {1, 2}
        /\ 1 .. (4 - 1) = {1, 2, 3} /\ 1 .. (5 - 1) = {1, 2, 3, 4}
    OBVIOUS
  <1>3. /\ Key(v)[1] = v.major /\ Key(v)[2] = v.minor /\ Key(v)[3] = v.patch
        /\ Key(v)[4] = Release(v) /\ Key(v)[5] = v.raw
        /\ Key(w)[1] = w.major /\ Key(w)[2] = w.minor /\ Key(w)[3] = w.patch
        /\ Key(w)[4] = Release(w) /\ Key(w)[5] = w.raw
    BY DEF Key
  <1>4. Tops(1) <=> v.major > w.major
    BY <1>2, <1>3
  <1>5. Tops(2) <=> v.major = w.major /\ v.minor > w.minor
    BY <1>2, <1>3
  <1>6. Tops(3) <=> v.major = w.major /\ v.minor = w.minor /\ v.patch > w.patch
    BY <1>2, <1>3
  <1>7. Tops(4) <=> /\ v.major = w.major /\ v.minor = w.minor /\ v.patch = w.patch
                    /\ Release(v) > Release(w)
    BY <1>2, <1>3
  <1>8. Tops(5) <=> /\ v.major = w.major /\ v.minor = w.minor /\ v.patch = w.patch
                    /\ Release(v) = Release(w) /\ v.raw > w.raw
    BY <1>2, <1>3
  <1> HIDE DEF Tops
  <1> QED BY <1>1, <1>4, <1>5, <1>6, <1>7, <1>8 DEF HigherByLevel

LEMMA HigherIsStrict ==
    ASSUME NEW u, NEW v, NEW w, Numbered(u), Numbered(v), Numbered(w)
    PROVE  /\ ~Higher(v, v)
           /\ Higher(u, v) /\ Higher(v, w) => Higher(u, w)
           /\ Higher(u, v) => u.major >= v.major /\ (u.major = v.major => u.minor >= v.minor)
  <1>1. Release(u) \in Nat /\ Release(v) \in Nat /\ Release(w) \in Nat
    BY DEF Release
  <1> QED BY <1>1, HigherIsByLevel DEF HigherByLevel, Numbered

LEMMA HigherIsTotal ==
    ASSUME NEW S, Listed(S), NEW v \in S, NEW w \in S, v # w
    PROVE  Higher(v, w) \/ Higher(w, v)
  <1>1. Release(v) \in Nat /\ Release(w) \in Nat /\ Numbered(v) /\ Numbered(w)
    BY DEF Release, Listed
  <1>2. ~(/\ v.major = w.major /\ v.minor = w.minor /\ v.patch = w.patch
          /\ Release(v) = Release(w) /\ v.raw = w.raw)
    BY DEF Listed, Key
  <1> QED BY <1>1, <1>2, HigherIsByLevel DEF HigherByLevel, Numbered

LEMMA ListedSubset ==
    ASSUME NEW S, Listed(S), NEW T \in SUBSET S PROVE Listed(T)
  BY FS_Subset DEF Listed

\* The highest of a set of versions.
LEMMA HighestExists ==
    ASSUME NEW S, Listed(S), S # {}
    PROVE  \E v \in S : \A w \in S : ~Higher(w, v)
  <1> DEFINE R == {e \in S \X S : Higher(e[1], e[2])}
  <1>1. \A u, v \in S : <<u, v>> \in R <=> Higher(u, v)
    OBVIOUS
  <1>2. \A v \in S : Numbered(v)
    BY DEF Listed
  <1> HIDE DEF R
  <1>3. \A v \in S : <<v, v>> \notin R
    BY <1>1, <1>2, HigherIsStrict
  <1>4. \A u, v, w \in S : <<u, v>> \in R /\ <<v, w>> \in R => <<u, w>> \in R
    BY <1>1, <1>2, HigherIsStrict
  <1>5. IsFiniteSet(S)
    BY DEF Listed
  <1>6. \E v \in S : \A w \in S : <<w, v>> \notin R
    BY <1>3, <1>4, <1>5, TopExists
  <1> QED BY <1>1, <1>6

\* Versions have the same tag name if they agree on the levels of the template.
Agree(v, w, d) ==
    /\ d >= 1 => v.major = w.major
    /\ d >= 2 => v.minor = w.minor
    /\ d >= 3 => v.patch = w.patch

LEMMA NamesAgree ==
    ASSUME NEW t, t.depth \in 0 .. 3, IsSequence(t.suffix), NEW v, NEW w
    PROVE  TagName(t, v) = TagName(t, w) <=> Agree(v, w, t.depth)
  <1> DEFINE First(x) == SubSeq(<<x.major, x.minor, x.patch>>, 1, t.depth)
  <1>1. t.suffix \in Seq({t.suffix[i] : i \in DOMAIN t.suffix})
    BY DEF IsSequence
  <1>2. Agree(v, w, t.depth) => TagName(t, v) = TagName(t, w)
    <2>1. CASE t.depth = 0
      BY <2>1 DEF TagName
    <2>2. CASE t.depth = 1
      BY <2>2 DEF TagName, Agree
    <2>3. CASE t.depth = 2
      BY <2>3 DEF TagName, Agree
    <2>4. CASE t.depth = 3
      BY <2>4 DEF TagName, Agree
    <2> QED BY <2>1, <2>2, <2>3, <2>4
  <1>3. ASSUME NEW x
        PROVE  /\ t.depth >= 1 => TagName(t, x)[1] = x.major
               /\ t.depth >= 2 => TagName(t, x)[2] = x.minor
               /\ t.depth >= 3 => TagName(t, x)[3] = x.patch
    <2>1. <<x.major, x.minor, x.patch>> \in Seq({x.major, x.minor, x.patch})
          /\ Len(<<x.major, x.minor, x.patch>>) = 3
      OBVIOUS
    <2>2. /\ First(x) \in Seq({x.major, x.minor, x.patch})
          /\ Len(First(x)) = t.depth
          /\ \A i \in 1 .. t.depth : First(x)[i] = <<x.major, x.minor, x.patch>>[i]
      <3>1. CASE t.depth = 0
        BY <2>1, <3>1
      <3>2. CASE t.depth # 0
        BY <2>1, <3>2
      <3> QED BY <3>1, <3>2
    <2> HIDE DEF First
    <2>3. \A i \in 1 .. t.depth : (First(x) \o t.suffix)[i] = First(x)[i]
      BY <1>1, <2>2
    <2>4. TagName(t, x) = First(x) \o t.suffix
      BY DEF TagName, First
    <2>5. \A i \in 1 .. t.depth : TagName(t, x)[i] = <<x.major, x.minor, x.patch>>[i]
      BY <2>2, <2>3, <2>4
    <2> QED BY <2>5
  <1> QED BY <1>2, <1>3 DEF Agree
-----------------------------------------------------------------------------
(* TagRanges: filter, select, render.                                      *)

\* A finite set has finitely many images.
LEMMA ImageIsFinite ==
    ASSUME NEW S, IsFiniteSet(S), NEW f PROVE IsFiniteSet({f[x] : x \in S})
  <1> DEFINE T == {f[x] : x \in S}
             g == [x \in S |-> f[x]]
  <1>1. g \in Surjection(S, T)
    BY DEF Surjection
  <1> HIDE DEF T, g
  <1>2. IsFiniteSet(T)
    BY <1>1, FS_Surjection
  <1> QED BY <1>2 DEF T

LEMMA FiltersDrop ==
    ASSUME NEW S, NEW f PROVE ApplyFilters(S, f) \subseteq S
  BY DEF ApplyFilters, MaxMajorIncrement

\* The guard drops what no chain of small steps reaches from the lowest major.
LEMMA GuardByChains ==
    ASSUME NEW S, Listed(S), NEW max \in Int, max > 0
    PROVE  LET majors == {v.major : v \in S}
               Connected(m) == \A n \in majors :
                   (n < m /\ \A k \in majors : k <= n \/ k >= m) => m - n <= max
           IN  MaxMajorIncrement(S, max)
                 = {v \in S : \A m \in majors : m <= v.major => Connected(m)}
  <1> DEFINE majors == {v.major : v \in S}
             Connected(m) == \A n \in majors :
                 (n < m /\ \A k \in majors : k <= n \/ k >= m) => m - n <= max
             beyond == {m \in majors : /\ \E n \in majors : n < m
                                       /\ \A n \in majors : n < m => m - n > max}
  <1>1. majors \subseteq Nat /\ IsFiniteSet(majors)
    <2> DEFINE h == [x \in S |-> x.major]
    <2>1. {h[v] : v \in S} = majors
      OBVIOUS
    <2> HIDE DEF h
    <2>2. IsFiniteSet({h[v] : v \in S})
      BY ImageIsFinite DEF Listed
    <2>3. IsFiniteSet(majors)
      BY <2>1, <2>2
    <2> QED BY <2>3 DEF Listed, Numbered
  <1>2. MaxMajorIncrement(S, max) = {v \in S : \A m \in beyond : v.major < m}
    BY DEF MaxMajorIncrement
  <1>3. ASSUME NEW m \in majors, \E n \in majors : n < m
        PROVE  \E n \in majors : n < m /\ \A k \in majors : k <= n \/ k >= m
    <2> DEFINE L == {n \in majors : n < m}
               R == {e \in L \X L : e[1] > e[2]}
    <2> HIDE DEF majors
    <2>1. IsFiniteSet(L) /\ L # {} /\ L \subseteq Nat
      BY <1>1, <1>3, FS_Subset
    <2>2. \A a, b \in L : <<a, b>> \in R <=> a > b
      OBVIOUS
    <2>3. \A a, b, c \in L : <<a, b>> \in R /\ <<b, c>> \in R => <<a, c>> \in R
      <3> HIDE DEF L, R
      <3> QED BY <2>1, <2>2
    <2>4. \A a \in L : <<a, a>> \notin R
      <3> HIDE DEF L, R
      <3> QED BY <2>1, <2>2
    <2>5. PICK n \in L : \A k \in L : <<k, n>> \notin R
      <3> HIDE DEF L, R
      <3> QED BY <2>1, <2>3, <2>4, TopExists
    <2>6. \A k \in majors : k < m => k <= n
      <3>1. ASSUME NEW k \in majors, k < m PROVE ~ k > n
        BY <2>2, <2>5, <3>1
      <3> QED BY <1>1, <2>1, <3>1
    <2> QED BY <1>1, <2>6
  <1>4. ASSUME NEW m \in majors PROVE m \notin beyond <=> Connected(m)
    <2>1. CASE ~ \E n \in majors : n < m
      BY <2>1
    <2>2. CASE \E n \in majors : n < m
      <3>1. PICK n \in majors : n < m /\ \A k \in majors : k <= n \/ k >= m
        BY <1>3, <2>2
      <3>2. Connected(m) => m \notin beyond
        <4>1. Connected(m) => m - n <= max
          BY <3>1
        <4>2. m \in beyond => m - n > max
          BY <3>1
        <4> HIDE DEF majors, beyond, Connected
        <4> QED BY <1>1, <4>1, <4>2
      <3>3. ASSUME m \notin beyond PROVE Connected(m)
        <4>1. PICK k \in majors : k < m /\ ~ m - k > max
          BY <2>2, <3>3
        <4>2. ASSUME NEW l \in majors, l < m, \A j \in majors : j <= l \/ j >= m
              PROVE  m - l <= max
          <5>1. k <= l
            <6> HIDE DEF majors
            <6> QED BY <1>1, <4>1, <4>2
          <5> HIDE DEF majors
          <5> QED BY <1>1, <4>1, <4>2, <5>1
        <4> QED BY <4>2
      <3> QED BY <3>2, <3>3
    <2> QED BY <2>1, <2>2
  <1>5. ASSUME NEW v \in S
        PROVE  (\A m \in beyond : v.major < m) <=> (\A m \in majors : m <= v.major => Connected(m))
    <2>1. v.major \in majors /\ beyond \subseteq majors
      OBVIOUS
    <2> HIDE DEF majors, beyond, Connected
    <2>2. \A m \in majors : v.major < m <=> ~ m <= v.major
      <3>1. \A a, b \in Nat : a < b <=> ~ b <= a
        OBVIOUS
      <3> QED BY <1>1, <2>1, <3>1, Zenon
    <2> QED BY <1>4, <2>1, <2>2
  <1> HIDE DEF Connected, beyond
  <1>6. MaxMajorIncrement(S, max) = {v \in S : \A m \in majors : m <= v.major => Connected(m)}
    BY <1>2, <1>5
  <1> QED BY <1>6 DEF Connected

LEMMA LimitIsPositive ==
    ASSUME NEW level \in Level, level # All
    PROVE  Limit(level) \in Nat /\ Limit(level) >= 1
  BY DEF Limit, Level

\* What is above a value that keepLevel keeps is kept, and so is the top.
LEMMA KeepHighestIsUp ==
    ASSUME NEW V \in SUBSET Nat, IsFiniteSet(V), NEW level \in Level, NEW x \in V
    PROVE  /\ KeepHighest(V, level) \subseteq V
           /\ (\A y \in V : y <= x) => x \in KeepHighest(V, level)
           /\ \A y \in KeepHighest(V, level) : x >= y => x \in KeepHighest(V, level)
  <1> DEFINE Above(y) == {z \in V : z > y}
  <1>1. \A y \in V : IsFiniteSet(Above(y)) /\ Cardinality(Above(y)) \in Nat
    BY FS_Subset, FS_CardinalityType
  <1>2. CASE level = All
    BY <1>2 DEF KeepHighest
  <1>3. CASE level # All
    <2>1. Limit(level) \in Nat /\ Limit(level) >= 1
      BY <1>3, LimitIsPositive
    <2>2. KeepHighest(V, level) = {y \in V : Cardinality(Above(y)) < Limit(level)}
      BY <1>3 DEF KeepHighest
    <2>3. ASSUME \A y \in V : y <= x PROVE Cardinality(Above(x)) = 0
      <3>1. \A y \in V : ~ y > x
        BY <2>3
      <3>2. Above(x) = {}
        BY <3>1
      <3> QED BY <3>2, FS_EmptySet
    <2>4. ASSUME NEW y \in V, x >= y PROVE Cardinality(Above(x)) <= Cardinality(Above(y))
      <3>1. \A z \in V : z > x => z > y
        BY <2>4
      <3>2. Above(x) \in SUBSET Above(y)
        BY <3>1
      <3> HIDE DEF Above
      <3> QED BY <1>1, <3>2, FS_Subset
    <2>5. KeepHighest(V, level) \subseteq V
      BY <2>2
    <2> HIDE DEF Above
    <2>6. (\A y \in V : y <= x) => x \in KeepHighest(V, level)
      <3>1. ASSUME \A y \in V : y <= x PROVE Cardinality(Above(x)) < Limit(level)
        BY <2>1, <2>3, <3>1
      <3> QED BY <2>2, <3>1
    <2>7. ASSUME NEW y \in KeepHighest(V, level), x >= y
          PROVE  x \in KeepHighest(V, level)
      <3>1. y \in V /\ Cardinality(Above(y)) < Limit(level)
        BY <2>2, <2>7
      <3>2. Cardinality(Above(x)) < Limit(level)
        BY <1>1, <2>1, <2>4, <2>7, <3>1
      <3> QED BY <2>2, <3>2
    <2> QED BY <2>5, <2>6, <2>7
  <1> QED BY <1>2, <1>3

LEMMA KeepLevelIsUp ==
    ASSUME NEW S, Listed(S), NEW level \in Level, NEW v \in S
    PROVE  /\ KeepLevel(S, level) \subseteq S
           /\ (\A w \in S : ~Higher(w, v)) => v \in KeepLevel(S, level)
           /\ \A u \in KeepLevel(S, level) : Higher(v, u) => v \in KeepLevel(S, level)
  <1> DEFINE Above(y) == {z \in S : Higher(z, y)}
  <1>1. \A y \in S : IsFiniteSet(Above(y)) /\ Cardinality(Above(y)) \in Nat
    BY FS_Subset, FS_CardinalityType DEF Listed
  <1>2. CASE level = All
    BY <1>2 DEF KeepLevel
  <1>3. CASE level # All
    <2>1. Limit(level) \in Nat /\ Limit(level) >= 1
      BY <1>3, LimitIsPositive
    <2>2. KeepLevel(S, level) = {y \in S : Cardinality(Above(y)) < Limit(level)}
      BY <1>3 DEF KeepLevel
    <2>3. ASSUME \A w \in S : ~Higher(w, v) PROVE Cardinality(Above(v)) = 0
      <3>1. Above(v) = {}
        BY <2>3
      <3> QED BY <3>1, FS_EmptySet
    <2>4. ASSUME NEW u \in S, Higher(v, u) PROVE Cardinality(Above(v)) <= Cardinality(Above(u))
      <3>1. \A z \in S : Higher(z, v) => Higher(z, u)
        BY <2>4, HigherIsStrict DEF Listed
      <3>2. Above(v) \in SUBSET Above(u)
        BY <3>1
      <3> HIDE DEF Above
      <3> QED BY <1>1, <3>2, FS_Subset
    <2> HIDE DEF Above
    <2> QED BY <1>1, <2>1, <2>2, <2>3, <2>4
  <1> QED BY <1>2, <1>3
\* The versions of one major, and of one minor of it.
OfMajor(S, m) == {v \in S : v.major = m}
OfMinor(S, m, n) == {v \in OfMajor(S, m) : v.minor = n}
Majors(S) == {v.major : v \in S}
MinorsOf(S, m) == {v.minor : v \in OfMajor(S, m)}

LEMMA LevelsAreFinite ==
    ASSUME NEW S, Listed(S), NEW m
    PROVE  /\ Majors(S) \subseteq Nat /\ IsFiniteSet(Majors(S))
           /\ MinorsOf(S, m) \subseteq Nat /\ IsFiniteSet(MinorsOf(S, m))
  <1> DEFINE h == [x \in S |-> x.major]
             T == OfMajor(S, m)
             k == [x \in T |-> x.minor]
  <1>1. Listed(T) /\ T \subseteq S
    BY ListedSubset DEF OfMajor
  <1>2. {h[v] : v \in S} = Majors(S) /\ {k[v] : v \in T} = MinorsOf(S, m)
    BY DEF Majors, MinorsOf
  <1>3. Majors(S) \subseteq Nat /\ MinorsOf(S, m) \subseteq Nat
    BY <1>1 DEF Majors, MinorsOf, Listed, Numbered
  <1> HIDE DEF h, k, T
  <1>4. IsFiniteSet({h[v] : v \in S})
    BY ImageIsFinite DEF Listed
  <1>5. IsFiniteSet({k[v] : v \in T})
    BY <1>1, ImageIsFinite DEF Listed
  <1> QED BY <1>2, <1>3, <1>4, <1>5

LEMMA SelectedAre ==
    ASSUME NEW S, NEW sel, NEW v
    PROVE  v \in SelectVersions(S, sel) <=>
              /\ v \in S
              /\ v.major \in KeepHighest(Majors(S), sel.major)
              /\ v.minor \in KeepHighest(MinorsOf(S, v.major), sel.minor)
              /\ v \in KeepLevel(OfMinor(S, v.major, v.minor), sel.patch)
  <1>1. SelectVersions(S, sel)
          = UNION {UNION {KeepLevel(OfMinor(S, m, n), sel.patch) :
                             n \in KeepHighest(MinorsOf(S, m), sel.minor)} :
                      m \in KeepHighest(Majors(S), sel.major)}
    BY DEF SelectVersions, OfMinor, OfMajor, Majors, MinorsOf
  <1>2. \A m, n : KeepLevel(OfMinor(S, m, n), sel.patch) \subseteq {w \in S : w.major = m /\ w.minor = n}
    BY DEF KeepLevel, OfMinor, OfMajor
  <1>3. v \in SelectVersions(S, sel) <=>
           \E m \in KeepHighest(Majors(S), sel.major) :
              \E n \in KeepHighest(MinorsOf(S, m), sel.minor) :
                 v \in KeepLevel(OfMinor(S, m, n), sel.patch)
    BY <1>1
  <1> QED BY <1>2, <1>3

\* If a version is left out and a lower one with the same name is not, then one
\* that is not lower, again with that name, is kept.
LEMMA SelectKeepsHigher ==
    ASSUME NEW S, Listed(S), NEW sel \in SelectLevels, NEW d \in 0 .. 3,
           NEW u \in SelectVersions(S, sel), NEW v \in S, Higher(v, u), Agree(u, v, d)
    PROVE  \E w \in SelectVersions(S, sel) : Agree(u, w, d) /\ ~Higher(v, w)
  <1>1. /\ u \in S
        /\ u.major \in KeepHighest(Majors(S), sel.major)
        /\ u.minor \in KeepHighest(MinorsOf(S, u.major), sel.minor)
        /\ u \in KeepLevel(OfMinor(S, u.major, u.minor), sel.patch)
    BY SelectedAre
  <1>2. sel.major \in Level /\ sel.minor \in Level /\ sel.patch \in Level
    BY DEF SelectLevels
  <1>3. /\ Numbered(u) /\ Numbered(v) /\ ~Higher(v, v)
        /\ v.major >= u.major /\ (v.major = u.major => v.minor >= u.minor)
    BY <1>1, HigherIsStrict DEF Listed
  <1>4. v.major \in KeepHighest(Majors(S), sel.major)
    <2>1. v.major \in Majors(S)
      BY DEF Majors
    <2> QED BY <1>1, <1>2, <1>3, <2>1, LevelsAreFinite, KeepHighestIsUp
  <1>5. CASE v.major = u.major /\ v.minor = u.minor
    <2> DEFINE M == OfMinor(S, u.major, u.minor)
    <2>1. v \in M /\ Listed(M) /\ u \in KeepLevel(M, sel.patch)
      <3>1. M \subseteq S /\ v \in M
        BY <1>5 DEF OfMinor, OfMajor
      <3> QED BY <1>1, <3>1, ListedSubset
    <2> HIDE DEF M
    <2>2. v \in KeepLevel(M, sel.patch)
      BY <1>2, <2>1, KeepLevelIsUp
    <2>3. v \in SelectVersions(S, sel)
      BY <1>1, <1>5, <2>2, SelectedAre DEF M
    <2> QED BY <1>3, <2>3
  <1>6. ASSUME NEW T \in SUBSET S, v \in T, \A x \in T : x.major = v.major,
               \/ T = OfMajor(S, v.major)
               \/ /\ T = OfMinor(S, v.major, v.minor)
                  /\ v.minor \in KeepHighest(MinorsOf(S, v.major), sel.minor)
        PROVE  \E w \in SelectVersions(S, sel) : w \in T /\ ~Higher(v, w)
    <2>1. PICK w \in T : \A x \in T : ~Higher(x, w)
      BY <1>6, ListedSubset, HighestExists
    <2>2. w \in S /\ w.major = v.major /\ ~Higher(v, w)
      BY <1>6, <2>1
    <2> DEFINE M == OfMinor(S, w.major, w.minor)
    <2>3. M \subseteq T /\ w \in M /\ Listed(M)
      <3>1. M \in SUBSET S /\ w \in M
        BY <2>2 DEF OfMinor, OfMajor
      <3>2. M \subseteq T
        BY <1>6, <2>1, <2>2 DEF OfMinor, OfMajor
      <3> QED BY <3>1, <3>2, ListedSubset
    <2>4. w \in KeepLevel(M, sel.patch)
      <3>1. \A x \in M : ~Higher(x, w)
        BY <2>1, <2>3
      <3> HIDE DEF M
      <3> QED BY <1>2, <2>3, <3>1, KeepLevelIsUp
    <2>5. w.minor \in KeepHighest(MinorsOf(S, w.major), sel.minor)
      <3>1. CASE T # OfMajor(S, v.major)
        <4>1. w.minor = v.minor
          BY <1>6, <2>1, <3>1 DEF OfMinor
        <4> QED BY <1>6, <2>2, <3>1, <4>1
      <3>2. CASE T = OfMajor(S, v.major)
        <4>1. w.minor \in MinorsOf(S, w.major)
          BY <2>2 DEF MinorsOf, OfMajor
        <4>2. ASSUME NEW y \in MinorsOf(S, w.major) PROVE y <= w.minor
          <5>1. PICK x \in T : x.minor = y
            BY <2>2, <3>2 DEF MinorsOf
          <5>2. Numbered(x) /\ Numbered(w) /\ x.major = w.major /\ ~Higher(x, w)
            BY <1>6, <2>1, <2>2, <5>1 DEF Listed
          <5> QED BY <5>1, <5>2, HigherIsByLevel DEF HigherByLevel, Numbered
        <4> QED BY <1>2, <4>1, <4>2, LevelsAreFinite, KeepHighestIsUp
      <3> QED BY <1>6, <3>1, <3>2
    <2>6. w \in SelectVersions(S, sel)
      BY <1>4, <2>2, <2>4, <2>5, SelectedAre
    <2> QED BY <2>1, <2>2, <2>6
  <1>7. CASE v.major = u.major /\ v.minor # u.minor
    <2> DEFINE T == OfMinor(S, v.major, v.minor)
    <2>1. v.minor \in KeepHighest(MinorsOf(S, v.major), sel.minor)
      <3>1. v.minor \in MinorsOf(S, v.major) /\ v.minor >= u.minor
        BY <1>3, <1>7 DEF MinorsOf, OfMajor
      <3> QED BY <1>1, <1>2, <1>7, <3>1, LevelsAreFinite, KeepHighestIsUp
    <2>2. T \in SUBSET S /\ v \in T /\ \A x \in T : x.major = v.major /\ x.minor = v.minor
      BY DEF OfMinor, OfMajor
    <2> HIDE DEF T
    <2>3. \E w \in SelectVersions(S, sel) : w \in T /\ ~Higher(v, w)
      BY <1>6, <2>1, <2>2 DEF T
    <2>4. d < 2
      BY <1>7 DEF Agree
    <2>5. \A w \in T : Agree(u, w, d)
      BY <1>7, <2>2, <2>4 DEF Agree
    <2> QED BY <2>3, <2>5
  <1>8. CASE v.major # u.major
    <2> DEFINE T == OfMajor(S, v.major)
    <2>1. T \in SUBSET S /\ v \in T /\ \A x \in T : x.major = v.major
      BY DEF OfMajor
    <2>2. \E w \in SelectVersions(S, sel) : w \in T /\ ~Higher(v, w)
      <3>1. T = OfMajor(S, v.major)
        OBVIOUS
      <3> HIDE DEF T
      <3> QED BY <1>6, <2>1, <3>1
    <2>3. d = 0
      BY <1>8 DEF Agree
    <2> QED BY <2>2, <2>3 DEF Agree
  <1> QED BY <1>5, <1>7, <1>8
-----------------------------------------------------------------------------
(* TagRanges: the resolution of an image.                                  *)

Parsed == {v \in Published : v.parses}

\* The tags that a range may give: no version that its filters let through and
\* that has the same name is newer.
RangeTags ==
    {t \in {[name |-> TagName(ranges[k].template, v), from |-> k, version |-> v] :
               k \in 1 .. Len(ranges), v \in Published} :
        \A u \in ApplyFilters(Parsed, ranges[t.from].filter) :
            TagName(ranges[t.from].template, u) = t.name => ~Higher(u, t.version)}

\* Where the range being resolved is.
PipelineInvariant ==
    /\ ranges \in RangeLists
    /\ r \in 1 .. (Len(ranges) + 1)
    /\ versions \subseteq Published /\ filtered \subseteq Published
    /\ step \in {"resolve", "filter", "select", "render", "done", "error"}
    /\ step \in {"filter", "select", "render"} \/ fetch # "idle" => r <= Len(ranges)
    /\ step = "filter" => versions = Parsed
    /\ step \in {"select", "render"} => filtered = ApplyFilters(Parsed, ranges[r].filter)
    /\ step = "select" => versions = filtered
    /\ step = "render" => versions = SelectVersions(filtered, EffectiveSelect(ranges[r]))

\* What the ranges have generated, and the tags merged so far.
MergeInvariant ==
    /\ generated \in Seq(RangeTags)
    /\ next \in 1 .. (Len(generated) + 1)
    /\ \A t \in tags : t.from = 0 \/ t \in RangeTags
    /\ StaticTagsSurvive
    /\ \A i, j \in 1 .. (next - 1) :
          generated[i].name = generated[j].name /\ generated[i].from # generated[j].from
              => generated[i].name \in static
    /\ step = "done" => next > Len(generated)

RangesInvariant == FetchInvariant /\ PipelineInvariant /\ MergeInvariant

LEMMA RangesKept ==
    ASSUME UNCHANGED <<listing, ranges>>
    PROVE  Published' = Published /\ Parsed' = Parsed /\ RangeTags' = RangeTags
  <1>1. Published' = Published
    BY FetchKept
  <1>2. Parsed' = Parsed
    BY <1>1 DEF Parsed
  <1> QED BY <1>1, <1>2 DEF RangeTags

LEMMA PublishedIsListed ==
    ASSUME listing \in Listings PROVE Listed(Published)
  <1> DEFINE X == Kept({i \in DOMAIN listing.entries :
                           Paged => i <= maxGitHubPages * githubPageSize})
             e == listing.entries
  <1>1. X \in SUBSET DOMAIN e /\ Published = {e[i] : i \in X}
    BY DEF Published, Versions, Kept
  <1>2. IsFiniteSet(DOMAIN e)
    <2>1. Len(e) \in Nat /\ DOMAIN e = 1 .. Len(e)
      BY SourceAssumption
    <2> HIDE DEF e
    <2> QED BY <2>1, FS_Interval
  <1>3. \A i \in DOMAIN e : Numbered(e[i])
    BY RangesAssumption DEF Numbered
  <1>4. \A i, j \in DOMAIN e : Key(e[i]) = Key(e[j]) => e[i] = e[j]
    BY RangesAssumption
  <1> HIDE DEF X, e
  <1>5. IsFiniteSet(Published)
    BY <1>1, <1>2, FS_Subset, ImageIsFinite
  <1> QED BY <1>1, <1>3, <1>4, <1>5 DEF Listed

LEMMA RangeIs ==
    ASSUME ranges \in RangeLists, NEW k \in 1 .. Len(ranges)
    PROVE  /\ Len(ranges) \in Nat
           /\ EffectiveSelect(ranges[k]) \in SelectLevels
           /\ ranges[k].filter.maxMajorIncrement \in Int
           /\ ranges[k].template.depth \in 0 .. 3 /\ IsSequence(ranges[k].template.suffix)
  <1>1. [major |-> 1, minor |-> 1, patch |-> 1] \in SelectLevels
    BY DEF SelectLevels, Level
  <1> QED BY <1>1, RangesAssumption DEF EffectiveSelect

\* renderTags after selectVersions: no newer version with the name was left out.
LEMMA RenderedAreRangeTags ==
    ASSUME listing \in Listings, ranges \in RangeLists, NEW k \in 1 .. Len(ranges),
           NEW g \in RenderTags(SelectVersions(ApplyFilters(Parsed, ranges[k].filter),
                                               EffectiveSelect(ranges[k])), ranges[k], k)
    PROVE  g \in RangeTags
  <1> DEFINE S == ApplyFilters(Parsed, ranges[k].filter)
             sel == EffectiveSelect(ranges[k])
             t == ranges[k].template
  <1>1. Listed(S) /\ S \subseteq Published
    BY FiltersDrop, PublishedIsListed, ListedSubset DEF Parsed
  <1>2. sel \in SelectLevels /\ t.depth \in 0 .. 3 /\ IsSequence(t.suffix)
    BY RangeIs
  <1>3. PICK v \in SelectVersions(S, sel) :
           /\ g = [name |-> TagName(t, v), from |-> k, version |-> v]
           /\ \A u \in SelectVersions(S, sel) : TagName(t, u) = TagName(t, v) => ~Higher(u, v)
    BY DEF RenderTags
  <1> HIDE DEF S, sel, t
  <1>4. v \in S
    BY SelectedAre
  <1>5. ASSUME NEW u \in S, TagName(t, u) = TagName(t, v), Higher(u, v)
        PROVE  FALSE
    <2>1. Agree(v, u, t.depth)
      BY <1>2, <1>5, NamesAgree
    <2>2. PICK w \in SelectVersions(S, sel) : Agree(v, w, t.depth) /\ ~Higher(u, w)
      BY <1>1, <1>2, <1>5, <2>1, SelectKeepsHigher
    <2>3. w \in S /\ TagName(t, w) = TagName(t, v)
      BY <1>2, <2>2, NamesAgree, SelectedAre
    <2>4. ~Higher(w, v)
      BY <1>3, <2>3
    <2>5. w = u \/ Higher(w, u)
      BY <1>1, <2>2, <2>3, HigherIsTotal
    <2>6. Higher(w, u) => Higher(w, v)
      BY <1>1, <1>4, <1>5, <2>3, HigherIsStrict DEF Listed
    <2> QED BY <1>5, <2>4, <2>5, <2>6
  <1>6. v \in Published /\ g.from = k /\ g.version = v /\ g.name = TagName(t, v)
    BY <1>1, <1>3, <1>4
  <1>7. \A u \in S : TagName(t, u) = g.name => ~Higher(u, g.version)
    BY <1>5, <1>6
  <1>8. g \in {[name |-> TagName(ranges[l].template, x), from |-> l, version |-> x] :
                   l \in 1 .. Len(ranges), x \in Published}
    BY <1>3, <1>6 DEF t
  <1> QED BY <1>6, <1>7, <1>8 DEF RangeTags, S, t

\* The rendered tags of a range, as a list.
LEMMA DescendingIs ==
    ASSUME NEW S, Listed(S), NEW range, NEW k
    PROVE  LET T == RenderTags(S, range, k)
           IN  Cardinality(T) \in Nat /\ Descending(T) \in Seq(T)
  <1> DEFINE W == {w \in S : \A u \in S :
                      TagName(range.template, u) = TagName(range.template, w) => ~Higher(u, w)}
             f == [v \in W |-> [name |-> TagName(range.template, v), from |-> k, version |-> v]]
             T == RenderTags(S, range, k)
             n == Cardinality(T)
             R == {e \in T \X T : Higher(e[1].version, e[2].version)}
  <1>1. Listed(W)
    <2>1. W \in SUBSET S
      OBVIOUS
    <2> HIDE DEF W
    <2> QED BY <2>1, ListedSubset
  <1>2. T = {f[v] : v \in W} /\ \A v \in W : f[v].version = v
    BY DEF RenderTags
  <1> HIDE DEF W, f, T
  <1>3. IsFiniteSet(T)
    BY <1>1, <1>2, ImageIsFinite DEF Listed
  <1>4. n \in Nat
    BY <1>3, FS_CardinalityType
  <1>5. \A s, t \in T : s # t => s.version \in W /\ t.version \in W /\ s.version # t.version
    BY <1>2
  <1>6. \A s \in T : s.version \in W
    BY <1>2
  <1>7. \A s, t \in T : <<s, t>> \in R <=> Higher(s.version, t.version)
    OBVIOUS
  <1> HIDE DEF R
  <1>8. \A s \in T : <<s, s>> \notin R
    BY <1>1, <1>6, <1>7, HigherIsStrict DEF Listed
  <1>9. \A s, t, x \in T : <<s, t>> \in R /\ <<t, x>> \in R => <<s, x>> \in R
    BY <1>1, <1>6, <1>7, HigherIsStrict DEF Listed
  <1>10. \A s, t \in T : s # t => <<s, t>> \in R \/ <<t, s>> \in R
    BY <1>1, <1>5, <1>7, HigherIsTotal
  <1>11. PICK q \in [1 .. n -> T] : \A i, j \in 1 .. n : i < j => <<q[i], q[j]>> \in R
    BY <1>3, <1>8, <1>9, <1>10, ListExists
  <1>12. \A i, j \in DOMAIN q : i < j => Higher(q[i].version, q[j].version)
    BY <1>7, <1>11
  <1>13. Descending(T) \in [1 .. n -> T]
    BY <1>11, <1>12 DEF Descending
  <1>14. \A m \in Nat : \A p \in [1 .. m -> T] : p \in Seq(T)
    OBVIOUS
  <1>15. Descending(T) \in Seq(T)
    BY <1>4, <1>13, <1>14
  <1> QED BY <1>4, <1>15 DEF T
LEMMA RangesStart == RangesInit => RangesInvariant
  <1> SUFFICES ASSUME RangesInit PROVE RangesInvariant
    OBVIOUS
  <1>1. FetchInvariant
    BY FetchStarts DEF RangesInit
  <1>2. Len(ranges) \in Nat
    BY RangesAssumption DEF RangesInit
  <1>3. PipelineInvariant
    BY <1>2 DEF RangesInit, FetchInit, PipelineInvariant
  <1>4. MergeInvariant
    <2>1. generated = <<>> /\ next = 1 /\ step # "done"
          /\ tags = {[name |-> n, from |-> 0] : n \in static}
      BY DEF RangesInit
    <2>2. StaticTagsSurvive
      BY <2>1 DEF StaticTagsSurvive
    <2>3. generated \in Seq(RangeTags) /\ Len(generated) = 0
      BY <2>1
    <2> QED BY <2>1, <2>2, <2>3 DEF MergeInvariant
  <1> QED BY <1>1, <1>3, <1>4 DEF RangesInvariant

\* A step that leaves the merged tags alone.
LEMMA MergeKept ==
    ASSUME MergeInvariant, UNCHANGED <<listing, ranges, static, tags, next, generated>>,
           step' = "done" => next > Len(generated)
    PROVE  MergeInvariant'
  <1>1. RangeTags' = RangeTags
    BY RangesKept
  <1>2. StaticTagsSurvive'
    BY DEF MergeInvariant, StaticTagsSurvive
  <1> QED BY <1>1, <1>2 DEF MergeInvariant

LEMMA PipelineSteps ==
    ASSUME RangesInvariant,
           ConfigFails \/ Fetch \/ SourceFails \/ Parse \/ Filter \/ Select
    PROVE  PipelineInvariant'
  <1>1. UNCHANGED <<listing, ranges, r>> /\ r \in 1 .. (Len(ranges) + 1)
    BY DEF ConfigFails, Fetch, SourceFails, Parse, Filter, Select, Fail, input, fetchVars,
           StartFetch, FetchNext, Answered, RegistryListed, RequestFails, RequestRejected, Backoff,
           RangesInvariant, PipelineInvariant
  <1>2. Published' = Published /\ Parsed' = Parsed /\ Parsed \subseteq Published
    BY <1>1, RangesKept DEF Parsed
  <1>3. CASE ConfigFails \/ SourceFails
    BY <1>1, <1>2, <1>3 DEF ConfigFails, SourceFails, Fail, input, fetchVars, RangesInvariant, PipelineInvariant
  <1>4. CASE Fetch
    <2>1. UNCHANGED <<versions, filtered, step, ranges>> /\ step = "resolve" /\ r <= Len(ranges)
      BY <1>4 DEF Fetch, input
    <2> QED BY <1>1, <1>2, <2>1 DEF RangesInvariant, PipelineInvariant
  <1>5. CASE Parse
    <2>1. /\ UNCHANGED <<filtered, fetch>> /\ step = "resolve" /\ fetch = "fetched"
          /\ versions' = {v \in source : v.parses} /\ step' \in {"error", "filter"}
      BY <1>5 DEF Parse, fetchVars
    <2>2. source = Published
      BY <2>1 DEF RangesInvariant, FetchInvariant, FetchIsComplete
    <2>3. versions' = Parsed
      BY <2>1, <2>2 DEF Parsed
    <2> QED BY <1>1, <1>2, <2>1, <2>3 DEF RangesInvariant, PipelineInvariant
  <1>6. CASE Filter
    <2>1. /\ UNCHANGED fetch /\ step = "filter" /\ filtered' = versions'
          /\ versions' = ApplyFilters(versions, ranges[r].filter) /\ step' \in {"error", "select"}
      BY <1>6 DEF Filter, fetchVars
    <2>2. versions = Parsed
      BY <2>1 DEF RangesInvariant, PipelineInvariant
    <2>3. versions' \subseteq Published
      BY <1>2, <2>1, <2>2, FiltersDrop
    <2> QED BY <1>1, <1>2, <2>1, <2>2, <2>3 DEF RangesInvariant, PipelineInvariant
  <1>7. CASE Select
    <2>1. /\ UNCHANGED <<fetch, filtered>> /\ step = "select" /\ step' = "render"
          /\ versions' = SelectVersions(versions, EffectiveSelect(ranges[r]))
      BY <1>7 DEF Select, fetchVars
    <2>2. versions = filtered /\ filtered = ApplyFilters(Parsed, ranges[r].filter)
          /\ filtered \subseteq Published /\ r <= Len(ranges)
      BY <2>1 DEF RangesInvariant, PipelineInvariant
    <2>3. versions' \subseteq Published
      BY <2>1, <2>2, SelectedAre
    <2> QED BY <1>1, <1>2, <2>1, <2>2, <2>3 DEF RangesInvariant, PipelineInvariant
  <1> QED BY <1>3, <1>4, <1>5, <1>6, <1>7

\* A range's tags are added to the generated ones.
LEMMA RenderStep ==
    ASSUME RangesInvariant, Render PROVE PipelineInvariant' /\ MergeInvariant'
  <1> DEFINE rendered == RenderTags(versions, ranges[r], r)
             D == Descending(rendered)
  <1>1. /\ step = "render" /\ listing \in Listings /\ ranges \in RangeLists
        /\ r \in 1 .. Len(ranges) /\ Len(ranges) \in Nat
        /\ versions = SelectVersions(ApplyFilters(Parsed, ranges[r].filter),
                                     EffectiveSelect(ranges[r]))
        /\ versions \subseteq Published /\ MergeInvariant
    <2>1. step = "render"
      BY DEF Render
    <2>2. ranges \in RangeLists /\ r \in 1 .. (Len(ranges) + 1) /\ r <= Len(ranges)
      BY <2>1 DEF RangesInvariant, PipelineInvariant
    <2>3. Len(ranges) \in Nat
      BY <2>2, RangesAssumption
    <2> QED BY <2>1, <2>2, <2>3 DEF RangesInvariant, PipelineInvariant, FetchInvariant, FetchTypeOK
  <1>2. CASE Fail
    <2>1. /\ UNCHANGED <<listing, ranges, static, tags, next, generated, r, versions, filtered, fetch>>
          /\ step' = "error"
      BY <1>2 DEF Fail, fetchVars, input
    <2>2. Published' = Published /\ Parsed' = Parsed
      BY <2>1, RangesKept
    <2>3. MergeInvariant'
      BY <1>1, <2>1, MergeKept
    <2>4. PipelineInvariant'
      BY <1>1, <2>1, <2>2 DEF RangesInvariant, PipelineInvariant
    <2> QED BY <2>3, <2>4
  <1>3. CASE ~Fail
    <2>1. /\ generated' = generated \o D
          /\ r' = r + 1 /\ versions' = {} /\ filtered' = {}
          /\ step' = "resolve" /\ fetch' = "idle"
          /\ UNCHANGED <<listing, ranges, static, tags, next>>
      BY <1>3 DEF Render, input
    <2>2. Published' = Published /\ RangeTags' = RangeTags
      BY <2>1, RangesKept
    <2>3. D \in Seq(RangeTags)
      <3>1. Listed(versions)
        BY <1>1, PublishedIsListed, ListedSubset
      <3>2. D \in Seq(rendered)
        BY <3>1, DescendingIs
      <3>3. rendered \subseteq RangeTags
        BY <1>1, RenderedAreRangeTags
      <3> HIDE DEF rendered, D
      <3> QED BY <3>2, <3>3, SeqMonotonic
    <2>4. /\ generated' \in Seq(RangeTags)
          /\ Len(generated) \in Nat /\ Len(generated') \in Nat /\ Len(generated) <= Len(generated')
          /\ \A i \in 1 .. Len(generated) : generated'[i] = generated[i]
      <3>1. generated \in Seq(RangeTags)
        BY <1>1 DEF MergeInvariant
      <3> HIDE DEF D
      <3> QED BY <2>1, <2>3, <3>1
    <2>5. PipelineInvariant'
      BY <1>1, <2>1 DEF PipelineInvariant
    <2>6. MergeInvariant'
      <3>1. next' \in 1 .. (Len(generated') + 1)
            /\ \A i \in 1 .. (next - 1) : i \in 1 .. Len(generated)
        BY <1>1, <2>1, <2>4 DEF MergeInvariant
      <3>2. StaticTagsSurvive'
        BY <1>1, <2>1 DEF MergeInvariant, StaticTagsSurvive
      <3>3. \A i, j \in 1 .. (next' - 1) :
               generated'[i].name = generated'[j].name /\ generated'[i].from # generated'[j].from
                 => generated'[i].name \in static'
        BY <1>1, <2>1, <2>4, <3>1 DEF MergeInvariant
      <3>4. \A t \in tags' : t.from = 0 \/ t \in RangeTags'
        BY <1>1, <2>1, <2>2 DEF MergeInvariant
      <3> QED BY <2>1, <2>2, <2>4, <3>1, <3>2, <3>3, <3>4 DEF MergeInvariant
    <2> QED BY <2>5, <2>6
  <1> QED BY <1>2, <1>3

LEMMA MergeStep ==
    ASSUME RangesInvariant, MergeTag PROVE MergeInvariant'
  <1> DEFINE g == generated[next]
             seenFrom == {generated[i].from : i \in {j \in 1 .. (next - 1) : generated[j].name = g.name}}
  <1>1. UNCHANGED <<listing, ranges, static, generated>> /\ step' # "done" /\ MergeInvariant
        /\ next <= Len(generated)
    BY DEF MergeTag, Fail, fetchVars, input, RangesInvariant
  <1>2. RangeTags' = RangeTags
    BY <1>1, RangesKept
  <1>3. /\ generated \in Seq(RangeTags) /\ Len(generated) \in Nat
        /\ next \in 1 .. Len(generated) /\ g \in RangeTags
        /\ StaticTagsSurvive
        /\ \A t \in tags : t.from = 0 \/ t \in RangeTags
        /\ \A i, j \in 1 .. (next - 1) :
              generated[i].name = generated[j].name /\ generated[i].from # generated[j].from
                => generated[i].name \in static
    <2>1. generated \in Seq(RangeTags) /\ next \in 1 .. (Len(generated) + 1)
      BY <1>1 DEF MergeInvariant
    <2>2. Len(generated) \in Nat /\ next \in 1 .. Len(generated)
      BY <1>1, <2>1
    <2>3. generated[next] \in RangeTags
      BY <2>1, <2>2
    <2> QED BY <1>1, <2>1, <2>2, <2>3 DEF MergeInvariant
  <1>4. ASSUME next' = next + 1,
               g.name \notin static => \A i \in 1 .. (next - 1) :
                   generated[i].name = g.name => generated[i].from = g.from
        PROVE  \A i, j \in 1 .. (next' - 1) :
                  generated[i].name = generated[j].name /\ generated[i].from # generated[j].from
                    => generated[i].name \in static
    <2>1. \A i \in 1 .. (next' - 1) : i \in 1 .. (next - 1) \/ i = next
      BY <1>3, <1>4
    <2> QED BY <1>3, <1>4, <2>1
  <1>5. CASE g.name \in static
    <2>1. next' = next + 1 /\ UNCHANGED tags
      BY <1>5 DEF MergeTag
    <2>2. StaticTagsSurvive'
      BY <1>1, <1>3, <2>1 DEF StaticTagsSurvive
    <2>3. next' \in 1 .. (Len(generated) + 1)
      BY <1>3, <2>1
    <2> HIDE DEF g, seenFrom
    <2> QED BY <1>1, <1>2, <1>3, <1>4, <1>5, <2>1, <2>2, <2>3 DEF MergeInvariant
  <1>6. CASE Fail
    <2>1. UNCHANGED <<tags, next>> /\ step' = "error"
      BY <1>6 DEF Fail
    <2> QED BY <1>1, <2>1, MergeKept
  <1>7. CASE g.name \notin static /\ ~Fail
    <2>1. /\ next' = next + 1
          /\ tags' = {t \in tags : t.name # g.name} \cup {g}
          /\ seenFrom \ {g.from} = {}
      BY <1>7 DEF MergeTag
    <2>2. \A i \in 1 .. (next - 1) : generated[i].name = g.name => generated[i].from = g.from
      BY <2>1
    <2>3. StaticTagsSurvive'
      <3> HIDE DEF g
      <3>1. \A n \in static : [name |-> n, from |-> 0] \in tags'
        BY <1>3, <1>7, <2>1 DEF StaticTagsSurvive
      <3>2. \A t, u \in tags' : t.name = u.name => t = u
        BY <1>3, <2>1 DEF StaticTagsSurvive
      <3> QED BY <1>1, <3>1, <3>2 DEF StaticTagsSurvive
    <2>4. next' \in 1 .. (Len(generated) + 1)
      BY <1>3, <2>1
    <2>5. \A t \in tags' : t.from = 0 \/ t \in RangeTags
      BY <1>3, <2>1
    <2>6. \A i, j \in 1 .. (next' - 1) :
             generated[i].name = generated[j].name /\ generated[i].from # generated[j].from
               => generated[i].name \in static
      BY <1>4, <2>1, <2>2
    <2> HIDE DEF g, seenFrom
    <2> QED BY <1>1, <1>2, <1>3, <2>3, <2>4, <2>5, <2>6 DEF MergeInvariant
  <1> QED BY <1>5, <1>6, <1>7

LEMMA RangesStep ==
    ASSUME DraftsEndTheListing, RangesInvariant, [RangesNext]_rangesVars
    PROVE  RangesInvariant'
  <1>1. CASE Fetch
    <2>1. FetchInvariant'
      BY <1>1, FetchStep DEF Fetch, RangesInvariant
    <2>2. PipelineInvariant'
      BY <1>1, PipelineSteps
    <2>3. UNCHANGED <<listing, ranges, static, tags, next, generated, step>> /\ step = "resolve"
      BY <1>1 DEF Fetch, input, StartFetch, FetchNext, Answered, RegistryListed, RequestFails,
                  RequestRejected, Backoff
    <2>4. MergeInvariant'
      BY <2>3, MergeKept DEF RangesInvariant
    <2> QED BY <2>1, <2>2, <2>4 DEF RangesInvariant
  <1>2. ASSUME UNCHANGED fetchVars PROVE FetchInvariant'
    <2>1. UpTo(page - 1)' = UpTo(page - 1)
      BY <1>2 DEF fetchVars, UpTo, Versions, Kept, Paged
    <2> QED BY <1>2, <2>1, FetchKept DEF fetchVars, RangesInvariant, FetchInvariant, FetchTypeOK, FetchIsComplete
  <1>3. CASE ConfigFails \/ SourceFails \/ Parse \/ Filter \/ Select
    <2>1. /\ UNCHANGED fetchVars /\ UNCHANGED <<listing, ranges, static, tags, next, generated>>
          /\ step' # "done"
      BY <1>3 DEF ConfigFails, SourceFails, Parse, Filter, Select, Fail, fetchVars, input
    <2> QED BY <1>2, <1>3, <2>1, PipelineSteps, MergeKept DEF RangesInvariant
  <1>4. CASE Render
    <2>1. FetchInvariant'
      <3>1. CASE Fail
        BY <1>2, <3>1 DEF Fail
      <3>2. CASE ~Fail
        BY <1>4, <3>2 DEF Render, RangesInvariant, FetchInvariant, FetchTypeOK, FetchIsComplete
      <3> QED BY <3>1, <3>2
    <2> QED BY <1>4, <2>1, RenderStep DEF RangesInvariant
  <1>5. CASE MergeTag
    <2>1. UNCHANGED <<fetchVars, ranges, r, versions, filtered>> /\ step = "resolve"
          /\ step' \in {"resolve", "error"}
      BY <1>5 DEF MergeTag, Fail, input
    <2>2. PipelineInvariant'
      <3>1. UNCHANGED <<listing, fetch>>
        BY <2>1 DEF fetchVars
      <3> QED BY <2>1, <3>1, RangesKept DEF RangesInvariant, PipelineInvariant
    <2> QED BY <1>2, <1>5, <2>1, <2>2, MergeStep DEF RangesInvariant
  <1>6. CASE MergeEnds
    <2>1. /\ UNCHANGED <<fetchVars, ranges, r, versions, filtered, static, tags, next, generated>>
          /\ step = "resolve" /\ step' = "done" /\ next > Len(generated)
      BY <1>6 DEF MergeEnds, input
    <2>2. UNCHANGED <<listing, fetch>>
      BY <2>1 DEF fetchVars
    <2>3. PipelineInvariant'
      BY <2>1, <2>2, RangesKept DEF RangesInvariant, PipelineInvariant
    <2> QED BY <1>2, <2>1, <2>2, <2>3, MergeKept DEF RangesInvariant
  <1>7. CASE UNCHANGED rangesVars
    <2>1. UNCHANGED <<fetchVars, ranges, r, versions, filtered, static, tags, next, generated, step>>
      BY <1>7 DEF rangesVars, input
    <2>2. UNCHANGED <<listing, fetch>>
      BY <2>1 DEF fetchVars
    <2>3. PipelineInvariant'
      BY <2>1, <2>2, RangesKept DEF RangesInvariant, PipelineInvariant
    <2>4. step' = "done" => next > Len(generated)
      BY <2>1 DEF RangesInvariant, MergeInvariant
    <2> QED BY <1>2, <2>1, <2>2, <2>3, <2>4, MergeKept DEF RangesInvariant
  <1>8. CASE Done
    BY <1>7, <1>8 DEF Done
  <1> QED BY <1>1, <1>3, <1>4, <1>5, <1>6, <1>7, <1>8 DEF RangesNext
LEMMA RangesInvariantHolds ==
    ASSUME DraftsEndTheListing PROVE RangesSpec => []RangesInvariant
  <1>1. RangesInvariant /\ [RangesNext]_rangesVars => RangesInvariant'
    BY RangesStep
  <1> QED BY <1>1, RangesStart, PTL DEF RangesSpec

\* Where a page with a draft is the last one, what enters the pipeline of a range
\* is all that its source publishes up to the cap, however often a request is
\* retried; no tag that the image declares is lost or replaced, no two tags have
\* one name, and no two ranges share one that no static tag settles.
THEOREM RangesResolve ==
    ASSUME DraftsEndTheListing PROVE RangesSpec => []ResolutionInvariant
  <1>1. RangesInvariant => ResolutionInvariant
    <2> SUFFICES ASSUME RangesInvariant PROVE ResolutionInvariant
      OBVIOUS
    <2>1. \A t \in RangeTags : t.from \in 1 .. Len(ranges)
      BY DEF RangeTags
    <2>2. /\ FetchInvariant /\ PipelineInvariant
          /\ generated \in Seq(RangeTags) /\ next \in 1 .. (Len(generated) + 1)
          /\ StaticTagsSurvive
      BY DEF RangesInvariant, MergeInvariant
    <2>3. Len(generated) \in Nat /\ DOMAIN generated = 1 .. Len(generated)
          /\ \A i \in DOMAIN generated : generated[i] \in RangeTags
      BY <2>2
    <2>4. RangesTypeOK
      BY <2>1, <2>2, <2>3 DEF RangesTypeOK, FetchInvariant, PipelineInvariant
    <2>5. RangesDoNotOverlap
      <3>1. ASSUME step = "done" PROVE \A i \in DOMAIN generated : i \in 1 .. (next - 1)
        <4>1. next > Len(generated)
          BY <3>1 DEF RangesInvariant, MergeInvariant
        <4> QED BY <2>2, <2>3, <4>1
      <3> QED BY <3>1 DEF RangesDoNotOverlap, RangesInvariant, MergeInvariant
    <2> QED BY <2>2, <2>4, <2>5 DEF ResolutionInvariant, FetchInvariant
  <1> QED BY <1>1, RangesInvariantHolds, PTL

\* Under the same hypothesis a generated tag carries the newest of all versions
\* that the filters let through and that render to its name, whatever select has
\* left out; and the guard against outlier majors drops what no chain of steps of
\* the configured size reaches, and nothing else.
THEOREM RangesKeepTheNewest ==
    ASSUME DraftsEndTheListing PROVE RangesSpec => []NewestIsKept
  <1>1. RangesInvariant => TagsCarryTheNewest
    <2> SUFFICES ASSUME RangesInvariant, NEW t \in tags, t.from # 0,
                        NEW v \in Eligible(ranges[t.from]),
                        TagName(ranges[t.from].template, v) = t.name
                 PROVE  ~Higher(v, t.version)
      BY DEF TagsCarryTheNewest
    <2>1. t \in RangeTags
      BY DEF RangesInvariant, MergeInvariant
    <2>2. v \in ApplyFilters(Parsed, ranges[t.from].filter)
      BY DEF Eligible, Parsed
    <2> QED BY <2>1, <2>2 DEF RangeTags
  <1>2. RangesInvariant => GuardIsNoWindow
    <2> SUFFICES ASSUME RangesInvariant, step = "select" PROVE GuardIsNoWindow
      BY DEF GuardIsNoWindow
    <2> DEFINE f == ranges[r].filter
               before == {v \in Published : v.parses /\ Passes(v, f)}
               majors == {v.major : v \in before}
               Connected(m) == \A n \in majors :
                   (n < m /\ \A k \in majors : k <= n \/ k >= m) => m - n <= f.maxMajorIncrement
    <2>1. /\ listing \in Listings /\ ranges \in RangeLists /\ r \in 1 .. (Len(ranges) + 1)
          /\ r <= Len(ranges) /\ filtered = ApplyFilters(Parsed, ranges[r].filter)
      BY DEF RangesInvariant, PipelineInvariant, FetchInvariant, FetchTypeOK
    <2>2. f.maxMajorIncrement \in Int
      <3>1. r \in 1 .. Len(ranges)
        BY <2>1, RangesAssumption
      <3> QED BY <2>1, <3>1, RangeIs
    <2>3. Listed(before)
      <3>1. before \in SUBSET Published
        OBVIOUS
      <3> HIDE DEF before
      <3> QED BY <2>1, <3>1, PublishedIsListed, ListedSubset
    <2>4. filtered = MaxMajorIncrement(before, f.maxMajorIncrement)
      <3>1. {v \in Parsed : Passes(v, f)} = before
        BY DEF Parsed
      <3> QED BY <2>1, <3>1 DEF ApplyFilters
    <2>5. ASSUME f.maxMajorIncrement > 0
          PROVE  filtered = {v \in before : \A m \in majors : m <= v.major => Connected(m)}
      <3> HIDE DEF before, f
      <3> QED BY <2>2, <2>3, <2>4, <2>5, GuardByChains
    <2> QED BY <2>5 DEF GuardIsNoWindow
  <1> QED BY <1>1, <1>2, RangesInvariantHolds, PTL DEF NewestIsKept
=============================================================================
