----------------------------- MODULE JobsProofs ------------------------------
(***************************************************************************)
(* The safety of the scripts of jobs, for any number of targets, tars,     *)
(* builds, definitions, vertices and commands: what the wait of a script   *)
(* has to have seen, what the worker pool of `ch sbom` leaves behind, what *)
(* `ch test` reports, what builds that share a daemon cut and put into     *)
(* their images, what a finalize leaves under the aliases, what commands   *)
(* may do to one daemon, and what the display of a solve shows. A script   *)
(* runs one command at a time, so that the invariant of each command need  *)
(* only be kept by its own steps; the order of the script carries what one *)
(* command leaves to the next.                                             *)
(***************************************************************************)
EXTENDS Jobs, FiniteSetTheorems, SequenceTheorems, WellFoundedInduction, TLAPS

\* The numbers of elements that the instances speak of are those of the library.
LEMMA SameCardinality ==
    ASSUME NEW A
    PROVE  /\ S!Cardinality(A) = Cardinality(A)
           /\ D!Cardinality(A) = Cardinality(A)
           /\ B!Cardinality(A) = Cardinality(A)
           /\ T!Cardinality(A) = Cardinality(A)
           /\ P!Cardinality(A) = Cardinality(A)
  BY DEF S!Cardinality, D!Cardinality, B!Cardinality, T!Cardinality, P!Cardinality, Cardinality

LEMMA Sizes == IsFiniteSet(Cases) /\ Workers # {}
  BY JobsAssumption, FS_EmptySet DEF JobsAssumption
-----------------------------------------------------------------------------
(* Wait: `ch wait`.                                                        *)

\* What the end of a goroutine says, and Wait's DaemonsAnswered, which follows
\* from it when all of them have ended.
WaitInvariant ==
    /\ W!TypeOK
    /\ \A t \in targets :
          /\ poll[t] = "ready" => t \in answered
          /\ poll[t] = "timed out" => deadline = "passed"
    /\ W!DaemonsAnswered

\* Every goroutine starts at its select, and nothing has been returned.
LEMMA WaitStarts ==
    ASSUME NEW ts \in SUBSET Targets, W!Start(ts)
    PROVE  WaitInvariant
  BY DEF W!Start, WaitInvariant, W!TypeOK, W!DaemonsAnswered

\* The environment only moves daemons, and the clock only once.
LEMMA EnvironmentInvariant ==
    ASSUME WaitInvariant,
           W!DeadlinePasses \/ (\E t \in targets : W!Daemon(t))
    PROVE  WaitInvariant'
  <1>1. CASE W!DeadlinePasses
    BY <1>1 DEF W!DeadlinePasses, WaitInvariant, W!TypeOK, W!DaemonsAnswered
  <1>2. CASE \E t \in targets : W!Daemon(t)
    BY <1>2 DEF W!Daemon, WaitInvariant, W!TypeOK, W!DaemonsAnswered
  <1> QED BY <1>1, <1>2

\* A step of the goroutine of a target. The command has returned only when all
\* goroutines have ended, so none of these steps comes after it.
LEMMA GoroutineInvariant ==
    ASSUME WaitInvariant, NEW t \in targets, W!Goroutine(t)
    PROVE  WaitInvariant'
  <1>1. CASE W!Tick(t)
    BY <1>1 DEF W!Tick, WaitInvariant, W!TypeOK, W!DaemonsAnswered
  <1>2. CASE W!GiveUp(t)
    BY <1>2 DEF W!GiveUp, WaitInvariant, W!TypeOK, W!DaemonsAnswered
  <1>3. CASE W!CheckAnswers(t)
    BY <1>3 DEF W!CheckAnswers, WaitInvariant, W!TypeOK, W!DaemonsAnswered
  <1>4. CASE W!CheckFails(t)
    BY <1>4 DEF W!CheckFails, WaitInvariant, W!TypeOK, W!DaemonsAnswered
  <1> QED BY <1>1, <1>2, <1>3, <1>4 DEF W!Goroutine

\* The command returns: the ends of the goroutines decide what.
LEMMA ReturnInvariant ==
    ASSUME WaitInvariant, W!NoTarget \/ W!AllReturn
    PROVE  WaitInvariant'
  <1>1. CASE W!NoTarget
    BY <1>1 DEF W!NoTarget, WaitInvariant, W!TypeOK, W!DaemonsAnswered
  <1>2. CASE W!AllReturn
    <2>1. UNCHANGED <<targets, up, deadline, poll, answered>>
      BY <1>2 DEF W!AllReturn, WaitInvariant, W!TypeOK, W!DaemonsAnswered
    <2>2. CASE \A t \in targets : poll[t] = "ready"
      BY <1>2, <2>1, <2>2 DEF W!AllReturn, WaitInvariant, W!TypeOK, W!DaemonsAnswered
    <2>3. CASE \E t \in targets : poll[t] # "ready"
      BY <1>2, <2>1, <2>3 DEF W!AllReturn, WaitInvariant, W!TypeOK, W!DaemonsAnswered
    <2> QED BY <2>2, <2>3
  <1> QED BY <1>1, <1>2

LEMMA WaitStep ==
    ASSUME WaitInvariant, W!Next
    PROVE  WaitInvariant'
  BY EnvironmentInvariant, GoroutineInvariant, ReturnInvariant DEF W!Next

\* The script ends the wait: its context is cancelled.
LEMMA WaitEndsInvariant ==
    ASSUME WaitInvariant, WaitEnds
    PROVE  WaitInvariant'
  BY DEF WaitEnds, WaitInvariant, W!TypeOK, W!DaemonsAnswered

\* The other commands leave the wait alone.
LEMMA WaitKept ==
    ASSUME WaitInvariant, UNCHANGED waitVars
    PROVE  WaitInvariant'
  BY DEF waitVars, WaitInvariant, W!TypeOK, W!DaemonsAnswered

-----------------------------------------------------------------------------
(* Sbom: `ch sbom`. SbomsDescribeTars says what must be true of the        *)
(* results; the invariant adds what each worker holds while it is at work. *)

Handed == {i \in Cases : \E w \in Workers : i \in item[w]}
Written == {i \in S!Stat : sboms[i] = tars[i]}

\* A worker holds an item exactly while it generates or writes, one that nobody
\* else holds and that is no longer in the queue, and what it writes was made
\* from the tar of that item.
HandsOK ==
    /\ \A w \in Workers : item[w] # {} <=> worker[w] \in {"generate", "write"}
    /\ \A w \in Workers : \A i \in item[w] : worker[w] = "write" => data[w] = tars[i]
    /\ \A v, w \in Workers : v # w => item[v] \cap item[w] = {}
    /\ Handed \cap S!ToSet(queue) = {}

\* The queue holds items with a tar, each once, and is filled when the workers
\* start, all at the same time.
QueueOK ==
    /\ \A j, k \in DOMAIN queue : j # k => queue[j] # queue[k]
    /\ S!ToSet(queue) \subseteq S!Stat
    /\ (\A w \in Workers : worker[w] = "idle") \/ (\A w \in Workers : worker[w] # "idle")
    /\ (\A w \in Workers : worker[w] = "idle") => queue = << >> /\ firstErr = {}

\* As long as nothing has failed, nothing is lost, and a worker has only ended
\* because the queue was empty.
NothingLost ==
    firstErr = {} =>
        /\ (\E w \in Workers : worker[w] # "idle") =>
              S!Stat = S!ToSet(queue) \cup Handed \cup Written
        /\ \A w \in Workers : worker[w] = "ended" => queue = << >>

\* What the command returned.
ResultOK ==
    /\ made # "none" => \A w \in Workers : worker[w] \in {"idle", "ended"}
    /\ made = "ok" => Written = S!Stat
    /\ made = "error" /\ S!Stat # {} => firstErr # {}

SbomInvariant == S!TypeOK /\ HandsOK /\ QueueOK /\ NothingLost /\ ResultOK
-----------------------------------------------------------------------------
\* The orders that Collect chooses from hold every element of a set once.
LEMMA OrdersOfSet ==
    ASSUME NEW A, IsFiniteSet(A), NEW q \in S!SetToSeqs(A)
    PROVE  /\ q \in Seq(A)
           /\ S!ToSet(q) = A
           /\ \A j, k \in DOMAIN q : j # k => q[j] # q[k]
  <1> DEFINE n == Cardinality(A)
  <1>1. n \in Nat
    BY FS_CardinalityType
  <1>2. /\ q \in [1 .. n -> A]
        /\ \A j, k \in 1 .. n : j # k => q[j] # q[k]
    BY SameCardinality DEF S!SetToSeqs
  <1>3. q \in Seq(A) /\ DOMAIN q = 1 .. n
    BY <1>1, <1>2, IsASeq
  <1>4. IsFiniteSet(1 .. n) /\ Cardinality(1 .. n) = n
    BY <1>1, FS_Interval
  <1>5. q \in Injection(1 .. n, A)
    BY <1>2, Zenon DEF Injection, IsInjective
  <1>6. q \in Surjection(1 .. n, A)
    BY <1>4, <1>5, FS_Injection
  <1>7. S!ToSet(q) = A
    BY <1>3, <1>6 DEF S!ToSet, Surjection
  <1> QED BY <1>2, <1>3, <1>7

\* Taking the head of a queue without duplicates takes it out of the queue.
LEMMA HeadIsTaken ==
    ASSUME NEW A, NEW q \in Seq(A), q # << >>,
           \A j, k \in DOMAIN q : j # k => q[j] # q[k]
    PROVE  /\ Tail(q) \in Seq(A) /\ Head(q) \in A
           /\ S!ToSet(q) = S!ToSet(Tail(q)) \cup {Head(q)}
           /\ Head(q) \notin S!ToSet(Tail(q))
           /\ \A j, k \in DOMAIN Tail(q) : j # k => Tail(q)[j] # Tail(q)[k]
  <1>1. /\ Head(q) \in A /\ Tail(q) \in Seq(A)
        /\ Len(Tail(q)) = Len(q) - 1
        /\ \A i \in 1 .. Len(Tail(q)) : Tail(q)[i] = q[i + 1]
    BY HeadTailProperties
  <1>2. /\ Len(q) \in Nat \ {0} /\ DOMAIN q = 1 .. Len(q)
        /\ DOMAIN Tail(q) = 1 .. (Len(q) - 1) /\ Head(q) = q[1]
    BY <1>1
  <1>3. S!ToSet(q) \subseteq S!ToSet(Tail(q)) \cup {Head(q)}
    <2> SUFFICES ASSUME NEW i \in 1 .. Len(q) PROVE q[i] \in S!ToSet(Tail(q)) \cup {Head(q)}
      BY <1>2 DEF S!ToSet
    <2>1. CASE i = 1
      BY <2>1, <1>2
    <2>2. CASE i # 1
      <3>1. i - 1 \in 1 .. (Len(q) - 1) /\ q[i] = Tail(q)[i - 1]
        BY <2>2, <1>1, <1>2
      <3> QED BY <3>1, <1>2 DEF S!ToSet
    <2> QED BY <2>1, <2>2
  <1>4. S!ToSet(Tail(q)) \cup {Head(q)} \subseteq S!ToSet(q)
    <2>1. ASSUME NEW i \in 1 .. (Len(q) - 1) PROVE Tail(q)[i] \in S!ToSet(q)
      <3>1. i + 1 \in 1 .. Len(q) /\ Tail(q)[i] = q[i + 1]
        BY <1>1, <1>2
      <3> QED BY <3>1, <1>2 DEF S!ToSet
    <2>2. 1 \in DOMAIN q
      BY <1>2
    <2> QED BY <2>1, <2>2, <1>2 DEF S!ToSet
  <1>5. ASSUME NEW i \in 1 .. (Len(q) - 1) PROVE Tail(q)[i] # Head(q)
    <2>1. i + 1 \in DOMAIN q /\ 1 \in DOMAIN q /\ i + 1 # 1
      BY <1>2
    <2> QED BY <2>1, <1>1, <1>2
  <1>6. ASSUME NEW j \in 1 .. (Len(q) - 1), NEW k \in 1 .. (Len(q) - 1), j # k
        PROVE  Tail(q)[j] # Tail(q)[k]
    <2>1. j + 1 \in DOMAIN q /\ k + 1 \in DOMAIN q /\ j + 1 # k + 1
      BY <1>2, <1>6
    <2> QED BY <2>1, <1>1, <1>2
  <1> QED BY <1>1, <1>2, <1>3, <1>4, <1>5, <1>6 DEF S!ToSet

\* A worker holds no more than one item.
LEMMA OnlyItem ==
    ASSUME S!TypeOK, IsFiniteSet(Cases), NEW w \in Workers, NEW i \in item[w]
    PROVE  item[w] = {i}
  <1>1. IsFiniteSet(item[w]) /\ Cardinality(item[w]) <= 1
    BY FS_Subset, SameCardinality DEF S!TypeOK
  <1>2. Cardinality(item[w]) \in Nat /\ Cardinality(item[w]) # 0
    BY <1>1, FS_CardinalityType, FS_EmptySet
  <1>3. Cardinality(item[w]) = 1
    BY <1>1, <1>2
  <1> QED BY <1>1, <1>3, FS_CardinalityType, FS_Singleton
-----------------------------------------------------------------------------
\* Nothing has been taken, and no worker has started.
LEMMA PoolStarts ==
    ASSUME NEW its \in SUBSET Cases, S!Start(its),
           tars \in [Cases -> Nat], sboms \in [Cases -> Nat \cup {S!Torn}]
    PROVE  SbomInvariant
  <1>1. Cardinality({}) = 0
    BY FS_EmptySet
  <1>2. S!ToSet(<< >>) = {} /\ DOMAIN << >> = {}
    BY DEF S!ToSet
  <1>3. S!TypeOK
    BY <1>1, SameCardinality DEF S!Start, S!TypeOK
  <1>4. HandsOK
    BY <1>2 DEF S!Start, HandsOK, Handed
  <1>5. QueueOK
    BY <1>2 DEF S!Start, QueueOK
  <1>6. NothingLost /\ ResultOK
    BY DEF S!Start, NothingLost, ResultOK
  <1> QED BY <1>3, <1>4, <1>5, <1>6 DEF SbomInvariant

\* Collect fills the queue and starts the workers, or ends the command when
\* nothing has a tar.
LEMMA CollectInvariant ==
    ASSUME SbomInvariant, S!Collect, Workers # {}, IsFiniteSet(Cases)
    PROVE  SbomInvariant'
  <1>1. S!Stat' = S!Stat /\ Handed' = Handed /\ Written' = Written
    BY DEF S!Collect, S!Stat, Handed, Written, S!files
  <1>2. Handed = {} /\ queue = << >> /\ firstErr = {}
    BY DEF SbomInvariant, HandsOK, QueueOK, S!Collect, Handed
  <1>3. CASE S!Stat = {}
    <2>1. UNCHANGED <<queue, worker>> /\ made' \in {"ok", "error"}
      BY <1>3 DEF S!Collect
    <2>2. S!TypeOK'
      BY <2>1 DEF SbomInvariant, S!TypeOK, S!Collect, S!files
    <2>3. HandsOK' /\ QueueOK' /\ NothingLost'
      BY <1>1, <2>1 DEF SbomInvariant, HandsOK, QueueOK, NothingLost, S!Collect, S!files
    <2>4. Written = {}
      BY <1>3 DEF Written
    <2>5. ResultOK'
      BY <1>1, <1>3, <2>1, <2>4 DEF ResultOK, S!Collect
    <2> QED BY <2>2, <2>3, <2>5 DEF SbomInvariant
  <1>4. CASE S!Stat # {}
    <2>1. /\ queue' \in S!SetToSeqs(S!Stat) /\ worker' = [w \in Workers |-> "take"]
          /\ UNCHANGED <<selected, S!files, item, data, firstErr, generated, made>>
      BY <1>4 DEF S!Collect
    <2>2. S!Stat \subseteq Cases /\ IsFiniteSet(S!Stat)
      <3>1. S!Stat \subseteq Cases
        BY DEF SbomInvariant, S!TypeOK, S!Stat
      <3> QED BY <3>1, FS_Subset
    <2>3. /\ queue' \in Seq(S!Stat) /\ S!ToSet(queue') = S!Stat
          /\ \A j, k \in DOMAIN queue' : j # k => queue'[j] # queue'[k]
      BY <2>1, <2>2, OrdersOfSet
    <2>4. queue' \in Seq(Cases)
      BY <2>2, <2>3, SeqMonotonic
    <2>5. S!TypeOK'
      BY <2>1, <2>4 DEF SbomInvariant, S!TypeOK, S!files
    <2>6. HandsOK'
      BY <1>1, <1>2, <2>1 DEF SbomInvariant, HandsOK, S!Collect, S!files
    <2>7. (\A w \in Workers : worker'[w] = "take") /\ \E w \in Workers : worker'[w] # "idle"
      BY <2>1
    <2>8. QueueOK'
      BY <1>1, <2>3, <2>7 DEF QueueOK
    <2>9. NothingLost'
      BY <1>1, <1>2, <2>3, <2>7 DEF NothingLost, Written
    <2>10. ResultOK'
      BY <1>1, <2>1 DEF S!Collect, ResultOK
    <2> QED BY <2>5, <2>6, <2>8, <2>9, <2>10 DEF SbomInvariant
  <1> QED BY <1>3, <1>4

\* A worker takes the head of the queue, or ends because there is none.
LEMMA TakeInvariant ==
    ASSUME SbomInvariant, NEW w \in Workers, S!Take(w)
    PROVE  SbomInvariant'
  <1>1. /\ worker[w] = "take" /\ item[w] = {} /\ made = "none"
        /\ \A v \in Workers : worker[v] # "idle"
        /\ UNCHANGED <<selected, tars, sboms, data, firstErr, generated, made>>
    BY DEF SbomInvariant, S!TypeOK, HandsOK, QueueOK, ResultOK, S!Take, S!files
  <1>2. S!Stat' = S!Stat /\ Written' = Written
    BY <1>1 DEF S!Stat, Written
  <1>3. CASE queue = << >>
    <2>1. UNCHANGED <<queue, item>> /\ worker' = [worker EXCEPT ![w] = "ended"]
      BY <1>3 DEF S!Take
    <2>2. S!TypeOK'
      BY <1>1, <2>1 DEF SbomInvariant, S!TypeOK
    <2>3. Handed' = Handed
      BY <2>1 DEF Handed
    <2>4. HandsOK'
      BY <1>1, <2>1, <2>3 DEF SbomInvariant, S!TypeOK, HandsOK
    <2>5. QueueOK' /\ NothingLost'
      <3>1. \A v \in Workers : worker'[v] = IF v = w THEN "ended" ELSE worker[v]
        BY <2>1 DEF SbomInvariant, S!TypeOK
      <3>2. QueueOK'
        BY <1>1, <1>2, <2>1, <3>1 DEF SbomInvariant, QueueOK
      <3>3. NothingLost'
        BY <1>1, <1>2, <1>3, <2>1, <2>3, <3>1 DEF SbomInvariant, NothingLost
      <3> QED BY <3>2, <3>3
    <2>6. ResultOK'
      BY <1>1 DEF ResultOK
    <2> QED BY <2>2, <2>4, <2>5, <2>6 DEF SbomInvariant
  <1>4. CASE queue # << >>
    <2> DEFINE i == Head(queue)
    <2>1. /\ item' = [item EXCEPT ![w] = {i}] /\ queue' = Tail(queue)
          /\ worker' = [worker EXCEPT ![w] = "generate"]
      BY <1>4 DEF S!Take
    <2>2. /\ queue' \in Seq(Cases) /\ i \in Cases
          /\ S!ToSet(queue) = S!ToSet(queue') \cup {i} /\ i \notin S!ToSet(queue')
          /\ \A j, k \in DOMAIN queue' : j # k => queue'[j] # queue'[k]
      <3>1. queue \in Seq(Cases) /\ \A j, k \in DOMAIN queue : j # k => queue[j] # queue[k]
        BY DEF SbomInvariant, S!TypeOK, QueueOK
      <3> QED BY <1>4, <2>1, <3>1, HeadIsTaken
    <2>3. Handed' = Handed \cup {i}
      BY <1>1, <2>1, <2>2 DEF SbomInvariant, S!TypeOK, Handed
    <2>4. S!TypeOK'
      <3>1. Cardinality({i}) = 1
        BY FS_Singleton
      <3> QED BY <1>1, <2>1, <2>2, <3>1, SameCardinality DEF SbomInvariant, S!TypeOK
    <2>5. HandsOK'
      <3>1. i \notin Handed
        BY <2>2 DEF SbomInvariant, HandsOK
      <3>2. \A v \in Workers : i \notin item[v]
        BY <2>2, <3>1 DEF Handed
      <3>3. (Handed \cap S!ToSet(queue) = {})'
        BY <2>2, <2>3 DEF SbomInvariant, HandsOK
      <3>4. \A v \in Workers : item'[v] = IF v = w THEN {i} ELSE item[v]
        BY <2>1 DEF SbomInvariant, S!TypeOK
      <3>5. \A v \in Workers : worker'[v] = IF v = w THEN "generate" ELSE worker[v]
        BY <2>1 DEF SbomInvariant, S!TypeOK
      <3> QED BY <1>1, <3>2, <3>3, <3>4, <3>5 DEF SbomInvariant, HandsOK
    <2>6. QueueOK'
      BY <1>1, <1>2, <2>1, <2>2 DEF SbomInvariant, S!TypeOK, QueueOK
    <2>7. NothingLost'
      <3> SUFFICES ASSUME firstErr = {}
                   PROVE  /\ S!Stat = S!ToSet(queue') \cup Handed' \cup Written
                          /\ \A v \in Workers : worker'[v] = "ended" => queue' = << >>
        BY <1>1, <1>2 DEF NothingLost
      <3>1. S!Stat = S!ToSet(queue) \cup Handed \cup Written
        BY <1>1 DEF SbomInvariant, NothingLost
      <3>2. \A v \in Workers : worker[v] # "ended"
        BY <1>4 DEF SbomInvariant, NothingLost
      <3> QED BY <2>1, <2>2, <2>3, <3>1, <3>2 DEF SbomInvariant, S!TypeOK
    <2>8. ResultOK'
      BY <1>1 DEF ResultOK
    <2> QED BY <2>4, <2>5, <2>6, <2>7, <2>8 DEF SbomInvariant
  <1> QED BY <1>3, <1>4

\* Generating an SBOM changes only what the worker holds in its hands.
LEMMA GeneratesInvariant ==
    ASSUME SbomInvariant, IsFiniteSet(Cases), NEW w \in Workers, S!Generate(w)
    PROVE  SbomInvariant'
  <1>1. /\ worker[w] = "generate" /\ item[w] # {} /\ made = "none"
        /\ worker' = [worker EXCEPT ![w] = "write"]
        /\ UNCHANGED <<selected, tars, sboms, queue, item, firstErr, generated, made>>
    BY DEF SbomInvariant, S!TypeOK, HandsOK, ResultOK, S!Generate, S!files
  <1>2. S!Stat' = S!Stat /\ Written' = Written /\ Handed' = Handed
    BY <1>1 DEF S!Stat, Written, Handed
  <1>3. PICK i \in item[w] : data' = [data EXCEPT ![w] = tars[i]]
    BY DEF S!Generate
  <1>4. i \in Cases /\ tars[i] \in Nat
    BY <1>3 DEF SbomInvariant, S!TypeOK
  <1>5. item[w] = {i}
    BY <1>3, OnlyItem DEF SbomInvariant
  <1>6. S!TypeOK'
    BY <1>1, <1>3, <1>4 DEF SbomInvariant, S!TypeOK
  <1>7. HandsOK'
    BY <1>1, <1>2, <1>3, <1>5 DEF SbomInvariant, S!TypeOK, HandsOK
  <1>8. QueueOK' /\ NothingLost'
    BY <1>1, <1>2 DEF SbomInvariant, S!TypeOK, QueueOK, NothingLost
  <1>9. ResultOK'
    BY <1>1 DEF ResultOK
  <1> QED BY <1>6, <1>7, <1>8, <1>9 DEF SbomInvariant

\* A written SBOM describes the tar as it is, and its item leaves the worker's
\* hands for the written ones.
LEMMA WriteInvariant ==
    ASSUME SbomInvariant, NEW w \in Workers, S!Write(w)
    PROVE  SbomInvariant'
  <1>1. /\ worker[w] = "write" /\ item[w] # {} /\ made = "none"
        /\ worker' = [worker EXCEPT ![w] = "take"]
        /\ item' = [item EXCEPT ![w] = {}]
        /\ sboms' = [i \in Cases |-> IF i \in item[w] THEN data[w] ELSE sboms[i]]
        /\ UNCHANGED <<selected, tars, queue, data, firstErr, made>>
    BY DEF SbomInvariant, S!TypeOK, HandsOK, ResultOK, S!Write
  <1>2. S!Stat' = S!Stat
    BY <1>1 DEF S!Stat
  <1>3. Handed' = Handed \ item[w]
    BY <1>1 DEF SbomInvariant, S!TypeOK, HandsOK, Handed
  <1>4. Written' = Written \cup (item[w] \cap S!Stat)
    <2>1. \A i \in item[w] : data[w] = tars[i]
      BY <1>1 DEF SbomInvariant, HandsOK
    <2>2. S!Stat \subseteq Cases
      BY DEF SbomInvariant, S!TypeOK, S!Stat
    <2>3. \A i \in S!Stat : sboms'[i] = IF i \in item[w] THEN tars[i] ELSE sboms[i]
      BY <1>1, <2>1, <2>2
    <2> QED BY <1>1, <1>2, <2>3 DEF Written
  <1>5. S!TypeOK'
    <2>1. Cardinality({}) = 0
      BY FS_EmptySet
    <2>2. generated' \in Nat /\ sboms' \in [Cases -> Nat \cup {S!Torn}]
      BY <1>1 DEF SbomInvariant, S!TypeOK, S!Write
    <2> QED BY <1>1, <2>1, <2>2, SameCardinality DEF SbomInvariant, S!TypeOK
  <1>6. HandsOK'
    BY <1>1, <1>3 DEF SbomInvariant, S!TypeOK, HandsOK
  <1>7. QueueOK'
    BY <1>1, <1>2 DEF SbomInvariant, S!TypeOK, QueueOK
  <1>8. NothingLost'
    BY <1>1, <1>2, <1>3, <1>4 DEF SbomInvariant, S!TypeOK, NothingLost
  <1>9. ResultOK'
    BY <1>1 DEF ResultOK
  <1> QED BY <1>5, <1>6, <1>7, <1>8, <1>9 DEF SbomInvariant

\* A failing worker leaves an error behind, whichever came first.
LEMMA FailsInvariant ==
    ASSUME SbomInvariant, NEW w \in Workers, S!Fails(w)
    PROVE  SbomInvariant'
  <1>1. /\ item[w] # {} /\ item[w] \subseteq Cases /\ made = "none"
        /\ worker[w] \in {"generate", "write"}
        /\ worker' = [worker EXCEPT ![w] = "ended"]
        /\ item' = [item EXCEPT ![w] = {}]
        /\ firstErr' = IF firstErr = {} THEN item[w] ELSE firstErr
        /\ UNCHANGED <<selected, tars, queue, data, generated, made>>
    BY DEF SbomInvariant, S!TypeOK, HandsOK, ResultOK, S!Fails
  <1>2. firstErr' # {}
    BY <1>1
  <1>3. Handed' = Handed \ item[w]
    BY <1>1 DEF SbomInvariant, S!TypeOK, HandsOK, Handed
  <1>4. S!TypeOK'
    <2>1. Cardinality({}) = 0
      BY FS_EmptySet
    <2>2. sboms' \in [Cases -> Nat \cup {S!Torn}]
      BY DEF SbomInvariant, S!TypeOK, S!Fails
    <2>3. firstErr' \subseteq Cases
      BY <1>1 DEF SbomInvariant, S!TypeOK
    <2> QED BY <1>1, <2>1, <2>2, <2>3, SameCardinality DEF SbomInvariant, S!TypeOK
  <1>5. HandsOK'
    BY <1>1, <1>3 DEF SbomInvariant, S!TypeOK, HandsOK
  <1>6. QueueOK'
    BY <1>1 DEF SbomInvariant, S!TypeOK, QueueOK, S!Stat
  <1>7. NothingLost' /\ ResultOK'
    BY <1>1, <1>2 DEF NothingLost, ResultOK
  <1> QED BY <1>4, <1>5, <1>6, <1>7 DEF SbomInvariant

\* Once every worker has ended without an error, the queue is empty and nobody
\* holds an item: everything is written.
LEMMA FinishInvariant ==
    ASSUME SbomInvariant, S!Finish, Workers # {}
    PROVE  SbomInvariant'
  <1>1. /\ \A w \in Workers : worker[w] = "ended"
        /\ made' = IF firstErr = {} THEN "ok" ELSE "error"
        /\ UNCHANGED <<selected, tars, sboms, queue, item, data, worker, firstErr, generated>>
    BY DEF S!Finish, S!files
  <1>2. S!Stat' = S!Stat /\ Written' = Written /\ Handed' = Handed
    BY <1>1 DEF S!Stat, Written, Handed
  <1>3. S!TypeOK' /\ HandsOK' /\ QueueOK' /\ NothingLost'
    BY <1>1, <1>2 DEF SbomInvariant, S!TypeOK, HandsOK, QueueOK, NothingLost
  <1>4. firstErr = {} => Written = S!Stat
    <2> SUFFICES ASSUME firstErr = {} PROVE Written = S!Stat
      OBVIOUS
    <2>1. queue = << >> /\ S!Stat = S!ToSet(queue) \cup Handed \cup Written
      BY <1>1 DEF SbomInvariant, NothingLost
    <2>2. S!ToSet(queue) = {}
      BY <2>1 DEF S!ToSet
    <2>3. Handed = {}
      BY <1>1 DEF SbomInvariant, HandsOK, Handed
    <2> QED BY <2>1, <2>2, <2>3
  <1>5. ResultOK'
    BY <1>1, <1>2, <1>4 DEF ResultOK
  <1> QED BY <1>3, <1>5 DEF SbomInvariant

\* The invariant says more of the same state.
LEMMA InvariantDescribes ==
    ASSUME SbomInvariant
    PROVE  S!SbomsDescribeTars
  <1>1. \A i \in Handed : ~ S!Contains(queue, i)
    <2>1. DOMAIN queue = 1 .. Len(queue)
      BY DEF SbomInvariant, S!TypeOK
    <2> QED BY <2>1 DEF SbomInvariant, HandsOK, S!Contains, S!ToSet
  <1> QED BY <1>1 DEF SbomInvariant, HandsOK, NothingLost, ResultOK, S!SbomsDescribeTars,
                      Handed, Written

\* Whatever worker goes on.
LEMMA SbomStep ==
    ASSUME SbomInvariant, S!Step
    PROVE  SbomInvariant'
  <1> QED BY Sizes, CollectInvariant, FinishInvariant, TakeInvariant, GeneratesInvariant,
             WriteInvariant, FailsInvariant DEF S!Step

\* The other commands leave the files and the workers alone.
LEMMA SbomKept ==
    ASSUME SbomInvariant, UNCHANGED sbomVars
    PROVE  SbomInvariant'
  <1>1. S!TypeOK'
    BY DEF sbomVars, SbomInvariant, S!TypeOK
  <1>2. S!Stat' = S!Stat /\ Handed' = Handed /\ Written' = Written
    BY DEF sbomVars, S!Stat, Handed, Written
  <1>3. HandsOK' /\ QueueOK' /\ NothingLost' /\ ResultOK'
    BY <1>2 DEF sbomVars, SbomInvariant, HandsOK, QueueOK, NothingLost, ResultOK
  <1> QED BY <1>1, <1>3 DEF SbomInvariant
-----------------------------------------------------------------------------
(* Buildkitd: `ch dev buildkitd start` and `stop`.                         *)

States == {"created", "running", "exited"}
Calls == {"none", "ok", "failed", "pull", "inspect", "remove", "create", "start", "wait",
          "find", "stop", "remove stopped"}
Owning == {"start", "wait", "ok"}

\* A container of its own: a start that has created one keeps an ID that no other
\* start has, and has started it when it goes on.
DevInvariant ==
    /\ created \in Nat \ {0}
    /\ container = {} \/ \E k \in [id : 1 .. created, state : States] : container = {k}
    /\ at \in [D!Commands -> Calls] /\ id \in [D!Commands -> 0 .. created]
    /\ ran \subseteq 1 .. created /\ stopped \subseteq 1 .. created
    /\ \A i \in ran \ stopped : [id |-> i, state |-> "running"] \in container
    /\ \A c \in Starts : at[c] \in {"wait", "ok"} => id[c] \in ran
    /\ \A c, d \in Starts :
          c # d /\ at[c] \in Owning /\ at[d] \in Owning => id[c] # id[d]

LEMMA DevStarts ==
    ASSUME NEW cs, D!Start(cs)
    PROVE  DevInvariant
  <1>1. at \in [D!Commands -> {"none", "pull", "find"}] /\ id = [c \in D!Commands |-> 0]
        /\ created = 1 /\ Starts \subseteq D!Commands
    BY DEF D!Start, D!Commands
  <1>2. container = {} \/ \E k \in [id : 1 .. created, state : States] : container = {k}
    BY <1>1 DEF D!Start, States
  <1>3. ran \subseteq 1 .. 1 /\ stopped \subseteq 1 .. 1
    BY <1>1, <1>2 DEF D!Start
  <1>4. \A i \in ran \ stopped : [id |-> i, state |-> "running"] \in container
    BY <1>1, <1>2 DEF D!Start
  <1>5. at \in [D!Commands -> Calls] /\ id \in [D!Commands -> 0 .. created]
    <2>1. {"none", "pull", "find"} \subseteq Calls /\ 0 \in 0 .. created
      BY <1>1 DEF Calls
    <2> QED BY <1>1, <2>1
  <1>6. \A c \in Starts : at[c] \notin Owning
    BY <1>1 DEF Owning
  <1> QED BY <1>1, <1>2, <1>3, <1>4, <1>5, <1>6 DEF DevInvariant, Owning

\* A call that only moves on: nothing but the position of the command changes,
\* and it does not come to own a container, or has it running.
LEMMA CommandMoves ==
    ASSUME DevInvariant, NEW c \in D!Commands, NEW p \in Calls,
           at' = [at EXCEPT ![c] = p],
           UNCHANGED <<container, created, id, ran, stopped>>,
           c \in Starts /\ p \in Owning => at[c] \in Owning,
           c \in Starts /\ p \in {"wait", "ok"} => id[c] \in ran
    PROVE  DevInvariant'
  BY DEF DevInvariant, Owning, D!Commands

\* The daemon leaves by itself.
LEMMA ExitKeeps ==
    ASSUME DevInvariant, D!Exit
    PROVE  DevInvariant'
  <1>1. PICK k \in [id : 1 .. created, state : States] : container = {k} /\ k.state = "running"
    BY DEF DevInvariant, D!Exit, D!Running
  <1>2. /\ container' = {[k EXCEPT !.state = "exited"]} /\ stopped' = stopped \cup {k.id}
        /\ UNCHANGED <<created, at, id, ran>>
    BY <1>1 DEF D!Exit, D!Stopped, D!Running
  <1>3. ran' \ stopped' = {}
    BY <1>1, <1>2 DEF DevInvariant
  <1> QED BY <1>1, <1>2, <1>3 DEF DevInvariant, States

\* The container is gone or replaced while it does not run: no daemon is lost.
LEMMA NothingRuns ==
    ASSUME DevInvariant, D!Running = {}
    PROVE  ran \subseteq stopped
  <1> SUFFICES ASSUME NEW i \in ran, i \notin stopped PROVE FALSE
    OBVIOUS
  <1>1. [id |-> i, state |-> "running"] \in container
    BY DEF DevInvariant
  <1> QED BY <1>1 DEF D!Running

\* The calls of a start.
LEMMA StartKeeps ==
    ASSUME DevInvariant, NEW c \in Starts,
           \/ D!Pull(c) \/ D!Inspect(c) \/ D!Remove(c) \/ D!Create(c)
           \/ D!StartContainer(c) \/ D!WaitReady(c)
    PROVE  DevInvariant'
  <1>0. c \in D!Commands /\ Starts \subseteq D!Commands
    BY DEF D!Commands
  <1>1. CASE D!Pull(c)
    BY <1>0, <1>1, CommandMoves DEF D!Pull, D!Go, Calls, Owning
  <1>2. CASE D!Inspect(c)
    <2>1. CASE UNCHANGED id
      BY <1>0, <1>2, <2>1, CommandMoves DEF D!Inspect, D!Go, Calls, Owning
    <2>2. CASE \E k \in container : id' = [id EXCEPT ![c] = k.id] /\ at' = [at EXCEPT ![c] = "remove"]
      <3>1. PICK k \in container : id' = [id EXCEPT ![c] = k.id] /\ at' = [at EXCEPT ![c] = "remove"]
        BY <2>2
      <3>2. k.id \in 0 .. created /\ UNCHANGED <<container, created, ran, stopped>>
        BY <1>2 DEF D!Inspect, DevInvariant
      <3>3. id' \in [D!Commands -> 0 .. created] /\ at' \in [D!Commands -> Calls]
        BY <3>1, <3>2 DEF DevInvariant, Calls
      <3>4. at'[c] \notin Owning /\ \A d \in Starts : d # c => at'[d] = at[d] /\ id'[d] = id[d]
        BY <1>0, <3>1 DEF DevInvariant, Owning
      <3> QED BY <3>2, <3>3, <3>4 DEF DevInvariant, Owning
    <2> QED BY <1>2, <2>1, <2>2 DEF D!Inspect, D!Go
  <1>3. CASE D!Remove(c)
    <2>1. CASE \E k \in container \ D!Running : k.id = id[c]
      <3>1. /\ container' = {} /\ at' = [at EXCEPT ![c] = "create"]
            /\ UNCHANGED <<created, id, ran, stopped>>
        BY <1>3, <2>1 DEF D!Remove, D!Go
      <3>2. D!Running = {}
        BY <2>1 DEF DevInvariant, D!Running
      <3> QED BY <1>0, <3>1, <3>2, NothingRuns DEF DevInvariant, Calls, Owning
    <2>2. CASE ~ \E k \in container \ D!Running : k.id = id[c]
      BY <1>0, <1>3, <2>2, CommandMoves DEF D!Remove, D!Go, Calls, Owning
    <2> QED BY <2>1, <2>2
  <1>4. CASE D!Create(c)
    <2>1. CASE container = {}
      <3>1. /\ created' = created + 1
            /\ container' = {[id |-> created', state |-> "created"]}
            /\ id' = [id EXCEPT ![c] = created'] /\ at' = [at EXCEPT ![c] = "start"]
            /\ UNCHANGED <<ran, stopped>>
        BY <1>4, <2>1 DEF D!Create, D!Go
      <3>2. ran \subseteq stopped
        BY <2>1, NothingRuns DEF D!Running
      <3>3. /\ created' \in Nat \ {0} /\ [id |-> created', state |-> "created"] \in [id : 1 .. created', state : States]
            /\ id' \in [D!Commands -> 0 .. created'] /\ ran \subseteq 1 .. created' /\ stopped \subseteq 1 .. created'
        BY <1>0, <3>1 DEF DevInvariant, States
      <3>4. \A d \in Starts : d # c => id'[d] = id[d] /\ id[d] # id'[c] /\ at'[d] = at[d]
        BY <1>0, <3>1 DEF DevInvariant
      <3>5. at' \in [D!Commands -> Calls] /\ at'[c] = "start"
        BY <1>0, <3>1 DEF DevInvariant, Calls
      <3> QED BY <3>1, <3>2, <3>3, <3>4, <3>5 DEF DevInvariant
    <2>2. CASE container # {}
      BY <1>0, <1>4, <2>2, CommandMoves DEF D!Create, D!Go, Calls, Owning
    <2> QED BY <2>1, <2>2
  <1>5. CASE D!StartContainer(c)
    <2>1. CASE at' = [at EXCEPT ![c] = "failed"] /\ UNCHANGED <<container, ran>>
      BY <1>0, <1>5, <2>1, CommandMoves DEF D!StartContainer, Calls, Owning
    <2>2. CASE /\ \E k \in container : k.id = id[c]
               /\ container' = {[id |-> id[c], state |-> "running"]}
               /\ ran' = ran \cup {id[c]}
               /\ at' = [at EXCEPT ![c] = "wait"]
      <3>1. id[c] \in 1 .. created /\ at[c] \in Owning /\ UNCHANGED <<created, id, stopped>>
        BY <1>5, <2>2 DEF D!StartContainer, DevInvariant, Owning
      <3>2. \A i \in ran \ stopped : i = id[c]
        <4> SUFFICES ASSUME NEW i \in ran \ stopped PROVE i = id[c]
          OBVIOUS
        <4>1. [id |-> i, state |-> "running"] \in container
          BY DEF DevInvariant
        <4>2. container = {[id |-> i, state |-> "running"]}
          BY <4>1 DEF DevInvariant
        <4> QED BY <2>2, <4>2
      <3>3. /\ at' \in [D!Commands -> Calls] /\ at'[c] = "wait"
            /\ \A d \in Starts : d # c => at'[d] = at[d]
        BY <1>0, <2>2 DEF DevInvariant, Calls
      <3>4. [id |-> id[c], state |-> "running"] \in [id : 1 .. created, state : States]
        BY <3>1 DEF States
      <3>5. \A i \in ran' \ stopped' : [id |-> i, state |-> "running"] \in container'
        BY <2>2, <3>1, <3>2
      <3> QED BY <1>0, <2>2, <3>1, <3>3, <3>4, <3>5 DEF DevInvariant, Owning
    <2> QED BY <1>5, <2>1, <2>2 DEF D!StartContainer, D!Go
  <1>6. CASE D!WaitReady(c)
    <2>1. id[c] \in ran
      BY <1>6 DEF D!WaitReady, DevInvariant
    <2> QED BY <1>0, <1>6, <2>1, CommandMoves DEF D!WaitReady, D!Go, Calls, Owning
  <1> QED BY <1>1, <1>2, <1>3, <1>4, <1>5, <1>6

\* The calls of a stop.
LEMMA StopKeeps ==
    ASSUME DevInvariant, NEW c \in D!Commands, c \notin Starts,
           D!Find(c) \/ D!Stop(c) \/ D!RemoveStopped(c)
    PROVE  DevInvariant'
  <1>1. CASE D!Find(c)
    BY <1>1, CommandMoves DEF D!Find, D!Go, Calls
  <1>2. CASE D!Stop(c)
    <2>1. PICK p \in Calls : at' = [at EXCEPT ![c] = p]
      BY <1>2 DEF D!Stop, D!Go, Calls
    <2>2. CASE container = {}
      <3>1. container' = container /\ stopped' = stopped
        BY <1>2, <2>2 DEF D!Stop, D!Stopped
      <3> QED BY <1>2, <2>1, <3>1, CommandMoves DEF D!Stop
    <2>3. CASE container # {}
      <3>1. PICK k \in [id : 1 .. created, state : States] : container = {k}
        BY <2>3 DEF DevInvariant
      <3>2. /\ container' = {[k EXCEPT !.state = "exited"]} /\ stopped' = stopped \cup {k.id}
            /\ UNCHANGED <<created, id, ran>>
        BY <1>2, <3>1 DEF D!Stop, D!Stopped
      <3>3. ran' \ stopped' = {}
        BY <3>1, <3>2 DEF DevInvariant
      <3> QED BY <2>1, <3>1, <3>2, <3>3 DEF DevInvariant, States, D!Commands
    <2> QED BY <2>2, <2>3
  <1>3. CASE D!RemoveStopped(c)
    <2>1. CASE container # {} /\ D!Running = {}
      <3>1. /\ container' = {} /\ at' = [at EXCEPT ![c] = "ok"]
            /\ UNCHANGED <<created, id, ran, stopped>>
        BY <1>3, <2>1 DEF D!RemoveStopped, D!Go
      <3> QED BY <2>1, <3>1, NothingRuns DEF DevInvariant, Calls, D!Commands
    <2>2. CASE ~ (container # {} /\ D!Running = {})
      BY <1>3, <2>2, CommandMoves DEF D!RemoveStopped, D!Go, Calls
    <2> QED BY <2>1, <2>2
  <1> QED BY <1>1, <1>2, <1>3

LEMMA DevStep ==
    ASSUME DevInvariant, D!Step
    PROVE  DevInvariant'
  BY ExitKeeps, StartKeeps, StopKeeps DEF D!Step, D!Command, D!Commands

\* The other commands leave the daemon alone.
LEMMA DevKept ==
    ASSUME DevInvariant, UNCHANGED devVars
    PROVE  DevInvariant'
  BY DEF devVars, DevInvariant

\* The invariant says more of the same state.
LEMMA DevInvariantKeeps ==
    ASSUME DevInvariant
    PROVE  D!DaemonsAreKept
  <1>1. D!TypeOK
    <2>1. Cardinality({}) = 0 /\ \A k : Cardinality({k}) = 1
      BY FS_EmptySet, FS_Singleton
    <2>2. D!Cardinality(container) \in {0, 1}
      BY <2>1, SameCardinality DEF DevInvariant
    <2> QED BY <2>2 DEF DevInvariant, D!TypeOK, States
  <1> QED BY <1>1 DEF DevInvariant, D!DaemonsAreKept, Owning
-----------------------------------------------------------------------------
(* Backends: the builds that share a daemon.                               *)

Script == {"clone", "cloning", "fetch", "checkout", "checking out", "cut"}
Cached(b) == Contexts[b].cache
Kept(b) == B!Checkout(b)

CutTypes ==
    /\ remote \in [Repos -> [Refs -> 1 .. MaxCommits]] /\ online \in BOOLEAN
    /\ checkouts \in [B!Dirs -> [git : {"none", "partial", "whole"}, refs : [Refs -> Nat],
                                 tree : Nat \cup {B!Mixed}, locks : SUBSET {"index", "refs"}]]
    /\ debs \subseteq B!Dirs /\ hurt \subseteq B!Dirs
    /\ phase \in [Builds -> B!Phases]
    /\ begun \in [Builds -> Nat] /\ got \in [Builds -> Nat \cup {B!Mixed}]
    /\ tool = [b \in Builds |-> tool[b]] /\ cause = [b \in Builds |-> cause[b]]
    /\ out = [b \in Builds |-> out[b]] /\ env = [b \in Builds |-> env[b]]

\* The script of a build with a cache has the mount for itself, until its image
\* is assembled.
HolderOK ==
    /\ holder \subseteq Builds /\ \A a, b \in holder : a = b
    /\ \A b \in B!Chisel : phase[b] \in Script \cup {"assemble"} /\ Cached(b) => holder = {b}

\* What is half done in a release directory is being done, or was when a script
\* was killed.
DirOK(d) ==
    /\ checkouts[d].git = "partial" =>
          d \in hurt \/ \E b \in B!Chisel : B!checkoutDir(b) = d /\ phase[b] = "cloning"
    /\ "index" \in checkouts[d].locks =>
          d \in hurt \/ \E b \in B!Chisel : B!checkoutDir(b) = d /\ phase[b] = "checking out"
    /\ "refs" \in checkouts[d].locks => d \in hurt

\* What a script may expect of its checkout at each of its commands.
CheckoutOK(b) ==
    /\ phase[b] = "fetch" => Kept(b).git # "none" /\ Cached(b)
    /\ phase[b] \in {"none", "resolve", "solve", "clone"} /\ ~ Cached(b) =>
          Kept(b).git = "none" /\ Kept(b).locks = {}
    /\ phase[b] \in {"cloning", "checkout"} /\ ~ Cached(b) => Kept(b).locks = {}
    /\ phase[b] \in {"checkout", "checking out"} =>
          Kept(b).refs[Contexts[b].ref] \in begun[b] .. B!Newest(b)
    /\ phase[b] = "cut" => Kept(b).tree \in begun[b] .. B!Newest(b)

\* What is known of the commit and the tool of a build, and of its failure.
CommitOK(b) ==
    /\ phase[b] \in {"none", "resolve", "solve"} => begun[b] = 0
    /\ phase[b] \in Script => begun[b] \in 1 .. B!Newest(b)
    /\ phase[b] \in {"assemble", "export", "built"} =>
          got[b] \in 1 .. B!Newest(b) /\ begun[b] <= got[b]
    /\ (phase[b] \in Script \cup {"solve", "assemble", "export", "built"}
            /\ Contexts[b].pin # B!NoVersion) => tool[b] = Contexts[b].pin
    /\ phase[b] = "failed" /\ cause[b] \in {"clone", "lock"} =>
          Cached(b) /\ B!checkoutDir(b) \in hurt

ImageOK(b) ==
    /\ phase[b] \in {"export", "built"} => out[b] = B!Assembled(b) /\ ~ B!AssemblyFails(b)
    /\ phase[b] = "built" => env[b] = B!Over(Contexts[b].env, Contexts[b].parentEnv)

BuildOK(b) ==
    /\ phase[b] \in Script => b \in B!Chisel
    /\ b \in B!Chisel => CheckoutOK(b) /\ CommitOK(b)
    /\ ImageOK(b)

CutInvariant ==
    /\ CutTypes /\ HolderOK
    /\ \A d \in B!Dirs : DirOK(d)
    /\ \A b \in Builds : BuildOK(b)
-----------------------------------------------------------------------------
\* Two builds work in one directory only if both use the cache.
LEMMA SameDirectory ==
    ASSUME NEW a \in B!Chisel, NEW b \in B!Chisel, a # b,
           B!checkoutDir(a) = B!checkoutDir(b)
    PROVE  Cached(a) /\ Cached(b)
  <1>1. a \in Builds /\ b \in Builds /\ "cache" \notin Builds
    BY JobsAssumption DEF JobsAssumption, B!Chisel
  <1>2. (IF Contexts[a].cache THEN "cache" ELSE a) = (IF Contexts[b].cache THEN "cache" ELSE b)
    BY DEF B!checkoutDir
  <1> QED BY <1>1, <1>2 DEF Cached

\* While a script runs nobody else works in its directory, or has one to itself
\* there.
LEMMA Exclusive ==
    ASSUME HolderOK, NEW a \in B!Chisel, NEW b \in B!Chisel, a # b,
           phase[b] \in Script, phase[a] \in Script \/ ~ Cached(a)
    PROVE  B!checkoutDir(a) # B!checkoutDir(b)
  BY SameDirectory DEF HolderOK

LEMMA NewestType ==
    ASSUME CutTypes, NEW b \in Builds
    PROVE  B!Newest(b) \in 1 .. MaxCommits /\ MaxCommits \in Nat \ {0}
  BY JobsAssumption DEF JobsAssumption, CutTypes, B!Newest

\* A build stays as it is while its commit, its checkout if it works there, and
\* the history that it has made stay.
LEMMA BuildKept ==
    ASSUME CutTypes, NEW a \in Builds, BuildOK(a),
           phase'[a] = phase[a], begun'[a] = begun[a], got'[a] = got[a], tool'[a] = tool[a],
           out'[a] = out[a], env'[a] = env[a], cause'[a] = cause[a],
           hurt \subseteq hurt',
           B!Newest(a)' \in B!Newest(a) .. MaxCommits,
           a \in B!Chisel /\ (phase[a] \in Script \/ ~ Cached(a)) =>
              checkouts'[B!checkoutDir(a)] = checkouts[B!checkoutDir(a)]
    PROVE  BuildOK(a)'
  <1>1. B!Newest(a) \in 1 .. MaxCommits /\ MaxCommits \in Nat /\ B!Newest(a)' \in Nat
        /\ B!Newest(a) <= B!Newest(a)' /\ begun[a] \in Nat /\ got[a] \in Int
    BY NewestType DEF CutTypes, B!Mixed
  <1>2. \A n : n \in begun[a] .. B!Newest(a) => n \in begun[a] .. B!Newest(a)'
    BY <1>1
  <1>3. \A n : n \in 1 .. B!Newest(a) => n \in 1 .. B!Newest(a)'
    BY <1>1
  <1>4. ASSUME a \in B!Chisel PROVE CheckoutOK(a)'
    <2>1. (phase[a] \in Script \/ ~ Cached(a)) => Kept(a)' = Kept(a)
      BY <1>4 DEF Kept, B!Checkout
    <2> QED BY <1>2, <1>4, <2>1 DEF BuildOK, CheckoutOK, Script, Cached
  <1>5. ASSUME a \in B!Chisel PROVE CommitOK(a)'
    BY <1>3, <1>5 DEF BuildOK, CommitOK, Cached
  <1>6. ImageOK(a)'
    BY DEF BuildOK, ImageOK
  <1> QED BY <1>4, <1>5, <1>6 DEF BuildOK

\* A directory stays as it is while nobody works in it.
LEMMA DirKept ==
    ASSUME CutTypes, NEW d \in B!Dirs, DirOK(d),
           checkouts'[d] = checkouts[d], hurt \subseteq hurt',
           \A a \in B!Chisel : B!checkoutDir(a) = d => phase'[a] = phase[a]
    PROVE  DirOK(d)'
  BY DEF DirOK

\* The mount is handed on only by the build that has it.
LEMMA HolderMoves ==
    ASSUME CutTypes, HolderOK, NEW b \in Builds, NEW p, phase' = [phase EXCEPT ![b] = p],
           \/ /\ holder' = holder
              /\ p \in Script \cup {"assemble"} /\ b \in B!Chisel /\ Cached(b) =>
                    phase[b] \in Script \cup {"assemble"}
           \/ holder' = holder \ {b} /\ p \notin Script \cup {"assemble"}
    PROVE  HolderOK'
  <1>1. \A a \in Builds : phase'[a] = IF a = b THEN p ELSE phase[a]
    BY DEF CutTypes
  <1>2. B!Chisel \subseteq Builds
    BY DEF B!Chisel
  <1> QED BY <1>1, <1>2 DEF HolderOK, Cached

\* A step of a build b leaves the invariant of the others alone, so that its own
\* part and that of its directory are left to show.
LEMMA BuildMoves ==
    ASSUME CutInvariant, NEW b \in Builds, NEW p, phase' = [phase EXCEPT ![b] = p],
           remote' = remote, hurt \subseteq hurt',
           \A a \in Builds \ {b} :
              /\ begun'[a] = begun[a] /\ got'[a] = got[a] /\ tool'[a] = tool[a]
              /\ out'[a] = out[a] /\ env'[a] = env[a] /\ cause'[a] = cause[a],
           \/ checkouts' = checkouts
           \/ /\ b \in B!Chisel /\ phase[b] \in Script
              /\ \E c : checkouts' = [checkouts EXCEPT ![B!checkoutDir(b)] = c],
           CutTypes', HolderOK', BuildOK(b)',
           b \in B!Chisel => DirOK(B!checkoutDir(b))'
    PROVE  CutInvariant'
  <1>1. \A a \in Builds \ {b} : phase'[a] = phase[a]
    BY DEF CutInvariant, CutTypes
  <1>2. B!Chisel \subseteq Builds /\ \A a \in B!Chisel : B!checkoutDir(a) \in B!Dirs
    BY DEF B!Chisel, B!Dirs
  <1>3. \A d \in B!Dirs : (b \in B!Chisel => d # B!checkoutDir(b)) => checkouts'[d] = checkouts[d]
    BY DEF CutInvariant, CutTypes
  <1>4. ASSUME NEW a \in Builds, a # b PROVE BuildOK(a)'
    <2>1. B!Newest(a)' \in B!Newest(a) .. MaxCommits
      BY NewestType DEF CutInvariant, B!Newest
    <2>2. a \in B!Chisel /\ (phase[a] \in Script \/ ~ Cached(a)) =>
             checkouts'[B!checkoutDir(a)] = checkouts[B!checkoutDir(a)]
      <3>1. CASE checkouts' = checkouts
        BY <3>1
      <3>2. CASE b \in B!Chisel /\ phase[b] \in Script
        BY <1>2, <1>3, <1>4, <3>2, Exclusive DEF CutInvariant
      <3> QED BY <3>1, <3>2
    <2> QED BY <1>1, <1>4, <2>1, <2>2, BuildKept DEF CutInvariant
  <1>5. ASSUME NEW d \in B!Dirs PROVE DirOK(d)'
    <2>1. CASE b \in B!Chisel /\ d = B!checkoutDir(b)
      BY <2>1
    <2>2. CASE ~ (b \in B!Chisel /\ d = B!checkoutDir(b))
      <3>1. \A a \in B!Chisel : B!checkoutDir(a) = d => phase'[a] = phase[a]
        BY <1>1, <1>2, <2>2
      <3> QED BY <1>3, <2>2, <3>1, DirKept DEF CutInvariant
    <2> QED BY <2>1, <2>2
  <1> QED BY <1>4, <1>5 DEF CutInvariant

\* The release of the environment only gets newer.
LEMMA EnvironmentMoves ==
    ASSUME CutInvariant,
           B!Network \/ \E q \in Repos, r \in Refs : B!Commit(q, r)
    PROVE  CutInvariant'
  <1>1. UNCHANGED <<B!cacheMount, phase, tool, B!image, B!history>>
    BY DEF B!Network, B!Commit
  <1>2. CutTypes' /\ \A b \in Builds : B!Newest(b)' \in B!Newest(b) .. MaxCommits
    <2>1. CASE B!Network
      <3>1. remote' = remote /\ online' \in BOOLEAN
        BY <2>1 DEF B!Network
      <3>2. CutTypes'
        BY <1>1, <3>1 DEF CutInvariant, CutTypes, B!cacheMount, B!image, B!history
      <3> QED BY <3>1, <3>2, NewestType DEF CutInvariant, B!Newest
    <2>2. ASSUME NEW q \in Repos, NEW r \in Refs, B!Commit(q, r)
          PROVE  CutTypes' /\ \A b \in Builds : B!Newest(b)' \in B!Newest(b) .. MaxCommits
      <3>1. remote' = [remote EXCEPT ![q][r] = @ + 1] /\ remote[q][r] < MaxCommits /\ online' = online
        BY <2>2 DEF B!Commit
      <3>2. MaxCommits \in Nat \ {0}
        BY JobsAssumption DEF JobsAssumption
      <3>3. remote' \in [Repos -> [Refs -> 1 .. MaxCommits]]
        BY <3>1, <3>2 DEF CutInvariant, CutTypes
      <3>4. CutTypes'
        BY <1>1, <3>1, <3>3 DEF CutInvariant, CutTypes, B!cacheMount, B!image, B!history
      <3>5. ASSUME NEW b \in Builds PROVE B!Newest(b)' \in B!Newest(b) .. MaxCommits
        <4>1. Contexts[b].repo \in Repos /\ Contexts[b].ref \in Refs
          BY JobsAssumption DEF JobsAssumption
        <4> QED BY <3>1, <3>2, <4>1 DEF CutInvariant, CutTypes, B!Newest
      <3> QED BY <3>4, <3>5
    <2> QED BY <2>1, <2>2
  <1>3. HolderOK'
    BY <1>1 DEF CutInvariant, HolderOK, B!cacheMount
  <1>4. \A d \in B!Dirs : DirOK(d)'
    BY <1>1, DirKept DEF CutInvariant, B!cacheMount, B!history
  <1>5. \A b \in Builds : BuildOK(b)'
    BY <1>1, <1>2, BuildKept DEF CutInvariant, B!cacheMount, B!image, B!history
  <1> QED BY <1>2, <1>3, <1>4, <1>5 DEF CutInvariant

\* A build that fails leaves the mount, and the directory as it was; only git can
\* have failed for what another build has left there.
LEMMA FailKeeps ==
    ASSUME CutInvariant, NEW b \in Builds, NEW why, B!Fail(b, why),
           UNCHANGED <<B!environment, checkouts, tool, out, env>>,
           phase[b] \notin {"cloning", "checking out"},
           debs' \subseteq B!Dirs, got' \in [Builds -> Nat \cup {B!Mixed}],
           \A a \in Builds \ {b} : got'[a] = got[a],
           b \in B!Chisel /\ why \in {"clone", "lock"} => Cached(b) /\ B!checkoutDir(b) \in hurt
    PROVE  CutInvariant'
  <1>1. /\ phase' = [phase EXCEPT ![b] = "failed"] /\ cause' = [cause EXCEPT ![b] = why]
        /\ holder' = holder \ {b} /\ UNCHANGED <<begun, hurt>>
    BY DEF B!Fail, B!Go
  <1>2. CutTypes'
    BY <1>1 DEF CutInvariant, CutTypes, B!environment, B!Phases
  <1>3. HolderOK'
    BY <1>1, HolderMoves DEF CutInvariant, Script
  <1>4. phase'[b] = "failed" /\ cause'[b] = why
    BY <1>1 DEF CutInvariant, CutTypes
  <1>5. BuildOK(b)'
    BY <1>1, <1>4 DEF BuildOK, CheckoutOK, CommitOK, ImageOK, Script, Cached
  <1>6. b \in B!Chisel => DirOK(B!checkoutDir(b))'
    <2> SUFFICES ASSUME b \in B!Chisel PROVE DirOK(B!checkoutDir(b))'
      OBVIOUS
    <2>1. DirOK(B!checkoutDir(b))
      BY DEF CutInvariant, B!Dirs
    <2>2. \A a \in B!Chisel : phase[a] \in {"cloning", "checking out"} => phase'[a] = phase[a]
      BY <1>1 DEF CutInvariant, CutTypes, B!Chisel
    <2> QED BY <1>1, <2>1, <2>2 DEF DirOK
  <1>7. \A a \in Builds \ {b} : cause'[a] = cause[a]
    BY <1>1 DEF CutInvariant, CutTypes
  <1> QED BY <1>1, <1>2, <1>3, <1>5, <1>6, <1>7, BuildMoves DEF B!environment

\* A step that only moves on, from and to commands that do not run git.
LEMMA PhaseMoves ==
    ASSUME CutInvariant, NEW b \in Builds, NEW p \in B!Phases, phase' = [phase EXCEPT ![b] = p],
           checkouts' = checkouts, remote' = remote, hurt' = hurt,
           phase[b] \notin {"cloning", "checking out"},
           \A a \in Builds \ {b} :
              /\ begun'[a] = begun[a] /\ got'[a] = got[a] /\ tool'[a] = tool[a]
              /\ out'[a] = out[a] /\ env'[a] = env[a] /\ cause'[a] = cause[a],
           CutTypes', HolderOK', BuildOK(b)'
    PROVE  CutInvariant'
  <1>1. b \in B!Chisel => DirOK(B!checkoutDir(b))'
    <2> SUFFICES ASSUME b \in B!Chisel PROVE DirOK(B!checkoutDir(b))'
      OBVIOUS
    <2>1. DirOK(B!checkoutDir(b))
      BY DEF CutInvariant, B!Dirs
    <2>2. \A a \in B!Chisel : phase[a] \in {"cloning", "checking out"} => phase'[a] = phase[a]
      BY DEF CutInvariant, CutTypes, B!Chisel
    <2> QED BY <2>1, <2>2 DEF DirOK
  <1> QED BY <1>1, BuildMoves

\* The tool is fixed once the inputs are resolved.
LEMMA ResolveKeeps ==
    ASSUME CutInvariant, NEW b \in Builds, B!Resolve(b)
    PROVE  CutInvariant'
  <1>0. phase[b] = "resolve" /\ UNCHANGED <<B!environment, checkouts, debs, B!image>>
    BY DEF B!Resolve, B!At
  <1>1. CASE \E why \in {"network", "platform"} : B!Fail(b, why) /\ UNCHANGED tool
    BY <1>0, <1>1, FailKeeps DEF CutInvariant, CutTypes, B!image
  <1>2. CASE /\ phase' = [phase EXCEPT ![b] = "solve"]
             /\ tool' = [tool EXCEPT ![b] = IF b \in B!Chisel THEN B!Tool(b) ELSE B!NoVersion]
             /\ UNCHANGED <<holder, begun, cause, hurt>>
    <2>1. CutTypes'
      BY <1>0, <1>2 DEF CutInvariant, CutTypes, B!environment, B!image, B!Phases
    <2>2. HolderOK'
      BY <1>2, HolderMoves DEF CutInvariant, Script
    <2>3. phase'[b] = "solve" /\ (b \in B!Chisel => tool'[b] = B!Tool(b))
      BY <1>2 DEF CutInvariant, CutTypes
    <2>4. Contexts[b].pin # B!NoVersion => B!Tool(b) = Contexts[b].pin
      BY DEF B!Tool, B!needsChiselDownload
    <2>5. BuildOK(b) /\ Kept(b)' = Kept(b)
      BY <1>0 DEF CutInvariant, Kept, B!Checkout
    <2>6. BuildOK(b)'
      BY <1>0, <1>2, <2>3, <2>4, <2>5 DEF BuildOK, CheckoutOK, CommitOK, ImageOK, Script, Cached
    <2>7. \A a \in Builds \ {b} : tool'[a] = tool[a]
      BY <1>2 DEF CutInvariant, CutTypes
    <2>8. "solve" \in B!Phases
      BY DEF B!Phases
    <2> QED BY <1>0, <1>2, <2>1, <2>2, <2>6, <2>7, <2>8, PhaseMoves
            DEF B!environment, B!image
  <1> QED BY <1>1, <1>2 DEF B!Resolve, B!Go

\* What is assembled depends on nothing but the context of a build.
LEMMA SameContext ==
    ASSUME NEW a \in Builds, NEW b \in Builds, Contexts[a] = Contexts[b]
    PROVE  B!Assembled(a) = B!Assembled(b) /\ B!AssemblyFails(a) = B!AssemblyFails(b)
  <1>1. (a \in B!Chisel) = (b \in B!Chisel) /\ B!Seen(a) = B!Seen(b) /\ B!Laid(a) = B!Laid(b)
    BY DEF B!Chisel, B!Seen, B!Laid
  <1>2. B!Redirected(a) = B!Redirected(b)
    BY <1>1 DEF B!Redirected
  <1>3. B!Under(a) = B!Under(b)
    BY <1>1, <1>2 DEF B!Under, B!Moved
  <1>4. B!Staying(a) = B!Staying(b) /\ B!Last(a) = B!Last(b)
    <2>1. \A n : B!Entry(a, n) = B!Entry(b, n)
      BY <1>1 DEF B!Entry
    <2> QED BY <1>1, <1>2, <2>1 DEF B!Staying, B!Last
  <1>5. B!Merged(a) = B!Merged(b)
    BY <1>3, <1>4 DEF B!Merged
  <1>6. B!LeadsNowhere(a) = B!LeadsNowhere(b)
    BY <1>1 DEF B!LeadsNowhere
  <1> QED BY <1>3, <1>4, <1>5, <1>6 DEF B!Assembled, B!AssemblyFails

\* A result that is reused was made of the same inputs.
LEMMA CacheHitKeeps ==
    ASSUME CutInvariant, NEW b \in Builds, B!CacheHit(b)
    PROVE  CutInvariant'
  <1>1. PICK a \in Builds \ {b} :
           /\ Contexts[a] = Contexts[b] /\ phase[a] \in {"export", "built"}
           /\ got' = [got EXCEPT ![b] = got[a]] /\ out' = [out EXCEPT ![b] = out[a]]
    BY DEF B!CacheHit
  <1>2. /\ phase[b] = "solve" /\ phase' = [phase EXCEPT ![b] = "export"]
        /\ UNCHANGED <<B!environment, B!cacheMount, tool, env, B!history>>
    BY DEF B!CacheHit, B!At, B!Go
  <1>3. CutTypes'
    BY <1>1, <1>2 DEF CutInvariant, CutTypes, B!environment, B!cacheMount, B!history, B!Phases
  <1>4. HolderOK'
    BY <1>2, HolderMoves DEF CutInvariant, Script, B!cacheMount
  <1>5. /\ phase'[b] = "export" /\ got'[b] = got[a] /\ out'[b] = out[a]
        /\ \A c \in Builds \ {b} : got'[c] = got[c] /\ out'[c] = out[c]
    BY <1>1, <1>2 DEF CutInvariant, CutTypes
  <1>6. B!Newest(a) = B!Newest(b) /\ B!Newest(b)' = B!Newest(b) /\ (b \in B!Chisel => a \in B!Chisel)
    BY <1>1, <1>2 DEF B!Newest, B!environment, B!Chisel
  <1>7. out[a] = B!Assembled(b) /\ ~ B!AssemblyFails(b)
    BY <1>1, SameContext DEF CutInvariant, BuildOK, ImageOK
  <1>8. BuildOK(b)'
    <2>1. ImageOK(b)'
      BY <1>5, <1>7 DEF ImageOK
    <2>2. ASSUME b \in B!Chisel PROVE CheckoutOK(b)' /\ CommitOK(b)'
      <3>1. begun'[b] = 0 /\ tool'[b] = tool[b] /\ (Contexts[b].pin # B!NoVersion => tool[b] = Contexts[b].pin)
        BY <1>2, <2>2 DEF CutInvariant, BuildOK, CommitOK, B!history
      <3>2. got[a] \in 1 .. B!Newest(b)
        BY <1>1, <1>6, <2>2 DEF CutInvariant, BuildOK, CommitOK
      <3> QED BY <1>5, <1>6, <3>1, <3>2 DEF CheckoutOK, CommitOK, Script
    <2> QED BY <1>5, <2>1, <2>2 DEF BuildOK, Script
  <1>9. "export" \in B!Phases
    BY DEF B!Phases
  <1> QED BY <1>2, <1>3, <1>4, <1>5, <1>8, <1>9, PhaseMoves DEF B!environment, B!cacheMount, B!history

\* A script begins when nobody else has the mount.
LEMMA MountKeeps ==
    ASSUME CutInvariant, NEW b \in Builds, B!Mount(b)
    PROVE  CutInvariant'
  <1>1. /\ phase[b] = "solve" /\ b \in B!Chisel /\ phase' = [phase EXCEPT ![b] = "clone"]
        /\ (Contexts[b].cache => holder = {}) /\ holder' = IF Contexts[b].cache THEN {b} ELSE holder
        /\ begun' = [begun EXCEPT ![b] = B!Newest(b)]
        /\ UNCHANGED <<B!environment, checkouts, debs, tool, B!image, asked, cause, hurt>>
    BY DEF B!Mount, B!At, B!Go
  <1>2. B!Newest(b) \in 1 .. MaxCommits /\ MaxCommits \in Nat /\ B!Newest(b)' = B!Newest(b)
    BY <1>1, NewestType DEF CutInvariant, B!Newest, B!environment
  <1>3. CutTypes'
    <2>1. begun' \in [Builds -> Nat]
      <3>1. B!Newest(b) \in Nat /\ begun \in [Builds -> Nat]
        BY <1>2 DEF CutInvariant, CutTypes
      <3> QED BY <1>1, <3>1
    <2>2. phase' \in [Builds -> B!Phases]
      BY <1>1 DEF CutInvariant, CutTypes, B!Phases
    <2> QED BY <1>1, <2>1, <2>2 DEF CutInvariant, CutTypes, B!environment, B!image
  <1>4. phase'[b] = "clone" /\ begun'[b] = B!Newest(b)
        /\ \A a \in Builds \ {b} : phase'[a] = phase[a] /\ begun'[a] = begun[a]
    BY <1>1 DEF CutInvariant, CutTypes
  <1>5. HolderOK'
    <2>1. CASE Contexts[b].cache
      BY <1>1, <1>4, <2>1 DEF CutInvariant, HolderOK, B!Chisel
    <2>2. CASE ~ Contexts[b].cache
      BY <1>1, <2>2, HolderMoves DEF CutInvariant, Cached
    <2> QED BY <2>1, <2>2
  <1>6. BuildOK(b)'
    <2>1. BuildOK(b) /\ Kept(b)' = Kept(b)
      BY <1>1 DEF CutInvariant, Kept, B!Checkout
    <2>2. CheckoutOK(b)'
      BY <1>1, <1>4, <2>1 DEF BuildOK, CheckoutOK, Cached
    <2>3. CommitOK(b)'
      <3>1. begun'[b] \in 1 .. B!Newest(b)'
        BY <1>2, <1>4
      <3>2. Contexts[b].pin # B!NoVersion => tool'[b] = Contexts[b].pin
        BY <1>1, <2>1 DEF BuildOK, CommitOK
      <3> QED BY <1>4, <3>1, <3>2 DEF CommitOK
    <2>4. ImageOK(b)'
      BY <1>4 DEF ImageOK
    <2> QED BY <1>1, <2>2, <2>3, <2>4 DEF BuildOK, B!Chisel
  <1>7. "clone" \in B!Phases
    BY DEF B!Phases
  <1> QED BY <1>1, <1>3, <1>4, <1>5, <1>6, <1>7, PhaseMoves DEF B!environment, B!image

Checkouts == [git : {"none", "partial", "whole"}, refs : [Refs -> Nat],
              tree : Nat \cup {B!Mixed}, locks : SUBSET {"index", "refs"}]

\* What the commands of git change of a checkout, and what they leave.
LEMMA WithLocks ==
    ASSUME NEW c \in Checkouts, NEW locks \in SUBSET {"index", "refs"}
    PROVE  /\ [c EXCEPT !.locks = locks] \in Checkouts
           /\ [c EXCEPT !.locks = locks].git = c.git
           /\ [c EXCEPT !.locks = locks].locks = locks
  BY DEF Checkouts

LEMMA CheckoutParts ==
    ASSUME NEW c \in Checkouts
    PROVE  /\ c.git \in {"none", "partial", "whole"} /\ c.refs \in [Refs -> Nat]
           /\ c.tree \in Nat \cup {B!Mixed} /\ c.locks \in SUBSET {"index", "refs"}
           /\ c.locks \cup {"index"} \in SUBSET {"index", "refs"}
           /\ c.locks \cup {"refs"} \in SUBSET {"index", "refs"}
           /\ c.locks \ {"index"} \in SUBSET {"index", "refs"}
  BY DEF Checkouts

\* What a script has at hand.
LEMMA AtHand ==
    ASSUME CutInvariant, NEW b \in Builds, phase[b] \in Script
    PROVE  /\ b \in B!Chisel /\ B!checkoutDir(b) \in B!Dirs
           /\ Kept(b) \in Checkouts /\ Kept(b) = checkouts[B!checkoutDir(b)]
           /\ CheckoutOK(b) /\ CommitOK(b) /\ DirOK(B!checkoutDir(b))
           /\ begun[b] \in 1 .. B!Newest(b) /\ B!Newest(b) \in 1 .. MaxCommits
           /\ MaxCommits \in Nat
           /\ remote[Contexts[b].repo] \in [Refs -> Nat] /\ Contexts[b].ref \in Refs
           /\ B!Newest(b) = remote[Contexts[b].repo][Contexts[b].ref]
  <1>1. b \in B!Chisel
    BY DEF CutInvariant, BuildOK
  <1>2. B!checkoutDir(b) \in B!Dirs
    BY <1>1 DEF B!Dirs
  <1>3. Contexts[b].repo \in Repos /\ Contexts[b].ref \in Refs /\ MaxCommits \in Nat
    BY JobsAssumption DEF JobsAssumption
  <1>4. remote[Contexts[b].repo] \in [Refs -> Nat]
    BY <1>3 DEF CutInvariant, CutTypes
  <1>5. begun[b] \in 1 .. B!Newest(b) /\ B!Newest(b) \in 1 .. MaxCommits
    BY <1>1, NewestType DEF CutInvariant, BuildOK, CommitOK
  <1> QED BY <1>1, <1>2, <1>3, <1>4, <1>5
          DEF CutInvariant, CutTypes, BuildOK, Kept, B!Checkout, Checkouts, B!Newest

\* A command of git that goes on: it changes the checkout of its own build.
LEMMA GitMoves ==
    ASSUME CutInvariant, NEW b \in Builds, phase[b] \in Script, NEW p \in Script,
           phase' = [phase EXCEPT ![b] = p], NEW c \in Checkouts,
           checkouts' = [checkouts EXCEPT ![B!checkoutDir(b)] = c],
           UNCHANGED <<B!environment, holder, debs, tool, B!image, B!history>>,
           Kept(b)' = c /\ phase'[b] = p => CheckoutOK(b)' /\ DirOK(B!checkoutDir(b))'
    PROVE  CutInvariant'
  <1>1. b \in B!Chisel /\ B!checkoutDir(b) \in B!Dirs /\ CommitOK(b) /\ b \in B!Chisel'
    BY AtHand DEF B!Chisel
  <1>2. phase'[b] = p /\ checkouts'[B!checkoutDir(b)] = c
    BY <1>1 DEF CutInvariant, CutTypes
  <1>3. Kept(b)' = c
    BY <1>2 DEF Kept, B!Checkout
  <1>4. CutTypes'
    <2>1. p \in B!Phases
      BY DEF Script, B!Phases
    <2>2. checkouts' \in [B!Dirs -> Checkouts] /\ phase' \in [Builds -> B!Phases]
      BY <2>1 DEF CutInvariant, CutTypes, Checkouts
    <2> QED BY <2>2 DEF CutInvariant, CutTypes, Checkouts, B!environment, B!image, B!history
  <1>5. HolderOK'
    BY HolderMoves DEF CutInvariant
  <1>6. CommitOK(b)'
    <2>1. B!Newest(b)' = B!Newest(b)
      BY DEF B!Newest, B!environment
    <2>2. phase[b] \notin {"none", "resolve", "solve", "assemble", "export", "built", "failed"}
          /\ phase'[b] \notin {"none", "resolve", "solve", "assemble", "export", "built", "failed"}
      BY <1>2 DEF Script
    <2> QED BY <1>1, <1>2, <2>1, <2>2 DEF CommitOK, B!image, B!history
  <1>7. ImageOK(b)'
    BY <1>2 DEF ImageOK, Script
  <1>8. BuildOK(b)'
    BY <1>1, <1>2, <1>3, <1>6, <1>7 DEF BuildOK
  <1> QED BY <1>1, <1>2, <1>3, <1>4, <1>5, <1>8, BuildMoves
          DEF B!environment, B!image, B!history

\* git clone makes its directory.
LEMMA CloneKeeps ==
    ASSUME CutInvariant, NEW b \in Builds, B!Clone(b)
    PROVE  CutInvariant'
  <1>1. phase[b] = "clone" /\ UNCHANGED <<B!environment, holder, debs, tool, B!image, B!history>>
    BY DEF B!Clone, B!At
  <1>2. phase[b] \in Script
    BY <1>1 DEF Script
  <1>3. CASE Kept(b).git = "none"
    <2> DEFINE c == [Kept(b) EXCEPT !.git = "partial"]
    <2>1. phase' = [phase EXCEPT ![b] = "cloning"] /\ checkouts' = [checkouts EXCEPT ![B!checkoutDir(b)] = c]
      BY <1>3 DEF B!Clone, B!Go, B!Keep, Kept
    <2>2. c \in Checkouts /\ c.git = "partial" /\ c.locks = Kept(b).locks
      BY <1>2, AtHand DEF Checkouts
    <2>3. ASSUME Kept(b)' = c, phase'[b] = "cloning" PROVE CheckoutOK(b)'
      BY <1>1, <1>2, <2>2, <2>3, AtHand DEF CheckoutOK, Cached
    <2>4. ASSUME Kept(b)' = c, phase'[b] = "cloning" PROVE DirOK(B!checkoutDir(b))'
      <3>1. \A a \in B!Chisel : phase[a] = "checking out" => phase'[a] = "checking out"
        BY <1>1, <2>1 DEF CutInvariant, CutTypes, B!Chisel
      <3>2. checkouts'[B!checkoutDir(b)] = c /\ hurt' = hurt
        BY <1>1, <2>4 DEF Kept, B!Checkout, B!history
      <3> QED BY <1>2, <2>2, <2>4, <3>1, <3>2, AtHand DEF DirOK
    <2> QED BY <1>1, <1>2, <2>1, <2>2, <2>3, <2>4, GitMoves DEF Script
  <1>4. CASE Kept(b).git # "none"
    <2> DEFINE c == Kept(b)
    <2>1. phase' = [phase EXCEPT ![b] = "fetch"] /\ checkouts' = checkouts
      BY <1>4 DEF B!Clone, B!Go, Kept
    <2>2. c \in Checkouts /\ checkouts' = [checkouts EXCEPT ![B!checkoutDir(b)] = c]
      BY <1>2, <2>1, AtHand DEF CutInvariant, CutTypes
    <2>3. ASSUME Kept(b)' = c, phase'[b] = "fetch" PROVE CheckoutOK(b)'
      BY <1>1, <1>2, <1>4, <2>3, AtHand DEF CheckoutOK, Cached
    <2>4. ASSUME phase'[b] = "fetch" PROVE DirOK(B!checkoutDir(b))'
      <3>1. \A a \in B!Chisel : phase[a] \in {"cloning", "checking out"} => phase'[a] = phase[a]
        BY <1>1, <2>1 DEF CutInvariant, CutTypes, B!Chisel
      <3>2. DirOK(B!checkoutDir(b))
        BY <1>2, AtHand
      <3>3. hurt' = hurt
        BY <1>1 DEF B!history
      <3> QED BY <2>1, <3>1, <3>2, <3>3 DEF DirOK
    <2> QED BY <1>1, <1>2, <2>1, <2>2, <2>3, <2>4, GitMoves DEF Script
  <1> QED BY <1>3, <1>4

\* No other build works in the directory of a script.
LEMMA Alone ==
    ASSUME CutInvariant, NEW b \in Builds, phase[b] \in Script,
           NEW a \in B!Chisel, phase[a] \in Script, B!checkoutDir(a) = B!checkoutDir(b)
    PROVE  a = b
  BY AtHand, Exclusive DEF CutInvariant

\* git clone fills the directory, or removes it when the remote does not answer.
LEMMA CloneEndsKeeps ==
    ASSUME CutInvariant, NEW b \in Builds, B!CloneEnds(b)
    PROVE  CutInvariant'
  <1>1. phase[b] = "cloning" /\ UNCHANGED <<B!environment, debs, tool, B!image>>
    BY DEF B!CloneEnds, B!At
  <1>2. phase[b] \in Script
    BY <1>1 DEF Script
  <1>3. CASE online
    <2> DEFINE c == [Kept(b) EXCEPT !.git = "whole", !.refs = remote[Contexts[b].repo]]
               p == IF Contexts[b].cache THEN "fetch" ELSE "checkout"
    <2>1. /\ phase' = [phase EXCEPT ![b] = p] /\ checkouts' = [checkouts EXCEPT ![B!checkoutDir(b)] = c]
          /\ UNCHANGED <<holder, B!history>>
      BY <1>3 DEF B!CloneEnds, B!Go, B!Keep, Kept
    <2>2. /\ c \in Checkouts /\ c.git = "whole" /\ c.locks = Kept(b).locks
          /\ c.refs = remote[Contexts[b].repo]
      <3>1. Kept(b) \in Checkouts /\ remote[Contexts[b].repo] \in [Refs -> Nat]
        BY <1>2, AtHand
      <3>2. PICK k \in Checkouts, refs \in [Refs -> Nat] :
               k = Kept(b) /\ refs = remote[Contexts[b].repo]
        BY <3>1
      <3>3. "whole" \in {"none", "partial", "whole"}
        OBVIOUS
      <3>4. PICK e : e = [k EXCEPT !.git = "whole", !.refs = refs]
        OBVIOUS
      <3>5. e \in Checkouts /\ e.git = "whole" /\ e.refs = refs /\ e.locks = k.locks
        BY <3>3, <3>4 DEF Checkouts
      <3>6. c = e
        BY <3>2, <3>4, Zenon
      <3> HIDE DEF c
      <3> QED BY <3>2, <3>5, <3>6
    <2>3. ASSUME Kept(b)' = c, phase'[b] = p PROVE CheckoutOK(b)'
      <3>1. c.refs[Contexts[b].ref] \in begun[b] .. B!Newest(b)
        BY <1>2, <2>2, AtHand
      <3>2. B!Newest(b)' = B!Newest(b) /\ begun' = begun
        BY <1>1, <2>1 DEF B!Newest, B!environment, B!history
      <3>3. ~ Cached(b) => c.locks = {}
        BY <1>1, <1>2, <2>2, AtHand DEF CheckoutOK
      <3> QED BY <2>2, <2>3, <3>1, <3>2, <3>3 DEF CheckoutOK, Cached
    <2>4. ASSUME Kept(b)' = c, phase'[b] = p PROVE DirOK(B!checkoutDir(b))'
      <3>1. \A a \in B!Chisel : phase[a] = "checking out" => phase'[a] = "checking out"
        BY <1>1, <2>1 DEF CutInvariant, CutTypes, B!Chisel
      <3>2. checkouts'[B!checkoutDir(b)] = c /\ hurt' = hurt
        BY <2>1, <2>4 DEF Kept, B!Checkout, B!history
      <3> QED BY <1>2, <2>2, <3>1, <3>2, AtHand DEF DirOK
    <2>5. p \in Script
      BY DEF Script
    <2> QED BY <1>1, <1>2, <2>1, <2>2, <2>3, <2>4, <2>5, GitMoves
  <1>4. CASE ~ online
    <2>1. /\ phase' = [phase EXCEPT ![b] = "failed"] /\ cause' = [cause EXCEPT ![b] = "network"]
          /\ checkouts' = [checkouts EXCEPT ![B!checkoutDir(b)] = B!NoClone]
          /\ holder' = holder \ {b} /\ UNCHANGED <<begun, hurt>>
      BY <1>4 DEF B!CloneEnds, B!Abort, B!Fail, B!Go, B!Keep
    <2>2. B!NoClone \in Checkouts /\ B!NoClone.git = "none" /\ B!NoClone.locks = {}
      BY DEF B!NoClone, Checkouts
    <2>3. /\ phase'[b] = "failed" /\ cause'[b] = "network" /\ checkouts'[B!checkoutDir(b)] = B!NoClone
          /\ \A a \in Builds \ {b} : cause'[a] = cause[a]
      BY <1>2, <2>1, AtHand DEF CutInvariant, CutTypes
    <2>4. CutTypes'
      <3>1. checkouts' \in [B!Dirs -> Checkouts]
        BY <2>1, <2>2 DEF CutInvariant, CutTypes, Checkouts
      <3>2. phase' \in [Builds -> B!Phases]
        BY <2>1 DEF CutInvariant, CutTypes, B!Phases
      <3> QED BY <1>1, <2>1, <3>1, <3>2 DEF CutInvariant, CutTypes, Checkouts, B!environment, B!image
    <2>5. HolderOK'
      BY <2>1, HolderMoves DEF CutInvariant, Script
    <2>6. BuildOK(b)' /\ DirOK(B!checkoutDir(b))'
      BY <2>2, <2>3 DEF BuildOK, CheckoutOK, CommitOK, ImageOK, Script, DirOK
    <2> QED BY <1>1, <1>2, <2>1, <2>3, <2>4, <2>5, <2>6, AtHand, BuildMoves
            DEF B!environment, B!image
  <1> QED BY <1>3, <1>4

\* A fetch brings every ref to its newest commit; it fails for want of a whole
\* clone, which only a killed script leaves behind.
LEMMA FetchKeeps ==
    ASSUME CutInvariant, NEW b \in Builds, B!Fetch(b)
    PROVE  CutInvariant'
  <1>1. phase[b] = "fetch" /\ UNCHANGED <<B!environment, debs, tool, B!image>>
    BY DEF B!Fetch, B!At
  <1>2. phase[b] \in Script
    BY <1>1 DEF Script
  <1>3. Cached(b)
    BY <1>1, <1>2, AtHand DEF CheckoutOK
  <1>4. ASSUME NEW why, B!Abort(b, why), UNCHANGED checkouts,
               why \in {"clone", "lock"} => B!checkoutDir(b) \in hurt
        PROVE  CutInvariant'
    BY <1>1, <1>3, <1>4, FailKeeps DEF B!Abort, B!image, CutInvariant, CutTypes
  <1>5. CASE Kept(b).git # "whole"
    <2>1. Kept(b).git = "partial"
      BY <1>1, <1>2, <1>5, AtHand DEF CheckoutOK, Checkouts
    <2>2. B!checkoutDir(b) \in hurt
      <3>1. \A a \in B!Chisel : B!checkoutDir(a) = B!checkoutDir(b) => phase[a] # "cloning"
        BY <1>1, <1>2, Alone DEF Script
      <3> QED BY <1>2, <2>1, <3>1, AtHand DEF DirOK
    <2> QED BY <1>4, <1>5, <2>2 DEF B!Fetch, Kept
  <1>6. CASE /\ Kept(b).git = "whole"
             /\ online /\ "refs" \in Kept(b).locks /\ Kept(b).refs # remote[Contexts[b].repo]
    <2>1. B!checkoutDir(b) \in hurt
      BY <1>2, <1>6, AtHand DEF DirOK
    <2> QED BY <1>4, <1>6, <2>1 DEF B!Fetch, Kept
  <1>7. CASE B!Abort(b, "network") /\ UNCHANGED checkouts
    BY <1>4, <1>7
  <1>8. CASE /\ B!Keep(b, [Kept(b) EXCEPT !.refs = remote[Contexts[b].repo]])
             /\ B!Go(b, "checkout") /\ UNCHANGED <<holder, B!history>>
    <2> DEFINE c == [Kept(b) EXCEPT !.refs = remote[Contexts[b].repo]]
    <2>1. phase' = [phase EXCEPT ![b] = "checkout"] /\ checkouts' = [checkouts EXCEPT ![B!checkoutDir(b)] = c]
      BY <1>8 DEF B!Go, B!Keep
    <2>2. /\ c \in Checkouts /\ c.git = Kept(b).git /\ c.locks = Kept(b).locks
          /\ c.refs = remote[Contexts[b].repo]
      BY <1>2, AtHand DEF Checkouts
    <2>3. ASSUME Kept(b)' = c, phase'[b] = "checkout" PROVE CheckoutOK(b)'
      <3>1. c.refs[Contexts[b].ref] \in begun[b] .. B!Newest(b)
        BY <1>2, <2>2, AtHand
      <3>2. B!Newest(b)' = B!Newest(b) /\ begun' = begun
        BY <1>1, <1>8 DEF B!Newest, B!environment, B!history
      <3> QED BY <1>3, <2>2, <2>3, <3>1, <3>2 DEF CheckoutOK, Cached
    <2>4. ASSUME Kept(b)' = c, phase'[b] = "checkout" PROVE DirOK(B!checkoutDir(b))'
      <3>1. \A a \in B!Chisel : phase[a] \in {"cloning", "checking out"} => phase'[a] = phase[a]
        BY <1>1, <2>1 DEF CutInvariant, CutTypes, B!Chisel
      <3>2. checkouts'[B!checkoutDir(b)] = c /\ hurt' = hurt
        BY <1>8, <2>4 DEF Kept, B!Checkout, B!history
      <3>3. /\ checkouts'[B!checkoutDir(b)].git = checkouts[B!checkoutDir(b)].git
            /\ checkouts'[B!checkoutDir(b)].locks = checkouts[B!checkoutDir(b)].locks
        BY <1>2, <2>2, <3>2, AtHand
      <3>4. DirOK(B!checkoutDir(b))
        BY <1>2, AtHand
      <3> QED BY <3>1, <3>2, <3>3, <3>4 DEF DirOK
    <2> QED BY <1>1, <1>2, <1>8, <2>1, <2>2, <2>3, <2>4, GitMoves DEF Script
  <1> QED BY <1>5, <1>6, <1>7, <1>8 DEF B!Fetch, Kept

\* A checkout takes the lock of the index, and fails for one that is left over.
LEMMA CheckoutStartsKeeps ==
    ASSUME CutInvariant, NEW b \in Builds, B!CheckoutStarts(b)
    PROVE  CutInvariant'
  <1>1. phase[b] = "checkout" /\ UNCHANGED <<B!environment, debs, tool, B!image>>
    BY DEF B!CheckoutStarts, B!At
  <1>2. phase[b] \in Script
    BY <1>1 DEF Script
  <1>3. CASE "index" \in Kept(b).locks
    <2>1. Cached(b)
      BY <1>1, <1>2, <1>3, AtHand DEF CheckoutOK
    <2>2. \A a \in B!Chisel : B!checkoutDir(a) = B!checkoutDir(b) => phase[a] # "checking out"
      BY <1>1, <1>2, Alone DEF Script
    <2>3. B!checkoutDir(b) \in hurt
      BY <1>2, <1>3, <2>2, AtHand DEF DirOK
    <2>4. B!Fail(b, "lock") /\ UNCHANGED checkouts
      BY <1>3 DEF B!CheckoutStarts, B!Abort, Kept
    <2> QED BY <1>1, <2>1, <2>3, <2>4, FailKeeps DEF B!image, CutInvariant, CutTypes
  <1>4. CASE "index" \notin Kept(b).locks
    <2> DEFINE c == [Kept(b) EXCEPT !.tree = B!Mixed, !.locks = @ \cup {"index"}]
    <2>1. /\ phase' = [phase EXCEPT ![b] = "checking out"]
          /\ checkouts' = [checkouts EXCEPT ![B!checkoutDir(b)] = c]
          /\ UNCHANGED <<holder, B!history>>
      BY <1>4 DEF B!CheckoutStarts, B!Go, B!Keep, Kept
    <2>2. /\ c \in Checkouts /\ c.git = Kept(b).git /\ c.locks = Kept(b).locks \cup {"index"}
          /\ c.refs = Kept(b).refs
      <3>1. Kept(b) \in Checkouts
        BY <1>2, AtHand
      <3>2. Kept(b).locks \cup {"index"} \in SUBSET {"index", "refs"}
        BY <3>1, CheckoutParts
      <3>3. PICK k \in Checkouts, locks \in SUBSET {"index", "refs"} :
               k = Kept(b) /\ locks = Kept(b).locks \cup {"index"}
        BY <3>1, <3>2
      <3>4. B!Mixed \in Nat \cup {B!Mixed}
        OBVIOUS
      <3>5. PICK e : e = [k EXCEPT !.tree = B!Mixed, !.locks = locks]
        OBVIOUS
      <3>6. e \in Checkouts /\ e.git = k.git /\ e.refs = k.refs /\ e.locks = locks
        BY <3>4, <3>5 DEF Checkouts
      <3>7. c = e
        BY <3>3, <3>5, Zenon
      <3> HIDE DEF c
      <3> QED BY <3>3, <3>6, <3>7
    <2>3. ASSUME Kept(b)' = c, phase'[b] = "checking out" PROVE CheckoutOK(b)'
      <3>1. c.refs[Contexts[b].ref] \in begun[b] .. B!Newest(b)
        BY <1>1, <1>2, <2>2, AtHand DEF CheckoutOK
      <3>2. B!Newest(b)' = B!Newest(b) /\ begun' = begun
        BY <1>1, <2>1 DEF B!Newest, B!environment, B!history
      <3> QED BY <2>3, <3>1, <3>2 DEF CheckoutOK
    <2>4. ASSUME Kept(b)' = c, phase'[b] = "checking out" PROVE DirOK(B!checkoutDir(b))'
      <3>1. \A a \in B!Chisel : phase[a] = "cloning" => phase'[a] = "cloning"
        BY <1>1, <2>1 DEF CutInvariant, CutTypes, B!Chisel
      <3>2. checkouts'[B!checkoutDir(b)] = c /\ hurt' = hurt
        BY <2>1, <2>4 DEF Kept, B!Checkout, B!history
      <3>3. /\ checkouts'[B!checkoutDir(b)].git = checkouts[B!checkoutDir(b)].git
            /\ checkouts'[B!checkoutDir(b)].locks = checkouts[B!checkoutDir(b)].locks \cup {"index"}
        BY <1>2, <2>2, <3>2, AtHand
      <3>4. DirOK(B!checkoutDir(b)) /\ b \in B!Chisel
        BY <1>2, AtHand
      <3> QED BY <2>4, <3>1, <3>2, <3>3, <3>4 DEF DirOK
    <2> QED BY <1>1, <1>2, <2>1, <2>2, <2>3, <2>4, GitMoves DEF Script
  <1> QED BY <1>3, <1>4

\* The tree is that of the ref, as it was when it was fetched.
LEMMA CheckoutEndsKeeps ==
    ASSUME CutInvariant, NEW b \in Builds, B!CheckoutEnds(b)
    PROVE  CutInvariant'
  <1> DEFINE c == [Kept(b) EXCEPT !.tree = Kept(b).refs[Contexts[b].ref], !.locks = @ \ {"index"}]
  <1>1. /\ phase[b] = "checking out" /\ phase' = [phase EXCEPT ![b] = "cut"]
        /\ checkouts' = [checkouts EXCEPT ![B!checkoutDir(b)] = c]
        /\ UNCHANGED <<B!environment, holder, debs, tool, B!image, B!history>>
    BY DEF B!CheckoutEnds, B!At, B!Go, B!Keep, Kept
  <1>2. phase[b] \in Script
    BY <1>1 DEF Script
  <1>3. /\ c \in Checkouts /\ c.git = Kept(b).git /\ c.locks = Kept(b).locks \ {"index"}
        /\ c.tree = Kept(b).refs[Contexts[b].ref]
    <2>1. Kept(b) \in Checkouts /\ Contexts[b].ref \in Refs
      BY <1>2, AtHand
    <2>2. Kept(b).locks \ {"index"} \in SUBSET {"index", "refs"} /\ Kept(b).refs \in [Refs -> Nat]
      BY <2>1, CheckoutParts
    <2>3. Kept(b).refs[Contexts[b].ref] \in Nat \cup {B!Mixed}
      BY <2>1, <2>2
    <2>4. PICK k \in Checkouts, locks \in SUBSET {"index", "refs"}, tree \in Nat \cup {B!Mixed} :
             /\ k = Kept(b) /\ locks = Kept(b).locks \ {"index"}
             /\ tree = Kept(b).refs[Contexts[b].ref]
      BY <2>1, <2>2, <2>3
    <2>5. PICK e : e = [k EXCEPT !.tree = tree, !.locks = locks]
      OBVIOUS
    <2>6. e \in Checkouts /\ e.git = k.git /\ e.tree = tree /\ e.locks = locks
      BY <2>5 DEF Checkouts
    <2>7. c = e
      BY <2>4, <2>5, Zenon
    <2> HIDE DEF c
    <2> QED BY <2>4, <2>6, <2>7
  <1>4. ASSUME Kept(b)' = c, phase'[b] = "cut" PROVE CheckoutOK(b)'
    <2>1. c.tree \in begun[b] .. B!Newest(b)
      BY <1>1, <1>2, <1>3, AtHand DEF CheckoutOK
    <2>2. B!Newest(b)' = B!Newest(b) /\ begun' = begun
      BY <1>1 DEF B!Newest, B!environment, B!history
    <2> QED BY <1>4, <2>1, <2>2 DEF CheckoutOK
  <1>5. ASSUME Kept(b)' = c, phase'[b] = "cut" PROVE DirOK(B!checkoutDir(b))'
    <2>1. \A a \in B!Chisel : phase[a] = "cloning" => phase'[a] = "cloning"
      BY <1>1 DEF CutInvariant, CutTypes, B!Chisel
    <2>2. checkouts'[B!checkoutDir(b)] = c /\ hurt' = hurt
      BY <1>1, <1>5 DEF Kept, B!Checkout, B!history
    <2>3. /\ checkouts'[B!checkoutDir(b)].git = checkouts[B!checkoutDir(b)].git
          /\ checkouts'[B!checkoutDir(b)].locks = checkouts[B!checkoutDir(b)].locks \ {"index"}
      BY <1>2, <1>3, <2>2, AtHand
    <2>4. DirOK(B!checkoutDir(b))
      BY <1>2, AtHand
    <2> QED BY <2>1, <2>2, <2>3, <2>4 DEF DirOK
  <1> QED BY <1>1, <1>2, <1>3, <1>4, <1>5, GitMoves DEF Script

\* chisel cuts the tree that is checked out.
LEMMA CutKeeps ==
    ASSUME CutInvariant, NEW b \in Builds, B!Cut(b)
    PROVE  CutInvariant'
  <1>1. /\ phase[b] = "cut" /\ got' = [got EXCEPT ![b] = Kept(b).tree]
        /\ UNCHANGED <<B!environment, checkouts, tool, out, env>>
    BY DEF B!Cut, B!At, Kept
  <1>2. phase[b] \in Script
    BY <1>1 DEF Script
  <1>3. /\ Kept(b).tree \in begun[b] .. B!Newest(b) /\ begun[b] \in 1 .. B!Newest(b)
        /\ B!Newest(b) \in Nat /\ Kept(b).tree \in Nat \cup {B!Mixed}
    <2>1. CheckoutOK(b) /\ Kept(b) \in Checkouts /\ begun[b] \in 1 .. B!Newest(b)
      BY <1>2, AtHand
    <2>2. B!Newest(b) \in Nat
      BY <1>2, AtHand
    <2>3. Kept(b).tree \in begun[b] .. B!Newest(b)
      BY <1>1, <2>1 DEF CheckoutOK
    <2> QED BY <2>1, <2>2, <2>3 DEF Checkouts
  <1>4. /\ got' \in [Builds -> Nat \cup {B!Mixed}] /\ got'[b] = Kept(b).tree
        /\ \A a \in Builds \ {b} : got'[a] = got[a]
    <2>1. got \in [Builds -> Nat \cup {B!Mixed}]
      BY DEF CutInvariant, CutTypes
    <2> QED BY <1>1, <1>3, <2>1
  <1>5. CASE B!Abort(b, "network") /\ UNCHANGED debs
    BY <1>1, <1>4, <1>5, FailKeeps DEF B!Abort, CutInvariant, CutTypes
  <1>6. CASE /\ B!Go(b, "assemble") /\ UNCHANGED <<holder, B!history>>
             /\ debs' = IF Contexts[b].cache THEN debs \cup {B!checkoutDir(b)} ELSE debs
    <2>1. phase' = [phase EXCEPT ![b] = "assemble"] /\ UNCHANGED <<begun, cause, hurt>>
      BY <1>6 DEF B!Go, B!history
    <2>2. CutTypes'
      <3>1. debs' \subseteq B!Dirs
        BY <1>2, <1>6, AtHand DEF CutInvariant, CutTypes
      <3>2. phase' \in [Builds -> B!Phases]
        BY <2>1 DEF CutInvariant, CutTypes, B!Phases
      <3> QED BY <1>1, <1>4, <2>1, <3>1, <3>2 DEF CutInvariant, CutTypes, B!environment
    <2>3. HolderOK'
      BY <1>2, <1>6, <2>1, HolderMoves DEF CutInvariant
    <2>4. phase'[b] = "assemble" /\ B!Newest(b)' = B!Newest(b)
      BY <1>1, <2>1 DEF CutInvariant, CutTypes, B!Newest, B!environment
    <2>5. BuildOK(b)'
      <3>1. CommitOK(b)'
        <4>1. got'[b] \in 1 .. B!Newest(b)' /\ begun'[b] <= got'[b]
          BY <1>3, <1>4, <2>1, <2>4
        <4>2. Contexts[b].pin # B!NoVersion => tool'[b] = Contexts[b].pin
          BY <1>1, <1>2, AtHand DEF CommitOK
        <4> QED BY <2>4, <4>1, <4>2 DEF CommitOK, Script
      <3> QED BY <2>4, <3>1 DEF BuildOK, CheckoutOK, ImageOK, Script
    <2>6. "assemble" \in B!Phases
      BY DEF B!Phases
    <2> QED BY <1>1, <1>4, <2>1, <2>2, <2>3, <2>5, <2>6, PhaseMoves DEF B!environment
  <1> QED BY <1>5, <1>6 DEF B!Cut

\* A nix build has no script of this kind.
LEMMA NixBuildKeeps ==
    ASSUME CutInvariant, NEW b \in Builds, B!NixBuild(b)
    PROVE  CutInvariant'
  <1>1. /\ phase[b] = "solve" /\ b \notin B!Chisel
        /\ UNCHANGED <<B!environment, checkouts, debs, tool, B!image>>
    BY DEF B!NixBuild, B!At
  <1>2. CASE B!Abort(b, "network")
    BY <1>1, <1>2, FailKeeps DEF B!Abort, B!image, CutInvariant, CutTypes
  <1>3. CASE B!Go(b, "assemble") /\ UNCHANGED <<holder, B!history>>
    <2>1. phase' = [phase EXCEPT ![b] = "assemble"] /\ UNCHANGED <<begun, cause, hurt>>
      BY <1>3 DEF B!Go, B!history
    <2>2. CutTypes'
      <3>1. phase' \in [Builds -> B!Phases]
        BY <2>1 DEF CutInvariant, CutTypes, B!Phases
      <3> QED BY <1>1, <2>1, <3>1 DEF CutInvariant, CutTypes, B!environment, B!image
    <2>3. HolderOK'
      BY <1>1, <1>3, <2>1, HolderMoves DEF CutInvariant
    <2>4. phase'[b] = "assemble" /\ b \notin B!Chisel'
      BY <1>1, <2>1 DEF CutInvariant, CutTypes, B!Chisel
    <2>5. BuildOK(b)'
      BY <2>4 DEF BuildOK, ImageOK, Script
    <2>6. "assemble" \in B!Phases
      BY DEF B!Phases
    <2> QED BY <1>1, <2>1, <2>2, <2>3, <2>5, <2>6, PhaseMoves DEF B!environment, B!image
  <1> QED BY <1>2, <1>3 DEF B!NixBuild

\* A script that is killed at git leaves behind what its history tells.
LEMMA KillKeeps ==
    ASSUME CutInvariant, NEW b \in Builds, B!Kill(b)
    PROVE  CutInvariant'
  <1> DEFINE d == B!checkoutDir(b)
             c == [Kept(b) EXCEPT !.locks = @ \cup {"refs"}]
  <1>1. /\ phase[b] \in Script /\ phase' = [phase EXCEPT ![b] = "killed"]
        /\ holder' = holder \ {b}
        /\ hurt' = hurt \cup (IF phase[b] \in {"cloning", "fetch", "checking out"} THEN {d} ELSE {})
        /\ UNCHANGED <<B!environment, debs, tool, B!image, asked, begun, cause>>
    BY DEF B!Kill, B!Go, Script
  <1>2. \/ checkouts' = checkouts
        \/ phase[b] = "fetch" /\ checkouts' = [checkouts EXCEPT ![d] = c]
    BY DEF B!Kill, B!At, B!Keep, Kept
  <1>3. c \in Checkouts /\ c.git = Kept(b).git /\ c.locks = Kept(b).locks \cup {"refs"}
    <2>1. Kept(b) \in Checkouts
      BY <1>1, AtHand
    <2>2. Kept(b).locks \cup {"refs"} \in SUBSET {"index", "refs"}
      BY <2>1, CheckoutParts
    <2> QED BY <2>1, <2>2, WithLocks
  <1>4. CutTypes'
    <2>1. checkouts' \in [B!Dirs -> Checkouts]
      <3>1. checkouts \in [B!Dirs -> Checkouts]
        BY DEF CutInvariant, CutTypes, Checkouts
      <3>2. CASE checkouts' = checkouts
        BY <3>1, <3>2
      <3>3. CASE checkouts' = [checkouts EXCEPT ![d] = c]
        <4> HIDE DEF c, d
        <4> QED BY <1>3, <3>1, <3>3
      <3> QED BY <1>2, <3>2, <3>3
    <2>2. phase' \in [Builds -> B!Phases]
      BY <1>1 DEF CutInvariant, CutTypes, B!Phases
    <2>3. hurt' \subseteq B!Dirs
      <3>1. d \in B!Dirs
        BY <1>1, AtHand
      <3>2. hurt \subseteq B!Dirs
        BY DEF CutInvariant, CutTypes
      <3>3. hurt' \subseteq hurt \cup {d}
        BY <1>1
      <3> QED BY <3>1, <3>2, <3>3
    <2>4. UNCHANGED <<remote, online, debs, tool, got, out, env, begun, cause>>
      BY <1>1 DEF B!environment, B!image
    <2> QED BY <2>1, <2>2, <2>3, <2>4 DEF CutInvariant, CutTypes, Checkouts
  <1>5. HolderOK'
    BY <1>1, HolderMoves DEF CutInvariant, Script
  <1>6. phase'[b] = "killed"
    BY <1>1 DEF CutInvariant, CutTypes
  <1>7. BuildOK(b)'
    BY <1>6 DEF BuildOK, CheckoutOK, CommitOK, ImageOK, Script
  <1>8. DirOK(d)'
    <2>1. DirOK(d) /\ Kept(b) = checkouts[d] /\ d \in B!Dirs
      BY <1>1, AtHand
    <2>2. \A a \in B!Chisel : a # b => phase'[a] = phase[a]
      BY <1>1 DEF CutInvariant, CutTypes, B!Chisel
    <2>3. CASE phase[b] \in {"cloning", "fetch", "checking out"}
      <3>1. d \in hurt'
        BY <1>1, <2>3
      <3> QED BY <3>1 DEF DirOK
    <2>4. CASE phase[b] \notin {"cloning", "fetch", "checking out"}
      <3>1. checkouts' = checkouts /\ hurt' = hurt
        BY <1>1, <1>2, <2>4
      <3>2. \A a \in B!Chisel : phase[a] \in {"cloning", "checking out"} => phase'[a] = phase[a]
        BY <2>2, <2>4
      <3> QED BY <2>1, <3>1, <3>2 DEF DirOK
    <2> QED BY <2>3, <2>4
  <1> QED BY <1>1, <1>2, <1>4, <1>5, <1>7, <1>8, AtHand, BuildMoves DEF B!environment, B!image

\* The layers are put together if they do not clash.
LEMMA AssembleKeeps ==
    ASSUME CutInvariant, NEW b \in Builds, B!Assemble(b)
    PROVE  CutInvariant'
  <1>1. phase[b] = "assemble" /\ UNCHANGED <<B!environment, checkouts, debs, tool, got, env>>
    BY DEF B!Assemble, B!At
  <1>2. CASE B!AssemblyFails(b)
    <2>1. B!Fail(b, "overlay") /\ UNCHANGED out
      BY <1>2 DEF B!Assemble, B!Abort
    <2> QED BY <1>1, <2>1, FailKeeps DEF CutInvariant, CutTypes
  <1>3. CASE ~ B!AssemblyFails(b)
    <2>1. /\ out' = [out EXCEPT ![b] = B!Assembled(b)] /\ phase' = [phase EXCEPT ![b] = "export"]
          /\ holder' = holder \ {b} /\ UNCHANGED <<begun, cause, hurt>>
      BY <1>3 DEF B!Assemble, B!Go, B!history
    <2>2. CutTypes'
      <3>1. phase' \in [Builds -> B!Phases]
        BY <2>1 DEF CutInvariant, CutTypes, B!Phases
      <3> QED BY <1>1, <2>1, <3>1 DEF CutInvariant, CutTypes, B!environment
    <2>3. HolderOK'
      BY <2>1, HolderMoves DEF CutInvariant, Script
    <2>4. /\ phase'[b] = "export" /\ out'[b] = B!Assembled(b) /\ B!Newest(b)' = B!Newest(b)
          /\ \A a \in Builds \ {b} : out'[a] = out[a]
      BY <1>1, <2>1 DEF CutInvariant, CutTypes, B!Newest, B!environment
    <2>5. BuildOK(b)'
      <3>1. ImageOK(b)'
        BY <1>3, <2>4 DEF ImageOK
      <3>2. b \in B!Chisel => CommitOK(b)'
        BY <1>1, <2>1, <2>4 DEF CutInvariant, BuildOK, CommitOK, Script
      <3> QED BY <2>4, <3>1, <3>2 DEF BuildOK, CheckoutOK, Script, B!Chisel
    <2>6. "export" \in B!Phases
      BY DEF B!Phases
    <2> QED BY <1>1, <2>1, <2>2, <2>3, <2>4, <2>5, <2>6, PhaseMoves DEF B!environment
  <1> QED BY <1>2, <1>3

\* The image gets its configuration.
LEMMA ExportKeeps ==
    ASSUME CutInvariant, NEW b \in Builds, B!Export(b)
    PROVE  CutInvariant'
  <1>1. /\ phase[b] = "export" /\ phase' = [phase EXCEPT ![b] = "built"]
        /\ env' = [env EXCEPT ![b] = B!Over(Contexts[b].env, Contexts[b].parentEnv)]
        /\ UNCHANGED <<B!environment, B!cacheMount, tool, got, out, B!history>>
    BY DEF B!Export, B!At, B!Go
  <1>2. CutTypes'
    <2>1. phase' \in [Builds -> B!Phases]
      BY <1>1 DEF CutInvariant, CutTypes, B!Phases
    <2> QED BY <1>1, <2>1 DEF CutInvariant, CutTypes, B!environment, B!cacheMount, B!history
  <1>3. HolderOK'
    BY <1>1, HolderMoves DEF CutInvariant, Script, B!cacheMount
  <1>4. /\ phase'[b] = "built" /\ env'[b] = B!Over(Contexts[b].env, Contexts[b].parentEnv)
        /\ \A a \in Builds \ {b} : env'[a] = env[a]
        /\ B!Newest(b)' = B!Newest(b)
    BY <1>1 DEF CutInvariant, CutTypes, B!Newest, B!environment
  <1>5. BuildOK(b)'
    <2>1. ImageOK(b)'
      BY <1>1, <1>4 DEF CutInvariant, BuildOK, ImageOK
    <2>2. b \in B!Chisel => CommitOK(b)'
      BY <1>1, <1>4 DEF CutInvariant, BuildOK, CommitOK, Script, B!history
    <2> QED BY <1>4, <2>1, <2>2 DEF BuildOK, CheckoutOK, Script, B!Chisel
  <1>6. "built" \in B!Phases
    BY DEF B!Phases
  <1> QED BY <1>1, <1>2, <1>3, <1>4, <1>5, <1>6, PhaseMoves
          DEF B!environment, B!cacheMount, B!history

\* Whatever build goes on or is killed.
LEMMA CutStep ==
    ASSUME CutInvariant, B!Step
    PROVE  CutInvariant'
  BY EnvironmentMoves, ResolveKeeps, CacheHitKeeps, MountKeeps, CloneKeeps, CloneEndsKeeps,
     FetchKeeps, CheckoutStartsKeeps, CheckoutEndsKeeps, CutKeeps, NixBuildKeeps,
     AssembleKeeps, ExportKeeps, KillKeeps DEF B!Step, B!Build

LEMMA CutsStart ==
    ASSUME NEW running, B!Start(running)
    PROVE  CutInvariant
  <1>1. 1 \in 1 .. MaxCommits
    BY JobsAssumption DEF JobsAssumption
  <1>2. \A b \in Builds : phase[b] \in {"resolve", "none"} /\ begun[b] = 0
    BY DEF B!Start
  <1>3. B!NoClone \in Checkouts /\ B!NoClone.git = "none" /\ B!NoClone.locks = {}
    BY DEF B!NoClone, Checkouts
  <1>4. checkouts = [d \in B!Dirs |-> B!NoClone]
    BY DEF B!Start
  <1>5. CutTypes
    <2>1. remote \in [Repos -> [Refs -> 1 .. MaxCommits]] /\ checkouts \in [B!Dirs -> Checkouts]
      BY <1>1, <1>3, <1>4 DEF B!Start
    <2>2. phase \in [Builds -> B!Phases]
      BY DEF B!Start, B!Phases
    <2> QED BY <2>1, <2>2 DEF B!Start, CutTypes, Checkouts
  <1>6. HolderOK
    BY <1>2 DEF B!Start, HolderOK, B!Chisel, Script
  <1>7. \A d \in B!Dirs : DirOK(d)
    BY <1>3, <1>4 DEF DirOK
  <1>8. ASSUME NEW b \in Builds PROVE BuildOK(b)
    <2>1. b \in B!Chisel => Kept(b) = B!NoClone
      BY <1>4 DEF Kept, B!Checkout, B!Dirs
    <2> QED BY <1>2, <1>3, <2>1 DEF BuildOK, CheckoutOK, CommitOK, ImageOK, Script
  <1> QED BY <1>5, <1>6, <1>7, <1>8 DEF CutInvariant

\* The other commands leave the builds alone.
LEMMA CutKept ==
    ASSUME CutInvariant, UNCHANGED cutVars
    PROVE  CutInvariant'
  <1>1. UNCHANGED <<remote, online, holder, checkouts, debs, phase, tool, asked, begun, got, out,
                    env, cause, hurt>>
    BY DEF cutVars
  <1>2. CutTypes' /\ HolderOK' /\ \A d \in B!Dirs : DirOK(d)'
    BY <1>1 DEF CutInvariant, CutTypes, HolderOK, DirOK
  <1>3. ASSUME NEW b \in Builds PROVE BuildOK(b)'
    <2>1. B!Newest(b)' \in B!Newest(b) .. MaxCommits
      BY <1>1, NewestType DEF CutInvariant, B!Newest
    <2> QED BY <1>1, <2>1, BuildKept DEF CutInvariant
  <1> QED BY <1>2, <1>3 DEF CutInvariant
-----------------------------------------------------------------------------
\* A directory at the top of a tree.
Dir(t, n) == n \in DOMAIN t /\ ~ B!IsLink(t[n])

\* Copying keeps the files of a directory of the upper tree.
LEMMA CopyUpper ==
    ASSUME NEW upper, NEW lower, NEW n, Dir(upper, n), n \in DOMAIN lower => Dir(lower, n)
    PROVE  /\ Dir(B!Copy(upper, lower), n)
           /\ \A f \in DOMAIN upper[n] :
                 /\ f \in DOMAIN B!Copy(upper, lower)[n]
                 /\ B!Copy(upper, lower)[n][f] = upper[n][f]
  <1>1. CASE n \in DOMAIN lower
    <2>1. B!Copy(upper, lower)[n] = [x \in DOMAIN upper[n] \cup DOMAIN lower[n] |->
                                       IF x \in DOMAIN upper[n] THEN upper[n][x] ELSE lower[n][x]]
      BY <1>1 DEF B!Copy, B!Over, Dir
    <2> QED BY <1>1, <2>1 DEF Dir, B!IsLink, B!Copy
  <1>2. CASE n \notin DOMAIN lower
    BY <1>2 DEF B!Copy, Dir
  <1> QED BY <1>1, <1>2

\* So it does those of the lower tree, except where the upper one has the file.
LEMMA CopyLower ==
    ASSUME NEW upper, NEW lower, NEW n, Dir(lower, n), n \in DOMAIN upper => Dir(upper, n)
    PROVE  /\ Dir(B!Copy(upper, lower), n)
           /\ \A f \in DOMAIN lower[n] :
                 /\ f \in DOMAIN B!Copy(upper, lower)[n]
                 /\ (n \in DOMAIN upper => f \notin DOMAIN upper[n]) =>
                       B!Copy(upper, lower)[n][f] = lower[n][f]
  <1>1. CASE n \in DOMAIN upper
    <2>1. B!Copy(upper, lower)[n] = [x \in DOMAIN upper[n] \cup DOMAIN lower[n] |->
                                       IF x \in DOMAIN upper[n] THEN upper[n][x] ELSE lower[n][x]]
      BY <1>1 DEF B!Copy, B!Over, Dir
    <2> QED BY <1>1, <2>1 DEF Dir, B!IsLink, B!Copy
  <1>2. CASE n \notin DOMAIN upper
    BY <1>2 DEF B!Copy, Dir
  <1> QED BY <1>1, <1>2

\* What a copy has of a directory it has of the upper tree or of the lower one.
LEMMA CopyHas ==
    ASSUME NEW upper, NEW lower, NEW n, Dir(B!Copy(upper, lower), n),
           n \in DOMAIN upper \cap DOMAIN lower => B!IsLink(upper[n]) = B!IsLink(lower[n]),
           NEW f \in DOMAIN B!Copy(upper, lower)[n]
    PROVE  (Dir(upper, n) /\ f \in DOMAIN upper[n]) \/ (Dir(lower, n) /\ f \in DOMAIN lower[n])
  <1>1. CASE n \in DOMAIN upper /\ n \in DOMAIN lower
    <2>1. B!Copy(upper, lower)[n] = B!Over(upper[n], lower[n])
      BY <1>1 DEF B!Copy
    <2>2. ~ B!IsLink(upper[n])
      BY <2>1 DEF B!Over, Dir
    <2>3. f \in DOMAIN upper[n] \cup DOMAIN lower[n]
      BY <2>1, <2>2 DEF B!Over
    <2> QED BY <1>1, <2>2, <2>3 DEF Dir
  <1>2. CASE n \notin DOMAIN upper \/ n \notin DOMAIN lower
    BY <1>2 DEF B!Copy, Dir
  <1> QED BY <1>1, <1>2

\* A directory the output has, or leads to, has files of the output only.
LEMMA SeenFiles ==
    ASSUME NEW b \in Builds, NEW n \in DOMAIN Contexts[b].output, B!IsDirectory(B!Seen(b), n)
    PROVE  /\ ~ B!IsLink(B!Listing(B!Seen(b), n))
           /\ \A f \in DOMAIN B!Listing(B!Seen(b), n) : B!Listing(B!Seen(b), n)[f] = "output"
  <1> DEFINE seen == B!Seen(b)
  <1>1. n \in DOMAIN seen
    BY DEF B!Seen
  <1>2. PICK m \in DOMAIN seen : ~ B!IsLink(seen[m]) /\ B!Listing(seen, n) = seen[m]
    BY <1>1 DEF B!IsDirectory, B!Listing
  <1>3. B!Layers(b)[2] = Contexts[b].output /\ B!Label(b)[2] = "output"
    BY DEF B!Layers, B!Label
  <1>4. CASE m \in DOMAIN Contexts[b].output
    <2>1. seen[m] = Contexts[b].output[m]
      BY <1>4 DEF B!Seen
    <2> QED BY <1>2, <1>3, <1>4, <2>1, LayersAssumption DEF B!LayersFit
  <1>5. CASE m \notin DOMAIN Contexts[b].output
    <2>1. m \in DOMAIN Contexts[b].builder /\ seen[m] = Contexts[b].builder[m]
      BY <1>2, <1>5 DEF B!Seen
    <2> QED BY <1>2, <2>1, LayersAssumption DEF B!LayersFit
  <1> QED BY <1>4, <1>5

\* What the output redirects meets a link of the parent.
LEMMA RedirectedMeets ==
    ASSUME NEW b \in Builds, NEW k \in B!Redirected(b)
    PROVE  /\ k \in DOMAIN Contexts[b].output /\ B!IsDirectory(B!Seen(b), k)
           /\ k \in DOMAIN B!Laid(b) /\ B!IsLink(B!Laid(b)[k])
           /\ k \in B!Brings(b, 2) /\ B!Place(b, k) = B!Laid(b)[k]["link"]
           /\ B!FilesOf(b, 2, k) = DOMAIN B!Listing(B!Seen(b), k)
  <1>1. /\ k \in DOMAIN Contexts[b].output /\ B!IsDirectory(B!Seen(b), k)
        /\ k \in DOMAIN B!Laid(b) /\ B!IsLink(B!Laid(b)[k])
    BY DEF B!Redirected
  <1>2. k \in DOMAIN Contexts[b].parent \ {"nix"} /\ B!Laid(b)[k] = Contexts[b].parent[k]
    BY <1>1 DEF B!Laid, B!Restrict
  <1>3. B!MeetsLink(b, k) /\ B!Place(b, k) = B!Laid(b)[k]["link"]
    BY <1>1, <1>2 DEF B!MeetsLink, B!Place
  <1>4. k \in B!Brings(b, 2)
    BY <1>1, <1>3 DEF B!Brings, B!Layers
  <1> QED BY <1>1, <1>3, <1>4 DEF B!FilesOf

\* What is moved to the target of a link: the directories of the output that the
\* link redirects there.
LEMMA MovedFiles ==
    ASSUME NEW b \in Builds, NEW m \in DOMAIN B!Moved(b)
    PROVE  /\ Dir(B!Moved(b), m)
           /\ \A f \in DOMAIN B!Moved(b)[m] : B!Moved(b)[m][f] = "output" /\ B!Has(b, 2, m, f)
  <1> DEFINE seen == B!Seen(b)
             into == {k \in B!Redirected(b) : B!Laid(b)[k]["link"] = m}
             files == UNION {DOMAIN B!Listing(seen, k) : k \in into}
  <1>1. B!Moved(b)[m] =
           [f \in files |-> B!Listing(seen, CHOOSE k \in into : f \in DOMAIN B!Listing(seen, k))[f]]
    BY DEF B!Moved
  <1>2. ASSUME NEW k \in into
        PROVE  /\ "link" \notin DOMAIN B!Listing(seen, k)
               /\ \A f \in DOMAIN B!Listing(seen, k) : B!Listing(seen, k)[f] = "output"
    BY RedirectedMeets, SeenFiles DEF B!IsLink
  <1>3. Dir(B!Moved(b), m)
    BY <1>1, <1>2 DEF Dir, B!IsLink
  <1>4. ASSUME NEW f \in files
        PROVE  B!Moved(b)[m][f] = "output" /\ B!Has(b, 2, m, f)
    <2>1. PICK k \in into :
             f \in DOMAIN B!Listing(seen, k) /\ B!Moved(b)[m][f] = B!Listing(seen, k)[f]
      BY <1>1
    <2>2. k \in B!Brings(b, 2) /\ B!Place(b, k) = m /\ f \in B!FilesOf(b, 2, k)
      BY <2>1, RedirectedMeets
    <2> QED BY <1>2, <2>1, <2>2 DEF B!Has
  <1> QED BY <1>1, <1>3, <1>4

\* Layers that can be put together are all in the image, and nothing else is.
LEMMA LayersMerge ==
    ASSUME NEW b \in Builds, ~ B!AssemblyFails(b)
    PROVE  B!IsLayered(b, B!Assembled(b))
  <1> DEFINE output == Contexts[b].output
             parent == Contexts[b].parent
             seen == B!Seen(b)
             laid == B!Laid(b)
             moved == B!Moved(b)
             under == B!Under(b)
             staying == B!Staying(b)
             merged == B!Merged(b)
             last == B!Last(b)
             image == B!Assembled(b)
             R == B!Redirected(b)
  <1>1. /\ under = B!Copy(moved, laid) /\ merged = B!Copy(staying, under)
        /\ image = B!Copy(last, merged)
    BY DEF B!Under, B!Merged, B!Assembled
  <1>2. /\ \A n \in DOMAIN staying \cap DOMAIN under : B!IsLink(staying[n]) = B!IsLink(under[n])
        /\ \A n \in DOMAIN last \cap DOMAIN merged : B!IsLink(last[n]) = B!IsLink(merged[n])
        /\ b \in B!Chisel \/ \A n \in DOMAIN output : B!IsDirectory(seen, n)
    BY DEF B!AssemblyFails, B!Clash, B!LeadsNowhere
  <1>3. /\ B!LayersFit(b)
        /\ B!Layers(b)[1] = parent /\ B!Layers(b)[2] = output /\ B!Layers(b)[3] = last
        /\ B!Label(b)[1] = "parent" /\ B!Label(b)[2] = "output"
        /\ b \in B!Chisel <=> Contexts[b].backend = "chisel"
    BY LayersAssumption DEF B!Layers, B!Label, B!Last, B!Chisel
  <1>4. /\ DOMAIN laid = DOMAIN parent \ {"nix"} /\ \A n \in DOMAIN laid : laid[n] = parent[n]
        /\ DOMAIN staying = DOMAIN output \ R
        /\ \A n \in DOMAIN staying : staying[n] = B!Entry(b, n)
    BY DEF B!Laid, B!Restrict, B!Staying
  \* From one tree to the next.
  <1>5. ASSUME NEW n, Dir(laid, n)
        PROVE  /\ Dir(under, n)
               /\ \A f \in DOMAIN laid[n] :
                     /\ f \in DOMAIN under[n]
                     /\ (n \in DOMAIN moved => f \notin DOMAIN moved[n]) => under[n][f] = laid[n][f]
    <2>1. n \in DOMAIN moved => Dir(moved, n)
      BY MovedFiles
    <2> QED BY <1>1, <1>5, <2>1, CopyLower
  <1>6. ASSUME NEW m \in DOMAIN moved
        PROVE  /\ Dir(under, m)
               /\ m \in DOMAIN laid => Dir(laid, m)
               /\ \A f \in DOMAIN moved[m] : f \in DOMAIN under[m] /\ under[m][f] = moved[m][f]
    <2>1. PICK k \in R : laid[k]["link"] = m
      BY DEF B!Moved
    <2>2. k \in DOMAIN laid /\ B!IsLink(laid[k])
      BY RedirectedMeets
    <2>3. m \in DOMAIN laid => Dir(laid, m)
      BY <1>3, <1>4, <2>1, <2>2 DEF B!LayersFit, Dir
    <2>4. Dir(moved, m)
      BY MovedFiles
    <2> QED BY <1>1, <2>3, <2>4, CopyUpper
  <1>7. ASSUME NEW n, Dir(under, n)
        PROVE  /\ Dir(merged, n)
               /\ \A f \in DOMAIN under[n] :
                     /\ f \in DOMAIN merged[n]
                     /\ (n \in DOMAIN staying => f \notin DOMAIN staying[n]) =>
                           merged[n][f] = under[n][f]
    <2>1. n \in DOMAIN staying => Dir(staying, n)
      BY <1>2, <1>7 DEF Dir
    <2> QED BY <1>1, <1>7, <2>1, CopyLower
  <1>8. ASSUME NEW n, Dir(staying, n)
        PROVE  /\ Dir(merged, n)
               /\ \A f \in DOMAIN staying[n] :
                     f \in DOMAIN merged[n] /\ merged[n][f] = staying[n][f]
    <2>1. n \in DOMAIN under => Dir(under, n)
      BY <1>2, <1>8 DEF Dir
    <2> QED BY <1>1, <1>8, <2>1, CopyUpper
  <1>9. ASSUME NEW n, Dir(merged, n)
        PROVE  /\ n \in DOMAIN image
               /\ \A f \in DOMAIN merged[n] :
                     /\ f \in DOMAIN image[n]
                     /\ (n \in DOMAIN last => f \notin DOMAIN last[n]) => image[n][f] = merged[n][f]
    <2>1. n \in DOMAIN last => Dir(last, n)
      BY <1>2, <1>9 DEF Dir
    <2> QED BY <1>1, <1>9, <2>1, CopyLower DEF Dir
  <1>10. ASSUME NEW n, Dir(last, n)
         PROVE  /\ n \in DOMAIN image
                /\ \A f \in DOMAIN last[n] : f \in DOMAIN image[n] /\ image[n][f] = last[n][f]
    <2>1. n \in DOMAIN merged => Dir(merged, n)
      BY <1>2, <1>10 DEF Dir
    <2> QED BY <1>1, <1>10, <2>1, CopyUpper DEF Dir
  \* What an upper tree has of a directory is of an upper layer.
  <1>11. ASSUME NEW n \in DOMAIN laid, B!IsLink(laid[n])
         PROVE  n \in DOMAIN merged /\ B!IsLink(merged[n])
    <2>1. n \notin DOMAIN moved
      BY <1>6, <1>11 DEF Dir
    <2>2. n \in DOMAIN under /\ under[n] = laid[n]
      BY <1>1, <2>1 DEF B!Copy
    <2>3. n \in DOMAIN staying => B!IsLink(staying[n]) /\ merged[n] = staying[n]
      <3> SUFFICES ASSUME n \in DOMAIN staying PROVE B!IsLink(staying[n]) /\ merged[n] = staying[n]
        OBVIOUS
      <3>1. B!IsLink(staying[n])
        BY <1>2, <1>11, <2>2
      <3>2. merged[n] = B!Over(staying[n], under[n])
        BY <1>1, <2>2 DEF B!Copy
      <3> QED BY <3>1, <3>2 DEF B!Over
    <2>4. n \notin DOMAIN staying => merged[n] = under[n]
      BY <1>1, <2>2 DEF B!Copy
    <2>5. n \in DOMAIN merged
      BY <1>1, <2>2 DEF B!Copy
    <2> QED BY <1>11, <2>2, <2>3, <2>4, <2>5
  <1>12. ASSUME NEW n, Dir(last, n)
         PROVE  n \in B!Brings(b, 3) /\ B!Place(b, n) = n /\ B!FilesOf(b, 3, n) = DOMAIN last[n]
    <2>1. ~ B!MeetsLink(b, n)
      BY <1>2, <1>4, <1>11, <1>12 DEF B!MeetsLink, Dir
    <2> QED BY <1>3, <1>12, <2>1 DEF B!Brings, B!Place, B!FilesOf, B!Listing, Dir
  <1>13. ASSUME NEW n, Dir(staying, n)
         PROVE  /\ n \in B!Brings(b, 2) /\ B!Place(b, n) = n
                /\ B!FilesOf(b, 2, n) = DOMAIN staying[n]
                /\ \A f \in DOMAIN staying[n] : staying[n][f] = "output"
    <2>1. n \in DOMAIN output /\ n \notin R /\ staying[n] = B!Entry(b, n) /\ ~ B!IsLink(staying[n])
      BY <1>4, <1>13 DEF Dir
    <2>2. n \in DOMAIN seen /\ seen[n] = output[n]
      BY <2>1 DEF B!Seen
    <2>3. B!IsDirectory(seen, n) /\ B!Listing(seen, n) = staying[n]
      <3>1. CASE b \in B!Chisel
        BY <2>1, <2>2, <3>1 DEF B!Entry, B!IsDirectory, B!Listing
      <3>2. CASE b \notin B!Chisel
        BY <1>2, <2>1, <3>2 DEF B!Entry
      <3> QED BY <3>1, <3>2
    <2>4. ~ B!MeetsLink(b, n)
      BY <1>4, <2>1, <2>3 DEF B!MeetsLink, B!Redirected
    <2>5. B!Place(b, n) = n
      BY <2>4 DEF B!Place
    <2>6. n \in B!Brings(b, 2)
      <3>1. CASE b \in B!Chisel
        BY <1>3, <2>1, <3>1 DEF B!Entry, B!Brings
      <3>2. CASE b \notin B!Chisel
        BY <1>3, <2>1, <3>2 DEF B!Brings
      <3> QED BY <3>1, <3>2
    <2> QED BY <2>1, <2>3, <2>5, <2>6, SeenFiles DEF B!FilesOf
  \* Layer by layer.
  <1>14. ASSUME NEW n \in B!Brings(b, 1), NEW f \in B!FilesOf(b, 1, n)
         PROVE  \/ B!Holds(image, B!Place(b, n), f, B!Label(b)[1])
                \/ \E j \in 2 .. 3 : B!Has(b, j, B!Place(b, n), f)
    <2>1. Dir(laid, n) /\ B!Place(b, n) = n /\ f \in DOMAIN laid[n] /\ laid[n][f] = "parent"
      <3>1. n \in DOMAIN parent \ {"nix"} /\ ~ B!IsLink(parent[n])
        BY <1>3, <1>14 DEF B!Brings
      <3>2. B!Place(b, n) = n /\ f \in DOMAIN parent[n]
        BY <1>3, <1>14, <3>1 DEF B!Place, B!MeetsLink, B!FilesOf, B!Listing
      <3> QED BY <1>3, <1>4, <3>1, <3>2 DEF B!LayersFit, Dir
    <2>2. Dir(under, n) /\ f \in DOMAIN under[n] /\ Dir(merged, n) /\ f \in DOMAIN merged[n]
      BY <1>5, <1>7, <2>1
    <2>3. CASE n \in DOMAIN last /\ f \in DOMAIN last[n]
      <3>1. Dir(last, n)
        BY <1>2, <2>2, <2>3 DEF Dir
      <3> QED BY <1>12, <2>1, <2>3, <3>1 DEF B!Has
    <2>4. CASE n \in DOMAIN staying /\ f \in DOMAIN staying[n]
      <3>1. Dir(staying, n)
        BY <1>2, <2>2, <2>4 DEF Dir
      <3> QED BY <1>13, <2>1, <2>4, <3>1 DEF B!Has
    <2>5. CASE n \in DOMAIN moved /\ f \in DOMAIN moved[n]
      BY <2>1, <2>5, MovedFiles
    <2>6. CASE /\ n \in DOMAIN last => f \notin DOMAIN last[n]
               /\ n \in DOMAIN staying => f \notin DOMAIN staying[n]
               /\ n \in DOMAIN moved => f \notin DOMAIN moved[n]
      BY <1>3, <1>5, <1>7, <1>9, <2>1, <2>2, <2>6 DEF B!Holds
    <2> QED BY <2>3, <2>4, <2>5, <2>6
  <1>15. ASSUME NEW n \in B!Brings(b, 2), NEW f \in B!FilesOf(b, 2, n)
         PROVE  \/ B!Holds(image, B!Place(b, n), f, B!Label(b)[2])
                \/ B!Has(b, 3, B!Place(b, n), f)
    <2> DEFINE p == B!Place(b, n)
    <2>1. Dir(merged, p) /\ f \in DOMAIN merged[p] /\ merged[p][f] = "output"
      <3>1. CASE n \in R
        <4>1. p = laid[n]["link"] /\ f \in DOMAIN B!Listing(seen, n)
          BY <1>15, <3>1, RedirectedMeets
        <4>2. p \in DOMAIN moved /\ f \in DOMAIN moved[p]
          BY <3>1, <4>1 DEF B!Moved
        <4>3. Dir(under, p) /\ f \in DOMAIN under[p] /\ under[p][f] = "output"
          BY <1>6, <4>2, MovedFiles
        <4>4. p \in DOMAIN staying => Dir(staying, p)
          BY <1>2, <4>3 DEF Dir
        <4> QED BY <1>7, <1>8, <1>13, <4>3, <4>4
      <3>2. CASE n \notin R
        <4>1. n \in DOMAIN output /\ n \in DOMAIN staying /\ staying[n] = B!Entry(b, n)
          BY <1>3, <1>4, <3>2 DEF B!Brings
        <4>2. ~ B!IsLink(staying[n])
          <5>1. CASE b \in B!Chisel
            <6>1. ~ B!IsLink(output[n])
              BY <1>3, <1>4, <3>2, <4>1, <5>1 DEF B!Brings, B!MeetsLink, B!Redirected
            <6> QED BY <4>1, <5>1, <6>1 DEF B!Entry
          <5>2. CASE b \notin B!Chisel
            BY <1>2, <4>1, <5>2, SeenFiles DEF B!Entry
          <5> QED BY <5>1, <5>2
        <4>3. Dir(staying, n)
          BY <4>1, <4>2 DEF Dir
        <4> QED BY <1>8, <1>13, <1>15, <4>3
      <3> QED BY <3>1, <3>2
    <2>2. CASE p \in DOMAIN last /\ f \in DOMAIN last[p]
      <3>1. Dir(last, p)
        BY <1>2, <2>1, <2>2 DEF Dir
      <3> QED BY <1>12, <2>2, <3>1 DEF B!Has
    <2>3. CASE p \in DOMAIN last => f \notin DOMAIN last[p]
      BY <1>3, <1>9, <2>1, <2>3 DEF B!Holds
    <2> QED BY <2>2, <2>3
  <1>16. ASSUME NEW n \in B!Brings(b, 3), NEW f \in B!FilesOf(b, 3, n)
         PROVE  B!Holds(image, B!Place(b, n), f, B!Label(b)[3])
    <2>1. Dir(last, n)
      BY <1>3 DEF B!Brings, Dir
    <2>2. f \in DOMAIN last[n] /\ last[n][f] = B!Label(b)[3]
      BY <1>3, <1>12, <2>1 DEF B!LayersFit, Dir
    <2> QED BY <1>10, <1>12, <2>1, <2>2 DEF B!Holds
  \* And the other way round.
  <1>17. ASSUME NEW p \in DOMAIN image, ~ B!IsLink(image[p]), NEW f \in DOMAIN image[p]
         PROVE  \E k \in 1 .. 3 : B!Has(b, k, p, f)
    <2>1. \/ Dir(last, p) /\ f \in DOMAIN last[p]
          \/ Dir(merged, p) /\ f \in DOMAIN merged[p]
      BY <1>1, <1>2, <1>17, CopyHas DEF Dir
    <2>2. CASE Dir(last, p) /\ f \in DOMAIN last[p]
      BY <1>12, <2>2 DEF B!Has
    <2>3. CASE Dir(merged, p) /\ f \in DOMAIN merged[p]
      <3>1. \/ Dir(staying, p) /\ f \in DOMAIN staying[p]
            \/ Dir(under, p) /\ f \in DOMAIN under[p]
        BY <1>1, <1>2, <2>3, CopyHas
      <3>2. CASE Dir(staying, p) /\ f \in DOMAIN staying[p]
        BY <1>13, <3>2 DEF B!Has
      <3>3. CASE Dir(under, p) /\ f \in DOMAIN under[p]
        <4>1. p \in DOMAIN moved \cap DOMAIN laid => B!IsLink(moved[p]) = B!IsLink(laid[p])
          <5>1. p \in DOMAIN moved \cap DOMAIN laid => Dir(laid, p)
            BY <1>6
          <5>2. p \in DOMAIN moved => Dir(moved, p)
            BY MovedFiles
          <5>3. p \in DOMAIN moved \cap DOMAIN laid => ~ B!IsLink(moved[p]) /\ ~ B!IsLink(laid[p])
            BY <5>1, <5>2 DEF Dir
          <5> QED BY <5>3 DEF B!IsLink
        <4>2. \/ Dir(moved, p) /\ f \in DOMAIN moved[p]
              \/ Dir(laid, p) /\ f \in DOMAIN laid[p]
          BY <1>1, <3>3, <4>1, CopyHas
        <4>3. CASE Dir(moved, p) /\ f \in DOMAIN moved[p]
          BY <4>3, MovedFiles DEF Dir
        <4>4. CASE Dir(laid, p) /\ f \in DOMAIN laid[p]
          <5>1. p \in DOMAIN parent \ {"nix"} /\ ~ B!IsLink(parent[p]) /\ f \in DOMAIN parent[p]
            BY <1>4, <4>4 DEF Dir
          <5>2. p \in B!Brings(b, 1) /\ B!Place(b, p) = p /\ f \in B!FilesOf(b, 1, p)
            BY <1>3, <5>1 DEF B!Brings, B!Place, B!MeetsLink, B!FilesOf, B!Listing
          <5> QED BY <5>2 DEF B!Has
        <4> QED BY <4>2, <4>3, <4>4
      <3> QED BY <3>1, <3>2, <3>3
    <2> QED BY <2>1, <2>2, <2>3
  <1>18. \A k \in 1 .. 3 : \A n \in B!Brings(b, k) : \A f \in B!FilesOf(b, k, n) :
            \/ B!Holds(image, B!Place(b, n), f, B!Label(b)[k])
            \/ \E j \in (k + 1) .. 3 : B!Has(b, j, B!Place(b, n), f)
    <2>1. \A k \in 1 .. 3 : k = 1 \/ k = 2 \/ k = 3
      OBVIOUS
    <2> QED BY <1>14, <1>15, <1>16, <2>1
  <1> QED BY <1>17, <1>18 DEF B!IsLayered
-----------------------------------------------------------------------------
(* Finalize: the manifests and aliases of one image.                       *)

\* A finite set that is not empty has an element that none is above.
LEMMA TopExists ==
    ASSUME NEW C, IsFiniteSet(C), C # {}, NEW R,
           \A v \in C : <<v, v>> \notin R,
           \A u, v, w \in C : <<u, v>> \in R /\ <<v, w>> \in R => <<u, w>> \in R
    PROVE  \E v \in C : \A w \in C : <<w, v>> \notin R
  <1> DEFINE Up(v) == {w \in C : <<w, v>> \in R}
             Ups == {Up(v) : v \in C}
  <1>1. Ups \subseteq FiniteSubsetsOf(C) /\ Ups # {}
    <2>1. \A v \in C : Up(v) \in SUBSET C
      OBVIOUS
    <2>2. \A v \in C : IsFiniteSet(Up(v))
      BY <2>1, FS_Subset
    <2>3. ASSUME NEW U \in Ups PROVE U \in FiniteSubsetsOf(C)
      <3>1. PICK v \in C : U = Up(v)
        OBVIOUS
      <3> HIDE DEF Up
      <3> QED BY <2>1, <2>2, <3>1 DEF FiniteSubsetsOf
    <2>4. PICK v : v \in C
      OBVIOUS
    <2>5. Up(v) \in Ups
      BY <2>4
    <2> HIDE DEF Ups
    <2> QED BY <2>3, <2>5
  <1>2. PICK U \in Ups : \A V \in Ups : <<V, U>> \notin StrictSubsetOrdering(C)
    <2> HIDE DEF Ups
    <2> QED BY <1>1, FS_StrictSubsetOrderingWellFounded, WFMin
  <1>3. PICK v \in C : U = Up(v)
    BY <1>2
  <1>4. ASSUME NEW w \in C, <<w, v>> \in R
        PROVE  FALSE
    <2>1. w \in Up(v) /\ w \notin Up(w) /\ Up(w) \subseteq Up(v)
      BY <1>4
    <2>2. <<Up(w), Up(v)>> \in StrictSubsetOrdering(C)
      BY <2>1 DEF StrictSubsetOrdering
    <2> QED BY <1>2, <1>3, <2>2
  <1> QED BY <1>4
-----------------------------------------------------------------------------
(* Finalize: `ch finalize`. Versions are compared by their components.     *)

\* A name with a version of at most four numbers, as Spelled has them.
Numbered(t) ==
    /\ t \in F!TagNames
    /\ Len(t.nums) <= 4 /\ (Len(t.nums) = 4 => t.nums[4] < 100)

\* The builds of two versions have as many digits.
Level(t, u) ==
    Len(t.nums) = 4 /\ Len(u.nums) = 4 => (t.nums[4] < 10 <=> u.nums[4] < 10)

Above(v, w) ==
    \E k \in 1..4 : /\ F!Component(w, k) < F!Component(v, k)
                    /\ \A m \in 1..(k - 1) : F!Component(v, m) = F!Component(w, m)

LEMMA NumbersOf ==
    ASSUME NEW t, Numbered(t)
    PROVE  t.nums \in Seq(Nat) /\ Len(t.nums) \in 0..4 /\ t.suffix \in Seq(STRING)
  <1>1. t.nums \in Seq(Nat) /\ t.suffix \in Seq(STRING) /\ Len(t.nums) <= 4
    BY DEF Numbered, F!TagNames
  <1>2. Len(t.nums) \in Nat
    BY <1>1
  <1>3. \A n \in Nat : n <= 4 => n \in 0..4
    OBVIOUS
  <1> QED BY <1>1, <1>2, <1>3

LEMMA Components ==
    ASSUME NEW t, Numbered(t), NEW k \in 1..4
    PROVE  /\ F!Component(t, k) \in Int
           /\ k <= Len(t.nums) => F!Component(t, k) = t.nums[k] /\ t.nums[k] \in Nat
           /\ k > Len(t.nums) => F!Component(t, k) = -1
  <1>1. t.nums \in Seq(Nat) /\ Len(t.nums) \in Nat
    BY NumbersOf
  <1> QED BY <1>1 DEF F!Component

\* Strings of digits of one length compare as the numbers do.
LEMMA DigitsCompare ==
    ASSUME NEW a \in -1..99, NEW b \in -1..99,
           a >= 0 /\ b >= 0 => (a < 10 <=> b < 10)
    PROVE  F!StringLess(F!Digits(a), F!Digits(b)) <=> a < b
  <1>1. CASE b = -1
    <2>1. Len(F!Digits(b)) = 0
      BY <1>1 DEF F!Digits
    <2> QED BY <1>1, <2>1 DEF F!StringLess
  <1>2. CASE a = -1 /\ b >= 0
    <2>1. F!Digits(a) = << >> /\ Len(F!Digits(b)) \in {1, 2}
      BY <1>2 DEF F!Digits
    <2>2. 1 \in 1..Len(F!Digits(b)) /\ 1 > Len(F!Digits(a)) /\ \A m \in 1..(1 - 1) : FALSE
      BY <2>1
    <2> QED BY <1>2, <2>2 DEF F!StringLess
  <1>3. CASE a >= 0 /\ b >= 0 /\ a < 10
    <2>1. F!Digits(a) = <<a>> /\ F!Digits(b) = <<b>>
      BY <1>3 DEF F!Digits
    <2>2. F!StringLess(<<a>>, <<b>>) <=> a < b
      BY DEF F!StringLess
    <2> QED BY <2>1, <2>2
  <1>4. CASE a >= 0 /\ b >= 0 /\ a >= 10
    <2>1. F!Digits(a) = <<a \div 10, a % 10>> /\ F!Digits(b) = <<b \div 10, b % 10>>
      BY <1>4 DEF F!Digits
    <2>2. /\ a \div 10 \in Int /\ a % 10 \in 0..9 /\ a = (10 * (a \div 10)) + (a % 10)
          /\ b \div 10 \in Int /\ b % 10 \in 0..9 /\ b = (10 * (b \div 10)) + (b % 10)
      BY <1>4
    <2>3. ASSUME NEW p \in Int, NEW q \in Int, NEW x \in Int, NEW y \in Int
          PROVE  F!StringLess(<<p, q>>, <<x, y>>) <=> p < x \/ (p = x /\ q < y)
      <3>1. /\ Len(<<p, q>>) = 2 /\ Len(<<x, y>>) = 2
            /\ <<p, q>>[1] = p /\ <<p, q>>[2] = q /\ <<x, y>>[1] = x /\ <<x, y>>[2] = y
        OBVIOUS
      <3>2. 1..2 = {1, 2} /\ 1..(1 - 1) = {} /\ 1..(2 - 1) = {1}
        OBVIOUS
      <3> QED BY <3>1, <3>2 DEF F!StringLess
    <2>4. F!StringLess(F!Digits(a), F!Digits(b)) <=>
            a \div 10 < b \div 10 \/ (a \div 10 = b \div 10 /\ a % 10 < b % 10)
      <3>1. /\ a \div 10 \in Int /\ a % 10 \in Int
            /\ b \div 10 \in Int /\ b % 10 \in Int
        BY <2>2
      <3> QED BY <2>1, <2>3, <3>1
    <2> QED BY <2>2, <2>4
  <1> QED BY <1>1, <1>2, <1>3, <1>4

\* Greater is the order of the numbers.
LEMMA GreaterIsAbove ==
    ASSUME NEW v, NEW w, Numbered(v), Numbered(w), Level(v, w)
    PROVE  F!Greater(v, w) <=> Above(v, w)
  <1>1. \A k \in 1..4 : F!ComponentLess(k, F!Component(w, k), F!Component(v, k)) <=>
                            F!Component(w, k) < F!Component(v, k)
    <2> SUFFICES ASSUME NEW k \in 1..4
                 PROVE  F!ComponentLess(k, F!Component(w, k), F!Component(v, k)) <=>
                            F!Component(w, k) < F!Component(v, k)
      OBVIOUS
    <2>1. CASE k < 4
      BY <2>1 DEF F!ComponentLess
    <2>2. CASE k = 4
      <3>1. ASSUME NEW t, Numbered(t)
            PROVE  /\ F!Component(t, 4) \in -1..99
                   /\ F!Component(t, 4) >= 0 => Len(t.nums) = 4 /\ F!Component(t, 4) = t.nums[4]
        <4>1. Len(t.nums) \in 0..4 /\ (Len(t.nums) = 4 => t.nums[4] < 100)
          BY <3>1, NumbersOf DEF Numbered
        <4>2. /\ F!Component(t, 4) \in Int
              /\ 4 <= Len(t.nums) => F!Component(t, 4) = t.nums[4] /\ t.nums[4] \in Nat
              /\ 4 > Len(t.nums) => F!Component(t, 4) = -1
          BY <3>1, Components
        <4>3. \A n \in 0..4 : n # 4 => 4 > n
          OBVIOUS
        <4>4. CASE Len(t.nums) = 4
          BY <4>1, <4>2, <4>4
        <4>5. CASE Len(t.nums) # 4
          BY <4>1, <4>2, <4>3, <4>5
        <4> QED BY <4>4, <4>5
      <3>2. F!Component(w, 4) >= 0 /\ F!Component(v, 4) >= 0 =>
              (F!Component(w, 4) < 10 <=> F!Component(v, 4) < 10)
        BY <3>1 DEF Level
      <3> QED BY <2>2, <3>1, <3>2, DigitsCompare DEF F!ComponentLess
    <2> QED BY <2>1, <2>2
  <1> QED BY <1>1 DEF F!Greater, Above
-----------------------------------------------------------------------------
\* The order spelled out.
LEMMA AboveIs ==
    ASSUME NEW v, NEW w
    PROVE  Above(v, w) <=>
             \/ F!Component(w, 1) < F!Component(v, 1)
             \/ /\ F!Component(w, 2) < F!Component(v, 2)
                /\ F!Component(v, 1) = F!Component(w, 1)
             \/ /\ F!Component(w, 3) < F!Component(v, 3)
                /\ F!Component(v, 1) = F!Component(w, 1)
                /\ F!Component(v, 2) = F!Component(w, 2)
             \/ /\ F!Component(w, 4) < F!Component(v, 4)
                /\ F!Component(v, 1) = F!Component(w, 1)
                /\ F!Component(v, 2) = F!Component(w, 2)
                /\ F!Component(v, 3) = F!Component(w, 3)
  <1>1. 1..4 = {1, 2, 3, 4}
    OBVIOUS
  <1>2. 1..(1 - 1) = {} /\ 1..(2 - 1) = {1} /\ 1..(3 - 1) = {1, 2} /\ 1..(4 - 1) = {1, 2, 3}
    OBVIOUS
  <1> QED BY <1>1, <1>2 DEF Above

\* What Highest looks for: no other version beats it.
Beats(w, v) == F!Greater(w, v) \/ (~ F!Greater(v, w) /\ Len(w.suffix) < Len(v.suffix))

Comparable(C) == \A t, u \in C : Numbered(t) /\ Level(t, u)

LEMMA BeatsIsOrder ==
    ASSUME NEW C, Comparable(C)
    PROVE  /\ \A v \in C : ~ Beats(v, v)
           /\ \A u, v, w \in C : Beats(u, v) /\ Beats(v, w) => Beats(u, w)
  <1>1. \A v, w \in C : F!Greater(v, w) <=> Above(v, w)
    BY GreaterIsAbove DEF Comparable
  <1>2. \A v \in C : \A k \in {1, 2, 3, 4} : F!Component(v, k) \in Int
    BY Components DEF Comparable
  <1>3. \A v \in C : Len(v.suffix) \in Nat
    <2> SUFFICES ASSUME NEW v \in C PROVE Len(v.suffix) \in Nat
      OBVIOUS
    <2>1. v.suffix \in Seq(STRING)
      BY NumbersOf DEF Comparable
    <2> QED BY <2>1
  <1>4. \A v \in C : ~ Beats(v, v)
    BY <1>1, <1>2, <1>3, AboveIs DEF Beats
  <1>5. ASSUME NEW u \in C, NEW v \in C, NEW w \in C, Beats(u, v), Beats(v, w)
        PROVE  Beats(u, w)
    <2>1. /\ F!Component(u, 1) \in Int /\ F!Component(u, 2) \in Int
          /\ F!Component(u, 3) \in Int /\ F!Component(u, 4) \in Int
          /\ F!Component(v, 1) \in Int /\ F!Component(v, 2) \in Int
          /\ F!Component(v, 3) \in Int /\ F!Component(v, 4) \in Int
          /\ F!Component(w, 1) \in Int /\ F!Component(w, 2) \in Int
          /\ F!Component(w, 3) \in Int /\ F!Component(w, 4) \in Int
          /\ Len(u.suffix) \in Nat /\ Len(v.suffix) \in Nat /\ Len(w.suffix) \in Nat
      BY <1>2, <1>3
    <2>2. /\ Above(u, v) \/ (~ Above(v, u) /\ Len(u.suffix) < Len(v.suffix))
          /\ Above(v, w) \/ (~ Above(w, v) /\ Len(v.suffix) < Len(w.suffix))
      BY <1>1, <1>5 DEF Beats
    <2>3. Above(u, w) \/ (~ Above(w, u) /\ Len(u.suffix) < Len(w.suffix))
      <3> DEFINE Over(x, y) ==
                   \/ F!Component(y, 1) < F!Component(x, 1)
                   \/ /\ F!Component(y, 2) < F!Component(x, 2)
                      /\ F!Component(x, 1) = F!Component(y, 1)
                   \/ /\ F!Component(y, 3) < F!Component(x, 3)
                      /\ F!Component(x, 1) = F!Component(y, 1)
                      /\ F!Component(x, 2) = F!Component(y, 2)
                   \/ /\ F!Component(y, 4) < F!Component(x, 4)
                      /\ F!Component(x, 1) = F!Component(y, 1)
                      /\ F!Component(x, 2) = F!Component(y, 2)
                      /\ F!Component(x, 3) = F!Component(y, 3)
      <3>1. /\ Above(u, v) <=> Over(u, v)
            /\ Above(v, u) <=> Over(v, u)
            /\ Above(v, w) <=> Over(v, w)
            /\ Above(w, v) <=> Over(w, v)
            /\ Above(u, w) <=> Over(u, w)
            /\ Above(w, u) <=> Over(w, u)
        BY AboveIs, Zenon
      <3>2. Over(u, w) \/ (~ Over(w, u) /\ Len(u.suffix) < Len(w.suffix))
        <4> DEFINE Same(x, y) == /\ F!Component(x, 1) = F!Component(y, 1)
                                 /\ F!Component(x, 2) = F!Component(y, 2)
                                 /\ F!Component(x, 3) = F!Component(y, 3)
                                 /\ F!Component(x, 4) = F!Component(y, 4)
        <4>1. Over(u, v) \/ (Same(u, v) /\ Len(u.suffix) < Len(v.suffix))
          BY <2>1, <2>2, <3>1
        <4>2. Over(v, w) \/ (Same(v, w) /\ Len(v.suffix) < Len(w.suffix))
          BY <2>1, <2>2, <3>1
        <4>3. CASE Over(u, v) /\ Over(v, w)
          BY <2>1, <4>3
        <4>4. CASE Over(u, v) /\ Same(v, w)
          BY <4>4
        <4>5. CASE Same(u, v) /\ Over(v, w)
          BY <4>5
        <4>6. CASE Same(u, v) /\ Len(u.suffix) < Len(v.suffix) /\
                   Same(v, w) /\ Len(v.suffix) < Len(w.suffix)
          BY <2>1, <4>6
        <4> QED BY <4>1, <4>2, <4>3, <4>4, <4>5, <4>6
      <3> QED BY <3>1, <3>2
    <2> QED BY <1>1, <2>3 DEF Beats
  <1> QED BY <1>4, <1>5

\* A finite set of versions has a highest one.
LEMMA HighestIs ==
    ASSUME NEW C, IsFiniteSet(C), C # {}, Comparable(C)
    PROVE  F!Highest(C) \in C /\ \A w \in C : ~ F!Greater(w, F!Highest(C))
  <1> DEFINE R == {p \in C \X C : Beats(p[1], p[2])}
  <1>1. \A v, w \in C : <<v, w>> \in R <=> Beats(v, w)
    OBVIOUS
  <1>2. PICK v \in C : \A w \in C : <<w, v>> \notin R
    <2>1. \A u \in C : <<u, u>> \notin R
      BY <1>1, BeatsIsOrder
    <2>2. \A u, x, w \in C : <<u, x>> \in R /\ <<x, w>> \in R => <<u, w>> \in R
      BY <1>1, BeatsIsOrder
    <2> HIDE DEF R
    <2> QED BY <2>1, <2>2, TopExists
  <1>3. \A w \in C : ~ Beats(w, v)
    BY <1>1, <1>2
  <1>4. \A w \in C : Len(w.suffix) \in Nat
    <2> SUFFICES ASSUME NEW w \in C PROVE Len(w.suffix) \in Nat
      OBVIOUS
    <2>1. w.suffix \in Seq(STRING)
      BY NumbersOf DEF Comparable
    <2> QED BY <2>1
  <1>5. \A w \in C : ~ F!Greater(w, v) /\
                        (F!Greater(v, w) \/ Len(v.suffix) <= Len(w.suffix))
    BY <1>3, <1>4 DEF Beats
  <1> QED BY <1>5 DEF F!Highest

\* A series is below the versions in it.
LEMMA LowerIsBelow ==
    ASSUME NEW u, NEW t, Numbered(u), t \in F!GetLowerVariants(u)
    PROVE  /\ Numbered(t) /\ F!IsVersion(t) /\ t.suffix = u.suffix
           /\ Above(u, t)
           /\ F!GetLowerVariants(t) \subseteq F!GetLowerVariants(u)
  <1>1. PICK n \in 1..(Len(u.nums) - 1) :
           t = [nums |-> SubSeq(u.nums, 1, n), suffix |-> u.suffix]
    BY DEF F!GetLowerVariants
  <1>2. u.nums \in Seq(Nat) /\ Len(u.nums) \in 0..4 /\ u.suffix \in Seq(STRING)
    BY NumbersOf
  <1>3. /\ t.nums \in Seq(Nat) /\ Len(t.nums) = n /\ \A k \in 1..n : t.nums[k] = u.nums[k]
        /\ t.suffix = u.suffix
    BY <1>1, <1>2, SubSeqProperties
  <1>4. n \in 1..3
    <2>1. \A l \in 0..4 : \A k \in 1..(l - 1) : k \in 1..3
      OBVIOUS
    <2> QED BY <1>2, <2>1
  <1>5. Numbered(t)
    <2>1. t \in F!TagNames
      BY <1>1, <1>2, <1>3 DEF F!TagNames
    <2> QED BY <1>3, <1>4, <2>1 DEF Numbered
  <1>6. F!IsVersion(t)
    <2>1. Len(t.nums) # 0
      BY <1>3, <1>4
    <2> QED BY <2>1 DEF F!IsVersion
  <1>7. Above(u, t)
    <2>1. n + 1 \in 1..4 /\ n + 1 <= Len(u.nums) /\ n + 1 > Len(t.nums)
      BY <1>2, <1>3, <1>4
    <2>2. F!Component(t, n + 1) = -1 /\ F!Component(u, n + 1) \in Nat
      BY <1>5, <2>1, Components
    <2>3. ASSUME NEW m \in 1..((n + 1) - 1)
          PROVE  F!Component(u, m) = F!Component(t, m)
      <3>1. m \in 1..n /\ m \in 1..4 /\ m <= Len(t.nums) /\ m <= Len(u.nums)
        <4>1. m \in 1..n /\ Len(u.nums) \in Int /\ n \in 1..(Len(u.nums) - 1)
          BY <1>2, <1>4
        <4> QED BY <1>3, <1>4, <4>1
      <3>2. F!Component(u, m) = u.nums[m] /\ F!Component(t, m) = t.nums[m]
        BY <1>5, <3>1, Components
      <3> QED BY <1>3, <3>1, <3>2
    <2> QED BY <2>1, <2>2, <2>3 DEF Above
  <1>8. ASSUME NEW a \in F!GetLowerVariants(t)
        PROVE  a \in F!GetLowerVariants(u)
    <2>1. PICK m \in 1..(Len(t.nums) - 1) :
             a = [nums |-> SubSeq(t.nums, 1, m), suffix |-> t.suffix]
      BY DEF F!GetLowerVariants
    <2>2. m \in 1..(Len(u.nums) - 1) /\ m \in 1..n
      BY <1>2, <1>3, <1>4
    <2>3. SubSeq(t.nums, 1, m) = SubSeq(u.nums, 1, m)
      BY <1>2, <1>3, <2>2
    <2> QED BY <1>3, <2>1, <2>2, <2>3 DEF F!GetLowerVariants
  <1> QED BY <1>3, <1>5, <1>6, <1>7, <1>8
-----------------------------------------------------------------------------
(* The aliases of one definition.                                          *)

Suffixes(d) == d.variants \cup {<< >>}

LEMMA SuffixesAre ==
    ASSUME NEW d, F!Spelled(d), NEW s \in Suffixes(d)
    PROVE  s \in Seq(STRING)
  <1>1. << >> \in Seq(STRING) /\ d.variants \subseteq Seq(STRING)
    BY EmptySeq DEF F!Spelled
  <1> QED BY <1>1 DEF Suffixes

LEMMA SuffixedIs ==
    ASSUME NEW d, F!Spelled(d), NEW t \in d.tags, NEW s \in Suffixes(d)
    PROVE  /\ F!Suffixed(t, s) \in F!TagNames
           /\ F!Suffixed(t, s).nums = t.nums
           /\ F!Suffixed(t, s).suffix = t.suffix \o s
           /\ Numbered(F!Suffixed(t, s))
           /\ s = << >> => F!Suffixed(t, s) = t
  <1>1. t \in F!TagNames /\ s \in Seq(STRING)
    BY SuffixesAre DEF F!Spelled
  <1>2. /\ t \in [nums : Seq(Nat), suffix : Seq(STRING)]
        /\ t.nums \in Seq(Nat) /\ t.suffix \in Seq(STRING) /\ t.suffix \o s \in Seq(STRING)
    BY <1>1 DEF F!TagNames
  <1>3. /\ F!Suffixed(t, s) = [t EXCEPT !.suffix = t.suffix \o s]
        /\ F!Suffixed(t, s).nums = t.nums /\ F!Suffixed(t, s).suffix = t.suffix \o s
    BY <1>2 DEF F!Suffixed
  <1>4. F!Suffixed(t, s) \in F!TagNames
    BY <1>2, <1>3 DEF F!TagNames
  <1>5. Numbered(F!Suffixed(t, s))
    BY <1>3, <1>4 DEF F!Spelled, Numbered
  <1>6. s = << >> => F!Suffixed(t, s) = t
    <2>1. t.suffix \o << >> = t.suffix
      BY <1>2
    <2> QED BY <1>2, <1>3, <2>1
  <1> QED BY <1>3, <1>4, <1>5, <1>6

\* Tags, their variants and the prereleases among them.
LEMMA UnitsAre ==
    ASSUME NEW d, F!Spelled(d)
    PROVE  /\ \A t \in d.tags, s \in Suffixes(d) : F!Suffixed(t, s) \in F!Units(d)
           /\ \A u \in F!Units(d) : \E t \in d.tags, s \in Suffixes(d) : u = F!Suffixed(t, s)
           /\ \A u \in F!Prereleases(d) :
                 \E t \in d.prereleases, s \in Suffixes(d) : u = F!Suffixed(t, s)
           /\ \A t \in d.prereleases, s \in Suffixes(d) : F!Suffixed(t, s) \in F!Prereleases(d)
  <1>1. \A t \in d.tags : F!Suffixed(t, << >>) = t /\ << >> \in Suffixes(d)
    BY SuffixedIs DEF Suffixes
  <1>2. ASSUME NEW t \in d.tags, NEW s \in Suffixes(d)
        PROVE  F!Suffixed(t, s) \in F!Units(d)
    <2>1. CASE s = << >>
      BY <1>1, <2>1 DEF F!Units
    <2>2. CASE s \in d.variants
      BY <2>2 DEF F!Units, F!Variants, F!Tagged
    <2> QED BY <2>1, <2>2 DEF Suffixes
  <1>3. ASSUME NEW u \in F!Units(d)
        PROVE  \E t \in d.tags, s \in Suffixes(d) : u = F!Suffixed(t, s)
    <2>1. CASE u \in d.tags
      BY <1>1, <2>1
    <2>2. CASE u \in F!Variants(d)
      <3>1. PICK s \in d.variants : u \in F!Tagged(d, s)
        BY <2>2 DEF F!Variants
      <3>2. PICK t \in d.tags : u = F!Suffixed(t, s)
        BY <3>1 DEF F!Tagged
      <3> QED BY <3>1, <3>2 DEF Suffixes
    <2> QED BY <2>1, <2>2 DEF F!Units
  <1>4. ASSUME NEW u \in F!Prereleases(d)
        PROVE  \E t \in d.prereleases, s \in Suffixes(d) : u = F!Suffixed(t, s)
    <2>1. PICK s \in Suffixes(d) : u \in {F!Suffixed(t, s) : t \in d.prereleases}
      BY <1>4 DEF F!Prereleases, Suffixes
    <2> QED BY <2>1
  <1>5. ASSUME NEW t \in d.prereleases, NEW s \in Suffixes(d)
        PROVE  F!Suffixed(t, s) \in F!Prereleases(d)
    BY DEF F!Prereleases, Suffixes
  <1> QED BY <1>2, <1>3, <1>4, <1>5

LEMMA UnitsCompare ==
    ASSUME NEW d, F!Spelled(d)
    PROVE  Comparable(F!Units(d)) /\ F!Prereleases(d) \subseteq F!Units(d)
  <1>1. ASSUME NEW t \in F!Units(d), NEW u \in F!Units(d)
        PROVE  Numbered(t) /\ Level(t, u)
    <2>1. PICK x \in d.tags, r \in Suffixes(d) : t = F!Suffixed(x, r)
      BY UnitsAre
    <2>2. PICK y \in d.tags, s \in Suffixes(d) : u = F!Suffixed(y, s)
      BY UnitsAre
    <2>3. Numbered(t) /\ t.nums = x.nums /\ u.nums = y.nums
      BY <2>1, <2>2, SuffixedIs
    <2>4. Level(x, y)
      BY DEF F!Spelled, Level
    <2> QED BY <2>3, <2>4 DEF Level
  <1>2. d.prereleases \subseteq d.tags
    BY DEF F!Spelled
  <1>3. F!Prereleases(d) \subseteq F!Units(d)
    BY <1>2, UnitsAre
  <1> QED BY <1>1, <1>3 DEF Comparable

LEMMA UnitsAreFinite ==
    ASSUME NEW d, F!Spelled(d)
    PROVE  IsFiniteSet(F!Units(d))
  <1> DEFINE Pairs == d.tags \X Suffixes(d)
             f == [p \in Pairs |-> F!Suffixed(p[1], p[2])]
  <1>1. IsFiniteSet(d.tags) /\ IsFiniteSet(d.variants)
    BY DEF F!Spelled, F!IsFiniteSet, IsFiniteSet
  <1>2. IsFiniteSet(Suffixes(d))
    BY <1>1, FS_AddElement DEF Suffixes
  <1>3. IsFiniteSet(Pairs)
    BY <1>1, <1>2, FS_Product
  <1>4. f \in Surjection(Pairs, F!Units(d))
    <2>1. \A p \in Pairs : f[p] \in F!Units(d)
      BY UnitsAre
    <2>2. ASSUME NEW u \in F!Units(d) PROVE \E p \in Pairs : f[p] = u
      <3>1. PICK t \in d.tags, s \in Suffixes(d) : u = F!Suffixed(t, s)
        BY UnitsAre
      <3>2. <<t, s>> \in Pairs /\ f[<<t, s>>] = u
        BY <3>1
      <3> QED BY <3>2
    <2>3. f \in [Pairs -> F!Units(d)]
      BY <2>1
    <2> HIDE DEF f, Pairs
    <2> QED BY <2>2, <2>3 DEF Surjection
  <1> HIDE DEF f, Pairs
  <1> QED BY <1>3, <1>4, FS_Surjection

\* The highest of some candidates.
LEMMA HighestUnit ==
    ASSUME NEW d, F!Spelled(d), NEW C \in SUBSET F!Units(d), C # {}
    PROVE  F!Highest(C) \in C /\ \A w \in C : ~ F!Greater(w, F!Highest(C))
  <1>1. IsFiniteSet(C)
    BY UnitsAreFinite, FS_Subset
  <1>2. Comparable(C)
    BY UnitsCompare DEF Comparable
  <1> QED BY <1>1, <1>2, HighestIs

LatestName(s) == [nums |-> << >>, suffix |-> <<"latest">> \o s]

\* Which names are aliases, and the tag of each.
LEMMA AliasesAre ==
    ASSUME NEW d, F!Spelled(d), NEW a
    PROVE  LET all == F!ResolveAllAliases(d)
               claims == {t \in F!Candidates(d, F!Units(d)) : a \in F!GetLowerVariants(t)}
           IN  /\ claims # {} => a \in DOMAIN all /\ all[a] = F!Highest(claims)
               /\ a \in DOMAIN all =>
                     \/ claims # {}
                     \/ \E s \in Suffixes(d) :
                           /\ F!Candidates(d, F!Tagged(d, s)) # {}
                           /\ all[a] = F!Highest(F!Candidates(d, F!Tagged(d, s)))
  <1> DEFINE all == F!ResolveAllAliases(d)
             claims == {t \in F!Candidates(d, F!Units(d)) : a \in F!GetLowerVariants(t)}
             series == F!ResolveAliases(d)
  <1>1. /\ DOMAIN series = UNION {F!GetLowerVariants(t) : t \in F!Candidates(d, F!Units(d))}
        /\ a \in DOMAIN series <=> claims # {}
        /\ a \in DOMAIN series => series[a] = F!Highest(claims)
    BY DEF F!ResolveAliases
  <1>2. /\ DOMAIN all = DOMAIN series \cup F!Resolved(d)
        /\ a \in F!Resolved(d) => all[a] = F!Highest(F!LatestTags(d, a))
        /\ a \in DOMAIN series \ F!Resolved(d) => all[a] = series[a]
    BY DEF F!ResolveAllAliases
  <1>3. ASSUME a \in F!Resolved(d)
        PROVE  /\ \E s \in Suffixes(d) :
                     a = LatestName(s) /\ F!LatestTags(d, a) = F!Candidates(d, F!Tagged(d, s))
               /\ F!LatestTags(d, a) # {}
    <2>1. a \in F!LatestNames(d) /\ F!LatestTags(d, a) # {}
      BY <1>3 DEF F!Resolved
    <2>2. PICK s \in Suffixes(d) : a = LatestName(s)
      BY <2>1 DEF F!LatestNames, Suffixes, LatestName
    <2>3. s \in Seq(STRING)
      BY SuffixesAre
    <2>4. Tail(<<"latest">> \o s) = s
      BY <2>3
    <2>5. Tail(a.suffix) = s
      BY <2>2, <2>4 DEF LatestName
    <2> QED BY <2>1, <2>2, <2>5 DEF F!LatestTags
  <1>4. ASSUME NEW t, Numbered(t), a \in F!GetLowerVariants(t)
        PROVE  a \notin F!Resolved(d)
    <2>1. a.nums # << >>
      BY <1>4, LowerIsBelow DEF F!IsVersion
    <2> QED BY <1>3, <2>1 DEF LatestName
  <1>5. claims # {} => a \notin F!Resolved(d)
    BY <1>4, UnitsCompare DEF F!Candidates, Comparable
  <1> HIDE DEF all, claims, series
  <1>6. claims # {} => a \in DOMAIN all /\ all[a] = F!Highest(claims)
    BY <1>1, <1>2, <1>5
  <1>7. a \in DOMAIN all /\ claims = {} => a \in F!Resolved(d)
    BY <1>1, <1>2
  <1>8. a \in DOMAIN all =>
           \/ claims # {}
           \/ \E s \in Suffixes(d) :
                 /\ F!Candidates(d, F!Tagged(d, s)) # {}
                 /\ all[a] = F!Highest(F!Candidates(d, F!Tagged(d, s)))
    BY <1>2, <1>3, <1>7
  <1> QED BY <1>6, <1>8 DEF all, claims

LEMMA CandidatesAre ==
    ASSUME NEW d, F!Spelled(d), NEW s \in Suffixes(d)
    PROVE  /\ F!Tagged(d, s) \subseteq F!Units(d)
           /\ F!Candidates(d, F!Tagged(d, s)) \subseteq F!Candidates(d, F!Units(d))
           /\ F!Candidates(d, F!Units(d)) \subseteq F!Units(d) \ F!Prereleases(d)
  <1>1. F!Tagged(d, s) \subseteq F!Units(d)
    BY UnitsAre DEF F!Tagged
  <1> QED BY <1>1 DEF F!Candidates

\* A version that extends one with the suffix s comes, with the suffix s, from a
\* tag with the same numbers.
LEMMA ExtensionIsTagged ==
    ASSUME NEW d, F!Spelled(d), NEW s \in Suffixes(d), NEW u \in F!Candidates(d, F!Units(d))
    PROVE  \E x \in F!Candidates(d, F!Tagged(d, s)) : x.nums = u.nums
  <1>1. u \in F!Units(d) /\ u \notin F!Prereleases(d) /\ F!IsVersion(u)
    BY DEF F!Candidates
  <1>2. PICK t \in d.tags, r \in Suffixes(d) : u = F!Suffixed(t, r)
    BY <1>1, UnitsAre
  <1>3. t \notin d.prereleases
    BY <1>1, <1>2, UnitsAre
  <1>4. /\ F!Suffixed(t, s) \in F!Tagged(d, s)
        /\ F!Suffixed(t, s).nums = u.nums
    BY <1>2, SuffixedIs DEF F!Tagged
  <1>5. F!Suffixed(t, s) \notin F!Prereleases(d)
    <2> SUFFICES ASSUME F!Suffixed(t, s) \in F!Prereleases(d) PROVE FALSE
      OBVIOUS
    <2>1. PICK p \in d.prereleases, q \in Suffixes(d) : F!Suffixed(t, s) = F!Suffixed(p, q)
      BY UnitsAre
    <2>2. p \in d.tags
      BY DEF F!Spelled
    <2>3. t = p
      BY <2>1, <2>2 DEF F!Spelled, Suffixes
    <2> QED BY <1>3, <2>3
  <1> QED BY <1>1, <1>4, <1>5 DEF F!Candidates, F!IsVersion

LEMMA SameNumbers ==
    ASSUME NEW x, NEW u, NEW t, x.nums = u.nums, Above(u, t)
    PROVE  Above(x, t)
  BY DEF Above, F!Component

\* The tag of an alias is a version of the definition, no prerelease, and no
\* other version claims it as an alias.
LEMMA SourceIs ==
    ASSUME NEW d, F!Spelled(d), NEW a \in DOMAIN F!ResolveAllAliases(d)
    PROVE  LET t == F!ResolveAllAliases(d)[a]
           IN  /\ t \in F!Units(d) \ F!Prereleases(d)
               /\ t \notin DOMAIN F!ResolveAllAliases(d)
  <1> DEFINE t == F!ResolveAllAliases(d)[a]
             claims == {x \in F!Candidates(d, F!Units(d)) : a \in F!GetLowerVariants(x)}
             C(s) == F!Candidates(d, F!Tagged(d, s))
  <1>1. PICK best \in SUBSET F!Candidates(d, F!Units(d)) :
           /\ best # {} /\ t = F!Highest(best)
           /\ \/ best = claims
              \/ \E s \in Suffixes(d) : best = C(s)
    <2>1. claims \subseteq F!Candidates(d, F!Units(d))
      OBVIOUS
    <2>2. \A s \in Suffixes(d) : C(s) \subseteq F!Candidates(d, F!Units(d))
      BY CandidatesAre
    <2>3. CASE claims # {}
      BY <2>1, <2>3, AliasesAre
    <2>4. CASE claims = {}
      <3>1. PICK s \in Suffixes(d) : C(s) # {} /\ t = F!Highest(C(s))
        BY <2>4, AliasesAre
      <3> QED BY <2>2, <3>1
    <2> QED BY <2>3, <2>4
  <1>2. best \subseteq F!Units(d) \ F!Prereleases(d)
    <2>1. << >> \in Suffixes(d)
      BY DEF Suffixes
    <2> QED BY <2>1, CandidatesAre
  <1>3. t \in best /\ \A w \in best : ~ F!Greater(w, t)
    BY <1>1, <1>2, HighestUnit
  <1>4. F!IsVersion(t)
    BY <1>1, <1>3 DEF F!Candidates
  <1>5. \A u, v \in F!Units(d) : Numbered(u) /\ Level(u, v)
    BY UnitsCompare DEF Comparable
  <1>6. ASSUME NEW u \in F!Candidates(d, F!Units(d)), t \in F!GetLowerVariants(u)
        PROVE  FALSE
    <2>1. u \in F!Units(d)
      BY DEF F!Candidates
    <2>2. Numbered(u) /\ Above(u, t) /\ F!GetLowerVariants(t) \subseteq F!GetLowerVariants(u)
      BY <1>5, <1>6, <2>1, LowerIsBelow
    <2>3. PICK w \in best : Above(w, t)
      <3>1. CASE best = claims
        <4>1. a \in F!GetLowerVariants(t)
          BY <1>3, <3>1
        <4>2. u \in best
          BY <2>2, <3>1, <4>1
        <4> QED BY <2>2, <4>2
      <3>2. CASE \E s \in Suffixes(d) : best = C(s)
        <4>1. PICK x \in best : x.nums = u.nums
          BY <3>2, ExtensionIsTagged
        <4> QED BY <2>2, <4>1, SameNumbers
      <3> QED BY <1>1, <3>1, <3>2
    <2>4. F!Greater(w, t)
      BY <1>2, <1>3, <1>5, <2>3, GreaterIsAbove
    <2> QED BY <1>3, <2>3, <2>4
  <1>7. t \notin DOMAIN F!ResolveAllAliases(d)
    <2> SUFFICES ASSUME t \in DOMAIN F!ResolveAllAliases(d) PROVE FALSE
      OBVIOUS
    <2>1. t \in F!Resolved(d)
      BY <1>6 DEF F!ResolveAllAliases, F!ResolveAliases
    <2>2. t \in F!LatestNames(d)
      BY <2>1 DEF F!Resolved
    <2>3. t.nums = << >>
      BY <2>2 DEF F!LatestNames
    <2> QED BY <1>4, <2>3 DEF F!IsVersion
  <1> QED BY <1>2, <1>3, <1>7

\* An alias of a version that may have aliases is one of the definition, and
\* its tag is at least that version.
LEMMA SeriesIs ==
    ASSUME NEW d, F!Spelled(d), NEW t \in F!Units(d) \ F!Prereleases(d),
           NEW a \in F!GetLowerVariants(t)
    PROVE  /\ a \in DOMAIN F!ResolveAllAliases(d)
           /\ F!AtLeast(F!ResolveAllAliases(d)[a], t)
  <1> DEFINE claims == {x \in F!Candidates(d, F!Units(d)) : a \in F!GetLowerVariants(x)}
             h == F!ResolveAllAliases(d)[a]
  <1>1. Numbered(t)
    BY UnitsCompare DEF Comparable
  <1>2. F!IsVersion(t)
    <2>1. 1..(Len(t.nums) - 1) # {}
      BY DEF F!GetLowerVariants
    <2>2. Len(t.nums) \in 0..4
      BY <1>1, NumbersOf
    <2>3. Len(t.nums) # 0
      BY <2>1, <2>2
    <2> QED BY <2>3 DEF F!IsVersion
  <1>3. t \in claims
    BY <1>2 DEF F!Candidates
  <1>4. a \in DOMAIN F!ResolveAllAliases(d) /\ h = F!Highest(claims)
    BY <1>3, AliasesAre
  <1>5. claims \subseteq F!Units(d)
    BY DEF F!Candidates
  <1>6. h \in claims /\ ~ F!Greater(t, h)
    BY <1>3, <1>4, <1>5, HighestUnit
  <1>7. Numbered(h) /\ Level(t, h)
    BY <1>5, <1>6, UnitsCompare DEF Comparable
  <1>8. ~ Above(t, h)
    BY <1>1, <1>6, <1>7, GreaterIsAbove
  <1>9. F!AtLeast(h, t)
    <2>1. CASE Above(h, t)
      BY <2>1 DEF Above, F!AtLeast
    <2>2. CASE ~ Above(h, t)
      <3>1. \A k \in {1, 2, 3, 4} : F!Component(h, k) \in Int /\ F!Component(t, k) \in Int
        BY <1>1, <1>7, Components
      <3>2. \A k \in {1, 2, 3, 4} : F!Component(h, k) = F!Component(t, k)
        BY <1>8, <2>2, <3>1, AboveIs
      <3>3. h.nums = t.nums
        <4>1. /\ h.nums \in Seq(Nat) /\ Len(h.nums) \in 0..4
              /\ t.nums \in Seq(Nat) /\ Len(t.nums) \in 0..4
          BY <1>1, <1>7, NumbersOf
        <4>2. \A k \in 1..4 : /\ k <= Len(h.nums) <=> k <= Len(t.nums)
                              /\ k <= Len(h.nums) => h.nums[k] = t.nums[k]
          <5> SUFFICES ASSUME NEW k \in 1..4
                       PROVE  /\ k <= Len(h.nums) <=> k <= Len(t.nums)
                              /\ k <= Len(h.nums) => h.nums[k] = t.nums[k]
            OBVIOUS
          <5>1. /\ k <= Len(t.nums) => F!Component(t, k) = t.nums[k] /\ t.nums[k] \in Nat
                /\ k > Len(t.nums) => F!Component(t, k) = -1
            BY <1>1, Components
          <5>2. /\ k <= Len(h.nums) => F!Component(h, k) = h.nums[k] /\ h.nums[k] \in Nat
                /\ k > Len(h.nums) => F!Component(h, k) = -1
            BY <1>7, Components
          <5>3. F!Component(h, k) = F!Component(t, k)
            BY <3>2
          <5>4. Len(h.nums) \in Nat /\ Len(t.nums) \in Nat
            BY <4>1
          <5>5. k <= Len(h.nums) \/ k > Len(h.nums)
            BY <5>4
          <5>6. k <= Len(t.nums) \/ k > Len(t.nums)
            BY <5>4
          <5>7. \A x \in Nat : x # -1
            OBVIOUS
          <5> QED BY <5>1, <5>2, <5>3, <5>5, <5>6, <5>7
        <4>3. Len(h.nums) = Len(t.nums)
          <5>1. ASSUME NEW x \in 0..4, NEW y \in 0..4, x < y
                PROVE  y \in 1..4 /\ y <= y /\ ~ (y <= x)
            BY <5>1
          <5>2. \A x, y \in 0..4 : x = y \/ x < y \/ y < x
            OBVIOUS
          <5> QED BY <4>1, <4>2, <5>1, <5>2
        <4>4. ASSUME NEW k \in 1..Len(h.nums)
              PROVE  h.nums[k] = t.nums[k]
          <5>1. \A x \in 0..4 : \A m \in 1..x : m \in 1..4 /\ m <= x
            OBVIOUS
          <5> QED BY <4>1, <4>2, <5>1
        <4> QED BY <4>1, <4>3, <4>4, SeqEqual
      <3> QED BY <3>3 DEF F!AtLeast
    <2> QED BY <2>1, <2>2
  <1> QED BY <1>4, <1>9
-----------------------------------------------------------------------------
(* The command.                                                            *)

\* The tags that get a manifest, and the aliases of one definition.
SelectedTags == {t \in F!AllUnits : F!MatchesTagFilter(t)}
AliasesOf(k) == F!ResolveAllAliases(defs[k])

\* Manifests come first, each under its own tag.
ManifestsOK ==
    pc = "manifests" =>
        /\ todo \subseteq SelectedTags /\ defsLeft = DOMAIN defs /\ aliases = << >>
        /\ \A n \in F!Names :
              registry[n] = IF n \in SelectedTags \ todo THEN n ELSE F!Previous(n)

\* Then what a definition's aliases are copied from is not overwritten, and each
\* alias of the definitions that were taken is there, to do, or missed.
RetagOK ==
    pc \in {"retag", "done"} =>
        /\ \A t \in SelectedTags : registry[t] # F!Previous(t)
        /\ \A k \in DOMAIN defs : \A a \in DOMAIN AliasesOf(k) :
              AliasesOf(k)[a] \in SelectedTags => registry[AliasesOf(k)[a]] = AliasesOf(k)[a]
        /\ defsLeft \subseteq DOMAIN defs
        /\ \/ aliases = << >> /\ todo = {}
           \/ \E k \in DOMAIN defs : aliases = AliasesOf(k) /\ todo \subseteq F!Selected(aliases)
        /\ \A k \in DOMAIN defs \ defsLeft : \A a \in DOMAIN AliasesOf(k) :
              AliasesOf(k)[a] \in SelectedTags =>
                  registry[a] = AliasesOf(k)[a] \/ a \in todo \/ a \in missed

FinalizeInvariant ==
    /\ defs \in Projects
    /\ DOMAIN registry = F!Names
    /\ pc \in {"manifests", "retag", "done", "failed"}
    /\ \A n \in F!Names : registry[n] = F!Previous(n) \/ registry[n] \in SelectedTags
    /\ \/ \A n \in F!Names : registry[n] \in {F!Previous(n), n}
       \/ \A t \in SelectedTags : registry[t] # F!Previous(t)
    /\ ManifestsOK
    /\ RetagOK
    /\ pc = "done" => todo = {} /\ defsLeft = {}

\* What is known of the definitions of one image.
LEMMA DefsAre ==
    ASSUME defs \in Projects
    PROVE  /\ \A k \in DOMAIN defs : F!Spelled(defs[k])
           /\ \A k \in DOMAIN defs : F!Units(defs[k]) \subseteq F!Names /\ F!Units(defs[k]) \subseteq F!AllUnits
           /\ \A k \in DOMAIN defs : DOMAIN AliasesOf(k) \subseteq F!Names
           /\ SelectedTags \subseteq F!Names
           /\ \A j, k \in DOMAIN defs : j # k =>
                 /\ F!Units(defs[j]) \cap F!Units(defs[k]) = {}
                 /\ F!Units(defs[j]) \cap DOMAIN AliasesOf(k) = {}
                 /\ DOMAIN AliasesOf(j) \cap DOMAIN AliasesOf(k) = {}
           /\ \A n \in F!Names : F!Previous(n) \notin F!AllUnits
  <1>1. F!WellFormed(defs)
    BY ProjectsAssumption
  <1>2. \A k \in DOMAIN defs : F!Spelled(defs[k])
    BY <1>1 DEF F!WellFormed
  <1>3. \A k \in DOMAIN defs : F!Claimed(defs[k]) = F!Units(defs[k]) \cup DOMAIN AliasesOf(k)
    BY DEF F!Claimed, AliasesOf
  <1>4. /\ F!AllUnits = UNION {F!Units(defs[k]) : k \in DOMAIN defs}
        /\ F!Names = UNION {F!Units(defs[k]) \cup DOMAIN AliasesOf(k) : k \in DOMAIN defs}
    BY DEF F!AllUnits, F!Names, AliasesOf
  <1>5. /\ \A k \in DOMAIN defs : F!Units(defs[k]) \subseteq F!Names /\ F!Units(defs[k]) \subseteq F!AllUnits
        /\ \A k \in DOMAIN defs : DOMAIN AliasesOf(k) \subseteq F!Names
        /\ SelectedTags \subseteq F!Names
    BY <1>4 DEF SelectedTags
  <1>6. \A j, k \in DOMAIN defs : j # k => F!Claimed(defs[j]) \cap F!Claimed(defs[k]) = {}
    BY <1>1 DEF F!WellFormed
  <1>7. \A j, k \in DOMAIN defs : j # k =>
           /\ F!Units(defs[j]) \cap F!Units(defs[k]) = {}
           /\ F!Units(defs[j]) \cap DOMAIN AliasesOf(k) = {}
           /\ DOMAIN AliasesOf(j) \cap DOMAIN AliasesOf(k) = {}
    BY <1>3, <1>6
  <1>8. ASSUME NEW n \in F!Names PROVE F!Previous(n) \notin F!AllUnits
    <2>1. PICK k \in DOMAIN defs : n \in F!Claimed(defs[k])
      BY <1>3, <1>4
    <2>2. \A j \in DOMAIN defs : F!Previous(n) \notin F!Units(defs[j])
      BY <1>1, <2>1 DEF F!WellFormed
    <2> QED BY <1>4, <2>2
  <1> QED BY <1>2, <1>5, <1>7, <1>8

\* What an alias is copied from is a tag of its definition and no alias.
LEMMA SourcesAre ==
    ASSUME defs \in Projects, NEW k \in DOMAIN defs, NEW a \in DOMAIN AliasesOf(k)
    PROVE  /\ AliasesOf(k)[a] \in F!Units(defs[k]) \ F!Prereleases(defs[k])
           /\ \A j \in DOMAIN defs : AliasesOf(k)[a] \notin DOMAIN AliasesOf(j)
  <1>1. F!Spelled(defs[k])
    BY DefsAre
  <1>2. /\ AliasesOf(k)[a] \in F!Units(defs[k]) \ F!Prereleases(defs[k])
        /\ AliasesOf(k)[a] \notin DOMAIN AliasesOf(k)
    BY <1>1, SourceIs DEF AliasesOf
  <1> QED BY <1>2, DefsAre

\* The invariant does not depend on anything else.
LEMMA FinalizeKept ==
    ASSUME FinalizeInvariant, UNCHANGED finalizeVars
    PROVE  FinalizeInvariant'
  BY DEF FinalizeInvariant, finalizeVars, ManifestsOK, RetagOK, SelectedTags, AliasesOf,
         F!AllUnits, F!Names, F!MatchesTagFilter, F!Selected

LEMMA InputsKept ==
    ASSUME UNCHANGED <<defs, filters>>
    PROVE  /\ F!Names' = F!Names /\ SelectedTags' = SelectedTags
           /\ \A k : AliasesOf(k)' = AliasesOf(k)
           /\ \A map : F!Selected(map)' = F!Selected(map)
  BY DEF SelectedTags, AliasesOf, F!AllUnits, F!Names, F!MatchesTagFilter, F!Selected

LEMMA FinalizeStarts == F!Init => FinalizeInvariant
  <1> SUFFICES ASSUME F!Init PROVE FinalizeInvariant
    OBVIOUS
  <1>1. /\ defs \in Projects /\ registry = [n \in F!Names |-> F!Previous(n)]
        /\ todo = SelectedTags /\ defsLeft = DOMAIN defs /\ aliases = << >> /\ pc = "manifests"
    BY DEF F!Init, SelectedTags
  <1> QED BY <1>1 DEF FinalizeInvariant, ManifestsOK, RetagOK

\* The manifests.
LEMMA ManifestKeeps ==
    ASSUME FinalizeInvariant, NEW t, F!CreateManifest(t) \/ F!ManifestFails(t) \/ F!EndManifests
    PROVE  FinalizeInvariant'
  <1>1. /\ pc = "manifests" /\ UNCHANGED <<defs, filters>> /\ defs \in Projects
        /\ UNCHANGED <<defsLeft, aliases>>
    BY DEF F!CreateManifest, F!ManifestFails, F!EndManifests, F!inputs, FinalizeInvariant
  <1>2. /\ F!Names' = F!Names /\ SelectedTags' = SelectedTags
        /\ \A k : AliasesOf(k)' = AliasesOf(k)
    BY <1>1, InputsKept
  <1>3. /\ todo \subseteq SelectedTags /\ defsLeft = DOMAIN defs /\ aliases = << >>
        /\ \A n \in F!Names :
              registry[n] = IF n \in SelectedTags \ todo THEN n ELSE F!Previous(n)
        /\ DOMAIN registry = F!Names
    BY <1>1 DEF FinalizeInvariant, ManifestsOK
  <1>4. SelectedTags \subseteq F!Names /\ SelectedTags \subseteq F!AllUnits
        /\ \A n \in F!Names : F!Previous(n) \notin F!AllUnits
    BY <1>1, DefsAre DEF SelectedTags
  <1>5. \A n : F!Previous(n)' = F!Previous(n)
    BY DEF F!Previous
  <1>6. CASE F!CreateManifest(t)
    <2>1. t \in todo /\ registry' = [registry EXCEPT ![t] = t] /\ todo' = todo \ {t} /\ pc' = pc
      BY <1>6 DEF F!CreateManifest
    <2>2. \A n \in F!Names : registry'[n] = IF n \in SelectedTags \ todo' THEN n ELSE F!Previous(n)
      BY <1>3, <1>4, <2>1
    <2>3. DOMAIN registry' = F!Names /\ todo' \subseteq SelectedTags
      BY <1>3, <2>1
    <2> QED BY <1>1, <1>2, <1>3, <1>4, <1>5, <2>1, <2>2, <2>3
               DEF FinalizeInvariant, ManifestsOK, RetagOK
  <1>7. CASE F!ManifestFails(t)
    <2>1. UNCHANGED <<registry, todo>> /\ pc' = "failed"
      BY <1>7 DEF F!ManifestFails
    <2> QED BY <1>1, <1>2, <1>3, <1>4, <1>5, <2>1 DEF FinalizeInvariant, ManifestsOK, RetagOK
  <1>8. CASE F!EndManifests
    <2>1. UNCHANGED <<registry, todo>> /\ todo = {} /\ pc' = "retag"
      BY <1>8 DEF F!EndManifests
    <2>2. \A n \in F!Names : registry[n] = IF n \in SelectedTags THEN n ELSE F!Previous(n)
      BY <1>3, <2>1
    <2>3. \A s \in SelectedTags : registry[s] = s /\ s # F!Previous(s)
      BY <1>4, <2>2
    <2>4. RetagOK'
      BY <1>1, <1>2, <1>3, <1>5, <2>1, <2>3 DEF RetagOK
    <2> QED BY <1>1, <1>2, <1>3, <1>5, <2>1, <2>2, <2>4 DEF FinalizeInvariant, ManifestsOK
  <1> QED BY <1>6, <1>7, <1>8

\* A definition's aliases are taken up, or it has none for a latest alias.
LEMMA StartRetagKeeps ==
    ASSUME FinalizeInvariant, NEW k \in DOMAIN defs, F!StartRetag(k)
    PROVE  FinalizeInvariant'
  <1>1. /\ pc = "retag" /\ todo = {} /\ k \in defsLeft /\ defs \in Projects
        /\ UNCHANGED <<defs, filters, registry, missed>>
    BY DEF F!StartRetag, F!inputs, FinalizeInvariant
  <1>2. /\ F!Names' = F!Names /\ SelectedTags' = SelectedTags
        /\ \A j : AliasesOf(j)' = AliasesOf(j)
        /\ \A map : F!Selected(map)' = F!Selected(map)
    BY <1>1, InputsKept
  <1>3. \A n : F!Previous(n)' = F!Previous(n)
    BY DEF F!Previous
  <1>4. CASE pc' = "failed" /\ UNCHANGED <<todo, defsLeft, aliases>>
    BY <1>1, <1>2, <1>3, <1>4 DEF FinalizeInvariant, ManifestsOK, RetagOK
  <1>5. CASE /\ aliases' = F!ResolveAllAliases(defs[k])
             /\ todo' = F!Selected(aliases')
             /\ defsLeft' = defsLeft \ {k}
             /\ UNCHANGED pc
    <2>1. aliases' = AliasesOf(k) /\ todo' = F!Selected(aliases')
      BY <1>5 DEF AliasesOf
    <2>2. ASSUME NEW j \in DOMAIN defs \ defsLeft', NEW a \in DOMAIN AliasesOf(j),
                 AliasesOf(j)[a] \in SelectedTags
          PROVE  registry[a] = AliasesOf(j)[a] \/ a \in todo' \/ a \in missed
      <3>1. CASE j = k
        <4>1. a \in F!Selected(aliases')
          BY <2>1, <2>2, <3>1 DEF F!Selected, SelectedTags
        <4> QED BY <2>1, <4>1
      <3>2. CASE j # k
        BY <1>1, <1>5, <2>2, <3>2 DEF FinalizeInvariant, RetagOK
      <3> QED BY <3>1, <3>2
    <2>3. RetagOK'
      <3>1. /\ \A t \in SelectedTags : registry[t] # F!Previous(t)
            /\ \A j \in DOMAIN defs : \A a \in DOMAIN AliasesOf(j) :
                  AliasesOf(j)[a] \in SelectedTags => registry[AliasesOf(j)[a]] = AliasesOf(j)[a]
            /\ defsLeft' \subseteq DOMAIN defs
        BY <1>1, <1>5 DEF FinalizeInvariant, RetagOK
      <3>2. \E j \in DOMAIN defs : aliases' = AliasesOf(j) /\ todo' \subseteq F!Selected(aliases')
        BY <2>1
      <3> QED BY <1>1, <1>2, <1>3, <2>2, <3>1, <3>2 DEF RetagOK
    <2>4. pc' = "retag"
      BY <1>1, <1>5
    <2> QED BY <1>1, <1>2, <1>3, <2>3, <2>4 DEF FinalizeInvariant, ManifestsOK
  <1> QED BY <1>4, <1>5 DEF F!StartRetag

\* An alias is copied, or its retag fails.
LEMMA RetagKeeps ==
    ASSUME FinalizeInvariant, NEW a, F!Retag(a) \/ F!RetagFails(a)
    PROVE  FinalizeInvariant'
  <1>1. /\ pc = "retag" /\ a \in todo /\ defs \in Projects /\ todo' = todo \ {a}
        /\ UNCHANGED <<defs, filters, defsLeft, aliases, pc>>
    BY DEF F!Retag, F!RetagFails, F!inputs, FinalizeInvariant
  <1>2. /\ F!Names' = F!Names /\ SelectedTags' = SelectedTags
        /\ \A j : AliasesOf(j)' = AliasesOf(j)
        /\ \A map : F!Selected(map)' = F!Selected(map)
    BY <1>1, InputsKept
  <1>3. \A n : F!Previous(n)' = F!Previous(n)
    BY DEF F!Previous
  <1>4. PICK k \in DOMAIN defs : aliases = AliasesOf(k) /\ todo \subseteq F!Selected(aliases)
    BY <1>1 DEF FinalizeInvariant, RetagOK
  <1>5. a \in DOMAIN AliasesOf(k) /\ F!MatchesTagFilter(AliasesOf(k)[a])
    BY <1>1, <1>4 DEF F!Selected
  <1> DEFINE source == AliasesOf(k)[a]
  <1>6. source \in SelectedTags /\ a \in F!Names /\ source \in F!AllUnits
    BY <1>1, <1>5, SourcesAre, DefsAre DEF SelectedTags
  <1>7. registry[source] = source /\ source # F!Previous(a)
    <2>1. registry[source] = source
      BY <1>1, <1>5, <1>6 DEF FinalizeInvariant, RetagOK
    <2> QED BY <1>1, <1>6, <2>1, DefsAre
  <1>8. CASE F!RetagFails(a)
    <2>1. UNCHANGED registry /\ missed' = missed \cup {a}
      BY <1>8 DEF F!RetagFails
    <2>2. RetagOK'
      BY <1>1, <1>2, <1>3, <1>4, <2>1 DEF FinalizeInvariant, RetagOK
    <2> QED BY <1>1, <1>2, <1>3, <2>1, <2>2 DEF FinalizeInvariant, ManifestsOK
  <1>9. CASE F!Retag(a)
    <2>1. registry' = [registry EXCEPT ![a] = source] /\ UNCHANGED missed
      BY <1>4, <1>7, <1>9 DEF F!Retag
    <2>2. /\ DOMAIN registry' = F!Names /\ registry'[a] = source
          /\ \A n \in F!Names : n # a => registry'[n] = registry[n]
      BY <1>6, <2>1 DEF FinalizeInvariant
    <2>3. \A n \in F!Names : registry'[n] = F!Previous(n) \/ registry'[n] \in SelectedTags
      BY <1>6, <2>2 DEF FinalizeInvariant
    <2>4. \A t \in SelectedTags : registry'[t] # F!Previous(t)
      <3>1. \A t \in SelectedTags : t \in F!Names /\ registry[t] # F!Previous(t)
        BY <1>1, DefsAre DEF FinalizeInvariant, RetagOK
      <3> QED BY <1>7, <2>2, <3>1
    <2>5. ASSUME NEW j \in DOMAIN defs, NEW b \in DOMAIN AliasesOf(j), AliasesOf(j)[b] \in SelectedTags
          PROVE  registry'[AliasesOf(j)[b]] = AliasesOf(j)[b]
      <3>1. AliasesOf(j)[b] # a /\ AliasesOf(j)[b] \in F!Names
        BY <1>1, <1>5, <2>5, SourcesAre, DefsAre
      <3>2. registry[AliasesOf(j)[b]] = AliasesOf(j)[b]
        BY <1>1, <2>5 DEF FinalizeInvariant, RetagOK
      <3> QED BY <2>2, <3>1, <3>2
    <2>6. ASSUME NEW j \in DOMAIN defs \ defsLeft, NEW b \in DOMAIN AliasesOf(j),
                 AliasesOf(j)[b] \in SelectedTags
          PROVE  registry'[b] = AliasesOf(j)[b] \/ b \in todo' \/ b \in missed
      <3>1. CASE b = a
        <4>1. j = k
          BY <1>1, <1>5, <3>1, DefsAre
        <4> QED BY <2>2, <3>1, <4>1
      <3>2. CASE b # a
        <4>1. b \in F!Names
          BY <1>1, DefsAre
        <4>2. registry[b] = AliasesOf(j)[b] \/ b \in todo \/ b \in missed
          BY <1>1, <2>6 DEF FinalizeInvariant, RetagOK
        <4> QED BY <1>1, <2>2, <3>2, <4>1, <4>2
      <3> QED BY <3>1, <3>2
    <2>7. RetagOK'
      <3>1. \E j \in DOMAIN defs : aliases = AliasesOf(j) /\ todo' \subseteq F!Selected(aliases)
        BY <1>1, <1>4
      <3>2. defsLeft \subseteq DOMAIN defs
        BY <1>1 DEF FinalizeInvariant, RetagOK
      <3> QED BY <1>1, <1>2, <1>3, <2>1, <2>4, <2>5, <2>6, <3>1, <3>2 DEF RetagOK
    <2> QED BY <1>1, <1>2, <1>3, <2>2, <2>3, <2>4, <2>7 DEF FinalizeInvariant, ManifestsOK
  <1> QED BY <1>8, <1>9

LEMMA EndRetagKeeps ==
    ASSUME FinalizeInvariant, F!EndRetag
    PROVE  FinalizeInvariant'
  <1>1. /\ pc = "retag" /\ pc' = "done" /\ todo = {} /\ defsLeft = {}
        /\ UNCHANGED <<defs, filters, registry, todo, defsLeft, aliases, missed>>
    BY DEF F!EndRetag, F!inputs
  <1>2. /\ F!Names' = F!Names /\ SelectedTags' = SelectedTags
        /\ \A j : AliasesOf(j)' = AliasesOf(j)
        /\ \A map : F!Selected(map)' = F!Selected(map)
    BY <1>1, InputsKept
  <1>3. \A n : F!Previous(n)' = F!Previous(n)
    BY DEF F!Previous
  <1> QED BY <1>1, <1>2, <1>3 DEF FinalizeInvariant, ManifestsOK, RetagOK

LEMMA FinalizeStep ==
    ASSUME FinalizeInvariant, F!Step
    PROVE  FinalizeInvariant'
  BY ManifestKeeps, StartRetagKeeps, RetagKeeps, EndRetagKeeps DEF F!Step

LEMMA FinalizeSafe ==
    ASSUME FinalizeInvariant
    PROVE  F!HighestVersionWins /\ F!SourceIsNoAlias /\ F!AliasesFollowManifests /\ F!FilterIsKept
  <1>1. defs \in Projects
    BY DEF FinalizeInvariant
  <1>2. F!FilterIsKept
    BY DEF FinalizeInvariant, F!FilterIsKept, SelectedTags
  <1>3. F!AliasesFollowManifests
    BY DEF FinalizeInvariant, F!AliasesFollowManifests, SelectedTags
  <1>4. F!SourceIsNoAlias
    <2> SUFFICES ASSUME pc = "retag", NEW a \in F!Selected(aliases)
                 PROVE  registry[aliases[a]] = aliases[a]
      BY DEF F!SourceIsNoAlias
    <2>1. PICK k \in DOMAIN defs : aliases = AliasesOf(k)
      <3>1. aliases # << >>
        BY DEF F!Selected
      <3> QED BY <3>1 DEF FinalizeInvariant, RetagOK
    <2>2. a \in DOMAIN AliasesOf(k) /\ F!MatchesTagFilter(AliasesOf(k)[a])
      BY <2>1 DEF F!Selected
    <2>3. AliasesOf(k)[a] \in SelectedTags
      BY <1>1, <2>2, SourcesAre, DefsAre DEF SelectedTags
    <2> QED BY <2>1, <2>2, <2>3 DEF FinalizeInvariant, RetagOK
  <1>5. F!HighestVersionWins
    <2> SUFFICES ASSUME pc = "done", filters = {}, missed = {},
                        NEW t \in F!AllUnits \ F!AllPrereleases,
                        NEW a \in F!GetLowerVariants(t)
                 PROVE  registry[a] \in F!AllUnits \ F!AllPrereleases /\ F!AtLeast(registry[a], t)
      BY DEF F!HighestVersionWins
    <2>1. PICK k \in DOMAIN defs : t \in F!Units(defs[k])
      BY DEF F!AllUnits
    <2>2. t \notin F!Prereleases(defs[k])
      BY <2>1 DEF F!AllPrereleases
    <2>3. F!Spelled(defs[k])
      BY <1>1, DefsAre
    <2>4. a \in DOMAIN AliasesOf(k) /\ F!AtLeast(AliasesOf(k)[a], t)
      BY <2>1, <2>2, <2>3, SeriesIs DEF AliasesOf
    <2>5. AliasesOf(k)[a] \in F!Units(defs[k]) \ F!Prereleases(defs[k])
      BY <1>1, <2>4, SourcesAre
    <2>6. AliasesOf(k)[a] \in SelectedTags
      BY <1>1, <2>5, DefsAre DEF SelectedTags, F!MatchesTagFilter
    <2>7. registry[a] = AliasesOf(k)[a]
      BY <2>4, <2>6 DEF FinalizeInvariant, RetagOK
    <2>8. AliasesOf(k)[a] \notin F!AllPrereleases
      <3> SUFFICES ASSUME NEW j \in DOMAIN defs, AliasesOf(k)[a] \in F!Prereleases(defs[j])
                   PROVE  FALSE
        BY DEF F!AllPrereleases
      <3>1. AliasesOf(k)[a] \in F!Units(defs[j])
        BY <1>1, DefsAre, UnitsCompare
      <3> QED BY <1>1, <2>5, <3>1, DefsAre
    <2> QED BY <1>1, <2>4, <2>5, <2>7, <2>8, DefsAre
  <1> QED BY <1>2, <1>3, <1>4, <1>5
-----------------------------------------------------------------------------
(* Induction on numbers goes by the least number with a property, a set of *)
(* numbers rather than an operator.                                        *)

LEMMA LeastNumber ==
    ASSUME NEW N \in SUBSET Nat, N # {}
    PROVE  \E n \in N : \A m \in N : n <= m
  <1>1. PICK top \in N : TRUE
    OBVIOUS
  <1> DEFINE C == {n \in 0 .. top : n \in N}
             R == {p \in Nat \X Nat : p[1] < p[2]}
  <1>2. IsFiniteSet(C) /\ C # {}
    <2>1. IsFiniteSet(0 .. top)
      BY FS_Interval
    <2>2. top \in C
      OBVIOUS
    <2> QED BY <2>1, <2>2, FS_Subset
  <1>3. \A v \in C : <<v, v>> \notin R
    OBVIOUS
  <1>4. \A u, v, w \in C : <<u, v>> \in R /\ <<v, w>> \in R => <<u, w>> \in R
    OBVIOUS
  <1>5. PICK n \in C : \A m \in C : <<m, n>> \notin R
    <2> HIDE DEF C, R
    <2> QED BY <1>2, <1>3, <1>4, TopExists
  <1>6. ASSUME NEW m \in N PROVE n <= m
    <2>1. CASE m \in C
      <3>1. <<m, n>> \notin R
        BY <1>5, <2>1
      <3>2. m \in Nat /\ n \in Nat
        OBVIOUS
      <3> QED BY <3>1, <3>2
    <2>2. CASE m \notin C
      <3>1. m \in Nat /\ top \in Nat /\ m \notin 0 .. top /\ n \in 0 .. top
        BY <2>2
      <3> QED BY <3>1
    <2> QED BY <2>1, <2>2
  <1> QED BY <1>6

\* The concatenation of a sequence of sequences, part by part.
Joins(g, s) ==
    /\ g[0] = << >>
    /\ \A i \in 1 .. Len(s) : g[i] = g[i - 1] \o s[i]

LEMMA JoinExists ==
    ASSUME NEW A, NEW s \in Seq(Seq(A))
    PROVE  \E g \in [0 .. Len(s) -> Seq(A)] : Joins(g, s)
  <1> DEFINE Fine(n, g) == /\ g \in [0 .. n -> Seq(A)] /\ g[0] = << >>
                           /\ \A i \in 1 .. n : g[i] = g[i - 1] \o s[i]
             N == {n \in 0 .. Len(s) : \A g : ~ Fine(n, g)}
  <1>1. N = {}
    <2> SUFFICES ASSUME N # {} PROVE FALSE
      OBVIOUS
    <2>1. PICK n \in N : \A m \in N : n <= m
      <3>1. N \in SUBSET Nat
        <4> HIDE DEF Fine
        <4> QED OBVIOUS
      <3> HIDE DEF N
      <3> QED BY <3>1, LeastNumber
    <2>2. n # 0
      <3>1. Fine(0, [i \in 0 .. 0 |-> << >>])
        OBVIOUS
      <3> QED BY <3>1
    <2>3. n - 1 \in 0 .. Len(s) /\ n - 1 \notin N
      <3>1. n \in 0 .. Len(s) /\ Len(s) \in Nat
        <4> HIDE DEF Fine
        <4> QED BY LenProperties
      <3>2. n - 1 \in 0 .. Len(s) /\ ~ (n <= n - 1)
        BY <2>2, <3>1
      <3> HIDE DEF N
      <3> QED BY <2>1, <3>2
    <2>4. PICK g : Fine(n - 1, g)
      BY <2>3
    <2> DEFINE h == [i \in 0 .. n |-> IF i = n THEN g[n - 1] \o s[n] ELSE g[i]]
    <2>5. n \in 1 .. Len(s) /\ s[n] \in Seq(A)
      BY <2>2
    <2>6. g[n - 1] \in Seq(A) /\ g[n - 1] \o s[n] \in Seq(A)
      BY <2>3, <2>4, <2>5, ConcatProperties
    <2>7. h \in [0 .. n -> Seq(A)]
      BY <2>4, <2>5, <2>6
    <2>8. h[0] = << >>
      BY <2>2, <2>4
    <2>9. ASSUME NEW i \in 1 .. n PROVE h[i] = h[i - 1] \o s[i]
      <3>1. h[i - 1] = g[i - 1]
        BY <2>5
      <3>2. CASE i = n
        <4>1. h[n] = g[n - 1] \o s[n]
          <5>1. n \in 0 .. n
            BY <2>5, LenProperties
          <5> QED BY <5>1
        <4> HIDE DEF h
        <4> QED BY <3>1, <3>2, <4>1
      <3>3. CASE i # n
        <4>1. i \in 1 .. (n - 1)
          BY <2>5, <3>3
        <4>2. h[i] = g[i]
          BY <3>3
        <4> HIDE DEF h
        <4> QED BY <2>4, <3>1, <4>1, <4>2
      <3> QED BY <3>2, <3>3
    <2> HIDE DEF h
    <2>10. Fine(n, h)
      BY <2>7, <2>8, <2>9
    <2> QED BY <2>1, <2>10
  <1>2. Len(s) \in 0 .. Len(s)
    BY LenProperties
  <1>3. PICK g : Fine(Len(s), g)
    BY <1>1, <1>2
  <1> QED BY <1>3 DEF Joins

\* Two such functions agree wherever both are defined.
LEMMA JoinsAgree ==
    ASSUME NEW s, Len(s) \in Nat, NEW t, Len(t) \in Nat, NEW g, NEW h, Joins(g, s), Joins(h, t),
           NEW n \in 0 .. Len(s), n <= Len(t), \A i \in 1 .. n : s[i] = t[i]
    PROVE  g[n] = h[n]
  <1> DEFINE N == {m \in 0 .. n : g[m] # h[m]}
  <1> SUFFICES ASSUME N # {} PROVE FALSE
    OBVIOUS
  <1>1. PICK m \in N : \A k \in N : m <= k
    <2>1. N \in SUBSET Nat
      OBVIOUS
    <2> HIDE DEF N
    <2> QED BY <2>1, LeastNumber
  <1>2. m # 0
    BY DEF Joins
  <1>3. g[m - 1] = h[m - 1]
    BY <1>1, <1>2
  <1>4. m \in 1 .. Len(s) /\ m \in 1 .. Len(t) /\ m \in 1 .. n
    BY <1>2
  <1>5. g[m] = g[m - 1] \o s[m] /\ h[m] = h[m - 1] \o t[m]
    BY <1>4 DEF Joins
  <1> QED BY <1>3, <1>4, <1>5

LEMMA FlattenIs ==
    ASSUME NEW A, NEW s \in Seq(Seq(A)), NEW g, Joins(g, s)
    PROVE  /\ T!FlattenSeq(s) = g[Len(s)]
           /\ T!FlattenSeq(s) \in Seq(A)
  <1> DEFINE Body(f) == [i \in 1 .. Len(s) |-> IF i = 1 THEN s[i] ELSE f[i - 1] \o s[i]]
             flat == CHOOSE f : f = Body(f)
  <1>1. Len(s) \in Nat /\ (Len(s) = 0 => s = << >>)
    BY EmptySeq, LenProperties
  <1>2. T!FlattenSeq(s) = IF Len(s) = 0 THEN s ELSE flat[Len(s)]
    BY DEF T!FlattenSeq
  <1>3. PICK h \in [0 .. Len(s) -> Seq(A)] : Joins(h, s)
    BY JoinExists
  <1>4. g[Len(s)] = h[Len(s)]
    BY <1>1, <1>3, JoinsAgree
  <1>5. CASE Len(s) = 0
    BY <1>1, <1>2, <1>3, <1>4, <1>5 DEF Joins
  <1>6. CASE Len(s) # 0
    <2> DEFINE f0 == [i \in 1 .. Len(s) |-> h[i]]
    <2>1. f0 = Body(f0)
      <3>1. ASSUME NEW i \in 1 .. Len(s) PROVE h[i] = IF i = 1 THEN s[i] ELSE f0[i - 1] \o s[i]
        <4>1. h[i] = h[i - 1] \o s[i]
          BY <1>3 DEF Joins
        <4>2. CASE i = 1
          <5>1. s[i] \in Seq(A)
            OBVIOUS
          <5>2. << >> \o s[i] = s[i]
            BY <5>1, ConcatEmptySeq
          <5>3. h[i - 1] = << >>
            BY <1>3, <4>2 DEF Joins
          <5> QED BY <4>1, <4>2, <5>2, <5>3
        <4>3. CASE i # 1
          <5>1. i - 1 \in 1 .. Len(s)
            BY <1>1, <4>3
          <5>2. f0[i - 1] = h[i - 1]
            BY <5>1
          <5> QED BY <4>1, <4>3, <5>2
        <4> QED BY <4>2, <4>3
      <3> QED BY <3>1
    <2>2. flat = Body(flat)
      <3> HIDE DEF f0, Body
      <3> QED BY <2>1
    <2> DEFINE k == [i \in 0 .. Len(s) |-> IF i = 0 THEN << >> ELSE flat[i]]
    <2>3. Joins(k, s)
      <3>1. k[0] = << >>
        BY <1>1
      <3>2. ASSUME NEW i \in 1 .. Len(s) PROVE k[i] = k[i - 1] \o s[i]
        <4>1. flat[i] = IF i = 1 THEN s[i] ELSE flat[i - 1] \o s[i]
          <5>1. Body(flat)[i] = IF i = 1 THEN s[i] ELSE flat[i - 1] \o s[i]
            <6> HIDE DEF flat
            <6> QED OBVIOUS
          <5> HIDE DEF flat, Body
          <5> QED BY <2>2, <5>1
        <4> HIDE DEF flat
        <4>2. CASE i = 1
          <5>1. s[i] \in Seq(A)
            OBVIOUS
          <5>2. << >> \o s[i] = s[i]
            BY <5>1, ConcatEmptySeq
          <5>3. k[i] = s[i] /\ k[i - 1] = << >>
            BY <1>1, <4>1, <4>2
          <5> QED BY <5>2, <5>3
        <4>3. CASE i # 1
          <5>1. i - 1 \in 0 .. Len(s) /\ i \in 0 .. Len(s) /\ i # 0 /\ i - 1 # 0
            BY <1>1, <4>3
          <5>2. k[i - 1] = flat[i - 1] /\ k[i] = flat[i]
            BY <5>1
          <5> QED BY <4>1, <4>3, <5>2
        <4> QED BY <4>2, <4>3
      <3> HIDE DEF k
      <3> QED BY <3>1, <3>2 DEF Joins
    <2>4. k[Len(s)] = flat[Len(s)]
      <3> HIDE DEF flat
      <3> QED BY <1>1, <1>6
    <2>5. k[Len(s)] = h[Len(s)]
      <3> HIDE DEF k
      <3> QED BY <1>1, <1>3, <2>3, JoinsAgree
    <2> HIDE DEF k, flat
    <2> QED BY <1>1, <1>2, <1>3, <1>4, <1>6, <2>4, <2>5
  <1> QED BY <1>5, <1>6

\* What is flattened grows with its last part.
LEMMA FlattenAppend ==
    ASSUME NEW A, NEW s \in Seq(Seq(A)), NEW x \in Seq(A)
    PROVE  T!FlattenSeq(Append(s, x)) = T!FlattenSeq(s) \o x
  <1> DEFINE t == Append(s, x)
  <1>1. /\ t \in Seq(Seq(A)) /\ Len(t) = Len(s) + 1 /\ t[Len(s) + 1] = x
        /\ \A i \in 1 .. Len(s) : t[i] = s[i]
    BY AppendProperties
  <1>2. Len(s) \in Nat
    BY LenProperties
  <1> HIDE DEF t
  <1>3. PICK g \in [0 .. Len(t) -> Seq(A)] : Joins(g, t)
    BY <1>1, JoinExists
  <1>4. Joins(g, s)
    <2>1. \A i \in 1 .. Len(s) : i \in 1 .. Len(t) /\ t[i] = s[i]
      BY <1>1, <1>2
    <2> QED BY <1>3, <2>1 DEF Joins
  <1>5. T!FlattenSeq(t) = g[Len(t)] /\ T!FlattenSeq(s) = g[Len(s)]
    BY <1>1, <1>3, <1>4, FlattenIs
  <1>6. Len(t) \in 1 .. Len(t) /\ Len(t) - 1 = Len(s)
    BY <1>1, <1>2
  <1>7. g[Len(t)] = g[Len(s)] \o x
    BY <1>1, <1>3, <1>6 DEF Joins
  <1> QED BY <1>5, <1>7 DEF t

LEMMA FlattenType ==
    ASSUME NEW A, NEW s \in Seq(Seq(A))
    PROVE  /\ T!FlattenSeq(s) \in Seq(A)
           /\ s = << >> => T!FlattenSeq(s) = << >>
  <1>1. PICK g \in [0 .. Len(s) -> Seq(A)] : Joins(g, s)
    BY JoinExists
  <1>2. T!FlattenSeq(s) = g[Len(s)] /\ T!FlattenSeq(s) \in Seq(A)
    BY <1>1, FlattenIs
  <1>3. s = << >> => Len(s) = 0
    OBVIOUS
  <1> QED BY <1>1, <1>2, <1>3 DEF Joins

LEMMA ConcatTwice ==
    ASSUME NEW A, NEW a \in Seq(A), NEW b \in Seq(A), NEW d \in Seq(A)
    PROVE  (a \o b) \o d = a \o (b \o d)
  OBVIOUS

Parts(A) == Seq(Seq(A))

\* The parts of two lists are concatenated one list after the other.
LEMMA FlattenConcat ==
    ASSUME NEW A, NEW s \in Parts(A), NEW t \in Parts(A)
    PROVE  T!FlattenSeq(s \o t) = T!FlattenSeq(s) \o T!FlattenSeq(t)
  <1>0. \A a, b, d \in Seq(A) : (a \o b) \o d = a \o (b \o d)
    BY ConcatTwice
  <1>1. Len(s) \in Nat /\ Len(t) \in Nat
    BY LenProperties DEF Parts
  <1>2. /\ s \o t \in Parts(A) /\ Len(s \o t) = Len(s) + Len(t)
        /\ \A i \in 1 .. Len(s) : (s \o t)[i] = s[i]
        /\ \A i \in 1 .. Len(t) : (s \o t)[Len(s) + i] = t[i]
    BY <1>1, ConcatProperties DEF Parts
  <1>3. PICK g \in [0 .. Len(s) -> Seq(A)] : Joins(g, s)
    BY JoinExists DEF Parts
  <1>4. PICK k \in [0 .. Len(t) -> Seq(A)] : Joins(k, t)
    BY JoinExists DEF Parts
  <1> DEFINE h == [i \in 0 .. Len(s) + Len(t) |->
                      IF i <= Len(s) THEN g[i] ELSE g[Len(s)] \o k[i - Len(s)]]
  <1>5. g[Len(s)] \in Seq(A) /\ k[0] = << >> /\ g[0] = << >>
    <2>1. Len(s) \in 0 .. Len(s)
      BY <1>1
    <2>2. k[0] = << >> /\ g[0] = << >>
      BY <1>3, <1>4 DEF Joins
    <2> QED BY <1>3, <2>1, <2>2
  <1>6. ASSUME NEW i \in 0 .. Len(t)
        PROVE  h[Len(s) + i] = g[Len(s)] \o k[i]
    <2>1. Len(s) + i \in 0 .. Len(s) + Len(t) /\ (Len(s) + i <= Len(s) <=> i = 0)
      BY <1>1
    <2>2. Len(s) + i - Len(s) = i
      BY <1>1
    <2>3. CASE i = 0
      <3>1. h[Len(s) + i] = g[Len(s)]
        BY <1>1, <2>1, <2>3
      <3>2. g[Len(s)] \o << >> = g[Len(s)]
        BY <1>5, ConcatEmptySeq
      <3> QED BY <1>5, <2>3, <3>1, <3>2
    <2>4. CASE i # 0
      BY <2>1, <2>2, <2>4
    <2> QED BY <2>3, <2>4
  <1>7. Joins(h, s \o t)
    <2>1. h[0] = << >>
      BY <1>1, <1>5
    <2>2. ASSUME NEW i \in 1 .. Len(s) PROVE h[i] = h[i - 1] \o (s \o t)[i]
      <3>1. h[i] = g[i] /\ h[i - 1] = g[i - 1]
        BY <1>1
      <3>2. g[i] = g[i - 1] \o s[i]
        BY <1>3 DEF Joins
      <3> HIDE DEF h
      <3> QED BY <1>2, <3>1, <3>2
    <2>3. ASSUME NEW i \in 1 .. Len(t) PROVE h[Len(s) + i] = h[Len(s) + i - 1] \o (s \o t)[Len(s) + i]
      <3>1. i \in 0 .. Len(t) /\ i - 1 \in 0 .. Len(t) /\ Len(s) + (i - 1) = Len(s) + i - 1
        BY <1>1
      <3> HIDE DEF h
      <3>2. h[Len(s) + i] = g[Len(s)] \o k[i]
        BY <1>6, <3>1
      <3>3. h[Len(s) + i - 1] = g[Len(s)] \o k[i - 1]
        <4>1. h[Len(s) + (i - 1)] = g[Len(s)] \o k[i - 1]
          BY <1>6, <3>1
        <4> QED BY <3>1, <4>1
      <3>4. k[i] = k[i - 1] \o t[i]
        BY <1>4 DEF Joins
      <3>5. k[i - 1] \in Seq(A) /\ t[i] \in Seq(A)
        <4>1. k[i - 1] \in Seq(A)
          BY <1>4, <3>1
        <4>2. t[i] \in Seq(A)
          BY ElementOfSeq DEF Parts
        <4> QED BY <4>1, <4>2
      <3>6. (g[Len(s)] \o k[i - 1]) \o t[i] = g[Len(s)] \o (k[i - 1] \o t[i])
        BY <1>0, <1>5, <3>5, Zenon
      <3>7. (s \o t)[Len(s) + i] = t[i]
        BY <1>2
      <3> QED BY <3>2, <3>3, <3>4, <3>6, <3>7
    <2> HIDE DEF h
    <2>4. ASSUME NEW i \in 1 .. Len(s \o t) PROVE h[i] = h[i - 1] \o (s \o t)[i]
      <3>1. CASE i <= Len(s)
        <4>1. i \in 1 .. Len(s)
          BY <1>1, <1>2, <3>1
        <4> QED BY <2>2, <4>1
      <3>2. CASE ~ (i <= Len(s))
        <4>1. i - Len(s) \in 1 .. Len(t) /\ Len(s) + (i - Len(s)) = i
          BY <1>1, <1>2, <3>2
        <4>2. PICK j \in 1 .. Len(t) : Len(s) + j = i
          BY <4>1
        <4>3. h[Len(s) + j] = h[Len(s) + j - 1] \o (s \o t)[Len(s) + j]
          BY <2>3
        <4>4. Len(s) + j - 1 = i - 1
          BY <4>2
        <4> QED BY <4>2, <4>3, <4>4
      <3> QED BY <3>1, <3>2
    <2> QED BY <2>1, <2>4 DEF Joins
  <1>8. h[Len(s \o t)] = g[Len(s)] \o k[Len(t)]
    <2>1. Len(t) \in 0 .. Len(t)
      BY <1>1
    <2> HIDE DEF h
    <2> QED BY <1>2, <1>6, <2>1
  <1> HIDE DEF h
  <1>9. T!FlattenSeq(s \o t) = h[Len(s \o t)]
    BY <1>2, <1>7, FlattenIs DEF Parts
  <1>10. T!FlattenSeq(s) = g[Len(s)] /\ T!FlattenSeq(t) = k[Len(t)]
    BY <1>3, <1>4, FlattenIs DEF Parts
  <1> QED BY <1>8, <1>9, <1>10

LEMMA Within ==
    ASSUME NEW n \in Nat, NEW e \in 0 .. n, NEW i \in 1 .. n - e + 1, i # n - e + 1
    PROVE  i \in 1 .. n - e /\ e + i \in 1 .. n
  OBVIOUS

LEMMA SubSeqOfAppend ==
    ASSUME NEW A, NEW s \in Seq(A), NEW x \in A, NEW e \in 0 .. Len(s)
    PROVE  SubSeq(Append(s, x), 1 + e, Len(s) + 1) = Append(SubSeq(s, 1 + e, Len(s)), x)
  <1> DEFINE t == Append(s, x)
             rest == SubSeq(s, 1 + e, Len(s))
             a == SubSeq(t, 1 + e, Len(s) + 1)
             b == Append(rest, x)
  <1>1. /\ t \in Seq(A) /\ Len(t) = Len(s) + 1 /\ t[Len(s) + 1] = x
        /\ \A i \in 1 .. Len(s) : t[i] = s[i]
        /\ Len(s) \in Nat /\ e \in 0 .. Len(s)
    BY AppendProperties, LenProperties
  <1>2. /\ rest \in Seq(A) /\ Len(rest) = Len(s) - e
        /\ \A i \in 1 .. Len(s) - e : rest[i] = s[e + i]
    OBVIOUS
  <1> HIDE DEF t, rest
  <1>3. /\ b \in Seq(A) /\ Len(b) = Len(s) - e + 1 /\ b[Len(s) - e + 1] = x
        /\ \A i \in 1 .. Len(s) - e : b[i] = s[e + i]
    BY <1>2, AppendProperties
  <1>4. /\ a \in Seq(A) /\ Len(a) = Len(s) - e + 1
        /\ \A i \in 1 .. Len(s) - e + 1 : a[i] = t[e + i]
    BY <1>1
  <1> HIDE DEF a, b
  <1>5. ASSUME NEW i \in 1 .. Len(a) PROVE a[i] = b[i]
    <2>1. CASE i = Len(s) - e + 1
      BY <1>1, <1>3, <1>4, <2>1
    <2>2. CASE i # Len(s) - e + 1
      <3>1. i \in 1 .. Len(s) - e + 1
        BY <1>4
      <3>2. i \in 1 .. Len(s) - e /\ e + i \in 1 .. Len(s)
        BY <1>1, <2>2, <3>1, Within
      <3> QED BY <1>1, <1>3, <1>4, <3>1, <3>2
    <2> QED BY <2>1, <2>2
  <1>6. a = b
    BY <1>3, <1>4, <1>5, SeqEqual
  <1> QED BY <1>6 DEF a, b, t, rest

LEMMA SubSeqTypes ==
    ASSUME NEW A, NEW s \in Seq(A), NEW e \in 0 .. Len(s)
    PROVE  /\ SubSeq(s, 1 + e, Len(s)) \in Seq(A)
           /\ SubSeq(s, 1, e) \in Seq(A)
           /\ SubSeq(s, 1 + Len(s), Len(s)) = << >>
           /\ Len(SubSeq(s, 1, e)) = e
           /\ \A k \in 1 .. e : SubSeq(s, 1, e)[k] = s[k]
           /\ SubSeq(s, 1, 0) = << >>
           /\ SubSeq(s, 1, Len(s)) = s
  OBVIOUS

LEMMA PrefixOfAppend ==
    ASSUME NEW A, NEW s \in Seq(A), NEW x \in A, NEW e \in 0 .. Len(s)
    PROVE  SubSeq(Append(s, x), 1, e) = SubSeq(s, 1, e)
  OBVIOUS

LEMMA PrefixGrows ==
    ASSUME NEW A, NEW s \in Seq(A), NEW n \in 1 .. Len(s)
    PROVE  /\ SubSeq(s, 1, n - 1) \in Seq(A) /\ s[n] \in A
           /\ SubSeq(s, 1, n) = Append(SubSeq(s, 1, n - 1), s[n])
  OBVIOUS

LEMMA EmptyIsSeq ==
    ASSUME NEW A
    PROVE  << >> \in Seq(A) /\ Len(<< >>) = 0
  OBVIOUS

LEMMA AppendIs ==
    ASSUME NEW A, NEW s \in Seq(A), NEW x \in A
    PROVE  /\ Append(s, x) \in Seq(A) /\ Len(Append(s, x)) = Len(s) + 1
           /\ Append(s, x)[Len(s) + 1] = x
           /\ \A k \in 1 .. Len(s) : Append(s, x)[k] = s[k]
           /\ Append(s, x) = s \o << x >>
           /\ Len(s) \in Nat
  OBVIOUS
-----------------------------------------------------------------------------
(* StructureTests: `ch test`.                                              *)

Outcomes(c) == [k \in DOMAIN Files[c.tag] |-> Files[c.tag][k].outcomes]
\* The outcomes of the files before the f-th, and of all.
Upto(c, f) == T!FlattenSeq(SubSeq(Outcomes(c), 1, f - 1))
All(c) == T!FlattenSeq(Outcomes(c))
\* The results of tests that were run with one image.
Made(outcomes, i) == [k \in DOMAIN outcomes |-> [ok |-> outcomes[k], image |-> i]]

LEMMA FunctionIsSeq ==
    ASSUME NEW A, NEW n \in Nat, NEW f \in [1 .. n -> A]
    PROVE  f \in Seq(A) /\ Len(f) = n
  OBVIOUS

LEMMA FilesAre ==
    ASSUME NEW c \in Cases
    PROVE  /\ c \in [tag : {c.tag}, platform : {c.platform}]
           /\ c.platform \notin {"any", "none", "old"}
           /\ Len(Files[c.tag]) \in Nat /\ DOMAIN Files[c.tag] = 1 .. Len(Files[c.tag])
           /\ \A k \in 1 .. Len(Files[c.tag]) :
                 /\ Files[c.tag][k].outcomes \in Seq(BOOLEAN)
                 /\ Files[c.tag][k].parses \in BOOLEAN
           /\ Outcomes(c) \in Seq(Seq(BOOLEAN)) /\ Len(Outcomes(c)) = Len(Files[c.tag])
  <1> DEFINE files == Files[c.tag]
  <1>1. files \in Seq([parses : BOOLEAN, outcomes : Seq(BOOLEAN)])
    BY CasesAssumption
  <1> HIDE DEF files
  <1>2. Len(files) \in Nat /\ DOMAIN files = 1 .. Len(files)
    BY <1>1, LenProperties
  <1>3. \A k \in 1 .. Len(files) : files[k] \in [parses : BOOLEAN, outcomes : Seq(BOOLEAN)]
    BY <1>1, <1>2, ElementOfSeq
  <1>4. \A k \in 1 .. Len(files) : files[k].outcomes \in Seq(BOOLEAN) /\ files[k].parses \in BOOLEAN
    BY <1>3
  <1>5. Outcomes(c) = [k \in 1 .. Len(files) |-> files[k].outcomes]
    BY <1>2 DEF Outcomes, files
  <1>6. Outcomes(c) \in Seq(Seq(BOOLEAN)) /\ Len(Outcomes(c)) = Len(files)
    <2>1. Outcomes(c) \in [1 .. Len(files) -> Seq(BOOLEAN)]
      BY <1>4, <1>5
    <2> QED BY <1>2, <2>1, FunctionIsSeq
  <1> QED BY <1>2, <1>4, <1>6, CasesAssumption DEF files

\* File by file, they are all outcomes of the case.
LEMMA UptoIs ==
    ASSUME NEW c \in Cases
    PROVE  /\ Upto(c, 1) = << >>
           /\ \A f \in 1 .. Len(Files[c.tag]) + 1 : Upto(c, f) \in Seq(BOOLEAN)
           /\ \A f \in 1 .. Len(Files[c.tag]) :
                 Upto(c, f + 1) = Upto(c, f) \o Files[c.tag][f].outcomes
           /\ Upto(c, Len(Files[c.tag]) + 1) = All(c)
           /\ All(c) \in Seq(BOOLEAN)
  <1> DEFINE s == Outcomes(c)
             n == Len(Files[c.tag])
  <1>1. s \in Seq(Seq(BOOLEAN)) /\ Len(s) = n /\ n \in Nat
    BY FilesAre
  <1>2. \A f \in 1 .. n : s[f] = Files[c.tag][f].outcomes
    BY FilesAre DEF Outcomes
  <1> HIDE DEF s, n
  <1>3. \A f \in 0 .. n : SubSeq(s, 1, f) \in Seq(Seq(BOOLEAN)) /\ Len(SubSeq(s, 1, f)) = f
    BY <1>1
  <1>4. SubSeq(s, 1, 0) = << >> /\ SubSeq(s, 1, n) = s
    BY <1>1
  <1>5. \A f \in 1 .. n + 1 : Upto(c, f) = T!FlattenSeq(SubSeq(s, 1, f - 1))
    BY DEF Upto, s
  <1>6. \A f \in 1 .. n + 1 : Upto(c, f) \in Seq(BOOLEAN)
    <2> TAKE f \in 1 .. n + 1
    <2>1. f - 1 \in 0 .. n
      BY <1>1
    <2> QED BY <1>3, <1>5, <2>1, FlattenType
  <1>7. Upto(c, 1) = << >>
    <2>1. T!FlattenSeq(SubSeq(s, 1, 0)) = << >>
      <3>1. 0 \in 0 .. n
        BY <1>1
      <3>2. SubSeq(s, 1, 0) \in Seq(Seq(BOOLEAN))
        BY <1>3, <3>1
      <3> QED BY <1>4, <3>2, FlattenType
    <2>2. 1 - 1 = 0
      OBVIOUS
    <2> QED BY <2>1, <2>2 DEF Upto, s
  <1>8. ASSUME NEW f \in 1 .. n
        PROVE  Upto(c, f + 1) = Upto(c, f) \o Files[c.tag][f].outcomes
    <2>1. /\ f - 1 \in 0 .. n /\ f \in 1 .. n + 1 /\ f + 1 \in 1 .. n + 1 /\ (f + 1) - 1 = f
      BY <1>1
    <2>2. SubSeq(s, 1, f) = Append(SubSeq(s, 1, f - 1), s[f])
      BY <1>1
    <2>3. s[f] \in Seq(BOOLEAN)
      BY <1>1, ElementOfSeq
    <2>4. T!FlattenSeq(SubSeq(s, 1, f)) = T!FlattenSeq(SubSeq(s, 1, f - 1)) \o s[f]
      BY <1>3, <2>1, <2>2, <2>3, FlattenAppend
    <2> QED BY <1>2, <1>5, <2>1, <2>4
  <1>9. Upto(c, n + 1) = All(c) /\ n + 1 \in 1 .. n + 1
    <2>1. n + 1 \in 1 .. n + 1 /\ (n + 1) - 1 = n
      BY <1>1
    <2> QED BY <1>4, <1>5, <2>1 DEF All, s
  <1> QED BY <1>6, <1>7, <1>8, <1>9 DEF n

\* One more result.
LEMMA MadeAppend ==
    ASSUME NEW outcomes \in Seq(BOOLEAN), NEW o \in BOOLEAN, NEW i
    PROVE  /\ Made(Append(outcomes, o), i) = Append(Made(outcomes, i), [ok |-> o, image |-> i])
           /\ Made(outcomes, i) \in Seq([ok : BOOLEAN, image : {i}])
  <1> DEFINE m == Made(outcomes, i)
  <1>1. Len(outcomes) \in Nat /\ DOMAIN outcomes = 1 .. Len(outcomes)
    BY LenProperties
  <1>2. m = [k \in 1 .. Len(outcomes) |-> [ok |-> outcomes[k], image |-> i]]
    BY <1>1 DEF Made
  <1>3. m \in Seq([ok : BOOLEAN, image : {i}]) /\ Len(m) = Len(outcomes)
    <2>1. m \in [1 .. Len(outcomes) -> [ok : BOOLEAN, image : {i}]]
      <3>1. \A k \in 1 .. Len(outcomes) : outcomes[k] \in BOOLEAN
        BY ElementOfSeq
      <3> QED BY <1>2, <3>1
    <2> HIDE DEF m
    <2> QED BY <1>1, <2>1, FunctionIsSeq
  <1>4. DOMAIN Append(outcomes, o) = 1 .. Len(outcomes) + 1
    BY <1>1
  <1>5. Made(Append(outcomes, o), i)
           = [k \in 1 .. Len(outcomes) + 1 |-> [ok |-> Append(outcomes, o)[k], image |-> i]]
    BY <1>4 DEF Made
  <1>6. Append(m, [ok |-> o, image |-> i])
           = [k \in 1 .. Len(outcomes) + 1 |->
                 IF k = Len(outcomes) + 1 THEN [ok |-> o, image |-> i] ELSE m[k]]
    BY <1>1, <1>3
  <1>7. \A k \in 1 .. Len(outcomes) + 1 :
           Append(outcomes, o)[k] = IF k = Len(outcomes) + 1 THEN o ELSE outcomes[k]
    BY <1>1
  <1>8. \A k \in 1 .. Len(outcomes) : m[k] = [ok |-> outcomes[k], image |-> i]
    BY <1>2
  <1>9. \A k \in 1 .. Len(outcomes) + 1 :
           [ok |-> Append(outcomes, o)[k], image |-> i]
              = IF k = Len(outcomes) + 1 THEN [ok |-> o, image |-> i] ELSE m[k]
    <2> HIDE DEF m
    <2> QED BY <1>1, <1>7, <1>8
  <1> HIDE DEF m
  <1> QED BY <1>3, <1>5, <1>6, <1>9 DEF m

\* Reports say the same of the tests whatever image they were run with.
LEMMA SameOutcome ==
    ASSUME NEW outcomes \in Seq(BOOLEAN), NEW i, NEW j
    PROVE  T!AllOk(Made(outcomes, i)) <=> T!AllOk(Made(outcomes, j))
  <1>1. DOMAIN Made(outcomes, i) = DOMAIN Made(outcomes, j)
    BY DEF Made
  <1>2. \A k \in DOMAIN outcomes : Made(outcomes, i)[k].ok = Made(outcomes, j)[k].ok
    BY DEF Made
  <1>3. Made(outcomes, i) \in Seq([ok : BOOLEAN, image : {i}]) /\
        Made(outcomes, j) \in Seq([ok : BOOLEAN, image : {j}])
    BY MadeAppend
  <1>4. Made(outcomes, i) = << >> <=> Made(outcomes, j) = << >>
    BY <1>1, <1>3, EmptySeq, LenProperties
  <1>5. DOMAIN Made(outcomes, i) = DOMAIN outcomes
    BY DEF Made
  <1> QED BY <1>1, <1>2, <1>4, <1>5 DEF T!AllOk

LEMMA ExpectedIs ==
    ASSUME NEW c \in Cases
    PROVE  T!Expected(c) = Made(All(c), c.platform)
  BY DEF T!Expected, Made, All, Outcomes

Fresh == [state |-> "none", file |-> 1, pos |-> 1]
Images == {"none", "old"} \cup {c.platform : c \in Cases}
Runners == [state : {"none", "running", "closed"}, file : Nat, pos : Nat]
Results == [ok : BOOLEAN, image : Images]
Open == IF tstep \in {"load", "create", "collect"} THEN case ELSE {}

\* What the goroutine of a case has sent: the outcomes of the files before the one
\* it is at, and of that one up to its position.
Said(c) ==
    Upto(c, runner[c].file)
        \o IF runner[c].file <= Len(Files[c.tag])
           THEN SubSeq(Files[c.tag][runner[c].file].outcomes, 1, runner[c].pos - 1)
           ELSE << >>

TestTypes ==
    /\ inputs \in T!Inputs(inputs.chosen) /\ inputs.chosen \subseteq Cases
    /\ left \subseteq inputs.chosen /\ case \subseteq inputs.chosen /\ case \cap left = {}
    /\ case = {} \/ \E c : case = {c}
    /\ tstep \in {"next", "load", "create", "collect", "ended"}
    /\ verdict \in {"none", "ok", "failed", "error", "panic"}
    /\ tstep = "ended" <=> verdict # "none"
    /\ Open \subseteq T!ToTest
    /\ daemon \in [T!ImageRefs -> Images]
    /\ runner \in [Cases -> Runners]
    /\ channel \in [Cases -> Seq(Results)] /\ collected \in Seq(Results)
    /\ report \in [Cases -> SUBSET Seq(Results)]
    /\ \A c \in Cases : Len(channel[c]) <= RoomInChannel

\* A case that was not loaded has no goroutine and no report.
FreshOK(c) ==
    c \in left \/ (c \in case /\ tstep = "load") =>
        /\ runner[c] = Fresh /\ channel[c] = << >> /\ report[c] = {}
        /\ c \notin inputs.present => daemon[c] \in {"none", "old"}

\* A goroutine that nobody collects from is one whose report could not be created.
RunnerOK(c) ==
    /\ runner[c].state # "none" =>
          /\ runner[c].file \in 1 .. Len(Files[c.tag]) + 1 /\ runner[c].pos \in Nat \ {0}
          /\ runner[c].file <= Len(Files[c.tag]) =>
                runner[c].pos <= Len(Files[c.tag][runner[c].file].outcomes) + 1
    /\ runner[c].state = "closed" => runner[c].file = Len(Files[c.tag]) + 1
    /\ runner[c].state = "running" =>
          c \in inputs.broken \/ (c \in case /\ tstep \in {"create", "collect", "ended"})

\* While a case is collected from, the name of its image is not given to another
\* one, and what is collected and what waits in the channel is what was said.
SaidOK(c) ==
    c \in case /\ tstep \in {"create", "collect"} =>
        /\ runner[c].state # "none" /\ report[c] = {}
        /\ daemon[T!Name(c)] = c.platform \/ T!Stale(c)
        /\ collected \o channel[c] = Made(Said(c), daemon[T!Name(c)])
        /\ tstep = "collect" => c \notin inputs.broken

ReportOK(c) ==
    \A results \in report[c] :
        \E i : results = Made(All(c), i) /\ (i = c.platform \/ T!Stale(c))

\* The counters are those of the cases that are through.
Failed == {c \in T!ToTest \ (left \cup Open) : report[c] = {} \/ ~ T!Passes(c)}
CountOK ==
    /\ verdict \in {"none", "ok", "failed"} =>
          tested = Cardinality(T!ToTest \ left) /\ failed = Cardinality(Failed)
    /\ verdict \in {"ok", "failed"} => left = {}
    /\ verdict = "ok" => failed = 0

TestInvariant ==
    /\ TestTypes
    /\ \A c \in Cases : FreshOK(c) /\ RunnerOK(c) /\ SaidOK(c) /\ ReportOK(c)
    /\ CountOK
-----------------------------------------------------------------------------
LEMMA ToTestIsFinite ==
    ASSUME TestTypes
    PROVE  T!ToTest \subseteq Cases /\ IsFiniteSet(T!ToTest)
  <1>1. T!ToTest \subseteq Cases
    BY DEF TestTypes, T!ToTest
  <1> QED BY <1>1, Sizes, FS_Subset

\* A name without a platform is the name of no case, so that only a case itself can
\* replace the image that was under its full name.
LEMMA NamesAre ==
    ASSUME NEW c \in Cases
    PROVE  /\ T!Name(c) \in T!ImageRefs /\ c \in T!ImageRefs
           /\ \A d \in Cases : T!Name(d) = c => d = c
           /\ c.platform \in Images
  <1>1. \A d \in Cases : [d EXCEPT !.platform = "any"] \in [tag : {d.tag}, platform : {"any"}]
    BY CasesAssumption
  <1>2. \A d \in Cases : [d EXCEPT !.platform = "any"] # c
    BY <1>1, CasesAssumption
  <1> QED BY <1>2 DEF T!Name, T!ImageRefs, Images

LEMMA TestStarts ==
    ASSUME NEW in, in \in T!Inputs(in.chosen), in.chosen \subseteq Cases, NEW pulled,
           T!Start(in, pulled)
    PROVE  TestInvariant
  <1> USE DEF T!Start
  <1>1. inputs = in /\ left = in.chosen /\ case = {} /\ Open = {}
    BY DEF Open
  <1>2. /\ daemon \in [T!ImageRefs -> {"none", "old"}]
        /\ runner = [c \in Cases |-> Fresh]
        /\ channel = [c \in Cases |-> << >>] /\ report = [c \in Cases |-> {}]
    BY DEF Fresh
  <1>3. TestTypes
    <2>1. daemon \in [T!ImageRefs -> Images]
      BY <1>2 DEF Images
    <2>2. runner \in [Cases -> Runners]
      BY <1>2 DEF Fresh, Runners
    <2>3. /\ channel \in [Cases -> Seq(Results)] /\ collected \in Seq(Results)
          /\ \A c \in Cases : Len(channel[c]) <= RoomInChannel
      <3>1. << >> \in Seq(Results) /\ Len(<< >>) = 0
        BY EmptySeq
      <3> QED BY <1>2, <3>1, JobsAssumption DEF JobsAssumption
    <2>4. report \in [Cases -> SUBSET Seq(Results)]
      BY <1>2
    <2>5. inputs \in T!Inputs(inputs.chosen) /\ inputs.chosen \subseteq Cases
      BY <1>1
    <2>6. tstep = "next" /\ verdict = "none" /\ left \subseteq inputs.chosen
      BY <1>1
    <2> QED BY <1>1, <2>1, <2>2, <2>3, <2>4, <2>5, <2>6 DEF TestTypes
  <1>4. ASSUME NEW c \in Cases
        PROVE  FreshOK(c) /\ RunnerOK(c) /\ SaidOK(c) /\ ReportOK(c)
    <2>1. runner[c] = Fresh /\ channel[c] = << >> /\ report[c] = {} /\ daemon[c] \in {"none", "old"}
      BY <1>2, NamesAre
    <2> QED BY <1>1, <2>1 DEF FreshOK, RunnerOK, SaidOK, ReportOK, Fresh
  <1>5. CountOK
    <2>1. T!ToTest \ left = {} /\ Failed = {}
      BY <1>1 DEF T!ToTest, Failed
    <2> QED BY <2>1, FS_EmptySet DEF CountOK
  <1> QED BY <1>3, <1>4, <1>5 DEF TestInvariant

\* A step that leaves all of it alone.
LEMMA TestStays ==
    ASSUME TestInvariant,
           UNCHANGED <<inputs, left, case, tested, failed, verdict, tstep, daemon, runner,
                       channel, collected, report>>
    PROVE  TestInvariant'
  <1>1. TestTypes'
    BY DEF TestInvariant, TestTypes, Open, T!ToTest, T!Inputs, T!ImageRefs
  <1>2. CountOK'
    BY DEF TestInvariant, CountOK, Failed, Open, T!ToTest, T!Passes, T!Expected
  <1>3. ASSUME NEW c \in Cases
        PROVE  (FreshOK(c) /\ RunnerOK(c) /\ SaidOK(c) /\ ReportOK(c))'
    <2>1. FreshOK(c) /\ RunnerOK(c) /\ SaidOK(c) /\ ReportOK(c)
      BY DEF TestInvariant
    <2>2. T!Name(c)' = T!Name(c) /\ (T!Stale(c)' <=> T!Stale(c)) /\ Said(c)' = Said(c)
      BY DEF T!Name, T!Stale, Said
    <2>3. FreshOK(c)'
      BY <2>1 DEF FreshOK
    <2>4. RunnerOK(c)'
      BY <2>1 DEF RunnerOK
    <2>5. SaidOK(c)'
      BY <2>1, <2>2 DEF SaidOK
    <2>6. ReportOK(c)'
      BY <2>1, <2>2 DEF ReportOK
    <2> QED BY <2>3, <2>4, <2>5, <2>6
  <1> QED BY <1>1, <1>2, <1>3 DEF TestInvariant

\* What a step must say of itself when it leaves goroutines, images and reports
\* alone.
LEMMA RunKept ==
    ASSUME TestInvariant, UNCHANGED <<inputs, daemon, runner, channel, collected, report>>,
           tstep' \in {"next", "load", "ended"}, left' \subseteq left,
           \A c \in case' : tstep' = "load" => c \in left,
           \A c \in Cases : runner[c].state = "running" =>
               c \in inputs.broken \/ (c \in case' /\ tstep' = "ended")
    PROVE  \A c \in Cases : (FreshOK(c) /\ RunnerOK(c) /\ SaidOK(c) /\ ReportOK(c))'
  <1> SUFFICES ASSUME NEW c \in Cases
               PROVE  (FreshOK(c) /\ RunnerOK(c) /\ SaidOK(c) /\ ReportOK(c))'
    OBVIOUS
  <1>1. FreshOK(c) /\ RunnerOK(c) /\ SaidOK(c) /\ ReportOK(c)
    BY DEF TestInvariant
  <1>2. FreshOK(c)'
    BY <1>1 DEF FreshOK
  <1>3. RunnerOK(c)'
    BY <1>1 DEF RunnerOK
  <1>4. SaidOK(c)'
    BY DEF SaidOK
  <1>5. ReportOK(c)'
    BY <1>1 DEF ReportOK, T!Stale, T!Name
  <1> QED BY <1>2, <1>3, <1>4, <1>5

LEMMA CancelKeeps ==
    ASSUME TestInvariant, T!Cancel
    PROVE  TestInvariant'
  <1>1. UNCHANGED <<inputs, left, case, tested, failed, verdict, tstep, daemon, runner, channel,
                    collected, report>>
    BY DEF T!Cancel, T!loop, T!run
  <1> QED BY <1>1, TestStays

LEMMA AllTestedKeeps ==
    ASSUME TestInvariant, T!AllTested
    PROVE  TestInvariant'
  <1>1. /\ UNCHANGED <<inputs, left, case, tested, failed, daemon, runner, channel, collected, report>>
        /\ tstep = "next" /\ left = {} /\ tstep' = "ended"
        /\ verdict' = IF failed = 0 THEN "ok" ELSE "failed"
    BY DEF T!AllTested, T!Return, T!run
  <1>2. TestTypes'
    BY <1>1 DEF TestInvariant, TestTypes, Open, T!ToTest, T!Inputs, T!ImageRefs
  <1>3. CountOK'
    <2>1. verdict = "none"
      BY <1>1 DEF TestInvariant, TestTypes
    <2>2. Failed' = Failed
      BY <1>1 DEF Failed, Open, T!ToTest, T!Passes, T!Expected
    <2>3. T!ToTest' = T!ToTest
      BY <1>1 DEF T!ToTest
    <2> QED BY <1>1, <2>1, <2>2, <2>3 DEF TestInvariant, CountOK
  <1>4. \A c \in Cases : runner[c].state = "running" => c \in inputs.broken
    BY <1>1 DEF TestInvariant, RunnerOK
  <1>5. \A c \in Cases : (FreshOK(c) /\ RunnerOK(c) /\ SaidOK(c) /\ ReportOK(c))'
    BY <1>1, <1>4, RunKept
  <1> QED BY <1>2, <1>3, <1>5 DEF TestInvariant

\* The process ends: no counter is told.
LEMMA PanicKeeps ==
    ASSUME TestInvariant, NEW c \in Cases, T!Panic(c)
    PROVE  TestInvariant'
  <1>1. /\ UNCHANGED <<inputs, left, case, tested, failed, daemon, runner, channel, collected, report>>
        /\ tstep' = "ended" /\ verdict' = "panic"
    BY DEF T!Panic, T!Return, T!run
  <1>2. TestTypes'
    BY <1>1 DEF TestInvariant, TestTypes, Open, T!ToTest, T!Inputs, T!ImageRefs
  <1>3. CountOK'
    BY <1>1 DEF CountOK
  <1>4. \A d \in Cases : runner[d].state = "running" => d \in inputs.broken \/ d \in case
    BY DEF TestInvariant, RunnerOK
  <1>5. \A d \in Cases : (FreshOK(d) /\ RunnerOK(d) /\ SaidOK(d) /\ ReportOK(d))'
    BY <1>1, <1>4, RunKept
  <1> QED BY <1>2, <1>3, <1>5 DEF TestInvariant

LEMMA NextCaseKeeps ==
    ASSUME TestInvariant, NEW c \in Cases, T!NextCase(c)
    PROVE  TestInvariant'
  <1>1. /\ tstep = "next" /\ c \in left /\ case' = {c} /\ left' = left \ {c}
        /\ UNCHANGED <<inputs, canceled, failed, daemon, runner, channel, collected, report>>
    BY DEF T!NextCase, T!Reachable, T!run
  <1>2. verdict = "none" /\ Open = {} /\ left \subseteq inputs.chosen /\ T!ToTest' = T!ToTest
    BY <1>1 DEF TestInvariant, TestTypes, Open, T!ToTest
  <1>3. \/ tstep' = "ended" /\ verdict' = "error"
        \/ tstep' = "next" /\ verdict' = "none" /\ tested' = tested /\ c \notin T!ToTest
        \/ tstep' = "load" /\ verdict' = "none" /\ tested' = tested + 1 /\ c \in T!ToTest
    BY <1>1, <1>2 DEF T!NextCase, T!Return, T!ToTest
  <1>4. \A d \in Cases : runner[d].state = "running" => d \in inputs.broken
    BY <1>1 DEF TestInvariant, RunnerOK
  <1>5. \A d \in Cases : (FreshOK(d) /\ RunnerOK(d) /\ SaidOK(d) /\ ReportOK(d))'
    BY <1>1, <1>3, <1>4, RunKept
  <1>6. TestTypes'
    <2>1. Open' \subseteq T!ToTest
      BY <1>1, <1>3 DEF Open
    <2> QED BY <1>1, <1>2, <1>3, <2>1 DEF TestInvariant, TestTypes, T!Inputs, T!ImageRefs
  <1>7. CountOK'
    <2>1. CASE verdict' = "error"
      BY <2>1 DEF CountOK
    <2>2. CASE verdict' = "none" /\ tested' = tested /\ c \notin T!ToTest
      <3>1. T!ToTest \ left' = T!ToTest \ left
        BY <1>1, <2>2
      <3>2. Failed' = Failed
        BY <1>1, <1>2, <1>3, <2>2 DEF Failed, Open, T!Passes, T!Expected
      <3> QED BY <1>1, <1>2, <2>2, <3>1, <3>2 DEF TestInvariant, CountOK
    <2>3. CASE tstep' = "load" /\ verdict' = "none" /\ tested' = tested + 1 /\ c \in T!ToTest
      <3>1. T!ToTest \ left' = (T!ToTest \ left) \cup {c} /\ c \notin T!ToTest \ left
        BY <1>1, <2>3
      <3>2. IsFiniteSet(T!ToTest \ left)
        BY ToTestIsFinite, FS_Subset DEF TestInvariant
      <3>3. Cardinality(T!ToTest \ left') = Cardinality(T!ToTest \ left) + 1
        BY <3>1, <3>2, FS_AddElement
      <3>4. Failed' = Failed
        BY <1>1, <1>2, <2>3 DEF Failed, Open, T!Passes, T!Expected
      <3> QED BY <1>1, <1>2, <2>3, <3>3, <3>4 DEF TestInvariant, CountOK
    <2> QED BY <1>3, <2>1, <2>2, <2>3
  <1> QED BY <1>5, <1>6, <1>7 DEF TestInvariant

\* The counters when a case is through: with a report of an image that passes, or
\* as a failure.
LEMMA CaseCounts ==
    ASSUME TestInvariant, NEW c \in Cases, case = {c}, tstep \in {"load", "create", "collect"},
           tstep' \in {"next", "ended"}, verdict' \in {"none", "error"},
           UNCHANGED <<inputs, left, case, tested>>,
           \A d \in Cases \ {c} : report'[d] = report[d],
           \/ failed' = failed /\ report'[c] # {} /\ T!Passes(c)
           \/ failed' = failed + 1 /\ (report'[c] = {} \/ ~ T!Passes(c))
    PROVE  CountOK'
  <1>1. /\ verdict = "none" /\ c \in T!ToTest /\ c \notin left
        /\ Open = {c} /\ Open' = {} /\ T!ToTest' = T!ToTest /\ T!ToTest \subseteq Cases
    BY ToTestIsFinite DEF TestInvariant, TestTypes, Open, T!ToTest
  <1>2. \A d \in Cases : T!Passes(d)' <=> T!Passes(d)
    BY DEF T!Passes, T!Expected
  <1>3. IsFiniteSet(Failed) /\ c \notin Failed
    <2>1. Failed \subseteq T!ToTest /\ c \notin Failed
      BY <1>1 DEF Failed
    <2> QED BY <2>1, ToTestIsFinite, FS_Subset DEF TestInvariant
  <1>4. \A d \in Cases \ {c} : d \in Failed' <=> d \in Failed
    BY <1>1, <1>2 DEF Failed
  <1>5. Failed \subseteq Cases /\ Failed' \subseteq Cases
    BY <1>1 DEF Failed
  <1>6. CASE failed' = failed /\ report'[c] # {} /\ T!Passes(c)
    <2>1. c \notin Failed'
      BY <1>2, <1>6 DEF Failed
    <2>2. Failed' = Failed
      BY <1>3, <1>4, <1>5, <2>1
    <2> QED BY <1>1, <1>6, <2>2 DEF TestInvariant, CountOK
  <1>7. CASE failed' = failed + 1 /\ (report'[c] = {} \/ ~ T!Passes(c))
    <2>1. c \in Failed'
      BY <1>1, <1>2, <1>7 DEF Failed
    <2>2. Failed' = Failed \cup {c}
      BY <1>4, <1>5, <2>1
    <2>3. Cardinality(Failed') = Cardinality(Failed) + 1
      BY <1>3, <2>2, FS_AddElement
    <2> QED BY <1>1, <1>7, <2>3 DEF TestInvariant, CountOK
  <1> QED BY <1>6, <1>7

\* A failure that leaves goroutines, images and reports alone.
LEMMA FailCaseKeeps ==
    ASSUME TestInvariant, NEW c \in Cases, case = {c}, T!FailCase,
           tstep \in {"load", "create"}, runner[c].state = "running" => c \in inputs.broken,
           UNCHANGED <<daemon, runner, channel, collected, report>>
    PROVE  TestInvariant'
  <1>1. /\ UNCHANGED <<inputs, left, case, tested>> /\ failed' = failed + 1
        /\ tstep' \in {"next", "ended"} /\ verdict' \in {"none", "error"}
        /\ tstep' = "ended" <=> verdict' # "none"
    BY DEF T!FailCase, T!Return, TestInvariant, TestTypes
  <1>2. report[c] = {}
    BY DEF TestInvariant, FreshOK, SaidOK
  <1>3. \A d \in Cases : runner[d].state = "running" => d \in inputs.broken
    BY DEF TestInvariant, RunnerOK
  <1>4. \A d \in Cases : (FreshOK(d) /\ RunnerOK(d) /\ SaidOK(d) /\ ReportOK(d))'
    BY <1>1, <1>3, RunKept
  <1>5. TestTypes'
    BY <1>1 DEF TestInvariant, TestTypes, Open, T!Inputs, T!ImageRefs
  <1>6. CountOK'
    BY <1>1, <1>2, CaseCounts
  <1> QED BY <1>4, <1>5, <1>6 DEF TestInvariant

LEMMA CreateReportKeeps ==
    ASSUME TestInvariant, NEW c \in Cases, T!CreateReport(c)
    PROVE  TestInvariant'
  <1>1. tstep = "create" /\ case = {c} /\ UNCHANGED <<daemon, runner, channel, collected, report>>
    BY DEF T!CreateReport, T!run
  <1>2. CASE c \in inputs.broken
    BY <1>1, <1>2, FailCaseKeeps DEF T!CreateReport
  <1>3. CASE c \notin inputs.broken
    <2>1. tstep' = "collect" /\ UNCHANGED <<inputs, left, case, tested, failed, verdict>>
      BY <1>1, <1>3 DEF T!CreateReport, T!loop
    <2>2. Open' = Open /\ T!ToTest' = T!ToTest
      BY <1>1, <2>1 DEF Open, T!ToTest
    <2>3. TestTypes'
      BY <1>1, <2>1, <2>2 DEF TestInvariant, TestTypes, T!Inputs, T!ImageRefs
    <2>4. CountOK'
      BY <1>1, <2>1, <2>2 DEF TestInvariant, CountOK, Failed, T!Passes, T!Expected
    <2>5. ASSUME NEW d \in Cases
          PROVE  (FreshOK(d) /\ RunnerOK(d) /\ SaidOK(d) /\ ReportOK(d))'
      <3>1. FreshOK(d) /\ RunnerOK(d) /\ SaidOK(d) /\ ReportOK(d)
        BY DEF TestInvariant
      <3>2. FreshOK(d)' /\ RunnerOK(d)'
        BY <1>1, <2>1, <3>1 DEF FreshOK, RunnerOK
      <3>3. SaidOK(d)'
        BY <1>1, <1>3, <2>1, <3>1 DEF SaidOK, Said, T!Stale, T!Name
      <3>4. ReportOK(d)'
        BY <1>1, <2>1, <3>1 DEF ReportOK, T!Stale, T!Name
      <3> QED BY <3>2, <3>3, <3>4
    <2> QED BY <2>3, <2>4, <2>5 DEF TestInvariant
  <1> QED BY <1>2, <1>3

LEMMA LoadImageKeeps ==
    ASSUME TestInvariant, NEW c \in Cases, T!LoadImage(c)
    PROVE  TestInvariant'
  <1>1. tstep = "load" /\ case = {c} /\ FreshOK(c)
    BY DEF T!LoadImage, TestInvariant
  <1>2. runner[c] = Fresh /\ channel[c] = << >> /\ report[c] = {}
    BY <1>1 DEF FreshOK
  <1>3. CASE T!FailCase /\ UNCHANGED T!run
    BY <1>1, <1>2, <1>3, FailCaseKeeps DEF T!run, Fresh
  <1>4. CASE ~ (T!FailCase /\ UNCHANGED T!run)
    <2>1. /\ daemon' = [daemon EXCEPT ![T!Name(c)] =
                           IF c \in inputs.present \/ @ = "none" THEN c.platform ELSE @]
          /\ tstep' = "create" /\ collected' = << >>
          /\ runner' = [runner EXCEPT ![c].state = "running"]
          /\ UNCHANGED <<inputs, left, case, tested, failed, verdict, channel, report>>
      BY <1>4 DEF T!LoadImage, T!loop
    <2>2. Open' = Open /\ T!ToTest' = T!ToTest
      BY <1>1, <2>1 DEF Open, T!ToTest
    <2>3. TestTypes
      BY DEF TestInvariant
    <2>4. daemon' \in [T!ImageRefs -> Images] /\ T!ImageRefs' = T!ImageRefs
      BY <2>1, <2>3, NamesAre DEF TestTypes, T!ImageRefs
    <2>5. runner' \in [Cases -> Runners]
      BY <2>1, <2>3 DEF TestTypes, Runners
    <2>6. TestTypes'
      <3>1. << >> \in Seq(Results)
        BY EmptySeq
      <3> QED BY <1>1, <2>1, <2>2, <2>3, <2>4, <2>5, <3>1 DEF TestTypes, T!Inputs
    <2>7. CountOK'
      BY <1>1, <2>1, <2>2 DEF TestInvariant, CountOK, Failed, T!Passes, T!Expected
    <2>8. runner'[c] = [state |-> "running", file |-> 1, pos |-> 1]
      <3>1. runner'[c] = [runner[c] EXCEPT !.state = "running"]
        BY <2>1, <2>3 DEF TestTypes
      <3> QED BY <1>2, <3>1 DEF Fresh
    <2>9. \A d \in Cases \ {c} : runner'[d] = runner[d] /\ daemon'[d] = daemon[d]
      BY <2>1, <2>3, NamesAre DEF TestTypes
    <2>10. \A d \in Cases : T!Stale(d) => T!Stale(d)'
      <3> SUFFICES ASSUME NEW d \in Cases, T!Stale(d) PROVE T!Stale(d)'
        OBVIOUS
      <3>1. d \notin inputs.present /\ T!Name(d) = d /\ T!Name(d)' = d /\ daemon[d] = "old"
        BY <2>1 DEF T!Stale, T!Name
      <3>2. daemon'[d] = "old"
        <4>1. CASE d = c
          BY <2>1, <2>3, <3>1, <4>1, NamesAre DEF TestTypes
        <4> QED BY <2>9, <3>1, <4>1
      <3> QED BY <2>1, <3>1, <3>2 DEF T!Stale
    <2>11. daemon'[T!Name(c)] = c.platform \/ T!Stale(c)'
      <3>1. T!Name(c) \in T!ImageRefs /\ T!Name(c)' = T!Name(c)
        BY <2>1, NamesAre DEF T!Name
      <3>2. CASE c \in inputs.present
        BY <2>1, <2>3, <3>1, <3>2 DEF TestTypes
      <3>3. CASE c \notin inputs.present
        <4>1. T!Name(c) = c /\ daemon[c] \in {"none", "old"}
          BY <1>1, <3>3 DEF T!Name, FreshOK
        <4>2. daemon'[c] = c.platform \/ daemon'[c] = "old"
          BY <2>1, <2>3, <3>1, <4>1 DEF TestTypes
        <4> QED BY <2>1, <3>1, <3>3, <4>1, <4>2 DEF T!Stale
      <3> QED BY <3>2, <3>3
    <2>12. (FreshOK(c) /\ RunnerOK(c) /\ SaidOK(c) /\ ReportOK(c))'
      <3>1. c \notin left
        BY <1>1, <2>3 DEF TestTypes
      <3>2. FreshOK(c)'
        BY <2>1, <3>1 DEF FreshOK
      <3>3. RunnerOK(c)'
        <4>1. 1 \in 1 .. Len(Files[c.tag]) + 1
          BY FilesAre
        <4>2. 1 <= Len(Files[c.tag]) => 1 <= Len(Files[c.tag][1].outcomes) + 1
          BY FilesAre, LenProperties
        <4> QED BY <1>1, <2>1, <2>8, <4>1, <4>2 DEF RunnerOK
      <3>4. Said(c)' = << >>
        <4>1. Upto(c, 1) = << >>
          BY UptoIs
        <4>2. 1 <= Len(Files[c.tag]) => SubSeq(Files[c.tag][1].outcomes, 1, 1 - 1) = << >>
          BY FilesAre
        <4> QED BY <2>8, <4>1, <4>2 DEF Said
      <3>5. collected' \o channel'[c] = Made(Said(c)', daemon'[T!Name(c)])
        BY <1>2, <2>1, <3>4 DEF Made
      <3>6. SaidOK(c)'
        <4>1. T!Name(c)' = T!Name(c)
          BY <2>1 DEF T!Name
        <4> QED BY <1>2, <2>1, <2>8, <2>11, <3>5, <4>1 DEF SaidOK
      <3>7. ReportOK(c)'
        BY <1>2, <2>1 DEF ReportOK
      <3> QED BY <3>2, <3>3, <3>6, <3>7
    <2>13. ASSUME NEW d \in Cases \ {c}
           PROVE  (FreshOK(d) /\ RunnerOK(d) /\ SaidOK(d) /\ ReportOK(d))'
      <3>1. FreshOK(d) /\ RunnerOK(d) /\ ReportOK(d)
        BY DEF TestInvariant
      <3>2. FreshOK(d)'
        BY <1>1, <2>1, <2>9, <3>1 DEF FreshOK
      <3>3. RunnerOK(d)'
        BY <1>1, <2>1, <2>9, <3>1 DEF RunnerOK
      <3>4. SaidOK(d)'
        BY <1>1, <2>1 DEF SaidOK
      <3>5. ReportOK(d)'
        BY <2>1, <2>10, <3>1 DEF ReportOK
      <3> QED BY <3>2, <3>3, <3>4, <3>5
    <2> QED BY <2>6, <2>7, <2>12, <2>13 DEF TestInvariant
  <1> QED BY <1>3, <1>4

LEMMA TakeOne ==
    ASSUME NEW A, NEW s \in Seq(A), NEW t \in Seq(A), t # << >>
    PROVE  /\ Head(t) \in A /\ Tail(t) \in Seq(A) /\ Len(Tail(t)) <= Len(t)
           /\ Append(s, Head(t)) \in Seq(A)
           /\ Append(s, Head(t)) \o Tail(t) = s \o t
  OBVIOUS

LEMMA AppendToConcat ==
    ASSUME NEW A, NEW s \in Seq(A), NEW t \in Seq(A), NEW e \in A
    PROVE  s \o t \in Seq(A) /\ s \o Append(t, e) = Append(s \o t, e)
  OBVIOUS

LEMMA NextOfSubSeq ==
    ASSUME NEW A, NEW s \in Seq(A), NEW p \in 1 .. Len(s)
    PROVE  /\ SubSeq(s, 1, p) = Append(SubSeq(s, 1, p - 1), s[p])
           /\ SubSeq(s, 1, p - 1) \in Seq(A)
  OBVIOUS

LEMMA ReceiveKeeps ==
    ASSUME TestInvariant, NEW c \in Cases, T!Receive(c)
    PROVE  TestInvariant'
  <1>1. /\ tstep = "collect" /\ case = {c} /\ channel[c] # << >>
        /\ collected' = Append(collected, Head(channel[c]))
        /\ channel' = [channel EXCEPT ![c] = Tail(@)]
        /\ UNCHANGED <<inputs, left, case, tested, failed, verdict, tstep, daemon, runner, report>>
    BY DEF T!Receive, T!loop
  <1>2. TestTypes /\ channel[c] \in Seq(Results) /\ collected \in Seq(Results)
    BY DEF TestInvariant, TestTypes
  <1>3. /\ Head(channel[c]) \in Results /\ Tail(channel[c]) \in Seq(Results)
        /\ Len(Tail(channel[c])) <= Len(channel[c]) /\ collected' \in Seq(Results)
        /\ collected' \o Tail(channel[c]) = collected \o channel[c]
    <2>1. PICK w : w = channel[c]
      OBVIOUS
    <2>2. w \in Seq(Results) /\ w # << >> /\ collected' = Append(collected, Head(w))
      BY <1>1, <1>2, <2>1
    <2>3. /\ Head(w) \in Results /\ Tail(w) \in Seq(Results) /\ Len(Tail(w)) <= Len(w)
          /\ Append(collected, Head(w)) \in Seq(Results)
          /\ Append(collected, Head(w)) \o Tail(w) = collected \o w
      BY <1>2, <2>2, TakeOne
    <2> QED BY <2>1, <2>2, <2>3
  <1>4. channel'[c] = Tail(channel[c]) /\ \A d \in Cases \ {c} : channel'[d] = channel[d]
    BY <1>1, <1>2 DEF TestTypes
  <1>5. Open' = Open /\ T!ToTest' = T!ToTest /\ T!ImageRefs' = T!ImageRefs
    BY <1>1 DEF Open, T!ToTest, T!ImageRefs
  <1>6. TestTypes'
    <2>1. channel' \in [Cases -> Seq(Results)]
      BY <1>1, <1>2, <1>3 DEF TestTypes
    <2>2. Len(channel[c]) \in Nat /\ Len(Tail(channel[c])) \in Nat /\ RoomInChannel \in Nat
      BY <1>2, <1>3, LenProperties, JobsAssumption DEF JobsAssumption
    <2>3. ASSUME NEW d \in Cases PROVE Len(channel'[d]) <= RoomInChannel
      <3>1. Len(channel[d]) <= RoomInChannel /\ Len(channel[c]) <= RoomInChannel
        BY <1>2 DEF TestTypes
      <3>2. CASE d = c
        <4>1. Len(Tail(channel[c])) <= Len(channel[c]) /\ Len(channel'[d]) = Len(Tail(channel[c]))
          BY <1>3, <1>4, <3>2
        <4>2. PICK m \in Nat, k \in Nat : m = Len(channel[c]) /\ k = Len(Tail(channel[c]))
          BY <2>2
        <4>3. k <= m /\ m <= RoomInChannel /\ Len(channel'[d]) = k
          BY <3>1, <4>1, <4>2
        <4>4. k <= RoomInChannel
          BY <2>2, <4>3
        <4> QED BY <4>3, <4>4
      <3>3. CASE d # c
        BY <1>4, <3>1, <3>3
      <3> QED BY <3>2, <3>3
    <2> QED BY <1>1, <1>2, <1>3, <1>5, <2>1, <2>3 DEF TestTypes, T!Inputs
  <1>7. CountOK'
    BY <1>1, <1>5 DEF TestInvariant, CountOK, Failed, T!Passes, T!Expected
  <1>8. ASSUME NEW d \in Cases
        PROVE  (FreshOK(d) /\ RunnerOK(d) /\ SaidOK(d) /\ ReportOK(d))'
    <2>1. FreshOK(d) /\ RunnerOK(d) /\ SaidOK(d) /\ ReportOK(d)
      BY DEF TestInvariant
    <2>2. FreshOK(d)'
      <3>1. c \notin left
        BY <1>1, <1>2 DEF TestTypes
      <3> QED BY <1>1, <1>4, <2>1, <3>1 DEF FreshOK
    <2>3. RunnerOK(d)' /\ ReportOK(d)'
      BY <1>1, <2>1 DEF RunnerOK, ReportOK, T!Stale, T!Name
    <2>4. SaidOK(d)'
      <3>1. CASE d = c
        BY <1>1, <1>3, <1>4, <2>1, <3>1 DEF SaidOK, Said, T!Stale, T!Name
      <3>2. CASE d # c
        BY <1>1, <3>2 DEF SaidOK
      <3> QED BY <3>1, <3>2
    <2> QED BY <2>2, <2>3, <2>4
  <1> QED BY <1>6, <1>7, <1>8 DEF TestInvariant

\* The channel is closed and empty, so that everything was collected.
LEMMA WriteReportKeeps ==
    ASSUME TestInvariant, NEW c \in Cases, T!WriteReport(c)
    PROVE  TestInvariant'
  <1>1. /\ tstep = "collect" /\ case = {c} /\ channel[c] = << >> /\ runner[c].state = "closed"
        /\ report' = [report EXCEPT ![c] = {collected}]
        /\ UNCHANGED <<daemon, runner, channel, collected>>
    BY DEF T!WriteReport
  <1>2. /\ UNCHANGED <<inputs, left, case, tested>>
        /\ IF T!AllOk(collected)
           THEN tstep' = "next" /\ UNCHANGED <<failed, verdict>>
           ELSE /\ failed' = failed + 1 /\ tstep' \in {"next", "ended"}
                /\ tstep' = "ended" => verdict' = "error"
                /\ tstep' = "next" => verdict' = verdict
    BY DEF T!WriteReport, T!FailCase, T!Return, T!loop
  <1>3. TestTypes /\ FreshOK(c) /\ RunnerOK(c) /\ SaidOK(c) /\ verdict = "none"
    BY <1>1 DEF TestInvariant, TestTypes
  <1> DEFINE i == daemon[T!Name(c)]
  <1>4. collected = Made(All(c), i) /\ (i = c.platform \/ T!Stale(c))
    <2>1. ~ (Len(Files[c.tag]) + 1 <= Len(Files[c.tag]))
      BY FilesAre
    <2>2. Said(c) = Upto(c, Len(Files[c.tag]) + 1) \o << >>
      BY <1>1, <1>3, <2>1 DEF Said, RunnerOK
    <2>3. Said(c) = All(c)
      BY <2>2, UptoIs, ConcatEmptySeq
    <2>4. collected \o << >> = Made(Said(c), i) /\ (i = c.platform \/ T!Stale(c))
      BY <1>1, <1>3 DEF SaidOK
    <2>5. collected \o << >> = collected
      BY <1>3, ConcatEmptySeq DEF TestTypes
    <2> QED BY <2>3, <2>4, <2>5
  <1>5. T!AllOk(collected) <=> T!Passes(c)
    <2>1. T!AllOk(Made(All(c), i)) <=> T!AllOk(Made(All(c), c.platform))
      BY UptoIs, SameOutcome
    <2> QED BY <1>4, <2>1, ExpectedIs DEF T!Passes
  <1>6. report'[c] = {collected} /\ \A d \in Cases \ {c} : report'[d] = report[d]
    BY <1>1, <1>3 DEF TestTypes
  <1>7. CountOK'
    BY <1>1, <1>2, <1>3, <1>5, <1>6, CaseCounts
  <1>8. TestTypes'
    <2>1. report' \in [Cases -> SUBSET Seq(Results)]
      BY <1>1, <1>3 DEF TestTypes
    <2>2. Open' = {} /\ T!ImageRefs' = T!ImageRefs
      BY <1>2 DEF Open, T!ImageRefs
    <2> QED BY <1>1, <1>2, <1>3, <2>1, <2>2 DEF TestTypes, T!Inputs
  <1>9. ASSUME NEW d \in Cases
        PROVE  (FreshOK(d) /\ RunnerOK(d) /\ SaidOK(d) /\ ReportOK(d))'
    <2>1. FreshOK(d) /\ RunnerOK(d) /\ SaidOK(d) /\ ReportOK(d)
      BY DEF TestInvariant
    <2>2. c \notin left
      BY <1>1, <1>3 DEF TestTypes
    <2>3. FreshOK(d)'
      BY <1>1, <1>2, <1>6, <2>1, <2>2 DEF FreshOK
    <2>4. RunnerOK(d)'
      BY <1>1, <1>2, <2>1 DEF RunnerOK
    <2>5. SaidOK(d)'
      BY <1>2 DEF SaidOK
    <2>6. ReportOK(d)'
      <3>1. \A e \in Cases : T!Stale(e)' <=> T!Stale(e)
        BY <1>1, <1>2 DEF T!Stale, T!Name
      <3>2. CASE d = c
        <4>1. \A results \in report'[d] : results = Made(All(c), i)
          BY <1>4, <1>6, <3>2
        <4> HIDE DEF i
        <4> QED BY <1>4, <3>1, <3>2, <4>1 DEF ReportOK
      <3>3. CASE d # c
        BY <1>6, <2>1, <3>1, <3>3 DEF ReportOK
      <3> QED BY <3>2, <3>3
    <2> QED BY <2>3, <2>4, <2>5, <2>6
  <1> QED BY <1>7, <1>8, <1>9 DEF TestInvariant

\* What a step of a goroutine must say of itself.
LEMMA GoroutineKeeps ==
    ASSUME TestInvariant, NEW c \in Cases, T!Running(c),
           UNCHANGED <<inputs, left, case, tested, failed, verdict, tstep, daemon, collected, report>>,
           channel' \in [Cases -> Seq(Results)], Len(channel'[c]) <= RoomInChannel,
           runner' \in [Cases -> Runners],
           \A d \in Cases \ {c} : runner'[d] = runner[d] /\ channel'[d] = channel[d],
           runner'[c].state # "none", RunnerOK(c)',
           SaidOK(c) /\ case = {c} /\ tstep \in {"create", "collect"} =>
               collected \o channel'[c] = Made(Said(c)', daemon[T!Name(c)])
    PROVE  TestInvariant'
  <1>1. TestTypes /\ runner[c].state = "running" /\ tstep # "ended"
    BY DEF TestInvariant, T!Running
  <1>2. Open' = Open /\ T!ToTest' = T!ToTest /\ T!ImageRefs' = T!ImageRefs
    BY DEF Open, T!ToTest, T!ImageRefs
  <1>3. TestTypes'
    BY <1>1, <1>2 DEF TestTypes, T!Inputs
  <1>4. CountOK'
    BY <1>2 DEF TestInvariant, CountOK, Failed, T!Passes, T!Expected
  <1>5. ASSUME NEW d \in Cases
        PROVE  (FreshOK(d) /\ RunnerOK(d) /\ SaidOK(d) /\ ReportOK(d))'
    <2>1. FreshOK(d) /\ RunnerOK(d) /\ SaidOK(d) /\ ReportOK(d)
      BY DEF TestInvariant
    <2>2. FreshOK(d)'
      BY <1>1, <2>1 DEF FreshOK, Fresh
    <2>3. RunnerOK(d)'
      BY <2>1 DEF RunnerOK
    <2>4. SaidOK(d)'
      <3>1. CASE d = c
        <4>1. c \in case => case = {c}
          BY <1>1 DEF TestTypes
        <4>2. T!Name(c)' = T!Name(c) /\ (T!Stale(c)' <=> T!Stale(c))
          BY DEF T!Name, T!Stale
        <4> QED BY <2>1, <3>1, <4>1, <4>2 DEF SaidOK
      <3>2. CASE d # c
        BY <2>1, <3>2 DEF SaidOK, Said, T!Stale, T!Name
      <3> QED BY <3>1, <3>2
    <2>5. ReportOK(d)'
      BY <2>1 DEF ReportOK, T!Stale, T!Name
    <2> QED BY <2>2, <2>3, <2>4, <2>5
  <1> QED BY <1>3, <1>4, <1>5 DEF TestInvariant

LEMMA WithPos ==
    ASSUME NEW r \in Runners, NEW p \in Nat
    PROVE  /\ [r EXCEPT !.pos = p] \in Runners /\ [r EXCEPT !.pos = p].state = r.state
           /\ [r EXCEPT !.pos = p].file = r.file /\ [r EXCEPT !.pos = p].pos = p
  BY DEF Runners

LEMMA WithFile ==
    ASSUME NEW r \in Runners, NEW f \in Nat
    PROVE  /\ [r EXCEPT !.file = f, !.pos = 1] \in Runners
           /\ [r EXCEPT !.file = f, !.pos = 1].state = r.state
           /\ [r EXCEPT !.file = f, !.pos = 1].file = f
           /\ [r EXCEPT !.file = f, !.pos = 1].pos = 1
  BY DEF Runners

LEMMA SendResultKeeps ==
    ASSUME TestInvariant, NEW c \in Cases, T!SendResult(c)
    PROVE  TestInvariant'
  <1> DEFINE n == Len(Files[c.tag])
             f == runner[c].file
             p == runner[c].pos
             outcomes == Files[c.tag][f].outcomes
             i == daemon[T!Name(c)]
  <1>1. /\ T!Running(c) /\ f <= n /\ p <= Len(outcomes) /\ Len(channel[c]) < RoomInChannel
        /\ channel' = [channel EXCEPT ![c] = Append(@, [ok |-> outcomes[p], image |-> i])]
        /\ runner' = [runner EXCEPT ![c].pos = @ + 1]
        /\ UNCHANGED <<inputs, left, case, tested, failed, verdict, tstep, daemon, collected, report>>
    BY DEF T!SendResult, T!File, T!Result, T!loop
  <1>2. TestTypes /\ RunnerOK(c) /\ n \in Nat
    BY FilesAre DEF TestInvariant
  <1>3. f \in 1 .. n /\ p \in Nat \ {0}
    <2>1. runner[c].state # "none"
      BY <1>1 DEF T!Running
    <2>2. f \in 1 .. n + 1 /\ p \in Nat \ {0}
      BY <1>2, <2>1 DEF RunnerOK
    <2> HIDE DEF f, p, n
    <2> QED BY <1>1, <1>2, <2>2
  <1>4. outcomes \in Seq(BOOLEAN) /\ Upto(c, f) \in Seq(BOOLEAN)
    <2>1. f \in 1 .. Len(Files[c.tag]) + 1
      BY <1>2, <1>3
    <2>2. Upto(c, f) \in Seq(BOOLEAN)
      <3> HIDE DEF f
      <3> QED BY <2>1, UptoIs
    <2>3. outcomes \in Seq(BOOLEAN)
      <3> HIDE DEF f
      <3> QED BY <1>3, FilesAre
    <2> QED BY <2>2, <2>3
  <1> HIDE DEF outcomes, n
  <1>5. p \in 1 .. Len(outcomes) /\ outcomes[p] \in BOOLEAN
    BY <1>1, <1>3, <1>4, LenProperties
  <1>6. i \in Images /\ [ok |-> outcomes[p], image |-> i] \in Results
    <2>1. i \in Images
      BY <1>2, NamesAre DEF TestTypes
    <2> QED BY <1>5, <2>1 DEF Results
  <1>7. /\ runner' \in [Cases -> Runners]
        /\ \A d \in Cases \ {c} : runner'[d] = runner[d]
        /\ runner'[c].state = "running" /\ runner'[c].file = f /\ runner'[c].pos = p + 1
    <2>1. runner \in [Cases -> Runners] /\ runner[c] \in Runners /\ runner[c].state = "running"
      BY <1>1, <1>2 DEF TestTypes, T!Running
    <2>2. p + 1 \in Nat
      BY <1>3
    <2>3. PICK r : r = [runner[c] EXCEPT !.pos = p + 1]
      OBVIOUS
    <2>4. r \in Runners /\ r.state = "running" /\ r.file = f /\ r.pos = p + 1
      BY <2>1, <2>2, <2>3, WithPos
    <2>5. runner' = [runner EXCEPT ![c] = r]
      BY <1>1, <2>3
    <2> QED BY <2>1, <2>4, <2>5
  <1>8. /\ channel[c] \in Seq(Results) /\ Len(channel[c]) \in Nat /\ collected \in Seq(Results)
        /\ channel' \in [Cases -> Seq(Results)]
        /\ channel'[c] = Append(channel[c], [ok |-> outcomes[p], image |-> i])
        /\ \A d \in Cases \ {c} : channel'[d] = channel[d]
    BY <1>1, <1>2, <1>6 DEF TestTypes
  <1>9. Len(channel'[c]) <= RoomInChannel
    BY <1>1, <1>6, <1>8, JobsAssumption DEF JobsAssumption
  <1>10. RunnerOK(c)'
    <2>1. p + 1 \in Nat \ {0} /\ p + 1 <= Len(outcomes) + 1
      BY <1>4, <1>5, LenProperties
    <2>2. runner[c].state = "running"
      BY <1>1 DEF T!Running
    <2> QED BY <1>1, <1>2, <1>7, <2>1, <2>2 DEF RunnerOK, outcomes
  <1>11. Said(c)' = Append(Said(c), outcomes[p]) /\ Said(c) \in Seq(BOOLEAN)
    <2>1. Said(c) = Upto(c, f) \o SubSeq(outcomes, 1, p - 1)
      BY <1>1 DEF Said, outcomes, n
    <2>2. Said(c)' = Upto(c, f) \o SubSeq(outcomes, 1, p)
      <3>1. (p + 1) - 1 = p
        BY <1>3
      <3> QED BY <1>1, <1>7, <3>1 DEF Said, outcomes, n
    <2>3. /\ SubSeq(outcomes, 1, p) = Append(SubSeq(outcomes, 1, p - 1), outcomes[p])
          /\ SubSeq(outcomes, 1, p - 1) \in Seq(BOOLEAN)
      BY <1>4, <1>5, NextOfSubSeq
    <2> DEFINE u == Upto(c, f)
               v == SubSeq(outcomes, 1, p - 1)
               o == outcomes[p]
    <2>4. u \in Seq(BOOLEAN) /\ v \in Seq(BOOLEAN) /\ o \in BOOLEAN
      BY <1>4, <1>5, <2>3
    <2>5. Said(c) = u \o v /\ Said(c)' = u \o Append(v, o)
      BY <2>1, <2>2, <2>3
    <2> HIDE DEF u, v, o
    <2>6. u \o v \in Seq(BOOLEAN) /\ u \o Append(v, o) = Append(u \o v, o)
      BY <2>4, AppendToConcat
    <2>7. Said(c)' = Append(Said(c), o) /\ Said(c) \in Seq(BOOLEAN)
      BY <2>5, <2>6
    <2> QED BY <2>7 DEF o
  <1>12. ASSUME SaidOK(c), case = {c}, tstep \in {"create", "collect"}
         PROVE  collected \o channel'[c] = Made(Said(c)', i)
    <2>1. collected \o channel[c] = Made(Said(c), i)
      BY <1>12 DEF SaidOK
    <2>2. collected \o channel'[c] = Append(Made(Said(c), i), [ok |-> outcomes[p], image |-> i])
      <3> DEFINE r == [ok |-> outcomes[p], image |-> i]
                 w == channel[c]
      <3>1. r \in Results /\ w \in Seq(Results) /\ collected \in Seq(Results)
        BY <1>6, <1>8
      <3> HIDE DEF r, w
      <3>2. collected \o Append(w, r) = Append(collected \o w, r)
        BY <3>1, AppendToConcat
      <3> QED BY <1>8, <2>1, <3>2 DEF r, w
    <2> HIDE DEF i
    <2> QED BY <1>5, <1>11, <2>2, MadeAppend
  <1> QED BY <1>1, <1>7, <1>8, <1>9, <1>10, <1>12, GoroutineKeeps

LEMMA NextFileKeeps ==
    ASSUME TestInvariant, NEW c \in Cases, T!NextFile(c)
    PROVE  TestInvariant'
  <1> DEFINE n == Len(Files[c.tag])
             f == runner[c].file
             p == runner[c].pos
             outcomes == Files[c.tag][f].outcomes
  <1>1. /\ T!Running(c) /\ f <= n /\ p > Len(outcomes)
        /\ runner' = [runner EXCEPT ![c].file = @ + 1, ![c].pos = 1]
        /\ UNCHANGED <<inputs, left, case, tested, failed, verdict, tstep, daemon, channel,
                       collected, report>>
    BY DEF T!NextFile, T!File, T!loop
  <1>2. TestTypes /\ RunnerOK(c) /\ n \in Nat
    BY FilesAre DEF TestInvariant
  <1>3. f \in 1 .. n /\ p \in Nat \ {0} /\ p <= Len(outcomes) + 1 /\ runner[c].state = "running"
    BY <1>1, <1>2 DEF RunnerOK, T!Running
  <1>4. outcomes \in Seq(BOOLEAN) /\ Len(outcomes) \in Nat
    BY <1>3, FilesAre, LenProperties
  <1>5. /\ Upto(c, f) \in Seq(BOOLEAN) /\ Upto(c, f + 1) \in Seq(BOOLEAN)
        /\ Upto(c, f + 1) = Upto(c, f) \o outcomes
    <2>1. f \in 1 .. n + 1 /\ f + 1 \in 1 .. n + 1
      BY <1>2, <1>3
    <2> HIDE DEF f
    <2> QED BY <1>3, <2>1, UptoIs
  <1>6. f + 1 <= n => Files[c.tag][f + 1].outcomes \in Seq(BOOLEAN)
    <2>1. f + 1 <= n => f + 1 \in 1 .. n
      BY <1>2, <1>3
    <2> QED BY <2>1, FilesAre
  <1>7. /\ runner' \in [Cases -> Runners]
        /\ \A d \in Cases \ {c} : runner'[d] = runner[d]
        /\ runner'[c].state = "running" /\ runner'[c].file = f + 1 /\ runner'[c].pos = 1
    <2>1. runner \in [Cases -> Runners] /\ runner[c] \in Runners /\ runner[c].state = "running"
      BY <1>1, <1>2 DEF TestTypes, T!Running
    <2>2. f + 1 \in Nat
      BY <1>2, <1>3
    <2>3. PICK r : r = [runner[c] EXCEPT !.file = f + 1, !.pos = 1]
      OBVIOUS
    <2>4. r \in Runners /\ r.state = "running" /\ r.file = f + 1 /\ r.pos = 1
      BY <2>1, <2>2, <2>3, WithFile
    <2>5. runner' = [runner EXCEPT ![c] = r]
      BY <1>1, <2>3
    <2> QED BY <2>1, <2>4, <2>5
  <1> HIDE DEF outcomes, n
  <1>8. RunnerOK(c)'
    <2>1. f + 1 \in 1 .. n + 1
      BY <1>2, <1>3
    <2>2. f + 1 <= n => 1 <= Len(Files[c.tag][f + 1].outcomes) + 1
      BY <1>6, LenProperties
    <2> QED BY <1>1, <1>2, <1>3, <1>7, <2>1, <2>2 DEF RunnerOK, n
  <1>9. Said(c)' = Said(c)
    <2>1. Said(c)' = Upto(c, f + 1)
      <3>1. f + 1 <= n => SubSeq(Files[c.tag][f + 1].outcomes, 1, 1 - 1) = << >>
        BY <1>6
      <3>2. Said(c)' = Upto(c, f + 1) \o << >>
        BY <1>1, <1>7, <3>1 DEF Said, n
      <3> QED BY <1>5, <3>2, ConcatEmptySeq
    <2>2. Said(c) = Upto(c, f) \o SubSeq(outcomes, 1, p - 1)
      BY <1>1 DEF Said, outcomes, n
    <2>3. p - 1 = Len(outcomes) /\ SubSeq(outcomes, 1, Len(outcomes)) = outcomes
      BY <1>1, <1>3, <1>4
    <2> QED BY <1>5, <2>1, <2>2, <2>3
  <1>10. channel'[c] = channel[c] /\ Len(channel'[c]) <= RoomInChannel /\ channel' \in [Cases -> Seq(Results)]
    BY <1>1, <1>2 DEF TestTypes
  <1>11. SaidOK(c) /\ case = {c} /\ tstep \in {"create", "collect"} =>
            collected \o channel'[c] = Made(Said(c)', daemon[T!Name(c)])
    BY <1>9, <1>10 DEF SaidOK
  <1> QED BY <1>1, <1>7, <1>8, <1>10, <1>11, GoroutineKeeps

LEMMA CloseChannelKeeps ==
    ASSUME TestInvariant, NEW c \in Cases, T!CloseChannel(c)
    PROVE  TestInvariant'
  <1>1. /\ T!Running(c) /\ runner[c].file > Len(Files[c.tag])
        /\ runner' = [runner EXCEPT ![c].state = "closed"]
        /\ UNCHANGED <<inputs, left, case, tested, failed, verdict, tstep, daemon, channel,
                       collected, report>>
    BY DEF T!CloseChannel, T!loop
  <1>2. TestTypes /\ RunnerOK(c) /\ Len(Files[c.tag]) \in Nat
    BY FilesAre DEF TestInvariant
  <1>3. runner[c].file = Len(Files[c.tag]) + 1
    BY <1>1, <1>2 DEF RunnerOK, T!Running
  <1>4. /\ runner' \in [Cases -> Runners]
        /\ \A d \in Cases \ {c} : runner'[d] = runner[d]
        /\ runner'[c].state = "closed"
        /\ runner'[c].file = runner[c].file /\ runner'[c].pos = runner[c].pos
    BY <1>1, <1>2 DEF TestTypes, Runners
  <1>5. RunnerOK(c)'
    BY <1>1, <1>2, <1>3, <1>4 DEF RunnerOK, T!Running
  <1>6. Said(c)' = Said(c)
    BY <1>4 DEF Said
  <1>7. channel'[c] = channel[c] /\ Len(channel'[c]) <= RoomInChannel /\ channel' \in [Cases -> Seq(Results)]
    BY <1>1, <1>2 DEF TestTypes
  <1>8. SaidOK(c) /\ case = {c} /\ tstep \in {"create", "collect"} =>
            collected \o channel'[c] = Made(Said(c)', daemon[T!Name(c)])
    BY <1>6, <1>7 DEF SaidOK
  <1> QED BY <1>1, <1>4, <1>5, <1>7, <1>8, GoroutineKeeps

LEMMA TestStep ==
    ASSUME TestInvariant, T!Next
    PROVE  TestInvariant'
  BY CancelKeeps, AllTestedKeeps, NextCaseKeeps, LoadImageKeeps, CreateReportKeeps, ReceiveKeeps,
     WriteReportKeeps, SendResultKeeps, PanicKeeps, NextFileKeeps, CloseChannelKeeps
     DEF T!Next, T!Command, T!Goroutine

LEMMA TestKept ==
    ASSUME TestInvariant, UNCHANGED testVars
    PROVE  TestInvariant'
  <1>1. UNCHANGED <<inputs, left, case, tested, failed, verdict, tstep, daemon, runner, channel,
                    collected, report>>
    BY DEF testVars
  <1> QED BY <1>1, TestStays

\* The invariant says that the reports are whole and every case is judged.
LEMMA TestsAreJudged ==
    ASSUME TestInvariant
    PROVE  T!TestsJudgeImages
  <1>1. TestTypes /\ CountOK
    BY DEF TestInvariant
  <1>2. T!TypeOK
    <2>1. T!Cardinality(case) <= 1
      <3>1. Cardinality({}) = 0 /\ \A c : Cardinality({c}) = 1
        BY FS_EmptySet, FS_Singleton
      <3>2. Cardinality(case) \in {0, 1}
        BY <1>1, <3>1 DEF TestTypes
      <3> QED BY <3>2, SameCardinality
    <2> QED BY <1>1, <2>1 DEF TestTypes, T!TypeOK
  <1>3. T!ReportsAreWhole
    <2> SUFFICES ASSUME NEW c \in Cases, NEW results \in report[c]
                 PROVE  T!Stale(c) \/ results = T!Expected(c)
      BY DEF T!ReportsAreWhole
    <2>1. PICK i : results = Made(All(c), i) /\ (i = c.platform \/ T!Stale(c))
      BY DEF TestInvariant, ReportOK
    <2> QED BY <2>1, ExpectedIs
  <1>4. T!EveryCaseIsJudged
    <2>1. ASSUME verdict \in {"ok", "failed"}
          PROVE  /\ left = {} /\ tested = T!Cardinality(T!ToTest)
                 /\ failed = T!Cardinality({c \in T!ToTest : report[c] = {} \/ ~ T!Passes(c)})
      <3>1. left = {} /\ Open = {}
        BY <1>1, <2>1 DEF CountOK, TestTypes, Open
      <3>2. T!ToTest \ left = T!ToTest
        BY <3>1
      <3>3. Failed = {c \in T!ToTest : report[c] = {} \/ ~ T!Passes(c)}
        BY <3>1 DEF Failed
      <3> QED BY <1>1, <2>1, <3>1, <3>2, <3>3, SameCardinality DEF CountOK
    <2>2. ASSUME NEW c \in Cases, T!Running(c), c \notin case
          PROVE  c \in inputs.broken
      BY <2>2 DEF TestInvariant, RunnerOK, T!Running
    <2> QED BY <1>1, <2>1, <2>2 DEF T!EveryCaseIsJudged, CountOK
  <1> QED BY <1>2, <1>3, <1>4 DEF T!TestsJudgeImages
-----------------------------------------------------------------------------
(* Solve: the display of one solve.                                        *)

LEMMA SameFlatten ==
    ASSUME NEW s
    PROVE  P!FlattenSeq(s) = T!FlattenSeq(s)
  BY DEF P!FlattenSeq, T!FlattenSeq

\* Any bytes; that the line end is a string the provers do not know.
Bytes == STRING \cup {P!EndOfLine}

LEMMA LineEnds == P!EndOfLine = "n" /\ "n" \in Bytes
  BY DEF Bytes, P!EndOfLine

LEMMA BytesConcat ==
    \A a, b, d \in Seq(Bytes) : (a \o b) \o d = a \o (b \o d) /\ a \o b \in Seq(Bytes)
  <1>1. ASSUME NEW a \in Seq(Bytes), NEW b \in Seq(Bytes), NEW d \in Seq(Bytes)
        PROVE  (a \o b) \o d = a \o (b \o d)
    OBVIOUS
  <1>2. ASSUME NEW a \in Seq(Bytes), NEW b \in Seq(Bytes) PROVE a \o b \in Seq(Bytes)
    OBVIOUS
  <1> QED BY <1>1, <1>2

LEMMA BytesRegroup ==
    \A a, b, d \in Seq(Bytes) : a \o (b \o d) = (a \o b) \o d
  BY BytesConcat

\* The last end of a line, or 0.
LastEnd(s) == P!SelectLastInSeq(s, LAMBDA c : c = P!EndOfLine)

LEMMA LastEndIs ==
    ASSUME NEW s \in Seq(Bytes), NEW e \in 0 .. Len(s),
           e # 0 => s[e] = "n", \A k \in e + 1 .. Len(s) : s[k] # "n"
    PROVE  LastEnd(s) = e
  <1> DEFINE I == {k \in 1 .. Len(s) : s[k] = "n"}
  <1>1. LastEnd(s) = IF I # {} THEN P!Max(I) ELSE 0
    BY DEF LastEnd, P!SelectLastInSeq, P!EndOfLine
  <1>2. Len(s) \in Nat
    BY LenProperties
  <1>3. CASE e = 0
    <2>1. I = {}
      BY <1>2, <1>3
    <2> QED BY <1>1, <1>3, <2>1
  <1>4. CASE e # 0
    <2>1. e \in I /\ \A k \in I : e >= k
      BY <1>2, <1>4
    <2>2. \A k \in I : (\A j \in I : k >= j) => k = e
      BY <2>1, <1>2
    <2>3. P!Max(I) = e
      <3> HIDE DEF I
      <3> QED BY <2>1, <2>2 DEF P!Max
    <2> QED BY <1>1, <2>1, <2>3
  <1> QED BY <1>3, <1>4

LEMMA LastEndExists ==
    ASSUME NEW s \in Seq(Bytes)
    PROVE  \E e \in 0 .. Len(s) :
              /\ e # 0 => s[e] = "n"
              /\ \A k \in e + 1 .. Len(s) : s[k] # "n"
  <1> DEFINE N == {d \in 0 .. Len(s) : d = Len(s) \/ s[Len(s) - d] = "n"}
  <1>1. Len(s) \in Nat
    BY LenProperties
  <1>2. N \in SUBSET Nat /\ N # {}
    <2>1. Len(s) \in N
      BY <1>1
    <2> QED BY <1>1, <2>1
  <1>3. PICK d \in N : \A k \in N : d <= k
    <2> HIDE DEF N
    <2> QED BY <1>2, LeastNumber
  <1>4. Len(s) - d \in 0 .. Len(s)
    BY <1>1
  <1>5. ASSUME NEW k \in (Len(s) - d) + 1 .. Len(s)
        PROVE  s[k] # "n"
    <2>1. Len(s) - k \in 0 .. Len(s) /\ ~ (d <= Len(s) - k) /\ Len(s) - (Len(s) - k) = k
      BY <1>1, <1>4
    <2>2. Len(s) - k \notin N
      <3> HIDE DEF N
      <3> QED BY <1>3, <2>1
    <2> QED BY <2>1, <2>2
  <1>6. Len(s) - d # 0 => s[Len(s) - d] = "n"
    BY <1>1
  <1> QED BY <1>4, <1>5, <1>6

\* What is left when one more byte arrives.
LEMMA RestIs ==
    ASSUME NEW s \in Seq(Bytes), NEW x \in Bytes
    PROVE  /\ P!Rest(s) \in Seq(Bytes)
           /\ x = "n" => P!Rest(Append(s, x)) = << >>
           /\ x # "n" => P!Rest(Append(s, x)) = Append(P!Rest(s), x)
  <1>1. \A t : P!Rest(t) = SubSeq(t, 1 + LastEnd(t), Len(t))
    BY DEF P!Rest, LastEnd
  <1>2. PICK e \in 0 .. Len(s) :
           /\ e # 0 => s[e] = "n"
           /\ \A k \in e + 1 .. Len(s) : s[k] # "n"
    BY LastEndExists
  <1>3. PICK t : /\ t = Append(s, x)
                 /\ t \in Seq(Bytes) /\ Len(t) = Len(s) + 1 /\ t[Len(s) + 1] = x
                 /\ \A k \in 1 .. Len(s) : t[k] = s[k]
                 /\ Len(s) \in Nat
    BY AppendIs, Zenon
  <1>4. LastEnd(s) = e
    BY <1>2, LastEndIs
  <1>5. P!Rest(s) = SubSeq(s, 1 + e, Len(s)) /\ SubSeq(s, 1 + e, Len(s)) \in Seq(Bytes)
    BY <1>1, <1>4, SubSeqTypes
  <1>6. SubSeq(t, 1 + e, Len(s) + 1) = Append(SubSeq(s, 1 + e, Len(s)), x)
    BY <1>3, SubSeqOfAppend
  <1>7. ASSUME x = "n" PROVE P!Rest(t) = << >>
    <2>1. /\ Len(t) \in 0 .. Len(t) /\ t[Len(t)] = "n"
          /\ \A k \in Len(t) + 1 .. Len(t) : t[k] # "n"
      BY <1>3, <1>7
    <2>2. LastEnd(t) = Len(t)
      BY <1>3, <2>1, LastEndIs
    <2>3. SubSeq(t, 1 + Len(t), Len(t)) = << >>
      BY <1>3, <2>1, SubSeqTypes
    <2> QED BY <1>1, <2>2, <2>3
  <1>8. ASSUME x # "n" PROVE P!Rest(t) = Append(P!Rest(s), x)
    <2>1. e \in 0 .. Len(t) /\ (e # 0 => t[e] = "n")
      BY <1>2, <1>3
    <2>2. \A k \in e + 1 .. Len(t) : t[k] # "n"
      BY <1>2, <1>3, <1>8
    <2>3. LastEnd(t) = e
      BY <1>3, <2>1, <2>2, LastEndIs
    <2>4. P!Rest(t) = SubSeq(t, 1 + e, Len(s) + 1)
      BY <1>1, <1>3, <2>3
    <2> QED BY <1>5, <1>6, <2>4
  <1> QED BY <1>5, <1>7, <1>8, <1>3

LEMMA RestOfNothing == P!Rest(<< >>) = << >>
  <1>1. << >> \in Seq(Bytes) /\ Len(<< >>) = 0
    BY EmptyIsSeq
  <1>2. 0 \in 0 .. Len(<< >>) /\ \A k \in 0 + 1 .. Len(<< >>) : << >>[k] # "n"
    BY <1>1
  <1>3. LastEnd(<< >>) = 0
    BY <1>1, <1>2, LastEndIs
  <1>4. P!Rest(<< >>) = SubSeq(<< >>, 1 + LastEnd(<< >>), Len(<< >>))
    BY DEF P!Rest, LastEnd
  <1> QED BY <1>1, <1>3, <1>4, SubSeqTypes

\* What a display prints, a sequence of such lines.
LogLines == {"log"} \X Seq(Bytes)
MidLines == LogLines \cup ({"status"} \X {"begin", "end"})
FinalLines == {"final"} \X P!Completed
ScreenLines == MidLines \cup FinalLines \cup {P!Header}

LEMMA LinesAre ==
    /\ \A line \in ScreenLines : P!LogBytes(line) \in Seq(Bytes)
    /\ \A bytes \in Seq(Bytes) : /\ <<"log", bytes>> \in LogLines
                                  /\ P!LogBytes(<<"log", bytes>>) = bytes \o <<"n">>
    /\ \A line \in ScreenLines \ LogLines : P!LogBytes(line) = << >>
    /\ \A line \in MidLines : line # P!Header /\ line \notin FinalLines
    /\ \A line \in ScreenLines : line[1] = "final" <=> line \in FinalLines
    /\ P!Header \notin FinalLines
  <1>1. "n" \in Bytes
    BY LineEnds
  <1>2. \A bytes \in Seq(Bytes) : bytes \o <<"n">> \in Seq(Bytes)
    BY <1>1
  <1>3. \A line \in LogLines : /\ line[1] = "log" /\ line[2] \in Seq(Bytes)
                               /\ P!LogBytes(line) = line[2] \o <<"n">>
    BY DEF LogLines, P!LogBytes, P!EndOfLine
  <1>4. \A line \in MidLines \ LogLines : line[1] = "status" /\ P!LogBytes(line) = << >>
    BY DEF MidLines, P!LogBytes
  <1>5. \A line \in FinalLines : line[1] = "final" /\ P!LogBytes(line) = << >>
    BY DEF FinalLines, P!LogBytes
  <1>6. P!Header[1] = "header" /\ P!LogBytes(P!Header) = << >>
    BY DEF P!Header, P!LogBytes
  <1>7. << >> \in Seq(Bytes)
    OBVIOUS
  <1>8. \A bytes \in Seq(Bytes) : /\ <<"log", bytes>> \in LogLines
                                   /\ P!LogBytes(<<"log", bytes>>) = bytes \o <<"n">>
    BY DEF LogLines, P!LogBytes, P!EndOfLine
  <1>9. \A line \in ScreenLines : line \in LogLines \/ line \in MidLines \ LogLines
                                     \/ line \in FinalLines \/ line = P!Header
    BY DEF ScreenLines
  <1>10. \A line \in ScreenLines : P!LogBytes(line) \in Seq(Bytes)
    BY <1>2, <1>3, <1>4, <1>5, <1>6, <1>7, <1>9
  <1>11. \A line \in ScreenLines \ LogLines : P!LogBytes(line) = << >>
    BY <1>4, <1>5, <1>6, <1>9
  <1>12. \A line \in MidLines : line[1] \in {"log", "status"}
    BY <1>3, <1>4
  <1>13. \A line \in MidLines : line # P!Header /\ line \notin FinalLines
    BY <1>5, <1>6, <1>12
  <1>14. \A line \in ScreenLines : line[1] = "final" <=> line \in FinalLines
    BY <1>3, <1>4, <1>5, <1>6, <1>9
  <1> QED BY <1>5, <1>6, <1>8, <1>10, <1>11, <1>13, <1>14

\* The log bytes of lines.
Shown(lines) == T!FlattenSeq([k \in DOMAIN lines |-> P!LogBytes(lines[k])])

LEMMA ConcatIs ==
    ASSUME NEW C, NEW f \in Seq(C), NEW g \in Seq(C), NEW h \in Seq(C),
           Len(h) = Len(f) + Len(g),
           \A i \in 1 .. Len(h) : h[i] = IF i <= Len(f) THEN f[i] ELSE g[i - Len(f)]
    PROVE  h = f \o g
  <1>1. /\ f \o g \in Seq(C) /\ Len(f \o g) = Len(f) + Len(g)
        /\ \A i \in 1 .. Len(f) + Len(g) :
              (f \o g)[i] = IF i <= Len(f) THEN f[i] ELSE g[i - Len(f)]
    BY ConcatProperties
  <1>2. \A i \in 1 .. Len(h) : h[i] = (f \o g)[i]
    BY <1>1
  <1> QED BY <1>1, <1>2, SeqEqual

LEMMA BytesType ==
    ASSUME NEW s \in Seq(ScreenLines)
    PROVE  /\ [k \in DOMAIN s |-> P!LogBytes(s[k])] \in Seq(Seq(Bytes))
           /\ Len([k \in DOMAIN s |-> P!LogBytes(s[k])]) = Len(s)
  <1>1. \A k \in DOMAIN s : P!LogBytes(s[k]) \in Seq(Bytes)
    BY LinesAre
  <1>2. Len(s) \in Nat /\ DOMAIN s = 1 .. Len(s)
    BY LenProperties
  <1>3. [k \in DOMAIN s |-> P!LogBytes(s[k])] \in [1 .. Len(s) -> Seq(Bytes)]
    BY <1>1, <1>2
  <1> QED BY <1>2, <1>3, FunctionIsSeq

LEMMA ShownConcat ==
    ASSUME NEW s \in Seq(ScreenLines), NEW t \in Seq(ScreenLines)
    PROVE  /\ Shown(s \o t) = Shown(s) \o Shown(t)
           /\ Shown(s) \in Seq(Bytes)
  <1> DEFINE f == [k \in DOMAIN s |-> P!LogBytes(s[k])]
             g == [k \in DOMAIN t |-> P!LogBytes(t[k])]
             h == [k \in DOMAIN (s \o t) |-> P!LogBytes((s \o t)[k])]
  <1>1. /\ Len(s) \in Nat /\ DOMAIN s = 1 .. Len(s)
        /\ Len(t) \in Nat /\ DOMAIN t = 1 .. Len(t)
    BY LenProperties
  <1>2. /\ s \o t \in Seq(ScreenLines) /\ Len(s \o t) = Len(s) + Len(t)
        /\ \A i \in 1 .. Len(s) + Len(t) :
              (s \o t)[i] = IF i <= Len(s) THEN s[i] ELSE t[i - Len(s)]
        /\ DOMAIN (s \o t) = 1 .. Len(s) + Len(t)
    BY ConcatProperties, LenProperties
  <1>3. /\ f \in Seq(Seq(Bytes)) /\ g \in Seq(Seq(Bytes)) /\ h \in Seq(Seq(Bytes))
        /\ Len(f) = Len(s) /\ Len(g) = Len(t) /\ Len(h) = Len(s) + Len(t)
    BY <1>2, BytesType
  <1>4. /\ \A k \in 1 .. Len(s) : f[k] = P!LogBytes(s[k])
        /\ \A k \in 1 .. Len(t) : g[k] = P!LogBytes(t[k])
        /\ \A k \in 1 .. Len(s) + Len(t) :
              h[k] = P!LogBytes(IF k <= Len(s) THEN s[k] ELSE t[k - Len(s)])
    BY <1>1, <1>2
  <1>5. Shown(s) = T!FlattenSeq(f) /\ Shown(t) = T!FlattenSeq(g) /\ Shown(s \o t) = T!FlattenSeq(h)
    BY DEF Shown
  <1> HIDE DEF f, g, h
  <1>6. h = f \o g
    <2>1. ASSUME NEW i \in 1 .. Len(h)
          PROVE  h[i] = IF i <= Len(f) THEN f[i] ELSE g[i - Len(f)]
      <3>1. i \in 1 .. Len(s) + Len(t)
        BY <1>3
      <3>2. CASE i <= Len(s)
        <4>1. i \in 1 .. Len(s)
          BY <1>1, <3>1, <3>2
        <4> QED BY <1>3, <1>4, <3>1, <3>2, <4>1
      <3>3. CASE ~ (i <= Len(s))
        <4>1. i - Len(s) \in 1 .. Len(t)
          BY <1>1, <3>1, <3>3
        <4> QED BY <1>3, <1>4, <3>1, <3>3, <4>1
      <3> QED BY <3>2, <3>3
    <2>2. PICK C : C = Seq(Bytes)
      OBVIOUS
    <2>3. /\ f \in Seq(C) /\ g \in Seq(C) /\ h \in Seq(C) /\ Len(h) = Len(f) + Len(g)
      BY <1>3, <2>2
    <2> QED BY <2>1, <2>3, ConcatIs
  <1>7. T!FlattenSeq(f \o g) = T!FlattenSeq(f) \o T!FlattenSeq(g)
    BY <1>3, FlattenConcat DEF Parts
  <1>8. T!FlattenSeq(f) \in Seq(Bytes)
    BY <1>3, FlattenType
  <1> QED BY <1>5, <1>6, <1>7, <1>8

LEMMA ShownOne ==
    /\ Shown(<< >>) = << >>
    /\ \A line \in ScreenLines : Shown(<<line>>) = P!LogBytes(line)
  <1>1. << >> \in Seq(Seq(Bytes))
    OBVIOUS
  <1>2. T!FlattenSeq(<< >>) = << >>
    BY <1>1, FlattenType
  <1>3. Shown(<< >>) = << >>
    <2>1. [k \in DOMAIN << >> |-> P!LogBytes(<< >>[k])] = << >>
      OBVIOUS
    <2> QED BY <1>2, <2>1 DEF Shown
  <1>4. ASSUME NEW line \in ScreenLines PROVE Shown(<<line>>) = P!LogBytes(line)
    <2>1. P!LogBytes(line) \in Seq(Bytes)
      BY LinesAre
    <2>2. [k \in DOMAIN <<line>> |-> P!LogBytes(<<line>>[k])] = Append(<< >>, P!LogBytes(line))
      OBVIOUS
    <2>3. T!FlattenSeq(Append(<< >>, P!LogBytes(line))) = << >> \o P!LogBytes(line)
      BY <1>1, <1>2, <2>1, FlattenAppend
    <2>4. << >> \o P!LogBytes(line) = P!LogBytes(line)
      BY <2>1, ConcatEmptySeq
    <2> QED BY <2>2, <2>3, <2>4 DEF Shown
  <1> QED BY <1>3, <1>4

\* The whole lines of a log, one for each of its line ends.
Ends(s) == [k \in DOMAIN s |-> P!If(s[k] = "n", <<"log", P!Rest(SubSeq(s, 1, k - 1))>>)]

LEMMA EndsAre ==
    ASSUME NEW s \in Seq(Bytes)
    PROVE  /\ Ends(s) \in Seq(Seq(LogLines)) /\ Len(Ends(s)) = Len(s)
           /\ P!WholeLines(s) = T!FlattenSeq(Ends(s))
           /\ P!WholeLines(s) \in Seq(LogLines)
  <1>1. Len(s) \in Nat /\ DOMAIN s = 1 .. Len(s)
    BY LenProperties
  <1>2. ASSUME NEW k \in DOMAIN s
        PROVE  P!If(s[k] = "n", <<"log", P!Rest(SubSeq(s, 1, k - 1))>>) \in Seq(LogLines)
    <2>1. k - 1 \in 0 .. Len(s)
      BY <1>1
    <2>2. SubSeq(s, 1, k - 1) \in Seq(Bytes)
      BY <2>1, SubSeqTypes
    <2>3. P!Rest(SubSeq(s, 1, k - 1)) \in Seq(Bytes)
      BY <2>2, RestIs, LineEnds
    <2>4. <<"log", P!Rest(SubSeq(s, 1, k - 1))>> \in LogLines
      BY <2>3, LinesAre
    <2> QED BY <2>4 DEF P!If
  <1>3. Ends(s) \in [1 .. Len(s) -> Seq(LogLines)]
    BY <1>1, <1>2 DEF Ends
  <1>4. Ends(s) \in Seq(Seq(LogLines)) /\ Len(Ends(s)) = Len(s)
    BY <1>1, <1>3, FunctionIsSeq
  <1>5. P!WholeLines(s) = T!FlattenSeq(Ends(s))
    BY SameFlatten DEF P!WholeLines, Ends, P!EndOfLine
  <1> QED BY <1>4, <1>5, FlattenType

LEMMA WholeLinesGrow ==
    ASSUME NEW s \in Seq(Bytes), NEW x \in Bytes
    PROVE  P!WholeLines(Append(s, x)) = P!WholeLines(s) \o P!If(x = "n", <<"log", P!Rest(s)>>)
  <1> DEFINE line == P!If(x = "n", <<"log", P!Rest(s)>>)
  <1>1. PICK t : /\ t = Append(s, x)
                 /\ t \in Seq(Bytes) /\ Len(t) = Len(s) + 1 /\ t[Len(s) + 1] = x
                 /\ \A k \in 1 .. Len(s) : t[k] = s[k]
                 /\ Len(s) \in Nat
    BY AppendIs, Zenon
  <1>2. DOMAIN s = 1 .. Len(s) /\ DOMAIN t = 1 .. Len(s) + 1
    BY <1>1, LenProperties
  <1>3. line \in Seq(LogLines)
    <2>1. <<"log", P!Rest(s)>> \in LogLines
      BY RestIs, LineEnds, LinesAre
    <2> QED BY <2>1 DEF P!If
  <1>4. PICK C : C = Seq(LogLines)
    OBVIOUS
  <1>5. Ends(s) \in Seq(C) /\ Ends(t) \in Seq(C) /\ Len(Ends(s)) = Len(s) /\ Len(Ends(t)) = Len(s) + 1
    BY <1>1, <1>4, EndsAre
  <1>6. /\ Append(Ends(s), line) \in Seq(C)
        /\ Len(Append(Ends(s), line)) = Len(s) + 1
        /\ Append(Ends(s), line)[Len(s) + 1] = line
        /\ \A k \in 1 .. Len(s) : Append(Ends(s), line)[k] = Ends(s)[k]
    <2> HIDE DEF line
    <2> QED BY <1>3, <1>4, <1>5, AppendProperties
  <1>7. ASSUME NEW k \in 1 .. Len(s) + 1
        PROVE  Ends(t)[k] = Append(Ends(s), line)[k]
    <2>1. Ends(t)[k] = P!If(t[k] = "n", <<"log", P!Rest(SubSeq(t, 1, k - 1))>>)
      BY <1>2 DEF Ends
    <2>2. k - 1 \in 0 .. Len(s)
      BY <1>1
    <2>3. SubSeq(t, 1, k - 1) = SubSeq(s, 1, k - 1)
      BY <1>1, <2>2, PrefixOfAppend
    <2>4. CASE k = Len(s) + 1
      <3>1. k - 1 = Len(s)
        BY <1>1, <2>4
      <3>2. SubSeq(s, 1, Len(s)) = s
        BY <1>1, SubSeqTypes
      <3> QED BY <1>1, <1>6, <2>1, <2>3, <2>4, <3>1, <3>2
    <2>5. CASE k # Len(s) + 1
      <3>1. k \in 1 .. Len(s)
        BY <1>1, <2>5
      <3>2. Ends(s)[k] = P!If(s[k] = "n", <<"log", P!Rest(SubSeq(s, 1, k - 1))>>)
        BY <1>2, <3>1 DEF Ends
      <3> QED BY <1>1, <1>6, <2>1, <2>3, <3>1, <3>2
    <2> QED BY <2>4, <2>5
  <1>8. Ends(t) = Append(Ends(s), line)
    <2> HIDE DEF line
    <2> QED BY <1>5, <1>6, <1>7, SeqEqual
  <1>9. T!FlattenSeq(Append(Ends(s), line)) = T!FlattenSeq(Ends(s)) \o line
    <2> HIDE DEF line
    <2> QED BY <1>3, EndsAre, FlattenAppend
  <1>10. P!WholeLines(t) = T!FlattenSeq(Ends(t)) /\ P!WholeLines(s) = T!FlattenSeq(Ends(s))
    BY <1>1, EndsAre
  <1> QED BY <1>1, <1>8, <1>9, <1>10

LEMMA NoLines == P!WholeLines(<< >>) = << >>
  <1>1. << >> \in Seq(Bytes)
    BY EmptyIsSeq
  <1>2. Ends(<< >>) = << >>
    BY DEF Ends
  <1>3. T!FlattenSeq(<< >>) = << >>
    BY EmptyIsSeq, FlattenType
  <1> QED BY <1>1, <1>2, <1>3, EndsAre

\* No byte is lost: what is printed and what remains are what there was.
LEMMA LinesHoldAll ==
    ASSUME NEW s \in Seq(Bytes)
    PROVE  /\ P!WholeLines(s) \in Seq(LogLines)
           /\ P!Rest(s) \in Seq(Bytes)
           /\ Shown(P!WholeLines(s)) \in Seq(Bytes)
           /\ Shown(P!WholeLines(s)) \o P!Rest(s) = s
  <1>1. \A t \in Seq(LogLines) : t \in Seq(ScreenLines)
    BY DEF ScreenLines, MidLines
  <1>2. \A t \in Seq(Bytes) : /\ P!WholeLines(t) \in Seq(ScreenLines)
                              /\ Shown(P!WholeLines(t)) \in Seq(Bytes)
                              /\ P!Rest(t) \in Seq(Bytes)
    BY <1>1, EndsAre, ShownConcat, RestIs, LineEnds
  <1> DEFINE Fine(t) == Shown(P!WholeLines(t)) \o P!Rest(t) = t
             N == {n \in 0 .. Len(s) : ~ Fine(SubSeq(s, 1, n))}
  <1>3. Len(s) \in Nat
    BY LenProperties
  <1>4. ASSUME N # {} PROVE FALSE
    <2>1. PICK n \in N : \A m \in N : n <= m
      <3>1. N \in SUBSET Nat
        OBVIOUS
      <3> HIDE DEF N
      <3> QED BY <1>4, <3>1, LeastNumber
    <2>2. n \in 0 .. Len(s) /\ ~ Fine(SubSeq(s, 1, n))
      OBVIOUS
    <2>3. CASE n = 0
      <3>1. SubSeq(s, 1, 0) = << >>
        BY SubSeqEmpty
      <3>2. << >> \o << >> = << >>
        BY EmptyIsSeq, ConcatEmptySeq
      <3>3. Fine(<< >>)
        BY <3>2, NoLines, ShownOne, RestOfNothing
      <3> HIDE DEF Fine
      <3> QED BY <2>2, <2>3, <3>1, <3>3
    <2>4. CASE n # 0
      <3>1. n \in 1 .. Len(s) /\ n - 1 \in 0 .. Len(s) /\ ~ (n <= n - 1)
        BY <1>3, <2>2, <2>4
      <3>2. n - 1 \notin N
        <4> HIDE DEF N
        <4> QED BY <2>1, <3>1
      <3>3. PICK p : p = SubSeq(s, 1, n - 1)
        OBVIOUS
      <3>4. PICK x : x = s[n]
        OBVIOUS
      <3>5. p \in Seq(Bytes) /\ x \in Bytes /\ SubSeq(s, 1, n) = Append(p, x)
        BY <3>1, <3>3, <3>4, PrefixGrows
      <3>6. Fine(p)
        BY <3>1, <3>2, <3>3
      <3>7. P!WholeLines(Append(p, x)) = P!WholeLines(p) \o P!If(x = "n", <<"log", P!Rest(p)>>)
        BY <3>5, WholeLinesGrow
      <3>8. PICK w : w = P!WholeLines(p)
        OBVIOUS
      <3>9. PICK r : r = P!Rest(p)
        OBVIOUS
      <3>10. /\ w \in Seq(ScreenLines) /\ Shown(w) \in Seq(Bytes) /\ r \in Seq(Bytes)
             /\ Shown(w) \o r = p
        BY <1>2, <3>5, <3>6, <3>8, <3>9
      <3>11. CASE x = "n"
        <4>1. <<"log", r>> \in ScreenLines /\ P!LogBytes(<<"log", r>>) = r \o <<"n">>
          BY <3>10, LinesAre DEF ScreenLines, MidLines
        <4>2. <<<<"log", r>>>> \in Seq(ScreenLines) /\ Shown(<<<<"log", r>>>>) = r \o <<"n">>
          <5>1. Shown(<<<<"log", r>>>>) = P!LogBytes(<<"log", r>>)
            BY <4>1, ShownOne, Zenon
          <5>2. \A line \in ScreenLines : <<line>> \in Seq(ScreenLines)
            OBVIOUS
          <5> QED BY <4>1, <5>1, <5>2, Zenon
        <4>3. Shown(w \o <<<<"log", r>>>>) = Shown(w) \o (r \o <<"n">>)
          BY <3>10, <4>2, ShownConcat
        <4>4. <<"n">> \in Seq(Bytes)
          BY LineEnds
        <4>5. Shown(w) \o (r \o <<"n">>) = (Shown(w) \o r) \o <<"n">>
          <5>1. PICK q : q = Shown(w)
            OBVIOUS
          <5>2. q \in Seq(Bytes) /\ r \in Seq(Bytes) /\ <<"n">> \in Seq(Bytes)
            BY <3>10, <4>4, <5>1
          <5>3. q \o (r \o <<"n">>) = (q \o r) \o <<"n">>
            BY <5>2, BytesConcat
          <5> QED BY <5>1, <5>3
        <4>6. (Shown(w) \o r) \o <<"n">> = Append(p, x)
          BY <3>5, <3>10, <3>11, AppendIs
        <4>7. P!WholeLines(Append(p, x)) = w \o <<<<"log", r>>>>
          BY <3>7, <3>8, <3>9, <3>11 DEF P!If
        <4>8. P!Rest(Append(p, x)) = << >>
          BY <3>5, <3>11, RestIs
        <4>9. Append(p, x) \in Seq(Bytes)
          BY <3>5, AppendIs
        <4>10. Append(p, x) \o << >> = Append(p, x)
          BY <4>9, ConcatEmptySeq
        <4>11. Shown(P!WholeLines(Append(p, x))) = Append(p, x)
          BY <4>3, <4>5, <4>6, <4>7, Zenon
        <4>12. Fine(Append(p, x))
          BY <4>8, <4>10, <4>11, Zenon
        <4> HIDE DEF Fine
        <4> QED BY <2>2, <3>5, <4>12
      <3>12. CASE x # "n"
        <4>1. P!WholeLines(Append(p, x)) = w
          <5>1. w \o << >> = w
            BY <3>10, ConcatEmptySeq
          <5> QED BY <3>7, <3>8, <3>12, <5>1 DEF P!If
        <4>2. P!Rest(Append(p, x)) = Append(r, x)
          BY <3>5, <3>9, <3>12, RestIs
        <4>3. Append(r, x) = r \o <<x>> /\ Append(p, x) = p \o <<x>>
          BY <3>5, <3>10, AppendIs
        <4>4. <<x>> \in Seq(Bytes)
          BY <3>5
        <4>5. Shown(w) \o (r \o <<x>>) = (Shown(w) \o r) \o <<x>>
          <5>1. PICK q : q = Shown(w)
            OBVIOUS
          <5>2. q \in Seq(Bytes) /\ r \in Seq(Bytes) /\ <<x>> \in Seq(Bytes)
            BY <3>10, <4>4, <5>1
          <5>3. q \o (r \o <<x>>) = (q \o r) \o <<x>>
            BY <5>2, BytesRegroup
          <5> QED BY <5>1, <5>3
        <4>6. Fine(Append(p, x))
          BY <3>10, <4>1, <4>2, <4>3, <4>5, Zenon
        <4> HIDE DEF Fine
        <4> QED BY <2>2, <3>5, <4>6
      <3> QED BY <3>11, <3>12
    <2> QED BY <2>3, <2>4
  <1>5. Fine(SubSeq(s, 1, Len(s)))
    <2>1. Len(s) \in 0 .. Len(s)
      BY <1>3
    <2> QED BY <1>4, <2>1
  <1>6. SubSeq(s, 1, Len(s)) = s
    BY SubSeqFull
  <1> QED BY <1>2, <1>5, <1>6, EndsAre

\* How often lines of a kind occur.
NoneIn(s, A) == \A k \in 1 .. Len(s) : s[k] \notin A
SomeIn(s, A) == \E k \in 1 .. Len(s) : s[k] \in A
OneIn(s, A) == \E k \in 1 .. Len(s) : /\ s[k] \in A
                                      /\ \A j \in 1 .. Len(s) : s[j] \in A => j = k

LEMMA CountConcat ==
    ASSUME NEW L, NEW s \in Seq(L), NEW t \in Seq(L), NEW A
    PROVE  /\ s \o t \in Seq(L)
           /\ NoneIn(s, A) /\ NoneIn(t, A) => NoneIn(s \o t, A)
           /\ OneIn(s, A) /\ NoneIn(t, A) => OneIn(s \o t, A)
           /\ NoneIn(s, A) /\ OneIn(t, A) => OneIn(s \o t, A)
           /\ SomeIn(s, A) \/ SomeIn(t, A) => SomeIn(s \o t, A)
           /\ s # << >> => s \o t # << >> /\ (s \o t)[1] = s[1]
           /\ s = << >> => s \o t = t
           /\ t = << >> => s \o t = s
  <1>1. /\ s \o t \in Seq(L) /\ Len(s \o t) = Len(s) + Len(t)
        /\ \A i \in 1 .. Len(s) + Len(t) :
              (s \o t)[i] = IF i <= Len(s) THEN s[i] ELSE t[i - Len(s)]
        /\ Len(s) \in Nat /\ Len(t) \in Nat
    BY ConcatProperties, LenProperties
  <1> DEFINE r == s \o t
  <1>2. \A i \in 1 .. Len(s) : i \in 1 .. Len(r) /\ r[i] = s[i]
    BY <1>1
  <1>3. ASSUME NEW i \in 1 .. Len(t) PROVE Len(s) + i \in 1 .. Len(r) /\ r[Len(s) + i] = t[i]
    <2>1. Len(s) + i \in 1 .. Len(s) + Len(t) /\ ~ (Len(s) + i <= Len(s)) /\ Len(s) + i - Len(s) = i
      BY <1>1
    <2> QED BY <1>1, <2>1
  <1>4. ASSUME NEW i \in 1 .. Len(r)
        PROVE  \/ i \in 1 .. Len(s) /\ r[i] = s[i]
               \/ \E j \in 1 .. Len(t) : i = Len(s) + j /\ r[i] = t[j]
    <2>1. CASE i <= Len(s)
      BY <1>1, <2>1
    <2>2. CASE ~ (i <= Len(s))
      <3>1. i - Len(s) \in 1 .. Len(t) /\ i = Len(s) + (i - Len(s)) /\ i \in 1 .. Len(s) + Len(t)
        BY <1>1, <2>2
      <3>2. r[i] = t[i - Len(s)]
        BY <1>1, <2>2, <3>1
      <3> HIDE DEF r
      <3> QED BY <3>1, <3>2
    <2> QED BY <2>1, <2>2
  <1> HIDE DEF r
  <1>5. NoneIn(s, A) /\ NoneIn(t, A) => NoneIn(r, A)
    BY <1>4 DEF NoneIn
  <1>6. SomeIn(s, A) \/ SomeIn(t, A) => SomeIn(r, A)
    BY <1>2, <1>3 DEF SomeIn
  <1>7. ASSUME OneIn(s, A), NoneIn(t, A) PROVE OneIn(r, A)
    <2>1. PICK k \in 1 .. Len(s) : s[k] \in A /\ \A j \in 1 .. Len(s) : s[j] \in A => j = k
      BY <1>7 DEF OneIn
    <2>2. k \in 1 .. Len(r) /\ r[k] \in A
      BY <1>2, <2>1
    <2>3. ASSUME NEW j \in 1 .. Len(r), r[j] \in A PROVE j = k
      BY <1>4, <1>7, <2>1, <2>3 DEF NoneIn
    <2> QED BY <2>2, <2>3 DEF OneIn
  <1>8. ASSUME NoneIn(s, A), OneIn(t, A) PROVE OneIn(r, A)
    <2>1. PICK k \in 1 .. Len(t) : t[k] \in A /\ \A j \in 1 .. Len(t) : t[j] \in A => j = k
      BY <1>8 DEF OneIn
    <2>2. Len(s) + k \in 1 .. Len(r) /\ r[Len(s) + k] \in A
      BY <1>3, <2>1
    <2>3. ASSUME NEW j \in 1 .. Len(r), r[j] \in A PROVE j = Len(s) + k
      BY <1>4, <1>8, <2>1, <2>3 DEF NoneIn
    <2> QED BY <2>2, <2>3 DEF OneIn
  <1>9. s # << >> => s \o t # << >> /\ (s \o t)[1] = s[1]
    <2>1. s # << >> => 1 \in 1 .. Len(s)
      BY <1>1, EmptySeq
    <2>2. s # << >> => 1 \in 1 .. Len(r) /\ r[1] = s[1]
      BY <1>2, <2>1
    <2>3. r = << >> => Len(r) = 0
      BY EmptySeq
    <2> QED BY <2>2, <2>3 DEF r
  <1>10. (s = << >> => s \o t = t) /\ (t = << >> => s \o t = s)
    BY ConcatEmptySeq
  <1> QED BY <1>1, <1>5, <1>6, <1>7, <1>8, <1>9, <1>10 DEF r

LEMMA CountIf ==
    ASSUME NEW condition \in BOOLEAN, NEW line \in ScreenLines, NEW A
    PROVE  /\ P!If(condition, line) \in Seq(ScreenLines)
           /\ condition /\ line \in A => OneIn(P!If(condition, line), A) /\ SomeIn(P!If(condition, line), A)
           /\ condition => P!If(condition, line) # << >> /\ P!If(condition, line)[1] = line
           /\ ~ condition => P!If(condition, line) = << >>
           /\ ~ (condition /\ line \in A) => NoneIn(P!If(condition, line), A)
           /\ Shown(P!If(condition, line)) = IF condition THEN P!LogBytes(line) ELSE << >>
  <1>1. CASE condition
    <2>1. P!If(condition, line) = <<line>>
      BY <1>1 DEF P!If
    <2>2. <<line>> \in Seq(ScreenLines) /\ Len(<<line>>) = 1 /\ <<line>>[1] = line /\ <<line>> # << >>
      OBVIOUS
    <2>3. line \in A => OneIn(<<line>>, A) /\ SomeIn(<<line>>, A)
      BY <2>2 DEF OneIn, SomeIn
    <2>4. line \notin A => NoneIn(<<line>>, A)
      BY <2>2 DEF NoneIn
    <2> QED BY <1>1, <2>1, <2>2, <2>3, <2>4, ShownOne
  <1>2. CASE ~ condition
    <2>1. P!If(condition, line) = << >>
      BY <1>2 DEF P!If
    <2>2. << >> \in Seq(ScreenLines) /\ Len(<< >>) = 0
      BY EmptyIsSeq
    <2>3. NoneIn(<< >>, A)
      BY <2>2 DEF NoneIn
    <2> QED BY <1>2, <2>1, <2>2, <2>3, ShownOne
  <1> QED BY <1>1, <1>2

\* A status is one line or none, and shows no byte.
LEMMA StatusIs ==
    ASSUME NEW u, u.status \in {"none", "begin", "end"}
    PROVE  /\ P!StatusLine(u) \in Seq(MidLines)
           /\ P!StatusLine(u) \in Seq(ScreenLines)
           /\ Shown(P!StatusLine(u)) = << >>
           /\ u.status = "none" => P!StatusLine(u) = << >>
  <1>1. CASE u.status = "none" \/ u.status \in seenStatus
    <2>1. P!StatusLine(u) = << >>
      BY <1>1 DEF P!StatusLine, P!If
    <2> QED BY <2>1, EmptyIsSeq, ShownOne
  <1>2. CASE u.status # "none" /\ u.status \notin seenStatus
    <2>1. P!StatusLine(u) = <<<<"status", u.status>>>>
      BY <1>2 DEF P!StatusLine, P!If
    <2>2. PICK line : line = <<"status", u.status>>
      OBVIOUS
    <2>3. line \in MidLines /\ line \in ScreenLines /\ line \notin LogLines
      BY <1>2, <2>2 DEF MidLines, ScreenLines, LogLines
    <2>4. <<line>> \in Seq(MidLines) /\ <<line>> \in Seq(ScreenLines)
      BY <2>3
    <2>5. Shown(<<line>>) = << >>
      BY <2>3, ShownOne, LinesAre
    <2> QED BY <1>2, <2>1, <2>2, <2>4, <2>5
  <1> QED BY <1>1, <1>2

LEMMA MidIsNeither ==
    ASSUME NEW s \in Seq(MidLines)
    PROVE  NoneIn(s, {P!Header}) /\ NoneIn(s, FinalLines) /\ s \in Seq(ScreenLines)
  <1>1. \A k \in 1 .. Len(s) : s[k] \in MidLines
    BY ElementOfSeq
  <1>2. s \in Seq(ScreenLines)
    BY DEF ScreenLines
  <1> QED BY <1>1, <1>2, LinesAre DEF NoneIn

LEMMA ShownNothing ==
    ASSUME NEW s \in Seq(ScreenLines), NEW t \in Seq(ScreenLines)
    PROVE  /\ Shown(s) = << >> => Shown(s \o t) = Shown(t)
           /\ Shown(t) = << >> => Shown(s \o t) = Shown(s)
  <1>1. /\ Shown(s \o t) = Shown(s) \o Shown(t)
        /\ Shown(s) \in Seq(Bytes) /\ Shown(t) \in Seq(Bytes)
    BY ShownConcat
  <1>2. \A b \in Seq(Bytes) : << >> \o b = b /\ b \o << >> = b
    BY ConcatEmptySeq
  <1> QED BY <1>1, <1>2

\* What an update adds to the lines of a vertex on a terminal.
NeedsHeader(u) == u.state \in P!Completed \cup {"started"} /\ u.vertex \notin seenStarted
NeedsFinal(u) == u.state \in P!Completed /\ u.vertex \notin seenDone

LEMMA FinalIs ==
    ASSUME NEW st \in P!Completed
    PROVE  /\ P!Final(st) \in FinalLines /\ P!Final(st) \in ScreenLines
           /\ P!Final(st) # P!Header /\ P!LogBytes(P!Final(st)) = << >>
           /\ P!Final(st) \in {P!Final(st)}
  <1>1. P!Final(st) \in FinalLines /\ P!Final(st) \in ScreenLines
    BY DEF P!Final, FinalLines, ScreenLines
  <1>2. P!LogBytes(P!Final(st)) = << >>
    BY DEF P!Final, P!LogBytes
  <1> QED BY <1>1, <1>2, LinesAre

InteractiveTextOK(u, lines, text) ==
    /\ text \in Seq(ScreenLines)
    /\ Shown(text) = Shown(lines)
    /\ NeedsHeader(u) => text # << >> /\ text[1] = P!Header /\ OneIn(text, {P!Header})
    /\ ~ NeedsHeader(u) => NoneIn(text, {P!Header})
    /\ NeedsFinal(u) => OneIn(text, FinalLines) /\ SomeIn(text, {P!Final(u.state)})
    /\ ~ NeedsFinal(u) => NoneIn(text, FinalLines)
    /\ ~ NeedsHeader(u) /\ ~ NeedsFinal(u) /\ u.status = "none" /\ lines = << >> =>
          text = << >>

LEMMA InteractiveText ==
    ASSUME NEW u, u.status \in {"none", "begin", "end"}, NEW lines \in Seq(LogLines)
    PROVE  InteractiveTextOK(u, lines, P!Interactive(u, lines))
  <1> DEFINE text == P!Interactive(u, lines)
  <1>1. PICK a : a = P!If(NeedsHeader(u), P!Header)
    OBVIOUS
  <1>2. PICK b : b = P!StatusLine(u)
    OBVIOUS
  <1>3. PICK d : d = P!If(NeedsFinal(u), P!Final(u.state))
    OBVIOUS
  <1>4. text = ((a \o b) \o lines) \o d
    BY <1>1, <1>2, <1>3 DEF P!Interactive, NeedsHeader, NeedsFinal
  <1>5. P!Header \in ScreenLines /\ P!Header \in {P!Header} /\ P!Header \notin FinalLines
        /\ P!LogBytes(P!Header) = << >>
    <2>1. P!Header \in ScreenLines \ LogLines
      BY LinesAre DEF ScreenLines, MidLines
    <2> QED BY <2>1, LinesAre
  <1>6. /\ a \in Seq(ScreenLines) /\ Shown(a) = << >> /\ NoneIn(a, FinalLines)
        /\ NeedsHeader(u) => OneIn(a, {P!Header}) /\ a # << >> /\ a[1] = P!Header
        /\ ~ NeedsHeader(u) => NoneIn(a, {P!Header}) /\ a = << >>
    <2>1. NeedsHeader(u) \in BOOLEAN
      BY DEF NeedsHeader
    <2> QED BY <1>1, <1>5, <2>1, CountIf
  <1>7. /\ d \in Seq(ScreenLines) /\ Shown(d) = << >> /\ NoneIn(d, {P!Header})
        /\ NeedsFinal(u) => OneIn(d, FinalLines) /\ SomeIn(d, {P!Final(u.state)})
        /\ ~ NeedsFinal(u) => NoneIn(d, FinalLines) /\ d = << >>
    <2>1. CASE NeedsFinal(u)
      <3>1. u.state \in P!Completed /\ TRUE \in BOOLEAN
        BY <2>1 DEF NeedsFinal
      <3>2. d = P!If(TRUE, P!Final(u.state))
        BY <1>3, <2>1 DEF P!If
      <3>3. /\ P!Final(u.state) \in FinalLines /\ P!Final(u.state) \in ScreenLines
            /\ P!Final(u.state) \notin {P!Header} /\ P!LogBytes(P!Final(u.state)) = << >>
            /\ P!Final(u.state) \in {P!Final(u.state)}
        BY <3>1, FinalIs
      <3> QED BY <2>1, <3>1, <3>2, <3>3, CountIf
    <2>2. CASE ~ NeedsFinal(u)
      <3>1. d = << >>
        BY <1>3, <2>2 DEF P!If
      <3>2. d \in Seq(ScreenLines) /\ Len(d) = 0
        BY <3>1, EmptyIsSeq
      <3> QED BY <2>2, <3>1, <3>2, ShownOne DEF NoneIn
    <2> QED BY <2>1, <2>2
  <1>8. /\ b \in Seq(ScreenLines) /\ Shown(b) = << >>
        /\ NoneIn(b, {P!Header}) /\ NoneIn(b, FinalLines)
        /\ u.status = "none" => b = << >>
    <2>1. /\ b \in Seq(MidLines) /\ b \in Seq(ScreenLines) /\ Shown(b) = << >>
          /\ u.status = "none" => b = << >>
      BY <1>2, StatusIs
    <2> QED BY <2>1, MidIsNeither
  <1>9. /\ lines \in Seq(ScreenLines)
        /\ NoneIn(lines, {P!Header}) /\ NoneIn(lines, FinalLines)
    <2>1. lines \in Seq(MidLines)
      BY DEF MidLines
    <2> QED BY <2>1, MidIsNeither
  <1>10. PICK ab : ab = a \o b
    OBVIOUS
  <1>11. PICK abl : abl = ab \o lines
    OBVIOUS
  <1>12. /\ ab \in Seq(ScreenLines) /\ Shown(ab) = << >> /\ NoneIn(ab, FinalLines)
         /\ NeedsHeader(u) => OneIn(ab, {P!Header}) /\ ab # << >> /\ ab[1] = P!Header
         /\ ~ NeedsHeader(u) => NoneIn(ab, {P!Header})
         /\ ~ NeedsHeader(u) /\ u.status = "none" => ab = << >>
    BY <1>6, <1>8, <1>10, CountConcat, ShownNothing
  <1>13. /\ abl \in Seq(ScreenLines) /\ Shown(abl) = Shown(lines) /\ NoneIn(abl, FinalLines)
         /\ NeedsHeader(u) => OneIn(abl, {P!Header}) /\ abl # << >> /\ abl[1] = P!Header
         /\ ~ NeedsHeader(u) => NoneIn(abl, {P!Header})
         /\ ~ NeedsHeader(u) /\ u.status = "none" /\ lines = << >> => abl = << >>
    BY <1>9, <1>11, <1>12, CountConcat, ShownNothing
  <1>14. text = abl \o d
    BY <1>4, <1>10, <1>11
  <1> HIDE DEF text
  <1>15. InteractiveTextOK(u, lines, text)
    BY <1>7, <1>13, <1>14, CountConcat, ShownNothing DEF InteractiveTextOK
  <1> QED BY <1>15 DEF text

\* The plain display prints how a step completed whenever that is reported.
LinearTextOK(u, lines, text) ==
    /\ text \in Seq(ScreenLines)
    /\ Shown(text) = Shown(lines)
    /\ u.state \in P!Completed => SomeIn(text, {P!Final(u.state)})

LEMMA LinearText ==
    ASSUME NEW u, u.status \in {"none", "begin", "end"}, NEW lines \in Seq(LogLines)
    PROVE  LinearTextOK(u, lines, P!Linear(u, lines))
  <1> DEFINE text == P!Linear(u, lines)
  <1>1. PICK a : a = CASE u.state = "started" -> <<P!Header>>
                       [] u.state \in P!Completed -> <<P!Final(u.state)>>
                       [] OTHER -> << >>
    OBVIOUS
  <1>2. PICK b : b = P!StatusLine(u)
    OBVIOUS
  <1>3. text = (a \o b) \o lines
    BY <1>1, <1>2 DEF P!Linear
  <1>4. /\ a \in Seq(ScreenLines) /\ Shown(a) = << >>
        /\ u.state \in P!Completed => SomeIn(a, {P!Final(u.state)})
    <2>1. CASE u.state = "started"
      <3>1. P!Header \in ScreenLines \ LogLines
        BY LinesAre DEF ScreenLines, MidLines
      <3>2. a = <<P!Header>> /\ u.state \notin P!Completed
        BY <1>1, <2>1 DEF P!Completed
      <3>3. Shown(<<P!Header>>) = << >> /\ <<P!Header>> \in Seq(ScreenLines)
        <4>1. \A line \in ScreenLines : <<line>> \in Seq(ScreenLines)
          OBVIOUS
        <4> QED BY <3>1, <4>1, ShownOne, LinesAre, Zenon
      <3> QED BY <3>2, <3>3
    <2>2. CASE u.state \in P!Completed
      <3>1. PICK line : line = P!Final(u.state)
        OBVIOUS
      <3>2. line \in ScreenLines /\ P!LogBytes(line) = << >> /\ line \in {line}
        BY <2>2, <3>1, FinalIs
      <3>3. a = <<line>>
        BY <1>1, <2>2, <3>1 DEF P!Completed
      <3>4. <<line>> \in Seq(ScreenLines) /\ SomeIn(<<line>>, {line})
        BY <3>2 DEF SomeIn
      <3>5. Shown(<<line>>) = << >>
        BY <3>2, ShownOne
      <3> QED BY <3>1, <3>3, <3>4, <3>5
    <2>3. CASE u.state # "started" /\ u.state \notin P!Completed
      <3>1. a = << >>
        BY <1>1, <2>3
      <3> QED BY <2>3, <3>1, EmptyIsSeq, ShownOne
    <2> QED BY <2>1, <2>2, <2>3
  <1>5. b \in Seq(ScreenLines) /\ Shown(b) = << >>
    BY <1>2, StatusIs
  <1>6. lines \in Seq(ScreenLines)
    BY DEF ScreenLines, MidLines
  <1>7. PICK ab : ab = a \o b
    OBVIOUS
  <1>8. /\ ab \in Seq(ScreenLines) /\ Shown(ab) = << >>
        /\ u.state \in P!Completed => SomeIn(ab, {P!Final(u.state)})
    BY <1>4, <1>5, <1>7, CountConcat, ShownNothing
  <1>9. text = ab \o lines
    BY <1>3, <1>7
  <1> HIDE DEF text
  <1>10. LinearTextOK(u, lines, text)
    BY <1>6, <1>8, <1>9, CountConcat, ShownNothing DEF LinearTextOK
  <1> QED BY <1>10 DEF text
-----------------------------------------------------------------------------
VertexStates == {"known", "started"} \cup P!Completed

SolveTypes ==
    /\ mode \in {"interactive", "linear"} /\ updatesChannel \in {"open", "closed"}
    /\ handler \in {"reading", "returned"} /\ updates \in 0 .. MaxUpdates
    /\ reported \in [Vertices -> {"unknown"} \cup VertexStates]
    /\ logged \in [Vertices -> Seq(Bytes)] /\ buffer \in [Vertices -> Seq(Bytes)]
    /\ screen \in [Vertices -> Seq(ScreenLines)]
    /\ seenStarted \subseteq Vertices /\ seenDone \subseteq Vertices
    /\ seenStatus \subseteq {"begin", "end"}

\* An update on its way tells what BuildKit has reported last of its vertex, and
\* the display ends only when none can come any more.
SendingOK ==
    /\ pending = {} \/ \E u : pending = {u}
    /\ \A u \in pending :
          /\ u.vertex \in Vertices /\ u.state \in VertexStates /\ u.state = reported[u.vertex]
          /\ u.status \in {"none", "begin", "end"} /\ u.data \in Seq(Bytes)
          /\ u.state = "known" => u.status = "none" /\ u.data = << >>
    /\ handler = "returned" => updatesChannel = "closed" /\ pending = {}

Settled(v) == \A u \in pending : u.vertex # v

\* Every byte is printed, buffered or on its way.
BytesOK(v) ==
    /\ handler = "reading" =>
          /\ Settled(v) => Shown(screen[v]) \o buffer[v] = logged[v]
          /\ \A u \in pending :
                u.vertex = v => Shown(screen[v]) \o (buffer[v] \o u.data) = logged[v]
    /\ handler = "returned" => Shown(screen[v]) \in {logged[v], Append(logged[v], "n")}

\* What is marked as seen was reported and shown, and the other way round once no
\* update is on its way.
SeenOK(v) ==
    /\ v \in seenDone => /\ v \in seenStarted /\ reported[v] \in P!Completed
                         /\ SomeIn(screen[v], {P!Final(reported[v])})
    /\ v \in seenStarted => reported[v] \in P!Completed \cup {"started"}
    /\ Settled(v) /\ reported[v] \in P!Completed => v \in seenDone
    /\ Settled(v) /\ reported[v] \in P!Completed \cup {"started"} => v \in seenStarted

\* On a terminal nothing comes before the header, and what has started ends once.
FrameOK(v) ==
    mode = "interactive" =>
       /\ v \notin seenStarted => screen[v] = << >> /\ buffer[v] = << >>
       /\ v \in seenStarted => /\ screen[v] # << >> /\ screen[v][1] = P!Header
                               /\ OneIn(screen[v], {P!Header})
       /\ v \in seenDone \/ (handler = "returned" /\ v \in seenStarted) =>
             OneIn(screen[v], FinalLines)
       /\ v \notin seenDone /\ ~ (handler = "returned" /\ v \in seenStarted) =>
             NoneIn(screen[v], FinalLines)

VertexOK(v) == BytesOK(v) /\ SeenOK(v) /\ FrameOK(v)

SolveInvariant == SolveTypes /\ SendingOK /\ \A v \in Vertices : VertexOK(v)

LEMMA SolveStarts ==
    ASSUME NEW m \in {"interactive", "linear"}, P!Start(m)
    PROVE  SolveInvariant
  <1>1. << >> \in Seq(Bytes) /\ << >> \in Seq(ScreenLines) /\ Len(<< >>) = 0
    BY EmptyIsSeq
  <1>2. /\ mode = m /\ updatesChannel = "open" /\ pending = {} /\ updates = 0
        /\ \A v \in Vertices : reported[v] = "unknown" /\ logged[v] = << >>
                                  /\ buffer[v] = << >> /\ screen[v] = << >>
        /\ seenStarted = {} /\ seenDone = {} /\ seenStatus = {} /\ handler = "reading"
    BY DEF P!Start
  <1>3. SolveTypes
    BY <1>1, <1>2, SolveAssumption DEF P!Start, SolveTypes
  <1>4. SendingOK
    BY <1>2 DEF SendingOK
  <1>5. ASSUME NEW v \in Vertices PROVE VertexOK(v)
    <2>1. << >> \o << >> = << >>
      BY <1>1, ConcatEmptySeq
    <2>2. BytesOK(v)
      BY <1>2, <2>1, ShownOne DEF BytesOK
    <2>3. SeenOK(v)
      BY <1>2 DEF SeenOK, P!Completed
    <2>4. NoneIn(<< >>, FinalLines)
      BY <1>1 DEF NoneIn
    <2>5. FrameOK(v)
      BY <1>2, <2>4 DEF FrameOK
    <2> QED BY <2>2, <2>3, <2>5 DEF VertexOK
  <1> QED BY <1>3, <1>4, <1>5 DEF SolveInvariant

\* A vertex no step speaks of.
LEMMA VertexKept ==
    ASSUME NEW v \in Vertices, VertexOK(v),
           UNCHANGED <<mode, handler, reported[v], logged[v], buffer[v], screen[v]>>,
           v \in seenStarted' <=> v \in seenStarted, v \in seenDone' <=> v \in seenDone,
           Settled(v), Settled(v)'
    PROVE  VertexOK(v)'
  <1>1. BytesOK(v)'
    BY DEF VertexOK, BytesOK, Settled
  <1>2. SeenOK(v)'
    BY DEF VertexOK, SeenOK
  <1>3. FrameOK(v)'
    BY DEF VertexOK, FrameOK
  <1> QED BY <1>1, <1>2, <1>3 DEF VertexOK

LEMMA SendKeeps ==
    ASSUME SolveInvariant, NEW v \in Vertices, P!Send(v)
    PROVE  SolveInvariant'
  <1>1. PICK st \in P!After(reported[v]), status \in {"none", "begin", "end"}, d \in Chunks :
           /\ st = "known" => status = "none" /\ d = << >>
           /\ reported' = [reported EXCEPT ![v] = st]
           /\ logged' = [logged EXCEPT ![v] = @ \o d]
           /\ pending' = {[vertex |-> v, state |-> st, status |-> status, data |-> d]}
    BY DEF P!Send
  <1>2. /\ updatesChannel = "open" /\ pending = {} /\ updates < MaxUpdates
        /\ updates' = updates + 1
        /\ UNCHANGED <<mode, updatesChannel, seenStarted, seenDone, seenStatus, buffer, screen,
                       handler>>
    BY DEF P!Send, P!display
  <1>3. SolveTypes /\ SendingOK /\ \A w \in Vertices : VertexOK(w)
    BY DEF SolveInvariant
  <1>4. d \in Seq(Bytes)
    <2>1. d \in Seq(STRING)
      BY SolveAssumption
    <2> QED BY <2>1 DEF Bytes
  <1>5. /\ st \in VertexStates
        /\ reported[v] \in P!Completed => st = reported[v]
        /\ reported[v] = "started" => st \in P!Completed \cup {"started"}
    BY <1>1, <1>3 DEF P!After, SolveTypes, VertexStates, P!Completed
  <1>6. /\ logged[v] \in Seq(Bytes) /\ buffer[v] \in Seq(Bytes) /\ screen[v] \in Seq(ScreenLines)
        /\ Shown(screen[v]) \in Seq(Bytes)
    BY <1>3, ShownConcat DEF SolveTypes
  <1>7. /\ reported'[v] = st /\ logged'[v] = logged[v] \o d
        /\ \A w \in Vertices \ {v} : reported'[w] = reported[w] /\ logged'[w] = logged[w]
    BY <1>1, <1>3 DEF SolveTypes
  <1>8. logged[v] \o d \in Seq(Bytes)
    BY <1>4, <1>6, ConcatProperties
  <1>9. SolveTypes'
    <2>1. updates' \in 0 .. MaxUpdates
      BY <1>2, <1>3, SolveAssumption DEF SolveTypes
    <2>2. reported' \in [Vertices -> {"unknown"} \cup VertexStates]
      BY <1>1, <1>3, <1>5 DEF SolveTypes
    <2>3. logged' \in [Vertices -> Seq(Bytes)]
      BY <1>1, <1>3, <1>8 DEF SolveTypes
    <2> QED BY <1>2, <1>3, <2>1, <2>2, <2>3 DEF SolveTypes
  <1>10. handler = "reading"
    BY <1>2, <1>3 DEF SolveTypes, SendingOK
  <1>11. PICK u : u = [vertex |-> v, state |-> st, status |-> status, data |-> d]
    OBVIOUS
  <1>12. /\ pending' = {u} /\ u.vertex = v /\ u.state = st /\ u.status = status /\ u.data = d
    BY <1>1, <1>11
  <1>13. SendingOK'
    BY <1>1, <1>2, <1>4, <1>5, <1>7, <1>10, <1>12 DEF SendingOK
  <1>14. \A w \in Vertices : Settled(w)
    BY <1>2 DEF Settled
  <1>15. ASSUME NEW w \in Vertices PROVE VertexOK(w)'
    <2>1. CASE w # v
      <3>1. Settled(w)'
        BY <1>12, <2>1 DEF Settled
      <3> QED BY <1>2, <1>3, <1>7, <1>14, <2>1, <3>1, VertexKept
    <2>2. CASE w = v
      <3>1. BytesOK(v) /\ SeenOK(v) /\ FrameOK(v)
        BY <1>3 DEF VertexOK
      <3>2. ~ Settled(v)'
        BY <1>12 DEF Settled
      <3>3. Shown(screen[v]) \o buffer[v] = logged[v]
        BY <1>10, <1>14, <3>1 DEF BytesOK
      <3>4. Shown(screen[v]) \o (buffer[v] \o d) = logged[v] \o d
        <4>1. (Shown(screen[v]) \o buffer[v]) \o d = Shown(screen[v]) \o (buffer[v] \o d)
          BY <1>4, <1>6, BytesConcat, Zenon
        <4> QED BY <3>3, <4>1
      <3>5. BytesOK(v)'
        BY <1>2, <1>7, <1>10, <1>12, <3>2, <3>4 DEF BytesOK
      <3>6. SeenOK(v)'
        BY <1>2, <1>5, <1>7, <3>1, <3>2 DEF SeenOK
      <3>7. FrameOK(v)'
        BY <1>2, <3>1 DEF FrameOK
      <3> QED BY <2>2, <3>5, <3>6, <3>7 DEF VertexOK
    <2> QED BY <2>1, <2>2
  <1> QED BY <1>9, <1>13, <1>15 DEF SolveInvariant

LEMMA CloseKeeps ==
    ASSUME SolveInvariant, P!Close
    PROVE  SolveInvariant'
  <1>1. /\ pending = {} /\ updatesChannel' = "closed"
        /\ UNCHANGED <<mode, pending, updates, reported, logged, seenStarted, seenDone, seenStatus,
                       buffer, screen, handler>>
    BY DEF P!Close, P!display
  <1>2. SolveTypes'
    BY <1>1 DEF SolveInvariant, SolveTypes
  <1>3. SendingOK'
    BY <1>1 DEF SolveInvariant, SendingOK
  <1>4. ASSUME NEW v \in Vertices PROVE VertexOK(v)'
    BY <1>1, VertexKept DEF SolveInvariant, Settled
  <1> QED BY <1>2, <1>3, <1>4 DEF SolveInvariant

LEMMA UpdateKeeps ==
    ASSUME SolveInvariant, P!Update
    PROVE  SolveInvariant'
  <1>1. SolveTypes /\ SendingOK /\ \A w \in Vertices : VertexOK(w)
    BY DEF SolveInvariant
  <1>2. PICK u \in pending :
           LET bytes == buffer[u.vertex] \o u.data
               text == IF mode = "interactive" THEN P!Interactive(u, P!Lines(u, bytes))
                       ELSE P!Linear(u, P!Lines(u, bytes))
           IN  /\ screen' = [screen EXCEPT ![u.vertex] = @ \o text]
               /\ buffer' = [buffer EXCEPT ![u.vertex] = P!Rest(bytes)]
               /\ seenStarted' = IF u.state \in P!Completed \cup {"started"}
                                 THEN seenStarted \cup {u.vertex} ELSE seenStarted
               /\ seenDone' = IF u.state \in P!Completed THEN seenDone \cup {u.vertex} ELSE seenDone
               /\ seenStatus' = seenStatus \cup ({u.status} \ {"none"})
    BY DEF P!Update
  <1>3. /\ handler = "reading" /\ pending' = {}
        /\ UNCHANGED <<mode, updatesChannel, updates, reported, logged, handler>>
    BY DEF P!Update
  <1>4. PICK v : v = u.vertex
    OBVIOUS
  <1>5. PICK bytes : bytes = buffer[v] \o u.data
    OBVIOUS
  <1>6. PICK lines : lines = P!WholeLines(bytes)
    OBVIOUS
  <1>7. PICK text : text = IF mode = "interactive" THEN P!Interactive(u, lines) ELSE P!Linear(u, lines)
    OBVIOUS
  <1>8. /\ screen' = [screen EXCEPT ![v] = @ \o text]
        /\ buffer' = [buffer EXCEPT ![v] = P!Rest(bytes)]
        /\ seenStarted' = IF u.state \in P!Completed \cup {"started"} THEN seenStarted \cup {v} ELSE seenStarted
        /\ seenDone' = IF u.state \in P!Completed THEN seenDone \cup {v} ELSE seenDone
        /\ seenStatus' = seenStatus \cup ({u.status} \ {"none"})
    BY <1>2, <1>4, <1>5, <1>6, <1>7 DEF P!Lines
  <1>9. /\ v \in Vertices /\ u.state \in VertexStates /\ u.state = reported[v]
        /\ u.status \in {"none", "begin", "end"} /\ u.data \in Seq(Bytes)
        /\ u.state = "known" => u.status = "none" /\ u.data = << >>
        /\ pending = {u}
    BY <1>1, <1>4 DEF SendingOK
  <1>10. /\ logged[v] \in Seq(Bytes) /\ buffer[v] \in Seq(Bytes) /\ screen[v] \in Seq(ScreenLines)
         /\ Shown(screen[v]) \in Seq(Bytes)
    BY <1>1, <1>9, ShownConcat DEF SolveTypes
  <1>11. bytes \in Seq(Bytes)
    BY <1>5, <1>9, <1>10, BytesConcat, Zenon
  <1>12. /\ lines \in Seq(LogLines) /\ P!Rest(bytes) \in Seq(Bytes)
         /\ Shown(lines) \in Seq(Bytes) /\ Shown(lines) \o P!Rest(bytes) = bytes
    BY <1>6, <1>11, LinesHoldAll
  <1>13. text \in Seq(ScreenLines) /\ Shown(text) = Shown(lines)
    <2>1. CASE mode = "interactive"
      <3>1. text = P!Interactive(u, lines) /\ u.status \in {"none", "begin", "end"}
        BY <1>7, <1>9, <2>1
      <3>2. lines \in Seq(LogLines)
        BY <1>12
      <3>3. InteractiveTextOK(u, lines, text)
        BY <3>1, <3>2, InteractiveText
      <3> QED BY <3>3 DEF InteractiveTextOK
    <2>2. CASE mode # "interactive"
      <3>1. text = P!Linear(u, lines) /\ u.status \in {"none", "begin", "end"}
        BY <1>7, <1>9, <2>2
      <3>2. lines \in Seq(LogLines)
        BY <1>12
      <3>3. LinearTextOK(u, lines, text)
        BY <3>1, <3>2, LinearText
      <3> QED BY <3>3 DEF LinearTextOK
    <2> QED BY <2>1, <2>2
  <1>14. /\ screen'[v] = screen[v] \o text /\ buffer'[v] = P!Rest(bytes)
         /\ \A w \in Vertices \ {v} : screen'[w] = screen[w] /\ buffer'[w] = buffer[w]
    BY <1>1, <1>8, <1>9 DEF SolveTypes
  <1>15. screen[v] \o text \in Seq(ScreenLines)
    BY <1>10, <1>13, ConcatProperties
  <1>16. SolveTypes'
    <2>1. screen' \in [Vertices -> Seq(ScreenLines)] /\ buffer' \in [Vertices -> Seq(Bytes)]
      BY <1>1, <1>8, <1>9, <1>12, <1>15 DEF SolveTypes
    <2>2. /\ seenStarted' \subseteq Vertices /\ seenDone' \subseteq Vertices
          /\ seenStatus' \subseteq {"begin", "end"}
      BY <1>1, <1>8, <1>9 DEF SolveTypes
    <2> QED BY <1>1, <1>3, <2>1, <2>2 DEF SolveTypes
  <1>17. SendingOK'
    BY <1>3 DEF SendingOK
  <1>18. BytesOK(v) /\ SeenOK(v) /\ FrameOK(v) /\ \A w \in Vertices : Settled(w)'
    BY <1>1, <1>3, <1>9 DEF VertexOK, Settled
  <1>19. BytesOK(v)'
    <2>1. Shown(screen[v]) \o bytes = logged[v]
      BY <1>3, <1>4, <1>5, <1>18 DEF BytesOK
    <2>2. Shown(screen[v] \o text) = Shown(screen[v]) \o Shown(lines)
      BY <1>10, <1>13, ShownConcat
    <2>3. (Shown(screen[v]) \o Shown(lines)) \o P!Rest(bytes)
             = Shown(screen[v]) \o (Shown(lines) \o P!Rest(bytes))
      BY <1>10, <1>12, BytesConcat, Zenon
    <2>4. Shown(screen[v] \o text) \o P!Rest(bytes) = logged[v]
      BY <1>12, <2>1, <2>2, <2>3
    <2> QED BY <1>3, <1>14, <1>18, <2>4 DEF BytesOK
  <1>20. u.state \in P!Completed => SomeIn(screen[v] \o text, {P!Final(u.state)})
    <2>1. ASSUME u.state \in P!Completed
          PROVE  \/ SomeIn(text, {P!Final(u.state)}) \/ SomeIn(screen[v], {P!Final(u.state)})
      <3>1. CASE mode # "interactive"
        BY <1>7, <1>9, <1>12, <2>1, <3>1, LinearText DEF LinearTextOK
      <3>2. CASE mode = "interactive" /\ v \notin seenDone
        <4>1. NeedsFinal(u)
          BY <1>4, <2>1, <3>2 DEF NeedsFinal
        <4> QED BY <1>7, <1>9, <1>12, <3>2, <4>1, InteractiveText DEF InteractiveTextOK
      <3>3. CASE v \in seenDone
        BY <1>9, <1>18, <3>3 DEF SeenOK
      <3> QED BY <3>1, <3>2, <3>3
    <2> QED BY <1>10, <1>13, <2>1, CountConcat
  <1>21. SeenOK(v)'
    <2>1. CASE u.state \in P!Completed
      BY <1>3, <1>8, <1>9, <1>14, <1>20, <2>1 DEF SeenOK
    <2>2. CASE u.state \notin P!Completed
      <3>1. v \notin seenDone /\ v \notin seenDone'
        BY <1>8, <1>9, <1>18, <2>2 DEF SeenOK
      <3>2. v \in seenStarted' <=> u.state = "started"
        BY <1>8, <1>9, <1>18, <2>2 DEF SeenOK
      <3> QED BY <1>3, <1>9, <2>2, <3>1, <3>2 DEF SeenOK
    <2> QED BY <2>1, <2>2
  <1>22. FrameOK(v)'
    <2> SUFFICES ASSUME mode = "interactive"
                 PROVE  /\ v \notin seenStarted' => screen'[v] = << >> /\ buffer'[v] = << >>
                        /\ v \in seenStarted' => /\ screen'[v] # << >> /\ screen'[v][1] = P!Header
                                                 /\ OneIn(screen'[v], {P!Header})
                        /\ v \in seenDone' => OneIn(screen'[v], FinalLines)
                        /\ v \notin seenDone' => NoneIn(screen'[v], FinalLines)
      BY <1>3 DEF FrameOK
    <2>1. /\ NeedsHeader(u) => text # << >> /\ text[1] = P!Header /\ OneIn(text, {P!Header})
          /\ ~ NeedsHeader(u) => NoneIn(text, {P!Header})
          /\ NeedsFinal(u) => OneIn(text, FinalLines)
          /\ ~ NeedsFinal(u) => NoneIn(text, FinalLines)
          /\ ~ NeedsHeader(u) /\ ~ NeedsFinal(u) /\ u.status = "none" /\ lines = << >> => text = << >>
      <3>1. text = P!Interactive(u, lines) /\ u.status \in {"none", "begin", "end"}
        BY <1>7, <1>9
      <3>2. lines \in Seq(LogLines)
        BY <1>12
      <3>3. InteractiveTextOK(u, lines, text)
        BY <3>1, <3>2, InteractiveText
      <3> QED BY <3>3 DEF InteractiveTextOK
    <2>2. /\ v \notin seenStarted => screen[v] = << >> /\ buffer[v] = << >> /\ v \notin seenDone
          /\ v \in seenStarted => /\ screen[v] # << >> /\ screen[v][1] = P!Header
                                  /\ OneIn(screen[v], {P!Header})
          /\ v \in seenDone => OneIn(screen[v], FinalLines)
          /\ v \notin seenDone => NoneIn(screen[v], FinalLines)
      BY <1>3, <1>18 DEF FrameOK, SeenOK
    <2>3. /\ v \in seenStarted => u.state \in P!Completed \cup {"started"}
          /\ v \in seenDone => u.state \in P!Completed
      BY <1>9, <1>18 DEF SeenOK
    <2>4. /\ NeedsHeader(u) <=> u.state \in P!Completed \cup {"started"} /\ v \notin seenStarted
          /\ NeedsFinal(u) <=> u.state \in P!Completed /\ v \notin seenDone
      BY <1>4 DEF NeedsHeader, NeedsFinal
    <2>5. ASSUME v \notin seenStarted'
          PROVE  screen'[v] = << >> /\ buffer'[v] = << >>
      <3>1. u.state = "known" /\ v \notin seenStarted
        BY <1>8, <1>9, <2>5 DEF VertexStates
      <3>2. ~ NeedsHeader(u) /\ ~ NeedsFinal(u)
        BY <2>4, <3>1 DEF P!Completed
      <3>3. bytes = << >>
        BY <1>5, <1>9, <2>2, <3>1, ConcatEmptySeq
      <3>4. lines = << >> /\ P!Rest(bytes) = << >>
        BY <1>6, <3>3, NoLines, RestOfNothing
      <3>5. text = << >> /\ screen[v] = << >>
        BY <1>9, <2>1, <2>2, <3>1, <3>2, <3>4
      <3> QED BY <1>10, <1>13, <1>14, <3>4, <3>5, CountConcat
    <2>6. ASSUME v \in seenStarted'
          PROVE  /\ screen'[v] # << >> /\ screen'[v][1] = P!Header
                 /\ OneIn(screen'[v], {P!Header})
      <3>1. CASE v \in seenStarted
        <4>1. NoneIn(text, {P!Header})
          BY <2>1, <2>4, <3>1
        <4> QED BY <1>10, <1>13, <1>14, <2>2, <3>1, <4>1, CountConcat
      <3>2. CASE v \notin seenStarted
        <4>1. NeedsHeader(u)
          BY <1>8, <2>4, <2>6, <3>2
        <4>2. screen[v] \o text = text
          BY <1>10, <1>13, <2>2, <3>2, CountConcat
        <4> QED BY <1>14, <2>1, <4>1, <4>2
      <3> QED BY <3>1, <3>2
    <2>7. /\ v \in seenDone' => OneIn(screen'[v], FinalLines)
          /\ v \notin seenDone' => NoneIn(screen'[v], FinalLines)
      <3>1. v \in seenDone' <=> v \in seenDone \/ NeedsFinal(u)
        BY <1>8, <2>4
      <3>2. ~ (v \in seenDone /\ NeedsFinal(u))
        BY <2>4
      <3> QED BY <1>10, <1>13, <1>14, <2>1, <2>2, <3>1, <3>2, CountConcat
    <2> QED BY <2>5, <2>6, <2>7
  <1>23. ASSUME NEW w \in Vertices, w # v PROVE VertexOK(w)'
    <2>1. Settled(w) /\ Settled(w)'
      BY <1>4, <1>9, <1>18, <1>23 DEF Settled
    <2>2. (w \in seenStarted' <=> w \in seenStarted) /\ (w \in seenDone' <=> w \in seenDone)
      BY <1>8, <1>23
    <2> QED BY <1>1, <1>3, <1>14, <1>23, <2>1, <2>2, VertexKept
  <1>24. VertexOK(v)'
    BY <1>19, <1>21, <1>22 DEF VertexOK
  <1> QED BY <1>16, <1>17, <1>23, <1>24 DEF SolveInvariant

LEMMA DoneKeeps ==
    ASSUME SolveInvariant, P!Done
    PROVE  SolveInvariant'
  <1>1. SolveTypes /\ SendingOK /\ \A w \in Vertices : VertexOK(w)
    BY DEF SolveInvariant
  <1>2. /\ handler = "reading" /\ updatesChannel = "closed" /\ pending = {}
        /\ screen' = [v \in Vertices |-> screen[v]
                         \o P!If(buffer[v] # << >>, <<"log", buffer[v]>>)
                         \o P!If(mode = "interactive" /\ reported[v] = "started"
                                    /\ v \notin seenDone, P!Final("done"))]
        /\ buffer' = [v \in Vertices |-> << >>]
        /\ handler' = "returned"
        /\ UNCHANGED <<mode, updatesChannel, pending, updates, reported, logged, seenStarted,
                       seenDone, seenStatus>>
    BY DEF P!Done
  <1> DEFINE Late(v) == mode = "interactive" /\ reported[v] = "started" /\ v \notin seenDone
             logLine(v) == P!If(buffer[v] # << >>, <<"log", buffer[v]>>)
             lastLine(v) == P!If(Late(v), P!Final("done"))
  <1>3. ASSUME NEW v \in Vertices
        PROVE  /\ screen'[v] \in Seq(ScreenLines) /\ buffer'[v] = << >>
               /\ VertexOK(v)'
    <2>1. PICK a : a = logLine(v)
      OBVIOUS
    <2>2. PICK d : d = lastLine(v)
      OBVIOUS
    <2>3. screen'[v] = (screen[v] \o a) \o d /\ buffer'[v] = << >>
      BY <1>2, <2>1, <2>2
    <2>4. /\ logged[v] \in Seq(Bytes) /\ buffer[v] \in Seq(Bytes) /\ screen[v] \in Seq(ScreenLines)
          /\ Shown(screen[v]) \in Seq(Bytes)
      BY <1>1, ShownConcat DEF SolveTypes
    <2>5. /\ a \in Seq(ScreenLines) /\ NoneIn(a, FinalLines) /\ NoneIn(a, {P!Header})
          /\ buffer[v] = << >> => a = << >> /\ Shown(a) = << >>
          /\ buffer[v] # << >> => Shown(a) = buffer[v] \o <<"n">>
      <3>1. PICK line : line = <<"log", buffer[v]>>
        OBVIOUS
      <3>2. /\ line \in LogLines /\ P!LogBytes(line) = buffer[v] \o <<"n">>
        BY <2>4, <3>1, LinesAre
      <3>3. line \in ScreenLines /\ line \notin FinalLines /\ line \notin {P!Header}
        BY <3>2, LinesAre DEF ScreenLines, MidLines
      <3>4. a = P!If(buffer[v] # << >>, line) /\ (buffer[v] # << >>) \in BOOLEAN
        BY <2>1, <3>1
      <3> QED BY <3>2, <3>3, <3>4, CountIf
    <2>6. /\ d \in Seq(ScreenLines) /\ NoneIn(d, {P!Header}) /\ Shown(d) = << >>
          /\ Late(v) => OneIn(d, FinalLines)
          /\ ~ Late(v) => NoneIn(d, FinalLines) /\ d = << >>
      <3>1. PICK line : line = P!Final("done")
        OBVIOUS
      <3>2. /\ line \in FinalLines /\ line \in ScreenLines /\ line \notin {P!Header}
            /\ P!LogBytes(line) = << >>
        BY <3>1, FinalIs DEF P!Completed
      <3>3. d = P!If(Late(v), line) /\ Late(v) \in BOOLEAN
        BY <2>2, <3>1
      <3> HIDE DEF Late
      <3> QED BY <3>2, <3>3, CountIf
    <2>7. PICK sa : sa = screen[v] \o a
      OBVIOUS
    <2>8. sa \in Seq(ScreenLines) /\ screen'[v] = sa \o d /\ screen'[v] \in Seq(ScreenLines)
      BY <2>3, <2>4, <2>5, <2>6, <2>7, CountConcat
    <2>9. BytesOK(v) /\ SeenOK(v) /\ FrameOK(v) /\ Settled(v) /\ Settled(v)'
      BY <1>1, <1>2 DEF VertexOK, Settled
    <2>10. BytesOK(v)'
      <3>1. Shown(screen[v]) \o buffer[v] = logged[v]
        BY <1>2, <2>9 DEF BytesOK
      <3>2. Shown(screen'[v]) = Shown(sa) /\ Shown(sa) = Shown(screen[v]) \o Shown(a)
        <4>1. screen[v] \in Seq(ScreenLines) /\ a \in Seq(ScreenLines) /\ d \in Seq(ScreenLines)
              /\ Shown(d) = << >>
          BY <2>4, <2>5, <2>6
        <4>2. Shown(sa \o d) = Shown(sa)
          BY <2>8, <4>1, ShownNothing
        <4>3. Shown(screen[v] \o a) = Shown(screen[v]) \o Shown(a)
          BY <4>1, ShownConcat
        <4> QED BY <2>7, <2>8, <4>2, <4>3
      <3>3. CASE buffer[v] = << >>
        BY <1>2, <2>5, <3>1, <3>2, <3>3 DEF BytesOK
      <3>4. CASE buffer[v] # << >>
        <4>1. <<"n">> \in Seq(Bytes)
          BY LineEnds
        <4>2. (Shown(screen[v]) \o buffer[v]) \o <<"n">> = Shown(screen[v]) \o (buffer[v] \o <<"n">>)
          <5>1. PICK q : q = Shown(screen[v])
            OBVIOUS
          <5>2. PICK y : y = <<"n">>
            OBVIOUS
          <5>3. PICK r : r = buffer[v]
            OBVIOUS
          <5>4. q \in Seq(Bytes) /\ r \in Seq(Bytes) /\ y \in Seq(Bytes)
            BY <2>4, <4>1, <5>1, <5>2, <5>3
          <5>5. (q \o r) \o y = q \o (r \o y)
            BY <5>4, BytesConcat
          <5> QED BY <5>1, <5>2, <5>3, <5>5, Zenon
        <4>3. logged[v] \o <<"n">> = Append(logged[v], "n")
          BY <2>4, LineEnds, AppendIs
        <4>4. Shown(screen'[v]) = Append(logged[v], "n")
          BY <2>5, <3>1, <3>2, <3>4, <4>2, <4>3
        <4> QED BY <1>2, <4>4 DEF BytesOK
      <3> QED BY <3>3, <3>4
    <2>11. SeenOK(v)'
      <3>1. ASSUME NEW st, SomeIn(screen[v], {P!Final(st)})
            PROVE  SomeIn(screen'[v], {P!Final(st)})
        <4>1. SomeIn(screen[v] \o a, {P!Final(st)})
          BY <2>4, <2>5, <3>1, CountConcat
        <4>2. SomeIn(sa \o d, {P!Final(st)})
          BY <2>6, <2>7, <2>8, <4>1, CountConcat
        <4> QED BY <2>8, <4>2
      <3> HIDE DEF Late
      <3> QED BY <1>2, <2>9, <3>1 DEF SeenOK
    <2>12. FrameOK(v)'
      <3> SUFFICES ASSUME mode = "interactive"
                   PROVE  /\ v \notin seenStarted => screen'[v] = << >>
                          /\ v \in seenStarted => /\ screen'[v] # << >> /\ screen'[v][1] = P!Header
                                                  /\ OneIn(screen'[v], {P!Header})
                                                  /\ OneIn(screen'[v], FinalLines)
        <4>1. (\A k \in 1 .. Len(<< >>) : << >>[k] \notin FinalLines) /\ NoneIn(<< >>, FinalLines)
          BY EmptyIsSeq DEF NoneIn
        <4> QED BY <1>2, <2>3, <2>9, <4>1 DEF FrameOK, SeenOK
      <3>1. /\ v \notin seenStarted => screen[v] = << >> /\ buffer[v] = << >> /\ v \notin seenDone
            /\ v \in seenStarted => /\ screen[v] # << >> /\ screen[v][1] = P!Header
                                    /\ OneIn(screen[v], {P!Header})
            /\ v \in seenDone => OneIn(screen[v], FinalLines)
            /\ v \notin seenDone => NoneIn(screen[v], FinalLines)
        BY <1>2, <2>9 DEF FrameOK, SeenOK
      <3>2. CASE v \notin seenStarted
        <4>1. ~ Late(v)
          BY <2>9, <3>2 DEF SeenOK
        <4>2. a = << >> /\ d = << >> /\ screen[v] = << >>
          BY <2>5, <2>6, <3>1, <3>2, <4>1
        <4> QED BY <2>4, <2>5, <2>6, <2>7, <2>8, <3>2, <4>2, CountConcat
      <3>3. CASE v \in seenStarted
        <4>1. Late(v) <=> v \notin seenDone
          <5>1. v \notin seenDone => reported[v] = "started"
            BY <2>9, <3>3 DEF SeenOK
          <5> QED BY <5>1
        <4>2. /\ sa # << >> /\ sa[1] = P!Header /\ OneIn(sa, {P!Header})
              /\ v \in seenDone => OneIn(sa, FinalLines)
              /\ v \notin seenDone => NoneIn(sa, FinalLines)
          BY <2>4, <2>5, <2>7, <3>1, <3>3, CountConcat
        <4> HIDE DEF Late
        <4> QED BY <2>6, <2>8, <3>3, <4>1, <4>2, CountConcat
      <3> QED BY <3>2, <3>3
    <2> HIDE DEF Late
    <2> QED BY <2>3, <2>8, <2>10, <2>11, <2>12 DEF VertexOK
  <1> HIDE DEF Late
  <1>4. SolveTypes'
    <2>1. screen' \in [Vertices -> Seq(ScreenLines)]
      <3>1. DOMAIN screen' = Vertices /\ screen' = [v \in Vertices |-> screen'[v]]
        BY <1>2
      <3> QED BY <1>3, <3>1
    <2>2. buffer' \in [Vertices -> Seq(Bytes)]
      BY <1>2, EmptyIsSeq
    <2> QED BY <1>1, <1>2, <2>1, <2>2 DEF SolveTypes
  <1>5. SendingOK'
    BY <1>2 DEF SendingOK
  <1> QED BY <1>3, <1>4, <1>5 DEF SolveInvariant

LEMMA SolveStep ==
    ASSUME SolveInvariant, P!Step
    PROVE  SolveInvariant'
  BY SendKeeps, CloseKeeps, UpdateKeeps, DoneKeeps DEF P!Step

LEMMA SolveKept ==
    ASSUME SolveInvariant, UNCHANGED solveVars
    PROVE  SolveInvariant'
  <1>1. UNCHANGED <<mode, updatesChannel, pending, updates, reported, logged, seenStarted,
                    seenDone, seenStatus, buffer, screen, handler>>
    BY DEF solveVars
  <1>2. SolveTypes'
    BY <1>1 DEF SolveInvariant, SolveTypes
  <1>3. SendingOK'
    BY <1>1 DEF SolveInvariant, SendingOK
  <1>4. \A v \in Vertices : VertexOK(v)'
    BY <1>1 DEF SolveInvariant, VertexOK, BytesOK, SeenOK, FrameOK, Settled
  <1> QED BY <1>2, <1>3, <1>4 DEF SolveInvariant

LEMMA ScreenIsTrue ==
    ASSUME SolveInvariant
    PROVE  P!ScreenTellsTheSolve
  <1>1. SolveTypes /\ SendingOK /\ \A w \in Vertices : VertexOK(w)
    BY DEF SolveInvariant
  <1>2. P!TypeOK
    <2>1. P!Cardinality(pending) <= 1
      <3>1. Cardinality({}) = 0 /\ \A u : Cardinality({u}) = 1
        BY FS_EmptySet, FS_Singleton
      <3>2. Cardinality(pending) \in {0, 1}
        BY <1>1, <3>1 DEF SendingOK
      <3> QED BY <3>2, SameCardinality
    <2> QED BY <1>1, <2>1 DEF SolveTypes, VertexStates, P!TypeOK
  <1>3. ASSUME pending = {}, NEW v \in Vertices
        PROVE  /\ handler = "reading" => P!Printed(v) \o buffer[v] = logged[v]
               /\ handler = "returned" => P!Printed(v) \in {logged[v], Append(logged[v], P!EndOfLine)}
               /\ reported[v] \in P!Completed => P!Occurrences(v, P!Final(reported[v])) # {}
               /\ mode = "interactive" =>
                     /\ P!Cardinality(P!Occurrences(v, P!Header)) <= 1
                     /\ P!Cardinality(P!Finals(v)) <= 1
                     /\ P!Finals(v) # {} => screen[v][1] = P!Header
                     /\ handler = "returned" /\ P!Occurrences(v, P!Header) # {} => P!Finals(v) # {}
    <2>1. BytesOK(v) /\ SeenOK(v) /\ FrameOK(v) /\ Settled(v)
      BY <1>1, <1>3 DEF VertexOK, Settled
    <2>2. P!Printed(v) = Shown(screen[v])
      BY SameFlatten DEF P!Printed, Shown
    <2>3. screen[v] \in Seq(ScreenLines) /\ DOMAIN screen[v] = 1 .. Len(screen[v])
      BY <1>1, LenProperties DEF SolveTypes
    <2>4. reported[v] \in P!Completed => P!Occurrences(v, P!Final(reported[v])) # {}
      BY <2>1, <2>3 DEF SeenOK, SomeIn, P!Occurrences
    <2>5. P!Finals(v) = {k \in 1 .. Len(screen[v]) : screen[v][k] \in FinalLines}
      <3>1. \A k \in 1 .. Len(screen[v]) : screen[v][k] \in ScreenLines
        BY <2>3, ElementOfSeq
      <3> QED BY <2>3, <3>1, LinesAre DEF P!Finals
    <2>6. P!Occurrences(v, P!Header) = {k \in 1 .. Len(screen[v]) : screen[v][k] \in {P!Header}}
      BY <2>3 DEF P!Occurrences
    <2>7. ASSUME NEW A
          PROVE  LET K == {k \in 1 .. Len(screen[v]) : screen[v][k] \in A}
                 IN  /\ NoneIn(screen[v], A) => K = {}
                     /\ OneIn(screen[v], A) => K # {} /\ \E k : K = {k}
      BY DEF NoneIn, OneIn
    <2>8. \A K : K = {} \/ (\E k : K = {k}) => P!Cardinality(K) <= 1
      <3>1. Cardinality({}) = 0 /\ \A k : Cardinality({k}) = 1
        BY FS_EmptySet, FS_Singleton
      <3> QED BY <3>1, SameCardinality
    <2>9. ASSUME mode = "interactive"
          PROVE  /\ P!Cardinality(P!Occurrences(v, P!Header)) <= 1
                 /\ P!Cardinality(P!Finals(v)) <= 1
                 /\ P!Finals(v) # {} => screen[v][1] = P!Header
                 /\ handler = "returned" /\ P!Occurrences(v, P!Header) # {} => P!Finals(v) # {}
      <3>1. CASE v \notin seenStarted
        <4>1. screen[v] = << >>
          BY <2>1, <2>9, <3>1 DEF FrameOK
        <4>2. P!Finals(v) = {} /\ P!Occurrences(v, P!Header) = {}
          BY <2>3, <4>1, EmptyIsSeq DEF P!Finals, P!Occurrences
        <4> QED BY <2>8, <4>2
      <3>2. CASE v \in seenStarted
        <4>1. /\ screen[v][1] = P!Header /\ OneIn(screen[v], {P!Header})
              /\ NoneIn(screen[v], FinalLines) \/ OneIn(screen[v], FinalLines)
              /\ handler = "returned" => OneIn(screen[v], FinalLines)
          BY <2>1, <2>9, <3>2 DEF FrameOK
        <4>2. /\ P!Finals(v) = {} \/ \E k : P!Finals(v) = {k}
              /\ handler = "returned" => P!Finals(v) # {}
          BY <2>5, <2>7, <4>1
        <4>3. \E k : P!Occurrences(v, P!Header) = {k}
          BY <2>6, <2>7, <4>1
        <4> QED BY <2>8, <4>1, <4>2, <4>3
      <3> QED BY <3>1, <3>2
    <2> QED BY <1>3, <2>1, <2>2, <2>4, <2>9 DEF BytesOK, P!EndOfLine
  <1> QED BY <1>2, <1>3 DEF P!ScreenTellsTheSolve
-----------------------------------------------------------------------------
(* The scripts.                                                            *)

\* Where a script can be, and what the commands before have made sure of: a build
\* waits first and finds no SBOM begun, and `ch sbom` finds a tar of everything.
OrderOK ==
    /\ \/ kind = "build" /\ script \in {"wait", "build", "sbom", "succeeded", "failed"}
       \/ kind = "sbom" /\ script \in {"sbom", "succeeded", "failed"}
       \/ kind = "test" /\ script \in {"wait", "test", "succeeded", "failed"}
       \/ /\ kind \in {"manifest", "cuts", "dev", "solve"}
          /\ script \in {"finalize", "cut", "dev", "solve", "succeeded", "failed"}
    /\ script \in {"build", "test"} => waited = "ok"
    /\ script \in {"wait", "build"} => made = "none" /\ \A w \in Workers : worker[w] = "idle"
    /\ kind = "build" /\ script \in {"sbom", "succeeded"} => \A c \in selected : tars[c] # 0
    /\ kind = "build" /\ script = "succeeded" => made = "ok"

JobInvariant ==
    /\ OrderOK /\ WaitInvariant /\ SbomInvariant /\ TestInvariant
    /\ CutInvariant /\ DevInvariant /\ SolveInvariant
    /\ kind = "manifest" => FinalizeInvariant

LEMMA JobStarts == Init => JobInvariant
  <1> SUFFICES ASSUME Init PROVE JobInvariant
    OBVIOUS
  <1>1. \A k \in {"build", "test"} : \A ts \in WaitFlags[k] : ts \in SUBSET Targets
    BY JobsAssumption DEF JobsAssumption
  <1>2. Selections \subseteq SUBSET Cases
    BY JobsAssumption DEF JobsAssumption
  <1>3. ASSUME NoWait PROVE WaitInvariant
    BY <1>3, WaitStarts DEF NoWait
  <1>4. ASSUME NoSbom PROVE SbomInvariant
    BY <1>4, PoolStarts DEF NoSbom
  <1>5. ASSUME NoCuts PROVE CutInvariant
    BY <1>5, CutsStart DEF NoCuts
  <1>6. ASSUME NoDev PROVE DevInvariant
    BY <1>6, DevStarts DEF NoDev
  <1>7. ASSUME NoTest PROVE TestInvariant
    <2> DEFINE in == [chosen |-> {}, present |-> {}, broken |-> {},
                      explicit |-> FALSE, registry |-> FALSE]
    <2>1. in \in T!Inputs(in.chosen) /\ in.chosen \subseteq Cases
      BY DEF T!Inputs
    <2>2. T!Start(in, {})
      BY <1>7 DEF NoTest
    <2> HIDE DEF in
    <2> QED BY <2>1, <2>2, TestStarts
  <1>8. ASSUME NoSolve PROVE SolveInvariant
    BY <1>8, SolveStarts DEF NoSolve
  <1>9. \A its : S!Start(its) => made = "none" /\ \A w \in Workers : worker[w] = "idle"
    BY DEF S!Start
  <1>10. CASE BuildJob
    <2>1. WaitInvariant
      BY <1>1, <1>10, WaitStarts DEF BuildJob
    <2>2. PICK its \in Selections : S!Start(its)
      BY <1>10 DEF BuildJob
    <2>3. tars \in [Cases -> Nat] /\ sboms \in [Cases -> Nat \cup {S!Torn}]
      BY <1>10 DEF BuildJob
    <2>4. SbomInvariant
      BY <1>2, <2>2, <2>3, PoolStarts
    <2>5. OrderOK
      BY <1>9, <1>10, <2>2 DEF BuildJob, OrderOK
    <2> QED BY <1>5, <1>6, <1>7, <1>8, <1>10, <2>1, <2>4, <2>5 DEF BuildJob, NoHand, JobInvariant
  <1>11. CASE SbomByHand
    <2>1. PICK its \in Selections : \E second, old \in SUBSET its :
             /\ S!Start(its)
             /\ \E there \in SUBSET its :
                   tars = [c \in Cases |-> IF c \notin there THEN 0 ELSE IF c \in second THEN 2 ELSE 1]
             /\ sboms = [c \in Cases |-> IF c \in old THEN 1 ELSE 0]
      BY <1>11 DEF SbomByHand
    <2>2. S!Start(its) /\ tars \in [Cases -> Nat] /\ sboms \in [Cases -> Nat \cup {S!Torn}]
      BY <2>1
    <2>3. SbomInvariant
      BY <1>2, <2>2, PoolStarts
    <2>4. OrderOK
      BY <1>11 DEF SbomByHand, OrderOK
    <2> QED BY <1>3, <1>5, <1>6, <1>7, <1>8, <1>11, <2>3, <2>4 DEF SbomByHand, NoHand, JobInvariant
  <1>12. CASE TestJob
    <2>1. WaitInvariant
      BY <1>1, <1>12, WaitStarts DEF TestJob
    <2>2. OrderOK
      BY <1>9, <1>12 DEF TestJob, NoSbom, OrderOK
    <2>3. PICK chosen \in Selections : \E in \in T!Inputs(chosen) :
             \E pulled \in SUBSET (in.chosen \ in.present) : T!Start(in, pulled)
      BY <1>12 DEF TestJob
    <2>4. PICK in \in T!Inputs(chosen) : \E pulled : T!Start(in, pulled)
      BY <2>3
    <2>5. in.chosen = chosen /\ chosen \subseteq Cases
      BY <1>2 DEF T!Inputs
    <2>6. TestInvariant
      BY <2>4, <2>5, TestStarts
    <2> QED BY <1>4, <1>5, <1>6, <1>8, <1>12, <2>1, <2>2, <2>6 DEF TestJob, NoHand, JobInvariant
  <1>13. CASE ManifestJob
    BY <1>3, <1>4, <1>5, <1>6, <1>7, <1>8, <1>13, FinalizeStarts
       DEF ManifestJob, NoHand, OrderOK, JobInvariant
  <1>14. CASE Cuts
    <2>1. CutInvariant
      BY <1>14, CutsStart DEF Cuts, B!Init
    <2> QED BY <1>3, <1>4, <1>6, <1>7, <1>8, <1>14, <2>1 DEF Cuts, OrderOK, JobInvariant
  <1>15. CASE Development
    <2>1. DevInvariant
      BY <1>15, DevStarts DEF Development, D!Init
    <2> QED BY <1>3, <1>4, <1>5, <1>7, <1>8, <1>15, <2>1 DEF Development, OrderOK, JobInvariant
  <1>16. CASE OneSolve
    <2>1. SolveInvariant
      BY <1>16, SolveStarts DEF OneSolve, P!Init
    <2> QED BY <1>3, <1>4, <1>5, <1>6, <1>7, <1>16, <2>1 DEF OneSolve, OrderOK, JobInvariant
  <1> QED BY <1>10, <1>11, <1>12, <1>13, <1>14, <1>15, <1>16 DEF Init

\* `ch build` makes tars before any worker of `ch sbom` looks at them.
LEMMA RunBuildKeeps ==
    ASSUME JobInvariant, RunBuild
    PROVE  JobInvariant'
  <1>1. PICK finished \in SUBSET selected :
           /\ tars' = [c \in Cases |-> IF c \in finished THEN tars[c] + 1 ELSE tars[c]]
           /\ script' = IF finished = selected THEN "sbom" ELSE "failed"
    BY DEF RunBuild
  <1>2. /\ script = "build" /\ kind = "build" /\ made = "none"
        /\ \A w \in Workers : worker[w] = "idle"
        /\ UNCHANGED <<kind, waitVars, selected, sboms, queue, item, data, worker,
                       firstErr, generated, made, testVars, handVars>>
    BY DEF RunBuild, JobInvariant, OrderOK
  <1>3. tars \in [Cases -> Nat] /\ selected \subseteq Cases
    BY DEF JobInvariant, SbomInvariant, S!TypeOK
  <1>4. tars' \in [Cases -> Nat]
    BY <1>1, <1>3
  <1>5. SbomInvariant'
    <2>1. S!TypeOK'
      BY <1>2, <1>4 DEF JobInvariant, SbomInvariant, S!TypeOK
    <2>2. queue = << >> /\ firstErr = {} /\ \A w \in Workers : item[w] = {}
      BY <1>2 DEF JobInvariant, SbomInvariant, QueueOK, HandsOK
    <2>3. S!ToSet(queue) = {} /\ DOMAIN queue = {}
      BY <2>2 DEF S!ToSet
    <2>4. HandsOK'
      BY <1>2, <2>2, <2>3 DEF HandsOK, Handed
    <2>5. QueueOK'
      BY <1>2, <2>2, <2>3 DEF QueueOK
    <2>6. NothingLost' /\ ResultOK'
      BY <1>2 DEF NothingLost, ResultOK
    <2> QED BY <2>1, <2>4, <2>5, <2>6 DEF SbomInvariant
  <1>6. OrderOK'
    <2>1. script' = "sbom" => \A c \in selected : tars'[c] # 0
      BY <1>1, <1>3
    <2> QED BY <1>1, <1>2, <2>1 DEF OrderOK
  <1> QED BY <1>2, <1>5, <1>6, WaitKept, TestKept, CutKept, DevKept, SolveKept
             DEF JobInvariant, handVars

\* A step changes the variables of one command, or ends it.
LEMMA JobStep ==
    ASSUME JobInvariant, [Next]_vars
    PROVE  JobInvariant'
  <1>1. CASE RunWait
    <2>1. WaitInvariant'
      BY <1>1, WaitStep DEF RunWait, JobInvariant
    <2>2. UNCHANGED <<kind, script, sbomVars, testVars, cutVars, devVars,
                      solveVars>> /\ script = "wait"
      BY <1>1 DEF RunWait, OutsideWait, handVars
    <2>3. OrderOK'
      BY <2>2 DEF JobInvariant, OrderOK, sbomVars
    <2>4. UNCHANGED <<kind, finalizeVars>>
      BY <1>1 DEF RunWait, OutsideWait
    <2> QED BY <2>1, <2>2, <2>3, <2>4, SbomKept, TestKept, CutKept, DevKept, SolveKept, FinalizeKept
               DEF JobInvariant
  <1>2. CASE WaitEnds
    <2>1. WaitInvariant'
      BY <1>2, WaitEndsInvariant DEF JobInvariant
    <2>2. /\ script = "wait" /\ script' = IF waited = "ok" THEN kind ELSE "failed"
          /\ UNCHANGED <<kind, waited, sbomVars, testVars, cutVars, devVars, solveVars, finalizeVars>>
      BY <1>2 DEF WaitEnds, handVars
    <2>3. kind \in {"build", "test"}
      BY <2>2 DEF JobInvariant, OrderOK
    <2>4. OrderOK'
      BY <2>2, <2>3 DEF JobInvariant, OrderOK, sbomVars
    <2> QED BY <2>1, <2>2, <2>4, SbomKept, TestKept, CutKept, DevKept, SolveKept, FinalizeKept
               DEF JobInvariant
  <1>3. CASE RunBuild
    BY <1>3, RunBuildKeeps
  <1>4. CASE RunSbom
    <2>1. SbomInvariant'
      BY <1>4, SbomStep DEF RunSbom, JobInvariant
    <2>2. /\ script = "sbom" /\ S!Step
          /\ UNCHANGED <<kind, script, waitVars, testVars, cutVars, devVars, solveVars, finalizeVars>>
      BY <1>4 DEF RunSbom, handVars
    <2>3. UNCHANGED <<selected, tars>>
      BY <2>2 DEF S!Step, S!Collect, S!Finish, S!Take, S!Generate, S!Write, S!Fails, S!files
    <2>4. OrderOK'
      BY <2>2, <2>3 DEF JobInvariant, OrderOK
    <2> QED BY <2>1, <2>2, <2>4, WaitKept, TestKept, CutKept, DevKept, SolveKept, FinalizeKept
               DEF JobInvariant
  <1>5. CASE SbomEnds
    <2>1. /\ script = "sbom" /\ made # "none"
          /\ script' = IF made = "ok" THEN "succeeded" ELSE "failed"
          /\ UNCHANGED <<kind, waitVars, sbomVars, testVars, cutVars, devVars, solveVars,
                         finalizeVars>>
      BY <1>5 DEF SbomEnds, commands, handVars
    <2>2. OrderOK'
      BY <2>1 DEF JobInvariant, OrderOK, sbomVars
    <2> QED BY <2>1, <2>2, WaitKept, SbomKept, TestKept, CutKept, DevKept, SolveKept, FinalizeKept
               DEF JobInvariant
  <1>6. CASE RunTest
    <2>1. TestInvariant'
      BY <1>6, TestStep DEF RunTest, JobInvariant
    <2>2. UNCHANGED <<kind, script, waitVars, sbomVars, cutVars, devVars, solveVars, finalizeVars>>
      BY <1>6 DEF RunTest, handVars
    <2>3. OrderOK'
      BY <2>2 DEF JobInvariant, OrderOK, waitVars, sbomVars
    <2> QED BY <2>1, <2>2, <2>3, WaitKept, SbomKept, CutKept, DevKept, SolveKept, FinalizeKept
               DEF JobInvariant
  <1>7. CASE RunSolve
    <2>1. SolveInvariant'
      BY <1>7, SolveStep DEF RunSolve, JobInvariant
    <2>2. UNCHANGED <<kind, script, waitVars, sbomVars, testVars, cutVars, devVars, finalizeVars>>
      BY <1>7 DEF RunSolve, OutsideHand
    <2>3. OrderOK'
      BY <2>2 DEF JobInvariant, OrderOK, waitVars, sbomVars
    <2> QED BY <2>1, <2>2, <2>3, WaitKept, SbomKept, TestKept, CutKept, DevKept, FinalizeKept
               DEF JobInvariant
  <1>8. CASE UNCHANGED vars
    <2>1. UNCHANGED <<kind, script, waitVars, sbomVars, testVars, cutVars, devVars, solveVars,
                      finalizeVars>>
      BY <1>8 DEF vars, commands, handVars
    <2>2. OrderOK'
      BY <2>1 DEF JobInvariant, OrderOK, waitVars, sbomVars
    <2> QED BY <2>1, <2>2, WaitKept, SbomKept, TestKept, CutKept, DevKept, SolveKept, FinalizeKept
               DEF JobInvariant
  <1>9. CASE TestEnds \/ FinalizeEnds \/ CutsEnd \/ DevEnds \/ SolveEnds
    <2>1. /\ script \in {"test", "finalize", "cut", "dev", "solve"}
          /\ script' \in {"succeeded", "failed"}
          /\ UNCHANGED <<kind, waitVars, sbomVars, testVars, cutVars, devVars, solveVars,
                         finalizeVars>>
      BY <1>9 DEF TestEnds, FinalizeEnds, CutsEnd, DevEnds, SolveEnds, commands, handVars
    <2>2. kind # "build"
      BY <2>1 DEF JobInvariant, OrderOK
    <2>3. OrderOK'
      BY <2>1, <2>2 DEF JobInvariant, OrderOK
    <2> QED BY <2>1, <2>3, WaitKept, SbomKept, TestKept, CutKept, DevKept, SolveKept, FinalizeKept
               DEF JobInvariant
  <1>10. CASE RunCut
    <2>1. CutInvariant'
      BY <1>10, CutStep DEF RunCut, JobInvariant
    <2>2. UNCHANGED <<kind, script, waitVars, sbomVars, testVars, devVars, solveVars, finalizeVars>>
      BY <1>10 DEF RunCut, OutsideCut, OutsideHand
    <2>3. OrderOK'
      BY <2>2 DEF JobInvariant, OrderOK, waitVars, sbomVars
    <2> QED BY <2>1, <2>2, <2>3, WaitKept, SbomKept, TestKept, DevKept, SolveKept, FinalizeKept
               DEF JobInvariant
  <1>11. CASE RunDev
    <2>1. DevInvariant'
      BY <1>11, DevStep DEF RunDev, JobInvariant
    <2>2. UNCHANGED <<kind, script, waitVars, sbomVars, testVars, cutVars, solveVars, finalizeVars>>
      BY <1>11 DEF RunDev, OutsideHand
    <2>3. OrderOK'
      BY <2>2 DEF JobInvariant, OrderOK, waitVars, sbomVars
    <2> QED BY <2>1, <2>2, <2>3, WaitKept, SbomKept, TestKept, CutKept, SolveKept, FinalizeKept
               DEF JobInvariant
  <1>12. CASE RunFinalize
    <2>1. /\ F!Step /\ script = "finalize"
          /\ UNCHANGED <<kind, script, waitVars, sbomVars, testVars, cutVars, devVars, solveVars>>
      BY <1>12 DEF RunFinalize, handVars
    <2>2. OrderOK'
      BY <2>1 DEF JobInvariant, OrderOK, waitVars, sbomVars
    <2> QED BY <2>1, <2>2, WaitKept, SbomKept, TestKept, CutKept, DevKept, SolveKept, FinalizeStep
               DEF JobInvariant
  <1> QED BY <1>1, <1>2, <1>3, <1>4, <1>5, <1>6, <1>7, <1>8, <1>9, <1>10, <1>11, <1>12 DEF Next, Run

LEMMA JobInvariantHolds == Spec => []JobInvariant
  BY JobStarts, JobStep, PTL DEF Spec
-----------------------------------------------------------------------------
\* pkg/wait/wait.go and the scripts that ch ci generate writes: for any targets,
\* nothing is built or tested before every daemon the job waits for has answered,
\* and a wait that fails had a reason.
THEOREM DaemonsAnsweredHolds == Spec => []DaemonsAnswered
  <1>1. JobInvariant => DaemonsAnswered
    BY DEF JobInvariant, OrderOK, WaitInvariant, SbomInvariant, DaemonsAnswered, TypeOK,
           W!DaemonsAnswered
  <1> QED BY <1>1, JobInvariantHolds, PTL

\* pkg/sbom and pkg/cli/sbom.go: for any finite set of items and up to four
\* workers, no item is given to two workers or lost while the command can succeed,
\* and a build job that succeeds leaves beside every selected tar the SBOM of that
\* very tar, though its tars were made by a command before.
THEOREM SbomsDescribeTarsHolds == Spec => []SbomsDescribeTars
  <1>1. ASSUME JobInvariant PROVE SbomsDescribeTars
    <2>1. S!SbomsDescribeTars
      BY <1>1, InvariantDescribes DEF JobInvariant
    <2>2. ASSUME script = "succeeded", kind = "build", NEW c \in selected
          PROVE  sboms[c] = tars[c] /\ tars[c] # 0
      <3>1. made = "ok" /\ tars[c] # 0
        BY <1>1, <2>2 DEF JobInvariant, OrderOK
      <3>2. c \in S!Stat /\ Written = S!Stat
        BY <1>1, <3>1 DEF JobInvariant, SbomInvariant, ResultOK, S!Stat
      <3> QED BY <3>1, <3>2 DEF Written
    <2> QED BY <2>1, <2>2 DEF SbomsDescribeTars
  <1> QED BY <1>1, JobInvariantHolds, PTL

\* pkg/test/test.go and internal/container_structure_test/main.go: for any cases
\* and definition files, and in whatever order the goroutines of the tests, also
\* abandoned ones, and the reader of their channels take their steps, a report has
\* all results of its case, made with its own image unless the daemon had an older
\* one; and a command that is not interrupted judges every case that can be tested
\* and succeeds only if all of them passed.
THEOREM TestsJudgeImagesHolds == Spec => []TestsJudgeImages
  <1>1. JobInvariant => TestsJudgeImages
    BY TestsAreJudged DEF JobInvariant, TestsJudgeImages
  <1> QED BY <1>1, JobInvariantHolds, PTL

\* pkg/progress and the solve of internal/buildkit/main.go: for any vertices, log
\* chunks and updates, whatever BuildKit repeats or leaves out, the display prints
\* every byte of every log once and in order, says how each step completed, and on
\* a terminal puts one header before what it prints of a step and prints one final
\* line for it.
THEOREM ScreenTellsTheSolveHolds == Spec => []ScreenTellsTheSolve
  <1>1. JobInvariant => ScreenTellsTheSolve
    BY ScreenIsTrue DEF JobInvariant, ScreenTellsTheSolve
  <1> QED BY <1>1, JobInvariantHolds, PTL

\* pkg/registry/registry.go and pkg/rendering: for any definitions whose names are
\* their own, and in whatever order a finalize takes them, an alias it copies is
\* the manifest this run made of the highest of the versions it stands for, never a
\* prerelease, and what the filter leaves out is not touched.
THEOREM AliasesFollowManifestsHolds == Spec => []AliasesFollowManifests
  <1>1. JobInvariant => AliasesFollowManifests
    BY FinalizeSafe DEF JobInvariant, AliasesFollowManifests
  <1> QED BY <1>1, JobInvariantHolds, PTL

\* internal/buildkitd: however many commands start and stop the daemon at the same
\* time, no start takes the container away from another one that succeeded.
THEOREM DaemonsAreKeptHolds == Spec => []DaemonsAreKept
  <1>1. JobInvariant => DaemonsAreKept
    BY DevInvariantKeeps DEF JobInvariant, DaemonsAreKept
  <1> QED BY <1>1, JobInvariantHolds, PTL

\* internal/buildkit/build_context: for any builds, releases and layers, whatever
\* shares the daemon, is killed or goes offline, a cut is of one commit that was
\* the newest while its script ran and with the pinned chisel; the image has every
\* file of its layers; and a killed git breaks later builds of that release only.
THEOREM CutsAreSoundHolds == Spec => []CutsAreSound
  <1>1. ASSUME JobInvariant PROVE CutsAreSound
    <2>1. CutInvariant /\ \A b \in Builds : BuildOK(b)
      BY <1>1 DEF JobInvariant, CutInvariant
    <2>2. B!Cardinality(holder) <= 1
      <3>1. holder = {} \/ \E b : holder = {b}
        BY <2>1 DEF CutInvariant, HolderOK
      <3>2. Cardinality({}) = 0 /\ \A b : Cardinality({b}) = 1
        BY FS_EmptySet, FS_Singleton
      <3>3. Cardinality(holder) \in {0, 1}
        BY <3>1, <3>2
      <3>4. B!Cardinality(holder) = Cardinality(holder)
        BY SameCardinality
      <3> QED BY <3>3, <3>4
    <2>3. B!TypeOK
      BY <2>1, <2>2 DEF CutInvariant, CutTypes, HolderOK, B!TypeOK
    <2>4. ASSUME NEW b \in B!Chisel
          PROVE  /\ phase[b] = "built" =>
                       /\ got[b] # B!Mixed /\ begun[b] <= got[b] /\ got[b] \in 1 .. B!Newest(b)
                       /\ Contexts[b].pin # B!NoVersion => tool[b] = Contexts[b].pin
                 /\ phase[b] = "failed" /\ cause[b] \in {"clone", "lock"} =>
                       Contexts[b].cache /\ B!checkoutDir(b) \in hurt
      <3>1. CommitOK(b)
        BY <2>1 DEF BuildOK, B!Chisel
      <3>2. \A n \in Nat : B!Mixed \notin 1 .. n
        BY DEF B!Mixed
      <3>3. B!Newest(b) \in Nat
        BY <2>1, NewestType DEF CutInvariant, B!Chisel
      <3> QED BY <3>1, <3>2, <3>3 DEF CommitOK, Cached
    <2>5. ASSUME NEW b \in Builds, phase[b] = "built"
          PROVE  /\ B!IsLayered(b, out[b])
                 /\ \A v \in DOMAIN Contexts[b].env : env[b][v] = Contexts[b].env[v]
      <3>1. /\ out[b] = B!Assembled(b) /\ ~ B!AssemblyFails(b)
            /\ env[b] = B!Over(Contexts[b].env, Contexts[b].parentEnv)
        BY <2>1, <2>5 DEF BuildOK, ImageOK
      <3>2. B!IsLayered(b, out[b])
        BY <3>1, LayersMerge
      <3>3. \A v \in DOMAIN Contexts[b].env : env[b][v] = Contexts[b].env[v]
        BY <3>1 DEF B!Over
      <3> QED BY <3>2, <3>3
    <2>6. B!CutIsOneCommit /\ B!FailureStaysInRelease
      BY <2>4 DEF B!CutIsOneCommit, B!FailureStaysInRelease
    <2>7. B!ImageIsLayered
      BY <2>5 DEF B!ImageIsLayered
    <2> QED BY <2>3, <2>6, <2>7 DEF CutsAreSound, B!CutsAreSound
  <1> QED BY <1>1, JobInvariantHolds, PTL
=============================================================================
