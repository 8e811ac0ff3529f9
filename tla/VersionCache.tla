---------------------------- MODULE VersionCache ----------------------------
(***************************************************************************)
(* tagrange.Cache for one cache key: processes that share a cache          *)
(* directory, each with an in-memory layer and a singleflight group, whose *)
(* goroutines call FetchVersions. Every goroutine is one call. An entry    *)
(* stands for the versions the source listed at a moment; files are inodes *)
(* reached through names, so that a rename and an open descriptor on the   *)
(* same file are told apart.                                               *)
(***************************************************************************)
EXTENDS Integers, FiniteSets

CONSTANTS
    Processes, Goroutines,
    ProcessOf,      \* ProcessOf[t]: the process a goroutine runs in
    Pid,            \* Pid[p]: os.Getpid(), equal for processes of two containers
    Refreshable,    \* processes that may be started with --refresh-versions
    SourceTTL,      \* SourceTTL[t]: ttl of the range's source, or Unset
    HiveTTL,        \* version_cache_ttl of hive.yml, or Unset
    defaultTTL,
    Unset,
    Inodes,
    MaxTime, MaxCrashes

ASSUME CacheAssumption ==
    /\ ProcessOf \in [Goroutines -> Processes]
    /\ Refreshable \subseteq Processes
    /\ defaultTTL \in Nat /\ MaxTime \in Nat /\ MaxCrashes \in Nat
    /\ SourceTTL \in [Goroutines -> Nat \cup {Unset}]
    /\ HiveTTL \in Nat \cup {Unset}
    /\ Unset \notin Nat
    \* one inode for the entry, one per temporary name and per open file
    /\ IsFiniteSet(Inodes) /\ IsFiniteSet(Processes)
    /\ Cardinality(Inodes) > 2 * Cardinality(Processes)

VARIABLES
    clock,
    memory,      \* memory[p]: at most one entry
    unwritable,  \* unwritable[p]
    flight,      \* flight[p]: the goroutine that runs the function of group.Do
    content,     \* content[i]: the entry an inode holds, {} while it is partial
    path,        \* the inode of <key>.json, if any
    tmp,         \* tmp[id]: the inode of <key>.json.tmp.<id>, if any
    fd,          \* fd[p]: the inode p's WriteFile has open
    pc, draft,   \* of each goroutine: its place, and the entry it is storing
    answer,      \* what a finished call returned; {} is an error
    started,     \* started[p]: when the process was started, and how
    sourceDown,  \* processes that had a fetch fail
    crashes

disk == <<content, path, tmp, fd>>
calls == <<pc, draft, answer>>
vars == <<clock, memory, unwritable, flight, disk, calls, started, sourceDown, crashes>>

Times == 0 .. MaxTime
Pids == {Pid[p] : p \in Processes}
\* at: when the source answered; stamped: FetchedAt; expires: ExpiresAt.
Entries == [at : Times, stamped : Times, expires : Nat]
-----------------------------------------------------------------------------
Init ==
    /\ clock = 0
    /\ memory = [p \in Processes |-> {}]
    /\ unwritable = [p \in Processes |-> FALSE]
    /\ flight = [p \in Processes |-> {}]
    /\ content = [i \in Inodes |-> {}]
    /\ path = {}
    /\ tmp = [id \in Pids |-> {}]
    /\ fd = [p \in Processes |-> {}]
    /\ pc = [t \in Goroutines |-> "idle"]
    /\ draft = [t \in Goroutines |-> {}]
    /\ answer = [t \in Goroutines |-> {}]
    /\ \E r \in SUBSET Refreshable :
         started = [p \in Processes |-> [at |-> 0, refresh |-> p \in r]]
    /\ sourceDown = {}
    /\ crashes = 0

\* valid(): an entry that could be decoded and has not expired.
Valid(e) == clock < e.expires

Refreshing(p) == started[p].refresh

Goto(t, place) ==
    /\ pc' = [pc EXCEPT ![t] = place]
    /\ UNCHANGED <<draft, answer>>

\* Mutated form: the result reaches only the call that ran the function.
DeliverToLeaderOnly(t, a) ==
    /\ answer' = [answer EXCEPT ![t] = a]
    /\ pc' = [pc EXCEPT ![t] = "done"]
    /\ draft' = [draft EXCEPT ![t] = {}]
    /\ flight' = [flight EXCEPT ![ProcessOf[t]] = @ \ {t}]

\* The call returns a. Every call that waits in group.Do returns it as well when
\* t runs the group's function.
Deliver(t, a) ==
    LET p == ProcessOf[t]
        served == {t} \cup (IF t \in flight[p]
                            THEN {u \in Goroutines : ProcessOf[u] = p /\ pc[u] = "wait"}
                            ELSE {})
    IN  /\ answer' = [u \in Goroutines |-> IF u \in served THEN a ELSE answer[u]]
        /\ pc' = [u \in Goroutines |-> IF u \in served THEN "done" ELSE pc[u]]
        /\ draft' = [draft EXCEPT ![t] = {}]
        /\ flight' = [flight EXCEPT ![p] = @ \ {t}]

\* FetchVersions looks into the cache first, unless a refresh is forced.
Call(t) ==
    /\ pc[t] = "idle"
    /\ pc' = [pc EXCEPT ![t] = IF Refreshing(ProcessOf[t]) THEN "enter" ELSE "load"]
    /\ UNCHANGED <<clock, memory, unwritable, flight, disk, draft, answer, started,
                   sourceDown, crashes>>

\* Mutated form: the function does not look again.
EnterNoRecheck(t) ==
    LET p == ProcessOf[t]
    IN  /\ pc[t] = "enter"
        /\ flight' = [flight EXCEPT ![p] = IF @ = {} THEN {t} ELSE @]
        /\ Goto(t, IF flight[p] = {} THEN "fetch" ELSE "wait")
        /\ UNCHANGED <<clock, memory, unwritable, disk, started, sourceDown, crashes>>

\* Mutated form: the function looks again although a refresh is forced.
EnterAlwaysRechecks(t) ==
    LET p == ProcessOf[t]
    IN  /\ pc[t] = "enter"
        /\ flight' = [flight EXCEPT ![p] = IF @ = {} THEN {t} ELSE @]
        /\ Goto(t, IF flight[p] = {} THEN "reload" ELSE "wait")
        /\ UNCHANGED <<clock, memory, unwritable, disk, started, sourceDown, crashes>>

\* group.Do: one goroutine runs the function, the others wait for its result.
\* The function looks again, unless a refresh is forced.
Enter(t) ==
    LET p == ProcessOf[t]
    IN  /\ pc[t] = "enter"
        /\ flight' = [flight EXCEPT ![p] = IF @ = {} THEN {t} ELSE @]
        /\ Goto(t, IF flight[p] # {} THEN "wait"
                   ELSE IF Refreshing(p) THEN "fetch" ELSE "reload")
        /\ UNCHANGED <<clock, memory, unwritable, disk, started, sourceDown, crashes>>

\* The places of load() when FetchVersions calls it, and of the group's function.
AfterMiss(t) == IF pc[t] \in {"load", "read"} THEN "enter" ELSE "fetch"

\* load(), in the memory: an expired entry there is a miss, no entry leads to
\* the disk.
LoadMemory(t) ==
    LET p == ProcessOf[t]
        held == {e \in memory[p] : Valid(e)}
    IN  /\ pc[t] \in {"load", "reload"}
        /\ IF held # {}
           THEN Deliver(t, held)
           ELSE /\ Goto(t, IF memory[p] # {} THEN AfterMiss(t)
                           ELSE IF pc[t] = "load" THEN "read" ELSE "reread")
                /\ UNCHANGED flight
        /\ UNCHANGED <<clock, memory, unwritable, disk, started, sourceDown, crashes>>

\* load(), from the disk: a partial file does not decode and is a miss.
LoadDisk(t) ==
    LET found == {e \in UNION {content[i] : i \in path} : Valid(e)}
    IN  /\ pc[t] \in {"read", "reread"}
        /\ IF found # {}
           THEN /\ draft' = [draft EXCEPT ![t] = found]
                /\ pc' = [pc EXCEPT ![t] = IF @ = "read" THEN "keep" ELSE "rekeep"]
                /\ UNCHANGED answer
           ELSE Goto(t, AfterMiss(t))
        /\ UNCHANGED <<clock, memory, unwritable, flight, disk, started, sourceDown, crashes>>

\* What was read goes into the memory, whatever others have put there since.
Keep(t) ==
    /\ pc[t] \in {"keep", "rekeep"}
    /\ memory' = [memory EXCEPT ![ProcessOf[t]] = draft[t]]
    /\ Deliver(t, draft[t])
    /\ UNCHANGED <<clock, unwritable, disk, started, sourceDown, crashes>>

\* src.Fetch answers, or fails, which is a hard error for everyone in the group.
Fetched(t) ==
    /\ pc[t] = "fetch"
    /\ draft' = [draft EXCEPT ![t] = {[at |-> clock, stamped |-> clock, expires |-> clock]}]
    /\ pc' = [pc EXCEPT ![t] = "store"]
    /\ UNCHANGED <<clock, memory, unwritable, flight, disk, answer, started,
                   sourceDown, crashes>>

FetchFails(t) ==
    /\ pc[t] = "fetch"
    /\ Deliver(t, {})
    /\ sourceDown' = sourceDown \cup {ProcessOf[t]}
    /\ UNCHANGED <<clock, memory, unwritable, disk, started, crashes>>

\* The lifetime of an entry: the source's ttl or the default.
TTL(t) == IF SourceTTL[t] # Unset THEN SourceTTL[t] ELSE defaultTTL

\* The entry is stamped and put into the memory; the disk follows, unless it has
\* proven unwritable.
StoreMemory(t) ==
    LET p == ProcessOf[t]
        stamped == {[e EXCEPT !.stamped = clock, !.expires = clock + TTL(t)] : e \in draft[t]}
    IN  /\ pc[t] = "store"
        /\ memory' = [memory EXCEPT ![p] = stamped]
        /\ IF unwritable[p]
           THEN Deliver(t, stamped)
           ELSE /\ draft' = [draft EXCEPT ![t] = stamped]
                /\ pc' = [pc EXCEPT ![t] = "create"]
                /\ UNCHANGED <<answer, flight>>
        /\ UNCHANGED <<clock, unwritable, disk, started, sourceDown, crashes>>

\* Mutated form: a failed write fails the call.
GiveUpDiskAndCall(t) ==
    /\ unwritable' = [unwritable EXCEPT ![ProcessOf[t]] = TRUE]
    /\ Deliver(t, {})

\* markUnwritable, and store returns; the call succeeds all the same.
GiveUpDisk(t) ==
    /\ unwritable' = [unwritable EXCEPT ![ProcessOf[t]] = TRUE]
    /\ Deliver(t, draft[t])

\* The directory, or the temporary file, cannot be created.
CreateFails(t) ==
    /\ pc[t] = "create"
    /\ GiveUpDisk(t)
    /\ UNCHANGED <<clock, memory, disk, started, sourceDown, crashes>>

\* WriteFile opens the temporary file: an existing one is truncated.
Used == path \cup (UNION {tmp[id] : id \in Pids}) \cup (UNION {fd[p] : p \in Processes})
OpenTmpTarget(p) ==
    IF tmp[Pid[p]] # {} THEN tmp[Pid[p]] ELSE {CHOOSE i \in Inodes : i \notin Used}

\* Mutated form: the entry is written in place.
OpenInPlace(p) ==
    IF path # {} THEN path ELSE {CHOOSE i \in Inodes : i \notin Used}

CreateInPlace(t) ==
    LET p == ProcessOf[t]
    IN  /\ pc[t] = "create"
        /\ path' = OpenInPlace(p)
        /\ fd' = [fd EXCEPT ![p] = OpenInPlace(p)]
        /\ content' = [i \in Inodes |-> IF i \in OpenInPlace(p) THEN {} ELSE content[i]]
        /\ Goto(t, "write")
        /\ UNCHANGED <<clock, memory, unwritable, flight, tmp, started, sourceDown, crashes>>

Create(t) ==
    LET p == ProcessOf[t]
    IN  /\ pc[t] = "create"
        /\ tmp' = [tmp EXCEPT ![Pid[p]] = OpenTmpTarget(p)]
        /\ fd' = [fd EXCEPT ![p] = OpenTmpTarget(p)]
        /\ content' = [i \in Inodes |-> IF i \in OpenTmpTarget(p) THEN {} ELSE content[i]]
        /\ Goto(t, "write")
        /\ UNCHANGED <<clock, memory, unwritable, flight, path, started, sourceDown, crashes>>

Write(t) ==
    LET p == ProcessOf[t]
    IN  /\ pc[t] = "write"
        /\ content' = [i \in Inodes |-> IF i \in fd[p] THEN draft[t] ELSE content[i]]
        /\ fd' = [fd EXCEPT ![p] = {}]
        /\ Goto(t, "rename")
        /\ UNCHANGED <<clock, memory, unwritable, flight, path, tmp, started, sourceDown,
                       crashes>>

\* The disk is full: the partial temporary file stays.
WriteFails(t) ==
    /\ pc[t] = "write"
    /\ fd' = [fd EXCEPT ![ProcessOf[t]] = {}]
    /\ GiveUpDisk(t)
    /\ UNCHANGED <<clock, memory, content, path, tmp, started, sourceDown, crashes>>

Rename(t) ==
    LET id == Pid[ProcessOf[t]]
    IN  /\ pc[t] = "rename"
        /\ tmp[id] # {}
        /\ path' = tmp[id]
        /\ tmp' = [tmp EXCEPT ![id] = {}]
        /\ Deliver(t, draft[t])
        /\ UNCHANGED <<clock, memory, unwritable, content, fd, started, sourceDown, crashes>>

\* The rename fails, always when the temporary file is gone: it is removed.
RenameFails(t) ==
    /\ pc[t] = "rename"
    /\ tmp' = [tmp EXCEPT ![Pid[ProcessOf[t]]] = {}]
    /\ GiveUpDisk(t)
    /\ UNCHANGED <<clock, memory, content, path, fd, started, sourceDown, crashes>>

\* A process dies, whatever it was doing, and another is started in its place.
Crash(p) ==
    /\ crashes < MaxCrashes
    /\ crashes' = crashes + 1
    /\ memory' = [memory EXCEPT ![p] = {}]
    /\ unwritable' = [unwritable EXCEPT ![p] = FALSE]
    /\ flight' = [flight EXCEPT ![p] = {}]
    /\ fd' = [fd EXCEPT ![p] = {}]
    /\ pc' = [t \in Goroutines |-> IF ProcessOf[t] = p THEN "idle" ELSE pc[t]]
    /\ draft' = [t \in Goroutines |-> IF ProcessOf[t] = p THEN {} ELSE draft[t]]
    /\ answer' = [t \in Goroutines |-> IF ProcessOf[t] = p THEN {} ELSE answer[t]]
    /\ \E r \in {FALSE, (p \in Refreshable)} :
         started' = [started EXCEPT ![p] = [at |-> clock, refresh |-> r]]
    /\ sourceDown' = sourceDown \ {p}
    /\ UNCHANGED <<clock, content, path, tmp>>

Tick ==
    /\ clock < MaxTime
    /\ clock' = clock + 1
    /\ UNCHANGED <<memory, unwritable, flight, disk, calls, started, sourceDown, crashes>>

\* One step of a call that is under way.
Step(t) ==
    \/ LoadMemory(t) \/ LoadDisk(t) \/ Keep(t) \/ Enter(t)
    \/ Fetched(t) \/ FetchFails(t) \/ StoreMemory(t)
    \/ CreateFails(t) \/ Create(t) \/ Write(t) \/ WriteFails(t)
    \/ Rename(t) \/ RenameFails(t)

Next ==
    \/ \E t \in Goroutines : Call(t) \/ Step(t)
    \/ \E p \in Processes : Crash(p)
    \/ Tick

\* Goroutines run, and a source answers or fails.
Spec == Init /\ [][Next]_vars /\ \A t \in Goroutines : WF_vars(Step(t))

-----------------------------------------------------------------------------
AtMostOne(S) == \A x, y \in S : x = y

\* Where a call is that looks into the cache by itself, and one that runs the
\* group's function.
Looking == {"load", "read", "keep"}
Leading == {"reload", "reread", "rekeep", "fetch", "store", "create", "write", "rename"}

\* Every layer holds at most one entry, every name at most one inode.
TypeOK ==
    /\ clock \in Times
    /\ memory \in [Processes -> SUBSET Entries]
    /\ unwritable \in [Processes -> BOOLEAN]
    /\ flight \in [Processes -> SUBSET Goroutines]
    /\ content \in [Inodes -> SUBSET Entries]
    /\ path \in SUBSET Inodes
    /\ tmp \in [Pids -> SUBSET Inodes]
    /\ fd \in [Processes -> SUBSET Inodes]
    /\ pc \in [Goroutines -> Looking \cup Leading \cup {"idle", "enter", "wait", "done"}]
    /\ draft \in [Goroutines -> SUBSET Entries]
    /\ answer \in [Goroutines -> SUBSET Entries]
    /\ started \in [Processes -> [at : Times, refresh : BOOLEAN]]
    /\ sourceDown \in SUBSET Processes
    /\ crashes \in 0 .. MaxCrashes
    /\ AtMostOne(path)
    /\ \A p \in Processes : AtMostOne(memory[p]) /\ AtMostOne(flight[p]) /\ AtMostOne(fd[p])

\* "atomic on the same filesystem, so concurrent readers never observe a partial
\* write and concurrent writers can't corrupt each other": the entry file, once
\* it exists, is whole, also between the steps of a writer and after a crash.
EntryFileIsWhole == \A i \in path : content[i] # {}

\* "every lookup behaves as a cold miss": under --refresh-versions a call only
\* returns what the source said since the process was started, and nothing that
\* another process or an earlier run left on the disk.
RefreshRefetches ==
    \A t \in Goroutines : Refreshing(ProcessOf[t]) =>
        \A e \in answer[t] : e.at >= started[ProcessOf[t]].at

\* Nobody waits for nothing: goroutines wait in group.Do only
\* while one of their process runs its function.
WaitersHaveALeader ==
    \A t \in Goroutines : pc[t] = "wait" =>
        \E u \in flight[ProcessOf[t]] : pc[u] \in Leading

\* Requests are not repeated: however its calls interleave with each other and
\* with other processes on the disk, a process does not ask the source while its
\* own memory holds a valid entry. There is one exception: another call got that
\* entry from the file after this one had found the memory empty, and the file
\* has then been replaced by an entry that has expired.
NoRedundantFetch ==
    [][\A t \in Goroutines :
          (pc[t] # "fetch" /\ pc'[t] = "fetch" /\ ~ Refreshing(ProcessOf[t])) =>
              \/ \A e \in memory[ProcessOf[t]] : ~Valid(e)
              \/ pc[t] = "reread" /\ \E i \in path : \E e \in content[i] : ~Valid(e)]_vars

\* "Degrading to in-memory-only must never fail a build": only a source that
\* failed makes a call fail.
OnlyTheSourceFails ==
    \A t \in Goroutines :
        (pc[t] = "done" /\ answer[t] = {}) => ProcessOf[t] \in sourceDown

\* No state of the cache is one it cannot get out of.
CacheInvariant ==
    /\ TypeOK
    /\ WaitersHaveALeader
    /\ OnlyTheSourceFails

\* Every call returns.
CallsReturn == \A t \in Goroutines : (pc[t] # "idle") ~> (pc[t] \in {"done", "idle"})

\* FetchVersions "returns the cached versions for cfg if a valid (unexpired,
\* well-formed) entry exists": the source is not asked while the disk has one.
ValidEntryIsUsed ==
    [][\A t \in Goroutines :
          (pc[t] # "fetch" /\ pc'[t] = "fetch" /\ ~ Refreshing(ProcessOf[t])) =>
              \A i \in path : \A e \in content[i] : ~Valid(e)]_vars

\* hive.yml's version_cache_ttl is the "default TTL for a cached lookup", which a
\* source's ttl overrides: no call asks the source again before it is over.
DocumentedTTL(t) ==
    IF SourceTTL[t] # Unset THEN SourceTTL[t]
    ELSE IF HiveTTL # Unset THEN HiveTTL ELSE defaultTTL
HiveTTLIsKept ==
    [][\A t \in Goroutines :
          (pc[t] # "fetch" /\ pc'[t] = "fetch" /\ ~ Refreshing(ProcessOf[t])) =>
              \A e \in memory[ProcessOf[t]] : e.stamped + DocumentedTTL(t) <= clock]_vars

\* What a lookup is served from is whole and not older than it may be, whatever
\* process wrote it and whichever crashed.
EntriesAreSound == EntryFileIsWhole /\ RefreshRefetches
=============================================================================
