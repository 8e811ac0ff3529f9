-------------------------- MODULE ChangeDetection --------------------------
(***************************************************************************)
(* Change detection: `ch generate` renders dist/, `ch changes --write`     *)
(* classifies the changed files and stores the affected images in          *)
(* dist/changes.json, and `ch build`, `test`, `finalize` and `sbom` narrow *)
(* their filters to that set.  The rules:changes paths of the generated    *)
(* GitLab pipeline are computed from the same project by another walk of   *)
(* the graph.                                                              *)
(*                                                                         *)
(* A changed file is what the rules can tell of it: a record with fields   *)
(* global (matches treat_as_global, or is the images link), excluded       *)
(* (matches exclude), owners (the images one of whose directories holds    *)
(* it) and outside (its project-relative path starts with ../).            *)
(***************************************************************************)
EXTENDS Naturals, Sequences, FiniteSets

CONSTANTS Images,       \* keys of project.ImagesByName
          Tags,         \* tag names a filter can give
          Files,        \* the files a commit can change, as above
          Graphs,       \* [source, rendered]: the edges each scan finds
          FilterLists,  \* the command line filters of ch build
          Ruleless,     \* images with more change paths than GitLab accepts
          AnyName,          \* an empty field of a filter
          MaxCommits,   \* bound: commits while dist/ lives
          MaxRuns       \* bound: change detection runs

ASSUME ChangesAssumption ==
    /\ IsFiniteSet(Images)
    /\ Ruleless \subseteq Images
    /\ AnyName \notin Images \cup Tags
    /\ MaxCommits \in Nat /\ MaxRuns \in Nat
    /\ Files \subseteq [global : BOOLEAN, excluded : BOOLEAN,
                        owners : SUBSET Images, outside : BOOLEAN]
    /\ Graphs \subseteq [source : [Images -> SUBSET Images],
                         rendered : [Images -> SUBSET Images]]
    /\ \A fs \in FilterLists : fs \in Seq({fs[k] : k \in DOMAIN fs})

VARIABLES
    graph,      \* the project's edges, name to the names it depends on
    files,      \* the files that differ from the merge base at HEAD
    head,       \* commits so far
    rendered,   \* commit that dist/ was rendered from, or NotRendered
    stored,     \* dist/changes.json: NoFile, BadFile, or a set and its commit
    opts,       \* [unmatched, strict] of the detection that runs
    pending, global, changed, queue, seen,  \* locals of Classify and Expand
    result,     \* the Set a detection returned
    filters, limited,                       \* limitToChanges, in and out
    pc, runs

project == <<graph, files, head>>
locals == <<opts, pending, global, changed, queue, seen>>
vars == <<project, rendered, stored, locals, result, filters, limited, pc, runs>>

NotRendered == MaxCommits + 1
NoFile == [kind |-> "none"]
BadFile == [kind |-> "malformed"]
Unlimited == << >>

-----------------------------------------------------------------------------
(* The graph, and the set a breadth-first walk of it computes.             *)

\* graph.Dependents: map order, each image once.
Dependents(n) == {m \in Images : n \in graph.source[m]}
Dependencies(n) == graph.source[n]

Listings(S) == {s \in [1..Cardinality(S) -> S] : {s[k] : k \in 1..Cardinality(S)} = S}
Queued == {queue[k] : k \in 1..Len(queue)}

Closed(S, Step(_)) == \A n \in S : Step(n) \subseteq S
Reachable(start, Step(_)) ==
    {n \in Images : \A S \in SUBSET Images :
        start \subseteq S /\ Closed(S, Step) => n \in S}

\* TriggerDirs walks the dependencies of an image with the same Expand, so its
\* directories are those of the images it reaches.  setChangePaths drops the
\* rule of an image that has too many of them, and adds the global patterns.
Triggers(i, f) ==
    \/ f.global
    \/ f.owners \cap Reachable({i}, Dependencies) # {}
JobsCreated == {i \in Images : i \in Ruleless \/ \E f \in files : Triggers(i, f)}

-----------------------------------------------------------------------------
Init ==
    /\ graph \in Graphs
    /\ files = {}
    /\ head = 0
    /\ rendered = NotRendered
    /\ stored = NoFile
    /\ opts = [unmatched |-> "all", strict |-> FALSE]
    /\ pending = {} /\ global = FALSE /\ changed = {}
    /\ queue = << >> /\ seen = {}
    /\ result = NoFile
    /\ filters = Unlimited /\ limited = Unlimited
    /\ pc = "idle"
    /\ runs = 0

\* A commit on the branch changes files, also while dist/ is in use.
Commit ==
    /\ pc = "idle"
    /\ head < MaxCommits
    /\ head' = head + 1
    /\ files' \in SUBSET Files
    /\ UNCHANGED <<graph, rendered, stored, locals, result, filters, limited, pc, runs>>

\* RenderProject removes dist/ before it renders anything.
Generate ==
    /\ pc = "idle"
    /\ rendered' = head
    /\ stored' = NoFile
    /\ UNCHANGED <<project, locals, result, filters, limited, pc, runs>>

StartChanges(unmatched, strict) ==
    /\ pc = "idle"
    /\ runs < MaxRuns
    /\ runs' = runs + 1
    /\ opts' = [unmatched |-> unmatched, strict |-> strict]
    /\ pc' = "diff"
    /\ UNCHANGED <<project, rendered, stored, pending, global, changed, queue,
                   seen, result, filters, limited>>

Finish(set) ==
    /\ result' = set
    /\ pc' = "write"

\* The detection returns, and its locals are gone.
Return ==
    /\ pc' = "idle"
    /\ result' = NoFile
    /\ opts' = [unmatched |-> "all", strict |-> FALSE]
    /\ pending' = {} /\ global' = FALSE /\ changed' = {}
    /\ queue' = << >> /\ seen' = {}

\* Mutated form: files that are unknown count as no files.
DiffFailsOpen ==
    /\ pc = "diff"
    /\ Finish([kind |-> "set", global |-> FALSE, changed |-> {},
               affected |-> {}, known |-> FALSE, commit |-> head])
    /\ UNCHANGED <<project, rendered, stored, locals, filters, limited, runs>>

\* The repository, a revision or the merge base cannot be read.
DiffFails ==
    /\ pc = "diff"
    /\ \/ opts.strict /\ Return
       \/ /\ ~ opts.strict
          /\ Finish([kind |-> "set", global |-> TRUE, changed |-> {},
                     affected |-> Images, known |-> FALSE, commit |-> head])
          /\ UNCHANGED locals
    /\ UNCHANGED <<project, rendered, stored, filters, limited, runs>>

DiffFiles ==
    /\ pc = "diff"
    /\ pending' = files
    /\ global' = FALSE
    /\ changed' = {}
    /\ pc' = "classify"
    /\ UNCHANGED <<project, rendered, stored, opts, queue, seen, result,
                   filters, limited, runs>>

\* Mutated form: an unmatched file is dropped only outside the project.
ClassifyIgnoringMode(f) ==
    /\ pc = "classify"
    /\ f \in pending
    /\ pending' = pending \ {f}
    /\ global' = (global \/ f.global \/ (~ f.excluded /\ f.owners = {} /\ ~ f.outside))
    /\ changed' = IF f.global \/ f.excluded THEN changed ELSE changed \cup f.owners
    /\ UNCHANGED <<project, rendered, stored, opts, queue, seen, result,
                   filters, limited, pc, runs>>

\* One file of the loop of Classify.  treat_as_global wins over exclude, and
\* exclude over the image directories; a file outside the project counts only
\* inside one of them.
Classify(f) ==
    /\ pc = "classify"
    /\ f \in pending
    /\ pending' = pending \ {f}
    /\ global' = \/ global
                 \/ f.global
                 \/ /\ ~ f.excluded /\ f.owners = {} /\ ~ f.outside
                    /\ opts.unmatched # "ignore"
    /\ changed' = IF f.global \/ f.excluded THEN changed ELSE changed \cup f.owners
    /\ UNCHANGED <<project, rendered, stored, opts, queue, seen, result,
                   filters, limited, pc, runs>>

EndClassify ==
    /\ pc = "classify"
    /\ pending = {}
    /\ \/ /\ global
          /\ Finish([kind |-> "set", global |-> TRUE, changed |-> changed,
                     affected |-> Images, known |-> TRUE, commit |-> head])
          /\ UNCHANGED <<queue, seen>>
       \/ /\ ~ global
          /\ queue' \in Listings(changed)
          /\ seen' = {}
          /\ pc' = "expand"
          /\ UNCHANGED result
    /\ UNCHANGED <<project, rendered, stored, opts, pending, global, changed,
                   filters, limited, runs>>

\* Mutated form: the walk stops at the direct dependents of a changed image.
ExpandDirect ==
    /\ pc = "expand"
    /\ queue # << >>
    /\ LET name == Head(queue) IN
        /\ seen' = seen \cup {name}
        /\ IF name \in changed /\ name \notin seen
           THEN \E s \in Listings(Dependents(name)) : queue' = Tail(queue) \o s
           ELSE queue' = Tail(queue)
    /\ UNCHANGED <<project, rendered, stored, opts, pending, global, changed,
                   result, filters, limited, pc, runs>>

\* Mutated form: an image that was seen is walked again.
ExpandRevisits ==
    /\ pc = "expand"
    /\ queue # << >>
    /\ LET name == Head(queue) IN
        /\ seen' = seen \cup {name}
        /\ IF Len(queue) < 4
           THEN \E s \in Listings(Dependents(name)) : queue' = Tail(queue) \o s
           ELSE queue' = Tail(queue)
    /\ UNCHANGED <<project, rendered, stored, opts, pending, global, changed,
                   result, filters, limited, pc, runs>>

\* One turn of the loop of Expand.
ExpandStep ==
    /\ pc = "expand"
    /\ queue # << >>
    /\ LET name == Head(queue) IN
        IF name \in seen
        THEN /\ queue' = Tail(queue)
             /\ UNCHANGED seen
        ELSE /\ seen' = seen \cup {name}
             /\ \E s \in Listings(Dependents(name)) : queue' = Tail(queue) \o s
    /\ UNCHANGED <<project, rendered, stored, opts, pending, global, changed,
                   result, filters, limited, pc, runs>>

EndExpand ==
    /\ pc = "expand"
    /\ queue = << >>
    /\ Finish([kind |-> "set", global |-> FALSE, changed |-> changed,
               affected |-> seen, known |-> TRUE, commit |-> head])
    /\ UNCHANGED <<project, rendered, stored, locals, filters, limited, runs>>

\* --write stores the set, creating dist/ if needed; without the flag the set
\* is only printed.
Write ==
    /\ pc = "write"
    /\ stored' \in {result, stored}
    /\ Return
    /\ UNCHANGED <<project, rendered, filters, limited, runs>>

\* dist/ cannot be created, or WriteFile truncated the file and then failed.
WriteFails ==
    /\ pc = "write"
    /\ stored' \in {stored, BadFile}
    /\ Return
    /\ UNCHANGED <<project, rendered, filters, limited, runs>>

-----------------------------------------------------------------------------
(* limitToChanges, and what the commands then select.                      *)

IsAffected(set, i) == i \in set.affected

\* matchesFilters, with the filters a command works with.
Matches(fs, i, t) ==
    \/ fs = Unlimited
    \/ \E k \in 1..Len(fs) : fs[k].image \in {AnyName, i} /\ fs[k].tag \in {AnyName, t}

\* Mutated form: a filter without an image is passed on as it is.
NarrowNamedOnly(f, set) ==
    IF f.image # AnyName
    THEN IF IsAffected(set, f.image) THEN {f} ELSE {}
    ELSE {f}

\* What one filter becomes: itself if its image is affected, nothing if it is
\* not, and one filter for every affected image if it names none.
Narrow(f, set) ==
    IF f.image # AnyName
    THEN IF IsAffected(set, f.image) THEN {f} ELSE {}
    ELSE {[image |-> i, tag |-> f.tag] : i \in set.affected}

Filters(fs) == IF fs = Unlimited THEN {[image |-> AnyName, tag |-> AnyName]}
                                 ELSE {fs[k] : k \in 1..Len(fs)}

\* `ch build` and the others stop without a dist/, and on a changes.json that
\* does not parse.  "skipped" is the early return when nothing is left.
LimitToChanges(fs) ==
    /\ pc = "idle"
    /\ filters' = fs
    /\ \/ /\ stored = NoFile /\ rendered # NotRendered
          /\ limited' = fs
          /\ pc' = "limited"
       \/ /\ stored = BadFile
          /\ limited' = Unlimited
          /\ pc' = "failed"
       \/ /\ stored.kind = "set"
          /\ LET narrowed == UNION {Narrow(f, stored) : f \in Filters(fs)} IN
               /\ limited' \in Listings(narrowed)
               /\ pc' = IF narrowed = {} THEN "skipped" ELSE "limited"
    /\ UNCHANGED <<project, rendered, stored, locals, result, runs>>

CommandEnds ==
    /\ pc \in {"limited", "skipped", "failed"}
    /\ pc' = "idle"
    /\ filters' = Unlimited /\ limited' = Unlimited
    /\ UNCHANGED <<project, rendered, stored, locals, result, runs>>

-----------------------------------------------------------------------------
Detection ==
    \/ DiffFails \/ DiffFiles
    \/ \E f \in Files : Classify(f)
    \/ EndClassify \/ ExpandStep \/ EndExpand
    \/ Write \/ WriteFails

Next ==
    \/ Commit
    \/ Generate
    \/ \E unmatched \in {"all", "ignore"}, strict \in BOOLEAN :
            StartChanges(unmatched, strict)
    \/ Detection
    \/ \E fs \in FilterLists : LimitToChanges(fs)
    \/ CommandEnds

\* A detection that runs is not suspended; nobody has to start one.
Spec == Init /\ [][Next]_vars /\ WF_vars(Detection)

-----------------------------------------------------------------------------
SetOrNone == {NoFile, BadFile} \cup
    [kind : {"set"}, global : BOOLEAN, changed : SUBSET Images,
     affected : SUBSET Images, known : BOOLEAN, commit : 0..MaxCommits]

\* The variables hold what the code's types allow.
TypeOK ==
    /\ graph \in Graphs
    /\ files \subseteq Files
    /\ head \in 0..MaxCommits
    /\ rendered \in 0..NotRendered
    /\ stored \in SetOrNone /\ result \in SetOrNone
    /\ opts \in [unmatched : {"all", "ignore"}, strict : BOOLEAN]
    /\ pending \subseteq Files
    /\ global \in BOOLEAN
    /\ changed \subseteq Images /\ seen \subseteq Images
    /\ queue \in Seq(Images)
    /\ pc \in {"idle", "diff", "classify", "expand", "write", "limited",
               "skipped", "failed"}
    /\ runs \in 0..MaxRuns

\* Halfway through the walk of Expand the changed images are seen or queued,
\* so are the dependents of everything seen, and nothing is that a chain of
\* dependents does not reach.
WalkInvariant ==
    pc = "expand" =>
        /\ changed \subseteq seen \cup Queued
        /\ \A n \in seen : Dependents(n) \subseteq seen \cup Queued
        /\ \A S \in SUBSET Images :
              changed \subseteq S /\ Closed(S, Dependents) => seen \cup Queued \subseteq S

\* A set that Detect returned without a global change affects exactly the
\* changed images and everything that depends on them, directly or not, also
\* when the graph has cycles.
AffectedIsClosure ==
    pc = "write" /\ ~ result.global =>
        result.affected = Reachable(result.changed, Dependents)

\* When git cannot tell what changed, nothing is left out: DetectFromGit
\* returns every image, or no set at all.
UnknownDiffAffectsAll ==
    \A set \in {result, stored} :
        set.kind = "set" /\ ~ set.known => set.affected = Images

\* With `--unmatched ignore` the generated GitLab pipeline has jobs for every
\* image the set affects: the walk over the dependents of the changed images
\* and the walk over the dependencies of each image agree on who is affected,
\* whatever is excluded.  Otherwise a dependent waits for no manifest job and
\* pulls a build ID tag that nobody pushes.
JobsCoverAffected ==
    pc = "write" /\ opts.unmatched = "ignore" /\ result.known =>
        result.affected \subseteq JobsCreated

\* A change set is never older than the rendering it limits: `ch generate`
\* removes it together with the rest of dist/.
LimitNotOlderThanRender ==
    stored.kind = "set" /\ rendered # NotRendered => stored.commit >= rendered

\* What holds between the commands of a job, and halfway through a walk.
ChangesInvariant ==
    /\ TypeOK
    /\ WalkInvariant
    /\ UnknownDiffAffectsAll
    /\ LimitNotOlderThanRender

\* A limited command selects the images its own filters select that are
\* affected, no more and no fewer, and only a selection that is empty skips it.
LimitSelectsAffected ==
    pc \in {"limited", "skipped"} /\ stored.kind = "set" =>
        LET Kept == {u \in Images \X Tags :
                        Matches(filters, u[1], u[2]) /\ IsAffected(stored, u[1])}
        IN  IF pc = "skipped"
            THEN Kept = {}
            ELSE Kept = {u \in Images \X Tags : Matches(limited, u[1], u[2])}

\* A detection that started ends, whatever cycles the graph has: `ch changes`
\* never sorts it.
DetectionEnds == pc = "diff" ~> pc = "idle"

\* docs/adr/010: the change paths "come from the same graph as the build
\* order".  The order is read from the rendered Dockerfiles, the affected
\* images from their templates.
AffectedFollowsBuildOrder ==
    pc = "write" /\ ~ result.global =>
        \A n \in result.affected :
            {m \in Images : n \in graph.rendered[m]} \subseteq result.affected

\* Whoever works off an affected set, the jobs of a generated pipeline or a
\* limited command, takes all of it.
AffectedIsWorkedOff == JobsCoverAffected /\ LimitSelectsAffected
=============================================================================
