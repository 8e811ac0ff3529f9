-------------------------------- MODULE Jobs --------------------------------
(***************************************************************************)
(* The scripts of the jobs a pipeline consists of, as compositions of the  *)
(* commands they run: a build job waits for BuildKit, builds and makes     *)
(* SBOMs; a test job waits for Docker and tests; a manifest job finalizes. *)
(* A command that fails ends the script. `ch sbom` by hand is a script of  *)
(* its own: it finds whatever tars and SBOMs earlier commands left. So are *)
(* the cuts that builds run on one daemon, each for an image without a     *)
(* Dockerfile; the solve of one build under its display; and the commands  *)
(* that start and stop a daemon on a developer's machine.                  *)
(*                                                                         *)
(* ProjectBuild describes `ch build` and Pipelines when the jobs run; here *)
(* a build makes the tars of what it is asked for, or fails in between.    *)
(***************************************************************************)
EXTENDS Integers, Sequences, FiniteSets

CONSTANTS
    Cases,          \* records [tag, platform]: what is built, catalogued and tested
    Selections,     \* sets of cases that the flags may select
    Files,          \* definition files of each tag
    RoomInChannel,
    Workers,
    Targets,
    WaitFlags,      \* WaitFlags[kind]: sets of targets the script may wait for
    Projects, FilterSets,
    Builds, Contexts, Sessions, Repos, Refs, MaxCommits,    \* of Backends
    Starts, Stops,                  \* of Buildkitd
    Vertices, Chunks, MaxUpdates    \* of Solve

ASSUME JobsAssumption ==
    /\ IsFiniteSet(Cases) /\ Selections \subseteq SUBSET Cases
    /\ Cardinality(Workers) \in 1 .. 4
    /\ RoomInChannel \in Nat \ {0}
    /\ \A k \in {"build", "test"} : UNION WaitFlags[k] \subseteq Targets
    /\ \A b \in Builds : Contexts[b].repo \in Repos /\ Contexts[b].ref \in Refs
    /\ MaxCommits \in Nat \ {0}
    /\ "cache" \notin Builds       \* see checkoutDir

VARIABLES
    kind,           \* of the job
    script,         \* the command that runs, or "succeeded" or "failed"
    targets, up, deadline, poll, answered, waited,
    selected, tars, sboms, queue, item, data, worker, firstErr, generated, made,
    inputs, canceled, left, case, tstep, daemon, runner, channel, collected,
    report, tested, failed, verdict,
    defs, filters, registry, todo, defsLeft, aliases, missed, pc,
    remote, online, holder, checkouts, debs, phase, tool, asked, begun, got, out, env,
    cause, hurt,
    container, created, at, id, ran, stopped,
    mode, updatesChannel, pending, updates, reported, logged, seenStarted, seenDone,
    seenStatus, buffer, screen, handler

waitVars == <<targets, up, deadline, poll, answered, waited>>
sbomVars == <<selected, tars, sboms, queue, item, data, worker, firstErr, generated, made>>
testVars == <<inputs, canceled, left, case, tstep, daemon, runner, channel, collected,
              report, tested, failed, verdict>>
finalizeVars == <<defs, filters, registry, todo, defsLeft, aliases, missed, pc>>
cutVars == <<remote, online, holder, checkouts, debs, phase, tool, asked, begun, got, out,
             env, cause, hurt>>
devVars == <<container, created, at, id, ran, stopped>>
solveVars == <<mode, updatesChannel, pending, updates, reported, logged, seenStarted,
               seenDone, seenStatus, buffer, screen, handler>>
handVars == <<cutVars, devVars, solveVars>>     \* of the scripts no pipeline has
commands == <<waitVars, sbomVars, testVars, finalizeVars, handVars>>
vars == <<kind, script, commands>>

W == INSTANCE Wait
S == INSTANCE Sbom WITH Items <- Cases
T == INSTANCE StructureTests
F == INSTANCE Finalize
B == INSTANCE Backends
D == INSTANCE Buildkitd
P == INSTANCE Solve WITH channel <- updatesChannel

ASSUME CasesAssumption ==
    \A c \in Cases :
        /\ c \in [tag : {c.tag}, platform : {c.platform}]
        /\ c.platform \notin {"any", "none", "old"}     \* see StructureTests
        /\ Files[c.tag] \in Seq([parses : BOOLEAN, outcomes : Seq(BOOLEAN)])

ASSUME SolveAssumption ==
    /\ \A d \in Chunks : d \in Seq(STRING)
    /\ MaxUpdates \in Nat

ASSUME ProjectsAssumption == \A p \in Projects : F!WellFormed(p)

ASSUME LayersAssumption == \A b \in Builds : B!LayersFit(b)

\* What a job that does not run a command leaves of it.
NoWait == W!Start({})
NoSbom == S!Start({}) /\ tars = [c \in Cases |-> 0] /\ sboms = tars
NoTest == T!Start([chosen |-> {}, present |-> {}, broken |-> {},
                   explicit |-> FALSE, registry |-> FALSE], {})
NoFinalize ==
    /\ defs = << >> /\ filters = {} /\ registry = << >> /\ todo = {}
    /\ defsLeft = {} /\ aliases = << >> /\ missed = {} /\ pc = "none"

NoCuts == B!Start({}) /\ online
NoDev == D!Start({}) /\ container = {}
NoSolve == P!Start("linear")
NoHand == NoCuts /\ NoDev /\ NoSolve

BuildJob ==
    /\ kind = "build" /\ script = "wait"
    /\ \E ts \in WaitFlags[kind] : W!Start(ts)
    /\ \E its \in Selections : S!Start(its)
    /\ tars = [c \in Cases |-> 0] /\ sboms = tars
    /\ NoTest /\ NoFinalize /\ NoHand

\* The tars are the first or the second build of a working copy, the SBOMs
\* were made of the first.
SbomByHand ==
    /\ kind = "sbom" /\ script = "sbom"
    /\ \E its \in Selections : \E second, old \in SUBSET its :
          /\ S!Start(its)
          /\ \E there \in SUBSET its :
                tars = [c \in Cases |-> IF c \notin there THEN 0 ELSE IF c \in second THEN 2 ELSE 1]
          /\ sboms = [c \in Cases |-> IF c \in old THEN 1 ELSE 0]
    /\ NoWait /\ NoTest /\ NoFinalize /\ NoHand

TestJob ==
    /\ kind = "test" /\ script = "wait"
    /\ \E ts \in WaitFlags[kind] : W!Start(ts)
    /\ NoSbom /\ NoFinalize /\ NoHand
    /\ \E chosen \in Selections : \E in \in T!Inputs(chosen) : \E pulled \in SUBSET (in.chosen \ in.present) :
          /\ in.broken \subseteq in.chosen /\ Cardinality(in.broken) <= 1
          /\ T!Start(in, pulled)

ManifestJob ==
    /\ kind = "manifest" /\ script = "finalize"
    /\ F!Init
    /\ NoWait /\ NoSbom /\ NoTest /\ NoHand

Cuts ==
    /\ kind = "cuts" /\ script = "cut"
    /\ B!Init /\ NoDev /\ NoSolve
    /\ NoWait /\ NoSbom /\ NoTest /\ NoFinalize

Development ==
    /\ kind = "dev" /\ script = "dev"
    /\ D!Init /\ NoCuts /\ NoSolve
    /\ NoWait /\ NoSbom /\ NoTest /\ NoFinalize

OneSolve ==
    /\ kind = "solve" /\ script = "solve"
    /\ P!Init /\ NoCuts /\ NoDev
    /\ NoWait /\ NoSbom /\ NoTest /\ NoFinalize

Init == BuildJob \/ SbomByHand \/ TestJob \/ ManifestJob \/ Cuts \/ Development \/ OneSolve
-----------------------------------------------------------------------------
OutsideWait == <<kind, script, sbomVars, testVars, finalizeVars, handVars>>
OutsideHand == <<kind, script, waitVars, sbomVars, testVars, finalizeVars>>
OutsideCut == <<OutsideHand, devVars, solveVars>>

RunWait == script = "wait" /\ W!Next /\ UNCHANGED OutsideWait

\* Mutated form: the script goes on when the wait has failed.
WaitEndsAnyway ==
    /\ script = "wait" /\ waited # "none"
    /\ script' = kind
    /\ deadline' = "passed" /\ up' = {}
    /\ UNCHANGED <<kind, targets, poll, answered, waited, sbomVars, testVars, finalizeVars, handVars>>

\* WaitAll cancels its context; what the daemons do from here on is not looked
\* at again.
WaitEnds ==
    /\ script = "wait" /\ waited # "none"
    /\ script' = IF waited = "ok" THEN kind ELSE "failed"
    /\ deadline' = "passed" /\ up' = {}
    /\ UNCHANGED <<kind, targets, poll, answered, waited, sbomVars, testVars, finalizeVars, handVars>>

\* `ch build` of the selected platforms.
RunBuild ==
    /\ script = "build"
    /\ \E finished \in SUBSET selected :
          /\ tars' = [c \in Cases |-> IF c \in finished THEN tars[c] + 1 ELSE tars[c]]
          /\ script' = IF finished = selected THEN "sbom" ELSE "failed"
    /\ UNCHANGED <<kind, waitVars, selected, sboms, queue, item, data, worker,
                   firstErr, generated, made, testVars, finalizeVars, handVars>>

RunSbom ==
    /\ script = "sbom"
    /\ S!Step
    /\ UNCHANGED <<kind, script, waitVars, testVars, finalizeVars, handVars>>

SbomEnds ==
    /\ script = "sbom" /\ made # "none"
    /\ script' = IF made = "ok" THEN "succeeded" ELSE "failed"
    /\ UNCHANGED <<kind, commands>>

RunTest ==
    /\ script = "test"
    /\ T!Next
    /\ UNCHANGED <<kind, script, waitVars, sbomVars, finalizeVars, handVars>>

\* `ch test` fails when a test failed.
TestEnds ==
    /\ script = "test" /\ verdict # "none"
    /\ script' = IF verdict = "ok" THEN "succeeded" ELSE "failed"
    /\ UNCHANGED <<kind, commands>>

RunFinalize ==
    /\ script = "finalize"
    /\ F!Step
    /\ UNCHANGED <<kind, script, waitVars, sbomVars, testVars, handVars>>

FinalizeEnds ==
    /\ script = "finalize" /\ pc \in {"done", "failed"}
    /\ script' = IF pc = "done" THEN "succeeded" ELSE "failed"
    /\ UNCHANGED <<kind, commands>>

RunCut == script = "cut" /\ B!Step /\ UNCHANGED OutsideCut

CutsEnd ==
    /\ script = "cut" /\ B!Ended
    /\ script' = IF \A b \in Builds : phase[b] \in {"none", "built"} THEN "succeeded" ELSE "failed"
    /\ UNCHANGED <<kind, commands>>

RunDev == script = "dev" /\ D!Step /\ UNCHANGED <<OutsideHand, cutVars, solveVars>>

DevEnds ==
    /\ script = "dev" /\ D!Ended
    /\ script' = IF \A c \in D!Commands : at[c] = "ok" THEN "succeeded" ELSE "failed"
    /\ UNCHANGED <<kind, commands>>

RunSolve == script = "solve" /\ P!Step /\ UNCHANGED <<OutsideHand, cutVars, devVars>>

\* A build is over when eg.Wait has both goroutines.
SolveEnds ==
    /\ script = "solve" /\ P!Ended
    /\ script' \in {"succeeded", "failed"}
    /\ UNCHANGED <<kind, commands>>

Ended == script \in {"succeeded", "failed"}

Run == RunWait \/ WaitEnds \/ RunBuild \/ RunSbom \/ SbomEnds \/ RunTest \/ TestEnds
          \/ RunFinalize \/ FinalizeEnds \/ RunCut \/ CutsEnd \/ RunDev \/ DevEnds
          \/ RunSolve \/ SolveEnds

Next == Run \/ (Ended /\ UNCHANGED vars)

\* The steps the scheduler owes: the deadline passes and what runs goes on, but
\* no release has to change and no daemon to come up. Past the deadline select
\* takes a tick or the end at random, so it does not choose the tick for ever.
GoesOn ==
    \/ /\ script = "wait"
       /\ W!DeadlinePasses \/ W!NoTarget \/ W!AllReturn
       /\ UNCHANGED OutsideWait
    \/ script = "cut" /\ (\E b \in Builds : B!Build(b)) /\ UNCHANGED OutsideCut
    \/ /\ script = "dev" /\ \E c \in D!Commands : D!Command(c)
       /\ UNCHANGED <<OutsideHand, cutVars, solveVars>>
    \/ WaitEnds \/ RunBuild \/ RunSbom \/ SbomEnds \/ RunTest \/ TestEnds
    \/ RunFinalize \/ FinalizeEnds \/ CutsEnd \/ DevEnds \/ RunSolve \/ SolveEnds

Fairness ==
    /\ WF_vars(GoesOn)
    /\ \A t \in Targets : WF_vars(t \in targets /\ script = "wait" /\ W!Goroutine(t) /\ UNCHANGED OutsideWait)
    /\ \A t \in Targets : SF_vars(t \in targets /\ script = "wait" /\ W!GiveUp(t) /\ UNCHANGED OutsideWait)

Spec == Init /\ [][Next]_vars /\ Fairness
-----------------------------------------------------------------------------
TypeOK ==
    /\ kind \in {"build", "sbom", "test", "manifest", "cuts", "dev", "solve"}
    /\ script \in {"wait", "build", "sbom", "test", "finalize", "cut", "dev", "solve",
                   "succeeded", "failed"}
    /\ kind \in {"build", "test"} => W!TypeOK
    /\ kind \in {"build", "sbom"} => S!TypeOK

\* Nothing is built and no test is run on a daemon that never answered: the
\* script goes on only after a wait that succeeded, see Wait.
DaemonsAnswered ==
    /\ TypeOK
    /\ W!DaemonsAnswered
    /\ script \in {"build", "test"} => targets # {} /\ targets \subseteq answered

\* sbom.go: whatever the workers do at the same time, no tar is lost or
\* catalogued twice, and a job that succeeds leaves an SBOM of the very tar
\* beside it.
SbomsDescribeTars ==
    /\ kind \in {"build", "sbom"} => S!SbomsDescribeTars
    /\ script = "succeeded" /\ kind = "build" => \A c \in selected : sboms[c] = tars[c] /\ tars[c] # 0

\* test.go: see StructureTests.
TestsJudgeImages == kind = "test" => T!TestsJudgeImages

\* Every job ends: ch wait at its deadline, ch sbom and ch test because their
\* goroutines neither wait for each other nor for a reader that is gone.
JobEnds == <>Ended

\* See Finalize: a finalize that is not filtered and whose retags all went through
\* leaves every alias on the highest version, a manifest of this run; aliases are
\* copied from tags no alias of this run overwrites, after all manifests, and only
\* for what the filter selects.
AliasesFollowManifests ==
    kind = "manifest" =>
        F!HighestVersionWins /\ F!SourceIsNoAlias /\ F!AliasesFollowManifests /\ F!FilterIsKept

\* See Backends: a cut is of one commit that was current while its script ran,
\* whatever builds share the daemon, the image has all files of its layers, and a
\* killed git breaks later builds of that release only.
CutsAreSound == kind = "cuts" => B!CutsAreSound /\ B!FailureStaysInRelease

\* See Buildkitd: no start takes the daemon from the builds on it.
DaemonsAreKept == kind = "dev" => D!DaemonsAreKept

\* See Solve: the display shows every log byte and every completed step.
ScreenTellsTheSolve == kind = "solve" => P!ScreenTellsTheSolve

\* docs/usage/chisel.md:66-67, see Backends.
TracksBranchHead == kind = "cuts" => B!TracksBranchHead
=============================================================================
