--------------------------- MODULE PipelinesProofs ---------------------------
(***************************************************************************)
(* Whatever the images, platforms, merge requests and commits: what one    *)
(* pipeline publishes is of one commit, tested, and built on what it made  *)
(* of the dependencies itself. The argument is ownership: of the pipelines *)
(* of one ref only the newest still has jobs that run, so what it pushed   *)
(* under its build ID stays what it pushed until it combines it. And what  *)
(* the pipelines are rendered from: the depths, stages and jobs that       *)
(* CIContext computes fit the build.                                       *)
(***************************************************************************)
EXTENDS Pipelines, CIContext, FiniteSetTheorems, SequenceTheorems, WellFoundedInduction, TLAPS

Created == 1 .. created

\* ci_cancel_outdated is not "false" (context.go), and nothing but the default
\* branch and merge requests has pipelines: workflow.yml.gotpl is triggered by
\* nothing else, a GitLab project configures it.
ProductionIsExclusive == Main \in CancelOutdated /\ Branches = {}

\* The newest pipeline of its ref.
Latest(n) == n \in Created /\ \A m \in Created : m > n => pipe[m].ref # pipe[n].ref

\* What is written under the build ID of n is written by n alone.
Owner(n) == Latest(n) /\ Exclusive(BuildID(n))

TypeOK ==
    /\ provider \in {"gitlab", "github"}
    /\ created \in 0 .. MaxPipelines
    /\ pipe \in [Numbers -> [ref : Refs \cup {None}, affected : SUBSET Images,
                             images : SUBSET Images]]
    /\ status \in [Numbers -> [Jobs -> Ended \cup {"waiting"}]]
    /\ DOMAIN work = Numbers /\ \A n \in Numbers : DOMAIN work[n] = Jobs
    /\ DOMAIN tags = Images \X Platforms \X Ids
    /\ DOMAIN manifests = Images \X Ids

\* A pipeline has the jobs of its images and affects some of these; before it
\* is created it has none.
PipesOK ==
    /\ \A n \in Created :
          /\ pipe[n].ref \in Refs
          /\ pipe[n].affected \subseteq pipe[n].images
          /\ pipe[n].ref = Main => pipe[n].affected = Images
          /\ \A i \in pipe[n].images : \A j \in JobsOf(i) : status[n][j] # "absent"
    /\ \A n \in Numbers \ Created : \A j \in Jobs :
          status[n][j] = "absent" /\ DOMAIN work[n][j] = {}

\* No job of an affected image is left out for want of its condition.
NotLeftOut ==
    \A n \in Created : \A i \in pipe[n].affected : \A j \in JobsOf(i) :
        status[n][j] # "unaffected"

\* Only a failure or a cancellation makes jobs be skipped.
SkipsHaveCauses ==
    \A n \in Created :
        (\E j \in Jobs : status[n][j] = "skipped")
            => \E j \in Jobs : status[n][j] \in {"failed", "cancelled"}

FlowInv == TypeOK /\ PipesOK /\ NotLeftOut /\ SkipsHaveCauses

-----------------------------------------------------------------------------
(* Jobs and what they need.                                                *)

LEMMA JobNames ==
    /\ Generate \in Jobs /\ Lint \in Jobs
    /\ \A i \in Images : Manifest(i) \in Jobs /\ Manifest(i) \in JobsOf(i)
    /\ \A i \in Images : JobsOf(i) \subseteq Jobs
    /\ \A i \in Images, p \in Platforms :
          /\ Build(i, p) \in JobsOf(i) /\ Test(i, p) \in JobsOf(i)
          /\ Build(i, p) \in Jobs /\ Test(i, p) \in Jobs
  BY DEF Jobs, JobsOf

LEMMA JobsDiffer ==
    ASSUME NEW i \in Images, NEW k \in Images
    PROVE  /\ Manifest(i) = Manifest(k) => i = k
           /\ \A p, q \in Platforms :
                 /\ Build(i, p) = Build(k, q) => i = k /\ p = q
                 /\ Test(i, p) = Test(k, q) => i = k /\ p = q
                 /\ Build(i, p) # Test(k, q)
                 /\ Build(i, p) # Manifest(k) /\ Test(i, p) # Manifest(k)
  BY DEF Build, Test, Manifest

LEMMA KindOfJob ==
    ASSUME NEW i \in Images, NEW j \in JobsOf(i)
    PROVE  \/ j = Manifest(i)
           \/ \E p \in Platforms : j = Build(i, p) \/ j = Test(i, p)
  BY DEF JobsOf

LEMMA JobOfOneImage ==
    ASSUME NEW i \in Images, NEW k \in Images, NEW j, j \in JobsOf(i), j \in JobsOf(k)
    PROVE  i = k
  BY KindOfJob, JobsDiffer

LEMMA JobHasAKind ==
    ASSUME NEW j \in Jobs
    PROVE  j \in {Generate, Lint} \/ \E i \in Images : j \in JobsOf(i)
  BY DEF Jobs, JobsOf

\* What Needs says of the jobs that the properties are about.
LEMMA NeedsOfJobs ==
    ASSUME TypeOK, NEW n \in Numbers, NEW i \in Images
    PROVE  /\ \A p \in Platforms :
                 /\ Build(i, p) \in Needs(n, Test(i, p))
                 /\ Test(i, p) \in Needs(n, Manifest(i))
                 /\ \A d \in Deps[i] \cap pipe[n].images :
                       Manifest(d) \in Needs(n, Build(i, p))
  <1> USE DEF Needs, GitLabNeeds, GitHubNeeds
  <1>1. ASSUME NEW p \in Platforms PROVE Build(i, p) \in Needs(n, Test(i, p))
    BY DEF Build, Test
  <1>2. ASSUME NEW p \in Platforms PROVE Test(i, p) \in Needs(n, Manifest(i))
    BY JobNames, JobsDiffer, <1>2 DEF Manifest
  <1>3. ASSUME NEW p \in Platforms, NEW d \in Deps[i] \cap pipe[n].images
        PROVE  Manifest(d) \in Needs(n, Build(i, p))
    BY DEF Build
  <1> QED BY <1>1, <1>2, <1>3

LEMMA NeedsAreJobs ==
    ASSUME TypeOK, NEW n \in Numbers, NEW j \in Jobs
    PROVE  Needs(n, j) \subseteq Jobs
  <1> USE DEF Needs, GitLabNeeds, GitHubNeeds
  <1>1. CASE j \in {Generate, Lint}
    BY <1>1, JobNames DEF Generate, Lint
  <1>2. ASSUME NEW i \in Images, j \in JobsOf(i) PROVE Needs(n, j) \subseteq Jobs
    <2>0. Deps[i] \subseteq Images
      BY PipelinesAssumption
    <2>1. ASSUME NEW p \in Platforms, j = Build(i, p) PROVE Needs(n, j) \subseteq Jobs
      BY <2>0, <2>1, JobNames DEF Build
    <2>2. ASSUME NEW p \in Platforms, j = Test(i, p) PROVE Needs(n, j) \subseteq Jobs
      BY <2>2, JobNames DEF Test
    <2>3. CASE j = Manifest(i)
      BY <2>3, JobNames DEF Manifest
    <2> QED BY <1>2, <2>1, <2>2, <2>3, KindOfJob
  <1> QED BY <1>1, <1>2, JobHasAKind

\* A job of an affected image whose needs are satisfied has its condition.
LEMMA AffectedAreNotLeftOut ==
    ASSUME FlowInv, NEW n \in Created, NEW i \in pipe[n].affected, NEW j \in JobsOf(i),
           \A k \in Needs(n, j) : status[n][k] \in {"done", "unaffected"}
    PROVE  Condition(n, j)
  <1>0. n \in Numbers /\ i \in Images
    BY PipelinesAssumption DEF FlowInv, TypeOK, Created, Numbers
  <1>1. \A k \in JobsOf(i) : status[n][k] # "unaffected"
    BY DEF FlowInv, NotLeftOut
  <1>2. ASSUME NEW p \in Platforms, j = Build(i, p) PROVE Condition(n, j)
    BY <1>2 DEF Condition, Affected, Build
  <1>3. ASSUME NEW p \in Platforms, j = Test(i, p) PROVE Condition(n, j)
    <2>1. status[n][Build(i, p)] = "done"
      BY <1>0, <1>1, <1>3, NeedsOfJobs, JobNames DEF FlowInv
    <2> QED BY <1>3, <2>1 DEF Condition, Test
  <1>4. ASSUME j = Manifest(i) PROVE Condition(n, j)
    <2>1. \A p \in Platforms : status[n][Test(i, p)] = "done"
      BY <1>0, <1>1, <1>4, NeedsOfJobs, JobNames DEF FlowInv
    <2> QED BY <1>4, <2>1 DEF Condition, Manifest
  <1> QED BY <1>0, <1>2, <1>3, <1>4, KindOfJob

-----------------------------------------------------------------------------
(* The jobs of a pipeline: which exist, which are left out or skipped.     *)

LEMMA CreatedAreNumbers ==
    ASSUME TypeOK
    PROVE  Created \subseteq Numbers /\ \A n \in Created : pipe[n].affected \subseteq Images
  BY PipelinesAssumption DEF TypeOK, Created, Numbers

\* One job that was waiting goes on to state s.
Moves(n, j, s) ==
    /\ n \in Numbers /\ j \in Jobs
    /\ status[n][j] = "waiting"
    /\ status' = [status EXCEPT ![n][j] = s]
    /\ s \in {"done", "failed", "skipped", "unaffected"}
    /\ UNCHANGED <<provider, created, pipe>>

Causes(n, j, s) ==
    /\ s = "skipped" => \E k \in Jobs : status[n][k] \in {"failed", "skipped", "cancelled"}
    /\ s = "unaffected" => \A i \in pipe[n].affected : j \notin JobsOf(i)

LEMMA WaitingIsCreated ==
    ASSUME PipesOK, NEW n \in Numbers, NEW j \in Jobs, status[n][j] = "waiting"
    PROVE  n \in Created
  BY DEF PipesOK

LEMMA MoveKeepsFlow ==
    ASSUME FlowInv, NEW n, NEW j, NEW s, Moves(n, j, s), Causes(n, j, s),
           DOMAIN work' = Numbers,
           \A m \in Numbers :
              /\ DOMAIN work'[m] = Jobs
              /\ m \notin Created => \A k \in Jobs : work'[m][k] = work[m][k],
           DOMAIN tags' = DOMAIN tags, DOMAIN manifests' = DOMAIN manifests
    PROVE  FlowInv'
  <1>1. n \in Created
    BY WaitingIsCreated DEF FlowInv, Moves
  <1>2. \A m \in Numbers, k \in Jobs :
           status'[m][k] = IF m = n /\ k = j THEN s ELSE status[m][k]
    BY DEF Moves, FlowInv, TypeOK
  <1>3. /\ Created' = Created /\ Created \subseteq Numbers
        /\ \A m \in Created : pipe[m].affected \subseteq pipe[m].images
        /\ \A m \in Created : \A i \in pipe[m].images : JobsOf(i) \subseteq Jobs
    BY JobNames, CreatedAreNumbers, PipelinesAssumption
       DEF Moves, FlowInv, PipesOK, TypeOK, Created
  <1>4. TypeOK'
    BY DEF FlowInv, TypeOK, Moves, Ended
  <1>5. PipesOK'
    BY <1>1, <1>2, <1>3 DEF FlowInv, PipesOK, Moves
  <1>6. NotLeftOut'
    BY <1>1, <1>2, <1>3 DEF FlowInv, NotLeftOut, Moves, Causes
  <1>7. SkipsHaveCauses'
    <2> SUFFICES ASSUME NEW m \in Created, NEW k \in Jobs, status'[m][k] = "skipped"
                 PROVE  \E l \in Jobs : status'[m][l] \in {"failed", "cancelled"}
      BY <1>3 DEF SkipsHaveCauses
    <2>1. \E l \in Jobs : status[m][l] \in {"failed", "skipped", "cancelled"}
      BY <1>2, <1>3 DEF Causes
    <2>2. PICK l \in Jobs : status[m][l] \in {"failed", "cancelled"}
      BY <2>1 DEF FlowInv, SkipsHaveCauses
    <2>3. status'[m][l] = status[m][l]
      BY <1>2, <1>3, <2>2 DEF Moves
    <2> QED BY <2>2, <2>3
  <1> QED BY <1>4, <1>5, <1>6, <1>7 DEF FlowInv

\* A job whose needs and condition are met ends.
LEMMA EndIsMove ==
    ASSUME FlowInv, NEW n \in Numbers, NEW j \in Jobs, NEW s \in {"done", "failed"},
           End(n, j, s), UNCHANGED <<provider, created, pipe>>
    PROVE  /\ Moves(n, j, s) /\ Causes(n, j, s)
           /\ n \in Created
           /\ DOMAIN work' = Numbers
           /\ \A m \in Numbers : DOMAIN work'[m] = Jobs
           /\ \A m \in Numbers, k \in Jobs :
                 work'[m][k] = IF m = n /\ k = j THEN NoRefs ELSE work[m][k]
  <1>1. Moves(n, j, s) /\ Causes(n, j, s)
    BY DEF End, Running, Moves, Causes
  <1> QED BY <1>1, WaitingIsCreated DEF End, FlowInv, TypeOK, Moves

LEMMA EndKeepsFlow ==
    ASSUME FlowInv, NEW n \in Numbers, NEW j \in Jobs, NEW s \in {"done", "failed"},
           End(n, j, s), UNCHANGED <<provider, created, pipe>>,
           DOMAIN tags' = DOMAIN tags, DOMAIN manifests' = DOMAIN manifests
    PROVE  FlowInv'
  BY EndIsMove, MoveKeepsFlow

\* A running job fetches something more.
LEMMA FetchKeepsFlow ==
    ASSUME FlowInv, NEW n \in Numbers, NEW j \in Jobs, NEW w,
           status[n][j] = "waiting", work' = [work EXCEPT ![n][j] = w],
           UNCHANGED <<provider, created, pipe, status, registry>>
    PROVE  FlowInv'
  <1>1. n \in Created
    BY WaitingIsCreated DEF FlowInv
  <1>2. Created' = Created
    BY DEF Created
  <1> QED BY <1>1, <1>2 DEF FlowInv, TypeOK, PipesOK, NotLeftOut, SkipsHaveCauses, registry

\* A new pipeline leaves the older ones with the jobs that have ended, and may
\* end the others.
LEMMA CreateEffect ==
    ASSUME FlowInv, NEW r \in Refs, CreatePipeline(r)
    PROVE  /\ created + 1 \in Numbers /\ Created' = Created \cup {created + 1}
           /\ created + 1 \notin Created
           /\ pipe'[created + 1] \in Scopes(r)
           /\ \A j \in Jobs : status'[created + 1][j] =
                 IF JobExists(pipe'[created + 1], j) THEN "waiting" ELSE "absent"
           /\ \A n \in Numbers : n # created + 1 =>
                 /\ pipe'[n] = pipe[n]
                 /\ \A j \in Jobs : status'[n][j] =
                       IF /\ n \in Created /\ pipe[n].ref = r /\ CancelsOutdated(r)
                          /\ status[n][j] \notin Ended
                       THEN "cancelled" ELSE status[n][j]
           /\ TypeOK'
  <1>1. PICK s \in Scopes(r) :
           /\ pipe' = [pipe EXCEPT ![created + 1] = s]
           /\ status' = [Cancel(r) EXCEPT ![created + 1] =
                  [j \in Jobs |-> IF JobExists(s, j) THEN "waiting" ELSE "absent"]]
    BY DEF CreatePipeline
  <1>2. /\ created \in Nat /\ created + 1 \in Numbers
        /\ created' = created + 1
        /\ Created' = Created \cup {created + 1} /\ created + 1 \notin Created
    BY PipelinesAssumption DEF FlowInv, TypeOK, CreatePipeline, Numbers, Created
  <1>3. \A n \in Numbers : n \in Created <=> n <= created
    BY <1>2 DEF Numbers, Created
  <1>4. s \in [ref : {r}, affected : SUBSET Images, images : SUBSET Images]
    BY DEF Scopes
  <1>5. pipe' \in [Numbers -> [ref : Refs \cup {None}, affected : SUBSET Images,
                              images : SUBSET Images]]
    BY <1>1, <1>4 DEF FlowInv, TypeOK
  <1>6. /\ Cancel(r) \in [Numbers -> [Jobs -> Ended \cup {"waiting"}]]
        /\ \A n \in Numbers, j \in Jobs : Cancel(r)[n][j] =
              IF /\ n \in Created /\ pipe[n].ref = r /\ CancelsOutdated(r)
                 /\ status[n][j] \notin Ended
              THEN "cancelled" ELSE status[n][j]
    BY <1>3 DEF Cancel, FlowInv, TypeOK, Ended
  <1>7. status' \in [Numbers -> [Jobs -> Ended \cup {"waiting"}]]
    BY <1>1, <1>6 DEF Ended
  <1>8. TypeOK'
    BY <1>2, <1>5, <1>7 DEF FlowInv, TypeOK, CreatePipeline, registry, Numbers
  <1> QED BY <1>1, <1>2, <1>5, <1>6, <1>8 DEF FlowInv, TypeOK

LEMMA ScopeShape ==
    ASSUME NEW r, NEW s \in Scopes(r)
    PROVE  /\ s.ref = r /\ s.affected \subseteq s.images /\ s.images \subseteq Images
           /\ r = Main => s.affected = Images
  <1>1. CASE r = Main
    BY <1>1 DEF Scopes
  <1>2. CASE r # Main
    BY <1>2 DEF Scopes
  <1> QED BY <1>1, <1>2

LEMMA CreateKeepsFlow ==
    ASSUME FlowInv, NEW r \in Refs, CreatePipeline(r)
    PROVE  FlowInv'
  <1> DEFINE new == created + 1
  <1>1. /\ new \in Numbers /\ Created' = Created \cup {new} /\ new \notin Created
        /\ \A n \in Created : n \in Numbers /\ pipe'[n] = pipe[n]
        /\ \A n \in Created : pipe[n].images \subseteq Images
    BY CreateEffect, CreatedAreNumbers DEF FlowInv, TypeOK
  <1>2. /\ pipe'[new].ref = r /\ pipe'[new].affected \subseteq pipe'[new].images
        /\ pipe'[new].images \subseteq Images
        /\ r = Main => pipe'[new].affected = Images
    <2>1. pipe'[new] \in Scopes(r)
      BY CreateEffect
    <2> QED BY <2>1, ScopeShape
  <1>3. \A j \in Jobs : status'[new][j] \in {"waiting", "absent"}
    BY CreateEffect
  <1>4. \A i \in Images : JobsOf(i) \subseteq Jobs
    BY JobNames
  <1>5. PipesOK'
    <2>1. ASSUME NEW i \in pipe'[new].images, NEW j \in JobsOf(i)
          PROVE  status'[new][j] = "waiting"
      BY <1>2, <1>4, CreateEffect DEF JobExists
    <2>2. ASSUME NEW n \in Created
          PROVE  /\ pipe'[n].ref \in Refs
                 /\ pipe'[n].affected \subseteq pipe'[n].images
                 /\ pipe'[n].ref = Main => pipe'[n].affected = Images
                 /\ \A i \in pipe'[n].images : \A j \in JobsOf(i) : status'[n][j] # "absent"
      BY <1>1, <1>4, CreateEffect DEF FlowInv, PipesOK
    <2>3. ASSUME NEW n \in Numbers \ Created', NEW j \in Jobs
          PROVE  status'[n][j] = "absent" /\ DOMAIN work'[n][j] = {}
      <3>1. n \notin Created /\ n # new /\ status'[n][j] = status[n][j]
        BY <1>1, CreateEffect
      <3>2. work' = work
        BY DEF CreatePipeline
      <3> QED BY <3>1, <3>2 DEF FlowInv, PipesOK
    <2> QED BY <1>1, <1>2, <2>1, <2>2, <2>3 DEF PipesOK
  <1>6. NotLeftOut'
    <2>1. ASSUME NEW n \in Created, NEW i \in pipe[n].affected, NEW j \in JobsOf(i)
          PROVE  status'[n][j] # "unaffected"
      BY <1>1, <1>4, CreateEffect, CreatedAreNumbers DEF FlowInv, NotLeftOut
    <2> QED BY <1>1, <1>2, <1>3, <1>4, <2>1 DEF NotLeftOut
  <1>7. SkipsHaveCauses'
    <2>1. ASSUME NEW n \in Created, NEW j \in Jobs, status'[n][j] = "skipped"
          PROVE  \E k \in Jobs : status'[n][k] \in {"failed", "cancelled"}
      <3>1. PICK k \in Jobs : status[n][k] \in {"failed", "cancelled"}
        BY <1>1, <2>1, CreateEffect DEF FlowInv, SkipsHaveCauses
      <3>2. status'[n][k] = status[n][k]
        BY <1>1, <3>1, CreateEffect DEF Ended
      <3> QED BY <3>1, <3>2
    <2> QED BY <1>1, <1>3, <2>1 DEF SkipsHaveCauses
  <1> QED BY <1>5, <1>6, <1>7, CreateEffect DEF FlowInv

LEMMA InitFlow ==
    ASSUME Init
    PROVE  FlowInv
  <1>1. Created = {}
    BY DEF Init, Created
  <1>2. TypeOK
    BY PipelinesAssumption DEF Init, TypeOK, Ended, Numbers
  <1> QED BY <1>1, <1>2 DEF Init, FlowInv, PipesOK, NotLeftOut, SkipsHaveCauses, NoRefs

LEMMA SkipKeepsFlow ==
    ASSUME FlowInv, NEW n \in Numbers, NEW j \in Jobs, Skip(n, j)
    PROVE  FlowInv'
  <1>1. Moves(n, j, "skipped") /\ Causes(n, j, "skipped")
    BY NeedsAreJobs DEF Skip, Moves, Causes, FlowInv
  <1> QED BY <1>1, MoveKeepsFlow DEF Skip, FlowInv, TypeOK, registry

LEMMA LeaveOutKeepsFlow ==
    ASSUME FlowInv, NEW n \in Numbers, NEW j \in Jobs, LeaveOut(n, j)
    PROVE  FlowInv'
  <1>1. n \in Created
    BY WaitingIsCreated DEF LeaveOut, FlowInv
  <1>2. \A i \in pipe[n].affected : j \notin JobsOf(i)
    BY <1>1, AffectedAreNotLeftOut DEF LeaveOut
  <1>3. Moves(n, j, "unaffected") /\ Causes(n, j, "unaffected")
    BY <1>2 DEF LeaveOut, Moves, Causes
  <1> QED BY <1>3, MoveKeepsFlow DEF LeaveOut, FlowInv, TypeOK, registry

LEMMA NextFlow ==
    ASSUME FlowInv, [Next]_vars
    PROVE  FlowInv'
  <1>1. CASE UNCHANGED vars
    BY <1>1 DEF vars, registry, FlowInv, TypeOK, PipesOK, NotLeftOut, SkipsHaveCauses, Created
  <1>2. ASSUME NEW r \in Refs, CreatePipeline(r) PROVE FlowInv'
    BY <1>2, CreateKeepsFlow
  <1>3. ASSUME NEW n \in Numbers, NEW j \in Jobs, Skip(n, j) PROVE FlowInv'
    BY <1>3, SkipKeepsFlow
  <1>4. ASSUME NEW n \in Numbers, NEW j \in Jobs, LeaveOut(n, j) PROVE FlowInv'
    BY <1>4, LeaveOutKeepsFlow
  <1>5. ASSUME NEW n \in Numbers, NEW j \in Jobs, NothingToDo(n, j) \/ Fail(n, j)
        PROVE  FlowInv'
    BY <1>5, EndKeepsFlow DEF NothingToDo, Fail, registry
  <1>6. ASSUME NEW n \in Numbers, NEW i \in Images, WriteIndex(n, i) PROVE FlowInv'
    BY <1>6, JobNames, EndKeepsFlow DEF WriteIndex
  <1>7. ASSUME NEW n \in Numbers, NEW i \in Images, NEW p \in Platforms, Push(n, i, p)
        PROVE  FlowInv'
    BY <1>7, JobNames, EndKeepsFlow DEF Push
  <1>8. ASSUME NEW n \in Numbers, NEW i \in Images, NEW p \in Platforms, RunTests(n, i, p)
        PROVE  FlowInv'
    BY <1>8, JobNames, EndKeepsFlow DEF RunTests, registry
  <1>9. ASSUME NEW n \in Numbers, NEW i \in Images, NEW p \in Platforms, FetchRef(n, i, p)
        PROVE  FlowInv'
    <2>1. CASE End(n, Manifest(i), "failed")
      BY <1>9, <2>1, JobNames, EndKeepsFlow DEF FetchRef, registry
    <2>2. CASE ~ End(n, Manifest(i), "failed")
      BY <1>9, <2>2, JobNames, FetchKeepsFlow DEF FetchRef, Running
    <2> QED BY <2>1, <2>2
  <1>10. ASSUME NEW n \in Numbers, NEW i \in Images, NEW p \in Platforms, NEW d \in Images,
                PullDependency(n, i, p, d)
         PROVE  FlowInv'
    <2>1. CASE End(n, Build(i, p), "failed")
      BY <1>10, <2>1, JobNames, EndKeepsFlow DEF PullDependency, registry
    <2>2. CASE ~ End(n, Build(i, p), "failed")
      BY <1>10, <2>2, JobNames, FetchKeepsFlow DEF PullDependency, Running
    <2> QED BY <2>1, <2>2
  <1> QED BY <1>1, <1>2, <1>3, <1>4, <1>5, <1>6, <1>7, <1>8, <1>9, <1>10
          DEF Next, RunJob, Done

LEMMA FlowHolds == Spec => []FlowInv
  BY InitFlow, NextFlow, PTL DEF Spec

\* A pipeline in which no job fails publishes every image that change detection
\* affects, whatever is skipped or left out for the others: the conditions of
\* the generated GitHub jobs (build-job.yml.gotpl, manifest-job.yml.gotpl) and
\* the needs of the GitLab jobs never leave out a job of an affected image.
THEOREM AffectedPublished == Spec => []AffectedArePublished
  <1>1. FlowInv => AffectedArePublished
    <2> SUFFICES ASSUME FlowInv, NEW n \in Created,
                        \A j \in Jobs : status[n][j] \in {"absent", "done", "unaffected", "skipped"},
                        NEW i \in pipe[n].affected
                 PROVE  status[n][Manifest(i)] = "done"
      BY DEF AffectedArePublished, Created
    <2>1. i \in Images /\ i \in pipe[n].images
      BY CreatedAreNumbers DEF FlowInv, PipesOK
    <2>2. status[n][Manifest(i)] \notin {"absent", "unaffected"}
      BY <2>1, JobNames DEF FlowInv, PipesOK, NotLeftOut
    <2>3. \A j \in Jobs : status[n][j] # "skipped"
      BY DEF FlowInv, SkipsHaveCauses
    <2> QED BY <2>1, <2>2, <2>3, JobNames
  <1> QED BY <1>1, FlowHolds, PTL

-----------------------------------------------------------------------------
(* What the owner of a build ID has pushed, tested, fetched and published. *)

\* Outdated pipelines are cancelled.
OutdatedEnded ==
    \A n, m \in Created :
        n < m /\ pipe[n].ref = pipe[m].ref /\ CancelsOutdated(pipe[n].ref) => AllEnded(n)

BuildsOK ==
    \A n \in Created : Owner(n) =>
        \A i \in pipe[n].affected, p \in Platforms :
            status[n][Build(i, p)] = "done" => tags[<<i, p, BuildID(n)>>].commit = n

TestsOK ==
    \A n \in Created : Owner(n) =>
        \A i \in pipe[n].affected, p \in Platforms :
            status[n][Test(i, p)] = "done" =>
                /\ status[n][Build(i, p)] = "done"
                /\ <<i, p, tags[<<i, p, BuildID(n)>>]>> \in tested

\* An index in the making is of what the pipeline itself pushed and tested.
IndexesOK ==
    \A n \in Created : Owner(n) =>
        \A i \in pipe[n].affected, p \in Platforms :
            p \in DOMAIN work[n][Manifest(i)] =>
                /\ status[n][Test(i, p)] = "done"
                /\ work[n][Manifest(i)][p] = tags[<<i, p, BuildID(n)>>]

ManifestsOK ==
    \A n \in Created : Owner(n) =>
        \A i \in pipe[n].affected, p \in Platforms :
            status[n][Manifest(i)] = "done" => manifests[<<i, BuildID(n)>>][p].commit = n

MainCommit(c) == c = 0 \/ (c \in Created /\ pipe[c].ref = Main)

\* Commit c of image d is what pipeline n may build on.
SourceOK(n, d, c) == IF d \in pipe[n].affected THEN c = n ELSE MainCommit(c)

PullsOK ==
    \A n \in Created : Exclusive(BuildID(n)) =>
        \A i \in pipe[n].affected, p \in Platforms : \A d \in DOMAIN work[n][Build(i, p)] :
            SourceOK(n, d, work[n][Build(i, p)][d])

TagsOK ==
    \A i \in Images, p \in Platforms, id \in Ids :
        LET tag == tags[<<i, p, id>>] IN
        Exclusive(id) /\ tag # None /\ tag.commit # 0 =>
            /\ tag.commit \in Created
            /\ \A d \in Deps[i] : SourceOK(tag.commit, d, tag.on[d])

IndexOK(i, id) ==
    manifests[<<i, id>>] # None =>
        /\ \A p, q \in Platforms :
              manifests[<<i, id>>][p].commit = manifests[<<i, id>>][q].commit
        /\ \A p \in Platforms : <<i, p, manifests[<<i, id>>][p]>> \in tested
        /\ id = Production => \A p \in Platforms : MainCommit(manifests[<<i, id>>][p].commit)

PublishedOK == \A i \in Images, id \in Ids : Exclusive(id) => IndexOK(i, id)

OwnersOK == BuildsOK /\ TestsOK /\ IndexesOK /\ ManifestsOK
RegistryInv == OutdatedEnded /\ OwnersOK /\ PullsOK /\ TagsOK /\ PublishedOK

-----------------------------------------------------------------------------
(* Who owns a build ID.                                                    *)

LEMMA IdOfRef ==
    ASSUME FlowInv, ProductionIsExclusive, NEW n \in Created
    PROVE  /\ BuildID(n) \in Ids
           /\ Exclusive(BuildID(n)) <=> CancelsOutdated(pipe[n].ref)
           /\ BuildID(n) = Production => pipe[n].ref = Main
           /\ \A m \in Created : BuildID(n) = BuildID(m) => pipe[n].ref = pipe[m].ref
  <1>1. \A m \in Created : pipe[m].ref \in {Main} \cup MergeRequests
    BY DEF FlowInv, PipesOK, Refs, ProductionIsExclusive
  <1>2. CancelsOutdated(Main)
    BY DEF CancelsOutdated, ProductionIsExclusive, FlowInv, TypeOK
  <1> QED BY <1>1, <1>2, PipelinesAssumption DEF BuildID, Ids, Exclusive

\* A pipeline with a job that has not ended owns its build ID.
LEMMA WaitingIsOwner ==
    ASSUME FlowInv, OutdatedEnded, ProductionIsExclusive,
           NEW n \in Numbers, NEW j \in Jobs, status[n][j] = "waiting",
           Exclusive(BuildID(n))
    PROVE  n \in Created /\ Owner(n)
  <1>1. n \in Created
    BY WaitingIsCreated DEF FlowInv
  <1>2. ASSUME NEW m \in Created, m > n PROVE pipe[m].ref # pipe[n].ref
    <2>1. ~ AllEnded(n)
      BY DEF AllEnded, Ended
    <2> QED BY <1>1, <1>2, <2>1, IdOfRef DEF OutdatedEnded, Created
  <1> QED BY <1>1, <1>2 DEF Owner, Latest

LEMMA OneOwner ==
    ASSUME FlowInv, ProductionIsExclusive, NEW n \in Created, NEW m \in Created,
           Owner(n), Owner(m), BuildID(n) = BuildID(m)
    PROVE  n = m
  BY IdOfRef DEF Owner, Latest, Created

\* Only new pipelines change hands.
LEMMA SameOwners ==
    ASSUME UNCHANGED <<provider, created, pipe>>
    PROVE  /\ Created' = Created
           /\ \A n \in Created : BuildID(n)' = BuildID(n) /\ (Owner(n)' <=> Owner(n))
           /\ \A id : Exclusive(id)' <=> Exclusive(id)
           /\ \A c : MainCommit(c)' <=> MainCommit(c)
           /\ \A n, d, c : SourceOK(n, d, c)' <=> SourceOK(n, d, c)
  BY DEF Created, BuildID, Owner, Latest, Exclusive, CancelsOutdated, MainCommit, SourceOK

\* What a job needs is done when it concerns an affected image.
LEMMA NeededIsDone ==
    ASSUME FlowInv, NEW n \in Created, NEW i \in pipe[n].affected,
           NEW j \in Jobs, Running(n, j),
           NEW k \in JobsOf(i), k \in Needs(n, j)
    PROVE  status[n][k] = "done"
  BY DEF FlowInv, NotLeftOut, Running

-----------------------------------------------------------------------------
(* Jobs that end without touching an affected image.                       *)

LEMMA MoveKeepsOutdated ==
    ASSUME FlowInv, OutdatedEnded, NEW n, NEW j, NEW s, Moves(n, j, s)
    PROVE  OutdatedEnded'
  <1>1. ASSUME NEW m \in Created, AllEnded(m) PROVE AllEnded(m)'
    BY <1>1, CreatedAreNumbers DEF Moves, AllEnded, Ended, FlowInv, TypeOK
  <1>2. Created' = Created /\ \A r : CancelsOutdated(r)' <=> CancelsOutdated(r)
    BY DEF Moves, Created, CancelsOutdated
  <1> QED BY <1>1, <1>2 DEF Moves, OutdatedEnded

LEMMA MoveOfStatus ==
    ASSUME FlowInv, NEW n, NEW j, NEW s, Moves(n, j, s)
    PROVE  \A m \in Created, k \in Jobs :
              /\ status'[m][k] = IF m = n /\ k = j THEN s ELSE status[m][k]
              /\ status[m][k] = "done" => status'[m][k] = "done"
  BY CreatedAreNumbers DEF Moves, FlowInv, TypeOK

LEMMA QuietMove ==
    ASSUME FlowInv, RegistryInv, NEW n, NEW j, NEW s, Moves(n, j, s),
           s = "done" => \A i \in pipe[n].affected : j \notin JobsOf(i),
           \A m \in Numbers, k \in Jobs : work'[m][k] \in {work[m][k], NoRefs},
           UNCHANGED <<registry, tested>>
    PROVE  RegistryInv'
  <1>1. UNCHANGED <<provider, created, pipe>> /\ UNCHANGED <<tags, manifests, tested>>
    BY DEF Moves, registry
  <1>2. DOMAIN NoRefs = {}
    BY DEF NoRefs
  <1>3. Created \subseteq Numbers /\ \A m \in Created : pipe[m].affected \subseteq Images
    BY CreatedAreNumbers DEF FlowInv
  <1>4. \A m \in Created : \A i \in pipe[m].affected, k \in Jobs :
           k \in JobsOf(i) => (status'[m][k] = "done" <=> status[m][k] = "done")
    BY MoveOfStatus DEF Moves
  <1>5. \A m \in Created, k \in Jobs :
           DOMAIN work'[m][k] = {} \/ work'[m][k] = work[m][k]
    BY <1>2, <1>3
  <1>6. BuildsOK' /\ TestsOK' /\ ManifestsOK'
    BY <1>1, <1>3, <1>4, SameOwners, JobNames
       DEF RegistryInv, OwnersOK, BuildsOK, TestsOK, ManifestsOK
  <1>7. IndexesOK'
    BY <1>1, <1>3, <1>4, <1>5, SameOwners, JobNames DEF RegistryInv, OwnersOK, IndexesOK
  <1>8. PullsOK'
    BY <1>1, <1>3, <1>5, SameOwners, JobNames DEF RegistryInv, PullsOK
  <1>9. TagsOK' /\ PublishedOK'
    BY <1>1, SameOwners DEF RegistryInv, TagsOK, PublishedOK, IndexOK
  <1> QED BY <1>6, <1>7, <1>8, <1>9, MoveKeepsOutdated DEF RegistryInv, OwnersOK

LEMMA QuietEnd ==
    ASSUME FlowInv, RegistryInv, NEW n \in Numbers, NEW j \in Jobs,
           NEW s \in {"done", "failed"}, End(n, j, s),
           s = "done" => \A i \in pipe[n].affected : j \notin JobsOf(i),
           UNCHANGED <<provider, created, pipe, registry, tested>>
    PROVE  RegistryInv'
  <1>1. Moves(n, j, s)
        /\ \A m \in Numbers, k \in Jobs : work'[m][k] \in {work[m][k], NoRefs}
    BY EndIsMove
  <1> QED BY <1>1, QuietMove

LEMMA NothingToDoStep ==
    ASSUME FlowInv, RegistryInv, NEW n \in Numbers, NEW j \in Jobs, NothingToDo(n, j)
    PROVE  RegistryInv'
  <1>1. n \in Created
    BY WaitingIsCreated DEF NothingToDo, End, Running, FlowInv
  <1>2. ASSUME NEW i \in pipe[n].affected, j \in JobsOf(i) PROVE FALSE
    <2>1. i \in Images
      BY <1>1, CreatedAreNumbers DEF FlowInv
    <2>2. j \notin {Generate, Lint} /\ j[2] = i
      BY <1>2, <2>1, KindOfJob DEF Build, Test, Manifest, Generate, Lint
    <2> QED BY <1>2, <2>2 DEF NothingToDo, Affected
  <1> QED BY <1>2, QuietEnd DEF NothingToDo

-----------------------------------------------------------------------------
(* The accesses to the registry.                                           *)

\* A build pushes what it made from what it pulled.
LEMMA PushStep ==
    ASSUME FlowInv, RegistryInv, ProductionIsExclusive,
           NEW n \in Numbers, NEW i \in Images, NEW p \in Platforms, Push(n, i, p)
    PROVE  RegistryInv'
  <1> DEFINE j == Build(i, p)
             id == BuildID(n)
  <1>1. j \in Jobs /\ status[n][j] = "waiting" /\ n \in Created /\ i \in pipe[n].affected
    BY JobNames, WaitingIsCreated DEF Push, End, Running, FlowInv, Affected
  <1>2. PICK s \in {"done", "failed"} : End(n, j, s)
    BY DEF Push
  <1>3. UNCHANGED <<provider, created, pipe>> /\ UNCHANGED <<manifests, tested>>
    BY DEF Push
  <1>4. /\ Moves(n, j, s)
        /\ \A m \in Numbers, k \in Jobs :
              work'[m][k] = IF m = n /\ k = j THEN NoRefs ELSE work[m][k]
    BY <1>1, <1>2, <1>3, EndIsMove
  <1>5. id \in Ids
    BY <1>1, IdOfRef
  <1>6. \A k \in Images, q \in Platforms, jd \in Ids :
           tags'[<<k, q, jd>>] = IF k = i /\ q = p /\ jd = id
                                 THEN Image(n, work[n][j]) ELSE tags[<<k, q, jd>>]
    BY <1>5 DEF Push, FlowInv, TypeOK
  <1>7. /\ Created \subseteq Numbers /\ \A m \in Created : pipe[m].affected \subseteq Images
        /\ \A m \in Created : BuildID(m) \in Ids
    BY CreatedAreNumbers, IdOfRef DEF FlowInv
  <1>8. \A m \in Created : Owner(m) /\ BuildID(m) = id => m = n
    BY <1>1, WaitingIsOwner, OneOwner DEF RegistryInv, Owner
  <1>9. \A m \in Created, k \in Jobs : k # j =>
           status'[m][k] = status[m][k] /\ work'[m][k] = work[m][k]
    BY <1>4, <1>7, MoveOfStatus
  <1>10. \A k \in Images, q \in Platforms : j # Test(k, q) /\ j # Manifest(k)
    BY JobsDiffer
  \* whatever is tested already was not pushed by this step
  <1>11. ASSUME NEW m \in Created, Owner(m), NEW k \in pipe[m].affected, NEW q \in Platforms,
                status[m][Test(k, q)] = "done"
         PROVE  /\ status'[m][Build(k, q)] = "done"
                /\ tags'[<<k, q, BuildID(m)>>] = tags[<<k, q, BuildID(m)>>]
    <2>1. k \in Images /\ Build(k, q) \in Jobs /\ status[m][Build(k, q)] = "done"
      BY <1>7, <1>11, JobNames DEF RegistryInv, OwnersOK, TestsOK
    <2>2. status'[m][Build(k, q)] = "done"
      BY <1>4, <2>1, MoveOfStatus
    <2>3. ~ (m = n /\ k = i /\ q = p)
      BY <1>1, <2>1
    <2> QED BY <1>6, <1>7, <1>8, <1>11, <2>1, <2>2, <2>3
  <1>12. BuildsOK'
    <2>1. ASSUME NEW m \in Created, Owner(m), NEW k \in pipe[m].affected, NEW q \in Platforms,
                 status'[m][Build(k, q)] = "done"
          PROVE  tags'[<<k, q, BuildID(m)>>].commit = m
      <3>1. k \in Images /\ Build(k, q) \in Jobs
        BY <1>7, JobNames
      <3>2. CASE k = i /\ q = p /\ BuildID(m) = id
        BY <1>6, <1>7, <1>8, <2>1, <3>1, <3>2 DEF Image
      <3>3. CASE ~ (k = i /\ q = p /\ BuildID(m) = id)
        <4>1. status[m][Build(k, q)] = "done"
          BY <1>4, <2>1, <3>1, <3>3, MoveOfStatus, JobsDiffer
        <4>2. tags'[<<k, q, BuildID(m)>>] = tags[<<k, q, BuildID(m)>>]
          BY <1>6, <1>7, <3>1, <3>3
        <4> QED BY <2>1, <4>1, <4>2 DEF RegistryInv, OwnersOK, BuildsOK
      <3> QED BY <3>2, <3>3
    <2> QED BY <1>3, <2>1, SameOwners DEF BuildsOK
  <1>13. TestsOK'
    <2>1. ASSUME NEW m \in Created, Owner(m), NEW k \in pipe[m].affected, NEW q \in Platforms,
                 status'[m][Test(k, q)] = "done"
          PROVE  /\ status'[m][Build(k, q)] = "done"
                 /\ <<k, q, tags'[<<k, q, BuildID(m)>>]>> \in tested
      BY <1>7, <1>9, <1>10, <1>11, <2>1, JobNames DEF RegistryInv, OwnersOK, TestsOK
    <2> QED BY <1>3, <2>1, SameOwners DEF TestsOK
  <1>14. IndexesOK'
    <2>1. ASSUME NEW m \in Created, Owner(m), NEW k \in pipe[m].affected, NEW q \in Platforms,
                 q \in DOMAIN work'[m][Manifest(k)]
          PROVE  /\ status'[m][Test(k, q)] = "done"
                 /\ work'[m][Manifest(k)][q] = tags'[<<k, q, BuildID(m)>>]
      <3>1. /\ status[m][Test(k, q)] = "done" /\ work'[m][Manifest(k)] = work[m][Manifest(k)]
            /\ work[m][Manifest(k)][q] = tags[<<k, q, BuildID(m)>>]
        BY <1>7, <1>9, <1>10, <2>1, JobNames DEF RegistryInv, OwnersOK, IndexesOK
      <3> QED BY <1>7, <1>9, <1>10, <1>11, <2>1, <3>1, JobNames
    <2> QED BY <1>3, <2>1, SameOwners DEF IndexesOK
  <1>15. ManifestsOK'
    BY <1>3, <1>7, <1>9, <1>10, SameOwners, JobNames DEF RegistryInv, OwnersOK, ManifestsOK
  <1>16. PullsOK'
    <2>1. ASSUME NEW m \in Created, Exclusive(BuildID(m)), NEW k \in pipe[m].affected,
                 NEW q \in Platforms, NEW d \in DOMAIN work'[m][Build(k, q)]
          PROVE  SourceOK(m, d, work'[m][Build(k, q)][d])
      <3>1. k \in Images /\ Build(k, q) \in Jobs
        BY <1>7, JobNames
      <3>2. work'[m][Build(k, q)] = work[m][Build(k, q)]
        BY <1>4, <1>7, <2>1, <3>1 DEF NoRefs
      <3> QED BY <2>1, <3>2 DEF RegistryInv, PullsOK
    <2> QED BY <1>3, <2>1, SameOwners DEF PullsOK
  <1>17. TagsOK'
    <2>1. ASSUME NEW k \in Images, NEW q \in Platforms, NEW jd \in Ids, Exclusive(jd),
                 tags'[<<k, q, jd>>] # None, tags'[<<k, q, jd>>].commit # 0,
                 NEW d \in Deps[k]
          PROVE  /\ tags'[<<k, q, jd>>].commit \in Created
                 /\ SourceOK(tags'[<<k, q, jd>>].commit, d, tags'[<<k, q, jd>>].on[d])
      <3>1. CASE k = i /\ q = p /\ jd = id
        <4>1. /\ tags'[<<k, q, jd>>].commit = n
              /\ tags'[<<k, q, jd>>].on = work[n][j]
          BY <1>6, <3>1 DEF Image
        <4>2. d \in DOMAIN work[n][j]
          BY <3>1, <2>1 DEF Push
        <4>3. SourceOK(n, d, work[n][j][d])
          BY <1>1, <2>1, <3>1, <4>2 DEF RegistryInv, PullsOK
        <4> QED BY <1>1, <4>1, <4>3
      <3>2. CASE ~ (k = i /\ q = p /\ jd = id)
        BY <1>6, <2>1, <3>2 DEF RegistryInv, TagsOK
      <3> QED BY <3>1, <3>2
    <2>2. ASSUME NEW k \in Images, NEW q \in Platforms, NEW jd \in Ids, Exclusive(jd),
                 tags'[<<k, q, jd>>] # None, tags'[<<k, q, jd>>].commit # 0
          PROVE  tags'[<<k, q, jd>>].commit \in Created
      BY <1>1, <1>6, <2>2 DEF RegistryInv, TagsOK, Image
    <2> QED BY <1>3, <2>1, <2>2, SameOwners DEF TagsOK
  <1>18. PublishedOK'
    <2> SUFFICES ASSUME NEW k \in Images, NEW jd \in Ids, Exclusive(jd)'
                 PROVE  IndexOK(k, jd)'
      BY DEF PublishedOK
    <2>1. IndexOK(k, jd)
      BY <1>3, SameOwners DEF RegistryInv, PublishedOK
    <2>2. \A c : MainCommit(c)' <=> MainCommit(c)
      BY <1>3, SameOwners
    <2> QED BY <1>3, <2>1, <2>2 DEF IndexOK
  <1> QED BY <1>4, <1>12, <1>13, <1>14, <1>15, <1>16, <1>17, <1>18, MoveKeepsOutdated
          DEF RegistryInv, OwnersOK

\* The step of one job, for the registry and the others.
LEMMA EndEffect ==
    ASSUME FlowInv, NEW n \in Numbers, NEW j \in Jobs, NEW s \in {"done", "failed"},
           End(n, j, s), UNCHANGED <<provider, created, pipe>>
    PROVE  /\ n \in Created /\ status[n][j] = "waiting"
           /\ \A m \in Created, k \in Jobs :
                 /\ k # j \/ m # n => status'[m][k] = status[m][k]
                                    /\ work'[m][k] = work[m][k]
                 /\ status[m][k] = "done" => status'[m][k] = "done"
                 /\ work'[m][k] = work[m][k] \/ DOMAIN work'[m][k] = {}
           /\ (OutdatedEnded => OutdatedEnded')
  <1>1. Created \subseteq Numbers
    BY CreatedAreNumbers DEF FlowInv
  <1>2. /\ Moves(n, j, s) /\ n \in Created
        /\ \A m \in Numbers, k \in Jobs :
              work'[m][k] = IF m = n /\ k = j THEN NoRefs ELSE work[m][k]
    BY EndIsMove
  <1>3. \A m \in Created, k \in Jobs :
           /\ status'[m][k] = IF m = n /\ k = j THEN s ELSE status[m][k]
           /\ status[m][k] = "done" => status'[m][k] = "done"
    BY <1>2, MoveOfStatus
  <1>4. DOMAIN NoRefs = {}
    BY DEF NoRefs
  <1>5. OutdatedEnded => OutdatedEnded'
    BY <1>2, MoveKeepsOutdated
  <1> QED BY <1>1, <1>2, <1>3, <1>4, <1>5 DEF Moves

\* A test passes what its pipeline pushed.
LEMMA RunTestsStep ==
    ASSUME FlowInv, RegistryInv,
           NEW n \in Numbers, NEW i \in Images, NEW p \in Platforms, RunTests(n, i, p)
    PROVE  RegistryInv'
  <1> DEFINE j == Test(i, p)
  <1>1. /\ UNCHANGED <<provider, created, pipe>> /\ UNCHANGED <<tags, manifests>>
        /\ tested \subseteq tested'
        /\ <<i, p, tags[<<i, p, BuildID(n)>>]>> \in tested'
    BY DEF RunTests, registry
  <1>2. j \in Jobs /\ End(n, j, "done")
    BY JobNames DEF RunTests
  <1>3. /\ n \in Created /\ status[n][j] = "waiting"
        /\ \A m \in Created, k \in Jobs :
              /\ k # j \/ m # n => status'[m][k] = status[m][k] /\ work'[m][k] = work[m][k]
              /\ status[m][k] = "done" => status'[m][k] = "done"
              /\ work'[m][k] = work[m][k] \/ DOMAIN work'[m][k] = {}
        /\ OutdatedEnded'
    BY <1>1, <1>2, EndEffect DEF RegistryInv
  <1>4. i \in pipe[n].affected
    BY DEF RunTests, Affected
  <1>5. \A m \in Created : pipe[m].affected \subseteq Images
    BY CreatedAreNumbers DEF FlowInv
  <1>6. \A k \in Images, q \in Platforms : j # Build(k, q) /\ j # Manifest(k)
    BY JobsDiffer
  <1>7. BuildsOK' /\ ManifestsOK' /\ IndexesOK'
    BY <1>1, <1>3, <1>5, <1>6, SameOwners, JobNames
       DEF RegistryInv, OwnersOK, BuildsOK, ManifestsOK, IndexesOK
  <1>8. TestsOK'
    <2>1. ASSUME NEW m \in Created, Owner(m), NEW k \in pipe[m].affected, NEW q \in Platforms,
                 status'[m][Test(k, q)] = "done"
          PROVE  /\ status'[m][Build(k, q)] = "done"
                 /\ <<k, q, tags[<<k, q, BuildID(m)>>]>> \in tested'
      <3>1. k \in Images /\ Test(k, q) \in Jobs /\ Build(k, q) \in Jobs
        BY <1>5, JobNames
      <3>2. CASE status[m][Test(k, q)] = "done"
        BY <1>1, <1>3, <2>1, <3>1, <3>2 DEF RegistryInv, OwnersOK, TestsOK
      <3>3. CASE status[m][Test(k, q)] # "done"
        <4>1. m = n /\ k = i /\ q = p
          BY <1>3, <2>1, <3>1, <3>3, JobsDiffer
        <4>2. Build(i, p) \in JobsOf(i) /\ Build(i, p) \in Needs(n, j)
          BY NeedsOfJobs, JobNames DEF FlowInv
        <4>3. status[n][Build(i, p)] = "done"
          BY <1>2, <1>3, <1>4, <4>2, NeededIsDone DEF End
        <4> QED BY <1>1, <1>3, <3>1, <4>1, <4>3
      <3> QED BY <3>2, <3>3
    <2> QED BY <1>1, <2>1, SameOwners DEF TestsOK
  <1>9. PullsOK'
    BY <1>1, <1>3, <1>5, <1>6, SameOwners, JobNames DEF RegistryInv, PullsOK
  <1>10. TagsOK' /\ PublishedOK'
    BY <1>1, SameOwners DEF RegistryInv, TagsOK, PublishedOK, IndexOK
  <1> QED BY <1>3, <1>7, <1>8, <1>9, <1>10 DEF RegistryInv, OwnersOK

\* A running manifest job finds its tests done.
LEMMA ManifestWaitsForTests ==
    ASSUME FlowInv, NEW n \in Created, NEW i \in pipe[n].affected, NEW p \in Platforms,
           Running(n, Manifest(i))
    PROVE  status[n][Test(i, p)] = "done"
  <1>1. n \in Numbers /\ i \in Images
    BY CreatedAreNumbers DEF FlowInv
  <1>2. Manifest(i) \in Jobs /\ Test(i, p) \in JobsOf(i) /\ Test(i, p) \in Needs(n, Manifest(i))
    BY <1>1, JobNames, NeedsOfJobs DEF FlowInv
  <1> QED BY <1>2, NeededIsDone

LEMMA FetchRefStep ==
    ASSUME FlowInv, RegistryInv,
           NEW n \in Numbers, NEW i \in Images, NEW p \in Platforms, FetchRef(n, i, p)
    PROVE  RegistryInv'
  <1> DEFINE j == Manifest(i)
             w == [x \in DOMAIN work[n][j] \cup {p} |->
                      IF x = p THEN tags[<<i, p, BuildID(n)>>] ELSE work[n][j][x]]
  <1>1. CASE End(n, j, "failed")
    BY <1>1, JobNames, QuietEnd DEF FetchRef
  <1>2. CASE ~ End(n, j, "failed")
    <2>1. /\ UNCHANGED <<provider, created, pipe>> /\ UNCHANGED <<status, tags, manifests, tested>>
          /\ work' = [work EXCEPT ![n][j] = w]
      BY <1>2, JobNames DEF FetchRef, registry, FlowInv, TypeOK
    <2>2. j \in Jobs /\ Running(n, j) /\ i \in pipe[n].affected
      BY JobNames DEF FetchRef, Affected
    <2> HIDE DEF w
    <2>3. n \in Created
      BY <2>2, WaitingIsCreated DEF FlowInv, Running
    <2>4. \A m \in Created, k \in Jobs :
             work'[m][k] = IF m = n /\ k = j THEN w ELSE work[m][k]
      BY <2>1, <2>2, CreatedAreNumbers DEF FlowInv, TypeOK
    <2>5. \A m \in Created : pipe[m].affected \subseteq Images
      BY CreatedAreNumbers DEF FlowInv
    <2>6. OutdatedEnded' /\ BuildsOK' /\ TestsOK' /\ ManifestsOK' /\ TagsOK' /\ PublishedOK'
      BY <2>1, SameOwners
         DEF RegistryInv, OwnersOK, OutdatedEnded, AllEnded, CancelsOutdated,
             BuildsOK, TestsOK, ManifestsOK, TagsOK, PublishedOK, IndexOK
    <2>7. PullsOK'
      BY <2>1, <2>4, <2>5, SameOwners, JobNames, JobsDiffer DEF RegistryInv, PullsOK
    <2>8. IndexesOK'
      <3>1. ASSUME NEW m \in Created, Owner(m), NEW k \in pipe[m].affected,
                   NEW q \in Platforms, q \in DOMAIN work'[m][Manifest(k)]
            PROVE  /\ status[m][Test(k, q)] = "done"
                   /\ work'[m][Manifest(k)][q] = tags[<<k, q, BuildID(m)>>]
        <4>1. k \in Images /\ Manifest(k) \in Jobs
          BY <2>5, JobNames
        <4>2. CASE m = n /\ k = i /\ q = p
          <5>1. w[p] = tags[<<i, p, BuildID(n)>>]
            BY DEF w
          <5> QED BY <2>2, <2>3, <2>4, <4>2, <5>1, ManifestWaitsForTests
        <4>3. CASE ~ (m = n /\ k = i /\ q = p)
          <5>1. /\ q \in DOMAIN work[m][Manifest(k)]
                /\ work'[m][Manifest(k)][q] = work[m][Manifest(k)][q]
            <6>1. CASE m = n /\ k = i
              <7>1. q \in DOMAIN w /\ q # p
                BY <2>2, <2>4, <3>1, <4>3, <6>1
              <7>2. q \in DOMAIN work[n][j] /\ w[q] = work[n][j][q]
                BY <7>1 DEF w
              <7> QED BY <2>2, <2>4, <3>1, <6>1, <7>2
            <6>2. CASE ~ (m = n /\ k = i)
              BY <2>4, <3>1, <4>1, <6>2, JobsDiffer
            <6> QED BY <6>1, <6>2
          <5> QED BY <3>1, <5>1 DEF RegistryInv, OwnersOK, IndexesOK
        <4> QED BY <4>2, <4>3
      <3> QED BY <2>1, <3>1, SameOwners DEF IndexesOK
    <2> QED BY <2>6, <2>7, <2>8 DEF RegistryInv, OwnersOK
  <1> QED BY <1>1, <1>2

\* An index is published that is of one commit and tested.
LEMMA WriteIndexStep ==
    ASSUME FlowInv, RegistryInv, ProductionIsExclusive,
           NEW n \in Numbers, NEW i \in Images, WriteIndex(n, i)
    PROVE  RegistryInv'
  <1> DEFINE j == Manifest(i)
             id == BuildID(n)
             w == work[n][j]
  <1>1. UNCHANGED <<provider, created, pipe>> /\ UNCHANGED <<tags, tested>>
    BY DEF WriteIndex
  <1>2. j \in Jobs /\ End(n, j, "done") /\ Running(n, j)
        /\ i \in pipe[n].affected /\ DOMAIN w = Platforms
    BY JobNames DEF WriteIndex, End, Affected
  <1>3. /\ n \in Created /\ status[n][j] = "waiting"
        /\ \A m \in Created, k \in Jobs :
              /\ k # j \/ m # n => status'[m][k] = status[m][k] /\ work'[m][k] = work[m][k]
              /\ status[m][k] = "done" => status'[m][k] = "done"
              /\ work'[m][k] = work[m][k] \/ DOMAIN work'[m][k] = {}
        /\ OutdatedEnded'
    BY <1>1, <1>2, EndEffect DEF RegistryInv
  <1>4. \A m \in Created : pipe[m].affected \subseteq Images
    BY CreatedAreNumbers DEF FlowInv
  <1>5. id \in Ids /\ (id = Production => pipe[n].ref = Main)
        /\ \A m \in Created : BuildID(m) \in Ids
    BY <1>3, IdOfRef
  <1>6. \A k \in Images, jd \in Ids :
           manifests'[<<k, jd>>] = IF k = i /\ jd = id THEN w ELSE manifests[<<k, jd>>]
    BY <1>5 DEF WriteIndex, FlowInv, TypeOK
  <1>7. ASSUME Exclusive(id)
        PROVE  /\ Owner(n)
               /\ \A p \in Platforms : w[p].commit = n /\ <<i, p, w[p]>> \in tested
    <2>1. Owner(n)
      BY <1>2, <1>3, <1>7, WaitingIsOwner DEF RegistryInv
    <2>2. ASSUME NEW p \in Platforms PROVE w[p].commit = n /\ <<i, p, w[p]>> \in tested
      <3>1. status[n][Test(i, p)] = "done" /\ w[p] = tags[<<i, p, id>>]
        BY <1>2, <1>3, <2>1 DEF RegistryInv, OwnersOK, IndexesOK
      <3>2. status[n][Build(i, p)] = "done" /\ <<i, p, tags[<<i, p, id>>]>> \in tested
        BY <1>2, <1>3, <2>1, <3>1 DEF RegistryInv, OwnersOK, TestsOK
      <3>3. tags[<<i, p, id>>].commit = n
        BY <1>2, <1>3, <2>1, <3>2 DEF RegistryInv, OwnersOK, BuildsOK
      <3> QED BY <3>1, <3>2, <3>3
    <2> QED BY <2>1, <2>2
  <1> HIDE DEF w
  <1>8. \A k \in Images, q \in Platforms : j # Build(k, q) /\ j # Test(k, q)
    BY JobsDiffer
  <1>9. BuildsOK' /\ TestsOK'
    BY <1>1, <1>3, <1>4, <1>8, SameOwners, JobNames
       DEF RegistryInv, OwnersOK, BuildsOK, TestsOK
  <1>10. IndexesOK'
    BY <1>1, <1>3, <1>4, <1>8, SameOwners, JobNames DEF RegistryInv, OwnersOK, IndexesOK
  <1>11. PullsOK'
    BY <1>1, <1>3, <1>4, <1>8, SameOwners, JobNames DEF RegistryInv, PullsOK
  <1>12. TagsOK'
    BY <1>1, SameOwners DEF RegistryInv, TagsOK
  <1>13. ManifestsOK'
    <2>1. ASSUME NEW m \in Created, Owner(m), NEW k \in pipe[m].affected, NEW q \in Platforms,
                 status'[m][Manifest(k)] = "done"
          PROVE  manifests'[<<k, BuildID(m)>>][q].commit = m
      <3>1. k \in Images /\ Manifest(k) \in Jobs
        BY <1>4, JobNames
      <3>2. CASE k = i /\ BuildID(m) = id
        <4>1. m = n /\ Exclusive(id)
          BY <1>3, <1>7, <2>1, <3>2, OneOwner DEF Owner
        <4> QED BY <1>5, <1>6, <1>7, <3>1, <3>2, <4>1
      <3>3. CASE ~ (k = i /\ BuildID(m) = id)
        <4>1. status[m][Manifest(k)] = "done"
          BY <1>3, <2>1, <3>1, <3>3, JobsDiffer
        <4>2. manifests'[<<k, BuildID(m)>>] = manifests[<<k, BuildID(m)>>]
          BY <1>5, <1>6, <3>1, <3>3
        <4> QED BY <2>1, <4>1, <4>2 DEF RegistryInv, OwnersOK, ManifestsOK
      <3> QED BY <3>2, <3>3
    <2> QED BY <1>1, <2>1, SameOwners DEF ManifestsOK
  <1>14. PublishedOK'
    <2>1. ASSUME NEW k \in Images, NEW jd \in Ids, Exclusive(jd) PROVE IndexOK(k, jd)'
      <3>1. CASE k = i /\ jd = id
        <4>1. manifests'[<<k, jd>>] = w
          BY <1>6, <2>1, <3>1
        <4>2. \A p \in Platforms : w[p].commit = n /\ <<i, p, w[p]>> \in tested'
          BY <1>1, <1>7, <2>1, <3>1, SameOwners
        <4>3. jd = Production => MainCommit(n)'
          BY <1>1, <1>3, <1>5, <3>1, SameOwners DEF MainCommit
        <4> QED BY <3>1, <4>1, <4>2, <4>3 DEF IndexOK
      <3>2. CASE ~ (k = i /\ jd = id)
        BY <1>1, <1>6, <2>1, <3>2, SameOwners DEF IndexOK, RegistryInv, PublishedOK
      <3> QED BY <3>1, <3>2
    <2> QED BY <1>1, <2>1, SameOwners DEF PublishedOK
  <1> QED BY <1>3, <1>9, <1>10, <1>11, <1>12, <1>13, <1>14 DEF RegistryInv, OwnersOK

\* A build waits for the manifests of the dependencies that its pipeline
\* rebuilds, and takes the others from production.
LEMMA PullIsSound ==
    ASSUME FlowInv, RegistryInv, ProductionIsExclusive,
           NEW n \in Created, NEW i \in pipe[n].affected, NEW p \in Platforms,
           NEW d \in Deps[i], i \in Images, Running(n, Build(i, p)), Exclusive(BuildID(n)),
           manifests[<<d, DepBuildID(n, d)>>] # None
    PROVE  SourceOK(n, d, manifests[<<d, DepBuildID(n, d)>>][p].commit)
  <1>1. n \in Numbers /\ d \in Images /\ Build(i, p) \in Jobs /\ status[n][Build(i, p)] = "waiting"
    BY CreatedAreNumbers, JobNames, PipelinesAssumption DEF FlowInv, Running
  <1>2. Owner(n)
    BY <1>1, WaitingIsOwner DEF RegistryInv
  <1>3. CASE d \in pipe[n].affected
    <2>1. d \in pipe[n].images
      BY <1>3 DEF FlowInv, PipesOK
    <2>2. Manifest(d) \in JobsOf(d) /\ Manifest(d) \in Needs(n, Build(i, p))
      BY <1>1, <2>1, JobNames, NeedsOfJobs DEF FlowInv
    <2>3. status[n][Manifest(d)] = "done"
      BY <1>1, <1>3, <2>2 DEF FlowInv, NotLeftOut, Running
    <2> QED BY <1>2, <1>3, <2>3
            DEF RegistryInv, OwnersOK, ManifestsOK, SourceOK, DepBuildID, Affected
  <1>4. CASE d \notin pipe[n].affected
    <2>1. DepBuildID(n, d) = Production /\ Production \in Ids /\ Exclusive(Production)
      BY <1>4 DEF DepBuildID, Affected, Ids, Exclusive
    <2>2. MainCommit(manifests[<<d, Production>>][p].commit)
      BY <1>1, <2>1 DEF RegistryInv, PublishedOK, IndexOK
    <2> QED BY <1>4, <2>1, <2>2 DEF SourceOK
  <1> QED BY <1>3, <1>4

LEMMA PullDependencyStep ==
    ASSUME FlowInv, RegistryInv, ProductionIsExclusive,
           NEW n \in Numbers, NEW i \in Images, NEW p \in Platforms, NEW d \in Images,
           PullDependency(n, i, p, d)
    PROVE  RegistryInv'
  <1> DEFINE j == Build(i, p)
             m == manifests[<<d, DepBuildID(n, d)>>]
             w == [x \in DOMAIN work[n][j] \cup {d} |->
                      IF x = d THEN m[p].commit ELSE work[n][j][x]]
  <1>1. CASE End(n, j, "failed")
    BY <1>1, JobNames, QuietEnd DEF PullDependency
  <1>2. CASE ~ End(n, j, "failed")
    <2>1. /\ UNCHANGED <<provider, created, pipe>> /\ UNCHANGED <<status, tags, manifests, tested>>
          /\ work' = [work EXCEPT ![n][j] = w] /\ m # None
      BY <1>2, JobNames DEF PullDependency, registry, FlowInv, TypeOK
    <2>2. j \in Jobs /\ Running(n, j) /\ i \in pipe[n].affected /\ d \in Deps[i]
      BY JobNames DEF PullDependency, Affected
    <2>3. n \in Created
      BY <2>2, WaitingIsCreated DEF FlowInv, Running
    <2>4. Exclusive(BuildID(n)) => SourceOK(n, d, m[p].commit)
      BY <2>1, <2>2, <2>3, PullIsSound
    <2>5. DOMAIN w = DOMAIN work[n][j] \cup {d} /\ w[d] = m[p].commit
          /\ \A x \in DOMAIN w : x # d => w[x] = work[n][j][x]
      OBVIOUS
    <2> HIDE DEF w, m
    <2>6. \A h \in Created, k \in Jobs :
             work'[h][k] = IF h = n /\ k = j THEN w ELSE work[h][k]
      BY <2>1, <2>2, CreatedAreNumbers DEF FlowInv, TypeOK
    <2>7. \A h \in Created : pipe[h].affected \subseteq Images
      BY CreatedAreNumbers DEF FlowInv
    <2>8. OutdatedEnded' /\ BuildsOK' /\ TestsOK' /\ ManifestsOK' /\ TagsOK' /\ PublishedOK'
      BY <2>1, SameOwners
         DEF RegistryInv, OwnersOK, OutdatedEnded, AllEnded, CancelsOutdated,
             BuildsOK, TestsOK, ManifestsOK, TagsOK, PublishedOK, IndexOK
    <2>9. IndexesOK'
      BY <2>1, <2>6, <2>7, SameOwners, JobNames, JobsDiffer DEF RegistryInv, OwnersOK, IndexesOK
    <2>10. PullsOK'
      <3>1. ASSUME NEW h \in Created, Exclusive(BuildID(h)), NEW k \in pipe[h].affected,
                   NEW q \in Platforms, NEW x \in DOMAIN work'[h][Build(k, q)]
            PROVE  SourceOK(h, x, work'[h][Build(k, q)][x])
        <4>1. k \in Images /\ Build(k, q) \in Jobs
          BY <2>7, JobNames
        <4>2. CASE h = n /\ Build(k, q) = j
          <5>1. work'[h][Build(k, q)] = w /\ k = i /\ q = p
            BY <2>6, <4>1, <4>2, JobsDiffer
          <5>2. CASE x = d
            BY <2>4, <2>5, <3>1, <4>2, <5>1, <5>2
          <5>3. CASE x # d
            <6>1. x \in DOMAIN work[n][j] /\ w[x] = work[n][j][x]
              BY <2>5, <3>1, <5>1, <5>3
            <6> QED BY <2>2, <2>3, <3>1, <4>2, <5>1, <6>1 DEF RegistryInv, PullsOK
          <5> QED BY <5>2, <5>3
        <4>3. CASE ~ (h = n /\ Build(k, q) = j)
          <5>1. work'[h][Build(k, q)] = work[h][Build(k, q)]
            BY <2>6, <4>1, <4>3
          <5> QED BY <3>1, <5>1 DEF RegistryInv, PullsOK
        <4> QED BY <4>2, <4>3
      <3> QED BY <2>1, <3>1, SameOwners DEF PullsOK
    <2> QED BY <2>8, <2>9, <2>10 DEF RegistryInv, OwnersOK
  <1> QED BY <1>1, <1>2

-----------------------------------------------------------------------------
(* A new pipeline takes its build ID over from one that has ended.         *)

LEMMA CreateKeepsOutdated ==
    ASSUME FlowInv, OutdatedEnded, NEW r \in Refs, CreatePipeline(r)
    PROVE  OutdatedEnded'
  <1> DEFINE new == created + 1
  <1>1. /\ Created' = Created \cup {new} /\ new \notin Created
        /\ Created \subseteq Numbers /\ \A n \in Created : n < new
    BY CreateEffect, CreatedAreNumbers, PipelinesAssumption DEF FlowInv, TypeOK, Created
  <1>2. pipe'[new].ref = r
    BY CreateEffect, ScopeShape
  <1>3. \A q : CancelsOutdated(q)' <=> CancelsOutdated(q)
    BY DEF CreatePipeline, CancelsOutdated
  <1>4. ASSUME NEW n \in Created, AllEnded(n) \/ (pipe[n].ref = r /\ CancelsOutdated(r))
        PROVE  AllEnded(n)'
    <2>1. \A j \in Jobs : status'[n][j] =
             IF pipe[n].ref = r /\ CancelsOutdated(r) /\ status[n][j] \notin Ended
             THEN "cancelled" ELSE status[n][j]
      BY <1>1, CreateEffect
    <2> QED BY <1>4, <2>1 DEF AllEnded, Ended
  <1>5. \A n \in Created : pipe'[n] = pipe[n]
    BY <1>1, CreateEffect
  <1> SUFFICES ASSUME NEW n \in Created', NEW m \in Created', n < m,
                      pipe'[n].ref = pipe'[m].ref, CancelsOutdated(pipe'[n].ref)
               PROVE  AllEnded(n)'
    BY <1>3 DEF OutdatedEnded
  <1>6. n \in Created
    BY <1>1 DEF Created
  <1>7. CASE m = new
    BY <1>2, <1>4, <1>5, <1>6, <1>7
  <1>8. CASE m \in Created
    BY <1>4, <1>5, <1>6, <1>8 DEF OutdatedEnded
  <1> QED BY <1>1, <1>7, <1>8

LEMMA CreateStep ==
    ASSUME FlowInv, RegistryInv, NEW r \in Refs, CreatePipeline(r)
    PROVE  RegistryInv'
  <1> DEFINE new == created + 1
  <1>1. /\ Created' = Created \cup {new} /\ new \notin Created /\ new \in Numbers
        /\ Created \subseteq Numbers
        /\ \A n \in Created : pipe'[n] = pipe[n] /\ pipe[n].affected \subseteq Images
        /\ pipe'[new].affected \subseteq Images
    BY CreateEffect, CreatedAreNumbers, ScopeShape DEF FlowInv
  <1>2. UNCHANGED provider /\ UNCHANGED <<work, tags, manifests, tested>>
    BY DEF CreatePipeline, registry
  <1>3. \A n \in Created, j \in Jobs : status'[n][j] = "done" <=> status[n][j] = "done"
    BY <1>1, CreateEffect DEF Ended
  <1>4. \A j \in Jobs : status'[new][j] # "done" /\ DOMAIN work[new][j] = {}
    <2>1. \A j \in Jobs : status'[new][j] \in {"waiting", "absent"}
      BY CreateEffect
    <2> QED BY <1>1, <2>1 DEF FlowInv, PipesOK
  <1>5. \A id : Exclusive(id)' <=> Exclusive(id)
    BY <1>2 DEF Exclusive, CancelsOutdated
  <1>6. \A n \in Created : BuildID(n)' = BuildID(n)
    BY <1>1 DEF BuildID
  <1>7. \A n \in Created : Owner(n)' => Owner(n)
    BY <1>1, <1>5, <1>6 DEF Owner, Latest
  <1>8. \A c : MainCommit(c) => MainCommit(c)'
    BY <1>1 DEF MainCommit
  <1>9. \A n \in Created : \A d, c : SourceOK(n, d, c) => SourceOK(n, d, c)'
    BY <1>1, <1>8 DEF SourceOK
  <1>10. BuildsOK'
    BY <1>1, <1>2, <1>3, <1>4, <1>6, <1>7, JobNames DEF RegistryInv, OwnersOK, BuildsOK
  <1>11. TestsOK'
    BY <1>1, <1>2, <1>3, <1>4, <1>6, <1>7, JobNames DEF RegistryInv, OwnersOK, TestsOK
  <1>12. IndexesOK'
    BY <1>1, <1>2, <1>3, <1>4, <1>6, <1>7, JobNames DEF RegistryInv, OwnersOK, IndexesOK
  <1>13. ManifestsOK'
    BY <1>1, <1>2, <1>3, <1>4, <1>6, <1>7, JobNames DEF RegistryInv, OwnersOK, ManifestsOK
  <1>14. PullsOK'
    BY <1>1, <1>2, <1>4, <1>5, <1>6, <1>9, JobNames DEF RegistryInv, PullsOK
  <1>15. TagsOK'
    BY <1>1, <1>2, <1>5, <1>9 DEF RegistryInv, TagsOK
  <1>16. PublishedOK'
    BY <1>2, <1>5, <1>8 DEF RegistryInv, PublishedOK, IndexOK
  <1> QED BY <1>10, <1>11, <1>12, <1>13, <1>14, <1>15, <1>16, CreateKeepsOutdated
          DEF RegistryInv, OwnersOK

-----------------------------------------------------------------------------
(* What the registry holds.                                                *)

LEMMA InitRegistry ==
    ASSUME Init
    PROVE  RegistryInv
  <1>1. Created = {}
    BY DEF Init, Created
  <1>2. \A i \in Images, p \in Platforms, id \in Ids :
           tags[<<i, p, id>>] # None => tags[<<i, p, id>>] = Initial(i)
    BY DEF Init
  <1>3. \A i \in Images, id \in Ids :
           manifests[<<i, id>>] # None => manifests[<<i, id>>] = [p \in Platforms |-> Initial(i)]
    BY DEF Init
  <1>4. \A i \in Images : Initial(i).commit = 0
    BY DEF Initial, Image
  <1>5. \A i \in Images, p \in Platforms : <<i, p, Initial(i)>> \in tested
    BY DEF Init
  <1>6. TagsOK
    BY <1>2, <1>4 DEF TagsOK
  <1>7. PublishedOK
    <2>1. ASSUME NEW i \in Images, NEW id \in Ids, manifests[<<i, id>>] # None
          PROVE  \A p \in Platforms : manifests[<<i, id>>][p] = Initial(i)
      BY <1>3, <2>1
    <2> QED BY <1>4, <1>5, <2>1 DEF PublishedOK, IndexOK, MainCommit
  <1> QED BY <1>1, <1>6, <1>7
          DEF RegistryInv, OwnersOK, OutdatedEnded, BuildsOK, TestsOK, IndexesOK,
              ManifestsOK, PullsOK

LEMMA NextRegistry ==
    ASSUME FlowInv, RegistryInv, ProductionIsExclusive, [Next]_vars
    PROVE  RegistryInv'
  <1>1. CASE UNCHANGED vars
    BY <1>1, SameOwners
       DEF vars, registry, RegistryInv, OwnersOK, OutdatedEnded, AllEnded, CancelsOutdated,
           BuildsOK, TestsOK, IndexesOK, ManifestsOK, PullsOK, TagsOK, PublishedOK, IndexOK
  <1>2. ASSUME NEW r \in Refs, CreatePipeline(r) PROVE RegistryInv'
    BY <1>2, CreateStep
  <1>3. ASSUME NEW n \in Numbers, NEW j \in Jobs, Skip(n, j) \/ LeaveOut(n, j)
        PROVE  RegistryInv'
    <2>1. \E s \in {"skipped", "unaffected"} : Moves(n, j, s)
      BY <1>3 DEF Skip, LeaveOut, Moves
    <2>2. UNCHANGED <<work, registry, tested>>
      BY <1>3 DEF Skip, LeaveOut
    <2> QED BY <2>1, <2>2, QuietMove
  <1>4. ASSUME NEW n \in Numbers, NEW j \in Jobs, NothingToDo(n, j) PROVE RegistryInv'
    BY <1>4, NothingToDoStep
  <1>5. ASSUME NEW n \in Numbers, NEW j \in Jobs, Fail(n, j) PROVE RegistryInv'
    BY <1>5, QuietEnd DEF Fail
  <1>6. ASSUME NEW n \in Numbers, NEW i \in Images, WriteIndex(n, i) PROVE RegistryInv'
    BY <1>6, WriteIndexStep
  <1>7. ASSUME NEW n \in Numbers, NEW i \in Images, NEW p \in Platforms,
               Push(n, i, p) \/ RunTests(n, i, p) \/ FetchRef(n, i, p)
        PROVE  RegistryInv'
    BY <1>7, PushStep, RunTestsStep, FetchRefStep
  <1>8. ASSUME NEW n \in Numbers, NEW i \in Images, NEW p \in Platforms, NEW d \in Images,
               PullDependency(n, i, p, d)
        PROVE  RegistryInv'
    BY <1>8, PullDependencyStep
  <1> QED BY <1>1, <1>2, <1>3, <1>4, <1>5, <1>6, <1>7, <1>8 DEF Next, RunJob, Done

LEMMA RegistryHolds ==
    ASSUME ProductionIsExclusive
    PROVE  Spec => [](FlowInv /\ RegistryInv)
  <1>1. Init => FlowInv /\ RegistryInv
    BY InitFlow, InitRegistry
  <1>2. FlowInv /\ RegistryInv /\ [Next]_vars => FlowInv' /\ RegistryInv'
    BY NextFlow, NextRegistry
  <1> QED BY <1>1, <1>2, PTL DEF Spec

LEMMA PublishedShape ==
    ASSUME NEW id, NEW x \in Published(id)
    PROVE  \E i \in Images, p \in Platforms :
              manifests[<<i, id>>] # None /\ x = <<i, p, manifests[<<i, id>>][p]>>
  BY DEF Published

\* ch finalize combines platform images of one commit (CreateManifestListFromRefs),
\* although jobs of their own push them and a newer pipeline of the same merge
\* request writes the same tags: when it does, the older one has been cancelled.
THEOREM ManifestsAreOneCommit ==
    ASSUME ProductionIsExclusive
    PROVE  Spec => []ManifestIsOneCommit
  <1>1. FlowInv /\ RegistryInv => ManifestIsOneCommit
    BY DEF FlowInv, TypeOK, RegistryInv, PublishedOK, IndexOK, ManifestIsOneCommit, OneCommit
  <1> QED BY <1>1, RegistryHolds, PTL

\* Nothing is published that ch test has not passed, and an image is built on
\* what its own pipeline published of a dependency that it rebuilds (needs of the
\* build jobs), and on production elsewhere (depBuildID).
THEOREM PublishedSound ==
    ASSUME ProductionIsExclusive
    PROVE  Spec => []PublishedIsSound
  <1>1. FlowInv /\ RegistryInv => PublishedIsTested
    <2> SUFFICES ASSUME RegistryInv, NEW id \in Ids, Exclusive(id), NEW x \in Published(id)
                 PROVE  x \in tested
      BY DEF PublishedIsTested
    <2> QED BY PublishedShape DEF RegistryInv, PublishedOK, IndexOK
  <1>2. FlowInv /\ RegistryInv => DependenciesOfOwnPipeline
    <2> SUFFICES ASSUME FlowInv, RegistryInv, NEW t \in DOMAIN tags,
                        Exclusive(t[3]), tags[t] # None, tags[t].commit > 0,
                        NEW d \in Deps[t[1]]
                 PROVE  SourceOK(tags[t].commit, d, tags[t].on[d])
      BY DEF DependenciesOfOwnPipeline, SourceOK, MainCommit
    <2>1. PICK i \in Images, p \in Platforms, id \in Ids : t = <<i, p, id>>
      BY DEF FlowInv, TypeOK
    <2> QED BY <2>1 DEF RegistryInv, TagsOK
  <1> QED BY <1>1, <1>2, RegistryHolds, PTL DEF PublishedIsSound

\* Production is what the default branch built, and stays at its newest commit
\* that went through: the cancelled pipelines publish nothing any more.
THEOREM ProductionLatestMain ==
    ASSUME ProductionIsExclusive
    PROVE  Spec => []ProductionIsLatestMain
  <1>1. FlowInv /\ RegistryInv => ProductionIsMain
    <2> SUFFICES ASSUME RegistryInv, NEW x \in Published(Production)
                 PROVE  MainCommit(x[3].commit)
      BY DEF ProductionIsMain, MainCommit
    <2>1. Production \in Ids /\ Exclusive(Production)
      BY DEF Ids, Exclusive
    <2>2. PICK i \in Images, p \in Platforms :
             /\ manifests[<<i, Production>>] # None
             /\ x = <<i, p, manifests[<<i, Production>>][p]>>
      BY PublishedShape
    <2>3. MainCommit(manifests[<<i, Production>>][p].commit)
      BY <2>1, <2>2 DEF RegistryInv, PublishedOK, IndexOK
    <2> QED BY <2>2, <2>3
  <1>2. FlowInv /\ RegistryInv => LatestMainIsPublished
    <2> SUFFICES ASSUME FlowInv, RegistryInv, NEW n \in Created, pipe[n].ref = Main,
                        \A m \in (n + 1) .. created : pipe[m].ref # Main,
                        \A j \in Jobs : status[n][j] \in {"absent", "done"},
                        NEW i \in Images, NEW p \in Platforms
                 PROVE  manifests[<<i, Production>>][p].commit = n
      BY DEF LatestMainIsPublished, Created
    <2>1. i \in pipe[n].affected /\ i \in pipe[n].images
      BY DEF FlowInv, PipesOK
    <2>2. status[n][Manifest(i)] = "done"
      BY <2>1, JobNames DEF FlowInv, PipesOK
    <2>3. BuildID(n) = Production
      BY PipelinesAssumption DEF BuildID
    <2>4. Owner(n)
      BY <2>3 DEF Owner, Latest, Exclusive, Created, FlowInv, TypeOK
    <2> QED BY <2>1, <2>2, <2>3, <2>4 DEF RegistryInv, OwnersOK, ManifestsOK
  <1> QED BY <1>1, <1>2, RegistryHolds, PTL DEF ProductionIsLatestMain
-----------------------------------------------------------------------------
(* CIContext: the context that the templates render.                       *)

\* A finite set that is not empty has an element that none is above.
LEMMA TopExists ==
    ASSUME NEW C, IsFiniteSet(C), C # {}, NEW R,
           \A v \in C : <<v, v>> \notin R,
           \A u, v, w \in C : <<u, v>> \in R /\ <<v, w>> \in R => <<u, w>> \in R
    PROVE  \E v \in C : \A w \in C : <<w, v>> \notin R
  <1> DEFINE Up(v) == {w \in C : <<w, v>> \in R}
             F == {Up(v) : v \in C}
  <1>1. F \subseteq FiniteSubsetsOf(C) /\ F # {}
    <2>1. \A v \in C : Up(v) \in SUBSET C
      OBVIOUS
    <2>2. \A v \in C : IsFiniteSet(Up(v))
      BY <2>1, FS_Subset
    <2>3. ASSUME NEW U \in F PROVE U \in FiniteSubsetsOf(C)
      <3>1. PICK v \in C : U = Up(v)
        OBVIOUS
      <3> HIDE DEF Up
      <3> QED BY <2>1, <2>2, <3>1 DEF FiniteSubsetsOf
    <2>4. PICK v : v \in C
      OBVIOUS
    <2>5. Up(v) \in F
      BY <2>4
    <2> HIDE DEF F
    <2> QED BY <2>3, <2>5
  <1>2. PICK U \in F : \A V \in F : <<V, U>> \notin StrictSubsetOrdering(C)
    <2> HIDE DEF F
    <2> QED BY <1>1, FS_StrictSubsetOrderingWellFounded, WFMin
  <1>3. PICK v \in C : U = Up(v)
    BY <1>2
  <1>4. ASSUME NEW w \in C, <<w, v>> \in R
        PROVE  FALSE
    <2>1. w \in Up(v) /\ w \notin Up(w) /\ Up(w) \subseteq Up(v)
      BY <1>4
    <2>2. <<Up(w), Up(v)>> \in StrictSubsetOrdering(C)
      BY <2>1 DEF StrictSubsetOrdering
    <2> QED BY <1>2, <1>3, <2>2
  <1> QED BY <1>4

\* Max and Min of a finite set that is not empty.
LEMMA MaxIs ==
    ASSUME NEW T \in SUBSET Int, IsFiniteSet(T), T # {}
    PROVE  Max(T) \in T /\ \A x \in T : x <= Max(T)
  <1> DEFINE R == {e \in T \X T : e[1] > e[2]}
  <1>1. \A u, v \in T : <<u, v>> \in R <=> u > v
    OBVIOUS
  <1>2. \E v \in T : \A w \in T : <<w, v>> \notin R
    <2>1. \A v \in T : <<v, v>> \notin R
      BY <1>1
    <2>2. \A u, v, w \in T : <<u, v>> \in R /\ <<v, w>> \in R => <<u, w>> \in R
      BY <1>1
    <2> HIDE DEF R
    <2> QED BY <2>1, <2>2, TopExists
  <1>3. PICK v \in T : \A w \in T : <<w, v>> \notin R
    BY <1>2
  <1> HIDE DEF R
  <1>4. \A w \in T : v >= w
    <2>1. \A w \in T : ~ w > v
      BY <1>1, <1>3
    <2> QED BY <2>1
  <1>5. Max(T) \in T /\ \A y \in T : Max(T) >= y
    BY <1>4 DEF Max
  <1> QED BY <1>5

LEMMA MinIs ==
    ASSUME NEW x \in Int, NEW y \in Int
    PROVE  Min({x, y}) = IF x <= y THEN x ELSE y
  BY DEF Min

LEMMA MaxOfTwo ==
    ASSUME NEW x \in Int, NEW y \in Int
    PROVE  Max({x, y}) = IF x <= y THEN y ELSE x
  BY DEF Max

\* A strict order of all elements of a finite set lists them.
LEMMA ListExists ==
    ASSUME NEW C, IsFiniteSet(C), NEW R,
           \A v \in C : <<v, v>> \notin R,
           \A u, v, w \in C : <<u, v>> \in R /\ <<v, w>> \in R => <<u, w>> \in R,
           \A u, v \in C : u # v => <<u, v>> \in R \/ <<v, u>> \in R
    PROVE  \E q \in [1 .. Cardinality(C) -> C] :
               \A i, j \in 1 .. Cardinality(C) : i < j => <<q[i], q[j]>> \in R
  <1> DEFINE n == Cardinality(C)
             Below(v) == {w \in C : <<w, v>> \in R}
             rank == [v \in C |-> Cardinality(Below(v)) + 1]
  <1>1. n \in Nat /\ IsFiniteSet(1 .. n) /\ Cardinality(1 .. n) = n
    BY FS_CardinalityType, FS_Interval
  <1>2. \A v \in C : IsFiniteSet(Below(v)) /\ Below(v) \subseteq C /\ v \notin Below(v)
    BY FS_Subset
  <1>3. ASSUME NEW v \in C PROVE rank[v] \in 1 .. n
    <2>1. Below(v) \in SUBSET C /\ Below(v) # C /\ IsFiniteSet(Below(v))
      BY <1>2
    <2>2. rank[v] = Cardinality(Below(v)) + 1
      OBVIOUS
    <2> HIDE DEF Below, rank
    <2>3. Cardinality(Below(v)) \in Nat /\ Cardinality(Below(v)) <= n /\ Cardinality(Below(v)) # n
      BY <2>1, FS_Subset, FS_CardinalityType
    <2> QED BY <1>1, <2>2, <2>3
  <1>4. ASSUME NEW u \in C, NEW v \in C, <<u, v>> \in R
        PROVE  rank[u] < rank[v]
    <2>1. Below(u) \in SUBSET Below(v) /\ Below(u) # Below(v)
      <3>1. Below(u) \subseteq Below(v) /\ u \in Below(v) /\ u \notin Below(u)
        BY <1>4
      <3> HIDE DEF Below
      <3> QED BY <3>1
    <2>2. rank[u] = Cardinality(Below(u)) + 1 /\ rank[v] = Cardinality(Below(v)) + 1
      OBVIOUS
    <2>3. IsFiniteSet(Below(u)) /\ IsFiniteSet(Below(v))
      BY <1>2
    <2> HIDE DEF Below, rank
    <2>4. /\ Cardinality(Below(u)) \in Nat /\ Cardinality(Below(v)) \in Nat
          /\ Cardinality(Below(u)) <= Cardinality(Below(v))
          /\ Cardinality(Below(u)) # Cardinality(Below(v))
      BY <2>1, <2>3, FS_Subset, FS_CardinalityType
    <2> QED BY <2>2, <2>4
  <1>5. rank \in [C -> 1 .. n]
    BY <1>3
  <1> HIDE DEF rank, Below
  <1>6. ASSUME NEW u \in C, NEW v \in C, u # v
        PROVE  rank[u] # rank[v]
    <2>1. rank[u] < rank[v] \/ rank[v] < rank[u]
      BY <1>4, <1>6
    <2>2. rank[u] \in Int /\ rank[v] \in Int
      BY <1>1, <1>3
    <2> QED BY <2>1, <2>2
  <1>7. rank \in Injection(C, 1 .. n)
    BY <1>5, <1>6 DEF Injection, IsInjective
  <1>8. rank \in Surjection(C, 1 .. n)
    BY <1>1, <1>7, FS_Injection
  <1>9. \A i \in 1 .. n : \E v \in C : rank[v] = i
    BY <1>8 DEF Surjection
  <1> DEFINE q == [i \in 1 .. n |-> CHOOSE v \in C : rank[v] = i]
  <1>10. \A i \in 1 .. n : q[i] \in C /\ rank[q[i]] = i
    BY <1>9
  <1>11. ASSUME NEW i \in 1 .. n, NEW j \in 1 .. n, i < j
         PROVE  <<q[i], q[j]>> \in R
    <2>1. q[i] \in C /\ q[j] \in C /\ rank[q[i]] = i /\ rank[q[j]] = j
      BY <1>10
    <2> HIDE DEF q
    <2>2. q[i] # q[j] /\ ~ rank[q[j]] < rank[q[i]]
      BY <1>11, <2>1
    <2> QED BY <1>4, <2>1, <2>2
  <1>12. q \in [1 .. n -> C]
    BY <1>10
  <1> QED BY <1>11, <1>12

\* What the loop of calculateDepths knows: the images that have a depth are closed
\* under dependencies, one below the depth of each is that of its last dependency,
\* and an image that becomes ready has waited for the last round.
Levelled == Names \ remaining

LevelsOK ==
    /\ remaining \subseteq Names
    /\ depths = [n \in DOMAIN depths |-> depths[n]]
    /\ currentDepth \in Nat /\ currentDepth <= Cardinality(Levelled)
    /\ \A n \in Levelled :
          /\ n \in DOMAIN depths /\ dependencies[n] \subseteq Levelled
          /\ depths[n] \in 0 .. (currentDepth - 1)
          /\ dependencies[n] = {} => depths[n] = 0
          /\ \A d \in dependencies[n] : depths[d] < depths[n]
          /\ dependencies[n] # {} => \E d \in dependencies[n] : depths[d] = depths[n] - 1
    /\ pc = "depths" =>
          /\ DOMAIN depths = Levelled
          /\ \A n \in remaining : dependencies[n] \subseteq Levelled =>
                IF currentDepth = 0 THEN dependencies[n] = {}
                ELSE \E d \in dependencies[n] : depths[d] = currentDepth - 1
    /\ pc # "depths" =>
          /\ DOMAIN depths = Names
          /\ \A n \in remaining : depths[n] = currentDepth /\ ~ dependencies[n] \subseteq Levelled

\* What is made of the depths.
ListsOK ==
    /\ DOMAIN platforms \subseteq Names
    /\ \A n \in DOMAIN platforms : platforms[n] = ResolvePlatforms(n)
    /\ images \in Seq(Names) /\ stages \in Seq(Names)
    /\ pc \in {"stages", "shards", "done"} => images = InOrder(Names)
    /\ pc \in {"shards", "done"} => stages = InOrder(Names \ fixed)
    /\ pc = "done" =>
          requested >= 1 /\ shards = [n \in Names |-> Min({requested, Max({Units[n], 1})})]

ContextInvariant ==
    /\ dependencies \in [Names -> SUBSET (Names \cup {Dangling})]
    /\ requested \in Nat /\ global \in PlatformLists /\ fixed \subseteq Names
    /\ pc \in {"depths", "collect", "sort", "stages", "shards", "done", "failed"}
    /\ LevelsOK
    /\ ListsOK

LEMMA ContextStarts == ContextInit => ContextInvariant
  <1> SUFFICES ASSUME ContextInit PROVE ContextInvariant
    OBVIOUS
  <1>1. Levelled = {} /\ Cardinality({}) = 0 /\ DOMAIN << >> = {}
        /\ << >> = [n \in DOMAIN << >> |-> << >>[n]]
    BY FS_EmptySet DEF ContextInit, Levelled
  <1>2. LevelsOK
    BY <1>1 DEF ContextInit, LevelsOK
  <1>3. ListsOK
    BY DEF ContextInit, ListsOK
  <1> QED BY <1>2, <1>3, CIAssumption DEF ContextInit, CIAssumption, ContextInvariant

\* The order is strict and total, so that a set of images has one list.
LEMMA InOrderIs ==
    ASSUME ContextInvariant, pc # "depths", NEW T \in SUBSET Names
    PROVE  /\ InOrder(T) \in [1 .. Cardinality(T) -> T] /\ Cardinality(T) \in Nat
           /\ \A i, j \in 1 .. Cardinality(T) :
                 i < j => Before(InOrder(T)[i], InOrder(T)[j])
           /\ \A n \in T : \E i \in 1 .. Cardinality(T) : InOrder(T)[i] = n
  <1>1. \A n \in T : n \in Nat /\ depths[n] \in Nat
    BY CIAssumption DEF CIAssumption, ContextInvariant, LevelsOK, Levelled
  <1>2. IsFiniteSet(T) /\ Cardinality(T) \in Nat
    BY CIAssumption, FS_Subset, FS_CardinalityType DEF CIAssumption
  <1> DEFINE R == {e \in T \X T : Before(e[1], e[2])}
  <1>3. \A u, v \in T : <<u, v>> \in R <=> Before(u, v)
    OBVIOUS
  <1>4. /\ \A v \in T : ~ Before(v, v)
        /\ \A u, v, w \in T : Before(u, v) /\ Before(v, w) => Before(u, w)
        /\ \A u, v \in T : u # v => Before(u, v) \/ Before(v, u)
    BY <1>1 DEF Before
  <1> HIDE DEF R
  <1>5. \E q \in [1 .. Cardinality(T) -> T] :
           \A i, j \in 1 .. Cardinality(T) : i < j => <<q[i], q[j]>> \in R
    BY <1>2, <1>3, <1>4, ListExists
  <1>6. \E q \in [1 .. Cardinality(T) -> T] :
           \A i, j \in 1 .. Cardinality(T) : i < j => Before(q[i], q[j])
    BY <1>3, <1>5
  <1>7. /\ InOrder(T) \in [1 .. Cardinality(T) -> T]
        /\ \A i, j \in 1 .. Cardinality(T) : i < j => Before(InOrder(T)[i], InOrder(T)[j])
    BY <1>6 DEF InOrder
  <1>8. ASSUME NEW i \in 1 .. Cardinality(T), NEW j \in 1 .. Cardinality(T), i # j
        PROVE  InOrder(T)[i] # InOrder(T)[j]
    <2>1. i < j \/ j < i
      BY <1>2, <1>8
    <2> QED BY <1>4, <1>7, <2>1
  <1>9. InOrder(T) \in Injection(1 .. Cardinality(T), T)
    BY <1>7, <1>8 DEF Injection, IsInjective
  <1>10. InOrder(T) \in Surjection(1 .. Cardinality(T), T)
    <2>1. Cardinality(1 .. Cardinality(T)) = Cardinality(T)
      BY <1>2, FS_Interval
    <2> QED BY <1>2, <1>9, <2>1, FS_Injection
  <1> QED BY <1>2, <1>7, <1>10 DEF Surjection

\* A round.
LEMMA DepthRoundKeeps ==
    ASSUME ContextInvariant, DepthRound
    PROVE  LevelsOK'
  <1>1. /\ pc = "depths" /\ pc' = "depths" /\ Ready # {}
        /\ depths' = [n \in DOMAIN depths \cup Ready |->
                         IF n \in Ready THEN currentDepth ELSE depths[n]]
        /\ remaining' = remaining \ Ready /\ currentDepth' = currentDepth + 1
        /\ dependencies' = dependencies
    BY DEF DepthRound, With, project
  <1>2. /\ remaining \subseteq Names /\ DOMAIN depths = Levelled
        /\ Levelled = Names \ remaining
        /\ currentDepth \in Nat /\ currentDepth <= Cardinality(Levelled)
        /\ Ready \subseteq remaining
        /\ \A n \in remaining : n \in Ready <=> dependencies[n] \subseteq Levelled
    BY <1>1 DEF ContextInvariant, LevelsOK, Ready, Levelled
  <1>3. Levelled' = Levelled \cup Ready /\ DOMAIN depths' = Levelled'
    BY <1>1, <1>2 DEF Levelled
  <1>4. /\ \A n \in Levelled : n \notin Ready /\ depths'[n] = depths[n]
        /\ \A n \in Ready : depths'[n] = currentDepth
    BY <1>1, <1>2
  <1>5. /\ \A n \in Levelled :
              /\ dependencies[n] \subseteq Levelled
              /\ depths[n] \in 0 .. (currentDepth - 1)
              /\ dependencies[n] = {} => depths[n] = 0
              /\ \A d \in dependencies[n] : depths[d] < depths[n]
              /\ dependencies[n] # {} => \E d \in dependencies[n] : depths[d] = depths[n] - 1
        /\ \A n \in Ready :
              IF currentDepth = 0 THEN dependencies[n] = {}
              ELSE \E d \in dependencies[n] : depths[d] = currentDepth - 1
    BY <1>1, <1>2 DEF ContextInvariant, LevelsOK
  <1>6. currentDepth' \in Nat /\ currentDepth' <= Cardinality(Levelled')
    <2>1. PICK n : n \in Ready
      BY <1>1
    <2>2. IsFiniteSet(Levelled) /\ IsFiniteSet(Levelled') /\ n \notin Levelled
      BY <1>2, <1>3, <2>1, CIAssumption, FS_Subset DEF CIAssumption
    <2>3. /\ IsFiniteSet(Levelled \cup {n})
          /\ Cardinality(Levelled \cup {n}) = Cardinality(Levelled) + 1
      BY <2>2, FS_AddElement
    <2>4. Levelled \cup {n} \in SUBSET Levelled'
      BY <1>3, <2>1
    <2>5. Cardinality(Levelled) + 1 <= Cardinality(Levelled')
      BY <2>2, <2>3, <2>4, FS_Subset
    <2>6. Cardinality(Levelled) \in Nat /\ Cardinality(Levelled') \in Nat
      BY <2>2, FS_CardinalityType
    <2> QED BY <1>1, <1>2, <2>5, <2>6
  <1>7. ASSUME NEW n \in Levelled'
        PROVE  /\ n \in DOMAIN depths' /\ dependencies'[n] \subseteq Levelled'
               /\ depths'[n] \in 0 .. (currentDepth' - 1)
               /\ dependencies'[n] = {} => depths'[n] = 0
               /\ \A d \in dependencies'[n] : depths'[d] < depths'[n]
               /\ dependencies'[n] # {} => \E d \in dependencies'[n] : depths'[d] = depths'[n] - 1
    <2>1. CASE n \in Levelled
      <3>1. \A d \in dependencies[n] : depths'[d] = depths[d]
        BY <1>4, <1>5, <2>1
      <3>2. depths'[n] \in 0 .. (currentDepth' - 1)
        BY <1>1, <1>2, <1>4, <1>5, <2>1
      <3>3. dependencies'[n] = dependencies[n] /\ depths'[n] = depths[n]
        BY <1>1, <1>4, <2>1
      <3> QED BY <1>3, <1>5, <2>1, <3>1, <3>2, <3>3
    <2>2. CASE n \in Ready
      <3>1. dependencies'[n] = dependencies[n] /\ dependencies[n] \subseteq Levelled
            /\ depths'[n] = currentDepth
        BY <1>1, <1>2, <1>4, <2>2
      <3>2. \A d \in dependencies[n] : depths'[d] = depths[d] /\ depths[d] \in 0 .. (currentDepth - 1)
        BY <1>4, <1>5, <3>1
      <3>3. /\ \A d \in dependencies[n] : depths'[d] < currentDepth
            /\ currentDepth \in 0 .. (currentDepth' - 1)
        <4>1. \A c \in Nat : c \in 0 .. ((c + 1) - 1) /\ \A x \in 0 .. (c - 1) : x < c
          OBVIOUS
        <4> QED BY <1>1, <1>2, <3>2, <4>1
      <3>4. IF currentDepth = 0 THEN dependencies[n] = {}
            ELSE \E d \in dependencies[n] : depths'[d] = currentDepth - 1
        BY <1>5, <2>2, <3>2
      <3> QED BY <1>3, <3>1, <3>3, <3>4
    <2> QED BY <1>3, <2>1, <2>2
  <1>8. ASSUME NEW n \in remaining', dependencies'[n] \subseteq Levelled'
        PROVE  currentDepth' # 0 /\ \E d \in dependencies'[n] : depths'[d] = currentDepth' - 1
    <2>1. n \in remaining /\ n \notin Ready /\ dependencies'[n] = dependencies[n]
      BY <1>1, <1>8
    <2>2. PICK d \in dependencies[n] : d \notin Levelled
      BY <1>2, <2>1
    <2>3. d \in Ready
      BY <1>3, <1>8, <2>1, <2>2
    <2>4. depths'[d] = currentDepth /\ currentDepth = currentDepth' - 1 /\ currentDepth' # 0
      BY <1>1, <1>2, <1>4, <2>3
    <2> QED BY <2>1, <2>2, <2>4
  <1>9. depths' = [n \in DOMAIN depths' |-> depths'[n]]
    BY <1>1
  <1> QED BY <1>1, <1>2, <1>3, <1>6, <1>7, <1>8, <1>9 DEF LevelsOK

\* The end of the loop.
LEMMA DepthsEndKeep ==
    ASSUME ContextInvariant, DepthsStuck \/ DepthsDone
    PROVE  LevelsOK'
  <1>1. /\ pc = "depths" /\ pc' = "collect"
        /\ UNCHANGED <<dependencies, remaining, currentDepth>>
        /\ depths' = [n \in DOMAIN depths \cup remaining |->
                         IF n \in remaining THEN currentDepth ELSE depths[n]]
        /\ Ready = {}
    <2>1. CASE DepthsStuck
      BY <2>1 DEF DepthsStuck, With, project
    <2>2. CASE DepthsDone
      <3>1. remaining = {} /\ depths' = depths
        BY <2>2 DEF DepthsDone, levels
      <3>2. depths = [n \in DOMAIN depths |-> depths[n]]
        BY DEF ContextInvariant, LevelsOK
      <3> QED BY <2>2, <3>1, <3>2 DEF DepthsDone, levels, project, Ready
    <2> QED BY <2>1, <2>2
  <1>2. /\ remaining \subseteq Names /\ DOMAIN depths = Levelled
        /\ Levelled = Names \ remaining
        /\ \A n \in remaining : ~ dependencies[n] \subseteq Levelled
    BY <1>1 DEF ContextInvariant, LevelsOK, Ready, Levelled
  <1>3. /\ Levelled' = Levelled /\ DOMAIN depths' = Names
        /\ \A n \in Levelled : depths'[n] = depths[n]
        /\ \A n \in remaining : depths'[n] = currentDepth
    BY <1>1, <1>2 DEF Levelled
  <1>4. ASSUME NEW n \in Levelled
        PROVE  /\ dependencies[n] \subseteq Levelled
               /\ depths'[n] \in 0 .. (currentDepth - 1)
               /\ dependencies[n] = {} => depths'[n] = 0
               /\ \A d \in dependencies[n] : depths'[d] < depths'[n]
               /\ dependencies[n] # {} => \E d \in dependencies[n] : depths'[d] = depths'[n] - 1
    <2>1. /\ dependencies[n] \subseteq Levelled
          /\ depths[n] \in 0 .. (currentDepth - 1)
          /\ dependencies[n] = {} => depths[n] = 0
          /\ \A d \in dependencies[n] : depths[d] < depths[n]
          /\ dependencies[n] # {} => \E d \in dependencies[n] : depths[d] = depths[n] - 1
      BY DEF ContextInvariant, LevelsOK
    <2>2. \A d \in dependencies[n] : depths'[d] = depths[d]
      BY <1>3, <2>1
    <2> QED BY <1>3, <2>1, <2>2
  <1>5. currentDepth \in Nat /\ currentDepth <= Cardinality(Levelled)
    BY DEF ContextInvariant, LevelsOK
  <1>6. depths' = [n \in DOMAIN depths' |-> depths'[n]]
    BY <1>1
  <1> QED BY <1>1, <1>2, <1>3, <1>4, <1>5, <1>6 DEF LevelsOK

\* What stays after the loop.
LEMMA ContextKept ==
    ASSUME UNCHANGED <<project, levels>>
    PROVE  /\ Levelled' = Levelled
           /\ \A T : InOrder(T)' = InOrder(T)
           /\ \A n : ResolvePlatforms(n)' = ResolvePlatforms(n)
  BY DEF project, levels, Levelled, InOrder, Before, ResolvePlatforms, Resolve

LEMMA ListsStart ==
    ASSUME ContextInvariant, pc \in {"stages", "shards"}
    PROVE  InOrder(Names) \in Seq(Names) /\ ToSet(InOrder(Names)) = Names
           /\ InOrder(Names \ fixed) \in Seq(Names)
  <1>1. pc # "depths" /\ Names \in SUBSET Names /\ Names \ fixed \in SUBSET Names
    OBVIOUS
  <1>2. /\ InOrder(Names) \in [1 .. Cardinality(Names) -> Names] /\ Cardinality(Names) \in Nat
        /\ \A n \in Names : \E i \in 1 .. Cardinality(Names) : InOrder(Names)[i] = n
    BY <1>1, InOrderIs
  <1>3. /\ InOrder(Names \ fixed) \in [1 .. Cardinality(Names \ fixed) -> Names \ fixed]
        /\ Cardinality(Names \ fixed) \in Nat
    BY <1>1, InOrderIs
  <1>4. InOrder(Names) \in Seq(Names) /\ InOrder(Names \ fixed) \in Seq(Names)
    <2>1. \A n \in Nat : \A q \in [1 .. n -> Names] : q \in Seq(Names)
      OBVIOUS
    <2>2. InOrder(Names \ fixed) \in [1 .. Cardinality(Names \ fixed) -> Names]
      BY <1>3
    <2> QED BY <1>2, <1>3, <2>1, <2>2
  <1>5. ToSet(InOrder(Names)) = Names
    BY <1>2 DEF ToSet
  <1> QED BY <1>4, <1>5

LEMMA ContextStep ==
    ASSUME ContextInvariant, [ContextNext]_contextVars
    PROVE  ContextInvariant'
  <1>1. CASE DepthRound \/ DepthsStuck \/ DepthsDone
    <2>1. LevelsOK'
      BY <1>1, DepthRoundKeeps, DepthsEndKeep
    <2>2. /\ pc = "depths" /\ pc' \in {"depths", "collect"}
          /\ UNCHANGED <<dependencies, requested, global, fixed, platforms, images, stages>>
      BY <1>1 DEF DepthRound, DepthsStuck, DepthsDone, project
    <2>3. \A n : ResolvePlatforms(n)' = ResolvePlatforms(n)
      BY <2>2 DEF ResolvePlatforms, Resolve
    <2>4. ListsOK'
      BY <2>2, <2>3 DEF ContextInvariant, ListsOK
    <2> QED BY <2>1, <2>2, <2>4 DEF ContextInvariant
  <1>2. ASSUME UNCHANGED <<project, levels>>, pc = pc' \/ (pc # "depths" /\ pc' # "depths"),
               pc' \in {"depths", "collect", "sort", "stages", "shards", "done", "failed"},
               ListsOK'
        PROVE  ContextInvariant'
    <2>1. LevelsOK'
      BY <1>2, ContextKept DEF ContextInvariant, LevelsOK, levels, project
    <2> QED BY <1>2, <2>1 DEF ContextInvariant, project
  <1>3. ASSUME UNCHANGED <<project, levels>>
        PROVE  /\ \A T : InOrder(T)' = InOrder(T) /\ InOrder(Names \ fixed)' = InOrder(Names \ fixed)
               /\ \A n : ResolvePlatforms(n)' = ResolvePlatforms(n)
               /\ fixed' = fixed /\ requested' = requested
    BY <1>3, ContextKept DEF project
  <1>4. CASE \E n \in Names : CollectImage(n)
    <2>1. PICK n \in Names : CollectImage(n)
      BY <1>4
    <2>2. /\ pc = "collect" /\ pc' \in {"sort", "collect"} /\ UNCHANGED <<project, levels>>
          /\ UNCHANGED <<images, stages>>
          /\ platforms' = [m \in DOMAIN platforms \cup {n} |->
                              IF m \in {n} THEN ResolvePlatforms(n) ELSE platforms[m]]
      BY <2>1 DEF CollectImage, With
    <2>3. ListsOK'
      BY <1>3, <2>2 DEF ContextInvariant, ListsOK
    <2> QED BY <1>2, <2>2, <2>3
  <1>5. CASE CollectFails \/ UNCHANGED contextVars
    <2>1. /\ UNCHANGED <<project, levels>> /\ UNCHANGED <<platforms, images, stages>>
          /\ (pc = "collect" /\ pc' = "failed") \/ (pc' = pc /\ shards' = shards)
      BY <1>5 DEF CollectFails, contextVars
    <2>2. ListsOK'
      BY <1>3, <2>1 DEF ContextInvariant, ListsOK
    <2>3. pc' \in {"depths", "collect", "sort", "stages", "shards", "done", "failed"}
      BY <2>1 DEF ContextInvariant
    <2> QED BY <1>2, <2>1, <2>2, <2>3
  <1>6. CASE SortImages
    <2>1. /\ UNCHANGED <<project, levels>> /\ UNCHANGED <<platforms, stages>>
          /\ pc = "sort" /\ pc' = "stages" /\ images' = InOrder(Names)
      BY <1>6 DEF SortImages
    <2>2. InOrder(Names) \in Seq(Names)
      <3>1. InOrder(Names) \in [1 .. Cardinality(Names) -> Names] /\ Cardinality(Names) \in Nat
        BY <2>1, InOrderIs
      <3> QED BY <3>1
    <2>3. ListsOK'
      BY <1>3, <2>1, <2>2 DEF ContextInvariant, ListsOK
    <2> QED BY <1>2, <2>1, <2>3
  <1>7. CASE SetStages
    <2>1. /\ UNCHANGED <<project, levels>> /\ UNCHANGED <<platforms, images>>
          /\ pc = "stages" /\ pc' = "shards" /\ stages' = InOrder(ToSet(images) \ fixed)
      BY <1>7 DEF SetStages
    <2>2. images = InOrder(Names)
      BY <2>1 DEF ContextInvariant, ListsOK
    <2>3. stages' = InOrder(Names \ fixed) /\ stages' \in Seq(Names)
      BY <2>1, <2>2, ListsStart
    <2>4. ListsOK'
      BY <1>3, <2>1, <2>2, <2>3 DEF ContextInvariant, ListsOK
    <2> QED BY <1>2, <2>1, <2>4
  <1>8. CASE SetShards
    <2>1. /\ UNCHANGED <<project, levels>> /\ UNCHANGED <<platforms, images, stages>>
          /\ pc = "shards" /\ pc' \in {"failed", "done"}
          /\ pc' = "done" =>
                ~ requested < 1 /\ shards' = [n \in Names |-> Min({requested, Max({Units[n], 1})})]
      BY <1>8 DEF SetShards
    <2>2. pc' = "done" => requested >= 1
      BY <2>1 DEF ContextInvariant
    <2>3. ListsOK'
      <3>1. stages = InOrder(Names \ fixed) /\ images = InOrder(Names)
        BY <2>1 DEF ContextInvariant, ListsOK
      <3>2. /\ DOMAIN platforms \subseteq Names /\ images \in Seq(Names) /\ stages \in Seq(Names)
            /\ \A n \in DOMAIN platforms : platforms[n] = ResolvePlatforms(n)
        BY DEF ContextInvariant, ListsOK
      <3>3. pc' = "done" => requested' >= 1 /\ shards' = [n \in Names |-> Min({requested', Max({Units[n], 1})})]
        BY <1>3, <2>1, <2>2
      <3>4. pc' \notin {"stages", "shards"}
        BY <2>1
      <3> QED BY <1>3, <2>1, <3>1, <3>2, <3>3, <3>4 DEF ListsOK
    <2> QED BY <1>2, <2>1, <2>3
  <1> QED BY <1>1, <1>4, <1>5, <1>6, <1>7, <1>8 DEF ContextNext, Finished

LEMMA ContextInvariantHolds == ContextSpec => []ContextInvariant
  BY ContextStarts, ContextStep, PTL DEF ContextSpec

\* The images with an exact depth are those a build order exists for.
LEMMA LevelledAreResolvable ==
    ASSUME ContextInvariant
    PROVE  /\ pc # "depths" => Resolvable = Levelled
           /\ Levelled \subseteq Resolvable
  <1>1. /\ Levelled \subseteq Names /\ IsFiniteSet(Levelled)
        /\ \A n \in Levelled : dependencies[n] \subseteq Levelled /\ depths[n] \in Int
        /\ \A n \in Levelled : \A d \in dependencies[n] : depths[d] < depths[n]
    BY CIAssumption, FS_Subset DEF CIAssumption, ContextInvariant, LevelsOK, Levelled
  <1>2. ASSUME NEW T \in SUBSET Levelled, T # {}
        PROVE  \E m \in T : dependencies[m] \cap T = {}
    <2> DEFINE R == {e \in T \X T : depths[e[1]] < depths[e[2]]}
    <2>1. \A u, v \in T : <<u, v>> \in R <=> depths[u] < depths[v]
      OBVIOUS
    <2>2. IsFiniteSet(T)
      BY <1>1, FS_Subset
    <2> HIDE DEF R
    <2>3. \A v \in T : <<v, v>> \notin R
      BY <1>1, <2>1
    <2>4. \A u, v, w \in T : <<u, v>> \in R /\ <<v, w>> \in R => <<u, w>> \in R
      BY <1>1, <2>1
    <2>5. PICK m \in T : \A w \in T : <<w, m>> \notin R
      BY <1>2, <2>2, <2>3, <2>4, TopExists
    <2>6. \A w \in T : w \notin dependencies[m]
      BY <1>1, <2>1, <2>5
    <2> QED BY <2>6
  <1>3. Levelled \subseteq Resolvable
    <2>1. \A n \in Levelled : n \in Names
      BY <1>1
    <2> QED BY <1>1, <1>2, <2>1 DEF Resolvable
  <1>4. ASSUME pc # "depths", NEW n \in Resolvable, n \notin Levelled
        PROVE  FALSE
    <2>1. PICK C \in SUBSET Names :
             /\ n \in C
             /\ \A m \in C : dependencies[m] \subseteq C
             /\ \A T \in SUBSET C : T # {} => \E m \in T : dependencies[m] \cap T = {}
      BY <1>4 DEF Resolvable
    <2>2. n \in C \ Levelled /\ C \ Levelled \in SUBSET C
      BY <1>4, <2>1
    <2>3. PICK m \in C \ Levelled : dependencies[m] \cap (C \ Levelled) = {}
      BY <2>1, <2>2
    <2>4. dependencies[m] \subseteq Levelled /\ m \in remaining
      BY <2>1, <2>3 DEF Levelled
    <2> QED BY <1>4, <2>4 DEF ContextInvariant, LevelsOK
  <1> QED BY <1>3, <1>4

LEMMA DepthsAreExact == ContextInvariant => DepthsAreLevels
  <1> SUFFICES ASSUME ContextInvariant PROVE DepthsAreLevels
    OBVIOUS
  <1>1. /\ Levelled \subseteq Resolvable /\ Resolvable \subseteq Names
        /\ pc # "depths" => Resolvable = Levelled /\ DOMAIN depths = Names
        /\ pc = "depths" => DOMAIN depths = Levelled
        /\ Levelled = Names \ remaining /\ remaining \subseteq Names
    BY LevelledAreResolvable DEF ContextInvariant, LevelsOK, Resolvable, Levelled
  <1>2. /\ \A n \in Levelled :
              /\ depths[n] \in 0 .. (currentDepth - 1)
              /\ dependencies[n] \subseteq Levelled
              /\ dependencies[n] = {} => depths[n] = 0
              /\ \A d \in dependencies[n] : depths[d] < depths[n]
              /\ dependencies[n] # {} => \E d \in dependencies[n] : depths[d] = depths[n] - 1
        /\ currentDepth \in Nat /\ currentDepth <= Cardinality(Levelled)
        /\ pc # "depths" => \A n \in remaining : depths[n] = currentDepth
    BY DEF ContextInvariant, LevelsOK
  <1>3. currentDepth \in 0 .. Cardinality(Names)
    <2>1. /\ IsFiniteSet(Names) /\ Levelled \in SUBSET Names
      BY <1>1, CIAssumption DEF CIAssumption
    <2>2. /\ Cardinality(Levelled) \in Nat /\ Cardinality(Names) \in Nat
          /\ Cardinality(Levelled) <= Cardinality(Names)
      BY <2>1, FS_Subset, FS_CardinalityType
    <2> QED BY <1>2, <2>2
  <1>4. \A n \in Levelled : depths[n] \in Int /\ depths[n] < currentDepth
                            /\ depths[n] \in 0 .. Cardinality(Names) /\ depths[n] > -1
    <2>1. Cardinality(Names) \in Nat
      BY CIAssumption, FS_CardinalityType DEF CIAssumption
    <2>2. \A x \in 0 .. (currentDepth - 1) :
             x \in Int /\ x < currentDepth /\ x \in 0 .. Cardinality(Names) /\ x > -1
      BY <1>2, <1>3, <2>1
    <2> QED BY <1>2, <2>2
  <1>5. ContextTypeOK
    <2>1. \A n \in DOMAIN depths : depths[n] \in 0 .. Cardinality(Names)
      BY <1>1, <1>2, <1>3, <1>4
    <2> QED BY <1>1, <1>3, <2>1 DEF ContextTypeOK, ContextInvariant, ListsOK
  <1>6. ASSUME NEW n \in Levelled
        PROVE  IF dependencies[n] = {} THEN depths[n] = 0
               ELSE depths[n] = 1 + Max({depths[d] : d \in dependencies[n]})
    <2>1. CASE dependencies[n] # {}
      <3> DEFINE H == {depths[d] : d \in dependencies[n]}
      <3>1. PICK d \in dependencies[n] : depths[d] = depths[n] - 1
        BY <1>2, <2>1
      <3>2. dependencies[n] \subseteq Levelled /\ IsFiniteSet(Levelled)
        BY <1>1, <1>2, CIAssumption, FS_Subset DEF CIAssumption
      <3>3. IsFiniteSet(dependencies[n])
        BY <3>2, FS_Subset
      <3>4. H \in SUBSET Int /\ IsFiniteSet(H) /\ H # {}
        <4>1. H \in SUBSET Int /\ H # {}
          BY <1>4, <3>1, <3>2
        <4>2. H \in SUBSET (0 .. Cardinality(Names))
          BY <1>4, <3>2
        <4>3. Cardinality(Names) \in Int
          BY CIAssumption, FS_CardinalityType DEF CIAssumption
        <4>4. IsFiniteSet(H)
          <5> HIDE DEF H
          <5>1. IsFiniteSet(0 .. Cardinality(Names))
            BY <4>3, FS_Interval
          <5> QED BY <4>2, <5>1, FS_Subset
        <4> QED BY <4>1, <4>4
      <3>5. depths[n] - 1 \in H /\ \A h \in H : h <= depths[n] - 1
        <4>1. depths[n] \in Int /\ \A e \in dependencies[n] : depths[e] \in Int /\ depths[e] < depths[n]
          BY <1>2, <1>4, <3>2
        <4> QED BY <3>1, <4>1
      <3> HIDE DEF H
      <3>6. Max(H) \in H /\ \A x \in H : x <= Max(H)
        BY <3>4, MaxIs
      <3>8. depths[n] \in Int
        BY <1>4
      <3>7. Max(H) = depths[n] - 1
        <4>1. Max(H) \in Int /\ Max(H) <= depths[n] - 1 /\ depths[n] - 1 <= Max(H)
          BY <3>4, <3>5, <3>6
        <4> QED BY <3>8, <4>1
      <3>9. depths[n] = 1 + Max(H)
        BY <3>7, <3>8
      <3> QED BY <2>1, <3>9 DEF H
    <2> QED BY <1>2, <2>1
  <1>7. ASSUME NEW n \in DOMAIN depths \ Resolvable
        PROVE  /\ depths[n] > Max({-1} \cup {depths[m] : m \in Resolvable})
               /\ \A m \in DOMAIN depths \ Resolvable : depths[m] = depths[n]
    <2>1. /\ pc # "depths" /\ Resolvable = Levelled /\ DOMAIN depths = Names
          /\ \A m \in DOMAIN depths \ Resolvable : depths[m] = currentDepth
      BY <1>1, <1>2
    <2> DEFINE H == {-1} \cup {depths[m] : m \in Resolvable}
    <2>2. \A h \in H : h \in Int /\ h < currentDepth
      BY <1>2, <1>4, <2>1
    <2>3. H \in SUBSET Int /\ IsFiniteSet(H) /\ H # {}
      <3>1. Cardinality(Names) \in Int
        BY CIAssumption, FS_CardinalityType DEF CIAssumption
      <3>2. \A h \in H : h \in (-1) .. Cardinality(Names)
        <4>1. -1 \in (-1) .. Cardinality(Names) /\ \A x \in 0 .. Cardinality(Names) : x \in (-1) .. Cardinality(Names)
          BY <3>1, CIAssumption, FS_CardinalityType DEF CIAssumption
        <4> QED BY <1>4, <2>1, <4>1
      <3>3. IsFiniteSet((-1) .. Cardinality(Names))
        BY <3>1, FS_Interval
      <3> HIDE DEF H
      <3>4. IsFiniteSet(H)
        BY <3>2, <3>3, FS_Subset
      <3> QED BY <2>2, <3>4 DEF H
    <2> HIDE DEF H
    <2>4. Max(H) \in H
      BY <2>3, MaxIs
    <2>5. depths[n] > Max(H)
      BY <1>2, <2>1, <2>2, <2>4
    <2> QED BY <2>1, <2>5 DEF H
  <1>8. \A n \in DOMAIN depths \cap Resolvable : n \in Levelled
    BY <1>1
  <1> QED BY <1>1, <1>5, <1>6, <1>7, <1>8 DEF DepthsAreLevels

\* The manifest job of a dependency comes first, and no shard is without a number.
LEMMA StagesAreSound == ContextInvariant => StagesFollowNeeds
  <1> SUFFICES ASSUME ContextInvariant, pc = "done" PROVE StagesFollowNeeds
    BY DEF StagesFollowNeeds
  <1> DEFINE L == Cardinality(Names \ fixed)
  <1>1. /\ stages = InOrder(Names \ fixed) /\ requested >= 1 /\ requested \in Nat
        /\ shards = [n \in Names |-> Min({requested, Max({Units[n], 1})})]
        /\ fixed \subseteq Names
    BY DEF ContextInvariant, ListsOK
  <1>2. /\ stages \in [1 .. L -> Names \ fixed] /\ L \in Nat
        /\ \A i, j \in 1 .. L : i < j => Before(stages[i], stages[j])
        /\ \A n \in Names \ fixed : \E i \in 1 .. L : stages[i] = n
    BY <1>1, InOrderIs
  <1>3. /\ Resolvable \subseteq Names
        /\ \A n \in Resolvable : \A d \in dependencies[n] :
              d \in Names /\ depths[d] \in Int /\ depths[n] \in Int /\ depths[d] < depths[n]
    BY LevelledAreResolvable DEF ContextInvariant, LevelsOK, Levelled
  <1> HIDE DEF L
  <1>4. DOMAIN stages = 1 .. L
    BY <1>2
  <1>5. ASSUME NEW n \in Resolvable, NEW d \in dependencies[n], {n, d} \cap fixed = {}
        PROVE  Stage(d) < Stage(n)
    <2>1. n \in Names \ fixed /\ d \in Names \ fixed
      BY <1>3, <1>5
    <2>2. /\ Stage(n) \in 1 .. L /\ stages[Stage(n)] = n
          /\ Stage(d) \in 1 .. L /\ stages[Stage(d)] = d
      BY <1>2, <1>4, <2>1 DEF Stage
    <2>3. ~ Before(n, d) /\ n # d
      BY <1>3 DEF Before
    <2>4. ~ Stage(n) < Stage(d) /\ Stage(n) # Stage(d)
      BY <1>2, <2>2, <2>3
    <2>5. Stage(n) \in Int /\ Stage(d) \in Int
      BY <1>2, <2>2
    <2> QED BY <2>4, <2>5
  <1>6. \A n \in Names \ fixed : \E k \in DOMAIN stages : stages[k] = n
    BY <1>2, <1>4
  <1>7. ASSUME NEW n \in Names PROVE shards[n] \in 1 .. Max({Units[n], 1})
    <2>1. Units[n] \in Nat
      BY CIAssumption DEF CIAssumption
    <2>2. Max({Units[n], 1}) \in Nat /\ Max({Units[n], 1}) >= 1
      BY <2>1, MaxOfTwo
    <2>3. shards[n] = Min({requested, Max({Units[n], 1})})
      BY <1>1
    <2> DEFINE most == Max({Units[n], 1})
    <2> HIDE DEF most
    <2>4. shards[n] = IF requested <= most THEN requested ELSE most
      <3>1. requested \in Int /\ most \in Int
        BY <1>1, <2>2 DEF most
      <3> QED BY <2>3, <3>1, MinIs DEF most
    <2>5. \A x \in Nat : \A y \in Nat : x >= 1 /\ y >= 1 => (IF x <= y THEN x ELSE y) \in 1 .. y
      OBVIOUS
    <2> QED BY <1>1, <2>2, <2>4, <2>5 DEF most
  <1> QED BY <1>5, <1>6, <1>7 DEF StagesFollowNeeds

\* A component before others.
LEMMA PrefixIs ==
    ASSUME NEW A, NEW x \in A, NEW p \in Seq(A)
    PROVE  /\ <<x>> \o p \in Seq(A) /\ Len(<<x>> \o p) = Len(p) + 1
           /\ (<<x>> \o p)[1] = x /\ \A i \in 1 .. Len(p) : (<<x>> \o p)[i + 1] = p[i]
  <1>1. <<x>> \in Seq(A) /\ Len(<<x>>) = 1 /\ <<x>>[1] = x
    OBVIOUS
  <1>2. /\ <<x>> \o p \in Seq(A) /\ Len(<<x>> \o p) = 1 + Len(p)
        /\ \A i \in 1 .. Len(<<x>>) + Len(p) :
              (<<x>> \o p)[i] = IF i <= Len(<<x>>) THEN <<x>>[i] ELSE p[i - Len(<<x>>)]
    BY <1>1, ConcatProperties
  <1>3. Len(p) \in Nat
    BY LenProperties
  <1>4. (<<x>> \o p)[1] = x
    BY <1>1, <1>2, <1>3
  <1>5. \A i \in 1 .. Len(p) : (<<x>> \o p)[i + 1] = p[i]
    <2>1. \A i \in 1 .. Len(p) :
             i + 1 \in 1 .. 1 + Len(p) /\ ~ (i + 1 <= 1) /\ (i + 1) - 1 = i
      BY <1>3
    <2> QED BY <1>1, <1>2, <2>1
  <1> QED BY <1>2, <1>3, <1>4, <1>5

\* A shortened platform is the platform again when it is normalized.
LEMMA ShortIsUndone ==
    ASSUME NEW p \in Seq(STRING)
    PROVE  Normalize(Short(Normalize(p))) = Normalize(p)
  <1> DEFINE r == Normalize(p)
  <1> DEFINE linux == "linux"
             A == STRING \cup {linux}
  <1>1. linux \in A /\ p \in Seq(A)
    <2>1. STRING \subseteq A
      OBVIOUS
    <2> HIDE DEF A
    <2>2. p \in Seq(A)
      BY <2>1, SeqMonotonic
    <2> QED BY <2>2 DEF A
  <1>2. r = IF Len(p) = 1 THEN <<linux>> \o p ELSE p
    BY DEF Normalize
  <1>3. Short(r) = IF Len(r) = 2 /\ r[1] = linux THEN Tail(r) ELSE r
    BY DEF Short
  <1>4. Normalize(Short(r)) = IF Len(Short(r)) = 1 THEN <<linux>> \o Short(r) ELSE Short(r)
    BY DEF Normalize
  <1> HIDE DEF r, linux, A
  <1>5. r \in Seq(A) /\ Len(r) # 1
    BY <1>1, <1>2, PrefixIs
  <1>6. CASE Len(r) = 2 /\ r[1] = linux
    <2>1. r # << >>
      <3>1. Len(<< >>) = 0
        OBVIOUS
      <3>2. Len(r) # 0
        BY <1>6
      <3> QED BY <3>1, <3>2, Zenon
    <2>2. Tail(r) \in Seq(A) /\ Len(Tail(r)) = 1 /\ Tail(r)[1] = r[2]
      <3> DEFINE rest == Tail(r)
      <3>1. /\ rest \in Seq(A) /\ Len(rest) = Len(r) - 1
            /\ \A i \in 1 .. Len(rest) : rest[i] = r[i + 1]
        BY <1>5, <2>1, HeadTailProperties
      <3> HIDE DEF rest
      <3>2. Len(rest) = 1 /\ 1 + 1 = 2
        BY <1>6, <3>1
      <3>3. rest[1] = r[2]
        <4>1. 1 \in 1 .. Len(rest)
          BY <3>2
        <4>2. rest[1] = r[1 + 1]
          BY <3>1, <4>1, Zenon
        <4> QED BY <4>2
      <3> QED BY <3>1, <3>2, <3>3 DEF rest
    <2>3. /\ <<linux>> \o Tail(r) \in Seq(A) /\ Len(<<linux>> \o Tail(r)) = 2
          /\ (<<linux>> \o Tail(r))[1] = linux /\ (<<linux>> \o Tail(r))[2] = r[2]
      <3>1. /\ <<linux>> \o Tail(r) \in Seq(A)
            /\ Len(<<linux>> \o Tail(r)) = Len(Tail(r)) + 1
            /\ (<<linux>> \o Tail(r))[1] = linux
            /\ \A i \in 1 .. Len(Tail(r)) : (<<linux>> \o Tail(r))[i + 1] = Tail(r)[i]
        BY <1>1, <2>2, PrefixIs
      <3>2. (<<linux>> \o Tail(r))[1 + 1] = Tail(r)[1]
        BY <2>2, <3>1
      <3> QED BY <2>2, <3>1, <3>2
    <2>4. <<linux>> \o Tail(r) = r
      <3>1. \A i \in 1 .. Len(r) : (<<linux>> \o Tail(r))[i] = r[i]
        <4>1. \A i \in 1 .. 2 : i = 1 \/ i = 2
          OBVIOUS
        <4> QED BY <1>6, <2>3, <4>1
      <3> QED BY <1>5, <1>6, <2>3, <3>1, SeqEqual
    <2> QED BY <1>3, <1>4, <1>6, <2>2, <2>4 DEF r
  <1>7. CASE ~ (Len(r) = 2 /\ r[1] = linux)
    BY <1>3, <1>4, <1>5, <1>7 DEF r
  <1> QED BY <1>6, <1>7

LEMMA JobsAreComplete == ContextInvariant => JobsCoverPlatforms
  <1> SUFFICES ASSUME ContextInvariant, NEW n \in DOMAIN platforms
               PROVE  LET built == UNION {UNION {Resolve(d.platforms, v) : v \in d.variants \cup {{}}}
                                          : d \in Definitions[n]}
                      IN  /\ \A p \in built : \E q \in platforms[n] : Normalize(q) = p
                          /\ \A q, r \in platforms[n] :
                                Normalize(q) \in built /\ (Normalize(q) = Normalize(r) => q = r)
    BY DEF JobsCoverPlatforms
  <1> DEFINE Of(d) == UNION {Resolve(d.platforms, v) : v \in d.variants \cup {{}}}
             built == UNION {Of(d) : d \in Definitions[n]}
  <1>1. platforms[n] = {Short(p) : p \in built}
    <2>1. n \in Names /\ platforms[n] = ResolvePlatforms(n)
      BY DEF ContextInvariant, ListsOK
    <2>2. ResolvePlatforms(n) = UNION {{Short(p) : p \in Of(d)} : d \in Definitions[n]}
      BY DEF ResolvePlatforms
    <2>3. UNION {{Short(p) : p \in Of(d)} : d \in Definitions[n]} = {Short(p) : p \in built}
      <3> HIDE DEF Of
      <3> QED OBVIOUS
    <2> QED BY <2>1, <2>2, <2>3
  <1>2. ASSUME NEW p \in built PROVE Normalize(Short(p)) = p
    <2>4. PICK d \in Definitions[n] : p \in Of(d)
      OBVIOUS
    <2>1. PICK v \in d.variants \cup {{}} : p \in Resolve(d.platforms, v)
      BY <2>4
    <2>2. d.platforms \in PlatformLists /\ v \in PlatformLists /\ global \in PlatformLists
      BY CIAssumption DEF CIAssumption, ContextInvariant, ListsOK, PlatformLists
    <2>3. \E o \in Seq(STRING) : p = Normalize(o)
      <3>1. PICK o \in IF v # {} THEN v ELSE IF d.platforms # {} THEN d.platforms ELSE global :
               p = Normalize(o)
        BY <2>1 DEF Resolve
      <3>2. o \in v \/ o \in d.platforms \/ o \in global
        BY <3>1
      <3>3. o \in Seq(STRING)
        BY <2>2, <3>2 DEF PlatformLists
      <3> QED BY <3>1, <3>3
    <2> QED BY <2>3, ShortIsUndone
  <1> HIDE DEF built
  <1>3. \A p \in built : \E q \in platforms[n] : Normalize(q) = p
    BY <1>1, <1>2
  <1>4. \A q, r \in platforms[n] :
           Normalize(q) \in built /\ (Normalize(q) = Normalize(r) => q = r)
    BY <1>1, <1>2
  <1> QED BY <1>3, <1>4 DEF built

\* pkg/ci/context.go: for any finite set of images with whatever dependencies, the
\* depths of BuildCIContext are exact, rings and references to nothing apart; the
\* stages sorted by them put what a job needs before it; and the jobs of an image
\* are those of all platforms its tags and variants are built for, one for each.
THEOREM ContextFits == ContextSpec => []ContextFitsTheBuild
  <1>1. ContextInvariant => ContextFitsTheBuild
    BY DepthsAreExact, StagesAreSound, JobsAreComplete DEF ContextFitsTheBuild
  <1> QED BY <1>1, ContextInvariantHolds, PTL
=============================================================================
