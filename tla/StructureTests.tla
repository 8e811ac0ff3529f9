--------------------------- MODULE StructureTests ---------------------------
(***************************************************************************)
(* `ch test`: the loop over tags and platforms, and one run of container-  *)
(* structure-test for each. The image is loaded into the Docker daemon, or *)
(* pulled if the daemon does not have it; a goroutine runs the definition  *)
(* files and sends the results through a channel with room for one; the    *)
(* command collects them for the report until the channel is closed. A run *)
(* that returns without collecting leaves its goroutine behind.            *)
(*                                                                         *)
(* A case is a record [tag, platform]. A definition file is a record: does *)
(* it parse, and the outcomes of its tests; the one outcome of a file that *)
(* does not parse is an error. A result says which image it was made with: *)
(* the name of a tar's image has no platform in it.                        *)
(***************************************************************************)
EXTENDS Naturals, Sequences, FiniteSets, SequencesExt

CONSTANTS
    Cases,
    Files,          \* Files[tag]: the definition files of the tag, a sequence
    RoomInChannel   \* capacity of the channel, 1 in the code

VARIABLES
    inputs,     \* [chosen, present, broken: sets of cases; explicit, registry]
    canceled,   \* the context of the command
    left,       \* cases the loops have not reached
    case,       \* the case of the current iteration, a set of at most one
    tstep,      \* "next", "load", "create", "collect" or "ended"
    daemon,     \* daemon[name]: the image with that name, "none" or "old" or a platform
    runner,     \* runner[c]: the goroutine of case c, [state, file, pos]
    channel,    \* channel[c]: the results that wait in its channel
    collected,  \* results received for the report of the current case
    report,     \* report[c]: what the report file of c holds, a set of at most one
    tested, failed,
    verdict     \* what the command returned: "none", "ok", "failed", "error", "panic"

loop == <<left, case, tested, failed, verdict>>
run == <<daemon, runner, channel, collected, report>>
vars == <<inputs, canceled, loop, tstep, run>>

\* present: an image.tar exists; broken: the report file cannot be created.
Inputs(chosen) == [chosen : {chosen}, present : SUBSET chosen, broken : SUBSET chosen,
                   explicit : BOOLEAN, registry : BOOLEAN]

\* The name an image has in the daemon: from the annotation of the tar, or the
\* reference of the registry, which names the platform.
Name(c) == IF c \in inputs.present THEN [c EXCEPT !.platform = "any"] ELSE c
ImageRefs == Cases \cup {[c EXCEPT !.platform = "any"] : c \in Cases}

Start(in, pulled) ==
    /\ inputs = in
    /\ canceled = FALSE
    /\ left = in.chosen
    /\ case = {}
    /\ tstep = "next"
    /\ daemon = [r \in ImageRefs |-> IF r \in pulled THEN "old" ELSE "none"]
    /\ runner = [c \in Cases |-> [state |-> "none", file |-> 1, pos |-> 1]]
    /\ channel = [c \in Cases |-> << >>]
    /\ collected = << >>
    /\ report = [c \in Cases |-> {}]
    /\ tested = 0 /\ failed = 0
    /\ verdict = "none"
-----------------------------------------------------------------------------
Return(v) == tstep' = "ended" /\ verdict' = v

Cancel ==
    /\ ~ canceled /\ tstep # "ended"
    /\ canceled' = TRUE
    /\ UNCHANGED <<inputs, loop, tstep, run>>

\* The platforms of a tag are tested one after another.
Reachable == LET begun == {c \in left : \E d \in case : c.tag = d.tag}
             IN  IF begun = {} THEN left ELSE begun

NextCase(c) ==
    /\ tstep = "next"
    /\ c \in Reachable
    /\ case' = {c}
    /\ left' = left \ {c}
    /\ IF Files[c.tag] = << >>
       THEN UNCHANGED <<tested, tstep, verdict>>
       ELSE IF canceled THEN Return("error") /\ UNCHANGED tested
       ELSE IF c \notin inputs.present /\ ~ inputs.registry
       THEN /\ IF inputs.explicit THEN Return("error") ELSE UNCHANGED <<tstep, verdict>>
            /\ UNCHANGED tested
       ELSE \/ tstep' = "load" /\ tested' = tested + 1 /\ UNCHANGED verdict
            \/ Return("error") /\ UNCHANGED tested  \* no directory, no Docker client
    /\ UNCHANGED <<inputs, canceled, failed, run>>

\* FAIL, and on with the next platform unless the context is done.
FailCase ==
    /\ failed' = failed + 1
    /\ IF canceled THEN Return("error") ELSE tstep' = "next" /\ UNCHANGED verdict
    /\ UNCHANGED <<inputs, canceled, left, case, tested>>

\* Mutated form: an image that is there is not loaded again.
LoadImageOnce(c) ==
    /\ tstep = "load"
    /\ case = {c}
    /\ \/ /\ daemon' = [daemon EXCEPT ![Name(c)] = IF @ = "none" THEN c.platform ELSE @]
          /\ tstep' = "create"
          /\ runner' = [runner EXCEPT ![c].state = "running"]
          /\ collected' = << >>
          /\ UNCHANGED <<inputs, canceled, loop, channel, report>>
       \/ FailCase /\ UNCHANGED run

\* resolveImageName, and the goroutine is started.
LoadImage(c) ==
    /\ tstep = "load"
    /\ case = {c}
    /\ \/ /\ daemon' = [daemon EXCEPT ![Name(c)] =
                            IF c \in inputs.present \/ @ = "none" THEN c.platform ELSE @]
          /\ tstep' = "create"
          /\ runner' = [runner EXCEPT ![c].state = "running"]
          /\ collected' = << >>
          /\ UNCHANGED <<inputs, canceled, loop, channel, report>>
       \/ FailCase /\ UNCHANGED run

CreateReport(c) ==
    /\ tstep = "create"
    /\ case = {c}
    /\ IF c \in inputs.broken
       THEN FailCase
       ELSE tstep' = "collect" /\ UNCHANGED <<inputs, canceled, loop>>
    /\ UNCHANGED run

Receive(c) ==
    /\ tstep = "collect"
    /\ case = {c}
    /\ channel[c] # << >>
    /\ collected' = Append(collected, Head(channel[c]))
    /\ channel' = [channel EXCEPT ![c] = Tail(@)]
    /\ UNCHANGED <<inputs, canceled, loop, tstep, daemon, runner, report>>

\* ProcessResults finds a failed result, or none at all.
AllOk(results) == results # << >> /\ \A k \in DOMAIN results : results[k].ok

\* Mutated form: the report ends with the results that were there in time.
WriteReportEarly(c) ==
    /\ tstep = "collect"
    /\ case = {c}
    /\ channel[c] = << >>
    /\ report' = [report EXCEPT ![c] = {collected}]
    /\ IF AllOk(collected)
       THEN tstep' = "next" /\ UNCHANGED <<inputs, canceled, loop>>
       ELSE FailCase
    /\ UNCHANGED <<daemon, runner, channel, collected>>

\* ProcessResults returns when the channel is closed and empty.
WriteReport(c) ==
    /\ tstep = "collect"
    /\ case = {c}
    /\ channel[c] = << >> /\ runner[c].state = "closed"
    /\ report' = [report EXCEPT ![c] = {collected}]
    /\ IF AllOk(collected)
       THEN tstep' = "next" /\ UNCHANGED <<inputs, canceled, loop>>
       ELSE FailCase
    /\ UNCHANGED <<daemon, runner, channel, collected>>

AllTested ==
    /\ tstep = "next"
    /\ left = {}
    /\ Return(IF failed = 0 THEN "ok" ELSE "failed")
    /\ UNCHANGED <<inputs, canceled, left, case, tested, failed, run>>
-----------------------------------------------------------------------------
(* The goroutine of a case.                                                *)

Running(c) == runner[c].state = "running" /\ tstep # "ended"
File(c) == Files[c.tag][runner[c].file]
Result(c, outcome) == [ok |-> outcome, image |-> daemon[Name(c)]]

SendResult(c) ==
    /\ Running(c)
    /\ runner[c].file <= Len(Files[c.tag]) /\ runner[c].pos <= Len(File(c).outcomes)
    /\ Len(channel[c]) < RoomInChannel
    /\ channel' = [channel EXCEPT ![c] = Append(@, Result(c, File(c).outcomes[runner[c].pos]))]
    /\ runner' = [runner EXCEPT ![c].pos = @ + 1]
    /\ UNCHANGED <<inputs, canceled, loop, tstep, daemon, collected, report>>

\* After the error of a file that cannot be parsed there is nothing to run: the
\* call on the nil interface ends the process.
Panic(c) ==
    /\ Running(c)
    /\ runner[c].file <= Len(Files[c.tag]) /\ ~ File(c).parses /\ runner[c].pos = 2
    /\ Return("panic")
    /\ UNCHANGED <<inputs, canceled, left, case, tested, failed, run>>

NextFile(c) ==
    /\ Running(c)
    /\ runner[c].file <= Len(Files[c.tag])
    /\ File(c).parses /\ runner[c].pos > Len(File(c).outcomes)
    /\ runner' = [runner EXCEPT ![c].file = @ + 1, ![c].pos = 1]
    /\ UNCHANGED <<inputs, canceled, loop, tstep, daemon, channel, collected, report>>

CloseChannel(c) ==
    /\ Running(c)
    /\ runner[c].file > Len(Files[c.tag])
    /\ runner' = [runner EXCEPT ![c].state = "closed"]
    /\ UNCHANGED <<inputs, canceled, loop, tstep, daemon, channel, collected, report>>

Goroutine(c) == SendResult(c) \/ Panic(c) \/ NextFile(c) \/ CloseChannel(c)
Command(c) == NextCase(c) \/ LoadImage(c) \/ CreateReport(c) \/ Receive(c) \/ WriteReport(c)

Next == Cancel \/ AllTested \/ \E c \in Cases : Command(c) \/ Goroutine(c)
-----------------------------------------------------------------------------
TypeOK ==
    /\ inputs \in Inputs(inputs.chosen)
    /\ left \subseteq Cases /\ case \subseteq Cases /\ Cardinality(case) <= 1
    /\ tstep \in {"next", "load", "create", "collect", "ended"}
    /\ \A c \in Cases : Len(channel[c]) <= RoomInChannel
    /\ verdict \in {"none", "ok", "failed", "error", "panic"}

\* What the report of a case has to say when its image passes or fails its tests.
Expected(c) ==
    LET outcomes == FlattenSeq([k \in DOMAIN Files[c.tag] |-> Files[c.tag][k].outcomes])
    IN  [k \in DOMAIN outcomes |-> [ok |-> outcomes[k], image |-> c.platform]]
Passes(c) == AllOk(Expected(c))
ToTest == {c \in inputs.chosen : Files[c.tag] # << >> /\
              (c \in inputs.present \/ inputs.registry)}
Stale(c) == c \notin inputs.present /\ daemon[Name(c)] = "old"

\* A report tells all results of its case, and only results made with the image
\* of its platform, also while goroutines of earlier cases are still running;
\* unless the daemon had an older image of that reference already.
ReportsAreWhole ==
    \A c \in Cases : \A results \in report[c] : Stale(c) \/ results = Expected(c)

\* A command that is not interrupted judges every case that can be tested: one
\* image that cannot be loaded or fails its tests hides no other, and the
\* command succeeds only if everything was tested and passed.
EveryCaseIsJudged ==
    /\ verdict \in {"ok", "failed"} =>
          /\ left = {} /\ tested = Cardinality(ToTest)
          /\ failed = Cardinality({c \in ToTest : report[c] = {} \/ ~ Passes(c)})
    /\ verdict = "ok" => failed = 0
    /\ \A c \in Cases : Running(c) /\ c \notin case => c \in inputs.broken

TestsJudgeImages == TypeOK /\ ReportsAreWhole /\ EveryCaseIsJudged
=============================================================================
