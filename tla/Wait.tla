-------------------------------- MODULE Wait --------------------------------
(***************************************************************************)
(* `ch wait`: WaitAll polls every target in a goroutine of its own until   *)
(* it answers or the deadline of the common context has passed. A daemon   *)
(* comes up at some moment, may go away again, and answers what it is      *)
(* asked while it is up.                                                   *)
(***************************************************************************)
EXTENDS FiniteSets

CONSTANT Targets

VARIABLES
    targets,    \* the targets asked for by the flags
    up,         \* the daemons that answer now
    deadline,   \* "live" or "passed": the context of WithTimeout
    poll,       \* poll[t]: "select", "check", or how the goroutine ended
    answered,   \* history: the targets that answered a check
    waited      \* what the command returned: "none", "ok" or "error"

vars == <<targets, up, deadline, poll, answered, waited>>

Start(ts) ==
    /\ targets = ts
    /\ up \in SUBSET ts
    /\ deadline = "live"
    /\ poll = [t \in ts |-> "select"]
    /\ answered = {}
    /\ waited = "none"

Init == \E ts \in SUBSET Targets : Start(ts)
-----------------------------------------------------------------------------
\* "at least one wait target is required"
NoTarget ==
    /\ waited = "none"
    /\ targets = {}
    /\ waited' = "error"
    /\ UNCHANGED <<targets, up, deadline, poll, answered>>

Daemon(t) ==
    /\ waited = "none"
    /\ up' = IF t \in up THEN up \ {t} ELSE up \cup {t}
    /\ UNCHANGED <<targets, deadline, poll, answered, waited>>

DeadlinePasses ==
    /\ waited = "none"
    /\ deadline = "live"
    /\ deadline' = "passed"
    /\ UNCHANGED <<targets, up, poll, answered, waited>>

\* select takes either ready case, so a tick may be taken after the deadline.
Tick(t) ==
    /\ poll[t] = "select"
    /\ poll' = [poll EXCEPT ![t] = "check"]
    /\ UNCHANGED <<targets, up, deadline, answered, waited>>

\* Mutated form: the goroutine listens to the context without the deadline.
GiveUpNever(t) ==
    /\ poll[t] = "cancelled"
    /\ UNCHANGED vars

GiveUp(t) ==
    /\ poll[t] = "select"
    /\ deadline = "passed"
    /\ poll' = [poll EXCEPT ![t] = "timed out"]
    /\ UNCHANGED <<targets, up, deadline, answered, waited>>

\* CheckFn takes the context: past the deadline its calls fail.
CheckAnswers(t) ==
    /\ poll[t] = "check"
    /\ t \in up /\ deadline = "live"
    /\ poll' = [poll EXCEPT ![t] = "ready"]
    /\ answered' = answered \cup {t}
    /\ UNCHANGED <<targets, up, deadline, waited>>

\* Mutated form: an error of the check ends the polling without one.
CheckFailsQuietly(t) ==
    /\ poll[t] = "check"
    /\ t \notin up \/ deadline = "passed"
    /\ poll' = [poll EXCEPT ![t] = IF deadline = "passed" THEN "ready" ELSE "select"]
    /\ UNCHANGED <<targets, up, deadline, answered, waited>>

CheckFails(t) ==
    /\ poll[t] = "check"
    /\ t \notin up \/ deadline = "passed"
    /\ poll' = [poll EXCEPT ![t] = "select"]
    /\ UNCHANGED <<targets, up, deadline, answered, waited>>

\* wg.Wait, and the errors of all targets counted.
AllReturn ==
    /\ waited = "none"
    /\ targets # {}
    /\ \A t \in targets : poll[t] \in {"ready", "timed out"}
    /\ waited' = IF \A t \in targets : poll[t] = "ready" THEN "ok" ELSE "error"
    /\ UNCHANGED <<targets, up, deadline, poll, answered>>

Goroutine(t) == Tick(t) \/ GiveUp(t) \/ CheckAnswers(t) \/ CheckFails(t)

Next ==
    \/ NoTarget \/ DeadlinePasses \/ AllReturn
    \/ \E t \in targets : Daemon(t) \/ Goroutine(t)

Spec == Init /\ [][Next]_vars
-----------------------------------------------------------------------------
TypeOK ==
    /\ targets \subseteq Targets
    /\ up \subseteq targets
    /\ deadline \in {"live", "passed"}
    /\ poll \in [targets -> {"select", "check", "ready", "timed out"}]
    /\ answered \subseteq targets
    /\ waited \in {"none", "ok", "error"}

\* wait.go: the command succeeds only if every target has answered, and fails
\* only at its deadline or for want of a target.
DaemonsAnswered ==
    /\ waited = "ok" => targets # {} /\ targets \subseteq answered
    /\ waited = "error" => targets = {} \/ deadline = "passed"
=============================================================================
