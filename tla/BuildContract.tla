---------------------------- MODULE BuildContract ----------------------------
(***************************************************************************)
(* What `ch build` promises, whatever its loops do: an invocation is asked *)
(* for a set of builds and makes each at most once, in one step, from      *)
(* dependencies that it has made itself wherever it was asked for them.    *)
(* After a loss only the same tag on other platforms is still built, and   *)
(* the invocation ends without success. Module ProjectBuild refines this   *)
(* specification.                                                          *)
(***************************************************************************)
CONSTANTS
    Builds,      \* everything an invocation may be asked for
    Tars,        \* where images are kept
    Tar(_),      \* the place of a build
    Uses(_),     \* the builds whose images a build is made from
    SameTag(_)   \* the builds of the same tag, for every platform

VARIABLES
    wanted,   \* what the invocation is asked for
    made,     \* what it has made
    lost,     \* what it has tried and failed to make
    store,    \* store[t]: "none", "old", "partial" or "new"
    outcome   \* "none", "ok", "failed" or "stopped" (killed, or never started)

vars == <<wanted, made, lost, store, outcome>>

Init ==
    /\ wanted \in SUBSET Builds
    /\ made = {} /\ lost = {}
    /\ store = [t \in Tars |-> "none"]
    /\ outcome = "none"

Open(b) ==
    /\ outcome = "none"
    /\ b \notin made \cup lost
    /\ \A l \in lost : l \in SameTag(b)

\* A build succeeds: its image is new, and so are those it was made from.
Make(b) ==
    /\ Open(b)
    /\ b \in wanted
    /\ Uses(b) \cap wanted \subseteq made
    /\ made' = made \cup {b}
    /\ store' = [store EXCEPT ![Tar(b)] = "new"]
    /\ UNCHANGED <<wanted, lost, outcome>>

\* A build fails; its image is as it was, or damaged, or complete all the same.
Lose(b) ==
    /\ Open(b)
    /\ lost' = lost \cup {b}
    /\ \E left \in {store[Tar(b)], "partial", "new"} :
          store' = [store EXCEPT ![Tar(b)] = left]
    /\ UNCHANGED <<wanted, made, outcome>>

Succeed ==
    /\ outcome = "none"
    /\ lost = {} /\ made = wanted
    /\ outcome' = "ok"
    /\ UNCHANGED <<wanted, made, lost, store>>

\* Every platform of the tag that could not be built has been tried.
Fail ==
    /\ outcome = "none"
    /\ \E l \in lost : SameTag(l) \cap wanted \subseteq made \cup lost
    /\ outcome' = "failed"
    /\ UNCHANGED <<wanted, made, lost, store>>

\* The invocation is killed, or cannot start; what it was writing is damaged.
Stop ==
    /\ outcome = "none"
    /\ outcome' = "stopped"
    /\ \/ UNCHANGED store
       \/ \E b \in wanted \ (made \cup lost) : store' = [store EXCEPT ![Tar(b)] = "partial"]
    /\ UNCHANGED <<wanted, made, lost>>

\* The next invocation, over an empty store or over what the last one has left.
Again ==
    /\ outcome # "none"
    /\ wanted' \in SUBSET Builds
    /\ made' = {} /\ lost' = {}
    /\ store' \in {[t \in Tars |-> "none"],
                   [t \in Tars |-> IF store[t] = "new" THEN "old" ELSE store[t]]}
    /\ outcome' = "none"

Next ==
    \/ \E b \in Builds : Make(b) \/ Lose(b)
    \/ Succeed \/ Fail \/ Stop
    \/ Again

Spec == Init /\ [][Next]_vars
=============================================================================
