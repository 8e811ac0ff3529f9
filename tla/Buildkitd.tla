----------------------------- MODULE Buildkitd -----------------------------
(***************************************************************************)
(* `ch dev buildkitd start` and `stop`, several at a time, on the one      *)
(* container with the well-known name. Every call of the Docker API is a   *)
(* step of its own; Docker looks a container up by the ID of create or by  *)
(* its name, and refuses to remove one that runs.                          *)
(***************************************************************************)
EXTENDS Naturals, FiniteSets

CONSTANTS
    Starts,     \* commands that start the daemon
    Stops       \* Stops[c]: does the stop command c have --remove

VARIABLES
    container,  \* the container of that name, a set of at most one [id, state]
    created,    \* number of containers created so far, their IDs
    at,         \* at[c]: the call that command c makes next, or its result
    id,         \* id[c]: the ID that c has of a container, 0 for none
    ran,        \* history: IDs of the containers that were started
    stopped     \* history: IDs of those that a stop, or their own exit, stopped

vars == <<container, created, at, id, ran, stopped>>
Commands == Starts \cup DOMAIN Stops

Start(commands) ==
    /\ container \in {{}} \cup {{[id |-> 1, state |-> s]} : s \in {"running", "exited"}}
    /\ created = 1
    /\ at = [c \in Commands |-> IF c \notin commands THEN "none"
                                ELSE IF c \in Starts THEN "pull" ELSE "find"]
    /\ id = [c \in Commands |-> 0]
    /\ ran = {k.id : k \in {k \in container : k.state = "running"}}
    /\ stopped = {1} \ ran

Init == Start(Commands)
-----------------------------------------------------------------------------
Go(c, p) == at' = [at EXCEPT ![c] = p]
Running == {k \in container : k.state = "running"}
Stopped == container' = {[k EXCEPT !.state = "exited"] : k \in container}

\* The daemon ends by itself.
Exit ==
    /\ Running # {}
    /\ Stopped
    /\ stopped' = stopped \cup {k.id : k \in Running}
    /\ UNCHANGED <<created, at, id, ran>>

Pull(c) ==
    /\ at[c] = "pull"
    /\ \/ Go(c, "inspect")
       \/ Go(c, "failed")
    /\ UNCHANGED <<container, created, id, ran, stopped>>

Inspect(c) ==
    /\ at[c] = "inspect"
    /\ IF container = {} THEN Go(c, "create") /\ UNCHANGED id
       ELSE IF Running # {} THEN Go(c, "failed") /\ UNCHANGED id   \* already running
       ELSE /\ id' = [id EXCEPT ![c] = (CHOOSE k \in container : TRUE).id]
            /\ Go(c, "remove")
    /\ UNCHANGED <<container, created, ran, stopped>>

\* Mutated form: the container is removed by its name and by force.
RemoveByForce(c) ==
    /\ at[c] = "remove"
    /\ container' = {}
    /\ Go(c, "create")
    /\ UNCHANGED <<created, id, ran, stopped>>

Remove(c) ==
    /\ at[c] = "remove"
    /\ IF \E k \in container \ Running : k.id = id[c]
       THEN container' = {} /\ Go(c, "create")
       ELSE Go(c, "failed") /\ UNCHANGED container
    /\ UNCHANGED <<created, id, ran, stopped>>

Create(c) ==
    /\ at[c] = "create"
    /\ IF container = {}
       THEN /\ created' = created + 1
            /\ container' = {[id |-> created', state |-> "created"]}
            /\ id' = [id EXCEPT ![c] = created']
            /\ Go(c, "start")
       ELSE Go(c, "failed") /\ UNCHANGED <<container, created, id>>
    /\ UNCHANGED <<ran, stopped>>

\* The port may be taken: then the container stays as it was created.
StartContainer(c) ==
    /\ at[c] = "start"
    /\ \/ /\ \E k \in container : k.id = id[c]
          /\ container' = {[id |-> id[c], state |-> "running"]}
          /\ ran' = ran \cup {id[c]}
          /\ Go(c, "wait")
       \/ Go(c, "failed") /\ UNCHANGED <<container, ran>>
    /\ UNCHANGED <<created, id, stopped>>

\* WaitAll on the endpoint, where whatever runs answers.
WaitReady(c) ==
    /\ at[c] = "wait"
    /\ \/ Running # {} /\ Go(c, "ok")
       \/ Go(c, "failed")
    /\ UNCHANGED <<container, created, id, ran, stopped>>

Find(c) ==
    /\ at[c] = "find"
    /\ Go(c, IF container = {} THEN "ok" ELSE "stop")
    /\ UNCHANGED <<container, created, id, ran, stopped>>

Stop(c) ==
    /\ at[c] = "stop"
    /\ IF container = {} THEN Go(c, "failed")
       ELSE Go(c, IF Stops[c] THEN "remove stopped" ELSE "ok")
    /\ Stopped
    /\ stopped' = stopped \cup {k.id : k \in container}
    /\ UNCHANGED <<created, id, ran>>

RemoveStopped(c) ==
    /\ at[c] = "remove stopped"
    /\ IF container # {} /\ Running = {}
       THEN container' = {} /\ Go(c, "ok")
       ELSE Go(c, "failed") /\ UNCHANGED container
    /\ UNCHANGED <<created, id, ran, stopped>>

Command(c) ==
    \/ c \in Starts /\ (Pull(c) \/ Inspect(c) \/ Remove(c) \/ Create(c)
                        \/ StartContainer(c) \/ WaitReady(c))
    \/ c \notin Starts /\ (Find(c) \/ Stop(c) \/ RemoveStopped(c))

Ended == \A c \in Commands : at[c] \in {"none", "ok", "failed"}

Step == (~ Ended /\ Exit) \/ \E c \in Commands : Command(c)
-----------------------------------------------------------------------------
TypeOK ==
    /\ Cardinality(container) <= 1
    /\ container \subseteq [id : 1 .. created, state : {"created", "running", "exited"}]
    /\ id \in [Commands -> 0 .. created] /\ ran \cup stopped \subseteq 1 .. created

\* A daemon that was started runs until it is stopped or exits by itself: no
\* start takes it away from the builds on it, however the commands overlap. A
\* start that succeeds has started a daemon of its own.
DaemonsAreKept ==
    /\ TypeOK
    /\ \A i \in ran \ stopped : [id |-> i, state |-> "running"] \in container
    /\ \A c \in Starts : at[c] = "ok" => id[c] \in ran
    /\ \A c, d \in Starts : c # d /\ at[c] = "ok" /\ at[d] = "ok" => id[c] # id[d]
=============================================================================
