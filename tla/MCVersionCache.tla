--------------------------- MODULE MCVersionCache ---------------------------
(***************************************************************************)
(* Two processes on one cache directory: "a" with two calls, "b" with one. *)
(***************************************************************************)
EXTENDS VersionCache, TLC

MCProcesses == {"a", "b"}
MCGoroutines == {"a1", "a2", "b1"}
MCProcessOf == ("a1" :> "a") @@ ("a2" :> "a") @@ ("b1" :> "b")

DistinctPids == ("a" :> 1) @@ ("b" :> 2)
\* The entrypoint of a container has the pid 1.
ContainerPids == [p \in MCProcesses |-> 1]

Nobody == {}
OnlyA == {"a"}

MixedTTL == ("a1" :> Unset) @@ ("a2" :> Unset) @@ ("b1" :> 2)
NoSourceTTL == [t \in MCGoroutines |-> Unset]
=============================================================================
