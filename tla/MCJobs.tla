------------------------------- MODULE MCJobs -------------------------------
(***************************************************************************)
(* Four tags, the first for two  platforms. Its tests are two files with   *)
(* three tests; the second tag fails one of its tests; a definition file   *)
(* of the third does not parse, and the one of the fourth has no tests.    *)
(* The definitions of a manifest job are those of MCFinalize with at most  *)
(* three tags of five, the builds those of MCBackends.                     *)
(***************************************************************************)
EXTENDS Jobs

\* Only definitions that depend on no constant are taken from these two.
M == INSTANCE MCFinalize WITH Projects <- {}, FilterSets <- {}
K == INSTANCE MCBackends WITH Contexts <- << >>, Sessions <- {}

OneAmd == [tag |-> "1.0", platform |-> "amd64"]
OneArm == [tag |-> "1.0", platform |-> "arm64"]
TwoAmd == [tag |-> "2.0", platform |-> "amd64"]
ThreeAmd == [tag |-> "3.0", platform |-> "amd64"]
FourAmd == [tag |-> "4.0", platform |-> "amd64"]
TheCases == {OneAmd, OneArm, TwoAmd, ThreeAmd, FourAmd}
TheSelections == {{}, {OneAmd, OneArm}, {OneAmd, TwoAmd}, {OneAmd, ThreeAmd}, {FourAmd}}

Definition(parses, outcomes) == [parses |-> parses, outcomes |-> outcomes]
TheFiles ==
    [tag \in {"1.0", "2.0", "3.0", "4.0"} |->
        CASE tag = "1.0" -> <<Definition(TRUE, <<TRUE, TRUE>>), Definition(TRUE, <<TRUE>>)>>
          [] tag = "2.0" -> <<Definition(TRUE, <<TRUE, FALSE>>)>>
          [] tag = "3.0" -> <<Definition(TRUE, <<TRUE>>), Definition(FALSE, <<FALSE>>)>>
          [] tag = "4.0" -> <<Definition(TRUE, << >>)>>]

TheFlags == [build |-> {{"buildkitd"}, {"buildkitd", "docker"}, {}}, test |-> {{"docker"}}]
TheProjects == {p \in M!OneDefinition :
    Cardinality(p[1].tags) <= 3 /\ M!Version(<<2>>) \notin p[1].tags}
TheFilters == M!ReleaseFilters
TheStops == [stop |-> FALSE, stopAndRemove |-> TRUE]
TheChunks == {<< >>, <<"x", "n", "x">>}     \* "n" ends a line
TheContexts == K!TheContexts
TheSessions == K!TheSessions
=============================================================================
