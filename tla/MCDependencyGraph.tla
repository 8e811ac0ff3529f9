------------------------- MODULE MCDependencyGraph --------------------------
(***************************************************************************)
(* Bounded inputs for DependencyGraph: every graph of at most MaxRefs      *)
(* Dockerfile references over the names, together with at most             *)
(* MaxDeclared depends_on entries and as many backend parents, over a      *)
(* project that dist mirrors, lags behind or outlives, or that misses a    *)
(* name the references mention.                                            *)
(***************************************************************************)
EXTENDS DependencyGraph

CONSTANTS MaxRefs, MaxDeclared

\* The relations from Names to T with at most n pairs.
SmallRelations(T, n) ==
    {f \in [Names -> SUBSET T] :
        Cardinality({<<i, j>> \in Names \X T : j \in f[i]}) <= n}

MCInit ==
    /\ dist \in {{1, 2}, {1, 2, 3}}
    /\ project \in {{1, 2}, {1, 2, 3}}
    /\ hiveRefs \in SmallRelations(Names, MaxRefs)
    /\ dependsOn \in SmallRelations(Names, MaxDeclared)
    /\ parents \in SmallRelations(Names \cup {Malformed}, MaxDeclared)
    /\ Init

MCSpec == MCInit /\ [][Next]_vars
=============================================================================
