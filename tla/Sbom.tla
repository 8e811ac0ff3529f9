-------------------------------- MODULE Sbom --------------------------------
(***************************************************************************)
(* `ch sbom`: up to four workers take the image tars of the selected units *)
(* from one queue under a mutex, catalogue each and write the SBOM beside  *)
(* it. A worker that fails records the error, unless another did before    *)
(* it, and stops; the others go on with the queue.                         *)
(*                                                                         *)
(* An item is a platform of a unit. A tar is the number of the build that  *)
(* wrote it, 0 when there is none; an SBOM is the number of the tar it was *)
(* made from, or Torn when its write was cut short.                        *)
(***************************************************************************)
EXTENDS Integers, Sequences, FiniteSets, SequencesExt

CONSTANTS
    Items,
    Workers     \* --workers, kept between 1 and 4

Torn == -1

VARIABLES
    selected,   \* items of the units and platforms the flags select
    tars, sboms,
    queue,      \* workItems
    item,       \* item[w]: what worker w is doing, a set of at most one item
    data,       \* data[w]: the tar the SBOM in its hands was made from
    worker,     \* worker[w]: "idle", "take", "generate", "write", "ended"
    firstErr,   \* the item of the first error, a set of at most one
    generated,
    made        \* what the command returned: "none", "ok" or "error"

files == <<tars, sboms>>
vars == <<selected, files, queue, item, data, worker, firstErr, generated, made>>

Start(its) ==
    /\ selected = its
    /\ queue = << >>
    /\ item = [w \in Workers |-> {}]
    /\ data = [w \in Workers |-> 0]
    /\ worker = [w \in Workers |-> "idle"]
    /\ firstErr = {}
    /\ generated = 0
    /\ made = "none"
-----------------------------------------------------------------------------
Stat == {i \in selected : tars[i] # 0}

\* collectSBOMWorkItems visits maps: the queue has any order. Without a tar for
\* anything selected the command fails. With nothing selected it ends well for a
\* shard that owns no tag, or for tags that have none of the platforms, and fails
\* where the filters match no image.
Collect ==
    /\ made = "none"
    /\ \A w \in Workers : worker[w] = "idle"
    /\ IF Stat = {}
       THEN /\ made' \in IF selected = {} THEN {"ok", "error"} ELSE {"error"}
            /\ UNCHANGED <<queue, worker>>
       ELSE /\ queue' \in SetToSeqs(Stat)
            /\ worker' = [w \in Workers |-> "take"]
            /\ UNCHANGED made
    /\ UNCHANGED <<selected, files, item, data, firstErr, generated>>

Take(w) ==
    /\ worker[w] = "take"
    /\ IF queue = << >>
       THEN /\ worker' = [worker EXCEPT ![w] = "ended"]
            /\ UNCHANGED <<queue, item>>
       ELSE /\ worker' = [worker EXCEPT ![w] = "generate"]
            /\ item' = [item EXCEPT ![w] = {Head(queue)}]
            /\ queue' = Tail(queue)
    /\ UNCHANGED <<selected, files, data, firstErr, generated, made>>

Generate(w) ==
    /\ worker[w] = "generate"
    /\ \E i \in item[w] : data' = [data EXCEPT ![w] = tars[i]]
    /\ worker' = [worker EXCEPT ![w] = "write"]
    /\ UNCHANGED <<selected, files, queue, item, firstErr, generated, made>>

\* Mutated form: the worker skips the item, as it does one without a tar.
FailsQuietly(w) ==
    /\ worker[w] \in {"generate", "write"}
    /\ worker' = [worker EXCEPT ![w] = "take"]
    /\ item' = [item EXCEPT ![w] = {}]
    /\ UNCHANGED <<selected, files, queue, data, firstErr, generated, made>>

\* The catalogue fails, also because the context was cancelled, or the file
\* cannot be written, or not to its end.
Fails(w) ==
    /\ worker[w] \in {"generate", "write"}
    /\ firstErr' = IF firstErr = {} THEN item[w] ELSE firstErr
    /\ worker' = [worker EXCEPT ![w] = "ended"]
    /\ item' = [item EXCEPT ![w] = {}]
    /\ sboms' \in {sboms} \cup
          IF worker[w] = "write" THEN {[i \in Items |-> IF i \in item[w] THEN Torn ELSE sboms[i]]}
          ELSE {}
    /\ UNCHANGED <<selected, tars, queue, data, generated, made>>

Write(w) ==
    /\ worker[w] = "write"
    /\ sboms' = [i \in Items |-> IF i \in item[w] THEN data[w] ELSE sboms[i]]
    /\ generated' = generated + 1
    /\ worker' = [worker EXCEPT ![w] = "take"]
    /\ item' = [item EXCEPT ![w] = {}]
    /\ UNCHANGED <<selected, tars, queue, data, firstErr, made>>

\* eg.Wait
Finish ==
    /\ made = "none"
    /\ \A w \in Workers : worker[w] = "ended"
    /\ made' = IF firstErr = {} THEN "ok" ELSE "error"
    /\ UNCHANGED <<selected, files, queue, item, data, worker, firstErr, generated>>

Step == Collect \/ Finish \/ \E w \in Workers : Take(w) \/ Generate(w) \/ Write(w) \/ Fails(w)

\* `ch sbom` over whatever tars and SBOMs earlier commands have left.
Init ==
    /\ tars \in [Items -> Nat] /\ sboms \in [Items -> Nat \cup {Torn}]
    /\ \E its \in SUBSET Items : Start(its)

Spec == Init /\ [][Step]_vars
-----------------------------------------------------------------------------
TypeOK ==
    /\ selected \subseteq Items
    /\ tars \in [Items -> Nat] /\ sboms \in [Items -> Nat \cup {Torn}]
    /\ queue \in Seq(Items)
    /\ item \in [Workers -> SUBSET Items] /\ \A w \in Workers : Cardinality(item[w]) <= 1
    /\ data \in [Workers -> Nat]
    /\ worker \in [Workers -> {"idle", "take", "generate", "write", "ended"}]
    /\ firstErr \subseteq Items /\ generated \in Nat
    /\ made \in {"none", "ok", "error"}

\* Whatever the workers do to the queue at the same time: no item is in two
\* hands, none is lost while the command can still succeed, and a command that
\* succeeds leaves beside every selected tar an SBOM of that very tar.
SbomsDescribeTars ==
    LET handed == {i \in Items : \E w \in Workers : i \in item[w]}
        written == {i \in Stat : sboms[i] = tars[i]}
    IN  /\ \A v, w \in Workers : v # w => item[v] \cap item[w] = {}
        /\ \A i \in handed : ~ Contains(queue, i)
        /\ (made = "none" /\ firstErr = {} /\ \E w \in Workers : worker[w] # "idle") =>
              Stat = ToSet(queue) \cup handed \cup written
        /\ made = "ok" => written = Stat
        /\ made = "error" /\ Stat # {} => firstErr # {}
=============================================================================
