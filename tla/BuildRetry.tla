----------------------------- MODULE BuildRetry -----------------------------
(***************************************************************************)
(* One call of buildkit.Client.Build: up to buildMaxRetries + 1 solves,    *)
(* each writing the image tar and pushing the image, with a pause and a    *)
(* new connection between two of them. The context may be cancelled at any *)
(* moment, also while the loop sleeps.                                     *)
(***************************************************************************)
EXTENDS Naturals

CONSTANT buildMaxRetries    \* retries after the first attempt, 3 in the code

ASSUME RetriesAssumption == buildMaxRetries \in Nat

(***************************************************************************)
(* What an error of a solve is, and what isTransientBuildkitError sees of  *)
(* it. cause: the connection broke, the build itself failed, or the caller *)
(* gave up. canceled: errors.Is finds context.Canceled or                  *)
(* DeadlineExceeded in it. marked: it is an EOF, has the gRPC code         *)
(* Unavailable, or its text contains one of transientErrorSubstrings. The  *)
(* text of a failed build quotes the command that failed, so a build       *)
(* failure may be marked as well.                                          *)
(***************************************************************************)
Errors == {e \in [cause : {"connection", "build", "caller"},
                  canceled : BOOLEAN, marked : BOOLEAN] :
             e.canceled => e.cause = "caller"}

VARIABLES
    hasEndpoint, \* the client was dialled (in-memory connections were not)
    hasRegistry, \* RegistryRef is set: the image is pushed as well
    ctx,         \* "live" or "cancelled"
    attempt,     \* the loop variable
    lastErr,     \* set of at most one error
    conn,        \* "open", or "closed" after a failed reconnect
    generation,  \* number of connections opened so far
    spent,       \* generations on which an attempt failed
    tar,         \* "none", "partial" or "complete"
    export,      \* the running attempt's exporter: "idle", "writing", "written"
    pushed,      \* the running attempt has pushed the image
    starts,      \* how often build() was called
    late,        \* how often it was called with a cancelled context
    place, answer

retryVars == <<hasEndpoint, hasRegistry, ctx, attempt, lastErr, conn, generation, spent,
               tar, export, pushed, starts, late, place, answer>>
fixed == <<hasEndpoint, hasRegistry>>
connection == <<conn, generation, spent>>
solve == <<tar, export, pushed>>
counts == <<starts, late>>

-----------------------------------------------------------------------------
RetryInit ==
    /\ hasEndpoint \in BOOLEAN
    /\ hasRegistry \in BOOLEAN
    /\ ctx = "live"
    /\ attempt = 0
    /\ lastErr = {}
    /\ conn = "open"
    /\ generation = 1
    /\ spent = {}
    /\ tar \in {"none", "partial", "complete"}   \* a rebuild finds the old tar
    /\ export = "idle"
    /\ pushed = FALSE
    /\ starts = 0
    /\ late = 0
    /\ place = "attempt"
    /\ answer = "none"

Answer(r) ==
    /\ place' = "done"
    /\ answer' = r

\* The user interrupts `ch`, or a deadline passes.
Cancel ==
    /\ ctx = "live"
    /\ place # "done"
    /\ ctx' = "cancelled"
    /\ UNCHANGED <<fixed, attempt, lastErr, connection, solve, counts, place, answer>>

\* build(): buildOnce starts a solve and a reader of its status stream.
StartAttempt ==
    /\ place = "attempt"
    /\ starts' = starts + 1
    /\ late' = IF ctx = "cancelled" THEN late + 1 ELSE late
    /\ export' = "idle"
    /\ pushed' = FALSE
    /\ place' = "solve"
    /\ UNCHANGED <<fixed, ctx, attempt, lastErr, connection, tar, answer>>

\* The OCI exporter truncates the tar when it starts to write.
ExportStarts ==
    /\ place = "solve"
    /\ conn = "open"
    /\ export = "idle"
    /\ export' = "writing"
    /\ tar' = "partial"
    /\ UNCHANGED <<fixed, ctx, attempt, lastErr, connection, pushed, counts, place, answer>>

ExportEnds ==
    /\ place = "solve"
    /\ conn = "open"
    /\ export = "writing"
    /\ export' = "written"
    /\ tar' = "complete"
    /\ UNCHANGED <<fixed, ctx, attempt, lastErr, connection, pushed, counts, place, answer>>

Push ==
    /\ place = "solve"
    /\ conn = "open"
    /\ hasRegistry
    /\ pushed' = TRUE
    /\ UNCHANGED <<fixed, ctx, attempt, lastErr, connection, tar, export, counts,
                   place, answer>>

SolveSucceeds ==
    /\ place = "solve"
    /\ conn = "open"
    /\ export = "written"
    /\ hasRegistry => pushed
    /\ Answer("ok")
    /\ UNCHANGED <<fixed, ctx, attempt, lastErr, connection, solve, counts>>

\* The solve fails at any point; it blames the caller only once the context is
\* cancelled.
SolveFails(e) ==
    /\ place = "solve"
    /\ e.cause = "caller" => ctx = "cancelled"
    /\ conn = "closed" => e.cause = "connection"
    /\ lastErr' = {e}
    /\ spent' = spent \cup {generation}
    /\ place' = "failed"
    /\ UNCHANGED <<fixed, ctx, attempt, conn, generation, solve, counts, answer>>

isTransientBuildkitError(e) == ~e.canceled /\ e.marked

\* Mutated form: the context is not looked at after a failed attempt.
AfterFailureIgnoringContext ==
    /\ place = "failed"
    /\ \E e \in lastErr :
         IF ~isTransientBuildkitError(e) \/ attempt = buildMaxRetries
         THEN Answer("error") /\ UNCHANGED attempt
         ELSE attempt' = attempt + 1 /\ place' = "wait" /\ UNCHANGED answer
    /\ UNCHANGED <<fixed, ctx, lastErr, connection, solve, counts>>

\* Mutated form: one retry too many.
AfterFailureOffByOne ==
    /\ place = "failed"
    /\ \E e \in lastErr :
         IF ~isTransientBuildkitError(e) \/ ctx = "cancelled" \/ attempt > buildMaxRetries
         THEN Answer("error") /\ UNCHANGED attempt
         ELSE attempt' = attempt + 1 /\ place' = "wait" /\ UNCHANGED answer
    /\ UNCHANGED <<fixed, ctx, lastErr, connection, solve, counts>>

\* The error is returned, or the loop goes on with the next attempt.
AfterFailure ==
    /\ place = "failed"
    /\ \E e \in lastErr :
         IF ~isTransientBuildkitError(e) \/ ctx = "cancelled" \/ attempt = buildMaxRetries
         THEN Answer("error") /\ UNCHANGED attempt
         ELSE attempt' = attempt + 1 /\ place' = "wait" /\ UNCHANGED answer
    /\ UNCHANGED <<fixed, ctx, lastErr, connection, solve, counts>>

\* select between ctx.Done() and the timer: when both are ready, either.
WaitCancelled ==
    /\ place = "wait"
    /\ ctx = "cancelled"
    /\ Answer("error")
    /\ UNCHANGED <<fixed, ctx, attempt, lastErr, connection, solve, counts>>

DelayElapsed ==
    /\ place = "wait"
    /\ place' = "reset"
    /\ UNCHANGED <<fixed, ctx, attempt, lastErr, connection, solve, counts, answer>>

\* Mutated form: the connection is not replaced.
ResetConnectionSkipped ==
    /\ place = "reset"
    /\ place' = "attempt"
    /\ UNCHANGED <<fixed, ctx, attempt, lastErr, connection, solve, counts, answer>>

\* Mutated form: a failed reconnect waits and dials again, without counting it.
ResetConnectionRedials ==
    /\ place = "reset"
    /\ IF hasEndpoint
       THEN \/ conn' = "open" /\ generation' = generation + 1 /\ place' = "attempt"
            \/ conn' = "closed" /\ place' = "wait" /\ UNCHANGED generation
       ELSE place' = "attempt" /\ UNCHANGED <<conn, generation>>
    /\ UNCHANGED <<fixed, ctx, attempt, lastErr, spent, solve, counts, answer>>

\* The old connection is closed before the new one is dialled; a client
\* without an endpoint keeps its connection.
ResetConnection ==
    /\ place = "reset"
    /\ IF hasEndpoint
       THEN \/ conn' = "open" /\ generation' = generation + 1
            \/ conn' = "closed" /\ UNCHANGED generation
       ELSE UNCHANGED <<conn, generation>>
    /\ place' = "attempt"
    /\ UNCHANGED <<fixed, ctx, attempt, lastErr, spent, solve, counts, answer>>

RetryDone ==
    /\ place = "done"
    /\ UNCHANGED retryVars

Work ==
    \/ StartAttempt
    \/ ExportStarts
    \/ ExportEnds
    \/ Push
    \/ SolveSucceeds
    \/ \E e \in Errors : SolveFails(e)
    \/ AfterFailure
    \/ WaitCancelled
    \/ DelayElapsed
    \/ ResetConnection

RetryNext == Work \/ Cancel \/ RetryDone

RetrySpec == RetryInit /\ [][RetryNext]_retryVars

\* The goroutine runs, BuildKit ends every solve with an answer or an error,
\* and timers fire.
FairRetrySpec ==
    /\ RetrySpec
    /\ WF_retryVars(StartAttempt \/ AfterFailure \/ DelayElapsed \/ ResetConnection)
    /\ WF_retryVars(SolveSucceeds \/ \E e \in Errors : SolveFails(e))

-----------------------------------------------------------------------------
FlagsOK == hasEndpoint \in BOOLEAN /\ hasRegistry \in BOOLEAN /\ pushed \in BOOLEAN

\* The loop's counters and the connection keep their types.
RetryTypeOK ==
    /\ FlagsOK
    /\ export \in {"idle", "writing", "written"}
    /\ ctx \in {"live", "cancelled"}
    /\ attempt \in 0 .. buildMaxRetries
    /\ lastErr \in SUBSET Errors
    /\ conn \in {"open", "closed"}
    /\ generation \in Nat
    /\ spent \in SUBSET Nat
    /\ tar \in {"none", "partial", "complete"}
    /\ starts \in Nat
    /\ late \in Nat
    /\ place \in {"attempt", "solve", "failed", "wait", "reset", "done"}
    /\ answer \in {"none", "ok", "error"}

\* "A build therefore runs at most buildMaxRetries+1 times."
AttemptsBounded == starts <= buildMaxRetries + 1

\* A build that is reported as successful left a complete tar, written by its
\* last attempt and not by an earlier one or an earlier build, and has pushed
\* the image if it had to.
SuccessMeansExported ==
    answer = "ok" => tar = "complete" /\ export = "written" /\ (hasRegistry => pushed)

\* "A cancelled context stops the loop": whenever the cancellation strikes, at
\* most one more solve is started, the one whose timer fired together with it.
CancelStopsLoop == late <= 1

\* "reset runs before every retry so a broken connection is replaced": a retry
\* never solves over a connection that has already failed, except where there
\* is no endpoint to dial. After a failed reconnect it has no connection.
RetryUsesFreshConnection ==
    (place = "solve" /\ hasEndpoint) => (conn = "closed" \/ generation \notin spent)

\* How often build() has run when the loop is at each of its places.
StartsFollowAttempts ==
    /\ place \in {"attempt", "wait", "reset"} => starts = attempt
    /\ place \in {"solve", "failed"} => starts = attempt + 1
    /\ starts <= attempt + 1

\* A late solve is the last one: the loop never gets past its failure.
LateSolveIsLast ==
    late # 0 => late = 1 /\ ctx = "cancelled" /\ place \in {"solve", "failed", "done"}

\* A connection that was just dialled has not failed yet.
FailuresArePast ==
    /\ \A g \in spent : g <= generation
    /\ (place = "attempt" /\ hasEndpoint) => (conn = "closed" \/ generation \notin spent)

\* The inductive invariant behind the safety properties above: where in its loop
\* Build is determines how many solves it has started, which of them were late
\* and which connections are spent.
RetryInvariant ==
    /\ RetryTypeOK
    /\ StartsFollowAttempts
    /\ LateSolveIsLast
    /\ FailuresArePast
    /\ RetryUsesFreshConnection
    /\ answer = "ok" => place = "done"
    /\ export = "written" => tar = "complete"
    /\ SuccessMeansExported

\* Build returns: there is no endless loop of retries.
Returns == <>(place = "done")

\* "genuine build failures are never retried": the comment of the file and
\* docs/troubleshooting.md say so.
GenuineFailuresNotRetried ==
    [][(place = "failed" /\ place' = "wait") => \A e \in lastErr : e.cause # "build"]_retryVars
=============================================================================
