------------------------------- MODULE Solve -------------------------------
(***************************************************************************)
(* buildOnce and its display: one goroutine runs the solve and sends       *)
(* status updates through a channel without a buffer, the other reads them *)
(* until the channel is closed and prints. BuildKit waits for its reader,  *)
(* whatever has become of the context.                                     *)
(*                                                                         *)
(* An update says something of one vertex, a step of the build: its state, *)
(* a status and a chunk of its log, a sequence of bytes "x" and line ends. *)
(***************************************************************************)
EXTENDS Naturals, Sequences, FiniteSets, SequencesExt

CONSTANTS
    Vertices,
    Chunks,     \* what a log chunk may be
    MaxUpdates  \* bound on the updates of a solve

VARIABLES
    mode,       \* "interactive" or "linear"
    channel,    \* "open" or "closed"
    pending,    \* the update the solve is sending, a set of at most one
    updates,    \* number of updates sent
    reported,   \* reported[v]: the state BuildKit has reported last
    logged,     \* logged[v]: all log bytes it has sent
    seenStarted, seenDone,  \* vertices whose header or final line was printed
    seenStatus, \* <<status ID, done>> that were printed
    buffer,     \* lineBuf: bytes of a line that has not ended
    screen,     \* screen[v]: the lines printed for v
    handler     \* "reading" or "returned"

display == <<seenStarted, seenDone, seenStatus, buffer, screen>>
vars == <<mode, channel, pending, updates, reported, logged, display, handler>>

Completed == {"done", "cached", "error"}
EndOfLine == "n"

Start(m) ==
    /\ mode = m
    /\ channel = "open"
    /\ pending = {}
    /\ updates = 0
    /\ reported = [v \in Vertices |-> "unknown"]
    /\ logged = [v \in Vertices |-> << >>]
    /\ seenStarted = {} /\ seenDone = {} /\ seenStatus = {}
    /\ buffer = [v \in Vertices |-> << >>]
    /\ screen = [v \in Vertices |-> << >>]
    /\ handler = "reading"

Init == \E m \in {"interactive", "linear"} : Start(m)
-----------------------------------------------------------------------------
\* BuildKit: a vertex becomes known, starts and completes; a state may be
\* reported again, and steps be left out. Status IDs are not unique among the
\* vertices: each exporter has an "exporting layers".
After(st) ==
    CASE st \in {"unknown", "known"} -> {"known", "started", "done", "cached", "error"}
      [] st = "started" -> {"started", "done", "cached", "error"}
      [] OTHER -> {st}

Send(v) ==
    /\ channel = "open" /\ pending = {} /\ updates < MaxUpdates
    /\ updates' = updates + 1
    /\ \E st \in After(reported[v]) : \E status \in {"none", "begin", "end"}, data \in Chunks :
          /\ st = "known" => status = "none" /\ data = << >>
          /\ reported' = [reported EXCEPT ![v] = st]
          /\ logged' = [logged EXCEPT ![v] = @ \o data]
          /\ pending' = {[vertex |-> v, state |-> st, status |-> status, data |-> data]}
    /\ UNCHANGED <<mode, channel, display, handler>>

\* The solve ends, with success, an error or because it was cancelled.
Close ==
    /\ channel = "open" /\ pending = {}
    /\ channel' = "closed"
    /\ UNCHANGED <<mode, pending, updates, reported, logged, display, handler>>
-----------------------------------------------------------------------------
Header == <<"header">>
Final(st) == <<"final", st>>
If(condition, line) == IF condition THEN <<line>> ELSE << >>

\* lineBuf.write: all lines that end in the buffer are taken out of it. A line is
\* what lies between two ends.
Rest(bytes) == SubSeq(bytes, 1 + SelectLastInSeq(bytes, LAMBDA c : c = EndOfLine), Len(bytes))
WholeLines(bytes) ==
    FlattenSeq([k \in DOMAIN bytes |->
                   If(bytes[k] = EndOfLine, <<"log", Rest(SubSeq(bytes, 1, k - 1))>>)])

\* Mutated form: the last line is printed when its step completes.
LinesOfCompleted(u, bytes) ==
    IF u.state \in Completed THEN WholeLines(bytes) \o <<<<"log", Rest(bytes)>>>>
    ELSE WholeLines(bytes)

Lines(u, bytes) == WholeLines(bytes)

StatusLine(u) == If(u.status # "none" /\ u.status \notin seenStatus, <<"status", u.status>>)

\* interactive.go: headers, statuses, logs, and the steps that completed last.
Interactive(u, lines) ==
    If(u.state \in Completed \cup {"started"} /\ u.vertex \notin seenStarted, Header)
        \o StatusLine(u) \o lines
        \o If(u.state \in Completed /\ u.vertex \notin seenDone, Final(u.state))

\* linear.go prints what the update says of its vertex first.
Linear(u, lines) ==
    (CASE u.state = "started" -> <<Header>>
       [] u.state \in Completed -> <<Final(u.state)>>
       [] OTHER -> << >>) \o StatusLine(u) \o lines

Update ==
    /\ handler = "reading"
    /\ \E u \in pending :
          LET bytes == buffer[u.vertex] \o u.data
              text == IF mode = "interactive" THEN Interactive(u, Lines(u, bytes))
                      ELSE Linear(u, Lines(u, bytes))
          IN  /\ screen' = [screen EXCEPT ![u.vertex] = @ \o text]
              /\ buffer' = [buffer EXCEPT ![u.vertex] = Rest(bytes)]
              /\ seenStarted' = IF u.state \in Completed \cup {"started"}
                                THEN seenStarted \cup {u.vertex} ELSE seenStarted
              /\ seenDone' = IF u.state \in Completed THEN seenDone \cup {u.vertex} ELSE seenDone
              /\ seenStatus' = seenStatus \cup ({u.status} \ {"none"})
    /\ pending' = {}
    /\ UNCHANGED <<mode, channel, updates, reported, logged, handler>>

\* Mutated form: the display ends with the context of the build.
DoneWithContext ==
    /\ handler = "reading"
    /\ handler' = "returned"
    /\ UNCHANGED <<mode, channel, pending, updates, reported, logged, display>>

\* done(): what is left in the buffers, and a final line for what still runs.
Done ==
    /\ handler = "reading"
    /\ channel = "closed" /\ pending = {}
    /\ screen' = [v \in Vertices |-> screen[v]
                     \o If(buffer[v] # << >>, <<"log", buffer[v]>>)
                     \o If(mode = "interactive" /\ reported[v] = "started"
                              /\ v \notin seenDone, Final("done"))]
    /\ buffer' = [v \in Vertices |-> << >>]
    /\ handler' = "returned"
    /\ UNCHANGED <<mode, channel, pending, updates, reported, logged, seenStarted, seenDone,
                   seenStatus>>

\* eg.Wait
Ended == channel = "closed" /\ handler = "returned"

Step == Close \/ Update \/ Done \/ \E v \in Vertices : Send(v)
-----------------------------------------------------------------------------
TypeOK ==
    /\ mode \in {"interactive", "linear"} /\ channel \in {"open", "closed"}
    /\ Cardinality(pending) <= 1 /\ updates \in 0 .. MaxUpdates
    /\ reported \in [Vertices -> {"unknown", "known", "started"} \cup Completed]
    /\ seenStarted \cup seenDone \subseteq Vertices
    /\ seenStatus \subseteq {"begin", "end"}
    /\ handler \in {"reading", "returned"}

Occurrences(v, line) == {k \in DOMAIN screen[v] : screen[v][k] = line}
Finals(v) == {k \in DOMAIN screen[v] : screen[v][k][1] = "final"}
LogBytes(line) == IF line[1] = "log" THEN line[2] \o <<EndOfLine>> ELSE << >>
Printed(v) == FlattenSeq([k \in DOMAIN screen[v] |-> LogBytes(screen[v][k])])

\* What BuildKit reports shows, whatever it repeats or leaves out: every byte of
\* a log once and in order, in whole lines until the solve is over; for every
\* step that completed a line that says how; and on a terminal one header before
\* everything else and one final line after it.
ScreenTellsTheSolve ==
    /\ TypeOK
    /\ pending = {} => \A v \in Vertices :
          /\ handler = "reading" => Printed(v) \o buffer[v] = logged[v]
          /\ handler = "returned" => Printed(v) \in {logged[v], Append(logged[v], EndOfLine)}
          /\ reported[v] \in Completed => Occurrences(v, Final(reported[v])) # {}
          /\ mode = "interactive" =>
                /\ Cardinality(Occurrences(v, Header)) <= 1 /\ Cardinality(Finals(v)) <= 1
                /\ Finals(v) # {} => screen[v][1] = Header
                /\ handler = "returned" /\ Occurrences(v, Header) # {} => Finals(v) # {}
=============================================================================
