------------------------------ MODULE BuildLogs ------------------------------
(***************************************************************************)
(* The log of one build: logStream, which writes it to disk and fans it    *)
(* out, and the WebSocket handlers that show it.  Lines are numbered, so   *)
(* the file is a number: how many it holds.                                *)
(***************************************************************************)
EXTENDS Naturals, Sequences

CONSTANTS
    Watchers, \* WebSocket connections
    BufCap,   \* logBufferLines
    ChanCap,   \* capacity of a watcher's channel
    MaxLines  \* bound on lines

ASSUME BuildLogsAssumption ==
    /\ BufCap \in Nat \ {0} /\ ChanCap \in Nat \ {0} /\ MaxLines \in Nat
    /\ BufCap <= ChanCap

VARIABLES
    bld,     \* where runBuild is
    status,  \* the build record: "active" or "final"
    streams, \* Builder.streams: "listed" or "none"
    stream,  \* the logStream: "none", "open" or "closed"
    lines,   \* lines in the file
    buffer,  \* logStream.buffer
    subs,    \* logStream.subs
    queue,   \* per watcher: its channel
    shut,    \* channels that were closed
    view,    \* per watcher: its handler
    told,    \* handlers whose context was cancelled
    replay,  \* per watcher: the goroutine that replays the file
    size,    \* per watcher: lines in the file that goroutine read
    last,    \* history: the line sent last, or the one before the first due
    lost     \* history: watchers whose channel was full once

builder == <<bld, status, streams, stream, lines, buffer>>
watching == <<subs, queue, shut, view, told, replay, size, last, lost>>
logVars == <<builder, watching>>

LogInit ==
    /\ bld = "pending" /\ status = "active" /\ streams = "none" /\ stream = "none"
    /\ lines = 0 /\ buffer = <<>> /\ subs = {} /\ shut = {} /\ told = {} /\ lost = {}
    /\ queue = [w \in Watchers |-> <<>>] /\ view = [w \in Watchers |-> "away"]
    /\ replay = [w \in Watchers |-> "none"]
    /\ size = [w \in Watchers |-> 0] /\ last = [w \in Watchers |-> 0]

----------------------------------------------------------------------------
(* runBuild. *)

\* openStream; the record has been there since Trigger.
OpenStream ==
    /\ bld = "pending" /\ bld' = "running" /\ stream' = "open" /\ streams' = "listed"
    /\ UNCHANGED <<status, lines, buffer, watching>>

Recent(b) == IF Len(b) > BufCap THEN Tail(b) ELSE b

\* Bug: a line is kept for late watchers and not sent to those who are there.
FansOutLater == UNCHANGED <<queue, lost>>

\* A full channel misses the line.
FansOut ==
    /\ queue' = [w \in Watchers |-> IF w \in subs /\ Len(queue[w]) < ChanCap
                                    THEN Append(queue[w], lines + 1) ELSE queue[w]]
    /\ lost' = lost \cup {w \in subs : Len(queue[w]) >= ChanCap}

appendLines ==
    /\ lines < MaxLines /\ lines' = lines + 1
    /\ buffer' = Recent(Append(buffer, lines + 1)) /\ FansOut
    /\ UNCHANGED <<status, streams, stream, subs, shut, view, told, replay, size, last>>

LogLine == bld = "running" /\ appendLines /\ UNCHANGED bld

\* The result is saved, or the store fails and nobody notices ...
SaveResult ==
    /\ bld = "running" /\ bld' = "saved" /\ status' \in {"active", "final"}
    /\ UNCHANGED <<streams, stream, lines, buffer, watching>>

\* ... and a success is logged after it is saved.
LogSuccess == bld = "saved" /\ bld' = "logged" /\ appendLines

\* Bug: the entry stays in the map.
UnlistStreamNot ==
    /\ bld \in {"saved", "logged"} /\ bld' = "unlisted"
    /\ UNCHANGED <<status, streams, stream, lines, buffer, watching>>

\* closeStream: first the map of streams ...
UnlistStream ==
    /\ bld \in {"saved", "logged"} /\ bld' = "unlisted" /\ streams' = "none"
    /\ UNCHANGED <<status, stream, lines, buffer, watching>>

\* Bug: the channels stay open.
CloseStreamQuietly ==
    /\ bld = "unlisted" /\ bld' = "closed" /\ stream' = "closed" /\ subs' = {}
    /\ UNCHANGED <<status, streams, lines, buffer, shut, queue, view, told, replay, size,
                   last, lost>>

\* ... then the stream and its channels.
CloseStream ==
    /\ bld = "unlisted" /\ bld' = "closed" /\ stream' = "closed"
    /\ shut' = shut \cup subs /\ subs' = {}
    /\ UNCHANGED <<status, streams, lines, buffer, queue, view, told, replay, size, last, lost>>

----------------------------------------------------------------------------
(* handleBuildLogsWS. *)

\* With the recent lines in the channel.  A closed stream has no map to
\* register in, and a write to a nil map panics.
subscribe(w) ==
    /\ IF stream = "closed"
       THEN view' = [view EXCEPT ![w] = "panic"] /\ UNCHANGED <<queue, subs, last>>
       ELSE /\ view' = [view EXCEPT ![w] = "live"] /\ subs' = subs \cup {w}
            /\ queue' = [queue EXCEPT ![w] = buffer]
            /\ last' = [last EXCEPT ![w] = lines - Len(buffer)]
    /\ UNCHANGED replay

\* StreamLogs, under the lock of streams.  A build that is not listed is taken
\* for finished, also the one that has not begun.
StreamLogs(w) ==
    /\ view[w] = "away"
    /\ \/ streams = "listed" /\ subscribe(w)
       \/ /\ streams = "none" /\ view' = [view EXCEPT ![w] = "replay"]
          /\ replay' = [replay EXCEPT ![w] = "read"]
          /\ UNCHANGED <<queue, subs, last>>
    /\ UNCHANGED <<builder, shut, told, size, lost>>

\* The replay reads the file, if there is one, ...
ReplayRead(w) ==
    /\ replay[w] = "read" /\ replay' = [replay EXCEPT ![w] = "push"]
    /\ size' = [size EXCEPT ![w] = lines]
    /\ UNCHANGED <<builder, subs, queue, shut, view, told, last, lost>>

\* ... and sends it line by line, for as long as somebody makes room.
ReplayPush(w) ==
    LET next == last[w] + Len(queue[w]) + 1 IN
    /\ replay[w] = "push" /\ next <= size[w] /\ Len(queue[w]) < ChanCap
    /\ queue' = [queue EXCEPT ![w] = Append(@, next)]
    /\ UNCHANGED <<builder, subs, shut, view, told, replay, size, last, lost>>

ReplayEnd(w) ==
    /\ replay[w] = "push" /\ last[w] + Len(queue[w]) = size[w]
    /\ replay' = [replay EXCEPT ![w] = "end"] /\ shut' = shut \cup {w}
    /\ UNCHANGED <<builder, subs, queue, view, told, size, last, lost>>

Watches(w) == view[w] \in {"live", "replay"}

\* The ticker sees a finished build, waits a second and cancels the context.
Ticker(w) ==
    /\ Watches(w) /\ status = "final" /\ w \notin told /\ told' = told \cup {w}
    /\ UNCHANGED <<builder, subs, queue, shut, view, replay, size, last, lost>>

SendLine(w) ==
    /\ Watches(w) /\ queue[w] # <<>>
    /\ last' = [last EXCEPT ![w] = Head(queue[w])]
    /\ queue' = [queue EXCEPT ![w] = Tail(@)]
    /\ UNCHANGED <<builder, subs, shut, view, told, replay, size, lost>>

\* unsub and return.
Returns(w) ==
    /\ view' = [view EXCEPT ![w] = "gone"] /\ subs' = subs \ {w}
    /\ UNCHANGED <<builder, queue, shut, told, replay, size, last, lost>>

\* The context was cancelled, whatever is still queued, or the channel ended.
WatchEnds(w) ==
    /\ Watches(w) /\ (w \in told \/ (queue[w] = <<>> /\ w \in shut))
    /\ Returns(w)

\* The client goes, or does not take a line for five seconds.
ClientLeaves(w) == Watches(w) /\ Returns(w)

----------------------------------------------------------------------------
BuildRuns == OpenStream \/ LogLine \/ SaveResult \/ LogSuccess \/ UnlistStream \/ CloseStream
WatchRuns(w) == ReplayRead(w) \/ ReplayPush(w) \/ ReplayEnd(w) \/ SendLine(w) \/ WatchEnds(w)

LogNext ==
    \/ BuildRuns
    \/ \E w \in Watchers : StreamLogs(w) \/ WatchRuns(w) \/ Ticker(w) \/ ClientLeaves(w)

LogSpec == LogInit /\ [][LogNext]_logVars

----------------------------------------------------------------------------
(* Properties. *)

LogTypeOK ==
    /\ bld \in {"pending", "running", "saved", "logged", "unlisted", "closed"}
    /\ status \in {"active", "final"} /\ streams \in {"none", "listed"}
    /\ stream \in {"none", "open", "closed"} /\ lines \in 0 .. MaxLines
    /\ buffer \in Seq(1 .. MaxLines) /\ Len(buffer) <= ChanCap
    /\ subs \subseteq Watchers /\ shut \subseteq Watchers /\ told \subseteq Watchers
    /\ queue \in [Watchers -> Seq(1 .. MaxLines)]
    /\ \A w \in Watchers : Len(queue[w]) <= ChanCap
    /\ view \in [Watchers -> {"away", "live", "replay", "gone", "panic"}]
    /\ replay \in [Watchers -> {"none", "read", "push", "end"}]
    /\ size \in [Watchers -> 0 .. MaxLines] /\ last \in [Watchers -> 0 .. MaxLines]
    /\ lost \subseteq Watchers

\* A watcher whose channel was never full has missed nothing and got nothing
\* twice: what is queued for it follows what it was sent and reaches to the
\* newest line, across the seam between buffer and live lines
\* (queue.go:60-80).
NoGap ==
    \A w \in subs \ lost : queue[w] = [i \in 1 .. lines - last[w] |-> last[w] + i]

\* A watcher may subscribe at whatever moment of the build, and of its end, he
\* comes: the stream is not closed (runner.go:106-126, 421-426), and its buffer
\* fits into his channel, which is filled with two mutexes held
\* (queue.go:56-59, 76-79).
SubscribeIsSafe == (\A w \in Watchers : view[w] # "panic") /\ Len(buffer) <= ChanCap

\* Once the build is over every watcher's handler returns, also when its
\* result could not be saved and the ticker sees no end (builds.go:80-117).
WatchersEnd ==
    \A w \in Watchers : bld = "closed" /\ Watches(w) ~> ~Watches(w)
=============================================================================
