------------------------------- MODULE Garage -------------------------------
(***************************************************************************)
(* The Supervisor of the Garage process.  The fields cmd, cancel and done  *)
(* are set and cleared together, so they are one: the child they are of.   *)
(* The goroutine that waits for a child closes the channel the field holds *)
(* when the child has ended, which need not be its own.                    *)
(***************************************************************************)
EXTENDS Naturals

CONSTANTS
    Stoppers,   \* callers of Stop
    MaxChildren \* bound on processes started

Children == 1 .. MaxChildren

ASSUME GarageAssumption == MaxChildren \in Nat

VARIABLES
    spawned,   \* processes started so far
    field,     \* the child of cmd, cancel and done, 0 if they are nil
    child,     \* per child: "none", "running", "exited", or "reaped"
    cancelled, \* children whose context is cancelled
    closed,    \* children whose channel is closed
    stop,      \* per caller of Stop: its place and the child it has taken
    server,    \* "up", or "panic" after a close of nil or of a closed channel
    taken      \* history: children a Stop has taken

garageVars == <<spawned, field, child, cancelled, closed, stop, server, taken>>

GarageInit ==
    /\ spawned = 0 /\ field = 0 /\ child = [c \in Children |-> "none"]
    /\ cancelled = {} /\ closed = {} /\ server = "up" /\ taken = {}
    /\ stop = [p \in Stoppers |-> [at |-> "idle", of |-> 0]]

----------------------------------------------------------------------------
Spawn ==
    /\ spawned < MaxChildren /\ spawned' = spawned + 1 /\ field' = spawned + 1
    /\ child' = [child EXCEPT ![spawned + 1] = "running"]
    /\ UNCHANGED <<cancelled, closed, stop, server, taken>>

\* Bug: whether there is a child is not asked.
StartAgain == server = "up" /\ Spawn

\* Nothing happens if there is a child, ended or not, if the binary is not
\* there, or if a file cannot be written.
Start == server = "up" /\ field = 0 /\ Spawn

\* Garage ends by itself or, its context cancelled, is killed ...
ChildEnds(c) ==
    /\ child[c] = "running" /\ child' = [child EXCEPT ![c] = "exited"]
    /\ UNCHANGED <<spawned, field, cancelled, closed, stop, server, taken>>

ContextKills(c) == c \in cancelled /\ ChildEnds(c)

\* ... Wait returns, and the goroutine closes s.done.
Reap(c) ==
    /\ server = "up" /\ child[c] = "exited" /\ child' = [child EXCEPT ![c] = "reaped"]
    /\ IF field = 0 \/ field \in closed
       THEN server' = "panic" /\ UNCHANGED closed
       ELSE closed' = closed \cup {field} /\ UNCHANGED server
    /\ UNCHANGED <<spawned, field, cancelled, stop, taken>>

\* Stop takes and clears the fields with the mutex held ...
StopTake(p) ==
    /\ server = "up" /\ stop[p].at = "idle" /\ field # 0
    /\ stop' = [stop EXCEPT ![p] = [at |-> "taken", of |-> field]]
    /\ taken' = taken \cup {field} /\ field' = 0
    /\ UNCHANGED <<spawned, child, cancelled, closed, server>>

\* ... cancels the context, which kills the child ...
StopCancel(p) ==
    /\ server = "up" /\ stop[p].at = "taken"
    /\ stop' = [stop EXCEPT ![p].at = "waiting"]
    /\ cancelled' = cancelled \cup {stop[p].of}
    /\ UNCHANGED <<spawned, field, child, closed, server, taken>>

StopReturns(p) ==
    /\ server = "up" /\ stop[p].at = "waiting"
    /\ stop' = [stop EXCEPT ![p] = [at |-> "idle", of |-> 0]]
    /\ UNCHANGED <<spawned, field, child, cancelled, closed, server, taken>>

\* ... and waits for the channel ...
StopDone(p) == stop[p].of \in closed /\ StopReturns(p)

\* Bug: there is no timer.
StopWaits(p) == FALSE

\* ... or five seconds, and kills once more.
StopTimesOut(p) == StopReturns(p)

\* The context Start was given ends: the server is shutting down.
Shutdown ==
    /\ server = "up" /\ cancelled' = 1 .. spawned /\ cancelled # cancelled'
    /\ UNCHANGED <<spawned, field, child, closed, stop, server, taken>>

StopRuns(p) == StopCancel(p) \/ StopDone(p) \/ StopTimesOut(p)

GarageNext ==
    \/ Start \/ Shutdown
    \/ \E c \in Children : ChildEnds(c) \/ Reap(c)
    \/ \E p \in Stoppers : StopTake(p) \/ StopRuns(p)

GarageSpec == GarageInit /\ [][GarageNext]_garageVars

----------------------------------------------------------------------------
\* However Start and Stop interleave, every Garage process that runs is one
\* the supervisor can still stop or has been told to end (supervisor.go:106-170).
NoOrphan ==
    server = "up" =>
       \A c \in Children : child[c] = "running" =>
          c = field \/ c \in cancelled \/ \E p \in Stoppers : stop[p].of = c

\* Every Stop returns, and what was stopped ends, whichever channel the
\* children's goroutines close, unless such a close ends the server: the
\* goroutine of a child finds s.done nil, or another child's, once a Stop has
\* cleared it (supervisor.go:142-170).
StopEnds ==
    taken # {} ~>
       \/ server = "panic"
       \/ /\ \A p \in Stoppers : stop[p].at = "idle"
          /\ \A c \in taken : child[c] # "running"

\* "Stop sends SIGTERM and waits up to 5s for graceful exit"
\* (supervisor.go:150): the caller gets its answer, from a server that is up.
StopIsGraceful == taken # {} ~> server = "up" /\ \A p \in Stoppers : stop[p].at = "idle"
=============================================================================
