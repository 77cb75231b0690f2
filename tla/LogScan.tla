------------------------------- MODULE LogScan -------------------------------
(***************************************************************************)
(* The log scanner: every tick it compares its followers with the          *)
(* containers on record as Running.  A follower attaches to the task, and  *)
(* turns the lines it reads into container.log events until its stream     *)
(* ends.  Records and tasks change as users and the reconciler like.       *)
(***************************************************************************)
EXTENDS Naturals

CONSTANTS
    Ctrs,         \* containers
    NoCtr,        \* container of a follower not yet started
    MaxFollowers, \* bound on followers started
    MaxChanges    \* bound on changes of records and tasks

ASSUME LogScanAssumption ==
    MaxFollowers \in Nat /\ MaxChanges \in Nat /\ NoCtr \notin Ctrs

Followers == 1 .. MaxFollowers

VARIABLES
    phase,   \* the records
    task,    \* per container: "up" if there is a task to attach to
    changes, \* changes so far
    scanner, \* where Run is: "tick", "cancel", "start" or "down"
    want,    \* what the tick under way has listed and not yet started
    known,   \* Scanner.known: the follower whose cancel it holds, 0 if none
    started, \* followers started so far
    fol      \* the followers: container, place, context, and as history the
             \* lines reported after the cancellation

world == <<phase, task, changes>>
scan == <<scanner, want, known, started>>
scanVars == <<world, scan, fol>>

ScanInit ==
    /\ phase = [c \in Ctrs |-> "Stopped"] /\ task = [c \in Ctrs |-> "none"] /\ changes = 0
    /\ scanner = "tick" /\ want = {} /\ known = [c \in Ctrs |-> 0] /\ started = 0
    /\ fol = [f \in Followers |-> [of |-> NoCtr, at |-> "none", ctx |-> "none", late |-> 0]]

----------------------------------------------------------------------------
(* Records and tasks: nothing keeps the two in step. *)

Change == changes < MaxChanges /\ changes' = changes + 1 /\ UNCHANGED <<scan, fol>>

PhaseChanges(c) ==
    /\ phase' = [phase EXCEPT ![c] = IF @ = "Running" THEN "Stopped" ELSE "Running"]
    /\ Change /\ UNCHANGED task

\* Whoever is attached to a task that exits gets the end of the stream.
TaskChanges(c) ==
    /\ task' = [task EXCEPT ![c] = IF @ = "up" THEN "none" ELSE "up"]
    /\ changes < MaxChanges /\ changes' = changes + 1
    /\ fol' = [f \in Followers |-> IF fol[f].of = c /\ fol[f].at = "attached"
                                   THEN [fol[f] EXCEPT !.at = "eof"] ELSE fol[f]]
    /\ UNCHANGED <<phase, scan>>

----------------------------------------------------------------------------
(* reconcile. *)

\* List the records ...
ScanList ==
    /\ scanner = "tick" /\ scanner' = "cancel"
    /\ want' = {c \in Ctrs : phase[c] = "Running"}
    /\ UNCHANGED <<world, known, started, fol>>

\* Bug: a follower that is no longer wanted is cancelled and kept.
ScanCancelKeeps ==
    /\ scanner = "cancel" /\ scanner' = "start"
    /\ fol' = [f \in Followers |-> IF \E c \in Ctrs \ want : known[c] = f
                                   THEN [fol[f] EXCEPT !.ctx = "cancelled"] ELSE fol[f]]
    /\ UNCHANGED <<world, want, known, started>>

\* Bug: a follower that is no longer wanted is forgotten.
ScanForget ==
    /\ scanner = "cancel" /\ scanner' = "start"
    /\ known' = [c \in Ctrs |-> IF c \in want THEN known[c] ELSE 0]
    /\ UNCHANGED <<world, want, started, fol>>

\* ... cancel the followers of those that disappeared ...
ScanCancel ==
    /\ scanner = "cancel" /\ scanner' = "start"
    /\ known' = [c \in Ctrs |-> IF c \in want THEN known[c] ELSE 0]
    /\ fol' = [f \in Followers |-> IF \E c \in Ctrs \ want : known[c] = f
                                   THEN [fol[f] EXCEPT !.ctx = "cancelled"] ELSE fol[f]]
    /\ UNCHANGED <<world, want, started>>

Starts(c) ==
    /\ started < MaxFollowers /\ started' = started + 1
    /\ known' = [known EXCEPT ![c] = started']
    /\ fol' = [fol EXCEPT ![started'] = [of |-> c, at |-> "new", ctx |-> "live", late |-> 0]]

\* ... and start one for each container without.
ScanStart(c) ==
    /\ scanner = "start" /\ c \in want /\ want' = want \ {c}
    /\ IF known[c] = 0 THEN Starts(c) ELSE UNCHANGED <<known, started, fol>>
    /\ UNCHANGED <<world, scanner>>

ScanDone ==
    /\ scanner = "start" /\ want = {} /\ scanner' = "tick"
    /\ UNCHANGED <<world, want, known, started, fol>>

\* Run's context ends, and with it every follower's.
ScanShutdown ==
    /\ scanner = "tick" /\ scanner' = "down" /\ known' = [c \in Ctrs |-> 0]
    /\ fol' = [f \in Followers |-> IF f <= started THEN [fol[f] EXCEPT !.ctx = "cancelled"]
                                   ELSE fol[f]]
    /\ UNCHANGED <<world, want, started>>

----------------------------------------------------------------------------
(* follow. *)

Moves(f, s) == fol' = [fol EXCEPT ![f].at = s] /\ UNCHANGED <<world, scan>>

\* Logs runs ctr tasks attach, which fails when there is no task.
Attach(f) ==
    /\ fol[f].at = "new"
    /\ Moves(f, IF task[fol[f].of] = "up" /\ fol[f].ctx = "live" THEN "attached" ELSE "eof")

\* A line; a follower whose context has ended by now drops it and leaves.
ReadLine(f) ==
    /\ fol[f].at = "attached"
    /\ Moves(f, IF fol[f].ctx = "live" THEN "line" ELSE "ended")

\* One event for each pattern that matches among the rules of this moment.
\* The task may have exited meanwhile.
EmitLine(f) ==
    /\ fol[f].at = "line"
    /\ fol' = [fol EXCEPT ![f].at = IF task[fol[f].of] = "up" THEN "attached" ELSE "eof",
                          ![f].late = IF fol[f].ctx = "live" THEN 0 ELSE @ + 1]
    /\ UNCHANGED <<world, scan>>

\* The cancelled context kills the attached command.
Killed(f) == fol[f].at = "attached" /\ fol[f].ctx = "cancelled" /\ Moves(f, "eof")

\* A line over 1 MiB ends the scan.
TooLong(f) == fol[f].at = "attached" /\ Moves(f, "ended")

Ends(f) == fol[f].at = "eof" /\ Moves(f, "ended")

----------------------------------------------------------------------------
ScanRuns == ScanList \/ ScanCancel \/ ScanDone \/ \E c \in Ctrs : ScanStart(c)
FollowerRuns(f) == Attach(f) \/ EmitLine(f) \/ Killed(f) \/ Ends(f)

ScanNext ==
    \/ \E c \in Ctrs : PhaseChanges(c) \/ TaskChanges(c)
    \/ ScanRuns \/ ScanShutdown
    \/ \E f \in Followers : FollowerRuns(f) \/ ReadLine(f) \/ TooLong(f)

ScanSpec == ScanInit /\ [][ScanNext]_scanVars

----------------------------------------------------------------------------
(* Properties. *)

ScanTypeOK ==
    /\ phase \in [Ctrs -> {"Running", "Stopped"}] /\ task \in [Ctrs -> {"up", "none"}]
    /\ changes \in 0 .. MaxChanges /\ scanner \in {"tick", "cancel", "start", "down"}
    /\ want \subseteq Ctrs /\ known \in [Ctrs -> 0 .. MaxFollowers]
    /\ started \in 0 .. MaxFollowers
    /\ fol \in [Followers -> [of : Ctrs \cup {NoCtr},
                              at : {"none", "new", "attached", "line", "eof", "ended"},
                              ctx : {"none", "live", "cancelled"}, late : 0 .. 1]]

\* The followers that were not cancelled are those the scanner holds the
\* cancel of, one for each container: none reports lines a second time or runs
\* for ever because its cancel was lost (logscan.go:78-105).  One that was
\* cancelled reports at most the line it had in hand (logscan.go:125-129).
OneFollower ==
    \A f \in Followers :
       /\ fol[f].ctx = "live" => fol[f].of # NoCtr /\ known[fol[f].of] = f
       /\ fol[f].late <= 1

\* A container that is no longer on record as Running is let go of, whatever
\* its follower is doing (logscan.go:80-86, 118-128).
LetGo ==
    \A c \in Ctrs :
       phase[c] = "Stopped" ~>
          \/ phase[c] = "Running"
          \/ \A f \in Followers : fol[f].of = c => fol[f].at = "ended"

\* A follower whose stream has ended while its container stayed on record as
\* Running; the scanner takes it for one that still follows.
Deaf(c) ==
    known[c] # 0 /\ fol[known[c]].ctx = "live" /\ fol[known[c]].at \in {"eof", "ended"}

\* A Running container with a task is followed in the end, or its follower is
\* deaf (logscan.go:65-96).
Followed ==
    \A c \in Ctrs :
       phase[c] = "Running" /\ task[c] = "up" ~>
          \/ phase[c] # "Running" \/ task[c] # "up" \/ scanner = "down" \/ Deaf(c)
          \/ known[c] # 0 /\ fol[known[c]].at \in {"attached", "line"}

\* The followers come and go with the records (logscan.go:65-128).
FollowersFollow == LetGo /\ Followed
=============================================================================
