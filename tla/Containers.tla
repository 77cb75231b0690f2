----------------------------- MODULE Containers -----------------------------
(***************************************************************************)
(* The container lifecycle of one selfcloud node: the API handlers and the *)
(* rule-engine adapter that start, stop, restart and delete a container,   *)
(* the reconciler goroutine, the `ctr` runtime both of them drive, and the *)
(* store records and store events they share.                              *)
(*                                                                         *)
(* Every actor works on a copy of the record it read earlier and writes    *)
(* the whole copy back (Store.putScoped is an unconditional put), and each *)
(* `ctr` command is a step of its own, so the copies grow stale.  The      *)
(* project is part of the name here: a container is its project/name key.  *)
(***************************************************************************)
EXTENDS Naturals, Sequences, FiniteSets

CONSTANTS
    Names,      \* container keys project/name
    Ids,        \* containerd ids
    IdMaps,     \* what ctrTaskID may make of the keys (see TaskID)
    Images,     \* the part of the spec that says what to run
    Nodes,      \* node ids
    Self,       \* this node's id
    NoNode,     \* the empty node id
    Bodies,     \* records a PUT may store: the client's body, fresh or read
                \* earlier and edited, with the node pinned or scheduled
    Handlers,   \* API request goroutines
    Rec,        \* the reconciler goroutine
    Absent,     \* no record / no containerd container
    SubCap,     \* capacity of a store subscription (64 in the code)
    GenMod,     \* width of Meta.Generation (2^64 in the code)
    MaxOps,     \* bound on the user requests of a behaviour
    MaxFaults   \* bound on failing commands, workload exits and crashes

AllPolicies == {"", "Never", "OnFailure", "Always"}
Gens == 0 .. GenMod - 1
\* "" is a record no runtime has reported on yet.
Phases == {"", "Running", "Failed", "Stopped"}
\* Status.Message, as far as reconcileOne compares it.
Messages == {"ok", "pull", "run"}
Container == [gen : Gens, phase : Phases, msg : Messages, image : Images,
              policy : AllPolicies, node : Nodes \cup {Self, NoNode}]

ASSUME ContainersAssumption ==
    /\ Names # {} /\ IdMaps \subseteq [Names -> Ids]
    /\ Bodies \subseteq Container
    /\ Rec \notin Handlers
    /\ SubCap \in Nat \ {0} /\ GenMod \in Nat \ {0, 1}
    /\ MaxOps \in Nat /\ MaxFaults \in Nat

VARIABLES
    db,         \* BoltDB bucket "containers": name -> record or Absent
    subq,       \* the reconciler's store subscription channel
    subscribed, \* Run has passed st.Subscribe()
    ctrd,       \* containerd: id -> [image, task] or Absent
    rstate,     \* Reconciler.state
    work,       \* records of a bootstrap pass still to be reconciled
    pc,         \* where each actor is
    op,         \* the request each handler serves
    name,       \* the container each actor works on
    cp,         \* the copy of the record each actor holds
    TaskID,     \* ctrTaskID: the id a key is run under, the same for ever.
                \* Project and name are joined by "-", so keys of different
                \* projects may or may not have ids of their own
    hist,       \* history: what users have asked of each name
    ops, faults \* how much of MaxOps and MaxFaults is spent

sysVars == <<db, subq, subscribed, ctrd, rstate, work, pc, op, name, cp, hist,
             ops, faults>>
vars == <<sysVars, TaskID>>

Actors == Handlers \cup {Rec}
Tasks == {"running", "signalled", "exited", "none"}
CtrContainer == [image : Images, task : Tasks]
\* Every image put under the key, the requests that stop it (a PUT whose body
\* says Stopped is one), and the last request as far as it got.
StopOps == {"stop", "restart", "put"}
History == [images : SUBSET Images, stops : SUBSET StopOps,
            last : {"none", "put", "pending", "stopped", "deleted"}]
RState == [startedOK : BOOLEAN, lastGen : Gens, backoff : BOOLEAN,
           aliveChecked : BOOLEAN]
Event == [op : {"put", "delete"}, name : Names]
PCs == {"boot", "idle", "decide", "list", "pull", "run", "started", "pullErr",
        "runErr", "kill", "putStopped", "reget", "rmTask", "rmCtr", "dbDel"}

\* A fresh reconcileState: no attempt yet, zero times.
NewRState == [startedOK |-> FALSE, lastGen |-> 0, backoff |-> FALSE,
              aliveChecked |-> FALSE]

TypeOK ==
    /\ db \in [Names -> Container \cup {Absent}]
    /\ subq \in Seq(Event) /\ Len(subq) <= SubCap
    /\ subscribed \in BOOLEAN
    /\ ctrd \in [Ids -> CtrContainer \cup {Absent}]
    /\ rstate \in [Names -> RState]
    /\ work \in [Names -> Container \cup {Absent}]
    /\ pc \in [Actors -> PCs]
    /\ op \in [Handlers -> {"start", "stop", "restart", "delete"}]
    /\ name \in [Actors -> Names]
    /\ cp \in [Actors -> Container \cup {Absent}]
    /\ TaskID \in [Names -> Ids]
    /\ hist \in [Names -> History]
    /\ ops \in 0 .. MaxOps /\ faults \in 0 .. MaxFaults

Init ==
    /\ db = [n \in Names |-> Absent]
    /\ subq = <<>> /\ subscribed = FALSE
    /\ ctrd = [i \in Ids |-> Absent]
    /\ rstate = [n \in Names |-> NewRState]
    /\ work = [n \in Names |-> Absent]
    /\ pc = [a \in Actors |-> IF a = Rec THEN "boot" ELSE "idle"]
    /\ op = [h \in Handlers |-> "start"]
    /\ name = [a \in Actors |-> CHOOSE n \in Names : TRUE]
    /\ cp = [a \in Actors |-> Absent]
    /\ TaskID \in IdMaps
    /\ hist = [n \in Names |-> [images |-> {}, stops |-> {}, last |-> "none"]]
    /\ ops = 0 /\ faults = 0

----------------------------------------------------------------------------
(* The store. *)

\* Store.emit: a full channel, or no subscription yet, loses the event.
Emit(o, n) ==
    subq' = IF subscribed /\ Len(subq) < SubCap
            THEN Append(subq, [op |-> o, name |-> n]) ELSE subq

\* Store.putScoped: bump the copy's generation, overwrite whatever is there.
PutContainer(n, c) ==
    /\ db' = [db EXCEPT ![n] = [c EXCEPT !.gen = (c.gen + 1) % GenMod]]
    /\ Emit("put", n)

NoPut == UNCHANGED <<db, subq>>

\* One user request, or one fault, of the budget.
UserRequest == ops < MaxOps /\ ops' = ops + 1 /\ UNCHANGED faults
Fault == faults < MaxFaults /\ faults' = faults + 1 /\ UNCHANGED ops
NoFault == UNCHANGED <<ops, faults>>

Goto(a, l) == pc' = [pc EXCEPT ![a] = l]

----------------------------------------------------------------------------
(* containerd, as the ctr commands show it. *)

Exists(n) == ctrd[TaskID[n]] # Absent
\* `ctr tasks ls` reports RUNNING until the process is gone.
Alive(n) == Exists(n) /\ ctrd[TaskID[n]].task \in {"running", "signalled"}

\* A workload ends: by itself, or in answer to SIGTERM (which it may ignore).
TaskExit(n) ==
    /\ Alive(n)
    /\ IF ctrd[TaskID[n]].task = "signalled" THEN NoFault ELSE Fault
    /\ ctrd' = [ctrd EXCEPT ![TaskID[n]].task = "exited"]
    /\ UNCHANGED <<db, subq, subscribed, rstate, work, pc, op, name, cp, hist>>

----------------------------------------------------------------------------
(* CtrRuntime.Start, run by actor a on its copy: list, pull, run. *)

\* An existing container is "a no-op success", whatever its task does; a
\* failing list is taken for "not there".
StartList(a) ==
    /\ pc[a] = "list"
    /\ \/ Exists(name[a]) /\ Goto(a, "started") /\ NoFault
       \/ ~Exists(name[a]) /\ Goto(a, "pull") /\ NoFault
       \/ Exists(name[a]) /\ Goto(a, "pull") /\ Fault
    /\ UNCHANGED <<db, subq, subscribed, ctrd, rstate, work, op, name, cp, hist>>

StartPull(a) ==
    /\ pc[a] = "pull"
    /\ \/ Goto(a, "run") /\ NoFault
       \/ Goto(a, "pullErr") /\ Fault
    /\ UNCHANGED <<db, subq, subscribed, ctrd, rstate, work, op, name, cp, hist>>

\* `ctr run -d` refuses an id that exists by now.
StartRun(a) ==
    /\ pc[a] = "run"
    /\ \/ /\ ~Exists(name[a])
          /\ ctrd' = [ctrd EXCEPT ![TaskID[name[a]]] =
                        [image |-> cp[a].image, task |-> "running"]]
          /\ Goto(a, "started") /\ NoFault
       \/ Exists(name[a]) /\ Goto(a, "runErr") /\ NoFault /\ UNCHANGED ctrd
       \/ ~Exists(name[a]) /\ Goto(a, "runErr") /\ Fault /\ UNCHANGED ctrd
    /\ UNCHANGED <<db, subq, subscribed, rstate, work, op, name, cp, hist>>

----------------------------------------------------------------------------
(* The API handlers (the store is single-voter: writes are local). *)

\* handlePutContainer: the body is stored as it is, with the status and the
\* generation it came with; only an empty node is filled in.
HandlePut(n, c) ==
    /\ UserRequest
    /\ PutContainer(n, c)
    /\ hist' = [hist EXCEPT ![n].images = @ \cup {c.image}, ![n].last = "put",
                    ![n].stops = IF c.phase = "Stopped" THEN @ \cup {"put"} ELSE @]
    /\ UNCHANGED <<subscribed, ctrd, rstate, work, pc, op, name, cp>>

FirstStep(o) == IF o = "start" THEN "list" ELSE "kill"

\* A start, stop, restart or delete request reads the record (404 if absent).
HandleGet(h, o, n) ==
    /\ pc[h] = "idle" /\ db[n] # Absent
    /\ UserRequest
    /\ op' = [op EXCEPT ![h] = o]
    /\ name' = [name EXCEPT ![h] = n]
    /\ cp' = [cp EXCEPT ![h] = db[n]]
    /\ Goto(h, FirstStep(o))
    /\ hist' = [hist EXCEPT ![n].stops = @ \cup ({o} \cap StopOps),
                            ![n].last = "pending"]
    /\ UNCHANGED <<db, subq, subscribed, ctrd, rstate, work>>

\* CtrRuntime.Stop: SIGTERM; an error if there is no live task.  Stop and
\* restart give up on the error, delete ignores it.
HandleKill(h) ==
    LET n == name[h] IN
    /\ pc[h] = "kill"
    /\ \/ /\ Alive(n) /\ NoFault
          /\ ctrd' = [ctrd EXCEPT ![TaskID[n]].task = "signalled"]
          /\ Goto(h, IF op[h] = "delete" THEN "rmTask" ELSE "putStopped")
       \/ /\ IF Alive(n) THEN Fault ELSE NoFault
          /\ Goto(h, IF op[h] = "delete" THEN "rmTask" ELSE "idle")
          /\ UNCHANGED ctrd
    /\ UNCHANGED <<db, subq, subscribed, rstate, work, op, name, cp, hist>>

\* The stop half of stop and restart writes its copy back as Stopped.
HandlePutStopped(h) ==
    /\ pc[h] = "putStopped"
    /\ PutContainer(name[h], [cp[h] EXCEPT !.phase = "Stopped"])
    /\ Goto(h, IF op[h] = "restart" THEN "reget" ELSE "idle")
    /\ hist' = [hist EXCEPT ![name[h]].last =
                    IF op[h] = "stop" THEN "stopped" ELSE @]
    /\ UNCHANGED <<subscribed, ctrd, rstate, work, op, name, cp>> /\ NoFault

\* RestartByName, after its pause, goes through StartByName.
HandleReget(h) ==
    /\ pc[h] = "reget"
    /\ IF db[name[h]] = Absent
       THEN Goto(h, "idle") /\ UNCHANGED cp
       ELSE Goto(h, "list") /\ cp' = [cp EXCEPT ![h] = db[name[h]]]
    /\ UNCHANGED <<db, subq, subscribed, ctrd, rstate, work, op, name, hist>>
    /\ NoFault

\* The start half of start and restart: the returned status goes on the copy.
HandleStarted(h) ==
    /\ \/ /\ pc[h] = "started"
          /\ PutContainer(name[h], [cp[h] EXCEPT !.phase = "Running", !.msg = "ok"])
       \/ pc[h] \in {"pullErr", "runErr"} /\ NoPut
    /\ Goto(h, "idle")
    /\ UNCHANGED <<subscribed, ctrd, rstate, work, op, name, cp, hist>> /\ NoFault

\* CtrRuntime.Remove, first command: a live task is not deleted; the error
\* is dropped.
HandleRmTask(h) ==
    LET n == name[h] IN
    /\ pc[h] = "rmTask" /\ Goto(h, "rmCtr")
    /\ \/ Exists(n) /\ ~Alive(n) /\ ctrd' = [ctrd EXCEPT ![TaskID[n]].task = "none"] /\ NoFault
       \/ (~Exists(n) \/ Alive(n)) /\ UNCHANGED ctrd /\ NoFault
       \/ Exists(n) /\ ~Alive(n) /\ UNCHANGED ctrd /\ Fault
    /\ UNCHANGED <<db, subq, subscribed, rstate, work, op, name, cp, hist>>

\* Second command: a container whose task still runs is not deleted; the
\* handler drops that error too.
HandleRmCtr(h) ==
    LET n == name[h] IN
    /\ pc[h] = "rmCtr" /\ Goto(h, "dbDel")
    /\ \/ Exists(n) /\ ~Alive(n) /\ ctrd' = [ctrd EXCEPT ![TaskID[n]] = Absent] /\ NoFault
       \/ (~Exists(n) \/ Alive(n)) /\ UNCHANGED ctrd /\ NoFault
       \/ Exists(n) /\ ~Alive(n) /\ UNCHANGED ctrd /\ Fault
    /\ UNCHANGED <<db, subq, subscribed, rstate, work, op, name, cp, hist>>

\* Store.DeleteContainer: an event only if the record was still there.
HandleDbDel(h) ==
    LET n == name[h] IN
    /\ pc[h] = "dbDel" /\ Goto(h, "idle")
    /\ IF db[n] = Absent THEN NoPut
       ELSE db' = [db EXCEPT ![n] = Absent] /\ Emit("delete", n)
    /\ hist' = [hist EXCEPT ![n].last = "deleted"]
    /\ UNCHANGED <<subscribed, ctrd, rstate, work, op, name, cp>> /\ NoFault

HandlerStep(h) ==
    \/ StartList(h) \/ StartPull(h) \/ StartRun(h) \/ HandleStarted(h)
    \/ HandleKill(h) \/ HandlePutStopped(h) \/ HandleReget(h)
    \/ HandleRmTask(h) \/ HandleRmCtr(h) \/ HandleDbDel(h)

----------------------------------------------------------------------------
(* The reconciler: Run, bootstrap, reconcileOne. *)

WorkLeft == {n \in Names : work[n] # Absent}
RecIdle == pc[Rec] = "idle" /\ WorkLeft = {}

\* bootstrap: one list of all records, then reconcileOne on each copy: Run's
\* first step, and again at every 10s tick of its loop.
Bootstrap ==
    /\ \/ pc[Rec] = "boot"
       \/ RecIdle /\ subscribed
    /\ work' = db /\ Goto(Rec, "idle")
    /\ UNCHANGED <<db, subq, subscribed, ctrd, rstate, op, name, cp, hist>>
    /\ NoFault

\* Bug: the loop variable is captured, another entry of the list is used.
NextWorkAliased(n) ==
    /\ pc[Rec] = "idle" /\ work[n] # Absent
    /\ name' = [name EXCEPT ![Rec] = n]
    /\ \E m \in WorkLeft : cp' = [cp EXCEPT ![Rec] = work[m]]
    /\ work' = [work EXCEPT ![n] = Absent]
    /\ Goto(Rec, "decide")
    /\ UNCHANGED <<db, subq, subscribed, ctrd, rstate, op, hist>> /\ NoFault

NextWork(n) ==
    /\ pc[Rec] = "idle" /\ work[n] # Absent
    /\ name' = [name EXCEPT ![Rec] = n]
    /\ cp' = [cp EXCEPT ![Rec] = work[n]]
    /\ work' = [work EXCEPT ![n] = Absent]
    /\ Goto(Rec, "decide")
    /\ UNCHANGED <<db, subq, subscribed, ctrd, rstate, op, hist>> /\ NoFault

\* After the first pass Run subscribes; earlier events are not seen.
Subscribe ==
    /\ RecIdle /\ ~subscribed /\ subscribed' = TRUE
    /\ UNCHANGED <<db, subq, ctrd, rstate, work, pc, op, name, cp, hist>>
    /\ NoFault

\* A received event: delete forgets the state, put re-reads the record.
RecvEvent ==
    /\ RecIdle /\ subscribed /\ subq # <<>>
    /\ subq' = Tail(subq)
    /\ LET n == Head(subq).name IN
       \/ /\ Head(subq).op = "delete"
          /\ rstate' = [rstate EXCEPT ![n] = NewRState]
          /\ UNCHANGED <<pc, name, cp>>
       \/ /\ Head(subq).op = "put" /\ db[n] = Absent
          /\ UNCHANGED <<rstate, pc, name, cp>>
       \/ /\ Head(subq).op = "put" /\ db[n] # Absent
          /\ name' = [name EXCEPT ![Rec] = n]
          /\ cp' = [cp EXCEPT ![Rec] = db[n]]
          /\ Goto(Rec, "decide")
          /\ UNCHANGED rstate
    /\ UNCHANGED <<db, subscribed, ctrd, work, op, hist>> /\ NoFault

ShouldRestart(p) == p \in {"Always", "OnFailure"}

RecN == name[Rec]
RecC == cp[Rec]
RecSt == rstate[RecN]
Skipped == RecC.node \notin {NoNode, Self} \/ RecC.phase = "Stopped"
\* "we already started this exact spec successfully"
Believed == RecSt.startedOK /\ RecSt.lastGen = RecC.gen /\ RecC.phase = "Running"
\* Bug: Failed taken for terminal, nextAttempt not compared.
BackingOffForever == RecC.phase = "Failed"
BackingOff == RecC.phase = "Failed" /\ RecSt.backoff

\* reconcileOne, the returns that neither start nor write anything.
DecideSkip ==
    /\ pc[Rec] = "decide" /\ Goto(Rec, "idle")
    /\ \/ Skipped /\ UNCHANGED rstate /\ NoFault
       \/ ~Skipped /\ Believed /\ RecSt.aliveChecked /\ UNCHANGED rstate /\ NoFault
       \/ \* IsRunning says yes, or fails (taken for yes)
          /\ ~Skipped /\ Believed /\ ~RecSt.aliveChecked
          /\ IF Alive(RecN) THEN NoFault ELSE Fault
          /\ rstate' = [rstate EXCEPT ![RecN].aliveChecked = TRUE]
       \/ ~Skipped /\ ~Believed /\ BackingOff /\ UNCHANGED rstate /\ NoFault
    /\ UNCHANGED <<db, subq, subscribed, ctrd, work, op, name, cp, hist>>

\* Bug: the restart policy is not consulted.
DecideExitedAnyPolicy ==
    /\ pc[Rec] = "decide" /\ ~Skipped /\ Believed /\ ~RecSt.aliveChecked
    /\ ~Alive(RecN)
    /\ PutContainer(RecN, [RecC EXCEPT !.phase = "Stopped"])
    /\ rstate' = [rstate EXCEPT ![RecN].aliveChecked = TRUE,
                                ![RecN].startedOK = FALSE]
    /\ Goto(Rec, "idle")
    /\ UNCHANGED <<subscribed, ctrd, work, op, name, cp, hist>> /\ NoFault

\* Bug: the Stopped status is not saved.
DecideExitedUnsaved ==
    /\ pc[Rec] = "decide" /\ ~Skipped /\ Believed /\ ~RecSt.aliveChecked
    /\ ~Alive(RecN) /\ ~ShouldRestart(RecC.policy)
    /\ rstate' = [rstate EXCEPT ![RecN].aliveChecked = TRUE,
                                ![RecN].startedOK = FALSE]
    /\ Goto(Rec, "idle")
    /\ UNCHANGED <<db, subq, subscribed, ctrd, work, op, name, cp, hist>> /\ NoFault

\* Bug: an exited task is put back as a fresh record, whatever its policy says.
DecideExitedAfresh ==
    /\ pc[Rec] = "decide" /\ ~Skipped /\ Believed /\ ~RecSt.aliveChecked
    /\ ~Alive(RecN) /\ ~ShouldRestart(RecC.policy)
    /\ PutContainer(RecN, [RecC EXCEPT !.phase = "", !.gen = 0])
    /\ rstate' = [rstate EXCEPT ![RecN].aliveChecked = TRUE,
                                ![RecN].startedOK = FALSE]
    /\ Goto(Rec, "idle")
    /\ UNCHANGED <<subscribed, ctrd, work, op, name, cp, hist>> /\ NoFault

\* The task is gone and the policy says no restart.
DecideExited ==
    /\ pc[Rec] = "decide" /\ ~Skipped /\ Believed /\ ~RecSt.aliveChecked
    /\ ~Alive(RecN) /\ ~ShouldRestart(RecC.policy)
    /\ PutContainer(RecN, [RecC EXCEPT !.phase = "Stopped"])
    /\ rstate' = [rstate EXCEPT ![RecN].aliveChecked = TRUE,
                                ![RecN].startedOK = FALSE]
    /\ Goto(Rec, "idle")
    /\ UNCHANGED <<subscribed, ctrd, work, op, name, cp, hist>> /\ NoFault

\* Into rt.Start: the task is gone and the policy restarts it, or this spec
\* has not been started yet.
DecideStart ==
    /\ pc[Rec] = "decide" /\ ~Skipped
    /\ \/ /\ Believed /\ ~RecSt.aliveChecked /\ ~Alive(RecN)
          /\ ShouldRestart(RecC.policy)
          /\ rstate' = [rstate EXCEPT ![RecN].aliveChecked = TRUE,
                                      ![RecN].startedOK = FALSE]
       \/ ~Believed /\ ~BackingOff /\ UNCHANGED rstate
    /\ Goto(Rec, "list")
    /\ UNCHANGED <<db, subq, subscribed, ctrd, work, op, name, cp, hist>> /\ NoFault

\* rt.Start succeeded: remember the generation that was started, persist the
\* status only if it changes something.
RecStarted ==
    /\ pc[Rec] = "started"
    /\ rstate' = [rstate EXCEPT ![RecN].startedOK = TRUE,
                                ![RecN].lastGen = RecC.gen]
    /\ IF RecC.phase # "Running" \/ RecC.node # Self
       THEN PutContainer(RecN, [RecC EXCEPT !.phase = "Running", !.msg = "ok",
                                            !.node = Self])
       ELSE NoPut
    /\ Goto(Rec, "idle")
    /\ UNCHANGED <<subscribed, ctrd, work, op, name, cp, hist>> /\ NoFault

\* rt.Start failed: arm the backoff, persist Failed unless it is already the
\* recorded failure.
RecFailed ==
    LET msg == IF pc[Rec] = "pullErr" THEN "pull" ELSE "run" IN
    /\ pc[Rec] \in {"pullErr", "runErr"}
    /\ rstate' = [rstate EXCEPT ![RecN].startedOK = FALSE, ![RecN].backoff = TRUE]
    /\ IF RecC.phase # "Failed" \/ RecC.msg # msg
       THEN PutContainer(RecN, [RecC EXCEPT !.phase = "Failed", !.msg = msg])
       ELSE NoPut
    /\ Goto(Rec, "idle")
    /\ UNCHANGED <<subscribed, ctrd, work, op, name, cp, hist>> /\ NoFault

\* nextAttempt passes.
BackoffElapses(n) ==
    /\ rstate[n].backoff /\ rstate' = [rstate EXCEPT ![n].backoff = FALSE]
    /\ UNCHANGED <<db, subq, subscribed, ctrd, work, pc, op, name, cp, hist>>
    /\ NoFault

\* shouldVerifyAlive: more than 8s since the last probe.
AliveCheckExpires(n) ==
    /\ rstate[n].aliveChecked
    /\ rstate' = [rstate EXCEPT ![n].aliveChecked = FALSE]
    /\ UNCHANGED <<db, subq, subscribed, ctrd, work, pc, op, name, cp, hist>>
    /\ NoFault

\* The selfcloud process dies and comes back: BoltDB and containerd stay.
Crash ==
    /\ Fault
    /\ subq' = <<>> /\ subscribed' = FALSE
    /\ rstate' = [n \in Names |-> NewRState]
    /\ work' = [n \in Names |-> Absent]
    /\ pc' = [a \in Actors |-> IF a = Rec THEN "boot" ELSE "idle"]
    /\ UNCHANGED <<db, ctrd, op, name, cp, hist>>

RecStep ==
    \/ Bootstrap \/ \E n \in Names : NextWork(n)
    \/ Subscribe \/ RecvEvent
    \/ DecideSkip \/ DecideExited \/ DecideStart
    \/ StartList(Rec) \/ StartPull(Rec) \/ StartRun(Rec)
    \/ RecStarted \/ RecFailed

UserStep ==
    \/ \E n \in Names, c \in Bodies : HandlePut(n, c)
    \/ \E h \in Handlers, o \in {"start", "stop", "restart", "delete"},
          n \in Names : HandleGet(h, o, n)

Step ==
    \/ UserStep
    \/ \E h \in Handlers : HandlerStep(h)
    \/ RecStep
    \/ \E n \in Names : TaskExit(n) \/ BackoffElapses(n) \/ AliveCheckExpires(n)
    \/ Crash

Next == Step /\ UNCHANGED TaskID

Spec == Init /\ [][Next]_vars

\* Goroutines and timers are scheduled: the reconciler, every request already
\* accepted, the two clocks, and the event channel against the ticks (select
\* picks among ready cases).  Nothing is assumed of users, faults, workloads.
Fairness ==
    /\ WF_sysVars(RecStep) /\ SF_sysVars(RecvEvent) /\ SF_sysVars(Bootstrap)
    /\ \A h \in Handlers : WF_sysVars(HandlerStep(h))
    /\ \A n \in Names : WF_sysVars(BackoffElapses(n)) /\ WF_sysVars(AliveCheckExpires(n))

FairSpec == Spec /\ Fairness

----------------------------------------------------------------------------
(* Properties. *)

\* What containerd runs under an id is an image some user once put under a key
\* with that id: no mix-up of list entries, events and in-flight copies
\* (reconcile.go bootstrap and Run) starts the spec of a key whose id is
\* another one.  Keys that share an id (ctr.go:192) share what runs.
Provenance ==
    \A i \in Ids : ctrd[i] # Absent =>
        \E n \in Names : TaskID[n] = i /\ ctrd[i].image \in hist[n].images

\* A record whose policy restarts exited tasks is Stopped only if a user asked
\* for a stop or restart or sent a body that says Stopped: the reconciler never
\* retires it by itself, whatever stale copies it writes back
\* (reconcile.go:185-192, shouldRestart; handlers.go:323-338).
StopHasAReason ==
    \A n \in Names :
        (db[n] # Absent /\ db[n].phase = "Stopped" /\ ShouldRestart(db[n].policy))
            => hist[n].stops # {}

\* The reconciler's own writes do not feed an endless loop of events and
\* writes: once users and faults are done the records stop changing
\* (reconcile.go:30-33 "don't cause an event-driven hot loop").
EventuallyQuiet == <>[][UNCHANGED db]_vars

\* Every record this node is responsible for leaves "" and Failed for good,
\* although events are lost on a full channel, the first pass runs before
\* Subscribe, and starts fail (the 10s tick of Run).
Mine(n) == db[n] # Absent /\ db[n].node \in {NoNode, Self}
EventuallySettled ==
    <>[](\A n \in Names : Mine(n) => db[n].phase \in {"Running", "Stopped"})

\* Without a restarting policy a record does not claim Running for ever when
\* its task is gone: the liveness probe retires it (reconcile.go:176-192).
NeverPolicyHonest ==
    <>[](\A n \in Names :
            (Mine(n) /\ db[n].phase = "Running" /\ ~ShouldRestart(db[n].policy))
                => Alive(n))

\* docs/containers.md:57: a completed Stop keeps the container in PhaseStopped
\* until a user starts it again.
StopIsTerminal ==
    \A n \in Names : hist[n].last = "stopped" =>
        db[n] # Absent /\ db[n].phase = "Stopped"

\* docs/containers.md:36,54: with a restarting policy, a task that is gone
\* comes back.
ExitedTaskRestarts ==
    \A n \in Names :
        [](Mine(n) /\ db[n].phase = "Running" /\ ShouldRestart(db[n].policy)
           => <>(Alive(n) \/ ~Mine(n) \/ db[n].phase # "Running"))
=============================================================================
