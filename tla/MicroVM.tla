------------------------------ MODULE MicroVM ------------------------------
(***************************************************************************)
(* The Firecracker runtime of one function: the jailer on the host         *)
(* (internal/runtime/firecracker/jailer.go) and the agent inside the guest *)
(* (agent/main.go).  An invocation restores the function's snapshot when   *)
(* the jailer knows of one, and otherwise, or when that fails, boots a     *)
(* microVM of its own and leaves a snapshot behind.  Functions share       *)
(* nothing here: every path and every map entry is keyed by the function.  *)
(*                                                                         *)
(* An invocation i names at once its request, the chroot jail/<uid>/ of    *)
(* its cold boot and the firecracker process it has started, if any: it    *)
(* never has two, the one of a restore is gone before the cold boot.       *)
(***************************************************************************)
EXTENDS Integers, Sequences, FiniteSets

CONSTANTS Inv,          \* invocations
          Nobody,       \* no invocation
          MaxDeploys,   \* bound on the versions of the code
          MaxCrashes    \* bound on the restarts of the server

ASSUME InvAssumption == Nobody \notin Inv /\ IsFiniteSet(Inv)
ASSUME BoundsAssumption == MaxDeploys \in Nat /\ MaxCrashes \in Nat

VARIABLES
  code,      \* fns/<project>/<name>/code.tar
  deployed,  \* how many versions have been deployed
  writing,   \* the versions whose Deploy has code.tar open for writing
  removing,  \* "some": there are Removes between their two steps
  snapshots, \* Jailer.snapshots: the keys of the map
  image,     \* snapshots/<fnKey>/state.bin and mem.bin
  meta,      \* snapshots/<fnKey>/meta.json: whose chroot it names
  jail,      \* the chroots on disk
  sock,      \* fc-restore.sock in each chroot: the process that made it
  vm,        \* the firecracker processes
  inbox,     \* requests an agent has been sent and has not read
  pc,        \* where each invocation is
  use,       \* the chroot whose sockets the invocation uses
  reply,     \* what the agent answered
  kept,      \* the invocations with keepChroot set
  runs,      \* history: how many guests ran user code for the request
  since,     \* history: the version that was deployed when a restore was called for
  crashes

host == <<pc, use, reply, kept, since>>
disk == <<code, image, meta, jail>>
ops == <<writing, removing>>
vars == <<code, deployed, ops, snapshots, image, meta, jail, sock, vm, inbox,
          pc, use, reply, kept, runs, since, crashes>>

None == -2   \* no answer yet
Torn == -1   \* a tarball that is cut short: some files of some code, or none
Codes == 0 .. MaxDeploys   \* 0: no code; as an answer, an error or a part of some code
Runnable == Codes \cup {Torn}

MaybeInv == Inv \cup {Nobody}

(***************************************************************************)
(* The function's key and the directory of its snapshot below snapshots/:  *)
(* fnKey is project/name, which makes two levels of directories of it.     *)
(* NewJailer looks for state.bin in the entries of snapshots/ itself.      *)
(***************************************************************************)
SnapDir == <<"project", "name">>
Entries == {SubSeq(SnapDir, 1, 1)}   \* os.ReadDir(snapshots)

(***************************************************************************)
(* A process: not running; started; serving its API socket; booting a      *)
(* kernel; its guest's agent listening; paused.  uds is the chroot of the  *)
(* vsock path the guest's device has.                                      *)
(***************************************************************************)
Process == [st    : {"off", "fc", "api", "boot", "up", "paused"},
            code  : Runnable,
            uds   : MaybeInv]
Off == [st |-> "off", code |-> 0, uds |-> Nobody]

Image == [by : MaybeInv, code : Runnable]
NoImage == [by |-> Nobody, code |-> 0]

InFlight == {"restore", "load", "rdial", "rconn", "cold", "dial", "conn",
             "snap", "meta", "publish", "finish"}

TypeOK ==
  /\ code \in Runnable
  /\ deployed \in Codes
  /\ writing \in SUBSET Codes /\ removing \in {"none", "some"}
  /\ snapshots \in SUBSET ({SnapDir} \cup Entries)
  /\ image \in Image
  /\ meta \in MaybeInv
  /\ jail \in SUBSET Inv
  /\ sock \in [Inv -> MaybeInv]
  /\ vm \in [Inv -> Process]
  /\ inbox \in [Inv -> SUBSET Inv]
  /\ pc \in [Inv -> InFlight \cup {"idle", "done", "lost"}]
  /\ use \in [Inv -> MaybeInv]
  /\ reply \in [Inv -> Codes \cup {None}]
  /\ kept \in SUBSET Inv
  /\ runs \in [Inv -> Nat]
  /\ since \in [Inv -> Codes]
  /\ crashes \in 0 .. MaxCrashes

Init ==
  /\ code = 0 /\ deployed = 0 /\ writing = {} /\ removing = "none"
  /\ snapshots = {} /\ image = NoImage /\ meta = Nobody /\ jail = {}
  /\ sock = [i \in Inv |-> Nobody]
  /\ vm = [i \in Inv |-> Off]
  /\ inbox = [i \in Inv |-> {}]
  /\ pc = [i \in Inv |-> "idle"]
  /\ use = [i \in Inv |-> Nobody]
  /\ reply = [i \in Inv |-> None]
  /\ kept = {}
  /\ runs = [i \in Inv |-> 0]
  /\ since = [i \in Inv |-> 0]
  /\ crashes = 0

-----------------------------------------------------------------------------
(***************************************************************************)
(* Deploy and Remove, any number at once: no lock is held but the one of   *)
(* the map.  os.WriteFile truncates the file and then writes it, or fails; *)
(* Remove forgets the snapshot under the mutex and then deletes the code,  *)
(* so that what a Deploy is still writing is a file without a name.        *)
(* Neither touches the snapshot's files.                                   *)
(***************************************************************************)
DeployTruncate ==
  /\ deployed < MaxDeploys
  /\ deployed' = deployed + 1 /\ code' = Torn
  /\ writing' = writing \cup {deployed + 1}
  /\ UNCHANGED <<removing, snapshots, image, meta, jail, sock, vm, inbox, host, runs,
                 crashes>>

DeployWrite(v) ==
  /\ v \in writing
  /\ writing' = writing \ {v} /\ code' \in {v, Torn}
  /\ UNCHANGED <<deployed, removing, snapshots, image, meta, jail, sock, vm, inbox, host,
                 runs, crashes>>

RemoveSnapshot ==
  /\ removing' = "some" /\ snapshots' = snapshots \ {SnapDir}
  /\ UNCHANGED <<code, deployed, writing, image, meta, jail, sock, vm, inbox, host, runs,
                 crashes>>

RemoveCode ==
  /\ removing = "some" /\ removing' \in {"none", "some"}
  /\ writing' = {} /\ code' = 0
  /\ UNCHANGED <<deployed, snapshots, image, meta, jail, sock, vm, inbox, host, runs,
                 crashes>>

-----------------------------------------------------------------------------
(***************************************************************************)
(* Invoke: the template checks, then the snapshot if there is one.         *)
(***************************************************************************)
lookupSnapshot == SnapDir \in snapshots

Begin(i) ==
  /\ pc[i] = "idle"
  /\ pc' = [pc EXCEPT ![i] = IF lookupSnapshot THEN "restore" ELSE "cold"]
  /\ since' = [since EXCEPT ![i] = IF lookupSnapshot /\ code \in Codes THEN code
                                               ELSE 0]
  /\ UNCHANGED <<disk, deployed, ops, snapshots, sock, vm, inbox, use, reply, kept, runs,
                 crashes>>

Rejected(i) ==
  /\ pc[i] = "idle"
  /\ pc' = [pc EXCEPT ![i] = "done"]
  /\ UNCHANGED <<disk, deployed, ops, snapshots, sock, vm, inbox, use, reply, kept, runs,
                 since, crashes>>

(***************************************************************************)
(* restore.  The API socket has the same path for every restore of the     *)
(* same snapshot: each removes it, whoever made it, and uses the one that  *)
(* appears next.                                                           *)
(***************************************************************************)
RestoreStart(i) ==
  /\ pc[i] = "restore"
  /\ meta \in jail
  /\ use' = [use EXCEPT ![i] = meta]
  /\ sock' = [sock EXCEPT ![meta] = Nobody]
  /\ vm' = [vm EXCEPT ![i] = [Off EXCEPT !.st = "fc"]]
  /\ pc' = [pc EXCEPT ![i] = "load"]
  /\ UNCHANGED <<disk, deployed, ops, snapshots, inbox, reply, kept, runs, since, crashes>>

(* firecracker binds its API socket, or exits because the path is taken. *)
FcListens(i) ==
  /\ vm[i].st = "fc"
  /\ IF sock[use[i]] = Nobody
       THEN /\ sock' = [sock EXCEPT ![use[i]] = i]
            /\ vm' = [vm EXCEPT ![i].st = "api"]
       ELSE /\ vm' = [vm EXCEPT ![i] = Off]
            /\ UNCHANGED sock
  /\ UNCHANGED <<disk, deployed, ops, snapshots, inbox, host, runs, crashes>>

Listening(c) == {p \in Inv : vm[p].st \in {"boot", "up", "paused"} /\ vm[p].uds = c}

(* waitForFile and fcAPI: some process has made the socket, and it is still *)
(* there to answer.                                                        *)
SocketThere(i) == sock[use[i]] # Nobody
Serves(p, st) == vm[p].st = st

(* The snapshot is loaded into whichever process serves the socket; a      *)
(* process loads once, and only when its vsock path is free.               *)
RestoreLoad(i) ==
  /\ pc[i] = "load"
  /\ LET p == sock[use[i]]
     IN /\ SocketThere(i)
        /\ Serves(p, "api")
        /\ image.by # Nobody
        /\ Listening(image.by) = {}
        /\ vm' = [vm EXCEPT ![p] =
                     [st |-> "up", code |-> image.code, uds |-> image.by]]
  /\ pc' = [pc EXCEPT ![i] = "rdial"]
  /\ UNCHANGED <<disk, deployed, ops, snapshots, sock, inbox, use, reply, kept, runs, since,
                 crashes>>

(* dialAgent connects on the vsock path of the chroot, and the request is  *)
(* written.                                                                *)
Dial(i, next) ==
  /\ \E p \in Listening(use[i]) :
       /\ vm[p].st = "up"
       /\ inbox' = [inbox EXCEPT ![p] = @ \cup {i}]
  /\ pc' = [pc EXCEPT ![i] = next]
  /\ UNCHANGED <<disk, deployed, ops, snapshots, sock, vm, use, reply, kept, runs, since,
                 crashes>>

RestoreDial(i) == pc[i] = "rdial" /\ Dial(i, "rconn")

(* The deferred function: the process is terminated, if need be killed. *)
Kill(i) ==
  /\ vm' = [vm EXCEPT ![i] = Off]
  /\ inbox' = [inbox EXCEPT ![i] = {}]

(* Invoke returns, and its local variables are gone. *)
Over(i) ==
  /\ pc' = [pc EXCEPT ![i] = "done"]
  /\ use' = [use EXCEPT ![i] = Nobody]
  /\ reply' = [reply EXCEPT ![i] = None]
  /\ since' = [since EXCEPT ![i] = 0]

(* Bug: the function returns the response and forgets the process. *)
RestoreAnswerLeaves(i) ==
  /\ pc[i] = "rconn" /\ reply[i] # None
  /\ Over(i)
  /\ UNCHANGED <<disk, deployed, ops, snapshots, sock, vm, inbox, kept, runs, crashes>>

RestoreAnswer(i) ==
  /\ pc[i] = "rconn" /\ reply[i] # None
  /\ Kill(i) /\ Over(i)
  /\ UNCHANGED <<disk, deployed, ops, snapshots, sock, kept, runs, crashes>>

(* Bug: a failed restore is tried again. *)
RestoreFailsRetries(i) ==
  /\ pc[i] \in {"restore", "load", "rdial", "rconn"}
  /\ Kill(i)
  /\ pc' = [pc EXCEPT ![i] = "restore"]
  /\ reply' = [reply EXCEPT ![i] = None] /\ use' = [use EXCEPT ![i] = Nobody]
  /\ UNCHANGED <<disk, deployed, ops, snapshots, sock, kept, runs, since, crashes>>

(* Any error, and every deadline, makes Invoke fall through to a cold      *)
(* boot.                                                                   *)
RestoreFails(i) ==
  /\ pc[i] \in {"restore", "load", "rdial", "rconn"}
  /\ Kill(i)
  /\ pc' = [pc EXCEPT ![i] = "cold"]
  /\ reply' = [reply EXCEPT ![i] = None]
  /\ use' = [use EXCEPT ![i] = Nobody] /\ since' = [since EXCEPT ![i] = 0]
  /\ UNCHANGED <<disk, deployed, ops, snapshots, sock, kept, runs, crashes>>

-----------------------------------------------------------------------------
(***************************************************************************)
(* The cold boot: the chroot, the code drive, and the process.             *)
(***************************************************************************)
CodeDrive == code   \* the bytes of code.tar as they are read, cut short or not

(* Bug: the chroot of the snapshot is used again. *)
StageReuses(i) ==
  /\ pc[i] = "cold"
  /\ LET c == IF meta \in jail THEN meta ELSE i
     IN /\ jail' = jail \cup {c}
        /\ vm' = [vm EXCEPT ![i] = [st |-> "boot", code |-> CodeDrive, uds |-> c]]
        /\ use' = [use EXCEPT ![i] = c]
  /\ pc' = [pc EXCEPT ![i] = "dial"]
  /\ UNCHANGED <<code, image, meta, deployed, ops, snapshots, sock, inbox, reply, kept, runs,
                 since, crashes>>

Stage(i) ==
  /\ pc[i] = "cold"
  /\ jail' = jail \cup {i}
  /\ vm' = [vm EXCEPT ![i] = [st |-> "boot", code |-> CodeDrive, uds |-> i]]
  /\ use' = [use EXCEPT ![i] = i]
  /\ pc' = [pc EXCEPT ![i] = "dial"]
  /\ UNCHANGED <<code, image, meta, deployed, ops, snapshots, sock, inbox, reply, kept, runs,
                 since, crashes>>

(* Staging or starting fails: the chroot is removed again. *)
StageFails(i) ==
  /\ pc[i] = "cold"
  /\ Over(i)
  /\ UNCHANGED <<disk, deployed, ops, snapshots, sock, vm, inbox, kept, runs, crashes>>

(***************************************************************************)
(* The agent's main.  A drive it cannot extract is an empty manifest, but  *)
(* one that is cut between two entries of the archive reads as complete,   *)
(* and what was extracted before an error stays in /srv, where the default *)
(* entrypoint is looked for: a torn drive is any part of the code, which   *)
(* the agent may find something to run in or not.                          *)
(***************************************************************************)
AgentBoots(i) ==
  /\ vm[i].st = "boot"
  /\ vm' = [vm EXCEPT ![i].st = "up"]
  /\ UNCHANGED <<disk, deployed, ops, snapshots, sock, inbox, host, runs, crashes>>

ColdDial(i) == pc[i] = "dial" /\ Dial(i, "conn")

(***************************************************************************)
(* handleConn: one request per connection.  The answer reaches the host    *)
(* while the connection is open; an agent may still read a request whose   *)
(* sender has given up.                                                    *)
(***************************************************************************)
Received(i, p) == vm[p].st = "up" /\ i \in inbox[p]

Open(i, p) == pc[i] \in {"rconn", "conn"} /\ vm[p].uds = use[i]

Answer(i, p, r) ==
  /\ inbox' = [inbox EXCEPT ![p] = @ \ {i}]
  /\ reply' = IF Open(i, p) THEN [reply EXCEPT ![i] = r] ELSE reply
  /\ UNCHANGED <<disk, deployed, ops, snapshots, sock, pc, use, kept, since, crashes>>

(* writeErr: the frame is bad, there is no entrypoint, or no child. *)
AgentRefuses(i, p) ==
  /\ Received(i, p)
  /\ Answer(i, p, 0)
  /\ UNCHANGED <<vm, runs>>

(* Responses are told apart by the version of the code that made them. *)
Output(p) == IF vm[p].code \in Codes THEN vm[p].code ELSE 0

(* serveStdio runs the entrypoint once.  serveHTTP passes the request to   *)
(* the child, up to 30 times until it gets an answer, so that one guest    *)
(* may run the handler again and again and still report an error.          *)
Serve(i, p) ==
  /\ Received(i, p)
  /\ vm[p].code # 0
  /\ runs' = [runs EXCEPT ![i] = @ + 1]
  /\ \E r \in {Output(p), 0} : Answer(i, p, r)
  /\ UNCHANGED vm

-----------------------------------------------------------------------------
(* The response is in; a snapshot is taken unless the jailer has one. *)
ColdAnswer(i) ==
  /\ pc[i] = "conn" /\ reply[i] # None
  /\ pc' = [pc EXCEPT ![i] = IF lookupSnapshot THEN "finish" ELSE "snap"]
  /\ UNCHANGED <<disk, deployed, ops, snapshots, sock, vm, inbox, use, reply, kept, runs,
                 since, crashes>>

(* snapshot: pause, create, name the chroot, publish.  A failed create or  *)
(* write may leave the file unusable; the chroot is not kept then.         *)
CreateSnapshot(i) ==
  /\ pc[i] = "snap" /\ Serves(i, "up")
  /\ vm' = [vm EXCEPT ![i].st = "paused"]
  /\ image' = [by |-> i, code |-> vm[i].code]
  /\ pc' = [pc EXCEPT ![i] = "meta"]
  /\ UNCHANGED <<code, meta, jail, deployed, ops, snapshots, sock, inbox, use, reply, kept,
                 runs, since, crashes>>

WriteMeta(i) ==
  /\ pc[i] = "meta"
  /\ meta' = i
  /\ pc' = [pc EXCEPT ![i] = "publish"]
  /\ UNCHANGED <<code, image, jail, deployed, ops, snapshots, sock, vm, inbox, use, reply,
                 kept, runs, since, crashes>>

SnapshotFails(i) ==
  /\ \/ pc[i] = "snap" /\ image' \in {image, NoImage} /\ UNCHANGED meta
     \/ pc[i] = "meta" /\ meta' \in {meta, Nobody} /\ UNCHANGED image
  /\ pc' = [pc EXCEPT ![i] = "finish"]
  /\ UNCHANGED <<code, jail, deployed, ops, snapshots, sock, vm, inbox, use, reply, kept,
                 runs, since, crashes>>

(* Bug: keepChroot is not set. *)
PublishOnly(i) ==
  /\ pc[i] = "publish"
  /\ snapshots' = snapshots \cup {SnapDir}
  /\ pc' = [pc EXCEPT ![i] = "finish"]
  /\ UNCHANGED <<disk, deployed, ops, sock, vm, inbox, use, reply, kept, runs, since,
                 crashes>>

Publish(i) ==
  /\ pc[i] = "publish"
  /\ snapshots' = snapshots \cup {SnapDir}
  /\ kept' = kept \cup {i}
  /\ pc' = [pc EXCEPT ![i] = "finish"]
  /\ UNCHANGED <<disk, deployed, ops, sock, vm, inbox, use, reply, runs, since, crashes>>

(* The deferred functions of Invoke. *)
Return(i) ==
  /\ Kill(i) /\ Over(i)
  /\ jail' = IF i \in kept THEN jail ELSE jail \ {i}
  /\ UNCHANGED <<code, image, meta, deployed, ops, snapshots, sock, kept, runs, crashes>>

Finish(i) == pc[i] = "finish" /\ Return(i)

(* No agent in time, or no answer from it before the deadline. *)
ColdFails(i) == pc[i] \in {"dial", "conn"} /\ Return(i)

-----------------------------------------------------------------------------
(***************************************************************************)
(* The server dies and starts again; the processes, the chroots and the    *)
(* files stay.                                                             *)
(***************************************************************************)
HasState(e) == e = SnapDir /\ image.by # Nobody

Crash ==
  /\ crashes < MaxCrashes
  /\ crashes' = crashes + 1
  /\ snapshots' = {e \in Entries : HasState(e)}
  /\ writing' = {} /\ removing' = "none"
  /\ pc' = [i \in Inv |-> IF pc[i] \in InFlight THEN "lost" ELSE pc[i]]
  /\ reply' = [i \in Inv |-> None] /\ since' = [i \in Inv |-> 0]
  /\ UNCHANGED <<disk, deployed, sock, vm, inbox, use, kept, runs>>

RestoreStep(i) == RestoreStart(i) \/ RestoreLoad(i) \/ RestoreDial(i)
                    \/ RestoreAnswer(i) \/ RestoreFails(i)
ColdStep(i) == Stage(i) \/ StageFails(i) \/ ColdDial(i) \/ ColdAnswer(i)
                 \/ ColdFails(i)
SnapshotStep(i) == CreateSnapshot(i) \/ WriteMeta(i) \/ SnapshotFails(i)
                     \/ Publish(i) \/ Finish(i)
HostStep(i) == RestoreStep(i) \/ ColdStep(i) \/ SnapshotStep(i)

GuestStep(i, p) == AgentRefuses(i, p) \/ Serve(i, p)

Next ==
  \/ DeployTruncate \/ (\E v \in writing : DeployWrite(v))
  \/ RemoveSnapshot \/ RemoveCode
  \/ \E i \in Inv : Begin(i) \/ Rejected(i) \/ HostStep(i) \/ FcListens(i)
                      \/ AgentBoots(i)
  \/ \E i, p \in Inv : GuestStep(i, p)
  \/ Crash

Spec == Init /\ [][Next]_vars

-----------------------------------------------------------------------------
(* A meta.json that can be read names a chroot that is on disk: restore    *)
(* finds the sockets' directory its snapshot was taken with, whichever     *)
(* invocations took snapshots at once, failed half way or were cut off by  *)
(* a crash (jailer.go, keepChroot and snapshot).                           *)
ServableSnapshot == meta # Nobody => meta \in jail

(* An invocation that has returned has left no process behind, and a       *)
(* chroot only if it published the snapshot that needs it (jailer.go, the  *)
(* deferred functions of Invoke and restore on every return path).         *)
NothingLeft ==
  \A i \in Inv : pc[i] = "done" => /\ vm[i].st = "off"
                                   /\ i \in jail => i \in kept

(* A request reaches user code in at most two guests, a restored one and a *)
(* cold one, although an agent may read a request late and other restores  *)
(* take the API socket away (jailer.go:146-152, the fall-through of        *)
(* Invoke).  How often a guest's agent then calls the handler is another   *)
(* matter (agent/main.go:412-420).                                         *)
TwoGuestsAtMost == \A i \in Inv : runs[i] <= 2

(* A cold boot is answered by the guest booted for it: nobody else listens *)
(* on its vsock path while it dials, waits and takes its snapshot, however *)
(* many restores, failures and crashes there are (jailer.go:222-293).      *)
ColdGuestIsOwn ==
  \A i \in Inv : pc[i] \in {"dial", "conn", "snap"} => Listening(use[i]) = {i}

(* The answer an invocation has got is of the code that was deployed when  *)
(* it was called, or of newer code (docs/functions.md:125; jailer.go,      *)
(* lookupSnapshot and Deploy).                                             *)
RunsDeployedCode == \A i \in Inv : reply[i] > 0 => reply[i] >= since[i]
=============================================================================
