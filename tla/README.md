# A TLA+ model of selfcloud

selfcloud turns one or more Linux machines into a small cloud: containers on
containerd, functions on a WebAssembly or Firecracker runtime, an S3 store,
events with rules and webhooks, and a replicated control plane. This directory
holds TLA+ modules of its control plane, TLC configurations that check them on
small instances, and TLAPS proofs of what holds for every instance.
`PROJECT.json` lists components, runs, the line map from definitions to source,
mutants, findings, hazards and theorems in machine-readable form.

## 1. Inventory

| Component (source) | State | Operations | Modelled in |
|---|---|---|---|
| Container lifecycle (`internal/runtime/container`, `internal/api/handlers.go`, `event_adapters.go`) | container records, containerd containers and tasks, the reconciler's memory and timers | put, start, stop, restart, delete; reconcile on event and on tick | `Containers` |
| Store (`internal/store/store.go`, `types.go`) | BoltDB buckets, subscriptions of 64 events | whole-record put, get, list, delete; emit | each module, for its records |
| Replication (`internal/store/{raft,fsm,snapshot,replicated_store}.go`) | Raft log, applied index, snapshots, one BoltDB per node | local or logged write, apply, snapshot, restore, join | `Replication` |
| Cluster record (`internal/cluster`, `internal/auth`, `internal/api/{join,cluster,server,handlers}.go`) | one record: join tokens, bootstrap token, mode, S3 key | issue, consume, join, wizard, mode, s3Client | `ClusterConfig` |
| Function builds and deployment (`internal/runtime/functions/builder`, `internal/runtime/wasm`, `internal/api/{handlers,builds,webhooks}.go`) | function record, builds, blob store, served code, one build slot | trigger, build, upload, edit, delete, rehydrate | `FunctionBuilds` |
| Events (`internal/events/{bus,dispatcher}.go`, `internal/api/events.go`) | queue of 1024, log per project, rules, deliveries, live tails | emit, fan out, match, deliver, invoke, trim, tail | `Events` |
| Log scanner (`internal/events/logscan`) | followers per container, compiled regexes | reconcile followers, follow, match | `LogScan` |
| Wasm warm pool and invocation (`internal/runtime/wasm/{pool,wazero,rehydrate}.go`, `internal/api/triggers.go`) | permits, compiled modules, the function's record | deploy, invoke, remove, rehydrate | `WarmPool`, `Serving`; what it promises: `FunctionService` |
| Cron (`internal/runtime/wasm/cron.go`) | cron entries by function, a subscription | sync on store events | `Cron` |
| Firecracker runtime (`internal/runtime/firecracker`: jailer, in-guest agent, frames) | code, chroots, snapshot files, the map of known snapshots, VM processes, their sockets | deploy, remove, invoke from the snapshot or cold, snapshot; boot and serve in the guest | `MicroVM` |
| Build log stream (`builder/{queue,runner}.go`, `internal/api/builds.go`) | buffer, file and subscribers per build | write, subscribe, replay, close, watch | `BuildLogs` |
| Garage (`internal/storage/garage`, `internal/api/handlers.go`) | child process, buckets, keys, permissions and their records | start, stop, create, allow, delete | `Garage`, `Buckets`; `s3Client` in `ClusterConfig` |
| Event log keys (`internal/store/store.go:788-862`) | events in the order of their keys | append, list, trim | `EventLog` |
| Auth (`internal/auth`) | users, API tokens, sessions | create, login, resolve, revoke | `Auth`; the wizard in `ClusterConfig` |
| Scheduler (`internal/scheduler`) | none | place on the least loaded node | a choice in `Containers`, pure module planned |
| Secrets, network, installer, config, web dashboard | - | - | not modelled, see section 8 |

How they interact. An API request, the rule dispatcher and the reconciler all
change the same container records; the store tells subscribers after each write
through a channel that drops when full. The API writes through
`ReplicatedStore`, which goes to the Raft log when there is more than one voter;
the reconciler, the builder and the dispatcher hold the bare `Store` and write
locally. Every part emits into the event bus, whose dispatcher invokes functions
and container operations, which emit again.

What is hard here. Nothing in the store is conditional: every actor reads a
record, works (for minutes when it pulls an image or builds code) and writes the
whole record back. So the interesting failures are lost updates: a record
overwritten with an older copy, by a goroutine nobody remembers. Next to that:
crashes between a side effect and its record, replay of a log over a newer
database, channels at their limit, a listing followed by a subscription, and
retries that meet a late answer. The `hazards` of `PROJECT.json` name each at
its line.

What makes each part correct. *Containers*: the node runs what users asked for,
the records say what runs, and everything settles. *Replication*: nodes that
have applied the log agree with it. *Cluster record*: tokens are spent once (they are
not, see section 3), the wizard leaves a complete setup. *Functions*: the record names code that is
stored; newer commits win; builds finish. *Firecracker*: an invocation runs the
deployed code, talks to its own guest, leaves nothing behind but a usable snapshot, and
is not restored and booted over and over. *Events*: logged before seen, kept
within bounds, delivered to an end, counted at most once; listed and trimmed by age.
*Wasm serving*: a call is answered by code that was deployed while it ran, or fails,
and gives its permit back. *Cron*: entries follow the record. *Build logs*: a watcher
sees the lines without a gap it is not told of, and ends. *Log scanner*: one follower
per running container. *Garage*: the child stays within reach and can be stopped, projects
do not get at each other's buckets. *Auth*: a token is good until its end or its revocation, and not after.

## 2. Modules

Each component module declares CONSTANTS with named assumptions, one action per
handler step, a type invariant, and its properties. Definitions whose comment
begins "Bug:" are mutants: the neighbouring definition with one plausible mistake,
used only to show that a property can fail. An operation that spans several store
accesses or external commands is one action per access, because other goroutines
run in between; what runs in one go is one action. Failing calls and crashes are
alternatives of the actions, drawn from the bound `MaxFaults`. A history variable
(marked so where it is declared) records what a property needs to know of the past.

* **`Containers`** - one node. `TaskID` is what `ctrTaskID` makes of the keys: it joins
  project and name by "-", so any map from keys to ids is possible, and a behaviour has one
  of `IdMaps`. `db` is the bucket, `subq` the reconciler's
  subscription, `ctrd` containerd by id, `rstate` the reconciler's per-container
  memory, `work` the listing a pass walks through, `pc/op/name/cp` the position,
  request, container and record copy of every goroutine. Handlers: `HandlePut`
  (one store write of the body as it is, with the status and the generation it came with:
  `Bodies` are specs written by hand and records read before and edited), `HandleGet` then `HandleKill`, `HandlePutStopped`,
  `HandleReget`, `StartList/StartPull/StartRun` (the three ctr commands of
  `Start`), `HandleStarted`, `HandleRmTask`, `HandleRmCtr`, `HandleDbDel`. The
  reconciler: `Bootstrap`, `NextWork`, `Subscribe`, `RecvEvent`, then one of
  `DecideSkip`, `DecideExited`, `DecideStart`, the same Start commands, and
  `RecStarted` or `RecFailed`. A failed pull or run, a task that exits, and a
  crash that forgets everything but `db` and `ctrd` are faults. `BackoffElapses`
  and `AliveCheckExpires` are the two clocks.
* **`Replication`** - any number of nodes. hashicorp/raft is external and given by
  what it guarantees: one committed log, a leader that has it, in-order
  application, and after a restart the last snapshot restored and the rest applied
  again. From the code: which writes reach the log (`ApplyTyped`), which do not
  (`FastPathDecide/FastPathWrite` with one voter, on any node, `InternalWrite`), what an entry
  does to BoltDB (`FSMApply`, its error on deleting nothing included), what a
  snapshot holds and replaces, and joins.
* **`ClusterConfig`** - the record and the requests that read and write it. Each
  read and each write is a step; `mu` and `s3Mu` are held where the code holds
  them, and nowhere else. `overwrote` is a history variable: which kinds of writers
  replaced a record that had changed since they read it, `Issue` and `Consume`
  ("manager"), which hold `Manager.mu`, or any other request ("other").
* **`FunctionBuilds`** - one function: `fn` its record, `blobs` the blob store with
  half-written files, `served` the runtime's code, `queued` the build slot. A build
  is `TriggerBuild`, `RunStart`, `Acquire`, `Clone`, `Sandbox`, `BlobStat`, `BlobOpen`
  (the file is truncated, also one that another writer has filled since),
  `BlobWrite`, `Deploy`, `SaveFunction`, `Succeed` or `FailBuild`, `Cleanup`,
  `Release`; create, edit, upload and delete requests interleave, each numbered in order of
  arrival. A body may name any source ref of `Sent`, which is stored unchecked (`named` notes
  those without a file); `Die` restarts with `Rehydrated`.
* **`Events`** - the bus: `Emit` (takes the timestamp), `Enqueue` (may drop), `Take`
  (logs), `FanOut`; the dispatcher goroutine of each event: `ListRules`,
  `HandleRule` for each rule of its copy; a goroutine per action: `Deliver` for each
  attempt, `Exhausted`, `Invoke` (which may emit); the trimmer: `TrimTick`,
  `TrimCount`, `TrimDelete`; the live tail; project deletion; edits of rules, from a copy
  a client read before (`GetRule`, `ToggleRule`). An event's number is its place in the order
  of keys and says nothing of when it came: `Stamp` takes any. How keys and times are
  related is the subject of `EventLog`.
* **`MicroVM`** - the Firecracker runtime of one function. `snapshots` is the jailer's
  map, `image` and `meta` the files of the snapshot, `jail` the chroots, `sock` the
  API socket all restores of a snapshot share, `vm` the processes, `inbox` what their
  agents have not read. An invocation is `Begin`, then `RestoreStart`, `RestoreLoad`,
  `RestoreDial`, `RestoreAnswer` or, at any of them, `RestoreFails`; cold, `Stage`,
  `ColdDial`, `ColdAnswer`, then `CreateSnapshot`, `WriteMeta`, `Publish`, `Finish`. The
  guest is `AgentBoots`, `Serve`, `AgentRefuses`; it may read a request whose sender has
  given up. A code drive that was cut short (`Torn`) is any part of some code: the agent may
  find nothing in it, or something to run. `Serve` is one guest at work on a request, however
  often its agent calls the http child (up to 30 times), and it may end in an error
  all the same. firecracker itself is external: it binds its socket if the path is free,
  loads one snapshot, and needs the vsock path of the snapshot for itself. Deploy and
  Remove are two steps each, any number of them at once; a restart of the server leaves
  processes and files alone.
* **`WarmPool`** - the wasm runtime of one function: `hot` and `permits` are the pool's
  entry and its permit channels (one per deployment, `closed` when replaced), `funcs` and
  `gone` the compiled modules. A call is `InvokeBegin`, `PoolLookup`, `Acquire` (or
  `Cancelled`, or a panic on a closed channel), `WazeroLookup`, `Instantiate`, `Finish`;
  between any two of them a `DeployCompiled`, `DeploySwap`, `RemoveHot` or `RemoveInner`
  may replace what the call has looked up.
* **`Serving`** extends it with what surrounds it: the record, of which only matters whether it
  has a source ref (a PUT stores the body's), uploads, PUTs and deletions,
  HTTP requests, rules and cron as callers, the panic that `Server.recoverer` catches for
  one of them and nobody for the others, crashes, and the start with `Rehydrate`, which skips
  a blob it cannot read.
* **`FunctionService`** - the promise to callers, with one version installed and calls that
  are pending, bound to a version, answered or failed. `Serving` implements it:
  `code` is `funcs`, a call is pending until `WazeroLookup`, bound from there on to the
  module it holds, and answered with it. So a call never runs code that was replaced
  before it began, however long it queued.
* **`Cron`** - the record of one function, the events of its writes (numbered, emitted in any
  order, lost when the channel is full) and the scheduler: `CronStart` (list),
  `CronSubscribe`, `CronPut` (read again) and `CronSync`, `CronDelete`. `live` are the
  entries of the cron library, `entry` the one id the scheduler remembers.
* **`BuildLogs`** - one build's stream: `OpenStream`, lines into file, buffer and channels,
  the result, `UnlistStream`, `CloseStream`; watchers with `StreamLogs`, the goroutine that
  replays the file of a finished build, the handler and its ticker.
* **`LogScan`** - containers whose records and tasks change independently, the ticks of the
  scanner (list, cancel, start), and the followers from `Attach` to `Ends`.
* **`Garage`** - the supervisor: `Start`, the goroutine that waits for the child (`Reap`),
  `Stop` in three steps. `field` is the child the three fields of `Supervisor` belong to.
* **`Buckets`** - projects that use one bucket name, Garage's buckets, keys and permissions,
  the records, and the requests with one step per call; every call can fail, and
  the handlers go on. When Garage made no bucket, the record gets the garageId of the body,
  which may be any; `named` notes the ids a project's clients have sent.
* **`EventLog`** - the log in the order of its keys. `Key` is what `RFC3339Nano` prints, as
  bytes; `AppendEvent` in any order, `ListEvents`, `TrimEvents` in its two transactions.
* **`Auth`** - users, tokens by name, the clock; `Login` in three steps, creation, revocation,
  `ResolveToken`.
* **`MCBackground`** runs `Cron`, `BuildLogs`, `LogScan`, `Garage`, `Buckets`, `EventLog` and
  `Auth` side by side, **`MCControlPlane`** `Replication`, `ClusterConfig` and `FunctionBuilds`.
  They have no state in common, so a behaviour of such a run is a behaviour of one of its
  parts, and the run's states are the sum of theirs. Nothing is lost:
  each part has all of its own behaviours (`Replication` stops once every key has been
  written outside the log, as nothing is claimed of such keys).
* **`MC...`** give the constants that need a definition. **`...Proofs`** hold the
  theorems.

Apart from `Serving`, which extends `WarmPool`, the modules do not share variables: each models the whole of the records it is
about, and other parts as inputs (a container action of a rule is one of the
requests of `Containers`; an invocation is an event of `Events`; a phase of `LogScan`
is whatever `Containers` may write).

Data is abstracted to what the properties tell apart: images, commits, keys and
events are model values or numbers, a JSON record is its value, a rule's type list and subject are the set of event
kinds they accept.

## 3. Runs

| Run | Result | What it asks |
|---|---|---|
| `containers` | holds | two containers with an id each or one between them, a handler, the reconciler, a fault: `Provenance` (what runs under an id was put under a key of that id), `StopHasAReason` (no stale copy makes a restartable container Stopped unless a user asked for a stop or restart or sent a body that says Stopped), `EventuallyQuiet` (the reconciler does not wake itself for ever), `EventuallySettled` (every record of this node ends Running or Stopped in spite of dropped events and backoffs), `NeverPolicyHonest` (a container that is not to be restarted does not say Running when its task is gone) |
| `control_plane` | holds | *replication*, two nodes, a restart, snapshots, a write outside the log: `CaughtUpFaithful`, `EventuallyConverged` for keys only the log writes; *cluster record*, three requests, two at a time, a fault: `ConfigTypeOK` (with the exclusion of the mutexes), `SetupComplete`, `OneJoinPerToken` (what `Manager.mu` achieves: only a writer outside it makes a token good for two joins), `ClientKeyStored` (but for a lost update), `RequestsEnd` (no mutex is kept); *builds*, two builds, two requests, two commits, a fault: `RefHasBlob` (unless a client made the ref up), `CodeNeverGoesBack`, `BuildsFinish` |
| `events` | holds | two events, a rule with a webhook or an invocation, tail, edits, a fault: `PersistFirst`, `FireCountSound`, `EndedIsSettled`, `DoneIsFinal`, `WorkedOff` (every queued event is handled, every delivery ends, an overlong log is cut) |
| `microvm` | holds | three invocations, of which two can restore the first one's snapshot at once, a deployment that may be under way, removals, a restart: `ServableSnapshot` (the chroot meta.json names is there), `NothingLeft` (no process, no other chroot after the return), `TwoGuestsAtMost` (a request reaches user code in at most two guests), `ColdGuestIsOwn` (a cold boot is answered by its own guest) |
| `serving` | holds | two calls (HTTP and background), two deployments, two edits, a fault: `PermitsConserved` (a permit channel holds a token per call inside, replaced or not), `CallsEnd`, `ImplementsService` (the refinement) |
| `background` | holds | *cron*: `CronFollows` (having received the last write's event, the entries are those of the record), `StrayEntries` (an entry out of reach comes from several triggers); *build logs*: `NoGap`, `SubscribeIsSafe` (no write to a nil map, no wait with the mutexes held), `WatchersEnd`; *log scanner*: `OneFollower`, `FollowersFollow` (let go of, or followed, or deaf); *garage*: `NoOrphan` (no child out of reach), `StopEnds` (unless the server panics, see `garage_stop`); *buckets*: `ProjectsApart` (but for ids a client has sent); *event log*: `OldestFirst` (but for a time printed as the beginning of another), `TrimKeepsLatest` (an event appended between the trimmer's count and its deletion costs none of the last keys its place); *auth*: `TokensLast` |
| `containers_stop` | violated | `StopIsTerminal`: a reconcile that read the record before a Stop writes Running after it |
| `containers_restart` | violated | `ExitedTaskRestarts`: `Start` takes an existing container for success although its task has exited |
| `cluster_single_use` | violated | `SingleUse` of join and bootstrap tokens: a PUT of the cluster mode that read the record before a join consumed its token writes the token back |
| `microvm_stale` | violated | `RunsDeployedCode`: a redeployment does not invalidate the snapshot, so the old code keeps running |
| `serving_panic` | violated | `ReplacedIsDrained`: a redeployment closes the permits a queued call is about to send on, and the send panics |
| `garage_stop` | violated | `StopIsGraceful`: a Stop clears the channel its child's goroutine is about to close, and the close panics |

The type invariant of `ClusterConfig` is checked in its run, as it says more than types (the
mutexes exclude). Those of the other modules are proved (section 6).

Several properties that hold have an exception written into them, and the case excepted is
reachable: it is what the code does, and the property says that it does nothing worse.
`CaughtUpFaithful` leaves out keys written outside the log, `ClientKeyStored` a lost update,
`RefHasBlob` a ref a client made up (and a torn file counts as a file), `FireCountSound`
bounds from above only, `CronFollows` speaks of a scheduler that got the last event,
`StrayEntries` of one trigger, `FollowersFollow` has `Deaf`, `StopEnds` the panic,
`OldestFirst` has `Shadows`, `TokensLast` the name taken by another token, `ProjectsApart`
the ids clients sent. The hazards of `PROJECT.json` repeat this in their notes.

A violated run states what a document or comment says and is the finding of the
same name in `PROJECT.json`.

Deadlock checking is on for the containers runs, where the reconciler always has
something to do. The other systems may come to rest: no more requests, writes or
emits within the bounds.

Disagreements met while modelling that the models contain but no run asks about:
two keys such as `a-b/c` and `a/b-c` share a containerd id (`ctr.go:192`), and then
what runs is the image of one of them for both; a PUT stores the body's status, so that a
record read while it was Stopped, edited and sent back stops nothing and says Stopped
(`handlers.go:323-338`); `Delete` right
after `Stop` can leave the task (`ctr.go:195-204`), and a reconcile in flight can
bring a deleted record back (`reconcile.go:321`); a PUT of another image on an
existing container is reported Running while the old image runs (`ctr.go:72-87`);
two wizard requests can both succeed (`auth.go:134`, against "atomically clears" at
`auth.go:131`: the second half of `SingleUse`, whose run shows the first); an
edit of a function made from a copy older than a build puts the older source ref
back (`handlers.go:580`), and a build's save undoes an edit made during it
(`runner.go:230`); the comment at `runner.go:154` speaks of cancelling a previous
run, which nothing does; a rule's `filter` is stored and never read
(`dispatcher.go:93-127`); a blob file torn by a crash counts as stored the next time
and the function's record then names it (`runtime.go:86-97`); an event fanned out
between the tail's backlog and its subscription is never sent (`api/events.go:156-163`);
two first invocations of a Firecracker function can leave a `state.bin` and a
`meta.json` that do not belong together, after which every invocation waits for a
restore that cannot succeed (`jailer.go:287`, `325`); a cold boot during a Deploy reads a tarball that is cut short, which
the agent takes for complete if the cut is between two entries, and runs what it finds even
if it is not (`jailer.go:116`, `agent/main.go:230-272`); one guest may call the http handler
up to 30 times for one request (`agent/main.go:414`); a restart of the server forgets all
snapshots, which it looks for one directory too high (`jailer.go:82-95`, against the
comment at `jailer.go:84`); the log of a project that was deleted is never trimmed
(`bus.go:181`); what was written before the first join, or outside the log, is not in it,
so voters can differ in it (`raft.go:31`, against `docs/architecture.md:56`;
`CaughtUpFaithful` leaves those keys out).

Met in the parts added last: of several cron triggers only the last one's entry is ever
removed, so the others fire for a deleted function (`cron.go:154`), and an event that was
lost, or overtaken by an older delete, leaves wrong entries until the next one
(`cron.go:75`); `docs/functions.md:29` gives a schedule of five fields, the scheduler
parses six (`cron.go:43`). A follower whose stream ended stays known, so a container
restarted within a tick is not followed again (`logscan.go:89`, `Deaf`); a line that
matches n rules becomes n events, each of which fires all n (`logscan.go:131`,
`dispatcher.go:113`). A watcher that comes before `openStream` is taken for one of a
finished build and gets nothing (`runner.go:110`); the goroutine that replays a file
longer than its channel stays for ever if the watcher left (`runner.go:120`). A PUT of a
function without its UID clears the source ref (`handlers.go:580`); the invocation over
HTTP puts the record's `Env` over the resolved secrets (`triggers.go:98-106`, against
`docs/secrets.md:44`); a PUT stores whatever source ref the body has (`handlers.go:553-608`); a guest that times out answers 500 and is no error
(`wazero.go`, against `docs/events.md:33`). `Supervisor.Stop` clears `done` before the
child's goroutine closes it, which is the run `garage_stop`; its comment promises SIGTERM, a cancelled
`CommandContext` kills (`supervisor.go:150`); `Start` does nothing after the child died
(`supervisor.go:110`). A PUT of a bucket that Garage
refuses stores the garageId of the body unchecked, which can be another project's, and without
one a second PUT loses the id, after which a
deletion leaves Garage's bucket and new keys get no permission (`handlers.go:428`); a
failed deletion at Garage is ignored, so a deleted access key may go on working
(`handlers.go:535`). Two logins in one second leave one session (`auth.go:217`), a token
created with a name in use, be it that of a session, replaces the other, and one with a negative lifetime never
ends (`auth.go:183`). Within a second, an event whose time is printed shorter comes after
those it is a prefix of (`store.go:802`, against the comment at `store.go:788`).

## 4. Bounds

`MaxOps`, `MaxReqs`, `MaxRequests`, `MaxObjReqs`, `MaxEmits`, `MaxLog`, `MaxLocal`, `MaxBuilds`, `MaxCommits` bound
how much is asked of the system, `MaxDeploys` the versions of a
function's code, `MaxFaults`, `MaxErrors`, `MaxRestarts` and `MaxCrashes` how much goes wrong;
nothing else is cut (`MaxFollowers` and `MaxEntries` are never reached). Capacities are smaller than in the code: `SubCap` 1 for 64,
`QueueCap` 1 for 1024, `ChanCap` 1 for 64, `CronCap` 2 for 64, `BufCap` and `ChanCap` of a build's log 1 for 256,
`Concurrency` 1 for 32, `Places` 2 for the 9 digits of a nanosecond, `Keep` (`KeepLog`) and `Backlog` 1 for 10000 and 50,
`Attempts` 2 for 5, `GenMod` 8 for 2^64 (never reached). A full channel, an overlong
log and a last attempt are then reached with two or three events, and the code
treats all other fill levels alike.

Why they are enough: a lost update needs two actors and one record; a stale listing
needs two containers; a replay over a newer database needs two entries for one key, a
restart (and, for a snapshot of a half-replayed database, a node that installs it); a token spent
twice needs an issue, two consumes and one writer (four requests in the violated run, three in
the one that holds, where a mutant without the mutex needs no writer); builds out of order need two
builds and two commits; two restores at once need a third invocation that left the
snapshot (the three are symmetric, and the run uses that); an append between the trimmer's count and its deletion needs three
events and `KeepLog` 1;
a call replaced under its feet needs a second deployment, and a queue for permits a second
call; an event that overtakes another needs two writes and a reader that missed one a
third; a stream whose line does not fit needs two lines; a channel closed by the wrong
goroutine needs two children; a bucket name contested between projects two of them and
two buckets; a key that is the beginning of another two digits.
`Replication` runs with one key: what it claims it claims of each key, and entries of other
keys are no-ops on it. `MicroVM.cfg` deploys once and `MicroVMStale.cfg` twice, so redeployment
is only in the violated run. The bodies of `MCContainers` are one of each kind: fresh or read
back, restarting or not, here, elsewhere or to be placed.
The proofs of section 6 then cover all sizes for every safety property of a run that
holds, action properties and the refinement included.

## 5. Fairness

Weak fairness stands for the Go scheduler: a goroutine that can run does. It is
given to the reconciler, accepted requests, builds, the bus, dispatcher goroutines,
deliveries and the trimmer, to the two timers of the reconciler, to the steps of a call
(a guest has a deadline) and the end of a process that panics, to a watcher's handler and
its ticker, to the log scanner and its followers, to `Stop` with its timer and to the kill
by a cancelled context. Strong
fairness is used three times: for `RecvEvent` and `Bootstrap`, because Go's `select`
picks at random among ready cases, so neither the tick nor the event channel is
passed over for ever; and for `Acquire`, because a sender blocked on a channel is
queued and gets the slot in turn. Raft gets weak fairness for replication,
application and elections. Users, faults, workloads that exit, pushes, snapshots,
restarts, joins, the closing of a tail, clients that give up or leave, lines and the end of
a build get none. `MCControlPlane`, `MCBackground` (for Garage) and `Serving` ask for less: one
condition for all goroutines of the part, that it does not stop while any of them can go on.
That is enough there because what each does within the bounds ends, and it is
weaker than what the scheduler gives. A clone and a sandbox are assumed to end, although
`runner.go` gives them no deadline.

## 6. Proofs

All for arbitrary constants, under the assumptions named in each module.

* **`ContainersProofs`**: `TypeCorrect`, `StopHasAReasonHolds`, `ProvenanceHolds`, for any map
  of keys to ids and any bodies. The properties speak of records but actors write back copies, so the
  inductive invariant says that every copy - in a bootstrap listing, in a handler, in
  the reconciler - is `Legit` for the key it will be written under, that
  whoever is busy holds a copy, and that a handler about to write Stopped was asked to.
* **`ReplicationProofs`**: `ReplicationTypes`, `CaughtUpFaithfulHolds`. "BoltDB is the
  state at the applied index" is false after a restart. `ReplayInv` instead says of
  every database and every snapshot that a key either has its value at the index or
  will be written again by an entry behind it (`Heals`); at the end of the log nothing
  is left to be written, which is the theorem.
* **`ClusterConfigProofs`**: `ClusterTypes`, `SetupCompleteHolds`, `OneJoinPerTokenHolds`,
  `ClientKeyStoredHolds`. `SetupInv` is the wizard's order, `CopyInv` what a request
  between read and write knows of its copy. `JoinInv` is the mutex at work: as long as nobody
  outside it wrote a stale record back, a token joined with is used on record (`Spent`) and
  whoever holds the mutex has the record's tokens in hand (`Fresh`).
* **`FunctionsProofs`**: `FunctionTypes`, `RefHasBlobHolds`, `CodeNeverGoesBackHolds`.
  `BlobInv` extends the property, with its exception, to every copy that may still be written
  back and every code about to be saved; `SlotInv` says that the slot excludes and that a build past its
  clone holds a commit no older than the last one deployed.
* **`MicroVMProofs`**: `MicroVMTypes`, `ServableSnapshotHolds`, `NothingLeftHolds`,
  `TwoGuestsAtMostHolds`, `ColdGuestIsOwnHolds`. `Guests` says that a vsock path is in another process's hands only
  once its invocation's snapshot is taken, so a cold boot talks to its own guest; `Files`
  ties processes and chroots to where the invocation is; `Runs` counts the runs together
  with the requests agents still hold, of which at most one is not the invocation's own.
* **`EventsProofs`**: `EventsTyped`, `FireCountSoundHolds`, `PersistFirstHolds`,
  `EndedIsSettledHolds`, `DoneIsFinalHolds`. `CopyInv` extends the
  bound on a rule's counter to the copies dispatcher goroutines will write back, as a
  counter alone could be raised by any of them; `CurInv` says that the event the bus has in
  hand has been offered to the log. That a settled delivery is never touched again rests on
  more than the delivery: `PipeInv` says that an event is in one place of the bus at a time
  and has not been handled before, and `OnceInv` that a rule passed by the dispatcher's
  goroutine of an event is not met again, also not after a crash; so no second delivery
  of the same event can begin over the records of the first, and `SettledInv` closes it.
  `OutcomesAssumption` says that the absence of a record is not an outcome.
* **`ServingProofs`**: `ServingTyped`, `PermitsConservedHolds`, `ImplementsServiceHolds`.
  `FreshInv`: a deployment under way owns a module and a channel nobody has seen, so it
  installs an empty one; `CallInv`: a waiting call has its channel, a bound one its module.
  `PermitInv` counts the holders of each channel, which stay finite because they come one
  by one; a call that leaves takes a token that is its own. The refinement maps each step of a
  call, of a deployment and of a crash to one of `FunctionService` or to a
  stutter, by the place of the call (`Stage`); `ServiceSteps` lists the abstract
  steps, `NextService` goes through the concrete ones.
* **`BackgroundProofs`**, for the components of `MCBackground`:
  `NoOrphanHolds` for `Garage` (`Stopping`: a `Stop` that waits has
  cancelled the child it took); `ProjectsApartHolds` for `Buckets`
  (`Owned`: every id in a record, in a request's hands or in a permission was made by Garage
  for the project in question or sent by one of its clients, so that what a request writes last
  is still its own);
  `OneFollowerHolds` for `LogScan` (`ScanInv` with the types and `Known`: followers are numbered in
  order, the scanner knows only followers of the container in question, and a line in hand
  is the first that can be late); `CronFollowsHolds` and
  `StrayEntriesHolds` for `Cron` (`CronInv` with the types, `EventsSound`: the event of the last write says whether
  there is a record; `Catching`: whoever has received it has it last in its channel or holds a
  copy of the record as it is; `EntriesSound`: ids are given out in order);
  `LogTyped`, `NoGapHolds` and `SubscribeIsSafeHolds` for `BuildLogs` (`BufferInv`: the buffer is
  the newest lines in order, which is what a new channel starts from; `StreamInv`: a stream
  leaves the map before it closes, and a subscriber has no replay beside it; that
  the buffer fits a channel is `BufCap <= ChanCap`, two constants of 256 in two places of the
  code); `TokensLastHolds` for `Auth` (`RecordIsNewest` and `NewestHasRecord`: the records are
  those of the newest tokens of each name that are not revoked; `SessionNames`: sessions are
  named by their second; an API token may have that name too, and then takes it); `OldestFirstHolds`
  and `TrimKeepsLatestHolds` for `EventLog`. The first needs no invariant but the log's finiteness; what it needs is the
  order of keys, for any number of digits: `PrintedDigits` (the zeros at the end and only these are cut
  off), `KeyBytes` (what stands where), `KeyLessTransitive`, and `KeyOrder`, by the
  first digit in which two times differ. The second needs that the trimmer's count, stale by the
  time it deletes, is still no more than what the log holds, and turns counts of keys into sets.

Model-checked only: every liveness property (`EventuallyQuiet`, `EventuallySettled`,
`NeverPolicyHonest`, `EventuallyConverged`, `RequestsEnd`, `BuildsFinish`, `WorkedOff`,
`CallsEnd`, `WatchersEnd`, `FollowersFollow`, `StopEnds`), since the prover has no rules
for fairness and `ENABLED`, and the properties that are violated.

## 7. Plan

1. *Abstract specifications*: a register per key that `Replication` implements for the
   keys only the log writes; an atomic token service that `ClusterConfig` implements while
   no update is lost; a delivery state machine that `Events` implements; each with its
   refinement proved.
2. *Smaller parts*: `PlaceWorkload` against a reference definition of the least loaded
   node, and Garage's layout commands with their readiness poll.

## 8. Not modelled

The web dashboard, the Terraform client and the command line are clients whose
requests are the inputs of the models (the commands under `cmd/` are not in the
repository). Installer, configuration, logging and version are file and environment
I/O. The network manager wraps nftables and CNI commands without state of its own.
Secrets are encrypted by a library call and resolved without shared state. Readiness is a
set of checks over flags and ports, and the order of start-up is under `cmd/`.
Password hashing and WebAssembly execution are library calls.
`Raft.RemoveServer` has no caller. Within modelled parts: port publication and secret
staging of a container start, and the recipe and sandbox details of a build, are part
of a step that works or fails; the http child of the Firecracker agent and the secret
files of a request are part of `Serve` and `Received`; Garage's layout commands and the
object requests that pass through to it, the statistics, the warm-up and the invocation ring of the warm pool, and which
patterns match a log line, are left out. `MicroVM` has no liveness property:
every wait of `Invoke` has a deadline, and the actions that stand for it are always
enabled. The leader redirect of `server.go` appears by its
effect: API writes reach the leader.
