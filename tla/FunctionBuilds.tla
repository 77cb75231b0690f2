----------------------------- MODULE FunctionBuilds -----------------------------
(***************************************************************************)
(* One function: its record in the store, the content-addressed blobs, the *)
(* code the runtime serves, the git builds and the API requests about it.  *)
(*                                                                         *)
(* A build works on the copy of the record Trigger was given, a request on *)
(* the copy it read, and both write whole records.  Builds of one function *)
(* take turns through a channel of capacity 1 (Builder.queue); requests do *)
(* not.  Every store access, blob access, Deploy and Remove is a step, and *)
(* the process may die between any two.                                    *)
(***************************************************************************)
EXTENDS Naturals

CONSTANTS
    NoFn,        \* no function of this name in the store
    MaxBuilds,   \* bound on builds; a build's number is its place in trigger order
    MaxCommits,  \* bound on commits pushed to the repository
    Sent,        \* source refs clients write in bodies, 0 for none
    MaxRequests, \* bound on requests, numbered after the builds in order of arrival
    MaxErrors    \* bound on failing calls and crashes

Builds == 1 .. MaxBuilds
Requests == (MaxBuilds + 1) .. (MaxBuilds + MaxRequests)
Threads == Builds \cup Requests
Codes == 0 .. (MaxCommits + 1)  \* what commit c builds to is code c; 0 is none
Uploaded == MaxCommits + 1      \* what a user uploads
Fn == [src : Codes, latest : 0 .. MaxBuilds]  \* SourceRef and LatestBuild

ASSUME FunctionsAssumption ==
    /\ MaxBuilds \in Nat /\ MaxCommits \in Nat \ {0}
    /\ MaxRequests \in Nat /\ MaxErrors \in Nat
    /\ NoFn \notin Fn /\ Sent \subseteq Codes

VARIABLES
    fn,        \* the stored Function
    blobs,     \* per code: "absent", "torn" (being or half written), "whole"
    served,    \* the code the runtime has deployed, 0 if none
    queued,    \* tokens in the function's Builder.queue channel
    status,    \* stored Build.Status, "none" before Trigger
    head,      \* the repository's latest commit
    at, have,  \* where each build or request is, and the Function a request holds
    code,      \* the code it is about to store and deploy
    checkout,  \* builds whose temporary checkout is on disk
    named,     \* history: refs clients named of no file in the store
    last,      \* history: the last commit a build deployed
    lost,      \* history: builds that a crash or a failed PutBuild hit
    errors

buildVars == <<fn, blobs, served, queued, status, head, at, have, code, checkout, named,
               last, lost, errors>>

BuildPCs == {"off", "start", "wait", "clone", "sandbox", "blob", "open", "write", "deploy",
             "save", "succeed", "fail", "cleanup", "release", "done"}
ReqPCs == {"idle", "over", "create", "edit", "put", "blob", "open", "write", "deploy", "save",
           "remove", "delete"}

\* A build between acquire and release.
Held == {"clone", "sandbox", "blob", "open", "write", "deploy", "save", "succeed", "fail",
         "cleanup", "release"}

BuildsTypeOK ==
    /\ fn \in Fn \cup {NoFn} /\ blobs \in [Codes -> {"absent", "torn", "whole"}]
    /\ served \in Codes /\ queued \in 0 .. 1
    /\ status \in [Builds -> {"none", "Pending", "Running", "Succeeded", "Failed"}]
    /\ head \in 1 .. MaxCommits
    /\ at \in [Threads -> BuildPCs \cup ReqPCs]
    /\ \A b \in Builds : at[b] \in BuildPCs
    /\ \A r \in Requests : at[r] \in ReqPCs
    /\ have \in [Requests -> Fn] /\ code \in [Threads -> Codes]
    /\ checkout \subseteq Builds /\ lost \subseteq Builds
    /\ named \subseteq Codes /\ last \in Codes
    /\ errors \in 0 .. MaxErrors

NewFn == [src |-> 0, latest |-> 0]

BuildsInit ==
    /\ fn = NoFn /\ served = 0 /\ queued = 0 /\ head = 1
    /\ blobs = [c \in Codes |-> "absent"]
    /\ status = [b \in Builds |-> "none"]
    /\ at = [t \in Threads |-> IF t \in Builds THEN "off" ELSE "idle"]
    /\ have = [r \in Requests |-> NewFn] /\ code = [t \in Threads |-> 0]
    /\ checkout = {} /\ named = {} /\ last = 0 /\ lost = {} /\ errors = 0

----------------------------------------------------------------------------
Fine == UNCHANGED errors
Err == errors < MaxErrors /\ errors' = errors + 1
Move(t, l) == at' = [at EXCEPT ![t] = l]
\* A request ends, and its locals with it.
Return(r) ==
    /\ Move(r, "over")
    /\ have' = [have EXCEPT ![r] = NewFn] /\ code' = [code EXCEPT ![r] = 0]
\* An error ends a request; a build goes on to failBuild.
GiveUp(t) ==
    \/ t \in Builds /\ Move(t, "fail") /\ UNCHANGED <<have, code>>
    \/ t \in Requests /\ Return(t)

\* PutBuild; runBuild and failBuild ignore its error.
PutBuild(b, s) ==
    \/ Fine /\ status' = [status EXCEPT ![b] = s] /\ UNCHANGED lost
    \/ Err /\ UNCHANGED status /\ lost' = lost \cup {b}

\* Somebody pushes to the repository.
Push ==
    /\ head < MaxCommits /\ head' = head + 1
    /\ UNCHANGED <<fn, blobs, served, queued, status, at, have, code, checkout, named, last,
                   lost, errors>>

(* Shared by builds and uploads. *)

\* BlobStore.Put, os.Stat: a file of that name counts as the blob.
BlobStat(t) ==
    /\ at[t] = "blob" /\ Fine
    /\ Move(t, IF blobs[code[t]] # "absent" THEN "deploy" ELSE "open")
    /\ UNCHANGED <<fn, blobs, served, queued, status, head, have, code, checkout, named, last,
                   lost>>

\* os.WriteFile truncates the file, also one another writer filled meanwhile ...
BlobOpen(t) ==
    /\ at[t] = "open" /\ Fine /\ Move(t, "write")
    /\ blobs' = [blobs EXCEPT ![code[t]] = "torn"]
    /\ UNCHANGED <<fn, served, queued, status, head, have, code, checkout, named, last, lost>>

\* ... and fills it in place, or fails half-way.
BlobWrite(t) ==
    /\ at[t] = "write"
    /\ \/ /\ Fine /\ blobs' = [blobs EXCEPT ![code[t]] = "whole"] /\ Move(t, "deploy")
          /\ UNCHANGED <<have, code>>
       \/ Err /\ UNCHANGED blobs /\ GiveUp(t)
    /\ UNCHANGED <<fn, served, queued, status, head, checkout, named, last, lost>>

\* Runtime.Deploy replaces the served code, or fails and leaves it.
Deploy(t) ==
    /\ at[t] = "deploy"
    /\ \/ /\ Fine /\ served' = code[t] /\ Move(t, "save") /\ UNCHANGED <<have, code>>
          /\ last' = IF t \in Builds THEN code[t] ELSE last
       \/ Err /\ UNCHANGED <<served, last>> /\ GiveUp(t)
    /\ UNCHANGED <<fn, blobs, queued, status, head, checkout, named, lost>>

----------------------------------------------------------------------------
(* Builds. *)

\* Trigger leaves a Pending build behind.  Of the copy of the Function it is
\* given a build reads nothing modelled here.
Trigger(b) ==
    /\ at[b] = "off" /\ \A a \in Builds : a < b => at[a] # "off"
    /\ status' = [status EXCEPT ![b] = "Pending"]

\* handleTriggerBuild and handleGitWebhook read the function and trigger.
TriggerBuild(b) ==
    /\ fn # NoFn /\ Trigger(b) /\ Move(b, "start") /\ Fine
    /\ UNCHANGED <<fn, blobs, served, queued, head, have, code, checkout, named, last, lost>>

\* Bug: the channel has room for every build, nobody waits.
RunStartNoWait(b) ==
    /\ at[b] = "start" /\ PutBuild(b, "Running") /\ queued' = queued + 1 /\ Move(b, "clone")
    /\ UNCHANGED <<fn, blobs, served, head, have, code, checkout, named, last>>

\* runBuild.
RunStart(b) ==
    /\ at[b] = "start" /\ PutBuild(b, "Running") /\ Move(b, "wait")
    /\ UNCHANGED <<fn, blobs, served, queued, head, have, code, checkout, named, last>>

\* acquire: send on the function's channel, which holds one token.
Acquire(b) ==
    /\ at[b] = "wait" /\ Fine /\ queued < 1 /\ queued' = queued + 1 /\ Move(b, "clone")
    /\ UNCHANGED <<fn, blobs, served, status, head, have, code, checkout, named, last, lost>>

\* cloneToTemp: the tip of the ref at this moment.
Clone(b) ==
    /\ at[b] = "clone" /\ checkout' = checkout \cup {b}
    /\ \/ Fine /\ code' = [code EXCEPT ![b] = head] /\ Move(b, "sandbox")
       \/ Err /\ UNCHANGED code /\ Move(b, "fail")
    /\ UNCHANGED <<fn, blobs, served, queued, status, head, have, named, last, lost>>

\* detect, runSandbox, readArtifact.
Sandbox(b) ==
    /\ at[b] = "sandbox"
    /\ (Fine /\ Move(b, "blob")) \/ (Err /\ Move(b, "fail"))
    /\ UNCHANGED <<fn, blobs, served, queued, status, head, have, code, checkout, named, last,
                   lost>>

\* PutFunction of the copy Trigger was given, with the new ref and build, over
\* whatever the record is by now; an error is only logged.
SaveFunction(b) ==
    /\ at[b] = "save" /\ Move(b, "succeed")
    /\ (Fine /\ fn' = [src |-> code[b], latest |-> b]) \/ (Err /\ UNCHANGED fn)
    /\ UNCHANGED <<blobs, served, queued, status, head, have, code, checkout, named, last, lost>>

\* The end of runBuild ...
Succeed(b) ==
    /\ at[b] = "succeed" /\ PutBuild(b, "Succeeded") /\ Move(b, "cleanup")
    /\ UNCHANGED <<fn, blobs, served, queued, head, have, code, checkout, named, last>>

\* ... or failBuild.
FailBuild(b) ==
    /\ at[b] = "fail" /\ PutBuild(b, "Failed") /\ Move(b, "cleanup")
    /\ UNCHANGED <<fn, blobs, served, queued, head, have, code, checkout, named, last>>

\* The deferred calls, last registered first: the checkout ...
Cleanup(b) ==
    /\ at[b] = "cleanup" /\ Fine /\ checkout' = checkout \ {b} /\ Move(b, "release")
    /\ UNCHANGED <<fn, blobs, served, queued, status, head, have, code, named, last, lost>>

\* Bug: the token stays in the channel.
ReleaseNot(b) ==
    /\ at[b] = "release" /\ Fine /\ Move(b, "done") /\ code' = [code EXCEPT ![b] = 0]
    /\ UNCHANGED <<fn, blobs, served, queued, status, head, have, checkout, named, last, lost>>

\* ... and release, a receive from the channel.
Release(b) ==
    /\ at[b] = "release" /\ Fine /\ queued > 0 /\ queued' = queued - 1
    /\ Move(b, "done") /\ code' = [code EXCEPT ![b] = 0]
    /\ UNCHANGED <<fn, blobs, served, status, head, have, checkout, named, last, lost>>

----------------------------------------------------------------------------
(* Requests. *)

\* A body names a source ref: the client's word is taken for it.
Names(s) == named' = IF s # 0 /\ blobs[s] = "absent" THEN named \cup {s} ELSE named

\* handlePutFunction for a new function (no UID): the record ...
CreatePut(r) ==
    /\ at[r] = "idle" /\ Fine /\ Move(r, "create")
    /\ \E s \in Sent \cup {0} : Names(s) /\ fn' = [NewFn EXCEPT !.src = s]
    /\ UNCHANGED <<blobs, served, queued, status, head, have, code, checkout, last, lost>>

\* ... and, for a git source, the first build.
CreateTrigger(r) ==
    /\ at[r] = "create" /\ Fine
    /\ \/ Move(r, "over") /\ UNCHANGED status
       \/ \E b \in Builds : Trigger(b) /\ at' = [at EXCEPT ![r] = "over", ![b] = "start"]
    /\ UNCHANGED <<fn, blobs, served, queued, head, have, code, checkout, named, last, lost>>

\* The dashboard reads the function (handleGetFunction) to edit it; the ref
\* may come back as it was or as another one.
ClientGet(r) ==
    /\ at[r] = "idle" /\ Fine /\ fn # NoFn /\ Move(r, "edit")
    /\ \/ have' = [have EXCEPT ![r] = fn] /\ UNCHANGED named
       \/ \E s \in Sent : Names(s) /\ have' = [have EXCEPT ![r] = [fn EXCEPT !.src = s]]
    /\ UNCHANGED <<fn, blobs, served, queued, status, head, code, checkout, last, lost>>

\* handlePutFunction for an existing one: empty fields are taken from the
\* record of this moment ...
UpdateGet(r) ==
    /\ at[r] = "edit" /\ Fine /\ Move(r, "put")
    /\ have' = IF fn = NoFn THEN have
             ELSE [have EXCEPT ![r] = [src |-> IF @.src = 0 THEN fn.src ELSE @.src,
                                     latest |-> IF @.latest = 0 THEN fn.latest ELSE @.latest]]
    /\ UNCHANGED <<fn, blobs, served, queued, status, head, code, checkout, named, last, lost>>

\* ... and the whole record is written.
UpdatePut(r) ==
    /\ at[r] = "put" /\ Return(r)
    /\ (Fine /\ fn' = have[r]) \/ (Err /\ UNCHANGED fn)
    /\ UNCHANGED <<blobs, served, queued, status, head, checkout, named, last, lost>>

\* Bug: the record is written before the blob.
UploadGetSavesFirst(r) ==
    /\ at[r] = "idle" /\ Fine /\ fn # NoFn
    /\ have' = [have EXCEPT ![r] = fn] /\ code' = [code EXCEPT ![r] = Uploaded]
    /\ fn' = [fn EXCEPT !.src = Uploaded] /\ Move(r, "blob")
    /\ UNCHANGED <<blobs, served, queued, status, head, checkout, named, last, lost>>

\* handleUploadFunctionCode: read, then BlobStat .. Deploy, then UploadPut.
UploadGet(r) ==
    /\ at[r] = "idle" /\ Fine /\ fn # NoFn
    /\ have' = [have EXCEPT ![r] = fn] /\ code' = [code EXCEPT ![r] = Uploaded]
    /\ Move(r, "blob")
    /\ UNCHANGED <<fn, blobs, served, queued, status, head, checkout, named, last, lost>>

UploadPut(r) ==
    /\ at[r] = "save" /\ Return(r)
    /\ (Fine /\ fn' = [have[r] EXCEPT !.src = code[r]]) \/ (Err /\ UNCHANGED fn)
    /\ UNCHANGED <<blobs, served, queued, status, head, checkout, named, last, lost>>

\* handleDeleteFunction: read, Runtime.Remove, then the record.
DeleteGet(r) ==
    /\ at[r] = "idle" /\ Fine /\ fn # NoFn /\ Move(r, "remove")
    /\ UNCHANGED <<fn, blobs, served, queued, status, head, have, code, checkout, named, last,
                   lost>>

DeleteRemove(r) ==
    /\ at[r] = "remove" /\ Fine /\ served' = 0 /\ Move(r, "delete")
    /\ UNCHANGED <<fn, blobs, queued, status, head, have, code, checkout, named, last, lost>>

DeletePut(r) ==
    /\ at[r] = "delete" /\ Return(r)
    /\ (Fine /\ fn' = NoFn) \/ (Err /\ UNCHANGED fn)
    /\ UNCHANGED <<blobs, served, queued, status, head, checkout, named, last, lost>>

----------------------------------------------------------------------------
\* The process dies and starts again: goroutines and the channel are gone, and
\* Rehydrator.Run deploys the recorded blob, which fails when it is torn.
Rehydrated(c) == IF c # 0 /\ blobs[c] = "whole" THEN c ELSE 0
Die ==
    /\ Err /\ queued' = 0
    /\ served' = IF fn = NoFn THEN 0 ELSE Rehydrated(fn.src)
    /\ lost' = lost \cup {b \in Builds : at[b] \notin {"off", "done"}}
    /\ at' = [t \in Threads |-> CASE at[t] \in {"off", "idle"} -> at[t]
                                  [] t \in Requests -> "over"
                                  [] OTHER -> "done"]
    /\ have' = [r \in Requests |-> NewFn] /\ code' = [t \in Threads |-> 0]
    /\ UNCHANGED <<fn, blobs, status, head, checkout, named, last>>

BuildStep(b) ==
    \/ RunStart(b) \/ Acquire(b) \/ Clone(b) \/ Sandbox(b) \/ BlobStat(b)
    \/ BlobOpen(b) \/ BlobWrite(b) \/ Deploy(b) \/ SaveFunction(b) \/ Succeed(b)
    \/ FailBuild(b) \/ Cleanup(b) \/ Release(b)

Call(r) ==
    /\ \A q \in Requests : q < r => at[q] # "idle"
    /\ CreatePut(r) \/ ClientGet(r) \/ UploadGet(r) \/ DeleteGet(r)

Handle(r) ==
    \/ CreateTrigger(r) \/ UpdateGet(r) \/ UpdatePut(r) \/ BlobStat(r) \/ BlobOpen(r)
    \/ BlobWrite(r) \/ Deploy(r) \/ UploadPut(r) \/ DeleteRemove(r) \/ DeletePut(r)

BuildsNext ==
    \/ Push \/ Die
    \/ \E b \in Builds : TriggerBuild(b) \/ BuildStep(b)
    \/ \E r \in Requests : Call(r) \/ Handle(r)

BuildsSpec == BuildsInit /\ [][BuildsNext]_buildVars

----------------------------------------------------------------------------
(* Properties. *)

\* The SourceRef on record names a file of the blob store, whatever crashes and
\* races, unless a client made it up: rehydrate.go:41-45 has something to load
\* (handlers.go:671-694, runner.go:204-230 store the blob first; the body's ref
\* of handlers.go:553-608 is not checked).
RefHasBlob == fn # NoFn /\ fn.src # 0 => blobs[fn.src] # "absent" \/ fn.src \in named

\* Two builds never deploy out of commit order, however their goroutines are
\* scheduled: the clone is taken after the slot (runner.go:154-159).
CodeNeverGoesBack == [][last' >= last]_buildVars

\* Every build ends, its checkout is removed and the slot is free again, unless
\* a crash or a failing store took it (runner.go:129-132 "every error path
\* persists the Build record ... the temporary checkout is always cleaned up").
BuildsFinish ==
    \A b \in Builds :
        status[b] \in {"Pending", "Running"} ~>
            \/ b \in lost
            \/ /\ status[b] \in {"Succeeded", "Failed"} /\ b \notin checkout
               /\ at[b] = "done"
=============================================================================
