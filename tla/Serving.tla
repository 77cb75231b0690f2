------------------------------ MODULE Serving -------------------------------
(***************************************************************************)
(* A wasm function as it is served: uploads and deletions, which change    *)
(* the runtime and then the record; HTTP requests, rules and cron entries, *)
(* which call it; a panic of a background call, which takes the process    *)
(* down; and the start that follows, with Rehydrator.                      *)
(***************************************************************************)
EXTENDS WarmPool

CONSTANTS
    MaxEdits,  \* bound on writes and deletions of the record by users
    MaxFaults  \* bound on failing deployments and on crashes

ASSUME ServingAssumption == MaxEdits \in Nat /\ MaxFaults \in Nat

VARIABLES
    fn,     \* the record: "absent", or its source ref is "empty" or a "ref"
    saves,  \* the uploads among the deployments, which go on to save the ref
    boot,   \* where Rehydrator.Run is
    edits, faults

servingVars == <<saves, boot>>
vars == <<poolVars, fn, servingVars, edits, faults>>

Init ==
    /\ PoolInit /\ fn = "absent"
    /\ saves = {} /\ boot = "list" /\ edits = 0 /\ faults = 0

Edit == edits < MaxEdits /\ edits' = edits + 1 /\ UNCHANGED faults
Fault == faults < MaxFaults /\ faults' = faults + 1 /\ UNCHANGED edits
Fine == UNCHANGED <<edits, faults>>

----------------------------------------------------------------------------
(* Requests that change the function. *)

\* handlePutFunction.  The body's source ref is stored as it is; a body without
\* one empties the record's, or keeps it if the body has the UID.
PutRecord ==
    /\ fn' \in {"empty", "ref"} /\ Edit /\ UNCHANGED <<poolVars, servingVars>>

\* handleUploadFunctionCode: read the record, store the blob, Deploy ...
Upload(d) ==
    /\ fn # "absent" /\ DeployBegin(d) /\ saves' = saves \cup {d} /\ Fine
    /\ UNCHANGED <<runtime, call, fn, boot>>

\* ... and write the copy back with the new source ref.
UploadSave(d) ==
    /\ dep[d] = "save" /\ d \in saves /\ fn' = "ref" /\ Fine
    /\ dep' = [dep EXCEPT ![d] = "done"] /\ saves' = saves \ {d}
    /\ UNCHANGED <<runtime, removing, call, boot>>

\* handleDeleteFunction: read the record, Remove ...
DeleteBegin ==
    /\ removing = "idle" /\ fn # "absent" /\ removing' = "hot" /\ Edit
    /\ UNCHANGED <<runtime, dep, call, fn, servingVars>>

\* ... and delete it.
DeleteSave ==
    /\ removing = "record" /\ removing' = "idle" /\ Fine
    /\ fn' = "absent"
    /\ UNCHANGED <<runtime, dep, call, servingVars>>

----------------------------------------------------------------------------
(* Start-up. *)

\* Rehydrator.Run deploys what the record refers to, if the blob can be read.
Rehydrate ==
    /\ boot = "list" /\ Fine
    /\ boot' = "done"
    /\ \/ fn = "ref" /\ \E d \in Deploys : DeployBegin(d)
       \/ UNCHANGED deploying
    /\ UNCHANGED <<runtime, call, fn, saves>>

RehydrateDone(d) ==
    /\ dep[d] = "save" /\ d \notin saves /\ Fine
    /\ dep' = [dep EXCEPT ![d] = "done"]
    /\ UNCHANGED <<runtime, removing, call, fn, servingVars>>

----------------------------------------------------------------------------
(* Calls. *)

\* handleFunctionInvoke and handleInvokeFunction: no record is a 404; only
\* the first also refuses a record without a source ref.
HttpRequest(c) ==
    /\ fn # "absent" /\ InvokeBegin(c, "http") /\ Fine
    /\ UNCHANGED <<runtime, deploying, fn, servingVars>>

\* functionInvokerAdapter.InvokeForEvent.
RuleInvokes(c) ==
    /\ fn # "absent" /\ InvokeBegin(c, "rule") /\ Fine
    /\ UNCHANGED <<runtime, deploying, fn, servingVars>>

\* A cron entry fires.  It has a copy of the record and may outlive it
\* (StrayEntries of Cron).
CronFires(c) ==
    /\ \E d \in Deploys : dep[d] # "none"
    /\ InvokeBegin(c, "cron") /\ Fine
    /\ UNCHANGED <<runtime, deploying, fn, servingVars>>

CallStep(c) ==
    /\ \/ PoolLookup(c) \/ Acquire(c) \/ PanicRecovered(c)
       \/ WazeroLookup(c) \/ Instantiate(c) \/ Finish(c)
    /\ Fine /\ UNCHANGED <<fn, servingVars>>

CallGivenUp(c) == Cancelled(c) /\ Fine /\ UNCHANGED <<fn, servingVars>>

DeployStep(d) ==
    /\ \/ DeployRefused(d) /\ Fault /\ saves' = saves \ {d}
       \/ (DeployCompiled(d) \/ DeploySwap(d)) /\ Fine /\ UNCHANGED saves
    /\ UNCHANGED <<fn, boot>>

RemoveStep ==
    (RemoveHot \/ RemoveInner) /\ Fine /\ UNCHANGED <<fn, servingVars>>

Die ==
    /\ PoolCrash /\ UNCHANGED fn
    /\ saves' = {} /\ boot' = "list"

\* A panic nobody recovers, or any other end of the process.
Crash ==
    \/ \E c \in Calls : Panics(c) /\ Die /\ Fine
    \/ Die /\ Fault

Requests ==
    \/ PutRecord
    \/ \E d \in Deploys : Upload(d)
    \/ DeleteBegin
    \/ \E c \in Calls : HttpRequest(c) \/ RuleInvokes(c) \/ CronFires(c)

Running ==
    \/ \E c \in Calls : CallStep(c) \/ CallGivenUp(c)
    \/ \E d \in Deploys : DeployStep(d) \/ UploadSave(d) \/ RehydrateDone(d)
    \/ RemoveStep \/ DeleteSave \/ Rehydrate

Next == Requests \/ Running \/ Crash

Spec == Init /\ [][Next]_vars

\* Go runs runnable goroutines and a guest ends by its deadline: while a call
\* can go on, some call does.  Nothing makes a client give up.
FairSpec ==
    Spec /\ WF_vars(\E c \in Calls : CallStep(c) \/ (Panics(c) /\ Die /\ Fine))

----------------------------------------------------------------------------
(* Properties. *)

TypeOK ==
    /\ PoolTypeOK /\ fn \in {"absent", "empty", "ref"}
    /\ saves \subseteq Deploys /\ boot \in {"list", "done"}
    /\ edits \in 0 .. MaxEdits /\ faults \in 0 .. MaxFaults

Holding(d) ==
    {c \in Calls : call[c].ch = d /\ call[c].at \in {"inner", "bound", "running"}}

\* A permit channel, in use or closed under its callers by a redeployment,
\* holds one token for each call inside and never more than its capacity, so
\* that no leaving call takes another's token or waits for one
\* (pool.go:67-81, 117-132).
PermitsConserved ==
    \A d \in Deploys : permits[d] = Cardinality(Holding(d)) /\ permits[d] <= Concurrency

\* A redeployment or removal drains the permits it replaces: it leaves nobody
\* in front of the closed channel, where a send panics and, for a rule or for
\* cron, takes the process down (pool.go:72-75, 113-115).
ReplacedIsDrained == \A c \in Calls : ~Panics(c)

\* Every call ends, however the function is redeployed or removed under it.
CallsEnd == \A c \in Calls : call[c].at = "invoke" ~> call[c].at = "done"

\* The stage in FunctionService of a call, and what FunctionService sees of it.
Stage(r) ==
    CASE r.at = "idle" -> "idle"
      [] r.at \in {"invoke", "waiting", "inner"} -> "pending"
      [] r.at \in {"bound", "running"} -> "bound"
      [] r.at = "done" /\ r.res = "ok" -> "answered"
      [] OTHER -> "failed"

Abstract(r) ==
    [stage |-> Stage(r),
     version |-> IF Stage(r) \in {"bound", "answered"} THEN r.mod ELSE 0]

Service == INSTANCE FunctionService WITH
    Versions <- Deploys, code <- funcs, calls <- [c \in Calls |-> Abstract(call[c])]

\* The pool and the runtime implement FunctionService: a call that queued for
\* a permit, or held a module while it was replaced, is answered by a module
\* that was deployed during the call, or fails (wazero.go:79-241).
ImplementsService == Service!Spec
=============================================================================
