------------------------------ MODULE WarmPool ------------------------------
(***************************************************************************)
(* The wasm runtime as the server uses it: WarmPool, which bounds the      *)
(* calls of a function by a channel of permits, around Wazero, which keeps *)
(* one compiled module per function.  One function; its deployments are    *)
(* numbered, and deployment d makes module d and permit channel d.         *)
(***************************************************************************)
EXTENDS Naturals, Sequences, FiniteSets

CONSTANTS
    Calls,       \* invocations
    Callers(_),  \* who may make each one
    MaxDeploys,  \* bound on deployments
    Concurrency  \* capacity of a permit channel

Deploys == 1 .. MaxDeploys
Kinds == {"http", "cron", "rule"}

ASSUME WarmPoolAssumption ==
    /\ \A c \in Calls : Callers(c) \subseteq Kinds
    /\ MaxDeploys \in Nat /\ Concurrency \in Nat \ {0}

VARIABLES
    funcs,   \* Wazero.funcs: the module compiled last, 0 if none
    gone,    \* modules that were closed
    hot,     \* WarmPool.hot: the permit channel in use, 0 if none
    closed,  \* permit channels that were closed
    permits, \* tokens in each permit channel
    dep,     \* where each Deploy is
    call,    \* the invocations
    removing \* where a Remove is

runtime == <<funcs, gone, hot, closed, permits>>
deploying == <<dep, removing>>
poolVars == <<runtime, deploying, call>>

NoCall == [at |-> "idle", kind |-> "http", ch |-> 0, mod |-> 0, res |-> "none"]
Empty == [d \in Deploys |-> 0]

PoolInit ==
    /\ funcs = 0 /\ gone = {} /\ hot = 0 /\ closed = {} /\ permits = Empty
    /\ dep = [d \in Deploys |-> "none"]
    /\ removing = "idle"
    /\ call = [c \in Calls |-> NoCall]

----------------------------------------------------------------------------
(* Deploy. *)

\* WarmPool.Deploy calls Wazero.Deploy, which compiles or refuses the code.
DeployBegin(d) ==
    /\ dep[d] = "none" /\ \A e \in Deploys : e < d => dep[e] # "none"
    /\ dep' = [dep EXCEPT ![d] = "compile"]
    /\ UNCHANGED <<removing>>

DeployRefused(d) ==
    /\ dep[d] = "compile" /\ dep' = [dep EXCEPT ![d] = "failed"]
    /\ UNCHANGED <<runtime, removing, call>>

\* Wazero.Deploy: the module that is replaced is closed.
DeployCompiled(d) ==
    /\ dep[d] = "compile" /\ dep' = [dep EXCEPT ![d] = "swap"]
    /\ gone' = gone \cup ({funcs} \ {0}) /\ funcs' = d
    /\ UNCHANGED <<hot, closed, permits, removing, call>>

\* WarmPool.Deploy: close the old channel and make a new one.  The
\* warm-up that follows takes no permit and its results are thrown away.
DeploySwap(d) ==
    /\ dep[d] = "swap" /\ dep' = [dep EXCEPT ![d] = "save"]
    /\ closed' = closed \cup ({hot} \ {0}) /\ hot' = d
    /\ UNCHANGED <<funcs, gone, permits, removing, call>>

----------------------------------------------------------------------------
(* Remove. *)

RemoveHot ==
    /\ removing = "hot" /\ removing' = "inner"
    /\ closed' = closed \cup ({hot} \ {0}) /\ hot' = 0
    /\ UNCHANGED <<funcs, gone, permits, dep, call>>

RemoveInner ==
    /\ removing = "inner" /\ removing' = "record"
    /\ gone' = gone \cup ({funcs} \ {0}) /\ funcs' = 0
    /\ UNCHANGED <<hot, closed, permits, dep, call>>

----------------------------------------------------------------------------
(* Invoke. *)

At(c, s) == call' = [call EXCEPT ![c].at = s]

\* What is left of a call when it is over.
Over(c, r) ==
    [NoCall EXCEPT !.at = "done", !.res = r, !.mod = IF r = "ok" THEN call[c].mod ELSE 0]

InvokeBegin(c, k) ==
    /\ call[c].at = "idle" /\ k \in Callers(c)
    /\ call' = [call EXCEPT ![c] = [NoCall EXCEPT !.at = "invoke", !.kind = k]]

\* Look up the entry; without one there is no bound.
PoolLookup(c) ==
    /\ call[c].at = "invoke"
    /\ call' = [call EXCEPT ![c].at = IF hot = 0 THEN "inner" ELSE "waiting",
                            ![c].ch = hot]
    /\ UNCHANGED <<runtime, deploying>>

Acquire(c) ==
    /\ call[c].at = "waiting" /\ call[c].ch \notin closed
    /\ permits[call[c].ch] < Concurrency
    /\ permits' = [permits EXCEPT ![call[c].ch] = @ + 1]
    /\ At(c, "inner")
    /\ UNCHANGED <<funcs, gone, hot, closed, deploying>>

\* The context ends first: the client leaves, or the rule's 30 s are over.
\* Cron calls have the background context.
Cancelled(c) ==
    /\ call[c].at = "waiting" /\ call[c].kind # "cron"
    /\ call' = [call EXCEPT ![c] = Over(c, "failed")]
    /\ UNCHANGED <<runtime, deploying>>

\* A send on a closed channel panics; Server.recoverer saves an HTTP request.
PanicRecovered(c) ==
    /\ call[c].at = "waiting" /\ call[c].ch \in closed /\ call[c].kind = "http"
    /\ call' = [call EXCEPT ![c] = Over(c, "failed")]
    /\ UNCHANGED <<runtime, deploying>>

\* Nothing recovers the goroutines of cron and of the rule dispatcher.
Panics(c) == call[c].at = "waiting" /\ call[c].ch \in closed /\ call[c].kind # "http"

\* Bug: a failed call keeps its permit.
LeaveUnlessFailed(c, r) ==
    /\ permits' = IF call[c].ch = 0 \/ r # "ok" THEN permits
                  ELSE [permits EXCEPT ![call[c].ch] = @ - 1]
    /\ call' = [call EXCEPT ![c] = Over(c, r)]
    /\ UNCHANGED <<funcs, gone, hot, closed, deploying>>

\* The deferred receive, which returns at once on a closed channel.
Leave(c, r) ==
    /\ IF call[c].ch = 0 \/ (call[c].ch \in closed /\ permits[call[c].ch] = 0)
       THEN UNCHANGED permits
       ELSE permits[call[c].ch] > 0 /\ permits' = [permits EXCEPT ![call[c].ch] = @ - 1]
    /\ call' = [call EXCEPT ![c] = Over(c, r)]
    /\ UNCHANGED <<funcs, gone, hot, closed, deploying>>

Goes(c, s, m) ==
    /\ call' = [call EXCEPT ![c].at = s, ![c].mod = m]
    /\ UNCHANGED <<runtime, deploying>>

\* Bug: the module is the one the pool entry was made for.
WazeroLookupFromPool(c) ==
    /\ call[c].at = "inner"
    /\ IF call[c].ch = 0 THEN Leave(c, "failed") ELSE Goes(c, "bound", call[c].ch)

\* Bug: a call of a function that is not there waits for it.
WazeroLookupWaits(c) ==
    /\ call[c].at = "inner" /\ funcs # 0
    /\ Goes(c, "bound", funcs)

\* Wazero.Invoke: the module in the map, or ErrFunctionNotReady.
WazeroLookup(c) ==
    /\ call[c].at = "inner"
    /\ IF funcs = 0 THEN Leave(c, "failed") ELSE Goes(c, "bound", funcs)

\* InstantiateModule fails on a module closed meanwhile, or by itself.
Instantiate(c) ==
    /\ call[c].at = "bound"
    /\ \/ call[c].mod \notin gone /\ Goes(c, "running", call[c].mod)
       \/ Leave(c, "failed")

\* The guest ends, or its deadline ends it, or its memory is over the cap.
\* Everything but the last is a response, with status 500 if need be.
Finish(c) == call[c].at = "running" /\ (Leave(c, "ok") \/ Leave(c, "failed"))

----------------------------------------------------------------------------
Ended == {"idle", "done"}

\* The process dies and the pool starts empty.
PoolCrash ==
    /\ funcs' = 0 /\ gone' = {} /\ hot' = 0 /\ closed' = {} /\ permits' = Empty
    /\ dep' = [d \in Deploys |-> IF dep[d] \in {"none", "done", "failed"}
                                 THEN dep[d] ELSE "failed"]
    /\ removing' = "idle"
    /\ call' = [c \in Calls |-> IF call[c].at \in Ended THEN call[c]
                                ELSE Over(c, "failed")]

PoolTypeOK ==
    /\ funcs \in Deploys \cup {0} /\ gone \subseteq Deploys /\ funcs \notin gone
    /\ hot \in Deploys \cup {0} /\ closed \subseteq Deploys /\ hot \notin closed
    /\ permits \in [Deploys -> 0 .. Concurrency]
    /\ dep \in [Deploys -> {"none", "compile", "swap", "save", "done", "failed"}]
    /\ removing \in {"idle", "hot", "inner", "record"}
    /\ call \in [Calls ->
          [at : {"idle", "invoke", "waiting", "inner", "bound", "running", "done"},
           kind : Kinds, ch : Deploys \cup {0}, mod : Deploys \cup {0},
           res : {"none", "ok", "failed"}]]
=============================================================================
