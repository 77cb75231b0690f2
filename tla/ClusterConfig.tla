--------------------------- MODULE ClusterConfig ---------------------------
(***************************************************************************)
(* The cluster configuration is one BoltDB record.  Join tokens, the       *)
(* first-run wizard, the cluster mode and the internal S3 key all live in  *)
(* it, and every request that changes any of them reads the whole record,  *)
(* changes its part and writes the whole record back.  Manager.mu covers   *)
(* Issue and Consume only, Server.s3Mu the S3 key only; nothing covers the *)
(* record.  Each read and each write is a step here, and the process may   *)
(* crash between any two.                                                  *)
(***************************************************************************)
EXTENDS Naturals, FiniteSets

CONSTANTS
    Reqs,       \* request goroutines
    Tokens,     \* join tokens there may be
    Nobody,     \* a free mutex
    MaxReqs,    \* bound on requests
    MaxFaults   \* bound on failing calls and crashes

ASSUME ClusterConfigAssumption ==
    /\ Nobody \notin Reqs /\ Tokens # {}
    /\ MaxReqs \in Nat /\ MaxFaults \in Nat

VARIABLES
    cfg,      \* the stored ClusterConfig
    overwrote, \* history: who replaced a record changed since it was read
    mu, s3Mu, \* holders of Manager.mu and Server.s3Mu
    pc, cp,   \* where each request is, and the copy of cfg it holds
    arg,      \* the token it presents or was given
    flag,     \* the multiNode value its body asks for
    minted,   \* tokens generated so far
    setup,    \* records the wizard has written: user, token, project
    client,   \* Server.s3: key id of the memoised client, 0 if none
    keys,     \* S3 keys created in Garage; their ids are 1 .. keys
    voters,   \* tokens whose node was made a Raft voter
    joins,    \* history: successful Consume calls per token
    wizards,  \* history: successful initialize requests
    reqs, faults

record == <<cfg, overwrote>>
configVars == <<record, mu, s3Mu, pc, cp, arg, flag, minted, setup, client, keys, voters,
          joins, wizards, reqs, faults>>

Config == [initialized : BOOLEAN, bootstrap : {"set", ""}, multiNode : BOOLEAN,
           tokens : [Tokens -> {"none", "issued", "used"}], s3Key : Nat]
PCs == {"idle", "issuePut", "consumePut", "addVoter", "joinGet", "joinPut", "putPut",
        "user", "token", "project", "modeGet", "modePut", "consume", "clearPut",
        "s3Create", "s3Put"}

ConfigTypeOK ==
    /\ cfg \in Config /\ overwrote \subseteq {"manager", "other"} /\ cp \in [Reqs -> Config]
    /\ mu \in Reqs \cup {Nobody} /\ s3Mu \in Reqs \cup {Nobody}
    /\ pc \in [Reqs -> PCs] /\ arg \in [Reqs -> Tokens] /\ flag \in [Reqs -> BOOLEAN]
    /\ minted \subseteq Tokens /\ voters \subseteq Tokens
    /\ setup \subseteq {"user", "token", "project"}
    /\ keys \in Nat /\ client \in 0 .. keys
    /\ joins \in [Tokens -> Nat] /\ wizards \in Nat
    /\ reqs \in 0 .. MaxReqs /\ faults \in 0 .. MaxFaults
    /\ \A r \in Reqs : pc[r] \in {"issuePut", "consumePut"} => mu = r
    /\ \A r \in Reqs : pc[r] \in {"s3Create", "s3Put"} => s3Mu = r

\* A fresh node: CreateBootstrapToken has run.
ConfigInit ==
    /\ cfg = [initialized |-> FALSE, bootstrap |-> "set", multiNode |-> FALSE,
              tokens |-> [t \in Tokens |-> "none"], s3Key |-> 0]
    /\ overwrote = {} /\ mu = Nobody /\ s3Mu = Nobody
    /\ pc = [r \in Reqs |-> "idle"] /\ cp = [r \in Reqs |-> cfg]
    /\ arg \in [Reqs -> {CHOOSE t \in Tokens : TRUE}]
    /\ flag = [r \in Reqs |-> FALSE]
    /\ minted = {} /\ setup = {} /\ client = 0 /\ keys = 0 /\ voters = {}
    /\ joins = [t \in Tokens |-> 0] /\ wizards = 0
    /\ reqs = 0 /\ faults = 0

----------------------------------------------------------------------------
Arrive == reqs < MaxReqs /\ reqs' = reqs + 1 /\ UNCHANGED faults
Go == UNCHANGED <<reqs, faults>>
Fail == faults < MaxFaults /\ faults' = faults + 1 /\ UNCHANGED reqs
Goto(r, l) == pc' = [pc EXCEPT ![r] = l]
GetCluster(r) == cp' = [cp EXCEPT ![r] = cfg]
\* The whole record is written; overwrote notes that it had changed since the
\* request read it, and whether Issue and Consume of Manager did that.
Writer(r) == IF pc[r] \in {"issuePut", "consumePut"} THEN "manager" ELSE "other"
PutCluster(r, c) ==
    /\ cfg' = c
    /\ overwrote' = IF cp[r] = cfg THEN overwrote ELSE overwrote \cup {Writer(r)}
\* PutCluster returns an error: nothing is stored and the request ends.
PutFails(r) == Fail /\ UNCHANGED record /\ Goto(r, "idle")

(* Join tokens. *)

\* Bug: Issue does not take the mutex.
IssueGetUnlocked(r, t) ==
    /\ pc[r] = "idle" /\ Arrive /\ t \notin minted
    /\ minted' = minted \cup {t} /\ arg' = [arg EXCEPT ![r] = t]
    /\ GetCluster(r) /\ Goto(r, "issuePut")
    /\ UNCHANGED <<record, mu, s3Mu, flag, setup, client, keys, voters, joins, wizards>>

\* Manager.Issue: under mu, read ...
IssueGet(r, t) ==
    /\ pc[r] = "idle" /\ Arrive /\ mu = Nobody /\ t \notin minted
    /\ mu' = r /\ minted' = minted \cup {t} /\ arg' = [arg EXCEPT ![r] = t]
    /\ GetCluster(r) /\ Goto(r, "issuePut")
    /\ UNCHANGED <<record, s3Mu, flag, setup, client, keys, voters, joins, wizards>>

\* ... and write the record with the new token.
IssuePut(r) ==
    /\ pc[r] = "issuePut" /\ mu' = Nobody
    /\ \/ Go /\ PutCluster(r, [cp[r] EXCEPT !.tokens[arg[r]] = "issued"]) /\ Goto(r, "idle")
       \/ PutFails(r)
    /\ UNCHANGED <<s3Mu, cp, arg, flag, minted, setup, client, keys, voters, joins, wizards>>

\* Bug: an early return forgets to unlock.
ConsumeGetKeepsLock(r, t) ==
    /\ pc[r] = "idle" /\ Arrive /\ mu = Nobody /\ t \in minted
    /\ arg' = [arg EXCEPT ![r] = t] /\ GetCluster(r) /\ mu' = r
    /\ \/ cfg.tokens[t] = "issued" /\ Goto(r, "consumePut")
       \/ Goto(r, "idle")
    /\ UNCHANGED <<record, s3Mu, flag, minted, setup, client, keys, voters, joins, wizards>>

\* Bug: Consume does not take the mutex.
ConsumeGetUnlocked(r, t) ==
    /\ pc[r] = "idle" /\ Arrive /\ t \in minted
    /\ arg' = [arg EXCEPT ![r] = t] /\ GetCluster(r)
    /\ cfg.tokens[t] = "issued" /\ Goto(r, "consumePut")
    /\ UNCHANGED <<record, mu, s3Mu, flag, minted, setup, client, keys, voters, joins, wizards>>

\* handleClusterJoin, Manager.Consume: under mu, read and validate.  Unknown
\* and used tokens are refused, and any token may have expired.
ConsumeGet(r, t) ==
    /\ pc[r] = "idle" /\ Arrive /\ mu = Nobody /\ t \in minted
    /\ arg' = [arg EXCEPT ![r] = t] /\ GetCluster(r)
    /\ \/ cfg.tokens[t] = "issued" /\ mu' = r /\ Goto(r, "consumePut")
       \/ UNCHANGED <<mu, pc>>
    /\ UNCHANGED <<record, s3Mu, flag, minted, setup, client, keys, voters, joins, wizards>>

ConsumePut(r) ==
    /\ pc[r] = "consumePut" /\ mu' = Nobody
    /\ \/ /\ Go /\ PutCluster(r, [cp[r] EXCEPT !.tokens[arg[r]] = "used"])
          /\ joins' = [joins EXCEPT ![arg[r]] = @ + 1] /\ Goto(r, "addVoter")
       \/ PutFails(r) /\ UNCHANGED joins
    /\ UNCHANGED <<s3Mu, cp, arg, flag, minted, setup, client, keys, voters, wizards>>

\* Raft.AddVoter and PutNode; if either fails the token stays spent.
JoinAddVoter(r) ==
    /\ pc[r] = "addVoter"
    /\ \/ Go /\ voters' = voters \cup {arg[r]} /\ Goto(r, "joinGet")
       \/ Fail /\ voters' \in {voters, voters \cup {arg[r]}} /\ Goto(r, "idle")
    /\ UNCHANGED <<record, mu, s3Mu, cp, arg, flag, minted, setup, client, keys, joins, wizards>>

\* The rest of the handler sets MultiNode, without the mutex.
JoinGet(r) ==
    /\ pc[r] = "joinGet" /\ Go /\ GetCluster(r) /\ Goto(r, "joinPut")
    /\ UNCHANGED <<record, mu, s3Mu, arg, flag, minted, setup, client, keys, voters, joins, wizards>>

JoinPut(r) ==
    /\ pc[r] = "joinPut"
    /\ \/ Go /\ PutCluster(r, [cp[r] EXCEPT !.multiNode = TRUE]) /\ Goto(r, "idle")
       \/ PutFails(r)
    /\ UNCHANGED <<mu, s3Mu, cp, arg, flag, minted, setup, client, keys, voters, joins, wizards>>

----------------------------------------------------------------------------
(* Cluster mode. *)

\* handlePutCluster: read, then write with the body's MultiNode.
PutGet(r, b) ==
    /\ pc[r] = "idle" /\ Arrive /\ GetCluster(r)
    /\ flag' = [flag EXCEPT ![r] = b] /\ Goto(r, "putPut")
    /\ UNCHANGED <<record, mu, s3Mu, arg, minted, setup, client, keys, voters, joins, wizards>>

PutPut(r) ==
    /\ pc[r] = "putPut"
    /\ \/ Go /\ PutCluster(r, [cp[r] EXCEPT !.multiNode = flag[r]]) /\ Goto(r, "idle")
       \/ PutFails(r)
    /\ UNCHANGED <<mu, s3Mu, cp, arg, flag, minted, setup, client, keys, voters, joins, wizards>>

----------------------------------------------------------------------------
(* The first-run wizard, handleInitialize. *)

\* VerifyBootstrapToken with the token printed at first start.
Verify(r, b) ==
    /\ pc[r] = "idle" /\ Arrive /\ cfg.bootstrap = "set"
    /\ flag' = [flag EXCEPT ![r] = b] /\ Goto(r, "user")
    /\ UNCHANGED <<record, mu, s3Mu, cp, arg, minted, setup, client, keys, voters, joins, wizards>>

\* Bug: a failing step does not end the request.
SetupStepGoesOn(r, step, next) ==
    /\ pc[r] = step
    /\ \/ Go /\ setup' = setup \cup {step}
       \/ Fail /\ UNCHANGED setup
    /\ Goto(r, next)
    /\ UNCHANGED <<record, mu, s3Mu, cp, arg, flag, minted, client, keys, voters, joins, wizards>>

\* Each step may fail and end the request, the token staying valid for a retry.
SetupStep(r, step, next) ==
    /\ pc[r] = step
    /\ \/ Go /\ setup' = setup \cup {step} /\ Goto(r, next)
       \/ Fail /\ UNCHANGED setup /\ Goto(r, "idle")
    /\ UNCHANGED <<record, mu, s3Mu, cp, arg, flag, minted, client, keys, voters, joins, wizards>>

CreateUser(r) == SetupStep(r, "user", "token")
\* The token "admin-initial".
CreateToken(r) == SetupStep(r, "token", "project")
ensureDefaultProject(r) == SetupStep(r, "project", "modeGet")

ModeGet(r) ==
    /\ pc[r] = "modeGet" /\ Go /\ GetCluster(r) /\ Goto(r, "modePut")
    /\ UNCHANGED <<record, mu, s3Mu, arg, flag, minted, setup, client, keys, voters, joins, wizards>>

ModePut(r) ==
    /\ pc[r] = "modePut"
    /\ \/ Go /\ PutCluster(r, [cp[r] EXCEPT !.multiNode = flag[r]]) /\ Goto(r, "consume")
       \/ PutFails(r)
    /\ UNCHANGED <<mu, s3Mu, cp, arg, flag, minted, setup, client, keys, voters, joins, wizards>>

\* ConsumeBootstrapToken: read and check again ...
ConsumeBootstrap(r) ==
    /\ pc[r] = "consume" /\ Go /\ GetCluster(r)
    /\ Goto(r, IF cfg.bootstrap = "set" THEN "clearPut" ELSE "idle")
    /\ UNCHANGED <<record, mu, s3Mu, arg, flag, minted, setup, client, keys, voters, joins, wizards>>

\* ... and write it cleared, with Initialized.
ClearBootstrap(r) ==
    /\ pc[r] = "clearPut"
    /\ \/ /\ Go /\ PutCluster(r, [cp[r] EXCEPT !.bootstrap = "", !.initialized = TRUE])
          /\ wizards' = wizards + 1 /\ Goto(r, "idle")
       \/ PutFails(r) /\ UNCHANGED wizards
    /\ UNCHANGED <<mu, s3Mu, cp, arg, flag, minted, setup, client, keys, voters, joins>>

----------------------------------------------------------------------------
(* The internal S3 key, Server.s3Client, under s3Mu. *)

S3Get(r) ==
    /\ pc[r] = "idle" /\ Arrive /\ s3Mu = Nobody /\ client = 0 /\ GetCluster(r)
    /\ \/ cfg.s3Key # 0 /\ client' \in {0, cfg.s3Key} /\ UNCHANGED <<s3Mu, pc>>
       \/ cfg.s3Key = 0 /\ s3Mu' = r /\ Goto(r, "s3Create") /\ UNCHANGED client
    /\ UNCHANGED <<record, mu, arg, flag, minted, setup, keys, voters, joins, wizards>>

\* Garage creates the key, or the request fails.
S3Create(r) ==
    /\ pc[r] = "s3Create"
    /\ \/ Go /\ keys' = keys + 1 /\ Goto(r, "s3Put") /\ UNCHANGED s3Mu
       \/ Fail /\ s3Mu' = Nobody /\ Goto(r, "idle") /\ UNCHANGED keys
    /\ UNCHANGED <<record, mu, cp, arg, flag, minted, setup, client, voters, joins, wizards>>

\* Bug: the client is memoised, the key is not saved.
S3PutUnsaved(r) ==
    /\ pc[r] = "s3Put" /\ Go /\ client' = keys /\ s3Mu' = Nobody /\ Goto(r, "idle")
    /\ UNCHANGED <<record, mu, cp, arg, flag, minted, setup, keys, voters, joins, wizards>>

\* The key is saved, then minio.New makes the client or fails.
S3Put(r) ==
    /\ pc[r] = "s3Put" /\ s3Mu' = Nobody
    /\ \/ /\ PutCluster(r, [cp[r] EXCEPT !.s3Key = keys]) /\ Goto(r, "idle")
          /\ (Go /\ client' = keys) \/ (Fail /\ UNCHANGED client)
       \/ PutFails(r) /\ UNCHANGED client
    /\ UNCHANGED <<mu, cp, arg, flag, minted, setup, keys, voters, joins, wizards>>

----------------------------------------------------------------------------
\* The process dies and restarts: the record and the wizard's records stay.
Crash ==
    /\ Fail /\ mu' = Nobody /\ s3Mu' = Nobody /\ client' = 0
    /\ pc' = [r \in Reqs |-> "idle"]
    /\ UNCHANGED <<record, cp, arg, flag, minted, setup, keys, voters, joins, wizards>>

Continue(r) ==
    \/ IssuePut(r) \/ ConsumePut(r) \/ JoinAddVoter(r) \/ JoinGet(r) \/ JoinPut(r)
    \/ PutPut(r) \/ CreateUser(r) \/ CreateToken(r) \/ ensureDefaultProject(r) \/ ModeGet(r) \/ ModePut(r)
    \/ ConsumeBootstrap(r) \/ ClearBootstrap(r) \/ S3Create(r) \/ S3Put(r)

Request(r) ==
    \/ \E t \in Tokens : IssueGet(r, t) \/ ConsumeGet(r, t)
    \/ \E b \in BOOLEAN : PutGet(r, b) \/ Verify(r, b)
    \/ S3Get(r)

ConfigNext == Crash \/ \E r \in Reqs : Request(r) \/ Continue(r)

ConfigSpec == ConfigInit /\ [][ConfigNext]_configVars

----------------------------------------------------------------------------
(* Properties. *)

\* Initialized is only ever on record when the whole setup is: admin user,
\* initial token and default project, whatever requests race or crash
\* (handlers.go:138-171, "a failure leaves the token usable for a retry").
SetupComplete == cfg.initialized => setup = {"user", "token", "project"}

\* docs/troubleshooting.md calls the join tokens (line 114) and the bootstrap
\* token (line 109) single-use, and auth.go:131 says that the latter is cleared
\* atomically.  The writers of the record outside Manager.mu break both: a
\* record read before a token was spent and written after restores the token.
SingleUse == (\A t \in Tokens : joins[t] <= 1) /\ wizards <= 1

\* What Manager.mu is good for: however joins race, fail and crash, a join token
\* is good for one join as long as no request outside Issue and Consume writes
\* back a stale record (cluster.go:74-97 against api/cluster.go:41-50 and
\* join.go:83-89).
OneJoinPerToken == \A t \in Tokens : joins[t] > 1 => "other" \in overwrote

\* The memoised S3 client uses the key on record, so that a restart finds the
\* same key again, unless a lost update removed it (server.go:134-172).
ClientKeyStored == client # 0 => (cfg.s3Key = client \/ overwrote # {})

\* The mutexes block nobody for good: every accepted request ends
\* (cluster.go:57-58,77-78, server.go:131-132).
RequestsEnd == \A r \in Reqs : []<>(pc[r] = "idle" /\ mu # r /\ s3Mu # r)
=============================================================================
