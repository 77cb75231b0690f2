------------------------ MODULE ClusterConfigProofs ------------------------
(***************************************************************************)
(* What the cluster record guarantees for any number of requests, tokens   *)
(* and failures.  A put either writes the record it read, with one field   *)
(* changed, or is noted in overwrote.  As long as nobody outside Issue and *)
(* Consume is, the copy of whoever holds Manager.mu has the tokens of the  *)
(* record, and the record tells which tokens are spent.                    *)
(***************************************************************************)
EXTENDS ClusterConfig, TLAPS

Full == {"user", "token", "project"}

\* Which key ids exist.
KeyRange == cfg.s3Key <= keys /\ \A r \in Reqs : cp[r].s3Key <= keys

\* The wizard is past a step only when the step's record is written, and no
\* copy says initialized earlier than the record may.
SetupOK(r) ==
    /\ cp[r].initialized => setup = Full
    /\ pc[r] = "token" => "user" \in setup
    /\ pc[r] = "project" => {"user", "token"} \subseteq setup
    /\ pc[r] \in {"modeGet", "modePut", "consume", "clearPut"} => setup = Full

SetupInv == (cfg.initialized => setup = Full) /\ \A r \in Reqs : SetupOK(r)

\* What a request that is about to change a token knows of its copy.
CopyOK(r) ==
    /\ \A t \in Tokens \ minted : cp[r].tokens[t] = "none"
    /\ pc[r] = "issuePut" => arg[r] \in minted /\ cp[r].tokens[arg[r]] = "none"
    /\ pc[r] = "consumePut" => arg[r] \in minted /\ cp[r].tokens[arg[r]] = "issued"

CopyInv == \A r \in Reqs : CopyOK(r)

\* Manager.mu is held from the read of the record to its write.
Locked == {"issuePut", "consumePut"}

Spent == \A t \in Tokens : joins[t] = 0 \/ (joins[t] = 1 /\ cfg.tokens[t] = "used")
Fresh == \A r \in Reqs : pc[r] \in Locked => cp[r].tokens = cfg.tokens

JoinInv == "other" \notin overwrote => Spent /\ Fresh
KeyInv == overwrote = {} /\ client # 0 => cfg.s3Key = client
MintInv == \A t \in Tokens \ minted : cfg.tokens[t] = "none"

RecordInv == MintInv /\ JoinInv /\ KeyInv

\* Nobody makes a key while there is a client.
MakingKey == {"s3Create", "s3Put"}
S3Inv == \A r \in Reqs : pc[r] \in MakingKey => client = 0

Inv == ConfigTypeOK /\ KeyRange /\ SetupInv /\ CopyInv /\ RecordInv /\ S3Inv

----------------------------------------------------------------------------
(* The initial state, and what a put leaves on record. *)

Types == ConfigTypeOK /\ KeyRange

LEMMA InitInv == ConfigInit => Inv
<1>. SUFFICES ASSUME ConfigInit PROVE Inv
  OBVIOUS
<1>. USE ClusterConfigAssumption DEF ConfigInit
<1>1. cfg \in Config
  BY DEF Config
<1>2. arg \in [Reqs -> Tokens]
  OBVIOUS
<1>3. pc \in [Reqs -> PCs] /\ \A r \in Reqs : pc[r] = "idle"
  BY DEF PCs
<1>4. cp \in [Reqs -> Config]
  BY <1>1
<1>5. ConfigTypeOK
  <2>. HIDE DEF ConfigInit
  <2>1. /\ minted \subseteq Tokens /\ voters \subseteq Tokens /\ setup \subseteq Full
        /\ joins \in [Tokens -> Nat] /\ wizards \in Nat /\ keys \in Nat
        /\ flag \in [Reqs -> BOOLEAN] /\ overwrote \subseteq {"manager", "other"}
    BY DEF ConfigInit
  <2>2. reqs \in 0 .. MaxReqs /\ faults \in 0 .. MaxFaults /\ client \in 0 .. keys
    BY DEF ConfigInit
  <2>3. mu = Nobody /\ s3Mu = Nobody
    BY DEF ConfigInit
  <2>. QED
    BY <1>1, <1>2, <1>3, <1>4, <2>1, <2>2, <2>3 DEF ConfigTypeOK, Full
<1>. QED
  BY <1>3, <1>5 DEF Inv, KeyRange, SetupInv, SetupOK, CopyInv, CopyOK, RecordInv, MintInv,
                    JoinInv, KeyInv, Spent, Fresh, Locked, S3Inv

\* What a put that succeeds leaves on record, field by field.
Stored(r, init, boot, toks, key) ==
    /\ cfg' \in Config /\ cfg'.initialized = init /\ cfg'.bootstrap = boot
    /\ cfg'.tokens = toks /\ cfg'.s3Key = key
    /\ overwrote' \subseteq {"manager", "other"}
    /\ overwrote' = {} => overwrote = {} /\ cp[r] = cfg
    /\ "other" \notin overwrote' =>
           "other" \notin overwrote /\ (pc[r] \in Locked \/ cp[r] = cfg)

LEMMA PutStores ==
  ASSUME ConfigTypeOK, NEW r \in Reqs, NEW c \in Config, PutCluster(r, c)
  PROVE  Stored(r, c.initialized, c.bootstrap, c.tokens, c.s3Key)
<1>1. cfg' = c /\ overwrote \subseteq {"manager", "other"}
  BY DEF PutCluster, ConfigTypeOK
<1>2. \/ overwrote' = overwrote /\ cp[r] = cfg
      \/ overwrote' = overwrote \cup {"manager"} /\ pc[r] \in Locked
      \/ overwrote' = overwrote \cup {"other"} /\ pc[r] \notin Locked
  BY DEF PutCluster, Writer, Locked
<1>. QED BY <1>1, <1>2 DEF Stored

LEMMA FailedPut ==
  ASSUME ConfigTypeOK, NEW r \in Reqs, PutFails(r)
  PROVE  ~Go /\ cfg' = cfg /\ overwrote' = overwrote
<1>. faults \in Nat
  BY ClusterConfigAssumption DEF ConfigTypeOK
<1>. QED BY DEF PutFails, Go, Fail, record

\* The seven puts.
LEMMA Puts ==
  ASSUME ConfigTypeOK, NEW r \in Reqs, ~PutFails(r)
  PROVE
   /\ IssuePut(r) => Stored(r, cp[r].initialized, cp[r].bootstrap, [cp[r].tokens EXCEPT ![arg[r]] = "issued"], cp[r].s3Key)
   /\ ConsumePut(r) => Stored(r, cp[r].initialized, cp[r].bootstrap, [cp[r].tokens EXCEPT ![arg[r]] = "used"], cp[r].s3Key)
   /\ JoinPut(r) => Stored(r, cp[r].initialized, cp[r].bootstrap, cp[r].tokens, cp[r].s3Key)
   /\ PutPut(r) => Stored(r, cp[r].initialized, cp[r].bootstrap, cp[r].tokens, cp[r].s3Key)
   /\ ModePut(r) => Stored(r, cp[r].initialized, cp[r].bootstrap, cp[r].tokens, cp[r].s3Key)
   /\ ClearBootstrap(r) => Stored(r, TRUE, "", cp[r].tokens, cp[r].s3Key)
   /\ S3Put(r) => Stored(r, cp[r].initialized, cp[r].bootstrap, cp[r].tokens, keys)
<1>. cp[r] \in Config /\ arg[r] \in Tokens /\ flag[r] \in BOOLEAN /\ keys \in Nat
  BY DEF ConfigTypeOK
<1>1. IssuePut(r) => Stored(r, cp[r].initialized, cp[r].bootstrap, [cp[r].tokens EXCEPT ![arg[r]] = "issued"], cp[r].s3Key)
  <2>. DEFINE c == [cp[r] EXCEPT !.tokens[arg[r]] = "issued"]
  <2>1. /\ c \in Config /\ c.initialized = cp[r].initialized /\ c.bootstrap = cp[r].bootstrap
        /\ c.tokens = [cp[r].tokens EXCEPT ![arg[r]] = "issued"] /\ c.s3Key = cp[r].s3Key
    BY DEF Config
  <2>2. IssuePut(r) => PutCluster(r, c)
    BY DEF IssuePut
  <2>. HIDE DEF c
  <2>. QED BY <2>1, <2>2, PutStores
<1>2. ConsumePut(r) => Stored(r, cp[r].initialized, cp[r].bootstrap, [cp[r].tokens EXCEPT ![arg[r]] = "used"], cp[r].s3Key)
  <2>. DEFINE c == [cp[r] EXCEPT !.tokens[arg[r]] = "used"]
  <2>1. /\ c \in Config /\ c.initialized = cp[r].initialized /\ c.bootstrap = cp[r].bootstrap
        /\ c.tokens = [cp[r].tokens EXCEPT ![arg[r]] = "used"] /\ c.s3Key = cp[r].s3Key
    BY DEF Config
  <2>2. ConsumePut(r) => PutCluster(r, c)
    BY DEF ConsumePut
  <2>. HIDE DEF c
  <2>. QED BY <2>1, <2>2, PutStores
<1>3. JoinPut(r) => Stored(r, cp[r].initialized, cp[r].bootstrap, cp[r].tokens, cp[r].s3Key)
  <2>. DEFINE c == [cp[r] EXCEPT !.multiNode = TRUE]
  <2>1. /\ c \in Config /\ c.initialized = cp[r].initialized /\ c.bootstrap = cp[r].bootstrap
        /\ c.tokens = cp[r].tokens /\ c.s3Key = cp[r].s3Key
    BY DEF Config
  <2>2. JoinPut(r) => PutCluster(r, c)
    BY DEF JoinPut
  <2>. HIDE DEF c
  <2>. QED BY <2>1, <2>2, PutStores
<1>4. PutPut(r) => Stored(r, cp[r].initialized, cp[r].bootstrap, cp[r].tokens, cp[r].s3Key)
  <2>. DEFINE c == [cp[r] EXCEPT !.multiNode = flag[r]]
  <2>1. /\ c \in Config /\ c.initialized = cp[r].initialized /\ c.bootstrap = cp[r].bootstrap
        /\ c.tokens = cp[r].tokens /\ c.s3Key = cp[r].s3Key
    BY DEF Config
  <2>2. PutPut(r) => PutCluster(r, c)
    BY DEF PutPut
  <2>. HIDE DEF c
  <2>. QED BY <2>1, <2>2, PutStores
<1>5. ModePut(r) => Stored(r, cp[r].initialized, cp[r].bootstrap, cp[r].tokens, cp[r].s3Key)
  <2>. DEFINE c == [cp[r] EXCEPT !.multiNode = flag[r]]
  <2>1. /\ c \in Config /\ c.initialized = cp[r].initialized /\ c.bootstrap = cp[r].bootstrap
        /\ c.tokens = cp[r].tokens /\ c.s3Key = cp[r].s3Key
    BY DEF Config
  <2>2. ModePut(r) => PutCluster(r, c)
    BY DEF ModePut
  <2>. HIDE DEF c
  <2>. QED BY <2>1, <2>2, PutStores
<1>6. ClearBootstrap(r) => Stored(r, TRUE, "", cp[r].tokens, cp[r].s3Key)
  <2>. DEFINE c == [cp[r] EXCEPT !.bootstrap = "", !.initialized = TRUE]
  <2>1. /\ c \in Config /\ c.initialized = TRUE /\ c.bootstrap = ""
        /\ c.tokens = cp[r].tokens /\ c.s3Key = cp[r].s3Key
    BY DEF Config
  <2>2. ClearBootstrap(r) => PutCluster(r, c)
    BY DEF ClearBootstrap
  <2>. HIDE DEF c
  <2>. QED BY <2>1, <2>2, PutStores
<1>7. S3Put(r) => Stored(r, cp[r].initialized, cp[r].bootstrap, cp[r].tokens, keys)
  <2>. DEFINE c == [cp[r] EXCEPT !.s3Key = keys]
  <2>1. /\ c \in Config /\ c.initialized = cp[r].initialized /\ c.bootstrap = cp[r].bootstrap
        /\ c.tokens = cp[r].tokens /\ c.s3Key = keys
    BY DEF Config
  <2>2. S3Put(r) => PutCluster(r, c)
    BY DEF S3Put
  <2>. HIDE DEF c
  <2>. QED BY <2>1, <2>2, PutStores
<1>. QED BY <1>1, <1>2, <1>3, <1>4, <1>5, <1>6, <1>7
----------------------------------------------------------------------------
(* Steps of one request. *)

\* A request changes nothing of another one, and nothing minted or set up is
\* undone.
LEMMA Others ==
  ASSUME ConfigTypeOK, NEW r \in Reqs, Request(r) \/ Continue(r)
  PROVE  /\ \A q \in Reqs \ {r} : pc'[q] = pc[q] /\ cp'[q] = cp[q] /\ arg'[q] = arg[q]
         /\ minted \subseteq minted' /\ setup \subseteq setup'
         /\ \/ S3Get(r) \/ S3Put(r)
            \/ client' = client /\ (pc'[r] \in MakingKey => pc[r] \in MakingKey)
<1>. DEFINE Goal == /\ \A q \in Reqs \ {r} : pc'[q] = pc[q] /\ cp'[q] = cp[q] /\ arg'[q] = arg[q]
                    /\ minted \subseteq minted' /\ setup \subseteq setup'
                    /\ \/ S3Get(r) \/ S3Put(r)
                       \/ client' = client /\ (pc'[r] \in MakingKey => pc[r] \in MakingKey)
<1>. USE DEF ConfigTypeOK, Goto, MakingKey
<1>1. ASSUME NEW t \in Tokens, IssueGet(r, t) PROVE Goal
  BY <1>1 DEF IssueGet, GetCluster, record
<1>2. ASSUME NEW t \in Tokens, ConsumeGet(r, t) PROVE Goal
  BY <1>2 DEF ConsumeGet, GetCluster, record
<1>3. ASSUME NEW b \in BOOLEAN, PutGet(r, b) PROVE Goal
  BY <1>3 DEF PutGet, GetCluster, record
<1>4. ASSUME NEW b \in BOOLEAN, Verify(r, b) PROVE Goal
  BY <1>4 DEF Verify, GetCluster, record
<1>5. ASSUME S3Get(r) PROVE Goal
  BY <1>5 DEF S3Get, GetCluster, record
<1>6. ASSUME JoinAddVoter(r) PROVE Goal
  BY <1>6 DEF JoinAddVoter, GetCluster, record
<1>7. ASSUME JoinGet(r) PROVE Goal
  BY <1>7 DEF JoinGet, GetCluster, record
<1>8. ASSUME CreateUser(r) PROVE Goal
  BY <1>8 DEF CreateUser, SetupStep, GetCluster, record
<1>9. ASSUME CreateToken(r) PROVE Goal
  BY <1>9 DEF CreateToken, SetupStep, GetCluster, record
<1>10. ASSUME ensureDefaultProject(r) PROVE Goal
  BY <1>10 DEF ensureDefaultProject, SetupStep, GetCluster, record
<1>11. ASSUME ModeGet(r) PROVE Goal
  BY <1>11 DEF ModeGet, GetCluster, record
<1>12. ASSUME ConsumeBootstrap(r) PROVE Goal
  BY <1>12 DEF ConsumeBootstrap, GetCluster, record
<1>13. ASSUME S3Create(r) PROVE Goal
  BY <1>13 DEF S3Create, GetCluster, record
<1>14. ASSUME IssuePut(r) PROVE Goal
  BY <1>14 DEF IssuePut, PutFails, PutCluster, record
<1>15. ASSUME ConsumePut(r) PROVE Goal
  BY <1>15 DEF ConsumePut, PutFails, PutCluster, record
<1>16. ASSUME JoinPut(r) PROVE Goal
  BY <1>16 DEF JoinPut, PutFails, PutCluster, record
<1>17. ASSUME PutPut(r) PROVE Goal
  BY <1>17 DEF PutPut, PutFails, PutCluster, record
<1>18. ASSUME ModePut(r) PROVE Goal
  BY <1>18 DEF ModePut, PutFails, PutCluster, record
<1>19. ASSUME ClearBootstrap(r) PROVE Goal
  BY <1>19 DEF ClearBootstrap, PutFails, PutCluster, record
<1>20. ASSUME S3Put(r) PROVE Goal
  BY <1>20 DEF S3Put, PutFails, PutCluster, record
<1>. HIDE DEF ConfigTypeOK, Goto, MakingKey
<1>. QED
  BY <1>1, <1>2, <1>3, <1>4, <1>5, <1>6, <1>7, <1>8, <1>9, <1>10, <1>11, <1>12, <1>13,
     <1>14, <1>15, <1>16, <1>17, <1>18, <1>19, <1>20 DEF Request, Continue

LEMMA KeyMaking ==
  ASSUME ConfigTypeOK, S3Inv, NEW r \in Reqs, Request(r) \/ Continue(r)
  PROVE  S3Inv'
<1>1. \A q \in Reqs \ {r} : pc'[q] = pc[q]
  BY Others
<1>2. CASE S3Get(r)
  <2>1. s3Mu = Nobody /\ client = 0 /\ (client' = 0 \/ pc' = pc)
    BY <1>2 DEF S3Get
  <2>2. \A q \in Reqs : pc[q] \notin MakingKey
    BY <2>1, ClusterConfigAssumption DEF ConfigTypeOK, MakingKey
  <2>. QED BY <2>1, <2>2 DEF S3Inv
<1>3. CASE S3Put(r)
  <2>1. s3Mu = r /\ pc'[r] = "idle"
    BY <1>3 DEF S3Put, PutFails, Goto, ConfigTypeOK
  <2>2. \A q \in Reqs \ {r} : pc[q] \notin MakingKey
    BY <2>1 DEF ConfigTypeOK, MakingKey
  <2>. QED BY <1>1, <2>1, <2>2 DEF S3Inv, MakingKey
<1>4. CASE client' = client /\ (pc'[r] \in MakingKey => pc[r] \in MakingKey)
  BY <1>1, <1>4 DEF S3Inv
<1>. QED BY <1>2, <1>3, <1>4, Others

\* What a request knows of its copy stays true.
LEMMA Copies ==
  ASSUME ConfigTypeOK, CopyInv, RecordInv, NEW r \in Reqs, Request(r) \/ Continue(r)
  PROVE  CopyInv'
<1>0. \A q \in Reqs \ {r} : CopyOK(q)'
  BY Others DEF CopyInv, CopyOK, ConfigTypeOK
<1>a. CopyOK(r) /\ arg[r] \in Tokens /\ minted \subseteq Tokens /\ cp[r] \in Config
  BY DEF CopyInv, ConfigTypeOK
<1>b. \A t \in Tokens \ minted : cfg.tokens[t] = "none"
  BY DEF RecordInv, MintInv
<1>c. pc \in [Reqs -> PCs] /\ cp \in [Reqs -> Config] /\ arg \in [Reqs -> Tokens]
  BY DEF ConfigTypeOK
<1>. DEFINE Goal == CopyOK(r)'
<1>. USE DEF CopyOK, Goto
<1>1. ASSUME NEW t \in Tokens, IssueGet(r, t) PROVE Goal
  BY <1>1, <1>a, <1>b, <1>c DEF IssueGet, GetCluster, record
<1>2. ASSUME NEW t \in Tokens, ConsumeGet(r, t) PROVE Goal
  BY <1>2, <1>a, <1>b, <1>c DEF ConsumeGet, GetCluster, record
<1>3. ASSUME NEW b \in BOOLEAN, PutGet(r, b) PROVE Goal
  BY <1>3, <1>a, <1>b, <1>c DEF PutGet, GetCluster, record
<1>4. ASSUME NEW b \in BOOLEAN, Verify(r, b) PROVE Goal
  BY <1>4, <1>a, <1>b, <1>c DEF Verify, GetCluster, record
<1>5. ASSUME S3Get(r) PROVE Goal
  BY <1>5, <1>a, <1>b, <1>c DEF S3Get, GetCluster, record
<1>6. ASSUME JoinAddVoter(r) PROVE Goal
  BY <1>6, <1>a, <1>b, <1>c DEF JoinAddVoter, GetCluster, record
<1>7. ASSUME JoinGet(r) PROVE Goal
  BY <1>7, <1>a, <1>b, <1>c DEF JoinGet, GetCluster, record
<1>8. ASSUME CreateUser(r) PROVE Goal
  BY <1>8, <1>a, <1>b, <1>c DEF CreateUser, SetupStep, GetCluster, record
<1>9. ASSUME CreateToken(r) PROVE Goal
  BY <1>9, <1>a, <1>b, <1>c DEF CreateToken, SetupStep, GetCluster, record
<1>10. ASSUME ensureDefaultProject(r) PROVE Goal
  BY <1>10, <1>a, <1>b, <1>c DEF ensureDefaultProject, SetupStep, GetCluster, record
<1>11. ASSUME ModeGet(r) PROVE Goal
  BY <1>11, <1>a, <1>b, <1>c DEF ModeGet, GetCluster, record
<1>12. ASSUME ConsumeBootstrap(r) PROVE Goal
  BY <1>12, <1>a, <1>b, <1>c DEF ConsumeBootstrap, GetCluster, record
<1>13. ASSUME S3Create(r) PROVE Goal
  BY <1>13, <1>a, <1>b, <1>c DEF S3Create, GetCluster, record
<1>14. ASSUME IssuePut(r) PROVE Goal
  BY <1>14, <1>a, <1>b, <1>c DEF IssuePut, PutFails, PutCluster, record
<1>15. ASSUME ConsumePut(r) PROVE Goal
  BY <1>15, <1>a, <1>b, <1>c DEF ConsumePut, PutFails, PutCluster, record
<1>16. ASSUME JoinPut(r) PROVE Goal
  BY <1>16, <1>a, <1>b, <1>c DEF JoinPut, PutFails, PutCluster, record
<1>17. ASSUME PutPut(r) PROVE Goal
  BY <1>17, <1>a, <1>b, <1>c DEF PutPut, PutFails, PutCluster, record
<1>18. ASSUME ModePut(r) PROVE Goal
  BY <1>18, <1>a, <1>b, <1>c DEF ModePut, PutFails, PutCluster, record
<1>19. ASSUME ClearBootstrap(r) PROVE Goal
  BY <1>19, <1>a, <1>b, <1>c DEF ClearBootstrap, PutFails, PutCluster, record
<1>20. ASSUME S3Put(r) PROVE Goal
  BY <1>20, <1>a, <1>b, <1>c DEF S3Put, PutFails, PutCluster, record
<1>. HIDE DEF CopyOK, Goto
<1>. QED
  BY <1>0, <1>1, <1>2, <1>3, <1>4, <1>5, <1>6, <1>7, <1>8, <1>9, <1>10, <1>11, <1>12,
     <1>13, <1>14, <1>15, <1>16, <1>17, <1>18, <1>19, <1>20 DEF Request, Continue, CopyInv

\* The wizard's order stays.
LEMMA Setups ==
  ASSUME ConfigTypeOK, ConfigTypeOK', SetupInv, NEW r \in Reqs, Request(r) \/ Continue(r)
  PROVE  SetupInv'
<1>0. \A q \in Reqs \ {r} : SetupOK(q)'
  BY Others DEF SetupInv, SetupOK, ConfigTypeOK, Full
<1>a. SetupOK(r) /\ (cfg.initialized => setup = Full) /\ setup \subseteq Full
  BY DEF SetupInv, ConfigTypeOK, Full
<1>c. pc \in [Reqs -> PCs] /\ cp \in [Reqs -> Config]
  BY DEF ConfigTypeOK
<1>. DEFINE Goal == SetupOK(r)' /\ (cfg'.initialized => setup' = Full)
<1>. USE DEF SetupOK, Goto, Full
<1>1. ASSUME NEW t \in Tokens, IssueGet(r, t) PROVE Goal
  BY <1>1, <1>a, <1>c DEF IssueGet, GetCluster, record
<1>2. ASSUME NEW t \in Tokens, ConsumeGet(r, t) PROVE Goal
  BY <1>2, <1>a, <1>c DEF ConsumeGet, GetCluster, record
<1>3. ASSUME NEW b \in BOOLEAN, PutGet(r, b) PROVE Goal
  BY <1>3, <1>a, <1>c DEF PutGet, GetCluster, record
<1>4. ASSUME NEW b \in BOOLEAN, Verify(r, b) PROVE Goal
  BY <1>4, <1>a, <1>c DEF Verify, GetCluster, record
<1>5. ASSUME S3Get(r) PROVE Goal
  BY <1>5, <1>a, <1>c DEF S3Get, GetCluster, record
<1>6. ASSUME JoinAddVoter(r) PROVE Goal
  BY <1>6, <1>a, <1>c DEF JoinAddVoter, GetCluster, record
<1>7. ASSUME JoinGet(r) PROVE Goal
  BY <1>7, <1>a, <1>c DEF JoinGet, GetCluster, record
<1>8. ASSUME CreateUser(r) PROVE Goal
  BY <1>8, <1>a, <1>c DEF CreateUser, SetupStep, GetCluster, record
<1>9. ASSUME CreateToken(r) PROVE Goal
  BY <1>9, <1>a, <1>c DEF CreateToken, SetupStep, GetCluster, record
<1>10. ASSUME ensureDefaultProject(r) PROVE Goal
  BY <1>10, <1>a, <1>c DEF ensureDefaultProject, SetupStep, GetCluster, record
<1>11. ASSUME ModeGet(r) PROVE Goal
  BY <1>11, <1>a, <1>c DEF ModeGet, GetCluster, record
<1>12. ASSUME ConsumeBootstrap(r) PROVE Goal
  BY <1>12, <1>a, <1>c DEF ConsumeBootstrap, GetCluster, record
<1>13. ASSUME S3Create(r) PROVE Goal
  BY <1>13, <1>a, <1>c DEF S3Create, GetCluster, record
<1>14. ASSUME IssuePut(r) PROVE Goal
  <2>1. CASE PutFails(r)
    BY <1>14, <2>1, <1>a, <1>c DEF IssuePut, PutFails, record
  <2>2. CASE ~PutFails(r)
    BY <1>14, <2>2, <1>a, <1>c, Puts DEF IssuePut, Stored
  <2>. QED BY <2>1, <2>2
<1>15. ASSUME ConsumePut(r) PROVE Goal
  <2>1. CASE PutFails(r)
    BY <1>15, <2>1, <1>a, <1>c DEF ConsumePut, PutFails, record
  <2>2. CASE ~PutFails(r)
    BY <1>15, <2>2, <1>a, <1>c, Puts DEF ConsumePut, Stored
  <2>. QED BY <2>1, <2>2
<1>16. ASSUME JoinPut(r) PROVE Goal
  <2>1. CASE PutFails(r)
    BY <1>16, <2>1, <1>a, <1>c DEF JoinPut, PutFails, record
  <2>2. CASE ~PutFails(r)
    BY <1>16, <2>2, <1>a, <1>c, Puts DEF JoinPut, Stored
  <2>. QED BY <2>1, <2>2
<1>17. ASSUME PutPut(r) PROVE Goal
  <2>1. CASE PutFails(r)
    BY <1>17, <2>1, <1>a, <1>c DEF PutPut, PutFails, record
  <2>2. CASE ~PutFails(r)
    BY <1>17, <2>2, <1>a, <1>c, Puts DEF PutPut, Stored
  <2>. QED BY <2>1, <2>2
<1>18. ASSUME ModePut(r) PROVE Goal
  <2>1. CASE PutFails(r)
    BY <1>18, <2>1, <1>a, <1>c DEF ModePut, PutFails, record
  <2>2. CASE ~PutFails(r)
    BY <1>18, <2>2, <1>a, <1>c, Puts DEF ModePut, Stored
  <2>. QED BY <2>1, <2>2
<1>19. ASSUME ClearBootstrap(r) PROVE Goal
  <2>1. CASE PutFails(r)
    BY <1>19, <2>1, <1>a, <1>c DEF ClearBootstrap, PutFails, record
  <2>2. CASE ~PutFails(r)
    BY <1>19, <2>2, <1>a, <1>c, Puts DEF ClearBootstrap, Stored
  <2>. QED BY <2>1, <2>2
<1>20. ASSUME S3Put(r) PROVE Goal
  <2>1. CASE PutFails(r)
    BY <1>20, <2>1, <1>a, <1>c DEF S3Put, PutFails, record
  <2>2. CASE ~PutFails(r)
    BY <1>20, <2>2, <1>a, <1>c, Puts DEF S3Put, Stored
  <2>. QED BY <2>1, <2>2
<1>. HIDE DEF SetupOK, Goto, Full
<1>. QED
  BY <1>0, <1>1, <1>2, <1>3, <1>4, <1>5, <1>6, <1>7, <1>8, <1>9, <1>10, <1>11, <1>12,
     <1>13, <1>14, <1>15, <1>16, <1>17, <1>18, <1>19, <1>20 DEF Request, Continue, SetupInv

\* A step that puts nothing: the copies taken in it are fresh.
LEMMA NoPut ==
  ASSUME ConfigTypeOK, RecordInv, cfg' = cfg, overwrote' = overwrote, joins' = joins,
         minted \subseteq minted', client' \in {client, 0, cfg.s3Key},
         \A q \in Reqs : \/ pc'[q] \notin Locked
                         \/ pc'[q] = pc[q] /\ cp'[q] = cp[q]
                         \/ cp'[q] = cfg
  PROVE  RecordInv'
<1>1. MintInv'
  BY DEF RecordInv, MintInv
<1>2. KeyInv'
  BY DEF RecordInv, KeyInv
<1>3. Spent => Spent'
  BY DEF Spent
<1>4. Fresh => Fresh'
  BY DEF Fresh
<1>5. JoinInv'
  BY <1>3, <1>4 DEF RecordInv, JoinInv
<1>. QED BY <1>1, <1>2, <1>5 DEF RecordInv

\* A put outside the mutex.
LEMMA OtherPut ==
  ASSUME ConfigTypeOK, CopyInv, RecordInv, NEW r \in Reqs, pc[r] \notin Locked,
         NEW i, NEW b, NEW k, Stored(r, i, b, cp[r].tokens, k),
         minted' = minted, joins' = joins, cp' = cp, pc'[r] \notin Locked,
         \A q \in Reqs \ {r} : pc'[q] = pc[q],
         client' # 0 => k = client' \/ (client' = client /\ k = cp[r].s3Key)
  PROVE  RecordInv'
<1>1. cfg'.tokens = cp[r].tokens /\ cfg'.s3Key = k
  BY DEF Stored
<1>2. MintInv'
  BY <1>1 DEF CopyInv, CopyOK, MintInv
<1>3. overwrote' = {} => overwrote = {} /\ cp[r] = cfg
  BY DEF Stored
<1>4. KeyInv'
  BY <1>1, <1>3 DEF RecordInv, KeyInv
<1>5. ASSUME "other" \notin overwrote' PROVE Spent' /\ Fresh'
  <2>1. Spent /\ Fresh /\ cfg'.tokens = cfg.tokens
    BY <1>1, <1>5 DEF Stored, RecordInv, JoinInv
  <2>2. Spent'
    BY <2>1 DEF Spent
  <2>3. Fresh'
    BY <2>1 DEF Fresh
  <2>. QED BY <2>2, <2>3
<1>. QED BY <1>2, <1>4, <1>5 DEF RecordInv, JoinInv

\* Issue and Consume put the token s of request r: whoever holds the mutex is
\* alone, and the token was not spent.
LEMMA LockedPut ==
  ASSUME ConfigTypeOK, CopyInv, RecordInv, NEW r \in Reqs, pc[r] \in Locked,
         NEW i, NEW b, NEW s \in {"issued", "used"},
         Stored(r, i, b, [cp[r].tokens EXCEPT ![arg[r]] = s], cp[r].s3Key),
         minted' = minted, cp' = cp, client' = client, pc'[r] \notin Locked,
         joins' = IF s = "used" THEN [joins EXCEPT ![arg[r]] = joins[arg[r]] + 1] ELSE joins,
         \A q \in Reqs \ {r} : pc'[q] = pc[q]
  PROVE  RecordInv'
<1>0. /\ arg[r] \in Tokens /\ cp[r].tokens \in [Tokens -> {"none", "issued", "used"}]
      /\ joins \in [Tokens -> Nat]
  BY DEF ConfigTypeOK, Config
<1>1. cfg'.tokens = [cp[r].tokens EXCEPT ![arg[r]] = s] /\ cfg'.s3Key = cp[r].s3Key
  BY DEF Stored
<1>2. arg[r] \in minted /\ cp[r].tokens[arg[r]] # "used"
  BY DEF CopyInv, CopyOK, Locked
<1>3. MintInv'
  BY <1>0, <1>1, <1>2 DEF CopyInv, CopyOK, MintInv
<1>4. KeyInv'
  <2>1. overwrote' = {} => overwrote = {} /\ cp[r] = cfg
    BY DEF Stored
  <2>. QED BY <1>1, <2>1 DEF RecordInv, KeyInv
<1>5. ASSUME "other" \notin overwrote' PROVE Spent' /\ Fresh'
  <2>1. Spent /\ cp[r].tokens = cfg.tokens
    BY <1>5 DEF Stored, RecordInv, JoinInv, Fresh
  <2>2. ASSUME NEW t \in Tokens
        PROVE  joins'[t] = 0 \/ (joins'[t] = 1 /\ cfg'.tokens[t] = "used")
    <3>1. joins[t] = 0 \/ (joins[t] = 1 /\ cfg.tokens[t] = "used")
      BY <2>1 DEF Spent
    <3>2. CASE t = arg[r]
      <4>1. joins[t] = 0
        BY <1>2, <2>1, <3>1, <3>2
      <4>2. cfg'.tokens[t] = s
        BY <1>0, <1>1, <3>2
      <4>. QED BY <1>0, <3>2, <4>1, <4>2
    <3>3. CASE t # arg[r]
      <4>1. cfg'.tokens[t] = cfg.tokens[t] /\ joins'[t] = joins[t]
        BY <1>0, <1>1, <2>1, <3>3
      <4>. QED BY <3>1, <4>1
    <3>. QED BY <3>2, <3>3
  <2>3. \A q \in Reqs : pc'[q] \notin Locked
    BY DEF ConfigTypeOK, Locked
  <2>. QED BY <2>2, <2>3 DEF Spent, Fresh
<1>. QED BY <1>3, <1>4, <1>5 DEF RecordInv, JoinInv

\* The record tells which tokens are spent, and the client's key.
LEMMA Records ==
  ASSUME ConfigTypeOK, CopyInv, RecordInv, S3Inv, NEW r \in Reqs, Request(r) \/ Continue(r)
  PROVE  RecordInv'
<1>a. \A q \in Reqs \ {r} : pc'[q] = pc[q] /\ cp'[q] = cp[q]
  BY Others
<1>b. minted \subseteq minted'
  BY Others
<1>c. pc \in [Reqs -> PCs] /\ cp \in [Reqs -> Config]
  BY DEF ConfigTypeOK
<1>. DEFINE Still == /\ cfg' = cfg /\ overwrote' = overwrote /\ joins' = joins
                     /\ client' \in {client, 0, cfg.s3Key}
                     /\ pc'[r] \notin Locked \/ cp'[r] = cfg
<1>s. Still => RecordInv'
  BY <1>a, <1>b, NoPut
<1>1. ASSUME NEW t \in Tokens, IssueGet(r, t) PROVE Still
  BY <1>1, <1>c DEF IssueGet, GetCluster, Goto, record, Locked
<1>2. ASSUME NEW t \in Tokens, ConsumeGet(r, t) PROVE Still
  BY <1>2, <1>c DEF ConsumeGet, GetCluster, Goto, record, Locked
<1>3. ASSUME NEW b \in BOOLEAN, PutGet(r, b) PROVE Still
  BY <1>3, <1>c DEF PutGet, GetCluster, Goto, record, Locked
<1>4. ASSUME NEW b \in BOOLEAN, Verify(r, b) PROVE Still
  BY <1>4, <1>c DEF Verify, GetCluster, Goto, record, Locked
<1>5. ASSUME S3Get(r) PROVE Still
  BY <1>5, <1>c DEF S3Get, GetCluster, Goto, record, Locked
<1>6. ASSUME JoinAddVoter(r) PROVE Still
  BY <1>6, <1>c DEF JoinAddVoter, GetCluster, Goto, record, Locked
<1>7. ASSUME JoinGet(r) PROVE Still
  BY <1>7, <1>c DEF JoinGet, GetCluster, Goto, record, Locked
<1>8. ASSUME CreateUser(r) PROVE Still
  BY <1>8, <1>c DEF CreateUser, SetupStep, GetCluster, Goto, record, Locked
<1>9. ASSUME CreateToken(r) PROVE Still
  BY <1>9, <1>c DEF CreateToken, SetupStep, GetCluster, Goto, record, Locked
<1>10. ASSUME ensureDefaultProject(r) PROVE Still
  BY <1>10, <1>c DEF ensureDefaultProject, SetupStep, GetCluster, Goto, record, Locked
<1>11. ASSUME ModeGet(r) PROVE Still
  BY <1>11, <1>c DEF ModeGet, GetCluster, Goto, record, Locked
<1>12. ASSUME ConsumeBootstrap(r) PROVE Still
  BY <1>12, <1>c DEF ConsumeBootstrap, GetCluster, Goto, record, Locked
<1>13. ASSUME S3Create(r) PROVE Still
  BY <1>13, <1>c DEF S3Create, GetCluster, Goto, record, Locked
<1>14. ASSUME IssuePut(r) PROVE RecordInv'
  <2>0. pc'[r] \notin Locked /\ cp' = cp /\ minted' = minted
    BY <1>14, <1>c DEF IssuePut, PutFails, Goto, Locked
  <2>1. CASE PutFails(r)
    <3>1. Still
      BY <1>14, <2>0, <2>1, FailedPut DEF IssuePut
    <3>. QED BY <1>s, <3>1
  <2>2. CASE ~PutFails(r)
    <3>1. Stored(r, cp[r].initialized, cp[r].bootstrap,
                 [cp[r].tokens EXCEPT ![arg[r]] = "issued"], cp[r].s3Key)
      BY <1>14, <2>2, Puts
    <3>2. pc[r] \in Locked /\ client' = client /\ joins' = joins
      BY <1>14, <2>2 DEF IssuePut, Locked
    <3>. QED BY <1>a, <2>0, <3>1, <3>2, LockedPut
  <2>. QED BY <2>1, <2>2
<1>15. ASSUME ConsumePut(r) PROVE RecordInv'
  <2>0. pc'[r] \notin Locked /\ cp' = cp /\ minted' = minted
    BY <1>15, <1>c DEF ConsumePut, PutFails, Goto, Locked
  <2>1. CASE PutFails(r)
    <3>1. Still
      BY <1>15, <2>0, <2>1, FailedPut DEF ConsumePut
    <3>. QED BY <1>s, <3>1
  <2>2. CASE ~PutFails(r)
    <3>1. Stored(r, cp[r].initialized, cp[r].bootstrap,
                 [cp[r].tokens EXCEPT ![arg[r]] = "used"], cp[r].s3Key)
      BY <1>15, <2>2, Puts
    <3>2. pc[r] \in Locked /\ client' = client /\ joins' = [joins EXCEPT ![arg[r]] = joins[arg[r]] + 1]
      BY <1>15, <2>2 DEF ConsumePut, Locked
    <3>. QED BY <1>a, <2>0, <3>1, <3>2, LockedPut
  <2>. QED BY <2>1, <2>2
<1>16. ASSUME JoinPut(r) PROVE RecordInv'
  <2>0. pc'[r] \notin Locked /\ cp' = cp /\ minted' = minted
    BY <1>16, <1>c DEF JoinPut, PutFails, Goto, Locked
  <2>1. CASE PutFails(r)
    <3>1. Still
      BY <1>16, <2>0, <2>1, FailedPut DEF JoinPut
    <3>. QED BY <1>s, <3>1
  <2>2. CASE ~PutFails(r)
    <3>1. Stored(r, cp[r].initialized, cp[r].bootstrap, cp[r].tokens, cp[r].s3Key)
      BY <1>16, <2>2, Puts
    <3>2. pc[r] \notin Locked /\ joins' = joins /\ client' = client
      BY <1>16, <2>2 DEF JoinPut, Locked
    <3>. QED BY <1>a, <2>0, <3>1, <3>2, OtherPut
  <2>. QED BY <2>1, <2>2
<1>17. ASSUME PutPut(r) PROVE RecordInv'
  <2>0. pc'[r] \notin Locked /\ cp' = cp /\ minted' = minted
    BY <1>17, <1>c DEF PutPut, PutFails, Goto, Locked
  <2>1. CASE PutFails(r)
    <3>1. Still
      BY <1>17, <2>0, <2>1, FailedPut DEF PutPut
    <3>. QED BY <1>s, <3>1
  <2>2. CASE ~PutFails(r)
    <3>1. Stored(r, cp[r].initialized, cp[r].bootstrap, cp[r].tokens, cp[r].s3Key)
      BY <1>17, <2>2, Puts
    <3>2. pc[r] \notin Locked /\ joins' = joins /\ client' = client
      BY <1>17, <2>2 DEF PutPut, Locked
    <3>. QED BY <1>a, <2>0, <3>1, <3>2, OtherPut
  <2>. QED BY <2>1, <2>2
<1>18. ASSUME ModePut(r) PROVE RecordInv'
  <2>0. pc'[r] \notin Locked /\ cp' = cp /\ minted' = minted
    BY <1>18, <1>c DEF ModePut, PutFails, Goto, Locked
  <2>1. CASE PutFails(r)
    <3>1. Still
      BY <1>18, <2>0, <2>1, FailedPut DEF ModePut
    <3>. QED BY <1>s, <3>1
  <2>2. CASE ~PutFails(r)
    <3>1. Stored(r, cp[r].initialized, cp[r].bootstrap, cp[r].tokens, cp[r].s3Key)
      BY <1>18, <2>2, Puts
    <3>2. pc[r] \notin Locked /\ joins' = joins /\ client' = client
      BY <1>18, <2>2 DEF ModePut, Locked
    <3>. QED BY <1>a, <2>0, <3>1, <3>2, OtherPut
  <2>. QED BY <2>1, <2>2
<1>19. ASSUME ClearBootstrap(r) PROVE RecordInv'
  <2>0. pc'[r] \notin Locked /\ cp' = cp /\ minted' = minted
    BY <1>19, <1>c DEF ClearBootstrap, PutFails, Goto, Locked
  <2>1. CASE PutFails(r)
    <3>1. Still
      BY <1>19, <2>0, <2>1, FailedPut DEF ClearBootstrap
    <3>. QED BY <1>s, <3>1
  <2>2. CASE ~PutFails(r)
    <3>1. Stored(r, TRUE, "", cp[r].tokens, cp[r].s3Key)
      BY <1>19, <2>2, Puts
    <3>2. pc[r] \notin Locked /\ joins' = joins /\ client' = client
      BY <1>19, <2>2 DEF ClearBootstrap, Locked
    <3>. QED BY <1>a, <2>0, <3>1, <3>2, OtherPut
  <2>. QED BY <2>1, <2>2
<1>20. ASSUME S3Put(r) PROVE RecordInv'
  <2>0. pc'[r] \notin Locked /\ cp' = cp /\ minted' = minted
    BY <1>20, <1>c DEF S3Put, PutFails, Goto, Locked
  <2>1. CASE PutFails(r)
    <3>1. Still
      BY <1>20, <2>0, <2>1, FailedPut DEF S3Put
    <3>. QED BY <1>s, <3>1
  <2>2. CASE ~PutFails(r)
    <3>1. Stored(r, cp[r].initialized, cp[r].bootstrap, cp[r].tokens, keys)
      BY <1>20, <2>2, Puts
    <3>2. pc[r] \notin Locked /\ joins' = joins /\ client' \in {client, keys} /\ client = 0
      BY <1>20, <2>2 DEF S3Put, Locked, S3Inv, MakingKey
    <3>. QED BY <1>a, <2>0, <3>1, <3>2, OtherPut
  <2>. QED BY <2>1, <2>2
<1>. HIDE DEF Still
<1>. QED
  BY <1>s, <1>1, <1>2, <1>3, <1>4, <1>5, <1>6, <1>7, <1>8, <1>9, <1>10, <1>11, <1>12, <1>13,
     <1>14, <1>15, <1>16, <1>17, <1>18, <1>19, <1>20 DEF Request, Continue

\* Types and the range of key ids: the puts and the S3 steps are the only
\* ones that touch the record, the keys and the client.
LEMMA StepTypes ==
  ASSUME Types, NEW r \in Reqs, Request(r) \/ Continue(r)
  PROVE  Types'
<1>a. cfg.s3Key \in Nat /\ \A q \in Reqs : cp[q].s3Key \in Nat
  BY DEF Types, ConfigTypeOK, Config
<1>. USE ClusterConfigAssumption, <1>a DEF Types, ConfigTypeOK, KeyRange, Go, Arrive, Fail, Goto, PCs
<1>1. ASSUME NEW t \in Tokens, IssueGet(r, t) PROVE Types'
  BY <1>1 DEF IssueGet, GetCluster, record
<1>2. ASSUME NEW t \in Tokens, ConsumeGet(r, t) PROVE Types'
  BY <1>2 DEF ConsumeGet, GetCluster, record
<1>3. ASSUME NEW b \in BOOLEAN, PutGet(r, b) PROVE Types'
  BY <1>3 DEF PutGet, GetCluster, record
<1>4. ASSUME NEW b \in BOOLEAN, Verify(r, b) PROVE Types'
  BY <1>4 DEF Verify, GetCluster, record
<1>5. ASSUME S3Get(r) PROVE Types'
  BY <1>5 DEF S3Get, GetCluster, record
<1>6. ASSUME JoinAddVoter(r) PROVE Types'
  BY <1>6 DEF JoinAddVoter, record
<1>7. ASSUME JoinGet(r) PROVE Types'
  BY <1>7 DEF JoinGet, GetCluster, record
<1>8. ASSUME CreateUser(r) PROVE Types'
  <2>0. faults' \in 0 .. MaxFaults
    BY <1>8 DEF CreateUser, SetupStep
  <2>1. setup' \subseteq {"user", "token", "project"}
    <3>1. setup' \in {setup, setup \cup {"user"}}
      BY <1>8 DEF CreateUser, SetupStep
    <3>2. setup \subseteq {"user", "token", "project"}
      OBVIOUS
    <3>. HIDE DEF Types, ConfigTypeOK
    <3>. QED BY ONLY <3>1, <3>2
  <2>2. \E l \in {"token", "project", "modeGet", "idle"} : pc' = [pc EXCEPT ![r] = l]
    BY <1>8 DEF CreateUser, SetupStep
  <2>3. /\ UNCHANGED <<cfg, overwrote, mu, s3Mu, cp, arg, flag, minted, client, keys, voters>>
        /\ UNCHANGED <<joins, wizards>> /\ reqs' = reqs
    BY <1>8 DEF CreateUser, SetupStep, record
  <2>. QED BY <2>0, <2>1, <2>2, <2>3
<1>9. ASSUME CreateToken(r) PROVE Types'
  <2>0. faults' \in 0 .. MaxFaults
    BY <1>9 DEF CreateToken, SetupStep
  <2>1. setup' \subseteq {"user", "token", "project"}
    <3>1. setup' \in {setup, setup \cup {"token"}}
      BY <1>9 DEF CreateToken, SetupStep
    <3>2. setup \subseteq {"user", "token", "project"}
      OBVIOUS
    <3>. HIDE DEF Types, ConfigTypeOK
    <3>. QED BY ONLY <3>1, <3>2
  <2>2. \E l \in {"token", "project", "modeGet", "idle"} : pc' = [pc EXCEPT ![r] = l]
    BY <1>9 DEF CreateToken, SetupStep
  <2>3. /\ UNCHANGED <<cfg, overwrote, mu, s3Mu, cp, arg, flag, minted, client, keys, voters>>
        /\ UNCHANGED <<joins, wizards>> /\ reqs' = reqs
    BY <1>9 DEF CreateToken, SetupStep, record
  <2>. QED BY <2>0, <2>1, <2>2, <2>3
<1>10. ASSUME ensureDefaultProject(r) PROVE Types'
  <2>0. faults' \in 0 .. MaxFaults
    BY <1>10 DEF ensureDefaultProject, SetupStep
  <2>1. setup' \subseteq {"user", "token", "project"}
    <3>1. setup' \in {setup, setup \cup {"project"}}
      BY <1>10 DEF ensureDefaultProject, SetupStep
    <3>2. setup \subseteq {"user", "token", "project"}
      OBVIOUS
    <3>. HIDE DEF Types, ConfigTypeOK
    <3>. QED BY ONLY <3>1, <3>2
  <2>2. \E l \in {"token", "project", "modeGet", "idle"} : pc' = [pc EXCEPT ![r] = l]
    BY <1>10 DEF ensureDefaultProject, SetupStep
  <2>3. /\ UNCHANGED <<cfg, overwrote, mu, s3Mu, cp, arg, flag, minted, client, keys, voters>>
        /\ UNCHANGED <<joins, wizards>> /\ reqs' = reqs
    BY <1>10 DEF ensureDefaultProject, SetupStep, record
  <2>. QED BY <2>0, <2>1, <2>2, <2>3
<1>11. ASSUME ModeGet(r) PROVE Types'
  BY <1>11 DEF ModeGet, GetCluster, record
<1>12. ASSUME ConsumeBootstrap(r) PROVE Types'
  BY <1>12 DEF ConsumeBootstrap, GetCluster, record
<1>13. ASSUME S3Create(r) PROVE Types'
  BY <1>13 DEF S3Create, record
<1>14. ASSUME IssuePut(r) PROVE Types'
  <2>1. CASE PutFails(r)
    BY <1>14, <2>1 DEF IssuePut, PutFails, record
  <2>2. CASE ~PutFails(r)
    <3>1. cfg' \in Config /\ overwrote' \subseteq {"manager", "other"} /\ cfg'.s3Key <= keys
      BY <1>14, <2>2, Puts DEF Stored
    <3>. QED BY <1>14, <2>2, <3>1 DEF IssuePut
  <2>. QED BY <2>1, <2>2
<1>15. ASSUME ConsumePut(r) PROVE Types'
  <2>1. CASE PutFails(r)
    BY <1>15, <2>1 DEF ConsumePut, PutFails, record
  <2>2. CASE ~PutFails(r)
    <3>1. cfg' \in Config /\ overwrote' \subseteq {"manager", "other"} /\ cfg'.s3Key <= keys
      BY <1>15, <2>2, Puts DEF Stored
    <3>. QED BY <1>15, <2>2, <3>1 DEF ConsumePut
  <2>. QED BY <2>1, <2>2
<1>16. ASSUME JoinPut(r) PROVE Types'
  <2>1. CASE PutFails(r)
    BY <1>16, <2>1 DEF JoinPut, PutFails, record
  <2>2. CASE ~PutFails(r)
    <3>1. cfg' \in Config /\ overwrote' \subseteq {"manager", "other"} /\ cfg'.s3Key <= keys
      BY <1>16, <2>2, Puts DEF Stored
    <3>. QED BY <1>16, <2>2, <3>1 DEF JoinPut
  <2>. QED BY <2>1, <2>2
<1>17. ASSUME PutPut(r) PROVE Types'
  <2>1. CASE PutFails(r)
    BY <1>17, <2>1 DEF PutPut, PutFails, record
  <2>2. CASE ~PutFails(r)
    <3>1. cfg' \in Config /\ overwrote' \subseteq {"manager", "other"} /\ cfg'.s3Key <= keys
      BY <1>17, <2>2, Puts DEF Stored
    <3>. QED BY <1>17, <2>2, <3>1 DEF PutPut
  <2>. QED BY <2>1, <2>2
<1>18. ASSUME ModePut(r) PROVE Types'
  <2>1. CASE PutFails(r)
    BY <1>18, <2>1 DEF ModePut, PutFails, record
  <2>2. CASE ~PutFails(r)
    <3>1. cfg' \in Config /\ overwrote' \subseteq {"manager", "other"} /\ cfg'.s3Key <= keys
      BY <1>18, <2>2, Puts DEF Stored
    <3>. QED BY <1>18, <2>2, <3>1 DEF ModePut
  <2>. QED BY <2>1, <2>2
<1>19. ASSUME ClearBootstrap(r) PROVE Types'
  <2>1. CASE PutFails(r)
    BY <1>19, <2>1 DEF ClearBootstrap, PutFails, record
  <2>2. CASE ~PutFails(r)
    <3>1. cfg' \in Config /\ overwrote' \subseteq {"manager", "other"} /\ cfg'.s3Key <= keys
      BY <1>19, <2>2, Puts DEF Stored
    <3>. QED BY <1>19, <2>2, <3>1 DEF ClearBootstrap
  <2>. QED BY <2>1, <2>2
<1>20. ASSUME S3Put(r) PROVE Types'
  <2>1. CASE PutFails(r)
    BY <1>20, <2>1 DEF S3Put, PutFails, record
  <2>2. CASE ~PutFails(r)
    <3>1. cfg' \in Config /\ overwrote' \subseteq {"manager", "other"} /\ cfg'.s3Key <= keys
      <4>1. Stored(r, cp[r].initialized, cp[r].bootstrap, cp[r].tokens, keys)
        BY <1>20, <2>2, Puts
      <4>. QED BY <4>1 DEF Stored
    <3>. QED BY <1>20, <2>2, <3>1 DEF S3Put
  <2>. QED BY <2>1, <2>2
<1>. HIDE DEF Types, ConfigTypeOK, KeyRange, Go, Arrive, Fail, Goto, PCs
<1>. QED
  BY <1>1, <1>2, <1>3, <1>4, <1>5, <1>6, <1>7, <1>8, <1>9, <1>10, <1>11, <1>12, <1>13,
     <1>14, <1>15, <1>16, <1>17, <1>18, <1>19, <1>20 DEF Request, Continue

-----------------------------------------------------------------------------
(* The invariant and what follows from it. *)

LEMMA NextInv == Inv /\ [ConfigNext]_configVars => Inv'
<1>. SUFFICES ASSUME Inv, [ConfigNext]_configVars PROVE Inv'
  OBVIOUS
<1>1. ASSUME NEW r \in Reqs, Request(r) \/ Continue(r) PROVE Inv'
  <2>1. ConfigTypeOK' /\ KeyRange'
    BY <1>1, StepTypes DEF Inv, Types
  <2>. QED
    BY <1>1, <2>1, Copies, Setups, Records, KeyMaking DEF Inv
<1>2. CASE Crash
  <2>1. \A r \in Reqs : pc'[r] = "idle"
    BY <1>2 DEF Crash
  <2>2. ConfigTypeOK'
    BY <1>2, <2>1, ClusterConfigAssumption DEF Crash, Inv, ConfigTypeOK, Fail, PCs, record
  <2>3. KeyRange' /\ SetupInv'
    BY <1>2, <2>1 DEF Crash, Inv, KeyRange, SetupInv, SetupOK, record
  <2>4. CopyInv'
    BY <1>2, <2>1 DEF Crash, Inv, CopyInv, CopyOK, record
  <2>6. RecordInv'
    <3>1. \A r \in Reqs : pc'[r] \notin Locked
      BY <2>1 DEF Locked
    <3>. QED BY <1>2, <3>1, NoPut DEF Crash, Inv, record
  <2>7. S3Inv'
    BY <2>1 DEF S3Inv, MakingKey
  <2>. QED BY <2>2, <2>3, <2>4, <2>6, <2>7 DEF Inv
<1>3. CASE UNCHANGED configVars
  BY <1>3 DEF Inv, configVars, record, ConfigTypeOK, KeyRange, SetupInv, SetupOK, CopyInv, CopyOK,
              RecordInv, MintInv, JoinInv, KeyInv, Spent, Fresh, S3Inv
<1>. QED
  BY <1>1, <1>2, <1>3 DEF ConfigNext

LEMMA InvHolds == ConfigSpec => []Inv
  BY InitInv, NextInv, PTL DEF ConfigSpec

\* Mutexes exclude, key ids exist and the record keeps its shape, whatever
\* requests, failures and crashes there are (cluster.go:57-97, server.go:131-172).
THEOREM ClusterTypes == ConfigSpec => []ConfigTypeOK
<1>1. Inv => ConfigTypeOK
  BY DEF Inv
<1>. QED BY <1>1, InvHolds, PTL

\* An initialized cluster has its admin, its token and its default project,
\* for any number of racing wizards and failures (handlers.go:138-171).
THEOREM SetupCompleteHolds == ConfigSpec => []SetupComplete
<1>1. Inv => SetupComplete
  BY DEF Inv, SetupInv, SetupComplete, Full
<1>. QED BY <1>1, InvHolds, PTL

\* For any number of tokens, requests, failures and crashes, a join token is
\* good for one join as long as no request outside Issue and Consume writes back
\* a stale record: among themselves Manager.mu keeps them apart (cluster.go:74-97).
THEOREM OneJoinPerTokenHolds == ConfigSpec => []OneJoinPerToken
<1>1. Inv => OneJoinPerToken
  <2>. SUFFICES ASSUME Inv, "other" \notin overwrote, NEW t \in Tokens PROVE ~(joins[t] > 1)
    BY DEF OneJoinPerToken
  <2>1. joins[t] = 0 \/ joins[t] = 1
    BY DEF Inv, RecordInv, JoinInv, Spent
  <2>. QED BY <2>1
<1>. QED BY <1>1, InvHolds, PTL

\* The memoised S3 client uses the key on record unless a lost update removed
\* it (server.go:134-172).
THEOREM ClientKeyStoredHolds == ConfigSpec => []ClientKeyStored
<1>1. Inv => ClientKeyStored
  BY DEF Inv, RecordInv, KeyInv, ClientKeyStored
<1>. QED BY <1>1, InvHolds, PTL
=============================================================================
